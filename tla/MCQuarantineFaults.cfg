SPECIFICATION Spec
CONSTANTS
    r1 = r1
    r2 = r2
    plain = plain
    pending = pending
    Request = {r1, r2}
    Entry = {plain, pending}
    NoEntry = noEntry
    Domain = domain
    Bytes = {plain, pending}
    Pending = {pending}
    Account <- MCAccount
    Expiring = {plain}
    Kinds = {"release", "notSpam", "verdict", "delete", "logBlock", "resend"}
    Faults = {"gateway", "smtp", "ack", "db"}
SYMMETRY RequestSymmetry
INVARIANT ReleasedWasRelayed
INVARIANT LogTellsTruth
INVARIANT ReleaseAccounts
PROPERTY QuietStays
PROPERTY VerdictSparesReleased
CHECK_DEADLOCK FALSE
