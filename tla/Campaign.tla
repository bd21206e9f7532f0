------------------------------ MODULE Campaign ------------------------------
(***************************************************************************)
(* Flood protection: the copies of ONE campaign (same tenant, same         *)
(* fingerprint, same day) that the ingest handler works on at the same     *)
(* time.  The first high-confidence copy becomes the campaign's            *)
(* representative quarantine record; the others are counted, and withheld  *)
(* without being stored.  Every SQL statement of the handler is a step.    *)
(***************************************************************************)
EXTENDS Integers, FiniteSets

CONSTANTS
    Copy,       \* the copies of the message
    NoCopy,     \* stands for a NULL reference to a copy
    Classes,    \* what the pipeline may decide about a copy, see AllClasses
    Threshold,  \* policy campaign_threshold
    Action,     \* policy campaign_action
    HasRaw,     \* does each event carry a storable raw message?
    Faults      \* faults the environment may inject, see FaultKinds

FaultKinds == {"crash",   \* a database call fails or the API dies
               "blind",   \* a statement whose error the handler ignores fails
               "slow",    \* the MTA gives up waiting on the API
               "late"}    \* a deep-analysis deadline passes

AllClasses == {"spam",     \* quarantined by a deterministic detection
               "analysis", \* tagged, withheld for deep analysis
               "auth",     \* quarantined, excluded from flood suppression
               "tagged"}   \* delivered

ASSUME CopyAssumption == NoCopy \notin Copy /\ IsFiniteSet(Copy)
ASSUME PolicyAssumption == /\ Threshold \in 2..10000
                           /\ Action \in {"aggregate", "reject", "discard"}
ASSUME InputAssumption == /\ Classes \subseteq AllClasses
                          /\ HasRaw \in BOOLEAN
                          /\ Faults \subseteq FaultKinds

VARIABLES
    \* the ingest request of each copy
    pc,        \* copy -> where its request stands
    class,     \* copy -> what the pipeline decided
    suppress,  \* copy -> suppressDuplicate
    disp,      \* copy -> disposition
    mta,       \* copy -> what the milter did with the original
    \* PostgreSQL
    count,     \* mail_campaigns.message_count
    skipped,   \* mail_campaigns.suppressed_count
    rep,       \* mail_campaigns.representative_quarantine_id
    mailbox,   \* copies with a mailbox_messages row
    original,  \* copies with a mail_log_blobs row
    entries,   \* copies with a quarantine_entries row
    stored,    \* copies with a quarantine_blobs row
    hold,      \* copy -> mail_logs.deep_analysis_state
    scanned,   \* copies whose scans were queued
    \* history
    alerted    \* copies whose quarantine alert was sent

vars == <<pc, class, suppress, disp, mta, count, skipped, rep, mailbox,
          original, entries, stored, hold, scanned, alerted>>

Quarantining == {"spam", "analysis", "auth"}

\* Mutant: challenge and authentication holds are suppressed as well.
ConfidentInAnything(c) == c \in Quarantining

\* highConfidenceCampaign: everything quarantined but challenge and
\* authentication-only holds - deep-analysis holds included.
Confident(c) == c \in {"spam", "analysis"}

Disposition(c) == IF c \in Quarantining THEN "quarantined" ELSE "tagged"

OverThreshold(c, n) == Confident(c) /\ n >= Threshold

\* Mutant: the second copy is suppressed whether there is a representative or not.
SuppressesEarly(c, n, hasRep) == Confident(c) /\ n > 1

\* suppressDuplicate as handle computes it from what recordCampaign returned.
Suppresses(c, n, hasRep) ==
    /\ Confident(c)
    /\ n > 1
    /\ hasRep \/ (n >= Threshold /\ Action # "aggregate")

\* The entries the partial unique index on campaign_id covers.
InCampaign == {m \in entries : Confident(class[m])}
-----------------------------------------------------------------------------
Init ==
    /\ pc = [m \in Copy |-> "decide"]
    /\ class = [m \in Copy |-> "tagged"]
    /\ suppress = [m \in Copy |-> FALSE]
    /\ disp = [m \in Copy |-> "none"]
    /\ mta = [m \in Copy |-> "waiting"]
    /\ count = 0 /\ skipped = 0 /\ rep = NoCopy
    /\ mailbox = {} /\ original = {} /\ entries = {} /\ stored = {}
    /\ hold = [m \in Copy |-> "none"]
    /\ scanned = {} /\ alerted = {}

GoesTo(m, next) == pc' = [pc EXCEPT ![m] = next]

\* The pipeline decides, and recordCampaign's upsert counts the copy and reads
\* whether the campaign has a representative.
RecordsCampaign(m) ==
    /\ pc[m] = "decide"
    /\ \E c \in Classes :
        /\ class' = [class EXCEPT ![m] = c]
        /\ suppress' = [suppress EXCEPT ![m] = Suppresses(c, count + 1, rep # NoCopy)]
        /\ disp' = [disp EXCEPT ![m] =
                        IF OverThreshold(c, count + 1) /\ Action = "reject"
                        THEN "rejected" ELSE Disposition(c)]
    /\ count' = count + 1
    /\ GoesTo(m, "log")
    /\ UNCHANGED <<mta, skipped, rep, mailbox, original, entries, stored, hold,
                   scanned, alerted>>

\* INSERT INTO mail_logs
LogsMail(m) ==
    /\ pc[m] = "log"
    /\ hold' = [hold EXCEPT ![m] = IF class[m] = "analysis" THEN "pending" ELSE "none"]
    /\ GoesTo(m, "mailbox")
    /\ UNCHANGED <<class, suppress, disp, mta, count, skipped, rep, mailbox, original,
                   entries, stored, scanned, alerted>>

\* insertMailboxCopies: only a message that goes on to the recipient.
CopiesToMailbox(m) ==
    /\ pc[m] = "mailbox"
    /\ mailbox' = IF disp[m] = "tagged" THEN mailbox \cup {m} ELSE mailbox
    /\ GoesTo(m, "original")
    /\ UNCHANGED <<class, suppress, disp, mta, count, skipped, rep, original, entries,
                   stored, hold, scanned, alerted>>

\* insertMailLogBlob, skipped for a suppressed copy.
KeepsOriginal(m) == HasRaw /\ ~suppress[m]

StoresOriginal(m) ==
    /\ pc[m] = "original"
    /\ original' = IF KeepsOriginal(m) THEN original \cup {m} ELSE original
    /\ GoesTo(m, IF disp[m] = "quarantined" /\ ~suppress[m] THEN "entry" ELSE "tally")
    /\ UNCHANGED <<class, suppress, disp, mta, count, skipped, rep, mailbox, entries,
                   stored, hold, scanned, alerted>>

\* Mutant: a copy that lost the race is treated as if it had won.
ConflictIgnored(m) == FALSE

\* A second high-confidence entry hits the unique index.
Conflicts(m) == Confident(class[m]) /\ InCampaign # {}

\* INSERT INTO quarantine_entries ... ON CONFLICT DO NOTHING
InsertsEntry(m) ==
    /\ pc[m] = "entry"
    /\ IF Conflicts(m)
       THEN /\ suppress' = [suppress EXCEPT ![m] = TRUE]
            /\ GoesTo(m, "tally")
            /\ UNCHANGED entries
       ELSE /\ entries' = entries \cup {m}
            /\ GoesTo(m, "represent")
            /\ UNCHANGED suppress
    /\ UNCHANGED <<class, disp, mta, count, skipped, rep, mailbox, original, stored,
                   hold, scanned, alerted>>

\* COALESCE(representative_quarantine_id, this entry); its error is ignored.
Represents(m) ==
    /\ pc[m] = "represent"
    /\ \/ rep' = IF rep = NoCopy THEN m ELSE rep
       \/ "blind" \in Faults /\ UNCHANGED rep
    /\ GoesTo(m, "blob")
    /\ UNCHANGED <<class, suppress, disp, mta, count, skipped, mailbox, original,
                   entries, stored, hold, scanned, alerted>>

KeepsBlob == HasRaw

\* insertQuarantineBlob, then the alert; a deep-analysis hold stays silent.
StoresBlob(m) ==
    /\ pc[m] = "blob"
    /\ stored' = IF KeepsBlob THEN stored \cup {m} ELSE stored
    /\ alerted' = IF class[m] = "analysis" THEN alerted ELSE alerted \cup {m}
    /\ GoesTo(m, "tally")
    /\ UNCHANGED <<class, suppress, disp, mta, count, skipped, rep, mailbox, original,
                   entries, hold, scanned>>

Tally(n) == n + 1

\* suppressed_count + 1 for a suppressed copy, its error ignored; spawnScans
\* for any other; then the 202.
Replies(m) ==
    /\ pc[m] = "tally"
    /\ IF suppress[m]
       THEN /\ \/ skipped' = Tally(skipped)
               \/ "blind" \in Faults /\ UNCHANGED skipped
            /\ UNCHANGED scanned
       ELSE /\ scanned' = scanned \cup {m}
            /\ UNCHANGED skipped
    /\ GoesTo(m, "replied")
    /\ UNCHANGED <<class, suppress, disp, mta, count, rep, mailbox, original, entries,
                   stored, hold, alerted>>

\* A 500, the API going down, or - once the MTA has hung up - a statement that
\* fails on the cancelled request context.
RequestDies(m) ==
    /\ "crash" \in Faults \/ mta[m] = "passed"
    /\ pc[m] \notin {"replied", "failed"}
    /\ GoesTo(m, "failed")
    /\ UNCHANGED <<class, suppress, disp, mta, count, skipped, rep, mailbox, original,
                   entries, stored, hold, scanned, alerted>>

\* smg_ingest.lua: the disposition of a 202; on an error nothing is done.
MilterAction(m) ==
    IF pc[m] = "failed" \/ disp[m] = "tagged" THEN "passed"
    ELSE IF disp[m] = "rejected" THEN "rejected"
    ELSE "discarded"

MtaHears(m) ==
    /\ mta[m] = "waiting"
    /\ pc[m] \in {"replied", "failed"}
    /\ mta' = [mta EXCEPT ![m] = MilterAction(m)]
    /\ UNCHANGED <<pc, class, suppress, disp, count, skipped, rep, mailbox, original,
                   entries, stored, hold, scanned, alerted>>

MtaTimesOut(m) ==
    /\ "slow" \in Faults
    /\ mta[m] = "waiting"
    /\ mta' = [mta EXCEPT ![m] = "passed"]
    /\ UNCHANGED <<pc, class, suppress, disp, count, skipped, rep, mailbox, original,
                   entries, stored, hold, scanned, alerted>>

\* The result callbacks of a copy's scans settle its hold (DeepAnalysis).
SettlesHold(m) ==
    /\ hold[m] = "pending" /\ m \in scanned
    /\ hold' = [hold EXCEPT ![m] = "settled"]
    /\ UNCHANGED <<pc, class, suppress, disp, mta, count, skipped, rep, mailbox,
                   original, entries, stored, scanned, alerted>>

\* ResolveExpiredDeepAnalysis, for any hold whose deadline has passed.
ExpiresHold(m) ==
    /\ "late" \in Faults
    /\ hold[m] = "pending"
    /\ hold' = [hold EXCEPT ![m] = "timeout"]
    /\ UNCHANGED <<pc, class, suppress, disp, mta, count, skipped, rep, mailbox,
                   original, entries, stored, scanned, alerted>>
-----------------------------------------------------------------------------
Handle(m) == \/ RecordsCampaign(m) \/ LogsMail(m) \/ CopiesToMailbox(m)
             \/ StoresOriginal(m) \/ InsertsEntry(m) \/ Represents(m)
             \/ StoresBlob(m) \/ Replies(m) \/ RequestDies(m)
Mta(m) == MtaHears(m) \/ MtaTimesOut(m)
Hold(m) == SettlesHold(m) \/ ExpiresHold(m)

Next == \E m \in Copy : Handle(m) \/ Mta(m) \/ Hold(m)

Spec == Init /\ [][Next]_vars
-----------------------------------------------------------------------------
Steps == {"decide", "log", "mailbox", "original", "entry", "represent", "blob",
          "tally", "replied", "failed"}

\* Every variable stays in its domain (the rows of mail_campaigns, mail_logs and
\* quarantine_entries, and the position of each ingest request).
TypeOK ==
    /\ pc \in [Copy -> Steps]
    /\ class \in [Copy -> AllClasses]
    /\ suppress \in [Copy -> BOOLEAN]
    /\ disp \in [Copy -> {"none", "tagged", "quarantined", "rejected"}]
    /\ mta \in [Copy -> {"waiting", "passed", "discarded", "rejected"}]
    /\ count \in Nat /\ skipped \in Nat
    /\ rep \in Copy \cup {NoCopy}
    /\ mailbox \subseteq Copy /\ original \subseteq Copy
    /\ entries \subseteq Copy /\ stored \subseteq Copy
    /\ hold \in [Copy -> {"none", "pending", "settled", "timeout"}]
    /\ scanned \subseteq Copy /\ alerted \subseteq Copy

\* What flood protection is for: what highConfidenceCampaign does not exclude.
Suppressible == {"spam", "analysis"}

\* Whatever the race between copies, a high-confidence campaign opens one
\* investigation: one quarantine record, one alert, one set of scans
\* (suppressDuplicate, and ON CONFLICT DO NOTHING for the copies that lose).
OneInvestigation ==
    \A m, k \in entries \cup scanned \cup alerted :
        class[m] \in Suppressible /\ class[k] \in Suppressible => m = k

\* A copy the milter discarded is not lost: its own original is with a mail
\* log, or that of the campaign's representative record (suppressDuplicate
\* requires a representative, an entry is inserted after its original, and the
\* representative is set after the entry).
DiscardedIsStored ==
    HasRaw => \A m \in Copy : mta[m] = "discarded" =>
        m \in original \/ rep \in entries \cap original

\* A hold that flood protection excludes keeps a record of its own, with its
\* original (highConfidenceCampaign's early returns).
ExcludedKeepsItsRecord ==
    \A m \in Copy : mta[m] = "discarded" /\ class[m] = "auth" =>
        m \in entries /\ (HasRaw => m \in stored)
=============================================================================
