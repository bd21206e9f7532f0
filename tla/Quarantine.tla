------------------------------ MODULE Quarantine ------------------------------
(***************************************************************************)
(* Working off the quarantine: API requests and background bulk jobs that   *)
(* release, judge, block or delete the held copies of one mail log at the   *)
(* same time, the log of sent mail every release writes, an administrator's *)
(* resend from that log, the sender rules some of these requests leave      *)
(* behind, and retention purging entries underneath.  Each SQL statement    *)
(* and each SMTP hand-off is a step.                                        *)
(***************************************************************************)
EXTENDS Naturals

CONSTANTS
    Request,   \* requests that may run at the same time
    Entry,     \* quarantine entries of the mail log, one per recipient
    NoEntry,   \* a request that has not loaded an entry
    Domain,    \* key of the rule for the sender's whole domain
    Bytes,     \* entries with a stored message
    Pending,   \* entries held for challenge approval
    Account,   \* entry -> state of the recipient's account, see Accounts
    Expiring,  \* entries that retention may purge
    Kinds,     \* what the requests may ask for, see AllKinds
    Faults     \* faults the environment may inject, see FaultKinds

Accounts == {"active", "inactive", "none"}
AllKinds == {"release",    \* quarantine: release, bulk release
             "notSpam",    \* quarantine: not spam
             "verdict",    \* quarantine: verdict, bulk mark
             "block",      \* quarantine: block the sender's domain, bulk block
             "delete",     \* quarantine: delete, bulk delete
             "logRelease", \* mail logs: release held copies
             "logNotSpam", \* mail logs: not spam
             "logBlock",   \* mail logs: block the sender's domain
             "logDelete",  \* mail logs: delete held copies
             "resend"}     \* sent emails: resend
FaultKinds == {"gateway", \* no usable gateway leads to the recipient's server
               "smtp",    \* the relay refuses or cannot be reached
               "ack",     \* the relay accepts, but its answer is lost
               "db"}      \* a statement fails, or the process dies

ASSUME KeyAssumption == NoEntry \notin Entry /\ Domain \notin Entry
ASSUME MailAssumption == /\ Bytes \subseteq Entry
                         /\ Pending \subseteq Entry
                         /\ Expiring \subseteq Entry
                         /\ Account \in [Entry -> Accounts]
ASSUME InputAssumption == Kinds \subseteq AllKinds /\ Faults \subseteq FaultKinds

VARIABLES
    state,    \* quarantine_entries.state, "purged" once the row is gone
    rules,    \* list_entries for this sender: <<recipient or Domain, action>>
    log,      \* sent_emails: <<request, entry>> -> status of that send's row
    pc,       \* request -> where its handler stands
    kind,     \* request -> what it asks for
    left,     \* request -> entries it has not looked at
    cur,      \* request -> the entry it works on
    relayed,  \* history: the sends the relay accepted
    asked,    \* history: request -> entries it was asked to release
    failed    \* history: the entries a release has counted as failed

vars == <<state, rules, log, pc, kind, left, cur, relayed, asked, failed>>

Send == Request \X Entry

\* One request works on several entries: bulk actions, and everything the
\* mail log screen does.
Bulk == {"release", "verdict", "block", "delete"}
OnLog == {"logRelease", "logNotSpam", "logBlock", "logDelete"}
Releasing == {"release", "logRelease", "logNotSpam"}

Held == {e \in Entry : state[e] = "held"}
Exists(e) == state[e] # "purged"

Init ==
    /\ state = [e \in Entry |-> "held"]
    /\ rules = {}
    /\ log = [x \in Send |-> "none"]
    /\ pc = [r \in Request |-> "idle"]
    /\ kind = [r \in Request |-> "release"]
    /\ left = [r \in Request |-> {}]
    /\ cur = [r \in Request |-> NoEntry]
    /\ relayed = {}
    /\ asked = [r \in Request |-> {}]
    /\ failed = {}

GoesTo(r, step) == pc' = [pc EXCEPT ![r] = step]

\* A handler that is over keeps nothing.
Ends(r, step) ==
    /\ GoesTo(r, step)
    /\ kind' = [kind EXCEPT ![r] = "release"]
    /\ left' = [left EXCEPT ![r] = {}]
    /\ cur' = [cur EXCEPT ![r] = NoEntry]

\* A release counts the entries it gives up: result.Failed, or the error it
\* answers with.
Counts(r, e, wrong) ==
    failed' = IF wrong /\ kind[r] = "release" THEN failed \cup {<<r, e>>} ELSE failed
-----------------------------------------------------------------------------
\* A request arrives.  The mail log screen works on the copies held right now,
\* and stores its rule for the domain before it touches them.
Arrives(r) ==
    /\ pc[r] = "idle"
    /\ \E k \in Kinds \ {"resend"}, es \in SUBSET Entry :
        /\ IF k \in OnLog THEN es = Held ELSE es # {}
        /\ k \notin Bulk \cup OnLog => \E e \in Entry : es = {e}
        /\ kind' = [kind EXCEPT ![r] = k]
        /\ left' = [left EXCEPT ![r] = es]
        /\ asked' = [asked EXCEPT ![r] = IF k = "release" THEN es ELSE {}]
        /\ GoesTo(r, IF k \in {"logNotSpam", "logBlock"} THEN "forget" ELSE "next")
    /\ UNCHANGED <<state, rules, log, cur, relayed, failed>>

\* An administrator resends what any row of the sent mail log holds.
AsksToResend(r) ==
    /\ pc[r] = "idle" /\ "resend" \in Kinds
    /\ \E x \in Send :
        /\ log[x] # "none"
        /\ cur' = [cur EXCEPT ![r] = x[2]]
    /\ kind' = [kind EXCEPT ![r] = "resend"]
    /\ GoesTo(r, "log")
    /\ UNCHANGED <<state, rules, log, left, relayed, asked, failed>>

\* Mutant: the bulk release does not look at the state it loaded.
ReleasableWhateverState(e) == Exists(e)

Releasable(e) == state[e] = "held"

\* recordChallengeApproval: whom a release of pending mail approves.
AfterRelease(k, e) ==
    IF ~Releasable(e) THEN "next"
    ELSE IF k # "release" \/ e \notin Pending \/ Account[e] = "none" THEN "read"
    ELSE IF Account[e] = "active" THEN "forget"
    ELSE "next"

AfterNotSpam(e) ==
    IF ~Releasable(e) THEN "forget"
    ELSE IF e \in Bytes THEN "read"
    ELSE "next"

\* Where a handler goes with the entry it has loaded.
Step(k, e) ==
    IF ~Exists(e) THEN "next"
    ELSE IF k \in Releasing THEN AfterRelease(k, e)
    ELSE IF k = "notSpam" THEN AfterNotSpam(e)
    ELSE IF k = "block" THEN "forget"
    ELSE "update"

Loads(r) ==
    /\ pc[r] = "next"
    /\ \E e \in left[r] :
        /\ cur' = [cur EXCEPT ![r] = e]
        /\ left' = [left EXCEPT ![r] = @ \ {e}]
        /\ \/ /\ GoesTo(r, Step(kind[r], e))
              /\ Counts(r, e, Step(kind[r], e) = "next")
           \/ /\ "db" \in Faults \* a failing look-up of the reason is no challenge
              /\ kind[r] = "release" /\ Releasable(e)
              /\ GoesTo(r, "read")
              /\ UNCHANGED failed
    /\ UNCHANGED <<state, rules, log, kind, relayed, asked>>

Answers(r) ==
    /\ pc[r] = "next" /\ left[r] = {}
    /\ Ends(r, "done")
    /\ UNCHANGED <<state, rules, log, relayed, asked, failed>>
-----------------------------------------------------------------------------
\* A sender decision replaces the earlier one: a DELETE, then an INSERT.
RuleKey(r) == IF kind[r] = "release" THEN cur[r] ELSE Domain
RuleAction(r) == IF kind[r] \in {"block", "logBlock"} THEN "block" ELSE "allow"

Forgets(r) ==
    /\ pc[r] = "forget"
    /\ rules' = {rule \in rules : rule[1] # RuleKey(r)}
    /\ GoesTo(r, "decide")
    /\ UNCHANGED <<state, log, kind, left, cur, relayed, asked, failed>>

AfterDecision(k) ==
    IF k = "release" THEN "read" ELSE IF k = "block" THEN "update" ELSE "next"

Decides(r) ==
    /\ pc[r] = "decide"
    /\ rules' = rules \cup {<<RuleKey(r), RuleAction(r)>>}
    /\ GoesTo(r, AfterDecision(kind[r]))
    /\ UNCHANGED <<state, log, kind, left, cur, relayed, asked, failed>>
-----------------------------------------------------------------------------
\* releaseMessage: the stored bytes, then the gateway to send them through.
\* Without either the entry is given up, and nothing is written anywhere.
Reads(r) ==
    /\ pc[r] = "read"
    /\ \/ /\ Exists(cur[r]) /\ cur[r] \in Bytes
          /\ GoesTo(r, "log")
          /\ UNCHANGED failed
       \/ /\ "gateway" \in Faults \/ ~Exists(cur[r]) \/ cur[r] \notin Bytes
          /\ GoesTo(r, "next")
          /\ Counts(r, cur[r], TRUE)
    /\ UNCHANGED <<state, rules, log, kind, left, cur, relayed, asked>>

\* sentemails.Send begins with InsertPending.  Its foreign key fails once the entry is purged; Send carries
\* on without a row, resend does not.
Logs(r) ==
    /\ pc[r] = "log"
    /\ \/ /\ Exists(cur[r]) \/ kind[r] = "resend"
          /\ log' = [log EXCEPT ![<<r, cur[r]>>] = "pending"]
          /\ GoesTo(r, "send")
       \/ /\ "db" \in Faults \/ ~Exists(cur[r])
          /\ GoesTo(r, IF kind[r] = "resend" THEN "next" ELSE "send")
          /\ UNCHANGED log
    /\ UNCHANGED <<state, rules, kind, left, cur, relayed, asked, failed>>

\* What the handler makes of the relay's answer.
Sends(r) ==
    /\ pc[r] = "send"
    /\ \/ /\ relayed' = relayed \cup {<<r, cur[r]>>}
          /\ GoesTo(r, "accepted")
       \/ /\ "smtp" \in Faults
          /\ GoesTo(r, "refused")
          /\ UNCHANGED relayed
       \/ /\ "ack" \in Faults
          /\ relayed' = relayed \cup {<<r, cur[r]>>}
          /\ GoesTo(r, "refused")
    /\ UNCHANGED <<state, rules, log, kind, left, cur, asked, failed>>

\* Mutant: the row is finished as sent whatever the relay said.
StatusAlwaysSent(step) == "sent"

Status(step) == IF step = "accepted" THEN "sent" ELSE "failed"

\* Mutant: the release is recorded although the hand-off failed.
MarkAnyway(k, step) == IF k = "resend" THEN "next" ELSE "mark"

AfterSend(k, step) == IF k # "resend" /\ step = "accepted" THEN "mark" ELSE "next"

\* Finish; its error is ignored, the relay's is what Send returns.
FinishesRow(r) ==
    /\ pc[r] \in {"accepted", "refused"}
    /\ \/ log' = [log EXCEPT ![<<r, cur[r]>>] =
                     IF @ = "pending" THEN Status(pc[r]) ELSE @]
       \/ "db" \in Faults /\ UNCHANGED log
    /\ Counts(r, cur[r], pc[r] = "refused")
    /\ GoesTo(r, AfterSend(kind[r], pc[r]))
    /\ UNCHANGED <<state, rules, kind, left, cur, relayed, asked>>

\* UPDATE ... SET state = 'released' WHERE id = ...
Marks(r) ==
    /\ pc[r] = "mark"
    /\ state' = [state EXCEPT ![cur[r]] = IF @ = "purged" THEN @ ELSE "released"]
    /\ GoesTo(r, IF kind[r] = "notSpam" THEN "forget" ELSE "next")
    /\ UNCHANGED <<rules, log, kind, left, cur, relayed, asked, failed>>
-----------------------------------------------------------------------------
\* Mutant: a verdict deletes the entry whatever its state.
CondemnsAny(k, s) == IF s = "purged" THEN s ELSE "deleted"

\* Only delete's UPDATE does not ask for a held entry.
Condemned(k, s) ==
    IF s = "held" \/ (k = "delete" /\ s = "released") THEN "deleted" ELSE s

Updates(r) ==
    /\ pc[r] = "update"
    /\ state' = [state EXCEPT ![cur[r]] = Condemned(kind[r], @)]
    /\ GoesTo(r, "next")
    /\ UNCHANGED <<rules, log, kind, left, cur, relayed, asked, failed>>

\* Mutant: a bulk action stops at the first entry that fails.
NothingLeft(r) == {}

\* The bulk loop goes on with the other entries; not so a request whose rule
\* could not be stored before its loop.
LeftAfterFailure(r) ==
    IF kind[r] \in OnLog /\ pc[r] \in {"forget", "decide"} THEN {} ELSE left[r]

\* The SELECT of the next entry fails, or the one of its recipient's account.
FailsToLoad(r) ==
    /\ "db" \in Faults
    /\ pc[r] = "next"
    /\ \E e \in left[r] :
        /\ left' = [left EXCEPT ![r] = @ \ {e}]
        /\ Counts(r, e, TRUE)
    /\ UNCHANGED <<state, rules, log, pc, kind, cur, relayed, asked>>

\* A later statement fails: the entry is given up.
Fails(r) ==
    /\ "db" \in Faults
    /\ pc[r] \in {"forget", "decide", "read", "mark", "update"}
    /\ left' = [left EXCEPT ![r] = LeftAfterFailure(r)]
    /\ Counts(r, cur[r], TRUE)
    /\ GoesTo(r, "next")
    /\ UNCHANGED <<state, rules, log, kind, cur, relayed, asked>>

\* The process dies, or a background job runs into its time limit.
Dies(r) ==
    /\ "db" \in Faults
    /\ pc[r] \notin {"idle", "done", "dead"}
    /\ Ends(r, "dead")
    /\ UNCHANGED <<state, rules, log, relayed, asked, failed>>

\* Retention deletes the entry and its stored message.
Purges(e) ==
    /\ e \in Expiring /\ Exists(e)
    /\ state' = [state EXCEPT ![e] = "purged"]
    /\ UNCHANGED <<rules, log, pc, kind, left, cur, relayed, asked, failed>>
-----------------------------------------------------------------------------
Handle(r) == \/ Loads(r) \/ Answers(r) \/ Forgets(r) \/ Decides(r) \/ Reads(r)
             \/ Logs(r) \/ Sends(r) \/ FinishesRow(r) \/ Marks(r) \/ Updates(r)
             \/ FailsToLoad(r) \/ Fails(r) \/ Dies(r)

Next == \/ \E r \in Request : Arrives(r) \/ AsksToResend(r) \/ Handle(r)
        \/ \E e \in Entry : Purges(e)

Spec == Init /\ [][Next]_vars
-----------------------------------------------------------------------------
Steps == {"idle", "next", "forget", "decide", "read", "log", "send", "accepted",
          "refused", "mark", "update", "done", "dead"}

\* Every variable stays in its domain (the rows of quarantine_entries,
\* list_entries and sent_emails, and the position of each request).
TypeOK ==
    /\ state \in [Entry -> {"held", "released", "deleted", "purged"}]
    /\ rules \subseteq (Entry \cup {Domain}) \X {"allow", "block"}
    /\ log \in [Send -> {"none", "pending", "sent", "failed"}]
    /\ pc \in [Request -> Steps]
    /\ kind \in [Request -> AllKinds]
    /\ left \in [Request -> SUBSET Entry]
    /\ cur \in [Request -> Entry \cup {NoEntry}]
    /\ relayed \subseteq Send
    /\ asked \in [Request -> SUBSET Entry]
    /\ failed \subseteq Request \X (Entry \cup {NoEntry})

\* An entry shown as released was handed to the recipient's mail server
\* (release, notSpam, applyBulkAction and ReleaseHeldForRecipient update the
\* row only after releaseMessage has returned without an error).
ReleasedWasRelayed ==
    \A e \in Entry : state[e] = "released" => \E r \in Request : <<r, e>> \in relayed

\* The sent mail log never claims more than what happened: a row that says
\* "sent" was accepted by the relay (sentemails.Send and resend).
LogTellsTruth == \A x \in Send : log[x] = "sent" => x \in relayed

\* A request that may still hand the entry to the relay.
Carries(r, e) ==
    /\ cur[r] = e /\ kind[r] # "resend"
    /\ \/ pc[r] \in {"read", "log", "send"}
       \/ pc[r] \in {"forget", "decide"} /\ kind[r] = "release"

Quiet(e) == state[e] # "held" /\ \A r \in Request : ~Carries(r, e)

\* Once an entry has left the held state and the requests that had already
\* loaded it are through, no release ever sends it again - whatever else is
\* done with it (the state check of each handler, on the row it loads).
QuietStays == [][\A e \in Entry : Quiet(e) => Quiet(e)']_vars

\* Judging or blocking a message somebody has released meanwhile does not take
\* the released copy away: only an explicit delete does (the CASE in
\* recordQuarantineVerdict, the WHERE in DeleteHeldForRecipient).
VerdictSparesReleased ==
    [][\A e \in Entry : state[e] = "released" /\ state'[e] = "deleted" =>
            \E r \in Request : kind[r] = "delete" /\ pc[r] = "update" /\ cur[r] = e]_vars

\* What a release request does not count as failed, it delivered: when it has
\* answered, every entry it was asked for was counted as failed, or was accepted
\* by the relay on behalf of this very request and is held no more.  An entry
\* that fails does not keep the loop from the others (runBulkAction, release).
ReleaseAccounts ==
    \A r \in Request : pc[r] = "done" =>
        \A e \in asked[r] :
            \/ <<r, e>> \in failed
            \/ <<r, e>> \in relayed /\ state[e] # "held"
=============================================================================
