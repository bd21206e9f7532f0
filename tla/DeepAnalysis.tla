---------------------------- MODULE DeepAnalysis ----------------------------
(***************************************************************************)
(* The life of ONE inbound message that the gateway withholds for deep     *)
(* analysis: the ingest handler that persists the hold and queues its      *)
(* scans, the MTA waiting for the answer, the scan workers, the result     *)
(* callbacks that reconcile the hold and release the message, the minute   *)
(* loop that times the hold out, and an operator working on the same       *)
(* quarantine entries.  Every SQL statement, Redis call and SMTP send is a *)
(* step of its own, so all of these interleave as they do in production.   *)
(***************************************************************************)
EXTENDS Integers, FiniteSets

CONSTANTS
    N,         \* number of scans the message gives rise to
    KindOf,    \* scan number -> "ai" | "qr" | "sandbox", in enqueue order
    Worker,    \* scan worker processes
    Serves,    \* worker -> the Redis queue it pops
    HasRaw,    \* does the event carry a storable raw message (<= 8 MiB)?
    Outcomes,  \* results the scans may come back with
    Faults,    \* faults the environment may inject, see FaultKinds
    MaxManual  \* bound on the deliveries an operator makes by hand

FaultKinds == {"crash",   \* a process or connection dies, a DB call fails
               "enqueue", \* INSERT INTO scan_jobs or RPUSH fails
               "smtp",    \* the relay refuses or cannot be reached
               "slow",    \* the MTA or a worker gives up waiting on the API
               "late"}    \* the hold's deadline passes

Results == {"clean", "suspicious", "malicious", "inconclusive", "failed"}

Job == 1..N

ASSUME NAssumption == N \in Nat
ASSUME KindAssumption == KindOf \in [Job -> {"ai", "qr", "sandbox"}]
ASSUME ServesAssumption == Serves \in [Worker -> {"light", "heavy"}]
ASSUME FlagAssumption == /\ HasRaw \in BOOLEAN
                         /\ Outcomes \subseteq Results
                         /\ Faults \subseteq FaultKinds
                         /\ MaxManual \in Nat

VARIABLES
    \* the ingest request and the MTA that waits for it
    ing,      \* program counter of IngestHandler.handle
    nxt,      \* next scan spawnScans will enqueue
    mta,      \* what Rspamd told Postfix to do with the original
    \* PostgreSQL and Redis
    hold,     \* mail_logs.deep_analysis_state ("absent": no row yet)
    why,      \* mail_logs.deep_analysis_failure_reason
    job,      \* scan_jobs: state, or verdict once done
    entry,    \* quarantine_entries of this message, by who inserted them
    blob,     \* the original entry has its raw message stored
    redis,    \* scans whose envelope is in Redis
    \* scan workers and result callbacks
    wk,       \* worker -> scan it is busy with, 0 if idle
    req,      \* scan -> where its worker or its callback request stands
    todo,     \* scan -> entries its callback still has to release
    \* an operator's release request in the quarantine UI
    op,
    \* history
    claimant, \* scan whose callback claimed the release, 0 if none
    autoSent, \* deliveries made by the hold
    manSent   \* deliveries made by hand

vars == <<ing, nxt, mta, hold, why, job, entry, blob, redis,
          wk, req, todo, op, claimant, autoSent, manSent>>

ingestVars == <<ing, nxt, mta>>
workVars   == <<wk, req, todo>>
histVars   == <<claimant, autoSent, manSent>>

\* Entry 0 is the one the ingest handler inserts; entry j > 0 is the one the
\* malicious verdict of scan j inserts.
Entry == 0..N

WorkerSide  == {"popped", "handling"}
ApiSide     == {"report", "read", "count", "threat", "unavailable",
                "claim", "entries", "send", "mark", "giveup"}
ReleaseSide == {"entries", "send", "mark", "giveup"}

\* The queue a scan travels on; one list per worker image.
QueueOf(kind) == IF kind = "sandbox" THEN "heavy" ELSE "light"

Held == {e \in Entry : entry[e] = "held"}

\* The rows a SELECT on scan_jobs sees.
Rows == {j \in Job : job[j] # "absent"}

Finished == {"clean", "suspicious", "malicious", "inconclusive", "failed"}
ThreatVerdicts == {"suspicious", "malicious"}
UncleanVerdicts == {"inconclusive", "failed"}

\* Mutant: the AI score is not required and failed scans do not count.
DecisionLenient(rows) ==
    IF \E j \in rows : job[j] \in ThreatVerdicts THEN "threat"
    ELSE IF \E j \in rows : job[j] \notin Finished THEN "ended"
    ELSE "claim"

\* reconcileDeepAnalysis's decision over the rows it counted.
Decision(rows) ==
    IF \E j \in rows : job[j] \in ThreatVerdicts THEN "threat"
    ELSE IF \E j \in rows : job[j] \notin Finished THEN "ended"
    ELSE IF \/ \A j \in rows : KindOf[j] # "ai"
            \/ \E j \in rows : job[j] \in UncleanVerdicts
         THEN "unavailable"
    ELSE "claim"
-----------------------------------------------------------------------------
Init ==
    /\ ing = "log" /\ nxt = 1 /\ mta = "waiting"
    /\ hold = "absent" /\ why = "none"
    /\ job = [j \in Job |-> "absent"]
    /\ entry = [e \in Entry |-> "absent"]
    /\ blob = FALSE
    /\ redis = {}
    /\ wk = [w \in Worker |-> 0]
    /\ req = [j \in Job |-> "none"]
    /\ todo = [j \in Job |-> {}]
    /\ op = "idle"
    /\ claimant = 0 /\ autoSent = 0 /\ manSent = 0
-----------------------------------------------------------------------------
\* Ingest: IngestHandler.handle, from the mail_logs INSERT to the 202.  Once
\* the MTA has gone the request context is cancelled, so any later database
\* or Redis call may fail as well.
CallFails(kind) == kind \in Faults \/ mta = "passed"

LogsMail ==
    /\ ing = "log"
    /\ hold' = "pending"
    /\ ing' = "entry"
    /\ UNCHANGED <<nxt, mta, why, job, entry, blob, redis, workVars, op, histVars>>

InsertsEntry ==
    /\ ing = "entry"
    /\ entry' = [entry EXCEPT ![0] = "held"]
    /\ ing' = "blob"
    /\ UNCHANGED <<nxt, mta, hold, why, job, blob, redis, workVars, op, histVars>>

\* Mutant: the message is never stored.
NeverStores == FALSE

\* insertQuarantineBlob silently stores nothing when the event carries no raw
\* message, or one above maxRawMessageBytes.
StoresRaw == HasRaw

InsertsBlob ==
    /\ ing = "blob"
    /\ blob' = StoresRaw
    /\ ing' = "insert"
    /\ UNCHANGED <<nxt, mta, hold, why, job, entry, redis, workVars, op, histVars>>

MoreScans == nxt <= N

\* spawnScans, one enqueue per scan: the row first, then the Redis envelope.
InsertsJob ==
    /\ ing = "insert" /\ MoreScans
    /\ job' = [job EXCEPT ![nxt] = "queued"]
    /\ ing' = "push"
    /\ UNCHANGED <<nxt, mta, hold, why, entry, blob, redis, workVars, op, histVars>>

PushesJob ==
    /\ ing = "push"
    /\ redis' = redis \cup {nxt}
    /\ nxt' = nxt + 1
    /\ ing' = "insert"
    /\ UNCHANGED <<mta, hold, why, job, entry, blob, workVars, op, histVars>>

\* A failed INSERT or RPUSH is only reported in the response; the loop goes on.
EnqueueFails ==
    /\ CallFails("enqueue")
    /\ ing \in {"insert", "push"} /\ MoreScans
    /\ nxt' = nxt + 1
    /\ ing' = "insert"
    /\ UNCHANGED <<mta, hold, why, job, entry, blob, redis, workVars, op, histVars>>

Replies ==
    /\ ing = "insert" /\ ~MoreScans
    /\ ing' = "replied"
    /\ UNCHANGED <<nxt, mta, hold, why, job, entry, blob, redis, workVars, op, histVars>>

\* A 500 from one of the inserts, or the API going down mid-request.
IngestDies ==
    /\ CallFails("crash")
    /\ ing \in {"log", "entry", "blob", "insert", "push"}
    /\ ing' = "failed"
    /\ UNCHANGED <<nxt, mta, hold, why, job, entry, blob, redis, workVars, op, histVars>>

\* Mutant: the milter discards on an API error too.
MilterFailsClosed(pc) == "discarded"

\* smg_ingest.lua: a 202 saying "quarantined" discards the original; an error
\* leaves Rspamd's own action, so Postfix delivers it.
MilterAction(pc) == IF pc = "replied" THEN "discarded" ELSE "passed"

MtaHears ==
    /\ mta = "waiting"
    /\ ing \in {"replied", "failed"}
    /\ mta' = MilterAction(ing)
    /\ UNCHANGED <<ing, nxt, hold, why, job, entry, blob, redis, workVars, op, histVars>>

\* The 8 s timeout of the milter's POST.
MtaTimesOut ==
    /\ "slow" \in Faults
    /\ mta = "waiting"
    /\ mta' = "passed"
    /\ UNCHANGED <<ing, nxt, hold, why, job, entry, blob, redis, workVars, op, histVars>>
-----------------------------------------------------------------------------
\* Scan workers (worker.py).  BLPOP takes the envelope off the list for good.
Pops(w) ==
    /\ wk[w] = 0
    /\ \E j \in redis :
        /\ QueueOf(KindOf[j]) = Serves[w]
        /\ \A k \in redis : QueueOf(KindOf[k]) = Serves[w] => j <= k
        /\ redis' = redis \ {j}
        /\ wk' = [wk EXCEPT ![w] = j]
        /\ req' = [req EXCEPT ![j] = "popped"]
    /\ UNCHANGED <<ingestVars, hold, why, job, entry, blob, todo, op, histVars>>

\* post_result(scan_id, "running")
Starts(j) ==
    /\ req[j] = "popped"
    /\ job' = [job EXCEPT ![j] = "running"]
    /\ req' = [req EXCEPT ![j] = "handling"]
    /\ UNCHANGED <<ingestVars, hold, why, entry, blob, redis, wk, todo, op, histVars>>

\* The callback has been answered, or the worker stopped waiting for it.
WorkerFree(w) ==
    /\ wk[w] # 0
    /\ \/ req[wk[w]] = "ended"
       \/ "slow" \in Faults /\ req[wk[w]] \in ApiSide
    /\ wk' = [wk EXCEPT ![w] = 0]
    /\ UNCHANGED <<ingestVars, hold, why, job, entry, blob, redis, req, todo, op, histVars>>
-----------------------------------------------------------------------------
\* The result callback, Handler.workerResult: the UPDATE of scan_jobs, then
\* RecordFromScan for a reportable verdict, then reconcileDeepAnalysis.
StoresResult(j) ==
    /\ req[j] = "handling"
    /\ \E r \in Outcomes :
        /\ job' = [job EXCEPT ![j] = r]
        /\ req' = [req EXCEPT ![j] = IF r = "malicious" THEN "report" ELSE "read"]
    /\ UNCHANGED <<ingestVars, hold, why, entry, blob, redis, wk, todo, op, histVars>>

\* Mutant: the NOT EXISTS is gone.
AlwaysNeedsCopy == TRUE

NeedsCopy == Held = {}

\* RecordFromScan's transaction: the mail is logged as quarantined, so the
\* recipient gets a held entry unless there is one already.
RecordsThreat(j) ==
    /\ req[j] = "report"
    /\ entry' = IF NeedsCopy THEN [entry EXCEPT ![j] = "held"] ELSE entry
    /\ req' = [req EXCEPT ![j] = "read"]
    /\ UNCHANGED <<ingestVars, hold, why, job, blob, redis, wk, todo, op, histVars>>

\* reconcileDeepAnalysis: read the state, count the rows, act on the count.
ReadsHold(j) ==
    /\ req[j] = "read"
    /\ req' = [req EXCEPT ![j] = IF hold = "pending" THEN "count" ELSE "ended"]
    /\ UNCHANGED <<ingestVars, hold, why, job, entry, blob, redis, wk, todo, op, histVars>>

CountsScans(j) ==
    /\ req[j] = "count"
    /\ req' = [req EXCEPT ![j] = Decision(Rows)]
    /\ UNCHANGED <<ingestVars, hold, why, job, entry, blob, redis, wk, todo, op, histVars>>

\* Mutant: the UPDATE does not look at the state.
ResolvedAnyway(to) == to

\* UPDATE mail_logs SET deep_analysis_state = to ... AND state = 'pending'
Resolved(to) == IF hold = "pending" THEN to ELSE hold

Condemns(j) ==
    /\ req[j] = "threat"
    /\ hold' = Resolved("threat")
    /\ why' = IF hold = "pending" THEN "none" ELSE why
    /\ req' = [req EXCEPT ![j] = "ended"]
    /\ UNCHANGED <<ingestVars, job, entry, blob, redis, wk, todo, op, histVars>>

Abandons(j) ==
    /\ req[j] = "unavailable"
    /\ hold' = Resolved("unavailable")
    /\ why' = IF hold = "pending" THEN "scans" ELSE why
    /\ req' = [req EXCEPT ![j] = "ended"]
    /\ UNCHANGED <<ingestVars, job, entry, blob, redis, wk, todo, op, histVars>>

\* Mutant: a claim already taken is taken again.
WinsAnyClaim == hold \in {"pending", "releasing"}

\* The claim, and its RowsAffected check.
WinsClaim == hold = "pending"

Claims(j) ==
    /\ req[j] = "claim"
    /\ IF WinsClaim
       THEN /\ hold' = "releasing"
            /\ claimant' = j
            /\ req' = [req EXCEPT ![j] = "entries"]
       ELSE /\ req' = [req EXCEPT ![j] = "ended"]
            /\ UNCHANGED <<hold, claimant>>
    /\ UNCHANGED <<ingestVars, why, job, entry, blob, redis, wk, todo, op, autoSent, manSent>>

\* quarantine.ReleaseDeepAnalysisHold: select the held entries, then send and
\* mark them one by one.
SelectsEntries(j) ==
    /\ req[j] = "entries"
    /\ todo' = [todo EXCEPT ![j] = Held]
    /\ req' = [req EXCEPT ![j] = "send"]
    /\ UNCHANGED <<ingestVars, hold, why, job, entry, blob, redis, wk, op, histVars>>

Stored(e) == e = 0 /\ blob

Sends(j) ==
    /\ req[j] = "send"
    /\ \E e \in todo[j] : Stored(e)
    /\ autoSent' = autoSent + 1
    /\ req' = [req EXCEPT ![j] = "mark"]
    /\ UNCHANGED <<ingestVars, hold, why, job, entry, blob, redis, wk, todo, op, claimant, manSent>>

SendFails(j) ==
    /\ req[j] = "send"
    /\ todo[j] # {}
    /\ "smtp" \in Faults \/ \E e \in todo[j] : ~Stored(e)
    /\ req' = [req EXCEPT ![j] = "giveup"]
    /\ UNCHANGED <<ingestVars, hold, why, job, entry, blob, redis, wk, todo, op, histVars>>

\* Mutant: the release is not recorded.
MarkForgotten(state) == state

\* UPDATE quarantine_entries SET state = 'released' ... AND state = 'held'
Marked(state) == IF state = "held" THEN "released" ELSE state

Marks(j) ==
    /\ req[j] = "mark"
    /\ entry' = [entry EXCEPT ![0] = Marked(@)]
    /\ todo' = [todo EXCEPT ![j] = @ \ {0}]
    /\ req' = [req EXCEPT ![j] = "send"]
    /\ UNCHANGED <<ingestVars, hold, why, job, blob, redis, wk, op, histVars>>

StillReleasing == hold = "releasing"

Finishes(j) ==
    /\ req[j] = "send" /\ todo[j] = {}
    /\ hold' = IF StillReleasing THEN "released" ELSE hold
    /\ why' = IF StillReleasing THEN "none" ELSE why
    /\ req' = [req EXCEPT ![j] = "ended"]
    /\ UNCHANGED <<ingestVars, job, entry, blob, redis, wk, todo, op, histVars>>

GivesUp(j) ==
    /\ req[j] = "giveup"
    /\ hold' = IF StillReleasing THEN "unavailable" ELSE hold
    /\ why' = IF StillReleasing THEN "delivery" ELSE why
    /\ req' = [req EXCEPT ![j] = "ended"]
    /\ UNCHANGED <<ingestVars, job, entry, blob, redis, wk, todo, op, histVars>>

\* The worker or the API process dies, or a database call of the request
\* fails - which it may once the worker has closed the connection.
Dies(j) ==
    /\ \/ "crash" \in Faults /\ req[j] \in WorkerSide \cup ApiSide
       \/ req[j] \in ApiSide /\ \A w \in Worker : wk[w] # j
    /\ req' = [req EXCEPT ![j] = "ended"]
    /\ UNCHANGED <<ingestVars, hold, why, job, entry, blob, redis, wk, todo, op, histVars>>
-----------------------------------------------------------------------------
\* Mutant: an interrupted release never times out.
ExpirablePendingOnly == {"pending"}

Expirable == {"pending", "releasing"}

\* ResolveExpiredDeepAnalysis, run every minute.
ExpiresHold ==
    /\ "late" \in Faults
    /\ hold \in Expirable
    /\ hold' = "unavailable"
    /\ why' = "timeout"
    /\ UNCHANGED <<ingestVars, job, entry, blob, redis, workVars, op, histVars>>

\* An operator's release: the state is checked, the message sent, and the
\* entry marked by an UPDATE that does not look at the state again.
OpRelease ==
    /\ op = "idle" /\ manSent < MaxManual
    /\ entry[0] = "held" /\ blob
    /\ op' = "send"
    /\ UNCHANGED <<ingestVars, hold, why, job, entry, blob, redis, workVars, histVars>>

OpSends ==
    /\ op = "send"
    /\ manSent' = manSent + 1
    /\ op' = "mark"
    /\ UNCHANGED <<ingestVars, hold, why, job, entry, blob, redis, workVars, claimant, autoSent>>

OpMarks ==
    /\ op = "mark"
    /\ entry' = [entry EXCEPT ![0] = "released"]
    /\ op' = "idle"
    /\ UNCHANGED <<ingestVars, hold, why, job, blob, redis, workVars, histVars>>

OpFails ==
    /\ \/ op = "send" /\ "smtp" \in Faults
       \/ op = "mark" /\ "crash" \in Faults
    /\ op' = "idle"
    /\ UNCHANGED <<ingestVars, hold, why, job, entry, blob, redis, workVars, histVars>>

\* del's UPDATE does not look at the state either.
OpDeletes ==
    /\ op = "idle" /\ MaxManual > 0
    /\ \E e \in Entry :
        /\ entry[e] \in {"held", "released"}
        /\ entry' = [entry EXCEPT ![e] = "deleted"]
    /\ UNCHANGED <<ingestVars, hold, why, job, blob, redis, workVars, op, histVars>>
-----------------------------------------------------------------------------
Ingest == \/ LogsMail \/ InsertsEntry \/ InsertsBlob \/ InsertsJob \/ PushesJob
          \/ EnqueueFails \/ Replies \/ IngestDies
Mta == MtaHears \/ MtaTimesOut
WorkerStep(w) == Pops(w) \/ WorkerFree(w)
Release(j) == \/ SelectsEntries(j) \/ Sends(j) \/ SendFails(j) \/ Marks(j)
              \/ Finishes(j) \/ GivesUp(j)
Callback(j) == \/ Starts(j) \/ StoresResult(j) \/ RecordsThreat(j) \/ ReadsHold(j)
               \/ CountsScans(j) \/ Condemns(j) \/ Abandons(j) \/ Claims(j)
               \/ Release(j) \/ Dies(j)
Operator == OpRelease \/ OpSends \/ OpMarks \/ OpFails \/ OpDeletes

Next == \/ Ingest \/ Mta \/ ExpiresHold \/ Operator
        \/ \E w \in Worker : WorkerStep(w)
        \/ \E j \in Job : Callback(j)

Spec == Init /\ [][Next]_vars

\* The API, the workers and the minute loop keep running; the operator and
\* the sender owe nothing.
Fairness == /\ WF_vars(Ingest) /\ WF_vars(Mta) /\ WF_vars(ExpiresHold)
            /\ \A w \in Worker : WF_vars(WorkerStep(w))
            /\ \A j \in Job : WF_vars(Callback(j))

FairSpec == Spec /\ Fairness
-----------------------------------------------------------------------------
HoldStates  == {"absent", "pending", "releasing", "released", "threat", "unavailable"}
EntryStates == {"absent", "held", "released", "deleted"}

\* Every variable stays in its domain (mail_logs, scan_jobs, quarantine_entries
\* and the program counters of the handlers).
TypeOK ==
    /\ ing \in {"log", "entry", "blob", "insert", "push", "replied", "failed"}
    /\ nxt \in 1..(N + 1)
    /\ ing = "push" => nxt <= N
    /\ mta \in {"waiting", "discarded", "passed"}
    /\ hold \in HoldStates
    /\ why \in {"none", "scans", "timeout", "delivery"}
    /\ job \in [Job -> {"absent", "queued", "running"} \cup Finished]
    /\ entry \in [Entry -> EntryStates]
    /\ blob \in BOOLEAN
    /\ redis \in SUBSET Job
    /\ wk \in [Worker -> 0..N]
    /\ req \in [Job -> {"none", "ended"} \cup WorkerSide \cup ApiSide]
    /\ todo \in [Job -> SUBSET Entry]
    /\ op \in {"idle", "send", "mark"}
    /\ claimant \in 0..N
    /\ autoSent \in Nat
    /\ manSent \in Nat

\* The hold delivers a message at most once, however the callbacks, the
\* timeout and the operator interleave (scan.go's claim, then
\* ReleaseDeepAnalysisHold's select-send-mark loop).
DeliversOnce == autoSent <= 1

\* A claimed release rests on a clean AI verdict, and every scan enqueued up
\* to the one whose callback claimed it came back clean or was never stored
\* (reconcileDeepAnalysis counts before it claims).
ReleaseRestsOnCleanScans ==
    claimant # 0 => /\ \E k \in Job : KindOf[k] = "ai" /\ job[k] = "clean"
                    /\ \A k \in 1..claimant : job[k] \in {"absent", "clean"}

\* RecordFromScan never gives the recipient a second held copy.
OneHeldCopy == Cardinality(Held) <= 1

\* When the milter has discarded the original, the gateway holds the only
\* copy: it is still held with its bytes, or it was sent, or somebody
\* deleted it.
DiscardedIsKept ==
    mta = "discarded" /\ HasRaw =>
        blob /\ (entry[0] = "held" \/ autoSent + manSent > 0 \/ entry[0] = "deleted")

\* deep_analysis_state = 'released' leaves nothing of the original held: it
\* was sent, by the hold or by hand, or deleted.
ReleasedIsDone ==
    hold = "released" => /\ entry[0] \in {"released", "deleted"}
                         /\ entry[0] = "released" => autoSent + manSent > 0

\* Every hold is eventually settled: by its callbacks or by its deadline.
HoldSettles == hold = "pending" ~> hold \in {"threat", "unavailable", "released"}

\* A message whose scans all come back clean reaches the recipient (the claim
\* and ReleaseDeepAnalysisHold, when nothing fails).
CleanMailArrives ==
    hold = "pending" ~> autoSent = 1 \/ \E j \in Job : job[j] \in Results \ {"clean"}

\* The hold implements the abstract one.
Abstract == INSTANCE MailHold WITH stage <- hold, claimed <- claimant # 0,
                                   delivered <- autoSent > 0
ImplementsHold == Abstract!HSpec
=============================================================================
