-------------------------- MODULE QuarantineProofs --------------------------
(***************************************************************************)
(* TLAPS proofs about Quarantine, for any number of concurrent requests and *)
(* entries, any stored messages and accounts, and any set of faults.        *)
(***************************************************************************)
EXTENDS Quarantine, TLAPS

\* A handler that works on an entry has loaded one.
WorksOnEntry ==
    \A r \in Request :
        /\ pc[r] \in {"read", "log", "send", "accepted", "refused", "mark",
           "update"}
               => cur[r] \in Entry
        /\ pc[r] \in {"forget", "decide"} /\ kind[r] \in {"release", "block"}
               => cur[r] \in Entry

TypeInv == TypeOK /\ WorksOnEntry

\* Where a handler can go with the entry it has loaded.
LEMMA StepGoesTo ==
    ASSUME NEW k, NEW e
    PROVE  Step(k, e) \in {"next", "forget", "read", "update"}
  BY DEF Step, AfterRelease, AfterNotSpam

LEMMA UpdateStays ==
    ASSUME NEW S, NEW V, NEW f \in [S -> V], NEW x, NEW v \in V
    PROVE  [f EXCEPT ![x] = IF @ = "pending" THEN v ELSE @] \in [S -> V]
  OBVIOUS

LEMMA InitTypeInv == Init => TypeInv
  BY DEF Init, TypeInv, TypeOK, WorksOnEntry, AllKinds, Steps

LEMMA StepTypeInv == TypeInv /\ [Next]_vars => TypeInv'
<1> SUFFICES ASSUME TypeInv, [Next]_vars PROVE TypeInv'
  OBVIOUS
<1> USE KeyAssumption, InputAssumption
      DEF KeyAssumption, InputAssumption, TypeInv, TypeOK, WorksOnEntry, AllKinds,
          Steps, Send, Bulk, OnLog
<1>1. ASSUME NEW r \in Request, Arrives(r) PROVE TypeInv'
  BY <1>1 DEF Arrives, GoesTo
<1>2. ASSUME NEW r \in Request, AsksToResend(r) PROVE TypeInv'
  BY <1>2 DEF AsksToResend, GoesTo
<1>3. ASSUME NEW r \in Request, Loads(r) PROVE TypeInv'
  <2>1. PICK e \in left[r] : /\ cur' = [cur EXCEPT ![r] = e]
                             /\ left' = [left EXCEPT ![r] = @ \ {e}]
                             /\ \/ pc' = [pc EXCEPT ![r] = Step(kind[r], e)]
                                \/ pc' = [pc EXCEPT ![r] = "read"]
                             /\ failed' \subseteq failed \cup {<<r, e>>}
    BY <1>3 DEF Loads, Counts, GoesTo
  <2>2. pc'[r] \in {"next", "forget", "read", "update"}
    BY <2>1, StepGoesTo
  <2>3. \A q \in Request : q # r => pc'[q] = pc[q] /\ cur'[q] = cur[q]
    BY <2>1
  <2>4. pc' \in [Request -> Steps] /\ cur' \in [Request -> Entry \cup {NoEntry}]
        /\ left' \in [Request -> SUBSET Entry] /\ cur'[r] \in Entry
    BY <2>1, StepGoesTo
  <2>5. QED
    BY <1>3, <2>1, <2>2, <2>3, <2>4 DEF Loads
<1>4. ASSUME NEW r \in Request, Answers(r) PROVE TypeInv'
  BY <1>4 DEF Answers, Ends, GoesTo
<1>5. ASSUME NEW r \in Request, Forgets(r) PROVE TypeInv'
  BY <1>5 DEF Forgets, GoesTo
<1>6. ASSUME NEW r \in Request, Decides(r) PROVE TypeInv'
  BY <1>6 DEF Decides, RuleKey, RuleAction, AfterDecision, GoesTo
<1>7. ASSUME NEW r \in Request, Reads(r) PROVE TypeInv'
  BY <1>7 DEF Reads, Exists, Counts, GoesTo
<1>8. ASSUME NEW r \in Request, Logs(r) PROVE TypeInv'
  <2>1. cur[r] \in Entry /\ <<r, cur[r]>> \in Send
    BY <1>8 DEF Logs
  <2>2. log' \in [Send -> {"none", "pending", "sent", "failed"}]
    BY <1>8, <2>1 DEF Logs
  <2>3. WorksOnEntry'
    BY <1>8, <2>1 DEF Logs, GoesTo
  <2>4. pc' \in [Request -> Steps]
    BY <1>8 DEF Logs, GoesTo
  <2>5. QED
    BY <1>8, <2>2, <2>3, <2>4 DEF Logs
<1>9. ASSUME NEW r \in Request, Sends(r) PROVE TypeInv'
  <2>1. cur[r] \in Entry /\ <<r, cur[r]>> \in Send
    BY <1>9 DEF Sends
  <2>2. QED
    BY <1>9, <2>1 DEF Sends, GoesTo
<1>10. ASSUME NEW r \in Request, FinishesRow(r) PROVE TypeInv'
  <2>1. log' \in [Send -> {"none", "pending", "sent", "failed"}]
    <3>1. Status(pc[r]) \in {"none", "pending", "sent", "failed"}
      BY DEF Status
    <3>2. \/ log' = [log EXCEPT ![<<r, cur[r]>>] =
                       IF @ = "pending" THEN Status(pc[r]) ELSE @]
          \/ log' = log
      BY <1>10, Zenon DEF FinishesRow
    <3>3. [log EXCEPT ![<<r, cur[r]>>] = IF @ = "pending" THEN Status(pc[r]) ELSE @]
            \in [Send -> {"none", "pending", "sent", "failed"}]
      BY <3>1, UpdateStays
    <3>4. QED
      BY <3>2, <3>3
  <2>2. failed' \subseteq Request \X (Entry \cup {NoEntry})
    BY <1>10 DEF FinishesRow, Counts
  <2>3. pc' \in [Request -> Steps] /\ WorksOnEntry'
    BY <1>10 DEF FinishesRow, AfterSend, GoesTo
  <2>4. QED
    BY <1>10, <2>1, <2>2, <2>3 DEF FinishesRow
<1>11. ASSUME NEW r \in Request, Marks(r) PROVE TypeInv'
  BY <1>11 DEF Marks, GoesTo
<1>12. ASSUME NEW r \in Request, Updates(r) PROVE TypeInv'
  BY <1>12 DEF Updates, Condemned, GoesTo
<1>13. ASSUME NEW r \in Request, Fails(r) PROVE TypeInv'
  BY <1>13 DEF Fails, LeftAfterFailure, Counts, GoesTo
<1>14. ASSUME NEW r \in Request, Dies(r) PROVE TypeInv'
  BY <1>14 DEF Dies, Ends, GoesTo
<1>15. ASSUME NEW e \in Entry, Purges(e) PROVE TypeInv'
  BY <1>15 DEF Purges, Exists
<1>16. ASSUME NEW r \in Request, FailsToLoad(r) PROVE TypeInv'
  BY <1>16 DEF FailsToLoad, Counts
<1>17. CASE UNCHANGED vars
  BY <1>17 DEF vars
<1> HIDE DEF TypeInv
<1>18. QED
  BY <1>1, <1>2, <1>3, <1>4, <1>5, <1>6, <1>7, <1>8, <1>9, <1>10, <1>11, <1>12,
     <1>13, <1>14, <1>15, <1>16, <1>17
     DEF Next, Handle

\* Every variable of the quarantine stays in its domain, for any number of
\* requests and entries.
THEOREM TypeCorrect == Spec => []TypeOK
<1>1. TypeInv => TypeOK
  BY DEF TypeInv
<1>2. QED
  BY <1>1, InitTypeInv, StepTypeInv, PTL DEF Spec
-----------------------------------------------------------------------------
(***************************************************************************)
(* What the gateway says it sent, it sent.  Between the relay's answer and  *)
(* the UPDATE of the entry the knowledge that the relay accepted is only in *)
(* the position of the handler, which the invariant adds.                   *)
(***************************************************************************)
AcceptedWasRelayed ==
    \A r \in Request : pc[r] \in {"accepted", "mark"} => <<r, cur[r]>> \in relayed

Truth == ReleasedWasRelayed /\ LogTellsTruth /\ AcceptedWasRelayed
TruthInv == TypeInv /\ Truth

LEMMA TruthInit == Init => TruthInv
  BY InitTypeInv DEF Init, TruthInv, Truth, ReleasedWasRelayed, LogTellsTruth,
     AcceptedWasRelayed

LEMMA TruthStep == TruthInv /\ [Next]_vars => TruthInv'
<1> SUFFICES ASSUME TruthInv, [Next]_vars PROVE TruthInv'
  OBVIOUS
<1>1. TypeInv'
  BY StepTypeInv DEF TruthInv
<1>2. Truth'
  <2> USE DEF TruthInv, TypeInv, TypeOK, WorksOnEntry, Truth, ReleasedWasRelayed,
              LogTellsTruth, AcceptedWasRelayed, Send
  <2>1. ASSUME NEW r \in Request, Arrives(r) PROVE Truth'
    <3>1. pc'[r] \in {"forget", "next"} /\ \A q \in Request : q # r => pc'[q] = pc[q]
      BY <2>1 DEF Arrives, GoesTo
    <3>2. UNCHANGED <<state, log, relayed, cur>>
      BY <2>1 DEF Arrives
    <3>3. QED
      BY <3>1, <3>2
  <2>2. ASSUME NEW r \in Request, AsksToResend(r) PROVE Truth'
    BY <2>2 DEF AsksToResend, GoesTo
  <2>3. ASSUME NEW r \in Request, Loads(r) PROVE Truth'
    <3>1. PICK e \in left[r] : /\ cur' = [cur EXCEPT ![r] = e]
                               /\ \/ pc' = [pc EXCEPT ![r] = Step(kind[r], e)]
                                  \/ pc' = [pc EXCEPT ![r] = "read"]
      BY <2>3 DEF Loads, GoesTo
    <3>2. pc'[r] \notin {"accepted", "mark"}
      <4>1. Step(kind[r], e) \notin {"accepted", "mark"}
        BY StepGoesTo
      <4>2. pc'[r] = Step(kind[r], e) \/ pc'[r] = "read"
        BY <3>1
      <4>3. QED
        BY <4>1, <4>2
    <3>3. \A q \in Request : q # r => pc'[q] = pc[q] /\ cur'[q] = cur[q]
      BY <3>1
    <3>4. QED
      BY <2>3, <3>2, <3>3 DEF Loads
  <2>4. ASSUME NEW r \in Request, Answers(r) PROVE Truth'
    BY <2>4 DEF Answers, Ends, GoesTo
  <2>5. ASSUME NEW r \in Request, Forgets(r) PROVE Truth'
    BY <2>5 DEF Forgets, GoesTo
  <2>6. ASSUME NEW r \in Request, Decides(r) PROVE Truth'
    BY <2>6 DEF Decides, RuleKey, RuleAction, AfterDecision, GoesTo
  <2>7. ASSUME NEW r \in Request, Reads(r) PROVE Truth'
    BY <2>7 DEF Reads, GoesTo
  <2>8. ASSUME NEW r \in Request, Logs(r) PROVE Truth'
    <3>1. pc'[r] \in {"send", "next"} /\ \A q \in Request : q # r => pc'[q] = pc[q]
      BY <2>8 DEF Logs, GoesTo
    <3>2. \A x \in Send : log'[x] = "sent" => log[x] = "sent"
      BY <2>8 DEF Logs
    <3>3. UNCHANGED <<state, relayed, cur>>
      BY <2>8 DEF Logs
    <3>4. QED
      BY <3>1, <3>2, <3>3
  <2>9. ASSUME NEW r \in Request, Sends(r) PROVE Truth'
    BY <2>9 DEF Sends, GoesTo
  <2>10. ASSUME NEW r \in Request, FinishesRow(r) PROVE Truth'
    <3>1. /\ pc'[r] = "mark" => pc[r] = "accepted"
          /\ pc'[r] # "accepted"
          /\ \A q \in Request : q # r => pc'[q] = pc[q]
      BY <2>10 DEF FinishesRow, AfterSend, GoesTo
    <3>2. \A x \in Send : log'[x] = "sent" =>
              log[x] = "sent" \/ (x = <<r, cur[r]>> /\ pc[r] = "accepted")
      BY <2>10 DEF FinishesRow, Status
    <3>3. UNCHANGED <<state, relayed, cur>>
      BY <2>10 DEF FinishesRow
    <3>4. QED
      BY <3>1, <3>2, <3>3
  <2>11. ASSUME NEW r \in Request, Marks(r) PROVE Truth'
    BY <2>11 DEF Marks, GoesTo
  <2>12. ASSUME NEW r \in Request, Updates(r) PROVE Truth'
    BY <2>12 DEF Updates, Condemned, GoesTo
  <2>13. ASSUME NEW r \in Request, Fails(r) PROVE Truth'
    BY <2>13 DEF Fails, LeftAfterFailure, Counts, GoesTo
  <2>14. ASSUME NEW r \in Request, Dies(r) PROVE Truth'
    BY <2>14 DEF Dies, Ends, GoesTo
  <2>15. ASSUME NEW e \in Entry, Purges(e) PROVE Truth'
    BY <2>15 DEF Purges, Exists
  <2>16. ASSUME NEW r \in Request, FailsToLoad(r) PROVE Truth'
    BY <2>16 DEF FailsToLoad
  <2>17. CASE UNCHANGED vars
    BY <2>17 DEF vars
  <2> HIDE DEF Truth
  <2>18. QED
    BY <2>1, <2>2, <2>3, <2>4, <2>5, <2>6, <2>7, <2>8, <2>9, <2>10, <2>11, <2>12,
       <2>13, <2>14, <2>15, <2>16, <2>17
       DEF Next, Handle
<1>3. QED
  BY <1>1, <1>2 DEF TruthInv

\* An entry shown as released was handed to the recipient's mail server: no
\* interleaving of releases, deletes, verdicts, purges and failures breaks it.
THEOREM ReleasedMeansRelayed == Spec => []ReleasedWasRelayed
<1>1. TruthInv => ReleasedWasRelayed
  BY DEF TruthInv, Truth
<1>2. QED
  BY <1>1, TruthInit, TruthStep, PTL DEF Spec

\* A row of the sent mail log that says "sent" was accepted by the relay.
THEOREM SentMeansRelayed == Spec => []LogTellsTruth
<1>1. TruthInv => LogTellsTruth
  BY DEF TruthInv, Truth
<1>2. QED
  BY <1>1, TruthInit, TruthStep, PTL DEF Spec
-----------------------------------------------------------------------------
(***************************************************************************)
(* No release comes back.                                                   *)
(***************************************************************************)
LEMMA QuietStep ==
    TypeInv /\ [Next]_vars => \A e \in Entry : Quiet(e) => Quiet(e)'
<1> SUFFICES ASSUME TypeInv, [Next]_vars, NEW x \in Entry, Quiet(x) PROVE Quiet(x)'
  OBVIOUS
<1> USE DEF TypeInv, TypeOK, WorksOnEntry, Quiet, Carries
<1>1. ASSUME NEW r \in Request, Arrives(r) PROVE Quiet(x)'
  BY <1>1 DEF Arrives, GoesTo, Bulk, OnLog
<1>2. ASSUME NEW r \in Request, AsksToResend(r) PROVE Quiet(x)'
  BY <1>2 DEF AsksToResend, GoesTo
<1>3. ASSUME NEW r \in Request, Loads(r) PROVE Quiet(x)'
  BY <1>3 DEF Loads, Step, AfterRelease, Releasable, AfterNotSpam, Exists,
     Releasing, GoesTo
<1>4. ASSUME NEW r \in Request, Answers(r) PROVE Quiet(x)'
  BY <1>4 DEF Answers, Ends, GoesTo
<1>5. ASSUME NEW r \in Request, Forgets(r) PROVE Quiet(x)'
  BY <1>5 DEF Forgets, GoesTo
<1>6. ASSUME NEW r \in Request, Decides(r) PROVE Quiet(x)'
  BY <1>6 DEF Decides, RuleKey, RuleAction, AfterDecision, GoesTo
<1>7. ASSUME NEW r \in Request, Reads(r) PROVE Quiet(x)'
  BY <1>7 DEF Reads, GoesTo
<1>8. ASSUME NEW r \in Request, Logs(r) PROVE Quiet(x)'
  BY <1>8 DEF Logs, GoesTo
<1>9. ASSUME NEW r \in Request, Sends(r) PROVE Quiet(x)'
  BY <1>9 DEF Sends, GoesTo
<1>10. ASSUME NEW r \in Request, FinishesRow(r) PROVE Quiet(x)'
  BY <1>10 DEF FinishesRow, Status, AfterSend, GoesTo
<1>11. ASSUME NEW r \in Request, Marks(r) PROVE Quiet(x)'
  BY <1>11 DEF Marks, GoesTo
<1>12. ASSUME NEW r \in Request, Updates(r) PROVE Quiet(x)'
  BY <1>12 DEF Updates, Condemned, GoesTo
<1>13. ASSUME NEW r \in Request, Fails(r) PROVE Quiet(x)'
  BY <1>13 DEF Fails, LeftAfterFailure, Counts, GoesTo
<1>14. ASSUME NEW r \in Request, Dies(r) PROVE Quiet(x)'
  BY <1>14 DEF Dies, Ends, GoesTo
<1>15. ASSUME NEW e \in Entry, Purges(e) PROVE Quiet(x)'
  BY <1>15 DEF Purges, Exists
<1>16. ASSUME NEW r \in Request, FailsToLoad(r) PROVE Quiet(x)'
  BY <1>16 DEF FailsToLoad, Counts
<1>17. CASE UNCHANGED vars
  BY <1>17 DEF vars
<1> HIDE DEF Quiet
<1>18. QED
  BY <1>1, <1>2, <1>3, <1>4, <1>5, <1>6, <1>7, <1>8, <1>9, <1>10, <1>11, <1>12,
     <1>13, <1>14, <1>15, <1>16, <1>17
     DEF Next, Handle

\* Once an entry has left the held state and nobody who loaded it before is
\* still at work, no release will ever send it again.
THEOREM NoReleaseComesBack == Spec => QuietStays
<1>1. TypeInv /\ [Next]_vars => [\A e \in Entry : Quiet(e) => Quiet(e)']_vars
  BY QuietStep
<1>2. QED
  BY <1>1, InitTypeInv, StepTypeInv, PTL DEF Spec, QuietStays
-----------------------------------------------------------------------------
(***************************************************************************)
(* Only a delete takes away what has been released.                         *)
(***************************************************************************)
LEMMA SpareStep ==
    ASSUME TypeInv, [Next]_vars, NEW e \in Entry,
           state[e] = "released", state'[e] = "deleted"
    PROVE  \E r \in Request : kind[r] = "delete" /\ pc[r] = "update" /\ cur[r] = e
<1>1. state' # state
  OBVIOUS
<1>2. \/ \E r \in Request : Marks(r) \/ Updates(r)
      \/ \E x \in Entry : Purges(x)
  <2>1. ASSUME NEW r \in Request,
               \/ Arrives(r) \/ AsksToResend(r) \/ Loads(r) \/ Answers(r) \/ Forgets(r)
               \/ Decides(r) \/ Reads(r) \/ Logs(r) \/ Sends(r) \/ FinishesRow(r)
               \/ FailsToLoad(r) \/ Fails(r) \/ Dies(r)
        PROVE  state' = state
    BY <2>1 DEF Arrives, AsksToResend, Loads, Answers, Forgets, Decides, Reads, Logs,
                Sends, FinishesRow, FailsToLoad, Fails, Dies
  <2>2. ~UNCHANGED vars
    BY <1>1 DEF vars
  <2>3. QED
    BY <1>1, <2>1, <2>2 DEF Next, Handle
<1>3. ASSUME NEW r \in Request, Marks(r) PROVE FALSE
  BY <1>3 DEF Marks, TypeInv, TypeOK
<1>4. ASSUME NEW x \in Entry, Purges(x) PROVE FALSE
  BY <1>4 DEF Purges, TypeInv, TypeOK
<1>5. ASSUME NEW r \in Request, Updates(r)
      PROVE  kind[r] = "delete" /\ pc[r] = "update" /\ cur[r] = e
  BY <1>5 DEF Updates, Condemned, TypeInv, TypeOK
<1>6. QED
  BY <1>2, <1>3, <1>4, <1>5

\* Judging or blocking a message never takes away a copy that somebody has
\* released meanwhile: only the UPDATE of a delete request does.
THEOREM ReleasedIsSpared == Spec => VerdictSparesReleased
<1>1. TypeInv /\ [Next]_vars =>
        [\A e \in Entry : state[e] = "released" /\ state'[e] = "deleted" =>
            \E r \in Request : kind[r] = "delete" /\ pc[r] = "update" /\ cur[r] = e]_vars
  BY SpareStep
<1>2. QED
  BY <1>1, InitTypeInv, StepTypeInv, PTL DEF Spec, VerdictSparesReleased
-----------------------------------------------------------------------------
(***************************************************************************)
(* A release request accounts for what it was asked.  Until it is over an   *)
(* entry may still be ahead of it, or be the one it works on; what it is    *)
(* through with it counted as failed, or the relay has it and the row says  *)
(* so.                                                                      *)
(***************************************************************************)
Accounted(r, e) ==
    \/ <<r, e>> \in failed
    \/ <<r, e>> \in relayed /\ state[e] # "held"

Busy(r) == pc[r] \in {"forget", "decide", "read", "log", "send", "accepted", "refused",
                      "mark"}

Ahead(r, e) == pc[r] = "dead" \/ e \in left[r] \/ (cur[r] = e /\ Busy(r))

AskInv ==
    \A r \in Request :
        /\ pc[r] = "idle" => asked[r] = {}
        /\ asked[r] # {} => kind[r] = "release"
        /\ \A e \in asked[r] : Ahead(r, e) \/ Accounted(r, e)
        /\ pc[r] = "done" => left[r] = {}

LEMMA AskInit == Init => AskInv
  BY DEF Init, AskInv

\* What is accounted for stays accounted for: nothing is held again.
LEMMA AccountedStays ==
    ASSUME TypeInv, [Next]_vars, NEW r \in Request, NEW e \in Entry, Accounted(r, e)
    PROVE  Accounted(r, e)'
<1> USE DEF Accounted, TypeInv, TypeOK
<1>1. ASSUME NEW q \in Request, Arrives(q) \/ AsksToResend(q) PROVE Accounted(r, e)'
  BY <1>1 DEF Arrives, AsksToResend
<1>2. ASSUME NEW q \in Request, Loads(q) \/ FailsToLoad(q) \/ Answers(q) PROVE Accounted(r, e)'
  BY <1>2 DEF Loads, FailsToLoad, Answers, Counts
<1>3. ASSUME NEW q \in Request, Forgets(q) \/ Decides(q) \/ Reads(q) PROVE Accounted(r, e)'
  BY <1>3 DEF Forgets, Decides, Reads, Counts
<1>4. ASSUME NEW q \in Request, Logs(q) \/ Sends(q) \/ FinishesRow(q) PROVE Accounted(r, e)'
  BY <1>4 DEF Logs, Sends, FinishesRow, Counts
<1>5. ASSUME NEW q \in Request, Marks(q) PROVE Accounted(r, e)'
  BY <1>5 DEF Marks
<1>6. ASSUME NEW q \in Request, Updates(q) PROVE Accounted(r, e)'
  BY <1>6 DEF Updates, Condemned
<1>7. ASSUME NEW q \in Request, Fails(q) \/ Dies(q) PROVE Accounted(r, e)'
  BY <1>7 DEF Fails, Dies, Counts
<1>8. ASSUME NEW x \in Entry, Purges(x) PROVE Accounted(r, e)'
  BY <1>8 DEF Purges
<1>9. CASE UNCHANGED vars
  BY <1>9 DEF vars
<1> HIDE DEF Accounted
<1>10. QED
  BY <1>1, <1>2, <1>3, <1>4, <1>5, <1>6, <1>7, <1>8, <1>9 DEF Next, Handle

\* A step that moves one request only, and leaves that request's entries ahead
\* of it or accounts for them, keeps the books.
LEMMA OneMoves ==
    ASSUME TypeInv, AskInv, [Next]_vars, NEW r \in Request,
           UNCHANGED <<kind, asked>>,
           \A q \in Request : q # r =>
               pc'[q] = pc[q] /\ left'[q] = left[q] /\ cur'[q] = cur[q],
           pc[r] # "idle" /\ pc'[r] # "idle",
           pc'[r] = "done" => left'[r] = {},
           \A e \in asked[r] : Ahead(r, e) => Ahead(r, e)' \/ Accounted(r, e)'
    PROVE  AskInv'
<1>1. asked \in [Request -> SUBSET Entry]
  BY DEF TypeInv, TypeOK
<1>2. ASSUME NEW q \in Request, NEW e \in asked[q] PROVE Ahead(q, e)' \/ Accounted(q, e)'
  <2>1. e \in Entry
    BY <1>1
  <2>2. Ahead(q, e) \/ Accounted(q, e)
    BY DEF AskInv
  <2>3. CASE Accounted(q, e)
    BY <2>1, <2>3, AccountedStays
  <2>4. CASE Ahead(q, e) /\ q # r
    BY <2>4 DEF Ahead, Busy
  <2>5. CASE Ahead(q, e) /\ q = r
    BY <2>5
  <2>6. QED
    BY <2>2, <2>3, <2>4, <2>5
<1>3. \A q \in Request : /\ pc'[q] = "idle" => asked'[q] = {}
                         /\ asked'[q] # {} => kind'[q] = "release"
                         /\ pc'[q] = "done" => left'[q] = {}
  BY DEF AskInv
<1>4. QED
  BY <1>2, <1>3 DEF AskInv

LEMMA AskStep == TruthInv /\ AskInv /\ [Next]_vars => AskInv'
<1> SUFFICES ASSUME TruthInv, AskInv, [Next]_vars PROVE AskInv'
  OBVIOUS
<1>t. TypeInv
  BY DEF TruthInv
<1> USE <1>t DEF TypeInv, TypeOK
<1>1. ASSUME NEW r \in Request, Arrives(r) PROVE AskInv'
  BY <1>1 DEF Arrives, Bulk, OnLog, GoesTo, AskInv, Ahead, Busy, Accounted
<1>2. ASSUME NEW r \in Request, AsksToResend(r) PROVE AskInv'
  BY <1>2 DEF AsksToResend, GoesTo, AskInv, Ahead, Busy, Accounted
<1>3. ASSUME NEW r \in Request, Loads(r) PROVE AskInv'
  <2>1. PICK e \in left[r] :
           /\ cur' = [cur EXCEPT ![r] = e]
           /\ left' = [left EXCEPT ![r] = @ \ {e}]
           /\ \/ /\ pc' = [pc EXCEPT ![r] = Step(kind[r], e)]
                 /\ Counts(r, e, Step(kind[r], e) = "next")
              \/ pc' = [pc EXCEPT ![r] = "read"]
    BY <1>3 DEF Loads, GoesTo
  <2>2. pc[r] = "next" /\ pc'[r] \in {"next", "forget", "read", "update"}
    BY <1>3, <2>1, StepGoesTo DEF Loads
  <2>3. /\ \A q \in Request : q # r =>
              pc'[q] = pc[q] /\ left'[q] = left[q] /\ cur'[q] = cur[q]
        /\ cur'[r] = e /\ left'[r] = left[r] \ {e}
    BY <2>1
  <2>4. kind[r] = "release" => pc'[r] \in {"forget", "read"} \/ <<r, e>> \in failed'
    <3>1. kind[r] = "release" => Step(kind[r], e) \in {"next", "forget", "read"}
      BY DEF Step, Releasing, AfterRelease
    <3>2. QED
      BY <2>1, <3>1 DEF Counts
  <2>5. \A x \in asked[r] : Ahead(r, x) => Ahead(r, x)' \/ Accounted(r, x)'
    BY <2>2, <2>3, <2>4 DEF AskInv, Ahead, Busy, Accounted
  <2>6. UNCHANGED <<kind, asked>>
    BY <1>3 DEF Loads
  <2>7. QED
    BY <2>2, <2>3, <2>5, <2>6, OneMoves
<1>4. ASSUME NEW r \in Request, Answers(r) PROVE AskInv'
  BY <1>4 DEF Answers, Ends, GoesTo, AskInv, Ahead, Busy, Accounted
<1>5. ASSUME NEW r \in Request, Forgets(r) \/ Decides(r) \/ Logs(r) \/ Sends(r) PROVE AskInv'
  <2>1. /\ pc[r] \in {"forget", "decide", "log", "send"}
        /\ pc'[r] \in {"decide", "read", "update", "next", "send", "accepted", "refused"}
        /\ kind[r] = "release" => pc'[r] \in {"decide", "read", "send", "accepted", "refused"}
        /\ \A q \in Request : q # r => pc'[q] = pc[q]
    BY <1>5 DEF Forgets, Decides, AfterDecision, Logs, Sends, GoesTo
  <2>2. UNCHANGED <<kind, left, cur, asked>>
    BY <1>5 DEF Forgets, Decides, Logs, Sends
  <2>3. \A e \in asked[r] : Ahead(r, e) => Ahead(r, e)' \/ Accounted(r, e)'
    BY <2>1, <2>2 DEF AskInv, Ahead, Busy
  <2>4. QED
    BY <2>1, <2>2, <2>3, OneMoves
<1>6. ASSUME NEW r \in Request, Reads(r) PROVE AskInv'
  <2>1. /\ pc[r] = "read" /\ UNCHANGED <<kind, left, cur, asked>>
        /\ \/ pc' = [pc EXCEPT ![r] = "log"]
           \/ pc' = [pc EXCEPT ![r] = "next"] /\ Counts(r, cur[r], TRUE)
    BY <1>6 DEF Reads, GoesTo
  <2>2. \A e \in asked[r] : Ahead(r, e) => Ahead(r, e)' \/ Accounted(r, e)'
    BY <2>1 DEF AskInv, Ahead, Busy, Accounted, Counts
  <2>3. QED
    BY <2>1, <2>2, OneMoves
<1>7. ASSUME NEW r \in Request, FinishesRow(r) PROVE AskInv'
  <2>1. /\ pc[r] \in {"accepted", "refused"} /\ UNCHANGED <<kind, left, cur, asked>>
        /\ pc' = [pc EXCEPT ![r] = AfterSend(kind[r], pc[r])]
        /\ Counts(r, cur[r], pc[r] = "refused")
    BY <1>7 DEF FinishesRow, GoesTo
  <2>2. kind[r] = "release" => pc'[r] = "mark" \/ <<r, cur[r]>> \in failed'
    BY <2>1 DEF AfterSend, Counts
  <2>3. pc'[r] \in {"mark", "next"} /\ \A q \in Request : q # r => pc'[q] = pc[q]
    BY <2>1 DEF AfterSend
  <2>4. \A e \in asked[r] : Ahead(r, e) => Ahead(r, e)' \/ Accounted(r, e)'
    BY <2>1, <2>2, <2>3 DEF AskInv, Ahead, Busy, Accounted
  <2>5. QED
    BY <2>1, <2>3, <2>4, OneMoves
<1>8. ASSUME NEW r \in Request, Marks(r) PROVE AskInv'
  <2>1. /\ pc[r] = "mark" /\ UNCHANGED <<kind, left, cur, asked, relayed>>
        /\ pc'[r] \in {"forget", "next"} /\ \A q \in Request : q # r => pc'[q] = pc[q]
    BY <1>8 DEF Marks, GoesTo
  <2>2. <<r, cur[r]>> \in relayed /\ cur[r] \in Entry
    BY <2>1 DEF TruthInv, Truth, AcceptedWasRelayed, WorksOnEntry
  <2>3. state'[cur[r]] # "held"
    BY <1>8, <2>2 DEF Marks
  <2>4. \A e \in asked[r] : Ahead(r, e) => Ahead(r, e)' \/ Accounted(r, e)'
    BY <2>1, <2>2, <2>3 DEF Ahead, Busy, Accounted
  <2>5. QED
    BY <2>1, <2>4, OneMoves
<1>9. ASSUME NEW r \in Request, Updates(r) PROVE AskInv'
  <2>1. /\ pc[r] = "update" /\ UNCHANGED <<kind, left, cur, asked>>
        /\ pc' = [pc EXCEPT ![r] = "next"]
    BY <1>9 DEF Updates, GoesTo
  <2>2. \A e \in asked[r] : Ahead(r, e) => Ahead(r, e)' \/ Accounted(r, e)'
    BY <2>1 DEF Ahead, Busy
  <2>3. QED
    BY <2>1, <2>2, OneMoves
<1>10. ASSUME NEW r \in Request, FailsToLoad(r) PROVE AskInv'
  <2>1. PICK e \in left[r] : /\ left' = [left EXCEPT ![r] = @ \ {e}]
                             /\ Counts(r, e, TRUE)
    BY <1>10 DEF FailsToLoad
  <2>2. pc[r] = "next" /\ UNCHANGED <<pc, kind, cur, asked>>
    BY <1>10 DEF FailsToLoad
  <2>3. \A x \in asked[r] : Ahead(r, x) => Ahead(r, x)' \/ Accounted(r, x)'
    BY <2>1, <2>2 DEF AskInv, Ahead, Busy, Accounted, Counts
  <2>4. QED
    BY <2>1, <2>2, <2>3, OneMoves
<1>11. ASSUME NEW r \in Request, Fails(r) PROVE AskInv'
  <2>1. /\ pc[r] \in {"forget", "decide", "read", "mark", "update"}
        /\ pc' = [pc EXCEPT ![r] = "next"] /\ Counts(r, cur[r], TRUE)
        /\ UNCHANGED <<kind, cur, asked>>
    BY <1>11 DEF Fails, GoesTo
  <2>2. /\ \A q \in Request : q # r => left'[q] = left[q]
        /\ kind[r] = "release" => left'[r] = left[r]
    BY <1>11 DEF Fails, LeftAfterFailure, OnLog
  <2>3. \A e \in asked[r] : Ahead(r, e) => Ahead(r, e)' \/ Accounted(r, e)'
    BY <2>1, <2>2 DEF AskInv, Ahead, Busy, Accounted, Counts
  <2>4. QED
    BY <2>1, <2>2, <2>3, OneMoves
<1>12. ASSUME NEW r \in Request, Dies(r) PROVE AskInv'
  BY <1>12 DEF Dies, Ends, GoesTo, AskInv, Ahead, Busy, Accounted
<1>13. ASSUME NEW e \in Entry, Purges(e) PROVE AskInv'
  BY <1>13 DEF Purges, AskInv, Ahead, Busy, Accounted
<1>14. CASE UNCHANGED vars
  BY <1>14 DEF vars, AskInv, Ahead, Busy, Accounted
<1> HIDE DEF TypeInv, TypeOK
<1>15. QED
  BY <1>1, <1>2, <1>3, <1>4, <1>5, <1>6, <1>7, <1>8, <1>9, <1>10, <1>11, <1>12, <1>13, <1>14
     DEF Next, Handle

\* What a release request does not count as failed, it has delivered: once it has
\* answered, the relay accepted the entry on its behalf and the row says so,
\* whatever became of the other entries (runBulkAction and release).
THEOREM ReleasesAccount == Spec => []ReleaseAccounts
<1>1. TypeInv /\ AskInv => ReleaseAccounts
  BY DEF TypeInv, TypeOK, AskInv, Ahead, Accounted, Busy, ReleaseAccounts
<1>2. TruthInv => TypeInv
  BY DEF TruthInv
<1>3. QED
  BY <1>1, <1>2, TruthInit, TruthStep, AskInit, AskStep, PTL DEF Spec
=============================================================================
