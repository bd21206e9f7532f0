------------------------- MODULE DeepAnalysisProofs -------------------------
(***************************************************************************)
(* TLAPS proofs about DeepAnalysis, for any number of scans and workers    *)
(* and any set of faults.                                                  *)
(***************************************************************************)
EXTENDS DeepAnalysis, FiniteSetTheorems, TLAPS

LEMMA InitTypeOK == Init => TypeOK
<1> SUFFICES ASSUME Init PROVE TypeOK
  OBVIOUS
<1> USE NAssumption DEF NAssumption, Init
<1>1. /\ job \in [Job -> {"absent", "queued", "running"} \cup Finished]
      /\ entry \in [Entry -> EntryStates]
  BY DEF EntryStates
<1>2. /\ req \in [Job -> {"none", "ended"} \cup WorkerSide \cup ApiSide]
      /\ todo \in [Job -> SUBSET Entry]
      /\ wk \in [Worker -> 0..N]
  OBVIOUS
<1>3. nxt \in 1..(N + 1) /\ claimant \in 0..N /\ autoSent \in Nat /\ manSent \in Nat
  OBVIOUS
<1>4. QED
  BY <1>1, <1>2, <1>3 DEF TypeOK, HoldStates

LEMMA StepTypeOK == TypeOK /\ [Next]_vars => TypeOK'
<1> SUFFICES ASSUME TypeOK, [Next]_vars PROVE TypeOK'
  OBVIOUS
<1> USE NAssumption, FlagAssumption
      DEF NAssumption, FlagAssumption, Entry, Job, ingestVars, workVars, histVars,
          TypeOK, HoldStates, EntryStates, WorkerSide, ApiSide, Finished, Held
<1>1. CASE LogsMail
  BY <1>1 DEF LogsMail
<1>2. CASE InsertsEntry
  BY <1>2 DEF InsertsEntry
<1>3. CASE InsertsBlob
  BY <1>3 DEF InsertsBlob, StoresRaw
<1>4. CASE InsertsJob
  BY <1>4 DEF InsertsJob, MoreScans
<1>5. CASE PushesJob
  BY <1>5 DEF PushesJob
<1>6. CASE EnqueueFails
  BY <1>6 DEF EnqueueFails, MoreScans, CallFails
<1>7. CASE Replies
  BY <1>7 DEF Replies, MoreScans
<1>8. CASE IngestDies
  BY <1>8 DEF IngestDies, CallFails
<1>9. CASE MtaHears
  BY <1>9 DEF MtaHears, MilterAction
<1>10. CASE MtaTimesOut
  BY <1>10 DEF MtaTimesOut
<1>11. CASE ExpiresHold
  BY <1>11 DEF ExpiresHold, Expirable
<1>12. CASE OpRelease
  BY <1>12 DEF OpRelease
<1>13. CASE OpSends
  BY <1>13 DEF OpSends
<1>14. CASE OpMarks
  BY <1>14 DEF OpMarks
<1>15. CASE OpFails
  BY <1>15 DEF OpFails
<1>16. CASE OpDeletes
  BY <1>16 DEF OpDeletes
<1>17. ASSUME NEW w \in Worker, Pops(w) PROVE TypeOK'
  BY <1>17 DEF Pops
<1>18. ASSUME NEW w \in Worker, WorkerFree(w) PROVE TypeOK'
  BY <1>18 DEF WorkerFree
<1>19. ASSUME NEW j \in Job, Starts(j) PROVE TypeOK'
  BY <1>19 DEF Starts
<1>20. ASSUME NEW j \in Job, StoresResult(j) PROVE TypeOK'
  BY <1>20 DEF StoresResult, Results, Finished
<1>21. ASSUME NEW j \in Job, RecordsThreat(j) PROVE TypeOK'
  BY <1>21 DEF RecordsThreat, NeedsCopy
<1>22. ASSUME NEW j \in Job, ReadsHold(j) PROVE TypeOK'
  BY <1>22 DEF ReadsHold
<1>23. ASSUME NEW j \in Job, CountsScans(j) PROVE TypeOK'
  BY <1>23 DEF CountsScans, Decision
<1>24. ASSUME NEW j \in Job, Condemns(j) PROVE TypeOK'
  BY <1>24 DEF Condemns, Resolved
<1>25. ASSUME NEW j \in Job, Abandons(j) PROVE TypeOK'
  BY <1>25 DEF Abandons, Resolved
<1>26. ASSUME NEW j \in Job, Claims(j) PROVE TypeOK'
  BY <1>26 DEF Claims, WinsClaim
<1>27. ASSUME NEW j \in Job, SelectsEntries(j) PROVE TypeOK'
  BY <1>27 DEF SelectsEntries, Held
<1>28. ASSUME NEW j \in Job, Sends(j) PROVE TypeOK'
  BY <1>28 DEF Sends
<1>29. ASSUME NEW j \in Job, SendFails(j) PROVE TypeOK'
  BY <1>29 DEF SendFails
<1>30. ASSUME NEW j \in Job, Marks(j) PROVE TypeOK'
  BY <1>30 DEF Marks, Marked
<1>31. ASSUME NEW j \in Job, Finishes(j) PROVE TypeOK'
  BY <1>31 DEF Finishes, StillReleasing
<1>32. ASSUME NEW j \in Job, GivesUp(j) PROVE TypeOK'
  BY <1>32 DEF GivesUp, StillReleasing
<1>33. ASSUME NEW j \in Job, Dies(j) PROVE TypeOK'
  BY <1>33 DEF Dies
<1>34. CASE UNCHANGED vars
  BY <1>34 DEF vars
<1>35. QED
  BY <1>1, <1>2, <1>3, <1>4, <1>5, <1>6, <1>7, <1>8, <1>9, <1>10, <1>11, <1>12, <1>13, <1>14, <1>15, <1>16, <1>17, <1>18, <1>19, <1>20, <1>21, <1>22, <1>23, <1>24, <1>25, <1>26, <1>27, <1>28, <1>29, <1>30, <1>31, <1>32, <1>33, <1>34 DEF Next, Ingest, Mta, Operator, WorkerStep, Callback, Release

\* Every variable of the hold stays in its domain, whatever the number of
\* scans, the workers and the faults.
THEOREM TypeCorrect == Spec => []TypeOK
  BY InitTypeOK, StepTypeOK, PTL DEF Spec
-----------------------------------------------------------------------------
(***************************************************************************)
(* The release path.  The claim is won while the hold is pending, which it *)
(* never is again; only the winner is in the release code; and until its   *)
(* one send the message has not been sent.                                 *)
(***************************************************************************)
OneClaim == /\ ing = "log" => hold = "absent"
            /\ hold \in {"absent", "pending"} => claimant = 0
            /\ \A j \in Job : req[j] \in ReleaseSide => claimant = j

NotYetSent == /\ autoSent \in 0..1
              /\ claimant = 0 => autoSent = 0
              /\ \A j \in Job : req[j] = "entries" => autoSent = 0
              /\ \A j \in Job : req[j] = "send" /\ 0 \in todo[j] => autoSent = 0

ReleaseInv == TypeOK /\ OneClaim /\ NotYetSent

LEMMA ReleaseInit == Init => ReleaseInv
<1> SUFFICES ASSUME Init PROVE ReleaseInv
  OBVIOUS
<1>1. TypeOK
  BY InitTypeOK
<1>2. OneClaim /\ NotYetSent
  BY DEF Init, OneClaim, NotYetSent, ReleaseSide
<1>3. QED
  BY <1>1, <1>2 DEF ReleaseInv

LEMMA ReleaseStep == ReleaseInv /\ [Next]_vars => ReleaseInv'
<1> SUFFICES ASSUME ReleaseInv, [Next]_vars PROVE ReleaseInv'
  OBVIOUS
<1>1. TypeOK'
  BY StepTypeOK DEF ReleaseInv
<1>2. (OneClaim /\ NotYetSent)'
  <2> USE NAssumption
        DEF NAssumption, Job, ingestVars, workVars, histVars, TypeOK, WorkerSide,
            ApiSide, ReleaseSide, ReleaseInv, OneClaim, NotYetSent
  <2>1. CASE LogsMail
    BY <2>1 DEF LogsMail
  <2>2. CASE InsertsEntry
    BY <2>2 DEF InsertsEntry
  <2>3. CASE InsertsBlob
    BY <2>3 DEF InsertsBlob, StoresRaw
  <2>4. CASE InsertsJob
    BY <2>4 DEF InsertsJob, MoreScans
  <2>5. CASE PushesJob
    BY <2>5 DEF PushesJob
  <2>6. CASE EnqueueFails
    BY <2>6 DEF EnqueueFails, MoreScans, CallFails
  <2>7. CASE Replies
    BY <2>7 DEF Replies, MoreScans
  <2>8. CASE IngestDies
    BY <2>8 DEF IngestDies, CallFails
  <2>9. CASE MtaHears
    BY <2>9 DEF MtaHears, MilterAction
  <2>10. CASE MtaTimesOut
    BY <2>10 DEF MtaTimesOut
  <2>11. CASE ExpiresHold
    BY <2>11 DEF ExpiresHold, Expirable
  <2>12. CASE OpRelease
    BY <2>12 DEF OpRelease
  <2>13. CASE OpSends
    BY <2>13 DEF OpSends
  <2>14. CASE OpMarks
    BY <2>14 DEF OpMarks
  <2>15. CASE OpFails
    BY <2>15 DEF OpFails
  <2>16. CASE OpDeletes
    BY <2>16 DEF OpDeletes
  <2>17. ASSUME NEW w \in Worker, Pops(w) PROVE (OneClaim /\ NotYetSent)'
    BY <2>17 DEF Pops
  <2>18. ASSUME NEW w \in Worker, WorkerFree(w) PROVE (OneClaim /\ NotYetSent)'
    BY <2>18 DEF WorkerFree
  <2>19. ASSUME NEW j \in Job, Starts(j) PROVE (OneClaim /\ NotYetSent)'
    BY <2>19 DEF Starts
  <2>20. ASSUME NEW j \in Job, StoresResult(j) PROVE (OneClaim /\ NotYetSent)'
    BY <2>20 DEF StoresResult, Results, Finished
  <2>21. ASSUME NEW j \in Job, RecordsThreat(j) PROVE (OneClaim /\ NotYetSent)'
    BY <2>21 DEF RecordsThreat, NeedsCopy
  <2>22. ASSUME NEW j \in Job, ReadsHold(j) PROVE (OneClaim /\ NotYetSent)'
    BY <2>22 DEF ReadsHold
  <2>23. ASSUME NEW j \in Job, CountsScans(j) PROVE (OneClaim /\ NotYetSent)'
    BY <2>23 DEF CountsScans, Decision
  <2>24. ASSUME NEW j \in Job, Condemns(j) PROVE (OneClaim /\ NotYetSent)'
    BY <2>24 DEF Condemns, Resolved
  <2>25. ASSUME NEW j \in Job, Abandons(j) PROVE (OneClaim /\ NotYetSent)'
    BY <2>25 DEF Abandons, Resolved
  <2>26. ASSUME NEW j \in Job, Claims(j) PROVE (OneClaim /\ NotYetSent)'
    BY <2>26 DEF Claims, WinsClaim
  <2>27. ASSUME NEW j \in Job, SelectsEntries(j) PROVE (OneClaim /\ NotYetSent)'
    BY <2>27 DEF SelectsEntries, Held
  <2>28. ASSUME NEW j \in Job, Sends(j) PROVE (OneClaim /\ NotYetSent)'
    BY <2>28 DEF Sends, Stored
  <2>29. ASSUME NEW j \in Job, SendFails(j) PROVE (OneClaim /\ NotYetSent)'
    BY <2>29 DEF SendFails
  <2>30. ASSUME NEW j \in Job, Marks(j) PROVE (OneClaim /\ NotYetSent)'
    BY <2>30 DEF Marks, Marked
  <2>31. ASSUME NEW j \in Job, Finishes(j) PROVE (OneClaim /\ NotYetSent)'
    BY <2>31 DEF Finishes, StillReleasing
  <2>32. ASSUME NEW j \in Job, GivesUp(j) PROVE (OneClaim /\ NotYetSent)'
    BY <2>32 DEF GivesUp, StillReleasing
  <2>33. ASSUME NEW j \in Job, Dies(j) PROVE (OneClaim /\ NotYetSent)'
    BY <2>33 DEF Dies
  <2>34. CASE UNCHANGED vars
    BY <2>34 DEF vars
  <2>35. QED
    BY <2>1, <2>2, <2>3, <2>4, <2>5, <2>6, <2>7, <2>8, <2>9, <2>10, <2>11, <2>12, <2>13, <2>14, <2>15, <2>16, <2>17, <2>18, <2>19, <2>20, <2>21, <2>22, <2>23, <2>24, <2>25, <2>26, <2>27, <2>28, <2>29, <2>30, <2>31, <2>32, <2>33, <2>34 DEF Next, Ingest, Mta, Operator, WorkerStep, Callback, Release
<1>3. QED
  BY <1>1, <1>2 DEF ReleaseInv

\* The hold delivers a message at most once: the claim of scan.go and the
\* loop of ReleaseDeepAnalysisHold, under every interleaving and fault.
THEOREM HoldDeliversOnce == Spec => []DeliversOnce
<1>1. ReleaseInv => DeliversOnce
  BY DEF ReleaseInv, NotYetSent, DeliversOnce
<1>2. QED
  BY <1>1, ReleaseInit, ReleaseStep, PTL DEF Spec
-----------------------------------------------------------------------------
(***************************************************************************)
(* The refinement: every step of the pipeline is a step of the abstract    *)
(* hold, or leaves it alone.                                               *)
(***************************************************************************)
LEMMA RefinementInit == Init => Abstract!HInit
  BY DEF Init, Abstract!HInit

LEMMA RefinementStep ==
    ReleaseInv /\ [Next]_vars => [Abstract!HNext]_(Abstract!holdVars)
<1> SUFFICES ASSUME ReleaseInv, [Next]_vars
             PROVE  [Abstract!HNext]_(Abstract!holdVars)
  OBVIOUS
<1> DEFINE Same == UNCHANGED <<hold, claimant, autoSent>>
<1> USE DEF Abstract!HNext, Abstract!holdVars, ingestVars, histVars
<1>1. CASE LogsMail
  BY <1>1 DEF LogsMail, Abstract!Hold, ReleaseInv, OneClaim
<1>2. CASE ExpiresHold
  BY <1>2 DEF ExpiresHold, Expirable, Abstract!GiveUp
<1>3. ASSUME NEW j \in Job, Condemns(j) PROVE [Abstract!HNext]_(Abstract!holdVars)
  BY <1>3 DEF Condemns, Resolved, Abstract!Condemn
<1>4. ASSUME NEW j \in Job, Abandons(j) PROVE [Abstract!HNext]_(Abstract!holdVars)
  BY <1>4 DEF Abandons, Resolved, Abstract!GiveUp
<1>5. ASSUME NEW j \in Job, Claims(j) PROVE [Abstract!HNext]_(Abstract!holdVars)
  <2>1. hold = "pending" => claimant = 0
    BY DEF ReleaseInv, OneClaim
  <2>2. j # 0
    BY NAssumption DEF NAssumption, Job
  <2>3. QED
    BY <1>5, <2>1, <2>2 DEF Claims, WinsClaim, Abstract!Claim
<1>6. ASSUME NEW j \in Job, Sends(j) PROVE [Abstract!HNext]_(Abstract!holdVars)
  <2>1. claimant = j /\ j # 0
    BY <1>6, NAssumption DEF NAssumption, Job, Sends, ReleaseInv, OneClaim, ReleaseSide
  <2>2. autoSent = 0
    BY <1>6 DEF Sends, Stored, ReleaseInv, NotYetSent
  <2>3. QED
    BY <1>6, <2>1, <2>2 DEF Sends, Abstract!Deliver
<1>7. ASSUME NEW j \in Job, Finishes(j) PROVE [Abstract!HNext]_(Abstract!holdVars)
  BY <1>7 DEF Finishes, StillReleasing, Abstract!Finish
<1>8. ASSUME NEW j \in Job, GivesUp(j) PROVE [Abstract!HNext]_(Abstract!holdVars)
  BY <1>8 DEF GivesUp, StillReleasing, Abstract!GiveUp
<1>9. ASSUME NEW w \in Worker, WorkerStep(w) PROVE Same
  BY <1>9 DEF WorkerStep, Pops, WorkerFree
<1>10. ASSUME NEW j \in Job,
              \/ Starts(j) \/ StoresResult(j) \/ RecordsThreat(j) \/ ReadsHold(j)
              \/ CountsScans(j) \/ SelectsEntries(j) \/ SendFails(j) \/ Marks(j) \/ Dies(j)
       PROVE  Same
  BY <1>10 DEF Starts, StoresResult, RecordsThreat, ReadsHold, CountsScans,
               SelectsEntries, SendFails, Marks, Dies
<1>11. CASE Mta \/ Operator
  <2>1. Same
    BY <1>11 DEF Mta, MtaHears, MtaTimesOut, Operator, OpRelease, OpSends, OpMarks,
                 OpFails, OpDeletes
  <2>2. QED
    BY <2>1
<1>12. CASE Ingest /\ ~LogsMail
  <2>1. Same
    BY <1>12 DEF Ingest, InsertsEntry, InsertsBlob, InsertsJob, PushesJob, EnqueueFails,
                 Replies, IngestDies
  <2>2. QED
    BY <2>1
<1>13. CASE UNCHANGED vars
  BY <1>13 DEF vars
<1>14. QED
  BY <1>1, <1>2, <1>3, <1>4, <1>5, <1>6, <1>7, <1>8, <1>9, <1>10, <1>11, <1>12, <1>13
     DEF Next, Callback, Release

\* The scans, workers, callbacks, timeout and operator together implement the
\* abstract hold: held once, settled once, claimed once, delivered at most
\* once and only after a claim.
THEOREM HoldRefines == Spec => ImplementsHold
  BY RefinementInit, RefinementStep, ReleaseInit, ReleaseStep, PTL
     DEF Spec, ImplementsHold, Abstract!HSpec
-----------------------------------------------------------------------------
(***************************************************************************)
(* The rows and the scans.  A scan is pushed, popped, started and stored   *)
(* in that order and once, and enqueued in the order of its number, so     *)
(* what a callback counted up to its own scan never changes again.         *)
(***************************************************************************)
ScanOrder ==
    /\ ing = "push" => job[nxt] = "queued"
    /\ \A j \in Job : j \in redis => j < nxt /\ job[j] = "queued" /\ req[j] = "none"
    /\ \A j \in Job : req[j] # "none" => j < nxt /\ job[j] # "absent"
    /\ \A j \in Job : req[j] = "popped" => job[j] = "queued"
    /\ \A j \in Job : req[j] = "handling" => job[j] = "running"
    /\ \A j \in Job : j > nxt \/ (j = nxt /\ ing \notin {"push", "failed"}) => job[j] = "absent"

CleanUpTo(j) == /\ \E k \in Job : KindOf[k] = "ai" /\ job[k] = "clean"
                /\ \A k \in 1..j : job[k] \in {"absent", "clean"}

ClaimBasis ==
    /\ \A j \in Job : req[j] = "claim" => CleanUpTo(j)
    /\ claimant # 0 => claimant < nxt /\ CleanUpTo(claimant)

ScanInv == TypeOK /\ ScanOrder /\ ClaimBasis

LEMMA ScanInit == Init => ScanInv
<1> SUFFICES ASSUME Init PROVE ScanInv
  OBVIOUS
<1>1. TypeOK
  BY InitTypeOK
<1>2. ScanOrder
  BY NAssumption DEF NAssumption, Init, ScanOrder, Job
<1>3. ClaimBasis
  BY DEF Init, ClaimBasis
<1>4. QED
  BY <1>1, <1>2, <1>3 DEF ScanInv

LEMMA ResultOrder ==
    ASSUME TypeOK, ScanOrder, NEW j \in Job, StoresResult(j)
    PROVE ScanOrder'
<1>1. /\ req[j] = "handling" /\ j < nxt /\ j \notin redis
      /\ UNCHANGED <<ing, nxt, redis>>
  BY DEF StoresResult, ingestVars, ScanOrder
<1>2. /\ req'[j] \in {"report", "read"} /\ job'[j] \in Outcomes
      /\ \A k \in Job : k # j => req'[k] = req[k] /\ job'[k] = job[k]
  BY DEF StoresResult, TypeOK
<1>3. job'[j] # "absent"
  BY <1>2, FlagAssumption DEF FlagAssumption, Results
<1>4. nxt \in 1..(N + 1) /\ (ing = "push" => nxt \in Job)
  BY NAssumption DEF TypeOK, NAssumption, Job
<1>5. ing' = "push" => job'[nxt'] = "queued"
  BY <1>1, <1>2, <1>4 DEF ScanOrder
<1>6. ASSUME NEW k \in Job
      PROVE /\ k \in redis' => k < nxt' /\ job'[k] = "queued" /\ req'[k] = "none"
            /\ req'[k] # "none" => k < nxt' /\ job'[k] # "absent"
            /\ req'[k] = "popped" => job'[k] = "queued"
            /\ req'[k] = "handling" => job'[k] = "running"
            /\ k > nxt' \/ (k = nxt' /\ ing' \notin {"push", "failed"}) => job'[k] = "absent"
  <2>1. CASE k = j
    BY <1>1, <1>2, <1>3, <1>4, <2>1 DEF Job
  <2>2. CASE k # j
    BY <1>1, <1>2, <2>2 DEF ScanOrder
  <2>3. QED
    BY <2>1, <2>2
<1>7. QED
  BY <1>5, <1>6 DEF ScanOrder

LEMMA ScanStep == ScanInv /\ [Next]_vars => ScanInv'
<1> SUFFICES ASSUME ScanInv, [Next]_vars PROVE ScanInv'
  OBVIOUS
<1>1. TypeOK'
  BY StepTypeOK DEF ScanInv
<1>2. (ScanOrder /\ ClaimBasis)'
  <2> USE NAssumption
        DEF NAssumption, Job, ingestVars, workVars, histVars, TypeOK, WorkerSide,
            ApiSide, ScanInv, ScanOrder, ClaimBasis
  <2>1. CASE LogsMail
    BY <2>1 DEF LogsMail, CleanUpTo
  <2>2. CASE InsertsEntry
    BY <2>2 DEF InsertsEntry, CleanUpTo
  <2>3. CASE InsertsBlob
    BY <2>3 DEF InsertsBlob, StoresRaw, CleanUpTo
  <2>4. CASE InsertsJob
    BY <2>4 DEF InsertsJob, MoreScans, CleanUpTo
  <2>5. CASE PushesJob
    BY <2>5 DEF PushesJob, CleanUpTo
  <2>6. CASE EnqueueFails
    BY <2>6 DEF EnqueueFails, MoreScans, CallFails, CleanUpTo
  <2>7. CASE Replies
    BY <2>7 DEF Replies, MoreScans, CleanUpTo
  <2>8. CASE IngestDies
    BY <2>8 DEF IngestDies, CallFails, CleanUpTo
  <2>9. CASE MtaHears
    BY <2>9 DEF MtaHears, MilterAction, CleanUpTo
  <2>10. CASE MtaTimesOut
    BY <2>10 DEF MtaTimesOut, CleanUpTo
  <2>11. CASE ExpiresHold
    BY <2>11 DEF ExpiresHold, Expirable, CleanUpTo
  <2>12. CASE OpRelease
    BY <2>12 DEF OpRelease, CleanUpTo
  <2>13. CASE OpSends
    BY <2>13 DEF OpSends, CleanUpTo
  <2>14. CASE OpMarks
    BY <2>14 DEF OpMarks, CleanUpTo
  <2>15. CASE OpFails
    BY <2>15 DEF OpFails, CleanUpTo
  <2>16. CASE OpDeletes
    BY <2>16 DEF OpDeletes, CleanUpTo
  <2>17. ASSUME NEW w \in Worker, Pops(w) PROVE (ScanOrder /\ ClaimBasis)'
    BY <2>17 DEF Pops, CleanUpTo
  <2>18. ASSUME NEW w \in Worker, WorkerFree(w) PROVE (ScanOrder /\ ClaimBasis)'
    BY <2>18 DEF WorkerFree, CleanUpTo
  <2>19. ASSUME NEW j \in Job, Starts(j) PROVE (ScanOrder /\ ClaimBasis)'
    BY <2>19 DEF Starts, CleanUpTo
  <2>20. ASSUME NEW j \in Job, StoresResult(j) PROVE (ScanOrder /\ ClaimBasis)'
    <3>1. job[j] = "running"
      BY <2>20 DEF StoresResult
    <3>2. PICK r \in Outcomes :
            /\ job' = [job EXCEPT ![j] = r]
            /\ req' = [req EXCEPT ![j] = IF r = "malicious" THEN "report" ELSE "read"]
      BY <2>20 DEF StoresResult
    <3>3. r # "absent" /\ UNCHANGED <<ing, nxt, redis, claimant>>
      BY <2>20, FlagAssumption DEF FlagAssumption, Results, StoresResult
    <3>4. ScanOrder'
      BY <2>20, ResultOrder
    <3>5. ASSUME NEW k \in Job, CleanUpTo(k) PROVE CleanUpTo(k)'
      <4>1. \A i \in Job : i # j => job'[i] = job[i]
        BY <3>2
      <4>2. \A i \in 1..k : i \in Job /\ i # j
        BY <3>1, <3>5 DEF CleanUpTo
      <4>3. PICK i \in Job : KindOf[i] = "ai" /\ job[i] = "clean" /\ i # j
        BY <3>1, <3>5 DEF CleanUpTo
      <4>4. QED
        BY <3>5, <4>1, <4>2, <4>3 DEF CleanUpTo
    <3>6. ClaimBasis'
      BY <3>2, <3>3, <3>5
    <3>7. QED
      BY <3>4, <3>6
  <2>21. ASSUME NEW j \in Job, RecordsThreat(j) PROVE (ScanOrder /\ ClaimBasis)'
    BY <2>21 DEF RecordsThreat, NeedsCopy, CleanUpTo
  <2>22. ASSUME NEW j \in Job, ReadsHold(j) PROVE (ScanOrder /\ ClaimBasis)'
    BY <2>22 DEF ReadsHold, CleanUpTo
  <2>23. ASSUME NEW j \in Job, CountsScans(j) PROVE (ScanOrder /\ ClaimBasis)'
    <3>1. j < nxt
      BY <2>23 DEF CountsScans
    <3>2. ASSUME Decision(Rows) = "claim" PROVE CleanUpTo(j)
      <4>1. \A k \in Rows : job[k] = "clean"
        BY <3>2 DEF Decision, ThreatVerdicts, UncleanVerdicts, Finished, Rows
      <4>2. \E k \in Rows : KindOf[k] = "ai"
        BY <3>2 DEF Decision
      <4>3. QED
        BY <4>1, <4>2 DEF CleanUpTo, Rows
    <3>3. Decision(Rows) \in {"threat", "ended", "unavailable", "claim"}
      BY DEF Decision
    <3>4. req'[j] = Decision(Rows) /\ \A k \in Job \ {j} : req'[k] = req[k]
      BY <2>23 DEF CountsScans
    <3>5. UNCHANGED <<ing, nxt, job, redis, claimant>>
      BY <2>23 DEF CountsScans
    <3>6. \A k \in Job : CleanUpTo(k)' = CleanUpTo(k)
      BY <3>5 DEF CleanUpTo
    <3>7. claimant # 0 => CleanUpTo(claimant)'
      BY <3>5 DEF CleanUpTo
    <3>8. ScanOrder'
      <4>1. req[j] = "count" /\ req \in [Job -> {"none", "ended"} \cup WorkerSide \cup ApiSide]
        BY <2>23 DEF CountsScans
      <4>2. \A k \in Job : req'[k] = req[k] \/ req'[k] \notin {"none", "popped", "handling"}
        BY <3>3, <3>4
      <4>3. \A k \in Job : req'[k] # "none" => req[k] # "none"
        BY <3>4, <4>1
      <4>4. \A k \in Job : k \in redis => k # j
        BY <4>1
      <4>5. QED
        BY <3>4, <3>5, <4>2, <4>3, <4>4
    <3>9. ClaimBasis'
      BY <3>2, <3>4, <3>5, <3>6, <3>7
    <3>10. QED
      BY <3>8, <3>9
  <2>24. ASSUME NEW j \in Job, Condemns(j) PROVE (ScanOrder /\ ClaimBasis)'
    BY <2>24 DEF Condemns, Resolved, CleanUpTo
  <2>25. ASSUME NEW j \in Job, Abandons(j) PROVE (ScanOrder /\ ClaimBasis)'
    BY <2>25 DEF Abandons, Resolved, CleanUpTo
  <2>26. ASSUME NEW j \in Job, Claims(j) PROVE (ScanOrder /\ ClaimBasis)'
    BY <2>26 DEF Claims, WinsClaim, CleanUpTo
  <2>27. ASSUME NEW j \in Job, SelectsEntries(j) PROVE (ScanOrder /\ ClaimBasis)'
    BY <2>27 DEF SelectsEntries, Held, CleanUpTo
  <2>28. ASSUME NEW j \in Job, Sends(j) PROVE (ScanOrder /\ ClaimBasis)'
    BY <2>28 DEF Sends, Stored, CleanUpTo
  <2>29. ASSUME NEW j \in Job, SendFails(j) PROVE (ScanOrder /\ ClaimBasis)'
    BY <2>29 DEF SendFails, CleanUpTo
  <2>30. ASSUME NEW j \in Job, Marks(j) PROVE (ScanOrder /\ ClaimBasis)'
    BY <2>30 DEF Marks, Marked, CleanUpTo
  <2>31. ASSUME NEW j \in Job, Finishes(j) PROVE (ScanOrder /\ ClaimBasis)'
    BY <2>31 DEF Finishes, StillReleasing, CleanUpTo
  <2>32. ASSUME NEW j \in Job, GivesUp(j) PROVE (ScanOrder /\ ClaimBasis)'
    BY <2>32 DEF GivesUp, StillReleasing, CleanUpTo
  <2>33. ASSUME NEW j \in Job, Dies(j) PROVE (ScanOrder /\ ClaimBasis)'
    BY <2>33 DEF Dies, CleanUpTo
  <2>34. CASE UNCHANGED vars
    BY <2>34 DEF vars, CleanUpTo
  <2>35. QED
    BY <2>1, <2>2, <2>3, <2>4, <2>5, <2>6, <2>7, <2>8, <2>9, <2>10, <2>11, <2>12, <2>13, <2>14, <2>15, <2>16, <2>17, <2>18, <2>19, <2>20, <2>21, <2>22, <2>23, <2>24, <2>25, <2>26, <2>27, <2>28, <2>29, <2>30, <2>31, <2>32, <2>33, <2>34 DEF Next, Ingest, Mta, Operator, WorkerStep, Callback, Release
<1>3. QED
  BY <1>1, <1>2 DEF ScanInv

\* A claimed release rests on a clean AI verdict and on clean scans up to the
\* claiming one (reconcileDeepAnalysis), whatever is enqueued, lost or late.
THEOREM ReleaseIsGrounded == Spec => []ReleaseRestsOnCleanScans
<1>1. ScanInv => ReleaseRestsOnCleanScans
  BY DEF ScanInv, ClaimBasis, CleanUpTo, ReleaseRestsOnCleanScans
<1>2. QED
  BY <1>1, ScanInit, ScanStep, PTL DEF Spec
-----------------------------------------------------------------------------
(***************************************************************************)
(* The copies.  A scan exists only when the original entry does, so what a *)
(* callback releases or reports is never overtaken by the insert of that   *)
(* entry; a release marks what it has sent, and loops until the original   *)
(* entry is no longer held.                                                *)
(***************************************************************************)
EntryOrder ==
    /\ ing \in {"log", "entry", "blob"} => nxt = 1
    /\ ing \in {"log", "entry"} => \A e \in Entry : entry[e] = "absent"
    /\ ing \in {"blob", "insert", "push", "replied"} \/ nxt > 1 => entry[0] # "absent"
    /\ ing \in {"insert", "push", "replied"} /\ HasRaw => blob
    /\ mta = "discarded" => ing = "replied"
    /\ op # "idle" => entry[0] # "absent"

MarkedIsSent ==
    /\ \A j \in Job : req[j] = "mark" => autoSent > 0
    /\ op = "mark" => manSent > 0
    /\ entry[0] = "released" => autoSent + manSent > 0

LoopsUntilDone ==
    /\ \A j \in Job : req[j] = "send" /\ 0 \notin todo[j] =>
            entry[0] \in {"released", "deleted"}
    /\ hold = "released" => entry[0] \in {"released", "deleted"}

HeldOnce == \A d, e \in Entry : entry[d] = "held" /\ entry[e] = "held" => d = e

CopyInv == EntryOrder /\ MarkedIsSent /\ LoopsUntilDone /\ HeldOnce

LEMMA CopyInit == Init => CopyInv
  BY NAssumption DEF NAssumption, Init, Entry, Job, CopyInv, EntryOrder, MarkedIsSent,
                     LoopsUntilDone, HeldOnce

LEMMA CopyStep == ScanInv /\ CopyInv /\ [Next]_vars => CopyInv'
<1> SUFFICES ASSUME ScanInv, CopyInv, [Next]_vars PROVE CopyInv'
  OBVIOUS
<1>1. 0 \in Entry /\ \A j \in Job : j \in Entry /\ j # 0
  BY NAssumption DEF NAssumption, Entry, Job
<1>2. \A j \in Job : req[j] # "none" => nxt > 1 /\ entry[0] # "absent"
  BY DEF ScanInv, TypeOK, ScanOrder, CopyInv, EntryOrder, Job
<1>3. nxt \in Nat /\ autoSent \in Nat /\ manSent \in Nat
  BY NAssumption DEF NAssumption, ScanInv, TypeOK
<1>4. /\ entry \in [Entry -> EntryStates]
      /\ req \in [Job -> {"none", "ended"} \cup WorkerSide \cup ApiSide]
      /\ todo \in [Job -> SUBSET Entry]
  BY DEF ScanInv, TypeOK
<1>5. CopyInv'
  <2> USE <1>1, <1>2, <1>3, <1>4
        DEF CopyInv, EntryOrder, MarkedIsSent, LoopsUntilDone, HeldOnce,
            EntryStates, WorkerSide, ApiSide, ingestVars, workVars, histVars
  <2>1. CASE LogsMail
    BY <2>1 DEF LogsMail
  <2>2. CASE InsertsEntry
    BY <2>2 DEF InsertsEntry
  <2>3. CASE InsertsBlob
    BY <2>3 DEF InsertsBlob, StoresRaw
  <2>4. CASE InsertsJob
    BY <2>4 DEF InsertsJob, MoreScans
  <2>5. CASE PushesJob
    BY <2>5 DEF PushesJob
  <2>6. CASE EnqueueFails
    BY <2>6 DEF EnqueueFails, MoreScans, CallFails
  <2>7. CASE Replies
    BY <2>7 DEF Replies, MoreScans
  <2>8. CASE IngestDies
    BY <2>8 DEF IngestDies, CallFails
  <2>9. CASE MtaHears
    BY <2>9 DEF MtaHears, MilterAction
  <2>10. CASE MtaTimesOut
    BY <2>10 DEF MtaTimesOut
  <2>11. CASE ExpiresHold
    BY <2>11 DEF ExpiresHold, Expirable
  <2>12. CASE OpRelease
    BY <2>12 DEF OpRelease
  <2>13. CASE OpSends
    BY <2>13 DEF OpSends
  <2>14. CASE OpMarks
    BY <2>14 DEF OpMarks
  <2>15. CASE OpFails
    BY <2>15 DEF OpFails
  <2>16. CASE OpDeletes
    BY <2>16 DEF OpDeletes
  <2>17. ASSUME NEW w \in Worker, Pops(w) PROVE CopyInv'
    BY <2>17 DEF Pops
  <2>18. ASSUME NEW w \in Worker, WorkerFree(w) PROVE CopyInv'
    BY <2>18 DEF WorkerFree
  <2>19. ASSUME NEW j \in Job, Starts(j) PROVE CopyInv'
    BY <2>19 DEF Starts
  <2>20. ASSUME NEW j \in Job, StoresResult(j) PROVE CopyInv'
    BY <2>20 DEF StoresResult
  <2>21. ASSUME NEW j \in Job, RecordsThreat(j) PROVE CopyInv'
    BY <2>21 DEF RecordsThreat, NeedsCopy, Held
  <2>22. ASSUME NEW j \in Job, ReadsHold(j) PROVE CopyInv'
    BY <2>22 DEF ReadsHold
  <2>23. ASSUME NEW j \in Job, CountsScans(j) PROVE CopyInv'
    BY <2>23 DEF CountsScans, Decision
  <2>24. ASSUME NEW j \in Job, Condemns(j) PROVE CopyInv'
    BY <2>24 DEF Condemns, Resolved
  <2>25. ASSUME NEW j \in Job, Abandons(j) PROVE CopyInv'
    BY <2>25 DEF Abandons, Resolved
  <2>26. ASSUME NEW j \in Job, Claims(j) PROVE CopyInv'
    BY <2>26 DEF Claims, WinsClaim
  <2>27. ASSUME NEW j \in Job, SelectsEntries(j) PROVE CopyInv'
    BY <2>27 DEF SelectsEntries, Held
  <2>28. ASSUME NEW j \in Job, Sends(j) PROVE CopyInv'
    BY <2>28 DEF Sends, Stored
  <2>29. ASSUME NEW j \in Job, SendFails(j) PROVE CopyInv'
    BY <2>29 DEF SendFails
  <2>30. ASSUME NEW j \in Job, Marks(j) PROVE CopyInv'
    BY <2>30 DEF Marks, Marked
  <2>31. ASSUME NEW j \in Job, Finishes(j) PROVE CopyInv'
    BY <2>31 DEF Finishes, StillReleasing
  <2>32. ASSUME NEW j \in Job, GivesUp(j) PROVE CopyInv'
    BY <2>32 DEF GivesUp, StillReleasing
  <2>33. ASSUME NEW j \in Job, Dies(j) PROVE CopyInv'
    BY <2>33 DEF Dies
  <2>34. CASE UNCHANGED vars
    BY <2>34 DEF vars
  <2>35. QED
    BY <2>1, <2>2, <2>3, <2>4, <2>5, <2>6, <2>7, <2>8, <2>9, <2>10, <2>11, <2>12, <2>13, <2>14, <2>15, <2>16, <2>17, <2>18, <2>19, <2>20, <2>21, <2>22, <2>23, <2>24, <2>25, <2>26, <2>27, <2>28, <2>29, <2>30, <2>31, <2>32, <2>33, <2>34 DEF Next, Ingest, Mta, Operator, WorkerStep, Callback, Release
<1>6. QED
  BY <1>5

\* The gateway never makes a second held copy of the message for the recipient
\* (the NOT EXISTS in RecordFromScan, and no scan before the ingest handler's
\* own entry).
THEOREM OneCopyIsHeld == Spec => []OneHeldCopy
<1>1. CopyInv => OneHeldCopy
  <2> SUFFICES ASSUME CopyInv PROVE Cardinality(Held) <= 1
    BY DEF OneHeldCopy
  <2>1. CASE Held = {}
    BY <2>1, FS_EmptySet
  <2>2. CASE Held # {}
    <3>1. PICK e : e \in Held
      BY <2>2
    <3>2. Held = {e}
      BY <3>1 DEF Held, CopyInv, HeldOnce
    <3>3. Cardinality({e}) = 1
      BY FS_Singleton
    <3>4. QED
      BY <3>2, <3>3
  <2>3. QED
    BY <2>1, <2>2
<1>2. QED
  BY <1>1, ScanInit, ScanStep, CopyInit, CopyStep, PTL DEF Spec

\* When the milter has discarded the original, the gateway's copy is stored
\* with its bytes, and it is held until it is sent or somebody deletes it (the
\* order of the inserts in handle, and every UPDATE of a quarantine entry).
THEOREM DiscardedStays == Spec => []DiscardedIsKept
<1>1. ScanInv /\ CopyInv => DiscardedIsKept
  <2> SUFFICES ASSUME ScanInv, CopyInv, mta = "discarded", HasRaw
               PROVE  blob /\ (entry[0] = "held" \/ autoSent + manSent > 0
                                 \/ entry[0] = "deleted")
    BY DEF DiscardedIsKept
  <2>1. ing = "replied" /\ blob /\ entry[0] # "absent"
    BY DEF CopyInv, EntryOrder
  <2>2. entry[0] \in {"held", "released", "deleted"}
    BY <2>1, NAssumption DEF NAssumption, ScanInv, TypeOK, EntryStates, Entry
  <2>3. QED
    BY <2>1, <2>2 DEF CopyInv, MarkedIsSent
<1>2. QED
  BY <1>1, ScanInit, ScanStep, CopyInit, CopyStep, PTL DEF Spec

\* A hold shown as released leaves nothing of the original held: it was sent,
\* or somebody deleted it (ReleaseDeepAnalysisHold goes through what it
\* selected before reconcileDeepAnalysis records the release).
THEOREM ReleasedMeansDone == Spec => []ReleasedIsDone
<1>1. CopyInv => ReleasedIsDone
  BY DEF CopyInv, MarkedIsSent, LoopsUntilDone, ReleasedIsDone
<1>2. QED
  BY <1>1, ScanInit, ScanStep, CopyInit, CopyStep, PTL DEF Spec
=============================================================================
