------------------------- MODULE NotificationsProofs -------------------------
(***************************************************************************)
(* TLAPS proofs about Notifications, for any set of messages, any profile  *)
(* of the user, any delays and any set of faults.                          *)
(***************************************************************************)
EXTENDS Notifications, TLAPS, WellFoundedInduction

\* An entry is inserted after its mail log, and neither is in the future.
Stamped ==
    \A m \in Msg :
        /\ logged[m] <= now /\ entered[m] <= now
        /\ entered[m] # 0 => logged[m] # 0 /\ logged[m] <= entered[m]
        /\ m \in held => entered[m] # 0

\* What was logged before a recorded notice was listed, or is known to be missed.
Accounted ==
    \A m \in Msg :
        logged[m] # 0 /\ (logged[m] <= alertSent \/ logged[m] <= sent) => m \in told \cup missed

\* The time of a claim is the time of an earlier look at the clock.
ClaimTimes == \A p \in Proc : pc[p] = "claim" => seen[p].time \in 0..now

\* While no reminder was handed over since the latest recorded one, a run that
\* has read the user's row since then knows of it, and is due on its own account.
ReadsRecorded ==
    noted # 0 =>
        /\ sent = noted
        /\ \A p \in fresh :
            /\ pc[p] = "latest" => seen[p].sent = noted
            /\ user.notice = "hourly" /\ pc[p] \in {"claim", "pending", "remind"}
                    => now - noted >= Cadence

\* The stamp a digest selects a message by.
Selected(m) == IF class[m] = "held" THEN entered[m] ELSE logged[m]

\* A user gets alerts or digests, never both.
OneCadence ==
    /\ pc[DigestLoop] # "idle" => user.alert = "daily"
    /\ \A p \in Proc \ {DigestLoop} : pc[p] \in {"mail", "note"} => user.alert = "immediate"

\* A digest resumes where the one before it was recorded.
Resumes ==
    /\ \A m \in digested : Selected(m) # 0 /\ Selected(m) <= alertSent
    /\ pc[DigestLoop] = "items" => digested = {} \/ alertSent <= seen[DigestLoop].time
    /\ pc[DigestLoop] \in {"mail", "note"} =>
            \A m \in items[DigestLoop] :
                m \notin digested /\ Selected(m) # 0 /\ Selected(m) <= now

IInv == ClaimTimes /\ Stamped /\ Accounted /\ ReadsRecorded /\ OneCadence /\ Resumes
-----------------------------------------------------------------------------
LEMMA Greatest ==
    ASSUME NEW S, S # {}, NEW f, \A x \in S : f[x] \in Nat, NEW n \in Nat, \A x \in S : f[x] <= n
    PROVE  \E x \in S : \A y \in S : f[y] <= f[x]
<1> DEFINE R == {ab \in Nat \X Nat : ab[1] < ab[2]}
<1> DEFINE T == {n - f[x] : x \in S}
<1>1. T \subseteq Nat /\ T # {}
  OBVIOUS
<1>2. IsWellFoundedOn(R, Nat)
  BY NatLessThanWellFounded DEF OpToRel
<1>3. \A a, b \in Nat : a < b => <<a, b>> \in R
  OBVIOUS
<1> HIDE DEF R
<1>4. PICK t \in T : \A u \in T : ~(<<u, t>> \in R)
  BY <1>1, <1>2, WFMin, Zenon
<1>5. PICK x \in S : t = n - f[x]
  BY <1>4
<1>6. ASSUME NEW y \in S PROVE f[y] <= f[x]
  <2>1. n - f[y] \in T
    OBVIOUS
  <2>2. ~(n - f[y] < n - f[x])
    BY <1>1, <1>3, <1>4, <1>5, <2>1
  <2>3. QED
    BY <2>2
<1>7. QED
  BY <1>6

LEMMA InitTypeOK == Init => TypeOK
  BY InputAssumption DEF Init, TypeOK, AllClasses, AllProfiles, Steps, NothingSeen

\* The variables a run owns.
RunTypeOK ==
    /\ pc \in [Proc -> Steps]
    /\ seen \in [Proc -> [attempt : Nat, sent : Nat, time : Int]]
    /\ items \in [Proc -> SUBSET Msg]
    /\ late \subseteq Proc /\ fresh \subseteq Proc

SeenRow == [attempt : Nat, sent : Nat, time : Int]

LEMMA UserRow == TypeOK => User \in SeenRow
<1> SUFFICES ASSUME TypeOK PROVE User \in SeenRow
  OBVIOUS
<1>1. attempt \in Nat /\ sent \in Nat
  BY DEF TypeOK
<1>2. \A r \in SeenRow, k \in Nat : [r EXCEPT !.attempt = k] \in SeenRow
  BY DEF SeenRow
<1>3. \A r \in SeenRow, k \in Nat : [r EXCEPT !.sent = k] \in SeenRow
  BY DEF SeenRow
<1>4. NothingSeen \in SeenRow
  BY DEF NothingSeen, SeenRow
<1>5. User = [[NothingSeen EXCEPT !.attempt = attempt] EXCEPT !.sent = sent]
  BY DEF User
<1>6. QED
  BY <1>1, <1>2, <1>3, <1>4, <1>5

LEMMA TimeSet == \A r \in SeenRow : [r EXCEPT !.time = 0] \in SeenRow
  BY DEF SeenRow

LEMMA EndsTypeOK ==
    ASSUME TypeOK, NEW p \in Proc, Ends(p)
    PROVE  RunTypeOK'
  BY DEF TypeOK, RunTypeOK, Ends, GoesTo, NothingSeen, Steps

LEMMA ChecksTypeOK ==
    ASSUME TypeOK, NEW p \in Proc, NEW row, NEW newest, ChecksDue(p, row, newest)
    PROVE  RunTypeOK'
<1>1. CASE DueByCadence(user.notice, row, newest, now) /\ ~BackedOff(row, now)
  <2>1. pc' \in [Proc -> Steps] /\ items' = items /\ late' = late
    BY <1>1 DEF ChecksDue, GoesTo, TypeOK, Steps
  <2>2. fresh' \subseteq Proc
    BY <1>1 DEF ChecksDue, TypeOK, Proc
  <2>3. seen' = [seen EXCEPT ![p] = [attempt |-> 0, sent |-> 0, time |-> now]]
    BY <1>1 DEF ChecksDue, NothingSeen
  <2>4. seen' \in [Proc -> [attempt : Nat, sent : Nat, time : Int]]
    BY <2>3 DEF TypeOK
  <2>5. QED
    BY <2>1, <2>2, <2>4 DEF RunTypeOK, TypeOK
<1>2. CASE ~(DueByCadence(user.notice, row, newest, now) /\ ~BackedOff(row, now))
  BY <1>2, EndsTypeOK DEF ChecksDue
<1>3. QED
  BY <1>1, <1>2

LEMMA StepTypeOK == TypeOK /\ ClaimTimes /\ [Next]_vars => TypeOK'
<1> SUFFICES ASSUME TypeOK, ClaimTimes, [Next]_vars PROVE TypeOK'
  OBVIOUS
<1> USE TimeAssumption DEF TypeOK, Steps, Proc, Senders, NothingSeen, run, mail, history
<1>1. ASSUME Waits PROVE TypeOK'
  BY <1>1 DEF Waits
<1>2. ASSUME NEW m \in Msg, LogsMail(m) PROVE TypeOK'
  BY <1>2 DEF LogsMail, TimePasses, Stamp
<1>3. ASSUME NEW m \in Msg, Holds(m) PROVE TypeOK'
  BY <1>3 DEF Holds, TimePasses, Stamp, GoesTo
<1>4. ASSUME NEW m \in Msg, Resolves(m) PROVE TypeOK'
  BY <1>4 DEF Resolves
<1>5. ASSUME NEW m \in Msg, LoadsAlert(m) PROVE TypeOK'
  <2>1. RunTypeOK'
    <3>1. CASE user.alert = "immediate"
      <4>1. pc' \in [Proc -> Steps]
        BY <1>5, <3>1 DEF LoadsAlert, GoesTo
      <4>2. items' \in [Proc -> SUBSET Msg]
        BY <1>5, <3>1 DEF LoadsAlert
      <4>3. QED
        BY <1>5, <3>1, <4>1, <4>2 DEF LoadsAlert, RunTypeOK
    <3>2. CASE user.alert # "immediate"
      BY <1>5, <3>2, EndsTypeOK DEF LoadsAlert
    <3>3. QED
      BY <3>1, <3>2
  <2>2. QED
    BY <1>5, <2>1 DEF LoadsAlert, RunTypeOK
<1>6. ASSUME StartsDigest PROVE TypeOK'
  BY <1>6 DEF StartsDigest, GoesTo, DigestSince
<1>7. ASSUME ListsItems PROVE TypeOK'
  BY <1>7 DEF ListsItems, GoesTo, Ends, InDigest
<1>8. ASSUME NEW p \in Proc, Mails(p) PROVE TypeOK'
  BY <1>8 DEF Mails, GoesTo
<1>9. ASSUME NEW p \in Proc, NotesAlert(p) PROVE TypeOK'
  BY <1>9 DEF NotesAlert, TimePasses, Stamp, Ends, GoesTo
<1>10. ASSUME NEW m \in Msg, LoadsUser(m) PROVE TypeOK'
  <2>1. RunTypeOK'
    BY <1>10, ChecksTypeOK DEF LoadsUser
  <2>2. QED
    BY <1>10, <2>1 DEF LoadsUser, RunTypeOK
<1>11. ASSUME FindsUser PROVE TypeOK'
  <2>1. User \in [attempt : Nat, sent : Nat, time : Int]
    BY UserRow DEF SeenRow
  <2>2. seen' \in [Proc -> [attempt : Nat, sent : Nat, time : Int]]
    BY <1>11, <2>1 DEF FindsUser
  <2>3. QED
    BY <1>11, <2>2 DEF FindsUser, GoesTo
<1>12. ASSUME FindsLatest PROVE TypeOK'
  <2>1. RunTypeOK'
    BY <1>12, ChecksTypeOK, EndsTypeOK DEF FindsLatest
  <2>2. QED
    BY <1>12, <2>1 DEF FindsLatest, RunTypeOK
<1>13. ASSUME NEW p \in Senders, ClaimsAttempt(p) PROVE TypeOK'
  <2>1. CASE Claimable(seen[p].time)
    <3>1. attempt' \in 0..now
      BY <1>13, <2>1 DEF ClaimsAttempt, AttemptTime, ClaimTimes
    <3>2. seen' = [seen EXCEPT ![p] = [seen[p] EXCEPT !.time = 0]]
      BY <1>13, <2>1 DEF ClaimsAttempt
    <3>3. [seen[p] EXCEPT !.time = 0] \in SeenRow
      BY TimeSet DEF SeenRow
    <3>4. seen' \in [Proc -> [attempt : Nat, sent : Nat, time : Int]]
      BY <3>2, <3>3 DEF SeenRow
    <3>5. QED
      BY <1>13, <2>1, <3>1, <3>4 DEF ClaimsAttempt, GoesTo
  <2>2. CASE ~Claimable(seen[p].time)
    <3>1. RunTypeOK'
      BY <1>13, <2>2, EndsTypeOK DEF ClaimsAttempt
    <3>2. QED
      BY <1>13, <2>2, <3>1 DEF ClaimsAttempt, RunTypeOK
  <2>3. QED
    BY <2>1, <2>2
<1>14. ASSUME NEW p \in Senders, ListsPending(p) PROVE TypeOK'
  BY <1>14 DEF ListsPending, Awaiting, GoesTo
<1>15. ASSUME NEW p \in Senders, Reminds(p) PROVE TypeOK'
  BY <1>15 DEF Reminds, GoesTo
<1>16. ASSUME NEW p \in Senders, Records(p) PROVE TypeOK'
  BY <1>16 DEF Records, TimePasses, Stamp, SentTime, GoesTo
<1>17. ASSUME NEW p \in Proc, Fails(p) PROVE TypeOK'
  BY <1>17 DEF Fails, Ends, GoesTo
<1>18. CASE UNCHANGED vars
  BY <1>18 DEF vars, run, mail, history
<1>19. QED
  BY <1>1, <1>2, <1>3, <1>4, <1>5, <1>6, <1>7, <1>8, <1>9, <1>10, <1>11, <1>12, <1>13, <1>14, <1>15, <1>16, <1>17, <1>18 DEF Next, Arrives, Reminder

LEMMA ClaimTimesStep == TypeOK /\ ClaimTimes /\ [Next]_vars => ClaimTimes'
<1> SUFFICES ASSUME TypeOK, ClaimTimes, [Next]_vars PROVE ClaimTimes'
  OBVIOUS
<1> USE TimeAssumption DEF TypeOK, ClaimTimes, Proc, Senders, NothingSeen, run
<1>1. ASSUME Waits PROVE ClaimTimes'
  BY <1>1 DEF Waits
<1>2. ASSUME NEW m \in Msg, LogsMail(m) PROVE ClaimTimes'
  BY <1>2 DEF LogsMail, TimePasses, Stamp
<1>3. ASSUME NEW m \in Msg, Holds(m) PROVE ClaimTimes'
  BY <1>3 DEF Holds, TimePasses, Stamp, GoesTo
<1>4. ASSUME NEW m \in Msg, Resolves(m) PROVE ClaimTimes'
  BY <1>4 DEF Resolves
<1>5. ASSUME NEW m \in Msg, LoadsAlert(m) PROVE ClaimTimes'
  BY <1>5 DEF LoadsAlert, GoesTo, Ends
<1>6. ASSUME StartsDigest PROVE ClaimTimes'
  BY <1>6 DEF StartsDigest, GoesTo, DigestSince
<1>7. ASSUME ListsItems PROVE ClaimTimes'
  BY <1>7 DEF ListsItems, GoesTo, Ends, InDigest
<1>8. ASSUME NEW p \in Proc, Mails(p) PROVE ClaimTimes'
  BY <1>8 DEF Mails, GoesTo
<1>9. ASSUME NEW p \in Proc, NotesAlert(p) PROVE ClaimTimes'
  BY <1>9 DEF NotesAlert, TimePasses, Stamp, Ends, GoesTo
<1>10. ASSUME NEW m \in Msg, LoadsUser(m) PROVE ClaimTimes'
  BY <1>10 DEF LoadsUser, ChecksDue, GoesTo, Ends, User, NothingSeen
<1>11. ASSUME FindsUser PROVE ClaimTimes'
  BY <1>11 DEF FindsUser, User, NothingSeen, GoesTo
<1>12. ASSUME FindsLatest PROVE ClaimTimes'
  BY <1>12 DEF FindsLatest, ChecksDue, GoesTo, Ends, User, NothingSeen
<1>13. ASSUME NEW p \in Senders, ClaimsAttempt(p) PROVE ClaimTimes'
  BY <1>13 DEF ClaimsAttempt, AttemptTime, GoesTo, Ends
<1>14. ASSUME NEW p \in Senders, ListsPending(p) PROVE ClaimTimes'
  BY <1>14 DEF ListsPending, Awaiting, GoesTo
<1>15. ASSUME NEW p \in Senders, Reminds(p) PROVE ClaimTimes'
  BY <1>15 DEF Reminds, GoesTo
<1>16. ASSUME NEW p \in Senders, Records(p) PROVE ClaimTimes'
  BY <1>16 DEF Records, TimePasses, Stamp, SentTime, GoesTo
<1>17. ASSUME NEW p \in Proc, Fails(p) PROVE ClaimTimes'
  BY <1>17 DEF Fails, Ends, GoesTo
<1>18. CASE UNCHANGED vars
  BY <1>18 DEF vars, run, mail, history
<1>19. QED
  BY <1>1, <1>2, <1>3, <1>4, <1>5, <1>6, <1>7, <1>8, <1>9, <1>10, <1>11, <1>12, <1>13, <1>14, <1>15, <1>16, <1>17, <1>18 DEF Next, Arrives, Reminder

LEMMA StampedStep == TypeOK /\ Stamped /\ [Next]_vars => Stamped'
<1> SUFFICES ASSUME TypeOK, Stamped, [Next]_vars PROVE Stamped'
  OBVIOUS
<1> USE TimeAssumption DEF TypeOK, Stamped, mail
<1>1. ASSUME Waits PROVE Stamped'
  BY <1>1 DEF Waits
<1>2. ASSUME NEW m \in Msg, LogsMail(m) PROVE Stamped'
  BY <1>2 DEF LogsMail, TimePasses, Stamp
<1>3. ASSUME NEW m \in Msg, Holds(m) PROVE Stamped'
  BY <1>3 DEF Holds, TimePasses, Stamp, GoesTo
<1>4. ASSUME NEW m \in Msg, Resolves(m) PROVE Stamped'
  BY <1>4 DEF Resolves
<1>5. ASSUME NEW m \in Msg, LoadsAlert(m) PROVE Stamped'
  BY <1>5 DEF LoadsAlert, GoesTo, Ends
<1>6. ASSUME StartsDigest PROVE Stamped'
  BY <1>6 DEF StartsDigest, GoesTo, DigestSince
<1>7. ASSUME ListsItems PROVE Stamped'
  BY <1>7 DEF ListsItems, GoesTo, Ends, InDigest
<1>8. ASSUME NEW p \in Proc, Mails(p) PROVE Stamped'
  BY <1>8 DEF Mails, GoesTo
<1>9. ASSUME NEW p \in Proc, NotesAlert(p) PROVE Stamped'
  BY <1>9 DEF NotesAlert, TimePasses, Stamp, Ends, GoesTo
<1>10. ASSUME NEW m \in Msg, LoadsUser(m) PROVE Stamped'
  BY <1>10 DEF LoadsUser, ChecksDue, GoesTo, Ends, User, NothingSeen
<1>11. ASSUME FindsUser PROVE Stamped'
  BY <1>11 DEF FindsUser, User, NothingSeen, GoesTo
<1>12. ASSUME FindsLatest PROVE Stamped'
  BY <1>12 DEF FindsLatest, ChecksDue, GoesTo, Ends, User, NothingSeen
<1>13. ASSUME NEW p \in Senders, ClaimsAttempt(p) PROVE Stamped'
  BY <1>13 DEF ClaimsAttempt, AttemptTime, GoesTo, Ends
<1>14. ASSUME NEW p \in Senders, ListsPending(p) PROVE Stamped'
  BY <1>14 DEF ListsPending, Awaiting, GoesTo
<1>15. ASSUME NEW p \in Senders, Reminds(p) PROVE Stamped'
  BY <1>15 DEF Reminds, GoesTo
<1>16. ASSUME NEW p \in Senders, Records(p) PROVE Stamped'
  BY <1>16 DEF Records, TimePasses, Stamp, SentTime, GoesTo
<1>17. ASSUME NEW p \in Proc, Fails(p) PROVE Stamped'
  BY <1>17 DEF Fails, Ends, GoesTo
<1>18. CASE UNCHANGED vars
  BY <1>18 DEF vars, run, mail, history
<1>19. QED
  BY <1>1, <1>2, <1>3, <1>4, <1>5, <1>6, <1>7, <1>8, <1>9, <1>10, <1>11, <1>12, <1>13, <1>14, <1>15, <1>16, <1>17, <1>18 DEF Next, Arrives, Reminder

LEMMA AccountedStep == TypeOK /\ Stamped /\ Accounted /\ [Next]_vars => Accounted'
<1> SUFFICES ASSUME TypeOK, Stamped, Accounted, [Next]_vars PROVE Accounted'
  OBVIOUS
<1> USE DEF TypeOK, Stamped, Accounted, mail, history
<1>1. ASSUME Waits PROVE Accounted'
  BY <1>1 DEF Waits
<1>2. ASSUME NEW m \in Msg, LogsMail(m) PROVE Accounted'
  BY <1>2 DEF LogsMail, TimePasses, Stamp
<1>3. ASSUME NEW m \in Msg, Holds(m) PROVE Accounted'
  BY <1>3 DEF Holds, TimePasses, Stamp, GoesTo
<1>4. ASSUME NEW m \in Msg, Resolves(m) PROVE Accounted'
  BY <1>4 DEF Resolves
<1>5. ASSUME NEW m \in Msg, LoadsAlert(m) PROVE Accounted'
  BY <1>5 DEF LoadsAlert, GoesTo, Ends
<1>6. ASSUME StartsDigest PROVE Accounted'
  BY <1>6 DEF StartsDigest, GoesTo, DigestSince
<1>7. ASSUME ListsItems PROVE Accounted'
  BY <1>7 DEF ListsItems, GoesTo, Ends, InDigest
<1>8. ASSUME NEW p \in Proc, Mails(p) PROVE Accounted'
  BY <1>8 DEF Mails, GoesTo
<1>9. ASSUME NEW p \in Proc, NotesAlert(p) PROVE Accounted'
  BY <1>9 DEF NotesAlert, TimePasses, Stamp, Ends, GoesTo
<1>10. ASSUME NEW m \in Msg, LoadsUser(m) PROVE Accounted'
  BY <1>10 DEF LoadsUser, ChecksDue, GoesTo, Ends, User, NothingSeen
<1>11. ASSUME FindsUser PROVE Accounted'
  BY <1>11 DEF FindsUser, User, NothingSeen, GoesTo
<1>12. ASSUME FindsLatest PROVE Accounted'
  BY <1>12 DEF FindsLatest, ChecksDue, GoesTo, Ends, User, NothingSeen
<1>13. ASSUME NEW p \in Senders, ClaimsAttempt(p) PROVE Accounted'
  BY <1>13 DEF ClaimsAttempt, AttemptTime, GoesTo, Ends
<1>14. ASSUME NEW p \in Senders, ListsPending(p) PROVE Accounted'
  BY <1>14 DEF ListsPending, Awaiting, GoesTo
<1>15. ASSUME NEW p \in Senders, Reminds(p) PROVE Accounted'
  BY <1>15 DEF Reminds, GoesTo
<1>16. ASSUME NEW p \in Senders, Records(p) PROVE Accounted'
  BY <1>16 DEF Records, TimePasses, Stamp, SentTime, GoesTo
<1>17. ASSUME NEW p \in Proc, Fails(p) PROVE Accounted'
  BY <1>17 DEF Fails, Ends, GoesTo
<1>18. CASE UNCHANGED vars
  BY <1>18 DEF vars, run, mail, history
<1>19. QED
  BY <1>1, <1>2, <1>3, <1>4, <1>5, <1>6, <1>7, <1>8, <1>9, <1>10, <1>11, <1>12, <1>13, <1>14, <1>15, <1>16, <1>17, <1>18 DEF Next, Arrives, Reminder

LEMMA ReadsRecordedStep == TypeOK /\ ReadsRecorded /\ [Next]_vars => ReadsRecorded'
<1> SUFFICES ASSUME TypeOK, ReadsRecorded, [Next]_vars PROVE ReadsRecorded'
  OBVIOUS
<1> USE TimeAssumption DEF TypeOK, ReadsRecorded, Proc, Senders, run, history
<1>1. ASSUME Waits PROVE ReadsRecorded'
  BY <1>1 DEF Waits
<1>2. ASSUME NEW m \in Msg, LogsMail(m) PROVE ReadsRecorded'
  BY <1>2 DEF LogsMail, TimePasses, Stamp
<1>3. ASSUME NEW m \in Msg, Holds(m) PROVE ReadsRecorded'
  BY <1>3 DEF Holds, TimePasses, Stamp, GoesTo
<1>4. ASSUME NEW m \in Msg, Resolves(m) PROVE ReadsRecorded'
  BY <1>4 DEF Resolves
<1>5. ASSUME NEW m \in Msg, LoadsAlert(m) PROVE ReadsRecorded'
  BY <1>5 DEF LoadsAlert, GoesTo, Ends
<1>6. ASSUME StartsDigest PROVE ReadsRecorded'
  BY <1>6 DEF StartsDigest, GoesTo, DigestSince
<1>7. ASSUME ListsItems PROVE ReadsRecorded'
  BY <1>7 DEF ListsItems, GoesTo, Ends, InDigest
<1>8. ASSUME NEW p \in Proc, Mails(p) PROVE ReadsRecorded'
  BY <1>8 DEF Mails, GoesTo
<1>9. ASSUME NEW p \in Proc, NotesAlert(p) PROVE ReadsRecorded'
  BY <1>9 DEF NotesAlert, TimePasses, Stamp, Ends, GoesTo
<1>10. ASSUME NEW m \in Msg, LoadsUser(m) PROVE ReadsRecorded'
  BY <1>10 DEF LoadsUser, ChecksDue, GoesTo, Ends, User, NothingSeen, DueByCadence
<1>11. ASSUME FindsUser PROVE ReadsRecorded'
  BY <1>11 DEF FindsUser, User, NothingSeen, GoesTo
<1>12. ASSUME FindsLatest PROVE ReadsRecorded'
  <2>1. CASE Awaiting = {}
    BY <1>12, <2>1 DEF FindsLatest, GoesTo, Ends
  <2>2. CASE Awaiting # {}
    <3> DEFINE row == seen[ReminderLoop]
    <3>1. CASE DueByCadence(user.notice, row, logged[Latest], now) /\ ~BackedOff(row, now)
      <4>1. pc' = [pc EXCEPT ![ReminderLoop] = "claim"] /\ fresh' = fresh /\ pc[ReminderLoop] = "latest"
        BY <1>12, <2>2, <3>1, ProcAssumption DEF FindsLatest, ChecksDue, GoesTo
      <4>2. noted' = noted /\ sent' = sent /\ now' = now /\ user' = user
        BY <1>12 DEF FindsLatest
      <4>3. \A p \in Proc \ {ReminderLoop} : seen'[p] = seen[p]
        BY <1>12, <2>2, <3>1 DEF FindsLatest, ChecksDue
      <4>4. ASSUME user.notice = "hourly", noted # 0, ReminderLoop \in fresh
            PROVE  now - noted >= Cadence
        <5>1. row.sent = noted
          BY <4>1, <4>4
        <5>2. QED
          BY <3>1, <4>4, <5>1 DEF DueByCadence
      <4>5. QED
        BY <4>1, <4>2, <4>3, <4>4
    <3>2. CASE ~(DueByCadence(user.notice, row, logged[Latest], now) /\ ~BackedOff(row, now))
      BY <1>12, <2>2, <3>2 DEF FindsLatest, ChecksDue, GoesTo, Ends
    <3>3. QED
      BY <3>1, <3>2
  <2>3. QED
    BY <2>1, <2>2
<1>13. ASSUME NEW p \in Senders, ClaimsAttempt(p) PROVE ReadsRecorded'
  BY <1>13 DEF ClaimsAttempt, AttemptTime, GoesTo, Ends
<1>14. ASSUME NEW p \in Senders, ListsPending(p) PROVE ReadsRecorded'
  BY <1>14 DEF ListsPending, Awaiting, GoesTo
<1>15. ASSUME NEW p \in Senders, Reminds(p) PROVE ReadsRecorded'
  BY <1>15 DEF Reminds, GoesTo
<1>16. ASSUME NEW p \in Senders, Records(p) PROVE ReadsRecorded'
  BY <1>16 DEF Records, TimePasses, Stamp, SentTime, GoesTo
<1>17. ASSUME NEW p \in Proc, Fails(p) PROVE ReadsRecorded'
  BY <1>17 DEF Fails, Ends, GoesTo
<1>18. CASE UNCHANGED vars
  BY <1>18 DEF vars, run, mail, history
<1>19. QED
  BY <1>1, <1>2, <1>3, <1>4, <1>5, <1>6, <1>7, <1>8, <1>9, <1>10, <1>11, <1>12, <1>13, <1>14, <1>15, <1>16, <1>17, <1>18 DEF Next, Arrives, Reminder

LEMMA OneCadenceStep == TypeOK /\ OneCadence /\ [Next]_vars => OneCadence'
<1> SUFFICES ASSUME TypeOK, OneCadence, [Next]_vars PROVE OneCadence'
  OBVIOUS
<1> USE ProcAssumption DEF TypeOK, OneCadence, Proc, Senders, AllProfiles
<1>1. ASSUME Waits PROVE OneCadence'
  BY <1>1 DEF Waits
<1>2. ASSUME NEW m \in Msg, LogsMail(m) PROVE OneCadence'
  BY <1>2 DEF LogsMail, TimePasses, Stamp
<1>3. ASSUME NEW m \in Msg, Holds(m) PROVE OneCadence'
  BY <1>3 DEF Holds, TimePasses, Stamp, GoesTo
<1>4. ASSUME NEW m \in Msg, Resolves(m) PROVE OneCadence'
  BY <1>4 DEF Resolves
<1>5. ASSUME NEW m \in Msg, LoadsAlert(m) PROVE OneCadence'
  BY <1>5 DEF LoadsAlert, GoesTo, Ends
<1>6. ASSUME StartsDigest PROVE OneCadence'
  BY <1>6 DEF StartsDigest, GoesTo, DigestSince
<1>7. ASSUME ListsItems PROVE OneCadence'
  BY <1>7 DEF ListsItems, GoesTo, Ends, InDigest
<1>8. ASSUME NEW p \in Proc, Mails(p) PROVE OneCadence'
  BY <1>8 DEF Mails, GoesTo
<1>9. ASSUME NEW p \in Proc, NotesAlert(p) PROVE OneCadence'
  BY <1>9 DEF NotesAlert, TimePasses, Stamp, Ends, GoesTo
<1>10. ASSUME NEW m \in Msg, LoadsUser(m) PROVE OneCadence'
  BY <1>10 DEF LoadsUser, ChecksDue, GoesTo, Ends, User, NothingSeen
<1>11. ASSUME FindsUser PROVE OneCadence'
  BY <1>11 DEF FindsUser, User, NothingSeen, GoesTo
<1>12. ASSUME FindsLatest PROVE OneCadence'
  BY <1>12 DEF FindsLatest, ChecksDue, GoesTo, Ends, User, NothingSeen
<1>13. ASSUME NEW p \in Senders, ClaimsAttempt(p) PROVE OneCadence'
  BY <1>13 DEF ClaimsAttempt, AttemptTime, GoesTo, Ends
<1>14. ASSUME NEW p \in Senders, ListsPending(p) PROVE OneCadence'
  BY <1>14 DEF ListsPending, Awaiting, GoesTo
<1>15. ASSUME NEW p \in Senders, Reminds(p) PROVE OneCadence'
  BY <1>15 DEF Reminds, GoesTo
<1>16. ASSUME NEW p \in Senders, Records(p) PROVE OneCadence'
  BY <1>16 DEF Records, TimePasses, Stamp, SentTime, GoesTo
<1>17. ASSUME NEW p \in Proc, Fails(p) PROVE OneCadence'
  BY <1>17 DEF Fails, Ends, GoesTo
<1>18. CASE UNCHANGED vars
  BY <1>18 DEF vars, run, mail, history
<1>19. QED
  BY <1>1, <1>2, <1>3, <1>4, <1>5, <1>6, <1>7, <1>8, <1>9, <1>10, <1>11, <1>12, <1>13, <1>14, <1>15, <1>16, <1>17, <1>18 DEF Next, Arrives, Reminder

LEMMA ResumesStep == TypeOK /\ Stamped /\ OneCadence /\ Resumes /\ [Next]_vars => Resumes'
<1> SUFFICES ASSUME TypeOK, Stamped, OneCadence, Resumes, [Next]_vars PROVE Resumes'
  OBVIOUS
<1> USE ProcAssumption, TimeAssumption DEF TypeOK, Stamped, OneCadence, Resumes, Proc, Senders, Selected, mail, run, history
<1>1. ASSUME Waits PROVE Resumes'
  BY <1>1 DEF Waits
<1>2. ASSUME NEW m \in Msg, LogsMail(m) PROVE Resumes'
  BY <1>2 DEF LogsMail, TimePasses, Stamp
<1>3. ASSUME NEW m \in Msg, Holds(m) PROVE Resumes'
  BY <1>3 DEF Holds, TimePasses, Stamp, GoesTo
<1>4. ASSUME NEW m \in Msg, Resolves(m) PROVE Resumes'
  BY <1>4 DEF Resolves
<1>5. ASSUME NEW m \in Msg, LoadsAlert(m) PROVE Resumes'
  BY <1>5 DEF LoadsAlert, GoesTo, Ends
<1>6. ASSUME StartsDigest PROVE Resumes'
  BY <1>6 DEF StartsDigest, GoesTo, DigestSince
<1>7. ASSUME ListsItems PROVE Resumes'
  BY <1>7 DEF ListsItems, GoesTo, Ends, InDigest
<1>8. ASSUME NEW p \in Proc, Mails(p) PROVE Resumes'
  BY <1>8 DEF Mails, GoesTo
<1>9. ASSUME NEW p \in Proc, NotesAlert(p) PROVE Resumes'
  BY <1>9 DEF NotesAlert, TimePasses, Stamp, Ends, GoesTo
<1>10. ASSUME NEW m \in Msg, LoadsUser(m) PROVE Resumes'
  BY <1>10 DEF LoadsUser, ChecksDue, GoesTo, Ends, User, NothingSeen
<1>11. ASSUME FindsUser PROVE Resumes'
  BY <1>11 DEF FindsUser, User, NothingSeen, GoesTo
<1>12. ASSUME FindsLatest PROVE Resumes'
  BY <1>12 DEF FindsLatest, ChecksDue, GoesTo, Ends, User, NothingSeen
<1>13. ASSUME NEW p \in Senders, ClaimsAttempt(p) PROVE Resumes'
  BY <1>13 DEF ClaimsAttempt, AttemptTime, GoesTo, Ends
<1>14. ASSUME NEW p \in Senders, ListsPending(p) PROVE Resumes'
  BY <1>14 DEF ListsPending, Awaiting, GoesTo
<1>15. ASSUME NEW p \in Senders, Reminds(p) PROVE Resumes'
  BY <1>15 DEF Reminds, GoesTo
<1>16. ASSUME NEW p \in Senders, Records(p) PROVE Resumes'
  BY <1>16 DEF Records, TimePasses, Stamp, SentTime, GoesTo
<1>17. ASSUME NEW p \in Proc, Fails(p) PROVE Resumes'
  BY <1>17 DEF Fails, Ends, GoesTo
<1>18. CASE UNCHANGED vars
  BY <1>18 DEF vars, run, mail, history
<1>19. QED
  BY <1>1, <1>2, <1>3, <1>4, <1>5, <1>6, <1>7, <1>8, <1>9, <1>10, <1>11, <1>12, <1>13, <1>14, <1>15, <1>16, <1>17, <1>18 DEF Next, Arrives, Reminder
-----------------------------------------------------------------------------
LEMMA InitIInv == Init => IInv
  BY TimeAssumption, ProcAssumption DEF Init, IInv, ClaimTimes, Stamped, Accounted,
     ReadsRecorded, OneCadence, Resumes, Proc

LEMMA Invariant == Spec => [](TypeOK /\ IInv)
<1>1. Init => TypeOK /\ IInv
  BY InitTypeOK, InitIInv
<1>2. TypeOK /\ IInv /\ [Next]_vars => (TypeOK /\ IInv)'
  BY StepTypeOK, ClaimTimesStep, StampedStep, AccountedStep, ReadsRecordedStep,
     OneCadenceStep, ResumesStep DEF IInv
<1>3. QED
  BY <1>1, <1>2, PTL DEF Spec

\* Every variable of the notifications stays in its domain, for any set of
\* messages and any user.
THEOREM NotificationsTypes == Spec => []TypeOK
  BY Invariant, PTL

\* latestPendingMessage finds a row whenever the user has one.
LEMMA LatestAwaits == TypeOK /\ Stamped /\ Awaiting # {} => Latest \in Awaiting
<1> SUFFICES ASSUME TypeOK, Stamped, Awaiting # {} PROVE Latest \in Awaiting
  OBVIOUS
<1>1. now \in Nat /\ \A m \in Awaiting : entered[m] \in Nat /\ entered[m] <= now
  BY DEF TypeOK, Stamped, Awaiting
<1>2. \E m \in Awaiting : \A k \in Awaiting : entered[k] <= entered[m]
  BY <1>1, Greatest
<1>3. QED
  BY <1>2 DEF Latest

LEMMA DigestsForgetNothing ==
    ASSUME TypeOK, Stamped, Accounted, NEW m \in InDigest(0) \ (told \cup missed)
    PROVE  Selected(m) > alertSent
<1>1. CASE class[m] = "held" /\ m \in held
  BY <1>1 DEF Selected, TypeOK, Stamped, Accounted
<1>2. CASE class[m] = "tagged" /\ m \in Msg /\ logged[m] # 0
  BY <1>2 DEF Selected, TypeOK, Accounted
<1>3. QED
  BY <1>1, <1>2 DEF InDigest, TypeOK

LEMMA RemindersForgetNothing ==
    ASSUME TypeOK, Stamped, Accounted, Awaiting # {}, Latest \notin told \cup missed
    PROVE  DueByCadence(user.notice, User, logged[Latest], now + Cadence)
<1>1. Latest \in Msg /\ logged[Latest] # 0 /\ logged[Latest] \in Nat
  BY LatestAwaits DEF Awaiting, TypeOK, Stamped
<1>2. logged[Latest] > sent
  BY <1>1 DEF TypeOK, Accounted
<1>3. User.sent = sent
  BY DEF User, NothingSeen
<1>4. (now + Cadence) - User.sent >= Cadence
  BY <1>3, TimeAssumption DEF TypeOK
<1>5. CASE user.notice = "hourly"
  BY <1>4, <1>5 DEF DueByCadence
<1>6. CASE user.notice # "hourly"
  BY <1>2, <1>3, <1>6 DEF DueByCadence
<1>7. QED
  BY <1>5, <1>6

\* A message is only forgotten if it was on its way while a notice was being
\* sent: for any number of messages, any delays and any failures, every other
\* one is still newer than the last digest or makes a reminder due (digestSince,
\* challengeDigestDue).
THEOREM NothingElseForgotten == Spec => []ForgottenOnlyMidNotice
<1>1. TypeOK /\ IInv => ForgottenOnlyMidNotice
  BY DigestsForgetNothing, RemindersForgetNothing DEF IInv, ForgottenOnlyMidNotice, Selected
<1>2. QED
  BY <1>1, Invariant, PTL

\* Among the runs that have read the user's row since the latest recorded
\* reminder, none hands over an hourly reminder before the hour is over,
\* whoever else claims, fails or records (challengeDigestDue,
\* claimChallengeDigestAttempt, sendChallengeOne).
THEOREM CadenceKept == Spec => ReminderKeepsCadence
<1>1. TypeOK /\ IInv =>
        [\A p \in Senders :
            user.notice = "hourly" /\ pc[p] = "remind" /\ pc'[p] = "record" =>
                \/ noted = 0
                \/ p \notin fresh
                \/ now - noted >= Cadence]_vars
  BY DEF IInv, ReadsRecorded
<1>2. QED
  BY <1>1, Invariant, PTL DEF ReminderKeepsCadence

\* No digest lists what an earlier one has listed and recorded, whatever the
\* cap on the lookback (digestSince, RunQuarantineAlertDigests).
THEOREM DigestsDisjoint == Spec => DigestListsOnce
<1>1. TypeOK /\ IInv =>
        [pc[DigestLoop] = "mail" /\ pc'[DigestLoop] = "note" =>
            items[DigestLoop] \cap digested = {}]_vars
  BY DEF IInv, Resumes
<1>2. QED
  BY <1>1, Invariant, PTL DEF DigestListsOnce
=============================================================================
