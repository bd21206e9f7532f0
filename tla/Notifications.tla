---------------------------- MODULE Notifications ----------------------------
(***************************************************************************)
(* Telling ONE user about withheld mail.  A message held for the user's     *)
(* approval ("challenge") is announced by a reminder, sent by the goroutine *)
(* ingest starts or by a minute loop; both race for the user's row.  Any    *)
(* other held message ("held"), and mail delivered with a tag ("tagged"),   *)
(* is announced at once or by a daily digest.  Every statement and every    *)
(* SMTP hand-off is a step, and every time stamp that is stored is distinct.*)
(***************************************************************************)
EXTENDS Integers, FiniteSets

CONSTANTS
    Msg,          \* messages for the user
    DigestLoop,   \* the loop that sends digests
    ReminderLoop, \* the loop that sends reminders
    Profiles,     \* what the user may get and have chosen, see AllProfiles
    Retry,        \* challengeDigestRetryDelay
    Cadence,      \* an hour for reminders, a day for digests
    Lookback,     \* digestLookbackCap
    MaxTime,      \* bound on the clock
    Faults        \* faults the environment may inject, see FaultKinds

AllClasses == {"held", "tagged", "challenge"}
AllProfiles == [classes : SUBSET AllClasses,        \* classes of the messages
                alert : {"immediate", "daily"},     \* phishing_alert_frequency
                notice : {"immediate", "hourly"}]   \* challenge_response_alert_frequency
FaultKinds == {"smtp",  \* the relay refuses or cannot be reached
               "db",    \* a statement fails
               "crash"} \* the API dies and starts again

ASSUME ProcAssumption == /\ DigestLoop \notin Msg /\ ReminderLoop \notin Msg
                         /\ DigestLoop # ReminderLoop
ASSUME InputAssumption == Profiles \subseteq AllProfiles /\ Faults \subseteq FaultKinds
ASSUME TimeAssumption == /\ Retry \in Nat \ {0} /\ Cadence \in Nat \ {0}
                         /\ Lookback \in Nat \ {0} /\ MaxTime \in Nat

Proc == Msg \cup {DigestLoop, ReminderLoop}
Senders == Msg \cup {ReminderLoop} \* who may send a reminder

VARIABLES
    now,        \* the clock
    \* PostgreSQL; 0 is NULL
    class,      \* mail_logs.disposition and reason
    logged,     \* mail_logs.received_at
    entered,    \* quarantine_entries.received_at
    held,       \* messages with an entry in state held
    user,       \* the profile
    alertSent,  \* users.phishing_alert_last_sent_at
    attempt,    \* users.challenge_response_alert_last_attempt_at
    sent,       \* users.challenge_response_alert_last_sent_at
    \* the goroutine of each message and the two loops
    pc,
    seen,       \* what each has read: see NothingSeen
    items,      \* messages its mail will list
    late,       \* runs whose context is over
    fresh,      \* runs that have read the user's row since a reminder was recorded
    \* history
    told,       \* messages some mail has listed
    missed,     \* messages that were logged, but not listed, when it was recorded
    digested,   \* messages a recorded digest listed
    noted       \* time the latest reminder was recorded, 0 if it is not

vars == <<now, class, logged, entered, held, user, alertSent,
          attempt, sent, pc, seen, items, late, fresh,
          told, missed, digested, noted>>
run == <<seen, items, late, fresh>>
mail == <<class, logged, entered, held>>
history == <<told, missed, digested, noted>>

NothingSeen == [attempt |-> 0, \* the user's row
                sent |-> 0,
                time |-> 0]    \* time.Now() of the claim; start of the digest

Init ==
    /\ now = 1
    /\ user \in Profiles
    /\ class \in [Msg -> user.classes]
    /\ logged = [m \in Msg |-> 0] /\ entered = [m \in Msg |-> 0] /\ held = {}
    /\ alertSent = 0 /\ attempt = 0 /\ sent = 0
    /\ pc = [p \in Proc |-> "idle"]
    /\ seen = [p \in Proc |-> NothingSeen]
    /\ items = [p \in Proc |-> {}]
    /\ late = {} /\ fresh = {}
    /\ told = {} /\ missed = {} /\ digested = {}
    /\ noted = 0

\* Storing a time stamp takes time, so no two are equal.
Stamp == now + 1
TimePasses == now < MaxTime /\ now' = Stamp

GoesTo(p, step) == pc' = [pc EXCEPT ![p] = step]

\* A goroutine ends; a loop waits for its next tick.
Ends(p) ==
    /\ GoesTo(p, "idle")
    /\ seen' = [seen EXCEPT ![p] = NothingSeen]
    /\ items' = [items EXCEPT ![p] = {}]
    /\ late' = late \ {p}
    /\ fresh' = fresh \ {p}

\* A run has a context of 10 or 30 seconds, and the SMTP hand-off ignores it:
\* after a long pause its statements fail.
InTime(p) == p \notin late
-----------------------------------------------------------------------------
\* A pause, long enough for a backoff to end.
Waits ==
    /\ now + Retry <= MaxTime
    /\ now' = now + Retry
    /\ late' = {p \in Proc : pc[p] # "idle"}
    /\ UNCHANGED <<mail, user, alertSent, attempt, sent, pc, seen, items, fresh, history>>

LogsMail(m) ==
    /\ logged[m] = 0 /\ TimePasses
    /\ logged' = [logged EXCEPT ![m] = Stamp]
    /\ UNCHANGED <<class, entered, held, user, alertSent, attempt, sent, pc, run,
                   history>>

\* The entry is inserted; unless ingest fails at its blob, it starts the
\* goroutine that tells the user.
Holds(m) ==
    /\ class[m] # "tagged" /\ logged[m] # 0 /\ entered[m] = 0 /\ TimePasses
    /\ entered' = [entered EXCEPT ![m] = Stamp]
    /\ held' = held \cup {m}
    /\ \/ GoesTo(m, IF class[m] = "challenge" THEN "load" ELSE "alert")
       \/ "db" \in Faults /\ UNCHANGED pc
    /\ UNCHANGED <<class, logged, user, alertSent, attempt, sent, run, history>>

\* Somebody releases or deletes the message.
Resolves(m) ==
    /\ m \in held
    /\ held' = held \ {m}
    /\ UNCHANGED <<now, class, logged, entered, user, alertSent, attempt, sent, pc,
                   run, history>>
-----------------------------------------------------------------------------
\* SendPhishingAlertForMailLog: only users on the immediate cadence.
LoadsAlert(m) ==
    /\ pc[m] = "alert" /\ InTime(m)
    /\ IF user.alert = "immediate"
       THEN /\ items' = [items EXCEPT ![m] = {m}]
            /\ GoesTo(m, "mail")
            /\ UNCHANGED <<seen, late, fresh>>
       ELSE Ends(m)
    /\ UNCHANGED <<now, mail, user, alertSent, attempt, sent, history>>
-----------------------------------------------------------------------------
ShouldSend(last) == last = 0 \/ now - last >= Cadence

\* Mutant: the lookback cap is applied the wrong way round.
DigestSinceCap(last) ==
    LET since == IF last # 0 THEN last ELSE now - Cadence
    IN  IF since < now - Lookback THEN since ELSE now - Lookback

DigestSince(last) ==
    LET since == IF last # 0 THEN last ELSE now - Cadence
    IN  IF since < now - Lookback THEN now - Lookback ELSE since

\* RunQuarantineAlertDigests, for this user.
StartsDigest ==
    /\ pc[DigestLoop] = "idle"
    /\ user.alert = "daily" /\ ShouldSend(alertSent)
    /\ seen' = [seen EXCEPT ![DigestLoop].time = DigestSince(alertSent)]
    /\ GoesTo(DigestLoop, "items")
    /\ UNCHANGED <<now, mail, user, alertSent, attempt, sent, items, late, fresh, history>>

InDigest(since) ==
    {m \in held : class[m] = "held" /\ entered[m] > since}
    \cup {m \in Msg : class[m] = "tagged" /\ logged[m] # 0 /\ logged[m] > since}

ListsItems ==
    /\ pc[DigestLoop] = "items" /\ InTime(DigestLoop)
    /\ LET listed == InDigest(seen[DigestLoop].time)
       IN  IF listed = {}
           THEN Ends(DigestLoop)
           ELSE /\ items' = [items EXCEPT ![DigestLoop] = listed]
                /\ GoesTo(DigestLoop, "mail")
                /\ UNCHANGED <<seen, late, fresh>>
    /\ UNCHANGED <<now, mail, user, alertSent, attempt, sent, history>>

\* Alerts and digests: sendOne, sendQuarantineDigest.
Mails(p) ==
    /\ pc[p] = "mail"
    /\ told' = told \cup items[p]
    /\ GoesTo(p, "note")
    /\ UNCHANGED <<now, mail, user, alertSent, attempt, sent, run, missed,
                   digested, noted>>

NotesAlert(p) ==
    /\ pc[p] = "note" /\ InTime(p) /\ TimePasses
    /\ alertSent' = Stamp
    /\ digested' = IF p = DigestLoop THEN digested \cup items[p] ELSE digested
    /\ missed' = missed \cup {m \in Msg : logged[m] # 0 /\ m \notin told}
    /\ Ends(p)
    /\ UNCHANGED <<mail, user, attempt, sent, told, noted>>
-----------------------------------------------------------------------------
Awaiting == {m \in held : class[m] = "challenge"}

\* latestPendingMessage orders by the entry and returns the mail log.
Latest == CHOOSE m \in Awaiting : \A k \in Awaiting : entered[k] <= entered[m]

\* Mutant: the newest message is compared with the last attempt.
DueSinceAttempt(freq, row, newest, t) ==
    IF freq = "hourly" THEN row.sent = 0 \/ t - row.sent >= Cadence
    ELSE row.sent = 0 \/ (newest > row.sent /\ newest > row.attempt)

DueByCadence(freq, row, newest, t) ==
    IF freq = "hourly" THEN row.sent = 0 \/ t - row.sent >= Cadence
    ELSE row.sent = 0 \/ newest > row.sent

BackedOff(row, t) == row.attempt > row.sent /\ t - row.attempt < Retry

\* challengeDigestDue, on the row that was read.
ChecksDue(p, row, newest) ==
    IF DueByCadence(user.notice, row, newest, now) /\ ~BackedOff(row, now)
    THEN /\ seen' = [seen EXCEPT ![p] = [NothingSeen EXCEPT !.time = now]]
         /\ fresh' = fresh \cup (IF p \in Msg THEN {p} ELSE {})
         /\ GoesTo(p, "claim")
         /\ UNCHANGED <<items, late>>
    ELSE Ends(p)

User == [NothingSeen EXCEPT !.attempt = attempt, !.sent = sent]

\* challengeUsers, in the goroutine of one message.
LoadsUser(m) ==
    /\ pc[m] = "load" /\ InTime(m)
    /\ ChecksDue(m, User, logged[m])
    /\ UNCHANGED <<now, mail, user, alertSent, attempt, sent, history>>

\* challengeDigestCandidates.
FindsUser ==
    /\ pc[ReminderLoop] = "idle" /\ Awaiting # {}
    /\ seen' = [seen EXCEPT ![ReminderLoop] = User]
    /\ fresh' = fresh \cup {ReminderLoop}
    /\ GoesTo(ReminderLoop, "latest")
    /\ UNCHANGED <<now, mail, user, alertSent, attempt, sent, items, late, history>>

FindsLatest ==
    /\ pc[ReminderLoop] = "latest" /\ InTime(ReminderLoop)
    /\ IF Awaiting = {}
       THEN Ends(ReminderLoop)
       ELSE ChecksDue(ReminderLoop, seen[ReminderLoop], logged[Latest])
    /\ UNCHANGED <<now, mail, user, alertSent, attempt, sent, history>>

AttemptTime(p) == seen[p].time

\* claimChallengeDigestAttempt: one UPDATE that looks at the row again.
Claimable(t) == attempt = 0 \/ attempt <= t - Retry \/ (sent # 0 /\ attempt <= sent)

ClaimsAttempt(p) ==
    /\ pc[p] = "claim" /\ InTime(p)
    /\ IF Claimable(seen[p].time)
       THEN /\ attempt' = AttemptTime(p)
            /\ GoesTo(p, "pending")
            /\ seen' = [seen EXCEPT ![p].time = 0]
            /\ UNCHANGED <<items, late, fresh>>
       ELSE Ends(p) /\ UNCHANGED attempt
    /\ UNCHANGED <<now, mail, user, alertSent, sent, history>>

ListsPending(p) ==
    /\ pc[p] = "pending" /\ InTime(p)
    /\ items' = [items EXCEPT ![p] = Awaiting]
    /\ GoesTo(p, "remind")
    /\ UNCHANGED <<now, mail, user, alertSent, attempt, sent, seen, late, fresh, history>>

Reminds(p) ==
    /\ pc[p] = "remind"
    /\ told' = told \cup items[p]
    /\ noted' = 0
    /\ GoesTo(p, "record")
    /\ UNCHANGED <<now, mail, user, alertSent, attempt, sent, run, missed, digested>>

\* Mutant: the bug that used to be here, per the comment in sendChallengeOne.
RecordsNewest(p) ==
    IF items[p] = {} THEN Stamp
    ELSE logged[CHOOSE m \in items[p] : \A k \in items[p] : logged[k] <= logged[m]]

SentTime(p) == Stamp

Records(p) ==
    /\ pc[p] = "record" /\ InTime(p) /\ TimePasses
    /\ sent' = SentTime(p) /\ attempt' = SentTime(p)
    /\ noted' = Stamp
    /\ missed' = missed \cup {m \in Msg : logged[m] # 0 /\ m \notin told}
    /\ GoesTo(p, "idle")
    /\ seen' = [seen EXCEPT ![p] = NothingSeen]
    /\ items' = [items EXCEPT ![p] = {}]
    /\ fresh' = {}
    /\ UNCHANGED late
    /\ UNCHANGED <<mail, user, alertSent, told, digested>>
-----------------------------------------------------------------------------
\* The relay refuses, a statement fails or comes too late: the run is over.
Fails(p) ==
    /\ \/ pc[p] \in {"mail", "remind"} /\ "smtp" \in Faults
       \/ pc[p] # "idle" /\ "db" \in Faults
       \/ pc[p] # "idle" /\ ~InTime(p)
    /\ Ends(p)
    /\ UNCHANGED <<now, mail, user, alertSent, attempt, sent, history>>

Arrives(m) == LogsMail(m) \/ Holds(m) \/ Resolves(m)
Reminder(p) == ClaimsAttempt(p) \/ ListsPending(p) \/ Reminds(p) \/ Records(p)

Next ==
    \/ Waits \/ StartsDigest \/ ListsItems \/ FindsUser \/ FindsLatest
    \/ \E m \in Msg : Arrives(m) \/ LoadsAlert(m) \/ LoadsUser(m)
    \/ \E p \in Proc : Mails(p) \/ NotesAlert(p) \/ Fails(p)
    \/ \E p \in Senders : Reminder(p)

Spec == Init /\ [][Next]_vars
-----------------------------------------------------------------------------
Steps == {"idle", "alert", "items", "mail", "note", "load", "latest", "claim",
          "pending", "remind", "record"}

\* Every variable stays in its domain (the columns of mail_logs,
\* quarantine_entries and users, and the position of each sender).
TypeOK ==
    /\ now \in Nat
    /\ class \in [Msg -> AllClasses]
    /\ logged \in [Msg -> Nat] /\ entered \in [Msg -> Nat] /\ held \subseteq Msg
    /\ user \in AllProfiles
    /\ alertSent \in 0..now /\ attempt \in 0..now /\ sent \in 0..now
    /\ pc \in [Proc -> Steps]
    /\ seen \in [Proc -> [attempt : Nat, sent : Nat, time : Int]]
    /\ late \subseteq Proc /\ fresh \subseteq Proc
    /\ items \in [Proc -> SUBSET Msg]
    /\ told \subseteq Msg /\ missed \subseteq Msg /\ digested \subseteq Msg
    /\ noted \in Nat

Quiet == \A p \in Proc : pc[p] = "idle"

\* A message is only forgotten if it was on its way while a notice was being
\* sent (or when it passes the lookback cap): any other unannounced message is
\* newer than the last digest, or makes a reminder due (digestSince,
\* challengeDigestDue and the two loops, whatever failed before).
ForgottenOnlyMidNotice ==
    Quiet =>
        /\ user.alert = "daily" => \A m \in InDigest(0) \ (told \cup missed) :
                (IF class[m] = "held" THEN entered[m] ELSE logged[m]) > alertSent
        /\ Awaiting # {} /\ Latest \notin told \cup missed
                => DueByCadence(user.notice, User, logged[Latest], now + Cadence)

\* An hourly reminder follows a recorded one after an hour at the earliest,
\* except from a run that had read the user's row before (sendChallengeOne:
\* "resent the reminder every minute").
ReminderKeepsCadence ==
    [][\A p \in Senders :
        user.notice = "hourly" /\ pc[p] = "remind" /\ pc'[p] = "record" =>
            \/ noted = 0
            \/ p \notin fresh
            \/ now - noted >= Cadence]_vars

\* No digest lists what an earlier digest has listed and recorded (digestSince
\* resumes where the previous digest was recorded).
DigestListsOnce ==
    [][pc[DigestLoop] = "mail" /\ pc'[DigestLoop] = "note" =>
            items[DigestLoop] \cap digested = {}]_vars
-----------------------------------------------------------------------------
\* phishing.go: "A newly held message must still trigger an immediate digest
\* after an earlier success".
NewHoldsStayDue ==
    Quiet /\ user.notice = "immediate" =>
        \A m \in Awaiting \ told : sent = 0 \/ logged[m] > sent
=============================================================================
