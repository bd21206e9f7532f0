----------------------------- MODULE SmtpEvents -----------------------------
(***************************************************************************)
(* What Postfix finally did with a message, as the gateway learns it: the  *)
(* forwarder reads Postfix's log line by line and posts events; the API    *)
(* stores each one and writes the terminal outcome onto the mail log with  *)
(* the same queue id, in one transaction.  The mail log row itself is      *)
(* inserted by the milter callback, which Postfix may stop waiting for.    *)
(* Time is counted in days: what takes seconds ends within a tick.         *)
(***************************************************************************)
EXTENDS Integers, Sequences

CONSTANTS
    Msgs,       \* number of messages, numbered as they arrive
    Rcpts,      \* how many recipients every message has
    Decisions,  \* what the pipeline may decide, see AllDecisions
    Window,     \* how long before an event its mail log may have been received
    Faults,     \* faults the environment may inject, see FaultKinds
    MaxLines,   \* bound on the log lines
    MaxTime     \* bound on the clock

FaultKinds == {"down",   \* the API refuses or cannot store an event
               "slow",   \* a client gives up waiting on the API
               "drop",   \* the connection breaks before the answer
               "crash",  \* a milter callback dies before its INSERT
               "restart"}\* the Postfix container is recreated

AllDecisions == {"delivered", "quarantined", "rejected"}

ASSUME MsgAssumption == Msgs \in Nat /\ Rcpts \in Nat \ {0}
ASSUME InputAssumption == Decisions \subseteq AllDecisions /\ Faults \subseteq FaultKinds
ASSUME BoundAssumption == Window \in Nat /\ MaxLines \in Nat /\ MaxTime \in Nat

VARIABLES
    now,      \* the clock
    callback, \* message -> its milter callback at the API
    mta,      \* message -> what Postfix does with it
    open,     \* message -> number of recipients Postfix has yet to settle
    left,     \* message -> when it left the queue
    log,      \* message -> its mail_logs row, see Row
    tail,     \* log lines the forwarder has not read yet
    written,  \* number of log lines written so far
    fwd,      \* the forwarder: where it stands, its event and attempt
    calls,    \* events being handled by the API
    stored,   \* line -> number of smtp_events rows made of it
    \* history
    said,     \* message -> what the log lines said of it
    late      \* lines whose request outlived the forwarder's patience

vars == <<now, callback, mta, open, left, log, tail, written, fwd, calls,
          stored, said, late>>
mail == <<callback, mta, open, left>>
postfix == <<tail, written, said>>

Msg == 1..Msgs
NoMsg == 0
Lines == 1..MaxLines
LogEvents == {"discarded", "reject", "delivered", "deferred", "bounced"}
NoRow == [has |-> FALSE, disp |-> "delivered", at |-> 0, action |-> "none",
          mismatch |-> FALSE, line |-> 0]
Idle == [pc |-> "idle", ev |-> [line |-> 0, msg |-> NoMsg, type |-> "none", at |-> 0],
         attempt |-> 0]

\* A discarded or rejected message is never in Postfix's queue.
InQueue(m) == mta[m] \in {"waiting", "passed"}

\* All messages carry one queue id: Postfix reuses an id only after the message
\* that had it has left the queue, and not while that message is within the
\* correlation window.
IdFree == \A m \in Msg : mta[m] # "none" => ~InQueue(m) /\ left[m] + Window < now
-----------------------------------------------------------------------------
Init ==
    /\ now = 0
    /\ callback = [m \in Msg |-> "none"]
    /\ mta = [m \in Msg |-> "none"]
    /\ open = [m \in Msg |-> Rcpts]
    /\ left = [m \in Msg |-> 0]
    /\ log = [m \in Msg |-> NoRow]
    /\ tail = <<>> /\ written = 0
    /\ fwd = Idle /\ calls = {}
    /\ stored = [n \in Lines |-> 0]
    /\ said = [m \in Msg |-> {}]
    /\ late = {}

\* Postfix appends a line about message m to its log.
Logs(m, type) ==
    /\ written < MaxLines
    /\ written' = written + 1
    /\ tail' = Append(tail, [line |-> written + 1, msg |-> m, type |-> type])
    /\ said' = [said EXCEPT ![m] = @ \cup {type}]

\* End of message: the milter calls the API, which will decide d.
Arrives(m) ==
    /\ mta[m] = "none" /\ IdFree
    /\ \A k \in 1..(m - 1) : mta[k] # "none"
    /\ mta' = [mta EXCEPT ![m] = "waiting"]
    /\ \E d \in Decisions : callback' = [callback EXCEPT ![m] = d]
    /\ UNCHANGED <<now, open, left, log, postfix, fwd, calls, stored, late>>

\* handle inserts the mail_logs row - perhaps after Postfix stopped waiting.
InsertsLog(m) ==
    /\ callback[m] \in AllDecisions
    /\ log' = [log EXCEPT ![m] = [NoRow EXCEPT !.has = TRUE, !.disp = callback[m],
                                               !.at = now]]
    /\ callback' = [callback EXCEPT ![m] = "done"]
    /\ UNCHANGED <<now, mta, open, left, postfix, fwd, calls, stored, said, late>>

CallbackDies(m) ==
    /\ "crash" \in Faults
    /\ callback[m] \in AllDecisions
    /\ callback' = [callback EXCEPT ![m] = "died"]
    /\ UNCHANGED <<now, mta, open, left, log, postfix, fwd, calls, stored, late>>

\* The milter obeys the answer: the message is discarded, rejected or passed.
MtaHears(m) ==
    /\ mta[m] = "waiting" /\ callback[m] = "done"
    /\ \/ /\ log[m].disp # "delivered"
          /\ Logs(m, IF log[m].disp = "rejected" THEN "reject" ELSE "discarded")
          /\ mta' = [mta EXCEPT ![m] = "gone"]
          /\ left' = [left EXCEPT ![m] = now]
       \/ /\ log[m].disp = "delivered"
          /\ mta' = [mta EXCEPT ![m] = "passed"]
          /\ UNCHANGED <<left, postfix>>
    /\ UNCHANGED <<now, callback, open, log, fwd, calls, stored, late>>

\* The milter fails open: without an answer the original passes.
MtaTimesOut(m) ==
    /\ mta[m] = "waiting"
    /\ "slow" \in Faults \/ callback[m] = "died"
    /\ mta' = [mta EXCEPT ![m] = "passed"]
    /\ UNCHANGED <<now, callback, open, left, log, postfix, fwd, calls, stored, late>>

\* Postfix relays m to one of its recipients, or returns it.
Settles(m) ==
    /\ mta[m] = "passed"
    /\ \E type \in {"delivered", "bounced"} : Logs(m, type)
    /\ open' = [open EXCEPT ![m] = @ - 1]
    /\ IF open[m] = 1
       THEN mta' = [mta EXCEPT ![m] = "gone"] /\ left' = [left EXCEPT ![m] = now]
       ELSE UNCHANGED <<mta, left>>
    /\ UNCHANGED <<now, callback, log, fwd, calls, stored, late>>

Defers(m) ==
    /\ mta[m] = "passed"
    /\ Logs(m, "deferred")
    /\ UNCHANGED <<now, mail, log, fwd, calls, stored, late>>

\* A day passes; callbacks, posts and their timeouts take seconds.
Tick ==
    /\ now < MaxTime
    /\ tail = <<>> /\ calls = {} /\ fwd.pc \in {"idle", "dead"}
    /\ \A m \in Msg : callback[m] \notin AllDecisions /\ mta[m] # "waiting"
    /\ now' = now + 1
    /\ UNCHANGED <<mail, log, postfix, fwd, calls, stored, late>>
-----------------------------------------------------------------------------
(***************************************************************************)
(* The forwarder: one line at a time, at most two attempts for each.       *)
(***************************************************************************)
ReadsLine ==
    /\ fwd.pc = "idle" /\ tail # <<>>
    /\ fwd' = [pc |-> "send", attempt |-> 1,
               ev |-> [line |-> Head(tail).line, msg |-> Head(tail).msg,
                       type |-> Head(tail).type, at |-> now]]
    /\ tail' = Tail(tail)
    /\ UNCHANGED <<now, mail, log, written, said, calls, stored, late>>

Call == [ev |-> fwd.ev, attempt |-> fwd.attempt]

\* Mutant: events are posted without waiting for the answer.
SendsOn ==
    /\ fwd.pc = "send"
    /\ calls' = calls \cup {Call}
    /\ fwd' = Idle
    /\ UNCHANGED <<now, mail, log, postfix, stored, late>>

Sends ==
    /\ fwd.pc = "send"
    /\ calls' = calls \cup {Call}
    /\ fwd' = [fwd EXCEPT !.pc = "wait"]
    /\ UNCHANGED <<now, mail, log, postfix, stored, late>>

\* An answered post returns; the next line is read.
Answered == Idle

\* Mutant: the post has no timeout, and waits on for an answer nobody will send.
WaitsOn == fwd

\* A failed attempt is repeated once, then the line is dropped.
Retried == IF fwd.attempt = 1 THEN [fwd EXCEPT !.pc = "send", !.attempt = 2] ELSE Idle

\* The forwarder sees no answer in time; the request may still be handled.
GivesUp ==
    /\ "slow" \in Faults
    /\ fwd.pc = "wait" /\ Call \in calls
    /\ fwd' = Retried
    /\ late' = late \cup {fwd.ev.line}
    /\ UNCHANGED <<now, mail, log, postfix, calls, stored>>

\* A connection that breaks raises what post_event does not catch: the loop ends.
Breaks ==
    /\ "drop" \in Faults
    /\ fwd.pc = "wait" /\ Call \in calls
    /\ fwd' = [Idle EXCEPT !.pc = "dead"]
    /\ calls' = calls \ {Call}
    /\ UNCHANGED <<now, mail, log, postfix, stored, late>>

\* tail -n0 starts at the end of the log: the lines not read yet are lost.
Restarts ==
    /\ "restart" \in Faults
    /\ fwd.pc # "idle" \/ tail # <<>>
    /\ fwd' = Idle /\ tail' = <<>>
    /\ late' = late \cup {c.ev.line : c \in calls}
    /\ UNCHANGED <<now, mail, log, written, said, calls, stored>>
-----------------------------------------------------------------------------
(***************************************************************************)
(* The API.                                                                *)
(***************************************************************************)

\* terminalActionForEvent: a deferral is not an outcome.
TerminalAction(type) ==
    CASE type = "reject" -> "rejected"
      [] type = "deferred" -> "none"
      [] OTHER -> type

\* Mutant: any mail log with the queue id, however old.
InAnyWindow(at, ev) == at <= ev.at

InWindow(at, ev) == at >= ev.at - Window /\ at <= ev.at

\* The mail log an event is about: the nearest in time with its queue id.
Candidates(ev) == {m \in Msg : log[m].has /\ InWindow(log[m].at, ev)}
Target(ev) ==
    IF TerminalAction(ev.type) = "none" \/ Candidates(ev) = {} THEN NoMsg
    ELSE CHOOSE m \in Candidates(ev) : \A k \in Candidates(ev) : log[k].at <= log[m].at

\* Mutant: the flag says what the latest event says.
MismatchOfLatest(row, ev) ==
    TerminalAction(ev.type) = "delivered" /\ row.disp \in {"quarantined", "rejected"}

MismatchAfter(row, ev) ==
    \/ row.mismatch
    \/ /\ TerminalAction(ev.type) = "delivered"
       /\ row.disp \in {"quarantined", "rejected"}

\* The UPDATE of correlateTerminalOutcome; line is kept for the properties only.
Outcome(row, ev) ==
    [row EXCEPT !.action = TerminalAction(ev.type), !.line = ev.line,
                !.mismatch = MismatchAfter(row, ev)]

\* ingest: the event row and the mail log's outcome, in one transaction.
Ingests(c) ==
    /\ stored' = [stored EXCEPT ![c.ev.line] = @ + 1]
    /\ log' = IF Target(c.ev) = NoMsg THEN log
              ELSE [log EXCEPT ![Target(c.ev)] = Outcome(@, c.ev)]
    /\ calls' = calls \ {c}
    /\ fwd' = IF fwd.pc = "wait" /\ c = Call THEN Answered ELSE fwd
    /\ UNCHANGED <<now, mail, postfix, late>>

\* Nothing is stored: refused, failed and rolled back, or cancelled because
\* its client is gone.
Fails(c) ==
    /\ "down" \in Faults \/ ~(fwd.pc = "wait" /\ c = Call)
    /\ calls' = calls \ {c}
    /\ fwd' = IF fwd.pc = "wait" /\ c = Call THEN Retried ELSE fwd
    /\ UNCHANGED <<now, mail, log, postfix, stored, late>>
-----------------------------------------------------------------------------
Next ==
    \/ \E m \in Msg : Arrives(m) \/ InsertsLog(m) \/ CallbackDies(m) \/ MtaHears(m)
                        \/ MtaTimesOut(m) \/ Settles(m) \/ Defers(m)
    \/ Tick
    \/ ReadsLine \/ Sends \/ GivesUp \/ Breaks \/ Restarts
    \/ \E c \in calls : Ingests(c) \/ Fails(c)

\* The forwarder and the API run on; Postfix, its senders and the faults owe nothing.
Fairness == WF_vars(ReadsLine) /\ WF_vars(Sends)
            /\ WF_vars(\E c \in calls : Ingests(c) \/ Fails(c))

Spec == Init /\ [][Next]_vars /\ Fairness
-----------------------------------------------------------------------------
\* Every variable stays in its domain; the outcome column takes the values its
\* CHECK constraint allows.
TypeOK ==
    /\ now \in 0..MaxTime
    /\ callback \in [Msg -> AllDecisions \cup {"none", "done", "died"}]
    /\ mta \in [Msg -> {"none", "waiting", "passed", "gone"}]
    /\ open \in [Msg -> 0..Rcpts]
    /\ left \in [Msg -> 0..MaxTime]
    /\ log \in [Msg -> [has : BOOLEAN, disp : AllDecisions, at : 0..MaxTime,
                        action : {"none", "delivered", "discarded", "rejected", "bounced"},
                        mismatch : BOOLEAN, line : 0..MaxLines]]
    /\ \A k \in DOMAIN tail : tail[k].line \in Lines /\ tail[k].type \in LogEvents
    /\ written \in 0..MaxLines
    /\ fwd.pc \in {"idle", "send", "wait", "dead"} /\ fwd.attempt \in 0..2
    /\ \A c \in calls : c.ev.line \in Lines /\ c.attempt \in 1..2
    /\ stored \in [Lines -> 0..2]
    /\ late \subseteq Lines

\* The outcome a mail log shows was logged by Postfix about that very message,
\* however late its row was inserted and although queue ids are reused
\* (correlateTerminalOutcomeSQL matches by queue id within a window).
OutcomeIsTrue ==
    \A m \in Msg : log[m].action # "none" =>
        \E type \in said[m] : TerminalAction(type) = log[m].action

\* An outcome that must raise the alarm does, and no later outcome of another
\* recipient takes the alarm back (delivery_mismatch is OR-ed).
MismatchStands ==
    [][\A m \in Msg :
        /\ log[m].mismatch => log'[m].mismatch
        /\ log'[m].action = "delivered" /\ log'[m].disp # "delivered" => log'[m].mismatch]_vars

\* Later outcomes replace earlier ones, never the other way round - except by a
\* request the forwarder no longer waits for.
OutcomesMoveForward ==
    [][\A m \in Msg : log[m].has =>
        \/ log'[m].line >= log[m].line
        \/ log[m].line # 0 /\ log'[m].line \in late]_vars

\* Whatever the API does, the forwarder works through the log, unless a broken
\* connection ended it.
LinesAreHandled ==
    \A n \in Lines :
        (\E k \in DOMAIN tail : tail[k].line = n)
            ~> (fwd.pc = "dead" \/ \A k \in DOMAIN tail : tail[k].line # n)
=============================================================================
