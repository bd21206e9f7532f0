--------------------------- MODULE SmtpEventsProofs ---------------------------
(***************************************************************************)
(* TLAPS proofs about SmtpEvents, for any messages, recipients, window,    *)
(* faults and length of the log.                                           *)
(***************************************************************************)
EXTENDS SmtpEvents, TLAPS

Times == 0..MaxTime
Logged == [line : Lines, msg : Msg, type : LogEvents]
Event == [line : Lines, msg : Msg, type : LogEvents, at : Times]
Posted == [ev : Event, attempt : 1..2]
Row == [has : BOOLEAN, disp : AllDecisions, at : Times,
        action : {"none", "delivered", "discarded", "rejected", "bounced"},
        mismatch : BOOLEAN, line : 0..MaxLines]
Resting == [pc : {"idle", "dead"}, ev : {Idle.ev}, attempt : {0}]
Posting == [pc : {"send", "wait"}, ev : Event, attempt : 1..2]
-----------------------------------------------------------------------------
(***************************************************************************)
(* Types.                                                                  *)
(***************************************************************************)
Domains ==
    /\ now \in Times
    /\ callback \in [Msg -> AllDecisions \cup {"none", "done", "died"}]
    /\ mta \in [Msg -> {"none", "waiting", "passed", "gone"}]
    /\ open \in [Msg -> Int]
    /\ left \in [Msg -> Times]
    /\ log \in [Msg -> Row]
    /\ tail \in Seq(Logged)
    /\ written \in 0..MaxLines
    /\ fwd \in Resting \cup Posting
    /\ calls \subseteq Posted
    /\ stored \in [Lines -> Nat]
    /\ said \in [Msg -> SUBSET LogEvents]
    /\ late \subseteq Lines

LEMMA Shapes ==
    /\ NoRow \in Row /\ ~NoRow.has /\ NoRow.action = "none" /\ ~NoRow.mismatch /\ NoRow.line = 0
    /\ NoRow.disp = "delivered"
    /\ Idle \in Resting /\ [Idle EXCEPT !.pc = "dead"] \in Resting
    /\ Idle.pc = "idle" /\ Idle.ev.line = 0
    /\ \A f \in Resting : f.pc \in {"idle", "dead"} /\ f.ev.line = 0
    /\ \A f \in Posting : f.pc \in {"send", "wait"}
<1>1. NoRow \in Row
  BY BoundAssumption DEF NoRow, Row, Times, AllDecisions
<1>2. Idle \in Resting /\ [Idle EXCEPT !.pc = "dead"] \in Resting
  BY DEF Idle, Resting
<1>3. Idle.pc = "idle" /\ Idle.ev.line = 0
  BY DEF Idle
<1>4. QED
  BY <1>1, <1>2, <1>3 DEF NoRow, Resting, Posting

LEMMA CallShape ==
    ASSUME Domains, fwd.pc \in {"send", "wait"}
    PROVE fwd \in Posting /\ Call \in Posted /\ Call.ev = fwd.ev /\ Call.attempt = fwd.attempt
  BY Shapes DEF Domains, Call, Posted, Posting

LEMMA RetriedShape ==
    ASSUME Domains, fwd.pc = "wait"
    PROVE /\ Retried \in Resting \cup Posting
          /\ Retried.pc \in {"idle", "send"}
          /\ Retried.pc = "send" => Retried.ev = fwd.ev
<1>1. CASE fwd.attempt = 1
  <2>1. fwd \in Posting
    BY CallShape
  <2>2. ASSUME NEW n \in 1..2 PROVE [fwd EXCEPT !.pc = "send", !.attempt = n] \in Posting
    BY <2>1 DEF Posting
  <2>3. /\ [fwd EXCEPT !.pc = "send", !.attempt = 2].pc = "send"
        /\ [fwd EXCEPT !.pc = "send", !.attempt = 2].ev = fwd.ev
    BY <2>1 DEF Posting
  <2>4. QED
    BY <1>1, <2>2, <2>3 DEF Retried
<1>2. CASE fwd.attempt # 1
  BY <1>2, Shapes DEF Retried
<1>3. QED
  BY <1>1, <1>2

LEMMA RetriedLine ==
    ASSUME Domains, fwd.pc = "wait"
    PROVE /\ Retried.ev.line \in {0, fwd.ev.line}
          /\ Retried.pc = "send" => Retried.ev = fwd.ev
<1>1. CASE fwd.attempt = 1
  <2>1. [fwd EXCEPT !.pc = "send", !.attempt = 2].ev = fwd.ev
    BY CallShape DEF Posting
  <2>2. QED
    BY <1>1, <2>1 DEF Retried
<1>2. CASE fwd.attempt # 1
  BY <1>2, Shapes DEF Retried
<1>3. QED
  BY <1>1, <1>2

\* What one more line does to the log.
LEMMA LogsShape ==
    ASSUME Domains, NEW m \in Msg, NEW type \in LogEvents, Logs(m, type)
    PROVE /\ tail' \in Seq(Logged) /\ written' \in 0..MaxLines
          /\ said' \in [Msg -> SUBSET LogEvents]
          /\ written' = written + 1 /\ Len(tail') = Len(tail) + 1
          /\ \A k \in 1..Len(tail) : tail'[k] = tail[k]
          /\ tail'[Len(tail')].line = written + 1
          /\ tail'[Len(tail')].msg = m /\ tail'[Len(tail')].type = type
          /\ \A k \in Msg : said[k] \subseteq said'[k]
          /\ type \in said'[m]
<1> DEFINE e == [line |-> written + 1, msg |-> m, type |-> type]
<1>1. written \in 0..MaxLines /\ written < MaxLines /\ written' = written + 1
  BY DEF Logs, Domains
<1>2. written' \in 0..MaxLines /\ written + 1 \in Lines
  BY <1>1, BoundAssumption DEF Lines
<1>3. e \in Logged /\ e.line = written + 1 /\ e.msg = m /\ e.type = type
  BY <1>2 DEF Logged
<1> HIDE DEF e
<1>4. tail' = Append(tail, e) /\ tail \in Seq(Logged)
  BY DEF Logs, Domains, e
<1>5. /\ tail' \in Seq(Logged) /\ Len(tail') = Len(tail) + 1
      /\ \A k \in 1..Len(tail) : tail'[k] = tail[k]
      /\ tail'[Len(tail')] = e
  BY <1>3, <1>4
<1>6. /\ said' \in [Msg -> SUBSET LogEvents]
      /\ \A k \in Msg : said[k] \subseteq said'[k]
      /\ type \in said'[m]
  BY DEF Logs, Domains
<1>7. QED
  BY <1>1, <1>2, <1>3, <1>5, <1>6

LEMMA InitDomains == Init => Domains
<1> SUFFICES ASSUME Init PROVE Domains
  OBVIOUS
<1>1. now \in Times /\ left \in [Msg -> Times] /\ written \in 0..MaxLines
  BY BoundAssumption DEF Init, Times
<1>2. callback \in [Msg -> AllDecisions \cup {"none", "done", "died"}]
      /\ mta \in [Msg -> {"none", "waiting", "passed", "gone"}]
  BY DEF Init
<1>3. log \in [Msg -> Row] /\ fwd \in Resting \cup Posting /\ calls \subseteq Posted
  BY Shapes DEF Init
<1>4. open \in [Msg -> Int] /\ stored \in [Lines -> Nat]
  BY MsgAssumption DEF Init
<1>5. tail \in Seq(Logged) /\ said \in [Msg -> SUBSET LogEvents] /\ late \subseteq Lines
  BY DEF Init
<1>6. QED
  BY <1>1, <1>2, <1>3, <1>4, <1>5 DEF Domains

LEMMA MailDomains ==
    ASSUME Domains, NEW m \in Msg,
           Arrives(m) \/ InsertsLog(m) \/ CallbackDies(m) \/ MtaTimesOut(m) \/ Defers(m)
    PROVE Domains'
<1>1. CASE Arrives(m)
  BY <1>1, InputAssumption DEF Arrives, postfix, Domains
<1>2. CASE InsertsLog(m)
  <2>1. [NoRow EXCEPT !.has = TRUE, !.disp = callback[m], !.at = now] \in Row
    BY <1>2, Shapes DEF InsertsLog, Row, Domains
  <2>2. QED
    BY <1>2, <2>1 DEF InsertsLog, postfix, Domains
<1>3. CASE CallbackDies(m)
  BY <1>3 DEF CallbackDies, postfix, Domains
<1>4. CASE MtaTimesOut(m)
  BY <1>4 DEF MtaTimesOut, postfix, Domains
<1>5. CASE Defers(m)
  <2>1. Logs(m, "deferred") /\ "deferred" \in LogEvents
    BY <1>5 DEF Defers, LogEvents
  <2>2. QED
    BY <1>5, <2>1, LogsShape DEF Defers, mail, Domains
<1>6. QED
  BY <1>1, <1>2, <1>3, <1>4, <1>5

LEMMA MtaDomains ==
    ASSUME Domains, NEW m \in Msg, MtaHears(m) \/ Settles(m)
    PROVE Domains'
<1>1. CASE MtaHears(m)
  <2>1. CASE log[m].disp # "delivered"
    <3>1. PICK type \in LogEvents : Logs(m, type)
      BY <1>1, <2>1 DEF MtaHears, LogEvents
    <3>2. mta' \in [Msg -> {"none", "waiting", "passed", "gone"}] /\ left' \in [Msg -> Times]
      BY <1>1, <2>1 DEF MtaHears, Domains
    <3>3. QED
      BY <1>1, <3>1, <3>2, LogsShape DEF MtaHears, Domains
  <2>2. CASE log[m].disp = "delivered"
    BY <1>1, <2>2 DEF MtaHears, postfix, Domains
  <2>3. QED
    BY <2>1, <2>2
<1>2. CASE Settles(m)
  <2>1. PICK type \in LogEvents : Logs(m, type)
    BY <1>2 DEF Settles, LogEvents
  <2>2. mta' \in [Msg -> {"none", "waiting", "passed", "gone"}] /\ left' \in [Msg -> Times]
    <3>1. CASE open[m] = 1
      <4>1. mta' = [mta EXCEPT ![m] = "gone"] /\ left' = [left EXCEPT ![m] = now]
        BY <1>2, <3>1 DEF Settles
      <4>2. QED
        BY <4>1 DEF Domains
    <3>2. CASE open[m] # 1
      BY <1>2, <3>2 DEF Settles, Domains
    <3>3. QED
      BY <3>1, <3>2
  <2>3. open' \in [Msg -> Int]
    BY <1>2 DEF Settles, Domains
  <2>4. QED
    BY <1>2, <2>1, <2>2, <2>3, LogsShape DEF Settles, Domains
<1>3. QED
  BY <1>1, <1>2

LEMMA ForwarderDomains ==
    ASSUME Domains, Tick \/ ReadsLine \/ Sends \/ GivesUp \/ Breaks \/ Restarts
    PROVE Domains'
<1>1. CASE Tick
  BY <1>1, BoundAssumption DEF Tick, mail, postfix, Domains, Times
<1>2. CASE ReadsLine
  <2>1. Head(tail) \in Logged /\ tail' \in Seq(Logged)
    BY <1>2 DEF ReadsLine, Domains
  <2>2. [line |-> Head(tail).line, msg |-> Head(tail).msg, type |-> Head(tail).type, at |-> now] \in Event
    BY <2>1 DEF Logged, Event, Domains
  <2>3. fwd' \in Posting
    BY <1>2, <2>2 DEF ReadsLine, Posting
  <2>4. QED
    BY <1>2, <2>1, <2>3 DEF ReadsLine, mail, Domains
<1>3. CASE Sends
  <2>1. fwd' \in Posting
    BY <1>3, CallShape DEF Sends, Posting
  <2>2. QED
    BY <1>3, <2>1, CallShape DEF Sends, mail, postfix, Domains
<1>4. CASE GivesUp
  <2>1. fwd.ev.line \in Lines
    BY <1>4, CallShape DEF GivesUp, Posting, Event
  <2>2. QED
    BY <1>4, <2>1, RetriedShape DEF GivesUp, mail, postfix, Domains
<1>5. CASE Breaks
  BY <1>5, Shapes DEF Breaks, mail, postfix, Domains
<1>6. CASE Restarts
  <2>1. \A c \in calls : c.ev.line \in Lines
    BY DEF Domains, Posted, Event
  <2>2. QED
    BY <1>6, <2>1, Shapes DEF Restarts, mail, Domains
<1>7. QED
  BY <1>1, <1>2, <1>3, <1>4, <1>5, <1>6

LEMMA OutcomeRow ==
    ASSUME NEW row \in Row, NEW ev \in Event, TerminalAction(ev.type) # "none"
    PROVE /\ Outcome(row, ev) \in Row
          /\ Outcome(row, ev).has = row.has /\ Outcome(row, ev).at = row.at
          /\ Outcome(row, ev).disp = row.disp
          /\ Outcome(row, ev).action = TerminalAction(ev.type)
          /\ Outcome(row, ev).line = ev.line
          /\ Outcome(row, ev).mismatch = MismatchAfter(row, ev)
<1>1. TerminalAction(ev.type) \in {"delivered", "discarded", "rejected", "bounced"}
  BY DEF TerminalAction, Event, LogEvents
<1>2. MismatchAfter(row, ev) \in BOOLEAN
  BY DEF MismatchAfter, Row
<1>3. ev.line \in 0..MaxLines
  BY BoundAssumption DEF Event, Lines
<1>4. QED
  BY <1>1, <1>2, <1>3 DEF Outcome, Row

LEMMA SettlesShape ==
    ASSUME Domains, NEW m \in Msg, Settles(m)
    PROVE /\ mta[m] = "passed"
          /\ \A k \in Msg : k # m => mta'[k] = mta[k] /\ left'[k] = left[k]
          /\ \/ mta'[m] = "passed" /\ left'[m] = left[m]
             \/ mta'[m] = "gone" /\ left'[m] = now
<1>1. CASE open[m] = 1
  BY <1>1 DEF Settles, Domains
<1>2. CASE open[m] # 1
  BY <1>2 DEF Settles
<1>3. QED
  BY <1>1, <1>2

LEMMA HearsShape ==
    ASSUME Domains, NEW m \in Msg, MtaHears(m)
    PROVE /\ mta[m] = "waiting" /\ callback[m] = "done"
          /\ \A k \in Msg : k # m => mta'[k] = mta[k] /\ left'[k] = left[k]
          /\ \/ /\ mta'[m] = "passed" /\ left'[m] = left[m]
                /\ UNCHANGED postfix
             \/ /\ mta'[m] = "gone" /\ left'[m] = now
                /\ \E type \in LogEvents : Logs(m, type)
<1>1. CASE log[m].disp # "delivered"
  BY <1>1 DEF MtaHears, Domains, LogEvents
<1>2. CASE log[m].disp = "delivered"
  BY <1>2 DEF MtaHears, Domains
<1>3. QED
  BY <1>1, <1>2
-----------------------------------------------------------------------------
(***************************************************************************)
(* Mail: one message after the other has the queue id.                     *)
(***************************************************************************)
Pending(m) == callback[m] \in AllDecisions

MailInv ==
    /\ \A m \in Msg :
        /\ callback[m] = "none" <=> mta[m] = "none"
        /\ log[m].has <=> callback[m] = "done"
        /\ ~log[m].has => log[m] = NoRow
        /\ log[m].has => log[m].at <= now
        /\ mta[m] = "gone" => /\ left[m] <= now
                              /\ log[m].has => log[m].at <= left[m]
                              /\ Pending(m) => left[m] = now
    /\ \A k, m \in Msg : k < m /\ mta[m] # "none" => mta[k] = "gone" /\ left[k] + Window < now

LEMMA InitMail == Init => MailInv
  BY Shapes DEF Init, MailInv, AllDecisions

LEMMA MsgMail ==
    ASSUME Domains, MailInv, NEW m \in Msg,
           Arrives(m) \/ InsertsLog(m) \/ CallbackDies(m) \/ MtaTimesOut(m) \/ Defers(m)
    PROVE MailInv'
<1>1. CASE Arrives(m)
  <2>1. \A k \in Msg : mta[k] # "none" => mta[k] = "gone" /\ left[k] + Window < now
    BY <1>1 DEF Arrives, IdFree, InQueue, Domains
  <2>2. \A k \in Msg : k < m => mta[k] # "none"
    BY <1>1, MsgAssumption DEF Arrives, Msg
  <2>3. \A k \in Msg : m < k => mta[k] = "none"
    BY <1>1 DEF Arrives, MailInv
  <2>4. /\ mta[m] = "none" /\ mta'[m] = "waiting" /\ callback'[m] \in AllDecisions
        /\ \A k \in Msg : k # m => mta'[k] = mta[k] /\ callback'[k] = callback[k]
        /\ UNCHANGED <<now, left, log>>
    BY <1>1, InputAssumption DEF Arrives, Domains
  <2>5. "none" \notin AllDecisions /\ "done" \notin AllDecisions
    BY DEF AllDecisions
  <2>6. \A k \in Msg : k \in Int
    BY DEF Msg
  <2>7. \A k, j \in Msg : k < j /\ mta'[j] # "none" => mta'[k] = "gone" /\ left'[k] + Window < now'
    BY <2>1, <2>2, <2>3, <2>4, <2>6 DEF MailInv
  <2>8. QED
    BY <2>4, <2>5, <2>7 DEF MailInv, Pending
<1>2. CASE InsertsLog(m)
  <2> DEFINE row == [NoRow EXCEPT !.has = TRUE, !.disp = callback[m], !.at = now]
  <2>1. row.has /\ row.at = now
    BY DEF NoRow
  <2> HIDE DEF row
  <2>2. /\ Pending(m) /\ callback'[m] = "done" /\ log'[m] = row
        /\ \A k \in Msg : k # m => callback'[k] = callback[k] /\ log'[k] = log[k]
        /\ UNCHANGED <<now, mta, left>>
    BY <1>2 DEF InsertsLog, Domains, Pending, row
  <2>3. "none" \notin AllDecisions /\ "done" \notin AllDecisions
    BY DEF AllDecisions
  <2>4. now <= now
    BY DEF Domains, Times
  <2>5. QED
    BY <2>1, <2>2, <2>3, <2>4 DEF MailInv, Pending
<1>3. CASE CallbackDies(m)
  BY <1>3 DEF CallbackDies, MailInv, Domains, Pending, AllDecisions
<1>4. CASE MtaTimesOut(m)
  BY <1>4 DEF MtaTimesOut, MailInv, Domains, Pending
<1>5. CASE Defers(m)
  BY <1>5 DEF Defers, mail, MailInv, Pending
<1>6. QED
  BY <1>1, <1>2, <1>3, <1>4, <1>5

LEMMA MtaMail ==
    ASSUME Domains, MailInv, NEW m \in Msg, MtaHears(m) \/ Settles(m)
    PROVE MailInv'
<1>1. UNCHANGED <<now, callback, log>>
  BY DEF MtaHears, Settles
<1>2. /\ \A k \in Msg : k # m => mta'[k] = mta[k] /\ left'[k] = left[k]
      /\ mta[m] \in {"waiting", "passed"}
      /\ mta'[m] = "passed" \/ (mta'[m] = "gone" /\ left'[m] = now)
  BY SettlesShape, HearsShape
<1>3. now <= now
  BY DEF Domains, Times
<1>4. \A k, j \in Msg : k < j /\ mta'[j] # "none" => mta'[k] = "gone" /\ left'[k] + Window < now'
  BY <1>1, <1>2 DEF MailInv
<1>5. QED
  BY <1>1, <1>2, <1>3, <1>4 DEF MailInv, Pending

LEMMA TickMail == ASSUME Domains, MailInv, Tick PROVE MailInv'
<1>1. now \in Nat /\ now' = now + 1 /\ UNCHANGED <<callback, mta, left, log>>
      /\ \A m \in Msg : ~Pending(m)
  BY BoundAssumption DEF Tick, mail, Domains, Times, Pending
<1>2. \A m \in Msg : left[m] \in Int /\ log[m].at \in Int
  BY DEF Domains, Row, Times
<1>3. QED
  BY <1>1, <1>2, BoundAssumption DEF MailInv, Pending
-----------------------------------------------------------------------------
(***************************************************************************)
(* Events: what is on its way was logged today, of a message that is in    *)
(* the queue or left it today; so its mail log is that message's.          *)
(***************************************************************************)
Recent(k) == mta[k] = "passed" \/ (mta[k] = "gone" /\ left[k] = now)
Busy == fwd.pc \in {"send", "wait"}

EventInv ==
    /\ \A i \in 1..Len(tail) : Recent(tail[i].msg) /\ tail[i].type \in said[tail[i].msg]
    /\ Busy => /\ Recent(fwd.ev.msg) /\ fwd.ev.type \in said[fwd.ev.msg]
               /\ fwd.ev.at = now
    /\ \A c \in calls : /\ Recent(c.ev.msg) /\ c.ev.type \in said[c.ev.msg]
                        /\ c.ev.at = now

LEMMA EventMsgs ==
    ASSUME Domains
    PROVE /\ \A i \in 1..Len(tail) : tail[i] \in Logged
          /\ Busy => fwd.ev \in Event
          /\ \A c \in calls : c \in Posted /\ c.ev \in Event /\ c.attempt \in 1..2
<1>1. \A i \in 1..Len(tail) : tail[i] \in Logged
  BY DEF Domains
<1>2. Busy => fwd.ev \in Event
  BY CallShape DEF Busy, Posting
<1>3. QED
  BY <1>1, <1>2 DEF Domains, Posted

\* A step that leaves the events alone and takes no message out of today.
LEMMA SameEvents ==
    ASSUME Domains, EventInv, UNCHANGED <<now, tail, fwd, calls>>,
           \A k \in Msg : Recent(k) => Recent(k)',
           \A k \in Msg : said[k] \subseteq said'[k]
    PROVE EventInv'
<1>1. \A i \in 1..Len(tail) : tail[i].msg \in Msg
  BY EventMsgs DEF Logged
<1>2. Busy => fwd.ev.msg \in Msg
  BY EventMsgs DEF Event
<1>3. \A c \in calls : c.ev.msg \in Msg
  BY EventMsgs DEF Event
<1>4. QED
  BY <1>1, <1>2, <1>3 DEF EventInv, Busy, Recent

LEMMA LogsEvents ==
    ASSUME Domains, EventInv, NEW m \in Msg, NEW type \in LogEvents, Logs(m, type),
           UNCHANGED <<now, fwd, calls>>, Recent(m)',
           \A k \in Msg : Recent(k) => Recent(k)'
    PROVE EventInv'
<1> DEFINE Later(k) == mta'[k] = "passed" \/ (mta'[k] = "gone" /\ left'[k] = now)
<1>0. Later(m) /\ \A k \in Msg : Recent(k) => Later(k)
  BY DEF Recent
<1> HIDE DEF Later
<1>1. \A i \in 1..Len(tail) : tail[i].msg \in Msg
  BY EventMsgs DEF Logged
<1>2. Busy => fwd.ev.msg \in Msg
  BY EventMsgs DEF Event
<1>3. \A c \in calls : c.ev.msg \in Msg
  BY EventMsgs DEF Event
<1>4. ASSUME NEW i \in 1..Len(tail')
      PROVE Later(tail'[i].msg) /\ tail'[i].type \in said'[tail'[i].msg]
  <2>0. Len(tail) \in Nat
    BY DEF Domains
  <2>1. CASE i \in 1..Len(tail)
    <3>1. tail'[i] = tail[i] /\ said[tail[i].msg] \subseteq said'[tail[i].msg]
      BY <1>1, <2>1, LogsShape
    <3>2. Recent(tail[i].msg) /\ tail[i].type \in said[tail[i].msg] /\ tail[i].msg \in Msg
      BY <1>1, <2>1 DEF EventInv
    <3>3. QED
      BY <1>0, <3>1, <3>2
  <2>2. CASE i = Len(tail')
    BY <1>0, <2>2, LogsShape
  <2>3. i \in 1..Len(tail) \/ i = Len(tail')
    BY <2>0, LogsShape
  <2>4. QED
    BY <2>1, <2>2, <2>3
<1>5. Busy => Later(fwd.ev.msg) /\ fwd.ev.type \in said'[fwd.ev.msg] /\ fwd.ev.at = now
  BY <1>0, <1>2, LogsShape DEF EventInv
<1>6. \A c \in calls : Later(c.ev.msg) /\ c.ev.type \in said'[c.ev.msg] /\ c.ev.at = now
  BY <1>0, <1>3, LogsShape DEF EventInv
<1>7. QED
  BY <1>4, <1>5, <1>6 DEF EventInv, Busy, Recent, Later

\* A step of the forwarder or of the API: events come from where they were.
LEMMA MovedEvents ==
    ASSUME Domains, EventInv, UNCHANGED <<now, mail, said>>,
           tail' = tail,
           Busy' => Busy /\ fwd'.ev = fwd.ev,
           \A c \in calls' : c \in calls \/ (Busy /\ c.ev = fwd.ev)
    PROVE EventInv'
<1>1. \A k : Recent(k)' <=> Recent(k)
  BY DEF Recent, mail
<1>2. QED
  BY <1>1 DEF EventInv, Busy

LEMMA MailEvents ==
    ASSUME Domains, MailInv, EventInv, NEW m \in Msg,
           \/ Arrives(m) \/ InsertsLog(m) \/ CallbackDies(m) \/ MtaTimesOut(m)
           \/ Defers(m) \/ MtaHears(m) \/ Settles(m)
    PROVE EventInv'
<1>1. ASSUME UNCHANGED <<now, tail, fwd, calls, said, left>>,
             \A k \in Msg : mta[k] \in {"passed", "gone"} => mta'[k] = mta[k]
      PROVE EventInv'
  BY <1>1, SameEvents DEF Recent
<1>2. CASE Arrives(m)
  BY <1>1, <1>2 DEF Arrives, postfix, Domains
<1>3. CASE InsertsLog(m) \/ CallbackDies(m)
  BY <1>1, <1>3 DEF InsertsLog, CallbackDies, postfix
<1>4. CASE MtaTimesOut(m)
  BY <1>1, <1>4 DEF MtaTimesOut, postfix, Domains
<1>5. CASE Defers(m)
  <2>1. Logs(m, "deferred") /\ "deferred" \in LogEvents
    BY <1>5 DEF Defers, LogEvents
  <2>2. Recent(m)' /\ \A k \in Msg : Recent(k) => Recent(k)'
    BY <1>5 DEF Defers, mail, Recent
  <2>3. QED
    BY <1>5, <2>1, <2>2, LogsEvents DEF Defers
<1>6. CASE MtaHears(m)
  <2>1. \A k \in Msg : Recent(k) => Recent(k)'
    BY <1>6, HearsShape DEF MtaHears, Recent
  <2>2. CASE mta'[m] = "gone" /\ left'[m] = now /\ \E type \in LogEvents : Logs(m, type)
    BY <1>6, <2>1, <2>2, LogsEvents DEF MtaHears, Recent
  <2>3. CASE UNCHANGED postfix
    BY <1>6, <2>1, <2>3, SameEvents DEF MtaHears, postfix
  <2>4. QED
    BY <1>6, <2>2, <2>3, HearsShape
<1>7. CASE Settles(m)
  <2>1. PICK type \in LogEvents : Logs(m, type)
    BY <1>7 DEF Settles, LogEvents
  <2>2. Recent(m)' /\ \A k \in Msg : Recent(k) => Recent(k)'
    BY <1>7, SettlesShape DEF Settles, Recent
  <2>3. QED
    BY <1>7, <2>1, <2>2, LogsEvents DEF Settles
<1>8. QED
  BY <1>2, <1>3, <1>4, <1>5, <1>6, <1>7

LEMMA ForwarderEvents ==
    ASSUME Domains, EventInv, Tick \/ ReadsLine \/ Sends \/ GivesUp \/ Breaks \/ Restarts
    PROVE EventInv'
<1>1. CASE Tick
  <2>1. Len(tail') = 0 /\ calls' = {} /\ ~Busy'
    BY <1>1 DEF Tick, postfix, Busy
  <2>2. QED
    BY <2>1 DEF EventInv
<1>2. CASE ReadsLine
  <2>1. /\ tail \in Seq(Logged) /\ Len(tail) > 0 /\ Head(tail) = tail[1]
        /\ Len(tail') = Len(tail) - 1 /\ \A i \in 1..Len(tail') : tail'[i] = tail[i + 1]
    BY <1>2 DEF ReadsLine, Domains
  <2>2. /\ fwd'.ev.msg = tail[1].msg /\ fwd'.ev.type = tail[1].type /\ fwd'.ev.at = now
    BY <1>2, <2>1 DEF ReadsLine
  <2>3. 1 \in 1..Len(tail) /\ \A i \in 1..Len(tail') : i + 1 \in 1..Len(tail)
    BY <2>1
  <2>4. \A k : Recent(k)' <=> Recent(k)
    BY <1>2 DEF ReadsLine, mail, Recent
  <2>5. UNCHANGED <<now, calls, said>>
    BY <1>2 DEF ReadsLine
  <2>6. QED
    BY <2>1, <2>2, <2>3, <2>4, <2>5 DEF EventInv, Busy
<1>3. CASE Sends
  <2>1. Busy /\ Call.ev = fwd.ev /\ fwd'.ev = fwd.ev
    BY <1>3, CallShape DEF Sends, Busy, Posting
  <2>2. QED
    BY <1>3, <2>1, MovedEvents DEF Sends, postfix
<1>4. CASE GivesUp
  <2>1. Busy /\ (Busy' => fwd'.ev = fwd.ev)
    BY <1>4, RetriedShape DEF GivesUp, Busy
  <2>2. QED
    BY <1>4, <2>1, MovedEvents DEF GivesUp, postfix
<1>5. CASE Breaks
  <2>1. ~Busy'
    BY <1>5, Shapes DEF Breaks, Busy
  <2>2. QED
    BY <1>5, <2>1, MovedEvents DEF Breaks, postfix
<1>6. CASE Restarts
  <2>1. ~Busy' /\ Len(tail') = 0 /\ UNCHANGED <<now, calls, said>>
    BY <1>6, Shapes DEF Restarts, Busy
  <2>2. \A k : Recent(k)' <=> Recent(k)
    BY <1>6 DEF Restarts, mail, Recent
  <2>3. QED
    BY <2>1, <2>2 DEF EventInv
<1>7. QED
  BY <1>1, <1>2, <1>3, <1>4, <1>5, <1>6

LEMMA ApiEvents ==
    ASSUME Domains, EventInv, NEW c \in calls, Ingests(c) \/ Fails(c)
    PROVE EventInv'
<1>1. Busy' => Busy /\ fwd'.ev = fwd.ev
  <2>1. CASE fwd.pc = "wait" /\ c = Call
    BY <2>1, Shapes, RetriedShape DEF Ingests, Fails, Answered, Busy
  <2>2. CASE ~(fwd.pc = "wait" /\ c = Call)
    BY <2>2 DEF Ingests, Fails, Busy
  <2>3. QED
    BY <2>1, <2>2
<1>2. calls' \subseteq calls /\ UNCHANGED <<now, mail, said, tail>>
  BY DEF Ingests, Fails, postfix
<1>3. QED
  BY <1>1, <1>2, MovedEvents

\* The mail log an event is written onto is the one of its own message,
\* whatever else has had the queue id (correlateTerminalOutcomeSQL).
LEMMA TargetIsOwn ==
    ASSUME Domains, MailInv, EventInv, NEW c \in calls, Target(c.ev) # NoMsg
    PROVE /\ Target(c.ev) = c.ev.msg /\ c.ev.msg \in Msg /\ c.ev.type \in said[c.ev.msg]
          /\ log[c.ev.msg].has /\ TerminalAction(c.ev.type) # "none"
<1> DEFINE x == c.ev.msg
           best == CHOOSE m \in Candidates(c.ev) : \A k \in Candidates(c.ev) : log[k].at <= log[m].at
<1>1. x \in Msg /\ Recent(x) /\ c.ev.type \in said[x] /\ c.ev.at = now
  BY EventMsgs DEF EventInv, Event
<1>2. ASSUME NEW m \in Candidates(c.ev) PROVE m = x
  <2>1. m \in Msg /\ log[m].has /\ log[m].at >= now - Window
    BY <1>1 DEF Candidates, InWindow
  <2>2. mta[x] # "none" /\ mta[m] # "none"
    BY <1>1, <2>1, Shapes DEF Recent, MailInv
  <2>3. m \in Int /\ x \in Int /\ now \in Int /\ Window \in Int
        /\ left[m] \in Int /\ log[m].at \in Int
    BY <1>1, <2>1, BoundAssumption DEF Msg, Domains, Times, Row
  <2>4. CASE m < x
    <3>1. left[m] + Window < now /\ log[m].at <= left[m]
      BY <1>1, <2>1, <2>2, <2>4 DEF MailInv
    <3>2. QED
      BY <2>1, <2>3, <3>1
  <2>5. CASE x < m
    <3>1. mta[x] = "gone" /\ left[x] + Window < now
      BY <1>1, <2>1, <2>2, <2>5 DEF MailInv
    <3>2. left[x] = now
      BY <1>1, <3>1 DEF Recent
    <3>3. QED
      BY <2>3, <3>1, <3>2, BoundAssumption
  <2>6. QED
    BY <2>3, <2>4, <2>5
<1>3. TerminalAction(c.ev.type) # "none" /\ Candidates(c.ev) # {}
  BY DEF Target
<1>4. x \in Candidates(c.ev)
  BY <1>2, <1>3
<1>5. x \in Msg /\ log[x].has /\ log[x].at \in Int
  BY <1>4 DEF Candidates, Domains, Row, Times
<1>6. \A k \in Candidates(c.ev) : log[k].at <= log[x].at
  BY <1>2, <1>5
<1>7. best \in Candidates(c.ev)
  BY <1>4, <1>6
<1>8. Target(c.ev) = best
  BY <1>3 DEF Target
<1>9. QED
  BY <1>1, <1>2, <1>3, <1>5, <1>7, <1>8
-----------------------------------------------------------------------------
(***************************************************************************)
(* Steps: mail logs change by their insertion and by events only.          *)
(***************************************************************************)
LEMMA IngestsLog ==
    ASSUME Domains, MailInv, EventInv, NEW c \in calls, Ingests(c)
    PROVE \/ log' = log
          \/ LET m == c.ev.msg
             IN  /\ m \in Msg /\ c.ev.type \in said[m] /\ log[m].has
                 /\ \A k \in Msg : k # m => log'[k] = log[k]
                 /\ log'[m].has = log[m].has /\ log'[m].disp = log[m].disp
                 /\ log'[m].action = TerminalAction(c.ev.type)
                 /\ log'[m].line = c.ev.line
                 /\ log'[m].mismatch = MismatchAfter(log[m], c.ev)
<1>1. CASE Target(c.ev) = NoMsg
  BY <1>1 DEF Ingests
<1>2. CASE Target(c.ev) # NoMsg
  <2> DEFINE m == c.ev.msg
  <2>1. /\ Target(c.ev) = m /\ m \in Msg /\ c.ev.type \in said[m]
        /\ log[m].has /\ TerminalAction(c.ev.type) # "none"
    BY <1>2, TargetIsOwn
  <2>2. log' = [log EXCEPT ![m] = Outcome(log[m], c.ev)]
    BY <1>2, <2>1 DEF Ingests, Domains
  <2>3. log[m] \in Row /\ c.ev \in Event
    BY <2>1, EventMsgs DEF Domains
  <2>4. log'[m] = Outcome(log[m], c.ev) /\ \A k \in Msg : k # m => log'[k] = log[k]
    BY <2>1, <2>2 DEF Domains
  <2>5. /\ log'[m].has = log[m].has /\ log'[m].disp = log[m].disp
        /\ log'[m].action = TerminalAction(c.ev.type)
        /\ log'[m].line = c.ev.line
        /\ log'[m].mismatch = MismatchAfter(log[m], c.ev)
    <3> DEFINE out == Outcome(log[m], c.ev)
    <3>1. /\ out.has = log[m].has /\ out.disp = log[m].disp
          /\ out.action = TerminalAction(c.ev.type) /\ out.line = c.ev.line
          /\ out.mismatch = MismatchAfter(log[m], c.ev)
      BY <2>1, <2>3, OutcomeRow
    <3>2. log'[m] = out
      BY <2>4
    <3> HIDE DEF out
    <3>3. QED
      BY <3>1, <3>2
  <2>6. QED
    BY <2>1, <2>4, <2>5
<1>3. QED
  BY <1>1, <1>2

LEMMA InsertsRow ==
    ASSUME Domains, MailInv, NEW m \in Msg, InsertsLog(m)
    PROVE /\ ~log[m].has /\ log[m] = NoRow
          /\ \A k \in Msg : k # m => log'[k] = log[k]
          /\ log'[m].action = "none" /\ ~log'[m].mismatch /\ log'[m].line = 0
<1> DEFINE row == [NoRow EXCEPT !.has = TRUE, !.disp = callback[m], !.at = now]
<1>1. row.action = "none" /\ ~row.mismatch /\ row.line = 0
  BY DEF NoRow
<1> HIDE DEF row
<1>2. log'[m] = row /\ \A k \in Msg : k # m => log'[k] = log[k]
  BY DEF InsertsLog, Domains, row
<1>3. callback[m] # "done"
  BY DEF InsertsLog, AllDecisions
<1>4. QED
  BY <1>1, <1>2, <1>3 DEF MailInv

LEMMA NextSteps ==
    ASSUME Domains, [Next]_vars
    PROVE \/ \E m \in Msg : InsertsLog(m)
          \/ \E c \in calls : Ingests(c)
          \/ /\ log' = log
             /\ \/ UNCHANGED vars
                \/ \E m \in Msg : Arrives(m) \/ CallbackDies(m) \/ MtaHears(m) \/ MtaTimesOut(m)
                                  \/ Settles(m) \/ Defers(m)
                \/ Tick \/ ReadsLine \/ Sends \/ GivesUp \/ Breaks \/ Restarts
                \/ \E c \in calls : Fails(c)
<1>1. \/ UNCHANGED vars
      \/ \E m \in Msg : Arrives(m) \/ CallbackDies(m) \/ MtaHears(m) \/ MtaTimesOut(m)
                        \/ Settles(m) \/ Defers(m)
      \/ Tick \/ ReadsLine \/ Sends \/ GivesUp \/ Breaks \/ Restarts
      \/ \E c \in calls : Fails(c)
      => log' = log
  BY DEF vars, Arrives, CallbackDies, MtaHears, MtaTimesOut, Settles, Defers, Tick, ReadsLine,
         Sends, GivesUp, Breaks, Restarts, Fails
<1>2. QED
  BY <1>1 DEF Next

\* The lines said of a message only grow.
LEMMA SaidGrows == ASSUME Domains, [Next]_vars PROVE \A m \in Msg : said[m] \subseteq said'[m]
<1>1. ASSUME NEW m \in Msg, NEW type \in LogEvents, Logs(m, type)
      PROVE \A k \in Msg : said[k] \subseteq said'[k]
  BY <1>1, LogsShape
<1>2. ASSUME NEW m \in Msg, MtaHears(m) PROVE \A k \in Msg : said[k] \subseteq said'[k]
  BY <1>1, <1>2, HearsShape DEF postfix
<1>3. ASSUME NEW m \in Msg, Settles(m) PROVE \A k \in Msg : said[k] \subseteq said'[k]
  BY <1>1, <1>3 DEF Settles, LogEvents
<1>4. ASSUME NEW m \in Msg, Defers(m) PROVE \A k \in Msg : said[k] \subseteq said'[k]
  BY <1>1, <1>4 DEF Defers, LogEvents
<1>5. \/ UNCHANGED vars
      \/ \E m \in Msg : Arrives(m) \/ CallbackDies(m) \/ MtaTimesOut(m) \/ InsertsLog(m)
      \/ Tick \/ ReadsLine \/ Sends \/ GivesUp \/ Breaks \/ Restarts
      \/ \E c \in calls : Ingests(c) \/ Fails(c)
      => said' = said
  BY DEF vars, Arrives, CallbackDies, MtaTimesOut, InsertsLog, Tick, ReadsLine, Sends, GivesUp,
         Breaks, Restarts, Ingests, Fails, postfix
<1>6. QED
  BY <1>2, <1>3, <1>4, <1>5 DEF Next

LEMMA ApiDomains ==
    ASSUME Domains, MailInv, EventInv, NEW c \in calls, Ingests(c) \/ Fails(c)
    PROVE Domains'
<1>1. c \in Posted /\ c.ev.line \in Lines
  BY EventMsgs DEF Event
<1>2. fwd' \in Resting \cup Posting
  BY Shapes, RetriedShape DEF Ingests, Fails, Answered, Domains
<1>3. stored' \in [Lines -> Nat]
  <2>1. CASE Ingests(c)
    BY <1>1, <2>1 DEF Ingests, Domains
  <2>2. CASE Fails(c)
    BY <2>2 DEF Fails, Domains
  <2>3. QED
    BY <2>1, <2>2
<1>4. log' \in [Msg -> Row]
  <2>1. CASE Ingests(c) /\ Target(c.ev) # NoMsg
    <3>1. Target(c.ev) \in Msg /\ TerminalAction(c.ev.type) # "none" /\ c.ev \in Event
      BY <2>1, TargetIsOwn, EventMsgs
    <3>2. Outcome(log[Target(c.ev)], c.ev) \in Row
      BY <3>1, OutcomeRow DEF Domains
    <3>3. QED
      BY <2>1, <3>1, <3>2 DEF Ingests, Domains
  <2>2. CASE ~(Ingests(c) /\ Target(c.ev) # NoMsg)
    BY <2>2 DEF Ingests, Fails, Domains
  <2>3. QED
    BY <2>1, <2>2
<1>5. QED
  BY <1>2, <1>3, <1>4 DEF Ingests, Fails, mail, postfix, Domains

Inv == Domains /\ MailInv /\ EventInv

LEMMA InitInv == Init => Inv
<1> SUFFICES ASSUME Init PROVE Inv
  OBVIOUS
<1>1. EventInv
  BY Shapes DEF Init, EventInv, Busy
<1>2. QED
  BY <1>1, InitDomains, InitMail DEF Inv

LEMMA NextInv == Inv /\ [Next]_vars => Inv'
<1> SUFFICES ASSUME Inv, [Next]_vars PROVE Inv'
  OBVIOUS
<1> USE DEF Inv
<1>1. CASE UNCHANGED vars
  <2>1. Domains'
    BY <1>1 DEF vars, Domains
  <2>2. MailInv'
    BY <1>1 DEF vars, MailInv, Pending
  <2>3. EventInv'
    BY <1>1 DEF vars, EventInv, Busy, Recent
  <2>4. QED
    BY <2>1, <2>2, <2>3
<1>2. ASSUME NEW m \in Msg,
             \/ Arrives(m) \/ InsertsLog(m) \/ CallbackDies(m) \/ MtaTimesOut(m)
             \/ Defers(m) \/ MtaHears(m) \/ Settles(m)
      PROVE Inv'
  BY <1>2, MailDomains, MtaDomains, MsgMail, MtaMail, MailEvents
<1>3. CASE Tick \/ ReadsLine \/ Sends \/ GivesUp \/ Breaks \/ Restarts
  <2>1. CASE Tick
    BY <2>1, TickMail, ForwarderDomains, ForwarderEvents
  <2>2. CASE ReadsLine \/ Sends \/ GivesUp \/ Breaks \/ Restarts
    <3>1. MailInv'
      BY <2>2 DEF ReadsLine, Sends, GivesUp, Breaks, Restarts, mail, MailInv, Pending
    <3>2. QED
      BY <2>2, <3>1, ForwarderDomains, ForwarderEvents
  <2>3. QED
    BY <1>3, <2>1, <2>2
<1>4. ASSUME NEW c \in calls, Ingests(c) \/ Fails(c) PROVE Inv'
  <2>1. UNCHANGED <<now, mail>>
    BY <1>4 DEF Ingests, Fails
  <2>2. ASSUME NEW m \in Msg
        PROVE log'[m] = log[m] \/ (log[m].has /\ log'[m].has /\ log'[m].at = log[m].at)
    <3>1. CASE Ingests(c) /\ Target(c.ev) # NoMsg
      <4>1. /\ Target(c.ev) \in Msg /\ log[Target(c.ev)].has
            /\ TerminalAction(c.ev.type) # "none" /\ c.ev \in Event
        BY <3>1, TargetIsOwn, EventMsgs
      <4>2. log[Target(c.ev)] \in Row
        BY <4>1 DEF Domains
      <4>3. log'[m] = IF m = Target(c.ev) THEN Outcome(log[m], c.ev) ELSE log[m]
        BY <3>1, <4>1 DEF Ingests, Domains
      <4>4. QED
        BY <4>1, <4>2, <4>3, OutcomeRow
    <3>2. CASE ~(Ingests(c) /\ Target(c.ev) # NoMsg)
      BY <1>4, <3>2 DEF Ingests, Fails
    <3>3. QED
      BY <3>1, <3>2
  <2>3. MailInv'
    BY <2>1, <2>2 DEF mail, MailInv, Pending
  <2>4. QED
    BY <1>4, <2>3, ApiDomains, ApiEvents
<1>5. QED
  BY <1>1, <1>2, <1>3, <1>4 DEF Next
-----------------------------------------------------------------------------
(***************************************************************************)
(* Outcomes.                                                               *)
(***************************************************************************)
AlarmInv ==
    \A m \in Msg : log[m].action = "delivered" /\ log[m].disp # "delivered" => log[m].mismatch

LEMMA NextAlarm ==
    ASSUME Inv, AlarmInv, [Next]_vars
    PROVE AlarmInv' /\ \A m \in Msg : log[m].mismatch => log'[m].mismatch
<1> USE DEF Inv
<1>1. ASSUME NEW m \in Msg, InsertsLog(m)
      PROVE AlarmInv' /\ \A k \in Msg : log[k].mismatch => log'[k].mismatch
  BY <1>1, InsertsRow, Shapes DEF AlarmInv
<1>2. ASSUME NEW c \in calls, Ingests(c)
      PROVE AlarmInv' /\ \A k \in Msg : log[k].mismatch => log'[k].mismatch
  <2> DEFINE m == c.ev.msg
  <2>1. CASE log' = log
    BY <2>1 DEF AlarmInv
  <2>2. CASE log' # log
    <3>1. /\ m \in Msg /\ \A k \in Msg : k # m => log'[k] = log[k]
          /\ log'[m].disp = log[m].disp
          /\ log'[m].action = TerminalAction(c.ev.type)
          /\ log'[m].mismatch = MismatchAfter(log[m], c.ev)
      BY <1>2, <2>2, IngestsLog
    <3>2. log[m].disp \in AllDecisions
      BY <3>1 DEF Domains, Row
    <3>3. log[m].mismatch => log'[m].mismatch
      BY <3>1 DEF MismatchAfter
    <3>4. log'[m].action = "delivered" /\ log'[m].disp # "delivered" => log'[m].mismatch
      BY <3>1, <3>2 DEF MismatchAfter, AllDecisions
    <3>5. QED
      BY <3>1, <3>3, <3>4 DEF AlarmInv
  <2>3. QED
    BY <2>1, <2>2
<1>3. CASE log' = log
  BY <1>3 DEF AlarmInv
<1>4. QED
  BY <1>1, <1>2, <1>3, NextSteps

\* A held message that was delivered after all is flagged, and stays flagged
\* whatever outcome of another recipient follows (correlateTerminalOutcomeSQL).
THEOREM AlarmsStand == Spec => MismatchStands
<1>1. Init => Inv /\ AlarmInv
  BY InitInv, Shapes DEF Init, AlarmInv
<1>2. Inv /\ AlarmInv /\ [Next]_vars => (Inv /\ AlarmInv)'
  BY NextInv, NextAlarm
<1>3. Inv /\ AlarmInv /\ [Next]_vars =>
        [\A m \in Msg :
            /\ log[m].mismatch => log'[m].mismatch
            /\ log'[m].action = "delivered" /\ log'[m].disp # "delivered" => log'[m].mismatch]_vars
  BY NextAlarm DEF AlarmInv
<1>4. QED
  BY <1>1, <1>2, <1>3, PTL DEF Spec, MismatchStands

\* An outcome was logged of the very message whose mail log shows it, although
\* queue ids are used again and rows are inserted late (correlateTerminalOutcomeSQL).
THEOREM OutcomesAreTrue == Spec => []OutcomeIsTrue
<1>1. ASSUME Inv, OutcomeIsTrue, [Next]_vars PROVE OutcomeIsTrue'
  <2> USE <1>1 DEF Inv
  <2>1. \A m \in Msg : said[m] \subseteq said'[m]
    BY SaidGrows
  <2>2. ASSUME NEW m \in Msg, InsertsLog(m) PROVE OutcomeIsTrue'
    BY <2>1, <2>2, InsertsRow DEF OutcomeIsTrue
  <2>3. ASSUME NEW c \in calls, Ingests(c) PROVE OutcomeIsTrue'
    <3> DEFINE m == c.ev.msg
    <3>1. CASE log' = log
      BY <2>1, <3>1 DEF OutcomeIsTrue
    <3>2. CASE log' # log
      <4>1. /\ m \in Msg /\ c.ev.type \in said[m]
            /\ \A k \in Msg : k # m => log'[k] = log[k]
            /\ log'[m].action = TerminalAction(c.ev.type)
        BY <2>3, <3>2, IngestsLog
      <4>2. QED
        BY <2>1, <4>1 DEF OutcomeIsTrue
    <3>3. QED
      BY <3>1, <3>2
  <2>4. CASE log' = log
    BY <2>1, <2>4 DEF OutcomeIsTrue
  <2>5. QED
    BY <2>2, <2>3, <2>4, NextSteps
<1>2. Init => Inv /\ OutcomeIsTrue
  BY InitInv, Shapes DEF Init, OutcomeIsTrue
<1>3. QED
  BY <1>1, <1>2, NextInv, PTL DEF Spec
-----------------------------------------------------------------------------
(***************************************************************************)
(* Order: one line is posted after the other, so an older outcome can only *)
(* come from a request the forwarder has given up.                         *)
(***************************************************************************)
Below(n) == /\ fwd.ev.line <= n
            /\ \A c \in calls : c.ev.line <= n
            /\ \A m \in Msg : log[m].line <= n

OrderInv ==
    /\ \A i \in 1..Len(tail) : tail[i].line <= written /\ Below(tail[i].line - 1)
    /\ \A i, j \in 1..Len(tail) : i < j => tail[i].line < tail[j].line
    /\ Below(written)
    /\ Busy => Below(fwd.ev.line)
    /\ \A c \in calls : c.ev.line \in late \/ (fwd.pc = "wait" /\ c = Call)

LEMMA InitOrder == Init => OrderInv
  BY Shapes DEF Init, OrderInv, Below, Busy

LEMMA LineNumbers ==
    ASSUME Domains
    PROVE /\ \A i \in 1..Len(tail) : tail[i].line \in Lines
          /\ \A c \in calls : c.ev.line \in Lines
          /\ \A m \in Msg : log[m].line \in 0..MaxLines
          /\ fwd.ev.line \in 0..MaxLines /\ written \in Nat
<1>1. fwd.ev.line \in 0..MaxLines
  BY Shapes, BoundAssumption DEF Domains, Posting, Event, Lines
<1>2. \A i \in 1..Len(tail) : tail[i].line \in Lines
  BY EventMsgs DEF Logged
<1>3. \A c \in calls : c.ev.line \in Lines
  BY EventMsgs DEF Event
<1>4. QED
  BY <1>1, <1>2, <1>3 DEF Domains, Row

LEMMA LogsOrder ==
    ASSUME Domains, OrderInv, NEW m \in Msg, NEW type \in LogEvents, Logs(m, type),
           UNCHANGED <<log, fwd, calls, late>>
    PROVE OrderInv'
<1> DEFINE n == Len(tail)
<1>1. /\ n \in Nat /\ Len(tail') = n + 1 /\ written' = written + 1
      /\ \A i \in 1..n : tail'[i] = tail[i]
      /\ tail'[n + 1].line = written + 1
  <2>1. n \in Nat
    BY DEF Domains
  <2>2. QED
    BY <2>1, LogsShape
<1>2. \A k : Below(k)' <=> Below(k)
  BY DEF Below
<1>3. Below(written) /\ Below(written + 1)
  BY LineNumbers DEF OrderInv, Below, Lines
<1>4. \A i \in 1..(n + 1) : i \in 1..n \/ i = n + 1
  BY <1>1
<1> HIDE DEF n
<1>5. ASSUME NEW i \in 1..(n + 1) PROVE tail'[i].line <= written' /\ Below(tail'[i].line - 1)
  <2>1. CASE i \in 1..n
    BY <1>1, <2>1, LineNumbers DEF OrderInv, Lines, n
  <2>2. CASE i = n + 1
    <3>1. tail'[i].line = written + 1 /\ written + 1 - 1 = written
      BY <1>1, <2>2, LineNumbers
    <3>2. QED
      BY <1>1, <1>3, <3>1, LineNumbers
  <2>3. QED
    BY <1>4, <2>1, <2>2
<1>6. ASSUME NEW i \in 1..(n + 1), NEW j \in 1..(n + 1), i < j
      PROVE tail'[i].line < tail'[j].line
  <2>1. i \in 1..n
    BY <1>1, <1>6
  <2>2. CASE j \in 1..n
    BY <1>1, <1>6, <2>1, <2>2 DEF OrderInv, n
  <2>3. CASE j = n + 1
    BY <1>1, <2>1, <2>3, LineNumbers DEF OrderInv, n, Lines
  <2>4. QED
    BY <1>4, <2>2, <2>3
<1>7. Busy' => Below(fwd'.ev.line)
  BY DEF OrderInv, Busy
<1>8. \A c \in calls' : c.ev.line \in late' \/ (fwd'.pc = "wait" /\ c = Call')
  BY DEF OrderInv, Call
<1>9. QED
  BY <1>1, <1>2, <1>3, <1>5, <1>6, <1>7, <1>8 DEF OrderInv, Below

\* A step that reads no line and adds none.
LEMMA MovedOrder ==
    ASSUME Domains, OrderInv, UNCHANGED written,
           \/ tail' = tail
           \/ Len(tail') = 0,
           \A n \in Nat : Below(n) => Below(n)',
           Busy' => Busy /\ fwd'.ev = fwd.ev,
           \A c \in calls' : c.ev.line \in late' \/ (fwd'.pc = "wait" /\ c = Call')
    PROVE OrderInv'
<1>1. \A i \in 1..Len(tail) : tail[i].line - 1 \in Nat
  BY LineNumbers DEF Lines
<1>2. ASSUME NEW i \in 1..Len(tail'), tail' = tail
      PROVE tail'[i].line <= written' /\ Below(tail[i].line - 1)'
  BY <1>1, <1>2 DEF OrderInv, Below
<1>3. Below(written) /\ Below(written)'
  BY LineNumbers DEF OrderInv, Below
<1>4. Busy' => Below(fwd.ev.line)'
  BY LineNumbers DEF OrderInv, Below
<1>5. QED
  BY <1>1, <1>2, <1>3, <1>4 DEF OrderInv, Below

LEMMA MailOrder ==
    ASSUME Domains, MailInv, OrderInv, NEW m \in Msg,
           \/ Arrives(m) \/ InsertsLog(m) \/ CallbackDies(m) \/ MtaTimesOut(m)
           \/ Defers(m) \/ MtaHears(m) \/ Settles(m)
    PROVE OrderInv'
<1>1. ASSUME NEW type \in LogEvents, Logs(m, type), UNCHANGED <<log, fwd, calls, late>>
      PROVE OrderInv'
  BY <1>1, LogsOrder
<1>2. CASE Defers(m)
  BY <1>1, <1>2 DEF Defers, LogEvents
<1>3. CASE Settles(m)
  BY <1>1, <1>3 DEF Settles, LogEvents
<1>4. CASE MtaHears(m) /\ log[m].disp # "delivered"
  BY <1>1, <1>4 DEF MtaHears, LogEvents
<1>5. CASE \/ Arrives(m) \/ CallbackDies(m) \/ MtaTimesOut(m)
           \/ MtaHears(m) /\ log[m].disp = "delivered"
  <2>1. UNCHANGED <<log, fwd, calls, late, tail, written>>
    BY <1>5 DEF Arrives, CallbackDies, MtaTimesOut, MtaHears, postfix
  <2>2. QED
    BY <2>1 DEF OrderInv, Below, Busy, Call
<1>6. CASE InsertsLog(m)
  <2>1. UNCHANGED <<fwd, calls, late, tail, written>>
    BY <1>6 DEF InsertsLog, postfix
  <2>2. \A k \in Msg : log'[k].line = log[k].line \/ log'[k].line = 0
    BY <1>6, InsertsRow
  <2>3. \A n \in Nat : Below(n) => Below(n)'
    BY <2>1, <2>2 DEF Below
  <2>4. QED
    BY <2>1, <2>3, MovedOrder DEF OrderInv, Busy, Call
<1>7. QED
  BY <1>2, <1>3, <1>4, <1>5, <1>6

LEMMA ReadsOrder == ASSUME Domains, OrderInv, ReadsLine PROVE OrderInv'
<1> DEFINE Later(n) == /\ fwd'.ev.line <= n /\ \A c \in calls' : c.ev.line <= n
                       /\ \A m \in Msg : log'[m].line <= n
<1>1. /\ tail \in Seq(Logged) /\ Len(tail) > 0 /\ Head(tail) = tail[1]
      /\ Len(tail') = Len(tail) - 1 /\ \A i \in 1..Len(tail') : tail'[i] = tail[i + 1]
  BY DEF ReadsLine, Domains
<1>2. 1 \in 1..Len(tail) /\ \A i \in 1..Len(tail') : i + 1 \in 1..Len(tail)
  BY <1>1
<1>3. UNCHANGED <<log, calls, late, written>> /\ fwd.pc = "idle"
  BY DEF ReadsLine
<1>4. fwd'.ev.line = tail[1].line
  BY <1>1 DEF ReadsLine
<1>5. tail[1].line \in Lines /\ \A i \in 1..Len(tail') : tail'[i].line \in Lines
  BY <1>1, <1>2, LineNumbers
<1>6. Below(tail[1].line - 1) /\ tail[1].line <= written
  BY <1>2 DEF OrderInv
<1>7. ASSUME NEW n \in Nat, tail[1].line <= n PROVE Later(n)
  BY <1>3, <1>4, <1>5, <1>6, <1>7, LineNumbers DEF Below, Lines
<1>8. ASSUME NEW i \in 1..Len(tail')
      PROVE tail'[i].line <= written' /\ Later(tail'[i].line - 1)
  <2>1. tail[1].line < tail'[i].line /\ tail'[i].line <= written
    <3>1. i + 1 \in 1..Len(tail) /\ 1 < i + 1 /\ tail'[i] = tail[i + 1]
      BY <1>1, <1>2
    <3>2. tail[1].line < tail[i + 1].line /\ tail[i + 1].line <= written
      BY <1>2, <3>1 DEF OrderInv
    <3>3. QED
      BY <3>1, <3>2
  <2>2. tail'[i].line - 1 \in Nat /\ tail[1].line <= tail'[i].line - 1
    BY <1>5, <2>1 DEF Lines
  <2>3. Later(tail'[i].line - 1)
    BY <1>7, <2>2
  <2>4. QED
    BY <1>3, <2>1, <2>3
<1>9. \A i, j \in 1..Len(tail') : i < j => tail'[i].line < tail'[j].line
  BY <1>1, <1>2 DEF OrderInv
<1>10. Later(written') /\ Later(fwd'.ev.line)
  BY <1>3, <1>4, <1>5, <1>6, <1>7, LineNumbers DEF Lines
<1>11. \A c \in calls' : c.ev.line \in late'
  BY <1>3 DEF OrderInv
<1>12. QED
  BY <1>8, <1>9, <1>10, <1>11 DEF OrderInv, Below

LEMMA ForwarderOrder ==
    ASSUME Domains, OrderInv, Tick \/ Sends \/ GivesUp \/ Breaks \/ Restarts
    PROVE OrderInv'
<1>1. CASE Tick
  BY <1>1 DEF Tick, postfix, OrderInv, Below, Busy, Call
<1>2. CASE Sends
  <2>1. Call.ev = fwd.ev /\ fwd'.ev = fwd.ev /\ Call' = Call /\ fwd'.pc = "wait" /\ fwd.pc = "send"
    BY <1>2, CallShape DEF Sends, Call, Posting
  <2>2. \A n \in Nat : Below(n) => Below(n)'
    BY <1>2, <2>1 DEF Sends, Below
  <2>3. \A c \in calls' : c.ev.line \in late' \/ (fwd'.pc = "wait" /\ c = Call')
    BY <1>2, <2>1 DEF Sends, OrderInv
  <2>4. QED
    BY <1>2, <2>1, <2>2, <2>3, MovedOrder DEF Sends, postfix, Busy
<1>3. CASE GivesUp
  <2>1. Call.ev = fwd.ev /\ fwd.pc = "wait"
    BY <1>3, CallShape DEF GivesUp
  <2>2. fwd'.ev.line \in {0, fwd.ev.line} /\ (Busy' => Busy /\ fwd'.ev = fwd.ev)
    BY <1>3, <2>1, RetriedShape, RetriedLine DEF GivesUp, Busy
  <2>3. \A n \in Nat : Below(n) => Below(n)'
    BY <1>3, <2>2 DEF GivesUp, Below
  <2>4. \A c \in calls' : c.ev.line \in late'
    BY <1>3, <2>1 DEF GivesUp, OrderInv
  <2>5. QED
    BY <1>3, <2>2, <2>3, <2>4, MovedOrder DEF GivesUp, postfix
<1>4. CASE Breaks
  <2>1. fwd'.ev.line = 0 /\ ~Busy'
    BY <1>4, Shapes DEF Breaks, Busy, Resting
  <2>2. \A n \in Nat : Below(n) => Below(n)'
    BY <1>4, <2>1 DEF Breaks, Below
  <2>3. \A c \in calls' : c.ev.line \in late'
    BY <1>4 DEF Breaks, OrderInv
  <2>4. QED
    BY <1>4, <2>1, <2>2, <2>3, MovedOrder DEF Breaks, postfix
<1>5. CASE Restarts
  <2>1. fwd'.ev.line = 0 /\ ~Busy' /\ Len(tail') = 0
    BY <1>5, Shapes DEF Restarts, Busy
  <2>2. \A n \in Nat : Below(n) => Below(n)'
    BY <1>5, <2>1 DEF Restarts, Below
  <2>3. \A c \in calls' : c.ev.line \in late'
    BY <1>5 DEF Restarts
  <2>4. QED
    BY <1>5, <2>1, <2>2, <2>3, MovedOrder DEF Restarts
<1>6. QED
  BY <1>1, <1>2, <1>3, <1>4, <1>5

LEMMA ApiOrder ==
    ASSUME Inv, OrderInv, NEW c \in calls, Ingests(c) \/ Fails(c)
    PROVE OrderInv'
<1> USE DEF Inv
<1>1. /\ fwd'.ev.line \in {0, fwd.ev.line} /\ (Busy' => Busy /\ fwd'.ev = fwd.ev)
      /\ calls' = calls \ {c} /\ UNCHANGED <<tail, written, late>>
      /\ (fwd.pc = "wait" /\ c = Call) \/ fwd' = fwd
  <2>1. CASE fwd.pc = "wait" /\ c = Call
    <3>1. fwd' = Idle \/ fwd' = Retried
      BY <2>1 DEF Ingests, Fails, Answered
    <3>2. fwd'.ev.line \in {0, fwd.ev.line} /\ (Busy' => Busy /\ fwd'.ev = fwd.ev)
      BY <2>1, <3>1, Shapes, RetriedShape, RetriedLine DEF Busy
    <3>3. QED
      BY <2>1, <3>2 DEF Ingests, Fails, postfix
  <2>2. CASE ~(fwd.pc = "wait" /\ c = Call)
    BY <2>2 DEF Ingests, Fails, Busy, postfix
  <2>3. QED
    BY <2>1, <2>2
<1>2. ASSUME NEW m \in Msg PROVE log'[m].line \in {log[m].line, c.ev.line}
  <2>1. CASE Ingests(c)
    BY <2>1, IngestsLog
  <2>2. CASE Fails(c)
    BY <2>2 DEF Fails
  <2>3. QED
    BY <2>1, <2>2
<1>3. \A n \in Nat : Below(n) => Below(n)'
  BY <1>1, <1>2 DEF Below
<1>4. \A k \in calls' : k.ev.line \in late' \/ (fwd'.pc = "wait" /\ k = Call')
  BY <1>1 DEF OrderInv, Call
<1>5. QED
  BY <1>1, <1>3, <1>4, MovedOrder

LEMMA NextOrder == Inv /\ OrderInv /\ [Next]_vars => OrderInv'
<1> SUFFICES ASSUME Inv, OrderInv, [Next]_vars PROVE OrderInv'
  OBVIOUS
<1>1. CASE UNCHANGED vars
  BY <1>1 DEF vars, OrderInv, Below, Busy, Call
<1>2. QED
  BY <1>1, MailOrder, ReadsOrder, ForwarderOrder, ApiOrder DEF Next, Inv

\* An outcome replaces those of earlier lines only, but for a request the
\* forwarder had given up (mail-log-forwarder posts one line after the other).
THEOREM OutcomesAdvance == Spec => OutcomesMoveForward
<1>1. Init => Inv /\ OrderInv
  BY InitInv, InitOrder
<1>2. Inv /\ OrderInv /\ [Next]_vars => (Inv /\ OrderInv)'
  BY NextInv, NextOrder
<1>3. ASSUME Inv, OrderInv, [Next]_vars, NEW m \in Msg, log[m].has
      PROVE log'[m].line >= log[m].line \/ (log[m].line # 0 /\ log'[m].line \in late)
  <2> USE <1>3 DEF Inv
  <2>1. log[m].line \in Int /\ log[m].line >= log[m].line
    BY LineNumbers
  <2>2. CASE log'[m] = log[m]
    BY <2>1, <2>2
  <2>3. ASSUME NEW c \in calls, Ingests(c), log'[m] # log[m]
        PROVE log'[m].line >= log[m].line \/ (log[m].line # 0 /\ log'[m].line \in late)
    <3>1. log'[m].line = c.ev.line /\ c.ev.line \in Lines
      BY <2>3, IngestsLog, LineNumbers
    <3>2. CASE c.ev.line \in late
      BY <2>1, <3>1, <3>2 DEF Lines
    <3>3. CASE c.ev.line \notin late
      <4>1. fwd.pc = "wait" /\ c = Call
        BY <3>3 DEF OrderInv
      <4>2. log[m].line <= fwd.ev.line /\ c.ev = fwd.ev
        BY <4>1, CallShape DEF OrderInv, Busy, Below
      <4>3. QED
        BY <2>1, <3>1, <4>2 DEF Lines
    <3>4. QED
      BY <3>2, <3>3
  <2>4. ASSUME NEW k \in Msg, InsertsLog(k) PROVE log'[m] = log[m]
    BY <1>3, <2>4, InsertsRow
  <2>5. QED
    BY <2>2, <2>3, <2>4, NextSteps
<1>4. Inv /\ OrderInv /\ [Next]_vars =>
        [\A m \in Msg : log[m].has =>
            \/ log'[m].line >= log[m].line
            \/ log[m].line # 0 /\ log'[m].line \in late]_vars
  BY <1>3
<1>5. QED
  BY <1>1, <1>2, <1>4, PTL DEF Spec, OutcomesMoveForward
-----------------------------------------------------------------------------
(***************************************************************************)
(* Attempts: what is stored of a line and what is still being handled are  *)
(* never more than the attempts the forwarder has made at it.              *)
(***************************************************************************)
Unread(l) == l > written \/ \E i \in 1..Len(tail) : tail[i].line = l

\* The attempts at a line so far, or those there may have been.
Spent(l) ==
    IF Unread(l) THEN 0
    ELSE IF ~(Busy /\ fwd.ev.line = l) THEN 2
    ELSE IF fwd.pc = "send" THEN fwd.attempt - 1
    ELSE fwd.attempt

Flies(l, n) == \E c \in calls : c.ev.line = l /\ c.attempt = n
Flying(l) == (IF Flies(l, 1) THEN 1 ELSE 0) + (IF Flies(l, 2) THEN 1 ELSE 0)

AttemptInv ==
    /\ \A c, d \in calls : c.ev.line = d.ev.line /\ c.attempt = d.attempt => c = d
    /\ \A c \in calls : c.attempt <= Spent(c.ev.line)
    /\ \A l \in Lines : stored[l] + Flying(l) <= Spent(l)

\* A message that Postfix still has is still to be sent to somebody.
OpenInv ==
    \A m \in Msg : /\ open[m] \in 0..Rcpts
                   /\ mta[m] # "gone" => open[m] > 0

LEMMA SpentRange ==
    ASSUME Domains, NEW l \in Lines
    PROVE Spent(l) \in 0..2 /\ (~Unread(l) /\ ~(Busy /\ fwd.ev.line = l) => Spent(l) = 2)
<1>1. Busy => fwd.attempt \in 1..2 /\ fwd.pc \in {"send", "wait"}
  BY CallShape DEF Busy, Posting
<1>2. QED
  BY <1>1 DEF Spent

LEMMA SpentThen == ASSUME Domains', NEW l \in Lines PROVE Spent(l)' \in 0..2
<1>1. Busy' => fwd'.attempt \in 1..2 /\ fwd'.pc \in {"send", "wait"}
  BY DEF Domains, Resting, Posting, Busy
<1>2. QED
  BY <1>1 DEF Spent

LEMMA FlyingRange == \A l \in Lines : Flying(l) \in 0..2
  BY DEF Flying

\* What the forwarder works on has been read.
LEMMA BusyIsRead ==
    ASSUME Domains, OrderInv, Busy
    PROVE fwd.ev.line \in Lines /\ ~Unread(fwd.ev.line)
<1>1. fwd.ev.line \in Lines
  BY EventMsgs DEF Event
<1>2. fwd.ev.line <= written
  BY DEF OrderInv, Below
<1>3. ASSUME NEW i \in 1..Len(tail) PROVE tail[i].line # fwd.ev.line
  <2>1. fwd.ev.line <= tail[i].line - 1 /\ tail[i].line \in Lines
    BY LineNumbers DEF OrderInv, Below
  <2>2. QED
    BY <1>1, <2>1 DEF Lines
<1>4. QED
  BY <1>1, <1>2, <1>3, LineNumbers DEF Unread, Lines

LEMMA FewerCalls ==
    ASSUME Domains, Domains', AttemptInv, calls' \subseteq calls, UNCHANGED stored,
           \A l \in Lines : Spent(l) <= Spent(l)'
    PROVE AttemptInv'
<1>1. \A l \in Lines : Flying(l)' <= Flying(l)
  BY DEF Flying, Flies
<1>2. \A l \in Lines : Spent(l) \in Int /\ Flying(l) \in Int /\ Flying(l)' \in Int
                       /\ stored[l] \in Int
  BY SpentRange, FlyingRange DEF Domains, Flying
<1>3. \A l \in Lines : Spent(l)' \in Int
  BY SpentThen
<1>4. \A c \in calls : c.ev.line \in Lines /\ c.attempt \in 1..2
  BY EventMsgs DEF Event
<1>5. \A l \in Lines : stored'[l] + Flying(l)' <= Spent(l)'
  BY <1>1, <1>2, <1>3 DEF AttemptInv
<1>6. \A c \in calls' : c.attempt <= Spent(c.ev.line)'
  BY <1>2, <1>3, <1>4 DEF AttemptInv
<1>7. QED
  BY <1>5, <1>6 DEF AttemptInv

\* Attempts only grow.
LEMMA LogsSpent ==
    ASSUME Domains, NEW m \in Msg, NEW type \in LogEvents, Logs(m, type), UNCHANGED fwd,
           NEW l \in Lines
    PROVE Spent(l)' = Spent(l)
<1>1. /\ written \in Nat /\ written' = written + 1 /\ Len(tail') = Len(tail) + 1
      /\ Len(tail) \in Nat
      /\ \A k \in 1..Len(tail) : tail'[k] = tail[k]
      /\ tail'[Len(tail) + 1].line = written + 1
  BY LogsShape, LineNumbers DEF Domains
<1>2. Unread(l)' <=> Unread(l)
  BY <1>1 DEF Unread, Lines
<1>3. QED
  BY <1>2 DEF Spent, Busy

LEMMA ReadsSpent ==
    ASSUME Domains, OrderInv, ReadsLine, NEW l \in Lines
    PROVE Spent(l) <= Spent(l)'
<1>1. /\ tail \in Seq(Logged) /\ Len(tail) > 0 /\ Head(tail) = tail[1]
      /\ Len(tail') = Len(tail) - 1 /\ \A i \in 1..Len(tail') : tail'[i] = tail[i + 1]
  BY DEF ReadsLine, Domains
<1>2. ~Busy /\ fwd'.ev.line = tail[1].line /\ fwd'.pc = "send" /\ fwd'.attempt = 1
      /\ written' = written
  BY <1>1 DEF ReadsLine, Busy
<1>3. CASE l = tail[1].line
  <2>1. Unread(l)
    BY <1>1, <1>3 DEF Unread
  <2>2. Spent(l)' \in {0, 1 - 1}
    BY <1>2, <1>3 DEF Spent, Busy
  <2>3. QED
    BY <2>1, <2>2 DEF Spent
<1>4. CASE l # tail[1].line
  <2>1. Unread(l)' => Unread(l)
    <3>1. \A i \in 1..Len(tail') : i + 1 \in 1..Len(tail)
      BY <1>1
    <3>2. QED
      BY <1>1, <1>2, <3>1 DEF Unread
  <2>2. Spent(l)' = IF Unread(l)' THEN 0 ELSE 2
    BY <1>2, <1>4 DEF Spent
  <2>3. Spent(l) \in 0..2 /\ (Unread(l) => Spent(l) = 0)
    BY SpentRange DEF Spent
  <2>4. QED
    BY <2>1, <2>2, <2>3
<1>5. QED
  BY <1>3, <1>4

\* The forwarder is through with an attempt, whatever became of it.
LEMMA EndsSpent ==
    ASSUME Domains, Domains', OrderInv, NEW l \in Lines, UNCHANGED written,
           tail' = tail \/ Len(tail') = 0,
           \/ fwd' = fwd
           \/ fwd'.pc \in {"idle", "dead"}
           \/ fwd.pc = "wait" /\ fwd' = Retried
    PROVE Spent(l) <= Spent(l)'
<1>1. Unread(l)' => Unread(l)
  BY DEF Unread
<1>2. Spent(l) \in 0..2 /\ (Unread(l) => Spent(l) = 0)
  BY SpentRange DEF Spent
<1>3. Unread(l)' => Spent(l)' = 0
  BY DEF Spent
<1>4. CASE fwd' = fwd
  <2>1. CASE Unread(l)
    BY <1>2, <2>1, SpentThen
  <2>2. CASE ~Unread(l)
    <3>1. Spent(l)' = Spent(l)
      BY <1>1, <1>4, <2>2 DEF Spent, Busy
    <3>2. QED
      BY <1>2, <3>1
  <2>3. QED
    BY <2>1, <2>2
<1>5. CASE fwd'.pc \in {"idle", "dead"}
  <2>1. ~Unread(l)' => Spent(l)' = 2
    BY <1>5 DEF Spent, Busy
  <2>2. QED
    BY <1>1, <1>2, <1>3, <2>1
<1>6. CASE fwd.pc = "wait" /\ fwd' = Retried
  <2>1. CASE fwd.attempt = 1
    <3>1. fwd'.pc = "send" /\ fwd'.attempt = 2 /\ fwd'.ev = fwd.ev
      BY <1>6, <2>1, CallShape DEF Retried, Posting
    <3>2. ~Unread(l)' => Spent(l)' = IF fwd.ev.line = l THEN 1 ELSE 2
      BY <3>1 DEF Spent, Busy
    <3>3. Spent(l) <= IF fwd.ev.line = l THEN 1 ELSE 2
      BY <1>2, <1>6, <2>1 DEF Spent, Busy
    <3>4. QED
      BY <1>1, <1>2, <1>3, <3>2, <3>3
  <2>2. CASE fwd.attempt # 1
    <3>1. fwd'.pc = "idle"
      BY <1>6, <2>2, Shapes DEF Retried
    <3>2. QED
      BY <1>5, <3>1
  <2>3. QED
    BY <2>1, <2>2
<1>7. QED
  BY <1>4, <1>5, <1>6

LEMMA SendsAttempt ==
    ASSUME Domains, Domains', OrderInv, AttemptInv, Sends
    PROVE AttemptInv'
<1>0. PICK n \in Lines, a \in 1..2 : n = fwd.ev.line /\ a = fwd.attempt
  BY CallShape, BusyIsRead DEF Sends, Busy, Posting
<1>1. /\ Call.ev.line = n /\ Call.attempt = a /\ n = fwd.ev.line /\ ~Unread(n)
      /\ Busy /\ fwd.pc = "send"
  BY <1>0, CallShape, BusyIsRead DEF Sends, Busy
<1>2. fwd'.pc = "wait" /\ fwd'.ev = fwd.ev /\ fwd'.attempt = a
      /\ calls' = calls \cup {Call} /\ UNCHANGED <<stored, tail, written>>
  BY <1>0, CallShape DEF Sends, Posting, postfix
<1>3. \A l : Unread(l)' <=> Unread(l)
  BY <1>2 DEF Unread
<1>4. Spent(n) = a - 1 /\ Spent(n)' = a
  BY <1>0, <1>1, <1>2, <1>3 DEF Spent, Busy
<1>5. \A l \in Lines : l # n => Spent(l)' = Spent(l)
  BY <1>1, <1>2, <1>3 DEF Spent, Busy
<1>6. \A c \in calls : c.ev.line \in Lines /\ c.attempt \in 1..2
  BY EventMsgs DEF Event
<1>7. \A c \in calls : c.ev.line = n => c.attempt < a
  BY <1>1, <1>4, <1>6 DEF AttemptInv
<1>8. \A l \in Lines : l # n => Flying(l)' = Flying(l)
  BY <1>1, <1>2 DEF Flying, Flies
<1>9. Flying(n)' = Flying(n) + 1
  <2>1. CASE a = 1
    <3>1. ~Flies(n, 1) /\ ~Flies(n, 2)
      BY <1>6, <1>7, <2>1 DEF Flies
    <3>2. Flies(n, 1)'
      BY <1>1, <1>2, <2>1 DEF Flies
    <3>3. ~Flies(n, 2)'
      BY <1>1, <1>2, <2>1, <3>1 DEF Flies
    <3>4. QED
      BY <3>1, <3>2, <3>3 DEF Flying
  <2>2. CASE a = 2
    <3>1. ~Flies(n, 2)
      BY <1>6, <1>7, <2>2 DEF Flies
    <3>2. Flies(n, 2)'
      BY <1>1, <1>2, <2>2 DEF Flies
    <3>3. Flies(n, 1)' <=> Flies(n, 1)
      BY <1>1, <1>2, <2>2 DEF Flies
    <3>4. QED
      BY <3>1, <3>2, <3>3 DEF Flying
  <2>3. QED
    BY <1>1, <2>1, <2>2
<1>10. \A l \in Lines : Spent(l) \in Int /\ Flying(l) \in Int /\ stored[l] \in Int
  BY SpentRange, FlyingRange DEF Domains
<1>11. ASSUME NEW l \in Lines PROVE stored'[l] + Flying(l)' <= Spent(l)'
  <2>1. stored[l] + Flying(l) <= Spent(l) /\ stored'[l] = stored[l]
    BY <1>2 DEF AttemptInv
  <2>2. CASE l = n
    BY <1>1, <1>4, <1>9, <1>10, <2>1, <2>2
  <2>3. CASE l # n
    BY <1>5, <1>8, <2>1, <2>3
  <2>4. QED
    BY <2>2, <2>3
<1>12. \A c \in calls' : c.attempt <= Spent(c.ev.line)'
  BY <1>1, <1>2, <1>4, <1>5, <1>6, <1>7 DEF AttemptInv
<1>13. \A c, d \in calls' : c.ev.line = d.ev.line /\ c.attempt = d.attempt => c = d
  BY <1>1, <1>2, <1>6, <1>7 DEF AttemptInv
<1>14. QED
  BY <1>11, <1>12, <1>13 DEF AttemptInv

LEMMA IngestsAttempt ==
    ASSUME Domains, Domains', OrderInv, AttemptInv, NEW c \in calls, Ingests(c)
    PROVE AttemptInv'
<1> DEFINE n == c.ev.line
<1>1. n \in Lines /\ c.attempt \in 1..2 /\ \A d \in calls : d.ev.line \in Lines /\ d.attempt \in 1..2
  BY EventMsgs DEF Event
<1>2. calls' = calls \ {c} /\ stored' = [stored EXCEPT ![n] = @ + 1]
      /\ UNCHANGED <<tail, written>>
  BY DEF Ingests, postfix
<1>3. \A l \in Lines : Spent(l) <= Spent(l)'
  <2>1. fwd' = fwd \/ fwd'.pc \in {"idle", "dead"}
    BY Shapes DEF Ingests, Answered
  <2>2. QED
    BY <1>2, <2>1, EndsSpent
<1>4. \A l \in Lines : Spent(l) \in Int /\ Spent(l)' \in Int /\ Flying(l) \in Int
                       /\ Flying(l)' \in Int /\ stored[l] \in Int
  BY SpentRange, SpentThen, FlyingRange DEF Domains, Flying
<1> HIDE DEF n
<1>5. \A l \in Lines : l # n => Flying(l)' = Flying(l)
  BY <1>2 DEF Flying, Flies, n
<1>6. Flying(n)' = Flying(n) - 1
  <2>1. \A d \in calls : d.ev.line = n /\ d.attempt = c.attempt => d = c
    BY DEF AttemptInv, n
  <2>2. CASE c.attempt = 1
    BY <1>2, <2>1, <2>2 DEF Flying, Flies, n
  <2>3. CASE c.attempt = 2
    BY <1>2, <2>1, <2>3 DEF Flying, Flies, n
  <2>4. QED
    BY <1>1, <2>2, <2>3
<1>7. \A l \in Lines : stored'[l] = IF l = n THEN stored[l] + 1 ELSE stored[l]
  BY <1>2 DEF Domains
<1>8. \A l \in Lines : stored'[l] + Flying(l)' <= Spent(l)'
  BY <1>1, <1>3, <1>4, <1>5, <1>6, <1>7 DEF AttemptInv
<1>9. \A d \in calls' : d.attempt <= Spent(d.ev.line)'
  BY <1>1, <1>2, <1>3, <1>4 DEF AttemptInv
<1>10. QED
  BY <1>2, <1>8, <1>9 DEF AttemptInv

LEMMA InitAttempts == Init => AttemptInv /\ OpenInv
<1> SUFFICES ASSUME Init PROVE AttemptInv /\ OpenInv
  OBVIOUS
<1>1. \A l \in Lines : Flying(l) = 0 /\ Spent(l) = 0 /\ stored[l] = 0
  BY DEF Init, Flying, Flies, Spent, Unread, Lines
<1>2. QED
  BY <1>1, MsgAssumption DEF Init, AttemptInv, OpenInv

LEMMA NextAttempts ==
    ASSUME Inv, Inv', OrderInv, AttemptInv, [Next]_vars
    PROVE AttemptInv'
<1> USE DEF Inv
<1>1. CASE UNCHANGED vars
  BY <1>1 DEF vars, AttemptInv, Flying, Flies, Spent, Unread, Busy
<1>2. ASSUME NEW m \in Msg,
             \/ Arrives(m) \/ InsertsLog(m) \/ CallbackDies(m) \/ MtaTimesOut(m)
             \/ Defers(m) \/ MtaHears(m) \/ Settles(m)
      PROVE AttemptInv'
  <2>1. UNCHANGED <<fwd, calls, stored>>
    BY <1>2 DEF Arrives, InsertsLog, CallbackDies, MtaTimesOut, Defers, MtaHears, Settles
  <2>2. UNCHANGED <<tail, written>> \/ \E type \in LogEvents : Logs(m, type)
    BY <1>2, HearsShape
       DEF Arrives, InsertsLog, CallbackDies, MtaTimesOut, Defers, Settles, postfix, LogEvents
  <2>3. \A l \in Lines : Spent(l)' = Spent(l)
    BY <2>1, <2>2, LogsSpent DEF Spent, Unread, Busy
  <2>4. QED
    BY <2>1, <2>3, SpentRange, FewerCalls
<1>3. CASE Tick
  BY <1>3, EndsSpent, FewerCalls DEF Tick, postfix
<1>4. CASE ReadsLine
  BY <1>4, ReadsSpent, FewerCalls DEF ReadsLine
<1>5. CASE Sends
  BY <1>5, SendsAttempt
<1>6. CASE GivesUp
  BY <1>6, EndsSpent, FewerCalls DEF GivesUp, postfix
<1>7. CASE Breaks
  <2>1. fwd'.pc = "dead"
    BY <1>7 DEF Breaks, Idle
  <2>2. QED
    BY <1>7, <2>1, EndsSpent, FewerCalls DEF Breaks, postfix
<1>8. CASE Restarts
  BY <1>8, Shapes, EndsSpent, FewerCalls DEF Restarts
<1>9. ASSUME NEW c \in calls, Ingests(c) PROVE AttemptInv'
  BY <1>9, IngestsAttempt
<1>10. ASSUME NEW c \in calls, Fails(c) PROVE AttemptInv'
  BY <1>10, EndsSpent, FewerCalls DEF Fails, postfix
<1>11. QED
  BY <1>1, <1>2, <1>3, <1>4, <1>5, <1>6, <1>7, <1>8, <1>9, <1>10 DEF Next

LEMMA NextOpen == ASSUME Inv, OpenInv, [Next]_vars PROVE OpenInv'
<1> USE MsgAssumption DEF Inv, OpenInv
<1>1. ASSUME NEW m \in Msg, Settles(m) PROVE OpenInv'
  <2>1. open' = [open EXCEPT ![m] = @ - 1] /\ open[m] \in 1..Rcpts /\ mta[m] = "passed"
    BY <1>1 DEF Settles
  <2>2. /\ \A k \in Msg : k # m => mta'[k] = mta[k]
        /\ open[m] = 1 => mta'[m] = "gone"
    BY <1>1 DEF Settles, Domains
  <2>3. QED
    BY <2>1, <2>2 DEF Domains
<1>2. ASSUME NEW m \in Msg,
             Arrives(m) \/ MtaHears(m) \/ MtaTimesOut(m)
      PROVE OpenInv'
  BY <1>2, HearsShape DEF Arrives, MtaHears, MtaTimesOut, Domains
<1>3. CASE UNCHANGED <<open, mta>>
  BY <1>3
<1>4. QED
  BY <1>1, <1>2, <1>3
     DEF Next, vars, mail, InsertsLog, CallbackDies, Defers, Tick, ReadsLine, Sends, GivesUp,
         Breaks, Restarts, Ingests, Fails

\* Every variable stays in its domain; in particular the API never stores more
\* than two events of one log line, however often a request is given up,
\* answered late or overtaken by a restart (post_event, main).
THEOREM TypeCorrect == Spec => []TypeOK
<1>1. Init => Inv /\ OrderInv /\ AttemptInv /\ OpenInv
  BY InitInv, InitOrder, InitAttempts
<1>2. Inv /\ OrderInv /\ AttemptInv /\ OpenInv /\ [Next]_vars
      => (Inv /\ OrderInv /\ AttemptInv /\ OpenInv)'
  BY NextInv, NextOrder, NextAttempts, NextOpen
<1>3. Inv /\ AttemptInv /\ OpenInv => TypeOK
  <2> SUFFICES ASSUME Inv, AttemptInv, OpenInv PROVE TypeOK
    OBVIOUS
  <2> USE DEF Inv
  <2>1. stored \in [Lines -> 0..2]
    <3>1. ASSUME NEW l \in Lines PROVE stored[l] \in 0..2
      <4>1. Spent(l) \in 0..2 /\ Flying(l) \in 0..2
        BY SpentRange, FlyingRange
      <4>2. stored[l] \in Nat /\ stored[l] + Flying(l) <= Spent(l)
        BY DEF AttemptInv, Domains
      <4>3. QED
        BY <4>1, <4>2
    <3>2. QED
      BY <3>1 DEF Domains
  <2>2. open \in [Msg -> 0..Rcpts]
    BY DEF OpenInv, Domains
  <2>3. \A k \in DOMAIN tail : tail[k].line \in Lines /\ tail[k].type \in LogEvents
    <3>1. DOMAIN tail = 1..Len(tail)
      BY DEF Domains
    <3>2. QED
      BY <3>1, EventMsgs DEF Logged
  <2>4. fwd.pc \in {"idle", "send", "wait", "dead"} /\ fwd.attempt \in 0..2
    BY DEF Domains, Resting, Posting
  <2>5. \A c \in calls : c.ev.line \in Lines /\ c.attempt \in 1..2
    BY EventMsgs DEF Event
  <2>6. QED
    BY <2>1, <2>2, <2>3, <2>4, <2>5 DEF TypeOK, Domains, Times, Row
<1>4. QED
  BY <1>1, <1>2, <1>3, PTL DEF Spec
=============================================================================
