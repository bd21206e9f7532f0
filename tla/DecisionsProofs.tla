-------------------------- MODULE DecisionsProofs --------------------------
(***************************************************************************)
(* TLAPS proofs about Decisions, for any number of interleaved requests,    *)
(* any mail, any verdicts and any failures.                                 *)
(***************************************************************************)
EXTENDS Decisions, FiniteSetTheorems, SequenceTheorems, TLAPS

(***************************************************************************)
(* Programs as sequences of statements: what is in one, and in what order. *)
(***************************************************************************)
IsForget(st) == st.op = "forget"
IsStore(st) == st.op = "store"
IsUndo(st) == st.op = "undo"
IsLearn(st) == st.op = "learn"
IsUnlearn(st) == st.op = "unlearn"
IsClass(st) == st.op = "class"

Elems(s) == {s[i] : i \in 1..Len(s)}

\* An old rule is removed just before the new one is stored.
ReplaceFirst(s) ==
    \A i \in 1..Len(s) : IsForget(s[i]) => i < Len(s) /\ IsStore(s[i + 1])

\* What is learned of a subject is learned before the sender is cleared.
LearnsFirst(s) ==
    \A i, j \in 1..Len(s) : IsUnlearn(s[i]) /\ i < j => ~IsLearn(s[j])

NoLearn(s) == \A st \in Elems(s) : ~IsLearn(st)
NoUnlearn(s) == \A st \in Elems(s) : ~IsUnlearn(st)

\* The empty program, and a program of one statement.
LEMMA EmptyFacts ==
    ASSUME NEW S
    PROVE  /\ <<>> \in Seq(S) /\ Elems(<<>>) = {} /\ Len(<<>>) = 0
           /\ ReplaceFirst(<<>>) /\ LearnsFirst(<<>>)
  BY DEF Elems, ReplaceFirst, LearnsFirst

LEMMA SingleFacts ==
    ASSUME NEW S, NEW x \in S
    PROVE  /\ <<x>> \in Seq(S) /\ Elems(<<x>>) = {x}
           /\ ~IsForget(x) => ReplaceFirst(<<x>>)
           /\ LearnsFirst(<<x>>)
  BY DEF Elems, ReplaceFirst, LearnsFirst

LEMMA ReplaceFacts ==
    ASSUME NEW S, NEW x \in S, NEW y \in S, ~IsForget(y), IsStore(y), ~IsLearn(x), ~IsLearn(y)
    PROVE  /\ <<x, y>> \in Seq(S) /\ Elems(<<x, y>>) = {x, y}
           /\ ReplaceFirst(<<x, y>>) /\ LearnsFirst(<<x, y>>)
<1>1. <<x, y>> \in Seq(S) /\ Len(<<x, y>>) = 2 /\ <<x, y>>[1] = x /\ <<x, y>>[2] = y
  OBVIOUS
<1>2. 1..2 = {1, 2}
  OBVIOUS
<1>3. Elems(<<x, y>>) = {x, y}
  BY <1>1, <1>2, Zenon DEF Elems
<1>4. ReplaceFirst(<<x, y>>)
  BY <1>1 DEF ReplaceFirst
<1>5. LearnsFirst(<<x, y>>)
  BY <1>1 DEF LearnsFirst
<1>6. QED
  BY <1>1, <1>3, <1>4, <1>5

\* One program after another.
LEMMA ConcatFacts ==
    ASSUME NEW S, NEW s \in Seq(S), NEW t \in Seq(S)
    PROVE  /\ s \o t \in Seq(S) /\ Elems(s \o t) = Elems(s) \cup Elems(t)
           /\ ReplaceFirst(s) /\ ReplaceFirst(t) => ReplaceFirst(s \o t)
           /\ LearnsFirst(s) /\ NoLearn(t) => LearnsFirst(s \o t)
           /\ NoUnlearn(s) /\ LearnsFirst(t) => LearnsFirst(s \o t)
<1> DEFINE u == s \o t
<1>1. /\ u \in Seq(S) /\ Len(u) = Len(s) + Len(t) /\ Len(s) \in Nat /\ Len(t) \in Nat
      /\ \A i \in 1..Len(s) : u[i] = s[i]
      /\ \A i \in 1..Len(t) : u[Len(s) + i] = t[i]
  OBVIOUS
<1>2. \A i \in 1..Len(u) : i \in 1..Len(s) \/ i - Len(s) \in 1..Len(t)
  BY <1>1
<1>3. \A i \in 1..Len(u) : ~(i \in 1..Len(s)) => u[i] = t[i - Len(s)]
  BY <1>1, <1>2
<1> HIDE DEF u
<1>4. Elems(u) = Elems(s) \cup Elems(t)
  <2>1. ASSUME NEW i \in 1..Len(u) PROVE u[i] \in Elems(s) \cup Elems(t)
    BY <1>1, <1>2, <1>3 DEF Elems
  <2>2. ASSUME NEW i \in 1..Len(s) PROVE s[i] \in Elems(u)
    <3>1. i \in 1..Len(u) /\ u[i] = s[i]
      BY <1>1
    <3>2. QED
      BY <3>1 DEF Elems
  <2>3. ASSUME NEW i \in 1..Len(t) PROVE t[i] \in Elems(u)
    <3>1. Len(s) + i \in 1..Len(u) /\ u[Len(s) + i] = t[i]
      BY <1>1
    <3>2. QED
      BY <3>1 DEF Elems
  <2>4. QED
    BY <2>1, <2>2, <2>3 DEF Elems
<1>5. ASSUME ReplaceFirst(s), ReplaceFirst(t) PROVE ReplaceFirst(u)
  <2> SUFFICES ASSUME NEW i \in 1..Len(u), IsForget(u[i])
               PROVE  i < Len(u) /\ IsStore(u[i + 1])
    BY DEF ReplaceFirst
  <2>1. CASE i \in 1..Len(s)
    <3>1. i < Len(s) /\ IsStore(s[i + 1])
      BY <1>1, <1>5, <2>1 DEF ReplaceFirst
    <3>2. i + 1 \in 1..Len(s) /\ i < Len(u)
      BY <1>1, <3>1
    <3>3. QED
      BY <1>1, <3>1, <3>2
  <2>2. CASE ~(i \in 1..Len(s))
    <3>1. i - Len(s) \in 1..Len(t) /\ IsForget(t[i - Len(s)])
      BY <1>2, <1>3, <2>2
    <3>2. i - Len(s) < Len(t) /\ IsStore(t[i - Len(s) + 1])
      BY <1>5, <3>1 DEF ReplaceFirst
    <3>3. i - Len(s) + 1 \in 1..Len(t) /\ Len(s) + (i - Len(s) + 1) = i + 1 /\ i < Len(u)
      BY <1>1, <3>1, <3>2
    <3>4. u[i + 1] = t[i - Len(s) + 1]
      BY <1>1, <3>3
    <3>5. QED
      BY <3>2, <3>3, <3>4
  <2>3. QED
    BY <2>1, <2>2
<1>6. ASSUME (LearnsFirst(s) /\ NoLearn(t)) \/ (NoUnlearn(s) /\ LearnsFirst(t))
      PROVE  LearnsFirst(u)
  <2> SUFFICES ASSUME NEW i \in 1..Len(u), NEW j \in 1..Len(u), IsUnlearn(u[i]), i < j
               PROVE  ~IsLearn(u[j])
    BY DEF LearnsFirst
  <2>1. CASE LearnsFirst(s) /\ NoLearn(t)
    <3>1. CASE j \in 1..Len(s)
      <4>1. i \in 1..Len(s)
        BY <1>1, <3>1
      <4>2. QED
        BY <1>1, <2>1, <3>1, <4>1 DEF LearnsFirst
    <3>2. CASE ~(j \in 1..Len(s))
      BY <1>2, <1>3, <2>1, <3>2 DEF NoLearn, Elems
    <3>3. QED
      BY <3>1, <3>2
  <2>2. CASE NoUnlearn(s) /\ LearnsFirst(t)
    <3>1. ~(i \in 1..Len(s))
      BY <1>1, <2>2 DEF NoUnlearn, Elems
    <3>2. ~(j \in 1..Len(s))
      BY <1>1, <3>1
    <3>3. /\ i - Len(s) \in 1..Len(t) /\ j - Len(s) \in 1..Len(t)
          /\ u[i] = t[i - Len(s)] /\ u[j] = t[j - Len(s)]
      BY <1>2, <1>3, <3>1, <3>2
    <3>4. i - Len(s) < j - Len(s)
      BY <1>1
    <3>5. QED
      BY <2>2, <3>3, <3>4 DEF LearnsFirst
  <2>3. QED
    BY <1>6, <2>1, <2>2
<1>7. /\ u \in Seq(S) /\ Elems(u) = Elems(s) \cup Elems(t)
      /\ ReplaceFirst(s) /\ ReplaceFirst(t) => ReplaceFirst(u)
      /\ LearnsFirst(s) /\ NoLearn(t) => LearnsFirst(u)
      /\ NoUnlearn(s) /\ LearnsFirst(t) => LearnsFirst(u)
  BY <1>1, <1>4, <1>5, <1>6
<1>8. QED
  BY <1>7, Zenon DEF u

\* The next statement of a program, and the rest.
LEMMA TailFacts ==
    ASSUME NEW S, NEW s \in Seq(S), s # <<>>
    PROVE  /\ Head(s) \in S /\ Tail(s) \in Seq(S)
           /\ Elems(s) = {Head(s)} \cup Elems(Tail(s)) /\ Tail(s) # s
           /\ ReplaceFirst(s) =>
                /\ ReplaceFirst(Tail(s))
                /\ IsForget(Head(s)) => /\ Tail(s) # <<>> /\ IsStore(Head(Tail(s)))
                                        /\ Head(Tail(s)) \in Elems(Tail(s))
           /\ LearnsFirst(s) =>
                /\ LearnsFirst(Tail(s))
                /\ IsUnlearn(Head(s)) => NoLearn(Tail(s))
<1> DEFINE t == Tail(s)
<1>1. /\ Len(s) \in Nat /\ Len(s) >= 1 /\ Head(s) = s[1] /\ Head(s) \in S
      /\ t \in Seq(S) /\ Len(t) = Len(s) - 1
      /\ \A i \in 1..Len(t) : t[i] = s[i + 1]
  OBVIOUS
<1>2. t # <<>> => Head(t) = t[1] /\ Len(t) >= 1
  BY <1>1
<1> HIDE DEF t
<1>3. \A i \in 1..Len(s) : i = 1 \/ (i - 1 \in 1..Len(t) /\ t[i - 1] = s[i])
  BY <1>1
<1>4. \A i \in 1..Len(t) : i + 1 \in 1..Len(s) /\ t[i] = s[i + 1]
  BY <1>1
<1>5. 1 \in 1..Len(s)
  BY <1>1
<1>6. Elems(s) = {Head(s)} \cup Elems(t)
  <2>1. ASSUME NEW i \in 1..Len(s) PROVE s[i] \in {Head(s)} \cup Elems(t)
    BY <1>1, <1>3 DEF Elems
  <2>2. ASSUME NEW i \in 1..Len(t) PROVE t[i] \in Elems(s)
    BY <1>4 DEF Elems
  <2>3. Head(s) \in Elems(s)
    BY <1>1, <1>5 DEF Elems
  <2>4. QED
    BY <2>1, <2>2, <2>3 DEF Elems
<1>7. ASSUME ReplaceFirst(s)
      PROVE  /\ ReplaceFirst(t)
             /\ IsForget(Head(s)) => t # <<>> /\ IsStore(Head(t)) /\ Head(t) \in Elems(t)
  <2>1. ASSUME NEW i \in 1..Len(t), IsForget(t[i]) PROVE i < Len(t) /\ IsStore(t[i + 1])
    <3>1. i + 1 < Len(s) /\ IsStore(s[i + 2])
      <4>1. i + 1 \in 1..Len(s) /\ IsForget(s[i + 1]) /\ i + 1 + 1 = i + 2
        BY <1>4, <2>1
      <4>2. QED
        BY <1>7, <4>1 DEF ReplaceFirst
    <3>2. i < Len(t) /\ i + 1 \in 1..Len(t) /\ t[i + 1] = s[i + 2]
      BY <1>1, <3>1
    <3>3. QED
      BY <3>1, <3>2
  <2>2. ASSUME IsForget(Head(s)) PROVE t # <<>> /\ IsStore(Head(t)) /\ Head(t) \in Elems(t)
    <3>1. 1 < Len(s) /\ IsStore(s[2])
      BY <1>1, <1>5, <1>7, <2>2 DEF ReplaceFirst
    <3>2. Len(t) # 0 /\ 1 \in 1..Len(t) /\ t[1] = s[2]
      BY <1>1, <3>1
    <3>3. t # <<>>
      BY <3>2
    <3>4. QED
      BY <1>2, <3>1, <3>2, <3>3 DEF Elems
  <2>3. QED
    BY <2>1, <2>2 DEF ReplaceFirst
<1>8. ASSUME LearnsFirst(s)
      PROVE  LearnsFirst(t) /\ (IsUnlearn(Head(s)) => NoLearn(t))
  <2>1. ASSUME NEW i \in 1..Len(t), NEW j \in 1..Len(t), IsUnlearn(t[i]), i < j
        PROVE  ~IsLearn(t[j])
    <3>1. i + 1 \in 1..Len(s) /\ j + 1 \in 1..Len(s) /\ i + 1 < j + 1
      BY <1>4, <2>1
    <3>2. QED
      BY <1>4, <1>8, <2>1, <3>1 DEF LearnsFirst
  <2>2. ASSUME IsUnlearn(Head(s)), NEW j \in 1..Len(t) PROVE ~IsLearn(t[j])
    <3>1. 1 < j + 1 /\ j + 1 \in 1..Len(s)
      BY <1>4
    <3>2. QED
      BY <1>1, <1>4, <1>5, <1>8, <2>2, <3>1 DEF LearnsFirst
  <2>3. QED
    BY <2>1, <2>2 DEF LearnsFirst, NoLearn, Elems
<1>9. t # s
  BY <1>1
<1>10. QED
  BY <1>1, <1>6, <1>7, <1>8, <1>9 DEF t
-----------------------------------------------------------------------------
(***************************************************************************)
(* What the statements of a request may be.                                *)
(***************************************************************************)
Given == Threats \cup {"not_spam", "other"}
Keys == [scope : {"system", "org", "domain", "user"}, own : BOOLEAN,
         pattern : Senders \cup {All}]
Rules == [key : Keys, action : {"allow", "block"}]
LearnKeys == (Senders \cup {All}) \X Subjects

Stmt ==
    [op : {"forget", "store", "undo"}, rule : Rules]
    \cup [op : {"judge", "correlate"}, msg : Messages, verdict : Given \cup {"unreviewed"}]
    \cup [op : {"trash"}, msg : Messages]
    \cup [op : {"release", "discard"}, msg : Messages, loaded : BOOLEAN]
    \cup [op : {"class"}, msg : Messages, verdict : Given]
    \cup [op : {"learn"}, key : LearnKeys, verdict : Given, soft : BOOLEAN]
    \cup [op : {"unlearn"}, from : Senders, soft : BOOLEAN]

\* Each table is written for the request's own rule, message and kind.
Fits(q, st) ==
    /\ IsForget(st) \/ IsStore(st) => RuleOf(q) # NoRule /\ st.rule = RuleOf(q)
    /\ IsUndo(st) => q.kind = "undo"
    /\ st.op \in {"judge", "trash"} => q.kind \in MailboxKinds /\ st.msg = q.msg
    /\ IsClass(st) => q.kind \in HeldKinds /\ st.msg = q.msg
    /\ IsLearn(st) \/ IsUnlearn(st) => Judges(q)
    /\ Clears(q) /\ IsLearn(st) =>
         st.key = <<Mail[q.msg].from, Mail[q.msg].subject>> /\ st.verdict = "not_spam"
    /\ Clears(q) /\ IsUnlearn(st) => st.from = Mail[q.msg].from

Statement(q) == {st \in Stmt : Fits(q, st)}

OnMail == MailboxKinds \cup HeldKinds \cup LogKinds

\* What a request looks like.
Shape(q) ==
    /\ q.kind \in OnMail \cup {"list", "undo"}
    /\ q.kind \in OnMail => q.msg \in Messages
    /\ q.kind = "log block" => q \in About({"log block"}, Roles, {"sender", "domain"},
                                           {"current"})
    /\ q.kind \in {"list", "undo"} => q.rule \in Rules
    /\ q.kind = "mailbox verdict" => q.verdict \in Given \cup {"unreviewed"}
    /\ q.kind = "held verdict" => q.verdict \in Given
    /\ q.kind = "held block" => q.verdict \in Given \cup {"current"}

LEMMA AskedShape ==
    ASSUME rules \subseteq Rules, NEW q \in Asked
    PROVE  Shape(q)
<1>1. CASE q.kind = "list"
  <2>1. q.rule \in ListRules
    BY <1>1 DEF Asked, About
  <2>2. q.rule \in Rules
    BY <2>1, ScopeAssumption DEF ScopeAssumption, ListRules, Rules, Keys
  <2>3. QED
    BY <1>1, <2>2 DEF Shape, OnMail, MailboxKinds, HeldKinds, LogKinds
<1>2. CASE q.kind = "undo"
  <2>1. q.rule \in Rules
    BY <1>2 DEF Asked, About
  <2>2. QED
    BY <1>2, <2>1 DEF Shape, OnMail, MailboxKinds, HeldKinds, LogKinds
<1>3. CASE q.kind \notin {"list", "undo"}
  <2>1. /\ q.kind \in OnMail /\ q.msg \in Messages
        /\ q.role \in Roles /\ q.over \in {"sender", "domain"}
        /\ q.kind = "log block" => q \in About({"log block"}, Roles, {"sender", "domain"},
                                               {"current"})
    BY <1>3 DEF Asked, About, OnMail, MailboxKinds, HeldKinds, LogKinds, Roles
  <2>2. q.kind = "mailbox verdict" => q.verdict \in Given \cup {"unreviewed"}
    BY <1>3, ScopeAssumption DEF ScopeAssumption, Asked, About, Given
  <2>3. q.kind = "held verdict" => q.verdict \in Given
    BY <1>3, ScopeAssumption DEF ScopeAssumption, Asked, About, Given
  <2>4. q.kind = "held block" => q.verdict \in Given \cup {"current"}
    BY <1>3, ScopeAssumption DEF ScopeAssumption, Asked, About, Given
  <2>5. QED
    BY <1>3, <2>1, <2>2, <2>3, <2>4 DEF Shape
<1>4. QED
  BY <1>1, <1>2, <1>3

\* The rule of a request, when it has one.
LEMMA RuleIsRule ==
    ASSUME NEW q, Shape(q)
    PROVE  /\ RuleOf(q) # NoRule => RuleOf(q) \in Rules
           /\ q.kind = "undo" => RuleOf(q) = NoRule
<1> USE DEF Shape, OnMail, MailboxKinds, HeldKinds, LogKinds
<1>1. CASE q.kind = "list"
  BY <1>1 DEF RuleOf
<1>2. CASE q.kind = "undo"
  BY <1>2 DEF RuleOf
<1>3. CASE q.kind \in OnMail
  <2>1. q.msg \in Messages /\ Mail[q.msg].from \in Senders
    BY <1>3 DEF Senders
  <2>2. Over(q) \in Senders \cup {All}
    BY <2>1 DEF Over
  <2>3. ASSUME NEW p \in Senders \cup {All}, NEW a \in {"allow", "block"}
        PROVE  Rule(RoleKey(q.role, p), a) \in Rules /\ Rule(RecipientKey(p), a) \in Rules
    BY DEF Rule, RoleKey, RecipientKey, Key, Rules, Keys
  <2>4. MailboxRule(q) \in Rules \cup {NoRule}
    BY <2>1, <2>2, <2>3 DEF MailboxRule
  <2>5. HeldRule(q) \in Rules \cup {NoRule}
    BY <2>1, <2>2, <2>3 DEF HeldRule
  <2>6. LogRule(q) \in Rules \cup {NoRule}
    <3>1. CASE q.kind = "log block"
      <4> DEFINE b == [q EXCEPT !.kind = "mailbox block"]
      <4>1. b.msg = q.msg /\ b.role = q.role /\ b.over = q.over
        BY <3>1 DEF About
      <4> HIDE DEF b
      <4>2. Over(b) = Over(q)
        BY <4>1, Zenon DEF Over
      <4>3. MailboxRule(b) \in Rules \cup {NoRule}
        BY <2>1, <2>2, <2>3, <4>1, <4>2 DEF MailboxRule
      <4>4. QED
        BY <3>1, <4>3 DEF LogRule, b
    <3>2. CASE q.kind # "log block"
      BY <2>3, <3>2 DEF LogRule
    <3>3. QED
      BY <3>1, <3>2
  <2>7. QED
    BY <1>3, <2>4, <2>5, <2>6 DEF RuleOf
<1>4. QED
  BY <1>1, <1>2, <1>3

\* The statements that occur in programs.
LEMMA RuleStatements ==
    ASSUME NEW q, Shape(q), RuleOf(q) # NoRule, NEW o \in {"forget", "store"}
    PROVE  [op |-> o, rule |-> RuleOf(q)] \in Statement(q)
<1> DEFINE st == [op |-> o, rule |-> RuleOf(q)]
<1>1. RuleOf(q) \in Rules
  BY RuleIsRule
<1>2. st \in Stmt
  BY <1>1 DEF Stmt
<1>3. st.op = o /\ st.rule = RuleOf(q)
  OBVIOUS
<1> HIDE DEF st
<1>4. Fits(q, st)
  BY <1>3 DEF Fits, IsForget, IsStore, IsUndo, IsClass, IsLearn, IsUnlearn
<1>5. st \in Statement(q)
  BY <1>2, <1>4 DEF Statement
<1>6. QED
  BY <1>5 DEF st

LEMMA UndoStatement ==
    ASSUME NEW q, Shape(q), q.kind = "undo"
    PROVE  [op |-> "undo", rule |-> q.rule] \in Statement(q)
<1> DEFINE st == [op |-> "undo", rule |-> q.rule]
<1>1. q.rule \in Rules
  BY DEF Shape
<1>2. st \in Stmt
  BY <1>1 DEF Stmt
<1>3. st.op = "undo"
  OBVIOUS
<1> HIDE DEF st
<1>4. Fits(q, st)
  BY <1>3 DEF Fits, IsForget, IsStore, IsUndo, IsClass, IsLearn, IsUnlearn
<1>5. st \in Statement(q)
  BY <1>2, <1>4 DEF Statement
<1>6. QED
  BY <1>5 DEF st

LEMMA CopyStatements ==
    ASSUME NEW q, Shape(q), q.kind \in MailboxKinds
    PROVE  /\ \A v \in Given \cup {"unreviewed"} :
                /\ [op |-> "judge", msg |-> q.msg, verdict |-> v] \in Statement(q)
                /\ [op |-> "correlate", msg |-> q.msg, verdict |-> v] \in Statement(q)
           /\ [op |-> "trash", msg |-> q.msg] \in Statement(q)
<1>1. q.msg \in Messages
  BY DEF Shape, OnMail
<1>2. ASSUME NEW v \in Given \cup {"unreviewed"}, NEW o \in {"judge", "correlate"}
      PROVE  [op |-> o, msg |-> q.msg, verdict |-> v] \in Statement(q)
  <2> DEFINE st == [op |-> o, msg |-> q.msg, verdict |-> v]
  <2>1. st \in Stmt
    BY <1>1 DEF Stmt
  <2>2. st.op = o /\ st.msg = q.msg
    OBVIOUS
  <2> HIDE DEF st
  <2>3. Fits(q, st)
    BY <2>2 DEF Fits, IsForget, IsStore, IsUndo, IsClass, IsLearn, IsUnlearn
  <2>4. st \in Statement(q)
    BY <2>1, <2>3 DEF Statement
  <2>5. QED
    BY <2>4 DEF st
<1>3. [op |-> "trash", msg |-> q.msg] \in Statement(q)
  <2> DEFINE st == [op |-> "trash", msg |-> q.msg]
  <2>1. st \in Stmt
    BY <1>1 DEF Stmt
  <2>2. st.op = "trash" /\ st.msg = q.msg
    OBVIOUS
  <2> HIDE DEF st
  <2>3. Fits(q, st)
    BY <2>2 DEF Fits, IsForget, IsStore, IsUndo, IsClass, IsLearn, IsUnlearn
  <2>4. st \in Statement(q)
    BY <2>1, <2>3 DEF Statement
  <2>5. QED
    BY <2>4 DEF st
<1>4. QED
  BY <1>2, <1>3

LEMMA EntryStatements ==
    ASSUME NEW q, Shape(q), q.kind \in OnMail
    PROVE  /\ \A b \in BOOLEAN :
                /\ [op |-> "release", msg |-> q.msg, loaded |-> b] \in Statement(q)
                /\ [op |-> "discard", msg |-> q.msg, loaded |-> b] \in Statement(q)
           /\ q.kind \in HeldKinds =>
                \A v \in Given : [op |-> "class", msg |-> q.msg, verdict |-> v] \in Statement(q)
<1>1. q.msg \in Messages
  BY DEF Shape, OnMail
<1>2. ASSUME NEW b \in BOOLEAN, NEW o \in {"release", "discard"}
      PROVE  [op |-> o, msg |-> q.msg, loaded |-> b] \in Statement(q)
  <2> DEFINE st == [op |-> o, msg |-> q.msg, loaded |-> b]
  <2>1. st \in Stmt
    BY <1>1 DEF Stmt
  <2>2. st.op = o
    OBVIOUS
  <2> HIDE DEF st
  <2>3. Fits(q, st)
    BY <2>2 DEF Fits, IsForget, IsStore, IsUndo, IsClass, IsLearn, IsUnlearn
  <2>4. st \in Statement(q)
    BY <2>1, <2>3 DEF Statement
  <2>5. QED
    BY <2>4 DEF st
<1>3. ASSUME NEW v \in Given, q.kind \in HeldKinds
      PROVE  [op |-> "class", msg |-> q.msg, verdict |-> v] \in Statement(q)
  <2> DEFINE st == [op |-> "class", msg |-> q.msg, verdict |-> v]
  <2>1. st \in Stmt
    BY <1>1 DEF Stmt
  <2>2. st.op = "class" /\ st.msg = q.msg
    OBVIOUS
  <2> HIDE DEF st
  <2>3. Fits(q, st)
    BY <1>3, <2>2 DEF Fits, IsForget, IsStore, IsUndo, IsClass, IsLearn, IsUnlearn
  <2>4. st \in Statement(q)
    BY <2>1, <2>3 DEF Statement
  <2>5. QED
    BY <2>4 DEF st
<1>4. QED
  BY <1>2, <1>3

\* What a request learns, if it judges its message.
OwnKey(q) == <<Mail[q.msg].from, Mail[q.msg].subject>>

LEMMA LearnStatement ==
    ASSUME NEW q, Judges(q), NEW key \in LearnKeys, NEW v \in Given, NEW soft \in BOOLEAN,
           Clears(q) => key = OwnKey(q) /\ v = "not_spam"
    PROVE  [op |-> "learn", key |-> key, verdict |-> v, soft |-> soft] \in Statement(q)
<1> DEFINE st == [op |-> "learn", key |-> key, verdict |-> v, soft |-> soft]
<1>1. st \in Stmt
  BY Zenon DEF Stmt
<1>2. st.op = "learn" /\ st.key = key /\ st.verdict = v
  OBVIOUS
<1> HIDE DEF st
<1>3. Fits(q, st)
  BY <1>2 DEF Fits, IsForget, IsStore, IsUndo, IsClass, IsLearn, IsUnlearn, OwnKey
<1>4. st \in Statement(q)
  BY <1>1, <1>3 DEF Statement
<1>5. QED
  BY <1>4 DEF st

LEMMA UnlearnStatement ==
    ASSUME NEW q, Judges(q), q.msg \in Messages, NEW soft \in BOOLEAN
    PROVE  [op |-> "unlearn", from |-> Mail[q.msg].from, soft |-> soft] \in Statement(q)
<1> DEFINE st == [op |-> "unlearn", from |-> Mail[q.msg].from, soft |-> soft]
<1>1. st \in Stmt
  BY DEF Stmt, Senders
<1>2. st.op = "unlearn" /\ st.from = Mail[q.msg].from
  OBVIOUS
<1> HIDE DEF st
<1>3. Fits(q, st)
  BY <1>2 DEF Fits, IsForget, IsStore, IsUndo, IsClass, IsLearn, IsUnlearn
<1>4. st \in Statement(q)
  BY <1>1, <1>3 DEF Statement
<1>5. QED
  BY <1>4 DEF st
-----------------------------------------------------------------------------
(***************************************************************************)
(* The programs, part by part.                                             *)
(***************************************************************************)
Orderly(q, s) == s \in Seq(Statement(q)) /\ ReplaceFirst(s)
Plain(q, s) == Orderly(q, s) /\ NoLearn(s) /\ NoUnlearn(s)

Stores(s, rule) == \E st \in Elems(s) : IsStore(st) /\ st.rule = rule
Classes(s) == \E st \in Elems(s) : IsClass(st)
Unlearns(s) == ~NoUnlearn(s)
Learns(s) == ~NoLearn(s)

LEMMA NoStatement == ASSUME NEW q PROVE Plain(q, <<>>) /\ LearnsFirst(<<>>)
  BY EmptyFacts DEF Plain, Orderly, NoLearn, NoUnlearn

LEMMA OneStatement ==
    ASSUME NEW q, NEW st \in Statement(q), ~IsForget(st)
    PROVE  /\ Orderly(q, <<st>>) /\ LearnsFirst(<<st>>) /\ Elems(<<st>>) = {st}
           /\ ~IsLearn(st) /\ ~IsUnlearn(st) => Plain(q, <<st>>)
<1>1. /\ <<st>> \in Seq(Statement(q)) /\ Elems(<<st>>) = {st}
      /\ ReplaceFirst(<<st>>) /\ LearnsFirst(<<st>>)
  BY SingleFacts
<1>2. QED
  BY <1>1, Zenon DEF Plain, Orderly, NoLearn, NoUnlearn

LEMMA Joined ==
    ASSUME NEW q, NEW s, NEW t, Orderly(q, s), Orderly(q, t)
    PROVE  /\ Orderly(q, s \o t) /\ Elems(s \o t) = Elems(s) \cup Elems(t)
           /\ LearnsFirst(s) /\ NoLearn(t) => LearnsFirst(s \o t)
           /\ NoUnlearn(s) /\ LearnsFirst(t) => LearnsFirst(s \o t)
           /\ Plain(q, s) /\ Plain(q, t) => Plain(q, s \o t)
           /\ Learns(s) \/ Learns(t) => Learns(s \o t)
           /\ Unlearns(s) \/ Unlearns(t) => Unlearns(s \o t)
           /\ Classes(s) \/ Classes(t) => Classes(s \o t)
           /\ \A rule : Stores(s, rule) \/ Stores(t, rule) => Stores(s \o t, rule)
<1> DEFINE u == s \o t
<1>1. /\ u \in Seq(Statement(q)) /\ Elems(u) = Elems(s) \cup Elems(t)
      /\ ReplaceFirst(u)
      /\ LearnsFirst(s) /\ NoLearn(t) => LearnsFirst(u)
      /\ NoUnlearn(s) /\ LearnsFirst(t) => LearnsFirst(u)
  BY ConcatFacts, Zenon DEF Orderly
<1> HIDE DEF u
<1>2. /\ NoLearn(s) /\ NoLearn(t) => NoLearn(u)
      /\ NoUnlearn(s) /\ NoUnlearn(t) => NoUnlearn(u)
      /\ Learns(s) \/ Learns(t) => Learns(u)
      /\ Unlearns(s) \/ Unlearns(t) => Unlearns(u)
      /\ Classes(s) \/ Classes(t) => Classes(u)
      /\ \A rule : Stores(s, rule) \/ Stores(t, rule) => Stores(u, rule)
  BY <1>1 DEF NoLearn, NoUnlearn, Learns, Unlearns, Classes, Stores
<1>3. /\ Orderly(q, u)
      /\ Plain(q, s) /\ Plain(q, t) => Plain(q, u)
  BY <1>1, <1>2 DEF Plain, Orderly
<1>4. QED
  BY <1>1, <1>2, <1>3, Zenon DEF u

\* The rule of a request is stored, after the old one is removed.
LEMMA RulePart ==
    ASSUME NEW q, Shape(q)
    PROVE  /\ Plain(q, StoresRule(q)) /\ LearnsFirst(StoresRule(q))
           /\ RuleOf(q) # NoRule => Stores(StoresRule(q), RuleOf(q))
<1> DEFINE f == [op |-> "forget", rule |-> RuleOf(q)]
           g == [op |-> "store", rule |-> RuleOf(q)]
<1>1. CASE RuleOf(q) = NoRule
  BY <1>1, NoStatement, Zenon DEF StoresRule
<1>2. CASE RuleOf(q) # NoRule
  <2>1. f \in Statement(q) /\ g \in Statement(q)
    BY <1>2, RuleStatements
  <2>2. /\ f.op = "forget" /\ g.op = "store" /\ g.rule = RuleOf(q)
    OBVIOUS
  <2>3. StoresRule(q) \in {<<g>>, <<f, g>>}
    BY <1>2, Zenon DEF StoresRule, Replace
  <2> HIDE DEF f, g
  <2>4. /\ IsForget(f) /\ ~IsStore(f) /\ ~IsLearn(f) /\ ~IsUnlearn(f)
        /\ IsStore(g) /\ ~IsForget(g) /\ ~IsLearn(g) /\ ~IsUnlearn(g)
    BY <2>2 DEF IsForget, IsStore, IsLearn, IsUnlearn
  <2>5. CASE StoresRule(q) = <<g>>
    <3>1. Plain(q, <<g>>) /\ LearnsFirst(<<g>>) /\ Elems(<<g>>) = {g}
      BY <2>1, <2>4, OneStatement, Zenon
    <3>2. Stores(<<g>>, RuleOf(q))
      BY <2>2, <2>4, <3>1, Zenon DEF Stores
    <3>3. QED
      BY <2>5, <3>1, <3>2, Zenon
  <2>6. CASE StoresRule(q) = <<f, g>>
    <3>1. /\ <<f, g>> \in Seq(Statement(q)) /\ Elems(<<f, g>>) = {f, g}
          /\ ReplaceFirst(<<f, g>>) /\ LearnsFirst(<<f, g>>)
      BY <2>1, <2>4, ReplaceFacts, Zenon
    <3>2. Stores(<<f, g>>, RuleOf(q))
      BY <2>2, <2>4, <3>1, Zenon DEF Stores
    <3>3. Plain(q, <<f, g>>)
      BY <2>4, <3>1, Zenon DEF Plain, Orderly, NoLearn, NoUnlearn
    <3>4. QED
      BY <2>6, <3>1, <3>2, <3>3, Zenon
  <2>7. QED
    BY <2>3, <2>5, <2>6, Zenon
<1>3. QED
  BY <1>1, <1>2

\* Single statements.
LEMMA UpsertPart ==
    ASSUME NEW q, Judges(q), NEW from, NEW fp, <<from, fp>> \in LearnKeys, NEW v \in Given,
           NEW soft \in BOOLEAN,
           Clears(q) => <<from, fp>> = OwnKey(q) /\ v = "not_spam"
    PROVE  LET s == Upsert(from, fp, v, soft)
           IN  Orderly(q, s) /\ NoUnlearn(s) /\ LearnsFirst(s) /\ Learns(s)
<1> DEFINE key == <<from, fp>>
           st == [op |-> "learn", key |-> key, verdict |-> v, soft |-> soft]
<1>1. st \in Statement(q)
  BY LearnStatement, Zenon
<1>2. st.op = "learn"
  OBVIOUS
<1>3. Upsert(from, fp, v, soft) = <<st>>
  BY Zenon DEF Upsert
<1> HIDE DEF st
<1>4. ~IsForget(st) /\ IsLearn(st) /\ ~IsUnlearn(st)
  BY <1>2 DEF IsForget, IsLearn, IsUnlearn
<1>5. Orderly(q, <<st>>) /\ LearnsFirst(<<st>>) /\ Elems(<<st>>) = {st}
  BY <1>1, <1>4, OneStatement, Zenon
<1>6. NoUnlearn(<<st>>) /\ Learns(<<st>>)
  BY <1>4, <1>5, Zenon DEF NoUnlearn, Learns, NoLearn
<1>7. QED
  BY <1>3, <1>5, <1>6, Zenon

LEMMA UnlearnPart ==
    ASSUME NEW q, Judges(q), q.msg \in Messages, NEW soft \in BOOLEAN
    PROVE  LET s == <<[op |-> "unlearn", from |-> Mail[q.msg].from, soft |-> soft]>>
           IN  Orderly(q, s) /\ NoLearn(s) /\ LearnsFirst(s) /\ Unlearns(s)
<1> DEFINE st == [op |-> "unlearn", from |-> Mail[q.msg].from, soft |-> soft]
<1>1. st \in Statement(q)
  BY UnlearnStatement, Zenon
<1>2. st.op = "unlearn"
  OBVIOUS
<1> HIDE DEF st
<1>4. ~IsForget(st) /\ ~IsLearn(st) /\ IsUnlearn(st)
  BY <1>2 DEF IsForget, IsLearn, IsUnlearn
<1>5. Orderly(q, <<st>>) /\ LearnsFirst(<<st>>) /\ Elems(<<st>>) = {st}
  BY <1>1, <1>4, OneStatement, Zenon
<1>6. NoLearn(<<st>>) /\ Unlearns(<<st>>)
  BY <1>4, <1>5, Zenon DEF NoUnlearn, Unlearns, NoLearn
<1>7. QED
  BY <1>5, <1>6, Zenon DEF st

LEMMA JudgePart ==
    ASSUME NEW q, Shape(q), q.kind \in MailboxKinds, NEW v \in Given \cup {"unreviewed"},
           NEW o \in {"judge", "correlate"}
    PROVE  LET s == <<[op |-> o, msg |-> q.msg, verdict |-> v]>>
           IN  Plain(q, s) /\ LearnsFirst(s)
<1> DEFINE st == [op |-> o, msg |-> q.msg, verdict |-> v]
<1>1. st \in Statement(q)
  BY CopyStatements
<1>2. st.op = o
  OBVIOUS
<1> HIDE DEF st
<1>3. ~IsForget(st) /\ ~IsLearn(st) /\ ~IsUnlearn(st)
  BY <1>2 DEF IsForget, IsLearn, IsUnlearn
<1>4. Plain(q, <<st>>) /\ LearnsFirst(<<st>>) /\ Elems(<<st>>) = {st}
  BY <1>1, <1>3, OneStatement, Zenon
<1>5. QED
  BY <1>4, Zenon DEF st

LEMMA TrashPart ==
    ASSUME NEW q, Shape(q), q.kind \in MailboxKinds
    PROVE  LET s == <<[op |-> "trash", msg |-> q.msg]>>
           IN  Plain(q, s) /\ LearnsFirst(s)
<1> DEFINE st == [op |-> "trash", msg |-> q.msg]
<1>1. st \in Statement(q)
  BY CopyStatements
<1>2. st.op = "trash"
  OBVIOUS
<1> HIDE DEF st
<1>3. ~IsForget(st) /\ ~IsLearn(st) /\ ~IsUnlearn(st)
  BY <1>2 DEF IsForget, IsLearn, IsUnlearn
<1>4. Plain(q, <<st>>) /\ LearnsFirst(<<st>>) /\ Elems(<<st>>) = {st}
  BY <1>1, <1>3, OneStatement, Zenon
<1>5. QED
  BY <1>4, Zenon DEF st

LEMMA UndoPart ==
    ASSUME NEW q, Shape(q), q.kind = "undo"
    PROVE  LET s == <<[op |-> "undo", rule |-> q.rule]>>
           IN  Plain(q, s) /\ LearnsFirst(s)
<1> DEFINE st == [op |-> "undo", rule |-> q.rule]
<1>1. st \in Statement(q)
  BY UndoStatement
<1>2. st.op = "undo"
  OBVIOUS
<1> HIDE DEF st
<1>3. ~IsForget(st) /\ ~IsLearn(st) /\ ~IsUnlearn(st)
  BY <1>2 DEF IsForget, IsLearn, IsUnlearn
<1>4. Plain(q, <<st>>) /\ LearnsFirst(<<st>>) /\ Elems(<<st>>) = {st}
  BY <1>1, <1>3, OneStatement, Zenon
<1>5. QED
  BY <1>4, Zenon DEF st

LEMMA EntryPart ==
    ASSUME NEW q, Shape(q), q.kind \in OnMail, NEW b \in BOOLEAN,
           NEW o \in {"release", "discard"}
    PROVE  LET s == <<[op |-> o, msg |-> q.msg, loaded |-> b]>>
           IN  Plain(q, s) /\ LearnsFirst(s)
<1> DEFINE st == [op |-> o, msg |-> q.msg, loaded |-> b]
<1>1. st \in Statement(q)
  BY EntryStatements
<1>2. st.op = o
  OBVIOUS
<1> HIDE DEF st
<1>3. ~IsForget(st) /\ ~IsLearn(st) /\ ~IsUnlearn(st)
  BY <1>2 DEF IsForget, IsLearn, IsUnlearn
<1>4. Plain(q, <<st>>) /\ LearnsFirst(<<st>>) /\ Elems(<<st>>) = {st}
  BY <1>1, <1>3, OneStatement, Zenon
<1>5. QED
  BY <1>4, Zenon DEF st

LEMMA ClassPart ==
    ASSUME NEW q, Shape(q), q.kind \in HeldKinds, NEW v \in Given
    PROVE  LET s == <<[op |-> "class", msg |-> q.msg, verdict |-> v]>>
           IN  Plain(q, s) /\ LearnsFirst(s) /\ Classes(s)
<1> DEFINE st == [op |-> "class", msg |-> q.msg, verdict |-> v]
<1>1. st \in Statement(q)
  BY EntryStatements DEF OnMail
<1>2. st.op = "class"
  OBVIOUS
<1> HIDE DEF st
<1>3. ~IsForget(st) /\ ~IsLearn(st) /\ ~IsUnlearn(st)
  BY <1>2 DEF IsForget, IsLearn, IsUnlearn
<1>4. Plain(q, <<st>>) /\ LearnsFirst(<<st>>) /\ Elems(<<st>>) = {st}
  BY <1>1, <1>3, OneStatement, Zenon
<1>5. Classes(<<st>>)
  BY <1>2, <1>4 DEF Classes, IsClass
<1>6. QED
  BY <1>4, <1>5, Zenon DEF st

\* What is learned of a message: of its subject first.
LEMMA LearnPart ==
    ASSUME NEW q, q.msg \in Messages, NEW v \in Given \cup {"unreviewed"},
           v # "unreviewed" => Judges(q), Clears(q) => v = "not_spam"
    PROVE  LET s == Learn(q.msg, v)
           IN  /\ Orderly(q, s)
               /\ Clears(q) => LearnsFirst(s) /\ Learns(s) /\ Unlearns(s)
<1> DEFINE from == Mail[q.msg].from
           fp == Mail[q.msg].subject
           exact == Upsert(from, fp, v, TRUE)
           any == Upsert(from, NoWords, v, TRUE)
           domain == Upsert(All, NoWords, v, TRUE)
           un == <<[op |-> "unlearn", from |-> from, soft |-> TRUE]>>
<1>1. <<from, fp>> \in LearnKeys /\ <<from, NoWords>> \in LearnKeys /\ <<All, NoWords>> \in LearnKeys
  BY DEF LearnKeys, Senders, Subjects
<1> DEFINE all == exact \o any \o domain
           both == exact \o un
           nothing == <<>>
<1>2. Learn(q.msg, v) = CASE v = "unreviewed" -> nothing
                          [] v = "not_spam" -> both
                          [] v \in Threats /\ fp # NoWords -> all
                          [] OTHER -> exact
  BY Zenon DEF Learn
<1> HIDE DEF all, both, nothing
<1>3. /\ v = "unreviewed" => Learn(q.msg, v) = nothing
      /\ v = "not_spam" => Learn(q.msg, v) = both
      /\ v \in Given \ {"not_spam"} => Learn(q.msg, v) \in {exact, all}
  <2> HIDE DEF exact
  <2>1. QED
    BY <1>2 DEF Given, Threats
<1>4. CASE v = "unreviewed"
  <2>1. ~Clears(q)
    BY <1>4
  <2>2. Orderly(q, nothing)
    BY NoStatement, Zenon DEF Plain, nothing
  <2>3. QED
    BY <1>3, <1>4, <2>1, <2>2, Zenon
<1>5. CASE v = "not_spam"
  <2>1. Judges(q) /\ v \in Given
    BY <1>5 DEF Given
  <2>2. Orderly(q, exact) /\ NoUnlearn(exact) /\ LearnsFirst(exact) /\ Learns(exact)
    BY <1>1, <1>5, <2>1, UpsertPart DEF OwnKey
  <2>3. Orderly(q, un) /\ NoLearn(un) /\ LearnsFirst(un) /\ Unlearns(un)
    BY <2>1, UnlearnPart
  <2> HIDE DEF exact, un
  <2>4. Orderly(q, both) /\ LearnsFirst(both) /\ Learns(both) /\ Unlearns(both)
    BY <2>2, <2>3, Joined, Zenon DEF both
  <2>5. QED
    BY <1>3, <1>5, <2>4, Zenon
<1>6. CASE v \in Given \ {"not_spam"}
  <2>1. Judges(q) /\ ~Clears(q) /\ v \in Given
    BY <1>6 DEF Given, Threats
  <2>2. Orderly(q, exact) /\ Orderly(q, any) /\ Orderly(q, domain)
    BY <1>1, <2>1, UpsertPart
  <2> HIDE DEF exact, any, domain
  <2>3. Orderly(q, exact \o any)
    BY <2>2, Joined, Zenon
  <2>4. Orderly(q, all)
    BY <2>2, <2>3, Joined, Zenon DEF all
  <2>5. Learn(q.msg, v) = exact \/ Learn(q.msg, v) = all
    BY <1>3, <1>6, Zenon
  <2>6. QED
    BY <2>1, <2>2, <2>4, <2>5, Zenon
<1>7. QED
  BY <1>4, <1>5, <1>6 DEF Given

LEMMA LearnBlockedPart ==
    ASSUME NEW q, q.msg \in Messages, NEW v \in Given, Judges(q), ~Clears(q)
    PROVE  Orderly(q, LearnBlocked(q.msg, v))
<1> DEFINE from == Mail[q.msg].from
           fp == Mail[q.msg].subject
           exact == Upsert(from, fp, BlockedAs(v), TRUE)
           any == Upsert(from, NoWords, BlockedAs(v), TRUE)
           domain == Upsert(All, NoWords, BlockedAs(v), TRUE)
           mid == IF fp = NoWords THEN <<>> ELSE any
<1>1. <<from, fp>> \in LearnKeys /\ <<from, NoWords>> \in LearnKeys /\ <<All, NoWords>> \in LearnKeys
  BY DEF LearnKeys, Senders, Subjects
<1>2. BlockedAs(v) \in Given
  BY DEF BlockedAs, Given, Threats
<1>3. Orderly(q, exact) /\ Orderly(q, any) /\ Orderly(q, domain)
  BY <1>1, <1>2, UpsertPart
<1>4. LearnBlocked(q.msg, v) = exact \o mid \o domain
  BY Zenon DEF LearnBlocked
<1> HIDE DEF exact, any, domain
<1>5. Orderly(q, mid)
  BY <1>3, NoStatement, Zenon DEF Plain
<1> HIDE DEF mid
<1>6. Orderly(q, exact \o mid)
  BY <1>3, <1>5, Joined, Zenon
<1>7. Orderly(q, exact \o mid \o domain)
  BY <1>3, <1>6, Joined, Zenon
<1>8. QED
  BY <1>4, <1>7, Zenon

LEMMA LearnWantedPart ==
    ASSUME NEW q, Shape(q), q.kind \in {"held allow", "held not spam"}
    PROVE  LET s == LearnWanted(q.msg)
           IN  /\ Orderly(q, s) /\ LearnsFirst(s) /\ Unlearns(s)
               /\ Mail[q.msg].subject # NoWords => Learns(s)
<1> DEFINE from == Mail[q.msg].from
           fp == Mail[q.msg].subject
           exact == Upsert(from, fp, "not_spam", FALSE)
           first == IF fp = NoWords THEN <<>> ELSE exact
           un == <<[op |-> "unlearn", from |-> from, soft |-> FALSE]>>
           cl == <<[op |-> "class", msg |-> q.msg, verdict |-> "not_spam"]>>
<1>1. q.msg \in Messages /\ q.kind \in HeldKinds /\ Clears(q) /\ Judges(q)
  BY DEF Shape, OnMail, HeldKinds, Clears, Judges
<1>2. <<from, fp>> \in LearnKeys
  BY <1>1 DEF LearnKeys, Senders, Subjects
<1>3. Orderly(q, exact) /\ NoUnlearn(exact) /\ LearnsFirst(exact) /\ Learns(exact)
  <2>1. "not_spam" \in Given
    BY DEF Given
  <2>2. QED
    BY <1>1, <1>2, <2>1, UpsertPart DEF OwnKey
<1>4. Orderly(q, un) /\ NoLearn(un) /\ LearnsFirst(un) /\ Unlearns(un)
  BY <1>1, UnlearnPart
<1>5. Plain(q, cl)
  BY <1>1, ClassPart DEF Given
<1>6. LearnWanted(q.msg) = first \o un \o cl
  BY Zenon DEF LearnWanted, Classify
<1> HIDE DEF exact, un, cl
<1>7. /\ Orderly(q, first) /\ NoUnlearn(first) /\ LearnsFirst(first)
      /\ fp # NoWords => Learns(first)
  BY <1>3, NoStatement, Zenon DEF Plain
<1> HIDE DEF first
<1>8. /\ Orderly(q, first \o un) /\ LearnsFirst(first \o un) /\ Unlearns(first \o un)
      /\ fp # NoWords => Learns(first \o un)
  BY <1>4, <1>7, Joined, Zenon
<1>9. /\ Orderly(q, first \o un \o cl) /\ LearnsFirst(first \o un \o cl)
      /\ Unlearns(first \o un \o cl)
      /\ fp # NoWords => Learns(first \o un \o cl)
  BY <1>5, <1>8, Joined, Zenon DEF Plain
<1>10. QED
  BY <1>6, <1>9, Zenon

\* A verdict over a copy that is not waiting for an approval.
LEMMA SetVerdictPart ==
    ASSUME NEW q, Shape(q), q.kind \in MailboxKinds, ~Mail[q.msg].pending,
           NEW v \in Given \cup {"unreviewed"},
           v # "unreviewed" => Judges(q), Clears(q) => v = "not_spam"
    PROVE  LET s == SetVerdict(q.msg, v)
           IN  Orderly(q, s) /\ (Clears(q) => LearnsFirst(s) /\ Learns(s) /\ Unlearns(s))
<1> DEFINE judge == <<[op |-> "judge", msg |-> q.msg, verdict |-> v]>>
           spread == <<[op |-> "correlate", msg |-> q.msg, verdict |-> v]>>
           corr == IF v \in {"phishing", "malware"} THEN spread ELSE <<>>
           learn == Learn(q.msg, v)
           decide == CASE Mail[q.msg].pending /\ v = "not_spam" ->
                            Replace(Rule(RecipientKey(Mail[q.msg].from), "allow"))
                       [] Mail[q.msg].pending /\ v \in Threats ->
                            Replace(Rule(RecipientKey(Mail[q.msg].from), "block"))
                            \o Discard(q.msg, FALSE)
                       [] OTHER -> <<>>
           let_go == <<[op |-> "release", msg |-> q.msg, loaded |-> FALSE]>>
           free == IF v = "not_spam" THEN let_go ELSE <<>>
<1>1. q.msg \in Messages /\ q.kind \in OnMail
  BY DEF Shape, OnMail
<1>2. SetVerdict(q.msg, v) = judge \o corr \o learn \o decide \o free
  BY Zenon DEF SetVerdict, Release
<1>3. Plain(q, judge) /\ Plain(q, spread)
  BY JudgePart
<1>4. Plain(q, let_go)
  BY <1>1, EntryPart
<1>5. decide = <<>>
  OBVIOUS
<1>6. Orderly(q, learn) /\ (Clears(q) => LearnsFirst(learn) /\ Learns(learn) /\ Unlearns(learn))
  BY <1>1, LearnPart
<1>7. LearnsFirst(learn) \/ ~Clears(q)
  BY <1>6
<1> HIDE DEF judge, spread, learn, decide, let_go
<1>8. Plain(q, corr) /\ Plain(q, free) /\ Plain(q, decide)
  BY <1>3, <1>4, <1>5, NoStatement, Zenon
<1> HIDE DEF corr, free
<1>9. Plain(q, judge \o corr)
  BY <1>3, <1>8, Joined, Zenon DEF Plain
<1> DEFINE a == judge \o corr
           b == a \o learn
           c == b \o decide
           d == c \o free
<1> HIDE DEF a
<1>10. Orderly(q, b) /\ (Clears(q) => LearnsFirst(b) /\ Learns(b) /\ Unlearns(b))
  BY <1>6, <1>9, Joined, Zenon DEF Plain, a
<1> HIDE DEF b
<1>11. Orderly(q, c) /\ (Clears(q) => LearnsFirst(c) /\ Learns(c) /\ Unlearns(c))
  BY <1>8, <1>10, Joined, Zenon DEF Plain
<1> HIDE DEF c
<1>12. Orderly(q, d) /\ (Clears(q) => LearnsFirst(d) /\ Learns(d) /\ Unlearns(d))
  BY <1>8, <1>11, Joined, Zenon DEF Plain
<1>13. SetVerdict(q.msg, v) = d
  BY <1>2, Zenon DEF a, b, c
<1> HIDE DEF d
<1>14. QED
  BY <1>12, <1>13, Zenon

\* What is known of the program of a request.
Knows(q, s) ==
    /\ Orderly(q, s)
    /\ RuleOf(q) # NoRule => Stores(s, RuleOf(q))
    /\ Clears(q) => /\ LearnsFirst(s) /\ Unlearns(s)
                    /\ Mail[q.msg].subject # NoWords => Learns(s)
    /\ q.kind = "held block" => Classes(s)

Ruleless(q) == q.kind \in {"mailbox verdict", "mailbox delete", "held verdict", "held delete"}

LEMMA NoRuleFacts ==
    ASSUME NEW q, Ruleless(q)
    PROVE  RuleOf(q) = NoRule
<1>1. CASE q.kind \in {"mailbox verdict", "mailbox delete"}
  <2>1. RuleOf(q) = MailboxRule(q)
    BY <1>1 DEF RuleOf, MailboxKinds, HeldKinds, LogKinds
  <2>2. QED
    BY <1>1, <2>1 DEF MailboxRule
<1>2. CASE q.kind \in {"held verdict", "held delete"}
  <2>1. RuleOf(q) = HeldRule(q)
    BY <1>2 DEF RuleOf, MailboxKinds, HeldKinds, LogKinds
  <2>2. QED
    BY <1>2, <2>1 DEF HeldRule
<1>3. QED
  BY <1>1, <1>2 DEF Ruleless

LEMMA MailboxPart ==
    ASSUME NEW q, Shape(q), q.kind \in MailboxKinds, ~Mail[q.msg].pending
    PROVE  Knows(q, MailboxProgram(q))
<1>1. /\ Plain(q, StoresRule(q)) /\ LearnsFirst(StoresRule(q))
      /\ RuleOf(q) # NoRule => Stores(StoresRule(q), RuleOf(q))
  BY RulePart
<1>2. q.kind # "held block"
  BY DEF MailboxKinds
<1>3. CASE q.kind = "mailbox verdict"
  <2>1. RuleOf(q) = NoRule
    <3>1. Ruleless(q)
      BY <1>3 DEF Ruleless
    <3>2. QED
      BY <3>1, NoRuleFacts
  <2>2. q.verdict \in Given \cup {"unreviewed"}
    BY <1>3 DEF Shape
  <2>3. (q.verdict # "unreviewed" => Judges(q)) /\ (Clears(q) => q.verdict = "not_spam")
    BY <1>3 DEF Judges, Clears
  <2>4. MailboxProgram(q) = SetVerdict(q.msg, q.verdict)
    BY <1>3 DEF MailboxProgram, JudgesCopy
  <2>5. QED
    BY <1>2, <2>1, <2>2, <2>3, <2>4, SetVerdictPart, Zenon DEF Knows
<1>4. ASSUME NEW v \in {"spam", "not_spam"}, Judges(q), Clears(q) => v = "not_spam",
             MailboxProgram(q) = StoresRule(q) \o SetVerdict(q.msg, v)
      PROVE  Knows(q, MailboxProgram(q))
  <2> DEFINE s == StoresRule(q)
             t == SetVerdict(q.msg, v)
  <2>1. Orderly(q, t) /\ (Clears(q) => LearnsFirst(t) /\ Learns(t) /\ Unlearns(t))
    BY <1>4, SetVerdictPart DEF Given, Threats
  <2>2. Plain(q, s) /\ (RuleOf(q) # NoRule => Stores(s, RuleOf(q)))
    BY <1>1
  <2> HIDE DEF s, t
  <2>3. Knows(q, s \o t)
    BY <1>2, <2>1, <2>2, Joined, Zenon DEF Knows, Plain
  <2>4. QED
    BY <1>4, <2>3, Zenon DEF s, t
<1>5. CASE q.kind = "mailbox block"
  <2>1. MailboxProgram(q) = StoresRule(q) \o SetVerdict(q.msg, "spam")
    BY <1>5 DEF MailboxProgram
  <2>2. Judges(q) /\ ~Clears(q)
    BY <1>5 DEF Judges, Clears
  <2>3. QED
    BY <1>4, <2>1, <2>2
<1>6. CASE q.kind = "mailbox allow"
  <2>1. MailboxProgram(q) = StoresRule(q) \o SetVerdict(q.msg, "not_spam")
    BY <1>6 DEF MailboxProgram
  <2>2. Judges(q)
    BY <1>6 DEF Judges, Clears
  <2>3. QED
    BY <1>4, <2>1, <2>2
<1>7. CASE q.kind = "mailbox delete"
  <2>0. RuleOf(q) = NoRule
    <3>1. Ruleless(q)
      BY <1>7 DEF Ruleless
    <3>2. QED
      BY <3>1, NoRuleFacts
  <2>1. RuleOf(q) = NoRule /\ ~Clears(q)
    BY <1>7, <2>0 DEF Clears
  <2>2. MailboxProgram(q) = <<[op |-> "trash", msg |-> q.msg]>>
    BY <1>7 DEF MailboxProgram
  <2>3. Orderly(q, <<[op |-> "trash", msg |-> q.msg]>>)
    BY TrashPart, Zenon DEF Plain
  <2>4. QED
    BY <1>2, <2>1, <2>2, <2>3, Zenon DEF Knows
<1>8. QED
  BY <1>3, <1>5, <1>6, <1>7 DEF MailboxKinds

LEMMA HeldPart ==
    ASSUME NEW q, Shape(q), q.kind \in HeldKinds, class \in [Messages -> Given]
    PROVE  Knows(q, HeldProgram(q))
<1> DEFINE rule == StoresRule(q)
           wanted == LearnWanted(q.msg)
           let_go == <<[op |-> "release", msg |-> q.msg, loaded |-> TRUE]>>
           drop == <<[op |-> "discard", msg |-> q.msg, loaded |-> TRUE]>>
<1>1. q.msg \in Messages /\ q.kind \in OnMail
  BY DEF Shape, OnMail
<1>2. Plain(q, rule) /\ (RuleOf(q) # NoRule => Stores(rule, RuleOf(q)))
  BY RulePart
<1>3. Plain(q, let_go) /\ Plain(q, drop)
  BY <1>1, EntryPart
<1>4. CASE q.kind = "held block"
  <2> DEFINE v == VerdictOf(q)
             learn == LearnBlocked(q.msg, v)
             cl == <<[op |-> "class", msg |-> q.msg, verdict |-> v]>>
  <2>1. v \in Given
    BY <1>1, <1>4 DEF VerdictOf, Shape
  <2>2. Judges(q) /\ ~Clears(q)
    BY <1>4 DEF Judges, Clears
  <2> HIDE DEF v
  <2>3. Orderly(q, learn)
    BY <1>1, <2>1, <2>2, LearnBlockedPart
  <2>4. Plain(q, cl) /\ Classes(cl)
    BY <2>1, ClassPart
  <2>5. HeldProgram(q) = rule \o learn \o cl
    BY <1>4 DEF HeldProgram, Classify, v
  <2> HIDE DEF rule, learn, cl
  <2>6. /\ Orderly(q, rule \o learn)
        /\ RuleOf(q) # NoRule => Stores(rule \o learn, RuleOf(q))
    BY <1>2, <2>3, Joined, Zenon DEF Plain
  <2>7. Knows(q, rule \o learn \o cl)
    BY <2>2, <2>4, <2>6, Joined, Zenon DEF Knows, Plain
  <2>8. QED
    BY <2>5, <2>7, Zenon
<1>5. CASE q.kind \in {"held allow", "held not spam"}
  <2> DEFINE first == IF entry[q.msg] = "held" THEN let_go ELSE <<>>
             b == first \o rule
  <2>1. q.kind # "held block"
    BY <1>5
  <2>2. /\ Orderly(q, wanted) /\ LearnsFirst(wanted) /\ Unlearns(wanted)
        /\ Mail[q.msg].subject # NoWords => Learns(wanted)
    BY <1>5, LearnWantedPart
  <2>3. q.kind = "held allow" => HeldProgram(q) = rule \o wanted
    BY Zenon DEF HeldProgram
  <2>4. q.kind = "held not spam" => HeldProgram(q) = b \o wanted
    BY <1>1 DEF HeldProgram, Release
  <2> HIDE DEF rule, wanted, let_go
  <2>5. Plain(q, first)
    BY <1>3, NoStatement, Zenon
  <2> HIDE DEF first
  <2>6. Plain(q, b) /\ (RuleOf(q) # NoRule => Stores(b, RuleOf(q)))
    BY <1>2, <2>5, Joined, Zenon DEF Plain
  <2> HIDE DEF b
  <2>7. Knows(q, rule \o wanted) /\ Knows(q, b \o wanted)
    BY <1>2, <2>1, <2>2, <2>6, Joined, Zenon DEF Knows, Plain
  <2>8. QED
    BY <1>5, <2>3, <2>4, <2>7, Zenon
<1>6. CASE q.kind = "held verdict"
  <2>0. RuleOf(q) = NoRule
    <3>1. Ruleless(q)
      BY <1>6 DEF Ruleless
    <3>2. QED
      BY <3>1, NoRuleFacts
  <2>1. q.verdict \in Given /\ RuleOf(q) = NoRule /\ ~Clears(q)
    BY <1>6, <2>0 DEF Shape, Clears
  <2> DEFINE cl == <<[op |-> "class", msg |-> q.msg, verdict |-> q.verdict]>>
  <2>2. Plain(q, cl)
    BY <2>1, ClassPart
  <2>3. HeldProgram(q) = cl /\ q.kind # "held block"
    BY <1>6 DEF HeldProgram, JudgesEntry, Classify
  <2> HIDE DEF cl
  <2>4. QED
    BY <2>1, <2>2, <2>3, Zenon DEF Knows, Plain
<1>7. CASE q.kind = "held release"
  <2>1. HeldProgram(q) = rule \o let_go /\ q.kind # "held block" /\ ~Clears(q)
    BY <1>7 DEF HeldProgram, Release, Clears
  <2> HIDE DEF rule, let_go
  <2>2. Knows(q, rule \o let_go)
    BY <1>2, <1>3, <2>1, Joined, Zenon DEF Knows, Plain
  <2>3. QED
    BY <2>1, <2>2, Zenon
<1>8. CASE q.kind = "held delete"
  <2>0. RuleOf(q) = NoRule
    <3>1. Ruleless(q)
      BY <1>8 DEF Ruleless
    <3>2. QED
      BY <3>1, NoRuleFacts
  <2>1. HeldProgram(q) = drop /\ q.kind # "held block" /\ ~Clears(q) /\ RuleOf(q) = NoRule
    BY <1>8, <2>0 DEF HeldProgram, Discard, Clears
  <2> HIDE DEF drop
  <2>2. QED
    BY <1>3, <2>1, Zenon DEF Knows, Plain
<1>9. QED
  BY <1>4, <1>5, <1>6, <1>7, <1>8 DEF HeldKinds

\* The program a request is accepted with.
LEMMA ProgramPart ==
    ASSUME NEW q, Shape(q), q.kind \in MailboxKinds => ~Mail[q.msg].pending,
           class \in [Messages -> Given]
    PROVE  Knows(q, Program(q))
<1> DEFINE rule == StoresRule(q)
           let_go == <<[op |-> "release", msg |-> q.msg, loaded |-> FALSE]>>
           drop == <<[op |-> "discard", msg |-> q.msg, loaded |-> FALSE]>>
<1>1. Plain(q, rule) /\ (RuleOf(q) # NoRule => Stores(rule, RuleOf(q)))
  BY RulePart
<1>2. CASE q.kind \in MailboxKinds
  <2>1. Program(q) = MailboxProgram(q)
    BY <1>2 DEF Program, MailboxKinds, HeldKinds, LogKinds
  <2>2. QED
    BY <1>2, <2>1, MailboxPart, Zenon
<1>3. CASE q.kind \in HeldKinds
  <2>1. Program(q) = HeldProgram(q)
    BY <1>3 DEF Program, MailboxKinds, HeldKinds, LogKinds
  <2>2. QED
    BY <1>3, <2>1, HeldPart, Zenon
<1>4. CASE q.kind \in LogKinds
  <2>1. Program(q) = LogProgram(q) /\ ~Clears(q) /\ q.kind # "held block"
    BY <1>4 DEF Program, MailboxKinds, HeldKinds, LogKinds, Clears
  <2>2. LogProgram(q) = rule \o let_go \/ LogProgram(q) = rule \o drop
    BY DEF LogProgram, Release, Discard
  <2>3. Plain(q, let_go) /\ Plain(q, drop)
    BY <1>4, EntryPart DEF OnMail
  <2> HIDE DEF rule, let_go, drop
  <2>4. Knows(q, rule \o let_go) /\ Knows(q, rule \o drop)
    BY <1>1, <2>1, <2>3, Joined, Zenon DEF Knows, Plain
  <2>5. QED
    BY <2>1, <2>2, <2>4, Zenon
<1>5. CASE q.kind = "list"
  <2>1. Program(q) = rule /\ ~Clears(q) /\ q.kind # "held block"
    BY <1>5 DEF Program, MailboxKinds, HeldKinds, LogKinds, Clears
  <2> HIDE DEF rule
  <2>2. QED
    BY <1>1, <2>1, Zenon DEF Knows, Plain
<1>6. CASE q.kind = "undo"
  <2> DEFINE undo == <<[op |-> "undo", rule |-> q.rule]>>
  <2>1. Program(q) = undo /\ ~Clears(q) /\ q.kind # "held block"
    BY <1>6 DEF Program, MailboxKinds, HeldKinds, LogKinds, Clears
  <2>2. Plain(q, undo) /\ RuleOf(q) = NoRule
    BY <1>6, UndoPart, RuleIsRule
  <2> HIDE DEF undo
  <2>3. QED
    BY <2>1, <2>2, Zenon DEF Knows, Plain
<1>7. QED
  BY <1>2, <1>3, <1>4, <1>5, <1>6 DEF Shape, OnMail
-----------------------------------------------------------------------------
(***************************************************************************)
(* The invariants.                                                         *)
(***************************************************************************)
Tables ==
    /\ rules \subseteq Rules
    /\ learned \in [LearnKeys -> [verdict : Given \cup {"none"}, count : 0..2]]
    /\ row \in [Messages -> Given \cup {"unreviewed", "gone"}]
    /\ entry \in [Messages -> {"none", "held", "released", "deleted"}]
    /\ class \in [Messages -> Given]
    /\ protected \in BOOLEAN

\* Mail that is held has no copy in the mailbox.
HeldIsGone == \A m \in Messages : Mail[m].held => row[m] = "gone"

\* A request runs statements that fit it.
Programs ==
    /\ DOMAIN req = Request /\ DOMAIN todo = Request
    /\ \A r \in Request :
         /\ r \in Started => Shape(req[r]) /\ todo[r] \in Seq(Statement(req[r]))
         /\ r \notin Started => todo[r] = <<>>

\* A request that has not been answered is a rival of every other one.
Rivalry ==
    /\ done \in [Request -> BOOLEAN] /\ hurt \subseteq Started
    /\ rivals \in [Request -> SUBSET Request]
    /\ \A r \in Request :
         /\ rivals[r] \subseteq Started
         /\ done[r] => r \in Started /\ todo[r] = <<>>
         /\ \A k \in Started : r \in Started /\ k # r /\ k \notin rivals[r] => done[k]

\* Only a failure spoils the order of what is left to do.
Order ==
    \A r \in Started \ hurt :
        /\ ReplaceFirst(todo[r])
        /\ Clears(req[r]) => LearnsFirst(todo[r])

IInv == Tables /\ HeldIsGone /\ Programs /\ Rivalry /\ Order

\* A request with a rule, other than those that take one back.
Decides(r) == r \in Started /\ req[r].kind # "undo" /\ RuleOf(req[r]) # NoRule

\* A block is still to be stored, or stands, unless a rival may have lifted it.
Blocked(r) ==
    LET rule == RuleOf(req[r])
    IN  \/ r \in hurt
        \/ Stores(todo[r], rule)
        \/ rule \in rules
        \/ Withdrawn(rule)
        \/ \E k \in rivals[r] : OnKey(rule.key, req[k])

BlockInv ==
    \A r \in Request : Decides(r) /\ RuleOf(req[r]).action = "block" => Blocked(r)

Has(key) == \E u \in rules : u.key = key

\* A rival that is between removing the old rule and storing the new one.
Replaces(k, key) ==
    /\ RuleOf(req[k]) # NoRule /\ RuleOf(req[k]).key = key
    /\ k \in hurt \/ (todo[k] # <<>> /\ IsStore(Head(todo[k])))

Surviving(r) ==
    LET key == RuleOf(req[r]).key
    IN  \/ r \in hurt
        \/ Stores(todo[r], RuleOf(req[r]))
        \/ Has(key)
        \/ protected /\ key.pattern = All
        \/ \E k \in rivals[r] : req[k].kind = "undo" \/ Replaces(k, key)

SurviveInv == \A r \in Request : Decides(r) => Surviving(r)

\* The sender is still to be cleared, or cleared and not learned of again; the
\* subject is still to be learned as wanted, or learned.
ClearedSoFar(r) ==
    LET from == Mail[req[r].msg].from
        fp == Mail[req[r].msg].subject
    IN  /\ \/ Unlearns(todo[r])
           \/ NoLearn(todo[r]) /\ learned[<<from, NoWords>>] = Unlearned
                               /\ learned[<<All, NoWords>>] = Unlearned
        /\ fp # NoWords => Learns(todo[r]) \/ learned[<<from, fp>>].verdict = "not_spam"

ClearInv ==
    \A r \in Started \ hurt :
        Clears(req[r]) /\ (\A k \in rivals[r] : ~Judges(req[k])) => ClearedSoFar(r)

\* The entry is still to be settled, or settled.
Settled(r) ==
    \/ Classes(todo[r])
    \/ entry[req[r].msg] # "held" \/ class[req[r].msg] = "not_spam"
    \/ \E k \in rivals[r] : req[k].kind \in HeldKinds /\ req[k].msg = req[r].msg

SettleInv == \A r \in Started \ hurt : req[r].kind = "held block" => Settled(r)
-----------------------------------------------------------------------------
(***************************************************************************)
(* What one statement does.                                                *)
(***************************************************************************)
LEMMA StmtFields ==
    ASSUME NEW st \in Stmt
    PROVE  /\ st.op \in {"forget", "store", "undo"} => st.rule \in Rules
           /\ st.op \in {"judge", "correlate"} =>
                st.msg \in Messages /\ st.verdict \in Given \cup {"unreviewed"}
           /\ st.op \in {"trash", "release", "discard"} => st.msg \in Messages
           /\ st.op = "class" => st.msg \in Messages /\ st.verdict \in Given
           /\ st.op = "learn" => st.key \in LearnKeys /\ st.verdict \in Given
           /\ st.op = "unlearn" => st.from \in Senders
  BY DEF Stmt

\* Rules go only with the removal of their key, or when they are taken back.
LEMMA RulesAfter ==
    ASSUME NEW st \in Stmt, Effect(st), rules \subseteq Rules
    PROVE  /\ rules' \subseteq Rules
           /\ IsStore(st) => st.rule \in rules'
           /\ \A u \in rules : u \in rules' \/ IsUndo(st) \/ (IsForget(st) /\ u.key = st.rule.key)
<1>1. CASE st.op = "forget"
  <2>1. rules' = rules \ Forgotten(st)
    BY <1>1 DEF Effect
  <2>2. QED
    BY <1>1, <2>1 DEF IsStore, IsUndo, IsForget, Forgotten
<1>2. CASE st.op = "store"
  <2>1. rules' = rules \cup {st.rule} /\ st.rule \in Rules
    BY <1>2, StmtFields DEF Effect
  <2>2. QED
    BY <1>2, <2>1 DEF IsStore, IsUndo, IsForget
<1>3. CASE st.op = "undo"
  <2>1. rules' = rules \ {st.rule}
    BY <1>3 DEF Effect
  <2>2. QED
    BY <1>3, <2>1 DEF IsStore, IsUndo, IsForget
<1>4. CASE st.op \notin {"forget", "store", "undo"}
  <2>1. rules' = rules
    BY <1>4 DEF Effect
  <2>2. QED
    BY <1>4, <2>1 DEF IsStore, IsUndo, IsForget
<1>5. QED
  BY <1>1, <1>2, <1>3, <1>4

Learned == [LearnKeys -> [verdict : Given \cup {"none"}, count : 0..2]]

LEMMA LearnedAfter ==
    ASSUME NEW st \in Stmt, Effect(st), learned \in Learned
    PROVE  /\ learned' \in Learned
           /\ ~IsLearn(st) /\ ~IsUnlearn(st) => learned' = learned
           /\ IsLearn(st) => /\ learned'[st.key].verdict = st.verdict
                             /\ \A k \in LearnKeys \ {st.key} : learned'[k] = learned[k]
           /\ IsUnlearn(st) => \A k \in LearnKeys :
                learned'[k] = IF k \in UnlearnedKeys(st) THEN Unlearned ELSE learned[k]
<1>1. CASE st.op = "learn"
  <2>1. learned' = [learned EXCEPT ![st.key] = Sampled(@, st.verdict)]
    BY <1>1 DEF Effect
  <2>2. st.key \in LearnKeys /\ st.verdict \in Given
    BY <1>1, StmtFields
  <2>3. /\ Sampled(learned[st.key], st.verdict) \in [verdict : Given \cup {"none"}, count : 0..2]
        /\ Sampled(learned[st.key], st.verdict).verdict = st.verdict
    BY <2>2 DEF Sampled, Learned
  <2> HIDE DEF Learned
  <2> DEFINE new == Sampled(learned[st.key], st.verdict)
  <2>4. learned' = [learned EXCEPT ![st.key] = new]
    BY <2>1, Zenon
  <2>5. learned' \in Learned /\ learned'[st.key] = new
        /\ \A k \in LearnKeys \ {st.key} : learned'[k] = learned[k]
    <3>1. new \in [verdict : Given \cup {"none"}, count : 0..2]
      BY <2>3
    <3> HIDE DEF new
    <3>2. QED
      BY <2>2, <2>4, <3>1 DEF Learned
  <2>6. QED
    BY <1>1, <2>3, <2>5 DEF IsLearn, IsUnlearn
<1>2. CASE st.op = "unlearn"
  <2>1. learned' = [k \in DOMAIN learned |->
                        IF k \in UnlearnedKeys(st) THEN Unlearned ELSE learned[k]]
    BY <1>2 DEF Effect
  <2>2. Unlearned \in [verdict : Given \cup {"none"}, count : 0..2]
    BY DEF Unlearned
  <2>3. DOMAIN learned = LearnKeys
    BY DEF Learned
  <2>4. QED
    BY <1>2, <2>1, <2>2, <2>3 DEF IsLearn, IsUnlearn, Learned
<1>3. CASE st.op \notin {"learn", "unlearn"}
  <2>1. learned' = learned
    BY <1>3 DEF Effect
  <2>2. QED
    BY <1>3, <2>1 DEF IsLearn, IsUnlearn
<1>4. QED
  BY <1>1, <1>2, <1>3

\* A copy changes by its own request, or when nobody has reviewed it.
LEMMA RowAfter ==
    ASSUME NEW st \in Stmt, Effect(st), Possible(st),
           row \in [Messages -> Given \cup {"unreviewed", "gone"}], HeldIsGone
    PROVE  /\ row' \in [Messages -> Given \cup {"unreviewed", "gone"}] /\ HeldIsGone'
           /\ \A m \in Messages : row'[m] # row[m] /\ row[m] # "unreviewed" =>
                st.op \in {"judge", "trash"} /\ st.msg = m
<1>1. CASE st.op = "judge"
  <2>1. row' = [row EXCEPT ![st.msg] = st.verdict] /\ row[st.msg] # "gone"
    BY <1>1 DEF Effect, Possible
  <2>2. st.msg \in Messages /\ st.verdict \in Given \cup {"unreviewed"}
    BY <1>1, StmtFields
  <2>3. QED
    BY <1>1, <2>1, <2>2 DEF HeldIsGone
<1>2. CASE st.op = "correlate"
  <2>1. row' = [m \in Messages |-> IF m \in Related(st) THEN st.verdict ELSE row[m]]
    BY <1>2 DEF Effect
  <2>2. st.verdict \in Given \cup {"unreviewed"}
    BY <1>2, StmtFields
  <2>3. \A m \in Related(st) : row[m] = "unreviewed"
    BY DEF Related
  <2>4. row' \in [Messages -> Given \cup {"unreviewed", "gone"}]
    BY <2>1, <2>2
  <2>5. QED
    BY <2>1, <2>3, <2>4 DEF HeldIsGone
<1>3. CASE st.op = "trash"
  <2>1. row' = [row EXCEPT ![st.msg] = "gone"]
    BY <1>3 DEF Effect
  <2>2. QED
    BY <1>3, <2>1 DEF HeldIsGone
<1>4. CASE st.op \notin {"judge", "correlate", "trash"}
  <2>1. row' = row
    BY <1>4 DEF Effect
  <2>2. QED
    BY <2>1 DEF HeldIsGone
<1>5. QED
  BY <1>1, <1>2, <1>3, <1>4

\* No statement holds an entry again; its class changes by a verdict over it.
LEMMA EntryAfter ==
    ASSUME NEW st \in Stmt, Effect(st), Tables
    PROVE  /\ entry' \in [Messages -> {"none", "held", "released", "deleted"}]
           /\ class' \in [Messages -> Given]
           /\ \A m \in Messages :
                /\ entry[m] # "held" => entry'[m] # "held"
                /\ ~(IsClass(st) /\ st.msg = m) => class'[m] = class[m]
           /\ IsClass(st) => entry'[st.msg] # "held" \/ class'[st.msg] = "not_spam"
<1> USE DEF Tables
<1>1. CASE st.op = "class"
  <2>1. /\ entry' = [entry EXCEPT ![st.msg] = StateAfter(entry[st.msg], st.verdict)]
        /\ class' = [class EXCEPT ![st.msg] = st.verdict]
    BY <1>1 DEF Effect
  <2>2. st.msg \in Messages /\ st.verdict \in Given
    BY <1>1, StmtFields
  <2>3. /\ StateAfter(entry[st.msg], st.verdict) \in {"none", "held", "released", "deleted"}
        /\ entry[st.msg] # "held" => StateAfter(entry[st.msg], st.verdict) # "held"
        /\ st.verdict # "not_spam" => StateAfter(entry[st.msg], st.verdict) # "held"
    BY <2>2 DEF StateAfter
  <2> DEFINE new == StateAfter(entry[st.msg], st.verdict)
  <2> HIDE DEF new
  <2>4. entry' = [entry EXCEPT ![st.msg] = new]
    BY <2>1, Zenon DEF new
  <2>5. QED
    BY <1>1, <2>1, <2>2, <2>3, <2>4 DEF IsClass, new
<1>2. CASE st.op \in {"release", "discard"}
  <2>1. /\ entry' = entry \/ entry' = [entry EXCEPT ![st.msg] = "released"]
                          \/ entry' = [entry EXCEPT ![st.msg] = "deleted"]
        /\ class' = class
    BY <1>2 DEF Effect
  <2>2. QED
    BY <1>2, <2>1 DEF IsClass
<1>3. CASE st.op \notin {"class", "release", "discard"}
  <2>1. entry' = entry /\ class' = class
    BY <1>3 DEF Effect
  <2>2. QED
    BY <1>3, <2>1 DEF IsClass
<1>4. QED
  BY <1>1, <1>2, <1>3
-----------------------------------------------------------------------------
(***************************************************************************)
(* What each action does.                                                  *)
(***************************************************************************)
LEMMA StartFacts ==
    ASSUME IInv, NEW r \in Request, Starts(r)
    PROVE  /\ r \notin Started /\ Started' = Started \cup {r}
           /\ Shape(req'[r]) /\ Knows(req'[r], todo'[r])
           /\ DOMAIN req' = Request /\ DOMAIN todo' = Request
           /\ \A k \in Request \ {r} : req'[k] = req[k] /\ todo'[k] = todo[k]
           /\ rivals' \in [Request -> SUBSET Request]
           /\ \A k \in Started : rivals'[k] = rivals[k] \cup {r}
           /\ rivals'[r] = {j \in Started : ~done[j]}
           /\ \A k \in Request \ (Started \cup {r}) : rivals'[k] = rivals[k]
           /\ UNCHANGED <<tables, protected, done, hurt>>
<1> USE DEF IInv
<1>1. PICK q \in Asked : /\ Accepts(q)
                         /\ req' = [req EXCEPT ![r] = q]
                         /\ todo' = [todo EXCEPT ![r] = Program(q)]
  BY DEF Starts
<1>2. Shape(q)
  BY AskedShape DEF Tables
<1>3. ASSUME q.kind \in MailboxKinds PROVE ~Mail[q.msg].pending
  <2>1. q.msg \in Messages /\ row[q.msg] # "gone"
    BY <1>1, <1>2, <1>3 DEF Accepts, Shape, OnMail
  <2>2. ~Mail[q.msg].held
    BY <2>1 DEF HeldIsGone
  <2>3. QED
    BY <2>1, <2>2, MailAssumption DEF MailAssumption
<1>4. Knows(q, Program(q))
  BY <1>2, <1>3, ProgramPart DEF Tables
<1>5. r \notin Started
  BY DEF Starts
<1>6. DOMAIN req = Request /\ DOMAIN todo = Request
  BY DEF Programs
<1>7. /\ req'[r] = q /\ todo'[r] = Program(q)
      /\ DOMAIN req' = Request /\ DOMAIN todo' = Request
      /\ \A k \in Request \ {r} : req'[k] = req[k] /\ todo'[k] = todo[k]
  BY <1>1, <1>6
<1>8. q # NoRequest
  <2>1. q.kind # "none"
    BY <1>2 DEF Shape, OnMail, MailboxKinds, HeldKinds, LogKinds
  <2>2. NoRequest.kind = "none"
    BY DEF NoRequest
  <2>3. QED
    BY <2>1, <2>2
<1>9. Started' = Started \cup {r}
  BY <1>7, <1>8 DEF Started
<1>10. rivals' = [k \in Request |-> IF k \in Started THEN rivals[k] \cup {r}
                                    ELSE IF k = r THEN {j \in Started : ~done[j]} ELSE rivals[k]]
  BY DEF Starts
<1>11. /\ rivals' \in [Request -> SUBSET Request]
       /\ \A k \in Started : rivals'[k] = rivals[k] \cup {r}
       /\ rivals'[r] = {j \in Started : ~done[j]}
       /\ \A k \in Request \ (Started \cup {r}) : rivals'[k] = rivals[k]
  BY <1>5, <1>10 DEF Started, Rivalry
<1>12. UNCHANGED <<tables, protected, done, hurt>>
  BY DEF Starts
<1>13. QED
  BY <1>2, <1>4, <1>5, <1>7, <1>9, <1>11, <1>12, Zenon

LEMMA RunFacts ==
    ASSUME IInv, NEW r \in Request, Runs(r)
    PROVE  LET st == Head(todo[r])
           IN  /\ r \in Started /\ ~done[r] /\ st \in Statement(req[r]) /\ st \in Stmt
               /\ Effect(st) /\ Possible(st)
               /\ todo'[r] = Tail(todo[r]) /\ todo'[r] # todo[r]
               /\ todo[r] # <<>> /\ todo[r] \in Seq(Statement(req[r]))
               /\ todo'[r] \in Seq(Statement(req[r]))
               /\ DOMAIN todo' = Request /\ \A k \in Request \ {r} : todo'[k] = todo[k]
               /\ UNCHANGED <<protected, req, done, hurt, rivals>>
<1> USE DEF IInv
<1>1. todo[r] # <<>> /\ Effect(Head(todo[r])) /\ Possible(Head(todo[r]))
  BY DEF Runs
<1>2. r \in Started
  BY <1>1 DEF Programs
<1>3. todo[r] \in Seq(Statement(req[r])) /\ DOMAIN todo = Request
  BY <1>2 DEF Programs
<1>4. /\ Head(todo[r]) \in Statement(req[r]) /\ Tail(todo[r]) \in Seq(Statement(req[r]))
      /\ Tail(todo[r]) # todo[r]
  BY <1>1, <1>3, TailFacts, Zenon
<1>5. Head(todo[r]) \in Stmt
  BY <1>4 DEF Statement
<1>6. todo' = [todo EXCEPT ![r] = Tail(todo[r])]
  BY Zenon DEF Runs
<1>7. todo'[r] = Tail(todo[r]) /\ DOMAIN todo' = Request
      /\ \A k \in Request \ {r} : todo'[k] = todo[k]
  BY <1>3, <1>6, Zenon
<1>8. UNCHANGED <<protected, req, done, hurt, rivals>>
  BY DEF Runs, history
<1>9. ~done[r]
  BY <1>1, <1>2 DEF Rivalry
<1>10. QED
  BY <1>1, <1>2, <1>3, <1>4, <1>5, <1>7, <1>8, <1>9, Zenon

LEMMA LeftFacts ==
    ASSUME NEW S, NEW r \in Request, todo[r] \in Seq(S), todo[r] # <<>>
    PROVE  LeftAfter(r) \in Seq(S)
<1> DEFINE rest == Tail(todo[r])
           toLearn == {i \in DOMAIN rest : rest[i].op \in {"learn", "unlearn"}}
           n == Cardinality(toLearn)
           left == SubSeq(rest, n + 1, Len(rest))
<1>1. rest \in Seq(S) /\ Len(rest) \in Nat /\ DOMAIN rest = 1..Len(rest)
  OBVIOUS
<1>2. toLearn \subseteq 1..Len(rest)
  BY <1>1
<1>3. LeftAfter(r) \in {<<>>, left}
  BY Zenon DEF LeftAfter
<1> HIDE DEF rest, toLearn
<1>4. IsFiniteSet(1..Len(rest)) /\ Cardinality(1..Len(rest)) = Len(rest)
  <2>1. 1 \in Int /\ Len(rest) \in Int
    BY <1>1
  <2>2. /\ IsFiniteSet(1..Len(rest))
        /\ Cardinality(1..Len(rest)) = IF 1 > Len(rest) THEN 0 ELSE Len(rest) - 1 + 1
    BY <2>1, FS_Interval, Zenon
  <2>3. QED
    BY <1>1, <2>2
<1>5. n \in Nat /\ n <= Len(rest)
  <2>1. toLearn \in SUBSET (1..Len(rest))
    BY <1>2, Zenon
  <2>2. IsFiniteSet(toLearn) /\ Cardinality(toLearn) <= Cardinality(1..Len(rest))
    BY <1>4, <2>1, FS_Subset, Zenon
  <2>3. Cardinality(toLearn) \in Nat
    BY <2>2, FS_CardinalityType, Zenon
  <2>4. QED
    BY <1>4, <2>2, <2>3
<1> HIDE DEF n
<1>6. left \in Seq(S)
  BY <1>1, <1>5
<1>7. <<>> \in Seq(S)
  OBVIOUS
<1> HIDE DEF left
<1>8. QED
  BY <1>3, <1>6, <1>7, Zenon

LEMMA FailFacts ==
    ASSUME IInv, NEW r \in Request, Fails(r)
    PROVE  /\ r \in Started /\ ~done[r] /\ todo'[r] \in Seq(Statement(req[r]))
           /\ DOMAIN todo' = Request /\ \A k \in Request \ {r} : todo'[k] = todo[k]
           /\ hurt' = hurt \cup {r}
           /\ UNCHANGED <<tables, protected, req, done, rivals>>
<1> USE DEF IInv
<1>1. todo[r] # <<>> /\ todo' = [todo EXCEPT ![r] = LeftAfter(r)]
  BY Zenon DEF Fails
<1>2. r \in Started
  BY <1>1 DEF Programs
<1>3. todo[r] \in Seq(Statement(req[r])) /\ DOMAIN todo = Request
  BY <1>2 DEF Programs
<1>4. LeftAfter(r) \in Seq(Statement(req[r]))
  BY <1>1, <1>3, LeftFacts, Zenon
<1>5. /\ todo'[r] = LeftAfter(r) /\ DOMAIN todo' = Request
      /\ \A k \in Request \ {r} : todo'[k] = todo[k]
  BY <1>1, <1>3, Zenon
<1>6. ~done[r]
  BY <1>1, <1>2 DEF Rivalry
<1>7. hurt' = hurt \cup {r} /\ UNCHANGED <<tables, protected, req, done, rivals>>
  BY DEF Fails
<1>8. QED
  BY <1>2, <1>4, <1>5, <1>6, <1>7, Zenon
-----------------------------------------------------------------------------
(***************************************************************************)
(* What every request and table looks like.                                *)
(***************************************************************************)
LEMMA IInit == Init => IInv
<1> SUFFICES ASSUME Init PROVE IInv
  OBVIOUS
<1>1. Started = {}
  BY DEF Init, Started
<1>2. Tables
  <2>1. Unlearned \in [verdict : Given \cup {"none"}, count : 0..2]
    BY DEF Unlearned
  <2>2. learned \in [LearnKeys -> [verdict : Given \cup {"none"}, count : 0..2]]
    BY <2>1 DEF Init, LearnKeys
  <2>3. QED
    BY <2>2 DEF Init, Tables, Given, Threats
<1>3. HeldIsGone
  BY DEF Init, HeldIsGone
<1>4. Programs
  BY <1>1 DEF Init, Programs
<1>5. Rivalry
  BY <1>1 DEF Init, Rivalry
<1>6. Order
  BY <1>1 DEF Order
<1>7. QED
  BY <1>2, <1>3, <1>4, <1>5, <1>6 DEF IInv

LEMMA IStep == IInv /\ [Next]_vars => IInv'
<1> SUFFICES ASSUME IInv, [Next]_vars PROVE IInv'
  OBVIOUS
<1>1. ASSUME NEW r \in Request, Starts(r) PROVE IInv'
  <2>1. /\ r \notin Started /\ Started' = Started \cup {r}
        /\ Shape(req'[r]) /\ Knows(req'[r], todo'[r])
        /\ DOMAIN req' = Request /\ DOMAIN todo' = Request
        /\ \A k \in Request \ {r} : req'[k] = req[k] /\ todo'[k] = todo[k]
        /\ rivals' \in [Request -> SUBSET Request]
        /\ \A k \in Started : rivals'[k] = rivals[k] \cup {r}
        /\ rivals'[r] = {j \in Started : ~done[j]}
        /\ \A k \in Request \ (Started \cup {r}) : rivals'[k] = rivals[k]
        /\ UNCHANGED <<tables, protected, done, hurt>>
    BY <1>1, StartFacts
  <2>2. Tables' /\ HeldIsGone'
    BY <2>1 DEF IInv, Tables, HeldIsGone, tables
  <2>3. /\ todo'[r] \in Seq(Statement(req'[r])) /\ ReplaceFirst(todo'[r])
        /\ Clears(req'[r]) => LearnsFirst(todo'[r])
    BY <2>1 DEF Knows, Orderly
  <2>4. Programs'
    BY <2>1, <2>3 DEF IInv, Programs
  <2>5. Rivalry'
    <3>1. done' \in [Request -> BOOLEAN] /\ hurt' \subseteq Started'
      BY <2>1 DEF IInv, Rivalry
    <3>2. ASSUME NEW j \in Request PROVE rivals'[j] \subseteq Started'
      BY <2>1 DEF IInv, Rivalry
    <3>3. ASSUME NEW j \in Request, done'[j] PROVE j \in Started' /\ todo'[j] = <<>>
      BY <2>1, <3>3 DEF IInv, Rivalry
    <3>4. ASSUME NEW j \in Started', NEW k \in Started', k # j, k \notin rivals'[j] PROVE done'[k]
      <4>1. Started \subseteq Request
        BY DEF Started
      <4>2. QED
        BY <2>1, <3>4, <4>1 DEF IInv, Rivalry
    <3>5. QED
      BY <2>1, <3>1, <3>2, <3>3, <3>4 DEF Rivalry
  <2>6. Order'
    BY <2>1, <2>3 DEF IInv, Order, Started
  <2>7. QED
    BY <2>2, <2>4, <2>5, <2>6 DEF IInv
<1>2. ASSUME NEW r \in Request, Runs(r) PROVE IInv'
  <2> DEFINE st == Head(todo[r])
  <2>1. /\ r \in Started /\ ~done[r] /\ st \in Statement(req[r]) /\ st \in Stmt
        /\ Effect(st) /\ Possible(st)
        /\ todo'[r] = Tail(todo[r])
        /\ todo[r] # <<>> /\ todo[r] \in Seq(Statement(req[r]))
        /\ todo'[r] \in Seq(Statement(req[r]))
        /\ DOMAIN todo' = Request /\ \A k \in Request \ {r} : todo'[k] = todo[k]
        /\ UNCHANGED <<protected, req, done, hurt, rivals>>
    BY <1>2, RunFacts
  <2> HIDE DEF st
  <2>2. Started' = Started
    BY <2>1 DEF Started
  <2>3. rules' \subseteq Rules
    BY <2>1, RulesAfter DEF IInv, Tables
  <2>4. learned' \in [LearnKeys -> [verdict : Given \cup {"none"}, count : 0..2]]
    BY <2>1, LearnedAfter, Zenon DEF IInv, Tables, Learned
  <2>5. row' \in [Messages -> Given \cup {"unreviewed", "gone"}] /\ HeldIsGone'
    BY <2>1, RowAfter, Zenon DEF IInv, Tables
  <2>6. /\ entry' \in [Messages -> {"none", "held", "released", "deleted"}]
        /\ class' \in [Messages -> Given]
    BY <2>1, EntryAfter, Zenon DEF IInv
  <2>7. Tables'
    BY <2>1, <2>3, <2>4, <2>5, <2>6, Zenon DEF IInv, Tables
  <2>8. Programs'
    BY <2>1, <2>2 DEF IInv, Programs
  <2>9. Rivalry'
    BY <2>1, <2>2 DEF IInv, Rivalry
  <2>10. Order'
    <3>1. /\ ReplaceFirst(todo[r]) => ReplaceFirst(todo'[r])
          /\ LearnsFirst(todo[r]) => LearnsFirst(todo'[r])
      BY <2>1, TailFacts, Zenon
    <3>2. Started \subseteq Request
      BY DEF Started
    <3>3. QED
      BY <2>1, <2>2, <3>1, <3>2 DEF IInv, Order
  <2>11. QED
    BY <2>5, <2>7, <2>8, <2>9, <2>10 DEF IInv
<1>3. ASSUME NEW r \in Request, Fails(r) PROVE IInv'
  <2>1. /\ r \in Started /\ ~done[r] /\ todo'[r] \in Seq(Statement(req[r]))
        /\ DOMAIN todo' = Request /\ \A k \in Request \ {r} : todo'[k] = todo[k]
        /\ hurt' = hurt \cup {r}
        /\ UNCHANGED <<tables, protected, req, done, rivals>>
    BY <1>3, FailFacts
  <2>2. Started' = Started /\ Started \subseteq Request
    BY <2>1 DEF Started
  <2>3. Tables' /\ HeldIsGone'
    BY <2>1 DEF IInv, Tables, HeldIsGone, tables
  <2>4. Programs'
    BY <2>1, <2>2 DEF IInv, Programs
  <2>5. Rivalry'
    BY <2>1, <2>2 DEF IInv, Rivalry
  <2>6. Order'
    BY <2>1, <2>2 DEF IInv, Order
  <2>7. QED
    BY <2>3, <2>4, <2>5, <2>6 DEF IInv
<1>4. ASSUME NEW r \in Request, Answers(r) PROVE IInv'
  <2>1. /\ r \in Started /\ todo[r] = <<>> /\ done' = [done EXCEPT ![r] = TRUE]
        /\ UNCHANGED <<tables, protected, req, todo, hurt, rivals>>
    BY <1>4 DEF Answers
  <2>2. Started' = Started
    BY <2>1 DEF Started
  <2>3. Tables' /\ HeldIsGone' /\ Programs' /\ Order'
    BY <2>1, <2>2 DEF IInv, Tables, HeldIsGone, Programs, Order, tables
  <2>4. Rivalry'
    BY <2>1, <2>2 DEF IInv, Rivalry
  <2>5. QED
    BY <2>3, <2>4 DEF IInv
<1>5. CASE AddsDomain
  <2>1. /\ protected' = TRUE /\ rules' \subseteq rules
        /\ UNCHANGED <<learned, row, entry, class, req, todo, history>>
    BY <1>5 DEF AddsDomain
  <2>2. Started' = Started
    BY <2>1 DEF Started
  <2>3. Tables' /\ HeldIsGone'
    BY <2>1 DEF IInv, Tables, HeldIsGone
  <2>4. Programs' /\ Order' /\ Rivalry'
    BY <2>1, <2>2 DEF IInv, Programs, Order, Rivalry, history
  <2>5. QED
    BY <2>3, <2>4 DEF IInv
<1>6. CASE UNCHANGED vars
  <2>1. UNCHANGED <<tables, protected, req, todo, done, hurt, rivals>>
    BY <1>6, Zenon DEF vars, tables
  <2>2. Started' = Started
    BY <2>1 DEF Started
  <2>3. Tables' /\ HeldIsGone' /\ Programs'
    BY <2>1, <2>2 DEF IInv, Tables, HeldIsGone, Programs, tables
  <2>4. Rivalry' /\ Order'
    BY <2>1, <2>2 DEF IInv, Rivalry, Order
  <2>5. QED
    BY <2>3, <2>4 DEF IInv
<1>7. QED
  BY <1>1, <1>2, <1>3, <1>4, <1>5, <1>6 DEF Next

LEMMA Always == Spec => []IInv
  BY IInit, IStep, PTL DEF Spec

\* Every variable of the three tables and the requests stays in its domain, for
\* any mail, verdicts and number of requests (TypeOK).
THEOREM TypeCorrect == Spec => []TypeOK
<1>1. ASSUME IInv PROVE TypeOK
  <2>1. Tables /\ Rivalry /\ Programs
    BY <1>1 DEF IInv
  <2>2. ASSUME NEW u \in rules
        PROVE  /\ u.key \in [scope : {"system", "org", "domain", "user"},
                             own : BOOLEAN, pattern : Senders \cup {All}]
               /\ u.action \in {"allow", "block"}
    BY <2>1 DEF Tables, Rules, Keys
  <2>3. ASSUME NEW k \in DOMAIN learned
        PROVE  /\ learned[k].verdict \in Threats \cup {"none", "not_spam", "other"}
               /\ learned[k].count \in 0..2
    BY <2>1 DEF Tables, Given
  <2>4. /\ row \in [Messages -> Threats \cup {"unreviewed", "not_spam", "other", "gone"}]
        /\ entry \in [Messages -> {"none", "held", "released", "deleted"}]
        /\ class \in [Messages -> Threats \cup {"not_spam", "other"}]
        /\ protected \in BOOLEAN
    BY <2>1 DEF Tables, Given
  <2>5. hurt \subseteq Started
    BY <2>1 DEF Rivalry
  <2>6. ASSUME NEW r \in Request, todo[r] # <<>> \/ done[r] PROVE r \in Started
    BY <2>1, <2>6 DEF Rivalry, Programs
  <2>7. QED
    BY <2>2, <2>3, <2>4, <2>5, <2>6 DEF TypeOK
<1>2. QED
  BY <1>1, Always, PTL
-----------------------------------------------------------------------------
(***************************************************************************)
(* Blocks take effect.                                                     *)
(***************************************************************************)
\* Whoever still has a statement to run is a rival of the others.
LEMMA RunsAsRival ==
    ASSUME IInv, NEW r \in Started, NEW j \in Started, j # r, ~done[r]
    PROVE  r \in rivals[j]
  BY DEF IInv, Rivalry, Started

\* What running a statement means for a rule that stands or is to be stored.
LEMMA RunOnRule ==
    ASSUME IInv, NEW r \in Request, Runs(r)
    PROVE  /\ \A u \in rules : \/ u \in rules' \/ req[r].kind = "undo"
                               \/ /\ RuleOf(req[r]) # NoRule /\ RuleOf(req[r]).key = u.key
                                  /\ r \in hurt \/ Stores(todo'[r], RuleOf(req[r]))
                                  /\ r \in hurt \/ (todo'[r] # <<>> /\ IsStore(Head(todo'[r])))
           /\ \A rule : Stores(todo[r], rule) => Stores(todo'[r], rule) \/ rule \in rules'
           /\ todo[r] # <<>> /\ IsStore(Head(todo[r])) => RuleOf(req[r]) \in rules'
<1> DEFINE st == Head(todo[r])
           rest == Tail(todo[r])
<1>1. /\ r \in Started /\ st \in Statement(req[r]) /\ st \in Stmt /\ Effect(st)
      /\ todo'[r] = rest /\ todo[r] # <<>> /\ todo[r] \in Seq(Statement(req[r]))
  BY RunFacts
<1>2. /\ Elems(todo[r]) = {st} \cup Elems(rest) /\ rest \in Seq(Statement(req[r]))
      /\ ReplaceFirst(todo[r]) /\ IsForget(st) =>
            rest # <<>> /\ IsStore(Head(rest)) /\ Head(rest) \in Elems(rest)
  BY <1>1, TailFacts, Zenon
<1> HIDE DEF st, rest
<1>3. /\ IsStore(st) => st.rule \in rules'
      /\ \A u \in rules : u \in rules' \/ IsUndo(st) \/ (IsForget(st) /\ u.key = st.rule.key)
  BY <1>1, RulesAfter DEF IInv, Tables
<1>4. /\ IsForget(st) \/ IsStore(st) => RuleOf(req[r]) # NoRule /\ st.rule = RuleOf(req[r])
      /\ IsUndo(st) => req[r].kind = "undo"
  BY <1>1 DEF Statement, Fits
<1>5. \A e \in Elems(rest) : IsStore(e) => e.rule = RuleOf(req[r])
  <2>1. Elems(rest) \subseteq Statement(req[r])
    BY <1>2 DEF Elems
  <2>2. QED
    BY <2>1 DEF Statement, Fits
<1>6. ASSUME IsForget(st), r \notin hurt
      PROVE  /\ Stores(rest, RuleOf(req[r]))
             /\ rest # <<>> /\ IsStore(Head(rest))
  <2>1. ReplaceFirst(todo[r])
    BY <1>1, <1>6 DEF IInv, Order
  <2>2. rest # <<>> /\ IsStore(Head(rest)) /\ Head(rest) \in Elems(rest)
    BY <1>2, <1>6, <2>1
  <2>3. QED
    BY <1>5, <2>2, Zenon DEF Stores
<1>7. ASSUME NEW rule, Stores(todo[r], rule) PROVE Stores(rest, rule) \/ rule \in rules'
  BY <1>2, <1>3, <1>7, Zenon DEF Stores
<1>8. IsStore(st) => RuleOf(req[r]) \in rules'
  BY <1>3, <1>4
<1>9. ASSUME NEW u \in rules
      PROVE  \/ u \in rules' \/ req[r].kind = "undo"
             \/ /\ RuleOf(req[r]) # NoRule /\ RuleOf(req[r]).key = u.key
                /\ r \in hurt \/ Stores(rest, RuleOf(req[r]))
                /\ r \in hurt \/ (rest # <<>> /\ IsStore(Head(rest)))
  BY <1>3, <1>4, <1>6
<1>10. QED
  BY <1>1, <1>7, <1>8, <1>9 DEF st

LEMMA BlockInit == Init => BlockInv
  BY DEF Init, BlockInv, Decides, Started

LEMMA BlockStep == IInv /\ BlockInv /\ [Next]_vars => BlockInv'
<1> SUFFICES ASSUME IInv, BlockInv, [Next]_vars,
                    NEW j \in Request, Decides(j)', RuleOf(req'[j]).action = "block"
             PROVE  Blocked(j)'
  BY DEF BlockInv
<1> DEFINE rule == RuleOf(req[j])
<1>1. ASSUME req'[j] = req[j] PROVE Decides(j) /\ Blocked(j) /\ rule.action = "block"
  <2>1. Decides(j)
    BY <1>1 DEF Decides, Started
  <2>2. QED
    BY <1>1, <2>1 DEF BlockInv
<1>2. ASSUME NEW r \in Request, Starts(r) PROVE Blocked(j)'
  <2>1. /\ r \notin Started
        /\ Knows(req'[r], todo'[r])
        /\ \A k \in Request \ {r} : req'[k] = req[k] /\ todo'[k] = todo[k]
        /\ \A k \in Started : rivals'[k] = rivals[k] \cup {r}
        /\ UNCHANGED <<tables, protected, done, hurt>>
    BY <1>2, StartFacts
  <2>2. CASE j = r
    <3>1. RuleOf(req'[r]) # NoRule
      BY <2>2 DEF Decides
    <3>2. Stores(todo'[r], RuleOf(req'[r]))
      BY <2>1, <3>1 DEF Knows
    <3>3. QED
      BY <2>2, <3>2 DEF Blocked
  <2>3. CASE j # r
    <3>1. req'[j] = req[j] /\ todo'[j] = todo[j] /\ Decides(j) /\ Blocked(j)
      BY <1>1, <2>1, <2>3
    <3>2. j \in Started /\ rivals[j] \subseteq Started /\ Started \subseteq Request
      BY <3>1 DEF Decides, IInv, Rivalry, Started
    <3>3. \A k \in rivals[j] : k \in rivals'[j] /\ req'[k] = req[k]
      BY <2>1, <3>2
    <3>4. hurt' = hurt /\ rules' = rules /\ protected' = protected
      BY <2>1 DEF tables
    <3>5. QED
      BY <3>1, <3>3, <3>4 DEF Blocked, Withdrawn
  <2>4. QED
    BY <2>2, <2>3
<1>3. ASSUME NEW r \in Request, Runs(r) PROVE Blocked(j)'
  <2>1. /\ r \in Started /\ ~done[r]
        /\ \A k \in Request \ {r} : todo'[k] = todo[k]
        /\ UNCHANGED <<protected, req, done, hurt, rivals>>
    BY <1>3, RunFacts
  <2>2. req'[j] = req[j] /\ Decides(j) /\ Blocked(j)
    BY <1>1, <2>1
  <2>3. /\ \A u \in rules : \/ u \in rules' \/ req[r].kind = "undo"
                            \/ /\ RuleOf(req[r]) # NoRule /\ RuleOf(req[r]).key = u.key
                               /\ r \in hurt \/ Stores(todo'[r], RuleOf(req[r]))
        /\ \A u : Stores(todo[r], u) => Stores(todo'[r], u) \/ u \in rules'
    BY <1>3, RunOnRule
  <2>4. CASE j = r
    BY <2>1, <2>2, <2>3, <2>4 DEF Blocked, Withdrawn, Decides
  <2>5. CASE j # r
    <3>1. r \in rivals[j]
      BY <2>1, <2>2, <2>5, RunsAsRival DEF Decides
    <3>2. rule \in rules => rule \in rules' \/ OnKey(rule.key, req[r])
      BY <2>3 DEF OnKey
    <3>3. todo'[j] = todo[j]
      BY <2>1, <2>5
    <3>4. QED
      BY <2>1, <2>2, <3>1, <3>2, <3>3 DEF Blocked, Withdrawn
  <2>6. QED
    BY <2>4, <2>5
<1>4. ASSUME NEW r \in Request, Fails(r) PROVE Blocked(j)'
  <2>1. /\ \A k \in Request \ {r} : todo'[k] = todo[k]
        /\ hurt' = hurt \cup {r}
        /\ UNCHANGED <<tables, protected, req, done, rivals>>
    BY <1>4, FailFacts
  <2>2. req'[j] = req[j] /\ Decides(j) /\ Blocked(j)
    BY <1>1, <2>1
  <2>3. QED
    BY <2>1, <2>2 DEF Blocked, Withdrawn, tables
<1>5. ASSUME NEW r \in Request, Answers(r) PROVE Blocked(j)'
  <2>1. UNCHANGED <<tables, protected, req, todo, hurt, rivals>>
    BY <1>5 DEF Answers
  <2>2. req'[j] = req[j] /\ Decides(j) /\ Blocked(j)
    BY <1>1, <2>1
  <2>3. QED
    BY <2>1, <2>2 DEF Blocked, Withdrawn, tables
<1>6. CASE AddsDomain
  <2>1. /\ protected' = TRUE
        /\ rules' = {u \in rules : u.action # "block" \/ u.key.pattern # All}
        /\ UNCHANGED <<req, todo, hurt, rivals>>
    BY <1>6 DEF AddsDomain, history
  <2>2. req'[j] = req[j] /\ Decides(j) /\ Blocked(j) /\ rule.action = "block"
    BY <1>1, <2>1
  <2>3. QED
    BY <2>1, <2>2 DEF Blocked, Withdrawn
<1>7. CASE UNCHANGED vars
  <2>1. UNCHANGED <<rules, protected, req, todo, hurt, rivals>>
    BY <1>7, Zenon DEF vars, tables
  <2>2. Blocked(j)
    BY <1>1, <2>1
  <2>3. QED
    BY <2>1, <2>2 DEF Blocked, Withdrawn
<1>8. QED
  BY <1>2, <1>3, <1>4, <1>5, <1>6, <1>7 DEF Next

\* Mail of a blocked sender stays out, whatever the other rules say and however
\* many decisions on other keys run at the same time (lookupSenderListAddress,
\* UpsertDecision).
THEOREM BlocksTakeEffect == Spec => []BlockTakesEffect
<1>1. ASSUME IInv, BlockInv PROVE BlockTakesEffect
  <2> SUFFICES ASSUME NEW r \in Request, Decided(r), RuleOf(req[r]).action = "block",
                      ~Withdrawn(RuleOf(req[r])), NEW s \in Senders,
                      RuleOf(req[r]).key.pattern \in {s, All}
               PROVE  Effective(s) = "block"
    BY DEF BlockTakesEffect
  <2> DEFINE rule == RuleOf(req[r])
  <2>1. /\ r \in Started /\ req[r].kind # "undo" /\ rule # NoRule
        /\ done[r] /\ r \notin hurt /\ \A k \in rivals[r] : ~OnKey(rule.key, req[k])
    BY DEF Decided, Undisturbed
  <2>2. todo[r] = <<>>
    BY <1>1, <2>1 DEF IInv, Rivalry
  <2>3. ~Stores(todo[r], rule)
    BY <2>2, EmptyFacts DEF Stores
  <2>4. Blocked(r)
    BY <1>1, <2>1 DEF BlockInv, Decides
  <2>5. rule \in rules
    BY <2>1, <2>3, <2>4 DEF Blocked
  <2>6. "block" \in {u.action : u \in {v \in rules : v.key.pattern \in {s, All}}}
    BY <2>5
  <2>7. QED
    BY <2>6 DEF Effective
<1>2. QED
  BY <1>1, Always, BlockInit, BlockStep, PTL DEF Spec
-----------------------------------------------------------------------------
(***************************************************************************)
(* Decisions survive.                                                      *)
(***************************************************************************)
LEMMA SurviveInit == Init => SurviveInv
  BY DEF Init, SurviveInv, Decides, Started

LEMMA SurviveStep == IInv /\ SurviveInv /\ [Next]_vars => SurviveInv'
<1> SUFFICES ASSUME IInv, SurviveInv, [Next]_vars, NEW j \in Request, Decides(j)'
             PROVE  Surviving(j)'
  BY DEF SurviveInv
<1> DEFINE rule == RuleOf(req[j])
<1>1. ASSUME req'[j] = req[j] PROVE Decides(j) /\ Surviving(j)
  <2>1. Decides(j)
    BY <1>1 DEF Decides, Started
  <2>2. QED
    BY <1>1, <2>1 DEF SurviveInv
<1>2. ASSUME NEW r \in Request, Starts(r) PROVE Surviving(j)'
  <2>1. /\ r \notin Started
        /\ Knows(req'[r], todo'[r])
        /\ \A k \in Request \ {r} : req'[k] = req[k] /\ todo'[k] = todo[k]
        /\ \A k \in Started : rivals'[k] = rivals[k] \cup {r}
        /\ UNCHANGED <<tables, protected, done, hurt>>
    BY <1>2, StartFacts
  <2>2. CASE j = r
    <3>1. RuleOf(req'[r]) # NoRule
      BY <2>2 DEF Decides
    <3>2. Stores(todo'[r], RuleOf(req'[r]))
      BY <2>1, <3>1 DEF Knows
    <3>3. QED
      BY <2>2, <3>2 DEF Surviving
  <2>3. CASE j # r
    <3>1. req'[j] = req[j] /\ todo'[j] = todo[j] /\ Decides(j) /\ Surviving(j)
      BY <1>1, <2>1, <2>3
    <3>2. j \in Started /\ rivals[j] \subseteq Started /\ Started \subseteq Request
      BY <3>1 DEF Decides, IInv, Rivalry, Started
    <3>3. \A k \in rivals[j] : k \in rivals'[j] /\ req'[k] = req[k] /\ todo'[k] = todo[k]
      BY <2>1, <3>2
    <3>4. hurt' = hurt /\ rules' = rules /\ protected' = protected
      BY <2>1 DEF tables
    <3>5. \A k \in rivals[j] : Replaces(k, rule.key) => Replaces(k, rule.key)'
      BY <3>1, <3>3, <3>4 DEF Replaces
    <3>6. QED
      BY <3>1, <3>3, <3>4, <3>5 DEF Surviving, Has
  <2>4. QED
    BY <2>2, <2>3
<1>3. ASSUME NEW r \in Request, Runs(r) PROVE Surviving(j)'
  <2>1. /\ r \in Started /\ ~done[r]
        /\ \A k \in Request \ {r} : todo'[k] = todo[k]
        /\ UNCHANGED <<protected, req, done, hurt, rivals>>
    BY <1>3, RunFacts
  <2>2. req'[j] = req[j] /\ Decides(j) /\ Surviving(j)
    BY <1>1, <2>1
  <2>3. /\ \A u \in rules : \/ u \in rules' \/ req[r].kind = "undo"
                            \/ /\ RuleOf(req[r]) # NoRule /\ RuleOf(req[r]).key = u.key
                               /\ r \in hurt \/ Stores(todo'[r], RuleOf(req[r]))
                               /\ r \in hurt \/ (todo'[r] # <<>> /\ IsStore(Head(todo'[r])))
        /\ \A u : Stores(todo[r], u) => Stores(todo'[r], u) \/ u \in rules'
        /\ todo[r] # <<>> /\ IsStore(Head(todo[r])) => RuleOf(req[r]) \in rules'
    BY <1>3, RunOnRule
  <2>4. rivals[j] \subseteq Request
    BY DEF IInv, Rivalry
  <2>5. ASSUME NEW k \in rivals[j], Replaces(k, rule.key)
        PROVE  Replaces(k, rule.key)' \/ Has(rule.key)'
    <3>1. CASE k = r
      BY <2>1, <2>3, <2>5, <3>1 DEF Replaces, Has
    <3>2. CASE k # r
      BY <2>1, <2>4, <2>5, <3>2 DEF Replaces
    <3>3. QED
      BY <3>1, <3>2
  <2>6. ASSUME NEW k \in rivals[j], req[k].kind = "undo" PROVE Surviving(j)'
    BY <2>1, <2>6 DEF Surviving
  <2>7. ASSUME Has(rule.key) PROVE Surviving(j)'
    <3>1. PICK u \in rules : u.key = rule.key
      BY <2>7 DEF Has
    <3>2. CASE u \in rules'
      BY <2>1, <3>1, <3>2 DEF Surviving, Has
    <3>3. CASE u \notin rules' /\ j = r
      BY <2>1, <2>2, <2>3, <3>3 DEF Surviving, Decides
    <3>4. CASE u \notin rules' /\ j # r
      <4>1. r \in rivals[j]
        BY <2>1, <2>2, <3>4, RunsAsRival DEF Decides
      <4>2. req[r].kind = "undo" \/ Replaces(r, rule.key)'
        BY <2>1, <2>3, <3>1, <3>4 DEF Replaces
      <4>3. QED
        BY <2>1, <2>6, <4>1, <4>2 DEF Surviving
    <3>5. QED
      BY <3>2, <3>3, <3>4
  <2>8. ASSUME Stores(todo[j], rule) PROVE Surviving(j)'
    <3>1. Stores(todo'[j], rule) \/ rule \in rules'
      BY <2>1, <2>3, <2>8
    <3>2. QED
      BY <2>1, <3>1 DEF Surviving, Has
  <2>9. CASE \E k \in rivals[j] : Replaces(k, rule.key)
    BY <2>1, <2>5, <2>9 DEF Surviving
  <2>10. CASE j \in hurt \/ (protected /\ rule.key.pattern = All)
    BY <2>1, <2>10 DEF Surviving
  <2>11. QED
    BY <2>2, <2>6, <2>7, <2>8, <2>9, <2>10 DEF Surviving
<1>4. ASSUME NEW r \in Request, Fails(r) PROVE Surviving(j)'
  <2>1. /\ \A k \in Request \ {r} : todo'[k] = todo[k]
        /\ hurt' = hurt \cup {r}
        /\ UNCHANGED <<tables, protected, req, done, rivals>>
    BY <1>4, FailFacts
  <2>2. req'[j] = req[j] /\ Decides(j) /\ Surviving(j)
    BY <1>1, <2>1
  <2>3. rivals[j] \subseteq Request
    BY DEF IInv, Rivalry
  <2>4. \A k \in rivals[j] : Replaces(k, rule.key) => Replaces(k, rule.key)'
    BY <2>1, <2>3 DEF Replaces
  <2>5. QED
    BY <2>1, <2>2, <2>4 DEF Surviving, Has, tables
<1>5. ASSUME NEW r \in Request, Answers(r) PROVE Surviving(j)'
  <2>1. UNCHANGED <<tables, protected, req, todo, hurt, rivals>>
    BY <1>5 DEF Answers
  <2>2. Surviving(j)
    BY <1>1, <2>1
  <2>3. QED
    BY <2>1, <2>2 DEF Surviving, Has, Replaces, tables
<1>6. CASE AddsDomain
  <2>1. /\ protected' = TRUE
        /\ rules' = {u \in rules : u.action # "block" \/ u.key.pattern # All}
        /\ UNCHANGED <<req, todo, hurt, rivals>>
    BY <1>6 DEF AddsDomain, history
  <2>2. Surviving(j)
    BY <1>1, <2>1
  <2>3. Has(rule.key) => Has(rule.key)' \/ rule.key.pattern = All
    BY <2>1 DEF Has
  <2>4. \A k \in rivals[j] : Replaces(k, rule.key) => Replaces(k, rule.key)'
    BY <2>1 DEF Replaces
  <2>5. QED
    BY <2>1, <2>2, <2>3, <2>4 DEF Surviving
<1>7. CASE UNCHANGED vars
  <2>1. UNCHANGED <<rules, protected, req, todo, hurt, rivals>>
    BY <1>7, Zenon DEF vars, tables
  <2>2. Surviving(j)
    BY <1>1, <2>1
  <2>3. QED
    BY <2>1, <2>2 DEF Surviving, Has, Replaces
<1>8. QED
  BY <1>2, <1>3, <1>4, <1>5, <1>6, <1>7 DEF Next

\* A decision that was answered without a failure leaves a rule of its key, but
\* between the two statements of another request that replaces it, after such
\* a request failed, or when somebody took a rule back (UpsertDecision).
THEOREM DecisionsSurvive == Spec => []DecisionSurvives
<1>1. ASSUME IInv, SurviveInv PROVE DecisionSurvives
  <2> SUFFICES ASSUME NEW r \in Request, r \in Started, done[r], r \notin hurt,
                      req[r].kind # "undo", RuleOf(req[r]) # NoRule
               PROVE  LET rule == RuleOf(req[r])
                          Replacing(k) == k \in hurt \/ (todo[k] # <<>> /\ Head(todo[k]).op = "store")
                      IN  \/ \E u \in rules : u.key = rule.key
                          \/ protected /\ rule.key.pattern = All
                          \/ \E k \in rivals[r] :
                               \/ req[k].kind = "undo"
                               \/ RuleOf(req[k]) # NoRule /\ RuleOf(req[k]).key = rule.key
                                  /\ Replacing(k)
    BY DEF DecisionSurvives
  <2>1. todo[r] = <<>>
    BY <1>1 DEF IInv, Rivalry
  <2>2. ~Stores(todo[r], RuleOf(req[r]))
    BY <2>1, EmptyFacts DEF Stores
  <2>3. Surviving(r)
    BY <1>1 DEF SurviveInv, Decides
  <2>4. QED
    BY <2>2, <2>3 DEF Surviving, Has, Replaces, IsStore
<1>2. QED
  BY <1>1, Always, SurviveInit, SurviveStep, PTL DEF Spec
-----------------------------------------------------------------------------
(***************************************************************************)
(* Verdicts.                                                               *)
(***************************************************************************)
LEMMA ClearInit == Init => ClearInv
  BY DEF Init, ClearInv, Started

\* What a request that clears its sender does to what is learned.
LEMMA RunClears ==
    ASSUME IInv, NEW r \in Request, Runs(r), r \notin hurt, Clears(req[r]), ClearedSoFar(r)
    PROVE  ClearedSoFar(r)'
<1> DEFINE st == Head(todo[r])
           rest == Tail(todo[r])
           from == Mail[req[r].msg].from
           fp == Mail[req[r].msg].subject
<1>1. /\ r \in Started /\ st \in Statement(req[r]) /\ st \in Stmt /\ Effect(st)
      /\ todo'[r] = rest /\ todo[r] # <<>> /\ todo[r] \in Seq(Statement(req[r]))
      /\ req' = req
  BY RunFacts
<1>2. LearnsFirst(todo[r])
  BY <1>1 DEF IInv, Order
<1>3. Elems(todo[r]) = {st} \cup Elems(rest) /\ (IsUnlearn(st) => NoLearn(rest))
  BY <1>1, <1>2, TailFacts, Zenon
<1> HIDE DEF st, rest
<1>4. req[r].msg \in Messages
  BY <1>1 DEF IInv, Programs, Shape, OnMail, Clears, MailboxKinds, HeldKinds
<1>5. /\ <<from, fp>> \in LearnKeys /\ <<from, NoWords>> \in LearnKeys
      /\ <<All, NoWords>> \in LearnKeys
  BY <1>4 DEF LearnKeys, Senders, Subjects
<1>6. learned \in Learned
  BY DEF IInv, Tables, Learned
<1>7. ~(IsLearn(st) /\ IsUnlearn(st))
  BY DEF IsLearn, IsUnlearn
<1>8. /\ \/ Unlearns(todo[r])
         \/ /\ NoLearn(todo[r]) /\ learned[<<from, NoWords>>] = Unlearned
            /\ learned[<<All, NoWords>>] = Unlearned
      /\ fp # NoWords => Learns(todo[r]) \/ learned[<<from, fp>>].verdict = "not_spam"
  BY Zenon DEF ClearedSoFar
<1>9. SUFFICES /\ \/ Unlearns(rest)
                  \/ /\ NoLearn(rest) /\ learned'[<<from, NoWords>>] = Unlearned
                     /\ learned'[<<All, NoWords>>] = Unlearned
               /\ fp # NoWords => Learns(rest) \/ learned'[<<from, fp>>].verdict = "not_spam"
  BY <1>1, Zenon DEF ClearedSoFar
<1>10. /\ Unlearns(todo[r]) => Unlearns(rest) \/ IsUnlearn(st)
       /\ NoLearn(todo[r]) => NoLearn(rest) /\ ~IsLearn(st)
       /\ Learns(todo[r]) => Learns(rest) \/ IsLearn(st)
  BY <1>3, Zenon DEF Unlearns, Learns, NoLearn, NoUnlearn
<1>11. CASE IsLearn(st)
  <2>1. st.key = <<from, fp>> /\ st.verdict = "not_spam"
    BY <1>1, <1>11, Zenon DEF Statement, Fits
  <2>2. learned'[st.key].verdict = st.verdict
    BY <1>1, <1>6, <1>11, LearnedAfter, Zenon
  <2>3. learned'[<<from, fp>>].verdict = "not_spam"
    BY <2>1, <2>2, Zenon
  <2>4. Unlearns(rest)
    BY <1>7, <1>8, <1>10, <1>11, Zenon
  <2>5. QED
    BY <2>3, <2>4, Zenon
<1>12. CASE IsUnlearn(st)
  <2>1. st.from = from
    BY <1>1, <1>12, Zenon DEF Statement, Fits
  <2>2. \A k \in LearnKeys :
            learned'[k] = IF k \in UnlearnedKeys(st) THEN Unlearned ELSE learned[k]
    BY <1>1, <1>6, <1>12, LearnedAfter, Zenon
  <2>3. <<from, NoWords>> \in UnlearnedKeys(st) /\ <<All, NoWords>> \in UnlearnedKeys(st)
    BY <2>1, Zenon DEF UnlearnedKeys
  <2>4. learned'[<<from, NoWords>>] = Unlearned /\ learned'[<<All, NoWords>>] = Unlearned
    BY <1>5, <2>2, <2>3, Zenon
  <2>5. fp # NoWords => <<from, fp>> \notin UnlearnedKeys(st)
    BY Zenon DEF UnlearnedKeys
  <2>6. fp # NoWords => learned'[<<from, fp>>] = learned[<<from, fp>>]
    BY <1>5, <2>2, <2>5, Zenon
  <2>7. NoLearn(rest) /\ ~Learns(rest)
    BY <1>3, <1>12, Zenon DEF Learns
  <2>8. ~Learns(todo[r])
    BY <1>7, <1>10, <1>12, <2>7, Zenon
  <2>9. fp # NoWords => learned'[<<from, fp>>].verdict = "not_spam"
    BY <1>8, <2>6, <2>8, Zenon
  <2>10. QED
    BY <2>4, <2>7, <2>9, Zenon
<1>13. CASE ~IsLearn(st) /\ ~IsUnlearn(st)
  <2>1. learned' = learned
    BY <1>1, <1>6, <1>13, LearnedAfter, Zenon
  <2>2. QED
    BY <1>8, <1>10, <1>13, <2>1, Zenon
<1>14. QED
  BY <1>11, <1>12, <1>13, Zenon

LEMMA ClearStep == IInv /\ ClearInv /\ [Next]_vars => ClearInv'
<1> SUFFICES ASSUME IInv, ClearInv, [Next]_vars, NEW j \in Request,
                    j \in Started', j \notin hurt', Clears(req'[j]),
                    \A k \in rivals'[j] : ~Judges(req'[k])
             PROVE  ClearedSoFar(j)'
  BY DEF ClearInv, Started
<1>1. ASSUME j \in Started, req'[j] = req[j], hurt \subseteq hurt', rivals[j] \subseteq rivals'[j],
             \A k \in rivals[j] : req'[k] = req[k]
      PROVE  j \notin hurt /\ Clears(req[j]) /\ ClearedSoFar(j)
  <2>1. \A k \in rivals[j] : ~Judges(req[k])
    BY <1>1
  <2>2. j \notin hurt /\ Clears(req[j])
    BY <1>1
  <2>3. QED
    BY <1>1, <2>1, <2>2 DEF ClearInv
<1>2. ASSUME learned' = learned, req'[j] = req[j], todo'[j] = todo[j], ClearedSoFar(j)
      PROVE  ClearedSoFar(j)'
  BY <1>2, Zenon DEF ClearedSoFar
<1>3. ASSUME NEW r \in Request, Starts(r) PROVE ClearedSoFar(j)'
  <2>1. /\ r \notin Started /\ Started' = Started \cup {r}
        /\ Knows(req'[r], todo'[r])
        /\ \A k \in Request \ {r} : req'[k] = req[k] /\ todo'[k] = todo[k]
        /\ \A k \in Started : rivals'[k] = rivals[k] \cup {r}
        /\ UNCHANGED <<tables, protected, done, hurt>>
    BY <1>3, StartFacts
  <2>2. CASE j = r
    <3>1. Unlearns(todo'[j]) /\ (Mail[req'[j].msg].subject # NoWords => Learns(todo'[j]))
      BY <2>1, <2>2 DEF Knows
    <3>2. QED
      BY <3>1, Zenon DEF ClearedSoFar
  <2>3. CASE j # r
    <3>1. j \in Started /\ req'[j] = req[j] /\ todo'[j] = todo[j]
      BY <2>1, <2>3
    <3>2. \A k \in rivals[j] : k # r /\ k \in Request
      BY <2>1 DEF IInv, Rivalry
    <3>3. learned' = learned /\ hurt' = hurt
      BY <2>1 DEF tables
    <3>4. rivals[j] \subseteq rivals'[j] /\ \A k \in rivals[j] : req'[k] = req[k]
      BY <2>1, <3>1, <3>2
    <3>5. QED
      BY <1>1, <1>2, <3>1, <3>3, <3>4
  <2>4. QED
    BY <2>2, <2>3
<1>4. ASSUME NEW r \in Request, Runs(r) PROVE ClearedSoFar(j)'
  <2> DEFINE st == Head(todo[r])
  <2>1. /\ r \in Started /\ ~done[r] /\ st \in Statement(req[r]) /\ st \in Stmt /\ Effect(st)
        /\ \A k \in Request \ {r} : todo'[k] = todo[k]
        /\ UNCHANGED <<protected, req, done, hurt, rivals>>
    BY <1>4, RunFacts
  <2> HIDE DEF st
  <2>2. j \in Started
    BY <2>1 DEF Started
  <2>3. j \notin hurt /\ Clears(req[j]) /\ ClearedSoFar(j)
    BY <1>1, <2>1, <2>2
  <2>4. CASE j = r
    BY <1>4, <2>3, <2>4, RunClears
  <2>5. CASE j # r
    <3>1. r \in rivals'[j] /\ ~Judges(req[r])
      BY <2>1, <2>2, <2>5, RunsAsRival
    <3>2. ~IsLearn(st) /\ ~IsUnlearn(st)
      BY <2>1, <3>1 DEF Statement, Fits
    <3>3. learned' = learned
      BY <2>1, <3>2, LearnedAfter, Zenon DEF IInv, Tables, Learned
    <3>4. req'[j] = req[j] /\ todo'[j] = todo[j]
      BY <2>1, <2>5
    <3>5. QED
      BY <1>2, <2>3, <3>3, <3>4
  <2>6. QED
    BY <2>4, <2>5
<1>5. ASSUME NEW r \in Request, Fails(r) PROVE ClearedSoFar(j)'
  <2>1. /\ \A k \in Request \ {r} : todo'[k] = todo[k]
        /\ hurt' = hurt \cup {r}
        /\ UNCHANGED <<tables, protected, req, done, rivals>>
    BY <1>5, FailFacts
  <2>2. j # r /\ j \in Started /\ learned' = learned
    BY <2>1 DEF tables, Started
  <2>3. QED
    BY <1>1, <1>2, <2>1, <2>2
<1>6. CASE \E r \in Request : Answers(r)
  <2>1. UNCHANGED <<tables, protected, req, todo, hurt, rivals>>
    BY <1>6 DEF Answers
  <2>2. j \in Started /\ learned' = learned
    BY <2>1 DEF tables, Started
  <2>3. QED
    BY <1>1, <1>2, <2>1, <2>2
<1>7. CASE AddsDomain \/ UNCHANGED vars
  <2>1. UNCHANGED <<learned, req, todo, hurt, rivals>>
    BY <1>7, Zenon DEF AddsDomain, history, vars, tables
  <2>2. j \in Started
    BY <2>1 DEF Started
  <2>3. QED
    BY <1>1, <1>2, <2>1, <2>2
<1>8. QED
  BY <1>3, <1>4, <1>5, <1>6, <1>7 DEF Next

\* Mail declared wanted clears its sender: unless somebody judged mail of the
\* domain at the same time or later, only what was said of another subject can
\* still condemn the sender's mail (classifier.Learn, recordQuarantineNotSpam).
THEOREM SendersAreCleared == Spec => []ClearedIsCleared
<1>1. ASSUME IInv, ClearInv PROVE ClearedIsCleared
  <2> SUFFICES ASSUME NEW r \in Request, r \in Started, Clears(req[r]), Undisturbed(r, Judges),
                      NEW fp \in Subjects, Learnt(Mail[req[r].msg].from, fp) \in Threats
               PROVE  /\ fp \notin {Mail[req[r].msg].subject, NoWords}
                      /\ learned[<<Mail[req[r].msg].from, fp>>].verdict \in Threats
    BY DEF ClearedIsCleared
  <2> DEFINE from == Mail[req[r].msg].from
             own == Mail[req[r].msg].subject
             exact == learned[<<from, fp>>].verdict
             any == learned[<<from, NoWords>>].verdict
             domain == learned[<<All, NoWords>>]
  <2>1. done[r] /\ r \notin hurt /\ \A k \in rivals[r] : ~Judges(req[k])
    BY DEF Undisturbed
  <2>2. todo[r] = <<>>
    BY <1>1, <2>1 DEF IInv, Rivalry
  <2>3. NoUnlearn(todo[r]) /\ NoLearn(todo[r])
    BY <2>2, EmptyFacts DEF NoUnlearn, NoLearn
  <2>4. ClearedSoFar(r)
    BY <1>1, <2>1 DEF ClearInv
  <2>5. /\ learned[<<from, NoWords>>] = Unlearned /\ domain = Unlearned
        /\ own # NoWords => learned[<<from, own>>].verdict = "not_spam"
    BY <2>3, <2>4, Zenon DEF ClearedSoFar, Learns, Unlearns
  <2>6. Learnt(from, fp) = CASE exact # "none" -> exact
                             [] exact = "none" /\ any \in Threats -> any
                             [] OTHER -> IF Condemns(domain) THEN domain.verdict ELSE "none"
    BY Zenon DEF Learnt
  <2>7. any = "none" /\ ~Condemns(domain)
    BY <2>5 DEF Unlearned, Condemns, Threats
  <2> HIDE DEF exact, any, domain
  <2>8. exact \in Threats
    BY <2>6, <2>7 DEF Threats
  <2>9. fp = NoWords => exact = "none"
    BY <2>7, Zenon DEF exact, any
  <2>10. fp = own => fp = NoWords \/ exact = "not_spam"
    BY <2>5, Zenon DEF exact
  <2>11. fp # NoWords /\ fp # own
    BY <2>8, <2>9, <2>10 DEF Threats
  <2>12. QED
    BY <2>8, <2>11 DEF exact
<1>2. QED
  BY <1>1, Always, ClearInit, ClearStep, PTL DEF Spec

LEMMA SettleInit == Init => SettleInv
  BY DEF Init, SettleInv, Started

LEMMA SettleStep == IInv /\ SettleInv /\ [Next]_vars => SettleInv'
<1> SUFFICES ASSUME IInv, SettleInv, [Next]_vars, NEW j \in Request,
                    j \in Started', j \notin hurt', req'[j].kind = "held block"
             PROVE  Settled(j)'
  BY DEF SettleInv, Started
<1>1. ASSUME j \in Started, req'[j] = req[j], hurt \subseteq hurt'
      PROVE  j \notin hurt /\ Settled(j) /\ req[j].msg \in Messages
  <2>1. j \notin hurt /\ req[j].kind = "held block"
    BY <1>1
  <2>2. Settled(j)
    BY <1>1, <2>1 DEF SettleInv
  <2>3. req[j].msg \in Messages
    BY <1>1, <2>1 DEF IInv, Programs, Shape, OnMail, HeldKinds
  <2>4. QED
    BY <2>1, <2>2, <2>3
<1>2. ASSUME NEW r \in Request, Starts(r) PROVE Settled(j)'
  <2>1. /\ r \notin Started /\ Started' = Started \cup {r}
        /\ Knows(req'[r], todo'[r])
        /\ \A k \in Request \ {r} : req'[k] = req[k] /\ todo'[k] = todo[k]
        /\ \A k \in Started : rivals'[k] = rivals[k] \cup {r}
        /\ UNCHANGED <<tables, protected, done, hurt>>
    BY <1>2, StartFacts
  <2>2. CASE j = r
    BY <2>1, <2>2 DEF Knows, Settled
  <2>3. CASE j # r
    <3>1. j \in Started /\ req'[j] = req[j] /\ todo'[j] = todo[j]
      BY <2>1, <2>3
    <3>2. \A k \in rivals[j] : k \in rivals'[j] /\ req'[k] = req[k]
      BY <2>1, <3>1 DEF IInv, Rivalry
    <3>3. entry' = entry /\ class' = class /\ hurt' = hurt
      BY <2>1 DEF tables
    <3>4. Settled(j)
      BY <1>1, <3>1, <3>3
    <3>5. QED
      BY <3>1, <3>2, <3>3, <3>4 DEF Settled
  <2>4. QED
    BY <2>2, <2>3
<1>3. ASSUME NEW r \in Request, Runs(r) PROVE Settled(j)'
  <2> DEFINE st == Head(todo[r])
             rest == Tail(todo[r])
  <2>1. /\ r \in Started /\ ~done[r] /\ st \in Statement(req[r]) /\ st \in Stmt /\ Effect(st)
        /\ todo'[r] = rest /\ todo[r] # <<>> /\ todo[r] \in Seq(Statement(req[r]))
        /\ \A k \in Request \ {r} : todo'[k] = todo[k]
        /\ UNCHANGED <<protected, req, done, hurt, rivals>>
    BY <1>3, RunFacts
  <2>2. Elems(todo[r]) = {st} \cup Elems(rest)
    BY <2>1, TailFacts, Zenon
  <2> HIDE DEF st, rest
  <2>3. j \in Started /\ req'[j] = req[j]
    BY <2>1 DEF Started
  <2>4. Settled(j) /\ req[j].msg \in Messages
    BY <1>1, <2>1, <2>3
  <2>5. /\ \A m \in Messages :
             /\ entry[m] # "held" => entry'[m] # "held"
             /\ ~(IsClass(st) /\ st.msg = m) => class'[m] = class[m]
        /\ IsClass(st) => entry'[st.msg] # "held" \/ class'[st.msg] = "not_spam"
    BY <2>1, EntryAfter, Zenon DEF IInv
  <2>6. IsClass(st) => req[r].kind \in HeldKinds /\ st.msg = req[r].msg
    BY <2>1 DEF Statement, Fits
  <2>7. CASE j = r /\ IsClass(st)
    BY <2>3, <2>5, <2>6, <2>7 DEF Settled
  <2>8. CASE j = r /\ ~IsClass(st)
    <3>1. Classes(todo[j]) => Classes(todo'[j])
      BY <2>1, <2>2, <2>8, Zenon DEF Classes
    <3>2. QED
      BY <2>1, <2>3, <2>4, <2>5, <2>8, <3>1 DEF Settled
  <2>9. CASE j # r
    <3>1. r \in rivals[j]
      BY <2>1, <2>3, <2>9, RunsAsRival
    <3>2. CASE IsClass(st) /\ st.msg = req[j].msg
      BY <2>1, <2>6, <3>1, <3>2 DEF Settled
    <3>3. CASE ~(IsClass(st) /\ st.msg = req[j].msg)
      BY <2>1, <2>4, <2>5, <2>9, <3>3 DEF Settled
    <3>4. QED
      BY <3>2, <3>3
  <2>10. QED
    BY <2>7, <2>8, <2>9
<1>4. ASSUME NEW r \in Request, Fails(r) PROVE Settled(j)'
  <2>1. /\ \A k \in Request \ {r} : todo'[k] = todo[k]
        /\ hurt' = hurt \cup {r}
        /\ UNCHANGED <<tables, protected, req, done, rivals>>
    BY <1>4, FailFacts
  <2>2. j # r /\ j \in Started /\ entry' = entry /\ class' = class
    BY <2>1 DEF tables, Started
  <2>3. Settled(j)
    BY <1>1, <2>1, <2>2
  <2>4. QED
    BY <2>1, <2>2, <2>3 DEF Settled
<1>5. CASE \E r \in Request : Answers(r)
  <2>1. UNCHANGED <<tables, protected, req, todo, hurt, rivals>>
    BY <1>5 DEF Answers
  <2>2. j \in Started /\ entry' = entry /\ class' = class
    BY <2>1 DEF tables, Started
  <2>3. Settled(j)
    BY <1>1, <2>1, <2>2
  <2>4. QED
    BY <2>1, <2>2, <2>3 DEF Settled
<1>6. CASE AddsDomain \/ UNCHANGED vars
  <2>1. UNCHANGED <<entry, class, req, todo, hurt, rivals>>
    BY <1>6, Zenon DEF AddsDomain, history, vars, tables
  <2>2. j \in Started
    BY <2>1 DEF Started
  <2>3. Settled(j)
    BY <1>1, <2>1, <2>2
  <2>4. QED
    BY <2>1, <2>3 DEF Settled
<1>7. QED
  BY <1>2, <1>3, <1>4, <1>5, <1>6 DEF Next

\* Blocking the sender of a held message settles the entry, unless it carries
\* the verdict wanted (recordQuarantineVerdict, currentEntryVerdict).
THEOREM BlocksSettle == Spec => []BlockSettlesEntry
<1>1. ASSUME IInv, SettleInv PROVE BlockSettlesEntry
  <2> SUFFICES ASSUME NEW r \in Request, r \in Started, req[r].kind = "held block",
                      Undisturbed(r, LAMBDA q : q.kind \in HeldKinds /\ q.msg = req[r].msg)
               PROVE  entry[req[r].msg] # "held" \/ class[req[r].msg] = "not_spam"
    BY DEF BlockSettlesEntry
  <2>1. /\ done[r] /\ r \notin hurt
        /\ \A k \in rivals[r] : ~(req[k].kind \in HeldKinds /\ req[k].msg = req[r].msg)
    BY DEF Undisturbed
  <2>2. todo[r] = <<>>
    BY <1>1, <2>1 DEF IInv, Rivalry
  <2>3. ~Classes(todo[r])
    BY <2>2, EmptyFacts DEF Classes
  <2>4. Settled(r)
    BY <1>1, <2>1 DEF SettleInv
  <2>5. QED
    BY <2>1, <2>3, <2>4 DEF Settled
<1>2. QED
  BY <1>1, Always, SettleInit, SettleStep, PTL DEF Spec

\* Only the request about a copy overwrites a verdict somebody gave; the
\* correlation of a campaign fills in what was not reviewed (setVerdict).
THEOREM VerdictsAreOwn == Spec => VerdictIsOwn
<1> DEFINE Own == \A m \in Messages : row'[m] # row[m] /\ row[m] # "unreviewed" =>
                     \E r \in Request : /\ todo[r] # <<>> /\ todo'[r] # todo[r]
                                        /\ req[r].kind \in MailboxKinds /\ req[r].msg = m
<1>1. ASSUME IInv, [Next]_vars PROVE [Own]_vars
  <2>1. ASSUME NEW r \in Request, Runs(r) PROVE Own
    <3> DEFINE st == Head(todo[r])
    <3>1. /\ st \in Statement(req[r]) /\ st \in Stmt /\ Effect(st) /\ Possible(st)
          /\ todo'[r] # todo[r] /\ todo[r] # <<>>
      BY <1>1, <2>1, RunFacts
    <3> HIDE DEF st
    <3>2. \A m \in Messages : row'[m] # row[m] /\ row[m] # "unreviewed" =>
                st.op \in {"judge", "trash"} /\ st.msg = m
      BY <1>1, <3>1, RowAfter, Zenon DEF IInv, Tables
    <3>3. st.op \in {"judge", "trash"} => req[r].kind \in MailboxKinds /\ st.msg = req[r].msg
      BY <3>1 DEF Statement, Fits
    <3>4. QED
      BY <3>1, <3>2, <3>3
  <2>2. ASSUME NEW r \in Request, Starts(r) \/ Fails(r) \/ Answers(r) PROVE Own
    <3>1. row' = row
      BY <2>2 DEF Starts, Fails, Answers, tables
    <3>2. QED
      BY <3>1
  <2>3. CASE AddsDomain
    BY <2>3 DEF AddsDomain
  <2>4. CASE UNCHANGED vars
    BY <2>4
  <2>5. QED
    BY <1>1, <2>1, <2>2, <2>3, <2>4, Zenon DEF Next
<1>2. QED
  BY <1>1, Always, PTL DEF Spec, VerdictIsOwn

=============================================================================
