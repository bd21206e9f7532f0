------------------------------ MODULE Decisions ------------------------------
(***************************************************************************)
(* What people decide about mail, statement by statement: the mailbox, the *)
(* quarantine, the mail log and the sender list screens all write the same *)
(* three tables - sender rules, learned verdicts and quarantine entries -  *)
(* outside any transaction, each request as a sequence of statements.      *)
(* One recipient, whose mail comes from addresses of one sender domain.    *)
(***************************************************************************)
EXTENDS Integers, Sequences, FiniteSets

CONSTANTS
    Requests,  \* number of requests, numbered as they start
    Mail,      \* message -> what it is, see MailAssumption
    Verdicts,  \* verdicts that may be given besides not_spam
    ListScopes,\* scopes that rules of the sender list screen may have
    MayFail    \* may a statement fail?

Threats == {"spam", "phishing", "malware"}
NoWords == ""   \* the fingerprint of a subject without words
All == "*"      \* the pattern and learning key of the whole sender domain

Messages == DOMAIN Mail
Senders == {Mail[m].from : m \in Messages}
Subjects == {Mail[m].subject : m \in Messages} \cup {NoWords}

ASSUME RequestAssumption == Requests \in Nat /\ MayFail \in BOOLEAN
ASSUME MailAssumption ==
    \A m \in Messages :
        /\ {"from", "subject", "held", "pending", "campaign"} = DOMAIN Mail[m]
        /\ Mail[m].held \in BOOLEAN /\ Mail[m].pending \in BOOLEAN
        /\ Mail[m].pending => Mail[m].held
        /\ Mail[m].from # All
ASSUME ScopeAssumption ==
    /\ Verdicts \subseteq Threats \cup {"other", "unreviewed"}
    /\ ListScopes \subseteq {"system", "org", "domain", "user"}

VARIABLES
    rules,     \* list_entries
    learned,   \* user_mail_classifications: <<sender, fingerprint>> -> verdict and count
    row,       \* message -> verdict of the mailbox copy
    entry,     \* message -> state of the quarantine entry
    class,     \* message -> threat class of the entry, as a verdict
    protected, \* is the sender domain configured as a domain of its own?
    req,       \* request -> what it asks for
    todo,      \* request -> statements still to run
    \* history
    done,      \* request -> has it been answered?
    hurt,      \* requests of which a statement failed
    rivals     \* request -> the requests that ran with it or after it

vars == <<rules, learned, row, entry, class, protected, req, todo, done, hurt, rivals>>
tables == <<rules, learned, row, entry, class>>
history == <<done, hurt, rivals>>

Request == 1..Requests
NoRequest == [kind |-> "none"]
NoRule == [action |-> "none"]
Unlearned == [verdict |-> "none", count |-> 0]

\* A rule's key; own says whether domain_id names the recipient's domain.
Key(scope, own, pattern) == [scope |-> scope, own |-> own, pattern |-> pattern]
Rule(key, action) == [key |-> key, action |-> action]
-----------------------------------------------------------------------------
(***************************************************************************)
(* Requests, and the statements each of them runs.                         *)
(***************************************************************************)
MailboxKinds == {"mailbox verdict", "mailbox block", "mailbox allow", "mailbox delete"}
HeldKinds == {"held block", "held allow", "held not spam", "held verdict", "held release",
              "held delete"}
LogKinds == {"log block", "log not spam", "log release", "log delete"}

\* What a user's role makes of a rule: their own, or the organisation's.
RoleKey(role, pattern) == Key(IF role = "org_user" THEN "user" ELSE "org", FALSE, pattern)

\* UpsertUserDecision files an exact address under the recipient's domain as
\* well; the other ways of storing a user's rule leave the domain open.
RecipientKey(sender) == Key("user", TRUE, sender)

\* The rule a request stores: over the sender's address, or over its domain.
Over(q) == IF q.over = "sender" THEN Mail[q.msg].from ELSE All

MailboxRule(q) ==
    CASE q.kind = "mailbox block" ->
            Rule(IF q.over = "sender" /\ q.role = "org_user" THEN RecipientKey(Mail[q.msg].from)
                 ELSE RoleKey(q.role, Over(q)), "block")
      [] q.kind = "mailbox allow" -> Rule(RoleKey(q.role, All), "allow")
      [] OTHER -> NoRule

HeldRule(q) ==
    CASE q.kind = "held block" -> Rule(RoleKey(q.role, Over(q)), "block")
      [] q.kind \in {"held allow", "held not spam"} -> Rule(RoleKey(q.role, All), "allow")
      [] q.kind = "held release" /\ Mail[q.msg].pending ->
            Rule(RecipientKey(Mail[q.msg].from), "allow")
      [] OTHER -> NoRule

LogRule(q) ==
    CASE q.kind = "log block" -> MailboxRule([q EXCEPT !.kind = "mailbox block"])
      [] q.kind = "log not spam" -> Rule(RoleKey(q.role, All), "allow")
      [] OTHER -> NoRule

RuleOf(q) ==
    CASE q.kind = "list" -> q.rule
      [] q.kind \in MailboxKinds -> MailboxRule(q)
      [] q.kind \in HeldKinds -> HeldRule(q)
      [] q.kind \in LogKinds -> LogRule(q)
      [] OTHER -> NoRule

\* Mutant: the new rule is stored before the old one is removed.
StoreThenForget(rule) == <<[op |-> "store", rule |-> rule], [op |-> "forget", rule |-> rule]>>

\* UpsertDecision, UpsertUserDecision and upsertOrgSenderBlock.
Replace(rule) == <<[op |-> "forget", rule |-> rule], [op |-> "store", rule |-> rule]>>

\* insertBlockEntry adds a block of its own and removes nothing.
StoresRule(q) ==
    IF RuleOf(q) = NoRule THEN <<>>
    ELSE IF q.kind = "held block" /\ q.over = "sender" THEN <<[op |-> "store", rule |-> RuleOf(q)]>>
    ELSE Replace(RuleOf(q))

Upsert(from, fp, verdict, soft) ==
    <<[op |-> "learn", key |-> <<from, fp>>, verdict |-> verdict, soft |-> soft]>>

\* classifier.Learn; the mailbox only logs its failure.
Learn(m, verdict) ==
    LET from == Mail[m].from
        fp == Mail[m].subject
    IN  CASE verdict = "unreviewed" -> <<>>
          [] verdict = "not_spam" -> Upsert(from, fp, verdict, TRUE)
                                     \o <<[op |-> "unlearn", from |-> from, soft |-> TRUE]>>
          [] verdict \in Threats /\ fp # NoWords ->
                Upsert(from, fp, verdict, TRUE) \o Upsert(from, NoWords, verdict, TRUE)
                \o Upsert(All, NoWords, verdict, TRUE)
          [] OTHER -> Upsert(from, fp, verdict, TRUE)

\* A blocked sender's mail is never learned as wanted.
BlockedAs(verdict) == IF verdict = "not_spam" THEN "spam" ELSE verdict

\* recordQuarantineClassification; its failure is only logged as well.
LearnBlocked(m, verdict) ==
    LET from == Mail[m].from
        fp == Mail[m].subject
    IN  Upsert(from, fp, BlockedAs(verdict), TRUE)
        \o (IF fp = NoWords THEN <<>> ELSE Upsert(from, NoWords, BlockedAs(verdict), TRUE))
        \o Upsert(All, NoWords, BlockedAs(verdict), TRUE)

Classify(m, verdict) == <<[op |-> "class", msg |-> m, verdict |-> verdict]>>

\* recordQuarantineNotSpam.
LearnWanted(m) ==
    (IF Mail[m].subject = NoWords THEN <<>>
     ELSE Upsert(Mail[m].from, Mail[m].subject, "not_spam", FALSE))
    \o <<[op |-> "unlearn", from |-> Mail[m].from, soft |-> FALSE]>>
    \o Classify(m, "not_spam")

\* Only held copies, or the entry that was loaded, whatever became of it.
Release(m, loaded) == <<[op |-> "release", msg |-> m, loaded |-> loaded]>>
Discard(m, loaded) == <<[op |-> "discard", msg |-> m, loaded |-> loaded]>>

\* setVerdict: the copy, the other copies of its campaign, what is learned, and
\* the approval or denial of a message that was pending.
SetVerdict(m, verdict) ==
    <<[op |-> "judge", msg |-> m, verdict |-> verdict]>>
    \o (IF verdict \in {"phishing", "malware"}
        THEN <<[op |-> "correlate", msg |-> m, verdict |-> verdict]>> ELSE <<>>)
    \o Learn(m, verdict)
    \o (CASE Mail[m].pending /\ verdict = "not_spam" ->
                Replace(Rule(RecipientKey(Mail[m].from), "allow"))
          [] Mail[m].pending /\ verdict \in Threats ->
                Replace(Rule(RecipientKey(Mail[m].from), "block")) \o Discard(m, FALSE)
          [] OTHER -> <<>>)
    \o (IF verdict = "not_spam" THEN Release(m, FALSE) ELSE <<>>)

\* The verdict a block passes on: given with it, or the entry's class.
VerdictOf(q) == IF q.verdict = "current" THEN class[q.msg] ELSE q.verdict

\* The verdict of a copy, and of an entry, as it is given.
JudgesCopy(q) == SetVerdict(q.msg, q.verdict)
JudgesEntry(q) == Classify(q.msg, q.verdict)

\* The statements of a request, on what it has loaded: one program a screen.
MailboxProgram(q) ==
    LET m == q.msg
    IN  CASE q.kind = "mailbox verdict" -> JudgesCopy(q)
          [] q.kind = "mailbox block" -> StoresRule(q) \o SetVerdict(m, "spam")
          [] q.kind = "mailbox allow" -> StoresRule(q) \o SetVerdict(m, "not_spam")
          [] OTHER -> <<[op |-> "trash", msg |-> m]>>

HeldProgram(q) ==
    LET m == q.msg
    IN  CASE q.kind = "held block" -> StoresRule(q) \o LearnBlocked(m, VerdictOf(q))
                                      \o Classify(m, VerdictOf(q))
          [] q.kind = "held allow" -> StoresRule(q) \o LearnWanted(m)
          [] q.kind = "held not spam" ->
                (IF entry[m] = "held" THEN Release(m, TRUE) ELSE <<>>)
                \o StoresRule(q) \o LearnWanted(m)
          [] q.kind = "held verdict" -> JudgesEntry(q)
          [] q.kind = "held release" -> StoresRule(q) \o Release(m, TRUE)
          [] OTHER -> Discard(m, TRUE)

LogProgram(q) ==
    StoresRule(q) \o (IF q.kind \in {"log release", "log not spam"} THEN Release(q.msg, FALSE)
                      ELSE Discard(q.msg, FALSE))

Program(q) ==
    CASE q.kind = "list" -> StoresRule(q)
      [] q.kind \in MailboxKinds -> MailboxProgram(q)
      [] q.kind \in HeldKinds -> HeldProgram(q)
      [] q.kind \in LogKinds -> LogProgram(q)
      [] OTHER -> <<[op |-> "undo", rule |-> q.rule]>>

\* Requests about a message; a bulk request is one for each message.
About(kinds, roles, overs, verdicts) ==
    [kind : kinds, msg : Messages, role : roles, over : overs, verdict : verdicts]

Roles == {"org_user", "org_admin"}
ListRules ==
    {u \in [key : [scope : ListScopes, own : BOOLEAN, pattern : Senders \cup {All}],
            action : {"allow", "block"}] : u.key.own <=> u.key.scope = "domain"}

\* Requests the screens can send.
Asked ==
    About({"mailbox verdict"}, {"org_user"}, {"sender"}, Verdicts \cup {"not_spam"})
    \cup About({"mailbox delete", "held release", "held delete", "log release", "log delete"},
               {"org_user"}, {"sender"}, {"current"})
    \cup About({"held verdict"}, {"org_user"}, {"sender"}, Verdicts \ {"unreviewed"})
    \cup About({"mailbox allow", "held allow", "held not spam", "log not spam"},
               Roles, {"domain"}, {"current"})
    \cup About({"mailbox block", "log block"}, Roles, {"sender", "domain"}, {"current"})
    \cup About({"held block"}, Roles, {"sender", "domain"},
               ({"current"} \cup Verdicts) \ {"unreviewed"})
    \cup [kind : {"list"}, rule : ListRules]
    \cup [kind : {"undo"}, rule : rules]

\* What the handlers refuse: mail that is not there, or a block of a protected domain.
Accepts(q) ==
    /\ q.kind \in MailboxKinds => row[q.msg] # "gone" /\ entry[q.msg] # "held"
    /\ q.kind \in HeldKinds => entry[q.msg] # "none"
    /\ q.kind = "held release" => entry[q.msg] = "held"
    /\ RuleOf(q).action = "block" => ~(protected /\ RuleOf(q).key.pattern = All)
-----------------------------------------------------------------------------
Init ==
    /\ rules = {}
    /\ learned = [k \in (Senders \cup {All}) \X Subjects |-> Unlearned]
    /\ row = [m \in Messages |-> IF Mail[m].held THEN "gone" ELSE "unreviewed"]
    /\ entry = [m \in Messages |-> IF Mail[m].held THEN "held" ELSE "none"]
    /\ class = [m \in Messages |-> "spam"]
    /\ protected = FALSE
    /\ req = [r \in Request |-> NoRequest]
    /\ todo = [r \in Request |-> <<>>]
    /\ done = [r \in Request |-> FALSE]
    /\ hurt = {}
    /\ rivals = [r \in Request |-> {}]

Started == {r \in Request : req[r] # NoRequest}

\* A request is checked and loads what it works on.
Starts(r) ==
    /\ r \notin Started /\ \A k \in 1..(r - 1) : k \in Started
    /\ \E q \in Asked :
        /\ Accepts(q)
        /\ req' = [req EXCEPT ![r] = q]
        /\ todo' = [todo EXCEPT ![r] = Program(q)]
    /\ rivals' = [k \in Request |-> IF k \in Started THEN rivals[k] \cup {r}
                                    ELSE IF k = r THEN {j \in Started : ~done[j]} ELSE rivals[k]]
    /\ UNCHANGED <<tables, protected, done, hurt>>

Forgotten(st) == {u \in rules : u.key = st.rule.key}

\* The trigger on list_entries looks at the domains once more.
MayStore(st) == ~(protected /\ st.rule.action = "block" /\ st.rule.key.pattern = All)

\* upsert: the latest verdict, and one more sample (two are enough to tell).
Sampled(old, verdict) == [verdict |-> verdict, count |-> IF old.count = 0 THEN 1 ELSE 2]

\* Mutant: what was said of the sender as such stays.
UnlearnedDomain(st) == {<<All, NoWords>>}

UnlearnedKeys(st) == {<<st.from, NoWords>>, <<All, NoWords>>}

\* Mutant: every copy of the campaign.
AnyRelated(st) == {m \in Messages : Mail[m].campaign = Mail[st.msg].campaign /\ row[m] # "gone"}

Related(st) ==
    {m \in Messages \ {st.msg} : Mail[m].campaign = Mail[st.msg].campaign /\ row[m] = "unreviewed"}

\* Mutant: an entry keeps its state.
StateKept(old, verdict) == old

StateAfter(old, verdict) == IF verdict # "not_spam" /\ old = "held" THEN "deleted" ELSE old

\* One statement.
Effect(st) ==
    /\ rules' = CASE st.op = "forget" -> rules \ Forgotten(st)
                  [] st.op = "store" -> rules \cup {st.rule}
                  [] st.op = "undo" -> rules \ {st.rule}
                  [] OTHER -> rules
    /\ learned' = CASE st.op = "learn" -> [learned EXCEPT ![st.key] = Sampled(@, st.verdict)]
                    [] st.op = "unlearn" ->
                        [k \in DOMAIN learned |->
                            IF k \in UnlearnedKeys(st) THEN Unlearned ELSE learned[k]]
                    [] OTHER -> learned
    /\ row' = CASE st.op = "judge" -> [row EXCEPT ![st.msg] = st.verdict]
                [] st.op = "correlate" ->
                    [m \in Messages |-> IF m \in Related(st) THEN st.verdict ELSE row[m]]
                [] st.op = "trash" -> [row EXCEPT ![st.msg] = "gone"]
                [] OTHER -> row
    /\ entry' = CASE st.op = "class" -> [entry EXCEPT ![st.msg] = StateAfter(@, st.verdict)]
                  [] st.op = "release" /\ (st.loaded \/ entry[st.msg] = "held") ->
                        [entry EXCEPT ![st.msg] = "released"]
                  [] st.op = "discard" /\ (st.loaded \/ entry[st.msg] = "held") ->
                        [entry EXCEPT ![st.msg] = "deleted"]
                  [] OTHER -> entry
    /\ class' = IF st.op = "class" THEN [class EXCEPT ![st.msg] = st.verdict] ELSE class

\* A judged copy may be gone by now, and a protected domain cannot be blocked.
Possible(st) ==
    /\ st.op = "judge" => row[st.msg] # "gone"
    /\ st.op = "store" => MayStore(st)

Runs(r) ==
    /\ todo[r] # <<>> /\ Possible(Head(todo[r]))
    /\ Effect(Head(todo[r]))
    /\ todo' = [todo EXCEPT ![r] = Tail(@)]
    /\ UNCHANGED <<protected, req, history>>

\* A failed statement ends the request; what is only logged, or counted as one
\* failed copy, lets it go on without the rest of what it was to learn, which
\* is what comes next.
Soft(st) ==
    CASE st.op \in {"learn", "unlearn"} -> st.soft
      [] st.op \in {"release", "discard"} -> ~st.loaded
      [] OTHER -> FALSE

LeftAfter(r) ==
    LET rest == Tail(todo[r])
        toLearn == {i \in DOMAIN rest : rest[i].op \in {"learn", "unlearn"}}
    IN  IF ~Soft(Head(todo[r])) THEN <<>>
        ELSE SubSeq(rest, Cardinality(toLearn) + 1, Len(rest))

Fails(r) ==
    /\ todo[r] # <<>> /\ (MayFail \/ ~Possible(Head(todo[r])))
    /\ todo' = [todo EXCEPT ![r] = LeftAfter(r)]
    /\ hurt' = hurt \cup {r}
    /\ UNCHANGED <<tables, protected, req, done, rivals>>

Answers(r) ==
    /\ r \in Started /\ todo[r] = <<>> /\ ~done[r]
    /\ done' = [done EXCEPT ![r] = TRUE]
    /\ UNCHANGED <<tables, protected, req, todo, hurt, rivals>>

\* An administrator adds the sender domain; a trigger drops the blocks of it.
AddsDomain ==
    /\ ~protected /\ protected' = TRUE
    /\ rules' = {u \in rules : u.action # "block" \/ u.key.pattern # All}
    /\ UNCHANGED <<learned, row, entry, class, req, todo, history>>

Next == (\E r \in Request : Starts(r) \/ Runs(r) \/ Fails(r) \/ Answers(r)) \/ AddsDomain

Spec == Init /\ [][Next]_vars
-----------------------------------------------------------------------------
(***************************************************************************)
(* What the ingest handler makes of the tables.                            *)
(***************************************************************************)

\* Mutant: an allow rule is preferred.
AllowFirst(sender) ==
    LET actions == {u.action : u \in {v \in rules : v.key.pattern \in {sender, All}}}
    IN  IF "allow" \in actions THEN "allow" ELSE IF "block" \in actions THEN "block" ELSE "none"

\* lookupSenderListAddress: any block that matches wins.
Effective(sender) ==
    LET actions == {u.action : u \in {v \in rules : v.key.pattern \in {sender, All}}}
    IN  IF "block" \in actions THEN "block" ELSE IF "allow" \in actions THEN "allow" ELSE "none"

\* lookupDomain.
Condemns(sample) == sample.verdict \in Threats /\ sample.count >= 2

\* classifier.Lookup: the subject, the sender's threats, the domain's threats.
Learnt(sender, fp) ==
    LET exact == learned[<<sender, fp>>].verdict
        any == learned[<<sender, NoWords>>].verdict
        domain == learned[<<All, NoWords>>]
    IN  CASE exact # "none" -> exact
          [] exact = "none" /\ any \in Threats -> any
          [] OTHER -> IF Condemns(domain) THEN domain.verdict ELSE "none"
-----------------------------------------------------------------------------
\* Every variable stays in its domain.
TypeOK ==
    /\ \A u \in rules : /\ u.key \in [scope : {"system", "org", "domain", "user"},
                                      own : BOOLEAN, pattern : Senders \cup {All}]
                        /\ u.action \in {"allow", "block"}
    /\ \A k \in DOMAIN learned : /\ learned[k].verdict \in Threats \cup {"none", "not_spam", "other"}
                                 /\ learned[k].count \in 0..2
    /\ row \in [Messages -> Threats \cup {"unreviewed", "not_spam", "other", "gone"}]
    /\ entry \in [Messages -> {"none", "held", "released", "deleted"}]
    /\ class \in [Messages -> Threats \cup {"not_spam", "other"}]
    /\ protected \in BOOLEAN /\ hurt \subseteq Started
    /\ \A r \in Request : (todo[r] # <<>> \/ done[r]) => r \in Started

\* Answered without a failure, and no other request that may have changed its mind.
Undisturbed(r, Meddles(_)) ==
    done[r] /\ r \notin hurt /\ \A k \in rivals[r] : ~Meddles(req[k])

OnKey(key, q) == q.kind = "undo" \/ (RuleOf(q) # NoRule /\ RuleOf(q).key = key)
Decided(r) ==
    r \in Started /\ req[r].kind # "undo" /\ RuleOf(req[r]) # NoRule
    /\ Undisturbed(r, LAMBDA q : OnKey(RuleOf(req[r]).key, q))
Withdrawn(rule) == protected /\ rule.action = "block" /\ rule.key.pattern = All

\* Mail of a blocked sender stays out, whatever other rules say and whatever
\* other keys are decided at the same time (lookupSenderListAddress).
BlockTakesEffect ==
    \A r \in Request : Decided(r) /\ RuleOf(req[r]).action = "block" /\ ~Withdrawn(RuleOf(req[r])) =>
        \A s \in Senders : RuleOf(req[r]).key.pattern \in {s, All} => Effective(s) = "block"

\* Between removing the old rule and storing the new one there is none; apart
\* from that moment only a failing statement loses a decision (UpsertDecision
\* runs the two outside any transaction).
DecisionSurvives ==
    \A r \in Request :
        LET rule == RuleOf(req[r])
            Replacing(k) == k \in hurt \/ (todo[k] # <<>> /\ Head(todo[k]).op = "store")
        IN  (r \in Started /\ done[r] /\ r \notin hurt /\ req[r].kind # "undo" /\ rule # NoRule)
            => \/ \E u \in rules : u.key = rule.key
               \/ protected /\ rule.key.pattern = All
               \/ \E k \in rivals[r] :
                    \/ req[k].kind = "undo"
                    \/ RuleOf(req[k]) # NoRule /\ RuleOf(req[k]).key = rule.key /\ Replacing(k)

Clears(q) == \/ q.kind \in {"mailbox allow", "held allow", "held not spam"}
             \/ q.kind = "mailbox verdict" /\ q.verdict = "not_spam"
Judges(q) == \/ Clears(q) \/ q.kind \in {"mailbox block", "held block"}
             \/ q.kind = "mailbox verdict" /\ q.verdict # "unreviewed"

\* Mail declared wanted clears its sender: only what was said of another
\* subject can still condemn that sender's mail.
ClearedIsCleared ==
    \A r \in Request : r \in Started /\ Clears(req[r]) /\ Undisturbed(r, Judges) =>
        LET from == Mail[req[r].msg].from
        IN  \A fp \in Subjects : Learnt(from, fp) \in Threats =>
                /\ fp \notin {Mail[req[r].msg].subject, NoWords}
                /\ learned[<<from, fp>>].verdict \in Threats

\* Only the request about a copy overwrites a verdict somebody gave; the
\* correlation of a campaign fills in what was not reviewed.
VerdictIsOwn ==
    [][\A m \in Messages : row'[m] # row[m] /\ row[m] # "unreviewed" =>
        \E r \in Request : /\ todo[r] # <<>> /\ todo'[r] # todo[r]
                           /\ req[r].kind \in MailboxKinds /\ req[r].msg = m]_vars

\* Blocking the sender of a held message settles it - unless the message was
\* marked as wanted before: then it stays held (currentEntryVerdict).
BlockSettlesEntry ==
    \A r \in Request :
        r \in Started /\ req[r].kind = "held block"
        /\ Undisturbed(r, LAMBDA q : q.kind \in HeldKinds /\ q.msg = req[r].msg)
        => entry[req[r].msg] # "held" \/ class[req[r].msg] = "not_spam"
=============================================================================
