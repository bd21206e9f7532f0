---------------------------- MODULE AccountsProofs ----------------------------
(***************************************************************************)
(* TLAPS proofs about Accounts, for any organisations, people, requests    *)
(* and failures.                                                           *)
(***************************************************************************)
EXTENDS Accounts, FiniteSetTheorems, SequenceTheorems, TLAPS

RowFields == [here : {"no", "yes", "gone"}, active : BOOLEAN, role : Roles, password : Nat,
              secret : Nat, enrolled : BOOLEAN, proved : Nat, crossed : BOOLEAN]
SessionRow == [user : Users, by : Users \cup {Nobody}, live : BOOLEAN, password : Nat,
               late : BOOLEAN, owner : Users]
OfOrgs == {"create org", "delete org"}
Outside == {"login", "challenge", "code"}
Writing == {"setup", "confirm", "disable", "password", "reset codes", "update", "create", "delete"}

Statements == {"admit", "open", "revoke", "set secret", "enrol", "clear codes", "set password",
               "sweep", "update", "insert", "delete", "insert org", "delete org"}

\* A request that has begun, while n sessions have been opened.
Asks(q, n) ==
    /\ q = [kind |-> q.kind, ask |-> q.ask, who |-> q.who, password |-> q.password,
            read |-> q.read]
    /\ q.kind \in AllKinds /\ q.ask.kind = q.kind /\ q.password \in Nat /\ q.read \in Nat
    /\ q.kind \notin OfOrgs => q.ask.user \in Users
    /\ q.kind \in OfOrgs => q.ask.org \in Orgs
    /\ q.kind = "update" => q.ask.role \in Roles \cup {"same"} /\ q.ask.active \in BOOLEAN
    /\ q.who.user \in Users \cup {Nobody} /\ q.who.by \in Users \cup {Nobody}
    /\ q.kind \in Outside <=> q.who.session = 0
    /\ q.kind \notin Outside => q.who.user \in Users /\ q.who.session \in 1..n
    /\ q.kind = "stop" => q.who.by # Nobody

\* A statement of a request of a kind, and what is left to run of one.
Suits(st, kind) ==
    /\ st \in Statements
    /\ st \in RowStatements \cup {"sweep", "insert", "delete"} => kind \notin OfOrgs
    /\ st \in RowStatements \cup {"insert", "delete"} => kind \in Writing
    /\ st = "update" => kind = "update"
    /\ st = "insert" => kind = "create"
    /\ st = "insert org" => kind = "create org"
    /\ st = "open" => kind \in {"login", "code", "start", "stop"}
    /\ st \in {"revoke", "admit"} => kind \notin Outside

Changes(st) == st = "set password"
Ends(st) == st = "sweep"

Fits(t, kind) ==
    /\ t \in Seq(Statements)
    /\ \A i \in 1..Len(t) : /\ Suits(t[i], kind)
                            /\ Changes(t[i]) => i < Len(t) /\ Ends(t[i + 1])

Domains ==
    /\ account \in [Users -> RowFields]
    /\ sessions \in Seq(SessionRow)
    /\ used \in Nat
    /\ DOMAIN req = Request /\ DOMAIN todo = Request
    /\ \A r \in Request : /\ r \in Started => Asks(req[r], Len(sessions))
                          /\ Fits(todo[r], req[r].kind)
                          /\ r \notin Started => todo[r] = <<>>
-----------------------------------------------------------------------------
(***************************************************************************)
(* Sequences.                                                              *)
(***************************************************************************)
LEMMA NotEmpty ==
    ASSUME NEW S, NEW t \in Seq(S)
    PROVE /\ Len(t) > 0 => t # <<>> /\ Head(t) = t[1]
          /\ t # <<>> => Len(t) \in Nat \ {0}
  BY EmptySeq

LEMMA FitsOn ==
    ASSUME NEW t, NEW kind, Fits(t, kind), t # <<>>
    PROVE /\ Fits(Tail(t), kind) /\ Suits(Head(t), kind)
          /\ Changes(Head(t)) => Tail(t) # <<>> /\ Ends(Head(Tail(t)))
<1>1. t \in Seq(Statements) /\ Len(t) \in Nat \ {0}
  BY EmptySeq DEF Fits
<1>2. /\ Tail(t) \in Seq(Statements) /\ Len(Tail(t)) = Len(t) - 1 /\ Head(t) = t[1]
      /\ \A i \in 1..Len(Tail(t)) : Tail(t)[i] = t[i + 1]
  BY <1>1
<1>3. 1 \in 1..Len(t) /\ \A i \in 1..Len(Tail(t)) : i + 1 \in 1..Len(t)
  BY <1>1, <1>2
<1>4. ASSUME NEW i \in 1..Len(Tail(t))
      PROVE /\ Suits(Tail(t)[i], kind)
            /\ Changes(Tail(t)[i]) => i < Len(Tail(t)) /\ Ends(Tail(t)[i + 1])
  <2>1. Suits(t[i + 1], kind) /\ Tail(t)[i] = t[i + 1]
    BY <1>2, <1>3 DEF Fits
  <2>2. Changes(t[i + 1]) => i + 1 < Len(t) /\ Ends(t[(i + 1) + 1])
    BY <1>3 DEF Fits
  <2>3. i + 1 < Len(t) => Tail(t)[i + 1] = t[(i + 1) + 1]
    BY <1>1, <1>2
  <2>4. QED
    BY <1>1, <1>2, <2>1, <2>2, <2>3
<1>5. Fits(Tail(t), kind)
  BY <1>2, <1>4 DEF Fits
<1>6. Changes(Head(t)) => Tail(t) # <<>> /\ Ends(Head(Tail(t)))
  <2> SUFFICES ASSUME Changes(Head(t)) PROVE Tail(t) # <<>> /\ Ends(Head(Tail(t)))
    OBVIOUS
  <2>1. 1 < Len(t) /\ Ends(t[1 + 1])
    BY <1>2, <1>3 DEF Fits
  <2>2. Len(Tail(t)) > 0 /\ Tail(t)[1] = t[1 + 1]
    BY <1>1, <1>2, <2>1
  <2>3. Tail(t) # <<>> /\ Head(Tail(t)) = Tail(t)[1]
    BY <1>2, <2>2, NotEmpty
  <2>4. QED
    BY <2>1, <2>2, <2>3
<1>7. QED
  BY <1>2, <1>3, <1>5, <1>6 DEF Fits

LEMMA NothingFits == \A kind : Fits(<<>>, kind)
  BY DEF Fits

LEMMA Three ==
    ASSUME NEW a, NEW b, NEW c, NEW kind, Suits(a, kind), Suits(b, kind), Suits(c, kind),
           ~Changes(a), ~Changes(c), Changes(b) => Ends(c)
    PROVE Fits(<<a, b, c>>, kind)
<1> DEFINE t == <<a, b, c>>
<1>1. a \in Statements /\ b \in Statements /\ c \in Statements
  BY DEF Suits
<1>2. t \in Seq(Statements) /\ Len(t) = 3 /\ t[1] = a /\ t[2] = b /\ t[3] = c
  BY <1>1
<1> HIDE DEF t
<1>3. ASSUME NEW i \in 1..3
      PROVE Suits(t[i], kind) /\ (Changes(t[i]) => i < 3 /\ Ends(t[i + 1]))
  <2>1. CASE i = 1
    BY <1>2, <2>1
  <2>2. CASE i = 2
    <3>1. t[i + 1] = c
      BY <1>2, <2>2
    <3>2. QED
      BY <1>2, <2>2, <3>1
  <2>3. CASE i = 3
    BY <1>2, <2>3
  <2>4. QED
    BY <2>1, <2>2, <2>3
<1>4. Fits(t, kind)
  BY <1>2, <1>3 DEF Fits
<1>5. QED
  BY <1>4 DEF t

LEMMA Two ==
    ASSUME NEW a, NEW b, NEW kind, Suits(a, kind), Suits(b, kind),
           ~Changes(a), ~Changes(b)
    PROVE Fits(<<a, b>>, kind)
<1> DEFINE t == <<a, b>>
<1>1. a \in Statements /\ b \in Statements
  BY DEF Suits
<1>2. t \in Seq(Statements) /\ Len(t) = 2 /\ t[1] = a /\ t[2] = b
  BY <1>1
<1> HIDE DEF t
<1>3. ASSUME NEW i \in 1..2 PROVE Suits(t[i], kind) /\ ~Changes(t[i])
  BY <1>2
<1>4. Fits(t, kind)
  BY <1>2, <1>3 DEF Fits
<1>5. QED
  BY <1>4 DEF t

LEMMA One ==
    ASSUME NEW a, NEW kind, Suits(a, kind), ~Changes(a)
    PROVE Fits(<<a>>, kind)
<1> DEFINE t == <<a>>
<1>1. a \in Statements
  BY DEF Suits
<1>2. t \in Seq(Statements) /\ Len(t) = 1 /\ t[1] = a
  BY <1>1
<1> HIDE DEF t
<1>3. ASSUME NEW i \in 1..1 PROVE Suits(t[i], kind) /\ ~Changes(t[i])
  BY <1>2
<1>4. Fits(t, kind)
  BY <1>2, <1>3 DEF Fits
<1>5. QED
  BY <1>4 DEF t

LEMMA ProgramFits == ASSUME NEW kind \in AllKinds PROVE Fits(Program(kind), kind)
<1> USE DEF Statements, RowStatements, OfOrgs, Outside, Writing
<1>1. CASE kind \in {"login", "code"}
  <2>1. Suits("open", kind)
    BY <1>1 DEF Suits
  <2>2. ~Changes("open")
    BY DEF Changes, Ends
  <2>3. Program(kind) = <<"open">>
    BY <1>1 DEF Program, Swaps, SetsPassword
  <2>4. QED
    BY <2>1, <2>2, <2>3, One
<1>2. CASE kind \in {"start", "stop"}
  <2>1. Suits("admit", kind) /\ Suits("revoke", kind) /\ Suits("open", kind)
    BY <1>2 DEF Suits
  <2>2. ~Changes("admit") /\ ~Changes("revoke") /\ ~Changes("open")
    BY DEF Changes, Ends
  <2>3. Program(kind) = <<"admit", "revoke", "open">>
    BY <1>2 DEF Program, Swaps, SetsPassword
  <2>4. QED
    BY <2>1, <2>2, <2>3, Three
<1>3. CASE kind = "logout"
  <2>1. Suits("revoke", kind)
    BY <1>3 DEF Suits
  <2>2. ~Changes("revoke")
    BY DEF Changes, Ends
  <2>3. Program(kind) = <<"revoke">>
    BY <1>3 DEF Program, Swaps, SetsPassword
  <2>4. QED
    BY <2>1, <2>2, <2>3, One
<1>4. CASE kind = "setup"
  <2>1. Suits("set secret", kind)
    BY <1>4 DEF Suits
  <2>2. ~Changes("set secret")
    BY DEF Changes, Ends
  <2>3. Program(kind) = <<"set secret">>
    BY <1>4 DEF Program, Swaps, SetsPassword
  <2>4. QED
    BY <2>1, <2>2, <2>3, One
<1>5. CASE kind = "confirm"
  <2>1. Suits("admit", kind) /\ Suits("enrol", kind)
    BY <1>5 DEF Suits
  <2>2. ~Changes("admit") /\ ~Changes("enrol")
    BY DEF Changes, Ends
  <2>3. Program(kind) = <<"admit", "enrol">>
    BY <1>5 DEF Program, Swaps, SetsPassword
  <2>4. QED
    BY <2>1, <2>2, <2>3, Two
<1>6. CASE kind = "disable"
  <2>1. Suits("admit", kind) /\ Suits("clear codes", kind)
    BY <1>6 DEF Suits
  <2>2. ~Changes("admit") /\ ~Changes("clear codes")
    BY DEF Changes, Ends
  <2>3. Program(kind) = <<"admit", "clear codes">>
    BY <1>6 DEF Program, Swaps, SetsPassword
  <2>4. QED
    BY <2>1, <2>2, <2>3, Two
<1>7. CASE kind = "password"
  <2>1. Suits("admit", kind) /\ Suits("set password", kind) /\ Suits("sweep", kind)
    BY <1>7 DEF Suits
  <2>2. ~Changes("admit") /\ Ends("sweep") /\ ~Changes("sweep")
    BY DEF Changes, Ends
  <2>3. Program(kind) = <<"admit", "set password", "sweep">>
    BY <1>7 DEF Program, Swaps, SetsPassword
  <2>4. QED
    BY <2>1, <2>2, <2>3, Three
<1>8. CASE kind = "reset codes"
  <2>1. Suits("admit", kind) /\ Suits("clear codes", kind) /\ Suits("sweep", kind)
    BY <1>8 DEF Suits
  <2>2. ~Changes("admit") /\ ~Changes("clear codes") /\ ~Changes("sweep")
    BY DEF Changes, Ends
  <2>3. Program(kind) = <<"admit", "clear codes", "sweep">>
    BY <1>8 DEF Program, Swaps, SetsPassword
  <2>4. QED
    BY <2>1, <2>2, <2>3, Three
<1>9. CASE kind = "update"
  <2>1. Suits("admit", kind) /\ Suits("update", kind)
    BY <1>9 DEF Suits
  <2>2. ~Changes("admit") /\ ~Changes("update")
    BY DEF Changes, Ends
  <2>3. Program(kind) = <<"admit", "update">>
    BY <1>9 DEF Program, Swaps, SetsPassword
  <2>4. QED
    BY <2>1, <2>2, <2>3, Two
<1>10. CASE kind = "create"
  <2>1. Suits("admit", kind) /\ Suits("insert", kind)
    BY <1>10 DEF Suits
  <2>2. ~Changes("admit") /\ ~Changes("insert")
    BY DEF Changes, Ends
  <2>3. Program(kind) = <<"admit", "insert">>
    BY <1>10 DEF Program, Swaps, SetsPassword
  <2>4. QED
    BY <2>1, <2>2, <2>3, Two
<1>11. CASE kind = "delete"
  <2>1. Suits("admit", kind) /\ Suits("delete", kind)
    BY <1>11 DEF Suits
  <2>2. ~Changes("admit") /\ ~Changes("delete")
    BY DEF Changes, Ends
  <2>3. Program(kind) = <<"admit", "delete">>
    BY <1>11 DEF Program, Swaps, SetsPassword
  <2>4. QED
    BY <2>1, <2>2, <2>3, Two
<1>12. CASE kind = "create org"
  <2>1. Suits("admit", kind) /\ Suits("insert org", kind)
    BY <1>12 DEF Suits
  <2>2. ~Changes("admit") /\ ~Changes("insert org")
    BY DEF Changes, Ends
  <2>3. Program(kind) = <<"admit", "insert org">>
    BY <1>12 DEF Program, Swaps, SetsPassword
  <2>4. QED
    BY <2>1, <2>2, <2>3, Two
<1>13. CASE kind = "delete org"
  <2>1. Suits("delete org", kind)
    BY <1>13 DEF Suits
  <2>2. ~Changes("delete org")
    BY DEF Changes, Ends
  <2>3. Program(kind) = <<"delete org">>
    BY <1>13 DEF Program, Swaps, SetsPassword
  <2>4. QED
    BY <2>1, <2>2, <2>3, One
<1>14. CASE kind = "challenge"
  BY <1>14, NothingFits DEF Program
<1>15. QED
  BY <1>1, <1>2, <1>3, <1>4, <1>5, <1>6, <1>7, <1>8, <1>9, <1>10, <1>11, <1>12, <1>13, <1>14
     DEF AllKinds, Self, Managing

LEMMA Sequence ==
    ASSUME NEW S, NEW n \in Nat, NEW f \in [1..n -> S]
    PROVE f \in Seq(S) /\ Len(f) = n /\ DOMAIN f = 1..n
<1>1. f \in Seq(S)
  BY SeqDef
<1>2. QED
  BY <1>1, LenProperties

LEMMA Sessions ==
    ASSUME Domains
    PROVE /\ Len(sessions) \in Nat /\ DOMAIN sessions = 1..Len(sessions)
          /\ sessions \in [1..Len(sessions) -> SessionRow]
          /\ \A s \in DOMAIN sessions : sessions[s] \in SessionRow
<1>1. sessions \in Seq(SessionRow)
  BY DEF Domains
<1>2. QED
  BY <1>1, LenProperties
-----------------------------------------------------------------------------
(***************************************************************************)
(* Types.                                                                  *)
(***************************************************************************)
LEMMA Started1 ==
    ASSUME Domains, NEW r \in Request
    PROVE /\ r \in Started <=> req[r] # NoRequest
          /\ r \in Started => Asks(req[r], Len(sessions)) /\ req[r].kind \in AllKinds
          /\ Fits(todo[r], req[r].kind)
          /\ todo[r] # <<>> => r \in Started
  BY DEF Domains, Started, Asks

LEMMA TargetIn ==
    ASSUME Domains, NEW r \in Request, r \in Started, req[r].kind \notin OfOrgs
    PROVE Target(r) \in Users
<1>1. Asks(req[r], Len(sessions))
  BY Started1
<1>2. QED
  BY <1>1 DEF Asks, Target, Self, Outside

\* A row, and everything it is made of.
LEMMA Rows ==
    ASSUME NEW u \in Users, NEW here \in {"no", "yes", "gone"}, NEW enrolled \in BOOLEAN
    PROVE /\ Row(u, here, enrolled) \in RowFields
          /\ Row(u, here, enrolled).here = here /\ Row(u, here, enrolled).enrolled = enrolled
          /\ Row(u, here, enrolled).secret = Row(u, here, enrolled).proved
          /\ Row(u, here, enrolled).password = 1
          /\ Row(u, here, enrolled).active => here = "yes"
          /\ Row(u, here, enrolled).secret \in {0, 1}
<1>1. People[u].role \in Roles
  BY PeopleAssumption
<1>2. QED
  BY <1>1 DEF Row, RowFields, NoSecret

\* Every account of the start is signed in once.
LEMMA SignedInOrder == SignedIn \in [1..Cardinality(Existing) -> Existing]
                       /\ Cardinality(Existing) \in Nat
<1> DEFINE n == Cardinality(Existing)
<1>1. n \in Nat /\ ExistsBijection(1..n, Existing)
  BY AccountsAssumption, FS_CardinalityType
<1>2. PICK f \in Bijection(1..n, Existing) : TRUE
  BY <1>1 DEF ExistsBijection
<1>3. f \in [1..n -> Existing] /\ \A i, j \in DOMAIN f : i # j => f[i] # f[j]
  BY <1>2 DEF Bijection, Injection, Surjection, IsInjective
<1>4. \E order \in [1..n -> Existing] : \A i, j \in DOMAIN order : i # j => order[i] # order[j]
  BY <1>3
<1>5. SignedIn \in [1..n -> Existing]
  BY <1>4, Zenon DEF SignedIn
<1>6. QED
  BY <1>1, <1>5

LEMMA InitDomains == Init => Domains
<1> SUFFICES ASSUME Init PROVE Domains
  OBVIOUS
<1>1. account \in [Users -> RowFields]
  <2>1. ASSUME NEW u \in Users PROVE account[u] \in RowFields
    <3>1. account[u] = Row(u, IF u \in Existing THEN "yes" ELSE "no", u \in Enrolled)
      BY DEF Init
    <3>2. People[u].role \in Roles
      BY PeopleAssumption
    <3>3. CASE u \in Existing
      <4>1. account[u] = Row(u, "yes", u \in Enrolled)
        BY <3>1, <3>3, Zenon
      <4>2. QED
        BY <3>2, <4>1 DEF Row, RowFields, NoSecret
    <3>4. CASE u \notin Existing
      <4>1. account[u] = Row(u, "no", u \in Enrolled)
        BY <3>1, <3>4, Zenon
      <4>2. QED
        BY <3>2, <4>1 DEF Row, RowFields, NoSecret
    <3>5. QED
      BY <3>3, <3>4
  <2>2. account = [u \in Users |-> account[u]]
    BY DEF Init
  <2>3. QED
    BY <2>1, <2>2
<1>2. sessions \in Seq(SessionRow)
  <2> DEFINE n == Cardinality(Existing)
  <2>1. n \in Nat /\ \A i \in 1..n : SignedIn[i] \in Users
    BY SignedInOrder, AccountsAssumption
  <2> HIDE DEF n
  <2>2. sessions \in [1..n -> SessionRow]
    BY <2>1 DEF Init, SessionRow, n
  <2>3. QED
    BY <2>1, <2>2, Sequence
<1>3. used \in Nat /\ DOMAIN req = Request /\ DOMAIN todo = Request
  BY DEF Init
<1>4. \A r \in Request : req[r] = NoRequest /\ todo[r] = <<>>
  BY DEF Init
<1>5. QED
  BY <1>1, <1>2, <1>3, <1>4, NothingFits DEF Domains, Started

LEMMA BeginsDomains ==
    ASSUME Domains, NEW r \in Request, NEW q, NEW who, NEW password \in Nat,
           Begin(r, q, who, password),
           q.kind \notin OfOrgs => q.user \in Users,
           q.kind \in OfOrgs => q.org \in Orgs,
           q.kind = "update" => q.role \in Roles \cup {"same"} /\ q.active \in BOOLEAN,
           who.user \in Users \cup {Nobody} /\ who.by \in Users \cup {Nobody},
           q.kind \in Outside <=> who.session = 0,
           q.kind \notin Outside => who.user \in Users /\ who.session \in 1..Len(sessions),
           q.kind = "stop" => who.by # Nobody
    PROVE /\ Domains' /\ UNCHANGED <<orgs, account, sessions, used, unswept>>
          /\ r \notin Started /\ Started' = Started \cup {r}
          /\ req'[r].who = who /\ req'[r].kind = q.kind /\ req'[r].ask = q
          /\ \A k \in Request : k # r => req'[k] = req[k] /\ todo'[k] = todo[k]
<1> DEFINE new == [kind |-> q.kind, ask |-> q, who |-> who, password |-> password, read |-> NoSecret]
<1>1. q.kind \in AllKinds
  BY AccountsAssumption DEF Begin, Request
<1>2. Asks(new, Len(sessions))
  BY <1>1 DEF Asks, NoSecret
<1>3. new.kind = q.kind /\ new.who = who /\ new.ask = q /\ new # NoRequest
  <2>1. new.kind = q.kind /\ NoRequest.kind = "none" /\ q.kind # "none"
    BY <1>1 DEF NoRequest, AllKinds, Self, Managing
  <2>2. QED
    BY <2>1
<1> HIDE DEF new
<1>4. /\ req' = [req EXCEPT ![r] = new] /\ todo' = [todo EXCEPT ![r] = Program(q.kind)]
      /\ UNCHANGED <<orgs, account, sessions, used, unswept>> /\ r \notin Started
  BY DEF Begin, new
<1>5. /\ req'[r] = new /\ todo'[r] = Program(q.kind)
      /\ DOMAIN req' = Request /\ DOMAIN todo' = Request
      /\ \A k \in Request : k # r => req'[k] = req[k] /\ todo'[k] = todo[k]
  BY <1>4 DEF Domains
<1>6. Started' = Started \cup {r}
  BY <1>3, <1>5 DEF Started
<1>7. \A k \in Request : /\ k \in Started' => Asks(req'[k], Len(sessions))
                         /\ Fits(todo'[k], req'[k].kind)
                         /\ k \notin Started' => todo'[k] = <<>>
  BY <1>1, <1>2, <1>3, <1>5, <1>6, ProgramFits DEF Domains
<1>8. Domains'
  BY <1>4, <1>5, <1>7 DEF Domains
<1>9. QED
  BY <1>3, <1>4, <1>5, <1>6, <1>8

\* Every request begins as nobody or as what a session says.
LEMMA Beginnings ==
    ASSUME Domains, NEW r \in Request,
           Authenticated(r) \/ SignsIn(r) \/ GivesCode(r) \/ SignsOut(r)
    PROVE /\ Domains' /\ UNCHANGED <<orgs, account, sessions, used, unswept>>
          /\ r \notin Started /\ Started' = Started \cup {r}
          /\ req'[r].who = Anonymous \/ \E s \in DOMAIN sessions : req'[r].who = Identity(s)
          /\ \A k \in Request : k # r => req'[k] = req[k] /\ todo'[k] = todo[k]
          /\ todo'[r] = Program(req'[r].kind) /\ req'[r].read = NoSecret
<1>1. ASSUME NEW s \in DOMAIN sessions
      PROVE /\ Identity(s).user \in Users /\ Identity(s).by \in Users \cup {Nobody}
            /\ Identity(s).session \in 1..Len(sessions) /\ Identity(s).session # 0
  <2>1. sessions[s] \in SessionRow /\ s \in 1..Len(sessions) /\ Len(sessions) \in Nat
    BY Sessions
  <2>2. QED
    BY <2>1 DEF Identity, SessionRow
<1>2. ASSUME NEW q, NEW who, NEW password, Begin(r, q, who, password)
      PROVE todo'[r] = Program(q.kind) /\ req'[r].read = NoSecret
  BY <1>2 DEF Begin, Domains
<1>3. CASE Authenticated(r)
  <2>0. PICK s \in DOMAIN sessions : \E q \in Asked(Identity(s)) : Begin(r, q, Identity(s), 0)
    BY <1>3 DEF Authenticated
  <2>1. PICK q \in Asked(Identity(s)) : Begin(r, q, Identity(s), 0)
    BY <2>0
  <2>2. /\ q.kind \notin OfOrgs => q.user \in Users
        /\ q.kind \in OfOrgs => q.org \in Orgs
        /\ q.kind = "update" => q.role \in Roles \cup {"same"} /\ q.active \in BOOLEAN
        /\ q.kind \notin Outside
        /\ q.kind = "stop" => Identity(s).by # Nobody
    BY <1>1 DEF Asked, OfOrgs, Outside, Known
  <2>3. QED
    BY <1>1, <1>2, <2>1, <2>2, BeginsDomains
<1>4. CASE SignsOut(r)
  <2>1. PICK s \in DOMAIN sessions :
            Begin(r, [kind |-> "logout", user |-> Identity(s).user], Identity(s), 0)
    BY <1>4 DEF SignsOut
  <2> DEFINE q == [kind |-> "logout", user |-> Identity(s).user]
  <2>2. q.kind = "logout" /\ q.user \in Users
    BY <1>1
  <2> HIDE DEF q
  <2>3. Begin(r, q, Identity(s), 0)
    BY <2>1 DEF q
  <2>4. q.kind \notin OfOrgs /\ q.kind # "update" /\ q.kind \notin Outside /\ q.kind # "stop"
    BY <2>2 DEF OfOrgs, Outside
  <2>5. QED
    BY <1>1, <1>2, <2>2, <2>3, <2>4, BeginsDomains
<1>5. ASSUME NEW q, NEW password \in Nat, Begin(r, q, Anonymous, password),
             q.kind \in Outside, q.user \in Users
      PROVE /\ Domains' /\ UNCHANGED <<orgs, account, sessions, used, unswept>>
            /\ r \notin Started /\ Started' = Started \cup {r}
            /\ req'[r].who = Anonymous /\ req'[r].kind = q.kind
            /\ \A k \in Request : k # r => req'[k] = req[k] /\ todo'[k] = todo[k]
  <2>1. /\ Anonymous.user = Nobody /\ Anonymous.by = Nobody /\ Anonymous.session = 0
        /\ q.kind \notin OfOrgs /\ q.kind # "update" /\ q.kind # "stop"
    BY <1>5 DEF Anonymous, Outside, OfOrgs
  <2>2. QED
    BY <1>5, <2>1, BeginsDomains
<1>6. CASE SignsIn(r)
  <2>1. PICK u \in Users :
            Begin(r, [kind |-> IF account[u].enrolled THEN "challenge" ELSE "login", user |-> u],
                  Anonymous, account[u].password)
    BY <1>6 DEF SignsIn
  <2> DEFINE q == [kind |-> IF account[u].enrolled THEN "challenge" ELSE "login", user |-> u]
  <2>2. q.kind \in Outside /\ q.user \in Users /\ account[u].password \in Nat
    BY DEF Outside, Domains, RowFields
  <2> HIDE DEF q
  <2>3. Begin(r, q, Anonymous, account[u].password)
    BY <2>1 DEF q
  <2>4. QED
    BY <1>2, <1>5, <2>2, <2>3
<1>7. CASE GivesCode(r)
  <2>1. PICK k \in Challenges :
            Begin(r, [kind |-> "code", user |-> req[k].ask.user], Anonymous, req[k].password)
    BY <1>7 DEF GivesCode
  <2> DEFINE q == [kind |-> "code", user |-> req[k].ask.user]
  <2>2. Asks(req[k], Len(sessions)) /\ req[k].kind = "challenge"
    BY DEF Challenges, Started, Domains
  <2>3. q.kind \in Outside /\ q.user \in Users /\ req[k].password \in Nat
    BY <2>2 DEF Outside, OfOrgs, Asks
  <2> HIDE DEF q
  <2>4. Begin(r, q, Anonymous, req[k].password)
    BY <2>1 DEF q
  <2>5. QED
    BY <1>2, <1>5, <2>3, <2>4
<1>8. QED
  BY <1>3, <1>4, <1>6, <1>7
-----------------------------------------------------------------------------
(***************************************************************************)
(* What a statement does to a row and to a session, whatever it is.        *)
(***************************************************************************)
RowGoesOn(old, new) ==
    /\ new \in RowFields
    /\ old.here = "gone" => new.here = "gone"
    /\ new.enrolled => \/ new.secret = new.proved \/ new.crossed
                       \/ /\ old.enrolled /\ new.secret = old.secret
                          /\ new.proved = old.proved /\ new.crossed = old.crossed

SessionGoesOn(old, new) ==
    /\ new \in SessionRow
    /\ new.user = old.user /\ new.owner = old.owner
    /\ new.password = old.password /\ new.late = old.late
    /\ new.live => old.live

LEMMA RowsAfter ==
    ASSUME Domains, NEW r \in Request, r \in Started, NEW st \in RowStatements,
           Suits(st, req[r].kind)
    PROVE /\ Target(r) \in Users
          /\ RowGoesOn(account[Target(r)], RowAfter(r, st))
          /\ RowAfter(r, st).here = account[Target(r)].here
          /\ ~Changes(st) => RowAfter(r, st).password = account[Target(r)].password
<1>1. Asks(req[r], Len(sessions)) /\ req[r].kind \notin OfOrgs
  BY Started1 DEF Suits
<1>2. Target(r) \in Users
  BY <1>1, TargetIn
<1> DEFINE row == account[Target(r)]
<1>3. row \in RowFields /\ used + 1 \in Nat
  BY <1>2 DEF Domains
<1>4. req[r].read \in Nat
  BY <1>1 DEF Asks
<1>5. st = "update" => req[r].ask.role \in Roles \cup {"same"} /\ req[r].ask.active \in BOOLEAN
  BY <1>1 DEF Asks, Suits
<1>6. RowAfter(r, st) =
        CASE st = "set password" -> [row EXCEPT !.password = used + 1]
          [] st = "set secret" -> [row EXCEPT !.secret = used + 1, !.enrolled = FALSE]
          [] st = "enrol" -> [row EXCEPT !.enrolled = TRUE, !.proved = req[r].read,
                                        !.crossed = row.secret # req[r].read]
          [] st = "clear codes" -> [row EXCEPT !.secret = NoSecret, !.enrolled = FALSE]
          [] st = "update" -> [row EXCEPT !.role = IF req[r].ask.role = "same" THEN @ ELSE req[r].ask.role,
                                       !.active = req[r].ask.active]
          [] OTHER -> row
  BY DEF RowAfter, NewSecret
<1> HIDE DEF row
<1>7. RowGoesOn(row, RowAfter(r, st)) /\ RowAfter(r, st).here = row.here
      /\ (~Changes(st) => RowAfter(r, st).password = row.password)
  <2>1. CASE st = "set password"
    BY <1>3, <1>6, <2>1 DEF RowGoesOn, RowFields, Changes
  <2>2. CASE st = "set secret"
    BY <1>3, <1>6, <2>2 DEF RowGoesOn, RowFields
  <2>3. CASE st = "enrol"
    BY <1>3, <1>4, <1>6, <2>3 DEF RowGoesOn, RowFields
  <2>4. CASE st = "clear codes"
    <3>1. RowAfter(r, st) = [row EXCEPT !.secret = NoSecret, !.enrolled = FALSE]
      BY <1>6, <2>4
    <3>2. NoSecret \in Nat
      BY DEF NoSecret
    <3>3. QED
      BY <1>3, <3>1, <3>2 DEF RowGoesOn, RowFields
  <2>5. CASE st = "update"
    BY <1>3, <1>5, <1>6, <2>5 DEF RowGoesOn, RowFields
  <2>6. QED
    BY <2>1, <2>2, <2>3, <2>4, <2>5 DEF RowStatements
<1>8. QED
  BY <1>2, <1>7 DEF row

RowsGoOn ==
    /\ account' \in [Users -> RowFields] /\ used' \in Nat
    /\ \A u \in Users : RowGoesOn(account[u], account'[u])

SessionsGoOn ==
    /\ sessions' \in Seq(SessionRow) /\ Len(sessions') >= Len(sessions)
    /\ \A s \in DOMAIN sessions :
        /\ SessionGoesOn(sessions[s], sessions'[s])
        /\ \/ sessions'[s].by = sessions[s].by
           \/ /\ sessions'[s].by = Nobody
              /\ sessions[s].by \in Users /\ account'[sessions[s].by].here = "gone"
        /\ sessions'[s].live /\ Here(sessions[s].user) => account'[sessions[s].user].here = "yes"

\* The passwords a statement changes, the sessions it ends and those it opens.
PasswordsStay(r, st) ==
    \A u \in Users : account'[u].password # account[u].password =>
        account[u].here = "no" \/ (Changes(st) /\ u = Target(r))

SessionsEnd(r, st) ==
    Ends(st) => \A s \in DOMAIN sessions : sessions[s].user = Target(r) => ~sessions'[s].live

SessionsOpen(r) ==
    \A s \in DOMAIN sessions' : s \notin DOMAIN sessions =>
        /\ account' = account /\ sessions'[s] = Opened(r) /\ \A u \in Refers(r) : Here(u)
        /\ Suits("open", req[r].kind)

LEMMA RowStays == ASSUME NEW row \in RowFields PROVE RowGoesOn(row, row)
  BY DEF RowGoesOn

LEMMA SessionsStay ==
    ASSUME Domains, UNCHANGED sessions, \A u \in Users : Here(u) => account'[u].here = "yes"
    PROVE SessionsGoOn /\ \A r : SessionsOpen(r)
<1>1. \A s \in DOMAIN sessions : sessions[s] \in SessionRow
  BY Sessions
<1>2. sessions \in Seq(SessionRow) /\ Len(sessions) \in Nat
  BY Sessions DEF Domains
<1>3. \A s \in DOMAIN sessions : sessions[s].user \in Users
  BY <1>1 DEF SessionRow
<1>4. SessionsGoOn
  BY <1>1, <1>2, <1>3 DEF SessionsGoOn, SessionGoesOn
<1>5. QED
  BY <1>4 DEF SessionsOpen

LEMMA WritesGoesOn ==
    ASSUME Domains, NEW r \in Request, r \in Started, NEW st, Suits(st, req[r].kind), Writes(r, st)
    PROVE /\ RowsGoOn /\ SessionsGoOn
          /\ PasswordsStay(r, st) /\ SessionsEnd(r, st) /\ SessionsOpen(r)
<1>1. st \in RowStatements
  BY DEF Writes
<1> DEFINE u0 == Target(r)
           new == RowAfter(r, st)
<1>2. /\ u0 \in Users /\ RowGoesOn(account[u0], new) /\ new.here = account[u0].here
      /\ ~Changes(st) => new.password = account[u0].password
  BY <1>1, RowsAfter
<1>3. account' = IF Here(u0) THEN [account EXCEPT ![u0] = new] ELSE account
  BY DEF Writes
<1>4. used' \in Nat /\ sessions' = sessions
  <2>1. used' = used + 1 \/ used' = used
    BY Zenon DEF Writes
  <2>2. used \in Nat /\ used + 1 \in Nat
    BY DEF Domains
  <2>3. sessions' = sessions
    BY Zenon DEF Writes
  <2>4. QED
    BY <2>1, <2>2, <2>3
<1>5. ~Ends(st)
  BY <1>1 DEF Ends, RowStatements
<1> HIDE DEF u0, new
<1>6. account \in [Users -> RowFields]
  BY DEF Domains
<1>7. account' \in [Users -> RowFields]
  BY <1>2, <1>3, <1>6 DEF RowGoesOn
<1>8. ASSUME NEW u \in Users
      PROVE /\ RowGoesOn(account[u], account'[u]) /\ account'[u].here = account[u].here
            /\ account'[u].password # account[u].password => Changes(st) /\ u = u0
  <2>1. account'[u] = account[u] \/ (u = u0 /\ account'[u] = new)
    BY <1>2, <1>3, <1>6
  <2>2. RowGoesOn(account[u], account[u])
    BY <1>6, RowStays
  <2>3. QED
    BY <1>2, <2>1, <2>2
<1>9. SessionsGoOn /\ SessionsOpen(r)
  BY <1>4, <1>8, SessionsStay DEF Here
<1>10. QED
  BY <1>4, <1>5, <1>7, <1>8, <1>9 DEF RowsGoOn, PasswordsStay, SessionsEnd, u0

LEMMA Untouched ==
    ASSUME Domains, UNCHANGED account, UNCHANGED used
    PROVE RowsGoOn /\ \A r, st : PasswordsStay(r, st)
  BY RowStays DEF Domains, RowsGoOn, PasswordsStay

\* Sessions of an account, or one of them, lose their validity.
LEMMA SessionsRevoked ==
    ASSUME Domains, NEW r, UNCHANGED account,
           sessions' \in [DOMAIN sessions -> SessionRow],
           \A s \in DOMAIN sessions : \/ sessions'[s] = sessions[s]
                                      \/ sessions'[s] = [sessions[s] EXCEPT !.live = FALSE]
    PROVE SessionsGoOn /\ SessionsOpen(r)
<1>1. /\ DOMAIN sessions = 1..Len(sessions) /\ Len(sessions) \in Nat
      /\ \A s \in DOMAIN sessions : sessions[s] \in SessionRow
  BY Sessions
<1>2. sessions' \in Seq(SessionRow) /\ Len(sessions') = Len(sessions) /\ DOMAIN sessions' = DOMAIN sessions
  BY <1>1, Sequence
<1>3. ASSUME NEW s \in DOMAIN sessions
      PROVE /\ SessionGoesOn(sessions[s], sessions'[s]) /\ sessions'[s].by = sessions[s].by
  BY <1>1 DEF SessionGoesOn, SessionRow
<1>4. SessionsGoOn
  BY <1>1, <1>2, <1>3 DEF SessionsGoOn, Here
<1>5. SessionsOpen(r)
  BY <1>2 DEF SessionsOpen
<1>6. QED
  BY <1>4, <1>5

LEMMA SweepsGoesOn ==
    ASSUME Domains, NEW r \in Request, NEW st, Sweeps(r, st)
    PROVE /\ RowsGoOn /\ SessionsGoOn
          /\ PasswordsStay(r, st) /\ SessionsEnd(r, st) /\ SessionsOpen(r)
<1>1. sessions' = [s \in DOMAIN sessions |->
            IF sessions[s].user = Target(r) THEN [sessions[s] EXCEPT !.live = FALSE] ELSE sessions[s]]
  BY DEF Sweeps
<1>2. \A s \in DOMAIN sessions : sessions[s] \in SessionRow
  BY Sessions
<1>3. sessions' \in [DOMAIN sessions -> SessionRow]
  BY <1>1, <1>2 DEF SessionRow
<1>4. SessionsGoOn /\ SessionsOpen(r)
  BY <1>1, <1>3, SessionsRevoked DEF Sweeps
<1>5. SessionsEnd(r, st)
  BY <1>1, <1>2 DEF SessionsEnd, SessionRow
<1>6. QED
  BY <1>4, <1>5, Untouched DEF Sweeps

LEMMA RevokesGoesOn ==
    ASSUME Domains, NEW r \in Request, NEW st, Revokes(r, st)
    PROVE /\ RowsGoOn /\ SessionsGoOn
          /\ PasswordsStay(r, st) /\ SessionsEnd(r, st) /\ SessionsOpen(r)
<1> DEFINE s0 == req[r].who.session
<1>1. sessions' = [sessions EXCEPT ![s0] = [@ EXCEPT !.live = FALSE]]
  BY DEF Revokes
<1> HIDE DEF s0
<1>2. sessions \in [DOMAIN sessions -> SessionRow]
  BY Sessions
<1>3. \A s \in DOMAIN sessions : \/ sessions'[s] = sessions[s]
                                 \/ sessions'[s] = [sessions[s] EXCEPT !.live = FALSE]
  BY <1>1, <1>2
<1>4. \A s \in DOMAIN sessions : sessions'[s] \in SessionRow
  <2>1. \A x \in SessionRow : [x EXCEPT !.live = FALSE] \in SessionRow
    BY DEF SessionRow
  <2>2. QED
    BY <1>2, <1>3, <2>1
<1>5. sessions' \in [DOMAIN sessions -> SessionRow]
  BY <1>1, <1>2, <1>4
<1>6. SessionsGoOn /\ SessionsOpen(r)
  BY <1>3, <1>5, SessionsRevoked DEF Revokes
<1>7. SessionsEnd(r, st)
  BY DEF Revokes, SessionsEnd, Ends
<1>8. QED
  BY <1>6, <1>7, Untouched DEF Revokes

LEMMA OpenedRow ==
    ASSUME Domains, NEW r \in Request, r \in Started, Suits("open", req[r].kind)
    PROVE Opened(r) \in SessionRow
<1>1. Asks(req[r], Len(sessions)) /\ req[r].kind \in {"login", "code", "start", "stop"}
  BY Started1 DEF Suits
<1>2. account \in [Users -> RowFields] /\ \A u \in Users : account[u].password \in Nat
  BY DEF Domains, RowFields
<1>3. \A s \in 1..Len(sessions) : sessions[s].owner \in Users
  BY Sessions DEF SessionRow
<1>4. CASE req[r].kind = "start"
  <2>1. /\ req[r].ask.user \in Users /\ req[r].who.user \in Users
        /\ req[r].who.session \in 1..Len(sessions) /\ req[r].who.session # 0
    BY <1>1, <1>4 DEF Asks, OfOrgs, Outside
  <2>2. Opened(r) = Session(req[r].ask.user, req[r].who.user, account[req[r].ask.user].password,
                            sessions[req[r].who.session].owner)
    BY <1>4, <2>1 DEF Opened
  <2>3. QED
    BY <1>2, <1>3, <2>1, <2>2 DEF Session, SessionRow
<1>5. CASE req[r].kind = "stop"
  <2>1. /\ req[r].who.by \in Users
        /\ req[r].who.session \in 1..Len(sessions) /\ req[r].who.session # 0
    BY <1>1, <1>5 DEF Asks, OfOrgs, Outside
  <2>2. Opened(r) = Session(req[r].who.by, Nobody, account[req[r].who.by].password,
                            sessions[req[r].who.session].owner)
    BY <1>5, <2>1 DEF Opened
  <2>3. QED
    BY <1>2, <1>3, <2>1, <2>2 DEF Session, SessionRow
<1>6. CASE req[r].kind \in {"login", "code"}
  <2>1. req[r].ask.user \in Users /\ req[r].password \in Nat
    BY <1>1, <1>6 DEF Asks, OfOrgs
  <2>2. Opened(r) = Session(req[r].ask.user, Nobody, req[r].password, req[r].ask.user)
    BY <1>6 DEF Opened
  <2>3. QED
    BY <1>2, <2>1, <2>2 DEF Session, SessionRow
<1>7. QED
  BY <1>1, <1>4, <1>5, <1>6

LEMMA OpensGoesOn ==
    ASSUME Domains, NEW r \in Request, r \in Started, NEW st, Suits(st, req[r].kind),
           Possible(r, st), Opens(r, st)
    PROVE /\ RowsGoOn /\ SessionsGoOn
          /\ PasswordsStay(r, st) /\ SessionsEnd(r, st) /\ SessionsOpen(r)
<1>1. st = "open" /\ sessions' = Append(sessions, Opened(r)) /\ UNCHANGED account /\ UNCHANGED used
  BY Zenon DEF Opens
<1>2. \A u \in Refers(r) : Here(u)
  BY <1>1 DEF Possible
<1>3. Opened(r) \in SessionRow
  BY <1>1, OpenedRow
<1>4. sessions \in Seq(SessionRow) /\ Len(sessions) \in Nat /\ DOMAIN sessions = 1..Len(sessions)
  BY Sessions DEF Domains
<1>5. /\ sessions' \in Seq(SessionRow) /\ Len(sessions') = Len(sessions) + 1
      /\ DOMAIN sessions' = 1..(Len(sessions) + 1)
      /\ \A s \in 1..Len(sessions) : sessions'[s] = sessions[s]
      /\ sessions'[Len(sessions) + 1] = Opened(r)
  BY <1>1, <1>3, <1>4, AppendProperties
<1>6. \A s \in DOMAIN sessions : SessionGoesOn(sessions[s], sessions'[s]) /\ sessions'[s] = sessions[s]
  BY <1>4, <1>5, Sessions DEF SessionGoesOn
<1>7. SessionsGoOn
  BY <1>1, <1>4, <1>5, <1>6 DEF SessionsGoOn, Here
<1>8. SessionsOpen(r)
  BY <1>1, <1>2, <1>4, <1>5 DEF SessionsOpen
<1>9. SessionsEnd(r, st)
  BY <1>1 DEF SessionsEnd, Ends
<1>10. QED
  BY <1>1, <1>7, <1>8, <1>9, Untouched

\* Accounts that are there go, with their sessions.
LEMMA RemovesGoesOn ==
    ASSUME Domains, NEW r, NEW gone \in SUBSET Users, \A u \in gone : Here(u),
           Removes(gone), UNCHANGED used
    PROVE /\ RowsGoOn /\ SessionsGoOn
          /\ \A st : PasswordsStay(r, st)
          /\ SessionsOpen(r)
<1>1. /\ account' = [u \in Users |->
            IF u \in gone THEN [account[u] EXCEPT !.here = "gone", !.active = FALSE] ELSE account[u]]
      /\ sessions' = [s \in DOMAIN sessions |->
            IF sessions[s].user \in gone THEN [sessions[s] EXCEPT !.live = FALSE]
            ELSE IF sessions[s].by \in gone THEN [sessions[s] EXCEPT !.by = Nobody]
            ELSE sessions[s]]
  BY DEF Removes, SessionsWithout
<1>2. account \in [Users -> RowFields] /\ used \in Nat
  BY DEF Domains
<1>3. ASSUME NEW u \in Users
      PROVE /\ account'[u] \in RowFields /\ RowGoesOn(account[u], account'[u])
            /\ account'[u].password = account[u].password
            /\ u \in gone => account'[u].here = "gone"
            /\ u \notin gone => account'[u] = account[u]
  <2>1. CASE u \in gone
    <3> DEFINE row == account[u]
    <3>1. account'[u] = [row EXCEPT !.here = "gone", !.active = FALSE] /\ row \in RowFields
      BY <1>1, <1>2, <2>1
    <3> HIDE DEF row
    <3>2. /\ account'[u] \in RowFields /\ account'[u].here = "gone"
          /\ account'[u].password = row.password
      BY <3>1 DEF RowFields
    <3>3. RowGoesOn(row, account'[u])
      BY <3>1, <3>2 DEF RowFields, RowGoesOn
    <3>4. QED
      BY <2>1, <3>2, <3>3 DEF row
  <2>2. CASE u \notin gone
    BY <1>1, <1>2, <2>2, RowStays
  <2>3. QED
    BY <2>1, <2>2
<1>4. RowsGoOn /\ \A st : PasswordsStay(r, st)
  <2>1. account' \in [Users -> RowFields]
    BY <1>1, <1>3
  <2>2. QED
    BY <1>2, <1>3, <2>1 DEF RowsGoOn, PasswordsStay
<1>5. /\ DOMAIN sessions = 1..Len(sessions) /\ Len(sessions) \in Nat
      /\ \A s \in DOMAIN sessions : sessions[s] \in SessionRow
  BY Sessions
<1>6. ASSUME NEW s \in DOMAIN sessions
      PROVE /\ SessionGoesOn(sessions[s], sessions'[s])
            /\ \/ sessions'[s].by = sessions[s].by
               \/ sessions'[s].by = Nobody /\ sessions[s].by \in gone
            /\ sessions'[s].live => sessions[s].user \notin gone
  <2>1. CASE sessions[s].user \in gone
    <3>1. sessions'[s] = [sessions[s] EXCEPT !.live = FALSE]
      BY <1>1, <2>1
    <3>2. QED
      BY <1>5, <3>1 DEF SessionRow, SessionGoesOn
  <2>2. CASE sessions[s].user \notin gone /\ sessions[s].by \in gone
    <3>1. sessions'[s] = [sessions[s] EXCEPT !.by = Nobody]
      BY <1>1, <2>2
    <3>2. QED
      BY <1>5, <2>2, <3>1 DEF SessionRow, SessionGoesOn
  <2>3. CASE sessions[s].user \notin gone /\ sessions[s].by \notin gone
    <3>1. sessions'[s] = sessions[s]
      BY <1>1, <2>3
    <3>2. QED
      BY <1>5, <2>3, <3>1 DEF SessionGoesOn
  <2>4. QED
    BY <2>1, <2>2, <2>3
<1>7. sessions' \in [1..Len(sessions) -> SessionRow]
  BY <1>1, <1>5, <1>6 DEF SessionGoesOn
<1>8. sessions' \in Seq(SessionRow) /\ Len(sessions') = Len(sessions) /\ DOMAIN sessions' = DOMAIN sessions
  BY <1>5, <1>7, Sequence
<1>9. SessionsGoOn
  <2>1. \A s \in DOMAIN sessions : sessions[s].user \in Users
    BY <1>5 DEF SessionRow
  <2>2. QED
    BY <1>3, <1>5, <1>6, <1>8, <2>1 DEF SessionsGoOn, Here
<1>10. QED
  BY <1>4, <1>8, <1>9 DEF SessionsOpen

LEMMA DeletesGoesOn ==
    ASSUME Domains, NEW r \in Request, NEW st, Deletes(r, st)
    PROVE /\ RowsGoOn /\ SessionsGoOn
          /\ PasswordsStay(r, st) /\ SessionsEnd(r, st) /\ SessionsOpen(r)
<1> DEFINE gone == {Target(r)} \cap {u \in Users : Here(u)}
<1>1. gone \in SUBSET Users /\ \A u \in gone : Here(u)
  OBVIOUS
<1>2. Removes(gone) /\ UNCHANGED used
  BY Zenon DEF Deletes
<1> HIDE DEF gone
<1>3. ~Ends(st)
  BY DEF Deletes, Ends
<1>4. QED
  BY <1>1, <1>2, <1>3, RemovesGoesOn DEF SessionsEnd

LEMMA DeletesOrgGoesOn ==
    ASSUME Domains, NEW r \in Request, NEW st, DeletesOrg(r, st)
    PROVE /\ RowsGoOn /\ SessionsGoOn
          /\ PasswordsStay(r, st) /\ SessionsEnd(r, st) /\ SessionsOpen(r)
<1> DEFINE gone == Members(req[r].ask.org)
<1>1. gone \in SUBSET Users /\ \A u \in gone : Here(u)
  BY DEF Members
<1>2. Removes(gone) /\ UNCHANGED used
  BY Zenon DEF DeletesOrg
<1> HIDE DEF gone
<1>3. ~Ends(st)
  BY DEF DeletesOrg, Ends
<1>4. QED
  BY <1>1, <1>2, <1>3, RemovesGoesOn DEF SessionsEnd

LEMMA InsertsOrgGoesOn ==
    ASSUME Domains, NEW r \in Request, NEW st, InsertsOrg(r, st)
    PROVE /\ RowsGoOn /\ SessionsGoOn
          /\ PasswordsStay(r, st) /\ SessionsEnd(r, st) /\ SessionsOpen(r)
<1>1. UNCHANGED account /\ UNCHANGED sessions /\ UNCHANGED used
  BY Zenon DEF InsertsOrg
<1>2. ~Ends(st)
  BY DEF InsertsOrg, Ends
<1>3. QED
  BY <1>1, <1>2, Untouched, SessionsStay DEF SessionsEnd, Here

LEMMA InsertsGoesOn ==
    ASSUME Domains, NEW r \in Request, r \in Started, NEW st, Suits(st, req[r].kind),
           Possible(r, st), Inserts(r, st)
    PROVE /\ RowsGoOn /\ SessionsGoOn
          /\ PasswordsStay(r, st) /\ SessionsEnd(r, st) /\ SessionsOpen(r)
<1> DEFINE u0 == Target(r)
           new == Row(u0, "yes", FALSE)
<1>1. /\ st = "insert" /\ account' = [account EXCEPT ![u0] = new]
      /\ UNCHANGED sessions /\ UNCHANGED used
  BY Zenon DEF Inserts
<1>2. account[u0].here = "no"
  BY <1>1 DEF Possible
<1>3. u0 \in Users
  BY <1>1, TargetIn DEF Suits
<1>4. new \in RowFields /\ new.here = "yes" /\ ~new.enrolled
  BY <1>3, Rows
<1> HIDE DEF u0, new
<1>5. account \in [Users -> RowFields] /\ used \in Nat
  BY DEF Domains
<1>6. account' \in [Users -> RowFields]
  BY <1>1, <1>4, <1>5
<1>7. ASSUME NEW u \in Users
      PROVE /\ RowGoesOn(account[u], account'[u])
            /\ account'[u].password # account[u].password => account[u].here = "no"
            /\ account[u].here = "yes" => account'[u].here = "yes"
  <2>1. CASE u = u0
    BY <1>1, <1>2, <1>3, <1>4, <1>5, <2>1 DEF RowGoesOn
  <2>2. CASE u # u0
    BY <1>1, <1>5, <2>2, RowStays
  <2>3. QED
    BY <2>1, <2>2
<1>8. SessionsGoOn /\ SessionsOpen(r)
  BY <1>1, <1>7, SessionsStay DEF Here
<1>9. ~Ends(st)
  BY <1>1 DEF Ends
<1>10. QED
  BY <1>1, <1>5, <1>6, <1>7, <1>8, <1>9 DEF RowsGoOn, PasswordsStay, SessionsEnd

LEMMA EffectGoesOn ==
    ASSUME Domains, NEW r \in Request, r \in Started, NEW st, Suits(st, req[r].kind),
           Possible(r, st), Effect(r, st)
    PROVE /\ RowsGoOn /\ SessionsGoOn
          /\ PasswordsStay(r, st) /\ SessionsEnd(r, st) /\ SessionsOpen(r)
<1>1. \/ Writes(r, st) \/ Sweeps(r, st) \/ Revokes(r, st) \/ Opens(r, st)
      \/ Deletes(r, st) \/ Inserts(r, st) \/ InsertsOrg(r, st) \/ DeletesOrg(r, st)
  BY DEF Effect
<1>2. QED
  BY <1>1, WritesGoesOn, SweepsGoesOn, RevokesGoesOn, OpensGoesOn, DeletesGoesOn, InsertsGoesOn,
     InsertsOrgGoesOn, DeletesOrgGoesOn

\* A request still asks, however many sessions there are by then.
LEMMA AsksOn ==
    ASSUME NEW q, NEW n \in Nat, NEW m \in Nat, n <= m, Asks(q, n)
    PROVE Asks(q, m)
<1>1. 1..n \subseteq 1..m
  OBVIOUS
<1>2. QED
  BY <1>1, Zenon DEF Asks

\* What is left of a request once its next statement has run or failed.
LEMMA Remains ==
    ASSUME Domains, NEW r \in Request, NEW t, todo' = [todo EXCEPT ![r] = t],
           todo[r] # <<>>, t = <<>> \/ t = Tail(todo[r]), UNCHANGED req,
           sessions' \in Seq(SessionRow), Len(sessions') >= Len(sessions),
           account' \in [Users -> RowFields], used' \in Nat
    PROVE /\ Domains' /\ r \in Started /\ Started' = Started
          /\ Suits(Head(todo[r]), req[r].kind)
          /\ Changes(Head(todo[r])) => Tail(todo[r]) # <<>> /\ Ends(Head(Tail(todo[r])))
          /\ todo'[r] = t /\ \A k \in Request : k # r => todo'[k] = todo[k]
<1>1. r \in Started /\ Fits(todo[r], req[r].kind)
  BY Started1
<1>2. Fits(t, req[r].kind)
  BY <1>1, FitsOn, NothingFits
<1>3. DOMAIN todo' = Request /\ todo'[r] = t /\ \A k \in Request : k # r => todo'[k] = todo[k]
  BY DEF Domains
<1>4. Started' = Started
  BY DEF Started
<1>5. Len(sessions) \in Nat /\ Len(sessions') \in Nat
  BY Sessions, LenProperties
<1>6. \A k \in Request : /\ k \in Started => Asks(req[k], Len(sessions'))
                         /\ Fits(todo'[k], req[k].kind)
                         /\ k \notin Started => todo'[k] = <<>>
  BY <1>1, <1>2, <1>3, <1>5, AsksOn DEF Domains
<1>7. Domains'
  BY <1>3, <1>4, <1>6 DEF Domains
<1>8. QED
  BY <1>1, <1>3, <1>4, <1>7, FitsOn
-----------------------------------------------------------------------------
(***************************************************************************)
(* The inductive invariant: besides what is claimed, that a session goes   *)
(* with its account, that a request goes on as the owner of its session,   *)
(* and that whoever makes a session stale is about to end it.              *)
(***************************************************************************)
Gone(u) == account[u].here = "gone"
Owns(user, by, owner) == IF by = Nobody THEN user = owner \/ Gone(owner) ELSE by = owner \/ Gone(owner)

Alive == \A s \in DOMAIN sessions : sessions[s].live => Here(sessions[s].user)

Sweeping(r, u) == todo[r] # <<>> /\ Ends(Head(todo[r])) /\ Target(r) = u
StaleIsSwept ==
    \A s \in DOMAIN sessions :
        sessions[s].live /\ sessions[s].password # account[sessions[s].user].password =>
            \/ sessions[s].late \/ sessions[s].user \in unswept
            \/ \E r \in Started : Sweeping(r, sessions[s].user)

AsOwner ==
    \A r \in Started : req[r].who.session # 0 =>
        Owns(req[r].who.user, req[r].who.by, sessions[req[r].who.session].owner)

StartsPlain ==
    \A r \in Started :
        req[r].kind = "start" /\ todo[r] # <<>> /\ Head(todo[r]) # "admit" => req[r].who.by = Nobody

IInv == Domains /\ EnrolledIsProved /\ Alive /\ StaleIsSwept /\ OwnerIsKept /\ AsOwner /\ StartsPlain

LEMMA Users1 ==
    ASSUME Domains
    PROVE /\ \A s \in DOMAIN sessions : sessions[s].user \in Users /\ sessions[s].owner \in Users
                                        /\ sessions[s].by \in Users \cup {Nobody}
          /\ \A u \in Users : account[u].here \in {"no", "yes", "gone"}
          /\ \A r \in Started : /\ Asks(req[r], Len(sessions))
                                /\ req[r].who.session # 0 => req[r].who.session \in DOMAIN sessions
<1>1. \A s \in DOMAIN sessions : sessions[s] \in SessionRow
  BY Sessions
<1>2. \A s \in DOMAIN sessions : sessions[s].user \in Users /\ sessions[s].owner \in Users
                                 /\ sessions[s].by \in Users \cup {Nobody}
  BY <1>1 DEF SessionRow
<1>3. \A u \in Users : account[u].here \in {"no", "yes", "gone"}
  BY DEF Domains, RowFields
<1>4. \A r \in Started : Asks(req[r], Len(sessions))
  BY DEF Domains, Started
<1>5. DOMAIN sessions = 1..Len(sessions)
  BY Sessions
<1>6. \A r \in Started : req[r].who.session # 0 => req[r].who.session \in DOMAIN sessions
  BY <1>4, <1>5 DEF Asks
<1>7. QED
  BY <1>2, <1>3, <1>4, <1>6

LEMMA EnrolledKept == ASSUME EnrolledIsProved, RowsGoOn PROVE EnrolledIsProved'
  BY DEF EnrolledIsProved, RowsGoOn, RowGoesOn

OwnsLater(user, by, owner) ==
    IF by = Nobody THEN user = owner \/ account'[owner].here = "gone"
    ELSE by = owner \/ account'[owner].here = "gone"

LEMMA OwnsKept ==
    ASSUME RowsGoOn, NEW user, NEW by, NEW owner \in Users, Owns(user, by, owner)
    PROVE OwnsLater(user, by, owner)
  BY DEF Owns, OwnsLater, Gone, RowsGoOn, RowGoesOn

LEMMA AliveKept ==
    ASSUME Domains, Alive, SessionsGoOn, NEW r, SessionsOpen(r)
    PROVE Alive'
<1> SUFFICES ASSUME NEW s \in DOMAIN sessions', sessions'[s].live
             PROVE account'[sessions'[s].user].here = "yes"
  BY DEF Alive, Here
<1>1. CASE s \in DOMAIN sessions
  <2>1. /\ sessions'[s].user = sessions[s].user /\ sessions[s].live
        /\ Here(sessions[s].user) => account'[sessions[s].user].here = "yes"
    BY <1>1 DEF SessionsGoOn, SessionGoesOn
  <2>2. QED
    BY <1>1, <2>1 DEF Alive
<1>2. CASE s \notin DOMAIN sessions
  <2>1. account' = account /\ sessions'[s] = Opened(r) /\ \A u \in Refers(r) : Here(u)
    BY <1>2 DEF SessionsOpen
  <2>2. Opened(r).user \in Refers(r)
    BY DEF Opened, Session, Refers
  <2>3. QED
    BY <2>1, <2>2 DEF Here
<1>3. QED
  BY <1>1, <1>2

LEMMA OwnerKept ==
    ASSUME Domains, OwnerIsKept, AsOwner, RowsGoOn, SessionsGoOn,
           NEW r \in Started, SessionsOpen(r),
           req[r].kind = "start" => req[r].who.by = Nobody
    PROVE OwnerIsKept'
<1> SUFFICES ASSUME NEW s \in DOMAIN sessions'
             PROVE OwnsLater(sessions'[s].user, sessions'[s].by, sessions'[s].owner)
  BY DEF OwnerIsKept, OwnsLater
<1>1. CASE s \in DOMAIN sessions
  <2>1. Owns(sessions[s].user, sessions[s].by, sessions[s].owner)
    BY <1>1 DEF OwnerIsKept, Owns, Gone
  <2>2. sessions[s].owner \in Users
    BY <1>1, Users1
  <2>3. OwnsLater(sessions[s].user, sessions[s].by, sessions[s].owner)
    BY <2>1, <2>2, OwnsKept
  <2>4. /\ sessions'[s].user = sessions[s].user /\ sessions'[s].owner = sessions[s].owner
        /\ \/ sessions'[s].by = sessions[s].by
           \/ /\ sessions'[s].by = Nobody
              /\ sessions[s].by \in Users /\ account'[sessions[s].by].here = "gone"
    BY <1>1 DEF SessionsGoOn, SessionGoesOn
  <2>5. Nobody \notin Users
    BY AccountsAssumption
  <2>6. QED
    BY <2>3, <2>4, <2>5 DEF OwnsLater
<1>2. CASE s \notin DOMAIN sessions
  <2> DEFINE who == req[r].who
  <2>1. /\ account' = account /\ sessions'[s] = Opened(r)
        /\ Suits("open", req[r].kind)
    BY <1>2 DEF SessionsOpen
  <2>2. req[r].kind \in {"login", "code", "start", "stop"}
    BY <2>1 DEF Suits
  <2>3. Asks(req[r], Len(sessions)) /\ Nobody \notin Users
    BY Users1, AccountsAssumption
  <2>4. CASE req[r].kind \in {"login", "code"}
    <3>1. Opened(r).by = Nobody /\ Opened(r).user = Opened(r).owner
      BY <2>4 DEF Opened, Session
    <3>2. QED
      BY <2>1, <3>1 DEF OwnsLater
  <2>5. CASE req[r].kind = "start"
    <3>1. who.session # 0 /\ who.user \in Users /\ who.by = Nobody
      BY <2>3, <2>5 DEF Asks, Outside
    <3>2. /\ Opened(r).by = who.user
          /\ Opened(r).owner = sessions[who.session].owner
      BY <2>5, <3>1 DEF Opened, Session
    <3>3. who.user = sessions[who.session].owner \/ Gone(sessions[who.session].owner)
      BY <3>1 DEF AsOwner, Owns
    <3>4. QED
      BY <2>1, <2>3, <3>1, <3>2, <3>3 DEF OwnsLater, Gone
  <2>6. CASE req[r].kind = "stop"
    <3>1. who.session # 0 /\ who.by # Nobody
      BY <2>3, <2>6 DEF Asks, Outside
    <3>2. /\ Opened(r).by = Nobody /\ Opened(r).user = who.by
          /\ Opened(r).owner = sessions[who.session].owner
      BY <2>6, <3>1 DEF Opened, Session
    <3>3. who.by = sessions[who.session].owner \/ Gone(sessions[who.session].owner)
      BY <3>1 DEF AsOwner, Owns
    <3>4. QED
      BY <2>1, <3>2, <3>3 DEF OwnsLater, Gone
  <2>7. QED
    BY <2>2, <2>4, <2>5, <2>6
<1>3. QED
  BY <1>1, <1>2

\* A request that is under way goes on as the same owner.
LEMMA AsOwnerKept ==
    ASSUME Domains, AsOwner, RowsGoOn, SessionsGoOn, Started' = Started,
           \A r \in Started : req'[r].who = req[r].who
    PROVE AsOwner'
<1> SUFFICES ASSUME NEW r \in Started, req[r].who.session # 0
             PROVE OwnsLater(req[r].who.user, req[r].who.by, sessions'[req[r].who.session].owner)
  BY DEF AsOwner, Owns, OwnsLater, Gone
<1> DEFINE s == req[r].who.session
<1>1. s \in DOMAIN sessions /\ sessions[s].owner \in Users
  BY Users1
<1>2. sessions'[s].owner = sessions[s].owner
  BY <1>1 DEF SessionsGoOn, SessionGoesOn
<1>3. Owns(req[r].who.user, req[r].who.by, sessions[s].owner)
  BY DEF AsOwner
<1>4. QED
  BY <1>1, <1>2, <1>3, OwnsKept

\* A step that touches neither accounts nor sessions.
LEMMA RowsSame ==
    ASSUME UNCHANGED account, UNCHANGED sessions
    PROVE /\ EnrolledIsProved => EnrolledIsProved'
          /\ Alive => Alive'
          /\ OwnerIsKept => OwnerIsKept'
  BY DEF EnrolledIsProved, Alive, OwnerIsKept, Here

LEMMA InvInit == Init => IInv
<1> SUFFICES ASSUME Init PROVE IInv
  OBVIOUS
<1>1. Domains
  BY InitDomains
<1>2. EnrolledIsProved
  <2>1. ASSUME NEW u \in Users PROVE account[u].secret = account[u].proved
    <3>1. account[u] = Row(u, IF u \in Existing THEN "yes" ELSE "no", u \in Enrolled)
      BY DEF Init
    <3>2. QED
      BY <3>1 DEF Row
  <2>2. QED
    BY <2>1 DEF EnrolledIsProved
<1>3. ASSUME NEW s \in DOMAIN sessions
      PROVE /\ sessions[s].user \in Existing /\ sessions[s].by = Nobody
            /\ sessions[s].owner = sessions[s].user /\ sessions[s].password = 1
            /\ Here(sessions[s].user) /\ account[sessions[s].user].password = 1
  <2>1. s \in 1..Cardinality(Existing)
    BY DEF Init
  <2>2. SignedIn[s] \in Existing
    BY <2>1, SignedInOrder
  <2>3. sessions[s] = [user |-> SignedIn[s], by |-> Nobody, live |-> TRUE, password |-> 1,
                       late |-> FALSE, owner |-> SignedIn[s]]
    BY <2>1 DEF Init
  <2>4. account[SignedIn[s]] = Row(SignedIn[s], "yes", SignedIn[s] \in Enrolled)
    BY <2>2, AccountsAssumption DEF Init
  <2>5. account[SignedIn[s]].here = "yes" /\ account[SignedIn[s]].password = 1
    BY <2>4 DEF Row
  <2>6. QED
    BY <2>2, <2>3, <2>5 DEF Here
<1>4. \A r \in Request : r \notin Started
  BY DEF Init, Started
<1>5. Alive /\ OwnerIsKept /\ StaleIsSwept
  BY <1>3 DEF Alive, OwnerIsKept, StaleIsSwept
<1>6. AsOwner /\ StartsPlain
  BY <1>4 DEF AsOwner, StartsPlain, Started
<1>7. QED
  BY <1>1, <1>2, <1>5, <1>6 DEF IInv

LEMMA StaleKept ==
    ASSUME StaleIsSwept, UNCHANGED account, UNCHANGED sessions,
           \A u : u \in unswept => u \in unswept',
           \A r \in Started : \A u : Sweeping(r, u) => r \in Started' /\ (Sweeping(r, u)' \/ u \in unswept')
    PROVE StaleIsSwept'
  BY DEF StaleIsSwept

LEMMA BeginsKeeps ==
    ASSUME IInv, NEW r \in Request,
           Authenticated(r) \/ SignsIn(r) \/ GivesCode(r) \/ SignsOut(r)
    PROVE IInv'
<1>1. /\ Domains' /\ UNCHANGED <<orgs, account, sessions, used, unswept>>
      /\ r \notin Started /\ Started' = Started \cup {r}
      /\ req'[r].who = Anonymous \/ \E s \in DOMAIN sessions : req'[r].who = Identity(s)
      /\ \A k \in Request : k # r => req'[k] = req[k] /\ todo'[k] = todo[k]
      /\ todo'[r] = Program(req'[r].kind)
  BY Beginnings DEF IInv
<1>2. UNCHANGED account /\ UNCHANGED sessions /\ UNCHANGED unswept
  BY <1>1
<1>3. \A k \in Started : k \in Request /\ k # r
  BY <1>1 DEF Started
<1>4. StaleIsSwept'
  <2>1. ASSUME NEW k \in Started, NEW u, Sweeping(k, u) PROVE k \in Started' /\ Sweeping(k, u)'
    BY <1>1, <1>3, <2>1 DEF Sweeping, Target
  <2>2. QED
    BY <1>2, <2>1, StaleKept DEF IInv
<1>5. AsOwner'
  <2> SUFFICES ASSUME NEW k \in Started', req'[k].who.session # 0
               PROVE OwnsLater(req'[k].who.user, req'[k].who.by, sessions[req'[k].who.session].owner)
    BY <1>2 DEF AsOwner, Owns, OwnsLater, Gone
  <2>1. CASE k # r
    <3>1. k \in Started /\ req'[k] = req[k]
      BY <1>1, <1>3, <2>1
    <3>2. Owns(req[k].who.user, req[k].who.by, sessions[req[k].who.session].owner)
      BY <3>1 DEF IInv, AsOwner
    <3>3. QED
      BY <1>2, <3>1, <3>2 DEF Owns, OwnsLater, Gone
  <2>2. CASE k = r
    <3>1. req'[r].who # Anonymous
      BY <2>2 DEF Anonymous
    <3>2. PICK s \in DOMAIN sessions : req'[r].who = Identity(s)
      BY <1>1, <3>1
    <3>3. Owns(sessions[s].user, sessions[s].by, sessions[s].owner)
      BY DEF IInv, OwnerIsKept, Owns, Gone
    <3>4. /\ req'[r].who.user = sessions[s].user /\ req'[r].who.by = sessions[s].by
          /\ req'[r].who.session = s
      BY <3>2 DEF Identity
    <3>5. QED
      BY <1>2, <2>2, <3>3, <3>4 DEF Owns, OwnsLater, Gone
  <2>3. QED
    BY <2>1, <2>2
<1>6. StartsPlain'
  <2> SUFFICES ASSUME NEW k \in Started', req'[k].kind = "start", Head(todo'[k]) # "admit",
                      todo'[k] # <<>>
               PROVE req'[k].who.by = Nobody
    BY DEF StartsPlain
  <2>1. CASE k # r
    BY <1>1, <1>3, <2>1 DEF IInv, StartsPlain
  <2>2. CASE k = r
    <3>1. todo'[r] = <<"admit", "revoke", "open">>
      BY <1>1, <2>2 DEF Program, Swaps
    <3>2. Head(<<"admit", "revoke", "open">>) = "admit"
      OBVIOUS
    <3>3. QED
      BY <2>2, <3>1, <3>2
  <2>3. QED
    BY <2>1, <2>2
<1>7. QED
  BY <1>1, <1>2, <1>4, <1>5, <1>6, RowsSame DEF IInv

LEMMA RunsKeeps == ASSUME IInv, NEW r \in Request, Runs(r) PROVE IInv'
<1> DEFINE st == Head(todo[r])
<1>1. /\ todo[r] # <<>> /\ st # "admit" /\ Possible(r, st) /\ Effect(r, st)
      /\ todo' = [todo EXCEPT ![r] = Tail(@)]
      /\ UNCHANGED req /\ UNCHANGED unswept
  BY Zenon DEF Runs
<1>2. r \in Started /\ Fits(todo[r], req[r].kind)
  BY <1>1, Started1 DEF IInv
<1>3. Suits(st, req[r].kind)
  BY <1>1, <1>2, FitsOn
<1> HIDE DEF st
<1>4. /\ RowsGoOn /\ SessionsGoOn
      /\ PasswordsStay(r, st) /\ SessionsEnd(r, st) /\ SessionsOpen(r)
  BY <1>1, <1>2, <1>3, EffectGoesOn DEF IInv
<1>5. /\ Domains' /\ Started' = Started
      /\ Changes(st) => Tail(todo[r]) # <<>> /\ Ends(Head(Tail(todo[r])))
      /\ todo'[r] = Tail(todo[r]) /\ \A k \in Request : k # r => todo'[k] = todo[k]
  <2>1. todo' = [todo EXCEPT ![r] = Tail(todo[r])]
    BY <1>1
  <2>2. QED
    BY <1>1, <1>4, <2>1, Remains DEF IInv, RowsGoOn, SessionsGoOn, st
<1>6. EnrolledIsProved' /\ Alive'
  BY <1>4, EnrolledKept, AliveKept DEF IInv
<1>7. OwnerIsKept' /\ AsOwner'
  <2>1. req[r].kind = "start" => req[r].who.by = Nobody
    BY <1>1, <1>2 DEF IInv, StartsPlain, st
  <2>2. QED
    BY <1>1, <1>2, <1>4, <1>5, <2>1, OwnerKept, AsOwnerKept DEF IInv
<1>8. StartsPlain'
  <2> SUFFICES ASSUME NEW k \in Started, req[k].kind = "start", Head(todo'[k]) # "admit",
                      todo'[k] # <<>>
               PROVE req[k].who.by = Nobody
    BY <1>1, <1>5 DEF StartsPlain
  <2>1. CASE k = r
    BY <1>1, <1>2, <2>1 DEF IInv, StartsPlain, st
  <2>2. CASE k # r
    BY <1>5, <2>2 DEF IInv, StartsPlain, Started
  <2>3. QED
    BY <2>1, <2>2
<1>9. StaleIsSwept'
  <2> DEFINE Later(k, u) == todo'[k] # <<>> /\ Ends(Head(todo'[k])) /\ Target(k) = u
  <2>0. \A k \in Started : Target(k)' = Target(k)
    BY <1>1 DEF Target
  <2> SUFFICES ASSUME NEW s \in DOMAIN sessions', sessions'[s].live, ~sessions'[s].late,
                      sessions'[s].password # account'[sessions'[s].user].password,
                      sessions'[s].user \notin unswept
               PROVE \E k \in Started : Later(k, sessions'[s].user)
    BY <1>1, <1>5, <2>0 DEF StaleIsSwept, Sweeping
  <2>1. CASE s \notin DOMAIN sessions
    <3>1. sessions'[s] = Opened(r) /\ account' = account
      BY <1>4, <2>1 DEF SessionsOpen
    <3>2. Opened(r).late = (Opened(r).password # account[Opened(r).user].password)
      BY DEF Opened, Session
    <3>3. QED
      BY <3>1, <3>2
  <2>2. CASE s \in DOMAIN sessions
    <3> DEFINE u == sessions[s].user
    <3>1. /\ sessions'[s].user = u /\ sessions'[s].password = sessions[s].password
          /\ ~sessions[s].late /\ sessions[s].live /\ u \in Users
      BY <1>4, <2>2, Users1 DEF SessionsGoOn, SessionGoesOn, IInv
    <3>2. account[u].here # "no"
      BY <2>2, <3>1 DEF IInv, Alive, Here
    <3>3. CASE account'[u].password = account[u].password
      <4>1. PICK k \in Started : Sweeping(k, u)
        BY <1>1, <2>2, <3>1, <3>3 DEF IInv, StaleIsSwept
      <4>2. k # r
        BY <1>4, <2>2, <3>1, <4>1 DEF Sweeping, SessionsEnd, st
      <4>3. todo'[k] = todo[k]
        BY <1>5, <4>2 DEF Started
      <4>4. Later(k, u)
        BY <4>1, <4>3 DEF Sweeping
      <4>5. QED
        BY <3>1, <4>4
    <3>4. CASE account'[u].password # account[u].password
      <4>1. Changes(st) /\ u = Target(r)
        BY <1>4, <3>1, <3>2, <3>4 DEF PasswordsStay
      <4>2. Later(r, u)
        BY <1>5, <4>1
      <4>3. QED
        BY <1>2, <3>1, <4>2
    <3>5. QED
      BY <3>3, <3>4
  <2>3. QED
    BY <2>1, <2>2
<1>10. QED
  BY <1>5, <1>6, <1>7, <1>8, <1>9 DEF IInv

LEMMA AdmitsKeeps == ASSUME IInv, NEW r \in Request, Admits(r) PROVE IInv'
<1> DEFINE yes == Admitted(req[r].ask, req[r].who)
           new == [req[r] EXCEPT !.read =
                        IF req[r].kind = "confirm" THEN account[req[r].who.user].secret ELSE @]
<1>1. /\ todo[r] # <<>> /\ Head(todo[r]) = "admit"
      /\ todo' = [todo EXCEPT ![r] = IF yes THEN Tail(todo[r]) ELSE <<>>]
      /\ req' = IF yes THEN [req EXCEPT ![r] = new] ELSE req
      /\ UNCHANGED account /\ UNCHANGED sessions /\ UNCHANGED used /\ UNCHANGED unswept
  BY Zenon DEF Admits
<1>2. r \in Started /\ Fits(todo[r], req[r].kind) /\ Asks(req[r], Len(sessions))
  BY <1>1, Started1 DEF IInv
<1>3. Fits(Tail(todo[r]), req[r].kind) /\ Suits("admit", req[r].kind)
  BY <1>1, <1>2, FitsOn
<1>4. req[r].kind = "start" /\ yes => req[r].who.by = Nobody
  <2> SUFFICES ASSUME req[r].kind = "start", yes PROVE req[r].who.by = Nobody
    OBVIOUS
  <2>1. req[r].ask.kind = "start" => MayStart(req[r].ask, req[r].who)
    BY DEF Admitted
  <2>2. req[r].ask.kind = req[r].kind
    BY <1>2 DEF Asks
  <2>3. QED
    BY <2>1, <2>2 DEF MayStart
<1>5. /\ Asks(new, Len(sessions)) /\ new # NoRequest
      /\ new.kind = req[r].kind /\ new.who = req[r].who /\ new.ask = req[r].ask
  <2>1. req[r].kind \notin Outside
    BY <1>3 DEF Suits
  <2>2. req[r].who.user \in Users /\ req[r].read \in Nat
    BY <1>2, <2>1 DEF Asks
  <2>3. account[req[r].who.user].secret \in Nat
    BY <2>2 DEF IInv, Domains, RowFields
  <2> DEFINE q == req[r]
             read == IF q.kind = "confirm" THEN account[q.who.user].secret ELSE q.read
  <2>4. read \in Nat
    BY <2>2, <2>3
  <2>5. Asks(q, Len(sessions)) /\ new = [q EXCEPT !.read = read]
    BY <1>2
  <2> HIDE DEF q, read, new
  <2>6. q = [kind |-> q.kind, ask |-> q.ask, who |-> q.who, password |-> q.password,
             read |-> q.read]
    BY <2>5, Zenon DEF Asks
  <2>7. new = [kind |-> q.kind, ask |-> q.ask, who |-> q.who, password |-> q.password, read |-> read]
    BY <2>5, <2>6
  <2>8. /\ new.kind = q.kind /\ new.ask = q.ask /\ new.who = q.who /\ new.password = q.password
        /\ new.read = read
    BY <2>7
  <2>9. Asks(new, Len(sessions))
    BY <2>4, <2>5, <2>7, <2>8, Zenon DEF Asks
  <2>10. new # NoRequest
    <3>1. new.kind \in AllKinds
      BY <2>9 DEF Asks
    <3>2. new.kind # "none" /\ NoRequest.kind = "none"
      BY <3>1 DEF NoRequest, AllKinds, Self, Managing
    <3>3. QED
      BY <3>2
  <2>11. QED
    BY <2>8, <2>9, <2>10 DEF q
<1>6. DOMAIN todo = Request /\ DOMAIN req = Request
  BY DEF IInv, Domains
<1> HIDE DEF yes, new
<1>7. /\ DOMAIN todo' = Request /\ DOMAIN req' = Request
      /\ todo'[r] = IF yes THEN Tail(todo[r]) ELSE <<>>
      /\ req'[r] = IF yes THEN new ELSE req[r]
      /\ \A k \in Request : k # r => todo'[k] = todo[k] /\ req'[k] = req[k]
  BY <1>1, <1>6
<1>8. Started' = Started /\ \A k \in Started : k \in Request
  BY <1>2, <1>5, <1>7 DEF Started
<1>9. /\ \A k \in Request : req'[k].who = req[k].who /\ req'[k].kind = req[k].kind
      /\ \A k \in Request : req'[k].ask = req[k].ask
  BY <1>5, <1>7
<1>10. \A k \in Request : /\ k \in Started => Asks(req'[k], Len(sessions))
                          /\ Fits(todo'[k], req'[k].kind)
                          /\ k \notin Started => todo'[k] = <<>>
  BY <1>2, <1>3, <1>5, <1>7, NothingFits DEF IInv, Domains
<1>11. Domains'
  BY <1>1, <1>7, <1>8, <1>10 DEF IInv, Domains
<1>12. StaleIsSwept'
  <2>1. ASSUME NEW k \in Started, NEW u, Sweeping(k, u) PROVE k \in Started' /\ Sweeping(k, u)'
    <3>1. k # r
      BY <1>1, <2>1 DEF Sweeping, Ends
    <3>2. todo'[k] = todo[k] /\ req'[k] = req[k] /\ k \in Started'
      BY <1>7, <1>8, <3>1
    <3>3. QED
      BY <2>1, <3>2 DEF Sweeping, Target
  <2>2. QED
    BY <1>1, <2>1, StaleKept DEF IInv
<1>13. AsOwner'
  <2>1. UNCHANGED <<account, sessions>> /\ AsOwner
    BY <1>1 DEF IInv
  <2>2. \A k \in Started : req'[k].who = req[k].who
    BY <1>8, <1>9
  <2>3. QED
    BY <1>8, <2>1, <2>2 DEF AsOwner, Owns, Gone
<1>14. StartsPlain'
  <2> SUFFICES ASSUME NEW k \in Started, req[k].kind = "start", Head(todo'[k]) # "admit",
                      todo'[k] # <<>>
               PROVE req[k].who.by = Nobody
    BY <1>8, <1>9 DEF StartsPlain
  <2>1. CASE k = r
    BY <1>4, <1>7, <2>1
  <2>2. CASE k # r
    BY <1>7, <1>8, <2>2 DEF IInv, StartsPlain
  <2>3. QED
    BY <2>1, <2>2
<1>15. QED
  BY <1>1, <1>11, <1>12, <1>13, <1>14, RowsSame DEF IInv

LEMMA FailsKeeps == ASSUME IInv, NEW r \in Request, Fails(r) PROVE IInv'
<1> DEFINE t == IF Head(todo[r]) = "revoke" THEN Tail(todo[r]) ELSE <<>>
<1>1. /\ todo[r] # <<>> /\ todo' = [todo EXCEPT ![r] = t]
      /\ unswept' = IF Ends(Head(todo[r])) THEN unswept \cup {Target(r)} ELSE unswept
      /\ UNCHANGED account /\ UNCHANGED sessions /\ UNCHANGED req /\ UNCHANGED used
  BY Zenon DEF Fails, Ends
<1>2. /\ t = <<>> \/ t = Tail(todo[r])
      /\ t # <<>> => Head(todo[r]) # "admit"
  OBVIOUS
<1> HIDE DEF t
<1>3. /\ sessions \in Seq(SessionRow) /\ Len(sessions) \in Nat
      /\ account \in [Users -> RowFields] /\ used \in Nat
  BY Sessions DEF IInv, Domains
<1>4. /\ Domains' /\ r \in Started /\ Started' = Started
      /\ todo'[r] = t /\ \A k \in Request : k # r => todo'[k] = todo[k]
  <2>1. Domains
    BY DEF IInv
  <2>2. sessions' \in Seq(SessionRow) /\ Len(sessions') >= Len(sessions)
    BY <1>1, <1>3
  <2>3. account' \in [Users -> RowFields] /\ used' \in Nat
    BY <1>1, <1>3
  <2>4. QED
    BY <1>1, <1>2, <2>1, <2>2, <2>3, Remains
<1>5. StaleIsSwept'
  <2>1. ASSUME NEW k \in Started, NEW u, Sweeping(k, u)
        PROVE k \in Started' /\ (Sweeping(k, u)' \/ u \in unswept')
    <3>1. CASE k = r
      BY <1>1, <1>4, <2>1, <3>1 DEF Sweeping
    <3>2. CASE k # r
      BY <1>1, <1>4, <2>1, <3>2 DEF Sweeping, Target, Started
    <3>3. QED
      BY <3>1, <3>2
  <2>2. \A u : u \in unswept => u \in unswept'
    BY <1>1
  <2>3. QED
    BY <1>1, <2>1, <2>2, StaleKept DEF IInv
<1>6. AsOwner'
  BY <1>1, <1>4 DEF IInv, AsOwner, Owns, Gone
<1>7. StartsPlain'
  <2> SUFFICES ASSUME NEW k \in Started, req[k].kind = "start", Head(todo'[k]) # "admit",
                      todo'[k] # <<>>
               PROVE req[k].who.by = Nobody
    BY <1>1, <1>4 DEF StartsPlain
  <2>1. CASE k = r
    BY <1>1, <1>2, <1>4, <2>1 DEF IInv, StartsPlain
  <2>2. CASE k # r
    BY <1>4, <2>2 DEF IInv, StartsPlain, Started
  <2>3. QED
    BY <2>1, <2>2
<1>8. QED
  BY <1>1, <1>4, <1>5, <1>6, <1>7, RowsSame DEF IInv

LEMMA ResetsKeeps == ASSUME IInv, ResetsAdmin PROVE IInv'
<1>1. PICK u \in Users : /\ Here(u) /\ unswept' = {u}
                         /\ account' = [account EXCEPT ![u] =
                                [account[u] EXCEPT !.password = used + 1, !.secret = NoSecret,
                                                   !.enrolled = FALSE]]
  BY DEF ResetsAdmin
<1>2. /\ unswept = {} /\ used' = used + 1
      /\ UNCHANGED sessions /\ UNCHANGED req /\ UNCHANGED todo
  BY Zenon DEF ResetsAdmin
<1> DEFINE old == account[u]
           new == [old EXCEPT !.password = used + 1, !.secret = NoSecret, !.enrolled = FALSE]
<1>3. account \in [Users -> RowFields] /\ used \in Nat /\ NoSecret \in Nat /\ used + 1 \in Nat
  BY DEF IInv, Domains, NoSecret
<1>4. account' = [account EXCEPT ![u] = new] /\ old \in RowFields
  BY <1>1, <1>3
<1> HIDE DEF old, new
<1>5. new \in RowFields /\ RowGoesOn(old, new) /\ new.here = old.here
  <2>1. new = [old EXCEPT !.password = used + 1, !.secret = NoSecret, !.enrolled = FALSE]
    BY DEF new
  <2>2. QED
    BY <1>3, <1>4, <2>1 DEF RowFields, RowGoesOn
<1>6. ASSUME NEW v \in Users
      PROVE /\ account'[v] \in RowFields /\ RowGoesOn(account[v], account'[v])
            /\ account'[v].here = account[v].here
            /\ v # u => account'[v] = account[v]
  <2>1. CASE v = u
    <3>1. account'[v] = new /\ account[v] = old
      BY <1>3, <1>4, <2>1 DEF old
    <3>2. QED
      BY <1>5, <2>1, <3>1
  <2>2. CASE v # u
    BY <1>3, <1>4, <2>2, RowStays
  <2>3. QED
    BY <2>1, <2>2
<1>7. account' \in [Users -> RowFields]
  BY <1>3, <1>4, <1>5
<1>8. RowsGoOn
  BY <1>2, <1>3, <1>6, <1>7 DEF RowsGoOn
<1>9. SessionsGoOn /\ \A r : SessionsOpen(r)
  BY <1>2, <1>6, SessionsStay DEF IInv, Here
<1>10. Domains'
  BY <1>2, <1>3, <1>7 DEF IInv, Domains, Started
<1>11. EnrolledIsProved' /\ Alive'
  BY <1>8, <1>9, EnrolledKept, AliveKept DEF IInv
<1>12. AsOwner'
  BY <1>2, <1>8, <1>9, AsOwnerKept DEF IInv, Started
<1>13. OwnerIsKept'
  <2>1. ASSUME NEW v \in Users PROVE account'[v].here = account[v].here
    BY <1>6
  <2>2. \A s \in DOMAIN sessions : sessions[s].owner \in Users
    BY Users1 DEF IInv
  <2>3. QED
    BY <1>2, <2>1, <2>2 DEF IInv, OwnerIsKept
<1>14. StaleIsSwept'
  <2>0. /\ Started' = Started
        /\ \A k, v : Sweeping(k, v) <=> Sweeping(k, v)'
    BY <1>2 DEF Started, Sweeping, Target
  <2>1. ASSUME NEW s \in DOMAIN sessions, sessions[s].live, ~sessions[s].late,
               sessions[s].password # account'[sessions[s].user].password,
               sessions[s].user # u
        PROVE \E k \in Started : Sweeping(k, sessions[s].user)
    <3>1. sessions[s].user \in Users
      BY Users1 DEF IInv
    <3>2. account'[sessions[s].user] = account[sessions[s].user]
      BY <1>6, <2>1, <3>1
    <3>3. QED
      BY <1>2, <2>1, <3>2 DEF IInv, StaleIsSwept
  <2>2. u \in unswept'
    BY <1>1
  <2>3. QED
    BY <1>2, <2>0, <2>1, <2>2 DEF StaleIsSwept
<1>15. StartsPlain'
  BY <1>2 DEF IInv, StartsPlain, Started
<1>16. QED
  BY <1>10, <1>11, <1>12, <1>13, <1>14, <1>15 DEF IInv

LEMMA Inductive == Spec => []IInv
<1>1. ASSUME IInv, [Next]_vars PROVE IInv'
  <2>1. CASE Next
    <3>1. CASE ResetsAdmin
      BY <1>1, <3>1, ResetsKeeps
    <3>2. CASE \E r \in Request : \/ Authenticated(r) \/ SignsIn(r) \/ GivesCode(r) \/ SignsOut(r)
                                  \/ Admits(r) \/ Runs(r) \/ Fails(r)
      BY <1>1, <3>2, BeginsKeeps, AdmitsKeeps, RunsKeeps, FailsKeeps
    <3>3. QED
      BY <2>1, <3>1, <3>2 DEF Next
  <2>2. CASE UNCHANGED vars
    BY <1>1, <2>2 DEF vars, IInv, Domains, EnrolledIsProved, Alive, StaleIsSwept, OwnerIsKept, AsOwner,
                      StartsPlain, Started, Here, Gone, Owns, Sweeping, Target
  <2>3. QED
    BY <1>1, <2>1, <2>2
<1>2. QED
  BY InvInit, <1>1, PTL DEF Spec
-----------------------------------------------------------------------------
(***************************************************************************)
(* What refers to what.                                                    *)
(***************************************************************************)
Within(u, row, os, n) ==
    /\ row.active => row.here = "yes"
    /\ row.here = "yes" => People[u].org \in os
    /\ row.password \in 0..n /\ row.secret \in 0..n /\ row.proved \in 0..n

Closed(os) == os \subseteq Orgs /\ \A o \in os : Parent[o] \in os \cup {NoOrg}

Referring ==
    /\ Closed(orgs) /\ used >= 1 /\ unswept \subseteq Users
    /\ \A u \in Users : Within(u, account[u], orgs, used)
    /\ \A r \in Started : req[r].read \in 0..used

LEMMA WithinOn ==
    ASSUME NEW u, NEW row, NEW os, NEW more, NEW n \in Nat, NEW m \in Nat, n <= m,
           Within(u, row, os, n), os \subseteq more
    PROVE Within(u, row, more, m)
<1>1. 0..n \subseteq 0..m
  OBVIOUS
<1>2. QED
  BY <1>1 DEF Within

LEMMA WritesRefers ==
    ASSUME Domains, Referring, NEW r \in Request, r \in Started, NEW st, Suits(st, req[r].kind),
           Writes(r, st)
    PROVE /\ \A u \in Users : Within(u, account'[u], orgs, used')
          /\ orgs' = orgs /\ used' \in Nat /\ used <= used'
<1>1. st \in RowStatements /\ orgs' = orgs
  BY Zenon DEF Writes
<1>2. used \in Nat /\ used >= 1 /\ account \in [Users -> RowFields]
  BY DEF Domains, Referring
<1>3. used' = (IF st \in {"set password", "set secret"} THEN used + 1 ELSE used)
  BY Zenon DEF Writes
<1>4. used' = used \/ used' = used + 1
  BY <1>3
<1>5. used' \in Nat /\ used <= used'
  BY <1>2, <1>4
<1> DEFINE u0 == Target(r)
           row == account[u0]
           new == RowAfter(r, st)
           read == req[r].read
<1>6. u0 \in Users /\ new.here = row.here
  BY <1>1, RowsAfter
<1>7. row \in RowFields /\ read \in 0..used /\ Within(u0, row, orgs, used)
  BY <1>2, <1>6 DEF Referring
<1>8. account' = IF row.here = "yes" THEN [account EXCEPT ![u0] = new] ELSE account
  BY Zenon DEF Writes, Here
<1>9. new =
        CASE st = "set password" -> [row EXCEPT !.password = used + 1]
          [] st = "set secret" -> [row EXCEPT !.secret = used + 1, !.enrolled = FALSE]
          [] st = "enrol" -> [row EXCEPT !.enrolled = TRUE, !.proved = read,
                                        !.crossed = row.secret # read]
          [] st = "clear codes" -> [row EXCEPT !.secret = NoSecret, !.enrolled = FALSE]
          [] st = "update" -> [row EXCEPT !.role = IF req[r].ask.role = "same" THEN @ ELSE req[r].ask.role,
                                       !.active = req[r].ask.active]
          [] OTHER -> row
  BY DEF RowAfter, NewSecret
<1> HIDE DEF u0, row, new, read
<1>10. ASSUME row.here = "yes" PROVE Within(u0, new, orgs, used')
  <2>1. CASE st = "set password"
    <3>1. new = [row EXCEPT !.password = used + 1] /\ used' = used + 1
      BY <1>3, <1>9, <2>1
    <3>2. QED
      BY <1>2, <1>7, <3>1 DEF Within, RowFields
  <2>2. CASE st = "set secret"
    <3>1. new = [row EXCEPT !.secret = used + 1, !.enrolled = FALSE] /\ used' = used + 1
      BY <1>3, <1>9, <2>2
    <3>2. QED
      BY <1>2, <1>7, <3>1 DEF Within, RowFields
  <2>3. CASE st = "enrol"
    <3>1. new = [row EXCEPT !.enrolled = TRUE, !.proved = read, !.crossed = row.secret # read]
      BY <1>9, <2>3
    <3>2. QED
      BY <1>2, <1>4, <1>7, <3>1 DEF Within, RowFields
  <2>4. CASE st = "clear codes"
    <3>1. new = [row EXCEPT !.secret = NoSecret, !.enrolled = FALSE]
      BY <1>9, <2>4
    <3>2. QED
      BY <1>2, <1>4, <1>7, <3>1 DEF Within, RowFields, NoSecret
  <2>5. CASE st = "update"
    <3>1. \E role, active : new = [row EXCEPT !.role = role, !.active = active]
      BY <1>9, <2>5, Zenon
    <3>2. QED
      BY <1>2, <1>4, <1>7, <1>10, <3>1 DEF Within, RowFields
  <2>6. QED
    BY <1>1, <2>1, <2>2, <2>3, <2>4, <2>5 DEF RowStatements
<1>11. ASSUME NEW u \in Users PROVE Within(u, account'[u], orgs, used')
  <2>1. Within(u, account[u], orgs, used')
    BY <1>2, <1>5, WithinOn DEF Referring
  <2>2. account'[u] = account[u] \/ (u = u0 /\ row.here = "yes" /\ account'[u] = new)
    BY <1>2, <1>6, <1>8
  <2>3. QED
    BY <1>10, <2>1, <2>2
<1>12. QED
  BY <1>1, <1>5, <1>11

LEMMA RemovesRefers ==
    ASSUME Domains, Referring, NEW gone \in SUBSET Users, Removes(gone), NEW os,
           \A u \in Users : u \notin gone /\ Here(u) => People[u].org \in os
    PROVE \A u \in Users : Within(u, account'[u], os, used)
<1> SUFFICES ASSUME NEW u \in Users PROVE Within(u, account'[u], os, used)
  OBVIOUS
<1> DEFINE row == account[u]
<1>1. row \in RowFields /\ Within(u, row, orgs, used)
  BY DEF Domains, Referring
<1>2. account'[u] = IF u \in gone THEN [row EXCEPT !.here = "gone", !.active = FALSE] ELSE row
  BY DEF Removes
<1>3. u \notin gone /\ row.here = "yes" => People[u].org \in os
  BY DEF Here
<1> HIDE DEF row
<1>4. CASE u \in gone
  <2>1. account'[u] = [row EXCEPT !.here = "gone", !.active = FALSE]
    BY <1>2, <1>4
  <2>2. QED
    BY <1>1, <2>1 DEF Within, RowFields
<1>5. CASE u \notin gone
  <2>1. account'[u] = row
    BY <1>2, <1>5
  <2>2. QED
    BY <1>1, <1>3, <1>5, <2>1 DEF Within
<1>6. QED
  BY <1>4, <1>5

LEMMA RestRefers ==
    ASSUME Domains, Referring, NEW r \in Request, r \in Started, NEW st, Suits(st, req[r].kind),
           Possible(r, st),
           \/ Sweeps(r, st) \/ Revokes(r, st) \/ Opens(r, st)
           \/ Deletes(r, st) \/ Inserts(r, st) \/ InsertsOrg(r, st) \/ DeletesOrg(r, st)
    PROVE /\ \A u \in Users : Within(u, account'[u], orgs', used')
          /\ Closed(orgs') /\ used' = used
<1> DEFINE o == req[r].ask.org
<1>1. /\ used \in Nat /\ used >= 1 /\ Closed(orgs) /\ account \in [Users -> RowFields]
      /\ \A u \in Users : Within(u, account[u], orgs, used)
  BY DEF Domains, Referring
<1>2. CASE Sweeps(r, st) \/ Revokes(r, st) \/ Opens(r, st)
  <2>1. account' = account /\ orgs' = orgs /\ used' = used
    BY <1>2, Zenon DEF Sweeps, Revokes, Opens
  <2>2. QED
    BY <1>1, <2>1
<1>3. CASE Deletes(r, st)
  <2> DEFINE gone == {Target(r)} \cap {u \in Users : Here(u)}
  <2>1. Removes(gone) /\ orgs' = orgs /\ used' = used
    BY <1>3, Zenon DEF Deletes
  <2>2. gone \in SUBSET Users /\ \A u \in Users : Here(u) => People[u].org \in orgs
    BY <1>1 DEF Here, Within
  <2> HIDE DEF gone
  <2>3. \A u \in Users : Within(u, account'[u], orgs, used)
    BY <2>1, <2>2, RemovesRefers
  <2>4. QED
    BY <1>1, <2>1, <2>3
<1>4. CASE Inserts(r, st)
  <2> DEFINE u0 == Target(r)
             new == Row(u0, "yes", FALSE)
  <2>1. /\ st = "insert" /\ account' = [account EXCEPT ![u0] = new]
        /\ orgs' = orgs /\ used' = used
    BY <1>4, Zenon DEF Inserts
  <2>2. People[u0].org \in orgs
    BY <2>1 DEF Possible
  <2>3. /\ new.here = "yes" /\ new.active = TRUE /\ new.password = 1
        /\ new.secret = NoSecret /\ new.proved = NoSecret
    BY DEF Row
  <2> HIDE DEF u0, new
  <2>4. 1 \in 0..used /\ NoSecret \in 0..used
    BY <1>1 DEF NoSecret
  <2>5. Within(u0, new, orgs, used)
    BY <2>2, <2>3, <2>4 DEF Within
  <2>6. \A u \in Users : account'[u] = account[u] \/ (u = u0 /\ account'[u] = new)
    BY <1>1, <2>1
  <2>7. QED
    BY <1>1, <2>1, <2>5, <2>6
<1>5. CASE InsertsOrg(r, st)
  <2>1. st = "insert org" /\ orgs' = orgs \cup {o} /\ account' = account /\ used' = used
    BY <1>5, Zenon DEF InsertsOrg
  <2>2. Parent[o] \in orgs
    BY <2>1 DEF Possible
  <2>3. Parent[o] \in orgs => o \in Orgs
    <3>1. Asks(req[r], Len(sessions)) /\ req[r].kind \in OfOrgs
      BY <2>1, Started1 DEF Suits, OfOrgs, Outside
    <3>2. QED
      BY <3>1 DEF Asks
  <2> HIDE DEF o
  <2>4. Closed(orgs')
    BY <1>1, <2>1, <2>2, <2>3 DEF Closed
  <2>5. \A u \in Users : Within(u, account[u], orgs', used)
    BY <1>1, <2>1 DEF Within
  <2>6. QED
    BY <2>1, <2>4, <2>5
<1>6. CASE DeletesOrg(r, st)
  <2> DEFINE gone == Members(o)
  <2>1. st = "delete org" /\ orgs' = orgs \ {o} /\ Removes(gone) /\ used' = used
    BY <1>6, Zenon DEF DeletesOrg
  <2>2. \A p \in orgs : Parent[p] # o
    BY <2>1 DEF Possible
  <2>3. /\ gone \in SUBSET Users
        /\ \A u \in Users : u \notin gone /\ Here(u) => People[u].org \in orgs'
    BY <1>1, <2>1 DEF Members, Here, Within
  <2> HIDE DEF gone, o
  <2>4. \A u \in Users : Within(u, account'[u], orgs', used)
    BY <2>1, <2>3, RemovesRefers
  <2>5. Closed(orgs')
    BY <1>1, <2>1, <2>2 DEF Closed
  <2>6. QED
    BY <2>1, <2>4, <2>5
<1>7. QED
  BY <1>2, <1>3, <1>4, <1>5, <1>6

LEMMA Refers1 == Init => Referring
<1> SUFFICES ASSUME Init PROVE Referring
  OBVIOUS
<1>1. used = 1 /\ unswept = {} /\ orgs = FirstOrgs /\ \A r \in Request : r \notin Started
  BY DEF Init, Started
<1>2. Closed(orgs)
  <2>1. FirstOrgs \subseteq Orgs
    BY PeopleAssumption, AccountsAssumption DEF FirstOrgs
  <2>2. QED
    BY <1>1, <2>1, FirstOrgsAssumption DEF Closed
<1>3. ASSUME NEW u \in Users PROVE Within(u, account[u], orgs, used)
  <2> DEFINE here == IF u \in Existing THEN "yes" ELSE "no"
             enrolled == u \in Enrolled
  <2>1. account[u] = Row(u, here, enrolled)
    BY DEF Init
  <2>2. here \in {"no", "yes", "gone"} /\ enrolled \in BOOLEAN
    OBVIOUS
  <2>3. here = "yes" => People[u].org \in orgs
    BY <1>1 DEF FirstOrgs
  <2> HIDE DEF here, enrolled
  <2>4. /\ account[u].here = here /\ (account[u].active => here = "yes")
        /\ account[u].password = 1 /\ account[u].secret \in {0, 1}
        /\ account[u].proved = account[u].secret
    BY <2>1, <2>2, Rows
  <2>5. QED
    BY <1>1, <2>3, <2>4 DEF Within
<1>4. QED
  BY <1>1, <1>2, <1>3 DEF Referring, Started

LEMMA RefersKept == ASSUME IInv, Referring, [Next]_vars PROVE Referring'
<1>0. /\ Domains /\ used \in Nat /\ used >= 1 /\ account \in [Users -> RowFields]
      /\ DOMAIN req = Request
  BY DEF IInv, Domains, Referring
<1>1. ASSUME NEW r \in Request, Authenticated(r) \/ SignsIn(r) \/ GivesCode(r) \/ SignsOut(r)
      PROVE Referring'
  <2>1. /\ UNCHANGED <<orgs, account, sessions, used, unswept>> /\ Started' = Started \cup {r}
        /\ \A k \in Request : k # r => req'[k] = req[k]
        /\ req'[r].read = NoSecret /\ r \notin Started
    BY <1>0, <1>1, Beginnings
  <2>2. \A k \in Started' : req'[k].read \in 0..used
    BY <1>0, <2>1 DEF Referring, Started, NoSecret
  <2>3. QED
    BY <2>1, <2>2 DEF Referring
<1>2. ASSUME NEW r \in Request, Admits(r) PROVE Referring'
  <2> DEFINE yes == Admitted(req[r].ask, req[r].who)
             read == IF req[r].kind = "confirm" THEN account[req[r].who.user].secret ELSE req[r].read
  <2>1. /\ todo[r] # <<>> /\ Head(todo[r]) = "admit"
        /\ req' = IF yes THEN [req EXCEPT ![r] = [req[r] EXCEPT !.read = read]] ELSE req
        /\ UNCHANGED orgs /\ UNCHANGED account /\ UNCHANGED used /\ UNCHANGED unswept
    BY <1>2, Zenon DEF Admits
  <2>2. r \in Started /\ Fits(todo[r], req[r].kind) /\ Asks(req[r], Len(sessions))
    BY <1>0, <2>1, Started1
  <2>3. Suits("admit", req[r].kind)
    BY <2>1, <2>2, FitsOn
  <2>4. req[r].who.user \in Users
    BY <2>2, <2>3 DEF Suits, Asks
  <2>5. read \in 0..used
    BY <2>2, <2>4 DEF Referring, Within
  <2>6. req'[r].read \in 0..used /\ \A k \in Request : k # r => req'[k] = req[k]
    <3>1. req[r].read \in 0..used
      BY <2>2 DEF Referring
    <3>2. req[r] = [kind |-> req[r].kind, ask |-> req[r].ask, who |-> req[r].who,
                    password |-> req[r].password, read |-> req[r].read]
      BY <2>2, Zenon DEF Asks
    <3> HIDE DEF yes, read
    <3>3. [req[r] EXCEPT !.read = read].read = read
      BY <3>2
    <3>4. QED
      BY <1>0, <2>1, <2>5, <3>1, <3>3
  <2>7. \A k \in Started' : k # r => k \in Started
    BY <2>6 DEF Started
  <2>8. QED
    BY <2>1, <2>6, <2>7 DEF Referring, Started
<1>3. ASSUME NEW r \in Request, Runs(r) PROVE Referring'
  <2> DEFINE st == Head(todo[r])
  <2>1. /\ todo[r] # <<>> /\ Possible(r, st) /\ Effect(r, st)
        /\ UNCHANGED req /\ UNCHANGED unswept
    BY <1>3, Zenon DEF Runs
  <2>2. r \in Started /\ Fits(todo[r], req[r].kind)
    BY <1>0, <2>1, Started1
  <2>3. Suits(st, req[r].kind)
    BY <2>1, <2>2, FitsOn
  <2> HIDE DEF st
  <2>4. /\ \A u \in Users : Within(u, account'[u], orgs', used')
        /\ Closed(orgs') /\ used' \in Nat /\ used <= used'
    <3>1. CASE Writes(r, st)
      BY <1>0, <2>2, <2>3, <3>1, WritesRefers DEF Referring
    <3>2. CASE ~Writes(r, st)
      <4>1. \/ Sweeps(r, st) \/ Revokes(r, st) \/ Opens(r, st)
            \/ Deletes(r, st) \/ Inserts(r, st) \/ InsertsOrg(r, st) \/ DeletesOrg(r, st)
        BY <2>1, <3>2 DEF Effect
      <4>2. QED
        BY <1>0, <2>1, <2>2, <2>3, <4>1, RestRefers
    <3>3. QED
      BY <3>1, <3>2
  <2>5. 0..used \subseteq 0..used'
    BY <1>0, <2>4
  <2>6. \A k \in Started' : req'[k].read \in 0..used'
    BY <2>1, <2>5 DEF Referring, Started
  <2>7. QED
    BY <1>0, <2>1, <2>4, <2>6 DEF Referring
<1>4. ASSUME NEW r \in Request, Fails(r) PROVE Referring'
  <2>1. /\ todo[r] # <<>>
        /\ unswept' = IF Head(todo[r]) = "sweep" THEN unswept \cup {Target(r)} ELSE unswept
        /\ UNCHANGED orgs /\ UNCHANGED account /\ UNCHANGED req /\ UNCHANGED used
    BY <1>4, Zenon DEF Fails
  <2>2. r \in Started /\ Fits(todo[r], req[r].kind)
    BY <1>0, <2>1, Started1
  <2>3. Head(todo[r]) = "sweep" => Target(r) \in Users
    <3>1. Suits(Head(todo[r]), req[r].kind)
      BY <2>1, <2>2, FitsOn
    <3>2. QED
      BY <1>0, <2>2, <3>1, TargetIn DEF Suits
  <2>4. QED
    BY <2>1, <2>3 DEF Referring, Started
<1>5. ASSUME ResetsAdmin PROVE Referring'
  <2>1. PICK u \in Users : /\ unswept' = {u}
                           /\ account' = [account EXCEPT ![u] =
                                [account[u] EXCEPT !.password = used + 1, !.secret = NoSecret,
                                                   !.enrolled = FALSE]]
    BY <1>5 DEF ResetsAdmin
  <2>2. used' = used + 1 /\ UNCHANGED orgs /\ UNCHANGED req
    BY <1>5, Zenon DEF ResetsAdmin
  <2> DEFINE row == account[u]
             new == [row EXCEPT !.password = used + 1, !.secret = NoSecret, !.enrolled = FALSE]
  <2>3. row \in RowFields /\ Within(u, row, orgs, used)
    BY <1>0 DEF Referring
  <2>4. account' = [account EXCEPT ![u] = new]
    BY <2>1
  <2>5. \A v \in Users : account'[v] = account[v] \/ (v = u /\ account'[v] = new)
    BY <1>0, <2>4
  <2>6. new = [row EXCEPT !.password = used + 1, !.secret = NoSecret, !.enrolled = FALSE]
    OBVIOUS
  <2> HIDE DEF row, new
  <2>7. Within(u, new, orgs, used')
    BY <1>0, <2>2, <2>3, <2>6 DEF Within, RowFields, NoSecret
  <2>8. ASSUME NEW v \in Users PROVE Within(v, account'[v], orgs, used')
    <3>1. Within(v, account[v], orgs, used')
      BY <1>0, <2>2, WithinOn DEF Referring
    <3>2. QED
      BY <2>5, <2>7, <3>1
  <2>9. 0..used \subseteq 0..used'
    BY <1>0, <2>2
  <2>10. \A k \in Started' : req'[k].read \in 0..used'
    BY <2>2, <2>9 DEF Referring, Started
  <2>11. QED
    BY <1>0, <2>1, <2>2, <2>8, <2>10 DEF Referring
<1>6. CASE UNCHANGED vars
  BY <1>6 DEF vars, Referring, Started
<1>7. QED
  BY <1>1, <1>2, <1>3, <1>4, <1>5, <1>6 DEF Next
-----------------------------------------------------------------------------
\* The domains of the state, and that nothing outlives what it refers to: an
\* account its organisation, an organisation the one above it, and a session
\* that still authenticates its account.
THEOREM TypeCorrect == Spec => []TypeOK
<1>1. IInv /\ Referring => TypeOK
  <2> SUFFICES ASSUME IInv, Referring PROVE TypeOK
    OBVIOUS
  <2>1. ASSUME NEW u \in Users
        PROVE /\ account[u].here \in {"no", "yes", "gone"} /\ account[u].role \in Roles
              /\ account[u].active => Here(u)
              /\ Here(u) => People[u].org \in orgs
              /\ {account[u].password, account[u].secret, account[u].proved} \subseteq 0..used
    <3>1. account[u] \in RowFields /\ Within(u, account[u], orgs, used)
      BY DEF IInv, Domains, Referring
    <3>2. account[u].here \in {"no", "yes", "gone"} /\ account[u].role \in Roles
      BY <3>1 DEF RowFields
    <3>3. (account[u].active => Here(u)) /\ (Here(u) => People[u].org \in orgs)
      BY <3>1 DEF Within, Here
    <3>4. /\ account[u].password \in 0..used /\ account[u].secret \in 0..used
          /\ account[u].proved \in 0..used
      BY <3>1 DEF Within
    <3>5. {account[u].password, account[u].secret, account[u].proved} \subseteq 0..used
      BY <3>4, Zenon
    <3>6. QED
      BY <3>2, <3>3, <3>5, Zenon
  <2>2. ASSUME NEW r \in Request, todo[r] # <<>> PROVE r \in Started
    BY <2>2 DEF IInv, Domains
  <2>3. \A s \in DOMAIN sessions : sessions[s].live => Here(sessions[s].user)
    BY DEF IInv, Alive
  <2>4. orgs \subseteq Orgs /\ (\A o \in orgs : Parent[o] \in orgs \cup {NoOrg}) /\ unswept \subseteq Users
    BY DEF Referring, Closed
  <2>5. QED
    BY <2>1, <2>2, <2>3, <2>4, Zenon DEF TypeOK
<1>2. Referring /\ IInv /\ [Next]_vars => Referring'
  BY RefersKept
<1>3. Spec => []Referring
  BY Inductive, Refers1, <1>2, PTL DEF Spec
<1>4. QED
  BY Inductive, <1>1, <1>3, PTL

\* Once a password has changed, every session that was opened on the one before
\* is ended, but those of a login that was already past the check of it, of a
\* change whose sweep failed, and of one whose sweep is still to run.
THEOREM OldPasswordsEnd == Spec => []OldPasswordEnds
<1>1. IInv => OldPasswordEnds
  <2> SUFFICES ASSUME IInv, NEW s \in DOMAIN sessions, sessions[s].live, ~sessions[s].late,
                      sessions[s].password # account[sessions[s].user].password,
                      sessions[s].user \notin unswept
               PROVE \E r \in Started : /\ \E i \in DOMAIN todo[r] : todo[r][i] = "sweep"
                                        /\ Target(r) = sessions[s].user
    BY DEF OldPasswordEnds
  <2>1. PICK r \in Started : Sweeping(r, sessions[s].user)
    BY DEF IInv, StaleIsSwept
  <2>2. todo[r] \in Seq(Statements)
    BY DEF IInv, Domains, Fits, Started
  <2>3. 1 \in DOMAIN todo[r] /\ Head(todo[r]) = todo[r][1]
    BY <2>1, <2>2, EmptySeq DEF Sweeping
  <2>4. QED
    BY <2>1, <2>3 DEF Sweeping, Ends
<1>2. QED
  BY Inductive, <1>1, PTL

\* An account is only ever asked for codes of a secret its owner has shown a
\* code for, unless another request changed the secret between the check of
\* that code and the enrolment.
THEOREM EnrolmentIsProved == Spec => []EnrolledIsProved
  BY Inductive, PTL DEF IInv

\* As long as the account of whoever signed in exists, a session goes on as its
\* owner or as someone its owner helps, and then names its owner, however
\* helping, stopping and signing in interleave.  Nothing is said of the sessions
\* of an owner whose account was deleted: those lose their mark.
THEOREM OwnersAreKept == Spec => []OwnerIsKept
  BY Inductive, PTL DEF IInv
-----------------------------------------------------------------------------
(***************************************************************************)
(* Who changes what.  A request that is past its check was found entitled  *)
(* by the organisations there were then; organisations come and go, but    *)
(* what is above what never changes.                                       *)
(***************************************************************************)
MayTouch(who, u) ==
    \/ who.user = u
    \/ who.role = "super_admin"
    \/ who.role # "org_user" /\ People[who.user].org \in Chain(People[u].org)

MayGive(r) ==
    req[r].kind = "update" =>
        req[r].ask.role = "same" \/ CanAssign(req[r].who.role, req[r].ask.role)

MayWrite(r) ==
    req[r].kind \in Writing =>
        /\ MayTouch(req[r].who, Target(r))
        /\ req[r].kind = "create" => CanAssign(req[r].who.role, People[Target(r)].role)

PastCheck(r) == todo[r] # <<>> /\ Head(todo[r]) # "admit"

Entitled == \A r \in Started : MayGive(r) /\ (PastCheck(r) => MayWrite(r))

\* Whatever is below an organisation has that one above it.
LEMMA TreeIsBelow ==
    ASSUME NEW p \in Orgs, NEW o, o \in Tree(p), orgs \subseteq Orgs
    PROVE p \in Chain(o)
<1>1. /\ o \in orgs
      /\ \A D \in SUBSET orgs :
            (p \in orgs => p \in D) /\ (\A q \in orgs : Parent[q] \in D => q \in D) => o \in D
  BY DEF Tree
<1>2. ASSUME NEW S \in SUBSET Orgs, o \in S, \A q \in S : Parent[q] # NoOrg => Parent[q] \in S
      PROVE p \in S
  <2> DEFINE D == {q \in orgs : q \in S => p \in S}
  <2>1. p \in orgs => p \in D
    OBVIOUS
  <2>2. ASSUME NEW q \in orgs, Parent[q] \in D PROVE q \in D
    <3>1. Parent[q] \in Orgs /\ (Parent[q] \in S => p \in S)
      BY <2>2
    <3>2. Parent[q] # NoOrg
      BY <3>1, TreeAssumption
    <3>3. q \in S => p \in S
      BY <1>2, <3>1, <3>2
    <3>4. QED
      BY <3>3
  <2>3. D \in SUBSET orgs
    OBVIOUS
  <2>4. o \in D
    <3> HIDE DEF D
    <3>1. QED
      BY <1>1, <2>1, <2>2, <2>3
  <2>5. QED
    BY <1>2, <2>4
<1>3. QED
  BY <1>2 DEF Chain

LEMMA AdminIsAbove ==
    ASSUME NEW who, who.user \in Users, NEW u \in Users, CanAdmin(who, People[u].org), orgs \subseteq Orgs
    PROVE MayTouch(who, u)
<1>1. CASE who.role = "super_admin"
  BY <1>1 DEF MayTouch
<1>2. CASE who.role # "super_admin"
  <2>1. People[u].org \in Tree(People[who.user].org) /\ who.role \in {"msp_admin", "org_admin"}
    BY <1>2 DEF CanAdmin, Allows
  <2>2. People[who.user].org \in Orgs
    BY PeopleAssumption
  <2>3. People[who.user].org \in Chain(People[u].org)
    BY <2>1, <2>2, TreeIsBelow
  <2>4. QED
    BY <2>1, <2>3 DEF MayTouch
<1>3. QED
  BY <1>1, <1>2

\* What the check of each kind of request establishes.
LEMMA AdmittedMayWrite ==
    ASSUME Domains, orgs \subseteq Orgs, NEW r \in Request, r \in Started,
           Admitted(req[r].ask, req[r].who)
    PROVE MayWrite(r)
<1> DEFINE q == req[r].ask
           who == req[r].who
<1> SUFFICES ASSUME req[r].kind \in Writing PROVE MayWrite(r)
  BY DEF MayWrite
<1>1. Asks(req[r], Len(sessions))
  BY Started1
<1>2. /\ q.kind = req[r].kind /\ q.kind \in Writing /\ who.user \in Users
      /\ q.user \in Users
  BY <1>1 DEF Asks, Writing, Outside, OfOrgs
<1>3. CASE req[r].kind \in Self
  <2>1. Target(r) = who.user /\ req[r].kind # "create"
    BY <1>3 DEF Target, Self
  <2>2. QED
    BY <2>1 DEF MayWrite, MayTouch
<1>4. CASE req[r].kind \notin Self
  <2>1. Target(r) = q.user /\ q.kind \in {"password", "reset codes", "update", "create", "delete"}
    BY <1>2, <1>4 DEF Target, Self, Writing
  <2> HIDE DEF q, who
  <2>2. Admitted(q, who)
    BY DEF q, who
  <2>3. CASE q.kind = "create"
    <3>1. MayCreate(q, who)
      BY <2>2, <2>3 DEF Admitted
    <3>2. MayTouch(who, q.user) /\ CanAssign(who.role, People[q.user].role)
      BY <1>2, <3>1, AdminIsAbove DEF MayCreate
    <3>3. QED
      BY <2>1, <3>2 DEF MayWrite, who
  <2>4. CASE q.kind \in {"reset codes", "update", "delete"}
    <3>1. MayManage(q, who)
      BY <2>2, <2>4 DEF Admitted, MayResetCodes, MayDelete
    <3>2. MayTouch(who, q.user)
      BY <1>2, <3>1, AdminIsAbove DEF MayManage
    <3>3. req[r].kind # "create"
      BY <1>2, <2>4
    <3>4. QED
      BY <2>1, <3>2, <3>3 DEF MayWrite, who
  <2>5. CASE q.kind = "password"
    <3>1. q.user = who.user \/ MayManage(q, who)
      BY <2>2, <2>5 DEF Admitted, MaySetPassword
    <3>2. MayTouch(who, q.user)
      <4>1. CASE q.user = who.user
        BY <4>1 DEF MayTouch
      <4>2. CASE MayManage(q, who)
        BY <1>2, <4>2, AdminIsAbove DEF MayManage
      <4>3. QED
        BY <3>1, <4>1, <4>2
    <3>3. req[r].kind # "create"
      BY <1>2, <2>5
    <3>4. QED
      BY <2>1, <3>2, <3>3 DEF MayWrite, who
  <2>6. QED
    BY <2>1, <2>3, <2>4, <2>5
<1>5. QED
  BY <1>3, <1>4

\* A request for another role names one its sender may give.
LEMMA BeginsMayGive ==
    ASSUME Domains, NEW r \in Request,
           Authenticated(r) \/ SignsIn(r) \/ GivesCode(r) \/ SignsOut(r)
    PROVE MayGive(r)'
<1>1. ASSUME NEW q, NEW who, NEW password, Begin(r, q, who, password)
      PROVE req'[r].kind = q.kind /\ req'[r].ask = q /\ req'[r].who = who
  BY <1>1 DEF Begin, Domains
<1>2. ASSUME NEW q, NEW who, NEW password, Begin(r, q, who, password), q.kind # "update"
      PROVE MayGive(r)'
  BY <1>1, <1>2 DEF MayGive
<1>3. CASE Authenticated(r)
  <2>0. PICK s \in DOMAIN sessions : \E q \in Asked(Identity(s)) : Begin(r, q, Identity(s), 0)
    BY <1>3 DEF Authenticated
  <2>1. PICK q \in Asked(Identity(s)) : Begin(r, q, Identity(s), 0)
    BY <2>0
  <2>2. q.kind = "update" => q.role = "same" \/ CanAssign(Identity(s).role, q.role)
    BY DEF Asked
  <2>3. QED
    BY <1>1, <2>1, <2>2 DEF MayGive, CanAssign
<1>4. CASE SignsOut(r)
  <2>1. PICK s \in DOMAIN sessions :
            Begin(r, [kind |-> "logout", user |-> Identity(s).user], Identity(s), 0)
    BY <1>4 DEF SignsOut
  <2>2. QED
    BY <1>2, <2>1
<1>5. CASE SignsIn(r)
  <2>1. PICK u \in Users :
            Begin(r, [kind |-> IF account[u].enrolled THEN "challenge" ELSE "login", user |-> u],
                  Anonymous, account[u].password)
    BY <1>5 DEF SignsIn
  <2>2. QED
    BY <1>2, <2>1
<1>6. CASE GivesCode(r)
  <2>1. PICK k \in Challenges :
            Begin(r, [kind |-> "code", user |-> req[k].ask.user], Anonymous, req[k].password)
    BY <1>6 DEF GivesCode
  <2>2. QED
    BY <1>2, <2>1
<1>7. QED
  BY <1>3, <1>4, <1>5, <1>6

LEMMA Heads == \A a, b : Head(<<a, b>>) = a
  OBVIOUS

LEMMA ProgramChecks ==
    ASSUME NEW kind \in Writing
    PROVE kind = "setup" \/ Head(Program(kind)) = "admit"
<1>1. CASE kind = "password"
  <2>1. Program(kind) = <<"admit", "set password", "sweep">>
    BY <1>1 DEF Program, SetsPassword
  <2>2. Head(<<"admit", "set password", "sweep">>) = "admit"
    OBVIOUS
  <2>3. QED
    BY <2>1, <2>2
<1>2. CASE kind = "reset codes"
  <2>1. Program(kind) = <<"admit", "clear codes", "sweep">>
    BY <1>2 DEF Program
  <2>2. Head(<<"admit", "clear codes", "sweep">>) = "admit"
    OBVIOUS
  <2>3. QED
    BY <2>1, <2>2
<1>3. CASE kind = "confirm"
  <2>1. Program(kind) = <<"admit", "enrol">>
    BY <1>3 DEF Program
  <2>2. QED
    BY <2>1, Heads
<1>4. CASE kind = "disable"
  <2>1. Program(kind) = <<"admit", "clear codes">>
    BY <1>4 DEF Program
  <2>2. QED
    BY <2>1, Heads
<1>5. CASE kind = "update"
  <2>1. Program(kind) = <<"admit", "update">>
    BY <1>5 DEF Program
  <2>2. QED
    BY <2>1, Heads
<1>6. CASE kind = "create"
  <2>1. Program(kind) = <<"admit", "insert">>
    BY <1>6 DEF Program
  <2>2. QED
    BY <2>1, Heads
<1>7. CASE kind = "delete"
  <2>1. Program(kind) = <<"admit", "delete">>
    BY <1>7 DEF Program
  <2>2. QED
    BY <2>1, Heads
<1>8. QED
  BY <1>1, <1>2, <1>3, <1>4, <1>5, <1>6, <1>7 DEF Writing

LEMMA EntitledKept == ASSUME IInv, Referring, Entitled, [Next]_vars PROVE Entitled'
<1>0. Domains /\ orgs \subseteq Orgs /\ DOMAIN req = Request /\ DOMAIN todo = Request
  BY DEF IInv, Domains, Referring, Closed
\* The other requests.
<1>1. ASSUME NEW k \in Started, UNCHANGED req[k], todo'[k] = todo[k] \/ todo'[k] = <<>>
      PROVE MayGive(k)' /\ (PastCheck(k)' => MayWrite(k)')
  <2>1. MayGive(k)' = MayGive(k) /\ MayWrite(k)' = MayWrite(k)
    BY <1>1 DEF MayGive, MayWrite, Target
  <2>2. PastCheck(k)' => PastCheck(k)
    BY <1>1 DEF PastCheck
  <2>3. QED
    BY <2>1, <2>2 DEF Entitled
<1>2. ASSUME NEW r \in Request, Authenticated(r) \/ SignsIn(r) \/ GivesCode(r) \/ SignsOut(r)
      PROVE Entitled'
  <2>1. /\ Domains' /\ r \notin Started /\ Started' = Started \cup {r}
        /\ \A k \in Request : k # r => req'[k] = req[k] /\ todo'[k] = todo[k]
        /\ todo'[r] = Program(req'[r].kind)
    BY <1>0, <1>2, Beginnings
  <2>2. MayGive(r)'
    BY <1>0, <1>2, BeginsMayGive
  <2>3. PastCheck(r)' => MayWrite(r)'
    <3> SUFFICES ASSUME PastCheck(r)', req'[r].kind \in Writing PROVE MayWrite(r)'
      BY DEF MayWrite
    <3>1. req'[r].kind = "setup"
      BY <2>1, ProgramChecks DEF PastCheck
    <3>2. Target(r)' = req'[r].who.user
      BY <3>1 DEF Target, Self
    <3>3. QED
      BY <3>1, <3>2 DEF MayWrite, MayTouch
  <2>4. \A k \in Started : k \in Request /\ k # r
    BY <2>1 DEF Started
  <2>5. QED
    BY <1>1, <2>1, <2>2, <2>3, <2>4 DEF Entitled
<1>3. ASSUME NEW r \in Request, Admits(r) PROVE Entitled'
  <2> DEFINE yes == Admitted(req[r].ask, req[r].who)
             read == IF req[r].kind = "confirm" THEN account[req[r].who.user].secret ELSE req[r].read
  <2>1. /\ todo[r] # <<>>
        /\ todo' = [todo EXCEPT ![r] = IF yes THEN Tail(todo[r]) ELSE <<>>]
        /\ req' = IF yes THEN [req EXCEPT ![r] = [req[r] EXCEPT !.read = read]] ELSE req
    BY <1>3, Zenon DEF Admits
  <2>2. r \in Started /\ Asks(req[r], Len(sessions)) /\ r \in Request
    BY <1>0, <2>1, Started1
  <2>3. yes => MayWrite(r)
    BY <1>0, <2>2, AdmittedMayWrite
  <2>4. req[r] = [kind |-> req[r].kind, ask |-> req[r].ask, who |-> req[r].who,
                  password |-> req[r].password, read |-> req[r].read]
    BY <2>2, Zenon DEF Asks
  <2> HIDE DEF yes, read
  <2>5. [req[r] EXCEPT !.read = read].kind = req[r].kind /\ [req[r] EXCEPT !.read = read].ask = req[r].ask
        /\ [req[r] EXCEPT !.read = read].who = req[r].who
    BY <2>4
  <2>6. /\ req'[r].kind = req[r].kind /\ req'[r].ask = req[r].ask /\ req'[r].who = req[r].who
        /\ \A k \in Request : k # r => req'[k] = req[k] /\ todo'[k] = todo[k]
        /\ ~yes => todo'[r] = <<>>
    BY <1>0, <2>1, <2>5
  <2>7. MayGive(r)' = MayGive(r) /\ MayWrite(r)' = MayWrite(r)
    BY <2>6 DEF MayGive, MayWrite, Target
  <2>8. MayGive(r)' /\ (PastCheck(r)' => MayWrite(r)')
    <3>1. PastCheck(r)' => yes
      BY <2>6 DEF PastCheck
    <3>2. MayGive(r)
      BY <2>2 DEF Entitled
    <3>3. QED
      BY <2>3, <2>7, <3>1, <3>2
  <2>9. ASSUME NEW k \in Started', k # r PROVE k \in Started /\ UNCHANGED req[k] /\ UNCHANGED todo[k]
    BY <2>6, <2>9 DEF Started
  <2>10. QED
    BY <1>1, <2>8, <2>9 DEF Entitled
<1>4. ASSUME NEW r \in Request, Runs(r) PROVE Entitled'
  <2>1. /\ todo[r] # <<>> /\ Head(todo[r]) # "admit"
        /\ todo' = [todo EXCEPT ![r] = Tail(todo[r])] /\ UNCHANGED req
    BY <1>4, Zenon DEF Runs
  <2>2. /\ Started' = Started /\ r \in Started
        /\ \A k \in Request : k # r => UNCHANGED req[k] /\ UNCHANGED todo[k]
    BY <1>0, <2>1, Started1 DEF Started
  <2>3. MayGive(r)' = MayGive(r) /\ MayWrite(r)' = MayWrite(r)
    BY <2>1 DEF MayGive, MayWrite, Target
  <2>4. MayGive(r) /\ MayWrite(r)
    BY <2>1, <2>2 DEF Entitled, PastCheck
  <2>5. \A k \in Started : k \in Request
    BY DEF Started
  <2>6. QED
    BY <1>1, <2>2, <2>3, <2>4, <2>5 DEF Entitled
<1>5. ASSUME NEW r \in Request, Fails(r) PROVE Entitled'
  <2>1. /\ todo[r] # <<>>
        /\ todo' = [todo EXCEPT ![r] = IF Head(todo[r]) = "revoke" THEN Tail(todo[r]) ELSE <<>>]
        /\ UNCHANGED req
    BY <1>5, Zenon DEF Fails
  <2>2. /\ Started' = Started /\ r \in Started
        /\ \A k \in Request : k # r => UNCHANGED req[k] /\ UNCHANGED todo[k]
    BY <1>0, <2>1, Started1 DEF Started
  <2>3. MayGive(r)' = MayGive(r) /\ MayWrite(r)' = MayWrite(r)
    BY <2>1 DEF MayGive, MayWrite, Target
  <2>4. MayGive(r) /\ (PastCheck(r)' => MayWrite(r))
    <3>1. CASE Head(todo[r]) = "revoke"
      BY <2>1, <2>2, <3>1 DEF Entitled, PastCheck
    <3>2. CASE Head(todo[r]) # "revoke"
      <4>1. todo'[r] = <<>>
        BY <1>0, <2>1, <3>2
      <4>2. QED
        BY <2>2, <4>1 DEF Entitled, PastCheck
    <3>3. QED
      BY <3>1, <3>2
  <2>5. \A k \in Started : k \in Request
    BY DEF Started
  <2>6. QED
    BY <1>1, <2>2, <2>3, <2>4, <2>5 DEF Entitled
<1>6. ASSUME UNCHANGED <<req, todo>> PROVE Entitled'
  BY <1>6 DEF Entitled, Started, MayGive, PastCheck, MayWrite, Target
<1>7. QED
  <2>1. CASE ResetsAdmin
    BY <1>6, <2>1 DEF ResetsAdmin
  <2>2. CASE UNCHANGED vars
    BY <1>6, <2>2 DEF vars
  <2>3. QED
    BY <1>2, <1>3, <1>4, <1>5, <2>1, <2>2 DEF Next

Rightly(r, u) ==
    /\ todo'[r] # todo[r]
    /\ MayTouch(req[r].who, u)
    /\ account'[u].role # account[u].role => CanAssign(req[r].who.role, account'[u].role)

Own(u) ==
    \/ u \in unswept' \ unswept
    \/ People[u].org \in orgs \ orgs'
    \/ \E r \in Started : Rightly(r, u)

LEMMA RemovesOnly ==
    ASSUME Domains, NEW gone \in SUBSET Users, Removes(gone), NEW u \in Users, account'[u] # account[u]
    PROVE u \in gone /\ account'[u].role = account[u].role
<1>1. account'[u] = IF u \in gone THEN [account[u] EXCEPT !.here = "gone", !.active = FALSE] ELSE account[u]
  BY DEF Removes
<1>2. account[u] \in RowFields
  BY DEF Domains
<1>3. u \in gone
  BY <1>1
<1>4. QED
  BY <1>1, <1>2, <1>3 DEF RowFields

LEMMA RunsOwn ==
    ASSUME IInv, Referring, Entitled, NEW r \in Request, Runs(r), NEW u \in Users,
           account'[u] # account[u]
    PROVE Own(u)
<1> DEFINE st == Head(todo[r])
<1>1. /\ todo[r] # <<>> /\ st # "admit" /\ Possible(r, st) /\ Effect(r, st)
      /\ todo' = [todo EXCEPT ![r] = Tail(todo[r])]
  BY Zenon DEF Runs
<1>2. r \in Started /\ Fits(todo[r], req[r].kind) /\ Domains /\ account \in [Users -> RowFields]
  BY <1>1, Started1 DEF IInv, Domains
<1>3. Suits(st, req[r].kind)
  BY <1>1, <1>2, FitsOn
<1>4. todo'[r] # todo[r]
  <2>1. todo[r] \in Seq(Statements)
    BY <1>2 DEF Fits
  <2>2. Len(todo[r]) \in Nat /\ Len(Tail(todo[r])) = Len(todo[r]) - 1
    BY <1>1, <2>1
  <2>3. Len(Tail(todo[r])) # Len(todo[r])
    BY <2>2
  <2>4. todo'[r] = Tail(todo[r])
    BY <1>1, <1>2 DEF Domains
  <2>5. QED
    BY <2>3, <2>4
<1>5. MayGive(r) /\ MayWrite(r)
  BY <1>1, <1>2 DEF Entitled, PastCheck
<1> HIDE DEF st
\* It is enough that the request is about the account and may give the role.
<1>6. ASSUME u = Target(r), req[r].kind \in Writing,
             account'[u].role # account[u].role => CanAssign(req[r].who.role, account'[u].role)
      PROVE Own(u)
  BY <1>2, <1>4, <1>5, <1>6 DEF Own, Rightly, MayWrite
<1>7. CASE Writes(r, st)
  <2>1. st \in RowStatements /\ req[r].kind \in Writing
    BY <1>3, <1>7 DEF Writes, Suits
  <2>2. account' = IF Here(Target(r)) THEN [account EXCEPT ![Target(r)] = RowAfter(r, st)] ELSE account
    BY <1>7 DEF Writes
  <2>3. u = Target(r) /\ account'[u] = RowAfter(r, st)
    BY <1>2, <2>2
  <2> DEFINE row == account[Target(r)]
  <2>4. RowAfter(r, st) =
        CASE st = "set password" -> [row EXCEPT !.password = used + 1]
          [] st = "set secret" -> [row EXCEPT !.secret = used + 1, !.enrolled = FALSE]
          [] st = "enrol" -> [row EXCEPT !.enrolled = TRUE, !.proved = req[r].read,
                                        !.crossed = row.secret # req[r].read]
          [] st = "clear codes" -> [row EXCEPT !.secret = NoSecret, !.enrolled = FALSE]
          [] st = "update" -> [row EXCEPT !.role = IF req[r].ask.role = "same" THEN @ ELSE req[r].ask.role,
                                       !.active = req[r].ask.active]
          [] OTHER -> row
    BY DEF RowAfter, NewSecret
  <2>5. row \in RowFields
    BY <1>2, <2>3
  <2> HIDE DEF row
  <2>6. CASE st # "update"
    <3>1. RowAfter(r, st).role = row.role
      <4>1. CASE st = "set password"
        BY <2>4, <2>5, <4>1 DEF RowFields
      <4>2. CASE st = "set secret"
        BY <2>4, <2>5, <4>2 DEF RowFields
      <4>3. CASE st = "enrol"
        BY <2>4, <2>5, <4>3 DEF RowFields
      <4>4. CASE st = "clear codes"
        BY <2>4, <2>5, <4>4 DEF RowFields
      <4>5. QED
        BY <2>1, <2>6, <4>1, <4>2, <4>3, <4>4 DEF RowStatements
    <3>2. account'[u].role = account[u].role
      BY <2>3, <3>1 DEF row
    <3>3. QED
      BY <1>6, <2>1, <2>3, <3>2
  <2>7. CASE st = "update"
    <3>1. \/ RowAfter(r, st).role = row.role
          \/ RowAfter(r, st).role = req[r].ask.role /\ req[r].ask.role # "same"
      BY <2>4, <2>5, <2>7 DEF RowFields
    <3>2. req[r].kind = "update"
      BY <1>3, <2>7 DEF Suits
    <3>3. account'[u].role # account[u].role => CanAssign(req[r].who.role, account'[u].role)
      BY <1>5, <2>3, <3>1, <3>2 DEF MayGive, row
    <3>4. QED
      BY <1>6, <2>1, <2>3, <3>3
  <2>8. QED
    BY <2>6, <2>7
<1>8. CASE Deletes(r, st)
  <2>1. st = "delete" /\ Removes({Target(r)} \cap {v \in Users : Here(v)})
    BY <1>8, Zenon DEF Deletes
  <2>2. u = Target(r) /\ account'[u].role = account[u].role
    <3> DEFINE gone == {Target(r)} \cap {v \in Users : Here(v)}
    <3>1. gone \in SUBSET Users /\ (u \in gone => u = Target(r))
      OBVIOUS
    <3>2. Removes(gone)
      BY <2>1
    <3> HIDE DEF gone
    <3>3. QED
      BY <1>2, <3>1, <3>2, RemovesOnly
  <2>3. req[r].kind \in Writing
    BY <1>3, <2>1 DEF Suits
  <2>4. QED
    BY <1>6, <2>2, <2>3
<1>9. CASE Inserts(r, st)
  <2>1. st = "insert" /\ account' = [account EXCEPT ![Target(r)] = Row(Target(r), "yes", FALSE)]
    BY <1>9, Zenon DEF Inserts
  <2>2. u = Target(r) /\ account'[u] = Row(u, "yes", FALSE)
    BY <1>2, <2>1
  <2>3. account'[u].role = People[u].role
    BY <2>2 DEF Row
  <2>4. req[r].kind \in Writing /\ req[r].kind = "create"
    BY <1>3, <2>1 DEF Suits
  <2>5. CanAssign(req[r].who.role, People[u].role)
    BY <1>5, <2>2, <2>4 DEF MayWrite
  <2>6. QED
    BY <1>6, <2>2, <2>3, <2>4, <2>5
<1>10. CASE DeletesOrg(r, st)
  <2> DEFINE gone == Members(req[r].ask.org)
  <2>1. st = "delete org" /\ orgs' = orgs \ {req[r].ask.org} /\ Removes(gone)
    BY <1>10, Zenon DEF DeletesOrg
  <2>2. gone \in SUBSET Users /\ \A v \in gone : People[v].org = req[r].ask.org
    BY DEF Members
  <2> HIDE DEF gone
  <2>3. u \in gone
    BY <1>2, <2>1, <2>2, RemovesOnly
  <2>4. req[r].ask.org \in orgs
    BY <1>1, <2>1 DEF Possible
  <2>5. QED
    BY <2>1, <2>2, <2>3, <2>4 DEF Own
<1>11. CASE Sweeps(r, st) \/ Revokes(r, st) \/ Opens(r, st) \/ InsertsOrg(r, st)
  <2>1. UNCHANGED account
    BY <1>11, Zenon DEF Sweeps, Revokes, Opens, InsertsOrg
  <2>2. QED
    BY <2>1
<1>12. QED
  BY <1>1, <1>7, <1>8, <1>9, <1>10, <1>11 DEF Effect

LEMMA StepsOwn ==
    ASSUME IInv, Referring, Entitled, [Next]_vars, NEW u \in Users, account'[u] # account[u]
    PROVE Own(u)
<1>1. CASE \E r \in Request : Runs(r)
  BY <1>1, RunsOwn
<1>2. ASSUME NEW r \in Request, Authenticated(r) \/ SignsIn(r) \/ GivesCode(r) \/ SignsOut(r)
      PROVE UNCHANGED account
  BY <1>2, Beginnings DEF IInv
<1>3. ASSUME NEW r \in Request, Admits(r) \/ Fails(r) PROVE UNCHANGED account
  BY <1>3, Zenon DEF Admits, Fails
<1>4. CASE ResetsAdmin
  <2>1. unswept = {}
    BY <1>4 DEF ResetsAdmin
  <2>2. PICK v \in Users : /\ unswept' = {v}
                           /\ account' = [account EXCEPT ![v] =
                                [account[v] EXCEPT !.password = used + 1, !.secret = NoSecret,
                                                   !.enrolled = FALSE]]
    BY <1>4 DEF ResetsAdmin
  <2>3. v = u
    BY <2>2 DEF IInv, Domains
  <2>4. QED
    BY <2>1, <2>2, <2>3 DEF Own
<1>5. CASE UNCHANGED vars
  BY <1>5 DEF vars
<1>6. QED
  BY <1>1, <1>2, <1>3, <1>4, <1>5 DEF Next

\* However requests interleave with the organisations that come and go, an
\* account changes only by its owner, an administrator of its organisation or of
\* one above, the console, or with its organisation, and nobody gives a role above
\* the one they were authenticated with.
THEOREM ChangesAreEntitled == Spec => ChangesAreOwn
<1>1. Init => Entitled
  BY DEF Init, Entitled, Started
<1>2. Referring /\ IInv /\ [Next]_vars => Referring'
  BY RefersKept
<1>3. IInv /\ Referring /\ Entitled /\ [Next]_vars => Entitled'
  BY EntitledKept
<1>4. IInv /\ Referring /\ Entitled /\ [Next]_vars =>
        [\A u \in Users : account'[u] # account[u] => Own(u)]_vars
  BY StepsOwn
<1>5. (\A u \in Users : account'[u] # account[u] => Own(u)) =>
      (\A u \in Users : account'[u] # account[u] =>
        \/ u \in unswept' \ unswept
        \/ People[u].org \in orgs \ orgs'
        \/ \E r \in Started : LET who == req[r].who IN
            /\ todo'[r] # todo[r]
            /\ \/ who.user = u
               \/ who.role = "super_admin"
               \/ who.role # "org_user" /\ People[who.user].org \in Chain(People[u].org)
            /\ account'[u].role # account[u].role => CanAssign(who.role, account'[u].role))
  BY DEF Own, Rightly, MayTouch
<1>6. QED
  BY Inductive, Refers1, <1>1, <1>2, <1>3, <1>4, <1>5, PTL DEF Spec, ChangesAreOwn
===============================================================================
