------------------------------- MODULE Accounts -------------------------------
(***************************************************************************)
(* Accounts, their sessions and their authenticator codes.  A request is a *)
(* sequence of statements outside any transaction: it is authenticated by  *)
(* the session of its cookie, then admitted by what it reads, then writes. *)
(* Requests of several browser tabs and of several administrators          *)
(* interleave between statements.  Passwords and secrets are version       *)
(* numbers: a new one differs from all before.                             *)
(***************************************************************************)
EXTENDS Integers, Sequences, FiniteSets

CONSTANTS
    Parent,   \* organisation -> the one above it, or NoOrg
    People,   \* account -> organisation and role it has, or is created with
    Existing, \* accounts there are from the start, each of them signed in
    Enrolled, \* those of them that are asked for a code
    Kinds,    \* kinds of request that may come first, second, ...
    MayFail   \* may a statement fail?

NoOrg == "none"
Nobody == "nobody"
NoSecret == 0
Orgs == DOMAIN Parent
Users == DOMAIN People
Tier == [org_user |-> 1, org_admin |-> 2, msp_admin |-> 3, super_admin |-> 4]
Roles == DOMAIN Tier

Self == {"setup", "confirm", "disable", "start", "stop", "logout"}
Managing == {"password", "reset codes", "update", "create", "delete", "create org", "delete org"}
AllKinds == Self \cup Managing \cup {"login", "challenge", "code"}

ASSUME TreeAssumption ==
    NoOrg \notin Orgs /\ \A o \in Orgs : Parent[o] \in (Orgs \ {o}) \cup {NoOrg}
ASSUME PeopleAssumption == \A u \in Users : People[u].org \in Orgs /\ People[u].role \in Roles
ASSUME AccountsAssumption ==
    /\ Enrolled \subseteq Existing /\ Existing \subseteq Users /\ IsFiniteSet(Existing)
    /\ Nobody \notin Users /\ Kinds \in Seq(SUBSET AllKinds) /\ MayFail \in BOOLEAN

\* Organisations there are from the start.
FirstOrgs == {People[u].org : u \in Existing} \cup {o \in Orgs : Parent[o] = NoOrg}
ASSUME FirstOrgsAssumption == \A o \in FirstOrgs : Parent[o] \in FirstOrgs \cup {NoOrg}

VARIABLES
    orgs,     \* organisations there are
    account,  \* account -> its row
    sessions, \* sessions in the order they were opened
    req,      \* request -> what it asks for, as whom, and what it has read
    todo,     \* request -> statements still to run
    used,     \* passwords and secrets given so far
    \* history
    unswept   \* accounts whose password changed and whose sessions could not be ended

vars == <<orgs, account, sessions, req, todo, used, unswept>>

Request == DOMAIN Kinds
NoRequest == [kind |-> "none"]
Started == {r \in Request : req[r] # NoRequest}

\* proved: the secret a code was checked against when it was enrolled;
\* crossed: another request had changed the secret between check and enrolment.
Row(u, here, enrolled) ==
    [here |-> here, active |-> here = "yes", role |-> People[u].role, password |-> 1,
     secret |-> IF enrolled THEN 1 ELSE NoSecret, enrolled |-> enrolled,
     proved |-> IF enrolled THEN 1 ELSE NoSecret, crossed |-> FALSE]
Here(u) == account[u].here = "yes"

\* password: the one it was opened on; late: it had changed by then;
\* owner: who signed in.
Session(user, by, password, owner) ==
    [user |-> user, by |-> by, live |-> TRUE, password |-> password,
     late |-> password # account[user].password, owner |-> owner]
-----------------------------------------------------------------------------
(***************************************************************************)
(* Who may do what.                                                        *)
(***************************************************************************)
\* Mutant: the organisations above one's own.
Upwards(o) ==
    {p \in orgs : \A S \in SUBSET orgs :
        (o \in orgs => o \in S) /\ (\A q \in S : Parent[q] \in orgs => Parent[q] \in S) => p \in S}

\* ScopeForIdentity: an organisation and all below it, the least set that has it
\* and, with an organisation, those whose parent that one is (WITH RECURSIVE).
Tree(o) ==
    {p \in orgs : \A S \in SUBSET orgs :
        (o \in orgs => o \in S) /\ (\A q \in orgs : Parent[q] \in S => q \in S) => p \in S}

Allows(who, o) == who.role = "super_admin" \/ o \in Tree(People[who.user].org)

CanAdmin(who, o) ==
    \/ who.role = "super_admin"
    \/ Allows(who, o) /\ who.role \in {"msp_admin", "org_admin"}

CanAssign(actor, role) == Tier[actor] >= Tier[role]

\* A session authenticates while it lasts and its account is active.
Authenticates(s) == sessions[s].live /\ account[sessions[s].user].active

Identity(s) ==
    [user |-> sessions[s].user, role |-> account[sessions[s].user].role,
     by |-> sessions[s].by, session |-> s]
Anonymous == [user |-> Nobody, role |-> "none", by |-> Nobody, session |-> 0]
-----------------------------------------------------------------------------
(***************************************************************************)
(* Requests and their statements.                                          *)
(***************************************************************************)
\* Mutant: the sessions are ended before the password changes.
SweepFirst(kind) == <<"admit", "sweep", "set password">>

SetsPassword(kind) == <<"admit", "set password", "sweep">>

Swaps(kind) == <<"admit", "revoke", "open">>

Program(kind) ==
    CASE kind \in {"login", "code"} -> <<"open">>
      [] kind \in {"start", "stop"} -> Swaps(kind)
      [] kind = "logout" -> <<"revoke">>
      [] kind = "setup" -> <<"set secret">>
      [] kind = "confirm" -> <<"admit", "enrol">>
      [] kind = "disable" -> <<"admit", "clear codes">>
      [] kind = "password" -> SetsPassword(kind)
      [] kind = "reset codes" -> <<"admit", "clear codes", "sweep">>
      [] kind = "update" -> <<"admit", "update">>
      [] kind = "create" -> <<"admit", "insert">>
      [] kind = "delete" -> <<"admit", "delete">>
      [] kind = "create org" -> <<"admit", "insert org">>
      [] kind = "delete org" -> <<"delete org">>
      [] OTHER -> <<>>

Known == {u \in Users : account[u].here # "no"}

\* What an authenticated identity may ask for.
Asked(who) ==
    [kind : {"setup", "confirm", "disable"}, user : {who.user}]
    \cup [kind : {"stop"}, user : IF who.by = Nobody THEN {} ELSE {who.user}]
    \cup [kind : {"start"}, user : IF who.role = "super_admin" THEN Known \ {who.user} ELSE {}]
    \cup [kind : {"create"}, user : {u \in Users : account[u].here = "no"}]
    \cup [kind : {"password"}, user : Known]
    \cup [kind : {"reset codes", "delete"}, user : Known \ {who.user}]
    \cup [kind : {"update"}, user : Known, active : {TRUE},
          role : {p \in Roles : CanAssign(who.role, p)}]
    \cup [kind : {"update"}, user : Known, active : {FALSE}, role : {"same"}]
    \cup [kind : {"delete org"}, org : IF who.role = "super_admin" THEN Orgs ELSE {}]
    \cup [kind : {"create org"},
          org : IF who.role \in {"super_admin", "msp_admin"} THEN Orgs ELSE {}]

Begin(r, q, who, password) ==
    /\ q.kind \in Kinds[r]
    /\ r \notin Started /\ \A k \in 1..(r - 1) : k \in Started
    /\ req' = [req EXCEPT ![r] = [kind |-> q.kind, ask |-> q, who |-> who,
                                  password |-> password, read |-> NoSecret]]
    /\ todo' = [todo EXCEPT ![r] = Program(q.kind)]
    /\ UNCHANGED <<orgs, account, sessions, used, unswept>>

\* Lookup: the middleware's query.
Authenticated(r) ==
    \E s \in DOMAIN sessions :
        /\ Authenticates(s)
        /\ \E q \in Asked(Identity(s)) : Begin(r, q, Identity(s), 0)

\* Logout is outside the middleware.
SignsOut(r) ==
    \E s \in DOMAIN sessions : Begin(r, [kind |-> "logout", user |-> Identity(s).user], Identity(s), 0)

\* Login, with the right password; an enrolled account is asked for a code,
\* and the challenge remembers that its password was right.
SignsIn(r) ==
    \E u \in Users :
        /\ Here(u) /\ account[u].active
        /\ Begin(r, [kind |-> IF account[u].enrolled THEN "challenge" ELSE "login", user |-> u],
                 Anonymous, account[u].password)

\* MFAVerifyLogin: the challenge of a login before, and a right code.
AcceptsCode(u) == Here(u) /\ account[u].enrolled /\ account[u].secret # NoSecret
Challenges == {k \in Started : req[k].kind = "challenge"}

GivesCode(r) ==
    \E k \in Challenges :
        LET u == req[k].ask.user
        IN  /\ AcceptsCode(u)
            /\ Begin(r, [kind |-> "code", user |-> u], Anonymous, req[k].password)

\* What a request reads before it writes decides whether it goes on.
MayStart(q, who) == who.by = Nobody /\ Here(q.user) /\ account[q.user].active
MayStop(q, who) == Here(who.by) /\ account[who.by].active
MayConfirm(q, who) == Here(who.user) /\ account[who.user].secret # NoSecret
MayDisable(q, who) == MayConfirm(q, who) /\ account[who.user].enrolled
MayCreate(q, who) == CanAdmin(who, People[q.user].org) /\ CanAssign(who.role, People[q.user].role)
MayManage(q, who) == Here(q.user) /\ CanAdmin(who, People[q.user].org)
MayDelete(q, who) == MayManage(q, who)
MaySetPassword(q, who) == Here(q.user) /\ (q.user = who.user \/ MayManage(q, who))
MayResetCodes(q, who) == MayManage(q, who) /\ CanAssign(who.role, account[q.user].role)
MayAddOrg(q, who) == CanAdmin(who, Parent[q.org])

Admitted(q, who) ==
    CASE q.kind = "start" -> MayStart(q, who)
      [] q.kind = "stop" -> MayStop(q, who)
      [] q.kind = "confirm" -> MayConfirm(q, who)
      [] q.kind = "disable" -> MayDisable(q, who)
      [] q.kind = "create" -> MayCreate(q, who)
      [] q.kind = "password" -> MaySetPassword(q, who)
      [] q.kind = "reset codes" -> MayResetCodes(q, who)
      [] q.kind = "delete" -> MayDelete(q, who)
      [] q.kind = "create org" -> MayAddOrg(q, who)
      [] OTHER -> MayManage(q, who)

Admits(r) ==
    /\ todo[r] # <<>> /\ Head(todo[r]) = "admit"
    /\ IF Admitted(req[r].ask, req[r].who)
       THEN /\ todo' = [todo EXCEPT ![r] = Tail(@)]
            /\ req' = [req EXCEPT ![r].read =
                            IF req[r].kind = "confirm" THEN account[req[r].who.user].secret ELSE @]
       ELSE /\ todo' = [todo EXCEPT ![r] = <<>>]
            /\ UNCHANGED req
    /\ UNCHANGED <<orgs, account, sessions, used, unswept>>
-----------------------------------------------------------------------------
\* The account a request is about, and the row it leaves.
Target(r) == IF req[r].kind \in Self THEN req[r].who.user ELSE req[r].ask.user

\* Mutant: a new secret leaves the account enrolled.
KeepsEnrolled(row) == [row EXCEPT !.secret = used + 1]

NewSecret(row) == [row EXCEPT !.secret = used + 1, !.enrolled = FALSE]

RowAfter(r, st) ==
    LET row == account[Target(r)]
    IN  CASE st = "set password" -> [row EXCEPT !.password = used + 1]
          [] st = "set secret" -> NewSecret(row)
          [] st = "enrol" -> [row EXCEPT !.enrolled = TRUE, !.proved = req[r].read,
                                        !.crossed = row.secret # req[r].read]
          [] st = "clear codes" -> [row EXCEPT !.secret = NoSecret, !.enrolled = FALSE]
          [] st = "update" -> [row EXCEPT !.role = IF req[r].ask.role = "same" THEN @ ELSE req[r].ask.role,
                                       !.active = req[r].ask.active]
          [] OTHER -> row

RowStatements == {"set password", "set secret", "enrol", "clear codes", "update"}

\* One row; an account that is gone by now is not there to change.
Writes(r, st) ==
    /\ st \in RowStatements
    /\ account' = IF Here(Target(r)) THEN [account EXCEPT ![Target(r)] = RowAfter(r, st)] ELSE account
    /\ used' = IF st \in {"set password", "set secret"} THEN used + 1 ELSE used
    /\ UNCHANGED <<orgs, sessions>>

\* All sessions of the account.
Sweeps(r, st) ==
    /\ st = "sweep"
    /\ sessions' = [s \in DOMAIN sessions |->
            IF sessions[s].user = Target(r) THEN [sessions[s] EXCEPT !.live = FALSE] ELSE sessions[s]]
    /\ UNCHANGED <<orgs, account, used>>

Revokes(r, st) ==
    /\ st = "revoke"
    /\ sessions' = [sessions EXCEPT ![req[r].who.session].live = FALSE]
    /\ UNCHANGED <<orgs, account, used>>

\* Mutant: stopping goes on as the account that was helped.
OpenedAsSelf(r) ==
    LET who == req[r].who
        owner == IF who.session = 0 THEN Nobody ELSE sessions[who.session].owner
    IN  CASE req[r].kind = "start" -> Session(req[r].ask.user, who.user, account[req[r].ask.user].password,
                                              owner)
          [] req[r].kind = "stop" -> Session(who.user, Nobody, account[who.user].password, owner)
          [] OTHER -> Session(req[r].ask.user, Nobody, req[r].password, req[r].ask.user)

\* The session a request opens: as the account helped, as the administrator
\* again, or of a login.
Opened(r) ==
    LET who == req[r].who
        owner == IF who.session = 0 THEN Nobody ELSE sessions[who.session].owner
    IN  CASE req[r].kind = "start" -> Session(req[r].ask.user, who.user, account[req[r].ask.user].password,
                                              owner)
          [] req[r].kind = "stop" -> Session(who.by, Nobody, account[who.by].password, owner)
          [] OTHER -> Session(req[r].ask.user, Nobody, req[r].password, req[r].ask.user)

\* The rows a new session refers to.
Refers(r) ==
    CASE req[r].kind = "start" -> {req[r].ask.user, req[r].who.user}
      [] req[r].kind = "stop" -> {req[r].who.by}
      [] OTHER -> {req[r].ask.user}

Opens(r, st) ==
    /\ st = "open"
    /\ sessions' = Append(sessions, Opened(r))
    /\ UNCHANGED <<orgs, account, used>>

\* A session goes with its account, and loses the mark of the administrator
\* who opened it with that one's account.
SessionsWithout(gone) ==
    [s \in DOMAIN sessions |->
        IF sessions[s].user \in gone THEN [sessions[s] EXCEPT !.live = FALSE]
        ELSE IF sessions[s].by \in gone THEN [sessions[s] EXCEPT !.by = Nobody]
        ELSE sessions[s]]

Removes(gone) ==
    /\ account' = [u \in Users |->
            IF u \in gone THEN [account[u] EXCEPT !.here = "gone", !.active = FALSE] ELSE account[u]]
    /\ sessions' = SessionsWithout(gone)

Deletes(r, st) ==
    /\ st = "delete"
    /\ Removes({Target(r)} \cap {u \in Users : Here(u)})
    /\ UNCHANGED <<orgs, used>>

Inserts(r, st) ==
    /\ st = "insert"
    /\ account' = [account EXCEPT ![Target(r)] = Row(Target(r), "yes", FALSE)]
    /\ UNCHANGED <<orgs, sessions, used>>

InsertsOrg(r, st) ==
    /\ st = "insert org"
    /\ orgs' = orgs \cup {req[r].ask.org}
    /\ UNCHANGED <<account, sessions, used>>

Members(o) == {u \in Users : Here(u) /\ People[u].org = o}

\* An organisation goes with its accounts.
DeletesOrg(r, st) ==
    /\ st = "delete org"
    /\ orgs' = orgs \ {req[r].ask.org}
    /\ Removes(Members(req[r].ask.org))
    /\ UNCHANGED used

Effect(r, st) ==
    \/ Writes(r, st) \/ Sweeps(r, st) \/ Revokes(r, st) \/ Opens(r, st)
    \/ Deletes(r, st) \/ Inserts(r, st) \/ InsertsOrg(r, st) \/ DeletesOrg(r, st)

\* The database refuses what refers to a row that is not there, and to remove
\* the System organisation or one with others below it.
Possible(r, st) ==
    CASE st = "open" -> \A u \in Refers(r) : Here(u)
      [] st = "insert" -> account[Target(r)].here = "no" /\ People[Target(r)].org \in orgs
      [] st = "insert org" -> req[r].ask.org \notin orgs /\ Parent[req[r].ask.org] \in orgs
      [] st = "delete org" -> /\ req[r].ask.org \in orgs /\ Parent[req[r].ask.org] # NoOrg
                              /\ \A o \in orgs : Parent[o] # req[r].ask.org
      [] OTHER -> TRUE

Runs(r) ==
    /\ todo[r] # <<>> /\ Head(todo[r]) # "admit" /\ Possible(r, Head(todo[r]))
    /\ Effect(r, Head(todo[r]))
    /\ todo' = [todo EXCEPT ![r] = Tail(@)]
    /\ UNCHANGED <<req, unswept>>

\* A statement fails; that ends the request, except that nobody looks whether
\* sessions could be ended.
Fails(r) ==
    /\ todo[r] # <<>> /\ (MayFail \/ ~Possible(r, Head(todo[r])))
    /\ todo' = [todo EXCEPT ![r] = IF Head(@) = "revoke" THEN Tail(@) ELSE <<>>]
    /\ unswept' = IF Head(todo[r]) = "sweep" THEN unswept \cup {Target(r)} ELSE unswept
    /\ UNCHANGED <<orgs, account, sessions, req, used>>

\* migrate reset-admin, from the console and once: no session is ended.
ResetsAdmin ==
    /\ unswept = {}
    /\ \E u \in Users :
        /\ Here(u)
        /\ account' = [account EXCEPT ![u] = [@ EXCEPT !.password = used + 1, !.secret = NoSecret,
                                                      !.enrolled = FALSE]]
        /\ unswept' = {u}
    /\ used' = used + 1
    /\ UNCHANGED <<orgs, sessions, req, todo>>

SignedIn == CHOOSE order \in [1..Cardinality(Existing) -> Existing] :
                \A i, j \in DOMAIN order : i # j => order[i] # order[j]

Init ==
    /\ orgs = FirstOrgs
    /\ account = [u \in Users |-> Row(u, IF u \in Existing THEN "yes" ELSE "no", u \in Enrolled)]
    /\ sessions = [i \in 1..Cardinality(Existing) |->
            [user |-> SignedIn[i], by |-> Nobody, live |-> TRUE, password |-> 1, late |-> FALSE,
             owner |-> SignedIn[i]]]
    /\ req = [r \in Request |-> NoRequest]
    /\ todo = [r \in Request |-> <<>>]
    /\ used = 1
    /\ unswept = {}

Next ==
    \/ \E r \in Request : \/ Authenticated(r) \/ SignsIn(r) \/ GivesCode(r) \/ SignsOut(r)
                          \/ Admits(r) \/ Runs(r) \/ Fails(r)
    \/ ResetsAdmin

Spec == Init /\ [][Next]_vars
-----------------------------------------------------------------------------
\* Every variable stays in its domain, and nothing outlives what it refers to:
\* accounts their organisation, organisations the one above, sessions that are
\* still good their account.
TypeOK ==
    /\ orgs \subseteq Orgs /\ \A o \in orgs : Parent[o] \in orgs \cup {NoOrg}
    /\ \A u \in Users :
        /\ account[u].here \in {"no", "yes", "gone"} /\ account[u].role \in Roles
        /\ account[u].active => Here(u)
        /\ Here(u) => People[u].org \in orgs
        /\ {account[u].password, account[u].secret, account[u].proved} \subseteq 0..used
    /\ \A s \in DOMAIN sessions : sessions[s].live => Here(sessions[s].user)
    /\ unswept \subseteq Users
    /\ \A r \in Request : todo[r] # <<>> => r \in Started

\* After a password change no session that was opened on the old password
\* remains - but one whose login had checked the old password before and was
\* answered after the change, and those of a change that could not end them
\* (setPassword changes the password first and the sessions then).
OldPasswordEnds ==
    \A s \in DOMAIN sessions :
        LET u == sessions[s].user
        IN  sessions[s].live /\ sessions[s].password # account[u].password =>
                \/ sessions[s].late \/ u \in unswept
                \/ \E r \in Started : /\ \E i \in DOMAIN todo[r] : todo[r][i] = "sweep"
                                    /\ Target(r) = u

\* The secret of an enrolled account is one its owner has shown a code for,
\* unless another request changed it between that check and the enrolment
\* (MFAConfirm checks the secret it has read and then enrols whatever is there).
EnrolledIsProved ==
    \A u \in Users : account[u].enrolled =>
        account[u].secret = account[u].proved \/ account[u].crossed

\* As long as the account of whoever signed in exists, helping another user and
\* stopping again gives everyone their own session back: a plain session is its
\* owner's, a marked one names its owner, and nobody helps from within such a
\* session (Impersonate and StopImpersonating).  Sessions of an owner whose
\* account was deleted are left out: with the account the mark becomes NULL
\* (ON DELETE SET NULL), and the session goes on as one of the user it helped.
OwnerIsKept ==
    \A s \in DOMAIN sessions :
        LET t == sessions[s]
        IN  account[t.owner].here # "gone" =>
                IF t.by = Nobody THEN t.user = t.owner ELSE t.by = t.owner

\* An organisation and those above it, whatever became of them.
Chain(o) ==
    {p \in Orgs : \A S \in SUBSET Orgs :
        o \in S /\ (\A q \in S : Parent[q] # NoOrg => Parent[q] \in S) => p \in S}

\* An account changes only by its owner, by an administrator of its
\* organisation or of one above, by the console, or with its organisation; and
\* nobody gives a role above the one they were authenticated with.
ChangesAreOwn ==
    [][\A u \in Users : account'[u] # account[u] =>
        \/ u \in unswept' \ unswept
        \/ People[u].org \in orgs \ orgs'
        \/ \E r \in Started : LET who == req[r].who IN
            /\ todo'[r] # todo[r]
            /\ \/ who.user = u
               \/ who.role = "super_admin"
               \/ who.role # "org_user" /\ People[who.user].org \in Chain(People[u].org)
            /\ account'[u].role # account[u].role => CanAssign(who.role, account'[u].role)]_vars
=============================================================================
