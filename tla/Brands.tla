-------------------------------- MODULE Brands --------------------------------
(***************************************************************************)
(* The catalog of protected brands: its table, which administrators edit,  *)
(* each start of a process seeds and a feed adds to, and the copy that     *)
(* each API process keeps for the messages it inspects.  Loading the copy, *)
(* editing a brand and refreshing from the feed take several steps each    *)
(* and interleave.  A brand's domains stand for its aliases too: both are  *)
(* written, and required, alike.  What a priority decides, the order in    *)
(* which a copy names the brands, is left out.  Times are ages: they grow  *)
(* with the clock up to the one at which nothing depends on them any more. *)
(***************************************************************************)
EXTENDS Integers

CONSTANTS
    Nodes,     \* API processes on one database
    NoNode,
    Curated,   \* brands every build comes with
    Observed,  \* brands the feed has seen
    Builds,    \* number of builds; a process restarts on its build or a later one
    SeedPriority, \* build -> the priority it gives its brands
    Chosen,    \* priorities an administrator may give a brand
    Loads,     \* loads of a catalog that may be under way at the same time
    Requests,  \* edits and refreshes in all
    Ttl,       \* how long a copy is used
    LoadTime   \* how long a message waits for a load

Brands == Curated \cup Observed

ASSUME BoundAssumption ==
    /\ {Builds, Requests, LoadTime} \subseteq Nat
    /\ SeedPriority \in [1..Builds -> Nat] /\ Chosen \subseteq Nat
    /\ Ttl \in Nat \ {0}
    /\ NoNode \notin Nodes

VARIABLES
    table,    \* brand -> its row
    build,    \* process -> build it runs, 0 while it is down
    latest,   \* latest build that has run
    cache,    \* process -> the copy it serves from
    load,     \* load -> none, or what it has read and when it began
    req,      \* request -> none, or where it runs, what it changes and what it has read
    status,   \* the feed's last_refresh_ok
    \* history
    wrote     \* brand -> the edit that changed its row last, if one did

vars == <<table, build, latest, cache, load, req, status, wrote>>

None == 0
Elsewhere == 0

\* Domains are known by where they come from: a build, or an edit.
DomainsOf(r) == Builds + r

NoRow == [there |-> FALSE, domains |-> None, protected |-> FALSE, priority |-> 0,
          active |-> FALSE, reviewed |-> FALSE]
\* A copy's age counts from when it was stored, and asked from when its load began.
NoCopy == [rows |-> {}, age |-> 0, asked |-> 0, passed |-> FALSE]
NoLoad == [node |-> NoNode]
NoRequest == [at |-> "none"]
Done == [at |-> "done"]

Up(n) == build[n] # 0
Running(r) == req[r].at \notin {"none", "done"}

\* The rows a message is compared with.
Profiles == {b \in Brands : /\ table[b].there /\ table[b].active /\ table[b].protected
                            /\ table[b].domains # None}
Copied == {[brand |-> b, domains |-> table[b].domains] : b \in Profiles}
-----------------------------------------------------------------------------
(***************************************************************************)
(* Starting a process.                                                     *)
(***************************************************************************)
\* The higher of two priorities.
Greatest(p, q) == IF p < q THEN q ELSE p

Raised(b, row) == [row EXCEPT !.priority = Greatest(@, SeedPriority[b])]

Seeded(b, row) == [Raised(b, row) EXCEPT !.there = TRUE, !.domains = b, !.protected = TRUE,
                                         !.active = IF row.there THEN @ ELSE TRUE]

\* Mutant: what an administrator reviewed is seeded like the rest.
SeedsAll(row, b) == Seeded(b, row)

\* EnsureDefaults on one row; a reviewed one keeps all but its priority.
Seeds(row, b) == IF row.reviewed THEN Raised(b, row) ELSE Seeded(b, row)

\* A row apart from its priority.
ButPriority(row) == [row EXCEPT !.priority = 0]

\* EnsureDefaults is one transaction, before the process serves anything.
Boots(n) ==
    /\ ~Up(n)
    /\ \E b \in latest..Builds :
        /\ table' = [c \in Brands |-> IF c \in Curated THEN Seeds(table[c], b) ELSE table[c]]
        /\ build' = [build EXCEPT ![n] = b]
        /\ latest' = b
    /\ wrote' = [c \in Brands |->
            IF ButPriority(table'[c]) # ButPriority(table[c]) THEN Elsewhere ELSE wrote[c]]
    /\ UNCHANGED <<cache, load, req, status>>

\* A process dies with its copy and with all it was doing.
Stops(n) ==
    /\ Up(n)
    /\ build' = [build EXCEPT ![n] = 0]
    /\ cache' = [cache EXCEPT ![n] = NoCopy]
    /\ load' = [l \in DOMAIN load |-> IF load[l].node = n THEN NoLoad ELSE load[l]]
    /\ req' = [r \in DOMAIN req |-> IF Running(r) /\ req[r].node = n THEN Done ELSE req[r]]
    /\ UNCHANGED <<table, latest, status, wrote>>
-----------------------------------------------------------------------------
(***************************************************************************)
(* Messages: ProtectedProfiles.                                            *)
(***************************************************************************)
Fresh(n) == cache[n].rows # {}

\* A message that finds no fresh copy asks the database.
Asks(l) ==
    /\ load[l] = NoLoad
    /\ \E n \in Nodes :
        /\ Up(n) /\ ~Fresh(n)
        /\ load' = [load EXCEPT ![l] = [node |-> n, age |-> 0, read |-> FALSE,
                                        rows |-> {}, passed |-> FALSE]]
    /\ UNCHANGED <<table, build, latest, cache, req, status, wrote>>

Reads(l) ==
    /\ load[l] # NoLoad /\ ~load[l].read
    /\ load' = [load EXCEPT ![l].read = TRUE, ![l].rows = Copied]
    /\ UNCHANGED <<table, build, latest, cache, req, status, wrote>>

\* The copy is replaced whatever it is by now; one without a brand is never
\* used.
Stores(l) ==
    /\ load[l] # NoLoad /\ load[l].read
    /\ cache' = [cache EXCEPT ![load[l].node] =
                    IF load[l].rows = {} THEN NoCopy
                    ELSE [rows |-> load[l].rows, age |-> 0, asked |-> load[l].age,
                          passed |-> load[l].passed]]
    /\ load' = [load EXCEPT ![l] = NoLoad]
    /\ UNCHANGED <<table, build, latest, req, status, wrote>>

\* The query fails or takes too long; the message is compared with the brands
\* the code itself names.
FallsBack(l) ==
    /\ load[l] # NoLoad /\ ~load[l].read
    /\ load' = [load EXCEPT ![l] = NoLoad]
    /\ UNCHANGED <<table, build, latest, cache, req, status, wrote>>
-----------------------------------------------------------------------------
(***************************************************************************)
(* Administrators: update.                                                 *)
(***************************************************************************)
\* What an edit may ask for; the columns it does not name are left alone.
Changes(r) ==
    {[domains |-> DomainsOf(r)], [domains |-> None],
     [protected |-> TRUE], [protected |-> FALSE], [active |-> TRUE], [active |-> FALSE]}
    \cup {[priority |-> p] : p \in Chosen}

\* mergeBrandUpdate.
Merged(row, change) == [f \in DOMAIN row |-> IF f \in DOMAIN change THEN change[f] ELSE row[f]]

Acceptable(row) == row.active /\ row.protected => row.domains # None

\* Requests are numbered in the order in which they begin.
Begins(r, n, q) ==
    /\ req[r] = NoRequest /\ \A k \in 1..(r - 1) : req[k] # NoRequest
    /\ Up(n)
    /\ req' = [req EXCEPT ![r] = q]
    /\ UNCHANGED <<table, build, latest, cache, load, status, wrote>>

Opens(r) ==
    \E n \in Nodes, b \in Brands, change \in Changes(r) :
        /\ table[b].there /\ Acceptable(Merged(table[b], change))
        /\ Begins(r, n, [at |-> "opened", node |-> n, brand |-> b, change |-> change,
                         read |-> table[b], raced |-> FALSE])

\* Mutant: only the columns the edit names are written.
WritesNamed(r, row) == Merged(row, req[r].change)

\* All columns are written, as they were read or as the edit wants them.
Written(r, row) == Merged(req[r].read, req[r].change)

Writes(r) ==
    LET b == req[r].brand
    IN  /\ req[r].at = "opened"
        /\ table' = [table EXCEPT ![b] = [Written(r, table[b]) EXCEPT !.reviewed = TRUE]]
        /\ req' = [k \in DOMAIN req |->
                IF k = r THEN [at |-> "written", node |-> req[k].node, brand |-> b]
                ELSE IF req[k].at = "opened" /\ req[k].brand = b THEN [req[k] EXCEPT !.raced = TRUE]
                ELSE req[k]]
        /\ wrote' = [wrote EXCEPT ![b] = r]
        /\ UNCHANGED <<build, latest, cache, load, status>>

\* Mutant: the copy is left to expire.
LeavesCopy(n) == UNCHANGED <<cache, load>>

\* Invalidate; loads that are under way are not told.
Invalidates(n) ==
    /\ cache' = [cache EXCEPT ![n] = NoCopy]
    /\ load' = [l \in DOMAIN load |->
            IF load[l].node = n THEN [load[l] EXCEPT !.passed = TRUE] ELSE load[l]]

Applies(r) ==
    /\ req[r].at = "written"
    /\ Invalidates(req[r].node)
    /\ req' = [req EXCEPT ![r] = [at |-> "applied", node |-> req[r].node]]
    /\ UNCHANGED <<table, build, latest, status, wrote>>

EditFails(r) ==
    /\ req[r].at = "opened"
    /\ req' = [req EXCEPT ![r] = Done]
    /\ UNCHANGED <<table, build, latest, cache, load, status, wrote>>
-----------------------------------------------------------------------------
(***************************************************************************)
(* The feed: runRefresh.                                                   *)
(***************************************************************************)
Refreshing(n) == {r \in DOMAIN req : req[r].at \in {"running", "stored", "failed"} /\ req[r].node = n}

\* beginRefresh: one refresh in a process at a time.
StartsRefresh(r) ==
    \E n \in Nodes : Refreshing(n) = {} /\ Begins(r, n, [at |-> "running", node |-> n])

\* store: a brand seen for the first time is not protected yet; one that is
\* there keeps its columns.
Imported(row) == IF row.there THEN row ELSE [NoRow EXCEPT !.there = TRUE, !.active = TRUE]

Imports(r) ==
    /\ req[r].at = "running"
    /\ table' = [b \in Brands |-> IF b \in Observed THEN Imported(table[b]) ELSE table[b]]
    /\ req' = [req EXCEPT ![r].at = "stored"]
    /\ UNCHANGED <<build, latest, cache, load, status, wrote>>

ImportFails(r) ==
    /\ req[r].at = "running"
    /\ req' = [req EXCEPT ![r].at = "failed"]
    /\ UNCHANGED <<table, build, latest, cache, load, status, wrote>>

\* What the feed's status becomes.
Outcome(r) == req[r].at = "stored"

\* The UPDATE of the status may fail, which nobody looks at; a refresh that
\* stored something then drops the copy.
EndsRefresh(r) ==
    /\ req[r].at \in {"stored", "failed"}
    /\ status' \in {status, Outcome(r)}
    /\ IF req[r].at = "stored" THEN Invalidates(req[r].node) ELSE UNCHANGED <<cache, load>>
    /\ req' = [req EXCEPT ![r] = Done]
    /\ UNCHANGED <<table, build, latest, wrote>>
-----------------------------------------------------------------------------
\* Mutant: a copy is used as long as there is one.
LastsForEver(copy) == TRUE

\* A copy older than its time to live is not looked at any more.
Lasts(copy) == copy.age + 1 < Ttl

\* A load under way is given up once it has taken LoadTime.
Ticks ==
    /\ \A l \in DOMAIN load : load[l] # NoLoad => load[l].age < LoadTime
    /\ load' = [l \in DOMAIN load |->
            IF load[l] = NoLoad THEN NoLoad
            ELSE [load[l] EXCEPT !.age = @ + 1]]
    /\ cache' = [n \in Nodes |->
            IF Fresh(n) /\ Lasts(cache[n])
            THEN [cache[n] EXCEPT !.age = IF @ < Ttl THEN @ + 1 ELSE @,
                                  !.asked = IF @ < Ttl + LoadTime THEN @ + 1 ELSE @]
            ELSE NoCopy]
    /\ UNCHANGED <<table, build, latest, req, status, wrote>>

\* A brand the feed has seen and an administrator has given domains.
Kept == [Imported(NoRow) EXCEPT !.domains = DomainsOf(0), !.reviewed = TRUE]

\* No process runs; the table is new or has a life behind it.
Init ==
    /\ \E seen \in SUBSET Observed : table = [b \in Brands |-> IF b \in seen THEN Kept ELSE NoRow]
    /\ build = [n \in Nodes |-> 0]
    /\ latest = 1
    /\ cache = [n \in Nodes |-> NoCopy]
    /\ load = [l \in Loads |-> NoLoad]
    /\ req = [r \in 1..Requests |-> NoRequest]
    /\ status = FALSE
    /\ wrote = [b \in Brands |-> Elsewhere]

Next ==
    \/ \E n \in Nodes : Boots(n) \/ Stops(n)
    \/ \E l \in Loads : Asks(l) \/ Reads(l) \/ Stores(l) \/ FallsBack(l)
    \/ \E r \in 1..Requests : \/ Opens(r) \/ Writes(r) \/ Applies(r) \/ EditFails(r)
                             \/ StartsRefresh(r) \/ Imports(r) \/ ImportFails(r) \/ EndsRefresh(r)
    \/ Ticks

Spec == Init /\ [][Next]_vars
-----------------------------------------------------------------------------
Differs(n, b) ==
    {d \in cache[n].rows : d.brand = b} # {d \in Copied : d.brand = b}

\* Every variable stays in its domain; a process that is down keeps nothing;
\* and a feed that counts as refreshed has left its brands in the table.
TypeOK ==
    /\ \A b \in Brands : /\ table[b].domains \in 0..(Builds + Requests) /\ table[b].priority \in Nat
                         /\ table[b].reviewed => table[b].there
                         /\ ~table[b].there => table[b] = NoRow
    /\ \A n \in Nodes : /\ build[n] \in 0..latest
                        /\ ~Up(n) => cache[n] = NoCopy
                        /\ \A d \in cache[n].rows : d.domains \in 1..(Builds + Requests)
    /\ \A l \in DOMAIN load : load[l] # NoLoad => Up(load[l].node)
    /\ status => \A b \in Observed : table[b].there

\* A brand that is active and protected has domains to compare with, although
\* update checks this on a row it read earlier, which seeding, the feed and
\* other edits may have changed by the time it writes.
ProtectedHasProfile == \A b \in Brands : Acceptable(table[b])

\* No process compares a message with brands as they were longer ago than a
\* copy's time to live and one load (ProtectedProfiles dates a copy when it is
\* stored; catalog.go promises five minutes).
EditTakesEffect == \A n \in Nodes : Fresh(n) => cache[n].asked < Ttl + LoadTime

\* Once an edit has dropped the copy of its own process, that process misses
\* the edit only in a copy whose load was under way at that moment
\* (Invalidate does not stop a load from storing what it read before).
EditSeenHere ==
    \A n \in Nodes, b \in Brands :
        LET r == wrote[b]
        IN  /\ Fresh(n) /\ Differs(n, b)
            /\ r # Elsewhere /\ req[r].at = "applied" /\ req[r].node = n
            => cache[n].passed

\* A step that writes an edit of a brand, and changes only what the edit names
\* or puts the priority back that it read - unless another edit was written
\* since it read the row.
Edited(b) ==
    \E r \in 1..Requests :
        /\ req[r].at = "opened" /\ req'[r].at = "written" /\ req[r].brand = b
        /\ \/ req[r].raced
           \/ \A f \in DOMAIN table[b] :
                table'[b][f] # table[b][f] =>
                    \/ f \in DOMAIN req[r].change
                    \/ f = "priority" /\ table'[b][f] = req[r].read[f]

\* A start of a process that does no more than raise a brand's priority.
Lifted(b) ==
    /\ b \in Curated /\ \E n \in Nodes : build[n] = 0 /\ build'[n] # 0
    /\ ButPriority(table'[b]) = ButPriority(table[b])
    /\ table[b].priority < table'[b].priority

\* A brand an administrator has reviewed changes only by an edit, and there
\* only in what the edit names - unless another edit was written since this one
\* read the row, and is then lost.  The priority is the exception: a start of a
\* process raises it to the one of its build, and an edit that read it before
\* writes it back (EnsureDefaults, store, update).
ReviewedStands ==
    [][\A b \in Brands : table[b].reviewed /\ table'[b] # table[b] => Edited(b) \/ Lifted(b)]_vars
=============================================================================
