---------------------------- MODULE DetectionProofs ----------------------------
(***************************************************************************)
(* TLAPS proofs about what detection knows and decides: about the brand    *)
(* catalog and its copies (Brands, whose specification is Spec), for any   *)
(* number of processes, brands and requests; and about the decision        *)
(* pipeline (Disposition, whose specification is Pipeline), for any        *)
(* scores, symbols, words, claims and policies.                            *)
(***************************************************************************)
EXTENDS Brands, Disposition, TLAPS

DomainIds == 0..(Builds + Requests)
Row == [there : BOOLEAN, domains : DomainIds, protected : BOOLEAN, active : BOOLEAN,
        priority : Nat, reviewed : BOOLEAN]
Change == UNION {Changes(r) : r \in 1..Requests}

LEMMA ChangeShape ==
    ASSUME NEW change \in Change
    PROVE /\ DOMAIN change \in {{"domains"}, {"protected"}, {"active"}, {"priority"}}
          /\ "domains" \in DOMAIN change => change.domains \in DomainIds
          /\ "protected" \in DOMAIN change => change.protected \in BOOLEAN
          /\ "active" \in DOMAIN change => change.active \in BOOLEAN
          /\ "priority" \in DOMAIN change => change.priority \in Nat
<1>1. PICK r \in 1..Requests : change \in Changes(r)
  BY DEF Change
<1>2. DomainsOf(r) \in DomainIds /\ None \in DomainIds
  BY BoundAssumption DEF DomainsOf, DomainIds, None
<1>3. CASE change \in {[domains |-> DomainsOf(r)], [domains |-> None]}
  <2>1. DOMAIN change = {"domains"} /\ change.domains \in DomainIds
    BY <1>2, <1>3
  <2>2. QED
    BY <2>1
<1>4. CASE change \in {[protected |-> TRUE], [protected |-> FALSE]}
  <2>1. CASE change = [protected |-> TRUE]
    BY <2>1
  <2>2. CASE change = [protected |-> FALSE]
    BY <2>2
  <2>3. QED
    BY <1>4, <2>1, <2>2
<1>5. CASE change \in {[active |-> TRUE], [active |-> FALSE]}
  <2>1. CASE change = [active |-> TRUE]
    BY <2>1
  <2>2. CASE change = [active |-> FALSE]
    BY <2>2
  <2>3. QED
    BY <1>5, <2>1, <2>2
<1>6. ASSUME NEW p \in Chosen, change = [priority |-> p]
      PROVE DOMAIN change = {"priority"} /\ change.priority \in Nat
  BY <1>6, BoundAssumption
<1>7. \/ change \in {[domains |-> DomainsOf(r)], [domains |-> None]}
      \/ change \in {[protected |-> TRUE], [protected |-> FALSE]}
      \/ change \in {[active |-> TRUE], [active |-> FALSE]}
      \/ \E p \in Chosen : change = [priority |-> p]
  BY <1>1 DEF Changes
<1>8. QED
  BY <1>3, <1>4, <1>5, <1>6, <1>7

LEMMA MergedRow ==
    ASSUME NEW row \in Row, NEW change \in Change
    PROVE LET out == Merged(row, change)
          IN  /\ out \in Row
              /\ out.there = row.there /\ out.reviewed = row.reviewed
              /\ \A f \in DOMAIN row : f \notin DOMAIN change => out[f] = row[f]
<1>1. DOMAIN row = {"there", "domains", "protected", "priority", "active", "reviewed"}
  BY DEF Row
<1>2. QED
  BY <1>1, ChangeShape DEF Row, Merged
-----------------------------------------------------------------------------
(***************************************************************************)
(* Types.                                                                  *)
(***************************************************************************)
Profile == [brand : Brands, domains : DomainIds \ {None}]
Copy == [rows : SUBSET Profile, age : Nat, asked : Nat, passed : BOOLEAN]
Loading == [node : Nodes, age : Nat, read : BOOLEAN, rows : SUBSET Profile, passed : BOOLEAN]
Opened == [at : {"opened"}, node : Nodes, brand : Brands, change : Change, read : Row,
           raced : BOOLEAN]
Wrote == [at : {"written"}, node : Nodes, brand : Brands]
Ran == [at : {"applied", "running", "stored", "failed"}, node : Nodes]

Domains ==
    /\ table \in [Brands -> Row]
    /\ build \in [Nodes -> Nat] /\ latest \in Nat \ {0}
    /\ cache \in [Nodes -> Copy]
    /\ load \in [Loads -> {NoLoad} \cup Loading]
    /\ req \in [1..Requests -> {NoRequest, Done} \cup Opened \cup Wrote \cup Ran]
    /\ status \in BOOLEAN
    /\ wrote \in [Brands -> 0..Requests]

LEMMA Shapes ==
    /\ NoRow \in Row /\ NoCopy \in Copy
    /\ NoRequest.at = "none" /\ Done.at = "done" /\ NoLoad \notin Loading
    /\ \A q \in Opened : q.at = "opened"
    /\ \A q \in Wrote : q.at = "written"
    /\ \A q \in Ran : q.at \in {"applied", "running", "stored", "failed"}
<1>1. NoRow \in Row
  BY BoundAssumption DEF NoRow, Row, None, DomainIds
<1>2. NoCopy \in Copy
  BY DEF NoCopy, Copy
<1>3. NoLoad \notin Loading
  BY BoundAssumption DEF NoLoad, Loading
<1>4. QED
  BY <1>1, <1>2, <1>3 DEF NoRequest, Done, Opened, Wrote, Ran

\* What the position of a request tells of its fields.
LEMMA RequestShape ==
    ASSUME Domains, NEW r \in 1..Requests
    PROVE /\ req[r].at = "opened" => req[r] \in Opened
          /\ req[r].at = "written" => req[r] \in Wrote
          /\ req[r].at \in {"applied", "running", "stored", "failed"} => req[r] \in Ran
          /\ Running(r) => req[r].node \in Nodes
<1>1. req[r] \in {NoRequest, Done} \cup Opened \cup Wrote \cup Ran
  BY DEF Domains
<1>2. (Running(r) => req[r] \in Opened \cup Wrote \cup Ran)
  BY <1>1, Shapes DEF Running
<1>3. QED
  BY <1>1, <1>2, Shapes DEF Opened, Wrote, Ran

LEMMA CopiedRows == Domains => Copied \in SUBSET Profile
  BY DEF Domains, Copied, Profiles, Profile, Row

\* Rows that differ in their priority only.
LEMMA ButPriorityFields ==
    ASSUME NEW row \in Row, NEW other \in Row
    PROVE /\ ButPriority(row) = ButPriority(other) <=>
                /\ row.there = other.there /\ row.domains = other.domains
                /\ row.protected = other.protected /\ row.active = other.active
                /\ row.reviewed = other.reviewed
          /\ ButPriority(row) = ButPriority(other) =>
                \A f \in DOMAIN row : f # "priority" => row[f] = other[f]
<1> DEFINE one == ButPriority(row)
           two == ButPriority(other)
<1>1. /\ DOMAIN row = {"there", "domains", "protected", "priority", "active", "reviewed"}
      /\ DOMAIN other = DOMAIN row
  BY DEF Row
<1>2. /\ DOMAIN one = DOMAIN row /\ one = [f \in DOMAIN row |-> one[f]]
      /\ DOMAIN two = DOMAIN row /\ two = [f \in DOMAIN row |-> two[f]]
  BY <1>1 DEF ButPriority
<1>3. /\ one.priority = 0 /\ \A f \in DOMAIN row : f # "priority" => one[f] = row[f]
      /\ two.priority = 0 /\ \A f \in DOMAIN row : f # "priority" => two[f] = other[f]
  BY <1>1 DEF ButPriority
<1> HIDE DEF one, two
<1>4. one = two <=> \A f \in DOMAIN row : f # "priority" => row[f] = other[f]
  BY <1>1, <1>2, <1>3
<1>5. (\A f \in DOMAIN row : f # "priority" => row[f] = other[f]) <=>
            /\ row.there = other.there /\ row.domains = other.domains
            /\ row.protected = other.protected /\ row.active = other.active
            /\ row.reviewed = other.reviewed
  BY <1>1
<1>6. QED
  BY <1>4, <1>5 DEF one, two

LEMMA RaisedRow ==
    ASSUME NEW row \in Row, NEW b \in 1..Builds
    PROVE /\ Raised(b, row) \in Row
          /\ ButPriority(Raised(b, row)) = ButPriority(row)
          /\ Raised(b, row) = row \/ row.priority < Raised(b, row).priority
<1> DEFINE p == Greatest(row.priority, SeedPriority[b])
           out == [row EXCEPT !.priority = p]
<1>1. row.priority \in Nat /\ SeedPriority[b] \in Nat
  BY BoundAssumption DEF Row
<1>2. p \in Nat /\ (p = row.priority \/ row.priority < p)
  BY <1>1 DEF Greatest
<1> HIDE DEF p
<1>3. /\ out \in Row /\ out.priority = p /\ (p = row.priority => out = row)
      /\ out.there = row.there /\ out.domains = row.domains /\ out.protected = row.protected
      /\ out.active = row.active /\ out.reviewed = row.reviewed
  BY <1>2 DEF Row
<1>4. Raised(b, row) = out
  BY DEF Raised, p
<1> HIDE DEF out
<1>5. QED
  BY <1>2, <1>3, <1>4, ButPriorityFields

LEMMA SeededRow ==
    ASSUME NEW row \in Row, NEW b \in 1..Builds
    PROVE /\ Seeds(row, b) \in Row
          /\ row.reviewed => /\ ButPriority(Seeds(row, b)) = ButPriority(row)
                             /\ Seeds(row, b) = row \/ row.priority < Seeds(row, b).priority
          /\ ~row.reviewed => /\ Seeds(row, b).there /\ Seeds(row, b).domains = b
                              /\ ~Seeds(row, b).reviewed
<1>1. b \in DomainIds
  BY BoundAssumption DEF DomainIds
<1> DEFINE up == Raised(b, row)
           active == IF row.there THEN up.active ELSE TRUE
           out == [up EXCEPT !.there = TRUE, !.domains = b, !.protected = TRUE, !.active = active]
<1>2. up \in Row /\ up.reviewed = row.reviewed
  BY RaisedRow, ButPriorityFields
<1> HIDE DEF up
<1>3. active \in BOOLEAN
  BY <1>2 DEF Row
<1> HIDE DEF active
<1>4. out \in Row /\ out.there /\ out.domains = b /\ out.reviewed = row.reviewed
  BY <1>1, <1>2, <1>3 DEF Row
<1>5. Seeded(b, row) = out
  BY DEF Seeded, up, active
<1> HIDE DEF out
<1>6. CASE row.reviewed
  BY <1>6, RaisedRow DEF Seeds
<1>7. CASE ~row.reviewed
  BY <1>4, <1>5, <1>7 DEF Seeds
<1>8. QED
  BY <1>6, <1>7

LEMMA ImportedRow ==
    ASSUME NEW row \in Row
    PROVE /\ Imported(row) \in Row /\ Imported(row).there
          /\ row.there => Imported(row) = row
          /\ ~row.there => /\ ~Imported(row).protected /\ ~Imported(row).reviewed
                           /\ Imported(row).domains = None
<1> DEFINE new == [NoRow EXCEPT !.there = TRUE, !.active = TRUE]
<1>1. new \in Row
  BY Shapes DEF Row
<1>2. new.there /\ ~new.protected /\ ~new.reviewed /\ new.domains = None
  BY DEF NoRow
<1>3. QED
  BY <1>1, <1>2 DEF Imported

LEMMA WrittenRow ==
    ASSUME Domains, NEW r \in 1..Requests, req[r].at = "opened",
           NEW old
    PROVE LET row == [Written(r, old) EXCEPT !.reviewed = TRUE]
          IN  /\ row \in Row /\ row.reviewed
              /\ row.there = req[r].read.there
              /\ Acceptable(row) <=> Acceptable(Merged(req[r].read, req[r].change))
              /\ \A f \in DOMAIN req[r].read : f \notin DOMAIN req[r].change \cup {"reviewed"} =>
                    row[f] = req[r].read[f]
<1> DEFINE w == Merged(req[r].read, req[r].change)
           row == [w EXCEPT !.reviewed = TRUE]
<1>1. req[r].read \in Row /\ req[r].change \in Change
  BY RequestShape DEF Opened
<1>2. /\ w \in Row /\ w.there = req[r].read.there
      /\ \A f \in DOMAIN req[r].read : f \notin DOMAIN req[r].change => w[f] = req[r].read[f]
  BY <1>1, MergedRow
<1> HIDE DEF w
<1>3. DOMAIN w = {"there", "domains", "protected", "priority", "active", "reviewed"} /\ DOMAIN req[r].read = DOMAIN w
  BY <1>1, <1>2 DEF Row
<1>4. row \in Row /\ row.reviewed /\ \A f \in DOMAIN w : f # "reviewed" => row[f] = w[f]
  BY <1>2, <1>3 DEF Row
<1>5. Acceptable(row) <=> Acceptable(w)
  BY <1>3, <1>4 DEF Acceptable
<1>6. row.there = req[r].read.there
  BY <1>2, <1>3, <1>4
<1>7. \A f \in DOMAIN req[r].read : f \notin DOMAIN req[r].change \cup {"reviewed"} => row[f] = req[r].read[f]
  BY <1>2, <1>3, <1>4
<1>8. QED
  BY <1>4, <1>5, <1>6, <1>7 DEF Written, w

LEMMA InitDomains == Init => Domains
<1>1. Kept \in Row
  <2>1. DomainsOf(0) \in DomainIds
    BY BoundAssumption DEF DomainsOf, DomainIds
  <2>2. Imported(NoRow) \in Row
    BY Shapes, ImportedRow
  <2>3. QED
    BY <2>1, <2>2 DEF Kept, Row
<1> SUFFICES ASSUME Init PROVE Domains
  OBVIOUS
<1>2. table \in [Brands -> Row]
  BY <1>1, Shapes DEF Init
<1>3. cache \in [Nodes -> Copy] /\ load \in [Loads -> {NoLoad} \cup Loading]
  BY Shapes DEF Init
<1>4. wrote \in [Brands -> 0..Requests]
  BY BoundAssumption DEF Init, Elsewhere
<1>5. build \in [Nodes -> Nat] /\ latest \in Nat \ {0}
  BY DEF Init
<1>8. status \in BOOLEAN
  BY DEF Init
<1>6. req \in [1..Requests -> {NoRequest, Done} \cup Opened \cup Wrote \cup Ran]
  BY DEF Init
<1>7. QED
  BY <1>2, <1>3, <1>4, <1>5, <1>6, <1>8 DEF Domains

LEMMA BootsDomains == ASSUME Domains, NEW n \in Nodes, Boots(n) PROVE Domains'
<1>1. PICK b \in latest..Builds :
        /\ table' = [c \in Brands |-> IF c \in Curated THEN Seeds(table[c], b) ELSE table[c]]
        /\ build' = [build EXCEPT ![n] = b]
        /\ latest' = b
  BY DEF Boots
<1>2. b \in 1..Builds
  BY <1>1, BoundAssumption DEF Domains
<1>3. \A c \in Brands : table[c] \in Row /\ Seeds(table[c], b) \in Row
  BY <1>2, SeededRow DEF Domains
<1>4. wrote' \in [Brands -> 0..Requests]
  BY BoundAssumption DEF Boots, Domains, Elsewhere
<1>5. QED
  BY <1>1, <1>2, <1>3, <1>4 DEF Boots, Domains

LEMMA StopsDomains == ASSUME Domains, NEW n \in Nodes, Stops(n) PROVE Domains'
  BY Shapes DEF Stops, Domains

LEMMA AsksDomains == ASSUME Domains, NEW l \in Loads, Asks(l) PROVE Domains'
  BY DEF Asks, Domains, Loading

LEMMA LoadShape ==
    ASSUME Domains, NEW l \in Loads, load[l] # NoLoad
    PROVE load[l] \in Loading
  BY DEF Domains

LEMMA ReadsDomains == ASSUME Domains, NEW l \in Loads, Reads(l) PROVE Domains'
<1>1. load[l] \in Loading
  BY LoadShape DEF Reads
<1>2. [load[l] EXCEPT !.read = TRUE, !.rows = Copied] \in Loading
  BY <1>1, CopiedRows DEF Loading
<1>3. load' = [load EXCEPT ![l] = [load[l] EXCEPT !.read = TRUE, !.rows = Copied]]
  BY DEF Reads, Domains
<1>4. QED
  BY <1>2, <1>3 DEF Reads, Domains

LEMMA StoresDomains == ASSUME Domains, NEW l \in Loads, Stores(l) PROVE Domains'
<1>1. load[l] \in Loading
  BY LoadShape DEF Stores
<1>2. [rows |-> load[l].rows, age |-> 0, asked |-> load[l].age, passed |-> load[l].passed] \in Copy
  BY <1>1 DEF Loading, Copy
<1>3. QED
  BY <1>1, <1>2, Shapes DEF Stores, Domains, Loading

LEMMA FallsBackDomains == ASSUME Domains, NEW l \in Loads, FallsBack(l) PROVE Domains'
  BY DEF FallsBack, Domains

LEMMA InvalidatesDomains ==
    ASSUME Domains, NEW n \in Nodes, Invalidates(n)
    PROVE /\ cache' \in [Nodes -> Copy]
          /\ load' \in [Loads -> {NoLoad} \cup Loading]
<1>1. \A l \in Loads : load[l].node = n => load[l] # NoLoad
  BY BoundAssumption DEF NoLoad
<1>2. \A l \in Loads : load[l] \in Loading => [load[l] EXCEPT !.passed = TRUE] \in Loading
  BY DEF Loading
<1>3. QED
  BY <1>1, <1>2, Shapes DEF Invalidates, Domains

LEMMA OpensDomains == ASSUME Domains, NEW r \in 1..Requests, Opens(r) PROVE Domains'
<1>1. PICK n \in Nodes, b \in Brands, change \in Changes(r) :
        Begins(r, n, [at |-> "opened", node |-> n, brand |-> b, change |-> change,
                      read |-> table[b], raced |-> FALSE])
  BY DEF Opens
<1>2. [at |-> "opened", node |-> n, brand |-> b, change |-> change,
       read |-> table[b], raced |-> FALSE] \in Opened
  BY DEF Opened, Change, Domains
<1>3. QED
  BY <1>1, <1>2 DEF Begins, Domains

LEMMA WritesDomains == ASSUME Domains, NEW r \in 1..Requests, Writes(r) PROVE Domains'
<1> DEFINE b == req[r].brand
<1>1. req[r] \in Opened
  BY RequestShape DEF Writes
<1>2. b \in Brands /\ [at |-> "written", node |-> req[r].node, brand |-> b] \in Wrote
  BY <1>1 DEF Opened, Wrote
<1>3. [Written(r, table[b]) EXCEPT !.reviewed = TRUE] \in Row
  BY WrittenRow DEF Writes
<1>4. \A k \in 1..Requests : req[k].at = "opened" => [req[k] EXCEPT !.raced = TRUE] \in Opened
  BY RequestShape DEF Opened
<1>5. req' \in [1..Requests -> {NoRequest, Done} \cup Opened \cup Wrote \cup Ran]
  BY <1>2, <1>4 DEF Writes, Domains
<1>6. table' \in [Brands -> Row] /\ wrote' \in [Brands -> 0..Requests]
  BY <1>2, <1>3 DEF Writes, Domains
<1>7. QED
  BY <1>5, <1>6 DEF Writes, Domains

LEMMA AppliesDomains == ASSUME Domains, NEW r \in 1..Requests, Applies(r) PROVE Domains'
<1>1. req[r].node \in Nodes
  BY RequestShape DEF Applies, Wrote
<1>2. [at |-> "applied", node |-> req[r].node] \in Ran
  BY <1>1 DEF Ran
<1>3. QED
  BY <1>1, <1>2, InvalidatesDomains DEF Applies, Domains

LEMMA EditFailsDomains == ASSUME Domains, NEW r \in 1..Requests, EditFails(r) PROVE Domains'
  BY DEF EditFails, Domains

LEMMA StartsRefreshDomains == ASSUME Domains, NEW r \in 1..Requests, StartsRefresh(r) PROVE Domains'
<1>1. PICK n \in Nodes : Begins(r, n, [at |-> "running", node |-> n])
  BY DEF StartsRefresh
<1>2. [at |-> "running", node |-> n] \in Ran
  BY DEF Ran
<1>3. QED
  BY <1>1, <1>2 DEF Begins, Domains

LEMMA ImportsDomains == ASSUME Domains, NEW r \in 1..Requests, Imports(r) PROVE Domains'
<1>1. req[r] \in Ran
  BY RequestShape DEF Imports
<1>2. [req[r] EXCEPT !.at = "stored"] \in Ran
  BY <1>1 DEF Ran
<1>3. req' = [req EXCEPT ![r] = [req[r] EXCEPT !.at = "stored"]]
  BY DEF Imports, Domains
<1>4. QED
  BY <1>2, <1>3, ImportedRow DEF Imports, Domains

LEMMA ImportFailsDomains == ASSUME Domains, NEW r \in 1..Requests, ImportFails(r) PROVE Domains'
<1>1. req[r] \in Ran
  BY RequestShape DEF ImportFails
<1>2. [req[r] EXCEPT !.at = "failed"] \in Ran
  BY <1>1 DEF Ran
<1>3. req' = [req EXCEPT ![r] = [req[r] EXCEPT !.at = "failed"]]
  BY DEF ImportFails, Domains
<1>4. QED
  BY <1>2, <1>3 DEF ImportFails, Domains

LEMMA EndsRefreshDomains == ASSUME Domains, NEW r \in 1..Requests, EndsRefresh(r) PROVE Domains'
<1>1. req[r].node \in Nodes
  BY RequestShape DEF EndsRefresh, Ran
<1>2. cache' \in [Nodes -> Copy] /\ load' \in [Loads -> {NoLoad} \cup Loading]
  BY <1>1, InvalidatesDomains DEF EndsRefresh, Domains
<1>3. status' \in BOOLEAN
  BY DEF EndsRefresh, Outcome, Domains
<1>4. QED
  BY <1>2, <1>3 DEF EndsRefresh, Domains

LEMMA TicksDomains == ASSUME Domains, Ticks PROVE Domains'
<1>1. \A l \in Loads : load[l] \in Loading => [load[l] EXCEPT !.age = @ + 1] \in Loading
  BY DEF Loading
<1>2. \A n \in Nodes :
        [cache[n] EXCEPT !.age = IF @ < Ttl THEN @ + 1 ELSE @,
                         !.asked = IF @ < Ttl + LoadTime THEN @ + 1 ELSE @] \in Copy
  <2> SUFFICES ASSUME NEW n \in Nodes
               PROVE [cache[n] EXCEPT !.age = IF @ < Ttl THEN @ + 1 ELSE @,
                                      !.asked = IF @ < Ttl + LoadTime THEN @ + 1 ELSE @] \in Copy
    OBVIOUS
  <2> DEFINE age == IF cache[n].age < Ttl THEN cache[n].age + 1 ELSE cache[n].age
             asked == IF cache[n].asked < Ttl + LoadTime THEN cache[n].asked + 1 ELSE cache[n].asked
  <2>1. age \in Nat /\ asked \in Nat /\ cache[n] \in Copy
    BY DEF Domains, Copy
  <2> HIDE DEF age, asked
  <2>2. [cache[n] EXCEPT !.age = age, !.asked = asked] \in Copy
    BY <2>1 DEF Copy
  <2>3. QED
    BY <2>2 DEF age, asked
<1>3. load' \in [Loads -> {NoLoad} \cup Loading]
  BY <1>1 DEF Ticks, Domains
<1>4. cache' \in [Nodes -> Copy]
  BY <1>2, Shapes DEF Ticks, Domains
<1>5. QED
  BY <1>3, <1>4 DEF Ticks, Domains

LEMMA NextDomains == Domains /\ [Next]_vars => Domains'
<1> SUFFICES ASSUME Domains, [Next]_vars PROVE Domains'
  OBVIOUS
<1>1. CASE UNCHANGED vars
  BY <1>1 DEF vars, Domains
<1>2. ASSUME NEW n \in Nodes, Boots(n) \/ Stops(n) PROVE Domains'
  BY <1>2, BootsDomains, StopsDomains
<1>3. ASSUME NEW l \in Loads, Asks(l) \/ Reads(l) \/ Stores(l) \/ FallsBack(l) PROVE Domains'
  BY <1>3, AsksDomains, ReadsDomains, StoresDomains, FallsBackDomains
<1>4. ASSUME NEW r \in 1..Requests, Opens(r) \/ Writes(r) \/ Applies(r) \/ EditFails(r) PROVE Domains'
  BY <1>4, OpensDomains, WritesDomains, AppliesDomains, EditFailsDomains
<1>5. ASSUME NEW r \in 1..Requests, StartsRefresh(r) \/ Imports(r) \/ ImportFails(r) \/ EndsRefresh(r)
      PROVE Domains'
  BY <1>5, StartsRefreshDomains, ImportsDomains, ImportFailsDomains, EndsRefreshDomains
<1>6. CASE Ticks
  BY <1>6, TicksDomains
<1>7. QED
  BY <1>1, <1>2, <1>3, <1>4, <1>5, <1>6 DEF Next
-----------------------------------------------------------------------------
(***************************************************************************)
(* The table: what an edit has read stays good enough to be written.       *)
(***************************************************************************)
RowsInv ==
    \A b \in Brands : /\ table[b].reviewed => table[b].there
                      /\ ~table[b].there => table[b] = NoRow
                      /\ Acceptable(table[b])

EditInv(r) ==
    req[r].at = "opened" =>
        /\ req[r].read.there
        /\ Acceptable(Merged(req[r].read, req[r].change))
        /\ ~req[r].raced /\ table[req[r].brand].reviewed =>
                ButPriority(req[r].read) = ButPriority(table[req[r].brand])

TableInv == RowsInv /\ \A r \in 1..Requests : EditInv(r)

LEMMA NoRowFacts == ~NoRow.there /\ ~NoRow.reviewed /\ ~NoRow.protected /\ Acceptable(NoRow)
  BY DEF NoRow, Acceptable

LEMMA InitTable == Init => TableInv
<1> SUFFICES ASSUME Init PROVE TableInv
  OBVIOUS
<1>1. Kept.there /\ ~Kept.protected
  <2>1. /\ DOMAIN Imported(NoRow) = {"there", "domains", "protected", "priority", "active", "reviewed"}
        /\ Imported(NoRow).there /\ ~Imported(NoRow).protected
    BY NoRowFacts, Shapes, ImportedRow DEF Row
  <2>2. QED
    BY <2>1 DEF Kept
<1>2. RowsInv
  BY <1>1, NoRowFacts DEF Init, RowsInv, Acceptable
<1>3. \A r \in 1..Requests : EditInv(r)
  BY Shapes DEF Init, EditInv
<1>4. QED
  BY <1>2, <1>3 DEF TableInv

LEMMA BootsTable ==
    ASSUME Domains, TableInv, NEW n \in Nodes, Boots(n)
    PROVE TableInv' /\ \A b \in Brands : table[b].there => table'[b].there
<1>1. PICK d \in latest..Builds :
        table' = [c \in Brands |-> IF c \in Curated THEN Seeds(table[c], d) ELSE table[c]]
  BY DEF Boots
<1>2. d \in 1..Builds /\ d # None
  BY <1>1, BoundAssumption DEF Domains, None
<1>3. ASSUME NEW b \in Brands
      PROVE /\ table'[b].there /\ (table'[b].reviewed <=> table[b].reviewed) /\ Acceptable(table'[b])
            \/ table'[b] = table[b]
  <2>1. table[b] \in Row
    BY DEF Domains
  <2>2. table'[b] \in {table[b], Seeds(table[b], d)}
    BY <1>1
  <2>3. CASE ~table[b].reviewed
    <3>1. /\ Seeds(table[b], d).there /\ Seeds(table[b], d).domains = d
          /\ ~Seeds(table[b], d).reviewed
      BY <1>2, <2>1, <2>3, SeededRow
    <3>2. Acceptable(Seeds(table[b], d))
      BY <1>2, <3>1 DEF Acceptable
    <3>3. QED
      BY <2>2, <2>3, <3>1, <3>2
  <2>4. CASE table[b].reviewed
    <3>1. table[b].there /\ Acceptable(table[b])
      BY <2>4 DEF TableInv, RowsInv
    <3>2. Seeds(table[b], d) \in Row /\ ButPriority(Seeds(table[b], d)) = ButPriority(table[b])
      BY <1>2, <2>1, <2>4, SeededRow
    <3>3. LET row == Seeds(table[b], d)
          IN  /\ row.there /\ row.reviewed = table[b].reviewed
              /\ row.active = table[b].active /\ row.protected = table[b].protected
              /\ row.domains = table[b].domains
      BY <2>1, <3>1, <3>2, ButPriorityFields
    <3>4. QED
      BY <2>2, <3>1, <3>3 DEF Acceptable
  <2>5. QED
    BY <2>3, <2>4
<1>4. RowsInv'
  BY <1>3 DEF RowsInv, TableInv
<1>5. \A b \in Brands : table[b].reviewed => ButPriority(table'[b]) = ButPriority(table[b])
  BY <1>1, <1>2, SeededRow DEF Domains
<1>6. ASSUME NEW r \in 1..Requests PROVE EditInv(r)'
  <2>1. req' = req
    BY DEF Boots
  <2>2. req[r].at = "opened" => req[r].brand \in Brands
    BY RequestShape DEF Opened
  <2>3. QED
    BY <1>3, <1>5, <2>1, <2>2 DEF TableInv, EditInv
<1>7. QED
  BY <1>3, <1>4, <1>6 DEF TableInv

LEMMA WritesTable ==
    ASSUME Domains, TableInv, NEW r \in 1..Requests, Writes(r)
    PROVE TableInv' /\ \A b \in Brands : table[b].there => table'[b].there
<1> DEFINE row == [Written(r, table[req[r].brand]) EXCEPT !.reviewed = TRUE]
<1>1. req[r].brand \in Brands /\ req[r].at = "opened"
  BY RequestShape DEF Writes, Opened
<1>2. row.reviewed /\ row.there /\ Acceptable(row)
  BY <1>1, WrittenRow DEF TableInv, EditInv
<1> HIDE DEF row
<1>3. table' = [table EXCEPT ![req[r].brand] = row]
  BY DEF Writes, row
<1>4. RowsInv'
  BY <1>1, <1>2, <1>3 DEF TableInv, RowsInv, Domains
<1>5. ASSUME NEW k \in 1..Requests PROVE EditInv(k)'
  <2>1. CASE k = r
    BY <2>1 DEF Writes, EditInv, Domains
  <2>2. CASE k # r /\ req[k].at = "opened" /\ req[k].brand = req[r].brand
    <3>1. req[k] \in Opened /\ req'[k] = [req[k] EXCEPT !.raced = TRUE]
      BY <2>2, RequestShape DEF Writes, Domains
    <3>2. req'[k].raced /\ req'[k].read = req[k].read /\ req'[k].change = req[k].change
      BY <3>1 DEF Opened
    <3>3. QED
      BY <2>2, <3>2 DEF TableInv, EditInv
  <2>3. CASE k # r /\ ~(req[k].at = "opened" /\ req[k].brand = req[r].brand)
    <3>1. req'[k] = req[k]
      BY <2>3 DEF Writes, Domains
    <3>2. req[k].at = "opened" => req[k].brand \in Brands /\ table'[req[k].brand] = table[req[k].brand]
      BY <1>3, <2>3, RequestShape DEF Opened, Domains
    <3>3. QED
      BY <3>1, <3>2 DEF TableInv, EditInv
  <2>4. QED
    BY <2>1, <2>2, <2>3
<1>6. QED
  BY <1>1, <1>2, <1>3, <1>4, <1>5 DEF TableInv, Domains

LEMMA ImportsTable ==
    ASSUME Domains, TableInv, NEW r \in 1..Requests, Imports(r)
    PROVE /\ TableInv'
          /\ \A b \in Brands : table[b].there => table'[b].there
          /\ \A b \in Observed : table'[b].there
<1>1. ASSUME NEW b \in Brands
      PROVE /\ table[b].there => table'[b] = table[b]
            /\ ~table[b].there => table'[b] = table[b] \/ (table'[b].there /\ ~table'[b].protected /\ ~table'[b].reviewed)
            /\ b \in Observed => table'[b].there
  BY ImportedRow DEF Imports, Domains
<1>2. RowsInv'
  BY <1>1 DEF TableInv, RowsInv, Acceptable
<1>3. ASSUME NEW k \in 1..Requests PROVE EditInv(k)'
  <2>1. CASE k = r
    <3>1. req[r] \in Ran /\ req'[k] = [req[r] EXCEPT !.at = "stored"]
      BY <2>1, RequestShape DEF Imports, Domains
    <3>2. req'[k].at = "stored"
      BY <3>1 DEF Ran
    <3>3. QED
      BY <3>2 DEF EditInv
  <2>2. CASE k # r
    <3>1. req'[k] = req[k]
      BY <2>2 DEF Imports, Domains
    <3>2. req[k].at = "opened" => req[k].brand \in Brands
      BY RequestShape DEF Opened
    <3>3. QED
      BY <1>1, <3>1, <3>2 DEF TableInv, EditInv, RowsInv
  <2>3. QED
    BY <2>1, <2>2
<1>4. QED
  BY <1>1, <1>2, <1>3 DEF TableInv, Brands

\* No other step writes the table, or makes an edit out of anything but an
\* acceptable change of what is there.
LEMMA OpensTable ==
    ASSUME Domains, TableInv, NEW r \in 1..Requests, Opens(r)
    PROVE TableInv'
<1>1. PICK n \in Nodes, b \in Brands, change \in Changes(r) :
        /\ table[b].there /\ Acceptable(Merged(table[b], change))
        /\ Begins(r, n, [at |-> "opened", node |-> n, brand |-> b, change |-> change,
                         read |-> table[b], raced |-> FALSE])
  BY DEF Opens
<1>2. req' = [req EXCEPT ![r] = [at |-> "opened", node |-> n, brand |-> b, change |-> change,
                                 read |-> table[b], raced |-> FALSE]]
      /\ table' = table
  BY <1>1 DEF Begins
<1>3. EditInv(r)'
  BY <1>1, <1>2 DEF EditInv, Domains
<1>4. \A k \in 1..Requests : k # r => EditInv(k)'
  BY <1>2 DEF EditInv, Domains, TableInv
<1>5. QED
  BY <1>2, <1>3, <1>4 DEF TableInv, RowsInv

LEMMA OtherTable ==
    ASSUME Domains, TableInv, table' = table,
           \A r \in 1..Requests : req'[r] = req[r] \/ req'[r].at # "opened"
    PROVE TableInv'
  BY DEF TableInv, RowsInv, EditInv

LEMMA NextTable ==
    ASSUME Domains, TableInv, [Next]_vars
    PROVE TableInv' /\ \A b \in Brands : table[b].there => table'[b].there
<1> DEFINE Rest == table' = table /\ \A r \in 1..Requests : req'[r] = req[r] \/ req'[r].at # "opened"
<1>0. ASSUME Rest PROVE TableInv' /\ \A b \in Brands : table[b].there => table'[b].there
  BY <1>0, OtherTable
<1>1. CASE UNCHANGED vars
  BY <1>0, <1>1 DEF vars
<1>2. ASSUME NEW n \in Nodes, Boots(n) \/ Stops(n) PROVE TableInv' /\ \A b \in Brands : table[b].there => table'[b].there
  <2>1. ASSUME Stops(n) PROVE Rest
    BY <2>1, Shapes DEF Stops, Domains
  <2>2. QED
    BY <1>0, <1>2, <2>1, BootsTable
<1>3. ASSUME NEW l \in Loads, Asks(l) \/ Reads(l) \/ Stores(l) \/ FallsBack(l) PROVE Rest
  BY <1>3 DEF Asks, Reads, Stores, FallsBack
<1>4. ASSUME NEW r \in 1..Requests, Applies(r) \/ EditFails(r) PROVE Rest
  <2>1. CASE Applies(r)
    BY <2>1 DEF Applies, Domains
  <2>2. CASE EditFails(r)
    BY <2>2, Shapes DEF EditFails, Domains
  <2>3. QED
    BY <1>4, <2>1, <2>2
<1>5. ASSUME NEW r \in 1..Requests, StartsRefresh(r) PROVE Rest
  BY <1>5 DEF StartsRefresh, Begins, Domains
<1>6. ASSUME NEW r \in 1..Requests, ImportFails(r) PROVE Rest
  <2>1. req[r] \in Ran
    BY <1>6, RequestShape DEF ImportFails
  <2>2. req' = [req EXCEPT ![r] = [req[r] EXCEPT !.at = "failed"]] /\ [req[r] EXCEPT !.at = "failed"].at = "failed"
    BY <1>6, <2>1 DEF ImportFails, Domains, Ran
  <2>3. QED
    BY <1>6, <2>2 DEF ImportFails, Domains
<1>7. ASSUME NEW r \in 1..Requests, EndsRefresh(r) PROVE Rest
  BY <1>7, Shapes DEF EndsRefresh, Domains
<1>8. CASE Ticks
  BY <1>0, <1>8 DEF Ticks
<1>9. ASSUME NEW r \in 1..Requests, Opens(r) PROVE TableInv' /\ table' = table
  BY <1>9, OpensTable DEF Opens, Begins
<1>10. QED
  BY <1>0, <1>1, <1>2, <1>3, <1>4, <1>5, <1>6, <1>7, <1>8, <1>9, WritesTable, ImportsTable DEF Next

\* An administrator's edit is written as it was read and checked, but what was
\* read may be stale; a brand that is active and protected has domains even so
\* (mergeBrandUpdate).
THEOREM ProtectedStayKnown == Spec => []ProtectedHasProfile
<1>1. Init => Domains /\ TableInv
  BY InitDomains, InitTable
<1>2. Domains /\ TableInv /\ [Next]_vars => (Domains /\ TableInv)'
  BY NextDomains, NextTable
<1>3. TableInv => ProtectedHasProfile
  BY DEF TableInv, RowsInv, ProtectedHasProfile
<1>4. QED
  BY <1>1, <1>2, <1>3, PTL DEF Spec

\* Seeding and the feed leave a reviewed brand alone but for its priority, which
\* a start may raise; and an edit nobody raced with still holds the row it
\* replaces, but for what it names and for the priority it read (EnsureDefaults,
\* store, update).
THEOREM ReviewedRowsStand == Spec => ReviewedStands
<1>1. ASSUME Domains, TableInv, [Next]_vars, NEW b \in Brands, table[b].reviewed, table'[b] # table[b]
      PROVE Edited(b) \/ Lifted(b)
  <2>1. table[b] \in Row /\ table[b].there
    BY <1>1 DEF Domains, TableInv, RowsInv
  <2>2. ASSUME NEW n \in Nodes, Boots(n) PROVE Lifted(b)
    <3>1. PICK d \in latest..Builds :
            /\ table' = [c \in Brands |-> IF c \in Curated THEN Seeds(table[c], d) ELSE table[c]]
            /\ build' = [build EXCEPT ![n] = d]
      BY <2>2 DEF Boots
    <3>2. d \in 1..Builds /\ d # 0
      BY <1>1, <3>1, BoundAssumption DEF Domains
    <3>3. build[n] = 0 /\ build'[n] # 0
      BY <1>1, <2>2, <3>1, <3>2 DEF Boots, Up, Domains
    <3>4. b \in Curated /\ table'[b] = Seeds(table[b], d)
      BY <1>1, <3>1
    <3>5. QED
      BY <1>1, <2>1, <3>2, <3>3, <3>4, SeededRow DEF Lifted
  <2>3. ASSUME NEW r \in 1..Requests PROVE ~Imports(r)
    BY <1>1, <2>1, ImportedRow DEF Imports
  <2>4. ASSUME NEW r \in 1..Requests, Writes(r) PROVE Edited(b)
    <3> DEFINE row == [Written(r, table[req[r].brand]) EXCEPT !.reviewed = TRUE]
    <3>1. req[r] \in Opened /\ req[r].at = "opened"
      BY <1>1, <2>4, RequestShape DEF Writes
    <3>2. req[r].brand = b /\ req'[r].at = "written" /\ table'[b] = row
      BY <1>1, <2>4, <3>1 DEF Writes, Domains, Opened
    <3>3. row \in Row /\ row.reviewed
          /\ \A f \in DOMAIN req[r].read : f \notin DOMAIN req[r].change \cup {"reviewed"} =>
                row[f] = req[r].read[f]
      BY <1>1, <3>1, WrittenRow
    <3> HIDE DEF row
    <3>4. req[r].read \in Row /\ DOMAIN req[r].read = DOMAIN table[b] /\ "priority" # "reviewed"
      BY <2>1, <3>1 DEF Opened, Row
    <3>5. ~req[r].raced => \A f \in DOMAIN table[b] : f # "priority" => req[r].read[f] = table[b][f]
      <4>1. ~req[r].raced => ButPriority(req[r].read) = ButPriority(table[b])
        BY <1>1, <3>1, <3>2 DEF TableInv, EditInv
      <4>2. QED
        BY <2>1, <3>4, <4>1, ButPriorityFields
    <3>6. row.reviewed = table[b].reviewed
      BY <1>1, <2>1, <3>3 DEF Row
    <3>7. ASSUME ~req[r].raced, NEW f \in DOMAIN table[b], row[f] # table[b][f]
          PROVE f \in DOMAIN req[r].change \/ (f = "priority" /\ row[f] = req[r].read[f])
      BY <3>3, <3>4, <3>5, <3>6, <3>7
    <3>8. QED
      BY <3>1, <3>2, <3>7 DEF Edited
  <2>5. CASE UNCHANGED vars
    BY <1>1, <2>5 DEF vars
  <2>6. \/ \E n \in Nodes : Stops(n)
        \/ \E l \in Loads : Asks(l) \/ Reads(l) \/ Stores(l) \/ FallsBack(l)
        \/ \E r \in 1..Requests : \/ Opens(r) \/ Applies(r) \/ EditFails(r)
                                  \/ StartsRefresh(r) \/ ImportFails(r) \/ EndsRefresh(r)
        \/ Ticks
        => table' = table
    BY DEF Stops, Asks, Reads, Stores, FallsBack, Opens, Begins, Applies, EditFails,
           StartsRefresh, ImportFails, EndsRefresh, Ticks
  <2>7. QED
    BY <1>1, <2>2, <2>3, <2>4, <2>5, <2>6 DEF Next
<1>2. Domains /\ TableInv /\ [Next]_vars =>
        [\A b \in Brands : table[b].reviewed /\ table'[b] # table[b] => Edited(b) \/ Lifted(b)]_vars
  BY <1>1
<1>3. Init => Domains /\ TableInv
  BY InitDomains, InitTable
<1>4. Domains /\ TableInv /\ [Next]_vars => (Domains /\ TableInv)'
  BY NextDomains, NextTable
<1>5. QED
  BY <1>2, <1>3, <1>4, PTL DEF Spec, ReviewedStands
-----------------------------------------------------------------------------
(***************************************************************************)
(* Copies: how old one is, and which edits it has seen.                    *)
(***************************************************************************)
AgeInv ==
    /\ \A n \in Nodes : Fresh(n) => /\ cache[n].age < Ttl
                                    /\ cache[n].asked <= cache[n].age + LoadTime
    /\ \A l \in Loads : load[l] # NoLoad => load[l].age <= LoadTime

\* The rows about b that a copy or a load holds are those of the table.
Current(rows, b) == {d \in rows : d.brand = b} = {d \in Copied : d.brand = b}

\* An edit of brand b has been written last, and has dropped the copy of n.
AppliedHere(n, b) ==
    LET r == wrote[b] IN r # Elsewhere /\ req[r].at = "applied" /\ req[r].node = n

SeenInv(n, b) ==
    AppliedHere(n, b) =>
        /\ Fresh(n) => Current(cache[n].rows, b) \/ cache[n].passed
        /\ \A l \in Loads :
            load[l] # NoLoad /\ load[l].node = n /\ load[l].read =>
                Current(load[l].rows, b) \/ load[l].passed

CopyInv == AgeInv /\ \A n \in Nodes, b \in Brands : SeenInv(n, b)

LEMMA InitCopies == Init => CopyInv
  BY DEF Init, CopyInv, AgeInv, SeenInv, Fresh, NoCopy, AppliedHere, Elsewhere

\* Nobody becomes an applied edit but by Applies, and what a message is compared
\* with changes only with the rows.
LEMMA SameSeen ==
    ASSUME Domains, CopyInv, UNCHANGED <<cache, load>>,
           \A b \in Brands : wrote'[b] = Elsewhere
                \/ /\ wrote'[b] = wrote[b]
                   /\ {d \in Copied' : d.brand = b} = {d \in Copied : d.brand = b}
                \/ req'[wrote'[b]].at # "applied",
           \A r \in 1..Requests : req'[r] = req[r] \/ req'[r].at # "applied"
    PROVE CopyInv'
<1>1. AgeInv'
  BY DEF CopyInv, AgeInv, Fresh
<1>2. ASSUME NEW n \in Nodes, NEW b \in Brands, AppliedHere(n, b)' PROVE SeenInv(n, b)'
  <2>1. wrote'[b] = wrote[b] /\ {d \in Copied' : d.brand = b} = {d \in Copied : d.brand = b}
    BY <1>2 DEF AppliedHere
  <2>2. wrote[b] \in 1..Requests
    BY <1>2, <2>1, BoundAssumption DEF AppliedHere, Domains, Elsewhere
  <2>3. AppliedHere(n, b)
    BY <1>2, <2>1, <2>2 DEF AppliedHere
  <2>4. \A rows : Current(rows, b)' <=> Current(rows, b)
    BY <2>1 DEF Current
  <2>5. QED
    BY <2>3, <2>4 DEF CopyInv, SeenInv, Fresh, Current
<1>3. QED
  BY <1>1, <1>2 DEF CopyInv, SeenInv

LEMMA CopiedOf ==
    ASSUME NEW b \in Brands
    PROVE {d \in Copied : d.brand = b} =
            IF b \in Profiles THEN {[brand |-> b, domains |-> table[b].domains]} ELSE {}
  BY DEF Copied, Profiles

\* A copy does not depend on who reviewed a brand nor on its priority.
LEMMA SameColumnsSameCopy ==
    ASSUME NEW b \in Brands,
           table'[b].there = table[b].there, table'[b].active = table[b].active,
           table'[b].protected = table[b].protected, table'[b].domains = table[b].domains
    PROVE {d \in Copied' : d.brand = b} = {d \in Copied : d.brand = b}
<1>1. b \in Profiles' <=> b \in Profiles
  BY DEF Profiles
<1>2. {d \in Copied' : d.brand = b} =
            IF b \in Profiles' THEN {[brand |-> b, domains |-> table'[b].domains]} ELSE {}
  BY DEF Copied, Profiles
<1>3. QED
  BY <1>1, <1>2, CopiedOf

LEMMA SameRowSameCopy ==
    ASSUME NEW b \in Brands, table'[b] = table[b]
    PROVE {d \in Copied' : d.brand = b} = {d \in Copied : d.brand = b}
  BY SameColumnsSameCopy

LEMMA InvalidatesCopies ==
    ASSUME Domains, CopyInv, NEW n \in Nodes, Invalidates(n), UNCHANGED <<table, wrote>>,
           \A r \in 1..Requests : req'[r] = req[r] \/ req'[r].at # "applied" \/ req'[r].node = n
    PROVE CopyInv'
<1>1. ~Fresh(n)' /\ \A k \in Nodes : k # n => cache'[k] = cache[k]
  BY DEF Invalidates, Domains, Fresh, NoCopy
<1>2. ASSUME NEW l \in Loads, load[l] # NoLoad
      PROVE /\ load'[l].node = load[l].node /\ load'[l].rows = load[l].rows
            /\ load'[l].read = load[l].read /\ load'[l].age = load[l].age
            /\ IF load[l].node = n THEN load'[l].passed ELSE load'[l] = load[l]
  BY <1>2, LoadShape DEF Invalidates, Domains, Loading
<1>3. ASSUME NEW l \in Loads, load[l] = NoLoad PROVE load'[l] = NoLoad
  BY <1>3, BoundAssumption DEF Invalidates, Domains, NoLoad
<1>4. AgeInv'
  BY <1>1, <1>2, <1>3 DEF CopyInv, AgeInv, Fresh
<1>5. ASSUME NEW k \in Nodes, NEW b \in Brands, AppliedHere(k, b)' PROVE SeenInv(k, b)'
  <2>1. CASE k = n
    BY <1>1, <1>2, <1>3, <2>1 DEF SeenInv, Fresh
  <2>2. CASE k # n
    <3>1. wrote[b] \in 1..Requests /\ wrote'[b] = wrote[b]
      BY <1>5, BoundAssumption DEF AppliedHere, Domains, Elsewhere
    <3>2. AppliedHere(k, b)
      BY <1>5, <2>2, <3>1 DEF AppliedHere
    <3>3. \A rows : Current(rows, b)' <=> Current(rows, b)
      BY SameRowSameCopy DEF Current
    <3>4. \A l \in Loads : load'[l] # NoLoad /\ load'[l].node = k => load'[l] = load[l]
      BY <1>2, <1>3, <2>2
    <3>5. QED
      BY <1>1, <2>2, <3>2, <3>3, <3>4 DEF CopyInv, SeenInv, Fresh, Current
  <2>3. QED
    BY <2>1, <2>2
<1>6. QED
  BY <1>4, <1>5 DEF CopyInv, SeenInv

\* Steps that leave the table and the edits alone may renew or drop a copy or a load.
LEMMA OwnSeen ==
    ASSUME Domains, CopyInv, AgeInv', UNCHANGED <<table, wrote>>,
           \A r \in 1..Requests : req'[r] = req[r] \/ req'[r].at # "applied",
           \A n \in Nodes, b \in Brands : SeenInv(n, b) /\ AppliedHere(n, b) =>
                /\ Fresh(n)' => Current(cache'[n].rows, b) \/ cache'[n].passed
                /\ \A l \in Loads :
                    load'[l] # NoLoad /\ load'[l].node = n /\ load'[l].read =>
                        Current(load'[l].rows, b) \/ load'[l].passed
    PROVE CopyInv'
<1>1. ASSUME NEW n \in Nodes, NEW b \in Brands, AppliedHere(n, b)' PROVE SeenInv(n, b)'
  <2>1. wrote[b] \in 1..Requests /\ wrote'[b] = wrote[b]
    BY <1>1, BoundAssumption DEF AppliedHere, Domains, Elsewhere
  <2>2. AppliedHere(n, b) /\ SeenInv(n, b)
    BY <1>1, <2>1 DEF AppliedHere, CopyInv
  <2>3. \A rows : Current(rows, b)' <=> Current(rows, b)
    BY SameRowSameCopy DEF Current
  <2>4. QED
    BY <2>2, <2>3 DEF SeenInv, Fresh, Current
<1>2. QED
  BY <1>1 DEF CopyInv, SeenInv

LEMMA StopsCopies == ASSUME Domains, CopyInv, NEW n \in Nodes, Stops(n) PROVE CopyInv'
<1>1. /\ ~Fresh(n)' /\ \A k \in Nodes : k # n => cache'[k] = cache[k]
      /\ \A l \in Loads : load'[l] = load[l] \/ load'[l] = NoLoad
      /\ \A r \in 1..Requests : req'[r] = req[r] \/ req'[r].at # "applied"
  BY Shapes DEF Stops, Domains, Fresh, NoCopy
<1>2. AgeInv'
  BY <1>1 DEF CopyInv, AgeInv, Fresh
<1>3. ASSUME NEW k \in Nodes, NEW b \in Brands, SeenInv(k, b), AppliedHere(k, b)
      PROVE /\ Fresh(k)' => Current(cache'[k].rows, b) \/ cache'[k].passed
            /\ \A l \in Loads :
                load'[l] # NoLoad /\ load'[l].node = k /\ load'[l].read =>
                    Current(load'[l].rows, b) \/ load'[l].passed
  BY <1>1, <1>3 DEF SeenInv, Fresh
<1>4. QED
  BY <1>1, <1>2, <1>3, OwnSeen DEF Stops

LEMMA LoadsCopies ==
    ASSUME Domains, CopyInv, NEW l \in Loads, Asks(l) \/ Reads(l) \/ Stores(l) \/ FallsBack(l)
    PROVE CopyInv'
<1> DEFINE Seen(n, b) ==
        /\ Fresh(n)' => Current(cache'[n].rows, b) \/ cache'[n].passed
        /\ \A k \in Loads :
            load'[k] # NoLoad /\ load'[k].node = n /\ load'[k].read =>
                Current(load'[k].rows, b) \/ load'[k].passed
<1>1. CASE Asks(l)
  <2>1. PICK m \in Nodes :
          load' = [load EXCEPT ![l] = [node |-> m, age |-> 0, read |-> FALSE, rows |-> {},
                                       passed |-> FALSE]]
    BY <1>1 DEF Asks
  <2>2. ~load'[l].read /\ load'[l].age = 0 /\ \A k \in Loads : k # l => load'[k] = load[k]
    BY <2>1 DEF Domains
  <2>3. AgeInv'
    BY <1>1, <2>2, BoundAssumption DEF Asks, CopyInv, AgeInv, Fresh
  <2>4. \A n \in Nodes, b \in Brands : SeenInv(n, b) /\ AppliedHere(n, b) => Seen(n, b)
    BY <1>1, <2>2 DEF Asks, SeenInv, Fresh
  <2>5. QED
    BY <1>1, <2>3, <2>4, OwnSeen DEF Asks
<1>2. CASE Reads(l)
  <2>1. load[l] \in Loading /\ load' = [load EXCEPT ![l] = [load[l] EXCEPT !.read = TRUE, !.rows = Copied]]
    BY <1>2, LoadShape DEF Reads, Domains
  <2>2. /\ load'[l].rows = Copied /\ load'[l].age = load[l].age
        /\ \A k \in Loads : k # l => load'[k] = load[k]
    BY <2>1 DEF Domains, Loading
  <2>3. AgeInv'
    BY <1>2, <2>2 DEF Reads, CopyInv, AgeInv, Fresh
  <2>4. \A n \in Nodes, b \in Brands : SeenInv(n, b) /\ AppliedHere(n, b) => Seen(n, b)
    BY <1>2, <2>2 DEF Reads, SeenInv, Fresh, Current
  <2>5. QED
    BY <1>2, <2>3, <2>4, OwnSeen DEF Reads
<1>3. CASE Stores(l)
  <2> DEFINE m == load[l].node
  <2>1. load[l] \in Loading /\ m \in Nodes /\ load[l].read
    BY <1>3, LoadShape DEF Stores, Loading
  <2>2. /\ load'[l] = NoLoad /\ \A k \in Loads : k # l => load'[k] = load[k]
        /\ \A n \in Nodes : n # m => cache'[n] = cache[n]
    BY <1>3 DEF Stores, Domains
  <2>3. CASE load[l].rows = {}
    <3>1. cache'[m] = NoCopy
      BY <1>3, <2>1, <2>3 DEF Stores, Domains
    <3>2. cache'[m].rows = {}
      BY <3>1 DEF NoCopy
    <3>3. AgeInv'
      BY <2>2, <3>2 DEF CopyInv, AgeInv, Fresh
    <3>4. \A n \in Nodes, b \in Brands : SeenInv(n, b) /\ AppliedHere(n, b) => Seen(n, b)
      BY <2>2, <3>2 DEF SeenInv, Fresh
    <3>5. QED
      BY <1>3, <3>3, <3>4, OwnSeen DEF Stores
  <2>4. CASE load[l].rows # {}
    <3>1. cache'[m] = [rows |-> load[l].rows, age |-> 0, asked |-> load[l].age,
                       passed |-> load[l].passed]
      BY <1>3, <2>1, <2>4 DEF Stores, Domains
    <3>2. /\ cache'[m].rows = load[l].rows /\ cache'[m].passed = load[l].passed
          /\ cache'[m].age = 0 /\ cache'[m].asked = load[l].age
      BY <3>1
    <3>3. load[l].age <= LoadTime /\ 0 < Ttl /\ load[l].age \in Nat
      BY <1>3, <2>1, BoundAssumption DEF Stores, CopyInv, AgeInv, Loading
    <3>4. AgeInv'
      BY <2>2, <3>2, <3>3, BoundAssumption DEF CopyInv, AgeInv, Fresh
    <3>5. \A n \in Nodes, b \in Brands : SeenInv(n, b) /\ AppliedHere(n, b) => Seen(n, b)
      BY <1>3, <2>1, <2>2, <3>2 DEF Stores, SeenInv, Fresh
    <3>6. QED
      BY <1>3, <3>4, <3>5, OwnSeen DEF Stores
  <2>5. QED
    BY <2>3, <2>4
<1>4. CASE FallsBack(l)
  <2>1. load'[l] = NoLoad /\ \A k \in Loads : k # l => load'[k] = load[k]
    BY <1>4 DEF FallsBack, Domains
  <2>2. AgeInv'
    BY <1>4, <2>1 DEF FallsBack, CopyInv, AgeInv, Fresh
  <2>3. \A n \in Nodes, b \in Brands : SeenInv(n, b) /\ AppliedHere(n, b) => Seen(n, b)
    BY <1>4, <2>1 DEF FallsBack, SeenInv, Fresh
  <2>4. QED
    BY <1>4, <2>2, <2>3, OwnSeen DEF FallsBack
<1>5. QED
  BY <1>1, <1>2, <1>3, <1>4

LEMMA TicksCopies == ASSUME Domains, CopyInv, Ticks PROVE CopyInv'
<1>1. ASSUME NEW n \in Nodes, Fresh(n)'
      PROVE /\ Fresh(n) /\ cache'[n].rows = cache[n].rows /\ cache'[n].passed = cache[n].passed
            /\ cache'[n].age < Ttl /\ cache'[n].asked <= cache'[n].age + LoadTime
  <2>1. Fresh(n) /\ Lasts(cache[n])
    BY <1>1 DEF Ticks, Fresh, NoCopy
  <2>2. cache[n] \in Copy /\ cache[n].age < Ttl /\ cache[n].asked <= cache[n].age + LoadTime
    BY <2>1 DEF Domains, CopyInv, AgeInv
  <2> DEFINE age == IF cache[n].age < Ttl THEN cache[n].age + 1 ELSE cache[n].age
             asked == IF cache[n].asked < Ttl + LoadTime THEN cache[n].asked + 1 ELSE cache[n].asked
  <2>3. age < Ttl /\ asked <= age + LoadTime
    BY <2>1, <2>2, BoundAssumption DEF Lasts, Copy
  <2>4. cache'[n] = [cache[n] EXCEPT !.age = age, !.asked = asked]
    BY <2>1 DEF Ticks
  <2> HIDE DEF age, asked
  <2>5. cache'[n].age = age /\ cache'[n].asked = asked /\ cache'[n].rows = cache[n].rows
        /\ cache'[n].passed = cache[n].passed
    BY <2>2, <2>4 DEF Copy
  <2>6. QED
    BY <2>1, <2>3, <2>5
<1>2. ASSUME NEW l \in Loads, load'[l] # NoLoad
      PROVE /\ load[l] # NoLoad /\ load'[l].age <= LoadTime
            /\ load'[l].node = load[l].node /\ load'[l].rows = load[l].rows
            /\ load'[l].read = load[l].read /\ load'[l].passed = load[l].passed
  <2>1. load[l] # NoLoad /\ load'[l] = [load[l] EXCEPT !.age = @ + 1]
    BY <1>2 DEF Ticks, Domains
  <2>2. load[l] \in Loading /\ load[l].age < LoadTime
    BY <2>1, LoadShape DEF Ticks, Domains
  <2>3. QED
    BY <2>1, <2>2, BoundAssumption DEF Loading
<1>3. AgeInv'
  BY <1>1, <1>2 DEF AgeInv
<1>4. ASSUME NEW n \in Nodes, NEW b \in Brands, SeenInv(n, b), AppliedHere(n, b)
      PROVE /\ Fresh(n)' => Current(cache'[n].rows, b) \/ cache'[n].passed
            /\ \A l \in Loads :
                load'[l] # NoLoad /\ load'[l].node = n /\ load'[l].read =>
                    Current(load'[l].rows, b) \/ load'[l].passed
  BY <1>1, <1>2, <1>4 DEF SeenInv
<1>5. QED
  BY <1>3, <1>4, OwnSeen DEF Ticks

LEMMA NextCopies == ASSUME Domains, TableInv, CopyInv, [Next]_vars PROVE CopyInv'
<1>1. CASE UNCHANGED vars
  BY <1>1, OwnSeen DEF vars, CopyInv, AgeInv, SeenInv, Fresh
<1>2. ASSUME NEW n \in Nodes, Boots(n) PROVE CopyInv'
  <2>1. \A b \in Brands :
            wrote'[b] # Elsewhere => wrote'[b] = wrote[b] /\ ButPriority(table'[b]) = ButPriority(table[b])
    BY <1>2 DEF Boots, Domains
  <2>2. \A b \in Brands : table[b] \in Row /\ table'[b] \in Row
    BY <1>2, BootsDomains DEF Domains
  <2>3. \A b \in Brands : ButPriority(table'[b]) = ButPriority(table[b]) =>
            {d \in Copied' : d.brand = b} = {d \in Copied : d.brand = b}
    BY <2>2, ButPriorityFields, SameColumnsSameCopy
  <2>4. UNCHANGED <<cache, load, req>>
    BY <1>2 DEF Boots
  <2>5. QED
    BY <2>1, <2>3, <2>4, SameSeen
<1>3. ASSUME NEW r \in 1..Requests, Opens(r) \/ StartsRefresh(r) PROVE CopyInv'
  <2>1. \A k \in 1..Requests : req'[k] = req[k] \/ req'[k].at # "applied"
    <3>1. CASE Opens(r)
      BY <3>1 DEF Opens, Begins, Domains
    <3>2. CASE StartsRefresh(r)
      BY <3>2 DEF StartsRefresh, Begins, Domains
    <3>3. QED
      BY <1>3, <3>1, <3>2
  <2>2. UNCHANGED <<table, cache, load, wrote>>
    BY <1>3 DEF Opens, StartsRefresh, Begins
  <2>3. QED
    BY <2>1, <2>2, SameRowSameCopy, SameSeen
<1>4. ASSUME NEW r \in 1..Requests, Writes(r) PROVE CopyInv'
  <2>1. req[r] \in Opened /\ req[r].brand \in Brands
    BY <1>4, RequestShape DEF Writes, Opened
  <2>2. \A b \in Brands : IF b = req[r].brand THEN wrote'[b] = r
                          ELSE wrote'[b] = wrote[b] /\ table'[b] = table[b]
    BY <1>4, <2>1 DEF Writes, Domains
  <2>3. ASSUME NEW k \in 1..Requests PROVE req'[k] = req[k] \/ req'[k].at # "applied"
    <3>1. CASE k # r /\ req[k].at = "opened" /\ req[k].brand = req[r].brand
      <4>1. req[k] \in Opened /\ req'[k] = [req[k] EXCEPT !.raced = TRUE]
        BY <1>4, <3>1, RequestShape DEF Writes, Domains
      <4>2. QED
        BY <4>1 DEF Opened
    <3>2. CASE k = r
      BY <1>4, <3>2 DEF Writes, Domains
    <3>3. QED
      BY <1>4, <3>1, <3>2 DEF Writes, Domains
  <2>4. req'[r].at = "written"
    BY <1>4 DEF Writes, Domains
  <2>5. UNCHANGED <<cache, load>>
    BY <1>4 DEF Writes
  <2>6. QED
    BY <2>2, <2>3, <2>4, <2>5, SameRowSameCopy, SameSeen
<1>5. ASSUME NEW r \in 1..Requests, Applies(r) PROVE CopyInv'
  <2>1. req[r].node \in Nodes
    BY <1>5, RequestShape DEF Applies, Wrote
  <2>2. \A k \in 1..Requests : req'[k] = req[k] \/ req'[k].node = req[r].node
    BY <1>5 DEF Applies, Domains
  <2>3. QED
    BY <1>5, <2>1, <2>2, InvalidatesCopies DEF Applies
<1>6. ASSUME NEW r \in 1..Requests, EditFails(r) PROVE CopyInv'
  BY <1>6, Shapes, SameRowSameCopy, SameSeen DEF EditFails, Domains
<1>7. ASSUME NEW r \in 1..Requests, ImportFails(r) PROVE CopyInv'
  <2>1. req[r] \in Ran /\ req' = [req EXCEPT ![r] = [req[r] EXCEPT !.at = "failed"]]
    BY <1>7, RequestShape DEF ImportFails, Domains
  <2>2. \A k \in 1..Requests : req'[k] = req[k] \/ req'[k].at # "applied"
    BY <2>1 DEF Domains, Ran
  <2>3. QED
    BY <1>7, <2>2, SameRowSameCopy, SameSeen DEF ImportFails
<1>8. ASSUME NEW r \in 1..Requests, Imports(r) PROVE CopyInv'
  <2>1. req[r] \in Ran /\ req' = [req EXCEPT ![r] = [req[r] EXCEPT !.at = "stored"]]
    BY <1>8, RequestShape DEF Imports, Domains
  <2>2. \A k \in 1..Requests : req'[k] = req[k] \/ req'[k].at # "applied"
    BY <2>1 DEF Domains, Ran
  <2>3. ASSUME NEW b \in Brands PROVE {d \in Copied' : d.brand = b} = {d \in Copied : d.brand = b}
    <3>1. CASE table'[b] = table[b]
      BY <3>1, SameRowSameCopy
    <3>2. CASE table'[b] # table[b]
      <4>1. ~table[b].there /\ table'[b] = Imported(table[b])
        BY <1>8, <3>2, ImportedRow DEF Imports, Domains
      <4>2. ~table[b].protected /\ ~table'[b].protected
        BY <4>1, NoRowFacts, ImportedRow DEF TableInv, RowsInv, Domains
      <4>3. QED
        BY <4>2 DEF Copied, Profiles
    <3>3. QED
      BY <3>1, <3>2
  <2>4. QED
    BY <1>8, <2>2, <2>3, SameSeen DEF Imports
<1>9. ASSUME NEW r \in 1..Requests, EndsRefresh(r) PROVE CopyInv'
  <2>1. req[r].node \in Nodes
    BY <1>9, RequestShape DEF EndsRefresh, Ran
  <2>2. \A k \in 1..Requests : req'[k] = req[k] \/ req'[k].at # "applied"
    BY <1>9, Shapes DEF EndsRefresh, Domains
  <2>3. QED
    BY <1>9, <2>1, <2>2, InvalidatesCopies, SameRowSameCopy, SameSeen DEF EndsRefresh
<1>10. QED
  BY <1>1, <1>2, <1>3, <1>4, <1>5, <1>6, <1>7, <1>8, <1>9, StopsCopies, LoadsCopies, TicksCopies DEF Next

\* A copy is dated when it is stored, not when it was read: its age bounds how
\* long ago that was by one load more (ProtectedProfiles).
THEOREM EditsReachEveryone == Spec => []EditTakesEffect
<1>1. Init => Domains /\ TableInv /\ CopyInv
  BY InitDomains, InitTable, InitCopies
<1>2. Domains /\ TableInv /\ CopyInv /\ [Next]_vars => (Domains /\ TableInv /\ CopyInv)'
  BY NextDomains, NextTable, NextCopies
<1>3. Domains /\ CopyInv => EditTakesEffect
  BY BoundAssumption DEF CopyInv, AgeInv, EditTakesEffect, Domains, Copy
<1>4. QED
  BY <1>1, <1>2, <1>3, PTL DEF Spec

\* In the process that took it, an applied edit is missed only by a copy whose
\* load was under way when it was applied (Invalidate).
THEOREM EditsAreSeenHere == Spec => []EditSeenHere
<1>1. Init => Domains /\ TableInv /\ CopyInv
  BY InitDomains, InitTable, InitCopies
<1>2. Domains /\ TableInv /\ CopyInv /\ [Next]_vars => (Domains /\ TableInv /\ CopyInv)'
  BY NextDomains, NextTable, NextCopies
<1>3. Domains /\ CopyInv => EditSeenHere
  BY DEF CopyInv, SeenInv, AppliedHere, Current, EditSeenHere, Differs
<1>4. QED
  BY <1>1, <1>2, <1>3, PTL DEF Spec
-----------------------------------------------------------------------------
(***************************************************************************)
(* A process that is down keeps nothing, and a refresh that counts has     *)
(* stored what the feed knows.                                             *)
(***************************************************************************)
UpInv ==
    /\ \A n \in Nodes : build[n] <= latest /\ (~Up(n) => cache[n] = NoCopy)
    /\ \A l \in Loads : load[l] # NoLoad => Up(load[l].node)

FeedInv == status \/ (\E r \in 1..Requests : req[r].at = "stored") => \A b \in Observed : table[b].there

LEMMA InvalidatesUp ==
    ASSUME Domains, UpInv, NEW n \in Nodes, Invalidates(n), UNCHANGED <<build, latest>>
    PROVE UpInv'
<1>1. \A k \in Nodes : cache'[k] \in {cache[k], NoCopy}
  BY DEF Invalidates, Domains
<1>2. ASSUME NEW l \in Loads, load'[l] # NoLoad
      PROVE load[l] # NoLoad /\ load'[l].node = load[l].node
  BY <1>2, LoadShape, BoundAssumption DEF Invalidates, Domains, Loading, NoLoad
<1>3. QED
  BY <1>1, <1>2 DEF UpInv, Up

LEMMA NextUp == ASSUME Domains, UpInv, [Next]_vars PROVE UpInv'
<1>1. ASSUME UNCHANGED <<build, latest, cache>>,
             \A l \in Loads : load'[l] # NoLoad =>
                \/ load[l] # NoLoad /\ load'[l].node = load[l].node
                \/ Up(load'[l].node)
      PROVE UpInv'
  BY <1>1 DEF UpInv, Up
<1>2. CASE UNCHANGED vars
  BY <1>1, <1>2 DEF vars
<1>3. ASSUME NEW n \in Nodes, Boots(n) PROVE UpInv'
  <2>1. PICK b \in latest..Builds : build' = [build EXCEPT ![n] = b] /\ latest' = b
    BY <1>3 DEF Boots
  <2>2. b \in Nat \ {0} /\ latest <= b
    BY <2>1, BoundAssumption DEF Domains
  <2>3. \A k \in Nodes : build[k] <= b
    BY <2>2 DEF UpInv, Domains
  <2>4. UNCHANGED <<cache, load>>
    BY <1>3 DEF Boots
  <2>5. \A k \in Nodes : build'[k] = IF k = n THEN b ELSE build[k]
    BY <2>1 DEF Domains
  <2>6. \A l \in Loads : load[l] # NoLoad => load[l].node \in Nodes
    BY LoadShape DEF Loading
  <2>7. QED
    BY <2>1, <2>2, <2>3, <2>4, <2>5, <2>6 DEF UpInv, Up
<1>4. ASSUME NEW n \in Nodes, Stops(n) PROVE UpInv'
  <2>1. \A k \in Nodes : /\ build'[k] = IF k = n THEN 0 ELSE build[k]
                         /\ cache'[k] = IF k = n THEN NoCopy ELSE cache[k]
    BY <1>4 DEF Stops, Domains
  <2>2. \A l \in Loads : load'[l] # NoLoad => load'[l] = load[l] /\ load[l].node # n /\ load[l].node \in Nodes
    BY <1>4, LoadShape DEF Stops, Domains, Loading
  <2>3. QED
    BY <1>4, <2>1, <2>2 DEF Stops, UpInv, Up, Domains
<1>5. ASSUME NEW l \in Loads, Asks(l) PROVE UpInv'
  <2>1. PICK m \in Nodes :
          Up(m) /\ load' = [load EXCEPT ![l] = [node |-> m, age |-> 0, read |-> FALSE, rows |-> {},
                                                passed |-> FALSE]]
    BY <1>5 DEF Asks
  <2>2. load'[l].node = m /\ \A k \in Loads : k # l => load'[k] = load[k]
    BY <2>1 DEF Domains
  <2>3. QED
    BY <1>1, <1>5, <2>1, <2>2 DEF Asks
<1>6. ASSUME NEW l \in Loads, Reads(l) PROVE UpInv'
  <2>1. load[l] \in Loading /\ load' = [load EXCEPT ![l] = [load[l] EXCEPT !.read = TRUE, !.rows = Copied]]
    BY <1>6, LoadShape DEF Reads, Domains
  <2>2. load'[l].node = load[l].node /\ \A k \in Loads : k # l => load'[k] = load[k]
    BY <2>1 DEF Domains, Loading
  <2>3. QED
    BY <1>1, <1>6, <2>2 DEF Reads
<1>7. ASSUME NEW l \in Loads, Stores(l) PROVE UpInv'
  <2>1. load[l].node \in Nodes /\ Up(load[l].node)
    BY <1>7, LoadShape DEF Stores, UpInv, Loading
  <2>2. load'[l] = NoLoad /\ \A k \in Loads : k # l => load'[k] = load[k]
    BY <1>7 DEF Stores, Domains
  <2>3. \A n \in Nodes : n # load[l].node => cache'[n] = cache[n]
    BY <1>7 DEF Stores, Domains
  <2>4. QED
    BY <1>7, <2>1, <2>2, <2>3 DEF Stores, UpInv, Up
<1>8. ASSUME NEW l \in Loads, FallsBack(l) PROVE UpInv'
  <2>1. load'[l] = NoLoad /\ \A k \in Loads : k # l => load'[k] = load[k]
    BY <1>8 DEF FallsBack, Domains
  <2>2. QED
    BY <1>1, <1>8, <2>1 DEF FallsBack
<1>9. ASSUME NEW r \in 1..Requests, Opens(r) \/ Writes(r) \/ EditFails(r) PROVE UpInv'
  BY <1>1, <1>9 DEF Opens, Begins, Writes, EditFails
<1>10. ASSUME NEW r \in 1..Requests, StartsRefresh(r) \/ Imports(r) \/ ImportFails(r) PROVE UpInv'
  BY <1>1, <1>10 DEF StartsRefresh, Begins, Imports, ImportFails
<1>11. ASSUME NEW r \in 1..Requests, Applies(r) \/ EndsRefresh(r) PROVE UpInv'
  <2>1. req[r].node \in Nodes
    BY <1>11, RequestShape DEF Applies, EndsRefresh, Wrote, Ran
  <2>2. QED
    BY <1>1, <1>11, <2>1, InvalidatesUp DEF Applies, EndsRefresh
<1>12. CASE Ticks
  <2>1. ASSUME NEW n \in Nodes, ~Up(n) PROVE cache'[n] = NoCopy
    <3>1. NoCopy.rows = {}
      BY DEF NoCopy
    <3>2. ~Fresh(n)
      BY <2>1, <3>1 DEF UpInv, Fresh
    <3>3. QED
      BY <1>12, <3>2 DEF Ticks
  <2>2. \A l \in Loads : load'[l] # NoLoad => load[l] # NoLoad /\ load'[l].node = load[l].node
    BY <1>12, LoadShape DEF Ticks, Domains, Loading
  <2>3. QED
    BY <1>12, <2>1, <2>2 DEF Ticks, UpInv, Up
<1>13. QED
  BY <1>2, <1>3, <1>4, <1>5, <1>6, <1>7, <1>8, <1>9, <1>10, <1>11, <1>12 DEF Next

LEMMA NextFeed == ASSUME Domains, TableInv, FeedInv, [Next]_vars PROVE FeedInv'
<1>0. \A b \in Brands : table[b].there => table'[b].there
  BY NextTable
<1>1. ASSUME status' = status, \A r \in 1..Requests : req'[r] = req[r] \/ req'[r].at # "stored"
      PROVE FeedInv'
  BY <1>0, <1>1 DEF FeedInv, Brands
<1>2. CASE UNCHANGED vars
  BY <1>1, <1>2 DEF vars
<1>3. ASSUME NEW n \in Nodes, Boots(n) \/ Stops(n) PROVE FeedInv'
  BY <1>1, <1>3, Shapes DEF Boots, Stops, Domains
<1>4. ASSUME NEW l \in Loads, Asks(l) \/ Reads(l) \/ Stores(l) \/ FallsBack(l) PROVE FeedInv'
  BY <1>1, <1>4 DEF Asks, Reads, Stores, FallsBack
<1>5. ASSUME NEW r \in 1..Requests, Opens(r) \/ StartsRefresh(r) PROVE FeedInv'
  <2>1. CASE Opens(r)
    BY <1>1, <2>1 DEF Opens, Begins, Domains
  <2>2. CASE StartsRefresh(r)
    BY <1>1, <2>2 DEF StartsRefresh, Begins, Domains
  <2>3. QED
    BY <1>5, <2>1, <2>2
<1>6. ASSUME NEW r \in 1..Requests, Writes(r) PROVE FeedInv'
  <2>1. ASSUME NEW k \in 1..Requests PROVE req'[k] = req[k] \/ req'[k].at # "stored"
    <3>1. CASE k # r /\ req[k].at = "opened" /\ req[k].brand = req[r].brand
      <4>1. req[k] \in Opened /\ req'[k] = [req[k] EXCEPT !.raced = TRUE]
        BY <1>6, <3>1, RequestShape DEF Writes, Domains
      <4>2. QED
        BY <4>1 DEF Opened
    <3>2. CASE k = r
      BY <1>6, <3>2 DEF Writes, Domains
    <3>3. QED
      BY <1>6, <3>1, <3>2 DEF Writes, Domains
  <2>2. QED
    BY <1>1, <1>6, <2>1 DEF Writes
<1>7. ASSUME NEW r \in 1..Requests, Applies(r) PROVE FeedInv'
  BY <1>1, <1>7 DEF Applies, Domains
<1>8. ASSUME NEW r \in 1..Requests, EditFails(r) PROVE FeedInv'
  BY <1>1, <1>8, Shapes DEF EditFails, Domains
<1>9. ASSUME NEW r \in 1..Requests, Imports(r) PROVE FeedInv'
  BY <1>9, ImportsTable DEF FeedInv
<1>10. ASSUME NEW r \in 1..Requests, ImportFails(r) PROVE FeedInv'
  <2>1. req[r] \in Ran /\ req' = [req EXCEPT ![r] = [req[r] EXCEPT !.at = "failed"]]
    BY <1>10, RequestShape DEF ImportFails, Domains
  <2>2. \A k \in 1..Requests : req'[k] = req[k] \/ req'[k].at # "stored"
    BY <2>1 DEF Domains, Ran
  <2>3. QED
    BY <1>1, <1>10, <2>2 DEF ImportFails
<1>11. ASSUME NEW r \in 1..Requests, EndsRefresh(r) PROVE FeedInv'
  <2>1. \A k \in 1..Requests : req'[k] = req[k] \/ req'[k].at # "stored"
    BY <1>11, Shapes DEF EndsRefresh, Domains
  <2>2. status' => status \/ req[r].at = "stored"
    BY <1>11 DEF EndsRefresh, Outcome
  <2>3. QED
    BY <1>0, <2>1, <2>2 DEF FeedInv, Brands
<1>12. CASE Ticks
  BY <1>1, <1>12 DEF Ticks
<1>13. QED
  BY <1>2, <1>3, <1>4, <1>5, <1>6, <1>7, <1>8, <1>9, <1>10, <1>11, <1>12 DEF Next

\* The table, the copies and the status keep to their domains and to what the
\* code takes for granted of them (EnsureDefaults, ProtectedProfiles, store).
THEOREM BrandsTypes == Spec => []TypeOK
<1>1. Init => Domains /\ TableInv /\ UpInv /\ FeedInv
  <2> SUFFICES ASSUME Init PROVE UpInv /\ FeedInv
    BY InitDomains, InitTable
  <2>1. UpInv
    BY DEF Init, UpInv, Up
  <2>2. FeedInv
    BY Shapes DEF Init, FeedInv
  <2>3. QED
    BY <2>1, <2>2
<1>2. Domains /\ TableInv /\ UpInv /\ FeedInv /\ [Next]_vars => (Domains /\ TableInv /\ UpInv /\ FeedInv)'
  BY NextDomains, NextTable, NextUp, NextFeed
<1>3. ASSUME Domains, TableInv, UpInv, FeedInv PROVE TypeOK
  <2>1. \A b \in Brands : /\ table[b].domains \in 0..(Builds + Requests) /\ table[b].priority \in Nat
                          /\ table[b].reviewed => table[b].there
                          /\ ~table[b].there => table[b] = NoRow
    BY <1>3 DEF Domains, Row, DomainIds, TableInv, RowsInv
  <2>2. ASSUME NEW n \in Nodes
        PROVE /\ build[n] \in 0..latest
              /\ ~Up(n) => cache[n] = NoCopy
              /\ \A d \in cache[n].rows : d.domains \in 1..(Builds + Requests)
    <3>1. \A d \in cache[n].rows : d.domains \in DomainIds \ {None}
      BY <1>3 DEF Domains, Copy, Profile
    <3>2. DomainIds \ {None} = 1..(Builds + Requests)
      BY BoundAssumption DEF DomainIds, None
    <3>3. QED
      BY <1>3, <3>1, <3>2 DEF Domains, UpInv
  <2>3. DOMAIN load = Loads
    BY <1>3 DEF Domains
  <2>4. QED
    BY <1>3, <2>1, <2>2, <2>3 DEF TypeOK, UpInv, FeedInv
<1>4. QED
  BY <1>1, <1>2, <1>3, PTL DEF Spec
-----------------------------------------------------------------------------
(***************************************************************************)
(* The decision pipeline.                                                  *)
(***************************************************************************)

Rows == [disp : {"delivered", "tagged", "quarantined", "rejected"}, reason : Reasons]

\* Reasons that neither an allowed sender nor a learned verdict overrules;
\* "learned threat" and "malware" are met where they can arise.
Firm == AuthReasons \cup {"score quarantine", "score reject", "blacklist", "reputation",
                          "feed", "approval"}
Stuck == Firm \cup {"malware"}
Last == Stuck \cup {"learned threat"}

Blocked == Verdict("rejected", "blacklist")
-----------------------------------------------------------------------------
(***************************************************************************)
(* What each detector and override does to a disposition.                  *)
(***************************************************************************)

LEMMA VerdictRow ==
    ASSUME NEW disp \in {"delivered", "tagged", "quarantined", "rejected"}, NEW reason \in Reasons
    PROVE /\ Verdict(disp, reason) \in Rows
          /\ Verdict(disp, reason).disp = disp
          /\ Verdict(disp, reason).reason = reason
  BY DEF Verdict, Rows

LEMMA DecidedRow ==
    ASSUME NEW e \in Events, NEW p \in PolicyRow
    PROVE /\ Decided(e, p) \in Rows
          /\ AfterBounce(Decided(e, p), e) \in Rows
          /\ AfterAuth(AfterBounce(Decided(e, p), e), e) \in Rows
<1>1. Decided(e, p) \in Rows
  BY DEF Decided, DispositionFor, Verdict, Rows, Reasons, ScoreReasons
<1>2. AfterBounce(Decided(e, p), e) \in Rows
  BY <1>1 DEF AfterBounce, Verdict, Rows, Reasons
<1>3. QED
  BY <1>1, <1>2 DEF AfterAuth, Verdict, Rows, Reasons, AuthReasons

\* A block always wins; an allow spares what is held for a stuck reason; and
\* without an allow nothing that is held gets out.
LEMMA SenderListRow ==
    ASSUME NEW d \in Rows, NEW a \in {"none", "allow", "block"}, NEW on \in BOOLEAN
    PROVE LET out == AfterSenderList(d, a, on)
          IN  /\ out \in Rows
              /\ out \in {d, Blocked, Verdict("delivered", "allowlist")}
              /\ d.disp \in Held /\ d.reason \in Last => out \in {d, Blocked}
              /\ d.disp \in Held /\ a # "allow" => out \in {d, Blocked}
              /\ d = Blocked => out = Blocked
              /\ a = "block" /\ on => out = Blocked
              /\ a = "allow" /\ out.disp \in Held => out = d /\ (d.disp = "rejected" \/ d.reason \in Last)
<1> DEFINE out == AfterSenderList(d, a, on)
           allows == a = "allow" /\ AllowMayOverride(d.reason) /\ d.disp \in {"tagged", "quarantined"}
<1> USE DEF Held
<1>1. CASE a = "block" /\ on
  <2>1. out = Blocked
    BY <1>1 DEF AfterSenderList, Blocked
  <2>2. Blocked \in Rows
    BY VerdictRow DEF Blocked, Reasons
  <2>3. QED
    BY <1>1, <2>1, <2>2
<1>2. CASE allows
  <2>1. out = Verdict("delivered", "allowlist")
    BY <1>2 DEF AfterSenderList
  <2>2. d.reason \notin Last
    BY <1>2 DEF AllowMayOverride, Last, Stuck, Firm, AuthReasons
  <2>3. d # Blocked
    BY <1>2, VerdictRow DEF Blocked, Reasons
  <2>4. out.disp \notin Held /\ out \in Rows
    <3>1. "allowlist" \in Reasons
      BY DEF Reasons
    <3>2. out \in Rows /\ out.disp = "delivered"
      BY <2>1, <3>1, VerdictRow
    <3>3. QED
      BY <3>2
  <2>5. QED
    BY <1>2, <2>1, <2>2, <2>3, <2>4
<1>3. CASE ~(a = "block" /\ on) /\ ~allows
  <2>1. out = d
    BY <1>3 DEF AfterSenderList
  <2>2. a = "allow" /\ d.disp \in Held => d.disp = "rejected" \/ d.reason \in Last
    BY <1>3 DEF AllowMayOverride, Last, Stuck, Firm, AuthReasons
  <2>3. QED
    BY <1>3, <2>1, <2>2
<1>4. QED
  BY <1>1, <1>2, <1>3

\* The detectors act only on what nobody holds yet, and never reject.
LEMMA DetectorsSpare ==
    ASSUME NEW d, NEW e, NEW p, NEW a, NEW threat, d.disp \in Held
    PROVE AfterThreat(AfterBrand(AfterScam(d, e, p), e, p, a), threat) = d
<1>1. AfterScam(d, e, p) = d
  BY DEF AfterScam
<1>2. AfterBrand(d, e, p, a) = d
  BY DEF AfterBrand
<1>3. AfterThreat(d, threat) = d
  BY DEF AfterThreat
<1>4. QED
  BY <1>1, <1>2, <1>3

LEMMA DetectorsRow ==
    ASSUME NEW d \in Rows, NEW e, NEW p, NEW a, NEW threat
    PROVE LET out == AfterThreat(AfterBrand(AfterScam(d, e, p), e, p, a), threat)
          IN  /\ out \in Rows
              /\ out = d \/ (out.disp # "rejected"
                            /\ out.reason \in {"scam", "brand", "phish signal", "malware"})
<1> DEFINE one == AfterScam(d, e, p)
           two == AfterBrand(one, e, p, a)
           out == AfterThreat(two, threat)
<1>1. {"scam", "brand", "phish signal", "malware"} \subseteq Reasons
  BY DEF Reasons
<1>2. one = d \/ (d.disp \notin Held /\ one = Verdict("quarantined", "scam"))
  BY DEF AfterScam
<1>3. \/ two = d
      \/ d.disp \notin Held /\ two \in {Verdict("quarantined", "scam"), Verdict("quarantined", "brand")}
  BY <1>2 DEF AfterBrand
<1>4. CASE two = d
  <2>1. d.disp \in Held => AfterThreat(d, threat) = d
    BY DEF AfterThreat
  <2>2. d.disp \notin Held =>
            AfterThreat(d, threat) \in {d, Verdict("tagged", "phish signal"), Verdict("quarantined", "malware"),
                                       [d EXCEPT !.reason = "phish signal"]}
    BY DEF AfterThreat
  <2>3. LET e1 == [d EXCEPT !.reason = "phish signal"]
        IN  e1 \in Rows /\ e1.disp = d.disp /\ e1.reason = "phish signal"
    BY <1>1 DEF Rows
  <2>4. LET tagged == Verdict("tagged", "phish signal")
            caught == Verdict("quarantined", "malware")
        IN  /\ tagged \in Rows /\ tagged.disp = "tagged" /\ tagged.reason = "phish signal"
            /\ caught \in Rows /\ caught.disp = "quarantined" /\ caught.reason = "malware"
    BY <1>1, VerdictRow
  <2>5. CASE d.disp \in Held
    BY <1>4, <2>1, <2>5
  <2>6. CASE d.disp \notin Held
    <3>1. CASE out = [d EXCEPT !.reason = "phish signal"]
      BY <2>3, <2>6, <3>1 DEF Held
    <3>2. CASE out \in {d, Verdict("tagged", "phish signal"), Verdict("quarantined", "malware")}
      BY <2>4, <2>6, <3>2
    <3>3. QED
      BY <1>4, <2>2, <2>6, <3>1, <3>2
  <2>7. QED
    BY <2>5, <2>6
<1>5. CASE d.disp \notin Held /\ two \in {Verdict("quarantined", "scam"), Verdict("quarantined", "brand")}
  <2>1. two.disp \in Held /\ two.disp # "rejected" /\ two.reason \in {"scam", "brand"} /\ two \in Rows
    <3>1. LET x == Verdict("quarantined", "scam")
          IN  x \in Rows /\ x.disp = "quarantined" /\ x.reason = "scam"
      BY <1>1, VerdictRow
    <3>2. LET x == Verdict("quarantined", "brand")
          IN  x \in Rows /\ x.disp = "quarantined" /\ x.reason = "brand"
      BY <1>1, VerdictRow
    <3> HIDE DEF two
    <3>3. QED
      BY <1>5, <3>1, <3>2 DEF Held
  <2>2. out = two
    BY <2>1 DEF AfterThreat
  <2>3. QED
    BY <1>5, <2>1, <2>2
<1>6. QED
  BY <1>3, <1>4, <1>5

LEMMA ChallengeRow ==
    ASSUME NEW d \in Rows, NEW e, NEW p, NEW a, NEW threat
    PROVE LET out == AfterChallenge(d, e, p, a, threat)
          IN  /\ out \in Rows
              /\ out \in {d, Verdict("quarantined", "approval")}
              /\ d.disp = "rejected" => out = d
              /\ p.challenge /\ e.inbound /\ ~e.dsn /\ ~AllowedHere(e, p, a) => out.disp \in Held
              /\ out # d => p.challenge /\ e.inbound /\ ~e.dsn
  BY DEF AfterChallenge, Verdict, Rows, Reasons, Held

LEMMA LearnedRow ==
    ASSUME NEW d \in Rows, NEW said \in Learned
    PROVE LET out == AfterLearned(d, said)
          IN  /\ out \in Rows
              /\ out \in {d, Verdict("delivered", "learned"), Verdict("quarantined", "learned threat")}
              /\ d.disp \in Held /\ d.reason \in Stuck =>
                    out \in {d, Verdict("quarantined", "learned threat")}
              /\ d.disp \in Held /\ said # "not_spam" =>
                    out \in {d, Verdict("quarantined", "learned threat")}
              /\ d.disp = "rejected" /\ d.reason \in Stuck => out = d
  BY DEF AfterLearned, HardGate, Verdict, Rows, Reasons, Learned, Held, Stuck, Firm, AuthReasons

LEMMA QuarantineFirstRow ==
    ASSUME NEW d \in Rows, NEW e
    PROVE LET out == AfterQuarantineFirst(d, e)
          IN  /\ out \in Rows /\ out.reason = d.reason
              /\ d.disp \in Held => out.disp \in Held
              /\ out.disp \in Held => d.disp \in Held
              /\ d.disp # "rejected" => out = d
              /\ d.reason = "blacklist" => out = d
              /\ e.inbound /\ out.disp = "rejected" => out.reason = "blacklist"
  BY DEF AfterQuarantineFirst, Rows, Held

LEMMA DeepAnalysisRow ==
    ASSUME NEW d \in Rows, NEW e, NEW eligible
    PROVE LET out == AfterDeepAnalysis(d, e, eligible)
          IN  /\ out \in Rows
              /\ \/ out = d
                 \/ d.disp = "tagged" /\ out = Verdict("quarantined", "deep")
  BY DEF AfterDeepAnalysis, Verdict, Rows, Reasons

\* A campaign overrules only what is held for one, and never lets it out.
LEMMA CampaignRow ==
    ASSUME NEW d \in Rows, NEW c, NEW p, NEW full
    PROVE LET out == AfterCampaign(d, c, p, full)
          IN  /\ out \in Rows
              /\ ~HighConfidence(d, c) => out = d
              /\ out = d \/ out.disp \in Held
              /\ out.disp = "rejected" =>
                    \/ out = d
                    \/ out.reason = "campaign rejected" /\ p.campaign = "reject" /\ c # "CHALLENGE_RESPONSE"
<1> DEFINE out == AfterCampaign(d, c, p, full)
           thrown == [d EXCEPT !.reason = "campaign discarded"]
           refused == Verdict("rejected", "campaign rejected")
<1>1. refused \in Rows /\ refused.disp = "rejected" /\ refused.reason = "campaign rejected"
  BY VerdictRow DEF Reasons
<1>2. thrown \in Rows /\ thrown.disp = d.disp
  BY DEF Rows, Reasons
<1>3. \/ out = d
      \/ HighConfidence(d, c) /\ out = thrown
      \/ HighConfidence(d, c) /\ p.campaign = "reject" /\ out = refused
  BY DEF AfterCampaign
<1>4. HighConfidence(d, c) => d.disp = "quarantined" /\ c # "CHALLENGE_RESPONSE"
  BY DEF HighConfidence
<1> HIDE DEF out, thrown, refused
<1>5. out \in Rows /\ (~HighConfidence(d, c) => out = d)
  BY <1>1, <1>2, <1>3
<1>6. out = d \/ out.disp \in Held
  BY <1>1, <1>2, <1>3, <1>4 DEF Held
<1>7. out.disp = "rejected" =>
        out = d \/ (out.reason = "campaign rejected" /\ p.campaign = "reject" /\ c # "CHALLENGE_RESPONSE")
  BY <1>1, <1>2, <1>3, <1>4
<1>8. QED
  BY <1>5, <1>6, <1>7 DEF out

\* What the last step makes of a disposition.
LEMMA RecordsRow ==
    ASSUME v \in Rows, Records
    PROVE /\ v' \in Rows
          /\ v.disp \in Held => v'.disp \in Held
          /\ v.disp = "rejected" => v' = v
          /\ v'.disp = "rejected" =>
                \/ v' = v
                \/ /\ v'.reason = "campaign rejected" /\ pol.campaign = "reject"
                   /\ class' # "CHALLENGE_RESPONSE"
          /\ v = Verdict("quarantined", "approval") \/ v = Verdict("quarantined", "auth failed")
                => v' = v
<1>1. PICK eligible \in BOOLEAN, full \in BOOLEAN, threat \in ClassesOf(ev, pol) :
        LET held == AfterDeepAnalysis(v, ev, eligible)
        IN  /\ class' = EntryClass(held, threat)
            /\ v' = AfterCampaign(held, EntryClass(held, threat), pol, full)
  BY DEF Records
<1> DEFINE held == AfterDeepAnalysis(v, ev, eligible)
<1>2. /\ held \in Rows
      /\ held = v \/ (v.disp = "tagged" /\ held = Verdict("quarantined", "deep"))
  BY DeepAnalysisRow
<1>3. class' = EntryClass(held, threat) /\ v' = AfterCampaign(held, class', pol, full)
  BY <1>1
<1> HIDE DEF held
<1>4. /\ v' \in Rows
      /\ ~HighConfidence(held, class') => v' = held
      /\ v' = held \/ v'.disp \in Held
      /\ v'.disp = "rejected" =>
            \/ v' = held
            \/ v'.reason = "campaign rejected" /\ pol.campaign = "reject" /\ class' # "CHALLENGE_RESPONSE"
  <2> DEFINE out == AfterCampaign(held, class', pol, full)
  <2>1. /\ out \in Rows
        /\ ~HighConfidence(held, class') => out = held
        /\ out = held \/ out.disp \in Held
        /\ out.disp = "rejected" =>
              \/ out = held
              \/ /\ out.reason = "campaign rejected" /\ pol.campaign = "reject"
                 /\ class' # "CHALLENGE_RESPONSE"
    BY <1>2, CampaignRow
  <2>2. v' = out
    BY <1>3
  <2> HIDE DEF out
  <2>3. QED
    BY <2>1, <2>2
<1>5. Verdict("quarantined", "deep").disp = "quarantined"
  BY VerdictRow DEF Reasons
<1>6. v.disp \in Held => held = v
  BY <1>2 DEF Held
<1>7. v.disp = "rejected" => v' = v
  BY <1>4, <1>6 DEF HighConfidence, Held
<1>8. v'.disp = "rejected" =>
        \/ v' = v
        \/ v'.reason = "campaign rejected" /\ pol.campaign = "reject" /\ class' # "CHALLENGE_RESPONSE"
  BY <1>2, <1>4, <1>5
<1>9. ASSUME v = Verdict("quarantined", "approval") \/ v = Verdict("quarantined", "auth failed")
      PROVE v' = v
  <2>1. v.disp = "quarantined" /\ (v.reason = "approval" \/ v.reason = "auth failed")
    <3>1. "approval" \in Reasons /\ "auth failed" \in Reasons
      BY DEF Reasons, AuthReasons
    <3>2. CASE v = Verdict("quarantined", "approval")
      BY <3>1, <3>2, VerdictRow
    <3>3. CASE v = Verdict("quarantined", "auth failed")
      BY <3>1, <3>3, VerdictRow
    <3>4. QED
      BY <1>9, <3>2, <3>3
  <2>2. held = v
    BY <1>6, <2>1 DEF Held
  <2>3. v.reason = "approval" => class' = "CHALLENGE_RESPONSE"
    BY <1>3, <2>1, <2>2 DEF EntryClass
  <2>4. ~HighConfidence(held, class')
    BY <2>1, <2>2, <2>3 DEF HighConfidence
  <2>5. QED
    BY <1>4, <2>2, <2>4
<1>10. QED
  BY <1>4, <1>6, <1>7, <1>8, <1>9
-----------------------------------------------------------------------------
(***************************************************************************)
(* Type correctness.                                                       *)
(***************************************************************************)

LEMMA PipelineInitTypes == PipelineInit => PipelineTypeOK
<1> SUFFICES ASSUME PipelineInit PROVE PipelineTypeOK
  OBVIOUS
<1>1. pol \in PolicyRow
  <2>1. PICK p \in Policies, m \in Mailboxes :
            pol = [p EXCEPT !.challenge = ChallengeOn(p.challenge, m)]
    BY DEF PipelineInit
  <2>2. p \in PolicyRow /\ p.challenge \in BOOLEAN
    BY PolicyAssumption DEF PolicyRow
  <2>3. ChallengeOn(p.challenge, m) \in BOOLEAN
    BY <2>2 DEF ChallengeOn
  <2>4. QED
    BY <2>1, <2>2, <2>3 DEF PolicyRow
<1>2. ev \in Events
  BY DEF PipelineInit, Arriving
<1>3. "none" \in Reasons
  BY DEF Reasons
<1>4. v \in Rows
  BY <1>3, VerdictRow DEF PipelineInit
<1>5. QED
  BY <1>1, <1>2, <1>4 DEF PipelineInit, PipelineTypeOK, Rows, Learned, ThreatClasses

\* The class a detector may see.
LEMMA ClassesKnown ==
    ASSUME NEW e, NEW p, NEW threat \in ClassesOf(e, p)
    PROVE threat \in ThreatClasses \cup {"none", "SPAM", "REPUTATION"}
<1>1. \A s \in DOMAIN SymbolClass : SymbolClass[s] \in ThreatClasses \cup {"REPUTATION"}
  BY DEF SymbolClass, ThreatClasses
<1>2. Telling(e) \subseteq DOMAIN SymbolClass
  BY DEF Telling
<1>3. CASE Telling(e) # {}
  BY <1>1, <1>2, <1>3 DEF ClassesOf
<1>4. CASE Telling(e) = {}
  BY <1>4 DEF ClassesOf, ThreatClasses
<1>5. QED
  BY <1>3, <1>4

LEMMA PipelineStepTypes == PipelineTypeOK /\ [PipelineNext]_pipelineVars => PipelineTypeOK'
<1> SUFFICES ASSUME PipelineTypeOK, [PipelineNext]_pipelineVars PROVE PipelineTypeOK'
  OBVIOUS
<1> USE DEF Step
<1>0. v \in Rows /\ ListOn \in BOOLEAN
  BY DEF PipelineTypeOK, Rows, ListOn, PolicyRow
<1>1. CASE Decides
  <2>1. v' \in Rows
    BY <1>1, DecidedRow DEF Decides, PipelineTypeOK
  <2>2. QED
    BY <1>1, <2>1 DEF Decides, PipelineTypeOK, Rows
<1>2. CASE ReadsLists
  <2> DEFINE one == AfterSenderList(v, action', ListOn)
  <2>1. one \in Rows
    BY <1>0, <1>2, SenderListRow DEF ReadsLists
  <2> HIDE DEF one
  <2>2. "blacklist" \in Reasons /\ "reputation" \in Reasons
    BY DEF Reasons
  <2>3. AfterReputation(AfterRspamdBlock(one, ev), ev) \in Rows
    BY <2>1, <2>2, VerdictRow DEF AfterReputation, AfterRspamdBlock
  <2>4. v' \in Rows
    BY <1>2, <2>3 DEF ReadsLists, one
  <2>5. QED
    BY <1>2, <2>4 DEF ReadsLists, PipelineTypeOK, Rows
<1>3. CASE ReadsFeeds
  <2>1. "feed" \in Reasons
    BY DEF Reasons
  <2>2. v' \in Rows
    BY <1>0, <1>3, <2>1, VerdictRow DEF ReadsFeeds, AfterFeed
  <2>3. ev' \in Events
    BY <1>3 DEF ReadsFeeds, PipelineTypeOK, Events, Symbols
  <2>4. QED
    BY <1>3, <2>2, <2>3 DEF ReadsFeeds, PipelineTypeOK, Rows
<1>4. CASE Detects
  <2>1. PICK threat \in ClassesOf(ev, pol) :
            v' = AfterSenderList(AfterThreat(AfterBrand(AfterScam(v, ev, pol), ev, pol, action),
                                             threat), action, ListOn)
    BY <1>4 DEF Detects
  <2>2. action \in {"none", "allow", "block"}
    BY DEF PipelineTypeOK
  <2>3. v' \in Rows
    BY <1>0, <2>1, <2>2, DetectorsRow, SenderListRow
  <2>4. QED
    BY <1>4, <2>3 DEF Detects, PipelineTypeOK, Rows
<1>5. CASE AsksApproval
  <2>1. v' \in Rows
    BY <1>0, <1>5, ChallengeRow DEF AsksApproval
  <2>2. QED
    BY <1>5, <2>1 DEF AsksApproval, PipelineTypeOK, Rows
<1>6. CASE ReadsLearned
  <2>1. AfterLearned(v, learned') \in Rows
    BY <1>0, <1>6, LearnedRow DEF ReadsLearned
  <2>2. AfterSenderList(AfterLearned(v, learned'), action, ListOn) \in Rows
    BY <1>0, <2>1, SenderListRow DEF PipelineTypeOK
  <2>3. v' \in Rows
    BY <1>6, <2>2, QuarantineFirstRow DEF ReadsLearned
  <2>4. QED
    BY <1>6, <2>3 DEF ReadsLearned, PipelineTypeOK, Rows
<1>7. CASE Records
  <2>1. v' \in Rows
    BY <1>0, <1>7, RecordsRow
  <2>2. class' \in ThreatClasses \cup {"none", "SPAM", "REPUTATION", "PENDING_ANALYSIS",
                                      "CHALLENGE_RESPONSE"}
    BY <1>7, ClassesKnown DEF Records, EntryClass
  <2>3. QED
    BY <1>7, <2>1, <2>2 DEF Records, PipelineTypeOK, Rows
<1>8. CASE GivesUp
  BY <1>8 DEF GivesUp, PipelineTypeOK
<1>9. CASE UNCHANGED pipelineVars
  BY <1>9 DEF pipelineVars, PipelineTypeOK
<1>10. QED
  BY <1>1, <1>2, <1>3, <1>4, <1>5, <1>6, <1>7, <1>8, <1>9 DEF PipelineNext

\* Whatever a message looks like and whatever the lists, feeds and verdicts
\* answer, the handler stays within the dispositions and classes the database
\* knows.
THEOREM PipelineTypes == Pipeline => []PipelineTypeOK
<1>1. PipelineInit => PipelineTypeOK
  BY PipelineInitTypes
<1>2. PipelineTypeOK /\ [PipelineNext]_pipelineVars => PipelineTypeOK'
  BY PipelineStepTypes
<1>3. QED
  BY <1>1, <1>2, PTL DEF Pipeline
-----------------------------------------------------------------------------
(***************************************************************************)
(* Hard evidence.  A detector only looks at what is not held yet, so what  *)
(* is held when the feeds and detectors run must be held for a reason that *)
(* nothing after them overrules.                                           *)
(***************************************************************************)

IsHeld == v.disp \in Held
IsFirm == IsHeld /\ v.reason \in Firm

\* What decide and the authentication gate see.
OwnEvidence ==
    \/ ~ev.dsn /\ ev.inbound /\ ev.auth \in Unproved
    \/ ~ev.dsn /\ ev.score = "reject"
    \/ ~ev.dsn /\ ev.score = "quarantine" /\ DispositionFor(pol.quarantine) \in Held

EvidenceInv ==
    /\ pc \in {"decide", "list", "feeds"} => feed = FALSE
    /\ pc = "list" => (OwnEvidence => IsHeld) /\ (IsHeld => IsFirm)
    /\ pc \in {"feeds", "detect"} => (HardEvidence => IsHeld) /\ (IsHeld => IsFirm)
    /\ pc \in {"challenge", "learned"} /\ HardEvidence => IsFirm
    /\ pc \in {"hold", "done"} /\ HardEvidence => IsHeld

\* decide, the bounce exception and the gate hold what they have evidence of,
\* and nothing for a weaker reason.
LEMMA DecidedEvidence ==
    ASSUME NEW e \in Events, NEW p \in PolicyRow
    PROVE LET out == AfterAuth(AfterBounce(Decided(e, p), e), e)
          IN  /\ out.disp \in Held => out.reason \in Firm
              /\ ~e.dsn /\ e.inbound /\ e.auth \in Unproved => out.disp \in Held
              /\ ~e.dsn /\ e.score = "reject" => out.disp \in Held
              /\ ~e.dsn /\ e.score = "quarantine" /\ DispositionFor(p.quarantine) \in Held
                    => out.disp \in Held
<1> DEFINE one == Decided(e, p)
           two == AfterBounce(one, e)
<1>1. one.disp \in Held => one.reason \in Firm
  BY DEF Decided, DispositionFor, Verdict, Held, Firm
<1>2. /\ e.score = "reject" => one.disp \in Held
      /\ e.score = "quarantine" /\ DispositionFor(p.quarantine) \in Held => one.disp \in Held
  BY DEF Decided, Verdict, Held
<1>3. two = one \/ (e.dsn /\ two = Verdict("delivered", "dsn"))
  BY DEF AfterBounce
<1>4. two.disp \in Held => two.reason \in Firm
  BY <1>1, <1>3 DEF Verdict, Held
<1> HIDE DEF one, two
<1>5. /\ two.disp \in Held => AfterAuth(two, e) = two
      /\ AfterAuth(two, e) \in {two, Verdict("quarantined", "auth missing"),
                               Verdict("quarantined", "auth failed"),
                               Verdict("quarantined", "auth policy")}
      /\ two.disp \notin Held /\ e.inbound /\ ~e.dsn /\ e.auth \in Unproved =>
            AfterAuth(two, e) \in {Verdict("quarantined", "auth missing"),
                                  Verdict("quarantined", "auth failed"),
                                  Verdict("quarantined", "auth policy")}
  BY DEF AfterAuth, Unproved
<1>6. \A r \in AuthReasons : Verdict("quarantined", r).disp \in Held /\ Verdict("quarantined", r).reason \in Firm
  BY DEF Verdict, Held, Firm
<1>7. {"auth missing", "auth failed", "auth policy"} \subseteq AuthReasons
  BY DEF AuthReasons
<1>8. QED
  BY <1>2, <1>3, <1>4, <1>5, <1>6, <1>7 DEF one, two

LEMMA StepEvidence == PipelineTypeOK /\ EvidenceInv /\ [PipelineNext]_pipelineVars => EvidenceInv'
<1> SUFFICES ASSUME PipelineTypeOK, EvidenceInv, [PipelineNext]_pipelineVars PROVE EvidenceInv'
  OBVIOUS
<1> USE DEF Step, IsHeld, IsFirm, HardEvidence, OwnEvidence
<1>0. /\ v \in Rows /\ ListOn \in BOOLEAN /\ ev \in Events /\ pol \in PolicyRow
      /\ action \in {"none", "allow", "block"}
  BY DEF PipelineTypeOK, Rows, ListOn, PolicyRow
<1>b. Blocked \in Rows /\ Blocked.disp \in Held /\ Blocked.reason \in Firm
  BY DEF Blocked, Verdict, Rows, Reasons, Held, Firm
<1>f. Firm \subseteq Stuck /\ Stuck \subseteq Last
  BY DEF Stuck, Last
<1>1. CASE Decides
  BY <1>0, <1>1, DecidedEvidence DEF Decides, EvidenceInv
<1>2. CASE ReadsLists
  <2> DEFINE one == AfterSenderList(v, action', ListOn)
             two == AfterRspamdBlock(one, ev)
  <2>1. /\ action' \in {"none", "allow", "block"} /\ pc = "list" /\ pc' = "feeds"
        /\ v' = AfterReputation(two, ev) /\ UNCHANGED <<ev, pol, feed>>
    BY <1>2 DEF ReadsLists
  <2>2. /\ IsHeld => one \in {v, Blocked}
        /\ one.disp \in Held => one.reason \in Firm
    <3>1. one \in {v, Blocked, Verdict("delivered", "allowlist")}
      BY <1>0, <2>1, SenderListRow
    <3>2. Verdict("delivered", "allowlist").disp \notin Held
      BY DEF Verdict, Held
    <3>3. IsHeld => one \in {v, Blocked}
      BY <1>0, <1>f, <2>1, SenderListRow DEF EvidenceInv
    <3>4. QED
      BY <1>b, <2>1, <3>1, <3>2, <3>3 DEF EvidenceInv
  <2> HIDE DEF one
  <2>3. /\ one.disp \in Held => two.disp \in Held
        /\ two.disp \in Held => two.reason \in Firm
    BY <1>b, <2>2 DEF AfterRspamdBlock, Blocked
  <2> HIDE DEF two
  <2>4. /\ two.disp \in Held => v' = two
        /\ v' # two => v' = Verdict("quarantined", "reputation")
        /\ two.disp \notin Held /\ ReputationHit(ev) => v' = Verdict("quarantined", "reputation")
    BY <2>1 DEF AfterReputation
  <2>5. Verdict("quarantined", "reputation").disp \in Held /\ Verdict("quarantined", "reputation").reason \in Firm
    BY DEF Verdict, Held, Firm
  <2>6. v'.disp \in Held => v'.reason \in Firm
    BY <2>3, <2>4, <2>5
  <2>7. OwnEvidence => v'.disp \in Held
    BY <1>b, <2>1, <2>2, <2>3, <2>4, <2>5 DEF EvidenceInv
  <2>8. ReputationHit(ev) => v'.disp \in Held
    BY <2>4, <2>5
  <2>9. feed' = FALSE /\ ReputationHit(ev)' = ReputationHit(ev)
    BY <2>1 DEF EvidenceInv, ReputationHit
  <2>10. QED
    BY <2>1, <2>6, <2>7, <2>8, <2>9 DEF EvidenceInv
<1>3. CASE ReadsFeeds
  <2>1. /\ pc = "feeds" /\ pc' = "detect" /\ v' = AfterFeed(v, feed') /\ UNCHANGED pol
        /\ feed' \in BOOLEAN /\ (IsHeld => feed' = FALSE)
    BY <1>3 DEF ReadsFeeds
  <2>2. feed' = FALSE => ev' = ev /\ v' = v
    <3>1. feed' = FALSE => [ev EXCEPT !.symbols = @ \cup {}] = ev
      BY <1>0 DEF Events
    <3>2. QED
      BY <1>3, <2>1, <3>1 DEF ReadsFeeds, AfterFeed
  <2>3. feed' = TRUE => v' = Verdict("quarantined", "feed")
    BY <2>1 DEF AfterFeed
  <2>4. Verdict("quarantined", "feed").disp \in Held /\ Verdict("quarantined", "feed").reason \in Firm
    BY DEF Verdict, Held, Firm
  <2>5. CASE feed' = FALSE
    BY <2>1, <2>2, <2>5 DEF EvidenceInv, ReputationHit
  <2>6. CASE feed' = TRUE
    BY <2>1, <2>3, <2>4, <2>6 DEF EvidenceInv
  <2>7. QED
    BY <2>1, <2>5, <2>6
<1>4. CASE Detects
  <2>1. PICK threat \in ClassesOf(ev, pol) :
            v' = AfterSenderList(AfterThreat(AfterBrand(AfterScam(v, ev, pol), ev, pol, action),
                                             threat), action, ListOn)
    BY <1>4 DEF Detects
  <2>2. pc = "detect" /\ pc' = "challenge" /\ UNCHANGED <<ev, pol, feed>>
    BY <1>4 DEF Detects
  <2>3. HardEvidence => v' \in {v, Blocked} /\ IsFirm
    <3> DEFINE one == AfterThreat(AfterBrand(AfterScam(v, ev, pol), ev, pol, action), threat)
    <3>1. one \in Rows
      BY <1>0, DetectorsRow
    <3>2. v.disp \in Held => one = v
      BY DetectorsSpare
    <3> HIDE DEF one
    <3>3. one.disp \in Held /\ one.reason \in Last => AfterSenderList(one, action, ListOn) \in {one, Blocked}
      BY <1>0, <3>1, SenderListRow
    <3>4. v' = AfterSenderList(one, action, ListOn)
      BY <2>1 DEF one
    <3>5. HardEvidence => IsFirm
      BY <2>2 DEF EvidenceInv
    <3>6. QED
      BY <1>f, <3>2, <3>3, <3>4, <3>5
  <2>4. HardEvidence' = HardEvidence
    BY <2>2 DEF ReputationHit
  <2>5. QED
    BY <1>b, <2>2, <2>3, <2>4 DEF EvidenceInv
<1>5. CASE AsksApproval
  <2>1. pc = "challenge" /\ pc' = "learned" /\ UNCHANGED <<ev, pol, feed>>
    BY <1>5 DEF AsksApproval
  <2>2. v' \in {v, Verdict("quarantined", "approval")}
    BY <1>0, <1>5, ChallengeRow DEF AsksApproval
  <2>3. Verdict("quarantined", "approval").disp \in Held /\ Verdict("quarantined", "approval").reason \in Firm
    BY DEF Verdict, Held, Firm
  <2>4. HardEvidence' = HardEvidence
    BY <2>1 DEF ReputationHit
  <2>5. QED
    BY <2>1, <2>2, <2>3, <2>4 DEF EvidenceInv
<1>6. CASE ReadsLearned
  <2> DEFINE one == AfterLearned(v, learned')
             two == AfterSenderList(one, action, ListOn)
  <2>1. /\ pc = "learned" /\ pc' = "hold" /\ UNCHANGED <<ev, pol, feed>>
        /\ learned' \in Learned /\ v' = AfterQuarantineFirst(two, ev)
    BY <1>6 DEF ReadsLearned
  <2>2. one \in Rows
    BY <1>0, <2>1, LearnedRow
  <2>3. IsFirm => one.disp \in Held /\ one.reason \in Last
    <3>1. IsFirm => one \in {v, Verdict("quarantined", "learned threat")}
      BY <1>0, <1>f, <2>1, LearnedRow
    <3>2. /\ Verdict("quarantined", "learned threat").disp \in Held
          /\ Verdict("quarantined", "learned threat").reason \in Last
      BY DEF Verdict, Held, Last
    <3>3. QED
      BY <1>f, <3>1, <3>2
  <2> HIDE DEF one
  <2>4. two \in Rows
    BY <1>0, <2>2, SenderListRow
  <2>5. IsFirm => two \in {one, Blocked}
    BY <1>0, <2>2, <2>3, SenderListRow
  <2> HIDE DEF two
  <2>6. IsFirm => v'.disp \in Held
    BY <1>b, <2>1, <2>3, <2>4, <2>5, QuarantineFirstRow
  <2>7. HardEvidence' = HardEvidence
    BY <2>1 DEF ReputationHit
  <2>8. QED
    BY <2>1, <2>6, <2>7 DEF EvidenceInv
<1>7. CASE Records
  <2>1. pc = "hold" /\ pc' = "done" /\ UNCHANGED <<ev, pol, feed>>
    BY <1>7 DEF Records
  <2>2. IsHeld => v'.disp \in Held
    BY <1>0, <1>7, RecordsRow
  <2>3. HardEvidence' = HardEvidence
    BY <2>1 DEF ReputationHit
  <2>4. QED
    BY <2>1, <2>2, <2>3 DEF EvidenceInv
<1>8. CASE GivesUp
  BY <1>8 DEF GivesUp, EvidenceInv
<1>9. CASE UNCHANGED pipelineVars
  BY <1>9 DEF pipelineVars, EvidenceInv, ReputationHit
<1>10. QED
  BY <1>1, <1>2, <1>3, <1>4, <1>5, <1>6, <1>7, <1>8, <1>9 DEF PipelineNext

\* Mail that failed authentication, scored for quarantine or rejection, or hit
\* a reputation list or feed is withheld, whatever detector, allow list,
\* approval rule or learned verdict comes after.
THEOREM HardEvidenceIsKept == Pipeline => []HardEvidenceHolds
<1>1. PipelineInit => PipelineTypeOK /\ EvidenceInv
  BY PipelineInitTypes DEF PipelineInit, EvidenceInv
<1>2. PipelineTypeOK /\ EvidenceInv /\ [PipelineNext]_pipelineVars => (PipelineTypeOK /\ EvidenceInv)'
  BY PipelineStepTypes, StepEvidence
<1>3. EvidenceInv => HardEvidenceHolds
  BY DEF EvidenceInv, HardEvidenceHolds, Finished, IsHeld
<1>4. QED
  BY <1>1, <1>2, <1>3, PTL DEF Pipeline
-----------------------------------------------------------------------------
(***************************************************************************)
(* Blocked senders.  Once rejected as blocked a message stays so: every    *)
(* override after the lists skips that very reason.                        *)
(***************************************************************************)

IsBlocked == (action = "block" /\ ListOn) \/ "blocked" \in ev.symbols

BlockInv ==
    /\ pc \notin {"decide", "list", "failed"} /\ IsBlocked => v = Blocked
    /\ pc = "hold" /\ ev.inbound /\ v.disp = "rejected" => v.reason = "blacklist"
    /\ RefusedOnlyAsBlocked

LEMMA BlockedKept ==
    /\ Blocked \in Rows /\ Blocked.disp = "rejected" /\ Blocked.reason = "blacklist"
    /\ \A e : AfterReputation(Blocked, e) = Blocked
    /\ \A hit : AfterFeed(Blocked, hit) = Blocked
    /\ \A said : AfterLearned(Blocked, said) = Blocked
    /\ \A e : AfterQuarantineFirst(Blocked, e) = Blocked
<1>1. "blacklist" \in Reasons
  BY DEF Reasons
<1>2. Blocked \in Rows /\ Blocked.disp = "rejected" /\ Blocked.reason = "blacklist"
  BY <1>1, VerdictRow DEF Blocked
<1>3. HardGate("blacklist")
  BY DEF HardGate
<1>4. QED
  BY <1>2, <1>3 DEF AfterReputation, AfterFeed, AfterLearned, AfterQuarantineFirst, Held

LEMMA StepBlock == PipelineTypeOK /\ BlockInv /\ [PipelineNext]_pipelineVars => BlockInv'
<1> SUFFICES ASSUME PipelineTypeOK, BlockInv, [PipelineNext]_pipelineVars PROVE BlockInv'
  OBVIOUS
<1> USE DEF Step, IsBlocked, RefusedOnlyAsBlocked, Finished
<1>0. /\ v \in Rows /\ ListOn \in BOOLEAN /\ ev \in Events
      /\ action \in {"none", "allow", "block"}
  BY DEF PipelineTypeOK, Rows, ListOn, PolicyRow
<1>1. CASE Decides
  BY <1>1 DEF Decides, BlockInv
<1>2. CASE ReadsLists
  <2> DEFINE one == AfterSenderList(v, action', ListOn)
             two == AfterRspamdBlock(one, ev)
  <2>1. /\ action' \in {"none", "allow", "block"} /\ pc' = "feeds"
        /\ v' = AfterReputation(two, ev) /\ UNCHANGED <<ev, pol>>
    BY <1>2 DEF ReadsLists
  <2>2. action' = "block" /\ ListOn => one = Blocked
    BY <1>0, <2>1, SenderListRow
  <2> HIDE DEF one
  <2>3. IsBlocked' => two = Blocked
    BY <2>1, <2>2 DEF AfterRspamdBlock, Blocked, ListOn
  <2> HIDE DEF two
  <2>4. QED
    BY <2>1, <2>3, BlockedKept DEF BlockInv
<1>3. CASE ReadsFeeds
  <2>1. pc = "feeds" /\ pc' = "detect" /\ v' = AfterFeed(v, feed') /\ UNCHANGED <<pol, action>>
    BY <1>3 DEF ReadsFeeds
  <2>2. "blocked" \in ev'.symbols => "blocked" \in ev.symbols
    BY <1>0, <1>3 DEF ReadsFeeds, Events
  <2>3. QED
    BY <2>1, <2>2, BlockedKept DEF BlockInv, ListOn
<1>4. CASE Detects
  <2>1. PICK threat \in ClassesOf(ev, pol) :
            v' = AfterSenderList(AfterThreat(AfterBrand(AfterScam(v, ev, pol), ev, pol, action),
                                             threat), action, ListOn)
    BY <1>4 DEF Detects
  <2>2. pc = "detect" /\ pc' = "challenge" /\ UNCHANGED <<ev, pol, action>>
    BY <1>4 DEF Detects
  <2>3. AfterThreat(AfterBrand(AfterScam(Blocked, ev, pol), ev, pol, action), threat) = Blocked
    BY BlockedKept, DetectorsSpare DEF Held
  <2>4. AfterSenderList(Blocked, action, ListOn) = Blocked
    BY <1>0, BlockedKept, SenderListRow
  <2>5. QED
    BY <2>1, <2>2, <2>3, <2>4 DEF BlockInv, ListOn
<1>5. CASE AsksApproval
  <2>1. pc = "challenge" /\ pc' = "learned" /\ UNCHANGED <<ev, pol, action>>
    BY <1>5 DEF AsksApproval
  <2>2. v = Blocked => v' = v
    BY <1>0, <1>5, BlockedKept, ChallengeRow DEF AsksApproval
  <2>3. QED
    BY <2>1, <2>2 DEF BlockInv, ListOn
<1>6. CASE ReadsLearned
  <2> DEFINE one == AfterLearned(v, learned')
             two == AfterSenderList(one, action, ListOn)
  <2>1. /\ pc = "learned" /\ pc' = "hold" /\ UNCHANGED <<ev, pol, action>>
        /\ learned' \in Learned /\ v' = AfterQuarantineFirst(two, ev)
    BY <1>6 DEF ReadsLearned
  <2>2. one \in Rows
    BY <1>0, <2>1, LearnedRow
  <2>3. v = Blocked => one = Blocked
    BY BlockedKept
  <2> HIDE DEF one
  <2>4. two \in Rows /\ (one = Blocked => two = Blocked)
    BY <1>0, <2>2, SenderListRow
  <2> HIDE DEF two
  <2>5. ev.inbound /\ v'.disp = "rejected" => v'.reason = "blacklist"
    BY <2>1, <2>4, QuarantineFirstRow
  <2>6. QED
    BY <2>1, <2>3, <2>4, <2>5, BlockedKept DEF BlockInv, ListOn
<1>7. CASE Records
  <2>1. pc = "hold" /\ pc' = "done" /\ UNCHANGED <<ev, pol, action>>
    BY <1>7 DEF Records
  <2>2. /\ v.disp = "rejected" => v' = v
        /\ v'.disp = "rejected" =>
                \/ v' = v
                \/ /\ v'.reason = "campaign rejected" /\ pol.campaign = "reject"
                   /\ class' # "CHALLENGE_RESPONSE"
    BY <1>0, <1>7, RecordsRow
  <2>3. QED
    BY <2>1, <2>2, BlockedKept DEF BlockInv, ListOn
<1>8. CASE GivesUp
  BY <1>8 DEF GivesUp, BlockInv
<1>9. CASE UNCHANGED pipelineVars
  BY <1>9 DEF pipelineVars, BlockInv, ListOn
<1>10. QED
  BY <1>1, <1>2, <1>3, <1>4, <1>5, <1>6, <1>7, <1>8, <1>9 DEF PipelineNext

\* A blocked sender's mail is rejected, whatever else the handler sees in it.
THEOREM BlockWins == Pipeline => []BlockedIsRejected
<1>1. PipelineInit => PipelineTypeOK /\ BlockInv
  BY PipelineInitTypes DEF PipelineInit, BlockInv, RefusedOnlyAsBlocked, Finished
<1>2. PipelineTypeOK /\ BlockInv /\ [PipelineNext]_pipelineVars => (PipelineTypeOK /\ BlockInv)'
  BY PipelineStepTypes, StepBlock
<1>3. BlockInv => BlockedIsRejected
  BY DEF BlockInv, BlockedIsRejected, Finished, IsBlocked, Blocked
<1>4. QED
  BY <1>1, <1>2, <1>3, PTL DEF Pipeline

\* Nor is inbound mail refused for anything but a block, or for belonging to a
\* flood that the tenant chose to reject: it is kept for review
\* (applyQuarantineFirst, handle).
THEOREM OnlyBlocksRefuse == Pipeline => []RefusedOnlyAsBlocked
<1>1. PipelineInit => PipelineTypeOK /\ BlockInv
  BY PipelineInitTypes DEF PipelineInit, BlockInv, RefusedOnlyAsBlocked, Finished
<1>2. PipelineTypeOK /\ BlockInv /\ [PipelineNext]_pipelineVars => (PipelineTypeOK /\ BlockInv)'
  BY PipelineStepTypes, StepBlock
<1>3. BlockInv => RefusedOnlyAsBlocked
  BY DEF BlockInv
<1>4. QED
  BY <1>1, <1>2, <1>3, PTL DEF Pipeline
-----------------------------------------------------------------------------
(***************************************************************************)
(* Strict approval.  When approval is asked for, whatever is not held is   *)
(* held; what is held by then, for an allowed sender too, is held for a    *)
(* reason that no verdict "wanted" of the recipient and no allow lifts.    *)
(***************************************************************************)

IsStuck == IsHeld /\ v.reason \in Stuck
Unverified == Strict /\ pol.verified /\ ev.auth \notin {"brand", "verified"}

ApprovalInv ==
    /\ pc \in {"decide", "list", "feeds", "detect", "challenge", "learned"} =>
            v.reason # "learned threat"
    /\ pc = "challenge" /\ action = "allow" /\ IsHeld => IsStuck
    /\ pc = "learned" /\ Strict /\ action # "allow" => IsHeld
    /\ pc = "learned" /\ Unverified /\ action = "allow" => IsStuck
    /\ pc \in {"hold", "done"} /\ Strict /\ action # "allow" /\ learned # "not_spam" => IsHeld
    /\ pc \in {"hold", "done"} /\ Unverified /\ action = "allow" => IsHeld

LEMMA StepApproval == PipelineTypeOK /\ EvidenceInv /\ ApprovalInv /\ [PipelineNext]_pipelineVars => ApprovalInv'
<1> SUFFICES ASSUME PipelineTypeOK, EvidenceInv, ApprovalInv, [PipelineNext]_pipelineVars PROVE ApprovalInv'
  OBVIOUS
<1> USE DEF Step, IsHeld, IsStuck, Unverified, Strict
<1>0. /\ v \in Rows /\ ListOn \in BOOLEAN /\ ev \in Events
      /\ action \in {"none", "allow", "block"}
  BY DEF PipelineTypeOK, Rows, ListOn, PolicyRow
<1>b. Blocked \in Rows /\ Blocked.disp \in Held /\ Blocked.reason \in Stuck
  BY DEF Blocked, Verdict, Rows, Reasons, Held, Stuck, Firm
<1>1. CASE Decides
  <2>1. AfterAuth(AfterBounce(Decided(ev, pol), ev), ev).reason # "learned threat"
    BY DEF AfterAuth, AfterBounce, Decided, Verdict
  <2>2. QED
    BY <1>1, <2>1 DEF Decides, ApprovalInv
<1>2. CASE ReadsLists
  <2> DEFINE one == AfterSenderList(v, action', ListOn)
  <2>1. /\ action' \in {"none", "allow", "block"} /\ pc = "list" /\ pc' = "feeds"
        /\ v' = AfterReputation(AfterRspamdBlock(one, ev), ev)
    BY <1>2 DEF ReadsLists
  <2>2. one.reason # "learned threat"
    BY <2>1 DEF AfterSenderList, Verdict, ApprovalInv
  <2> HIDE DEF one
  <2>3. v'.reason # "learned threat"
    BY <2>1, <2>2 DEF AfterReputation, AfterRspamdBlock, Verdict
  <2>4. QED
    BY <2>1, <2>3 DEF ApprovalInv
<1>3. CASE ReadsFeeds
  <2>1. pc = "feeds" /\ pc' = "detect" /\ v' = AfterFeed(v, feed')
    BY <1>3 DEF ReadsFeeds
  <2>2. v'.reason # "learned threat"
    BY <2>1 DEF AfterFeed, Verdict, ApprovalInv
  <2>3. QED
    BY <2>1, <2>2 DEF ApprovalInv
<1>4. CASE Detects
  <2>1. PICK threat \in ClassesOf(ev, pol) :
            v' = AfterSenderList(AfterThreat(AfterBrand(AfterScam(v, ev, pol), ev, pol, action),
                                             threat), action, ListOn)
    BY <1>4 DEF Detects
  <2>2. pc = "detect" /\ pc' = "challenge" /\ UNCHANGED <<ev, pol, action>>
    BY <1>4 DEF Detects
  <2> DEFINE one == AfterThreat(AfterBrand(AfterScam(v, ev, pol), ev, pol, action), threat)
  <2>3. /\ one \in Rows
        /\ one = v \/ (one.disp # "rejected" /\ one.reason \in {"scam", "brand", "phish signal", "malware"})
    BY <1>0, DetectorsRow
  <2>4. IsHeld => one = v
    BY DetectorsSpare
  <2> HIDE DEF one
  <2>5. v' = AfterSenderList(one, action, ListOn)
    BY <2>1 DEF one
  <2>6. one.reason # "learned threat"
    BY <2>2, <2>3 DEF ApprovalInv
  <2>7. v'.reason # "learned threat"
    BY <2>5, <2>6 DEF AfterSenderList, Verdict
  <2>8. ASSUME action = "allow", v'.disp \in Held PROVE v'.reason \in Stuck
    <3>1. v' = one /\ (one.disp = "rejected" \/ one.reason \in Last)
      BY <1>0, <2>3, <2>5, <2>8, SenderListRow
    <3>2. CASE one.disp = "rejected"
      <4>1. one = v /\ IsHeld
        BY <2>3, <3>2 DEF Held
      <4>2. QED
        BY <2>2, <3>1, <4>1 DEF EvidenceInv, IsFirm, Stuck
    <3>3. CASE one.reason \in Last
      BY <2>6, <3>1, <3>3 DEF Last
    <3>4. QED
      BY <3>1, <3>2, <3>3
  <2>9. QED
    BY <2>2, <2>7, <2>8 DEF ApprovalInv
<1>5. CASE AsksApproval
  <2>1. pc = "challenge" /\ pc' = "learned" /\ UNCHANGED <<ev, pol, action>>
    BY <1>5 DEF AsksApproval
  <2>2. PICK threat \in ClassesOf(ev, Vigilant(pol)) : v' = AfterChallenge(v, ev, pol, action, threat)
    BY <1>5 DEF AsksApproval
  <2>3. /\ v' \in {v, Verdict("quarantined", "approval")}
        /\ pol.challenge /\ ev.inbound /\ ~ev.dsn /\ ~AllowedHere(ev, pol, action) => v'.disp \in Held
    BY <1>0, <2>2, ChallengeRow
  <2>4. LET asked == Verdict("quarantined", "approval")
        IN  asked.disp \in Held /\ asked.reason \in Stuck /\ asked.reason # "learned threat"
    BY DEF Verdict, Held, Stuck, Firm
  <2>5. v'.reason # "learned threat"
    BY <2>1, <2>3, <2>4 DEF ApprovalInv
  <2>6. Strict /\ action # "allow" => v'.disp \in Held
    BY <2>3 DEF AllowedHere
  <2>7. Unverified /\ action = "allow" => v'.disp \in Held /\ v'.reason \in Stuck
    <3>1. Unverified => v'.disp \in Held
      BY <2>3 DEF AllowedHere
    <3>2. QED
      BY <2>1, <2>3, <2>4, <3>1 DEF ApprovalInv
  <2>8. QED
    BY <2>1, <2>5, <2>6, <2>7 DEF ApprovalInv
<1>6. CASE ReadsLearned
  <2> DEFINE one == AfterLearned(v, learned')
             two == AfterSenderList(one, action, ListOn)
  <2>1. /\ pc = "learned" /\ pc' = "hold" /\ UNCHANGED <<ev, pol, action>>
        /\ learned' \in Learned /\ v' = AfterQuarantineFirst(two, ev)
    BY <1>6 DEF ReadsLearned
  <2>2. LET threat == Verdict("quarantined", "learned threat")
        IN  threat.disp \in Held /\ threat.reason \in Last
    BY DEF Verdict, Held, Last
  <2>3. /\ one \in Rows
        /\ IsStuck => one \in {v, Verdict("quarantined", "learned threat")}
        /\ IsHeld /\ learned' # "not_spam" => one \in {v, Verdict("quarantined", "learned threat")}
    BY <1>0, <2>1, LearnedRow
  <2>4. /\ IsStuck => one.disp \in Held /\ one.reason \in Last
        /\ IsHeld /\ learned' # "not_spam" => one.disp \in Held
    BY <2>2, <2>3 DEF Last
  <2> HIDE DEF one
  <2>5. /\ two \in Rows
        /\ one.disp \in Held /\ one.reason \in Last => two \in {one, Blocked}
        /\ one.disp \in Held /\ action # "allow" => two \in {one, Blocked}
    BY <1>0, <2>3, SenderListRow
  <2> HIDE DEF two
  <2>6. /\ IsStuck => v'.disp \in Held
        /\ IsHeld /\ learned' # "not_spam" /\ action # "allow" => v'.disp \in Held
    BY <1>b, <2>1, <2>4, <2>5, QuarantineFirstRow
  <2>7. QED
    BY <2>1, <2>6 DEF ApprovalInv
<1>7. CASE Records
  <2>1. pc = "hold" /\ pc' = "done" /\ UNCHANGED <<ev, pol, action, learned>>
    BY <1>7 DEF Records
  <2>2. IsHeld => v'.disp \in Held
    BY <1>0, <1>7, RecordsRow
  <2>3. QED
    BY <2>1, <2>2 DEF ApprovalInv
<1>8. CASE GivesUp
  BY <1>8 DEF GivesUp, ApprovalInv
<1>9. CASE UNCHANGED pipelineVars
  BY <1>9 DEF pipelineVars, ApprovalInv
<1>10. QED
  BY <1>1, <1>2, <1>3, <1>4, <1>5, <1>6, <1>7, <1>8, <1>9 DEF PipelineNext

LEMMA ApprovalHolds == Pipeline => [](PipelineTypeOK /\ EvidenceInv /\ ApprovalInv)
<1>1. PipelineInit => PipelineTypeOK /\ EvidenceInv /\ ApprovalInv
  BY PipelineInitTypes DEF PipelineInit, EvidenceInv, ApprovalInv, Verdict
<1>2. PipelineTypeOK /\ EvidenceInv /\ ApprovalInv /\ [PipelineNext]_pipelineVars
        => (PipelineTypeOK /\ EvidenceInv /\ ApprovalInv)'
  BY PipelineStepTypes, StepEvidence, StepApproval
<1>3. QED
  BY <1>1, <1>2, PTL DEF Pipeline

\* Under strict approval a message of a sender nobody allowed reaches the
\* mailbox only if the recipient declared such mail wanted; bounces are exempt
\* (applyChallengeResponseHoldEnabled, applyLearnedClassification).
THEOREM StrangersNeedVerdict == Pipeline => []StrangerNeedsVerdict
<1>1. PipelineTypeOK /\ EvidenceInv /\ ApprovalInv => StrangerNeedsVerdict
  BY DEF ApprovalInv, StrangerNeedsVerdict, Delivers, Finished, IsHeld
<1>2. QED
  BY <1>1, ApprovalHolds, PTL

\* And an allowed sender's only from a source that authenticated, if the
\* policy asks for verified sources.
THEOREM AllowedNeedsProof == Pipeline => []AllowedIsVerified
<1>1. PipelineTypeOK /\ EvidenceInv /\ ApprovalInv => AllowedIsVerified
  BY DEF ApprovalInv, AllowedIsVerified, Delivers, Finished, IsHeld, Unverified
<1>2. QED
  BY <1>1, ApprovalHolds, PTL
-----------------------------------------------------------------------------
(***************************************************************************)
(* Failed authentication alone.  The gate is the first to hold such mail,  *)
(* and for a reason that all but approval and a verdict of phishing leave. *)
(***************************************************************************)

AuthHold == Verdict("quarantined", "auth failed")
ApprovalHold == Verdict("quarantined", "approval")

AuthOnly ==
    /\ ev.inbound /\ ~ev.dsn /\ ev.auth = "fail" /\ ev.score \in {"low", "spam"}
    /\ "blocked" \notin ev.symbols

NoBlock == ~(action = "block" /\ ListOn)

AuthHoldInv ==
    /\ pc = "list" /\ AuthOnly => v = AuthHold
    /\ pc \in {"feeds", "detect", "challenge"} /\ AuthOnly /\ NoBlock => v = AuthHold
    /\ pc = "learned" /\ AuthOnly /\ NoBlock => v \in {AuthHold, ApprovalHold}
    /\ pc \in {"hold", "done"} /\ AuthOnly /\ NoBlock /\ learned # "phishing" =>
            v \in {AuthHold, ApprovalHold}

\* Which overrides leave the two holds as they are.
LEMMA AuthHoldsStay ==
    ASSUME NEW d \in {AuthHold, ApprovalHold}
    PROVE /\ d \in Rows /\ d.disp = "quarantined" /\ d.disp \in Held
          /\ \A a, on : ~(a = "block" /\ on) => AfterSenderList(d, a, on) = d
          /\ \A e : "blocked" \notin e.symbols => AfterRspamdBlock(d, e) = d
          /\ \A e : AfterReputation(d, e) = d
          /\ \A hit : AfterFeed(d, hit) = d
          /\ \A said \in Learned : said # "phishing" => AfterLearned(d, said) = d
          /\ \A e : AfterQuarantineFirst(d, e) = d
<1>1. d.disp = "quarantined" /\ d.reason \in AuthReasons \cup {"approval"} /\ d \in Rows
  <2>1. "auth failed" \in AuthReasons /\ AuthReasons \cup {"approval"} \subseteq Reasons
    BY DEF AuthReasons, Reasons
  <2>2. \A reason \in AuthReasons \cup {"approval"} :
            /\ Verdict("quarantined", reason).disp = "quarantined"
            /\ Verdict("quarantined", reason).reason = reason
            /\ Verdict("quarantined", reason) \in Rows
    BY <2>1, VerdictRow
  <2>3. QED
    BY <2>1, <2>2 DEF AuthHold, ApprovalHold
<1>2. d.disp \in Held /\ HardGate(d.reason) /\ ~AllowMayOverride(d.reason)
  BY <1>1 DEF Held, HardGate, AllowMayOverride
<1>3. \A a, on : ~(a = "block" /\ on) => AfterSenderList(d, a, on) = d
  BY <1>2 DEF AfterSenderList
<1>4. /\ \A e : "blocked" \notin e.symbols => AfterRspamdBlock(d, e) = d
      /\ \A e : AfterReputation(d, e) = d
      /\ \A hit : AfterFeed(d, hit) = d
  BY <1>2 DEF AfterRspamdBlock, AfterReputation, AfterFeed
<1>5. \A said \in Learned : said # "phishing" => AfterLearned(d, said) = d
  BY <1>1, <1>2 DEF AfterLearned, Learned
<1>6. \A e : AfterQuarantineFirst(d, e) = d
  BY <1>1 DEF AfterQuarantineFirst
<1>7. QED
  BY <1>1, <1>2, <1>3, <1>4, <1>5, <1>6

LEMMA StepAuthHold == PipelineTypeOK /\ AuthHoldInv /\ [PipelineNext]_pipelineVars => AuthHoldInv'
<1> SUFFICES ASSUME PipelineTypeOK, AuthHoldInv, [PipelineNext]_pipelineVars PROVE AuthHoldInv'
  OBVIOUS
<1> USE DEF Step
<1>0. v \in Rows /\ ev \in Events
  BY DEF PipelineTypeOK, Rows
<1>1. CASE Decides
  <2>1. pc' = "list" /\ ev' = ev /\ v' = AfterAuth(AfterBounce(Decided(ev, pol), ev), ev)
    BY <1>1 DEF Decides
  <2>2. AuthOnly => Decided(ev, pol).disp \notin Held /\ AfterBounce(Decided(ev, pol), ev) = Decided(ev, pol)
    BY DEF AuthOnly, Decided, AfterBounce, Verdict, Held
  <2>3. AuthOnly => v' = AuthHold
    BY <2>1, <2>2 DEF AuthOnly, AfterAuth, AuthHold
  <2>4. QED
    BY <2>1, <2>3 DEF AuthHoldInv, AuthOnly
<1>2. CASE ReadsLists
  <2>1. /\ pc = "list" /\ pc' = "feeds" /\ UNCHANGED <<ev, pol>>
        /\ v' = AfterReputation(AfterRspamdBlock(AfterSenderList(v, action', ListOn), ev), ev)
    BY <1>2 DEF ReadsLists
  <2>2. ASSUME AuthOnly', NoBlock' PROVE v' = AuthHold
    <3>1. AuthOnly /\ ~(action' = "block" /\ ListOn)
      BY <2>1, <2>2 DEF AuthOnly, NoBlock, ListOn
    <3>2. v = AuthHold
      BY <2>1, <3>1 DEF AuthHoldInv
    <3>3. AfterSenderList(v, action', ListOn) = AuthHold
      BY <3>1, <3>2, AuthHoldsStay
    <3>4. QED
      BY <2>1, <3>1, <3>3, AuthHoldsStay DEF AuthOnly
  <2>3. QED
    BY <2>1, <2>2 DEF AuthHoldInv
<1>3. CASE ReadsFeeds
  <2>1. /\ pc = "feeds" /\ pc' = "detect" /\ v' = AfterFeed(v, feed') /\ UNCHANGED <<pol, action>>
    BY <1>3 DEF ReadsFeeds
  <2>2. AuthOnly' => AuthOnly
    BY <1>0, <1>3 DEF ReadsFeeds, Events, AuthOnly
  <2>3. NoBlock' = NoBlock
    BY <2>1 DEF NoBlock, ListOn
  <2>4. QED
    BY <2>1, <2>2, <2>3, AuthHoldsStay DEF AuthHoldInv
<1>4. CASE Detects
  <2>1. PICK threat \in ClassesOf(ev, pol) :
            v' = AfterSenderList(AfterThreat(AfterBrand(AfterScam(v, ev, pol), ev, pol, action),
                                             threat), action, ListOn)
    BY <1>4 DEF Detects
  <2>2. pc = "detect" /\ pc' = "challenge" /\ UNCHANGED <<ev, pol, action>>
    BY <1>4 DEF Detects
  <2>3. AfterThreat(AfterBrand(AfterScam(AuthHold, ev, pol), ev, pol, action), threat) = AuthHold
    BY AuthHoldsStay, DetectorsSpare
  <2>4. NoBlock => AfterSenderList(AuthHold, action, ListOn) = AuthHold
    BY AuthHoldsStay DEF NoBlock
  <2>5. AuthOnly' = AuthOnly /\ NoBlock' = NoBlock
    BY <2>2 DEF AuthOnly, NoBlock, ListOn
  <2>6. QED
    BY <2>1, <2>2, <2>3, <2>4, <2>5 DEF AuthHoldInv
<1>5. CASE AsksApproval
  <2>1. pc = "challenge" /\ pc' = "learned" /\ UNCHANGED <<ev, pol, action>>
    BY <1>5 DEF AsksApproval
  <2>2. v' \in {v, ApprovalHold}
    BY <1>0, <1>5, ChallengeRow DEF AsksApproval, ApprovalHold
  <2>3. AuthOnly' = AuthOnly /\ NoBlock' = NoBlock
    BY <2>1 DEF AuthOnly, NoBlock, ListOn
  <2>4. QED
    BY <2>1, <2>2, <2>3 DEF AuthHoldInv
<1>6. CASE ReadsLearned
  <2>1. /\ pc = "learned" /\ pc' = "hold" /\ UNCHANGED <<ev, pol, action>> /\ learned' \in Learned
        /\ v' = AfterQuarantineFirst(AfterSenderList(AfterLearned(v, learned'), action, ListOn), ev)
    BY <1>6 DEF ReadsLearned
  <2>2. AuthOnly' = AuthOnly /\ NoBlock' = NoBlock
    BY <2>1 DEF AuthOnly, NoBlock, ListOn
  <2>3. ASSUME AuthOnly, NoBlock, learned' # "phishing" PROVE v' = v /\ v \in {AuthHold, ApprovalHold}
    <3>1. v \in {AuthHold, ApprovalHold}
      BY <2>1, <2>3 DEF AuthHoldInv
    <3>2. AfterLearned(v, learned') = v
      BY <2>1, <2>3, <3>1, AuthHoldsStay
    <3>3. AfterSenderList(v, action, ListOn) = v
      BY <2>3, <3>1, AuthHoldsStay DEF NoBlock
    <3>4. QED
      BY <2>1, <3>1, <3>2, <3>3, AuthHoldsStay
  <2>4. QED
    BY <2>1, <2>2, <2>3 DEF AuthHoldInv
<1>7. CASE Records
  <2>1. pc = "hold" /\ pc' = "done" /\ UNCHANGED <<ev, pol, action, learned>>
    BY <1>7 DEF Records
  <2>2. v \in {AuthHold, ApprovalHold} => v' = v
    BY <1>0, <1>7, RecordsRow DEF AuthHold, ApprovalHold
  <2>3. AuthOnly' = AuthOnly /\ NoBlock' = NoBlock
    BY <2>1 DEF AuthOnly, NoBlock, ListOn
  <2>4. QED
    BY <2>1, <2>2, <2>3 DEF AuthHoldInv
<1>8. CASE GivesUp
  BY <1>8 DEF GivesUp, AuthHoldInv
<1>9. CASE UNCHANGED pipelineVars
  BY <1>9 DEF pipelineVars, AuthHoldInv, AuthOnly, NoBlock, ListOn
<1>10. QED
  BY <1>1, <1>2, <1>3, <1>4, <1>5, <1>6, <1>7, <1>8, <1>9 DEF PipelineNext

\* Mail that only its sender's failed authentication holds stays held for that,
\* or for approval: no detector, list, flood action nor verdict but that of
\* phishing touches it (highConfidenceCampaign, isHardGateReason).
THEOREM AuthHoldsStand == Pipeline => []AuthHoldStands
<1>1. PipelineInit => PipelineTypeOK /\ AuthHoldInv
  BY PipelineInitTypes DEF PipelineInit, AuthHoldInv
<1>2. PipelineTypeOK /\ AuthHoldInv /\ [PipelineNext]_pipelineVars => (PipelineTypeOK /\ AuthHoldInv)'
  BY PipelineStepTypes, StepAuthHold
<1>3. AuthHoldInv => AuthHoldStands
  <2>1. {AuthHold, ApprovalHold} \subseteq {Verdict("quarantined", r) : r \in AuthReasons \cup {"approval"}}
    BY DEF AuthHold, ApprovalHold, AuthReasons
  <2>2. OnlyUnproved({"fail"}) => AuthOnly /\ NoBlock /\ learned # "phishing"
    BY DEF OnlyUnproved, AuthOnly, NoBlock
  <2>3. QED
    BY <2>1, <2>2 DEF AuthHoldInv, AuthHoldStands, Finished, HeldAsUnproved
<1>4. QED
  BY <1>1, <1>2, <1>3, PTL DEF Pipeline
================================================================================
