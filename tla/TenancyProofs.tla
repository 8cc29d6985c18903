---------------------------- MODULE TenancyProofs ----------------------------
(***************************************************************************)
(* Tenancy for any list of tenants, any number of seeds, requests and      *)
(* widgets: the seed is safe to run twice, keys and demo widgets are their *)
(* tenants', and the owners' API keeps tenants apart.                      *)
(***************************************************************************)
EXTENDS Tenancy, TLAPS

\* What a run of the seed holds while it is at an entry of TENANTS.
Placed(s) == /\ step[s] = "idle" => at[s] = 1
             /\ Running(s) => at[s] <= Len(Specs)
             /\ step[s] \in {"key", "look", "insert"} => tenant[s] # NoOne /\ tenant[s][2] = Name(s)
             /\ step[s] \in {"look", "insert"} => left[s] \subseteq Demos[Name(s)]
             /\ step[s] = "insert" => hand[s] \in left[s]
SeedsKnowTheirPlace == \A s \in Seeds : Placed(s)

\* One run at a time: what it found missing is missing until it has made it.
MissingStaysMissing ==
  ~overlap => /\ \A s, u \in Seeds : Running(s) /\ Running(u) => s = u
              /\ \A s \in Seeds : step[s] = "create" => FindByName(Name(s)) = {}
              /\ \A s \in Seeds : step[s] = "insert" => widgets[hand[s]] = Nothing

IInv == TypeOK /\ SeedsKnowTheirPlace /\ NamesMatch /\ SafeToRunTwice /\ MissingStaysMissing

(* What TenancyAssumption says, part by part. *)

LEMMA SpecsNames == Len(Specs) \in Nat \ {0} /\ \A k \in 1..Len(Specs) : Specs[k] \in Names
BY TenancyAssumption DEF Names

LEMMA DemosAreIds == \A n \in Names : Demos[n] \subseteq Ids /\ Demos[n] \subseteq DemoIds
BY TenancyAssumption DEF DemoIds

LEMMA DemosAreOneTenants == \A m, n \in Names, i \in Ids : i \in Demos[m] /\ i \in Demos[n] => m = n
BY TenancyAssumption

LEMMA NobodyAndNothing ==
  /\ DemoFields \in FieldLists /\ NoOne \notin Rows /\ NoOne \notin Ids
  /\ Nothing \notin FieldLists
  /\ \A t \in Rows, f \in FieldLists : [owner |-> t, asks |-> f] # Nothing
BY TenancyAssumption

LEMMA InitInv == Init => IInv
<1> SUFFICES ASSUME Init PROVE IInv
  OBVIOUS
<1> USE SpecsNames, NobodyAndNothing DEF Init
<1>1. TypeOK
  <2>1. /\ tenants \subseteq Rows /\ keys \in [Rows -> tenants \cup {NoOne}]
        /\ widgets \in [Ids -> [owner : tenants, asks : FieldLists] \cup {Nothing}]
        /\ honeypot \in Honeypots /\ overlap \in BOOLEAN
    OBVIOUS
  <2>2. /\ step \in [Seeds -> Ended \cup {"find", "create", "key", "look", "insert"}]
        /\ at \in [Seeds -> 1..(Len(Specs) + 1)] /\ tenant \in [Seeds -> tenants \cup {NoOne}]
        /\ left \in [Seeds -> SUBSET Ids] /\ hand \in [Seeds -> Ids \cup {NoOne}]
    BY DEF Ended
  <2>3. /\ caller \in [Requests -> tenants \cup {NoOne}]
        /\ answer \in [Requests -> Answers \cup {NoOne}]
    OBVIOUS
  <2> QED BY <2>1, <2>2, <2>3 DEF TypeOK
<1>2. SeedsKnowTheirPlace /\ MissingStaysMissing
  BY DEF SeedsKnowTheirPlace, Placed, MissingStaysMissing, Running, Ended
<1>3. NamesMatch
  BY DemosAreIds DEF NamesMatch
<1>4. SafeToRunTwice
  BY DEF SafeToRunTwice
<1> QED BY <1>1, <1>2, <1>3, <1>4 DEF IInv
-----------------------------------------------------------------------------
(* Types. *)

Rack == [Ids -> [owner : tenants, asks : FieldLists] \cup {Nothing}]
TablesOK == /\ tenants \subseteq Rows /\ keys \in [Rows -> tenants \cup {NoOne}]
            /\ widgets \in Rack
SeedingOK == /\ step \in [Seeds -> Ended \cup {"find", "create", "key", "look", "insert"}]
             /\ at \in [Seeds -> 1..(Len(Specs) + 1)] /\ tenant \in [Seeds -> tenants \cup {NoOne}]
             /\ left \in [Seeds -> SUBSET Ids] /\ hand \in [Seeds -> Ids \cup {NoOne}]
ServingOK == /\ caller \in [Requests -> tenants \cup {NoOne}]
             /\ answer \in [Requests -> Answers \cup {NoOne}]

LEMMA TypeParts ==
  /\ TypeOK <=> TablesOK /\ SeedingOK /\ ServingOK /\ honeypot \in Honeypots /\ overlap \in BOOLEAN
  /\ TypeOK' <=> TablesOK' /\ SeedingOK' /\ ServingOK' /\ honeypot' \in Honeypots /\ overlap' \in BOOLEAN
BY DEF TypeOK, TablesOK, SeedingOK, ServingOK, Rack

\* A run that is at an entry is at a name, and its demo ids are ids.
LEMMA Entry ==
  ASSUME TypeOK, NEW s \in Seeds, at[s] <= Len(Specs)
  PROVE  Name(s) \in Names /\ at[s] + 1 \in 1..(Len(Specs) + 1) /\ Demos[Name(s)] \subseteq Ids
<1>1. at[s] \in 1..Len(Specs) /\ Len(Specs) \in Nat
  BY SpecsNames DEF TypeOK
<1> QED BY <1>1, SpecsNames, DemosAreIds DEF Name

\* The two ways on from a widget.
LEMMA CreatedType ==
  ASSUME SeedingOK, NEW s \in Seeds, NEW i \in Ids, at[s] + 1 \in 1..(Len(Specs) + 1),
         Created(s, i), UNCHANGED tenants
  PROVE  SeedingOK'
<1>1. CASE left[s] = {i}
  BY <1>1 DEF SeedingOK, Created, Goto, Ended
<1>2. CASE left[s] # {i}
  BY <1>2 DEF SeedingOK, Created, Goto, Ended
<1> QED BY <1>1, <1>2

LEMMA DieType ==
  ASSUME SeedingOK, NEW s \in Seeds, NEW how \in {"raised", "killed"}, Die(s, how), UNCHANGED tenants
  PROVE  SeedingOK'
BY DEF SeedingOK, Die, Goto, Ended

LEMMA SeedType ==
  ASSUME IInv, NEW s \in Seeds, Seed(s) PROVE TypeOK'
<1>0. /\ TablesOK /\ SeedingOK /\ ServingOK /\ TypeOK /\ overlap \in BOOLEAN
      /\ honeypot \in Honeypots /\ UNCHANGED <<honeypot, serving>>
  BY TypeParts DEF IInv, Seed, Start, Find, CreateTenant, AddApiKey, Look, Insert, Kill
<1>1. tenants' = tenants => ServingOK'
  BY <1>0 DEF ServingOK, serving
<1>2. tables' = tables => TablesOK'
  BY <1>0 DEF TablesOK, Rack, tables
<1>3. Running(s) => at[s] + 1 \in 1..(Len(Specs) + 1) /\ Demos[Name(s)] \subseteq Ids /\ <<s, Name(s)>> \in Rows
  BY <1>0, Entry DEF IInv, SeedsKnowTheirPlace, Placed, Rows
<1>4. CASE Start(s)
  <2>1. SeedingOK' /\ overlap' \in BOOLEAN
    BY <1>0, <1>4 DEF Start, SeedingOK, tables, Goto
  <2> QED BY <1>0, <1>1, <1>2, <1>4, <2>1, TypeParts DEF Start, tables
<1>5. CASE Find(s)
  <2>1. SeedingOK'
    BY <1>0, <1>5 DEF Find, FindByName, SeedingOK, tables, Goto
  <2> QED BY <1>0, <1>1, <1>2, <1>5, <2>1, TypeParts DEF Find, tables
<1>6. CASE CreateTenant(s)
  <2>0. <<s, Name(s)>> \in Rows
    BY <1>3, <1>6 DEF CreateTenant, Running, Ended
  <2>1. TablesOK' /\ ServingOK'
    BY <1>0, <1>6, <2>0 DEF CreateTenant, TablesOK, ServingOK, Rack, serving
  <2>2. SeedingOK'
    BY <1>0, <1>6 DEF CreateTenant, SeedingOK, Goto
  <2> QED BY <1>0, <1>6, <2>1, <2>2, TypeParts DEF CreateTenant
<1>7. CASE AddApiKey(s)
  <2>0. <<s, Name(s)>> \in Rows /\ Demos[Name(s)] \subseteq Ids
    BY <1>3, <1>7 DEF AddApiKey, Running, Ended
  <2>1. TablesOK'
    BY <1>0, <1>7 DEF AddApiKey, TablesOK, SeedingOK, Rack
  <2>2. SeedingOK'
    BY <1>0, <1>7, <2>0 DEF AddApiKey, SeedingOK, Goto
  <2> QED BY <1>0, <1>1, <1>7, <2>1, <2>2, TypeParts DEF AddApiKey
<1>8. CASE Look(s)
  <2>0. Running(s) /\ UNCHANGED <<tables, overlap>>
    BY <1>8 DEF Look, Running, Ended
  <2>1. PICK i \in left[s] : \/ Created(s, i)
                             \/ hand' = [hand EXCEPT ![s] = i] /\ Goto(s, "insert") /\ UNCHANGED <<at, left, tenant>>
    BY <1>8 DEF Look
  <2>2. i \in Ids
    BY <1>0, <2>1 DEF SeedingOK
  <2>3. SeedingOK'
    <3>1. CASE Created(s, i)
      BY <1>0, <1>3, <2>0, <2>2, <3>1, CreatedType DEF tables
    <3>2. CASE hand' = [hand EXCEPT ![s] = i] /\ Goto(s, "insert") /\ UNCHANGED <<at, left, tenant>>
      BY <1>0, <2>0, <2>2, <3>2 DEF SeedingOK, Goto, tables
    <3> QED BY <2>1, <3>1, <3>2
  <2> QED BY <1>0, <1>1, <1>2, <2>0, <2>3, TypeParts DEF tables
<1>9. CASE Insert(s)
  <2>0. Running(s) /\ UNCHANGED <<tenants, keys, overlap>>
    BY <1>9 DEF Insert, Running, Ended
  <2>1. hand[s] \in Ids /\ tenant[s] \in tenants
    BY <1>0, <1>3, <1>9, <2>0 DEF Insert, IInv, SeedsKnowTheirPlace, Placed, SeedingOK
  <2>2. widgets' \in Rack
    BY <1>0, <1>9, <2>1, NobodyAndNothing DEF Insert, TablesOK, Rack
  <2>3. TablesOK'
    BY <1>0, <2>0, <2>2 DEF TablesOK, Rack
  <2>4. SeedingOK'
    BY <1>0, <1>3, <1>9, <2>0, <2>1, CreatedType, DieType DEF Insert
  <2> QED BY <1>0, <1>1, <2>0, <2>3, <2>4, TypeParts
<1>10. CASE Kill(s)
  <2>1. SeedingOK'
    BY <1>0, <1>10, DieType DEF Kill, tables
  <2> QED BY <1>0, <1>1, <1>2, <1>10, <2>1, TypeParts DEF Kill, tables
<1> QED BY <1>4, <1>5, <1>6, <1>7, <1>8, <1>9, <1>10 DEF Seed

LEMMA AnswerType ==
  ASSUME TypeOK, NEW r \in Requests,
         NEW asked \in {"list", "show", "create", "edit", "null", "delete", "nonsense"},
         NEW i \in Ids \cup {NoOne}, NEW code \in {200, 201, 204, 400, 404, 500},
         NEW seen \in SUBSET Ids, Answer(r, asked, i, code, seen), widgets' \in Rack
  PROVE  TypeOK'
<1>1. [asked |-> asked, id |-> i, code |-> code, seen |-> seen] \in Answers
  BY DEF Answers
<1>2. TablesOK' /\ SeedingOK'
  BY TypeParts DEF Answer, seeding, TablesOK, SeedingOK, Rack
<1>3. ServingOK'
  BY <1>1, TypeParts DEF Answer, ServingOK
<1> QED BY <1>2, <1>3, TypeParts DEF Answer

LEMMA ServeType ==
  ASSUME TypeOK, NEW r \in Requests, Serve(r) PROVE TypeOK'
<1>0. widgets \in Rack /\ caller[r] \in tenants \cup {NoOne}
  BY DEF TypeOK, Rack
<1>1. ASSUME NEW key \in Rows, Authenticate(r, key) PROVE TypeOK'
  <2>1. TablesOK' /\ SeedingOK' /\ ServingOK'
    BY <1>1, TypeParts DEF Authenticate, tables, seeding, TablesOK, SeedingOK, ServingOK, Rack
  <2> QED BY <1>1, <2>1, TypeParts DEF Authenticate
<1>2. ASSUME NEW i \in Ids, Show(r, i) \/ EditNulls(r, i) PROVE TypeOK'
  <2>1. widgets' \in Rack
    BY <1>0, <1>2 DEF Show, EditNulls
  <2>2. CASE Show(r, i)
    BY <2>1, <2>2, AnswerType DEF Show
  <2>3. CASE EditNulls(r, i)
    BY <2>1, <2>3, AnswerType DEF EditNulls
  <2> QED BY <1>2, <2>2, <2>3
<1>3. ASSUME NEW i \in Ids, Delete(r, i) PROVE TypeOK'
  <2>1. widgets' \in Rack
    BY <1>0, <1>3 DEF Delete, Rack
  <2> QED BY <1>3, <2>1, AnswerType DEF Delete
<1>4. ASSUME NEW i \in Ids, NEW f \in FieldLists, Create(r, i, f) PROVE TypeOK'
  <2>1. caller[r] \in tenants
    BY <1>0, <1>4 DEF Create, Answer
  <2>2. widgets' \in Rack
    BY <1>0, <1>4, <2>1 DEF Create, Rack
  <2>3. Answer(r, "create", i, 201, {i})
    BY <1>4 DEF Create
  <2> QED BY <2>2, <2>3, AnswerType
<1>5. ASSUME NEW i \in Ids, NEW f \in FieldLists, Edit(r, i, f) PROVE TypeOK'
  <2>1. widgets' \in Rack
    <3>1. CASE Owned(i, caller[r])
      <4>1. PICK w \in [owner : tenants, asks : FieldLists] : w = widgets[i]
        BY <1>0, <3>1 DEF Owned, Rack
      <4>2. [w EXCEPT !.asks = f] \in [owner : tenants, asks : FieldLists]
        OBVIOUS
      <4>3. widgets' = [widgets EXCEPT ![i] = [w EXCEPT !.asks = f]]
        BY <1>5, <3>1, <4>1 DEF Edit
      <4> QED BY <1>0, <4>2, <4>3 DEF Rack
    <3> QED BY <1>0, <1>5, <3>1 DEF Edit
  <2> QED BY <1>5, <2>1, AnswerType DEF Edit
<1>6. CASE List(r)
  <2>1. {i \in Ids : Owned(i, caller[r])} \in SUBSET Ids
    OBVIOUS
  <2> QED BY <1>0, <1>6, <2>1, AnswerType DEF List
<1>7. CASE Nonsense(r)
  BY <1>0, <1>7, AnswerType DEF Nonsense
<1> QED BY <1>1, <1>2, <1>3, <1>4, <1>5, <1>6, <1>7 DEF Serve
-----------------------------------------------------------------------------
(* Seeds. *)

\* A run touches its own locals, and, but for its start, runs.
LEMMA OthersKeep ==
  ASSUME TypeOK, NEW s \in Seeds, Seed(s), NEW u \in Seeds, u # s
  PROVE  /\ step'[u] = step[u] /\ at'[u] = at[u] /\ tenant'[u] = tenant[u]
         /\ left'[u] = left[u] /\ hand'[u] = hand[u]
<1>0. SeedingOK
  BY TypeParts
<1>1. CASE Look(s) \/ Insert(s)
  BY <1>0, <1>1 DEF SeedingOK, Look, Insert, Created, Die, Goto
<1> QED BY <1>0, <1>1 DEF SeedingOK, Seed, Start, Find, CreateTenant, AddApiKey, Kill, Die, Goto

LEMMA PlaceStep ==
  ASSUME IInv, NEW s \in Seeds, Seed(s) PROVE SeedsKnowTheirPlace'
<1>0. TypeOK /\ SeedingOK /\ TablesOK /\ Placed(s) /\ \A u \in Seeds : Placed(u)
  BY TypeParts DEF IInv, SeedsKnowTheirPlace
<1>1. ASSUME NEW u \in Seeds, u # s PROVE Placed(u)'
  BY <1>0, <1>1, OthersKeep DEF Placed, Running, Name
<1> SUFFICES Placed(s)'
  BY <1>1 DEF SeedsKnowTheirPlace
<1>2. ASSUME NEW i \in left[s], Created(s, i), Running(s), left[s] \subseteq Demos[Name(s)], step[s] \in {"look", "insert"}
      PROVE  Placed(s)'
  <2>1. CASE left[s] = {i}
    BY <1>0, <1>2, <2>1, SpecsNames DEF Created, Goto, SeedingOK, Placed, Running, Name, Ended
  <2>2. CASE left[s] # {i}
    BY <1>0, <1>2, <2>2 DEF Created, Goto, SeedingOK, Placed, Running, Name, Ended
  <2> QED BY <2>1, <2>2
<1>3. CASE Start(s)
  BY <1>0, <1>3, SpecsNames DEF Start, Goto, SeedingOK, Placed, Running, Name, Ended
<1>4. CASE Find(s)
  BY <1>0, <1>4, NobodyAndNothing DEF Find, FindByName, Goto, SeedingOK, TablesOK, Placed, Running, Name, Ended
<1>5. CASE CreateTenant(s)
  <2>1. <<s, Name(s)>> # NoOne
    BY <1>0, <1>5, Entry, NobodyAndNothing DEF CreateTenant, Placed, Running, Ended, Rows
  <2> QED BY <1>0, <1>5, <2>1 DEF CreateTenant, Goto, SeedingOK, Placed, Running, Name, Ended
<1>6. CASE AddApiKey(s)
  BY <1>0, <1>6 DEF AddApiKey, Goto, SeedingOK, Placed, Running, Name, Ended
<1>7. CASE Look(s)
  <2>1. PICK i \in left[s] : \/ Created(s, i)
                             \/ hand' = [hand EXCEPT ![s] = i] /\ Goto(s, "insert") /\ UNCHANGED <<at, left, tenant>>
    BY <1>7 DEF Look
  <2>2. Running(s) /\ step[s] = "look" /\ left[s] \subseteq Demos[Name(s)]
    BY <1>0, <1>7 DEF Look, Running, Ended, Placed
  <2>3. CASE Created(s, i)
    BY <1>2, <2>2, <2>3
  <2>4. CASE hand' = [hand EXCEPT ![s] = i] /\ Goto(s, "insert") /\ UNCHANGED <<at, left, tenant>>
    BY <1>0, <2>1, <2>2, <2>4 DEF Goto, SeedingOK, Placed, Running, Name, Ended
  <2> QED BY <2>1, <2>3, <2>4
<1>8. CASE Insert(s)
  <2>2. Running(s) /\ step[s] = "insert" /\ left[s] \subseteq Demos[Name(s)] /\ hand[s] \in left[s]
    BY <1>0, <1>8 DEF Insert, Running, Ended, Placed
  <2>3. CASE Created(s, hand[s])
    BY <1>2, <2>2, <2>3
  <2>4. CASE Die(s, "raised")
    BY <1>0, <2>4 DEF Die, Goto, SeedingOK, Placed, Running, Ended
  <2> QED BY <1>8, <2>3, <2>4 DEF Insert
<1>9. CASE Kill(s)
  BY <1>0, <1>9 DEF Kill, Die, Goto, SeedingOK, Placed, Running, Ended
<1> QED BY <1>3, <1>4, <1>5, <1>6, <1>7, <1>8, <1>9 DEF Seed

\* What a run of the seed does to the tables.
LEMMA SeedOnTables ==
  ASSUME IInv, NEW s \in Seeds, Seed(s)
  PROVE  \/ tables' = tables
         \/ step[s] = "create" /\ tenants' = tenants \cup {<<s, Name(s)>>} /\ UNCHANGED <<keys, widgets>>
         \/ step[s] = "key" /\ keys' = [keys EXCEPT ![<<s, Name(s)>>] = tenant[s]] /\ UNCHANGED <<tenants, widgets>>
         \/ /\ step[s] = "insert" /\ widgets[hand[s]] = Nothing
            /\ widgets' = [widgets EXCEPT ![hand[s]] = [owner |-> tenant[s], asks |-> DemoFields]]
            /\ UNCHANGED <<tenants, keys>>
BY DEF Seed, Start, Find, CreateTenant, AddApiKey, Look, Insert, Kill, tables

LEMMA NamesStep ==
  ASSUME IInv, NEW s \in Seeds, Seed(s) PROVE NamesMatch'
<1>0. TypeOK /\ SeedingOK /\ TablesOK /\ Placed(s) /\ NamesMatch
  BY TypeParts DEF IInv, SeedsKnowTheirPlace
<1>1. CASE keys' = keys /\ widgets' = widgets
  BY <1>0, <1>1 DEF NamesMatch
<1>2. CASE step[s] = "key" /\ keys' = [keys EXCEPT ![<<s, Name(s)>>] = tenant[s]] /\ UNCHANGED widgets
  BY <1>0, <1>2 DEF NamesMatch, TablesOK, Placed
<1>3. CASE /\ step[s] = "insert" /\ UNCHANGED keys
           /\ widgets' = [widgets EXCEPT ![hand[s]] = [owner |-> tenant[s], asks |-> DemoFields]]
  <2>1. hand[s] \in Demos[Name(s)] /\ Name(s) \in Names /\ hand[s] \in Ids /\ tenant[s][2] = Name(s)
    BY <1>0, <1>3, Entry DEF Placed, Running, Ended
  <2>2. ASSUME NEW n \in Names, NEW i \in Demos[n], widgets'[i] # Nothing PROVE widgets'[i].owner[2] = n
    <3>1. i \in Ids
      BY DemosAreIds
    <3>2. CASE i = hand[s]
      <4>1. n = Name(s)
        BY <2>1, <3>2, DemosAreOneTenants
      <4> QED BY <1>0, <1>3, <2>1, <3>2, <4>1 DEF TablesOK, Rack
    <3>3. CASE i # hand[s]
      BY <1>0, <1>3, <2>1, <2>2, <3>1, <3>3 DEF TablesOK, Rack, NamesMatch
    <3> QED BY <3>2, <3>3
  <2> QED BY <1>0, <1>3, <2>2 DEF NamesMatch
<1> QED BY <1>1, <1>2, <1>3, SeedOnTables DEF tables

LEMMA TwiceStep ==
  ASSUME IInv, NEW s \in Seeds, Seed(s), ~overlap' PROVE SafeToRunTwice' /\ MissingStaysMissing'
<1>0. TypeOK /\ SeedingOK /\ TablesOK /\ NamesMatch /\ \A u \in Seeds : Placed(u)
  BY TypeParts DEF IInv, SeedsKnowTheirPlace
<1>1. /\ ~overlap
      /\ \A u \in Seeds : u # s => ~Running(u)
  <2>1. CASE Start(s)
    BY <1>0, <2>1, TypeParts DEF Start, Running, Ended, TypeOK
  <2>2. CASE ~Start(s)
    <3>1. UNCHANGED overlap /\ Running(s)
      BY <2>2 DEF Seed, Find, CreateTenant, AddApiKey, Look, Insert, Kill, Running, Ended
    <3> QED BY <3>1 DEF IInv, MissingStaysMissing
  <2> QED BY <2>1, <2>2
<1>2. \A u \in Seeds : u # s => ~Running(u)' /\ step'[u] # "raised"
  BY <1>0, <1>1, OthersKeep DEF Running, IInv, SafeToRunTwice
<1>3. /\ \A t, u \in tenants : t[2] = u[2] => t = u
      /\ step[s] # "raised"
      /\ step[s] = "create" => FindByName(Name(s)) = {}
      /\ step[s] = "insert" => widgets[hand[s]] = Nothing
  BY <1>1 DEF IInv, SafeToRunTwice, MissingStaysMissing
<1>4. \A t, u \in tenants' : t[2] = u[2] => t = u
  <2>1. CASE tenants' = tenants
    BY <1>3, <2>1
  <2>2. CASE step[s] = "create" /\ tenants' = tenants \cup {<<s, Name(s)>>}
    <3>1. <<s, Name(s)>>[2] = Name(s) /\ \A t \in tenants : t[2] # Name(s)
      BY <1>3, <2>2 DEF FindByName
    <3> QED BY <1>3, <2>2, <3>1
  <2> QED BY <2>1, <2>2, SeedOnTables DEF tables
<1>5. step'[s] # "raised"
  <2>1. CASE Look(s) \/ Insert(s)
    BY <1>0, <1>3, <2>1 DEF Look, Insert, Created, Goto, SeedingOK
  <2> QED BY <1>0, <1>3, <2>1 DEF Seed, Start, Find, CreateTenant, AddApiKey, Kill, Die, Goto, SeedingOK
<1>6. step'[s] = "create" => FindByName(Name(s))' = {}
  <2>1. step'[s] = "create" => Find(s)
    <3>1. CASE Look(s) \/ Insert(s)
      BY <1>0, <3>1 DEF Look, Insert, Created, Die, Goto, SeedingOK
    <3> QED BY <1>0, <3>1 DEF Seed, Start, Find, CreateTenant, AddApiKey, Kill, Die, Goto, SeedingOK
  <2>2. Find(s) /\ step'[s] = "create" => FindByName(Name(s)) = {} /\ UNCHANGED <<tables, at>>
    BY <1>0 DEF Find, Goto, SeedingOK
  <2> QED BY <2>1, <2>2 DEF FindByName, Name, tables
<1>7. step'[s] = "insert" => widgets'[hand'[s]] = Nothing
  <2> SUFFICES ASSUME step'[s] = "insert" PROVE widgets'[hand'[s]] = Nothing
    OBVIOUS
  <2>1. Look(s)
    <3>1. CASE Insert(s)
      BY <1>0, <3>1 DEF Insert, Created, Die, Goto, SeedingOK
    <3> QED BY <1>0, <3>1 DEF Seed, Start, Find, CreateTenant, AddApiKey, Kill, Die, Goto, SeedingOK
  <2>2. PICK i \in left[s] : ~Owned(i, tenant[s]) /\ hand'[s] = i
    BY <1>0, <2>1 DEF Look, Created, Goto, SeedingOK
  <2>3. /\ i \in Demos[Name(s)] /\ Name(s) \in Names /\ i \in Ids /\ widgets' = widgets
        /\ tenant[s] \in tenants /\ tenant[s][2] = Name(s)
    BY <1>0, <2>1, <2>2, Entry DEF Look, Placed, Running, Ended, SeedingOK, tables
  <2>4. ASSUME widgets[i] # Nothing PROVE FALSE
    <3>1. widgets[i].owner \in tenants /\ widgets[i].owner[2] = Name(s)
      BY <1>0, <2>3, <2>4 DEF TablesOK, Rack, NamesMatch
    <3> QED BY <1>3, <2>2, <2>3, <2>4, <3>1 DEF Owned
  <2> QED BY <2>2, <2>3, <2>4
<1>8. SafeToRunTwice'
  BY <1>2, <1>4, <1>5 DEF SafeToRunTwice
<1>9. MissingStaysMissing'
  BY <1>2, <1>6, <1>7 DEF MissingStaysMissing, Running, Ended
<1> QED BY <1>8, <1>9
-----------------------------------------------------------------------------
(* Requests. *)

\* What a request does to the table of widgets.
LEMMA ServeOnTables ==
  ASSUME TypeOK, NEW r \in Requests, Serve(r)
  PROVE  /\ UNCHANGED <<tenants, keys, honeypot, seeding, overlap>>
         /\ \/ widgets' = widgets
            \/ \E i \in Ids, f \in FieldLists :
                 /\ widgets[i] = Nothing /\ i \notin DemoIds /\ ~Reserved(f) /\ caller[r] # NoOne
                 /\ widgets' = [widgets EXCEPT ![i] = [owner |-> caller[r], asks |-> f]]
            \/ \E i \in Ids, f \in FieldLists :
                 /\ Owned(i, caller[r]) /\ (~Reserved(f) \/ f = widgets[i].asks)
                 /\ widgets' = [widgets EXCEPT ![i].asks = f]
            \/ \E i \in Ids : widgets' = [widgets EXCEPT ![i] = Nothing]
<1>1. CASE \E key \in Rows : Authenticate(r, key)
  BY <1>1 DEF Authenticate, tables
<1>2. CASE List(r) \/ Nonsense(r)
  BY <1>2 DEF List, Nonsense, Answer
<1>3. ASSUME NEW i \in Ids, Show(r, i) \/ EditNulls(r, i) \/ Delete(r, i)
      PROVE  /\ UNCHANGED <<tenants, keys, honeypot, seeding, overlap>>
             /\ widgets' = widgets \/ widgets' = [widgets EXCEPT ![i] = Nothing]
  BY <1>3 DEF Show, EditNulls, Delete, Answer
<1>4. ASSUME NEW i \in Ids, NEW f \in FieldLists, Create(r, i, f)
      PROVE  /\ UNCHANGED <<tenants, keys, honeypot, seeding, overlap>>
             /\ widgets[i] = Nothing /\ i \notin DemoIds /\ ~Reserved(f) /\ caller[r] # NoOne
             /\ widgets' = [widgets EXCEPT ![i] = [owner |-> caller[r], asks |-> f]]
  BY <1>4 DEF Create, Answer
<1>5. ASSUME NEW i \in Ids, NEW f \in FieldLists, Edit(r, i, f)
      PROVE  /\ UNCHANGED <<tenants, keys, honeypot, seeding, overlap>>
             /\ \/ widgets' = widgets
                \/ /\ Owned(i, caller[r]) /\ (~Reserved(f) \/ f = widgets[i].asks)
                   /\ widgets' = [widgets EXCEPT ![i].asks = f]
  BY <1>5 DEF Edit, Answer
<1> QED BY <1>1, <1>2, <1>3, <1>4, <1>5 DEF Serve

\* No request makes a demo widget, or gives a widget to somebody else.
LEMMA ServeKeepsOwners ==
  ASSUME TypeOK, NEW r \in Requests, Serve(r), NEW i \in DemoIds, i \in Ids, widgets'[i] # Nothing
  PROVE  widgets[i] # Nothing /\ widgets'[i].owner = widgets[i].owner
<1>0. widgets \in Rack
  BY TypeParts DEF TablesOK
<1>1. ASSUME NEW j \in Ids, NEW f \in FieldLists, Owned(j, caller[r]), widgets' = [widgets EXCEPT ![j].asks = f]
      PROVE  widgets[i] # Nothing /\ widgets'[i].owner = widgets[i].owner
  <2>1. CASE i = j
    <3>1. PICK w \in [owner : tenants, asks : FieldLists] : w = widgets[i]
      BY <1>0, <1>1, <2>1 DEF Rack, Owned
    <3>2. widgets'[i] = [w EXCEPT !.asks = f]
      BY <1>0, <1>1, <2>1, <3>1 DEF Rack
    <3> QED BY <1>1, <2>1, <3>1, <3>2 DEF Owned
  <2>2. CASE i # j
    BY <1>0, <1>1, <2>2 DEF Rack
  <2> QED BY <2>1, <2>2
<1> QED BY <1>0, <1>1, ServeOnTables DEF Rack

LEMMA NextInv == IInv /\ [Next]_vars => IInv'
<1> SUFFICES ASSUME IInv, [Next]_vars PROVE IInv'
  OBVIOUS
<1>0. TypeOK /\ TablesOK /\ SeedingOK
  BY TypeParts DEF IInv
<1>1. ASSUME NEW s \in Seeds, Seed(s) PROVE IInv'
  <2>1. TypeOK' /\ SeedsKnowTheirPlace' /\ NamesMatch'
    BY <1>1, SeedType, PlaceStep, NamesStep
  <2>2. SafeToRunTwice' /\ MissingStaysMissing'
    BY <1>1, TwiceStep DEF SafeToRunTwice, MissingStaysMissing
  <2> QED BY <2>1, <2>2 DEF IInv
<1>2. ASSUME NEW r \in Requests, Serve(r) PROVE IInv'
  <2>1. TypeOK' /\ UNCHANGED <<tenants, keys, honeypot, seeding, overlap>>
    BY <1>0, <1>2, ServeType, ServeOnTables
  <2>2. SeedsKnowTheirPlace'
    BY <2>1 DEF IInv, SeedsKnowTheirPlace, Placed, Running, Name, seeding
  <2>3. NamesMatch'
    BY <1>0, <1>2, <2>1, ServeKeepsOwners, DemosAreIds DEF IInv, NamesMatch
  <2>4. SafeToRunTwice'
    BY <2>1 DEF IInv, SafeToRunTwice, seeding
  <2>5. MissingStaysMissing'
    <3>1. ASSUME NEW s \in Seeds, step[s] = "insert" PROVE hand[s] \in DemoIds /\ hand[s] \in Ids
      BY <1>0, <3>1, Entry, DemosAreIds DEF IInv, SeedsKnowTheirPlace, Placed, Running, Ended
    <3>2. ASSUME NEW s \in Seeds, step[s] = "insert", widgets[hand[s]] = Nothing PROVE widgets'[hand[s]] = Nothing
      BY <1>0, <1>2, <3>1, <3>2, ServeKeepsOwners
    <3> QED BY <2>1, <3>2 DEF IInv, MissingStaysMissing, FindByName, Running, Name, seeding
  <2> QED BY <2>1, <2>2, <2>3, <2>4, <2>5 DEF IInv
<1>3. CASE Redeploy
  <2> USE <1>3 DEF Redeploy, tables, seeding
  <2>1. TypeOK'
    BY <1>0 DEF TypeOK
  <2>2. SeedsKnowTheirPlace' /\ NamesMatch' /\ SafeToRunTwice' /\ MissingStaysMissing'
    BY DEF IInv, SeedsKnowTheirPlace, Placed, NamesMatch, SafeToRunTwice, MissingStaysMissing,
           FindByName, Running, Name
  <2> QED BY <2>1, <2>2 DEF IInv
<1>4. CASE UNCHANGED vars
  <2> USE <1>4 DEF vars, tables, seeding, serving
  <2>1. TypeOK'
    BY <1>0 DEF TypeOK
  <2>2. SeedsKnowTheirPlace' /\ NamesMatch' /\ SafeToRunTwice' /\ MissingStaysMissing'
    BY DEF IInv, SeedsKnowTheirPlace, Placed, NamesMatch, SafeToRunTwice, MissingStaysMissing,
           FindByName, Running, Name
  <2> QED BY <2>1, <2>2 DEF IInv
<1> QED BY <1>1, <1>2, <1>3, <1>4 DEF Next

LEMMA Invariance == Spec => []IInv
BY InitInv, NextInv, PTL DEF Spec
-----------------------------------------------------------------------------
(* The theorems. *)

\* Types, and with them that a key, a widget and a request in progress never
\* have an owner that is not a row of tenants.
THEOREM TypeCorrect == Spec => []TypeOK
<1>1. IInv => TypeOK
  BY DEF IInv
<1> QED BY <1>1, Invariance, PTL

\* scripts/seed.py, "Safe to run twice": whatever TENANTS lists, wherever
\* earlier runs were killed and whatever owners did in between.
THEOREM SeedIsRepeatable == Spec => []SafeToRunTwice
<1>1. IInv => SafeToRunTwice
  BY DEF IInv
<1> QED BY <1>1, Invariance, PTL

\* find_by_name and add_api_key: also of runs that overlap, a printed key opens
\* a tenant of its name, and demo widgets are in the hands they are meant for.
THEOREM KeysOpenTheirName == Spec => []NamesMatch
<1>1. IInv => NamesMatch
  BY DEF IInv
<1> QED BY <1>1, Invariance, PTL

\* check_fields: no owner gets a widget to ask for the field that marks a bot.
THEOREM OwnersAvoidTheTrap == Spec => HoneypotStaysFree
<1>1. ASSUME IInv, [Next]_vars, NEW i \in Ids, Trapped(i)', ~Trapped(i), honeypot' = honeypot
      PROVE  i \in DemoIds /\ widgets[i] = Nothing
  <2>0. TypeOK /\ widgets \in Rack
    BY <1>1, TypeParts DEF IInv, TablesOK
  <2>1. ASSUME NEW s \in Seeds, Seed(s) PROVE i \in DemoIds /\ widgets[i] = Nothing
    <3>1. step[s] = "insert" => hand[s] \in DemoIds /\ hand[s] \in Ids
      BY <1>1, <2>0, Entry, DemosAreIds DEF IInv, SeedsKnowTheirPlace, Placed, Running, Ended
    <3>2. widgets' # widgets
      BY <1>1 DEF Trapped
    <3>3. /\ step[s] = "insert" /\ widgets[hand[s]] = Nothing
          /\ widgets' = [widgets EXCEPT ![hand[s]] = [owner |-> tenant[s], asks |-> DemoFields]]
      BY <1>1, <2>1, <3>2, SeedOnTables DEF tables
    <3>4. i = hand[s]
      BY <1>1, <2>0, <3>3 DEF Trapped, Rack
    <3> QED BY <3>1, <3>3, <3>4
  <2>2. ASSUME NEW r \in Requests, Serve(r) PROVE FALSE
    <3>1. ASSUME NEW j \in Ids, NEW f \in FieldLists, ~Reserved(f),
                 widgets' = [widgets EXCEPT ![j] = [owner |-> caller[r], asks |-> f]]
          PROVE  FALSE
      BY <1>1, <2>0, <3>1 DEF Trapped, Rack, Reserved
    <3>2. ASSUME NEW j \in Ids, NEW f \in FieldLists, Owned(j, caller[r]), ~Reserved(f) \/ f = widgets[j].asks,
                 widgets' = [widgets EXCEPT ![j].asks = f]
          PROVE  FALSE
      <4>1. i = j
        BY <1>1, <2>0, <3>2 DEF Trapped, Rack
      <4>2. PICK w \in [owner : tenants, asks : FieldLists] : w = widgets[j]
        BY <2>0, <3>2 DEF Rack, Owned
      <4>3. widgets'[j].asks = f
        BY <2>0, <3>2, <4>2 DEF Rack
      <4> QED BY <1>1, <3>2, <4>1, <4>3 DEF Trapped, Reserved, Owned
    <3>3. ASSUME NEW j \in Ids, widgets' = [widgets EXCEPT ![j] = Nothing] PROVE FALSE
      BY <1>1, <2>0, <3>3 DEF Trapped, Rack
    <3>4. widgets' # widgets
      BY <1>1 DEF Trapped
    <3> QED BY <2>0, <2>2, <3>1, <3>2, <3>3, <3>4, ServeOnTables
  <2>3. CASE Redeploy \/ UNCHANGED vars
    BY <1>1, <2>3 DEF Redeploy, vars, tables, Trapped
  <2> QED BY <1>1, <2>1, <2>2, <2>3 DEF Next
<1>2. IInv /\ [Next]_vars =>
        [\A i \in Ids : Trapped(i)' /\ ~Trapped(i) => \/ honeypot' # honeypot
                                                      \/ i \in DemoIds /\ widgets[i] = Nothing]_vars
  BY <1>1
<1> QED BY <1>2, Invariance, PTL DEF Spec, HoneypotStaysFree
-----------------------------------------------------------------------------
(* The refinement of TenantShelves. *)

\* One widget's change is one place of its owner's shelf; the other shelves
\* stay as they are.
LEMMA PutOnShelf ==
  ASSUME TypeOK, NEW i \in Ids, NEW t \in Rows, NEW f,
         \A j \in Ids \ {i} : widgets'[j] = widgets[j],
         widgets[i] = Nothing \/ widgets[i].owner = t,
         \/ widgets'[i] = Nothing /\ f = Nothing
         \/ widgets'[i] # Nothing /\ widgets'[i].owner = t /\ widgets'[i].asks = f
  PROVE  Shelves!Put(t, i, f)
<1>1. \A u \in Rows : Shelf(u)' = IF u = t THEN [Shelf(u) EXCEPT ![i] = f] ELSE Shelf(u)
  <2> SUFFICES ASSUME NEW u \in Rows
               PROVE  Shelf(u)' = IF u = t THEN [Shelf(u) EXCEPT ![i] = f] ELSE Shelf(u)
    OBVIOUS
  <2>1. CASE u = t
    BY <2>1 DEF Shelf
  <2>2. CASE u # t
    BY <2>2 DEF Shelf
  <2> QED BY <2>1, <2>2
<1>2. [u \in Rows |-> Shelf(u)]' = [[u \in Rows |-> Shelf(u)] EXCEPT ![t] = [Shelf(t) EXCEPT ![i] = f]]
  BY <1>1
<1> QED BY <1>2 DEF Shelves!Put

LEMMA ShelvesKeep == ASSUME UNCHANGED widgets PROVE UNCHANGED [t \in Rows |-> Shelf(t)]
BY DEF Shelf

\* A shelf holds what its tenant owns, and no shelf an id that is free.
LEMMA OnShelf ==
  ASSUME TypeOK, NEW t \in Rows
  PROVE  Shelves!On(t) = {i \in Ids : Owned(i, t)}
<1>1. ASSUME NEW i \in Ids, widgets[i] # Nothing PROVE widgets[i].asks # Nothing
  BY <1>1, NobodyAndNothing DEF TypeOK
<1>2. Shelves!On(t) = {i \in Ids : Shelf(t)[i] # Nothing}
  BY DEF Shelves!On
<1>3. \A i \in Ids : Shelf(t)[i] # Nothing <=> Owned(i, t)
  BY <1>1 DEF Shelf, Owned
<1> QED BY <1>2, <1>3

LEMMA FreeIsUnused ==
  ASSUME TypeOK, NEW i \in Ids, widgets[i] = Nothing PROVE i \in Shelves!Unused
BY OnShelf DEF Owned, Shelves!Unused

LEMMA SeedRefines ==
  ASSUME IInv, NEW s \in Seeds, Seed(s)
  PROVE  (\E t \in Rows : Shelves!Provide(t)) \/ UNCHANGED Shelves!svars
<1>0. TypeOK /\ SeedingOK /\ TablesOK /\ Placed(s)
  BY TypeParts DEF IInv, SeedsKnowTheirPlace
<1>1. UNCHANGED <<caller, answer>>
  BY DEF Seed, Start, Find, CreateTenant, AddApiKey, Look, Insert, Kill, serving
<1>2. CASE widgets' = widgets
  BY <1>1, <1>2, ShelvesKeep DEF Shelves!svars
<1>3. CASE /\ step[s] = "insert" /\ widgets[hand[s]] = Nothing
           /\ widgets' = [widgets EXCEPT ![hand[s]] = [owner |-> tenant[s], asks |-> DemoFields]]
  <2>1. hand[s] \in Ids /\ tenant[s] \in Rows /\ Demos[Name(s)] \subseteq Ids
    BY <1>0, <1>3, Entry DEF Placed, Running, Ended, SeedingOK, TablesOK
  <2>2. [owner |-> tenant[s], asks |-> DemoFields] # Nothing
    BY <2>1, NobodyAndNothing
  <2>3. Shelves!Put(tenant[s], hand[s], DemoFields)
    BY <1>0, <1>3, <2>1, <2>2, PutOnShelf DEF TablesOK, Rack
  <2>4. hand[s] \in Shelves!Unused
    BY <1>0, <1>3, <2>1, FreeIsUnused
  <2>5. Shelves!Provide(tenant[s])
    BY <1>1, <2>1, <2>3, <2>4, NobodyAndNothing DEF Shelves!Provide
  <2> QED BY <2>1, <2>5
<1> QED BY <1>2, <1>3, SeedOnTables DEF tables

LEMMA ServeRefines ==
  ASSUME TypeOK, NEW r \in Requests, Serve(r)
  PROVE  \E t \in Rows : Shelves!Open(r, t) \/ Shelves!Act(r, t)
<1>0. TablesOK /\ ServingOK
  BY TypeParts
<1> DEFINE t == caller[r]
<1>1. ASSUME NEW key \in Rows, Authenticate(r, key) PROVE \E u \in Rows : Shelves!Open(r, u)
  <2>1. keys[key] \in Rows /\ UNCHANGED widgets
    BY <1>0, <1>1 DEF Authenticate, TablesOK, tables
  <2>2. Shelves!Open(r, keys[key])
    BY <1>1, <2>1, ShelvesKeep DEF Authenticate, Shelves!Open
  <2> QED BY <2>1, <2>2
<1>2. ASSUME NEW asked, NEW i, NEW code, NEW seen, Answer(r, asked, i, code, seen)
      PROVE  Shelves!Reply(r, asked, i, code, seen) /\ t \in Rows /\ t \in tenants
  BY <1>0, <1>2 DEF Answer, Shelves!Reply, TablesOK, ServingOK
<1>3. t \in Rows => Shelves!On(t) = {i \in Ids : Owned(i, t)}
  BY OnShelf
<1> HIDE DEF t
<1>4. ASSUME List(r) PROVE t \in Rows /\ Shelves!Act(r, t)
  <2>1. Answer(r, "list", NoOne, 200, {i \in Ids : Owned(i, t)}) /\ UNCHANGED widgets
    BY <1>4 DEF List, t
  <2>2. t \in Rows /\ Shelves!Reply(r, "list", NoOne, 200, Shelves!On(t))
    BY <1>2, <1>3, <2>1
  <2> QED BY <2>1, <2>2, ShelvesKeep DEF Shelves!Act, t
<1>5. ASSUME Nonsense(r) PROVE t \in Rows /\ Shelves!Act(r, t)
  <2>1. PICK code \in {400, 500} : Answer(r, "nonsense", NoOne, code, {}) /\ UNCHANGED widgets
    BY <1>5 DEF Nonsense
  <2>2. t \in Rows /\ Shelves!Reply(r, "nonsense", NoOne, code, {})
    BY <1>2, <2>1
  <2> QED BY <2>1, <2>2, ShelvesKeep DEF Shelves!Act, t
<1>6. ASSUME NEW i \in Ids, NEW f \in FieldLists, Create(r, i, f) PROVE t \in Rows /\ Shelves!Act(r, t)
  <2>1. /\ Answer(r, "create", i, 201, {i}) /\ widgets[i] = Nothing
        /\ widgets' = [widgets EXCEPT ![i] = [owner |-> t, asks |-> f]]
    BY <1>6 DEF Create, t
  <2>2. t \in Rows /\ Shelves!Reply(r, "create", i, 201, {i})
    BY <1>2, <2>1
  <2>3. [owner |-> t, asks |-> f] # Nothing
    BY <2>2, NobodyAndNothing
  <2>4. Shelves!Put(t, i, f)
    BY <1>0, <2>1, <2>2, <2>3, PutOnShelf DEF TablesOK, Rack
  <2>5. i \in Shelves!Unused
    BY <2>1, FreeIsUnused
  <2> QED BY <2>2, <2>4, <2>5 DEF Shelves!Act, t
<1>7. ASSUME NEW i \in Ids, NEW asked \in {"show", "edit", "null", "delete"},
             Answer(r, asked, i, 404, {}), ~Owned(i, t), UNCHANGED widgets
      PROVE  t \in Rows /\ Shelves!Act(r, t)
  <2>1. t \in Rows /\ Shelves!Reply(r, asked, i, 404, {})
    BY <1>2, <1>7
  <2>2. i \notin Shelves!On(t)
    BY <1>3, <1>7, <2>1
  <2>3. Shelves!Missing(r, asked, i)
    BY <1>7, <2>1, <2>2, ShelvesKeep DEF Shelves!Missing, t
  <2> QED BY <2>1, <2>3 DEF Shelves!Act, Shelves!Named, t
<1>8. ASSUME NEW i \in Ids, Show(r, i) \/ EditNulls(r, i) PROVE t \in Rows /\ Shelves!Act(r, t)
  <2>1. CASE ~Owned(i, t)
    BY <1>7, <1>8, <2>1 DEF Show, EditNulls, t
  <2>2. CASE Owned(i, t)
    <3>1. /\ Answer(r, "show", i, 200, {i}) \/ Answer(r, "null", i, 500, {})
          /\ UNCHANGED widgets
      BY <1>8, <2>2 DEF Show, EditNulls, t
    <3>2. /\ t \in Rows
          /\ Shelves!Reply(r, "show", i, 200, {i}) \/ Shelves!Reply(r, "null", i, 500, {})
      BY <1>2, <3>1
    <3>3. i \in Shelves!On(t)
      BY <1>3, <2>2, <3>2
    <3> QED BY <3>1, <3>2, <3>3, ShelvesKeep DEF Shelves!Act, Shelves!Named, t
  <2> QED BY <2>1, <2>2
<1>9. ASSUME NEW i \in Ids, NEW f \in FieldLists, Edit(r, i, f) PROVE t \in Rows /\ Shelves!Act(r, t)
  <2>1. CASE ~Owned(i, t)
    BY <1>7, <1>9, <2>1 DEF Edit, t
  <2>2. CASE Owned(i, t)
    <3>1. Answer(r, "edit", i, 200, {i}) /\ widgets' = [widgets EXCEPT ![i].asks = f]
      BY <1>9, <2>2 DEF Edit, t
    <3>2. t \in Rows /\ Shelves!Reply(r, "edit", i, 200, {i})
      BY <1>2, <3>1
    <3>3. i \in Shelves!On(t)
      BY <1>3, <2>2, <3>2
    <3>4. PICK w \in [owner : tenants, asks : FieldLists] : w = widgets[i]
      BY <1>0, <2>2 DEF TablesOK, Rack, Owned
    <3>5. widgets'[i] = [w EXCEPT !.asks = f] /\ \A j \in Ids \ {i} : widgets'[j] = widgets[j]
      BY <1>0, <3>1, <3>4 DEF TablesOK, Rack
    <3>6. w.owner = t /\ widgets'[i].owner = t /\ widgets'[i].asks = f
      BY <2>2, <3>4, <3>5 DEF Owned
    <3>7. widgets'[i] = [owner |-> t, asks |-> f]
      BY <3>5, <3>6
    <3>8. widgets'[i] # Nothing
      BY <3>2, <3>7, NobodyAndNothing
    <3>9. Shelves!Put(t, i, f)
      BY <3>2, <3>4, <3>5, <3>6, <3>8, PutOnShelf
    <3> QED BY <3>2, <3>3, <3>9 DEF Shelves!Act, Shelves!Named, t
  <2> QED BY <2>1, <2>2
<1>10. ASSUME NEW i \in Ids, Delete(r, i) PROVE t \in Rows /\ Shelves!Act(r, t)
  <2>1. CASE ~Owned(i, t)
    BY <1>7, <1>10, <2>1 DEF Delete, t
  <2>2. CASE Owned(i, t)
    <3>1. Answer(r, "delete", i, 204, {}) /\ widgets' = [widgets EXCEPT ![i] = Nothing]
      BY <1>10, <2>2 DEF Delete, t
    <3>2. t \in Rows /\ Shelves!Reply(r, "delete", i, 204, {})
      BY <1>2, <3>1
    <3>3. i \in Shelves!On(t)
      BY <1>3, <2>2, <3>2
    <3>4. Shelves!Put(t, i, Nothing)
      BY <1>0, <2>2, <3>1, <3>2, PutOnShelf DEF TablesOK, Rack, Owned
    <3> QED BY <3>2, <3>3, <3>4 DEF Shelves!Act, Shelves!Named, t
  <2> QED BY <2>1, <2>2
<1> QED BY <1>1, <1>4, <1>5, <1>6, <1>8, <1>9, <1>10 DEF Serve

\* Tenants are apart: what the tables and the seed do together is, to owners,
\* a shelf for each, and every answer follows from the caller's alone.
THEOREM TenantsAreApart == Spec => Implements
<1>1. Init => Shelves!SInit
  BY DEF Init, Shelf, Shelves!SInit
<1>2. ASSUME IInv, [Next]_vars PROVE [Shelves!SNext]_(Shelves!svars)
  <2>1. ASSUME NEW s \in Seeds, Seed(s) PROVE [Shelves!SNext]_(Shelves!svars)
    BY <1>2, <2>1, SeedRefines DEF Shelves!SNext
  <2>2. ASSUME NEW r \in Requests, Serve(r) PROVE Shelves!SNext
    BY <1>2, <2>2, ServeRefines DEF Shelves!SNext, IInv
  <2>3. CASE Redeploy
    BY <2>3, ShelvesKeep DEF Redeploy, tables, Shelves!Cut, Shelves!SNext
  <2>4. CASE UNCHANGED vars
    BY <2>4, ShelvesKeep DEF vars, tables, serving, Shelves!svars
  <2> QED BY <1>2, <2>1, <2>2, <2>3, <2>4 DEF Next
<1> QED BY <1>1, <1>2, Invariance, PTL DEF Spec, Implements, Shelves!SSpec
=============================================================================
