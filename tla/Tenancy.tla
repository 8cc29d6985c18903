------------------------------ MODULE Tenancy ------------------------------
(***************************************************************************)
(* Tenants, API keys and the owners' API: scripts/seed.py makes tenants,   *)
(* keys and demo widgets; app/api/deps.py turns a key into a tenant;       *)
(* app/services/widgets.py and app/repositories/widgets.py work on that    *)
(* tenant's widgets.  Every repository call is a transaction of one        *)
(* statement and one action here.                                          *)
(*                                                                         *)
(* A tenant's row and a key are each named after the run of the seed and   *)
(* the entry of TENANTS that made them.  Of a widget only its owner and    *)
(* the names of its fields are kept.  A request whose key is unknown is    *)
(* answered 401 and touches nothing: it is left out.                       *)
(***************************************************************************)
EXTENDS Naturals, Sequences

CONSTANTS Specs,      \* the names in TENANTS, in order
          Demos,      \* per name: the fixed ids of its demo widgets
          DemoFields, \* the field list the seed gives them
          Seeds,      \* runs of the seed
          Requests,   \* requests in the process
          Ids,        \* widget ids, fixed and random
          FieldLists, \* field lists a widget may have, each a set of names
          Honeypots,  \* values of HONEYPOT_FIELD a deployment may have
          NoOne, Nothing

Names == {Specs[k] : k \in 1..Len(Specs)}
Rows == Seeds \X Names
DemoIds == UNION {Demos[n] : n \in Names}

ASSUME TenancyAssumption ==
  /\ Specs \in Seq(Names) /\ Len(Specs) > 0
  /\ Demos \in [Names -> (SUBSET Ids) \ {{}}]
  /\ \A m, n \in Names : m # n => Demos[m] \cap Demos[n] = {}
  /\ DemoFields \in FieldLists /\ NoOne \notin Rows \cup Ids
  /\ Nothing \notin FieldLists \cup [owner : Rows, asks : FieldLists]

VARIABLES tenants,  \* rows of tenants
          keys,     \* per key: the tenant it opens, NoOne if it is not stored
          widgets,  \* per id: [owner, asks] or Nothing
          honeypot, \* HONEYPOT_FIELD of the running process
          step, at, tenant, left, hand, \* per seed: its place and its locals
          caller, answer,               \* per request: its tenant, its last answer
          overlap   \* history: two seeds have run at the same time

seeding == <<step, at, tenant, left, hand>>
serving == <<caller, answer>>
tables == <<tenants, keys, widgets>>
vars == <<tables, honeypot, seeding, serving, overlap>>

Init == /\ tenants = {} /\ keys = [k \in Rows |-> NoOne] /\ widgets = [i \in Ids |-> Nothing]
        /\ honeypot \in Honeypots
        /\ step = [s \in Seeds |-> "idle"] /\ at = [s \in Seeds |-> 1]
        /\ tenant = [s \in Seeds |-> NoOne]
        /\ left = [s \in Seeds |-> {}] /\ hand = [s \in Seeds |-> NoOne]
        /\ caller = [r \in Requests |-> NoOne] /\ answer = [r \in Requests |-> NoOne]
        /\ overlap = FALSE
-----------------------------------------------------------------------------
(* The seed. *)

Ended == {"idle", "done", "raised", "killed"}
Running(s) == step[s] \notin Ended
Name(s) == Specs[at[s]]
Goto(s, next) == step' = [step EXCEPT ![s] = next]

Start(s) == /\ step[s] = "idle"
            /\ Goto(s, "find")
            /\ overlap' = (overlap \/ \E other \in Seeds : Running(other))
            /\ UNCHANGED <<tables, honeypot, at, tenant, left, hand, serving>>

\* Mutants: the seed never finds a tenant; it finds one of any name.
FindNobody(n) == {}
FindAnyone(n) == tenants
FindByName(n) == {t \in tenants : t[2] = n}

\* Names are not unique in the table: of several rows, fetchone has any.
Find(s) == /\ step[s] = "find"
           /\ IF FindByName(Name(s)) = {}
              THEN Goto(s, "create") /\ UNCHANGED tenant
              ELSE /\ \E t \in FindByName(Name(s)) : tenant' = [tenant EXCEPT ![s] = t]
                   /\ Goto(s, "key")
           /\ UNCHANGED <<tables, honeypot, at, left, hand, serving, overlap>>

\* Mutant: the row is created and its id is not kept.
CreateTenantForgets(s) == /\ step[s] = "create"
                          /\ tenants' = tenants \cup {<<s, Name(s)>>}
                          /\ Goto(s, "key")
                          /\ UNCHANGED <<keys, widgets, honeypot, at, tenant, left, hand, serving, overlap>>
CreateTenant(s) == /\ step[s] = "create"
                   /\ tenants' = tenants \cup {<<s, Name(s)>>}
                   /\ tenant' = [tenant EXCEPT ![s] = <<s, Name(s)>>]
                   /\ Goto(s, "key")
                   /\ UNCHANGED <<keys, widgets, honeypot, at, left, hand, serving, overlap>>

AddApiKey(s) == /\ step[s] = "key"
                /\ keys' = [keys EXCEPT ![<<s, Name(s)>>] = tenant[s]]
                /\ left' = [left EXCEPT ![s] = Demos[Name(s)]]
                /\ Goto(s, "look")
                /\ UNCHANGED <<tenants, widgets, honeypot, at, tenant, hand, serving, overlap>>

\* One statement on one tenant's widget.  Mutant: the clause on tenant_id is
\* forgotten.
OwnedByAnyone(i, t) == widgets[i] # Nothing
Owned(i, t) == widgets[i] # Nothing /\ widgets[i].owner = t

\* After the last widget of an entry its key is printed.
Created(s, i) == /\ left' = [left EXCEPT ![s] = @ \ {i}]
                 /\ hand' = [hand EXCEPT ![s] = NoOne]
                 /\ IF left[s] = {i}
                    THEN /\ at' = [at EXCEPT ![s] = @ + 1]
                         /\ tenant' = [tenant EXCEPT ![s] = NoOne]
                         /\ Goto(s, IF at[s] = Len(Specs) THEN "done" ELSE "find")
                    ELSE Goto(s, "look") /\ UNCHANGED <<at, tenant>>

\* What the run held is gone with it.
Die(s, how) == /\ Goto(s, how)
               /\ tenant' = [tenant EXCEPT ![s] = NoOne]
               /\ left' = [left EXCEPT ![s] = {}]
               /\ hand' = [hand EXCEPT ![s] = NoOne]
               /\ UNCHANGED at

Look(s) == /\ step[s] = "look"
           /\ \E i \in left[s] : IF Owned(i, tenant[s])
                                 THEN Created(s, i)
                                 ELSE /\ hand' = [hand EXCEPT ![s] = i]
                                      /\ Goto(s, "insert")
                                      /\ UNCHANGED <<at, left, tenant>>
           /\ UNCHANGED <<tables, honeypot, serving, overlap>>

\* The id is the primary key: a widget of another tenant under it makes the
\* insert raise, and the seed with it.
Insert(s) == /\ step[s] = "insert"
             /\ IF widgets[hand[s]] = Nothing
                THEN /\ widgets' = [widgets EXCEPT ![hand[s]] = [owner |-> tenant[s], asks |-> DemoFields]]
                     /\ Created(s, hand[s])
                ELSE Die(s, "raised") /\ UNCHANGED widgets
             /\ UNCHANGED <<tenants, keys, honeypot, serving, overlap>>

Kill(s) == /\ Running(s)
           /\ Die(s, "killed")
           /\ UNCHANGED <<tables, honeypot, serving, overlap>>
-----------------------------------------------------------------------------
(* The owners' API. *)

Printed == {<<s, Specs[k]>> : s \in Seeds, k \in 1..Len(Specs)} \cap
           {key \in Rows : \E k \in 1..(at[key[1]] - 1) : Specs[k] = key[2]}

Authenticate(r, key) == /\ caller[r] = NoOne /\ key \in Printed /\ keys[key] # NoOne
                        /\ caller' = [caller EXCEPT ![r] = keys[key]]
                        /\ answer' = [answer EXCEPT ![r] = NoOne]
                        /\ UNCHANGED <<tables, honeypot, seeding, overlap>>

Answer(r, asked, i, code, seen) ==
  /\ caller[r] # NoOne
  /\ caller' = [caller EXCEPT ![r] = NoOne]
  /\ answer' = [answer EXCEPT ![r] = [asked |-> asked, id |-> i, code |-> code, seen |-> seen]]
  /\ UNCHANGED <<tenants, keys, honeypot, seeding, overlap>>

\* check_fields refuses the honeypot's name; field lists it refuses for other
\* reasons are among the nonsense.  Mutant: it does not know the name.
NeverReserved(f) == FALSE
Reserved(f) == honeypot \in f

List(r) == /\ Answer(r, "list", NoOne, 200, {i \in Ids : Owned(i, caller[r])})
           /\ UNCHANGED widgets

Show(r, i) == /\ IF Owned(i, caller[r]) THEN Answer(r, "show", i, 200, {i})
                                        ELSE Answer(r, "show", i, 404, {})
              /\ UNCHANGED widgets

\* A random id, which nobody has.
Create(r, i, f) == /\ widgets[i] = Nothing /\ i \notin DemoIds /\ ~Reserved(f)
                   /\ widgets' = [widgets EXCEPT ![i] = [owner |-> caller[r], asks |-> f]]
                   /\ Answer(r, "create", i, 201, {i})

\* A PATCH with a new field list, or of other columns only.
Edit(r, i, f) == IF Owned(i, caller[r])
                 THEN /\ ~Reserved(f) \/ f = widgets[i].asks
                      /\ widgets' = [widgets EXCEPT ![i].asks = f]
                      /\ Answer(r, "edit", i, 200, {i})
                 ELSE Answer(r, "edit", i, 404, {}) /\ UNCHANGED widgets

\* {"title": null} passes the optional field and meets NOT NULL, if a row does.
EditNulls(r, i) == /\ IF Owned(i, caller[r]) THEN Answer(r, "null", i, 500, {})
                                             ELSE Answer(r, "null", i, 404, {})
                   /\ UNCHANGED widgets

Delete(r, i) == IF Owned(i, caller[r])
                THEN widgets' = [widgets EXCEPT ![i] = Nothing] /\ Answer(r, "delete", i, 204, {})
                ELSE Answer(r, "delete", i, 404, {}) /\ UNCHANGED widgets

\* 400 for a body or a field list that is refused, 500 for {"fields": null},
\* both before any statement.
Nonsense(r) == \E code \in {400, 500} : Answer(r, "nonsense", NoOne, code, {}) /\ UNCHANGED widgets

\* A new process, with the honeypot's name the deployment gives it.
Redeploy == /\ honeypot' \in Honeypots
            /\ caller' = [r \in Requests |-> NoOne]
            /\ UNCHANGED <<tables, seeding, answer, overlap>>
-----------------------------------------------------------------------------
Seed(s) == \/ Start(s) \/ Find(s) \/ CreateTenant(s) \/ AddApiKey(s)
           \/ Look(s) \/ Insert(s) \/ Kill(s)
Serve(r) == \/ \E key \in Rows : Authenticate(r, key)
            \/ List(r) \/ Nonsense(r)
            \/ \E i \in Ids : \/ Show(r, i) \/ EditNulls(r, i) \/ Delete(r, i)
                              \/ \E f \in FieldLists : Create(r, i, f) \/ Edit(r, i, f)

Next == Redeploy \/ (\E s \in Seeds : Seed(s)) \/ (\E r \in Requests : Serve(r))
Spec == Init /\ [][Next]_vars
-----------------------------------------------------------------------------
(* Properties. *)

Answers == [asked : {"list", "show", "create", "edit", "null", "delete", "nonsense"},
            id : Ids \cup {NoOne}, code : {200, 201, 204, 400, 404, 500}, seen : SUBSET Ids]
TypeOK ==
  /\ tenants \subseteq Rows /\ keys \in [Rows -> tenants \cup {NoOne}]
  /\ widgets \in [Ids -> [owner : tenants, asks : FieldLists] \cup {Nothing}]
  /\ honeypot \in Honeypots /\ overlap \in BOOLEAN
  /\ step \in [Seeds -> Ended \cup {"find", "create", "key", "look", "insert"}]
  /\ at \in [Seeds -> 1..(Len(Specs) + 1)] /\ tenant \in [Seeds -> tenants \cup {NoOne}]
  /\ left \in [Seeds -> SUBSET Ids] /\ hand \in [Seeds -> Ids \cup {NoOne}]
  /\ caller \in [Requests -> tenants \cup {NoOne}]
  /\ answer \in [Requests -> Answers \cup {NoOne}]

\* "Safe to run twice: tenants and widgets are only created if missing"
\* (scripts/seed.py), also after a run that was killed anywhere: as long as no
\* two runs overlap, no name has two tenants and no run fails.
SafeToRunTwice == ~overlap => /\ \A t, u \in tenants : t[2] = u[2] => t = u
                              /\ \A s \in Seeds : step[s] # "raised"

\* Whatever overlaps, a key opens a tenant of the name it was printed under, and
\* a demo widget belongs to a tenant of the name it was made for.
NamesMatch == /\ \A k \in Rows : keys[k] # NoOne => keys[k][2] = k[2]
              /\ \A n \in Names : \A i \in Demos[n] : widgets[i] # Nothing => widgets[i].owner[2] = n

\* Only a redeploy, or the seed, which does not pass check_fields, can make a
\* widget ask people for the field that marks a bot.
Trapped(i) == widgets[i] # Nothing /\ honeypot \in widgets[i].asks
HoneypotStaysFree ==
  [][\A i \in Ids : Trapped(i)' /\ ~Trapped(i) => \/ honeypot' # honeypot
                                                  \/ i \in DemoIds /\ widgets[i] = Nothing]_vars

\* Tenants do not see each other: neither a widget nor an answer of one depends
\* on another's requests.
Shelf(t) == [i \in Ids |-> IF widgets[i] # Nothing /\ widgets[i].owner = t THEN widgets[i].asks ELSE Nothing]
Shelves == INSTANCE TenantShelves WITH Tenants <- Rows, shelf <- [t \in Rows |-> Shelf(t)]
Implements == Shelves!SSpec
=============================================================================
