--------------------------- MODULE TenantShelves ---------------------------
(***************************************************************************)
(* What the owners' API promises: every tenant has a shelf of widgets of   *)
(* its own.  A request acts on its caller's shelf alone, and what it       *)
(* answers depends on that shelf alone: a widget of another tenant and one *)
(* that does not exist are the same to it.  Tenancy implements this.       *)
(***************************************************************************)
CONSTANTS Tenants, Ids, Requests, FieldLists, NoOne, Nothing

VARIABLES shelf,  \* per tenant and id: the widget's field list or Nothing
          caller, \* per request in progress: the tenant whose key it carried
          answer  \* per request: [asked, id, code, seen], or NoOne

svars == <<shelf, caller, answer>>

SInit == /\ shelf = [t \in Tenants |-> [i \in Ids |-> Nothing]]
         /\ caller = [r \in Requests |-> NoOne]
         /\ answer = [r \in Requests |-> NoOne]

On(t) == {i \in Ids : shelf[t][i] # Nothing}
Unused == {i \in Ids : \A t \in Tenants : i \notin On(t)}
Put(t, i, f) == shelf' = [shelf EXCEPT ![t][i] = f]

\* The seed puts a widget on a shelf.
Provide(t) == /\ UNCHANGED <<caller, answer>>
              /\ \E i \in Unused, f \in FieldLists : Put(t, i, f)

Open(r, t) == /\ caller[r] = NoOne
              /\ caller' = [caller EXCEPT ![r] = t]
              /\ answer' = [answer EXCEPT ![r] = NoOne]
              /\ UNCHANGED shelf

\* A restart of the process.
Cut == caller' = [r \in Requests |-> NoOne] /\ UNCHANGED <<shelf, answer>>

Reply(r, asked, i, code, seen) ==
  /\ caller' = [caller EXCEPT ![r] = NoOne]
  /\ answer' = [answer EXCEPT ![r] = [asked |-> asked, id |-> i, code |-> code, seen |-> seen]]

\* Requests that name a widget: it is there for them only on their shelf.
Missing(r, asked, i) == Reply(r, asked, i, 404, {}) /\ i \notin On(caller[r]) /\ UNCHANGED shelf

Named(r, t, i) ==
  \/ \E asked \in {"show", "edit", "null", "delete"} : Missing(r, asked, i)
  \/ /\ \/ Reply(r, "show", i, 200, {i}) /\ UNCHANGED shelf
        \/ Reply(r, "null", i, 500, {}) /\ UNCHANGED shelf
        \/ Reply(r, "edit", i, 200, {i}) /\ \E f \in FieldLists : Put(t, i, f)
        \/ Reply(r, "delete", i, 204, {}) /\ Put(t, i, Nothing)
     /\ i \in On(t)

Act(r, t) ==
  /\ caller[r] = t
  /\ \/ Reply(r, "list", NoOne, 200, On(t)) /\ UNCHANGED shelf
     \/ \E code \in {400, 500} : Reply(r, "nonsense", NoOne, code, {}) /\ UNCHANGED shelf
     \/ \E i \in Ids : /\ Reply(r, "create", i, 201, {i}) /\ i \in Unused
                        /\ \E f \in FieldLists : Put(t, i, f)
     \/ \E i \in Ids : Named(r, t, i)

SNext == \/ Cut
         \/ \E t \in Tenants : Provide(t) \/ \E r \in Requests : Open(r, t) \/ Act(r, t)

SSpec == SInit /\ [][SNext]_svars
=============================================================================
