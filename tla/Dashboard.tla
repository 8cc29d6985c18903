----------------------------- MODULE Dashboard -----------------------------
(***************************************************************************)
(* The owner's dashboard: the queries behind /api/submissions and          *)
(* /api/stats (app/repositories/submissions.py and stats.py, through       *)
(* app/services/dashboard.py), and the page that shows their answers       *)
(* (app/static/dashboard.html) in one tab of a browser whose localStorage  *)
(* other tabs write too.                                                   *)
(*                                                                         *)
(* A load asks five requests, six transactions in all, at no common time.  *)
(* While it waits, calm tells whether a row of its tenant came or went: as *)
(* long as it is, every transaction reads the same rows, whenever it runs, *)
(* and the figures are taken from the tables as they are when the load     *)
(* ends; if it is not, they are any mix, and only whose they are is kept.  *)
(***************************************************************************)
EXTENDS Integers, FiniteSets, FiniteSetsExt

CONSTANTS Widgets, Owner,      \* the tenant of each widget
          Rows, About,         \* of each submission: widget, spam, country, age in days
          Keys, Opens,         \* API keys, and the tenant each opens, or Nobody
          Slots,               \* bound: loads under way at once
          PageSize, MaxCountries, SeriesDays,
          Nobody, NoKey, None

ASSUME DashboardAssumption ==
  /\ IsFiniteSet(Widgets) /\ IsFiniteSet(Rows) \* what one database holds
  /\ About \in [Rows -> [widget : Widgets, spam : BOOLEAN, country : STRING, age : Nat]]
  /\ DOMAIN Owner = Widgets /\ DOMAIN Opens = Keys /\ NoKey \notin Keys
  /\ PageSize \in Nat /\ MaxCountries \in Nat /\ SeriesDays \in Nat /\ SeriesDays > 7
  /\ Slots # {} /\ None \notin [key : Keys \cup {NoKey}, calm : BOOLEAN]

VARIABLES widgets,  \* rows of widgets
          stored,   \* rows of submissions
          store,    \* the key in localStorage
          screen,   \* "gate" or "app"
          updated,  \* the text beside the buttons
          shown,    \* whose figures the app holds, and the figures
          loads,    \* per slot: a load under way
          excused   \* history: since the last load began, see WhoseFigures

tables == <<widgets, stored>>
page == <<screen, updated, shown, loads>>
vars == <<tables, store, page, excused>>

Tenant(r) == Owner[About[r].widget]
Pending == {s \in Slots : loads[s] # None}
FirstOf(slots) == CHOOSE s \in slots : TRUE

\* The page is opened, or opened anew: nothing of it outlives that but the key.
Init == /\ widgets \in SUBSET Widgets
        /\ stored \in SUBSET {r \in Rows : About[r].widget \in widgets}
        /\ store \in Keys \cup {NoKey}
        /\ shown = [key |-> None, figures |-> None]
        /\ IF store = NoKey
             THEN screen = "gate" /\ updated = "" /\ loads = [s \in Slots |-> None]
             ELSE /\ screen = "app" /\ updated = "loading"
                  /\ loads = [s \in Slots |-> IF s = FirstOf(Slots) THEN [key |-> store, calm |-> TRUE] ELSE None]
        /\ excused = FALSE
-----------------------------------------------------------------------------
(* The queries.  A widget's rows go with it. *)

\* Mutant: the spam clause is forgotten.
FiltersAll(t) == {r \in stored : Tenant(r) = t}
Filters(t) == {r \in stored : Tenant(r) = t /\ ~About[r].spam}

\* list_for_tenant and count_for_tenant, for the page's only request.
Items(t) == Min({PageSize, Cardinality(Filters(t))})
Total(t) == Cardinality(Filters(t))

\* The headline, without the counts that nothing else on the page repeats.
Overview(t) ==
  LET its == {r \in stored : Tenant(r) = t}
      leads == {r \in its : ~About[r].spam}
  IN [total |-> Cardinality(leads), spam |-> Cardinality(its \ leads),
      week |-> Cardinality({r \in leads : About[r].age < 7})]

\* A line for each widget, one without submissions included.
ByWidget(t) ==
  [w \in {w \in widgets : Owner[w] = t} |->
     LET its == {r \in stored : About[r].widget = w}
     IN [total |-> Cardinality({r \in its : ~About[r].spam}),
         spam |-> Cardinality({r \in its : About[r].spam})]]

\* The largest countries; where a lead came from may be "Unknown".
ByCountry(t) ==
  LET leads == {r \in stored : Tenant(r) = t /\ ~About[r].spam}
      count(c) == Cardinality({r \in leads : About[r].country = c})
      all == {About[r].country : r \in leads}
      top == CHOOSE cs \in SUBSET all :
               /\ Cardinality(cs) = Min({MaxCountries, Cardinality(all)})
               /\ \A c \in cs, d \in all \ cs : count(c) >= count(d)
  IN [c \in top |-> count(c)]

Timeseries(t) == [day \in 0..(SeriesDays - 1) |->
                    Cardinality({r \in stored : Tenant(r) = t /\ ~About[r].spam /\ About[r].age = day})]

Figures(t) == [items |-> Items(t), total |-> Total(t), overview |-> Overview(t),
               byWidget |-> ByWidget(t), byCountry |-> ByCountry(t), series |-> Timeseries(t)]

\* Loads of a tenant whose rows change are no longer calm.
Stirred(t) == [s \in Slots |-> IF loads[s] # None /\ loads[s].key \in Keys /\ Opens[loads[s].key] = t
                               THEN [loads[s] EXCEPT !.calm = FALSE] ELSE loads[s]]

Arrive(r) == /\ r \notin stored /\ About[r].widget \in widgets /\ About[r].age = 0
             /\ stored' = stored \cup {r}
             /\ loads' = Stirred(Tenant(r))
             /\ UNCHANGED <<widgets, store, screen, updated, shown, excused>>

DeleteWidget(w) == /\ w \in widgets
                   /\ widgets' = widgets \ {w}
                   /\ stored' = {r \in stored : About[r].widget # w}
                   /\ loads' = Stirred(Owner[w])
                   /\ UNCHANGED <<store, screen, updated, shown, excused>>
-----------------------------------------------------------------------------
(* The page. *)

\* load(key): the app is shown as it stands while the answers are awaited.
Load(key) == /\ Pending # Slots
             /\ loads' = [loads EXCEPT ![FirstOf(Slots \ Pending)] = [key |-> key, calm |-> TRUE]]
             /\ screen' = "app" /\ updated' = "loading"
             /\ excused' = (Pending # {})
             /\ UNCHANGED <<tables, shown>>

SignIn(key) == screen = "gate" /\ store' = key /\ Load(key)
Refresh == screen = "app" /\ Load(store) /\ UNCHANGED store

ShowGate == screen' = "gate" /\ updated' = ""
SignOut == /\ screen = "app"
           /\ store' = NoKey /\ ShowGate
           /\ UNCHANGED <<tables, shown, loads, excused>>

OtherTab == /\ store' \in (Keys \cup {NoKey}) \ {store}
            /\ excused' = TRUE
            /\ UNCHANGED <<tables, page>>

\* Promise.all: five answers, or the first failure.
Valid(key) == key \in Keys /\ Opens[key] # Nobody
End(s) == /\ s \in Pending
          /\ loads' = [loads EXCEPT ![s] = None]
          /\ UNCHANGED tables

Answered(s) == /\ End(s) /\ Valid(loads[s].key)
               /\ shown' = [key |-> loads[s].key,
                            figures |-> IF loads[s].calm THEN Figures(Opens[loads[s].key]) ELSE None]
               /\ updated' = "time"
               /\ UNCHANGED <<store, screen, excused>>

\* Mutant: the message is shown, and the app stays.
UnauthorizedInApp(s) == /\ End(s) /\ ~Valid(loads[s].key)
                        /\ store' = NoKey /\ updated' = ""
                        /\ UNCHANGED <<screen, shown, excused>>
Unauthorized(s) == /\ End(s) /\ ~Valid(loads[s].key)
                   /\ store' = NoKey /\ ShowGate
                   /\ UNCHANGED <<shown, excused>>

\* Mutant: only a refused key is caught.
FailedUncaught(s) == End(s) /\ excused' = TRUE /\ UNCHANGED <<store, screen, shown, updated>>
Failed(s) == /\ End(s)
             /\ updated' = "" /\ excused' = TRUE
             /\ UNCHANGED <<store, screen, shown>>
-----------------------------------------------------------------------------
Ends(s) == Answered(s) \/ Unauthorized(s) \/ Failed(s)
Next == \/ \E r \in Rows : Arrive(r)
        \/ \E w \in Widgets : DeleteWidget(w)
        \/ \E key \in Keys : SignIn(key)
        \/ Refresh \/ SignOut \/ OtherTab
        \/ \E s \in Slots : Ends(s)

\* Every request is answered or fails; fetch gives up when the connection does.
Spec == Init /\ [][Next]_vars /\ \A s \in Slots : WF_vars(Ends(s))
-----------------------------------------------------------------------------
(* Properties. *)

\* Six queries, written separately, tell one story, as long as no row of the
\* tenant comes or goes between them: the table's rows and its total, the
\* headline, the widgets, the countries and the bars count the same leads, and
\* the honeypot's catch is the sum of the widgets'.
Summed(g) == MapThenSumSet(LAMBDA x : g[x], DOMAIN g)
Column(table, c) == [w \in DOMAIN table |-> table[w][c]]
Agree(f) ==
  /\ f.total = f.overview.total /\ f.items = Min({PageSize, f.total})
  /\ Summed(Column(f.byWidget, "total")) = f.total
  /\ Summed(Column(f.byWidget, "spam")) = f.overview.spam
  /\ IF Cardinality(DOMAIN f.byCountry) < MaxCountries THEN Summed(f.byCountry) = f.total
                                                       ELSE Summed(f.byCountry) <= f.total
  /\ f.overview.week <= Summed(f.series) /\ Summed(f.series) <= f.total
FiguresAgree == shown.figures # None => Agree(shown.figures)

\* When no load is under way, the figures on the screen are those of the key in
\* the browser, and there are none without a key.  The exceptions are the
\* code's: a load that failed leaves what it found, the later of two
\* overlapping loads to answer has the last word, and another tab's change is
\* noticed at the next load.
WhoseFigures ==
  screen = "app" /\ Pending = {} /\ ~excused => shown.key = store

\* The page does not say "loading..." for ever, whichever of its loads fail.
LoadingEnds == updated = "loading" ~> updated # "loading"
=============================================================================
