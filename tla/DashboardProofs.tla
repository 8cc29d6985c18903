-------------------------- MODULE DashboardProofs --------------------------
(***************************************************************************)
(* Dashboard for any tenants, widgets, submissions, keys and loads: the    *)
(* figures agree, and are those of the key in the browser.                 *)
(***************************************************************************)
EXTENDS Dashboard, FiniteSetTheorems, TLAPS

LEMMA LeastNumber ==
  ASSUME NEW N \in SUBSET Nat, N # {}
  PROVE  \E n \in N : \A m \in Nat : m < n => m \notin N
<1>1. IsWellFoundedOn(OpToRel(<, Nat), Nat)
  BY NatLessThanWellFounded
<1>2. PICK n \in N : \A m \in N : ~(<<m, n>> \in OpToRel(<, Nat))
  BY <1>1, WFMin
<1> QED BY <1>2 DEF OpToRel

\* A sum is determined by its recursion.
Splits(F, g) ==
  \A S \in SUBSET DOMAIN g :
    F[S] = IF S = {} THEN 0 ELSE LET x == CHOOSE x \in S : TRUE IN g[x] + F[S \ {x}]

LEMMA SumIsUnique ==
  ASSUME NEW D, IsFiniteSet(D), NEW g, DOMAIN g = D, NEW F, Splits(F, g), NEW G, Splits(G, g),
         NEW S \in SUBSET D
  PROVE  F[S] = G[S]
<1> DEFINE N == {n \in Nat : \E R \in SUBSET D : Cardinality(R) = n /\ F[R] # G[R]}
<1>1. \A R \in SUBSET D : IsFiniteSet(R) /\ Cardinality(R) \in Nat
  BY FS_Subset, FS_CardinalityType
<1>2. CASE N = {}
  BY <1>1, <1>2
<1>3. CASE N # {}
  <2>1. PICK n \in N : \A m \in Nat : m < n => m \notin N
    BY <1>3, LeastNumber
  <2>2. PICK R \in SUBSET D : Cardinality(R) = n /\ F[R] # G[R]
    BY <2>1
  <2>3. R # {}
    BY <2>2 DEF Splits
  <2> DEFINE x == CHOOSE x \in R : TRUE
  <2>4. x \in R
    BY <2>3
  <2>5. F[R] = g[x] + F[R \ {x}] /\ G[R] = g[x] + G[R \ {x}]
    BY <2>3 DEF Splits
  <2> HIDE DEF x
  <2>6. Cardinality(R \ {x}) = n - 1 /\ n - 1 \in Nat /\ n - 1 < n
    <3>1. IsFiniteSet(R) /\ n \in Nat
      BY <1>1, <2>1
    <3>2. Cardinality(R \ {x}) = n - 1
      BY <2>2, <2>4, <3>1, FS_RemoveElement
    <3>3. n # 0
      BY <2>2, <2>3, <3>1, FS_EmptySet
    <3> QED BY <3>1, <3>2, <3>3
  <2>7. F[R \ {x}] = G[R \ {x}]
    BY <2>1, <2>6
  <2> QED BY <2>2, <2>5, <2>7
<1> QED BY <1>2, <1>3

LEMMA SumSplits ==
  ASSUME NEW g, NEW F, F = [S \in SUBSET DOMAIN g |-> F[S]], Splits(F, g), IsFiniteSet(DOMAIN g)
  PROVE  Summed(g) = F[DOMAIN g]
<1> DEFINE G == CHOOSE G : G = [s \in SUBSET DOMAIN g |->
                    IF s = {} THEN 0 ELSE g[CHOOSE x \in s : TRUE] + G[s \ {CHOOSE x \in s : TRUE}]]
<1>1. Summed(g) = G[DOMAIN g]
  BY DEF Summed, MapThenSumSet, MapThenFoldSet
<1>2. F = [s \in SUBSET DOMAIN g |->
                    IF s = {} THEN 0 ELSE g[CHOOSE x \in s : TRUE] + F[s \ {CHOOSE x \in s : TRUE}]]
  BY DEF Splits
<1>3. G = [s \in SUBSET DOMAIN g |->
                    IF s = {} THEN 0 ELSE g[CHOOSE x \in s : TRUE] + G[s \ {CHOOSE x \in s : TRUE}]]
  BY <1>2, Zenon
<1>4. Splits(G, g)
  <2> HIDE DEF G
  <2> SUFFICES ASSUME NEW S \in SUBSET DOMAIN g
               PROVE  G[S] = IF S = {} THEN 0 ELSE LET x == CHOOSE x \in S : TRUE IN g[x] + G[S \ {x}]
    BY DEF Splits
  <2>1. G[S] = IF S = {} THEN 0 ELSE g[CHOOSE x \in S : TRUE] + G[S \ {CHOOSE x \in S : TRUE}]
    BY <1>3
  <2> QED BY <2>1
<1> HIDE DEF G
<1> QED BY <1>1, <1>4, SumIsUnique

LEMMA OfTwoKinds ==
  ASSUME NEW A, IsFiniteSet(A), NEW B, IsFiniteSet(B), A \cap B = {}
  PROVE  Cardinality(A \cup B) = Cardinality(A) + Cardinality(B)
<1>1. Cardinality(A \cup B) = Cardinality(A) + Cardinality(B) - Cardinality(A \cap B)
  BY FS_Union
<1>2. Cardinality(A) \in Nat /\ Cardinality(B) \in Nat
  BY FS_CardinalityType
<1>3. Cardinality({}) = 0
  BY FS_EmptySet
<1>4. Cardinality(A \cap B) = 0
  BY <1>3
<1> QED BY <1>1, <1>2, <1>4

\* Adding up what has each of some values counts what has any of them.
LEMMA SumIsCount ==
  ASSUME NEW X, IsFiniteSet(X), NEW h, NEW g, IsFiniteSet(DOMAIN g), g = [d \in DOMAIN g |-> g[d]],
         \A d \in DOMAIN g : g[d] = Cardinality({r \in X : h[r] = d})
  PROVE  Summed(g) = Cardinality({r \in X : h[r] \in DOMAIN g})
<1> DEFINE of(S) == {r \in X : h[r] \in S}
           F == [S \in SUBSET DOMAIN g |-> Cardinality(of(S))]
<1>1. ASSUME NEW S PROVE IsFiniteSet(of(S)) /\ Cardinality(of(S)) \in Nat
  <2>1. of(S) \in SUBSET X
    OBVIOUS
  <2> QED BY <2>1, FS_Subset, FS_CardinalityType
<1>2. Splits(F, g)
  <2> SUFFICES ASSUME NEW S \in SUBSET DOMAIN g
               PROVE  F[S] = IF S = {} THEN 0 ELSE LET x == CHOOSE x \in S : TRUE IN g[x] + F[S \ {x}]
    BY DEF Splits
  <2>1. CASE S = {}
    <3>1. of(S) = {}
      BY <2>1
    <3> QED BY <2>1, <3>1, FS_EmptySet
  <2>2. CASE S # {}
    <3> DEFINE x == CHOOSE x \in S : TRUE
    <3>1. x \in S
      BY <2>2
    <3> HIDE DEF x
    <3> DEFINE A == of({x})
               B == of(S \ {x})
    <3>2. of(S) = A \cup B /\ A \cap B = {} /\ A = {r \in X : h[r] = x}
      BY <3>1
    <3>3. IsFiniteSet(A) /\ IsFiniteSet(B) /\ Cardinality(A) \in Nat /\ Cardinality(B) \in Nat
      BY <1>1
    <3>4. g[x] = Cardinality({r \in X : h[r] = x})
      BY <3>1
    <3>5. F[S] = Cardinality(A \cup B) /\ F[S \ {x}] = Cardinality(B) /\ g[x] = Cardinality(A)
      BY <3>2, <3>4
    <3> HIDE DEF A, B, F, of
    <3>6. Cardinality(A \cup B) = Cardinality(A) + Cardinality(B)
      BY <3>2, <3>3, OfTwoKinds
    <3>7. F[S] = g[x] + F[S \ {x}]
      BY <3>5, <3>6
    <3> QED BY <2>2, <3>7 DEF x
  <2> QED BY <2>1, <2>2
<1>3. F = [S \in SUBSET DOMAIN g |-> F[S]] /\ F[DOMAIN g] = Cardinality(of(DOMAIN g))
  OBVIOUS
<1> HIDE DEF F
<1> QED BY <1>2, <1>3, SumSplits

\* Of finitely many things there are some k that count for most.
LEMMA LargestFew ==
  ASSUME NEW all, IsFiniteSet(all), NEW count \in [all -> Nat], NEW bound \in Nat,
         \A c \in all : count[c] <= bound,
         NEW k \in Nat, k <= Cardinality(all)
  PROVE  \E cs \in SUBSET all : Cardinality(cs) = k /\ \A c \in cs, d \in all \ cs : count[c] >= count[d]
<1> DEFINE Top(cs, n) == Cardinality(cs) = n /\ \A c \in cs, d \in all \ cs : count[c] >= count[d]
           N == {n \in Nat : n <= Cardinality(all) /\ ~\E cs \in SUBSET all : Top(cs, n)}
<1>1. Cardinality(all) \in Nat /\ \A cs \in SUBSET all : IsFiniteSet(cs) /\ Cardinality(cs) \in Nat
  BY FS_Subset, FS_CardinalityType
<1>2. SUFFICES ASSUME N # {} PROVE FALSE
  BY <1>1
<1>3. PICK n \in N : \A m \in Nat : m < n => m \notin N
  BY <1>2, LeastNumber
<1>4. n \in Nat /\ n <= Cardinality(all) /\ ~\E cs \in SUBSET all : Top(cs, n)
  BY <1>3
<1>5. n # 0
  <2>1. Top({}, 0)
    BY FS_EmptySet
  <2> QED BY <1>4, <2>1
<1>6. n - 1 \in Nat /\ n - 1 < n /\ n - 1 <= Cardinality(all)
  BY <1>1, <1>4, <1>5
<1>7. PICK cs \in SUBSET all : Top(cs, n - 1)
  BY <1>3, <1>6
<1>8. all \ cs # {}
  BY <1>1, <1>4, <1>7
<1> DEFINE M == {m \in Nat : \E d \in all \ cs : m = bound - count[d]}
<1>9. M # {}
  <2>1. PICK d \in all \ cs : TRUE
    BY <1>8
  <2>2. bound - count[d] \in Nat
    BY <2>1
  <2> QED BY <2>1, <2>2
<1>10. PICK m \in M : \A i \in Nat : i < m => i \notin M
  BY <1>9, LeastNumber
<1>11. PICK c \in all \ cs : m = bound - count[c]
  BY <1>10
<1>12. \A d \in all \ cs : count[c] >= count[d]
  <2> SUFFICES ASSUME NEW d \in all \ cs, count[c] < count[d] PROVE FALSE
    BY <1>11
  <2>1. bound - count[d] \in Nat /\ bound - count[d] < m
    BY <1>11
  <2>2. bound - count[d] \in M
    BY <2>1
  <2> QED BY <1>10, <2>1, <2>2
<1>13. Cardinality(cs \cup {c}) = n
  BY <1>1, <1>6, <1>7, <1>11, FS_AddElement
<1>14. \A e \in cs \cup {c}, d \in all \ (cs \cup {c}) : count[e] >= count[d]
  BY <1>7, <1>11, <1>12
<1>15. Top(cs \cup {c}, n) /\ cs \cup {c} \in SUBSET all
  BY <1>11, <1>13, <1>14
<1> QED BY <1>4, <1>15
-----------------------------------------------------------------------------
(* The queries. *)

\* A widget's rows go with it.
NoOrphans == /\ widgets \in SUBSET Widgets /\ stored \in SUBSET Rows
             /\ \A r \in stored : About[r].widget \in widgets

Leads(t) == {r \in stored : Tenant(r) = t /\ ~About[r].spam}

LEMMA Tables ==
  ASSUME NoOrphans
  PROVE  /\ IsFiniteSet(stored) /\ IsFiniteSet(widgets)
         /\ \A R \in SUBSET stored : IsFiniteSet(R) /\ Cardinality(R) \in Nat
         /\ \A r \in stored : About[r].widget \in widgets /\ About[r].spam \in BOOLEAN /\ About[r].age \in Nat
<1>1. IsFiniteSet(stored) /\ IsFiniteSet(widgets)
  BY DashboardAssumption, FS_Subset DEF NoOrphans
<1>2. \A R \in SUBSET stored : IsFiniteSet(R) /\ Cardinality(R) \in Nat
  BY <1>1, FS_Subset, FS_CardinalityType
<1>3. \A r \in stored : About[r].widget \in widgets /\ About[r].spam \in BOOLEAN /\ About[r].age \in Nat
  BY DashboardAssumption DEF NoOrphans
<1> QED BY <1>1, <1>2, <1>3

\* by_widget's two columns add up to the headline's two numbers.
LEMMA WidgetsAddUp ==
  ASSUME NoOrphans, NEW t
  PROVE  /\ Summed(Column(ByWidget(t), "total")) = Cardinality(Leads(t))
         /\ Summed(Column(ByWidget(t), "spam")) = Cardinality({r \in stored : Tenant(r) = t /\ About[r].spam})
<1> DEFINE mine == {w \in widgets : Owner[w] = t}
           h == [r \in stored |-> About[r].widget]
           leads == {r \in stored : ~About[r].spam}
           spam == {r \in stored : About[r].spam}
           total == Column(ByWidget(t), "total")
           caught == Column(ByWidget(t), "spam")
<1>1. IsFiniteSet(mine)
  BY Tables, FS_Subset
<1>2. IsFiniteSet(leads) /\ IsFiniteSet(spam)
  BY Tables
<1>3. DOMAIN ByWidget(t) = mine
  BY DEF ByWidget
<1>4. DOMAIN total = mine /\ DOMAIN caught = mine
  BY <1>3 DEF Column
<1>5. total = [w \in DOMAIN total |-> total[w]] /\ caught = [w \in DOMAIN caught |-> caught[w]]
  BY DEF Column
<1>6. ASSUME NEW w \in mine
      PROVE  /\ total[w] = Cardinality({r \in leads : h[r] = w})
             /\ caught[w] = Cardinality({r \in spam : h[r] = w})
  <2>1. total[w] = ByWidget(t)[w].total /\ caught[w] = ByWidget(t)[w].spam
    BY <1>3 DEF Column
  <2>2. /\ ByWidget(t)[w].total = Cardinality({r \in {r \in stored : About[r].widget = w} : ~About[r].spam})
        /\ ByWidget(t)[w].spam = Cardinality({r \in {r \in stored : About[r].widget = w} : About[r].spam})
    BY DEF ByWidget
  <2>3. /\ {r \in {r \in stored : About[r].widget = w} : ~About[r].spam} = {r \in leads : h[r] = w}
        /\ {r \in {r \in stored : About[r].widget = w} : About[r].spam} = {r \in spam : h[r] = w}
    OBVIOUS
  <2> QED BY <2>1, <2>2, <2>3
<1>7. /\ {r \in leads : h[r] \in mine} = Leads(t)
      /\ {r \in spam : h[r] \in mine} = {r \in stored : Tenant(r) = t /\ About[r].spam}
  BY Tables DEF Leads, Tenant
<1> HIDE DEF h, leads, spam, total, caught, mine
<1>8. /\ \A w \in DOMAIN total : total[w] = Cardinality({r \in leads : h[r] = w})
      /\ \A w \in DOMAIN caught : caught[w] = Cardinality({r \in spam : h[r] = w})
  BY <1>4, <1>6
<1>9. /\ Summed(total) = Cardinality({r \in leads : h[r] \in DOMAIN total})
      /\ Summed(caught) = Cardinality({r \in spam : h[r] \in DOMAIN caught})
  BY <1>1, <1>2, <1>4, <1>5, <1>8, SumIsCount
<1> QED BY <1>4, <1>7, <1>9 DEF total, caught

\* The bars count leads, each at most once, and all of the last week's.
LEMMA BarsAreLeads ==
  ASSUME NoOrphans, NEW t
  PROVE  /\ Summed(Timeseries(t)) <= Cardinality(Leads(t))
         /\ Cardinality({r \in Leads(t) : About[r].age < 7}) <= Summed(Timeseries(t))
<1> DEFINE days == 0..(SeriesDays - 1)
           h == [r \in stored |-> About[r].age]
           g == Timeseries(t)
           seen == {r \in Leads(t) : h[r] \in days}
<1>1. IsFiniteSet(days)
  BY DashboardAssumption, FS_Interval
<1>2. Leads(t) \in SUBSET stored /\ IsFiniteSet(Leads(t))
  BY Tables DEF Leads
<1>3. DOMAIN g = days /\ g = [d \in DOMAIN g |-> g[d]]
  BY DEF Timeseries
<1>4. ASSUME NEW d \in days PROVE g[d] = Cardinality({r \in Leads(t) : h[r] = d})
  <2>1. g[d] = Cardinality({r \in stored : Tenant(r) = t /\ ~About[r].spam /\ About[r].age = d})
    BY DEF Timeseries
  <2>2. {r \in stored : Tenant(r) = t /\ ~About[r].spam /\ About[r].age = d} = {r \in Leads(t) : h[r] = d}
    BY DEF Leads
  <2> QED BY <2>1, <2>2
<1>5. {r \in Leads(t) : About[r].age < 7} \in SUBSET seen
  BY <1>2, Tables, DashboardAssumption
<1>6. seen \in SUBSET Leads(t)
  OBVIOUS
<1> HIDE DEF h, g, days
<1>7. Summed(g) = Cardinality(seen)
  BY <1>1, <1>2, <1>3, <1>4, SumIsCount
<1> HIDE DEF seen
<1>8. IsFiniteSet(seen)
  BY <1>2, <1>6, FS_Subset
<1>9. /\ Cardinality(seen) <= Cardinality(Leads(t))
      /\ Cardinality({r \in Leads(t) : About[r].age < 7}) <= Cardinality(seen)
  BY <1>2, <1>5, <1>6, <1>8, FS_Subset
<1> QED BY <1>7, <1>9 DEF g

LEMMA LeastOfTwo ==
  ASSUME NEW a \in Nat, NEW b \in Nat
  PROVE  Min({a, b}) = IF a <= b THEN a ELSE b
<1>1. CASE a <= b
  <2>1. \A x \in {a, b} : (\A y \in {a, b} : x <= y) => x = a
    BY <1>1
  <2>2. a \in {a, b} /\ \A y \in {a, b} : a <= y
    BY <1>1
  <2>3. Min({a, b}) \in {a, b} /\ \A y \in {a, b} : Min({a, b}) <= y
    BY <2>2 DEF Min
  <2> QED BY <1>1, <2>1, <2>3
<1>2. CASE ~(a <= b)
  <2>1. \A x \in {a, b} : (\A y \in {a, b} : x <= y) => x = b
    BY <1>2
  <2>2. b \in {a, b} /\ \A y \in {a, b} : b <= y
    BY <1>2
  <2>3. Min({a, b}) \in {a, b} /\ \A y \in {a, b} : Min({a, b}) <= y
    BY <2>2 DEF Min
  <2> QED BY <1>2, <2>1, <2>3
<1> QED BY <1>1, <1>2

\* The countries shown are among those of the leads; when they are fewer than
\* MaxCountries they are all of them.
LEMMA CountriesAreLeads ==
  ASSUME NoOrphans, NEW t
  PROVE  IF Cardinality(DOMAIN ByCountry(t)) < MaxCountries
           THEN Summed(ByCountry(t)) = Cardinality(Leads(t))
           ELSE Summed(ByCountry(t)) <= Cardinality(Leads(t))
<1> DEFINE leads == {r \in stored : Tenant(r) = t /\ ~About[r].spam}
           all == {About[r].country : r \in leads}
           size(c) == Cardinality({r \in leads : About[r].country = c})
           few == Min({MaxCountries, Cardinality(all)})
           Top(cs) == Cardinality(cs) = few /\ \A c \in cs, d \in all \ cs : size(c) >= size(d)
           top == CHOOSE cs \in SUBSET all : Top(cs)
           g == ByCountry(t)
           h == [r \in leads |-> About[r].country]
<1>1. leads \in SUBSET stored /\ IsFiniteSet(leads) /\ leads = Leads(t)
  BY Tables DEF Leads
<1>2. IsFiniteSet(all)
  <2>1. h \in Surjection(leads, all)
    BY DEF Surjection
  <2> HIDE DEF h, leads, all
  <2> QED BY <1>1, <2>1, FS_Surjection
<1>3. \A c : size(c) \in Nat /\ size(c) <= Cardinality(leads)
  <2> SUFFICES ASSUME NEW c PROVE size(c) \in Nat /\ size(c) <= Cardinality(leads)
    OBVIOUS
  <2>1. {r \in leads : About[r].country = c} \in SUBSET leads
    OBVIOUS
  <2> QED BY <1>1, <2>1, FS_Subset, FS_CardinalityType
<1>4. Cardinality(all) \in Nat /\ Cardinality(leads) \in Nat /\ MaxCountries \in Nat
  BY <1>1, <1>2, FS_CardinalityType, DashboardAssumption
<1>5. few = IF MaxCountries <= Cardinality(all) THEN MaxCountries ELSE Cardinality(all)
  BY <1>4, LeastOfTwo
<1>6. \E cs \in SUBSET all : Top(cs)
  <2> DEFINE count == [c \in all |-> size(c)]
  <2>1. count \in [all -> Nat] /\ \A c \in all : count[c] <= Cardinality(leads)
    BY <1>3
  <2>2. few \in Nat /\ few <= Cardinality(all)
    BY <1>4, <1>5
  <2> HIDE DEF few, size, leads, all
  <2>3. PICK cs \in SUBSET all : Cardinality(cs) = few /\ \A c \in cs, d \in all \ cs : count[c] >= count[d]
    <3> HIDE DEF count
    <3> QED BY <1>2, <1>4, <2>1, <2>2, LargestFew
  <2>4. \A c \in cs, d \in all \ cs : size(c) >= size(d)
    BY <2>3
  <2> QED BY <2>3, <2>4
<1>7. top \in SUBSET all /\ Top(top)
  <2> HIDE DEF Top
  <2> QED BY <1>6, Zenon
<1>8. g = [c \in top |-> size(c)]
  BY DEF ByCountry
<1>9. /\ DOMAIN g = top /\ IsFiniteSet(top) /\ g = [c \in DOMAIN g |-> g[c]]
      /\ \A c \in DOMAIN g : g[c] = Cardinality({r \in leads : h[r] = c})
  <2>1. IsFiniteSet(top)
    BY <1>2, <1>7, FS_Subset
  <2>2. \A c : {r \in leads : h[r] = c} = {r \in leads : About[r].country = c}
    OBVIOUS
  <2> HIDE DEF top, g, h, leads
  <2> QED BY <1>8, <2>1, <2>2
<1>10. Summed(g) = Cardinality({r \in leads : h[r] \in top})
  <2> HIDE DEF top, g, h, leads
  <2> QED BY <1>1, <1>9, SumIsCount
<1>11. {r \in leads : h[r] \in top} \in SUBSET leads
  OBVIOUS
<1>12. Cardinality({r \in leads : h[r] \in top}) <= Cardinality(leads)
  <2> HIDE DEF top, h, leads
  <2> QED BY <1>1, <1>11, FS_Subset
<1>13. ASSUME Cardinality(top) < MaxCountries PROVE {r \in leads : h[r] \in top} = leads
  <2>1. Cardinality(top) = Cardinality(all)
    BY <1>4, <1>5, <1>7, <1>13
  <2>2. top = all
    <3> HIDE DEF top, all
    <3> QED BY <1>2, <1>7, <2>1, FS_Subset
  <2>3. \A r \in leads : h[r] \in all
    OBVIOUS
  <2> HIDE DEF top, h, leads, all
  <2> QED BY <2>2, <2>3
<1> HIDE DEF top, h, leads, g, few
<1> QED BY <1>1, <1>9, <1>10, <1>12, <1>13 DEF g

\* What a calm load is answered.
LEMMA FiguresOfCalm ==
  ASSUME NoOrphans, NEW t
  PROVE  Agree(Figures(t))
<1> DEFINE f == Figures(t)
           its == {r \in stored : Tenant(r) = t}
<1>1. /\ f.items = Items(t) /\ f.total = Total(t) /\ f.overview = Overview(t)
      /\ f.byWidget = ByWidget(t) /\ f.byCountry = ByCountry(t) /\ f.series = Timeseries(t)
  BY DEF Figures
<1>2. Filters(t) = Leads(t)
  BY DEF Filters, Leads
<1>3. f.total = Cardinality(Leads(t)) /\ f.items = Min({PageSize, f.total})
  BY <1>1, <1>2 DEF Total, Items
<1>4. /\ {r \in its : ~About[r].spam} = Leads(t)
      /\ its \ Leads(t) = {r \in stored : Tenant(r) = t /\ About[r].spam}
  BY Tables DEF Leads
<1>5. /\ f.overview.total = Cardinality(Leads(t))
      /\ f.overview.spam = Cardinality({r \in stored : Tenant(r) = t /\ About[r].spam})
      /\ f.overview.week = Cardinality({r \in Leads(t) : About[r].age < 7})
  <2>1. {r \in {r \in its : ~About[r].spam} : About[r].age < 7} = {r \in Leads(t) : About[r].age < 7}
    BY <1>4
  <2>2. Overview(t) = [total |-> Cardinality({r \in its : ~About[r].spam}),
                       spam |-> Cardinality(its \ {r \in its : ~About[r].spam}),
                       week |-> Cardinality({r \in {r \in its : ~About[r].spam} : About[r].age < 7})]
    BY DEF Overview
  <2>3. /\ Cardinality({r \in its : ~About[r].spam}) = Cardinality(Leads(t))
        /\ Cardinality(its \ {r \in its : ~About[r].spam}) = Cardinality({r \in stored : Tenant(r) = t /\ About[r].spam})
        /\ Cardinality({r \in {r \in its : ~About[r].spam} : About[r].age < 7})
             = Cardinality({r \in Leads(t) : About[r].age < 7})
    BY <1>4, <2>1
  <2>4. Overview(t) = [total |-> Cardinality(Leads(t)),
                       spam |-> Cardinality({r \in stored : Tenant(r) = t /\ About[r].spam}),
                       week |-> Cardinality({r \in Leads(t) : About[r].age < 7})]
    BY <2>2, <2>3, Zenon
  <2> HIDE DEF its, f
  <2> QED BY <1>1, <2>4
<1> HIDE DEF f, its
<1>6. /\ Summed(Column(f.byWidget, "total")) = f.total
      /\ Summed(Column(f.byWidget, "spam")) = f.overview.spam
  BY <1>1, <1>3, <1>5, WidgetsAddUp
<1>7. f.overview.week <= Summed(f.series) /\ Summed(f.series) <= f.total
  BY <1>1, <1>3, <1>5, BarsAreLeads
<1>8. IF Cardinality(DOMAIN f.byCountry) < MaxCountries THEN Summed(f.byCountry) = f.total
                                                        ELSE Summed(f.byCountry) <= f.total
  BY <1>1, <1>3, CountriesAreLeads
<1>9. Agree(f)
  BY <1>3, <1>5, <1>6, <1>7, <1>8 DEF Agree
<1> QED BY <1>9 DEF f
-----------------------------------------------------------------------------
(* The invariant. *)

Loads == [key : Keys \cup {NoKey}, calm : BOOLEAN]
TypeOK == /\ NoOrphans
          /\ store \in Keys \cup {NoKey} /\ screen \in {"gate", "app"} /\ updated \in {"", "loading", "time"}
          /\ shown = [key |-> shown.key, figures |-> shown.figures]
          /\ loads \in [Slots -> Loads \cup {None}] /\ excused \in BOOLEAN

\* Whatever is under way was sent with the key in the browser, and what is
\* shown came with it when nothing is: for as long as nothing excuses the page.
OneKey == screen = "app" /\ ~excused => /\ \A s \in Pending : loads[s].key = store
                                        /\ Pending = {} => shown.key = store

IInv == TypeOK /\ OneKey /\ FiguresAgree

LEMMA AnyOf == ASSUME NEW S, S # {} PROVE FirstOf(S) \in S
BY DEF FirstOf

LEMMA LoadsArePending ==
  /\ \A l \in Loads : l # None
  /\ \A key \in Keys \cup {NoKey}, calm \in BOOLEAN :
       [key |-> key, calm |-> calm] \in Loads /\ [key |-> key, calm |-> calm].key = key
BY DashboardAssumption DEF Loads

LEMMA InitInv == Init => IInv
<1> SUFFICES ASSUME Init PROVE IInv
  OBVIOUS
<1>1. FirstOf(Slots) \in Slots
  BY AnyOf, DashboardAssumption
<1>2. FiguresAgree
  BY DEF Init, FiguresAgree
<1>3. TypeOK
  <2>1. NoOrphans
    BY DEF Init, NoOrphans
  <2>2. loads \in [Slots -> Loads \cup {None}]
    BY LoadsArePending DEF Init
  <2> QED BY <2>1, <2>2 DEF Init, TypeOK
<1>4. OneKey
  <2>1. CASE store = NoKey
    BY <2>1 DEF Init, OneKey
  <2>2. CASE store # NoKey
    <3>1. \A s \in Slots : loads[s] = IF s = FirstOf(Slots) THEN [key |-> store, calm |-> TRUE] ELSE None
      BY <2>2 DEF Init
    <3>2. [key |-> store, calm |-> TRUE] # None /\ [key |-> store, calm |-> TRUE].key = store
      BY LoadsArePending DEF Init
    <3>3. \A s \in Slots : loads[s] # None <=> s = FirstOf(Slots)
      BY <3>1, <3>2
    <3>4. Pending = {FirstOf(Slots)} /\ loads[FirstOf(Slots)].key = store
      BY <1>1, <3>1, <3>2, <3>3 DEF Pending
    <3> QED BY <3>4 DEF OneKey
  <2> QED BY <2>1, <2>2
<1> QED BY <1>2, <1>3, <1>4 DEF IInv

\* A row that comes or goes stirs loads, and changes no key.
LEMMA StirredKeys ==
  ASSUME NEW t, loads \in [Slots -> Loads \cup {None}], loads' = Stirred(t)
  PROVE  /\ loads' \in [Slots -> Loads \cup {None}] /\ Pending' = Pending
         /\ \A s \in Pending : loads'[s].key = loads[s].key
<1>1. ASSUME NEW l \in Loads PROVE [l EXCEPT !.calm = FALSE] \in Loads /\ [l EXCEPT !.calm = FALSE].key = l.key
  BY <1>1 DEF Loads
<1>2. ASSUME NEW s \in Slots
      PROVE  /\ loads'[s] \in Loads \cup {None} /\ loads'[s] # None <=> loads[s] # None
             /\ loads[s] # None => loads'[s].key = loads[s].key
  <2>1. loads'[s] = loads[s] \/ (loads[s] # None /\ loads'[s] = [loads[s] EXCEPT !.calm = FALSE])
    BY DEF Stirred
  <2>2. loads[s] \in Loads \/ loads[s] = None
    OBVIOUS
  <2> QED BY <1>1, <2>1, <2>2, LoadsArePending
<1>3. loads' \in [Slots -> Loads \cup {None}]
  BY <1>2 DEF Stirred
<1> QED BY <1>2, <1>3 DEF Pending

\* A load is begun with a key, and is the only one if nothing is to be excused.
LEMMA LoadKeeps ==
  ASSUME IInv, NEW key \in Keys \cup {NoKey}, store' = key, Load(key)
  PROVE  IInv'
<1> DEFINE new == FirstOf(Slots \ Pending)
<1>1. new \in Slots /\ new \notin Pending
  <2>1. Slots \ Pending # {}
    BY DEF Load, Pending
  <2> QED BY <2>1, AnyOf
<1>2. /\ loads' = [loads EXCEPT ![new] = [key |-> key, calm |-> TRUE]] /\ loads \in [Slots -> Loads \cup {None}]
      /\ excused' = (Pending # {}) /\ screen' = "app" /\ updated' = "loading"
      /\ UNCHANGED <<widgets, stored, shown>>
  BY DEF Load, IInv, TypeOK, tables
<1> HIDE DEF new
<1>3. TypeOK'
  <2>1. NoOrphans'
    BY <1>2 DEF IInv, TypeOK, NoOrphans
  <2>2. loads' \in [Slots -> Loads \cup {None}]
    BY <1>1, <1>2, LoadsArePending
  <2> QED BY <1>2, <2>1, <2>2 DEF IInv, TypeOK
<1>4. OneKey'
  <2> SUFFICES ASSUME Pending = {} PROVE (\A s \in Pending' : loads'[s].key = store') /\ Pending' # {}
    BY <1>2 DEF OneKey
  <2>1. \A s \in Slots : loads'[s] # None <=> s = new
    BY <1>1, <1>2, LoadsArePending DEF Pending
  <2>2. loads'[new].key = key
    BY <1>1, <1>2
  <2> QED BY <1>1, <2>1, <2>2 DEF Pending
<1>5. FiguresAgree'
  BY <1>2 DEF IInv, FiguresAgree
<1> QED BY <1>3, <1>4, <1>5 DEF IInv

LEMMA NextInv == IInv /\ [Next]_vars => IInv'
<1> SUFFICES ASSUME IInv, [Next]_vars PROVE IInv'
  OBVIOUS
<1>1. /\ TypeOK /\ OneKey /\ FiguresAgree /\ NoOrphans /\ loads \in [Slots -> Loads \cup {None}]
      /\ store \in Keys \cup {NoKey}
  BY DEF IInv, TypeOK
<1>2. ASSUME NoOrphans', UNCHANGED <<store, screen, updated, shown, excused>>, NEW t, loads' = Stirred(t)
      PROVE  IInv'
  <2>1. /\ loads' \in [Slots -> Loads \cup {None}] /\ Pending' = Pending
        /\ \A s \in Pending : loads'[s].key = loads[s].key
    BY <1>1, <1>2, StirredKeys
  <2>2. TypeOK'
    BY <1>1, <1>2, <2>1 DEF TypeOK
  <2>3. OneKey'
    BY <1>1, <1>2, <2>1 DEF OneKey
  <2>4. FiguresAgree'
    BY <1>1, <1>2 DEF FiguresAgree
  <2> QED BY <2>2, <2>3, <2>4 DEF IInv
<1>3. ASSUME NEW r \in Rows, Arrive(r) PROVE IInv'
  <2>1. NoOrphans'
    BY <1>1, <1>3 DEF Arrive, NoOrphans
  <2> QED BY <1>2, <1>3, <2>1 DEF Arrive
<1>4. ASSUME NEW w \in Widgets, DeleteWidget(w) PROVE IInv'
  <2>1. NoOrphans'
    BY <1>1, <1>4 DEF DeleteWidget, NoOrphans
  <2> QED BY <1>2, <1>4, <2>1 DEF DeleteWidget
<1>5. ASSUME NEW key \in Keys, SignIn(key) PROVE IInv'
  BY <1>5, LoadKeeps DEF SignIn
<1>6. CASE Refresh
  <2>1. PICK key \in Keys \cup {NoKey} : key = store
    BY <1>1
  <2> QED BY <1>6, <2>1, LoadKeeps DEF Refresh
<1>7. CASE SignOut
  <2>1. NoOrphans'
    BY <1>1, <1>7 DEF SignOut, NoOrphans, tables
  <2>2. TypeOK'
    BY <1>1, <1>7, <2>1 DEF SignOut, ShowGate, TypeOK
  <2> QED BY <1>1, <1>7, <2>2 DEF SignOut, ShowGate, IInv, OneKey, FiguresAgree
<1>8. CASE OtherTab
  <2>1. NoOrphans'
    BY <1>1, <1>8 DEF OtherTab, NoOrphans, tables
  <2>2. TypeOK'
    BY <1>1, <1>8, <2>1 DEF OtherTab, page, TypeOK
  <2> QED BY <1>1, <1>8, <2>2 DEF OtherTab, page, IInv, OneKey, FiguresAgree
<1>9. ASSUME NEW s \in Slots, End(s)
      PROVE  /\ NoOrphans' /\ loads' \in [Slots -> Loads \cup {None}]
             /\ s \in Pending /\ Pending' = Pending \ {s} /\ loads[s] \in Loads
             /\ \A u \in Pending' : loads'[u] = loads[u]
  <2>1. NoOrphans'
    BY <1>1, <1>9 DEF End, NoOrphans, tables
  <2> QED BY <1>1, <1>9, <2>1 DEF End, Pending
<1>10. ASSUME NEW s \in Slots, Answered(s) PROVE IInv'
  <2>1. /\ NoOrphans' /\ loads' \in [Slots -> Loads \cup {None}]
        /\ s \in Pending /\ Pending' = Pending \ {s} /\ loads[s] \in Loads
        /\ \A u \in Pending' : loads'[u] = loads[u]
    BY <1>9, <1>10 DEF Answered
  <2>2. /\ shown' = [key |-> loads[s].key,
                     figures |-> IF loads[s].calm THEN Figures(Opens[loads[s].key]) ELSE None]
        /\ updated' = "time" /\ UNCHANGED <<store, screen, excused>>
    BY <1>10 DEF Answered
  <2>3. TypeOK'
    BY <1>1, <2>1, <2>2 DEF TypeOK
  <2>4. OneKey'
    BY <1>1, <2>1, <2>2 DEF OneKey
  <2>5. FiguresAgree'
    <3>1. shown'.figures = None \/ shown'.figures = Figures(Opens[loads[s].key])
      BY <2>2
    <3>2. Agree(Figures(Opens[loads[s].key]))
      BY <1>1, FiguresOfCalm
    <3>3. shown'.figures # None => Agree(shown'.figures)
      BY <3>1, <3>2
    <3> QED BY <3>3 DEF FiguresAgree
  <2> QED BY <2>3, <2>4, <2>5 DEF IInv
<1>11. ASSUME NEW s \in Slots, Unauthorized(s) PROVE IInv'
  <2>1. NoOrphans' /\ loads' \in [Slots -> Loads \cup {None}]
    BY <1>9, <1>11 DEF Unauthorized
  <2>2. TypeOK'
    BY <1>1, <1>11, <2>1 DEF Unauthorized, ShowGate, TypeOK
  <2> QED BY <1>1, <1>11, <2>2 DEF Unauthorized, ShowGate, IInv, OneKey, FiguresAgree
<1>12. ASSUME NEW s \in Slots, Failed(s) PROVE IInv'
  <2>1. NoOrphans' /\ loads' \in [Slots -> Loads \cup {None}]
    BY <1>9, <1>12 DEF Failed
  <2>2. TypeOK'
    BY <1>1, <1>12, <2>1 DEF Failed, TypeOK
  <2> QED BY <1>1, <1>12, <2>2 DEF Failed, IInv, OneKey, FiguresAgree
<1>13. CASE UNCHANGED vars
  <2>1. UNCHANGED <<widgets, stored, store, screen, updated, shown, loads, excused>>
    BY <1>13 DEF vars, tables, page
  <2>2. TypeOK'
    BY <1>1, <2>1 DEF TypeOK, NoOrphans
  <2> QED BY <1>1, <2>1, <2>2 DEF IInv, OneKey, Pending, FiguresAgree
<1> QED BY <1>3, <1>4, <1>5, <1>6, <1>7, <1>8, <1>10, <1>11, <1>12, <1>13 DEF Next, Ends

LEMMA Invariance == Spec => []IInv
BY InitInv, NextInv, PTL DEF Spec
-----------------------------------------------------------------------------
(* The theorems. *)

\* Every row counted is a live widget's, and a load under way knows its key.
THEOREM TypeCorrect == Spec => []TypeOK
<1>1. IInv => TypeOK
  BY DEF IInv
<1> QED BY <1>1, Invariance, PTL

\* stats.py and submissions.py: for any rows, tenants, page size, number of
\* countries and of days, six queries answered from the same rows agree.
THEOREM SixQueriesAgree == Spec => []FiguresAgree
<1>1. IInv => FiguresAgree
  BY DEF IInv
<1> QED BY <1>1, Invariance, PTL

\* dashboard.html: whichever keys are tried, refused and cleared, and however
\* many loads are under way, an app at rest shows the figures of its own key.
THEOREM FiguresAreOfTheKey == Spec => []WhoseFigures
<1>1. IInv => WhoseFigures
  BY DEF IInv, OneKey, WhoseFigures
<1> QED BY <1>1, Invariance, PTL
=============================================================================
