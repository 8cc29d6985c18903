------------------------- MODULE RateLimiterProofs -------------------------
(***************************************************************************)
(* RateLimiter for any limits, windows, clocks' lag and number of threads, *)
(* addresses and widgets: at most double the rate, nobody refused who is   *)
(* not over the limit, and no form closed by a few machines.               *)
(***************************************************************************)
EXTENDS RateLimiter, FiniteSetTheorems, TLAPS

Arguments == [ip : Addresses \cup {None}, widget : Widgets \cup {None}]

\* A call is not longer than the check it is part of, and that not longer than
\* MaxLag: what a thread has read is never older.
TypeOK == /\ count \in [Clients -> Nat] /\ sinceSweep \in Nat /\ restarts \in Nat
          /\ age \in [Clients -> Nat] /\ \A k \in Clients : age[k] <= MaxAge(k)
          /\ pc \in [Threads -> Calls \cup {"idle"}] /\ key \in [Threads -> Arguments]
          /\ \A t \in Threads : pc[t] # "idle" => key[t].ip \in Addresses /\ key[t].widget \in Widgets
          /\ busy \in [Threads -> 0..MaxLag] /\ calling \in [Threads -> 0..MaxLag]
          /\ \A t \in Threads : calling[t] <= busy[t]
          /\ admitted = [k \in Clients |-> admitted[k]] /\ \A k \in Clients : admitted[k] \in [Ages(k) -> Nat]
          /\ share \in [Widgets -> [Addresses -> Nat]]

\* What a window has let through, of all it counted.
Within(n, limit) == IF n <= limit THEN n ELSE limit

\* A key's rate, given what its window has counted (n), how old that window is
\* (opened), what it let through up to each age (let) and what restarts added
\* (more).  The window was opened by the clock `opened` ago, and in truth `o`
\* ago; up to then only it has let anybody through, and up to a whole window
\* less the lag before that, only it and the one before.
Rate(k, n, opened, let, more) ==
  IF n = 0
  THEN \A m \in Ages(k) : m < Window(k) - MaxLag => let[m] <= Limit(k) + more
  ELSE \E o \in 0..MaxAge(k) :
         /\ opened <= o + MaxLag
         /\ \A m \in Ages(k) : m < o => let[m] <= Within(n, Limit(k)) + more
         /\ \A m \in Ages(k) : m < o + Window(k) - MaxLag => let[m] <= Limit(k) + Within(n, Limit(k)) + more
RateIsKept == \A k \in Clients : Rate(k, count[k], age[k], admitted[k], restarts * Limit(k))

\* A window counts as far as its limit only whom it lets through, and that
\* since its opening.
Fair(k, n, opened, let) == n > 0 /\ opened \in Ages(k) => let[opened] >= Within(n, Limit(k))
CountsWhomItLets == \A k \in Clients : Fair(k, count[k], age[k], admitted[k])

IInv == TypeOK /\ RateIsKept /\ CountsWhomItLets

LEMMA NobodyFacts == Nobody \in [Addresses -> Nat]
BY DEF Nobody

LEMMA KeyFacts ==
  ASSUME NEW k \in Clients
  PROVE  /\ Limit(k) \in Nat /\ Limit(k) > 0 /\ Window(k) \in Nat /\ MaxLag \in Nat /\ MaxLag < Window(k)
         /\ MaxAge(k) = Window(k) + MaxLag /\ Ages(k) = 0..(MaxAge(k) - 1)
BY LimitAssumption, BoundAssumption DEF Clients, Limit, Window, MaxAge, Ages
-----------------------------------------------------------------------------
(* What can happen to a key: time passes, its window is swept, opened,     *)
(* counts another or refuses it, or the process restarts.                  *)

Later(k, let) == [m \in Ages(k) |-> IF m = 0 THEN 0 ELSE let[m - 1]]
OneMore(k, let) == [m \in Ages(k) |-> let[m] + 1]

LEMMA RateLater ==
  ASSUME NEW k \in Clients, NEW n \in Nat, NEW a \in Nat, NEW let \in [Ages(k) -> Nat], NEW more \in Nat,
         a <= MaxAge(k), Rate(k, n, a, let, more)
  PROVE  Rate(k, n, IF n = 0 THEN 0 ELSE Older(a, k), Later(k, let), more)
<1>1. /\ Limit(k) \in Nat /\ Window(k) \in Nat /\ MaxLag \in Nat /\ MaxAge(k) = Window(k) + MaxLag
      /\ Ages(k) = 0..(MaxAge(k) - 1) /\ Within(n, Limit(k)) \in Nat
  BY KeyFacts DEF Within
<1>2. ASSUME NEW m \in Ages(k), NEW b \in Nat, m # 0 => let[m - 1] <= b
      PROVE  Later(k, let)[m] <= b
  BY <1>1, <1>2 DEF Later
<1>3. CASE n = 0
  <2>1. ASSUME NEW m \in Ages(k), m < Window(k) - MaxLag PROVE Later(k, let)[m] <= Limit(k) + more
    <3>1. m # 0 => let[m - 1] <= Limit(k) + more
      BY <1>1, <1>3, <2>1 DEF Rate
    <3> QED BY <1>1, <1>2, <3>1
  <2> QED BY <1>3, <2>1 DEF Rate
<1>4. CASE n # 0
  <2>1. PICK o \in 0..MaxAge(k) :
          /\ a <= o + MaxLag
          /\ \A m \in Ages(k) : m < o => let[m] <= Within(n, Limit(k)) + more
          /\ \A m \in Ages(k) : m < o + Window(k) - MaxLag => let[m] <= Limit(k) + Within(n, Limit(k)) + more
    BY <1>4 DEF Rate
  <2> DEFINE q == IF o < MaxAge(k) THEN o + 1 ELSE o
  <2>2. q \in 0..MaxAge(k) /\ Older(a, k) <= q + MaxLag /\ q <= o + 1
    BY <1>1, <2>1 DEF Older
  <2>3. ASSUME NEW m \in Ages(k), m < q PROVE Later(k, let)[m] <= Within(n, Limit(k)) + more
    <3>1. m # 0 => m - 1 \in Ages(k) /\ m - 1 < o
      BY <1>1, <2>1, <2>3
    <3>2. m # 0 => let[m - 1] <= Within(n, Limit(k)) + more
      BY <2>1, <3>1
    <3> QED BY <1>1, <1>2, <3>2
  <2>4. ASSUME NEW m \in Ages(k), m < q + Window(k) - MaxLag
        PROVE  Later(k, let)[m] <= Limit(k) + Within(n, Limit(k)) + more
    <3> HIDE DEF q
    <3>1. m # 0 => m - 1 \in Ages(k) /\ m - 1 < o + Window(k) - MaxLag
      <4>1. m # 0 => m - 1 \in Ages(k)
        BY <1>1
      <4>2. m \in Int /\ q \in Int /\ Window(k) \in Int /\ MaxLag \in Int
        BY <1>1, <2>2
      <4>3. m - 1 < o + Window(k) - MaxLag
        BY <2>2, <2>4, <4>2
      <4> QED BY <4>1, <4>3
    <3>2. m # 0 => let[m - 1] <= Limit(k) + Within(n, Limit(k)) + more
      BY <2>1, <3>1
    <3> QED BY <1>1, <1>2, <3>2
  <2> HIDE DEF q
  <2> QED BY <1>4, <2>2, <2>3, <2>4 DEF Rate
<1> QED BY <1>3, <1>4

\* A window that some thread finds expired is no younger, in truth, than the
\* stretch that AtMostDouble speaks of.
LEMMA RateGone ==
  ASSUME NEW k \in Clients, NEW n \in Nat, NEW a \in Nat, NEW let \in [Ages(k) -> Nat], NEW more \in Nat,
         NEW read \in 0..MaxLag, a - read >= Window(k), Rate(k, n, a, let, more)
  PROVE  Rate(k, 0, 0, let, more)
<1>1. /\ Limit(k) \in Nat /\ Window(k) \in Nat /\ MaxLag \in Nat /\ Ages(k) \subseteq Nat
      /\ Within(n, Limit(k)) <= Limit(k) /\ Within(n, Limit(k)) \in Nat
  BY KeyFacts DEF Within
<1>2. CASE n = 0
  BY <1>2 DEF Rate
<1>3. CASE n # 0
  <2>1. PICK o \in 0..MaxAge(k) : /\ a <= o + MaxLag
                                  /\ \A m \in Ages(k) : m < o => let[m] <= Within(n, Limit(k)) + more
    BY <1>3 DEF Rate
  <2>2. o >= Window(k) - MaxLag
    BY <1>1, <2>1, KeyFacts
  <2>3. ASSUME NEW m \in Ages(k), m < Window(k) - MaxLag PROVE let[m] <= Limit(k) + more
    <3>1. let[m] <= Within(n, Limit(k)) + more /\ let[m] \in Nat
      BY <1>1, <2>1, <2>2, <2>3, KeyFacts
    <3> QED BY <1>1, <3>1
  <2> QED BY <2>3 DEF Rate
<1> QED BY <1>2, <1>3

LEMMA RateAnew ==
  ASSUME NEW k \in Clients, NEW let \in [Ages(k) -> Nat], NEW more \in Nat, NEW read \in 0..MaxLag,
         NEW a, Rate(k, 0, a, let, more)
  PROVE  Rate(k, 1, read, OneMore(k, let), more)
<1>1. /\ Limit(k) \in Nat /\ Limit(k) > 0 /\ Window(k) \in Nat /\ MaxLag \in Nat
      /\ MaxAge(k) = Window(k) + MaxLag /\ Ages(k) = 0..(MaxAge(k) - 1) /\ Within(1, Limit(k)) = 1
  BY KeyFacts DEF Within
<1>2. \A m \in Ages(k) : m < Window(k) - MaxLag => let[m] <= Limit(k) + more
  BY DEF Rate
<1>3. \A m \in Ages(k) : OneMore(k, let)[m] = let[m] + 1
  BY DEF OneMore
<1>4. 0 \in 0..MaxAge(k) /\ read <= 0 + MaxLag
  BY <1>1
<1>5. \A m \in Ages(k) : m < 0 => OneMore(k, let)[m] <= Within(1, Limit(k)) + more
  BY <1>1
<1>6. \A m \in Ages(k) : m < 0 + Window(k) - MaxLag
                         => OneMore(k, let)[m] <= Limit(k) + Within(1, Limit(k)) + more
  BY <1>1, <1>2, <1>3
<1> QED BY <1>4, <1>5, <1>6 DEF Rate

LEMMA RateCounts ==
  ASSUME NEW k \in Clients, NEW n \in Nat, NEW a, NEW let \in [Ages(k) -> Nat], NEW more \in Nat,
         n > 0, Rate(k, n, a, let, more)
  PROVE  Rate(k, n + 1, a, IF n + 1 <= Limit(k) THEN OneMore(k, let) ELSE let, more)
<1> DEFINE new == IF n + 1 <= Limit(k) THEN OneMore(k, let) ELSE let
<1>1. Limit(k) \in Nat /\ Within(n, Limit(k)) \in Nat /\ Within(n + 1, Limit(k)) \in Nat
  BY KeyFacts DEF Within
<1>2. \A m \in Ages(k), b \in Nat : let[m] <= Within(n, Limit(k)) + b => new[m] <= Within(n + 1, Limit(k)) + b
  BY KeyFacts DEF OneMore, Within
<1>3. PICK o \in 0..MaxAge(k) :
        /\ a <= o + MaxLag
        /\ \A m \in Ages(k) : m < o => let[m] <= Within(n, Limit(k)) + more
        /\ \A m \in Ages(k) : m < o + Window(k) - MaxLag => let[m] <= Limit(k) + Within(n, Limit(k)) + more
  BY DEF Rate
<1> HIDE DEF new
<1>4. \A m \in Ages(k) : m < o => new[m] <= Within(n + 1, Limit(k)) + more
  BY <1>2, <1>3
<1>5. ASSUME NEW m \in Ages(k), m < o + Window(k) - MaxLag
      PROVE  new[m] <= Limit(k) + Within(n + 1, Limit(k)) + more
  <2>1. let[m] <= Within(n, Limit(k)) + (Limit(k) + more) /\ Limit(k) + more \in Nat
    BY <1>1, <1>3, <1>5
  <2>2. new[m] <= Within(n + 1, Limit(k)) + (Limit(k) + more)
    BY <1>2, <2>1
  <2>3. Within(n + 1, Limit(k)) + (Limit(k) + more) = Limit(k) + Within(n + 1, Limit(k)) + more
    BY <1>1
  <2> QED BY <2>2, <2>3
<1>6. Rate(k, n + 1, a, new, more)
  BY <1>3, <1>4, <1>5 DEF Rate
<1> QED BY <1>6 DEF new

LEMMA RateRestarts ==
  ASSUME NEW k \in Clients, NEW n \in Nat, NEW a, NEW let \in [Ages(k) -> Nat], NEW more \in Nat,
         Rate(k, n, a, let, more)
  PROVE  Rate(k, 0, 0, let, more + Limit(k))
<1>1. /\ Limit(k) \in Nat /\ Window(k) \in Nat /\ MaxLag \in Nat /\ Ages(k) \subseteq Nat
      /\ Within(n, Limit(k)) <= Limit(k) /\ Within(n, Limit(k)) \in Nat
  BY KeyFacts DEF Within
<1>2. CASE n = 0
  BY <1>1, <1>2 DEF Rate
<1>3. CASE n # 0
  <2>1. PICK o \in 0..MaxAge(k) :
          \A m \in Ages(k) : m < o + Window(k) - MaxLag => let[m] <= Limit(k) + Within(n, Limit(k)) + more
    BY <1>3 DEF Rate
  <2>2. ASSUME NEW m \in Ages(k), m < Window(k) - MaxLag PROVE let[m] <= Limit(k) + (more + Limit(k))
    <3>1. let[m] <= Limit(k) + Within(n, Limit(k)) + more /\ let[m] \in Nat
      BY <1>1, <2>1, <2>2, KeyFacts
    <3> QED BY <1>1, <3>1
  <2> QED BY <2>2 DEF Rate
<1> QED BY <1>2, <1>3

LEMMA FairLater ==
  ASSUME NEW k \in Clients, NEW n \in Nat, NEW a \in Nat, NEW let \in [Ages(k) -> Nat],
         a <= MaxAge(k), Fair(k, n, a, let)
  PROVE  Fair(k, n, IF n = 0 THEN 0 ELSE Older(a, k), Later(k, let))
<1>1. ASSUME n > 0, Older(a, k) \in Ages(k) PROVE a \in Ages(k) /\ Later(k, let)[Older(a, k)] = let[a]
  BY <1>1, KeyFacts DEF Older, Later
<1> QED BY <1>1 DEF Fair

LEMMA FairAnew ==
  ASSUME NEW k \in Clients, NEW let \in [Ages(k) -> Nat], NEW read \in Nat
  PROVE  Fair(k, 1, read, OneMore(k, let))
BY KeyFacts DEF Fair, OneMore, Within

LEMMA FairCounts ==
  ASSUME NEW k \in Clients, NEW n \in Nat, NEW a \in Nat, NEW let \in [Ages(k) -> Nat],
         n > 0, Fair(k, n, a, let)
  PROVE  Fair(k, n + 1, a, IF n + 1 <= Limit(k) THEN OneMore(k, let) ELSE let)
BY KeyFacts DEF Fair, OneMore, Within
-----------------------------------------------------------------------------
(* The invariant. *)

Sound(k, n, a, let, more) == Rate(k, n, a, let, more) /\ Fair(k, n, a, let)
KeySound(k) == Sound(k, count[k], age[k], admitted[k], restarts * Limit(k))

LEMMA InvIsSound == IInv <=> TypeOK /\ \A k \in Clients : KeySound(k)
BY DEF IInv, RateIsKept, CountsWhomItLets, KeySound, Sound

LEMMA InitInv == Init => IInv
<1> SUFFICES ASSUME Init PROVE TypeOK /\ \A k \in Clients : KeySound(k)
  BY InvIsSound
<1>1. TypeOK
  <2>1. \A k \in Clients : admitted[k] \in [Ages(k) -> Nat]
    BY KeyFacts DEF Init
  <2>2. admitted = [k \in Clients |-> admitted[k]]
    BY <2>1 DEF Init
  <2>3. \A k \in Clients : age[k] <= MaxAge(k)
    BY KeyFacts DEF Init
  <2> QED BY <2>1, <2>2, <2>3, NobodyFacts, BoundAssumption DEF TypeOK, Init, NoOne, Arguments
<1>2. ASSUME NEW k \in Clients PROVE KeySound(k)
  <2>1. 0 * Limit(k) = 0 /\ Ages(k) \subseteq Nat /\ \A m \in Ages(k) : admitted[k][m] = 0
    BY KeyFacts DEF Init
  <2> QED BY <2>1, KeyFacts DEF Init, KeySound, Sound, Rate, Fair
<1> QED BY <1>1, <1>2

LEMMA TypeStep == TypeOK /\ [Next]_vars => TypeOK'
<1> SUFFICES ASSUME TypeOK, [Next]_vars PROVE TypeOK'
  OBVIOUS
<1> DEFINE Tables == /\ count \in [Clients -> Nat] /\ age \in [Clients -> Nat]
                     /\ \A k \in Clients : age[k] <= MaxAge(k)
                     /\ share \in [Widgets -> [Addresses -> Nat]]
           Past == admitted = [k \in Clients |-> admitted[k]] /\ \A k \in Clients : admitted[k] \in [Ages(k) -> Nat]
           Running == /\ pc \in [Threads -> Calls \cup {"idle"}] /\ key \in [Threads -> Arguments]
                      /\ \A t \in Threads : pc[t] # "idle" => key[t].ip \in Addresses /\ key[t].widget \in Widgets
                      /\ busy \in [Threads -> 0..MaxLag] /\ calling \in [Threads -> 0..MaxLag]
                      /\ \A t \in Threads : calling[t] <= busy[t]
           Counters == sinceSweep \in Nat /\ restarts \in Nat
<1>1. Tables /\ Past /\ Running /\ Counters
  BY DEF TypeOK
<1>2. ASSUME Tables', Past', Running', Counters' PROVE TypeOK'
  BY <1>2 DEF TypeOK
<1>3. ASSUME NEW t \in Threads, NEW call \in Calls \cup {"idle"}, Goto(t, call), pc[t] # "idle", UNCHANGED restarts
      PROVE  Running'
  BY <1>1, <1>3, BoundAssumption DEF Goto, NoOne, Arguments
<1>4. ASSUME NEW k \in Clients, Admit(k) PROVE Past'
  <2>1. [m \in Ages(k) |-> admitted[k][m] + 1] \in [Ages(k) -> Nat]
    BY <1>1
  <2> QED BY <1>1, <1>4, <2>1 DEF Admit
<1>5. CASE Tick
  <2>1. Tables'
    BY <1>1, <1>5, KeyFacts DEF Tick, Older
  <2>2. Past'
    <3>1. ASSUME NEW k \in Clients PROVE Later(k, admitted[k]) \in [Ages(k) -> Nat]
      BY <1>1, KeyFacts DEF Later
    <3>2. admitted' = [k \in Clients |-> Later(k, admitted[k])]
      BY <1>5 DEF Tick, Later
    <3> QED BY <3>1, <3>2
  <2>3. Running'
    <3>1. ASSUME NEW t \in Threads
          PROVE  /\ busy'[t] \in 0..MaxLag /\ calling'[t] \in 0..MaxLag /\ calling'[t] <= busy'[t]
      BY <1>1, <1>5, BoundAssumption DEF Tick
    <3> QED BY <1>1, <1>5, <3>1 DEF Tick
  <2> QED BY <1>1, <1>2, <1>5, <2>1, <2>2, <2>3 DEF Tick
<1>6. ASSUME NEW t \in Threads, NEW ip \in Addresses, NEW widget \in Widgets, Check(t, ip, widget)
      PROVE  TypeOK'
  <2>1. Tables' /\ Past' /\ Counters'
    BY <1>1, <1>6 DEF Check, windows, history
  <2>2. Running'
    BY <1>1, <1>6 DEF Check, Arguments, Calls
  <2> QED BY <1>2, <2>1, <2>2
<1>7. ASSUME NEW t \in Threads, SweepIp(t) \/ SweepWidget(t) PROVE TypeOK'
  <2>1. ASSUME NEW keys, NEW read, Sweep(keys, read) PROVE Tables'
    BY <1>1, <2>1, NobodyFacts, KeyFacts DEF Sweep
  <2>2. Tables' /\ Past' /\ Counters'
    BY <1>1, <1>7, <2>1 DEF SweepIp, SweepWidget
  <2>3. Running'
    BY <1>3, <1>7 DEF SweepIp, SweepWidget, Calls
  <2> QED BY <1>2, <2>2, <2>3
<1>8. ASSUME NEW t \in Threads, HitIp(t) \/ HitWidget(t) PROVE TypeOK'
  <2>1. ASSUME NEW k \in Clients, NEW read \in Readings(t), NEW next \in Calls \cup {"idle"},
               pc[t] # "idle", Hit(t, k, read, next)
        PROVE  TypeOK'
    <3>1. read \in 0..MaxLag /\ key[t].ip \in Addresses
      BY <1>1, <2>1, BoundAssumption DEF Readings
    <3>2. count' \in [Clients -> Nat]
      BY <1>1, <2>1 DEF Hit, Counted
    <3>3. age' \in [Clients -> Nat] /\ \A j \in Clients : age'[j] <= MaxAge(j)
      <4>1. age' = [age EXCEPT ![k] = read] \/ age' = age
        BY <2>1 DEF Hit
      <4>2. read \in Nat /\ read <= MaxAge(k)
        BY <3>1, KeyFacts
      <4> QED BY <1>1, <4>1, <4>2
    <3>4. share' \in [Widgets -> [Addresses -> Nat]]
      <4>1. ASSUME NEW f \in [Addresses -> Nat] PROVE [f EXCEPT ![key[t].ip] = @ + 1] \in [Addresses -> Nat]
        BY <3>1
      <4>2. [IF Anew(k, read) THEN Nobody ELSE share[k] EXCEPT ![key[t].ip] = @ + 1] \in [Addresses -> Nat]
            \/ k \notin Widgets
        BY <1>1, <4>1, NobodyFacts
      <4> QED BY <1>1, <2>1, <4>2 DEF Hit
    <3>5. Past' /\ Counters'
      <4>1. CASE Admit(k)
        BY <1>1, <1>4, <2>1, <4>1 DEF Hit
      <4>2. CASE UNCHANGED admitted
        BY <1>1, <2>1, <4>2 DEF Hit
      <4>3. Admit(k) \/ UNCHANGED admitted
        BY <2>1 DEF Hit
      <4> QED BY <4>1, <4>2, <4>3
    <3>6. Running'
      BY <1>3, <2>1 DEF Hit, Calls
    <3> QED BY <1>2, <3>2, <3>3, <3>4, <3>5, <3>6
  <2>2. key[t].ip \in Clients /\ key[t].widget \in Clients
    BY <1>1, <1>8 DEF HitIp, HitWidget, Clients
  <2> QED BY <1>8, <2>1, <2>2 DEF HitIp, HitWidget, Calls
<1>9. CASE Restart
  <2>1. Tables' /\ Past' /\ Counters'
    BY <1>1, <1>9, NobodyFacts, KeyFacts DEF Restart
  <2>2. Running'
    BY <1>1, <1>9, BoundAssumption DEF Restart, NoOne, Arguments
  <2> QED BY <1>2, <2>1, <2>2
<1>10. CASE UNCHANGED vars
  BY <1>10 DEF vars, TypeOK
<1> QED BY <1>5, <1>6, <1>7, <1>8, <1>9, <1>10 DEF Next

LEMMA SoundStep == IInv /\ [Next]_vars => \A k \in Clients : KeySound(k)'
<1> SUFFICES ASSUME IInv, [Next]_vars, NEW k \in Clients PROVE KeySound(k)'
  OBVIOUS
<1> DEFINE more == restarts * Limit(k)
<1>1. /\ TypeOK /\ Sound(k, count[k], age[k], admitted[k], more)
      /\ count[k] \in Nat /\ age[k] \in Nat /\ age[k] <= MaxAge(k) /\ admitted[k] \in [Ages(k) -> Nat]
  BY InvIsSound DEF KeySound, TypeOK
<1>2. more \in Nat /\ (restarts + 1) * Limit(k) = more + Limit(k)
  BY <1>1, KeyFacts DEF TypeOK
<1>3. ASSUME UNCHANGED <<count[k], age[k], admitted[k], restarts>> PROVE KeySound(k)'
  BY <1>1, <1>3 DEF KeySound
<1>4. CASE Tick
  <2>1. /\ count'[k] = count[k] /\ age'[k] = IF count[k] = 0 THEN 0 ELSE Older(age[k], k)
        /\ admitted'[k] = Later(k, admitted[k]) /\ restarts' = restarts
    BY <1>1, <1>4 DEF Tick, Later
  <2> HIDE DEF more
  <2>2. Sound(k, count'[k], age'[k], admitted'[k], more)
    BY <1>1, <1>2, <2>1, RateLater, FairLater DEF Sound
  <2> QED BY <2>1, <2>2 DEF KeySound, more
<1>5. ASSUME NEW t \in Threads, NEW ip \in Addresses, NEW widget \in Widgets, Check(t, ip, widget)
      PROVE  KeySound(k)'
  BY <1>3, <1>5 DEF Check, windows, history
<1>6. ASSUME NEW t \in Threads, SweepIp(t) \/ SweepWidget(t) PROVE KeySound(k)'
  <2>1. PICK keys \in {Addresses, Widgets}, read \in Readings(t) :
               Sweep(keys, read) /\ UNCHANGED <<admitted, restarts>>
    BY <1>6, Zenon DEF SweepIp, SweepWidget
  <2>2. read \in 0..MaxLag
    BY <1>1, BoundAssumption DEF TypeOK, Readings
  <2>3. CASE k \in keys /\ Expired(k, read)
    <3>1. count'[k] = 0 /\ age'[k] = 0 /\ age[k] - read >= Window(k)
      BY <2>1, <2>3 DEF Sweep, Expired
    <3> HIDE DEF more
    <3>2. Sound(k, 0, 0, admitted[k], more)
      BY <1>1, <1>2, <2>2, <3>1, RateGone DEF Sound, Fair
    <3> QED BY <2>1, <3>1, <3>2 DEF KeySound, more
  <2>4. CASE ~(k \in keys /\ Expired(k, read))
    BY <1>1, <1>3, <2>1, <2>4 DEF Sweep, TypeOK
  <2> QED BY <2>3, <2>4
<1>7. ASSUME NEW t \in Threads, HitIp(t) \/ HitWidget(t) PROVE KeySound(k)'
  <2>1. PICK j \in Clients, read \in Readings(t), next \in {"hitWidget", "idle"} : Hit(t, j, read, next)
    <3>1. key[t].ip \in Clients /\ key[t].widget \in Clients
      BY <1>1, <1>7 DEF HitIp, HitWidget, Clients, TypeOK
    <3> QED BY <1>7, <3>1, Zenon DEF HitIp, HitWidget
  <2>2. read \in 0..MaxLag /\ read \in Nat /\ restarts' = restarts
    BY <1>1, <2>1, BoundAssumption DEF TypeOK, Readings, Hit
  <2>3. CASE j # k
    BY <1>1, <1>3, <2>1, <2>3 DEF Hit, Admit, TypeOK
  <2>4. ASSUME j = k, Verdict(k, read) = 0 PROVE admitted'[k] = OneMore(k, admitted[k])
    BY <1>1, <2>1, <2>4 DEF Hit, Admit, OneMore, TypeOK
  <2>5. ASSUME j = k, Verdict(k, read) # 0 PROVE admitted' = admitted
    BY <2>1, <2>5 DEF Hit
  <2>6. Verdict(k, read) = 0 <=> Counted(k, read) <= Limit(k)
    <3>1. Counted(k, read) \in Nat /\ Limit(k) \in Nat
      BY <1>1, KeyFacts DEF Counted
    <3>2. RetryAfter(Remaining(k, read)) # 0
      BY DEF RetryAfter
    <3> QED BY <3>1, <3>2 DEF Verdict
  <2>7. CASE j = k /\ Anew(k, read)
    <3>1. count'[k] = 1 /\ age'[k] = read /\ Counted(k, read) = 1
      BY <1>1, <2>1, <2>7 DEF Hit, Counted, TypeOK
    <3>2. admitted'[k] = OneMore(k, admitted[k])
      BY <2>4, <2>6, <2>7, <3>1, KeyFacts
    <3> HIDE DEF more
    <3>3. Rate(k, 0, 0, admitted[k], more)
      <4>1. CASE count[k] = 0
        BY <1>1, <4>1 DEF Sound, Rate
      <4>2. CASE age[k] - read >= Window(k)
        BY <1>1, <1>2, <2>2, <4>2, RateGone DEF Sound
      <4> QED BY <2>7, <4>1, <4>2 DEF Anew, Expired
    <3>4. Sound(k, 1, read, OneMore(k, admitted[k]), more)
      BY <1>1, <1>2, <2>2, <3>3, RateAnew, FairAnew DEF Sound
    <3> QED BY <2>2, <3>1, <3>2, <3>4 DEF KeySound, more
  <2>8. CASE j = k /\ ~Anew(k, read)
    <3>1. /\ count'[k] = count[k] + 1 /\ age'[k] = age[k] /\ Counted(k, read) = count[k] + 1
          /\ count[k] > 0
      BY <1>1, <2>1, <2>8 DEF Hit, Counted, TypeOK, Anew
    <3>2. admitted'[k] = IF count[k] + 1 <= Limit(k) THEN OneMore(k, admitted[k]) ELSE admitted[k]
      BY <2>4, <2>5, <2>6, <2>8, <3>1
    <3> HIDE DEF more
    <3>3. Sound(k, count[k] + 1, age[k], admitted'[k], more)
      BY <1>1, <1>2, <3>1, <3>2, RateCounts, FairCounts DEF Sound
    <3> QED BY <2>2, <3>1, <3>3 DEF KeySound, more
  <2> QED BY <2>3, <2>7, <2>8
<1>8. CASE Restart
  <2>1. count'[k] = 0 /\ age'[k] = 0 /\ admitted' = admitted /\ restarts' = restarts + 1
    BY <1>8 DEF Restart
  <2>2. restarts' * Limit(k) = more + Limit(k)
    BY <1>2, <2>1
  <2> HIDE DEF more
  <2>3. Sound(k, 0, 0, admitted[k], more + Limit(k))
    BY <1>1, <1>2, RateRestarts DEF Sound, Fair
  <2> QED BY <2>1, <2>2, <2>3 DEF KeySound
<1>9. CASE UNCHANGED vars
  BY <1>3, <1>9 DEF vars
<1> QED BY <1>4, <1>5, <1>6, <1>7, <1>8, <1>9 DEF Next

LEMMA Invariance == Spec => []IInv
<1>1. IInv /\ [Next]_vars => IInv'
  <2> SUFFICES ASSUME IInv, [Next]_vars PROVE IInv'
    OBVIOUS
  <2>1. TypeOK' /\ \A k \in Clients : KeySound(k)'
    BY TypeStep, SoundStep DEF IInv
  <2> QED BY <2>1 DEF IInv, RateIsKept, CountsWhomItLets, KeySound, Sound
<1> QED BY InitInv, <1>1, PTL DEF Spec
-----------------------------------------------------------------------------
(* The theorems. *)

\* Types, and with them that no thread acts on a clock older than MaxLag, and
\* that whoever is inside check has an address and a widget.
THEOREM TypeCorrect == Spec => []TypeOK
<1>1. IInv => TypeOK
  BY DEF IInv
<1> QED BY <1>1, Invariance, PTL

\* FixedWindow.hit and sweep: "can briefly double the rate", and no more, for
\* any limits, windows, threads and keys, whenever the sweep comes, as long as
\* the window outlasts the clock's lag; a restart adds one limit.
THEOREM NoMoreThanDouble == Spec => []AtMostDouble
<1>1. ASSUME IInv, NEW k \in Clients
      PROVE  admitted[k][Window(k) - MaxLag - 1] <= (2 + restarts) * Limit(k)
  <2> DEFINE more == restarts * Limit(k)
             m == Window(k) - MaxLag - 1
  <2>1. /\ Rate(k, count[k], age[k], admitted[k], more) /\ count[k] \in Nat /\ restarts \in Nat
        /\ admitted[k] \in [Ages(k) -> Nat] /\ Limit(k) \in Nat
    BY <1>1, KeyFacts DEF IInv, RateIsKept, TypeOK
  <2>2. more \in Nat /\ (2 + restarts) * Limit(k) = Limit(k) + Limit(k) + more
    BY <2>1
  <2>3. m \in Ages(k) /\ m < Window(k) - MaxLag /\ \A o \in Nat : m < o + Window(k) - MaxLag
    BY KeyFacts
  <2>4. Within(count[k], Limit(k)) <= Limit(k) /\ Within(count[k], Limit(k)) \in Nat /\ admitted[k][m] \in Nat
    BY <2>1, <2>3 DEF Within
  <2> HIDE DEF more, m
  <2>5. CASE count[k] = 0
    <3>1. admitted[k][m] <= Limit(k) + more
      BY <2>1, <2>3, <2>5 DEF Rate
    <3> QED BY <2>1, <2>2, <2>4, <3>1 DEF m
  <2>6. CASE count[k] # 0
    <3>1. admitted[k][m] <= Limit(k) + Within(count[k], Limit(k)) + more
      BY <2>1, <2>3, <2>6, KeyFacts DEF Rate
    <3> QED BY <2>1, <2>2, <2>4, <3>1 DEF m
  <2> QED BY <2>5, <2>6
<1>2. IInv => AtMostDouble
  BY <1>1 DEF AtMostDouble
<1> QED BY <1>2, Invariance, PTL

\* Cutting the wait to whole seconds, and never to none, errs by less than one.
LEMMA WaitIsClose ==
  ASSUME NEW units \in Nat, units > 0
  PROVE  RetryAfter(units) * Second \in (units - Second + 1)..(units + Second - 1)
<1> DEFINE q == units \div Second
<1>1. Second \in Nat /\ Second > 0
  BY LimitAssumption
<1>2. q \in Nat /\ q * Second <= units /\ units < q * Second + Second
  BY <1>1
<1> HIDE DEF q
<1>3. CASE q > 1
  <2>1. RetryAfter(units) = q /\ q * Second \in Nat
    BY <1>1, <1>2, <1>3 DEF RetryAfter, q
  <2> QED BY <1>1, <1>2, <2>1
<1>4. CASE q = 1
  <2>1. RetryAfter(units) = 1
    BY <1>4 DEF RetryAfter, q
  <2> QED BY <1>1, <1>2, <1>4, <2>1
<1>5. CASE q = 0
  <2>1. RetryAfter(units) = 1
    BY <1>5 DEF RetryAfter, q
  <2> QED BY <1>1, <1>2, <1>5, <2>1
<1> QED BY <1>2, <1>3, <1>4, <1>5

\* hit refuses a request only when its window let as many through as it may,
\* also when the clock was read long before the lock or just before a sweep;
\* and the Retry-After is right to less than a second.
THEOREM RefusalsAreEarned == Spec => []RefusalIsEarned
<1>1. ASSUME IInv, NEW t \in Threads, NEW k \in Clients, NEW read \in Readings(t), Refuses(t, k, read)
      PROVE  /\ admitted[k][age[k]] >= Limit(k)
             /\ Verdict(k, read) * Second \in (Remaining(k, read) - Second + 1)..(Remaining(k, read) + Second - 1)
  <2>1. /\ count[k] \in Nat /\ age[k] \in Nat /\ read \in 0..MaxLag
        /\ Fair(k, count[k], age[k], admitted[k])
    BY <1>1, BoundAssumption DEF IInv, TypeOK, CountsWhomItLets, Readings
  <2>2. Counted(k, read) > Limit(k) /\ Verdict(k, read) = RetryAfter(Remaining(k, read))
    BY <1>1 DEF Refuses, Verdict
  <2>3. count[k] > 0 /\ count[k] + 1 > Limit(k) /\ ~Anew(k, read) /\ age[k] - read < Window(k)
    BY <2>1, <2>2, KeyFacts DEF Counted, Anew, Expired
  <2>4. age[k] \in Ages(k) /\ Within(count[k], Limit(k)) = Limit(k)
    BY <2>1, <2>3, KeyFacts DEF Within
  <2>5. Remaining(k, read) \in Nat /\ Remaining(k, read) > 0
    BY <2>1, <2>3, KeyFacts DEF Remaining
  <2> QED BY <2>1, <2>2, <2>3, <2>4, <2>5, WaitIsClose DEF Fair
<1>2. IInv => RefusalIsEarned
  BY <1>1 DEF RefusalIsEarned
<1> QED BY <1>2, Invariance, PTL
-----------------------------------------------------------------------------
(* How much of one widget's window can be one address's.                   *)

\* The least that passes in truth between the openings of two windows of an address.
Spell == IpWindow - MaxLag
Held(ip) == Within(count[ip], IpLimit)

\* Of what an address had let through in the last m units, when its window was
\* opened o ago: at most this window's and, for each spell more that they
\* reach back, one window's more, but not all of the first of these, since the
\* request that opened it came before.
Bounded(o, m, n, c) == \A j \in Nat : m < o + j * Spell => n < j * IpLimit + c

\* The threads let through for an address and on their way to a widget's
\* window: all since m units ago, and those that may still be counted in the
\* widget's present window.
Sent(ip, m) == {t \in Threads : pc[t] = "hitWidget" /\ key[t].ip = ip /\ calling[t] <= m}
Coming(ip, w) == {t \in Threads : /\ pc[t] = "hitWidget" /\ key[t] = [ip |-> ip, widget |-> w]
                                  /\ age[w] - calling[t] < WidgetWindow}
Claim(ip, w) == share[w][ip] + Cardinality(Coming(ip, w))

\* The most that an address takes of one window of a widget.
Most == WindowsTouched * IpLimit - 1

\* While a widget's window is open, whoever is counted in it or may still be was
\* let through since it was opened, or at most a lag before.
Paced(ip, o) ==
  /\ age[ip] <= o + MaxLag
  /\ \A m \in 0..MaxLag : Bounded(o, m, Cardinality(Sent(ip, m)), Held(ip))
  /\ \A w \in Widgets : count[w] > 0 /\ age[w] < WidgetWindow => Bounded(o, age[w] + MaxLag, Claim(ip, w), Held(ip))
  /\ \A w \in Widgets : count[w] > 0 /\ age[w] >= WidgetWindow => Claim(ip, w) <= Most
PaceIsKept == \A ip \in Addresses : \E o \in Nat : Paced(ip, o)

\* A widget's window is made up of the addresses' shares.
Hits(part) == UNION {{ip} \X (1..part[ip]) : ip \in Addresses}
AddsUp(part, n) == IsFiniteSet(Hits(part)) /\ Cardinality(Hits(part)) = n
SharesAddUp == \A w \in Widgets : AddsUp(share[w], count[w])

HandsInv == TypeOK /\ PaceIsKept /\ SharesAddUp

LEMMA SpellFacts ==
  /\ Spell \in Nat /\ Spell > 0 /\ IpLimit \in Nat /\ IpLimit > 0 /\ WidgetLimit \in Nat /\ MaxLag \in Nat /\ WidgetWindow \in Nat
  /\ MaxLag < WidgetWindow /\ IpWindow = Spell + MaxLag
  /\ \A ip \in Addresses : ip \in Clients /\ ip \notin Widgets /\ Limit(ip) = IpLimit /\ Window(ip) = IpWindow
  /\ \A w \in Widgets : /\ w \in Clients /\ w \notin Addresses /\ Limit(w) = WidgetLimit
                        /\ Window(w) = WidgetWindow /\ MaxAge(w) = WidgetWindow + MaxLag
BY LimitAssumption, BoundAssumption DEF Spell, Clients, Limit, Window, MaxAge

\* Nobody was let through.
LEMMA BoundNobody == ASSUME NEW m \in Nat PROVE Bounded(0, m, 0, 0)
<1> SUFFICES ASSUME NEW j \in Nat, m < 0 + j * Spell PROVE 0 < j * IpLimit + 0
  BY DEF Bounded
<1>1. j # 0
  BY SpellFacts
<1>2. j * IpLimit \in Nat /\ j * IpLimit > 0
  BY <1>1, SpellFacts
<1> QED BY <1>2

\* Time passes for the window and for the stretch alike.
LEMMA BoundLater ==
  ASSUME NEW o \in Nat, NEW m \in Nat, NEW n \in Nat, NEW c \in Nat, Bounded(o, m, n, c)
  PROVE  Bounded(o + 1, m + 1, n, c)
<1> SUFFICES ASSUME NEW j \in Nat, m + 1 < (o + 1) + j * Spell PROVE n < j * IpLimit + c
  BY DEF Bounded
<1>1. j * Spell \in Nat
  BY SpellFacts
<1>2. m < o + j * Spell
  BY <1>1
<1> QED BY <1>2 DEF Bounded

\* Fewer, in a longer stretch.
LEMMA BoundWeaker ==
  ASSUME NEW o \in Nat, NEW m \in Nat, NEW n \in Nat, NEW c \in Nat, Bounded(o, m, n, c),
         NEW mm \in Nat, NEW nn \in Nat, m <= mm, nn <= n
  PROVE  Bounded(o, mm, nn, c)
<1> SUFFICES ASSUME NEW j \in Nat, mm < o + j * Spell PROVE nn < j * IpLimit + c
  BY DEF Bounded
<1>1. j * Spell \in Nat /\ j * IpLimit \in Nat
  BY SpellFacts
<1>2. m < o + j * Spell
  BY <1>1
<1>3. n < j * IpLimit + c
  BY <1>2 DEF Bounded
<1> QED BY <1>1, <1>3

\* One more, who is in the present window.
LEMMA BoundMore ==
  ASSUME NEW o \in Nat, NEW m \in Nat, NEW n \in Nat, NEW c \in Nat, Bounded(o, m, n, c)
  PROVE  Bounded(o, m, n + 1, c + 1)
<1> SUFFICES ASSUME NEW j \in Nat, m < o + j * Spell PROVE n + 1 < j * IpLimit + (c + 1)
  BY DEF Bounded
<1>1. j * IpLimit \in Nat /\ n < j * IpLimit + c
  BY SpellFacts DEF Bounded
<1> QED BY <1>1

\* The window is over, a spell or more after it was opened, and is one of the
\* windows before.
LEMMA BoundOver ==
  ASSUME NEW o \in Nat, NEW m \in Nat, NEW n \in Nat, NEW c \in Nat, Bounded(o, m, n, c),
         c = 0 \/ (o >= Spell /\ c <= IpLimit)
  PROVE  Bounded(0, m, n, 0)
<1> SUFFICES ASSUME NEW j \in Nat, m < 0 + j * Spell PROVE n < j * IpLimit + 0
  BY DEF Bounded
<1>1. j * Spell \in Nat /\ j * IpLimit \in Nat
  BY SpellFacts
<1>2. CASE c = 0
  <2>1. m < o + j * Spell
    BY <1>1
  <2>2. n < j * IpLimit + c
    BY <2>1 DEF Bounded
  <2> QED BY <1>1, <1>2, <2>2
<1>3. CASE o >= Spell /\ c <= IpLimit
  <2>1. j # 0
    BY SpellFacts
  <2>2. PICK i \in Nat : j = i + 1
    <3>1. j - 1 \in Nat /\ j = (j - 1) + 1
      BY <2>1
    <3> QED BY <3>1
  <2>3. /\ i * Spell \in Nat /\ j * Spell = i * Spell + Spell
        /\ i * IpLimit \in Nat /\ j * IpLimit = i * IpLimit + IpLimit
    BY <2>2, SpellFacts
  <2>4. m < o + i * Spell
    BY <1>1, <1>3, <2>3, SpellFacts
  <2>5. n < i * IpLimit + c
    BY <2>4 DEF Bounded
  <2> QED BY <1>1, <1>3, <2>3, <2>5, SpellFacts
<1> QED BY <1>2, <1>3

\* However long ago its window was opened, an address has no more than Most in a
\* stretch as long as a widget's window and a lag.
LEMMA BoundMost ==
  ASSUME NEW o \in Nat, NEW m \in Nat, NEW n \in Nat, NEW c \in Nat, Bounded(o, m, n, c),
         c <= IpLimit, m <= WidgetWindow - 1 + MaxLag
  PROVE  n <= Most
<1> DEFINE q == (WidgetWindow + MaxLag - 1) \div Spell
<1>1. WidgetWindow + MaxLag - 1 \in Nat
  BY SpellFacts
<1>2. q \in Nat /\ WidgetWindow + MaxLag - 1 < q * Spell + Spell /\ q * Spell \in Nat
  BY <1>1, SpellFacts
<1>3. WindowsTouched = q + 2
  BY DEF WindowsTouched, Spell
<1> HIDE DEF q
<1>4. (q + 1) * Spell = q * Spell + Spell /\ q + 1 \in Nat
  BY <1>2, SpellFacts
<1>5. m < o + (q + 1) * Spell
  BY <1>1, <1>2, <1>4, SpellFacts
<1>6. n < (q + 1) * IpLimit + c
  BY <1>4, <1>5 DEF Bounded
<1>7. (q + 2) * IpLimit = (q + 1) * IpLimit + IpLimit /\ (q + 1) * IpLimit \in Nat
  BY <1>2, SpellFacts
<1> QED BY <1>3, <1>6, <1>7, SpellFacts DEF Most

LEMMA MostFacts == WindowsTouched \in Nat /\ WindowsTouched * IpLimit \in Nat /\ Most \in Nat
<1>1. WidgetWindow + MaxLag - 1 \in Nat
  BY SpellFacts
<1>2. (WidgetWindow + MaxLag - 1) \div Spell \in Nat
  BY <1>1, SpellFacts
<1>3. WindowsTouched \in Nat /\ WindowsTouched > 0
  BY <1>2 DEF WindowsTouched, Spell
<1>4. WindowsTouched * IpLimit \in Nat /\ WindowsTouched * IpLimit > 0
  BY <1>3, SpellFacts
<1> QED BY <1>3, <1>4 DEF Most

\* Threads are counted, and fewer of them are fewer.
LEMMA Fewer ==
  ASSUME NEW S \in SUBSET Threads, NEW R \in SUBSET S
  PROVE  /\ IsFiniteSet(S) /\ Cardinality(S) \in Nat /\ IsFiniteSet(R) /\ Cardinality(R) \in Nat
         /\ Cardinality(R) <= Cardinality(S)
<1>1. IsFiniteSet(Threads)
  BY LimitAssumption
<1>2. IsFiniteSet(S)
  BY <1>1, FS_Subset
<1>3. IsFiniteSet(R) /\ Cardinality(R) <= Cardinality(S)
  BY <1>2, FS_Subset
<1> QED BY <1>2, <1>3, FS_CardinalityType

LEMMA OneMoreThread ==
  ASSUME NEW S \in SUBSET Threads, NEW t \in Threads, NEW R \in SUBSET (S \cup {t})
  PROVE  Cardinality(R) <= Cardinality(S) + 1
<1>1. IsFiniteSet(S) /\ Cardinality(S) \in Nat
  BY Fewer
<1>2. IsFiniteSet(S \cup {t}) /\ Cardinality(S \cup {t}) <= Cardinality(S) + 1
  BY <1>1, FS_AddElement
<1>3. Cardinality(R) <= Cardinality(S \cup {t})
  BY <1>2, FS_Subset
<1>4. Cardinality(R) \in Nat /\ Cardinality(S \cup {t}) \in Nat
  BY <1>2, FS_Subset, FS_CardinalityType
<1> QED BY <1>1, <1>2, <1>3, <1>4

Numeric == /\ \A ip \in Addresses : Held(ip) \in Nat /\ Held(ip) <= IpLimit
           /\ \A ip \in Addresses, m \in Nat : Sent(ip, m) \in SUBSET Threads /\ Cardinality(Sent(ip, m)) \in Nat
           /\ \A ip \in Addresses, w \in Widgets : /\ Coming(ip, w) \in SUBSET Threads
                                                   /\ Cardinality(Coming(ip, w)) \in Nat
           /\ \A ip \in Addresses, w \in Widgets : share[w][ip] \in Nat /\ Claim(ip, w) \in Nat
           /\ \A k \in Clients : count[k] \in Nat /\ age[k] \in Nat /\ age[k] <= MaxAge(k)

LEMMA Numbers == TypeOK => Numeric
<1> SUFFICES ASSUME TypeOK PROVE Numeric
  OBVIOUS
<1>1. \A ip \in Addresses : Held(ip) \in Nat /\ Held(ip) <= IpLimit
  BY SpellFacts DEF TypeOK, Held, Within
<1>2. ASSUME NEW ip, NEW m PROVE Sent(ip, m) \in SUBSET Threads /\ Cardinality(Sent(ip, m)) \in Nat
  <2>1. Sent(ip, m) \in SUBSET Threads
    BY DEF Sent
  <2> QED BY <2>1, Fewer
<1>3. ASSUME NEW ip, NEW w PROVE Coming(ip, w) \in SUBSET Threads /\ Cardinality(Coming(ip, w)) \in Nat
  <2>1. Coming(ip, w) \in SUBSET Threads
    BY DEF Coming
  <2> QED BY <2>1, Fewer
<1>4. \A ip \in Addresses, w \in Widgets : share[w][ip] \in Nat /\ Claim(ip, w) \in Nat
  BY <1>3 DEF TypeOK, Claim
<1>5. \A k \in Clients : count[k] \in Nat /\ age[k] \in Nat /\ age[k] <= MaxAge(k)
  BY DEF TypeOK
<1> QED BY <1>1, <1>2, <1>3, <1>4, <1>5 DEF Numeric

\* What an address's pace is kept by: at most d more of its threads are on their
\* way, as many more as its window let through, and they add as many to what
\* they claim of an open window and nothing to a closed one; a window opened
\* anew is claimed by threads on their way only.
LEMMA PaceCarries ==
  ASSUME TypeOK, TypeOK', NEW ip \in Addresses, NEW o \in Nat, Paced(ip, o), NEW p \in Nat, NEW d \in {0, 1},
         age'[ip] <= p + MaxLag,
         \A m, n \in Nat : Bounded(o, m, n, Held(ip)) => Bounded(p, m, n + d, Held(ip)'),
         \A m \in 0..MaxLag : Cardinality(Sent(ip, m)') <= Cardinality(Sent(ip, m)) + d,
         \A w \in Widgets : count'[w] > 0 =>
           \/ count[w] > 0 /\ age'[w] = age[w] /\ Claim(ip, w)' <= Claim(ip, w)
           \/ count[w] > 0 /\ age'[w] = age[w] /\ age[w] < WidgetWindow /\ Claim(ip, w)' <= Claim(ip, w) + d
           \/ age'[w] \in 0..MaxLag /\ Claim(ip, w)' <= Cardinality(Sent(ip, MaxLag))
  PROVE  Paced(ip, p)'
<1>n. Numeric /\ Numeric'
  BY Numbers, PTL
<1>1. Held(ip) \in Nat /\ Held(ip)' \in Nat
  BY <1>n DEF Numeric
<1>2. ASSUME NEW m \in Nat, NEW n \in Nat, Bounded(o, m, n, Held(ip)),
             NEW mm \in Nat, m <= mm, NEW nn \in Nat, nn <= n + d
      PROVE  Bounded(p, mm, nn, Held(ip)')
  <2>1. Bounded(p, m, n + d, Held(ip)') /\ n + d \in Nat
    BY <1>2
  <2> QED BY <1>1, <1>2, <2>1, BoundWeaker
<1>3. ASSUME NEW m \in 0..MaxLag PROVE Bounded(p, m, Cardinality(Sent(ip, m)'), Held(ip)')
  <2>1. Bounded(o, m, Cardinality(Sent(ip, m)), Held(ip))
    BY DEF Paced
  <2>2. m \in Nat /\ Cardinality(Sent(ip, m)) \in Nat /\ Cardinality(Sent(ip, m)') \in Nat
    BY <1>n, SpellFacts DEF Numeric
  <2> QED BY <1>2, <2>1, <2>2
<1>4. ASSUME NEW w \in Widgets, count'[w] > 0, age'[w] < WidgetWindow
      PROVE  Bounded(p, age'[w] + MaxLag, Claim(ip, w)', Held(ip)')
  <2>1. age'[w] + MaxLag \in Nat /\ Claim(ip, w)' \in Nat /\ Claim(ip, w) \in Nat
    BY <1>n, SpellFacts DEF Numeric
  <2>2. CASE count[w] > 0 /\ age'[w] = age[w] /\ Claim(ip, w)' <= Claim(ip, w) + d
    <3>1. Bounded(o, age[w] + MaxLag, Claim(ip, w), Held(ip))
      BY <1>4, <2>2 DEF Paced
    <3> QED BY <1>2, <2>1, <2>2, <3>1
  <2>3. CASE age'[w] \in 0..MaxLag /\ Claim(ip, w)' <= Cardinality(Sent(ip, MaxLag))
    <3>1. Bounded(o, MaxLag, Cardinality(Sent(ip, MaxLag)), Held(ip))
      BY SpellFacts DEF Paced
    <3>2. /\ MaxLag \in Nat /\ MaxLag <= age'[w] + MaxLag /\ Cardinality(Sent(ip, MaxLag)) \in Nat
          /\ Claim(ip, w)' <= Cardinality(Sent(ip, MaxLag)) + d
      BY <1>n, <2>1, <2>3, SpellFacts DEF Numeric
    <3> QED BY <1>2, <2>1, <3>1, <3>2
  <2>4. Claim(ip, w)' <= Claim(ip, w) => Claim(ip, w)' <= Claim(ip, w) + d
    BY <2>1
  <2> QED BY <1>4, <2>2, <2>3, <2>4
<1>5. ASSUME NEW w \in Widgets, count'[w] > 0, age'[w] >= WidgetWindow PROVE Claim(ip, w)' <= Most
  <2>1. count[w] > 0 /\ age'[w] = age[w] /\ Claim(ip, w)' <= Claim(ip, w)
    <3>1. age'[w] \notin 0..MaxLag /\ ~(age'[w] = age[w] /\ age[w] < WidgetWindow)
      BY <1>5, <1>n, SpellFacts DEF Numeric
    <3> QED BY <1>5, <3>1
  <2>2. Claim(ip, w) <= Most
    BY <1>5, <2>1 DEF Paced
  <2> QED BY <1>n, <2>1, <2>2, MostFacts DEF Numeric
<1> QED BY <1>3, <1>4, <1>5 DEF Paced

LEMMA OneFewerThread ==
  ASSUME NEW S \in SUBSET Threads, NEW t \in S, NEW R \in SUBSET (S \ {t})
  PROVE  1 + Cardinality(R) <= Cardinality(S)
<1>1. IsFiniteSet(S) /\ Cardinality(S) \in Nat
  BY Fewer
<1>2. IsFiniteSet(S \ {t}) /\ Cardinality(S \ {t}) = Cardinality(S) - 1
  BY <1>1, FS_RemoveElement
<1>3. Cardinality(R) <= Cardinality(S \ {t}) /\ Cardinality(R) \in Nat
  BY <1>2, FS_Subset, FS_CardinalityType
<1> QED BY <1>1, <1>2, <1>3

\* The clock: the window grows older, unless there is none.
LEMMA PaceLater ==
  ASSUME TypeOK, TypeOK', Tick, NEW ip \in Addresses, NEW o \in Nat, Paced(ip, o)
  PROVE  \E p \in Nat : Paced(ip, p)'
<1> DEFINE p == IF count[ip] = 0 THEN 0 ELSE o + 1
<1>n. Numeric /\ Numeric'
  BY Numbers, PTL
<1>1. /\ count' = count /\ share' = share /\ pc' = pc /\ key' = key
      /\ \A k \in Clients : age'[k] = IF count[k] = 0 THEN 0 ELSE Older(age[k], k)
      /\ \A t \in Threads : pc[t] # "idle" => calling'[t] = calling[t] + 1 /\ calling[t] \in 0..(MaxLag - 1)
  <2>1. ASSUME NEW t \in Threads, pc[t] # "idle"
        PROVE  calling'[t] = calling[t] + 1 /\ calling[t] \in 0..(MaxLag - 1)
    <3>1. busy[t] < MaxLag /\ calling[t] <= busy[t] /\ calling[t] \in 0..MaxLag /\ busy[t] \in 0..MaxLag
      BY <2>1 DEF Tick, TypeOK
    <3>2. calling'[t] = calling[t] + 1
      BY <2>1 DEF Tick
    <3> QED BY <3>1, <3>2, SpellFacts
  <2> QED BY <2>1 DEF Tick
<1>2. Held(ip)' = Held(ip) /\ Held(ip) \in Nat /\ Held(ip) <= IpLimit
  BY <1>1, <1>n DEF Held, Numeric
<1>3. p \in Nat /\ age'[ip] <= p + MaxLag
  BY <1>1, <1>n, SpellFacts DEF Paced, Older, Numeric
<1>z. count[ip] \in Nat /\ (count[ip] = 0 => Held(ip) = 0) /\ (count[ip] # 0 => Held(ip) > 0)
  BY <1>n, SpellFacts DEF Held, Within, Numeric
<1>b. ASSUME NEW m \in Nat, NEW n \in Nat, Bounded(o, m, n, Held(ip)) PROVE Bounded(p, m + 1, n, Held(ip))
  <2>1. CASE count[ip] = 0
    <3>1. Bounded(0, m, n, 0)
      BY <1>2, <1>b, <1>z, <2>1, BoundOver
    <3>2. Bounded(0, m + 1, n, 0)
      BY <3>1, BoundWeaker
    <3> QED BY <1>z, <2>1, <3>2
  <2>2. CASE count[ip] # 0
    BY <1>2, <1>b, <2>2, BoundLater
  <2> QED BY <2>1, <2>2
<1>0. Bounded(p, 0, 0, Held(ip))
  <2> SUFFICES ASSUME NEW j \in Nat, 0 < p + j * Spell PROVE 0 < j * IpLimit + Held(ip)
    BY DEF Bounded
  <2>1. j * IpLimit \in Nat /\ (j # 0 => j * IpLimit > 0) /\ (j = 0 => j * Spell = 0)
    BY SpellFacts
  <2> QED BY <1>2, <1>z, <2>1
<1> HIDE DEF p
<1>4. ASSUME NEW m \in 0..MaxLag PROVE Bounded(p, m, Cardinality(Sent(ip, m)'), Held(ip))
  <2>1. CASE m = 0
    <3>1. Sent(ip, m)' = {}
      BY <1>1, <2>1, SpellFacts DEF Sent
    <3>2. Cardinality(Sent(ip, m)') = 0
      BY <3>1, FS_EmptySet
    <3> QED BY <1>0, <2>1, <3>2
  <2>2. CASE m # 0
    <3>1. m - 1 \in 0..MaxLag /\ m - 1 \in Nat /\ m = (m - 1) + 1
      BY <2>2, SpellFacts
    <3>2. Sent(ip, m)' = Sent(ip, m - 1)
      BY <1>1, <3>1, SpellFacts DEF Sent
    <3>3. Bounded(o, m - 1, Cardinality(Sent(ip, m - 1)), Held(ip))
      BY <3>1 DEF Paced
    <3>4. Cardinality(Sent(ip, m - 1)) \in Nat
      BY <1>n, <3>1 DEF Numeric
    <3>5. Bounded(p, (m - 1) + 1, Cardinality(Sent(ip, m - 1)), Held(ip))
      BY <1>b, <3>1, <3>3, <3>4
    <3> QED BY <3>1, <3>2, <3>5
  <2> QED BY <2>1, <2>2
<1>5. ASSUME NEW w \in Widgets, count'[w] > 0
      PROVE  /\ count[w] > 0 /\ age'[w] = Older(age[w], w) /\ age[w] \in Nat
             /\ Claim(ip, w)' \in Nat /\ Claim(ip, w) \in Nat /\ Claim(ip, w)' <= Claim(ip, w)
  <2>1. count[w] > 0 /\ age'[w] = Older(age[w], w) /\ age[w] \in Nat /\ age[w] <= WidgetWindow + MaxLag
    BY <1>1, <1>5, <1>n, SpellFacts DEF Numeric
  <2>2. Coming(ip, w)' \in SUBSET Coming(ip, w)
    <3>1. ASSUME NEW t \in Threads, pc[t] # "idle", age'[w] - calling'[t] < WidgetWindow
          PROVE  age[w] - calling[t] < WidgetWindow
      BY <1>1, <2>1, <3>1, SpellFacts DEF Older
    <3> QED BY <1>1, <3>1 DEF Coming
  <2>3. Cardinality(Coming(ip, w)') <= Cardinality(Coming(ip, w))
    BY <1>n, <2>2, Fewer DEF Numeric
  <2>4. /\ Claim(ip, w)' = share[w][ip] + Cardinality(Coming(ip, w)')
        /\ Claim(ip, w) = share[w][ip] + Cardinality(Coming(ip, w))
    BY <1>1 DEF Claim
  <2> QED BY <1>n, <2>1, <2>3, <2>4 DEF Numeric
<1>6. ASSUME NEW w \in Widgets, count'[w] > 0, age'[w] < WidgetWindow
      PROVE  Bounded(p, age'[w] + MaxLag, Claim(ip, w)', Held(ip))
  <2>1. age[w] < WidgetWindow /\ age'[w] = age[w] + 1 /\ age[w] \in Nat
    BY <1>5, <1>6, SpellFacts DEF Older
  <2>2. Bounded(o, age[w] + MaxLag, Claim(ip, w), Held(ip))
    BY <1>5, <1>6, <2>1 DEF Paced
  <2>3. age[w] + MaxLag \in Nat /\ age'[w] + MaxLag \in Nat /\ age'[w] + MaxLag = (age[w] + MaxLag) + 1
    BY <2>1, SpellFacts
  <2>4. Bounded(p, age'[w] + MaxLag, Claim(ip, w), Held(ip))
    BY <1>b, <1>5, <1>6, <2>2, <2>3
  <2> QED BY <1>2, <1>3, <1>5, <1>6, <2>3, <2>4, BoundWeaker
<1>7. ASSUME NEW w \in Widgets, count'[w] > 0, age'[w] >= WidgetWindow PROVE Claim(ip, w)' <= Most
  <2>1. CASE age[w] >= WidgetWindow
    <3>1. Claim(ip, w) <= Most
      BY <1>5, <1>7, <2>1 DEF Paced
    <3> QED BY <1>5, <1>7, <3>1, MostFacts
  <2>2. CASE age[w] < WidgetWindow
    <3>1. Bounded(o, age[w] + MaxLag, Claim(ip, w), Held(ip))
      BY <1>5, <1>7, <2>2 DEF Paced
    <3>2. age[w] + MaxLag \in Nat /\ age[w] + MaxLag <= WidgetWindow - 1 + MaxLag
      BY <1>5, <1>7, <2>2, SpellFacts
    <3>3. Claim(ip, w) <= Most
      BY <1>2, <1>5, <1>7, <3>1, <3>2, BoundMost
    <3> QED BY <1>5, <1>7, <3>3, MostFacts
  <2> QED BY <1>5, <1>7, <2>1, <2>2, SpellFacts
<1>8. PICK q \in Nat : q = p
  BY <1>3
<1>9. Paced(ip, q)'
  BY <1>2, <1>3, <1>4, <1>6, <1>7, <1>8 DEF Paced
<1> QED BY <1>9

\* A request is counted in its address's window, and let through or refused.
LEMMA PaceAtHitIp ==
  ASSUME TypeOK, TypeOK', NEW t \in Threads, HitIp(t), NEW ip \in Addresses, NEW o \in Nat, Paced(ip, o)
  PROVE  \E p \in Nat : Paced(ip, p)'
<1> DEFINE k == key[t].ip
<1>n. Numeric /\ Numeric'
  BY Numbers, PTL
<1>k. k \in Addresses /\ k \in Clients /\ pc[t] = "hitIp"
  BY SpellFacts DEF HitIp, TypeOK
<1>1. PICK read \in Readings(t) : Hit(t, k, read, "hitWidget")
  BY DEF HitIp
<1>2. /\ read \in 0..MaxLag /\ count' = [count EXCEPT ![k] = Counted(k, read)]
      /\ age' = IF Anew(k, read) THEN [age EXCEPT ![k] = read] ELSE age
      /\ Goto(t, IF Verdict(k, read) = 0 THEN "hitWidget" ELSE "idle")
  BY <1>1, BoundAssumption DEF Hit, TypeOK, Readings
<1>3. ASSUME NEW w \in Widgets
      PROVE  count'[w] = count[w] /\ age'[w] = age[w] /\ share'[w] = share[w]
  BY <1>1, <1>2, <1>k, SpellFacts DEF Hit, TypeOK
<1>4. Verdict(k, read) = 0 <=> Counted(k, read) <= IpLimit
  <2>1. Counted(k, read) \in Nat /\ Limit(k) = IpLimit
    BY <1>k, SpellFacts DEF Counted, TypeOK
  <2>2. RetryAfter(Remaining(k, read)) # 0
    BY DEF RetryAfter
  <2> QED BY <2>1, <2>2, SpellFacts DEF Verdict
<1> HIDE DEF k
<1>5. ASSUME NEW s \in Threads, s # t PROVE pc'[s] = pc[s] /\ key'[s] = key[s] /\ calling'[s] = calling[s]
  BY <1>2, <1>5 DEF Goto, TypeOK
<1>6. CASE ip # k \/ Verdict(k, read) # 0
  <2>1. age'[ip] = age[ip] /\ Held(ip)' = Held(ip)
    <3>1. CASE ip # k
      BY <1>2, <3>1, <1>k, SpellFacts DEF Held, TypeOK
    <3>2. CASE ip = k /\ Verdict(k, read) # 0
      <4>1. Counted(k, read) > IpLimit /\ count[k] \in Nat /\ count'[k] = Counted(k, read)
        BY <1>2, <1>4, <1>k, <1>n, <3>2, SpellFacts DEF Numeric, TypeOK, Counted
      <4>2. ~Anew(k, read) /\ Counted(k, read) = count[k] + 1
        BY <4>1, SpellFacts DEF Counted
      <4> QED BY <1>2, <3>2, <4>1, <4>2, SpellFacts DEF Held, Within
    <3> QED BY <1>6, <3>1, <3>2
  <2>2. ~(pc'[t] = "hitWidget" /\ key'[t].ip = ip)
    <3>1. pc'[t] = (IF Verdict(k, read) = 0 THEN "hitWidget" ELSE "idle")
      BY <1>2 DEF Goto, TypeOK
    <3>2. Verdict(k, read) = 0 => key'[t].ip = k
      BY <1>2 DEF Goto, k
    <3> QED BY <1>6, <3>1, <3>2
  <2>3. ASSUME NEW m \in 0..MaxLag PROVE Cardinality(Sent(ip, m)') <= Cardinality(Sent(ip, m)) + 0
    <3>1. Sent(ip, m)' \in SUBSET Sent(ip, m)
      BY <1>5, <2>2 DEF Sent
    <3>2. m \in Nat
      BY SpellFacts
    <3>3. Sent(ip, m) \in SUBSET Threads
      BY <1>n, <3>2 DEF Numeric
    <3>4. Cardinality(Sent(ip, m)') \in Nat /\ Cardinality(Sent(ip, m)') <= Cardinality(Sent(ip, m))
          /\ Cardinality(Sent(ip, m)) \in Nat
      BY <3>1, <3>3, Fewer
    <3> QED BY <3>4
  <2>4. ASSUME NEW w \in Widgets PROVE Claim(ip, w)' <= Claim(ip, w)
    <3>1. Coming(ip, w)' \in SUBSET Coming(ip, w)
      BY <1>3, <1>5, <2>2 DEF Coming
    <3>2. Cardinality(Coming(ip, w)') <= Cardinality(Coming(ip, w))
      BY <1>n, <3>1, Fewer DEF Numeric
    <3> QED BY <1>3, <1>n, <3>2 DEF Numeric, Claim
  <2>5. \A m, n \in Nat : Bounded(o, m, n, Held(ip)) => Bounded(o, m, n + 0, Held(ip)')
    BY <2>1
  <2>6. age'[ip] <= o + MaxLag
    BY <2>1 DEF Paced
  <2>7. \A w \in Widgets : count'[w] > 0 => count[w] > 0 /\ age'[w] = age[w] /\ Claim(ip, w)' <= Claim(ip, w)
    BY <1>3, <2>4
  <2>8. Paced(ip, o)'
    BY <2>3, <2>5, <2>6, <2>7, PaceCarries
  <2> QED BY <2>8
<1>7. CASE ip = k /\ Verdict(k, read) = 0
  <2> DEFINE p == IF Anew(k, read) THEN 0 ELSE o
  <2>1. p \in Nat /\ age'[ip] <= p + MaxLag
    BY <1>2, <1>7, <1>k, <1>n, SpellFacts DEF Paced, Numeric, TypeOK
  <2>2. \A m, n \in Nat : Bounded(o, m, n, Held(ip)) => Bounded(p, m, n + 1, Held(ip)')
    <3>1. /\ count'[ip] = Counted(k, read) /\ Counted(k, read) <= IpLimit /\ count[ip] \in Nat
          /\ Held(ip) \in Nat /\ Held(ip) <= IpLimit
      BY <1>2, <1>4, <1>7, <1>k, <1>n, SpellFacts DEF Numeric, TypeOK
    <3>2. CASE Anew(k, read)
      <4>1. Held(ip)' = 1 /\ p = 0
        BY <3>1, <3>2, SpellFacts DEF Held, Within, Counted
      <4>2. Held(ip) = 0 \/ o >= Spell
        <5>1. count[ip] = 0 => Held(ip) = 0
          BY SpellFacts DEF Held, Within
        <5>2. count[ip] # 0 => age[ip] - read >= IpWindow
          BY <1>7, <1>k, <3>2, SpellFacts DEF Anew, Expired
        <5> QED BY <1>2, <1>k, <1>7, <1>n, <5>1, <5>2, SpellFacts DEF Paced, Numeric
      <4>3. ASSUME NEW m \in Nat, NEW n \in Nat, Bounded(o, m, n, Held(ip)) PROVE Bounded(p, m, n + 1, Held(ip)')
        <5>1. Bounded(0, m, n, 0)
          BY <3>1, <4>2, <4>3, BoundOver
        <5>2. Bounded(0, m, n + 1, 0 + 1)
          BY <5>1, BoundMore
        <5> QED BY <4>1, <5>2
      <4> QED BY <4>3
    <3>3. CASE ~Anew(k, read)
      <4>1. Held(ip)' = Held(ip) + 1 /\ p = o
        BY <1>7, <3>1, <3>3, SpellFacts DEF Held, Within, Counted
      <4> QED BY <3>1, <4>1, BoundMore
    <3> QED BY <3>2, <3>3
  <2>3. calling'[t] = 0
    BY <1>2 DEF Goto, TypeOK
  <2>4. ASSUME NEW m \in 0..MaxLag PROVE Cardinality(Sent(ip, m)') <= Cardinality(Sent(ip, m)) + 1
    <3>1. Sent(ip, m)' \in SUBSET (Sent(ip, m) \cup {t})
      BY <1>5 DEF Sent
    <3>2. m \in Nat
      BY SpellFacts
    <3> QED BY <1>n, <3>1, <3>2, OneMoreThread DEF Numeric
  <2>5. ASSUME NEW w \in Widgets, age[w] < WidgetWindow PROVE Claim(ip, w)' <= Claim(ip, w) + 1
    <3>1. Coming(ip, w)' \in SUBSET (Coming(ip, w) \cup {t})
      BY <1>3, <1>5 DEF Coming
    <3>2. Cardinality(Coming(ip, w)') <= Cardinality(Coming(ip, w)) + 1
      BY <1>n, <3>1, OneMoreThread DEF Numeric
    <3> QED BY <1>3, <1>n, <3>2 DEF Numeric, Claim
  <2>6. ASSUME NEW w \in Widgets, ~(age[w] < WidgetWindow) PROVE Claim(ip, w)' <= Claim(ip, w)
    <3>1. age[w] - 0 = age[w]
      BY <1>n, SpellFacts DEF Numeric
    <3>2. Coming(ip, w)' \in SUBSET Coming(ip, w)
      BY <1>3, <1>5, <2>3, <2>6, <3>1 DEF Coming
    <3>3. Cardinality(Coming(ip, w)') <= Cardinality(Coming(ip, w))
      BY <1>n, <3>2, Fewer DEF Numeric
    <3> QED BY <1>3, <1>n, <3>3 DEF Numeric, Claim
  <2>7. \A w \in Widgets : count'[w] > 0 =>
          \/ count[w] > 0 /\ age'[w] = age[w] /\ Claim(ip, w)' <= Claim(ip, w)
          \/ count[w] > 0 /\ age'[w] = age[w] /\ age[w] < WidgetWindow /\ Claim(ip, w)' <= Claim(ip, w) + 1
    BY <1>3, <2>5, <2>6
  <2>8. PICK q \in Nat : q = p
    BY <2>1
  <2> HIDE DEF p
  <2>9. Paced(ip, q)'
    BY <2>1, <2>2, <2>4, <2>7, <2>8, PaceCarries
  <2> QED BY <2>9
<1> QED BY <1>6, <1>7

\* A request that its address let through is counted in its widget's window.
LEMMA PaceAtHitWidget ==
  ASSUME TypeOK, TypeOK', NEW t \in Threads, HitWidget(t), NEW ip \in Addresses, NEW o \in Nat, Paced(ip, o)
  PROVE  Paced(ip, o)'
<1>n. Numeric /\ Numeric'
  BY Numbers, PTL
<1>p. PICK k \in Widgets, from \in Addresses : key[t] = [ip |-> from, widget |-> k]
  <2>1. key[t].widget \in Widgets /\ key[t].ip \in Addresses
        /\ key[t] = [ip |-> key[t].ip, widget |-> key[t].widget]
    BY DEF HitWidget, TypeOK, Arguments
  <2> QED BY <2>1, Zenon
<1>k. /\ k \in Widgets /\ k \in Clients /\ from \in Addresses /\ pc[t] = "hitWidget"
      /\ key[t] = [ip |-> from, widget |-> k] /\ calling[t] \in 0..MaxLag
      /\ key[t].ip = from /\ key[t].widget = k
  BY <1>p, SpellFacts DEF HitWidget, TypeOK
<1>1. PICK read \in Readings(t) : Hit(t, k, read, "idle")
  BY <1>k DEF HitWidget
<1>2. /\ read \in 0..MaxLag /\ read <= calling[t] /\ count' = [count EXCEPT ![k] = Counted(k, read)]
      /\ age' = IF Anew(k, read) THEN [age EXCEPT ![k] = read] ELSE age
      /\ Goto(t, "idle")
  BY <1>1, <1>k, BoundAssumption DEF Hit, Readings
<1>3. /\ \A w \in Widgets : w # k => share'[w] = share[w]
      /\ share'[k][ip] = (IF Anew(k, read) THEN 0 ELSE share[k][ip]) + (IF ip = from THEN 1 ELSE 0)
  <2>1. share'[k] = [IF Anew(k, read) THEN Nobody ELSE share[k] EXCEPT ![from] = @ + 1]
    BY <1>1, <1>k DEF Hit
  <2>2. ASSUME NEW f \in [Addresses -> Nat]
        PROVE  [f EXCEPT ![from] = @ + 1][ip] = f[ip] + IF ip = from THEN 1 ELSE 0
    BY <1>k, <2>2
  <2>3. share[k] \in [Addresses -> Nat]
    BY <1>k DEF TypeOK
  <2>4. \A w \in Widgets : w # k => share'[w] = share[w]
    BY <1>1 DEF Hit
  <2>5. CASE Anew(k, read)
    BY <2>1, <2>2, <2>4, <2>5, NobodyFacts DEF Nobody
  <2>6. CASE ~Anew(k, read)
    BY <2>1, <2>2, <2>3, <2>4, <2>6
  <2> QED BY <2>5, <2>6
<1>4. /\ \A s \in Threads : s # t => pc'[s] = pc[s] /\ key'[s] = key[s] /\ calling'[s] = calling[s]
      /\ pc'[t] = "idle"
  BY <1>2 DEF Goto, TypeOK
<1>5. count'[ip] = count[ip] /\ age'[ip] = age[ip] /\ Held(ip)' = Held(ip)
  BY <1>2, <1>k, SpellFacts DEF TypeOK, Held
<1>6. ASSUME NEW m \in 0..MaxLag PROVE Cardinality(Sent(ip, m)') <= Cardinality(Sent(ip, m)) + 0
  <2>1. Sent(ip, m)' \in SUBSET Sent(ip, m)
    BY <1>4 DEF Sent
  <2>2. m \in Nat
    BY SpellFacts
  <2>3. Sent(ip, m) \in SUBSET Threads
    BY <1>n, <2>2 DEF Numeric
  <2>4. Cardinality(Sent(ip, m)') \in Nat /\ Cardinality(Sent(ip, m)') <= Cardinality(Sent(ip, m))
        /\ Cardinality(Sent(ip, m)) \in Nat
    BY <2>1, <2>3, Fewer
  <2> QED BY <2>4
<1>7. ASSUME NEW w \in Widgets, w # k
      PROVE  count'[w] = count[w] /\ age'[w] = age[w] /\ Claim(ip, w)' <= Claim(ip, w)
  <2>1. count'[w] = count[w] /\ age'[w] = age[w] /\ share'[w] = share[w]
    BY <1>2, <1>3, <1>7, SpellFacts DEF TypeOK
  <2>2. Coming(ip, w)' \in SUBSET Coming(ip, w)
    BY <1>4, <2>1 DEF Coming
  <2>3. Cardinality(Coming(ip, w)') <= Cardinality(Coming(ip, w))
    BY <1>n, <2>2, Fewer DEF Numeric
  <2> QED BY <1>n, <2>1, <2>3 DEF Numeric, Claim
<1>8. ASSUME NEW S \in SUBSET Threads, Coming(ip, k)' \in SUBSET S, ip = from => t \in S
      PROVE  (IF ip = from THEN 1 ELSE 0) + Cardinality(Coming(ip, k)') <= Cardinality(S)
  <2>1. CASE ip = from
    <3>1. Coming(ip, k)' \in SUBSET (S \ {t})
      BY <1>4, <1>8 DEF Coming
    <3> QED BY <1>8, <2>1, <3>1, OneFewerThread
  <2>2. CASE ip # from
    <3>1. Cardinality(Coming(ip, k)') <= Cardinality(S) /\ Cardinality(Coming(ip, k)') \in Nat
      BY <1>8, Fewer
    <3> QED BY <2>2, <3>1
  <2> QED BY <2>1, <2>2
<1>9. ASSUME ~Anew(k, read)
      PROVE  count[k] > 0 /\ age'[k] = age[k] /\ Claim(ip, k)' <= Claim(ip, k)
  <2>1. count[k] > 0 /\ age'[k] = age[k] /\ age[k] - read < WidgetWindow
    BY <1>2, <1>9, <1>k, <1>n, SpellFacts DEF Anew, Expired, Numeric
  <2>2. ip = from => t \in Coming(ip, k)
    <3>1. age[k] - calling[t] < WidgetWindow
      BY <1>2, <1>k, <1>n, <2>1, SpellFacts DEF Numeric
    <3> QED BY <1>k, <3>1 DEF Coming
  <2>3. Coming(ip, k) \in SUBSET Threads /\ Coming(ip, k)' \in SUBSET Coming(ip, k)
    BY <1>4, <2>1 DEF Coming
  <2>4. (IF ip = from THEN 1 ELSE 0) + Cardinality(Coming(ip, k)') <= Cardinality(Coming(ip, k))
    BY <1>8, <2>2, <2>3
  <2>5. Cardinality(Coming(ip, k)') \in Nat /\ Cardinality(Coming(ip, k)) \in Nat /\ share[k][ip] \in Nat
    BY <1>k, <1>n DEF Numeric
  <2>6. Claim(ip, k)' = share[k][ip] + (IF ip = from THEN 1 ELSE 0) + Cardinality(Coming(ip, k)')
    BY <1>3, <1>9 DEF Claim
  <2> QED BY <2>1, <2>4, <2>5, <2>6 DEF Claim
<1>10. ASSUME Anew(k, read)
       PROVE  age'[k] \in 0..MaxLag /\ Claim(ip, k)' <= Cardinality(Sent(ip, MaxLag))
  <2>1. age'[k] = read
    BY <1>2, <1>10, <1>k DEF TypeOK
  <2>2. ip = from => t \in Sent(ip, MaxLag)
    BY <1>k, SpellFacts DEF Sent
  <2>3. Sent(ip, MaxLag) \in SUBSET Threads /\ Coming(ip, k)' \in SUBSET Sent(ip, MaxLag)
    <3>1. \A s \in Threads : calling[s] <= MaxLag
      BY SpellFacts DEF TypeOK
    <3> QED BY <1>4, <3>1 DEF Coming, Sent
  <2>4. (IF ip = from THEN 1 ELSE 0) + Cardinality(Coming(ip, k)') <= Cardinality(Sent(ip, MaxLag))
    BY <1>8, <2>2, <2>3
  <2>5. Cardinality(Coming(ip, k)') \in Nat
    BY <1>k, <1>n DEF Numeric
  <2>6. Claim(ip, k)' = (IF ip = from THEN 1 ELSE 0) + Cardinality(Coming(ip, k)')
    BY <1>3, <1>10, <2>5 DEF Claim
  <2> QED BY <1>2, <2>1, <2>4, <2>6
<1>11. \A m, n \in Nat : Bounded(o, m, n, Held(ip)) => Bounded(o, m, n + 0, Held(ip)')
  BY <1>5
<1>12. age'[ip] <= o + MaxLag
  BY <1>5 DEF Paced
<1>13. \A w \in Widgets : count'[w] > 0 =>
         \/ count[w] > 0 /\ age'[w] = age[w] /\ Claim(ip, w)' <= Claim(ip, w)
         \/ age'[w] \in 0..MaxLag /\ Claim(ip, w)' <= Cardinality(Sent(ip, MaxLag))
  BY <1>7, <1>9, <1>10
<1> QED BY <1>6, <1>11, <1>12, <1>13, PaceCarries

\* What sends nobody on to a widget's window, and counts nobody.
LEMMA PaceElsewhere ==
  ASSUME TypeOK, TypeOK', NEW ip \in Addresses, NEW o \in Nat, Paced(ip, o),
         NEW p \in Nat, age'[ip] <= p + MaxLag,
         \A m, n \in Nat : Bounded(o, m, n, Held(ip)) => Bounded(p, m, n, Held(ip)'),
         \A t \in Threads : pc'[t] = "hitWidget" =>
           pc[t] = "hitWidget" /\ key'[t] = key[t] /\ calling'[t] = calling[t],
         \A w \in Widgets : count'[w] > 0 => count'[w] = count[w] /\ age'[w] = age[w] /\ share'[w] = share[w]
  PROVE  Paced(ip, p)'
<1>n. Numeric /\ Numeric'
  BY Numbers, PTL
<1>1. ASSUME NEW m \in 0..MaxLag PROVE Cardinality(Sent(ip, m)') <= Cardinality(Sent(ip, m)) + 0
  <2>1. Sent(ip, m)' \in SUBSET Sent(ip, m)
    BY DEF Sent
  <2>2. m \in Nat
    BY SpellFacts
  <2>3. Sent(ip, m) \in SUBSET Threads
    BY <1>n, <2>2 DEF Numeric
  <2>4. Cardinality(Sent(ip, m)') \in Nat /\ Cardinality(Sent(ip, m)') <= Cardinality(Sent(ip, m))
        /\ Cardinality(Sent(ip, m)) \in Nat
    BY <2>1, <2>3, Fewer
  <2> QED BY <2>4
<1>2. ASSUME NEW w \in Widgets, count'[w] > 0
      PROVE  count[w] > 0 /\ age'[w] = age[w] /\ Claim(ip, w)' <= Claim(ip, w)
  <2>1. count[w] > 0 /\ age'[w] = age[w] /\ share'[w] = share[w]
    BY <1>2
  <2>2. Coming(ip, w)' \in SUBSET Coming(ip, w)
    BY <2>1 DEF Coming
  <2>3. Cardinality(Coming(ip, w)') <= Cardinality(Coming(ip, w))
    BY <1>n, <2>2, Fewer DEF Numeric
  <2> QED BY <1>n, <2>1, <2>3 DEF Numeric, Claim
<1>3. \A m, n \in Nat : Bounded(o, m, n, Held(ip)) => Bounded(p, m, n + 0, Held(ip)')
  OBVIOUS
<1> QED BY <1>1, <1>2, <1>3, PaceCarries

LEMMA PaceStep == HandsInv /\ [Next]_vars /\ TypeOK' => PaceIsKept'
<1> SUFFICES ASSUME HandsInv, [Next]_vars, TypeOK', NEW ip \in Addresses
             PROVE  \E p \in Nat : Paced(ip, p)'
  BY DEF PaceIsKept
<1>1. TypeOK /\ PaceIsKept
  BY DEF HandsInv
<1>2. PICK o \in Nat : Paced(ip, o)
  BY <1>1 DEF PaceIsKept
<1>n. Numeric /\ Numeric'
  BY <1>1, Numbers, PTL
<1>3. age[ip] <= o + MaxLag /\ Held(ip) \in Nat /\ Held(ip) <= IpLimit
  BY <1>2, <1>n DEF Paced, Numeric
<1>4. ASSUME count'[ip] = count[ip], age'[ip] = age[ip] PROVE Held(ip)' = Held(ip)
  BY <1>4 DEF Held
<1>5. ASSUME Tick PROVE \E p \in Nat : Paced(ip, p)'
  BY <1>1, <1>2, <1>5, PaceLater
<1>6. ASSUME NEW t \in Threads, NEW from \in Addresses, NEW widget \in Widgets, Check(t, from, widget)
      PROVE  Paced(ip, o)'
  <2>1. \A s \in Threads : pc'[s] = "hitWidget" =>
          pc[s] = "hitWidget" /\ key'[s] = key[s] /\ calling'[s] = calling[s]
    BY <1>1, <1>6 DEF Check, TypeOK
  <2>2. count' = count /\ age' = age /\ share' = share
    BY <1>6 DEF Check, windows, history
  <2> QED BY <1>1, <1>2, <1>3, <1>4, <2>1, <2>2, PaceElsewhere
<1>7. ASSUME NEW t \in Threads, SweepIp(t) \/ SweepWidget(t) PROVE \E p \in Nat : Paced(ip, p)'
  <2>1. PICK keys \in {Addresses, Widgets}, read \in Readings(t), next \in {"sweepWidget", "hitIp"} :
          Sweep(keys, read) /\ Goto(t, next)
    BY <1>7, Zenon DEF SweepIp, SweepWidget
  <2>2. read \in 0..MaxLag
    BY <1>1, BoundAssumption DEF TypeOK, Readings
  <2>3. \A s \in Threads : pc'[s] = "hitWidget" =>
          pc[s] = "hitWidget" /\ key'[s] = key[s] /\ calling'[s] = calling[s]
    BY <1>1, <2>1 DEF Goto, TypeOK
  <2>4. \A w \in Widgets : count'[w] > 0 => count'[w] = count[w] /\ age'[w] = age[w] /\ share'[w] = share[w]
    BY <2>1, SpellFacts DEF Sweep
  <2>5. CASE ip \in keys /\ Expired(ip, read)
    <3>1. count'[ip] = 0 /\ age'[ip] = 0
      BY <2>1, <2>5, SpellFacts DEF Sweep
    <3>2. Held(ip)' = 0
      BY <3>1, SpellFacts DEF Held, Within
    <3>3. o >= Spell
      BY <1>3, <1>n, <2>2, <2>5, SpellFacts DEF Expired, Numeric
    <3>4. \A m, n \in Nat : Bounded(o, m, n, Held(ip)) => Bounded(0, m, n, Held(ip)')
      BY <1>3, <3>2, <3>3, BoundOver
    <3>5. age'[ip] <= 0 + MaxLag
      BY <3>1, SpellFacts
    <3>6. Paced(ip, 0)'
      BY <1>1, <1>2, <2>3, <2>4, <3>4, <3>5, PaceElsewhere
    <3> QED BY <3>6
  <2>6. CASE ~(ip \in keys /\ Expired(ip, read))
    <3>1. count'[ip] = count[ip] /\ age'[ip] = age[ip]
      BY <2>1, <2>6, SpellFacts DEF Sweep
    <3>2. Paced(ip, o)'
      BY <1>1, <1>2, <1>3, <1>4, <2>3, <2>4, <3>1, PaceElsewhere
    <3> QED BY <3>2
  <2> QED BY <2>5, <2>6
<1>8. ASSUME NEW t \in Threads, HitIp(t) PROVE \E p \in Nat : Paced(ip, p)'
  BY <1>1, <1>2, <1>8, PaceAtHitIp
<1>9. ASSUME NEW t \in Threads, HitWidget(t) PROVE Paced(ip, o)'
  BY <1>1, <1>2, <1>9, PaceAtHitWidget
<1>10. CASE Restart
  <2>1. count'[ip] = 0 /\ age'[ip] = 0 /\ \A w \in Widgets : count'[w] = 0
    BY <1>10, SpellFacts DEF Restart
  <2>2. Held(ip)' = 0 /\ age'[ip] <= 0 + MaxLag
    BY <2>1, SpellFacts DEF Held, Within
  <2>3. ASSUME NEW m \in 0..MaxLag PROVE Bounded(0, m, Cardinality(Sent(ip, m)'), 0)
    <3>1. Sent(ip, m)' = {}
      BY <1>10 DEF Restart, Sent
    <3>2. Cardinality(Sent(ip, m)') = 0
      BY <3>1, FS_EmptySet
    <3>3. m \in Nat
      BY SpellFacts
    <3> QED BY <3>2, <3>3, BoundNobody
  <2>4. Paced(ip, 0)'
    BY <2>1, <2>2, <2>3 DEF Paced
  <2> QED BY <2>4
<1>11. CASE UNCHANGED vars
  <2>1. count' = count /\ age' = age /\ share' = share /\ pc' = pc /\ key' = key /\ calling' = calling
    BY <1>11 DEF vars
  <2>2. Paced(ip, o)'
    BY <1>1, <1>2, <1>3, <1>4, <2>1, PaceElsewhere
  <2> QED BY <2>2
<1> QED BY <1>5, <1>6, <1>7, <1>8, <1>9, <1>10, <1>11 DEF Next

\* The hits of a window, a pair for each, add up to its count.
LEMMA HitsArePairs ==
  ASSUME NEW part, NEW x
  PROVE  x \in Hits(part) <=> \E ip \in Addresses : \E n \in 1..part[ip] : x = <<ip, n>>
BY DEF Hits

LEMMA OneMoreHit ==
  ASSUME NEW part \in [Addresses -> Nat], NEW ip \in Addresses, NEW n \in Nat, AddsUp(part, n)
  PROVE  AddsUp([part EXCEPT ![ip] = @ + 1], n + 1)
<1> DEFINE more == [part EXCEPT ![ip] = @ + 1]
           new == <<ip, part[ip] + 1>>
<1>1. \A a \in Addresses : more[a] = IF a = ip THEN part[a] + 1 ELSE part[a]
  OBVIOUS
<1>2. new \notin Hits(part)
  <2>1. ASSUME NEW a \in Addresses, NEW i \in 1..part[a] PROVE new # <<a, i>>
    OBVIOUS
  <2> QED BY <2>1, HitsArePairs
<1> HIDE DEF more
<1>3. Hits(more) = Hits(part) \cup {new}
  <2>1. ASSUME NEW x \in Hits(part) PROVE x \in Hits(more)
    <3>1. PICK a \in Addresses : \E i \in 1..part[a] : x = <<a, i>>
      BY HitsArePairs
    <3>2. \A i \in 1..part[a] : i \in 1..more[a]
      BY <1>1
    <3> QED BY <3>1, <3>2, HitsArePairs
  <2>2. new \in Hits(more)
    <3>1. part[ip] + 1 \in 1..more[ip]
      BY <1>1
    <3> QED BY <3>1, HitsArePairs
  <2>3. ASSUME NEW x \in Hits(more), x # new PROVE x \in Hits(part)
    <3>1. PICK a \in Addresses : \E i \in 1..more[a] : x = <<a, i>>
      BY HitsArePairs
    <3>2. PICK i \in 1..more[a] : x = <<a, i>>
      BY <3>1
    <3>3. i \in 1..part[a]
      BY <1>1, <2>3, <3>2
    <3> QED BY <3>2, <3>3, HitsArePairs
  <2> HIDE DEF new
  <2> QED BY <2>1, <2>2, <2>3
<1> HIDE DEF new
<1>4. AddsUp(more, n + 1)
  BY <1>2, <1>3, FS_AddElement DEF AddsUp
<1> QED BY <1>4 DEF more

LEMMA NoHits == AddsUp(Nobody, 0)
<1>1. \A x : x \notin Hits(Nobody)
  BY HitsArePairs DEF Nobody
<1>2. Hits(Nobody) = {}
  BY <1>1
<1> QED BY <1>2, FS_EmptySet DEF AddsUp

LEMMA SharesStep == HandsInv /\ [Next]_vars => SharesAddUp'
<1> SUFFICES ASSUME HandsInv, [Next]_vars, NEW w \in Widgets PROVE AddsUp(share'[w], count'[w])
  BY DEF SharesAddUp
<1>1. /\ TypeOK /\ AddsUp(share[w], count[w]) /\ w \in Clients /\ w \notin Addresses
      /\ share[w] \in [Addresses -> Nat] /\ count[w] \in Nat
  BY SpellFacts DEF HandsInv, SharesAddUp, TypeOK
<1>2. ASSUME share'[w] = share[w], count'[w] = count[w] PROVE AddsUp(share'[w], count'[w])
  BY <1>1, <1>2
<1>3. CASE Tick
  BY <1>2, <1>3 DEF Tick
<1>4. ASSUME NEW t \in Threads, NEW ip \in Addresses, NEW widget \in Widgets, Check(t, ip, widget)
      PROVE  AddsUp(share'[w], count'[w])
  BY <1>2, <1>4 DEF Check, windows, history
<1>5. ASSUME NEW t \in Threads, SweepIp(t) \/ SweepWidget(t) PROVE AddsUp(share'[w], count'[w])
  <2>1. PICK keys \in {Addresses, Widgets}, read \in Readings(t) : Sweep(keys, read)
    BY <1>5, Zenon DEF SweepIp, SweepWidget
  <2>2. \/ share'[w] = Nobody /\ count'[w] = 0
        \/ share'[w] = share[w] /\ count'[w] = count[w]
    BY <1>1, <2>1 DEF Sweep
  <2> QED BY <1>1, <2>2, NoHits
<1>6. ASSUME NEW t \in Threads, HitIp(t) \/ HitWidget(t) PROVE AddsUp(share'[w], count'[w])
  <2>1. PICK k \in Clients, read \in Readings(t), next \in {"hitWidget", "idle"} : Hit(t, k, read, next)
    <3>1. key[t].ip \in Clients /\ key[t].widget \in Clients
      BY <1>1, <1>6 DEF HitIp, HitWidget, Clients, TypeOK
    <3> QED BY <1>6, <3>1, Zenon DEF HitIp, HitWidget
  <2>2. CASE k # w
    BY <1>1, <1>2, <2>1, <2>2 DEF Hit, TypeOK
  <2>3. CASE k = w
    <3>1. key[t].ip \in Addresses
      BY <1>1, <1>6 DEF HitIp, HitWidget, TypeOK
    <3>2. /\ count'[w] = Counted(w, read)
          /\ share'[w] = [IF Anew(w, read) THEN Nobody ELSE share[w] EXCEPT ![key[t].ip] = @ + 1]
      BY <1>1, <2>1, <2>3 DEF Hit, TypeOK
    <3>3. CASE Anew(w, read)
      <4>1. AddsUp([Nobody EXCEPT ![key[t].ip] = @ + 1], 0 + 1)
        BY <3>1, NoHits, NobodyFacts, OneMoreHit
      <4> QED BY <3>2, <3>3, <4>1 DEF Counted
    <3>4. CASE ~Anew(w, read)
      <4>1. AddsUp([share[w] EXCEPT ![key[t].ip] = @ + 1], count[w] + 1)
        BY <1>1, <3>1, OneMoreHit
      <4> QED BY <3>2, <3>4, <4>1 DEF Counted
    <3> QED BY <3>3, <3>4
  <2> QED BY <2>2, <2>3
<1>7. CASE Restart
  <2>1. share'[w] = Nobody /\ count'[w] = 0
    BY <1>1, <1>7 DEF Restart
  <2> QED BY <2>1, NoHits
<1>8. CASE UNCHANGED vars
  BY <1>2, <1>8 DEF vars
<1> QED BY <1>3, <1>4, <1>5, <1>6, <1>7, <1>8 DEF Next

LEMMA HandsInvariance == Spec => []HandsInv
<1>1. Init => HandsInv
  <2> SUFFICES ASSUME Init PROVE HandsInv
    OBVIOUS
  <2>1. TypeOK
    BY InitInv DEF IInv
  <2>2. ASSUME NEW ip \in Addresses PROVE Paced(ip, 0)
    <3>1. count[ip] = 0 /\ age[ip] = 0 /\ \A w \in Widgets : count[w] = 0
      BY SpellFacts DEF Init
    <3>2. Held(ip) = 0 /\ age[ip] <= 0 + MaxLag
      BY <3>1, SpellFacts DEF Held, Within
    <3>3. ASSUME NEW m \in 0..MaxLag PROVE Bounded(0, m, Cardinality(Sent(ip, m)), 0)
      <4>1. Sent(ip, m) = {}
        BY DEF Init, Sent
      <4>2. Cardinality(Sent(ip, m)) = 0
        BY <4>1, FS_EmptySet
      <4>3. m \in Nat
        BY SpellFacts
      <4> QED BY <4>2, <4>3, BoundNobody
    <3> QED BY <3>1, <3>2, <3>3 DEF Paced
  <2>3. SharesAddUp
    <3>1. \A w \in Widgets : share[w] = Nobody /\ count[w] = 0
      BY SpellFacts DEF Init
    <3> QED BY <3>1, NoHits DEF SharesAddUp
  <2> QED BY <2>1, <2>2, <2>3 DEF HandsInv, PaceIsKept
<1>2. HandsInv /\ [Next]_vars => HandsInv'
  BY TypeStep, PaceStep, SharesStep DEF HandsInv
<1> QED BY <1>1, <1>2, PTL DEF Spec

\* No address can take more of a widget's window than its own windows let pass,
\* however its threads lag, and whenever either window is opened or swept.
AddressIsHeld == \A ip \in Addresses, w \in Widgets : share[w][ip] <= Most

LEMMA ClaimsAreHeld == HandsInv => AddressIsHeld
<1> SUFFICES ASSUME HandsInv, NEW ip \in Addresses, NEW w \in Widgets PROVE share[w][ip] <= Most
  BY DEF AddressIsHeld
<1>1. TypeOK /\ PaceIsKept /\ Numeric /\ AddsUp(share[w], count[w])
  BY Numbers DEF HandsInv, SharesAddUp
<1>2. PICK o \in Nat : Paced(ip, o)
  BY <1>1 DEF PaceIsKept
<1>3. /\ share[w][ip] \in Nat /\ Claim(ip, w) \in Nat /\ share[w][ip] <= Claim(ip, w) /\ age[w] \in Nat
      /\ Held(ip) \in Nat /\ Held(ip) <= IpLimit /\ count[w] \in Nat
  BY <1>1, SpellFacts DEF Numeric, Claim
<1>4. CASE count[w] > 0 /\ age[w] >= WidgetWindow
  <2>1. Claim(ip, w) <= Most
    BY <1>2, <1>4 DEF Paced
  <2> QED BY <1>3, <2>1, MostFacts
<1>5. CASE count[w] > 0 /\ age[w] < WidgetWindow
  <2>1. Bounded(o, age[w] + MaxLag, Claim(ip, w), Held(ip))
    BY <1>2, <1>5 DEF Paced
  <2>2. age[w] + MaxLag \in Nat /\ age[w] + MaxLag <= WidgetWindow - 1 + MaxLag
    BY <1>3, <1>5, SpellFacts
  <2>3. Claim(ip, w) <= Most
    BY <1>3, <2>1, <2>2, BoundMost
  <2> QED BY <1>3, <2>3, MostFacts
<1>6. CASE count[w] = 0
  <2>1. Hits(share[w]) = {}
    BY <1>1, <1>6, FS_EmptySet DEF AddsUp
  <2>2. share[w][ip] # 0 => <<ip, 1>> \in Hits(share[w])
    <3>1. share[w][ip] # 0 => 1 \in 1..share[w][ip]
      BY <1>3
    <3> QED BY <3>1, HitsArePairs
  <2> QED BY <1>3, <2>1, <2>2, MostFacts
<1> QED BY <1>3, <1>4, <1>5, <1>6, SpellFacts

THEOREM OneAddressIsHeld == Spec => []AddressIsHeld
BY HandsInvariance, ClaimsAreHeld, PTL

\* A form is closed to visitors only by as many addresses as its limit takes,
\* since each is held to what its own windows let pass.
THEOREM ManyHands == Spec => []ManyHandsCloseAForm
<1>1. ASSUME HandsInv, NEW t \in Threads, NEW w \in Widgets, NEW read \in Readings(t), Refuses(t, w, read)
      PROVE  Cardinality(Senders(w)) * (WindowsTouched * IpLimit - 1) >= WidgetLimit
  <2> DEFINE n == Cardinality(Senders(w))
  <2>1. /\ TypeOK /\ AddressIsHeld /\ AddsUp(share[w], count[w]) /\ count[w] \in Nat
        /\ share[w] \in [Addresses -> Nat]
    BY <1>1, ClaimsAreHeld, SpellFacts DEF HandsInv, SharesAddUp, TypeOK
  <2>2. count[w] >= WidgetLimit
    <3>1. Counted(w, read) > WidgetLimit
      BY <1>1, SpellFacts DEF Refuses, Verdict
    <3> QED BY <2>1, <3>1, SpellFacts DEF Counted
  <2>3. IsFiniteSet(Senders(w))
    <3> DEFINE f == [ip \in Senders(w) |-> <<ip, 1>>]
    <3>1. ASSUME NEW ip \in Senders(w) PROVE f[ip] \in Hits(share[w])
      <4>1. ip \in Addresses /\ 1 \in 1..share[w][ip]
        BY <2>1 DEF Senders
      <4> QED BY <4>1, HitsArePairs
    <3>2. f \in Injection(Senders(w), Hits(share[w]))
      BY <3>1 DEF Injection, IsInjective
    <3> QED BY <2>1, <3>2, FS_Injection DEF AddsUp
  <2>4. Hits(share[w]) \in SUBSET (Senders(w) \X (1..Most))
    <3>1. ASSUME NEW x \in Hits(share[w]) PROVE x \in Senders(w) \X (1..Most)
      <4>1. PICK ip \in Addresses : \E i \in 1..share[w][ip] : x = <<ip, i>>
        BY HitsArePairs
      <4>2. share[w][ip] <= Most /\ share[w][ip] \in Nat
        BY <2>1 DEF AddressIsHeld
      <4>3. PICK i \in 1..share[w][ip] : x = <<ip, i>>
        BY <4>1
      <4>4. ip \in Senders(w) /\ i \in 1..Most
        BY <4>2, <4>3, MostFacts DEF Senders
      <4> QED BY <4>3, <4>4
    <3> QED BY <3>1
  <2>5. IsFiniteSet(1..Most) /\ Cardinality(1..Most) = Most
    <3>1. Most \in Nat
      BY MostFacts
    <3> QED BY <3>1, FS_Interval
  <2>6. IsFiniteSet(Senders(w) \X (1..Most)) /\ Cardinality(Senders(w) \X (1..Most)) = n * Most
    BY <2>3, <2>5, FS_Product
  <2>7. count[w] <= n * Most
    BY <2>1, <2>4, <2>6, FS_Subset DEF AddsUp
  <2>8. n \in Nat
    BY <2>3, FS_CardinalityType
  <2>9. n * Most = n * (WindowsTouched * IpLimit - 1) /\ n * Most \in Nat
    BY <2>8, MostFacts, SpellFacts DEF Most
  <2> HIDE DEF n
  <2>10. n * (WindowsTouched * IpLimit - 1) >= WidgetLimit
    BY <2>1, <2>2, <2>7, <2>9, SpellFacts
  <2> QED BY <2>10 DEF n
<1>2. HandsInv => ManyHandsCloseAForm
  BY <1>1 DEF ManyHandsCloseAForm
<1> QED BY <1>2, HandsInvariance, PTL
=============================================================================
