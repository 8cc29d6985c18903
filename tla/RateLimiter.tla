---------------------------- MODULE RateLimiter ----------------------------
(***************************************************************************)
(* RateLimiter.check (app/services/ratelimit.py): two fixed windows, one   *)
(* per address and one per widget, counted by the threads of the pool.     *)
(* Each hit and each sweep reads the clock before it takes its window's    *)
(* lock, so a thread may act on a time that has passed; the counters live  *)
(* in the process and a restart empties them.                              *)
(*                                                                         *)
(* The windows' keys are disjoint, so one pair of functions holds both     *)
(* dictionaries.  Moments are kept as ages, how long ago they were, since  *)
(* the code only subtracts them.  The sweep's counter has no lock and      *)
(* needs none: no call, and so no thread switch, comes between its steps.  *)
(***************************************************************************)
EXTENDS Integers, FiniteSets

CONSTANTS Threads, Addresses, Widgets,
          IpLimit, IpWindow, WidgetLimit, WidgetWindow, \* RATE_LIMIT_*, in units of time
          Second,      \* units to a second, so that a second can be cut
          SweepEvery,  \* requests between two sweeps, 500 in the code
          MaxLag,      \* bound: units one check may take
          MaxExcess,   \* bound: requests counted beyond a limit
          MaxRestarts, \* bound: restarts of the process
          None

Clients == Addresses \cup Widgets
Limit(k) == IF k \in Addresses THEN IpLimit ELSE WidgetLimit
Window(k) == IF k \in Addresses THEN IpWindow ELSE WidgetWindow

ASSUME LimitAssumption ==
  /\ IsFiniteSet(Threads) \* the pool's
  /\ Addresses \cap Widgets = {} /\ None \notin Clients
  /\ IpLimit \in Nat \ {0} /\ WidgetLimit \in Nat \ {0} /\ SweepEvery \in Nat \ {0}
  /\ Second \in Nat \ {0} /\ IpWindow % Second = 0 /\ WidgetWindow % Second = 0
ASSUME BoundAssumption ==
  /\ MaxLag \in Nat /\ MaxExcess \in Nat /\ MaxRestarts \in Nat
  /\ IpWindow \in Nat /\ MaxLag < IpWindow /\ WidgetWindow \in Nat /\ MaxLag < WidgetWindow

VARIABLES count,      \* requests in each key's window; 0 is a missing key
          age,        \* how long ago it was opened
          sinceSweep, \* requests_since_sweep
          pc,         \* per thread: the call of check it is in
          key,        \* per thread: check's arguments
          busy,       \* per thread: how long it has been in check
          calling,    \* per thread: how long it has been in that call
          admitted,   \* history: how many hits of each key returned None, up to each age
          share,      \* history: how many of each widget's window are each address's
          restarts

windows == <<count, age>>
thread == <<pc, key, busy, calling>>
history == <<admitted, share>>
vars == <<count, age, sinceSweep, pc, key, busy, calling, admitted, share, restarts>>

Calls == {"sweepIp", "sweepWidget", "hitIp", "hitWidget"}
NoOne == [ip |-> None, widget |-> None]
Nobody == [ip \in Addresses |-> 0]

\* Older than this, a window is over for every thread.
MaxAge(k) == Window(k) + MaxLag
Ages(k) == 0..(MaxAge(k) - 1)
Older(n, k) == IF n < MaxAge(k) THEN n + 1 ELSE n

Init == /\ count = [k \in Clients |-> 0]
        /\ age = [k \in Clients |-> 0]
        /\ sinceSweep = 0
        /\ pc = [t \in Threads |-> "idle"]
        /\ key = [t \in Threads |-> NoOne]
        /\ busy = [t \in Threads |-> 0]
        /\ calling = [t \in Threads |-> 0]
        /\ admitted = [k \in Clients |-> [m \in Ages(k) |-> 0]]
        /\ share = [w \in Widgets |-> Nobody]
        /\ restarts = 0

Tick ==
  LET working == {t \in Threads : pc[t] # "idle"}
  IN /\ \A t \in working : busy[t] < MaxLag
     /\ busy' = [t \in Threads |-> IF t \in working THEN busy[t] + 1 ELSE 0]
     /\ calling' = [t \in Threads |-> IF t \in working THEN calling[t] + 1 ELSE 0]
     /\ age' = [k \in Clients |-> IF count[k] = 0 THEN 0 ELSE Older(age[k], k)]
     /\ admitted' = [k \in Clients |-> [m \in Ages(k) |-> IF m = 0 THEN 0 ELSE admitted[k][m - 1]]]
     /\ UNCHANGED <<count, sinceSweep, pc, key, share, restarts>>

Goto(t, call) ==
  /\ pc' = [pc EXCEPT ![t] = call]
  /\ calling' = [calling EXCEPT ![t] = 0]
  /\ key' = IF call = "idle" THEN [key EXCEPT ![t] = NoOne] ELSE key
  /\ busy' = IF call = "idle" THEN [busy EXCEPT ![t] = 0] ELSE busy

\* check up to its first call: maybe_sweep counts the request.
Check(t, ip, widget) ==
  LET sweeping == sinceSweep + 1 >= SweepEvery
  IN /\ pc[t] = "idle"
     /\ count[ip] < IpLimit + MaxExcess /\ count[widget] < WidgetLimit + MaxExcess
     /\ sinceSweep' = IF sweeping THEN 0 ELSE sinceSweep + 1
     /\ pc' = [pc EXCEPT ![t] = IF sweeping THEN "sweepIp" ELSE "hitIp"]
     /\ key' = [key EXCEPT ![t] = [ip |-> ip, widget |-> widget]]
     /\ UNCHANGED <<windows, busy, calling, history, restarts>>

\* now = time.monotonic() is read outside the lock, in hit and in sweep: `read`
\* is how long ago, at some moment of the call.
Readings(t) == 0..calling[t]

\* now - started, as the thread sees it.
Expired(k, read) == age[k] - read >= Window(k)

\* Mutant: the sweep empties the dictionary.
SweepAll(keys, read) ==
  /\ count' = [k \in Clients |-> IF k \in keys THEN 0 ELSE count[k]]
  /\ age' = [k \in Clients |-> IF k \in keys THEN 0 ELSE age[k]]
  /\ share' = [w \in Widgets |-> IF w \in keys THEN Nobody ELSE share[w]]

Sweep(keys, read) ==
  LET gone == {k \in keys : Expired(k, read)}
  IN /\ count' = [k \in Clients |-> IF k \in gone THEN 0 ELSE count[k]]
     /\ age' = [k \in Clients |-> IF k \in gone THEN 0 ELSE age[k]]
     /\ share' = [w \in Widgets |-> IF w \in gone THEN Nobody ELSE share[w]]

SweepIp(t) == /\ pc[t] = "sweepIp"
              /\ \E read \in Readings(t) : Sweep(Addresses, read)
              /\ Goto(t, "sweepWidget")
              /\ UNCHANGED <<sinceSweep, admitted, restarts>>

SweepWidget(t) == /\ pc[t] = "sweepWidget"
                  /\ \E read \in Readings(t) : Sweep(Widgets, read)
                  /\ Goto(t, "hitIp")
                  /\ UNCHANGED <<sinceSweep, admitted, restarts>>

Anew(k, read) == count[k] = 0 \/ Expired(k, read)
Counted(k, read) == IF Anew(k, read) THEN 1 ELSE count[k] + 1
Remaining(k, read) == IF Anew(k, read) THEN Window(k) ELSE Window(k) - (age[k] - read)

\* max(1, int(seconds)): never 0, which check would take for None.
RetryAfter(units) == IF units \div Second > 1 THEN units \div Second ELSE 1

\* Mutant: the client is refused its last request.
VerdictAtLimit(k, read) == IF Counted(k, read) >= Limit(k) THEN RetryAfter(Remaining(k, read)) ELSE 0
\* What hit returns, with 0 for None.
Verdict(k, read) == IF Counted(k, read) > Limit(k) THEN RetryAfter(Remaining(k, read)) ELSE 0

Admit(k) == admitted' = [admitted EXCEPT ![k] = [m \in Ages(k) |-> admitted[k][m] + 1]]

\* Mutant: the address's refusal does not end the check.
HitUnheeded(t, k, read, next) ==
  /\ count' = [count EXCEPT ![k] = Counted(k, read)]
  /\ age' = IF Anew(k, read) THEN [age EXCEPT ![k] = read] ELSE age
  /\ share' = [w \in Widgets |-> IF w # k THEN share[w]
                                 ELSE [IF Anew(k, read) THEN Nobody ELSE share[w] EXCEPT ![key[t].ip] = @ + 1]]
  /\ IF Verdict(k, read) = 0 THEN Admit(k) ELSE UNCHANGED admitted
  /\ Goto(t, next)
  /\ UNCHANGED <<sinceSweep, restarts>>

\* One window's hit; the thread goes on to `next` unless it is refused.
Hit(t, k, read, next) ==
  /\ count' = [count EXCEPT ![k] = Counted(k, read)]
  /\ age' = IF Anew(k, read) THEN [age EXCEPT ![k] = read] ELSE age
  /\ share' = [w \in Widgets |-> IF w # k THEN share[w]
                                 ELSE [IF Anew(k, read) THEN Nobody ELSE share[w] EXCEPT ![key[t].ip] = @ + 1]]
  /\ \/ /\ Verdict(k, read) = 0
        /\ Admit(k)
        /\ Goto(t, next)
     \/ /\ Verdict(k, read) # 0
        /\ UNCHANGED admitted
        /\ Goto(t, "idle")
  /\ UNCHANGED <<sinceSweep, restarts>>

HitIp(t) == pc[t] = "hitIp" /\ \E read \in Readings(t) : Hit(t, key[t].ip, read, "hitWidget")
HitWidget(t) == pc[t] = "hitWidget" /\ \E read \in Readings(t) : Hit(t, key[t].widget, read, "idle")

\* The process is restarted: its threads and its counters are gone.
Restart == /\ restarts < MaxRestarts
           /\ restarts' = restarts + 1
           /\ count' = [k \in Clients |-> 0]
           /\ age' = [k \in Clients |-> 0]
           /\ sinceSweep' = 0
           /\ pc' = [t \in Threads |-> "idle"]
           /\ key' = [t \in Threads |-> NoOne]
           /\ busy' = [t \in Threads |-> 0]
           /\ calling' = [t \in Threads |-> 0]
           /\ share' = [w \in Widgets |-> Nobody]
           /\ UNCHANGED admitted

Next == \/ Tick
        \/ \E t \in Threads :
             \/ \E ip \in Addresses, widget \in Widgets : Check(t, ip, widget)
             \/ SweepIp(t) \/ SweepWidget(t)
             \/ HitIp(t) \/ HitWidget(t)
        \/ Restart

Spec == Init /\ [][Next]_vars
-----------------------------------------------------------------------------
(* Properties. *)

\* "A burst straddling the window edge can briefly double the rate", and no
\* more than double it, sweeps or not: a stretch as long as a window, less the
\* time a thread may lag behind the clock it read, lets at most twice the
\* limit through, and once more for each restart.
AtMostDouble ==
  \A k \in Clients : admitted[k][Window(k) - MaxLag - 1] <= (2 + restarts) * Limit(k)

\* A hit that a thread may be about to count, and refuse.
Refuses(t, k, read) == /\ \/ pc[t] = "hitIp" /\ k = key[t].ip
                          \/ pc[t] = "hitWidget" /\ k = key[t].widget
                       /\ Verdict(k, read) # 0

\* Who is refused was not wronged: since the window opened that refuses a key,
\* its limit of requests had been let through, and the wait it is told ends
\* less than a second from that window's end.
RefusalIsEarned ==
  \A t \in Threads : \A k \in Clients, read \in Readings(t) : Refuses(t, k, read) =>
    /\ admitted[k][age[k]] >= Limit(k)
    /\ Verdict(k, read) * Second \in (Remaining(k, read) - Second + 1)..(Remaining(k, read) + Second - 1)

\* The widget's limit is the one a botnet runs into and a single machine does
\* not: what an address is refused costs the widget nothing, so it takes many
\* addresses to close a form, each with no more than its own windows let pass;
\* and of the first of these at least the request that opened it came before.
Senders(w) == {ip \in Addresses : share[w][ip] > 0}
WindowsTouched == (WidgetWindow + MaxLag - 1) \div (IpWindow - MaxLag) + 2
ManyHandsCloseAForm ==
  \A t \in Threads : \A w \in Widgets, read \in Readings(t) : Refuses(t, w, read) =>
    Cardinality(Senders(w)) * (WindowsTouched * IpLimit - 1) >= WidgetLimit
=============================================================================
