---------------------------- MODULE DashboardMC ----------------------------
(* Small instances of Dashboard for TLC. *)
EXTENDS Dashboard, TLC
CONSTANTS a, b, w1, w2, w3, kA, kB, kX, r1, r2, r3, r4

TwoOwners == w1 :> a @@ w2 :> a @@ w3 :> b
\* Of one tenant a lead and a spam of today and an old lead from nowhere, on
\* two widgets; of the other a lead.
Submitted == r1 :> [widget |-> w1, spam |-> FALSE, country |-> "Spain", age |-> 0]
          @@ r2 :> [widget |-> w1, spam |-> TRUE, country |-> "Spain", age |-> 0]
          @@ r3 :> [widget |-> w2, spam |-> FALSE, country |-> "Unknown", age |-> 20]
          @@ r4 :> [widget |-> w3, spam |-> FALSE, country |-> "Spain", age |-> 0]
OneWrong == kA :> a @@ kB :> b @@ kX :> Nobody
=============================================================================
