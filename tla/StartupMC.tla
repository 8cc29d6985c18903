----------------------------- MODULE StartupMC -----------------------------
(* Small instances of Startup for TLC. *)
EXTENDS Startup
CONSTANTS app, seed, older, another, f1, f2

TwoFiles == <<f1, f2>>
\* An app, its seed and another copy, and the app of the image before.
OneBehind == [p \in Processes |-> IF p = older THEN 1 ELSE 2]
=============================================================================
