----------------------------- MODULE TenancyMC -----------------------------
(* Small instances of Tenancy for TLC. *)
EXTENDS Tenancy, TLC
CONSTANTS acme, globex, signup, contact, demo, random, email, website, company, s1, s2, r1

TwoTenants == <<acme, globex>>
TwoAndOne == acme :> {signup, contact} @@ globex :> {demo}
Lists == {{email}, {email, company}}
\* The two widgets of one entry are treated alike.
Symmetry == Permutations(Seeds) \cup Permutations({signup, contact})
=============================================================================
