---------------------------- MODULE PublicEdgeMC ----------------------------
(* Small instances of PublicEdge for TLC. *)
EXTENDS PublicEdge

\* Two lookup services, a service and a mock, or none, with every switch, for
\* one field; and every field, as deployed by default.
Chains == {<<TRUE, TRUE>>, <<TRUE, FALSE>>, <<>>}
Deployments == [needsPublic : Chains, down : SUBSET {1, 2}, forced : {"", "public"},
                trustProxy : BOOLEAN, field : {[type |-> "text", required |-> FALSE, maxLength |-> 9]}]
Forms == [needsPublic : {<<TRUE, TRUE>>}, down : {{}}, forced : {""}, trustProxy : {FALSE},
          field : FieldSpecs]
Settings == Deployments \cup Forms
=============================================================================
