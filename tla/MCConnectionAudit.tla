-------------------------- MODULE MCConnectionAudit --------------------------
(* Two connections to the same device, for checking ConnectionAudit. *)
EXTENDS ConnectionAudit, TLC

CONSTANTS Pc1

MCTarget == [s \in Session |-> Pc1]

Symmetry == Permutations(Tx) \union Permutations(Session)

=============================================================================
