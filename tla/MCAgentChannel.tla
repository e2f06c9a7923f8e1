--------------------------- MODULE MCAgentChannel ---------------------------
(* Model values and symmetry for checking AgentChannel. *)
EXTENDS AgentChannel, TLC

\* Connections are interchangeable; machines too.
Symmetry == Permutations(Conn) \union Permutations(Machine)

=============================================================================
