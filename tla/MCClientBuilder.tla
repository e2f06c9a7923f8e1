-------------------------- MODULE MCClientBuilder --------------------------
(* File names and tasks for checking ClientBuilder. *)
EXTENDS ClientBuilder

CONSTANT Hasty \* the tenant that has several tasks

\* Every branding of every tenant has a file name of its own.
DistinctNames == [n \in Tenant \X Brand |-> n]

SomeTasks == {k \in Tenant \X Slot : k[1] = Hasty \/ k[2] = 1}

=============================================================================
