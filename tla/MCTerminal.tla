---------------------------- MODULE MCTerminal ----------------------------
(* Devices and their tenants, for checking Terminal. *)
EXTENDS Terminal

CONSTANTS Acme, Pc3

MCOwner == [d \in Device |-> IF d = Pc3 THEN CHOOSE x \in Tenant : x # Acme ELSE Acme]

=============================================================================
