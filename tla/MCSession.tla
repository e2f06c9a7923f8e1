----------------------------- MODULE MCSession -----------------------------
(* Who belongs to which tenant, for checking Session. *)
EXTENDS Session

CONSTANTS Acme, Ana

MCHome == [u \in Staff |-> Acme]
CONSTANT Shown

MCPages == {"tenants", "dashboard"} \union Shown

=============================================================================
