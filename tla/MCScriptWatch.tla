--------------------------- MODULE MCScriptWatch ---------------------------
(* ScriptWatch as TLC checks it. *)
EXTENDS ScriptWatch
=============================================================================
