--------------------------- MODULE MCScriptEditor ---------------------------
(* A library whose first script has two connected nodes, for checking ScriptEditor. *)
EXTENDS ScriptEditor

CONSTANTS Setup, Imported, Start, Install

MCLinks == {<<Start, Install>>}

MCFile == [nodes |-> {Start, Install}, edited |-> {}, edges |-> MCLinks]

MCFirstGraphs ==
    [s \in Script |->
        CASE s = Setup -> MCFile
          [] s = Imported -> None
          [] OTHER -> [nodes |-> {}, edited |-> {}, edges |-> {}]]

=============================================================================
