---------------------------- MODULE ScriptEditor ----------------------------
(***************************************************************************)
(* The tab "Biblioteca" of the scripts page: a library of scripts, one of  *)
(* them open on a canvas, and the automatic save 1.5 s after the last      *)
(* change.  A script's definition is a graph; of a node only its identity  *)
(* and whether its data was changed are kept.                              *)
(*                                                                         *)
(* A handler runs without interruption up to its await.  Saves, and calls  *)
(* that create or delete a script (one at a time here), are handled by the *)
(* server and answered in any order.                                       *)
(***************************************************************************)
EXTENDS Naturals, Sequences, SequencesExt

CONSTANTS Script, Node, None,
          FirstGraphs, \* what the server stores at first, None for ids not in use yet
          File,        \* a definition exported earlier
          Links,       \* the edges that may be drawn
          MaxEdits,    \* bound on the changes on the canvas
          MaxEvents,   \* bound on leaving the tab, creating, deleting and failing requests
          MaxSaves     \* bound on the saves at the same time

Graph == [nodes: SUBSET Node, edited: SUBSET Node, edges: SUBSET (Node \X Node)]
Library == [Script -> Graph \union {None}]

\* Its edges connect its nodes.
HasEnds(g) == g.edges \subseteq g.nodes \X g.nodes

ASSUME FirstGraphsAssumption ==
    /\ FirstGraphs \in Library /\ File \in Graph
    /\ HasEnds(File) /\ \A s \in Script : FirstGraphs[s] # None => HasEnds(FirstGraphs[s])
ASSUME LinksAssumption == Links \subseteq Node \X Node
ASSUME BoundsAssumption == {MaxEdits, MaxEvents, MaxSaves} \subseteq Nat

VARIABLES
    scripts,  \* the library as the page knows it
    selected, \* selectedScript
    canvas,   \* nodes and edges of React Flow
    bound,    \* selectedScript as onConnect captured it when the canvas last changed
    load,     \* the request for the list, with what the server answers
    saves,    \* saves in the order of their timers, waiting or under way
    call,     \* create, import or delete under way, None if none is
    stored,   \* the table scripts
    unused,   \* script ids nobody has been given
    home,     \* history: node -> scripts it was drawn for or imported into
    mishaps,  \* history: what went wrong for the save
    edits, events

canvasVars == <<scripts, selected, canvas, bound>>
pageVars == <<canvasVars, load>>
serverVars == <<stored, unused>>
ghosts == <<home, mishaps>>
vars == <<pageVars, saves, call, serverVars, ghosts, edits, events>>

Save == [script: Script, graph: Graph, here: BOOLEAN, pc: {"timer", "sent", "stored", "failed"}]
Call == [kind: {"create", "delete"}, script: Script, graph: Graph,
         scripts: Library, selected: Script \union {None}, here: BOOLEAN,
         pc: {"sent", "done", "failed"}]
ASSUME NoneAssumption == None \notin Script /\ None \notin Graph /\ None \notin Call

Mishap == {"hurry",     \* the script was left with a save or a call open, or drawn on meanwhile
           "reordered", \* of two saves the later one was handled or answered first
           "failed",    \* a request failed
           "key",       \* a connected node was deleted with the key
           "move"}      \* the last change of the canvas was one step of a moving node

\* Every variable holds a value of its kind.
TypeOK ==
    /\ scripts \in Library
    /\ selected \in Script \union {None} /\ bound \in Script \union {None}
    /\ canvas \in Graph
    /\ load \in [pc: {"over", "asked", "answered"}, scripts: Library]
    /\ saves \in Seq(Save) /\ Len(saves) <= MaxSaves
    /\ call \in Call \union {None}
    /\ stored \in Library
    /\ unused \subseteq Script
    /\ home \in [Node -> SUBSET Script]
    /\ mishaps \subseteq Mishap
    /\ edits \in 0..MaxEdits /\ events \in 0..MaxEvents

Empty == [nodes |-> {}, edited |-> {}, edges |-> {}]
NoScripts == [s \in Script |-> None]
NewLoad == [pc |-> "asked", scripts |-> NoScripts]
Listed(l) == {s \in Script : l[s] # None}

\* The tab is opened: load has asked for the scripts.
Init ==
    /\ stored = FirstGraphs
    /\ unused = Script \ Listed(FirstGraphs)
    /\ home = [n \in Node |-> {s \in Listed(FirstGraphs) : n \in FirstGraphs[s].nodes}]
    /\ scripts = NoScripts /\ selected = None /\ canvas = Empty /\ bound = None
    /\ load = NewLoad
    /\ saves = <<>> /\ call = None
    /\ mishaps = {} /\ edits = 0 /\ events = 0

-----------------------------------------------------------------------------
(* The library *)

\* No save or call is open, and the list is loaded.
Settled == saves = <<>> /\ call = None /\ load.pc = "over"

Hurried == IF Settled THEN {} ELSE {"hurry"}

\* Mutant: the canvas of the previous script stays.
OpenBehind(lib, s) ==
    /\ scripts' = lib /\ selected' = s /\ bound' = s
    /\ UNCHANGED canvas

\* setScripts(lib) and openScript(s)
Open(lib, s) ==
    /\ scripts' = lib /\ selected' = s /\ bound' = s
    /\ canvas' = lib[s]

\* list_scripts
ListRead ==
    /\ load.pc = "asked"
    /\ load' = [pc |-> "answered", scripts |-> stored]
    /\ UNCHANGED <<canvasVars, saves, call, serverVars, ghosts, edits, events>>

Loaded ==
    /\ load.pc = "answered"
    /\ load' = [NewLoad EXCEPT !.pc = "over"]
    /\ IF Listed(load.scripts) = {}
       THEN scripts' = load.scripts /\ UNCHANGED <<selected, canvas, bound>>
       ELSE \E s \in Listed(load.scripts) : Open(load.scripts, s)
    /\ UNCHANGED <<saves, call, serverVars, ghosts, edits, events>>

\* A click on a script of the library
OpenScript(s) ==
    /\ s \in Listed(scripts)
    /\ Open(scripts, s)
    /\ mishaps' = mishaps \union Hurried
    /\ UNCHANGED <<load, saves, call, serverVars, home, edits, events>>

\* Another tab of the page is opened, which unmounts this one, and this one again: timers
\* and requests go on for nobody, a new load begins.
LeaveAndReturn ==
    /\ events < MaxEvents
    /\ events' = events + 1
    /\ mishaps' = mishaps \union Hurried
    /\ scripts' = NoScripts /\ selected' = None /\ canvas' = Empty /\ bound' = None
    /\ load' = NewLoad
    /\ saves' = [i \in DOMAIN saves |-> [saves[i] EXCEPT !.here = FALSE]]
    /\ call' = IF call = None THEN None ELSE [call EXCEPT !.here = FALSE]
    /\ UNCHANGED <<serverVars, home, edits>>

Ask(kind, s, g) ==
    /\ call = None /\ events < MaxEvents
    /\ events' = events + 1
    /\ call' = [kind |-> kind, script |-> s, graph |-> g, scripts |-> scripts,
                selected |-> selected, here |-> TRUE, pc |-> "sent"]
    /\ mishaps' = mishaps \union Hurried

\* handleCreateScript, with an id the server chooses
CreateScript(s) ==
    /\ s \in unused
    /\ Ask("create", s, Empty)
    /\ unused' = unused \ {s}
    /\ UNCHANGED <<pageVars, saves, stored, home, edits>>

\* handleImportFile
Import(s) ==
    /\ s \in unused
    /\ Ask("create", s, File)
    /\ unused' = unused \ {s}
    /\ UNCHANGED <<pageVars, saves, stored, home, edits>>

DeleteScript(s) ==
    /\ s \in Listed(scripts)
    /\ Ask("delete", s, Empty)
    /\ UNCHANGED <<pageVars, saves, serverVars, home, edits>>

\* create_script and delete_script: deleting what is gone is NotFound.
CallHandled ==
    /\ call # None
    /\ call.pc = "sent"
    /\ IF call.kind = "create"
       THEN /\ stored' = [stored EXCEPT ![call.script] = call.graph]
            /\ home' = [n \in Node |-> IF n \in call.graph.nodes
                                       THEN home[n] \union {call.script} ELSE home[n]]
            /\ call' = [call EXCEPT !.pc = "done"]
       ELSE /\ stored' = [stored EXCEPT ![call.script] = None]
            /\ call' = [call EXCEPT !.pc = IF stored[call.script] = None THEN "failed" ELSE "done"]
            /\ UNCHANGED home
    /\ UNCHANGED <<pageVars, saves, unused, mishaps, edits, events>>

\* The rest of the handler, which works on the library and the selection as they were
\* before the call.
CallAnswered ==
    /\ call # None
    /\ call.pc = "done"
    /\ call' = None
    /\ IF ~call.here
       THEN UNCHANGED <<canvasVars>>
       ELSE LET left == [call.scripts EXCEPT ![call.script] = IF call.kind = "create"
                                                              THEN call.graph ELSE None]
            IN IF call.kind = "create" THEN Open(left, call.script)
               ELSE IF call.selected # call.script
                    THEN scripts' = left /\ UNCHANGED <<selected, canvas, bound>>
               ELSE IF Listed(left) = {}
                    THEN /\ scripts' = left /\ selected' = None /\ canvas' = Empty /\ bound' = None
               ELSE \E s \in Listed(left) : Open(left, s)
    /\ UNCHANGED <<load, saves, serverVars, ghosts, edits, events>>

CallFails ==
    /\ call # None
    /\ call.pc = "failed"
    /\ call' = None
    /\ UNCHANGED <<pageVars, saves, serverVars, ghosts, edits, events>>

-----------------------------------------------------------------------------
(* The canvas *)

\* saveTimer, the timer of this mount
SaveTimer == {i \in DOMAIN saves : saves[i].here /\ saves[i].pc = "timer"}

\* clearTimeout; orphans go on.
ClearTimer == IF SaveTimer = {} THEN saves ELSE RemoveAt(saves, CHOOSE i \in SaveTimer : TRUE)

\* Mutant: a timer that is already running is kept.
ScheduleOnce(s, g) ==
    /\ Len(ClearTimer) < MaxSaves
    /\ saves' = IF ClearTimer # saves THEN saves
                ELSE Append(saves, [script |-> s, graph |-> g, here |-> TRUE, pc |-> "timer"])

\* scheduleSave of graph g in script s
ScheduleSave(s, g) ==
    /\ Len(ClearTimer) < MaxSaves
    /\ saves' = Append(ClearTimer, [script |-> s, graph |-> g, here |-> TRUE, pc |-> "timer"])

\* A change that leaves the canvas at g and saves it as w for script s
Change(g, w, s, cause) ==
    /\ selected # None /\ edits < MaxEdits
    /\ edits' = edits + 1
    /\ canvas' = g /\ bound' = selected
    /\ ScheduleSave(s, w)
    /\ mishaps' = (mishaps \ {"move"}) \union cause \union (IF call = None THEN {} ELSE {"hurry"})
    /\ UNCHANGED <<scripts, selected, load, call, serverVars, events>>

Without(g, n) == [nodes |-> g.nodes \ {n}, edited |-> g.edited \ {n},
                  edges |-> {x \in g.edges : x[1] # n /\ x[2] # n}]

AddNode(n) ==
    LET g == [canvas EXCEPT !.nodes = @ \union {n}]
    IN /\ home[n] = {}
       /\ home' = [home EXCEPT ![n] = {selected}]
       /\ Change(g, g, selected, {})

\* The panel is shown for a node that is on the canvas; each of its fields calls
\* updateNodeData for that node.
PanelNodes == canvas.nodes

UpdateNodeData(n) ==
    LET g == [canvas EXCEPT !.edited = @ \union {n}]
    IN /\ n \in PanelNodes
       /\ Change(g, g, selected, {})
       /\ UNCHANGED home

\* handleNodesChange for one change of position, which saves the nodes as they were before
MoveNode(n) ==
    /\ n \in canvas.nodes
    /\ Change([canvas EXCEPT !.edited = @ \union {n}], canvas, selected,
              IF n \in canvas.edited THEN {} ELSE {"move"})
    /\ UNCHANGED home

\* onConnect may be older than the script that is selected.
Connect(x) ==
    LET g == [canvas EXCEPT !.edges = @ \union {x}]
    IN /\ {x[1], x[2]} \subseteq canvas.nodes
       /\ \E s \in {bound, selected} : Change(g, g, s, {})
       /\ UNCHANGED home

\* The button of the panel
DeleteNode(n) ==
    /\ n \in PanelNodes
    /\ Change(Without(canvas, n), Without(canvas, n), selected, {})
    /\ UNCHANGED home

\* handleEdgesChange
RemoveEdge(x) ==
    LET g == [canvas EXCEPT !.edges = @ \ {x}]
    IN /\ x \in canvas.edges
       /\ Change(g, g, selected, {})
       /\ UNCHANGED home

\* The key Delete on a node: React Flow reports the edges and then the node, and the second
\* handler still has the edges of before.
DeleteKey(n) ==
    LET g == Without(canvas, n)
    IN /\ n \in canvas.nodes
       /\ Change(g, [g EXCEPT !.edges = canvas.edges], selected,
                 IF g.edges = canvas.edges THEN {} ELSE {"key"})
       /\ UNCHANGED home

-----------------------------------------------------------------------------
(* The saves *)

\* An earlier save of the same script in one of the states of pcs
Earlier(i, pcs) == \E j \in 1..(i - 1) : saves[j].script = saves[i].script /\ saves[j].pc \in pcs

Fire(i) ==
    /\ saves[i].pc = "timer" /\ ~\E j \in 1..(i - 1) : saves[j].pc = "timer"
    /\ saves' = [saves EXCEPT ![i].pc = "sent"]
    /\ UNCHANGED <<pageVars, call, serverVars, ghosts, edits, events>>

Reordered(i, pcs) == IF Earlier(i, pcs) THEN {"reordered"} ELSE {}

\* update_script
Update(i) ==
    /\ saves[i].pc = "sent"
    /\ IF stored[saves[i].script] = None
       THEN /\ saves' = [saves EXCEPT ![i].pc = "failed"]
            /\ UNCHANGED stored
       ELSE /\ saves' = [saves EXCEPT ![i].pc = "stored"]
            /\ stored' = [stored EXCEPT ![saves[i].script] = saves[i].graph]
    /\ mishaps' = mishaps \union Reordered(i, {"sent"})
    /\ UNCHANGED <<pageVars, call, unused, home, edits, events>>

\* setSelectedScript and setScripts, whatever is open now
SaveAnswered(i) ==
    LET w == saves[i]
    IN /\ w.pc = "stored"
       /\ saves' = RemoveAt(saves, i)
       /\ IF w.here
          THEN /\ selected' = w.script
               /\ scripts' = IF scripts[w.script] = None THEN scripts
                             ELSE [scripts EXCEPT ![w.script] = w.graph]
          ELSE UNCHANGED <<selected, scripts>>
       /\ mishaps' = mishaps \union Reordered(i, {"sent", "stored", "failed"})
       /\ UNCHANGED <<canvas, bound, load, call, serverVars, home, edits, events>>

\* Mutant: tries again.
SaveAgain(i) ==
    /\ saves[i].pc = "failed"
    /\ saves' = [saves EXCEPT ![i].pc = "sent"]
    /\ mishaps' = mishaps \union {"failed"}
    /\ UNCHANGED <<pageVars, call, serverVars, home, edits, events>>

\* The catch: the canvas stays unsaved.
SaveFails(i) ==
    /\ saves[i].pc = "failed"
    /\ saves' = RemoveAt(saves, i)
    /\ mishaps' = mishaps \union {"failed"}
    /\ UNCHANGED <<pageVars, call, serverVars, home, edits, events>>

\* A request fails at the browser, before or after the server has handled it. A call has
\* been counted as an event when it was made.
Fault ==
    /\ mishaps' = mishaps \union {"failed"}
    /\ \/ /\ call # None /\ call.pc # "failed"
          /\ call' = [call EXCEPT !.pc = "failed"]
          /\ UNCHANGED <<load, saves, events>>
       \/ /\ events < MaxEvents
          /\ events' = events + 1
          /\ \/ /\ load.pc # "over"
                /\ load' = [NewLoad EXCEPT !.pc = "over"]
                /\ UNCHANGED <<saves, call>>
             \/ \E i \in DOMAIN saves :
                  /\ saves[i].pc \in {"sent", "stored"}
                  /\ saves' = [saves EXCEPT ![i].pc = "failed"]
                  /\ UNCHANGED <<load, call>>
    /\ UNCHANGED <<canvasVars, serverVars, home, edits>>

-----------------------------------------------------------------------------
Draw ==
    \/ \E n \in Node : \/ AddNode(n) \/ UpdateNodeData(n) \/ MoveNode(n)
                       \/ DeleteNode(n) \/ DeleteKey(n)
    \/ \E x \in Links : Connect(x) \/ RemoveEdge(x)

SaveStep(i) == Fire(i) \/ Update(i) \/ SaveAnswered(i) \/ SaveFails(i)
SaveSteps == \E i \in DOMAIN saves : SaveStep(i)
CallStep == CallHandled \/ CallAnswered \/ CallFails
LoadStep == ListRead \/ Loaded

Next ==
    \/ \E s \in Script : OpenScript(s) \/ CreateScript(s) \/ Import(s) \/ DeleteScript(s)
    \/ LeaveAndReturn \/ Draw
    \/ SaveSteps \/ CallStep \/ LoadStep \/ Fault

Spec == Init /\ [][Next]_vars

\* Timers fire, the server answers; no fairness for the user.
Fairness == WF_vars(SaveSteps) /\ WF_vars(CallStep) /\ WF_vars(LoadStep)

FairSpec == Spec /\ Fairness

-----------------------------------------------------------------------------
(* Properties *)

\* What is drawn in one script is never stored in another one, unless the user opens a
\* script, creates or deletes one, or draws, while a save or call of before is open: the
\* answer to such a save selects its script again, behind the canvas of another
\* (scheduleSave).
NodesStayHome ==
    "hurry" \notin mishaps =>
        \A s \in Listed(stored) : \A n \in stored[s].nodes : s \in home[n]

\* A stored edge connects stored nodes, unless a connected node was deleted with the key
\* (handleNodesChange, handleEdgesChange).
EdgesHaveEnds ==
    "key" \notin mishaps =>
        \A s \in Listed(stored) : HasEnds(stored[s])

\* Once everything is answered, and if none of the mishaps happened, the server stores what
\* the canvas and the library show (BuilderTab).
CanvasIsStored ==
    Settled /\ mishaps = {} =>
        /\ scripts = stored
        /\ selected # None => canvas = stored[selected]

\* A script that was deleted does not come back with a save that fires later
\* (scheduleSave, update_script).
DeletedStayDeleted ==
    [][\A s \in Script :
         stored[s] = None /\ s \notin unused /\ ~(call # None /\ call.kind = "create" /\ call.script = s)
         => stored'[s] = None]_vars

\* Saves and calls come to an end, and unless one of the mishaps happened the server then
\* stores what was drawn last (scheduleSave).
DrawingLands ==
    <>[](Settled /\ (mishaps = {} /\ selected # None => stored[selected] = canvas))

=============================================================================
