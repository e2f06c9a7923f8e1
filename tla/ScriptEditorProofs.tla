-------------------------- MODULE ScriptEditorProofs --------------------------
(***************************************************************************)
(* Proofs about ScriptEditor, for any scripts, nodes, edges and bounds:    *)
(* type correctness, that what is drawn stays in its script, that stored   *)
(* edges have their ends, that no save brings a deleted script back, and   *)
(* that without a mishap the server stores what the canvas shows.          *)
(***************************************************************************)
EXTENDS ScriptEditor, SequenceTheorems, TLAPS

USE FirstGraphsAssumption, LinksAssumption, NoneAssumption, BoundsAssumption

-----------------------------------------------------------------------------
(* The inductive invariants *)

\* Without haste a script is open alone: the list comes first, a call waits for the saves,
\* and all saves are of the script that is open.
OneAtATime ==
    "hurry" \notin mishaps =>
        /\ load.pc # "over" => selected = None /\ saves = << >> /\ call = None
        /\ call # None => saves = << >>
        /\ bound = selected
        /\ \A i \in DOMAIN saves : saves[i].script = selected

\* The nodes of g are at home in script s.
AtHome(s, g) == g # None => \A n \in g.nodes : s \in home[n]
LibraryAtHome(l) == \A s \in Script : AtHome(s, l[s])

\* Every copy of a graph keeps to its script.
CopiesAtHome ==
    "hurry" \notin mishaps =>
        /\ LibraryAtHome(stored) /\ LibraryAtHome(scripts) /\ LibraryAtHome(load.scripts)
        /\ selected # None => AtHome(selected, canvas)
        /\ \A i \in DOMAIN saves : AtHome(saves[i].script, saves[i].graph)
        /\ call # None =>
              /\ LibraryAtHome(call.scripts)
              /\ call.pc = "done" /\ call.kind = "create" => AtHome(call.script, call.graph)

LibraryHasEnds(l) == \A s \in Script : l[s] # None => HasEnds(l[s])

\* Every copy of a graph has the ends of its edges.
CopiesHaveEnds ==
    "key" \notin mishaps =>
        /\ LibraryHasEnds(stored) /\ LibraryHasEnds(scripts) /\ LibraryHasEnds(load.scripts)
        /\ HasEnds(canvas)
        /\ \A i \in DOMAIN saves : HasEnds(saves[i].graph)
        /\ call # None => LibraryHasEnds(call.scripts) /\ HasEnds(call.graph)

\* Nothing went wrong, or at most a node is still moving: the canvas is then ahead of the
\* saves, but they are in order.
Lossless == mishaps \subseteq {"move"}

\* The library a handler works with, and what it may do with it
Left == [call.scripts EXCEPT ![call.script] = IF call.kind = "create" THEN call.graph ELSE None]

\* Saves are stored in their order, and the timer is of the last one.
InOrder(w) ==
    \A i \in DOMAIN w :
        /\ w[i].here /\ w[i].pc # "failed"
        /\ w[i].pc = "timer" => i = Len(w)
        /\ w[i].pc = "stored" => \A j \in 1..(i - 1) : w[j].pc = "stored"

\* Save i of w is the last one the server has stored.
LastStored(w, i) == w[i].pc = "stored" /\ \A j \in (i + 1)..Len(w) : w[j].pc # "stored"

SavesInOrder == Lossless => InOrder(saves)

\* With no call under way the library differs from the server at most by saves that are not
\* answered, the server from the canvas by saves that are not stored.
LibraryAgrees ==
    Lossless /\ load.pc = "over" /\ call = None =>
        /\ \A s \in Script : s # selected => scripts[s] = stored[s]
        /\ selected # None =>
              /\ scripts[selected] # None /\ stored[selected] # None
              /\ scripts[selected] = stored[selected] \/ \E i \in DOMAIN saves : saves[i].pc = "stored"
              /\ \A i \in DOMAIN saves : LastStored(saves, i) => stored[selected] = saves[i].graph
              /\ mishaps = {} => canvas = IF saves = << >> THEN stored[selected]
                                          ELSE saves[Len(saves)].graph

LoadAgrees == Lossless /\ load.pc = "answered" => load.scripts = stored

\* A call is made with the library the server has, and leaves both the same.
CallAgrees ==
    Lossless /\ call # None =>
        /\ call.here /\ call.scripts = scripts /\ call.selected = selected /\ call.pc # "failed"
        /\ call.pc = "sent" => /\ scripts = stored
                               /\ call.kind = "delete" => stored[call.script] # None
        /\ call.pc = "done" => stored = Left
        /\ selected # None /\ (call.pc = "done" => selected # call.script) =>
              stored[selected] # None /\ (mishaps = {} => canvas = stored[selected])

CopiesAgree == SavesInOrder /\ LibraryAgrees /\ LoadAgrees /\ CallAgrees

EditorInv == OneAtATime /\ CopiesAtHome /\ CopiesHaveEnds /\ CopiesAgree

-----------------------------------------------------------------------------
(* The saves *)

LEMMA RemovedAt ==
    ASSUME NEW S, NEW s \in Seq(S), NEW i \in DOMAIN s
    PROVE  /\ RemoveAt(s, i) \in Seq(S) /\ Len(RemoveAt(s, i)) = Len(s) - 1
           /\ \A j \in 1..(Len(s) - 1) : RemoveAt(s, i)[j] = IF j < i THEN s[j] ELSE s[j + 1]
           /\ \A j \in DOMAIN RemoveAt(s, i) :
                 \E k \in DOMAIN s : RemoveAt(s, i)[j] = s[k]
<1> DEFINE a == SubSeq(s, 1, i - 1)
           b == SubSeq(s, i + 1, Len(s))
<1>1. i \in Nat /\ 1 <= i /\ i <= Len(s) /\ Len(s) \in Nat
  OBVIOUS
<1>2. /\ a \in Seq(S) /\ Len(a) = i - 1
      /\ \A j \in 1..(i - 1) : a[j] = s[j]
  BY <1>1
<1>3. /\ b \in Seq(S) /\ Len(b) = Len(s) - i
      /\ \A j \in 1..(Len(s) - i) : b[j] = s[i + j]
  BY <1>1
<1>4. /\ a \o b \in Seq(S) /\ Len(a \o b) = Len(s) - 1
      /\ \A j \in 1..(Len(s) - 1) :
            (a \o b)[j] = IF j <= i - 1 THEN a[j] ELSE b[j - (i - 1)]
  <2> HIDE DEF a, b
  <2>1. (i - 1) + (Len(s) - i) = Len(s) - 1
    BY <1>1
  <2>2. a \in Seq(S) /\ b \in Seq(S)
    BY <1>2, <1>3
  <2>3. /\ a \o b \in Seq(S) /\ Len(a \o b) = Len(a) + Len(b)
        /\ \A j \in 1..(Len(a) + Len(b)) :
              (a \o b)[j] = IF j <= Len(a) THEN a[j] ELSE b[j - Len(a)]
    BY <2>2, ConcatProperties, Zenon
  <2>4. Len(a) = i - 1 /\ Len(b) = Len(s) - i
    BY <1>2, <1>3
  <2> QED
    BY <2>1, <2>3, <2>4
<1>5. RemoveAt(s, i) = a \o b
  BY DEF RemoveAt
<1>6. ASSUME NEW j \in 1..(Len(s) - 1)
      PROVE  /\ (a \o b)[j] = IF j < i THEN s[j] ELSE s[j + 1]
             /\ \E k \in DOMAIN s : (a \o b)[j] = s[k]
  <2> HIDE DEF a, b
  <2>1. CASE j <= i - 1
    <3>1. j \in 1..(i - 1) /\ j \in DOMAIN s
      BY <2>1, <1>1
    <3> QED
      BY <2>1, <3>1, <1>2, <1>4
  <2>2. CASE ~(j <= i - 1)
    <3>1. /\ j - (i - 1) \in 1..(Len(s) - i) /\ i + (j - (i - 1)) = j + 1
          /\ j + 1 \in DOMAIN s /\ ~(j < i)
      BY <2>2, <1>1
    <3> QED
      BY <3>1, <2>2, <1>3, <1>4
  <2> QED
    BY <2>1, <2>2
<1>7. DOMAIN (a \o b) = 1..(Len(s) - 1)
  <2> HIDE DEF a, b
  <2> QED
    BY <1>4
<1> HIDE DEF a, b
<1> QED
  BY <1>4, <1>5, <1>6, <1>7

LEMMA ClearedSaves ==
    ASSUME saves \in Seq(Save)
    PROVE  /\ ClearTimer \in Seq(Save) /\ Len(ClearTimer) <= Len(saves)
           /\ \A i \in DOMAIN ClearTimer :
                 \E k \in DOMAIN saves : ClearTimer[i] = saves[k]
<1>1. CASE SaveTimer = {}
  BY <1>1 DEF ClearTimer
<1>2. CASE SaveTimer # {}
  <2>1. PICK k \in DOMAIN saves : ClearTimer = RemoveAt(saves, k)
    BY <1>2 DEF ClearTimer, SaveTimer
  <2>2. /\ ClearTimer \in Seq(Save) /\ Len(ClearTimer) = Len(saves) - 1
        /\ \A i \in DOMAIN ClearTimer : \E j \in DOMAIN saves : ClearTimer[i] = saves[j]
    BY <2>1, RemovedAt
  <2> QED
    BY <2>2
<1> QED
  BY <1>1, <1>2

\* A schedule keeps saves of before and adds the one it is for.
LEMMA Scheduled ==
    ASSUME saves \in Seq(Save), Len(saves) <= MaxSaves, NEW s \in Script, NEW g \in Graph,
           ScheduleSave(s, g)
    PROVE  /\ saves' \in Seq(Save) /\ Len(saves') <= MaxSaves
           /\ \A i \in DOMAIN saves' :
                 \/ \E k \in DOMAIN saves : saves'[i] = saves[k]
                 \/ saves'[i].script = s /\ saves'[i].graph = g
<1> DEFINE w == [script |-> s, graph |-> g, here |-> TRUE, pc |-> "timer"]
<1>1. w \in Save
  BY DEF Save
<1>2. saves' = Append(ClearTimer, w) /\ Len(ClearTimer) < MaxSaves
  BY DEF ScheduleSave
<1>3. ClearTimer \in Seq(Save) /\ Len(ClearTimer) \in Nat
  BY ClearedSaves
<1>4. /\ saves' \in Seq(Save) /\ Len(saves') = Len(ClearTimer) + 1
      /\ \A i \in 1..(Len(ClearTimer) + 1) :
            saves'[i] = IF i <= Len(ClearTimer) THEN ClearTimer[i] ELSE w
  <2> HIDE DEF w
  <2> QED
    BY <1>1, <1>2, <1>3
<1>5. ASSUME NEW i \in DOMAIN saves'
      PROVE  \/ \E k \in DOMAIN saves : saves'[i] = saves[k]
             \/ saves'[i].script = s /\ saves'[i].graph = g
  <2>1. CASE i <= Len(ClearTimer)
    <3>1. i \in DOMAIN ClearTimer /\ saves'[i] = ClearTimer[i]
      <4> HIDE DEF w
      <4> QED
        BY <2>1, <1>3, <1>4
    <3> QED
      BY <3>1, ClearedSaves
  <2>2. CASE ~(i <= Len(ClearTimer))
    <3>1. saves'[i] = w
      <4> HIDE DEF w
      <4> QED
        BY <2>2, <1>3, <1>4
    <3> QED
      BY <3>1
  <2> QED
    BY <2>1, <2>2
<1>6. Len(saves') <= MaxSaves
  <2> HIDE DEF w
  <2> QED
    BY <1>2, <1>3, <1>4
<1> QED
  BY <1>4, <1>5, <1>6

\* A save that only comes to another point
LEMMA SaveMoves ==
    ASSUME saves \in Seq(Save), NEW i \in DOMAIN saves,
           NEW pc \in {"timer", "sent", "stored", "failed"},
           saves' = [saves EXCEPT ![i].pc = pc]
    PROVE  /\ saves' \in Seq(Save) /\ Len(saves') = Len(saves)
           /\ \A k \in DOMAIN saves : /\ saves'[k].script = saves[k].script
                                      /\ saves'[k].graph = saves[k].graph
<1>1. \A k \in DOMAIN saves : saves[k] \in Save
  OBVIOUS
<1>2. [saves[i] EXCEPT !.pc = pc] \in Save
  BY <1>1 DEF Save
<1>3. saves' \in Seq(Save) /\ Len(saves') = Len(saves)
  BY <1>2
<1>4. ASSUME NEW k \in DOMAIN saves
      PROVE  saves'[k].script = saves[k].script /\ saves'[k].graph = saves[k].graph
  <2>1. saves'[k] = IF k = i THEN [saves[i] EXCEPT !.pc = pc] ELSE saves[k]
    OBVIOUS
  <2> QED
    BY <1>1, <2>1 DEF Save
<1> QED
  BY <1>3, <1>4

\* What of the saves is read elsewhere
LEMMA MovedSave ==
    ASSUME saves \in Seq(Save), NEW i \in DOMAIN saves,
           NEW pc \in {"timer", "sent", "stored", "failed"},
           saves' = [saves EXCEPT ![i].pc = pc]
    PROVE  \A k \in DOMAIN saves : /\ saves'[k].pc = IF k = i THEN pc ELSE saves[k].pc
                                   /\ saves'[k].here = saves[k].here
<1> SUFFICES ASSUME NEW k \in DOMAIN saves
             PROVE  /\ saves'[k].pc = IF k = i THEN pc ELSE saves[k].pc
                    /\ saves'[k].here = saves[k].here
  OBVIOUS
<1>1. saves'[k] = IF k = i THEN [saves[i] EXCEPT !.pc = pc] ELSE saves[k]
  OBVIOUS
<1>2. saves[k] \in Save
  OBVIOUS
<1> QED
  BY <1>1, <1>2 DEF Save

LEMMA OrphanedSaves ==
    ASSUME saves \in Seq(Save),
           saves' = [i \in DOMAIN saves |-> [saves[i] EXCEPT !.here = FALSE]]
    PROVE  /\ saves' \in Seq(Save) /\ Len(saves') = Len(saves)
           /\ \A k \in DOMAIN saves : /\ saves'[k].script = saves[k].script
                                      /\ saves'[k].graph = saves[k].graph
<1>1. \A k \in DOMAIN saves : saves[k] \in Save
  OBVIOUS
<1>2. \A k \in DOMAIN saves : [saves[k] EXCEPT !.here = FALSE] \in Save
  BY <1>1 DEF Save
<1>3. DOMAIN saves = 1..Len(saves) /\ Len(saves) \in Nat
  OBVIOUS
<1>4. saves' \in Seq(Save) /\ Len(saves') = Len(saves)
  BY <1>2, <1>3
<1> QED
  BY <1>1, <1>4 DEF Save

-----------------------------------------------------------------------------
(* Type correctness *)

LEMMA EmptyGraph == Empty \in Graph /\ HasEnds(Empty)
BY DEF Empty, Graph, HasEnds

LEMMA OpenType ==
    ASSUME NEW l \in Library, NEW s \in Script, l[s] # None, Open(l, s)
    PROVE  /\ scripts' \in Library /\ selected' \in Script /\ bound' \in Script
           /\ canvas' \in Graph
BY DEF Open, Library

LEMMA AskType ==
    ASSUME TypeOK, NEW kind \in {"create", "delete"}, NEW s \in Script, NEW g \in Graph,
           Ask(kind, s, g)
    PROVE  /\ events' \in 0..MaxEvents /\ call' \in Call /\ mishaps' \subseteq Mishap
BY DEF TypeOK, Ask, Call, Hurried, Mishap

LEMMA TypeInit == Init => TypeOK
<1> SUFFICES ASSUME Init PROVE TypeOK
  OBVIOUS
<1>1. NoScripts \in Library
  BY DEF NoScripts, Library
<1>2. saves \in Seq(Save) /\ Len(saves) <= MaxSaves
  BY DEF Init
<1>3. canvas \in Graph
  BY EmptyGraph DEF Init
<1>4. load \in [pc: {"over", "asked", "answered"}, scripts: Library]
  BY <1>1 DEF Init, NewLoad
<1>5. home \in [Node -> SUBSET Script] /\ unused \subseteq Script
  BY DEF Init, Listed
<1>6. edits \in 0..MaxEdits /\ events \in 0..MaxEvents
  BY DEF Init
<1> QED
  BY <1>1, <1>2, <1>3, <1>4, <1>5, <1>6 DEF Init, TypeOK

\* Nodes are drawn for a script.
DrawnIsBound == canvas.nodes = {} \/ bound # None

Typed == TypeOK /\ DrawnIsBound

\* A change leads to canvas g and to save w for script s: nodes come to the canvas with the
\* script that is selected, and edges lose their ends with the key only.
DrawsAs(g, w, s, cause) ==
    /\ g \in Graph /\ w \in Graph /\ s \in Script /\ cause \subseteq Mishap
    /\ s \in {bound, selected}
    /\ Change(g, w, s, cause)
    /\ home' \in [Node -> SUBSET Script] /\ \A n \in Node : home[n] \subseteq home'[n]
    /\ \A n \in g.nodes \union w.nodes : n \in canvas.nodes \/ home'[n] = {selected}
    /\ HasEnds(canvas) => HasEnds(g) /\ (HasEnds(w) \/ cause = {"key"})
    /\ w = g \/ cause # {}

LEMMA Drawn ==
    ASSUME Typed, Draw
    PROVE  \E g, w, s, cause : DrawsAs(g, w, s, cause)
<1> USE DEF Typed, TypeOK
<1>1. canvas \in Graph /\ (selected # None => selected \in Script)
  OBVIOUS
<1>2. ASSUME NEW n \in Node, AddNode(n) PROVE \E g, w, s, cause : DrawsAs(g, w, s, cause)
  <2> DEFINE g == [canvas EXCEPT !.nodes = @ \union {n}]
  <2>1. g \in Graph
    BY <1>1 DEF Graph
  <2>2. Change(g, g, selected, {}) /\ home' = [home EXCEPT ![n] = {selected}] /\ home[n] = {}
    BY <1>2 DEF AddNode
  <2>3. selected \in Script
    BY <2>2, <1>1 DEF Change
  <2>4. g.nodes = canvas.nodes \union {n} /\ (HasEnds(canvas) => HasEnds(g))
    BY <1>1 DEF HasEnds, Graph
  <2>5. home' \in [Node -> SUBSET Script] /\ \A m \in Node : home[m] \subseteq home'[m]
    BY <2>2, <2>3
  <2>6. home'[n] = {selected}
    BY <2>2
  <2> HIDE DEF g
  <2>7. DrawsAs(g, g, selected, {})
    BY <2>1, <2>2, <2>3, <2>4, <2>5, <2>6 DEF DrawsAs
  <2> QED
    BY <2>7
\* Changes that neither add a node nor have a cause
<1>3. ASSUME NEW g \in Graph, NEW w \in Graph, NEW s, s \in {bound, selected}, s # None,
             NEW cause \in SUBSET Mishap, Change(g, w, s, cause), home' = home,
             g.nodes \union w.nodes \subseteq canvas.nodes,
             HasEnds(canvas) => HasEnds(g) /\ (HasEnds(w) \/ cause = {"key"}),
             w = g \/ cause # {}
      PROVE  \E h, v, t, c : DrawsAs(h, v, t, c)
  <2>1. DrawsAs(g, w, s, cause)
    BY <1>3 DEF DrawsAs
  <2> QED
    BY <2>1
<1>4. ASSUME NEW n \in Node, UpdateNodeData(n) PROVE \E g, w, s, cause : DrawsAs(g, w, s, cause)
  <2> DEFINE g == [canvas EXCEPT !.edited = @ \union {n}]
  <2>1. g \in Graph /\ g.nodes = canvas.nodes /\ (HasEnds(canvas) => HasEnds(g))
    BY <1>1 DEF Graph, HasEnds
  <2>2. Change(g, g, selected, {}) /\ home' = home /\ selected # None
    BY <1>4 DEF UpdateNodeData, Change
  <2> HIDE DEF g
  <2> QED
    BY <2>1, <2>2, <1>3
<1>5. ASSUME NEW n \in Node, MoveNode(n) PROVE \E g, w, s, cause : DrawsAs(g, w, s, cause)
  <2> DEFINE g == [canvas EXCEPT !.edited = @ \union {n}]
             c == IF n \in canvas.edited THEN {} ELSE {"move"}
  <2>1. g \in Graph /\ g.nodes = canvas.nodes /\ (HasEnds(canvas) => HasEnds(g))
    BY <1>1 DEF Graph, HasEnds
  <2>2. Change(g, canvas, selected, c) /\ home' = home /\ selected # None
    BY <1>5 DEF MoveNode, Change
  <2>3. c \subseteq Mishap /\ (canvas = g \/ c # {})
    BY <1>1 DEF Mishap, Graph
  <2> HIDE DEF g, c
  <2> QED
    BY <1>1, <2>1, <2>2, <2>3, <1>3
<1>6. ASSUME NEW x \in Links, Connect(x) PROVE \E g, w, s, cause : DrawsAs(g, w, s, cause)
  <2> DEFINE g == [canvas EXCEPT !.edges = @ \union {x}]
  <2>1. x \in Node \X Node /\ {x[1], x[2]} \subseteq canvas.nodes
    BY <1>6 DEF Connect
  <2>2. g \in Graph /\ g.nodes = canvas.nodes /\ (HasEnds(canvas) => HasEnds(g))
    BY <1>1, <2>1 DEF Graph, HasEnds
  <2>3. PICK s \in {bound, selected} : Change(g, g, s, {})
    BY <1>6 DEF Connect
  <2>4. home' = home /\ s # None
    BY <1>6, <2>1, <2>3 DEF Connect, Change, DrawnIsBound
  <2> HIDE DEF g
  <2> QED
    BY <2>2, <2>3, <2>4, <1>3
<1>7. ASSUME NEW x \in Links, RemoveEdge(x) PROVE \E g, w, s, cause : DrawsAs(g, w, s, cause)
  <2> DEFINE g == [canvas EXCEPT !.edges = @ \ {x}]
  <2>1. g \in Graph /\ g.nodes = canvas.nodes /\ (HasEnds(canvas) => HasEnds(g))
    BY <1>1 DEF Graph, HasEnds
  <2>2. Change(g, g, selected, {}) /\ home' = home /\ selected # None
    BY <1>7 DEF RemoveEdge, Change
  <2> HIDE DEF g
  <2>3. g.nodes \union g.nodes \subseteq canvas.nodes /\ {} \in SUBSET Mishap
    BY <2>1
  <2> QED
    BY <2>1, <2>2, <2>3, <1>3
<1>8. ASSUME NEW n \in Node
      PROVE  /\ Without(canvas, n) \in Graph /\ Without(canvas, n).nodes \subseteq canvas.nodes
             /\ HasEnds(canvas) => HasEnds(Without(canvas, n))
  BY <1>1 DEF Without, Graph, HasEnds
<1>9. ASSUME NEW n \in Node, DeleteNode(n) PROVE \E g, w, s, cause : DrawsAs(g, w, s, cause)
  <2> DEFINE g == Without(canvas, n)
  <2>1. Change(g, g, selected, {}) /\ home' = home /\ selected # None
    BY <1>9 DEF DeleteNode, Change
  <2>2. g \in Graph /\ g.nodes \subseteq canvas.nodes /\ (HasEnds(canvas) => HasEnds(g))
    BY <1>8
  <2> HIDE DEF g
  <2>3. g.nodes \union g.nodes \subseteq canvas.nodes /\ {} \in SUBSET Mishap
    BY <2>2
  <2> QED
    BY <2>1, <2>2, <2>3, <1>3
<1>10. ASSUME NEW n \in Node, DeleteKey(n) PROVE \E g, w, s, cause : DrawsAs(g, w, s, cause)
  <2> DEFINE g == Without(canvas, n)
             w == [g EXCEPT !.edges = canvas.edges]
             c == IF g.edges = canvas.edges THEN {} ELSE {"key"}
  <2>1. Change(g, w, selected, c) /\ home' = home /\ selected # None
    BY <1>10 DEF DeleteKey, Change
  <2>2. c \in SUBSET Mishap
    BY DEF Mishap
  <2>3. g \in Graph /\ g.nodes \subseteq canvas.nodes /\ (HasEnds(canvas) => HasEnds(g))
    BY <1>8
  <2>4. /\ w \in Graph /\ w.nodes = g.nodes
        /\ g.edges = canvas.edges => w.edges = g.edges /\ w = g
    <3> HIDE DEF g
    <3> QED
      BY <1>1, <2>3 DEF Graph
  <2>5. (HasEnds(g) => HasEnds(w) \/ c = {"key"}) /\ (c = {} => w = g)
    <3> HIDE DEF g, w
    <3> QED
      BY <2>4 DEF HasEnds
  <2> HIDE DEF g, w, c
  <2> QED
    BY <2>1, <2>2, <2>3, <2>4, <2>5, <1>3
<1> QED
  BY <1>2, <1>4, <1>5, <1>6, <1>7, <1>9, <1>10 DEF Draw

LEMMA Answered ==
    ASSUME Typed, CallAnswered
    PROVE  /\ call \in Call /\ call.script \in Script /\ call.graph \in Graph
           /\ call.scripts \in Library /\ Left \in Library
           /\ \/ UNCHANGED canvasVars
              \/ scripts' = Left /\ UNCHANGED <<selected, canvas, bound>>
              \/ scripts' = Left /\ selected' = None /\ canvas' = Empty /\ bound' = None
              \/ \E s \in Script : Left[s] # None /\ Open(Left, s)
<1>1. /\ call \in Call /\ call.script \in Script /\ call.graph \in Graph
      /\ call.scripts \in Library /\ Left \in Library
  BY DEF Typed, TypeOK, CallAnswered, Call, Library, Left
<1>2. \/ UNCHANGED canvasVars
      \/ call.kind = "create" /\ Open(Left, call.script)
      \/ scripts' = Left /\ UNCHANGED <<selected, canvas, bound>>
      \/ scripts' = Left /\ selected' = None /\ canvas' = Empty /\ bound' = None
      \/ \E s \in Listed(Left) : Open(Left, s)
  BY DEF CallAnswered, Left
<1>3. call.kind = "create" => Left[call.script] # None
  BY <1>1 DEF Library, Left
<1> QED
  BY <1>1, <1>2, <1>3 DEF Listed

LEMMA TypeStep == Typed /\ [Next]_vars => Typed'
<1> SUFFICES ASSUME Typed, [Next]_vars PROVE Typed'
  OBVIOUS
<1> USE DEF Typed, TypeOK, DrawnIsBound, canvasVars, pageVars, serverVars, ghosts
<1>0. NoScripts \in Library /\ NewLoad \in [pc: {"over", "asked", "answered"}, scripts: Library]
      /\ Empty.nodes = {} /\ None \notin Call
  BY DEF NoScripts, Library, NewLoad, Empty
<1>1. CASE UNCHANGED vars
  BY <1>1 DEF vars
<1>2. ASSUME NEW s \in Script, OpenScript(s) PROVE Typed'
  <2>1. mishaps' \subseteq Mishap
    BY <1>2 DEF OpenScript, Hurried, Mishap
  <2>2. scripts[s] # None /\ Open(scripts, s)
    BY <1>2 DEF OpenScript, Listed
  <2> QED
    BY <1>2, <2>1, <2>2, OpenType DEF OpenScript
<1>3. ASSUME NEW s \in Script, CreateScript(s) \/ Import(s) PROVE Typed'
  <2>1. PICK g \in Graph : Ask("create", s, g)
    BY <1>3, EmptyGraph DEF CreateScript, Import
  <2> QED
    BY <1>3, <2>1, AskType DEF CreateScript, Import
<1>4. ASSUME NEW s \in Script, DeleteScript(s) PROVE Typed'
  BY <1>4, EmptyGraph, AskType DEF DeleteScript
<1>5. CASE LeaveAndReturn
  <2>1. saves' \in Seq(Save) /\ Len(saves') <= MaxSaves
    BY <1>5, OrphanedSaves DEF LeaveAndReturn
  <2>2. mishaps' \subseteq Mishap
    BY <1>5 DEF LeaveAndReturn, Hurried, Mishap
  <2>3. call' \in Call \union {None}
    BY <1>5 DEF LeaveAndReturn, Call
  <2>4. events' \in 0..MaxEvents
    BY <1>5 DEF LeaveAndReturn
  <2> QED
    BY <1>0, <1>5, <2>1, <2>2, <2>3, <2>4, EmptyGraph DEF LeaveAndReturn
<1>6. CASE Draw
  <2>1. PICK g, w, s, cause : DrawsAs(g, w, s, cause)
    BY <1>6, Drawn
  <2>2. saves' \in Seq(Save) /\ Len(saves') <= MaxSaves
    BY <2>1, Scheduled DEF DrawsAs, Change
  <2>3. edits' \in 0..MaxEdits
    BY <2>1 DEF DrawsAs, Change
  <2>4. mishaps' \subseteq Mishap
    BY <2>1 DEF DrawsAs, Change, Mishap
  <2>5. bound' \in Script /\ canvas' \in Graph
    BY <2>1 DEF DrawsAs, Change
  <2> QED
    BY <2>1, <2>2, <2>3, <2>4, <2>5 DEF DrawsAs, Change
<1>7. CASE CallHandled
  <2>1. call \in Call /\ call.script \in Script /\ call.graph \in Graph
    BY <1>7 DEF CallHandled, Call
  <2>2. stored' \in Library
    BY <1>7, <2>1 DEF CallHandled, Library
  <2>3. call' \in Call
    BY <1>7, <2>1 DEF CallHandled, Call
  <2>4. home' \in [Node -> SUBSET Script]
    BY <1>7, <2>1 DEF CallHandled
  <2> QED
    BY <1>7, <2>2, <2>3, <2>4 DEF CallHandled
<1>8. CASE CallAnswered
  <2>1. Left \in Library
    BY <1>8, Answered
  <2>2. ASSUME NEW s \in Script, Left[s] # None, Open(Left, s)
        PROVE  /\ scripts' \in Library /\ selected' \in Script /\ bound' \in Script
               /\ canvas' \in Graph
    BY <2>1, <2>2, OpenType
  <2>3. /\ scripts' \in Library /\ selected' \in Script \union {None}
        /\ bound' \in Script \union {None} /\ canvas' \in Graph /\ DrawnIsBound'
    <3>1. CASE UNCHANGED canvasVars
      BY <3>1
    <3>2. CASE scripts' = Left /\ UNCHANGED <<selected, canvas, bound>>
      BY <3>2, <2>1
    <3>3. CASE scripts' = Left /\ selected' = None /\ canvas' = Empty /\ bound' = None
      BY <3>3, <2>1, <1>0, EmptyGraph
    <3>4. CASE \E s \in Script : Left[s] # None /\ Open(Left, s)
      BY <3>4, <2>2
    <3> QED
      BY <1>8, Answered, <3>1, <3>2, <3>3, <3>4
  <2> QED
    BY <1>8, <2>3 DEF CallAnswered
<1>9. CASE CallFails
  BY <1>9 DEF CallFails
<1>10. CASE ListRead
  BY <1>10 DEF ListRead
<1>11. CASE Loaded
  <2>1. load.scripts \in Library
    OBVIOUS
  <2>2. CASE Listed(load.scripts) = {}
    BY <1>0, <1>11, <2>1, <2>2 DEF Loaded, NewLoad
  <2>3. CASE Listed(load.scripts) # {}
    <3>1. PICK s \in Script : load.scripts[s] # None /\ Open(load.scripts, s)
      BY <1>11, <2>3 DEF Loaded, Listed
    <3>2. load' \in [pc: {"over", "asked", "answered"}, scripts: Library]
      BY <1>0, <1>11 DEF Loaded, NewLoad
    <3> QED
      BY <1>11, <2>1, <3>1, <3>2, OpenType DEF Loaded
  <2> QED
    BY <2>2, <2>3
<1>12. ASSUME NEW i \in DOMAIN saves, Fire(i) PROVE Typed'
  BY <1>12, SaveMoves DEF Fire
<1>13. ASSUME NEW i \in DOMAIN saves, Update(i) PROVE Typed'
  <2>0. saves[i] \in Save
    OBVIOUS
  <2>1. saves[i].script \in Script /\ saves[i].graph \in Graph
    BY <2>0 DEF Save
  <2>2. saves' \in Seq(Save) /\ Len(saves') <= MaxSaves
    BY <1>13, SaveMoves DEF Update
  <2>3. stored' \in Library
    BY <1>13, <2>1 DEF Update, Library
  <2>4. mishaps' \subseteq Mishap
    BY <1>13 DEF Update, Reordered, Mishap
  <2> QED
    BY <1>13, <2>2, <2>3, <2>4 DEF Update
<1>14. ASSUME NEW i \in DOMAIN saves, SaveAnswered(i) PROVE Typed'
  <2>0. saves[i] \in Save
    OBVIOUS
  <2>1. saves[i].script \in Script /\ saves[i].graph \in Graph
    BY <2>0 DEF Save
  <2>2. saves' \in Seq(Save) /\ Len(saves') <= MaxSaves
    BY <1>14, RemovedAt DEF SaveAnswered
  <2>3. scripts' \in Library /\ selected' \in Script \union {None}
    BY <1>14, <2>1 DEF SaveAnswered, Library
  <2>4. mishaps' \subseteq Mishap
    BY <1>14 DEF SaveAnswered, Reordered, Mishap
  <2> QED
    BY <1>14, <2>2, <2>3, <2>4 DEF SaveAnswered
<1>15. ASSUME NEW i \in DOMAIN saves, SaveFails(i) PROVE Typed'
  <2>1. saves' \in Seq(Save) /\ Len(saves') <= MaxSaves
    BY <1>15, RemovedAt DEF SaveFails
  <2> QED
    BY <1>15, <2>1 DEF SaveFails, Mishap
<1>16. CASE Fault
  <2>1. load' \in [pc: {"over", "asked", "answered"}, scripts: Library]
    BY <1>0, <1>16 DEF Fault, NewLoad
  <2>2. call' \in Call \union {None}
    BY <1>16 DEF Fault, Call
  <2>3. saves' \in Seq(Save) /\ Len(saves') <= MaxSaves
    BY <1>16, SaveMoves DEF Fault
  <2>4. events' \in 0..MaxEvents /\ mishaps' \subseteq Mishap
    BY <1>16 DEF Fault, Mishap
  <2> QED
    BY <1>16, <2>1, <2>2, <2>3, <2>4 DEF Fault
<1> QED
  BY <1>1, <1>2, <1>3, <1>4, <1>5, <1>6, <1>7, <1>8, <1>9, <1>10, <1>11, <1>12, <1>13,
     <1>14, <1>15, <1>16 DEF Next, SaveSteps, SaveStep, CallStep, LoadStep

\* Every variable holds a value of its kind, whatever the bounds.
THEOREM TypeCorrect == Spec => []TypeOK
<1>1. Init => Typed
  BY TypeInit DEF Typed, DrawnIsBound, Init, Empty
<1>2. Typed /\ [Next]_vars => Typed'
  BY TypeStep
<1> QED
  BY <1>1, <1>2, PTL DEF Spec, Typed

-----------------------------------------------------------------------------
(* The library and the canvas *)

\* What the steps of saves leave of them
LEMMA SavesAfter ==
    ASSUME Typed, NEW i \in DOMAIN saves, SaveStep(i)
    PROVE  \A j \in DOMAIN saves' : \E k \in DOMAIN saves :
              saves'[j].script = saves[k].script /\ saves'[j].graph = saves[k].graph
<1> USE DEF Typed, TypeOK
<1>1. CASE Fire(i)
  <2>1. saves' = [saves EXCEPT ![i].pc = "sent"]
    BY <1>1 DEF Fire
  <2> QED
    BY <2>1, SaveMoves
<1>2. CASE Update(i)
  BY <1>2, SaveMoves DEF Update
<1>3. CASE SaveAnswered(i) \/ SaveFails(i)
  <2>1. saves' = RemoveAt(saves, i)
    BY <1>3 DEF SaveAnswered, SaveFails
  <2>2. \A j \in DOMAIN saves' : \E k \in DOMAIN saves : saves'[j] = saves[k]
    BY <2>1, RemovedAt
  <2> QED
    BY <2>2
<1> QED
  BY <1>1, <1>2, <1>3 DEF SaveStep

LEMMA FaultedSaves ==
    ASSUME Typed, Fault
    PROVE  \A j \in DOMAIN saves' : \E k \in DOMAIN saves :
              saves'[j].script = saves[k].script /\ saves'[j].graph = saves[k].graph
<1> USE DEF Typed, TypeOK
<1>1. CASE saves' = saves
  BY <1>1
<1>2. CASE \E i \in DOMAIN saves : saves' = [saves EXCEPT ![i].pc = "failed"]
  BY <1>2, SaveMoves
<1> QED
  BY <1>1, <1>2 DEF Fault

LEMMA OneStep ==
    ASSUME Typed, OneAtATime, Next
    PROVE  OneAtATime'
<1> SUFFICES ASSUME "hurry" \notin mishaps'
             PROVE  /\ load'.pc # "over" => selected' = None /\ saves' = << >> /\ call' = None
                    /\ call' # None => saves' = << >>
                    /\ bound' = selected'
                    /\ \A i \in DOMAIN saves' : saves'[i].script = selected'
  BY DEF OneAtATime
<1> USE DEF Typed, TypeOK, canvasVars, pageVars, serverVars, ghosts
<1>1. ASSUME "hurry" \notin mishaps
      PROVE  /\ load.pc # "over" => selected = None /\ saves = << >> /\ call = None
             /\ call # None => saves = << >>
             /\ bound = selected
             /\ \A i \in DOMAIN saves : saves[i].script = selected
  BY <1>1 DEF OneAtATime
<1>2. ASSUME NEW s \in Script, OpenScript(s) PROVE OneAtATime'
  <2>1. "hurry" \notin mishaps /\ Settled
    BY <1>2 DEF OpenScript, Hurried
  <2> QED
    BY <1>2, <2>1 DEF OpenScript, Open, Settled, OneAtATime
<1>3. ASSUME NEW s \in Script, CreateScript(s) \/ Import(s) \/ DeleteScript(s)
      PROVE  OneAtATime'
  <2>1. PICK kind, g : Ask(kind, s, g)
    BY <1>3 DEF CreateScript, Import, DeleteScript
  <2>2. "hurry" \notin mishaps /\ Settled
    BY <2>1 DEF Ask, Hurried
  <2>3. UNCHANGED <<load, selected, bound, saves>>
    BY <1>3 DEF CreateScript, Import, DeleteScript
  <2> QED
    BY <1>1, <2>2, <2>3 DEF Settled, OneAtATime
<1>4. CASE LeaveAndReturn
  <2>1. "hurry" \notin mishaps /\ Settled
    BY <1>4 DEF LeaveAndReturn, Hurried
  <2>2. saves' \in Seq(Save) /\ Len(saves') = 0
    BY <1>4, <2>1, OrphanedSaves DEF LeaveAndReturn, Settled
  <2>3. saves' = << >>
    BY <2>2
  <2> QED
    BY <1>4, <2>1, <2>3 DEF LeaveAndReturn, Settled, OneAtATime
<1>5. CASE Draw
  <2>1. PICK g, w, s, cause : DrawsAs(g, w, s, cause)
    BY <1>5, Drawn
  <2>2. /\ "hurry" \notin mishaps /\ call = None /\ call' = call /\ load' = load
        /\ selected # None /\ selected' = selected /\ bound' = selected /\ s = selected
    BY <1>1, <2>1 DEF DrawsAs, Change
  <2>3. \A i \in DOMAIN saves' :
           (\E k \in DOMAIN saves : saves'[i] = saves[k]) \/ saves'[i].script = selected
    BY <2>1, <2>2, Scheduled DEF DrawsAs, Change
  <2> QED
    BY <1>1, <2>2, <2>3 DEF OneAtATime
<1>6. CASE CallHandled
  BY <1>1, <1>6 DEF CallHandled, OneAtATime
<1>7. CASE CallAnswered
  <2>1. /\ "hurry" \notin mishaps /\ call # None /\ call' = None
        /\ UNCHANGED <<load, saves>>
    BY <1>7 DEF CallAnswered
  <2>2. bound' = selected'
    <3>1. CASE UNCHANGED <<selected, bound>>
      BY <1>1, <2>1, <3>1
    <3>2. CASE ~UNCHANGED <<selected, bound>>
      BY <1>7, <3>2, Answered DEF Open
    <3> QED
      BY <3>1, <3>2
  <2> QED
    BY <1>1, <2>1, <2>2 DEF OneAtATime
<1>8. CASE CallFails
  BY <1>1, <1>8 DEF CallFails, OneAtATime
<1>9. CASE ListRead
  BY <1>1, <1>9 DEF ListRead, OneAtATime
<1>10. CASE Loaded
  <2>1. /\ "hurry" \notin mishaps /\ load.pc = "answered" /\ load'.pc = "over"
        /\ UNCHANGED <<saves, call>>
    BY <1>10 DEF Loaded, NewLoad
  <2>2. bound' = selected'
    BY <1>1, <1>10, <2>1 DEF Loaded, Open
  <2> QED
    BY <1>1, <2>1, <2>2 DEF OneAtATime
<1>11. ASSUME NEW i \in DOMAIN saves, SaveStep(i) PROVE OneAtATime'
  <2>1. /\ "hurry" \notin mishaps /\ UNCHANGED <<load, call, bound>>
        /\ selected' \in {selected, saves[i].script}
    BY <1>11 DEF SaveStep, Fire, Update, SaveAnswered, SaveFails
  <2>2. selected' = selected /\ load.pc = "over" /\ call = None
    BY <1>1, <2>1
  <2> QED
    BY <1>1, <1>11, <2>1, <2>2, SavesAfter DEF OneAtATime
<1>12. CASE Fault
  <2>1. /\ "hurry" \notin mishaps /\ UNCHANGED <<bound, selected>>
        /\ load'.pc # "over" => load.pc # "over"
        /\ call' # None => call # None
        /\ saves = << >> => saves' = << >>
    BY <1>12 DEF Fault, NewLoad
  <2>2. call = None => call' = None
    BY <1>12 DEF Fault
  <2> QED
    BY <1>1, <1>12, <2>1, <2>2, FaultedSaves DEF OneAtATime
<1> QED
  BY <1>2, <1>3, <1>4, <1>5, <1>6, <1>7, <1>8, <1>9, <1>10, <1>11, <1>12
     DEF Next, SaveSteps, CallStep, LoadStep, OneAtATime

LEMMA EndsStep ==
    ASSUME Typed, CopiesHaveEnds, Next
    PROVE  CopiesHaveEnds'
<1> SUFFICES ASSUME "key" \notin mishaps' PROVE CopiesHaveEnds'
  BY DEF CopiesHaveEnds
<1> USE DEF Typed, TypeOK, canvasVars, pageVars, serverVars, ghosts
<1>0. /\ HasEnds(File) /\ HasEnds(Empty) /\ LibraryHasEnds(NoScripts)
      /\ \A l \in Library, s \in Script, g \in Graph \union {None} :
            LibraryHasEnds(l) /\ (g # None => HasEnds(g))
            => LibraryHasEnds([l EXCEPT ![s] = g])
  BY EmptyGraph DEF LibraryHasEnds, NoScripts, Library
<1>1. "key" \notin mishaps
  BY DEF Next, OpenScript, CreateScript, Import, DeleteScript, Ask, LeaveAndReturn, Draw,
         AddNode, UpdateNodeData, MoveNode, DeleteNode, DeleteKey, Connect, RemoveEdge,
         Change, SaveSteps, SaveStep, Fire, Update, SaveAnswered, SaveFails, CallStep,
         CallHandled, CallAnswered, CallFails, LoadStep, ListRead, Loaded, Fault
<1>2. /\ LibraryHasEnds(stored) /\ LibraryHasEnds(scripts) /\ LibraryHasEnds(load.scripts)
      /\ HasEnds(canvas)
      /\ \A i \in DOMAIN saves : HasEnds(saves[i].graph)
      /\ call # None => LibraryHasEnds(call.scripts) /\ HasEnds(call.graph)
  BY <1>1 DEF CopiesHaveEnds
<1>3. ASSUME NEW s \in Script, OpenScript(s) PROVE CopiesHaveEnds'
  BY <1>2, <1>3 DEF OpenScript, Open, Listed, CopiesHaveEnds, LibraryHasEnds
<1>4. ASSUME NEW s \in Script, CreateScript(s) \/ Import(s) \/ DeleteScript(s)
      PROVE  CopiesHaveEnds'
  <2>1. PICK kind, g : Ask(kind, s, g) /\ HasEnds(g)
    BY <1>0, <1>4 DEF CreateScript, Import, DeleteScript
  <2>2. call'.scripts = scripts /\ call'.graph = g
    BY <2>1 DEF Ask
  <2>3. UNCHANGED <<load, scripts, canvas, saves, stored>>
    BY <1>4 DEF CreateScript, Import, DeleteScript
  <2> QED
    BY <1>2, <2>1, <2>2, <2>3 DEF CopiesHaveEnds
<1>5. CASE LeaveAndReturn
  <2>1. \A j \in DOMAIN saves' : j \in DOMAIN saves /\ saves'[j].graph = saves[j].graph
    BY <1>5, OrphanedSaves DEF LeaveAndReturn
  <2>2. call' # None => /\ call # None /\ call'.scripts = call.scripts
                        /\ call'.graph = call.graph
    BY <1>5 DEF LeaveAndReturn, Call
  <2>3. /\ scripts' = NoScripts /\ canvas' = Empty /\ load'.scripts = NoScripts
        /\ stored' = stored
    BY <1>5 DEF LeaveAndReturn, NewLoad
  <2> QED
    BY <1>0, <1>2, <2>1, <2>2, <2>3 DEF CopiesHaveEnds
<1>6. CASE Draw
  <2>1. PICK g, w, s, cause : DrawsAs(g, w, s, cause)
    BY <1>6, Drawn
  <2>2. canvas' = g /\ HasEnds(g) /\ HasEnds(w)
    BY <1>2, <2>1 DEF DrawsAs, Change
  <2>3. \A i \in DOMAIN saves' :
           (\E k \in DOMAIN saves : saves'[i] = saves[k]) \/ saves'[i].graph = w
    BY <2>1, Scheduled DEF DrawsAs, Change
  <2>4. UNCHANGED <<stored, scripts, load, call>>
    BY <2>1 DEF DrawsAs, Change
  <2> QED
    BY <1>2, <2>2, <2>3, <2>4 DEF CopiesHaveEnds
<1>7. CASE CallHandled
  <2>1. call \in Call /\ call.script \in Script /\ call.graph \in Graph
    BY <1>7 DEF CallHandled, Call
  <2>2. \/ stored' = [stored EXCEPT ![call.script] = call.graph]
        \/ stored' = [stored EXCEPT ![call.script] = None]
    BY <1>7 DEF CallHandled
  <2>3. call'.scripts = call.scripts /\ call'.graph = call.graph
    BY <1>7, <2>1 DEF CallHandled, Call
  <2>4. LibraryHasEnds(stored')
    <3>1. LibraryHasEnds([stored EXCEPT ![call.script] = call.graph])
      BY <1>0, <1>2, <1>7, <2>1 DEF CallHandled
    <3>2. LibraryHasEnds([stored EXCEPT ![call.script] = None])
      BY <1>0, <1>2, <2>1
    <3> QED
      BY <2>2, <3>1, <3>2
  <2>5. call # None /\ UNCHANGED <<scripts, load, canvas, saves>>
    BY <1>7 DEF CallHandled
  <2> QED
    BY <1>2, <2>3, <2>4, <2>5 DEF CopiesHaveEnds
<1>8. CASE CallAnswered
  <2>1. LibraryHasEnds(Left)
    BY <1>0, <1>2, <1>8, Answered DEF Left, CallAnswered
  <2>2. LibraryHasEnds(scripts') /\ HasEnds(canvas')
    BY <1>0, <1>2, <1>8, <2>1, Answered DEF Open, LibraryHasEnds
  <2> QED
    BY <1>2, <1>8, <2>2 DEF CallAnswered, CopiesHaveEnds
<1>9. CASE CallFails
  BY <1>2, <1>9 DEF CallFails, CopiesHaveEnds
<1>10. CASE ListRead
  BY <1>2, <1>10 DEF ListRead, CopiesHaveEnds
<1>11. CASE Loaded
  <2>1. LibraryHasEnds(scripts') /\ HasEnds(canvas')
    BY <1>2, <1>11 DEF Loaded, Open, Listed, LibraryHasEnds
  <2>2. load'.scripts = NoScripts
    BY <1>11 DEF Loaded, NewLoad
  <2> QED
    BY <1>0, <1>2, <1>11, <2>1, <2>2 DEF Loaded, CopiesHaveEnds
<1>12. ASSUME NEW i \in DOMAIN saves, SaveStep(i) PROVE CopiesHaveEnds'
  <2>0. saves[i] \in Save
    OBVIOUS
  <2>1. saves[i].script \in Script /\ saves[i].graph \in Graph /\ HasEnds(saves[i].graph)
    BY <1>2, <2>0 DEF Save
  <2>2. /\ stored' \in {stored, [stored EXCEPT ![saves[i].script] = saves[i].graph]}
        /\ scripts' \in {scripts, [scripts EXCEPT ![saves[i].script] = saves[i].graph]}
        /\ UNCHANGED <<load, canvas, call>>
    BY <1>12 DEF SaveStep, Fire, Update, SaveAnswered, SaveFails
  <2>3. LibraryHasEnds(stored') /\ LibraryHasEnds(scripts')
    BY <1>0, <1>2, <2>1, <2>2
  <2> QED
    BY <1>2, <1>12, <2>2, <2>3, SavesAfter DEF CopiesHaveEnds
<1>13. CASE Fault
  <2>1. call' # None => /\ call # None /\ call'.scripts = call.scripts
                        /\ call'.graph = call.graph
    BY <1>13 DEF Fault, Call
  <2>2. load'.scripts \in {load.scripts, NoScripts}
    BY <1>13 DEF Fault, NewLoad
  <2>3. UNCHANGED <<stored, scripts, canvas>>
    BY <1>13 DEF Fault
  <2> QED
    BY <1>0, <1>2, <1>13, <2>1, <2>2, <2>3, FaultedSaves DEF CopiesHaveEnds
<1> QED
  BY <1>3, <1>4, <1>5, <1>6, <1>7, <1>8, <1>9, <1>10, <1>11, <1>12, <1>13
     DEF Next, SaveSteps, CallStep, LoadStep

\* A node keeps the scripts it is at home in.
LEMMA HomesStay ==
    ASSUME Typed, Next
    PROVE  \A n \in Node : home[n] \subseteq home'[n]
<1> USE DEF pageVars, serverVars, ghosts
<1>1. CASE Draw
  BY <1>1, Drawn DEF DrawsAs
<1>2. CASE CallHandled
  BY <1>2 DEF CallHandled, Typed, TypeOK
<1>3. CASE home' = home
  BY <1>3
<1> QED
  BY <1>1, <1>2, <1>3 DEF Next, OpenScript, CreateScript, Import, DeleteScript, LeaveAndReturn,
     SaveSteps, SaveStep, Fire, Update, SaveAnswered, SaveFails, CallStep, CallAnswered,
     CallFails, LoadStep, ListRead, Loaded, Fault

\* What is at home stays so.
LEMMA AtHomeStays ==
    ASSUME Typed, Next, NEW s \in Script, NEW g \in Graph \union {None}, AtHome(s, g)
    PROVE  g # None => \A n \in g.nodes : s \in home'[n]
BY HomesStay DEF AtHome, Graph

\* AtHome and LibraryAtHome with the homes of the next state
WillBeHome(s, g) == g # None => \A n \in g.nodes : s \in home'[n]
LibraryWillBeHome(l) == \A s \in Script : WillBeHome(s, l[s])

LEMMA HomeStep ==
    ASSUME Typed, OneAtATime, CopiesAtHome, Next
    PROVE  CopiesAtHome'
<1> USE DEF Typed, TypeOK, canvasVars, pageVars, serverVars, ghosts
<1> SUFFICES
      ASSUME "hurry" \notin mishaps'
      PROVE  /\ LibraryWillBeHome(stored') /\ LibraryWillBeHome(scripts')
             /\ LibraryWillBeHome(load'.scripts)
             /\ selected' # None => WillBeHome(selected', canvas')
             /\ \A i \in DOMAIN saves' : WillBeHome(saves'[i].script, saves'[i].graph)
             /\ call' # None =>
                   /\ LibraryWillBeHome(call'.scripts)
                   /\ call'.pc = "done" /\ call'.kind = "create"
                         => WillBeHome(call'.script, call'.graph)
  BY DEF CopiesAtHome, LibraryAtHome, AtHome, LibraryWillBeHome, WillBeHome
<1> DEFINE Goal == /\ LibraryWillBeHome(stored') /\ LibraryWillBeHome(scripts')
                   /\ LibraryWillBeHome(load'.scripts)
                   /\ selected' # None => WillBeHome(selected', canvas')
                   /\ \A i \in DOMAIN saves' : WillBeHome(saves'[i].script, saves'[i].graph)
                   /\ call' # None =>
                         /\ LibraryWillBeHome(call'.scripts)
                         /\ call'.pc = "done" /\ call'.kind = "create"
                               => WillBeHome(call'.script, call'.graph)
<1>1. "hurry" \notin mishaps
  BY DEF Next, OpenScript, CreateScript, Import, DeleteScript, Ask, LeaveAndReturn, Draw,
         AddNode, UpdateNodeData, MoveNode, DeleteNode, DeleteKey, Connect, RemoveEdge,
         Change, SaveSteps, SaveStep, Fire, Update, SaveAnswered, SaveFails, CallStep,
         CallHandled, CallAnswered, CallFails, LoadStep, ListRead, Loaded, Fault
<1>2. \A s \in Script, g \in Graph \union {None} : AtHome(s, g) => WillBeHome(s, g)
  BY AtHomeStays DEF WillBeHome
<1>3. \A l \in Library : LibraryAtHome(l) => LibraryWillBeHome(l)
  BY <1>2 DEF LibraryAtHome, LibraryWillBeHome, Library
<1>4. \A i \in DOMAIN saves : saves[i] \in Save
  OBVIOUS
<1>5. call # None => call \in Call /\ call.scripts \in Library /\ call.script \in Script
                     /\ call.graph \in Graph
  BY DEF Call
<1>6. /\ LibraryWillBeHome(stored) /\ LibraryWillBeHome(scripts)
      /\ LibraryWillBeHome(load.scripts)
      /\ selected # None => WillBeHome(selected, canvas)
      /\ call # None =>
            /\ LibraryWillBeHome(call.scripts)
            /\ call.pc = "done" /\ call.kind = "create" => WillBeHome(call.script, call.graph)
  BY <1>1, <1>2, <1>3, <1>5 DEF CopiesAtHome
<1>7. \A i \in DOMAIN saves : WillBeHome(saves[i].script, saves[i].graph)
  BY <1>1, <1>2, <1>4 DEF CopiesAtHome, Save
<1>8. /\ LibraryWillBeHome(NoScripts) /\ \A s \in Script : WillBeHome(s, Empty)
      /\ \A s \in Script : WillBeHome(s, None)
      /\ \A l \in Library, s \in Script, g \in Graph \union {None} :
            LibraryWillBeHome(l) /\ WillBeHome(s, g) => LibraryWillBeHome([l EXCEPT ![s] = g])
  BY DEF LibraryWillBeHome, WillBeHome, NoScripts, Empty, Library
<1>9. \A l \in Library, s \in Script :
         LibraryWillBeHome(l) /\ Open(l, s)
         => LibraryWillBeHome(scripts') /\ WillBeHome(selected', canvas')
  BY DEF LibraryWillBeHome, Open
<1> HIDE DEF LibraryWillBeHome, WillBeHome
<1>10. ASSUME NEW s \in Script, OpenScript(s) PROVE Goal
  BY <1>6, <1>7, <1>9, <1>10 DEF OpenScript
<1>11. ASSUME NEW s \in Script, CreateScript(s) \/ Import(s) \/ DeleteScript(s) PROVE Goal
  <2>1. PICK kind, g : Ask(kind, s, g)
    BY <1>11 DEF CreateScript, Import, DeleteScript
  <2>2. call'.scripts = scripts /\ call'.pc = "sent"
    BY <2>1 DEF Ask
  <2>3. UNCHANGED <<load, scripts, selected, canvas, saves, stored>>
    BY <1>11 DEF CreateScript, Import, DeleteScript
  <2> QED
    BY <1>6, <1>7, <2>2, <2>3
<1>12. CASE LeaveAndReturn
  <2>1. \A j \in DOMAIN saves' : /\ j \in DOMAIN saves
                                 /\ saves'[j].script = saves[j].script
                                 /\ saves'[j].graph = saves[j].graph
    BY <1>12, OrphanedSaves DEF LeaveAndReturn
  <2>2. call' # None => /\ call # None /\ call'.scripts = call.scripts
                        /\ call'.script = call.script /\ call'.graph = call.graph
                        /\ call'.pc = call.pc /\ call'.kind = call.kind
    BY <1>12 DEF LeaveAndReturn, Call
  <2>3. /\ scripts' = NoScripts /\ selected' = None /\ load'.scripts = NoScripts
        /\ stored' = stored
    BY <1>12 DEF LeaveAndReturn, NewLoad
  <2> QED
    BY <1>6, <1>7, <1>8, <2>1, <2>2, <2>3
<1>13. CASE Draw
  <2>1. PICK g, w, s, cause : DrawsAs(g, w, s, cause)
    BY <1>13, Drawn
  <2>2. /\ selected # None /\ selected' = selected /\ canvas' = g /\ s = selected
        /\ UNCHANGED <<stored, scripts, load, call>>
    BY <1>1, <2>1 DEF DrawsAs, Change, OneAtATime
  <2>3. WillBeHome(selected, g) /\ WillBeHome(selected, w)
    BY <1>6, <2>1, <2>2 DEF DrawsAs, WillBeHome, Graph
  <2>4. \A i \in DOMAIN saves' :
           \/ \E k \in DOMAIN saves : saves'[i] = saves[k]
           \/ saves'[i].script = selected /\ saves'[i].graph = w
    BY <2>1, <2>2, Scheduled DEF DrawsAs, Change
  <2> QED
    BY <1>6, <1>7, <2>2, <2>3, <2>4
<1>14. CASE CallHandled
  <2>1. call # None /\ call \in Call /\ UNCHANGED <<scripts, load, selected, canvas, saves>>
    BY <1>5, <1>14 DEF CallHandled
  <2>2. /\ call'.scripts = call.scripts /\ call'.graph = call.graph
        /\ call'.script = call.script /\ call'.kind = call.kind
    BY <1>14, <2>1 DEF CallHandled, Call
  <2>3. call.kind = "create" => WillBeHome(call.script, call.graph)
    BY <1>5, <1>14, <2>1 DEF CallHandled, WillBeHome, Graph
  <2>4. LibraryWillBeHome(stored')
    <3>1. CASE call.kind = "create"
      BY <1>5, <1>6, <1>8, <1>14, <2>1, <2>3, <3>1 DEF CallHandled
    <3>2. CASE call.kind # "create"
      BY <1>5, <1>6, <1>8, <1>14, <2>1, <3>2 DEF CallHandled
    <3> QED
      BY <3>1, <3>2
  <2> QED
    BY <1>6, <1>7, <2>1, <2>2, <2>3, <2>4
<1>15. CASE CallAnswered
  <2>1. LibraryWillBeHome(Left)
    <3>1. CASE call.kind = "create"
      BY <1>5, <1>6, <1>8, <1>15, <3>1 DEF CallAnswered, Left
    <3>2. CASE call.kind # "create"
      BY <1>5, <1>6, <1>8, <1>15, <3>2 DEF CallAnswered, Left
    <3> QED
      BY <3>1, <3>2
  <2>2. /\ LibraryWillBeHome(scripts')
        /\ selected' # None => WillBeHome(selected', canvas')
    BY <1>6, <1>9, <1>15, <2>1, Answered
  <2> QED
    BY <1>6, <1>7, <1>15, <2>2 DEF CallAnswered
<1>16. CASE CallFails
  BY <1>6, <1>7, <1>16 DEF CallFails
<1>17. CASE ListRead
  BY <1>6, <1>7, <1>17 DEF ListRead
<1>18. CASE Loaded
  <2>1. /\ LibraryWillBeHome(scripts')
        /\ selected' # None => WillBeHome(selected', canvas')
    BY <1>6, <1>9, <1>18 DEF Loaded, Listed
  <2>2. load'.scripts = NoScripts
    BY <1>18 DEF Loaded, NewLoad
  <2> QED
    BY <1>6, <1>7, <1>8, <1>18, <2>1, <2>2 DEF Loaded
<1>19. ASSUME NEW i \in DOMAIN saves, SaveStep(i) PROVE Goal
  <2>1. saves[i].script \in Script /\ saves[i].graph \in Graph
    BY <1>4 DEF Save
  <2>2. /\ stored' \in {stored, [stored EXCEPT ![saves[i].script] = saves[i].graph]}
        /\ scripts' \in {scripts, [scripts EXCEPT ![saves[i].script] = saves[i].graph]}
        /\ selected' \in {selected, saves[i].script}
        /\ UNCHANGED <<load, canvas, call>>
    BY <1>19 DEF SaveStep, Fire, Update, SaveAnswered, SaveFails
  <2>3. LibraryWillBeHome(stored') /\ LibraryWillBeHome(scripts')
    BY <1>6, <1>7, <1>8, <2>1, <2>2
  <2>4. selected' = selected
    BY <1>1, <2>2 DEF OneAtATime
  <2> QED
    BY <1>6, <1>7, <1>19, <2>2, <2>3, <2>4, SavesAfter
<1>20. CASE Fault
  <2>1. call' # None => /\ call # None /\ call'.scripts = call.scripts
                        /\ call'.script = call.script /\ call'.graph = call.graph
                        /\ call'.kind = call.kind
                        /\ call'.pc = "done" => call.pc = "done"
    BY <1>20 DEF Fault, Call
  <2>2. load'.scripts \in {load.scripts, NoScripts}
    BY <1>20 DEF Fault, NewLoad
  <2>3. UNCHANGED <<stored, scripts, selected, canvas>>
    BY <1>20 DEF Fault
  <2> QED
    BY <1>6, <1>7, <1>8, <1>20, <2>1, <2>2, <2>3, FaultedSaves
<1> QED
  BY <1>10, <1>11, <1>12, <1>13, <1>14, <1>15, <1>16, <1>17, <1>18, <1>19, <1>20
     DEF Next, SaveSteps, CallStep, LoadStep

-----------------------------------------------------------------------------
(* What the server stores *)

\* Mishaps stay, but for a moving node, which the next change settles.
LEMMA MishapsStay ==
    ASSUME Next
    PROVE  mishaps \ {"move"} \subseteq mishaps' /\ (Draw \/ mishaps \subseteq mishaps')
BY DEF Next, OpenScript, CreateScript, Import, DeleteScript, Ask, LeaveAndReturn, Draw,
       AddNode, UpdateNodeData, MoveNode, DeleteNode, DeleteKey, Connect, RemoveEdge,
       Change, SaveSteps, SaveStep, Fire, Update, SaveAnswered, SaveFails, CallStep,
       CallHandled, CallAnswered, CallFails, LoadStep, ListRead, Loaded, Fault,
       pageVars, serverVars, ghosts

\* A schedule in order replaces the timer of before and keeps the other saves.
LEMMA ScheduledLast ==
    ASSUME saves \in Seq(Save), InOrder(saves), NEW s \in Script, NEW g \in Graph,
           ScheduleSave(s, g)
    PROVE  /\ saves' \in Seq(Save) /\ saves' # << >>
           /\ saves'[Len(saves')] = [script |-> s, graph |-> g, here |-> TRUE, pc |-> "timer"]
           /\ \A j \in 1..(Len(saves') - 1) :
                 j \in DOMAIN saves /\ saves'[j] = saves[j] /\ saves[j].pc # "timer"
           /\ \A i \in DOMAIN saves : i < Len(saves') \/ saves[i].pc = "timer"
<1> DEFINE w == [script |-> s, graph |-> g, here |-> TRUE, pc |-> "timer"]
           c == ClearTimer
<1>1. w \in Save
  BY DEF Save
<1>2. saves' = Append(c, w)
  BY DEF ScheduleSave
<1>3. /\ c \in Seq(Save)
      /\ \A j \in 1..Len(c) : j \in DOMAIN saves /\ c[j] = saves[j] /\ saves[j].pc # "timer"
      /\ \A i \in DOMAIN saves : i <= Len(c) \/ saves[i].pc = "timer"
  <2>1. CASE SaveTimer = {}
    <3>1. c = saves /\ \A j \in DOMAIN saves : saves[j].pc # "timer"
      BY <2>1 DEF ClearTimer, SaveTimer, InOrder
    <3> QED
      BY <3>1
  <2>2. CASE SaveTimer # {}
    <3>1. PICK k \in DOMAIN saves : saves[k].pc = "timer" /\ c = RemoveAt(saves, k)
      BY <2>2 DEF ClearTimer, SaveTimer
    <3>2. k = Len(saves) /\ Len(saves) \in Nat
      BY <3>1 DEF InOrder
    <3>3. /\ c \in Seq(Save) /\ Len(c) = Len(saves) - 1
          /\ \A j \in 1..(Len(saves) - 1) : c[j] = IF j < k THEN saves[j] ELSE saves[j + 1]
      BY <3>1, RemovedAt
    <3>4. \A j \in DOMAIN saves : j < Len(saves) => saves[j].pc # "timer"
      BY DEF InOrder
    <3> HIDE DEF c
    <3> QED
      BY <3>1, <3>2, <3>3, <3>4
  <2> QED
    BY <2>1, <2>2
<1> HIDE DEF w, c
<1>4. /\ saves' \in Seq(Save) /\ Len(saves') = Len(c) + 1 /\ Len(c) \in Nat
      /\ \A j \in 1..(Len(c) + 1) : saves'[j] = IF j <= Len(c) THEN c[j] ELSE w
  BY <1>1, <1>2, <1>3
<1>5. saves'[Len(saves')] = w
  BY <1>4
<1> QED
  BY <1>3, <1>4, <1>5 DEF w

\* An answer in order is that of the oldest save.
LEMMA AnsweredInOrder ==
    ASSUME saves \in Seq(Save), InOrder(saves), NEW i \in DOMAIN saves, saves[i].pc = "stored",
           i = 1, saves' = RemoveAt(saves, i)
    PROVE  /\ saves' \in Seq(Save) /\ Len(saves') = Len(saves) - 1 /\ Len(saves) \in Nat
           /\ \A j \in DOMAIN saves' : j + 1 \in DOMAIN saves /\ saves'[j] = saves[j + 1]
           /\ InOrder(saves')
<1>1. /\ saves' \in Seq(Save) /\ Len(saves') = Len(saves) - 1 /\ Len(saves) \in Nat
      /\ \A j \in 1..(Len(saves) - 1) : saves'[j] = IF j < i THEN saves[j] ELSE saves[j + 1]
  BY RemovedAt
<1>2. \A j \in DOMAIN saves' : j + 1 \in DOMAIN saves /\ saves'[j] = saves[j + 1]
  BY <1>1
<1>3. ASSUME NEW j \in DOMAIN saves'
      PROVE  /\ saves'[j].here /\ saves'[j].pc # "failed"
             /\ saves'[j].pc = "timer" => j = Len(saves')
             /\ saves'[j].pc = "stored" => \A k \in 1..(j - 1) : saves'[k].pc = "stored"
  <2>1. /\ saves[j + 1].here /\ saves[j + 1].pc # "failed"
        /\ saves[j + 1].pc = "timer" => j + 1 = Len(saves)
        /\ saves[j + 1].pc = "stored" => \A k \in 1..j : saves[k].pc = "stored"
    BY <1>1, <1>2 DEF InOrder
  <2>2. \A k \in 1..(j - 1) : k + 1 \in 1..j /\ saves'[k] = saves[k + 1]
    BY <1>1, <1>2
  <2> QED
    BY <1>1, <1>2, <2>1, <2>2
<1> QED
  BY <1>1, <1>2, <1>3 DEF InOrder

LEMMA AgreeStep ==
    ASSUME Typed, OneAtATime, CopiesAgree, Next
    PROVE  CopiesAgree'
<1> USE DEF Typed, TypeOK, canvasVars, pageVars, serverVars, ghosts
<1> SUFFICES ASSUME Lossless' PROVE CopiesAgree'
  BY DEF CopiesAgree, SavesInOrder, LibraryAgrees, LoadAgrees, CallAgrees
<1>1. Lossless /\ (mishaps' = {} => mishaps = {} \/ Draw)
  BY MishapsStay DEF Lossless
<1>2. /\ load.pc # "over" => selected = None /\ saves = << >> /\ call = None
      /\ call # None => saves = << >>
      /\ bound = selected
      /\ \A i \in DOMAIN saves : saves[i].script = selected
  BY <1>1 DEF OneAtATime, Lossless
<1>3. InOrder(saves)
  BY <1>1 DEF CopiesAgree, SavesInOrder
<1>4. load.pc = "over" /\ call = None =>
        /\ \A s \in Script : s # selected => scripts[s] = stored[s]
        /\ selected # None =>
              /\ scripts[selected] # None /\ stored[selected] # None
              /\ scripts[selected] = stored[selected] \/ \E i \in DOMAIN saves : saves[i].pc = "stored"
              /\ \A i \in DOMAIN saves : LastStored(saves, i) => stored[selected] = saves[i].graph
              /\ mishaps = {} => canvas = IF saves = << >> THEN stored[selected]
                                          ELSE saves[Len(saves)].graph
  BY <1>1 DEF CopiesAgree, LibraryAgrees
<1>5. load.pc = "answered" => load.scripts = stored
  BY <1>1 DEF CopiesAgree, LoadAgrees
<1>6. call # None =>
        /\ call.here /\ call.scripts = scripts /\ call.selected = selected /\ call.pc # "failed"
        /\ call.pc = "sent" => /\ scripts = stored
                               /\ call.kind = "delete" => stored[call.script] # None
        /\ call.pc = "done" => stored = Left
        /\ selected # None /\ (call.pc = "done" => selected # call.script) =>
              stored[selected] # None /\ (mishaps = {} => canvas = stored[selected])
  BY <1>1 DEF CopiesAgree, CallAgrees
<1>7. InOrder(<< >>) /\ \A l \in Library : DOMAIN l = Script
  BY DEF InOrder, Library
<1>8. ASSUME Settled
      PROVE  /\ saves = << >> /\ call = None /\ load.pc = "over" /\ scripts = stored
             /\ selected # None => /\ stored[selected] # None
                                   /\ mishaps = {} => canvas = stored[selected]
  <2>1. saves = << >> /\ call = None /\ load.pc = "over"
    BY <1>8 DEF Settled
  <2>2. \A s \in Script : scripts[s] = stored[s]
    BY <1>4, <2>1
  <2>3. scripts = stored
    BY <2>2 DEF Library
  <2> QED
    BY <1>4, <2>1, <2>3
<1>9. Hurried \subseteq mishaps' => Settled
  BY DEF Hurried, Lossless
\* With no save and no call the canvas shows a script as the server has it.
<1>10. ASSUME saves' = << >>, call' = None, load'.pc = "over", scripts' = stored',
              stored' \in Library, selected' # None => selected' \in Script,
              selected' # None => /\ stored'[selected'] # None
                                  /\ mishaps' = {} => canvas' = stored'[selected']
       PROVE  CopiesAgree'
  BY <1>10, <1>7 DEF CopiesAgree, SavesInOrder, LibraryAgrees, LoadAgrees, CallAgrees
<1>11. ASSUME NEW s \in Script, OpenScript(s) PROVE CopiesAgree'
  <2>1. Settled
    BY <1>9, <1>11 DEF OpenScript
  <2>2. scripts[s] # None /\ scripts' = scripts /\ selected' = s /\ canvas' = scripts[s]
    BY <1>11 DEF OpenScript, Open, Listed
  <2>3. UNCHANGED <<load, saves, call, stored>>
    BY <1>11 DEF OpenScript
  <2> QED
    BY <1>8, <1>10, <2>1, <2>2, <2>3
<1>12. ASSUME NEW s \in Script, CreateScript(s) \/ Import(s) \/ DeleteScript(s)
       PROVE  CopiesAgree'
  <2>1. PICK kind, g : Ask(kind, s, g) /\ (kind = "delete" => scripts[s] # None)
    BY <1>12 DEF CreateScript, Import, DeleteScript, Listed
  <2>2. Settled
    BY <1>9, <2>1 DEF Ask
  <2>3. UNCHANGED <<load, scripts, selected, canvas, saves, stored>>
    BY <1>12 DEF CreateScript, Import, DeleteScript
  <2>4. call' = [kind |-> kind, script |-> s, graph |-> g, scripts |-> scripts,
                 selected |-> selected, here |-> TRUE, pc |-> "sent"]
    BY <2>1 DEF Ask
  <2>5. call' # None
    BY <1>12, AskType, EmptyGraph DEF CreateScript, Import, DeleteScript, Ask, Call
  <2>6. /\ call'.here /\ call'.scripts = scripts /\ call'.selected = selected
        /\ call'.pc = "sent" /\ call'.kind = kind /\ call'.script = s
    BY <2>4
  <2>7. mishaps' = {} => mishaps = {}
    BY <2>1 DEF Ask
  <2>8. CallAgrees'
    BY <1>8, <2>1, <2>2, <2>3, <2>6, <2>7 DEF CallAgrees
  <2> QED
    BY <1>7, <1>8, <2>2, <2>3, <2>5, <2>8 DEF CopiesAgree, SavesInOrder, LibraryAgrees, LoadAgrees
<1>13. CASE LeaveAndReturn
  <2>1. Settled
    BY <1>9, <1>13 DEF LeaveAndReturn
  <2>2. saves' \in Seq(Save) /\ Len(saves') = 0
    BY <1>13, <2>1, OrphanedSaves DEF LeaveAndReturn, Settled
  <2>3. saves' = << >> /\ call' = None /\ load'.pc = "asked"
    BY <1>13, <2>1, <2>2 DEF LeaveAndReturn, Settled, NewLoad
  <2> QED
    BY <1>7, <2>3 DEF CopiesAgree, SavesInOrder, LibraryAgrees, LoadAgrees, CallAgrees
<1>14. CASE Draw
  <2>1. PICK g, w, s, cause : DrawsAs(g, w, s, cause)
    BY <1>14, Drawn
  <2>2. /\ selected # None /\ s = selected /\ selected \in Script /\ w \in Graph
        /\ canvas' = g /\ ScheduleSave(selected, w)
        /\ mishaps' = (mishaps \ {"move"}) \union cause
                         \union (IF call = None THEN {} ELSE {"hurry"})
        /\ UNCHANGED <<scripts, selected, load, call, stored>>
    BY <1>2, <2>1 DEF DrawsAs, Change
  <2>3. call = None /\ load.pc = "over"
    BY <1>2, <2>2 DEF Lossless
  <2>4. mishaps' = {} => w = g
    BY <2>1, <2>2 DEF DrawsAs
  <2> DEFINE last == [script |-> selected, graph |-> w, here |-> TRUE, pc |-> "timer"]
             n == Len(saves')
  <2>5. /\ saves' \in Seq(Save) /\ saves' # << >> /\ saves'[n] = last
        /\ \A j \in 1..(n - 1) :
              j \in DOMAIN saves /\ saves'[j] = saves[j] /\ saves[j].pc # "timer"
        /\ \A i \in DOMAIN saves : i < n \/ saves[i].pc = "timer"
    BY <1>3, <2>2, ScheduledLast
  <2> HIDE DEF last
  <2>6. last.here /\ last.pc = "timer" /\ last.graph = w
    BY DEF last
  <2>7. n \in Nat /\ n > 0 /\ DOMAIN saves' = 1..n /\ \A j \in 1..n : j = n \/ j \in 1..(n - 1)
    BY <2>5
  <2> HIDE DEF n
  <2>8. InOrder(saves')
    <3> SUFFICES ASSUME NEW i \in 1..n
                 PROVE  /\ saves'[i].here /\ saves'[i].pc # "failed"
                        /\ saves'[i].pc = "timer" => i = n
                        /\ saves'[i].pc = "stored" => \A j \in 1..(i - 1) : saves'[j].pc = "stored"
      BY <2>7 DEF InOrder, n
    <3>1. CASE i = n
      BY <2>5, <2>6, <3>1
    <3>2. CASE i \in 1..(n - 1)
      <4>1. /\ i \in DOMAIN saves /\ saves'[i] = saves[i] /\ saves[i].pc # "timer"
            /\ \A j \in 1..(i - 1) : saves'[j] = saves[j]
        BY <2>5, <2>7, <3>2
      <4> QED
        BY <1>3, <4>1 DEF InOrder
    <3> QED
      BY <2>7, <3>1, <3>2
  <2>9. (\E i \in DOMAIN saves : saves[i].pc = "stored")
        => \E i \in DOMAIN saves' : saves'[i].pc = "stored"
    <3> SUFFICES ASSUME NEW i \in DOMAIN saves, saves[i].pc = "stored"
                 PROVE  i \in 1..n /\ saves'[i].pc = "stored"
      BY <2>7
    <3>1. i < n /\ i \in Nat /\ i >= 1
      BY <2>5
    <3> QED
      BY <2>5, <2>7, <3>1
  <2>10. ASSUME NEW i \in DOMAIN saves', LastStored(saves', i)
         PROVE  i \in DOMAIN saves /\ LastStored(saves, i) /\ saves'[i].graph = saves[i].graph
    <3>1. i \in 1..(n - 1)
      BY <2>5, <2>6, <2>7, <2>10 DEF LastStored
    <3>2. i \in DOMAIN saves /\ saves'[i] = saves[i] /\ saves[i].pc = "stored"
      BY <2>5, <2>10, <3>1 DEF LastStored
    <3>3. ASSUME NEW j \in (i + 1)..Len(saves) PROVE saves[j].pc # "stored"
      <4>1. j \in DOMAIN saves
        BY <3>2
      <4>2. CASE j < n
        <5>1. j \in 1..(n - 1) /\ j \in (i + 1)..n
          BY <2>7, <3>1, <4>2
        <5> QED
          BY <2>5, <2>10, <5>1 DEF LastStored, n
      <4> QED
        BY <2>5, <4>1, <4>2
    <3> QED
      BY <3>2, <3>3 DEF LastStored
  <2>11. LibraryAgrees'
    <3>1. mishaps' = {} => canvas' = saves'[n].graph
      BY <2>2, <2>4, <2>5, <2>6
    <3> QED
      BY <1>4, <2>2, <2>3, <2>5, <2>9, <2>10, <3>1 DEF LibraryAgrees, n
  <2> QED
    BY <2>2, <2>3, <2>8, <2>11 DEF CopiesAgree, SavesInOrder, LoadAgrees, CallAgrees
<1>15. CASE CallHandled
  <2>1. /\ call # None /\ call \in Call /\ call.pc = "sent"
        /\ UNCHANGED <<scripts, load, selected, canvas, saves, mishaps>>
    BY <1>15 DEF CallHandled
  <2>2. call.script \in Script /\ call.graph \in Graph /\ call.scripts = stored
    BY <1>6, <2>1 DEF Call
  <2>3. stored' = Left
    BY <1>6, <1>15, <2>1, <2>2 DEF CallHandled, Left, Call
  <2>4. call' = [call EXCEPT !.pc = "done"]
    BY <1>6, <1>15, <2>1 DEF CallHandled, Call
  <2>5. call' # None
    BY <2>1, <2>4 DEF Call
  <2>6. Left' = Left
    BY <2>1, <2>4 DEF Left, Call
  <2>7. \A s \in Script : s # call.script => stored'[s] = stored[s]
    BY <2>2, <2>3 DEF Left, Library
  <2>8. CallAgrees'
    BY <1>1, <1>6, <2>1, <2>2, <2>3, <2>4, <2>6, <2>7 DEF CallAgrees, Call
  <2>9. saves' = << >> /\ load'.pc = "over"
    BY <1>2, <2>1
  <2> QED
    BY <1>7, <2>5, <2>8, <2>9 DEF CopiesAgree, SavesInOrder, LibraryAgrees, LoadAgrees
<1>16. CASE CallAnswered
  <2>1. /\ call # None /\ call \in Call /\ call.pc = "done" /\ call.here
        /\ call' = None /\ UNCHANGED <<load, saves, stored, mishaps>>
    BY <1>6, <1>16 DEF CallAnswered
  <2>2. /\ saves' = << >> /\ load'.pc = "over" /\ call.scripts = scripts
        /\ stored = Left /\ call.selected = selected /\ stored' = Left
    BY <1>2, <1>6, <2>1
  <2>3. call.script \in Script /\ call.graph \in Graph
    BY <2>1 DEF Call
  <2>4. /\ scripts' = Left
        /\ \/ selected' # None /\ selected' \in Script /\ Left[selected'] # None
              /\ canvas' = Left[selected']
           \/ selected # call.script /\ selected' = selected /\ canvas' = canvas
           \/ selected' = None
    <3>1. CASE call.kind = "create"
      <4>1. Open(Left, call.script)
        BY <1>16, <2>1, <3>1 DEF CallAnswered, Left
      <4>2. Left[call.script] = call.graph
        BY <2>2, <2>3, <3>1 DEF Left, Library
      <4> QED
        BY <2>3, <4>1, <4>2 DEF Open
    <3>2. CASE call.kind # "create"
      BY <1>16, <2>1, <2>2, <3>2 DEF CallAnswered, Left, Open, Listed
    <3> QED
      BY <3>1, <3>2
  <2> QED
    BY <1>6, <1>10, <2>1, <2>2, <2>4
<1>17. CASE CallFails
  BY <1>6, <1>17 DEF CallFails
<1>18. CASE ListRead
  <2>1. saves = << >> /\ call = None /\ load' = [pc |-> "answered", scripts |-> stored]
    BY <1>2, <1>18 DEF ListRead
  <2> QED
    BY <1>7, <1>18, <2>1 DEF ListRead, CopiesAgree, SavesInOrder, LibraryAgrees, LoadAgrees,
       CallAgrees
<1>19. CASE Loaded
  <2>1. /\ saves' = << >> /\ call' = None /\ load'.pc = "over" /\ load.scripts = stored
        /\ selected = None /\ UNCHANGED <<stored, mishaps>>
    BY <1>2, <1>5, <1>19 DEF Loaded, NewLoad
  <2>2. \/ scripts' = stored /\ selected' = None
        \/ \E s \in Script : stored[s] # None /\ Open(stored, s)
    BY <1>19, <2>1 DEF Loaded, Listed
  <2> QED
    BY <1>10, <2>1, <2>2 DEF Open
<1>20. ASSUME NEW i \in DOMAIN saves, SaveStep(i) PROVE CopiesAgree'
  <2>1. /\ selected # None /\ saves[i].script = selected /\ saves[i] \in Save
        /\ load.pc = "over" /\ call = None /\ UNCHANGED <<load, call, canvas>>
        /\ i \in 1..Len(saves) /\ Len(saves) \in Nat
    <3>1. saves[i] \in Save /\ i \in 1..Len(saves) /\ Len(saves) \in Nat /\ saves # << >>
      OBVIOUS
    <3>2. saves[i].script = selected /\ saves[i].script \in Script
      BY <1>2, <3>1 DEF Save
    <3>3. UNCHANGED <<load, call, canvas>>
      BY <1>20 DEF SaveStep, Fire, Update, SaveAnswered, SaveFails
    <3>4. load.pc = "over" /\ call = None
      BY <1>2, <3>1
    <3> QED
      BY <3>1, <3>2, <3>3, <3>4
  <2>2. selected \in Script /\ saves[i].graph \in Graph
    BY <2>1 DEF Save
  <2>3. CASE Fire(i)
    <3>1. /\ saves' = [saves EXCEPT ![i].pc = "sent"] /\ saves[i].pc = "timer"
          /\ UNCHANGED <<scripts, selected, stored, mishaps>>
      BY <2>3 DEF Fire
    <3>2. /\ Len(saves') = Len(saves) /\ saves' \in Seq(Save)
          /\ \A k \in DOMAIN saves :
                /\ saves'[k].pc = IF k = i THEN "sent" ELSE saves[k].pc
                /\ saves'[k].here = saves[k].here
                /\ saves'[k].graph = saves[k].graph
      BY <3>1, MovedSave, SaveMoves
    <3>3. InOrder(saves')
      BY <1>3, <2>1, <3>1, <3>2 DEF InOrder
    <3>4. \A k \in DOMAIN saves : (saves'[k].pc = "stored") <=> (saves[k].pc = "stored")
      BY <3>1, <3>2
    <3>5. \A k \in DOMAIN saves : LastStored(saves', k) <=> LastStored(saves, k)
      <4> SUFFICES ASSUME NEW k \in DOMAIN saves
                   PROVE  LastStored(saves', k) <=> LastStored(saves, k)
        OBVIOUS
      <4>1. \A j \in (k + 1)..Len(saves) : j \in DOMAIN saves
        BY <2>1
      <4> QED
        BY <3>2, <3>4, <4>1 DEF LastStored
    <3>6. LibraryAgrees'
      <4>1. DOMAIN saves' = DOMAIN saves /\ saves' # << >> /\ saves # << >>
        BY <2>1, <3>2
      <4>2. saves'[Len(saves')].graph = saves[Len(saves)].graph
        BY <2>1, <3>2
      <4> QED
        BY <1>4, <2>1, <3>1, <3>2, <3>4, <3>5, <4>1, <4>2 DEF LibraryAgrees
    <3> QED
      BY <2>1, <3>3, <3>6 DEF CopiesAgree, SavesInOrder, LoadAgrees, CallAgrees
  <2>4. CASE Update(i)
    <3>1. /\ saves[i].pc = "sent" /\ stored[selected] # None
          /\ saves' = [saves EXCEPT ![i].pc = "stored"]
          /\ stored' = [stored EXCEPT ![selected] = saves[i].graph]
          /\ ~Earlier(i, {"sent"})
          /\ UNCHANGED <<scripts, selected>>
      BY <1>4, <2>1, <2>4 DEF Update, Reordered, Lossless
    <3>2. mishaps' = {} => mishaps = {}
      BY <2>4 DEF Update
    <3>3. /\ Len(saves') = Len(saves) /\ saves' \in Seq(Save)
          /\ \A k \in DOMAIN saves :
                /\ saves'[k].pc = IF k = i THEN "stored" ELSE saves[k].pc
                /\ saves'[k].here = saves[k].here
                /\ saves'[k].graph = saves[k].graph
      BY <3>1, MovedSave, SaveMoves
    <3>4. \A j \in 1..(i - 1) : j \in DOMAIN saves /\ saves[j].pc = "stored"
      <4> SUFFICES ASSUME NEW j \in 1..(i - 1) PROVE j \in DOMAIN saves /\ saves[j].pc = "stored"
        OBVIOUS
      <4>1. j \in DOMAIN saves /\ j # Len(saves) /\ saves[j] \in Save
        BY <2>1
      <4>2. saves[j].pc # "sent"
        BY <1>2, <2>1, <3>1, <4>1 DEF Earlier
      <4>3. saves[j].pc \in {"timer", "sent", "stored", "failed"}
        BY <4>1 DEF Save
      <4> QED
        BY <1>3, <4>1, <4>2, <4>3 DEF InOrder
    <3>5. \A j \in DOMAIN saves : j > i => saves[j].pc # "stored"
      BY <1>3, <2>1, <3>1 DEF InOrder
    <3>6. InOrder(saves')
      BY <1>3, <2>1, <3>1, <3>3, <3>4, <3>5 DEF InOrder
    <3>7. \A k \in DOMAIN saves : LastStored(saves', k) => k = i
      <4> SUFFICES ASSUME NEW k \in DOMAIN saves, LastStored(saves', k), k # i PROVE FALSE
        OBVIOUS
      <4>1. saves'[k].pc = "stored" /\ saves'[i].pc = "stored" /\ saves[k].pc = "stored"
        BY <2>1, <3>3 DEF LastStored
      <4>2. k \in 1..Len(saves) /\ ~(k > i)
        BY <2>1, <3>5, <4>1
      <4>3. i \in (k + 1)..Len(saves')
        BY <2>1, <3>3, <4>2
      <4> QED
        BY <4>1, <4>3 DEF LastStored
    <3>8. LibraryAgrees'
      <4>1. DOMAIN saves' = DOMAIN saves /\ saves' # << >> /\ saves # << >>
        BY <2>1, <3>3
      <4>2. saves'[Len(saves')].graph = saves[Len(saves)].graph
        BY <2>1, <3>3
      <4>3. /\ stored'[selected] = saves[i].graph /\ saves[i].graph # None
            /\ \A s \in Script : s # selected => stored'[s] = stored[s]
        BY <2>2, <3>1 DEF Library
      <4>4. saves'[i].pc = "stored" /\ saves'[i].graph = saves[i].graph
        BY <3>3
      <4> QED
        BY <1>4, <2>1, <3>1, <3>2, <3>7, <4>1, <4>2, <4>3, <4>4 DEF LibraryAgrees
    <3> QED
      BY <2>1, <3>6, <3>8 DEF CopiesAgree, SavesInOrder, LoadAgrees, CallAgrees
  <2>5. CASE SaveAnswered(i)
    <3>1. /\ saves[i].pc = "stored" /\ saves' = RemoveAt(saves, i) /\ saves[i].here
          /\ ~Earlier(i, {"sent", "stored", "failed"})
          /\ selected' = selected /\ UNCHANGED <<stored>>
          /\ scripts' = [scripts EXCEPT ![selected] = saves[i].graph]
      BY <1>3, <1>4, <2>1, <2>5 DEF SaveAnswered, Reordered, Lossless, InOrder
    <3>2. mishaps' = {} => mishaps = {}
      BY <2>5 DEF SaveAnswered
    <3>3. i = 1
      <4>1. CASE 1 \in 1..(i - 1)
        <5>1. 1 \in DOMAIN saves /\ saves[1].pc = "stored"
          BY <1>3, <2>1, <3>1, <4>1 DEF InOrder
        <5> QED
          BY <1>2, <2>1, <3>1, <4>1, <5>1 DEF Earlier
      <4> QED
        BY <2>1, <4>1
    <3>4. /\ saves' \in Seq(Save) /\ Len(saves') = Len(saves) - 1
          /\ \A j \in DOMAIN saves' : j + 1 \in DOMAIN saves /\ saves'[j] = saves[j + 1]
          /\ InOrder(saves')
      BY <1>3, <3>1, <3>3, AnsweredInOrder
    <3>5. ASSUME NEW k \in DOMAIN saves', LastStored(saves', k)
          PROVE  stored[selected] = saves'[k].graph
      <4>1. k + 1 \in DOMAIN saves /\ saves'[k] = saves[k + 1] /\ k \in Nat
        BY <3>4
      <4>2. ASSUME NEW j \in (k + 2)..Len(saves) PROVE saves[j].pc # "stored"
        <5>1. Len(saves') = Len(saves) - 1 /\ DOMAIN saves' = 1..Len(saves')
          BY <3>4
        <5>2. j \in Nat /\ k + 2 <= j /\ j <= Len(saves) /\ k >= 1
          BY <2>1, <4>1, <5>1
        <5>3. j - 1 \in (k + 1)..Len(saves') /\ j - 1 \in DOMAIN saves' /\ (j - 1) + 1 = j
          BY <2>1, <5>1, <5>2, <4>1
        <5>4. saves'[j - 1] = saves[j]
          BY <3>4, <5>3
        <5> QED
          BY <3>5, <5>3, <5>4 DEF LastStored
      <4>3. LastStored(saves, k + 1)
        BY <3>5, <4>1, <4>2 DEF LastStored
      <4> QED
        BY <1>4, <2>1, <4>1, <4>3
    \* If no other save is stored, this one was the last.
    <3>6. \/ stored[selected] = saves[i].graph
          \/ \E k \in DOMAIN saves' : saves'[k].pc = "stored"
      <4>1. CASE LastStored(saves, i)
        BY <1>4, <2>1, <4>1
      <4>2. CASE ~LastStored(saves, i)
        <5>1. PICK j \in (i + 1)..Len(saves) : saves[j].pc = "stored"
          BY <3>1, <4>2 DEF LastStored
        <5>2. j - 1 \in DOMAIN saves' /\ (j - 1) + 1 = j
          BY <2>1, <3>3, <3>4
        <5> QED
          BY <3>4, <5>1, <5>2
      <4> QED
        BY <4>1, <4>2
    <3>7. mishaps = {} => canvas = IF saves' = << >> THEN stored[selected]
                                   ELSE saves'[Len(saves')].graph
      <4>1. mishaps = {} => canvas = saves[Len(saves)].graph
        BY <1>4, <2>1
      <4>2. CASE saves' = << >>
        <5>1. Len(saves) = 1
          BY <2>1, <3>4, <4>2
        <5> QED
          BY <3>3, <3>6, <4>1, <4>2, <5>1
      <4>3. CASE saves' # << >>
        <5>1. Len(saves') \in DOMAIN saves' /\ Len(saves') + 1 = Len(saves)
          BY <2>1, <3>4, <4>3
        <5> QED
          BY <3>4, <4>1, <4>3, <5>1
      <4> QED
        BY <4>2, <4>3
    <3>8. LibraryAgrees'
      <4>1. /\ scripts'[selected] = saves[i].graph /\ saves[i].graph # None
            /\ \A s \in Script : s # selected => scripts'[s] = scripts[s]
        BY <2>2, <3>1 DEF Library
      <4> QED
        BY <1>4, <2>1, <3>1, <3>2, <3>5, <3>6, <3>7, <4>1 DEF LibraryAgrees
    <3> QED
      BY <2>1, <3>4, <3>8 DEF CopiesAgree, SavesInOrder, LoadAgrees, CallAgrees
  <2>6. CASE SaveFails(i)
    BY <2>6 DEF SaveFails, Lossless
  <2> QED
    BY <1>20, <2>3, <2>4, <2>5, <2>6 DEF SaveStep
<1>21. CASE Fault
  BY <1>21 DEF Fault, Lossless
<1> QED
  BY <1>11, <1>12, <1>13, <1>14, <1>15, <1>16, <1>17, <1>18, <1>19, <1>20, <1>21
     DEF Next, SaveSteps, CallStep, LoadStep

-----------------------------------------------------------------------------
(* What the editor promises *)

LEMMA InvInit == Init => Typed /\ EditorInv
<1> SUFFICES ASSUME Init PROVE Typed /\ EditorInv
  OBVIOUS
<1>1. Typed
  BY TypeInit DEF Typed, DrawnIsBound, Init, Empty
<1>2. OneAtATime
  BY DEF Init, OneAtATime
<1>3. CopiesAtHome
  BY DEF Init, CopiesAtHome, LibraryAtHome, AtHome, NewLoad, NoScripts, Listed, Library, Graph
<1>4. CopiesHaveEnds
  BY EmptyGraph DEF Init, CopiesHaveEnds, LibraryHasEnds, NewLoad, NoScripts
<1>5. CopiesAgree
  BY DEF Init, NewLoad, CopiesAgree, SavesInOrder, InOrder, LibraryAgrees, LoadAgrees, CallAgrees
<1> QED
  BY <1>1, <1>2, <1>3, <1>4, <1>5 DEF EditorInv

THEOREM InvCorrect == Spec => [](Typed /\ EditorInv)
<1>1. Typed /\ EditorInv /\ [Next]_vars => (Typed /\ EditorInv)'
  <2> SUFFICES ASSUME Typed, EditorInv, [Next]_vars PROVE (Typed /\ EditorInv)'
    OBVIOUS
  <2>1. CASE Next
    BY <2>1, TypeStep, OneStep, EndsStep, HomeStep, AgreeStep DEF EditorInv
  <2>2. CASE UNCHANGED vars
    <3>1. (OneAtATime /\ CopiesAtHome /\ CopiesHaveEnds)'
      BY <2>2 DEF vars, pageVars, canvasVars, serverVars, ghosts, EditorInv, OneAtATime,
         CopiesAtHome, LibraryAtHome, AtHome, CopiesHaveEnds, LibraryHasEnds
    <3>2. CopiesAgree'
      BY <2>2 DEF vars, pageVars, canvasVars, serverVars, ghosts, EditorInv, CopiesAgree,
         Lossless, SavesInOrder, LibraryAgrees, LoadAgrees, CallAgrees, Left
    <3> QED
      BY <2>2, <3>1, <3>2, TypeStep DEF EditorInv
  <2> QED
    BY <2>1, <2>2
<1> QED
  BY <1>1, InvInit, PTL DEF Spec

\* What is drawn in one script is never stored in another one, for any scripts, drawings and
\* delays, unless the user acts while a save or a call is open.
THEOREM NodesCorrect == Spec => []NodesStayHome
<1>1. EditorInv => NodesStayHome
  BY DEF EditorInv, CopiesAtHome, LibraryAtHome, AtHome, NodesStayHome, Listed
<1> QED
  BY <1>1, InvCorrect, PTL

\* A stored edge connects stored nodes, unless a connected node was deleted with the key.
THEOREM EdgesCorrect == Spec => []EdgesHaveEnds
<1>1. EditorInv => EdgesHaveEnds
  BY DEF EditorInv, CopiesHaveEnds, LibraryHasEnds, EdgesHaveEnds, Listed
<1> QED
  BY <1>1, InvCorrect, PTL

\* When every save and call is answered and nothing went wrong, the server stores what the
\* library and the canvas show, for any drawings and delays.
THEOREM CanvasCorrect == Spec => []CanvasIsStored
<1>1. Typed /\ EditorInv => CanvasIsStored
  <2> SUFFICES ASSUME Typed, EditorInv, Settled, mishaps = {}
               PROVE  scripts = stored /\ (selected # None => canvas = stored[selected])
    BY DEF CanvasIsStored
  <2>1. /\ \A s \in Script : s # selected => scripts[s] = stored[s]
        /\ selected # None => /\ scripts[selected] = stored[selected]
                              /\ canvas = stored[selected]
    BY DEF EditorInv, CopiesAgree, LibraryAgrees, Lossless, Settled
  <2>2. scripts = stored
    BY <2>1 DEF Typed, TypeOK, Library
  <2> QED
    BY <2>1, <2>2
<1> QED
  BY <1>1, InvCorrect, PTL

\* A script that was deleted does not come back, whatever saves are still open.
THEOREM DeletedCorrect == Spec => DeletedStayDeleted
<1> DEFINE A == \A s \in Script :
                   stored[s] = None /\ s \notin unused
                   /\ ~(call # None /\ call.kind = "create" /\ call.script = s)
                   => stored'[s] = None
<1>1. Typed /\ [Next]_vars => [A]_vars
  <2> SUFFICES ASSUME Typed, Next, NEW s \in Script, stored[s] = None,
                      ~(call # None /\ call.kind = "create" /\ call.script = s)
               PROVE  stored'[s] = None
    OBVIOUS
  <2> USE DEF Typed, TypeOK, Library, canvasVars, pageVars, serverVars, ghosts
  <2>1. CASE CallHandled
    BY <2>1 DEF CallHandled
  <2>2. ASSUME NEW i \in DOMAIN saves, Update(i) PROVE stored'[s] = None
    BY <2>2 DEF Update
  <2>3. CASE stored' = stored
    BY <2>3
  <2>4. CASE Draw
    BY <2>4, Drawn DEF DrawsAs, Change
  <2> QED
    BY <2>1, <2>2, <2>3, <2>4 DEF Next, OpenScript, CreateScript, Import, DeleteScript,
       LeaveAndReturn, SaveSteps, SaveStep, Fire, SaveAnswered, SaveFails, CallStep,
       CallAnswered, CallFails, LoadStep, ListRead, Loaded, Fault
<1> QED
  BY <1>1, InvCorrect, PTL DEF Spec, DeletedStayDeleted

=============================================================================
