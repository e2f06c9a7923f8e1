------------------------- MODULE SessionDeviceProofs -------------------------
(***************************************************************************)
(* Proofs about two parts of the dashboard that share no state, for any    *)
(* tenants, users, pages, devices, filters, tags and bounds.               *)
(*                                                                         *)
(* The devices page: type correctness, that alias and branch stay what     *)
(* the last save that closed a window said, that the window shows the tags *)
(* its device has, and that the list at rest is fresh.                     *)
(* PageTypes says what the loads and handlers under way carry; each of the *)
(* other properties has an invariant of its own beside it, about the       *)
(* handlers and loads that stand between the page and the server.          *)
(*                                                                         *)
(* The session in the tab: type correctness, that token and stored user    *)
(* belong together, and that no page shows the rows of an earlier login.   *)
(***************************************************************************)
EXTENDS Session, DevicePage, SequenceTheorems, TLAPS

-----------------------------------------------------------------------------
(* The devices page: loads and handlers *)

Lists == UNION {[S -> Row] : S \in SUBSET Device}
LoadAnswer == [list: Lists, tags: [Device -> SUBSET Tag]]

LEMMA Bounds ==
    /\ MaxClicks \in Nat /\ MaxEvents \in Nat /\ MaxModals \in Nat /\ MaxLoads \in Nat
    /\ MaxOps \in Nat /\ MaxLoads > 0
BY DevicesBoundsAssumption

LEMMA ListIsList == \A l : l \in Lists <=> IsList(l)
BY DEF Lists, IsList

LEMMA RemovedAt ==
    ASSUME NEW S, NEW s \in Seq(S), NEW i \in DOMAIN s
    PROVE  /\ RemoveAt(s, i) \in Seq(S) /\ Len(RemoveAt(s, i)) = Len(s) - 1
           /\ \A j \in 1..(Len(s) - 1) : RemoveAt(s, i)[j] = IF j < i THEN s[j] ELSE s[j + 1]
           /\ \A j \in DOMAIN RemoveAt(s, i) :
                 \E k \in DOMAIN s : RemoveAt(s, i)[j] = s[k]
<1> DEFINE a == SubSeq(s, 1, i - 1)
           b == SubSeq(s, i + 1, Len(s))
<1>1. i \in Nat /\ 1 <= i /\ i <= Len(s) /\ Len(s) \in Nat
  OBVIOUS
<1>2. /\ a \in Seq(S) /\ Len(a) = i - 1
      /\ \A j \in 1..(i - 1) : a[j] = s[j]
  BY <1>1
<1>3. /\ b \in Seq(S) /\ Len(b) = Len(s) - i
      /\ \A j \in 1..(Len(s) - i) : b[j] = s[i + j]
  BY <1>1
<1>4. /\ a \o b \in Seq(S) /\ Len(a \o b) = Len(s) - 1
      /\ \A j \in 1..(Len(s) - 1) :
            (a \o b)[j] = IF j <= i - 1 THEN a[j] ELSE b[j - (i - 1)]
  <2> HIDE DEF a, b
  <2>1. (i - 1) + (Len(s) - i) = Len(s) - 1
    BY <1>1
  <2>2. a \in Seq(S) /\ b \in Seq(S)
    BY <1>2, <1>3
  <2>3. /\ a \o b \in Seq(S) /\ Len(a \o b) = Len(a) + Len(b)
        /\ \A j \in 1..(Len(a) + Len(b)) :
              (a \o b)[j] = IF j <= Len(a) THEN a[j] ELSE b[j - Len(a)]
    BY <2>2, ConcatProperties, Zenon
  <2>4. Len(a) = i - 1 /\ Len(b) = Len(s) - i
    BY <1>2, <1>3
  <2> QED
    BY <2>1, <2>3, <2>4
<1>5. RemoveAt(s, i) = a \o b
  BY DEF RemoveAt
<1>6. ASSUME NEW j \in 1..(Len(s) - 1)
      PROVE  /\ (a \o b)[j] = IF j < i THEN s[j] ELSE s[j + 1]
             /\ \E k \in DOMAIN s : (a \o b)[j] = s[k]
  <2> HIDE DEF a, b
  <2>1. CASE j <= i - 1
    <3>1. j \in 1..(i - 1) /\ j \in DOMAIN s
      BY <2>1, <1>1
    <3> QED
      BY <2>1, <3>1, <1>2, <1>4
  <2>2. CASE ~(j <= i - 1)
    <3>1. /\ j - (i - 1) \in 1..(Len(s) - i) /\ i + (j - (i - 1)) = j + 1
          /\ j + 1 \in DOMAIN s /\ ~(j < i)
      BY <2>2, <1>1
    <3> QED
      BY <3>1, <2>2, <1>3, <1>4
  <2> QED
    BY <2>1, <2>2
<1>7. DOMAIN (a \o b) = 1..(Len(s) - 1)
  <2> HIDE DEF a, b
  <2> QED
    BY <1>4
<1> HIDE DEF a, b
<1> QED
  BY <1>4, <1>5, <1>6, <1>7

\* What a handler carries fits its kind.
OpsFit ==
    \A i \in DOMAIN ops :
        /\ ops[i].modal <= modals
        /\ ops[i].kind = "save" => ops[i].value \in Fields
        /\ ops[i].kind \in {"add", "remove"} => ops[i].value \in Tag
        /\ ops[i].kind = "connect" => ops[i].device \in Numeric
        /\ ops[i].pc = "patched" => ops[i].kind = "save"

ServerType ==
    /\ row \in [Device -> Row] /\ tagged \in [Device -> SUBSET Tag] /\ launched \subseteq Device

ShownType ==
    /\ filter \in Filters /\ list \in Lists /\ tagMap \in [Device -> SUBSET Tag]
    /\ opened \subseteq Numeric

ModalType ==
    /\ modal # Null => modal \in Modal /\ modal.n <= modals
    /\ modals \in 0..MaxModals

LoadsType == loads \in Seq(LoadAnswer) /\ Len(loads) <= MaxLoads

OpsType == ops \in Seq(Op) /\ Len(ops) <= MaxOps /\ OpsFit

NotesType ==
    /\ clicks \in 0..MaxClicks /\ events \in 0..MaxEvents
    /\ told \in [Device -> Fields] /\ partly \subseteq Device
    /\ mishaps \subseteq Mishap

PageTypes == ServerType /\ ShownType /\ ModalType /\ LoadsType /\ OpsType /\ NotesType

LEMMA TypesGiveType == PageTypes => DevicesTypeOK
<1> SUFFICES ASSUME PageTypes PROVE DevicesTypeOK
  OBVIOUS
<1>1. \A i \in DOMAIN loads :
        IsList(loads[i].list) /\ loads[i].tags \in [Device -> SUBSET Tag]
  <2>1. \A i \in DOMAIN loads : loads[i] \in LoadAnswer
    BY DEF PageTypes, LoadsType
  <2> QED
    BY <2>1, ListIsList DEF LoadAnswer
<1>2. \A i \in DOMAIN ops : ops[i] \in Op
  BY DEF PageTypes, OpsType
<1> QED
  BY <1>1, <1>2, ListIsList
     DEF PageTypes, ServerType, ShownType, ModalType, LoadsType, OpsType, NotesType, DevicesTypeOK

LEMMA SelectionType ==
    ASSUME ServerType, NEW f PROVE Selection(f) \in Lists /\ Asked(f) \in LoadAnswer
<1> DEFINE S == {x \in Device : Matches(f, row[x])}
<1>1. S \in SUBSET Device /\ Selection(f) = [d \in S |-> row[d]]
  BY DEF Selection
<1> HIDE DEF S
<1>2. Selection(f) \in [S -> Row]
  BY <1>1 DEF ServerType
<1>3. Selection(f) \in Lists
  BY <1>1, <1>2 DEF Lists
<1> QED
  BY <1>3 DEF Asked, LoadAnswer, ServerType

LEMMA LoadStarted ==
    ASSUME ServerType, LoadsType, NEW f, StartLoad(f)
    PROVE  LoadsType' /\ loads' # << >> /\ loads'[Len(loads')] = Asked(f)
<1>1. loads' = Append(loads, Asked(f)) /\ Len(loads) < MaxLoads
  BY DEF StartLoad, CanLoad
<1>2. loads \in Seq(LoadAnswer) /\ Asked(f) \in LoadAnswer
  BY SelectionType DEF LoadsType
<1> QED
  BY <1>1, <1>2, AppendProperties, Bounds DEF LoadsType

LEMMA LoadRemoved ==
    ASSUME LoadsType, NEW i \in DOMAIN loads, loads' = RemoveAt(loads, i)
    PROVE  LoadsType' /\ Len(loads') = Len(loads) - 1
<1>1. loads \in Seq(LoadAnswer)
  BY DEF LoadsType
<1>2. loads' \in Seq(LoadAnswer) /\ Len(loads') = Len(loads) - 1
  BY <1>1, RemovedAt
<1> QED
  BY <1>1, <1>2, Bounds DEF LoadsType

-----------------------------------------------------------------------------

LEMMA Begun ==
    ASSUME OpsType, ShownType, modals \in 0..MaxModals, modals' \in Nat, modals <= modals',
           NEW kind \in {"favorite", "delete", "restore", "purge", "save", "add", "remove", "connect"},
           NEW d \in Device, NEW n \in 0..modals, NEW value \in Fields \union Tag \union {Null},
           kind = "save" => value \in Fields, kind \in {"add", "remove"} => value \in Tag,
           kind = "connect" => d \in Numeric, Begin(kind, d, n, value)
    PROVE  /\ OpsType' /\ Len(ops) \in Nat /\ DOMAIN ops = 1..Len(ops)
           /\ DOMAIN ops' = 1..(Len(ops) + 1)
           /\ \A i \in DOMAIN ops : ops'[i] = ops[i]
           /\ ops'[Len(ops) + 1] = [kind |-> kind, device |-> d, modal |-> n, filter |-> filter,
                                    value |-> value, pc |-> "asked"]
<1> DEFINE o == [kind |-> kind, device |-> d, modal |-> n, filter |-> filter,
                 value |-> value, pc |-> "asked"]
<1>1. o \in Op
  BY FiltersAssumption, Bounds DEF Op, ShownType
<1>2. ops' = Append(ops, o) /\ Len(ops) < MaxOps /\ ops \in Seq(Op)
  BY DEF Begin, OpsType
<1> HIDE DEF o
<1>3. /\ ops' \in Seq(Op) /\ Len(ops') = Len(ops) + 1 /\ DOMAIN ops = 1..Len(ops)
      /\ \A i \in 1..Len(ops) : ops'[i] = ops[i]
      /\ ops'[Len(ops) + 1] = o /\ Len(ops) \in Nat
  BY <1>1, <1>2, AppendProperties
<1>4. DOMAIN ops' = 1..(Len(ops) + 1)
  BY <1>3
<1>5. /\ o.modal <= modals' /\ (o.kind = "save" => o.value \in Fields)
      /\ (o.kind \in {"add", "remove"} => o.value \in Tag) /\ o.pc = "asked"
      /\ (o.kind = "connect" => o.device \in Numeric)
  BY DEF o
<1>6. ASSUME NEW i \in DOMAIN ops'
      PROVE  /\ ops'[i].modal <= modals'
             /\ ops'[i].kind = "save" => ops'[i].value \in Fields
             /\ ops'[i].kind \in {"add", "remove"} => ops'[i].value \in Tag
             /\ ops'[i].kind = "connect" => ops'[i].device \in Numeric
             /\ ops'[i].pc = "patched" => ops'[i].kind = "save"
  <2>1. CASE i \in DOMAIN ops
    <3>1. ops'[i] = ops[i] /\ ops[i] \in Op
      BY <1>2, <1>3, <2>1
    <3>2. ops[i].modal \in 0..MaxModals /\ ops[i].modal <= modals
      BY <2>1, <3>1 DEF Op, OpsType, OpsFit
    <3> QED
      BY <2>1, <3>1, <3>2, Bounds DEF OpsType, OpsFit
  <2>2. CASE i = Len(ops) + 1
    BY <1>3, <1>5, <2>2
  <2> QED
    BY <1>3, <1>4, <2>1, <2>2
<1>7. Len(ops') <= MaxOps
  BY <1>2, <1>3, Bounds
<1> QED
  BY <1>3, <1>4, <1>6, <1>7 DEF o, OpsType, OpsFit

LEMMA Became ==
    ASSUME OpsType, modals' = modals, NEW i \in DOMAIN ops, NEW pc \in {"patched", "handled", "failed"},
           pc = "patched" => ops[i].kind = "save", Becomes(i, pc)
    PROVE  /\ OpsType' /\ DOMAIN ops' = DOMAIN ops
           /\ \A j \in DOMAIN ops : j # i => ops'[j] = ops[j]
           /\ ops'[i].kind = ops[i].kind /\ ops'[i].device = ops[i].device
           /\ ops'[i].modal = ops[i].modal /\ ops'[i].value = ops[i].value /\ ops'[i].pc = pc
<1>1. ops \in Seq(Op) /\ ops[i] \in Op /\ ops' = [ops EXCEPT ![i].pc = pc]
  BY DEF OpsType, Becomes
<1> DEFINE o == [ops[i] EXCEPT !.pc = pc]
<1>2. /\ o \in Op /\ o.kind = ops[i].kind /\ o.device = ops[i].device
      /\ o.modal = ops[i].modal /\ o.value = ops[i].value /\ o.pc = pc
  BY <1>1 DEF Op
<1>3. ops' = [ops EXCEPT ![i] = o]
  BY <1>1
<1> HIDE DEF o
<1>4. /\ ops' \in Seq(Op) /\ Len(ops') = Len(ops) /\ DOMAIN ops' = DOMAIN ops /\ ops'[i] = o
      /\ \A j \in DOMAIN ops : j # i => ops'[j] = ops[j]
  BY <1>1, <1>2, <1>3, ExceptSeq
<1> QED
  BY <1>2, <1>4 DEF OpsType, OpsFit

\* Where handler j stood before handler i ended
Before(i, j) == IF j < i THEN j ELSE j + 1

LEMMA Ended ==
    ASSUME OpsType, modals' = modals, NEW i \in DOMAIN ops, Ends(i)
    PROVE  /\ OpsType'
           /\ \A j \in DOMAIN ops' :
                 Before(i, j) \in DOMAIN ops \ {i} /\ ops'[j] = ops[Before(i, j)]
           /\ \A j, k \in DOMAIN ops' : Before(i, j) = Before(i, k) => j = k
           /\ \A k \in DOMAIN ops \ {i} : \E j \in DOMAIN ops' : k = Before(i, j)
<1>1. ops \in Seq(Op) /\ ops' = RemoveAt(ops, i) /\ Len(ops) <= MaxOps
  BY DEF OpsType, Ends
<1>2. /\ ops' \in Seq(Op) /\ Len(ops') = Len(ops) - 1
      /\ \A j \in 1..(Len(ops) - 1) : ops'[j] = IF j < i THEN ops[j] ELSE ops[j + 1]
  BY <1>1, RemovedAt
<1>3. /\ DOMAIN ops = 1..Len(ops) /\ DOMAIN ops' = 1..(Len(ops) - 1)
      /\ Len(ops) \in Nat /\ i \in 1..Len(ops)
  BY <1>1, <1>2
<1>4. ASSUME NEW j \in DOMAIN ops'
      PROVE  Before(i, j) \in DOMAIN ops \ {i} /\ ops'[j] = ops[Before(i, j)]
  BY <1>2, <1>3 DEF Before
<1>5. \A j, k \in DOMAIN ops' : Before(i, j) = Before(i, k) => j = k
  BY <1>3 DEF Before
<1>6. ASSUME NEW k \in DOMAIN ops \ {i} PROVE \E j \in DOMAIN ops' : k = Before(i, j)
  <2>1. CASE k < i
    BY <1>3, <2>1 DEF Before
  <2>2. CASE ~(k < i)
    <3>1. k - 1 \in DOMAIN ops' /\ k = Before(i, k - 1)
      BY <1>3, <2>2 DEF Before
    <3> QED
      BY <3>1
  <2> QED
    BY <2>1, <2>2
<1>7. Len(ops') <= MaxOps
  BY <1>1, <1>2, <1>3, Bounds
<1>8. OpsFit'
  BY <1>4 DEF OpsType, OpsFit
<1> QED
  BY <1>2, <1>4, <1>5, <1>6, <1>7, <1>8 DEF OpsType

-----------------------------------------------------------------------------
(* Types *)

LEMMA ModalKept ==
    ASSUME ModalType, modals' = modals, modal' = Null \/ modal' = modal
    PROVE  ModalType'
BY DEF ModalType

LEMMA ModalChanged ==
    ASSUME ModalType, modals' = modals, modal # Null,
           NEW edit \in Fields, NEW tags \in SUBSET Tag,
           NEW fetch \in {"asked", "read", "shown", "failed"},
           NEW saving \in BOOLEAN, NEW sure \in BOOLEAN,
           modal' = [modal EXCEPT !.edit = edit, !.tags = tags, !.fetch = fetch,
                                  !.saving = saving, !.sure = sure]
    PROVE  ModalType'
BY DEF ModalType, Modal

LEMMA TypesInit == DevicesInit => PageTypes
<1> SUFFICES ASSUME DevicesInit PROVE PageTypes
  OBVIOUS
<1>1. ServerType
  BY RowsAssumption DEF DevicesInit, ServerType
<1>2. Asked(AllDevices) \in LoadAnswer
  BY <1>1, SelectionType
<1>3. loads = <<Asked(AllDevices)>> /\ Len(loads) = 1
  BY DEF DevicesInit
<1>4. loads \in Seq(LoadAnswer) /\ Len(loads) <= MaxLoads
  BY <1>2, <1>3, Bounds
<1>5. OpsType
  BY Bounds DEF DevicesInit, OpsType, OpsFit
<1>6. ModalType /\ NotesType
  BY Bounds, RowsAssumption DEF DevicesInit, ModalType, NotesType, Fields, Row
<1>7. << >> \in Lists
  BY DEF Lists
<1>8. ShownType
  BY <1>7, FiltersAssumption DEF DevicesInit, ShownType
<1> QED
  BY <1>1, <1>4, <1>5, <1>6, <1>8 DEF PageTypes, LoadsType

LEMMA ListedRow ==
    ASSUME ShownType, NEW d \in DOMAIN list
    PROVE  d \in Device /\ list[d] \in Row
BY DEF ShownType, Lists

LEMMA Clicked == NotesType /\ Click => clicks' \in 0..MaxClicks
BY Bounds DEF NotesType, Click

\* Clicks that begin a handler
LEMMA BeginTypes ==
    ASSUME PageTypes, NEW d \in Device, NEW n \in 0..modals,
           NEW kind \in {"favorite", "delete", "restore", "purge", "save", "add", "remove", "connect"},
           NEW value \in Fields \union Tag \union {Null},
           kind = "save" => value \in Fields, kind \in {"add", "remove"} => value \in Tag,
           kind = "connect" => d \in Numeric, Begin(kind, d, n, value), modals' = modals
    PROVE  OpsType'
<1>1. modals \in 0..MaxModals /\ modals' \in Nat /\ modals <= modals'
  BY Bounds DEF PageTypes, ModalType
<1> QED
  BY <1>1, Begun DEF PageTypes

LEMMA UserTypes == PageTypes /\ Administrator => PageTypes'
<1> SUFFICES ASSUME PageTypes, Administrator PROVE PageTypes'
  OBVIOUS
<1> USE DEF serverVars, counters, history
<1>0. modal # Null => /\ modal \in Modal /\ modal.n \in 0..modals /\ modal.device \in Device
                      /\ modal.edit \in Fields /\ modal.tags \in SUBSET Tag
                      /\ modal.fetch \in {"asked", "read", "shown", "failed"}
                      /\ modal.saving \in BOOLEAN /\ modal.sure \in BOOLEAN
  BY Bounds DEF PageTypes, ModalType, Modal
<1>c. Click => clicks' \in 0..MaxClicks
  BY Clicked DEF PageTypes
<1>1. ASSUME NEW f \in Filters, ChangeFilter(f) PROVE PageTypes'
  <2>1. LoadsType'
    BY <1>1, LoadStarted DEF ChangeFilter, PageTypes
  <2> QED
    BY <1>c, <1>1, <2>1
       DEF ChangeFilter, PageTypes, ServerType, ShownType, ModalType, OpsType, OpsFit,
           NotesType
<1>2. ASSUME NEW d \in Device, OpenModal(d) PROVE PageTypes'
  <2>1. list[d] \in Row
    BY <1>2, ListedRow DEF OpenModal, PageTypes
  <2>2. modals + 1 \in 1..MaxModals /\ modals' = modals + 1
    BY <1>2, Bounds DEF OpenModal, PageTypes, ModalType
  <2>3. Tagging(d, Tag) \in BOOLEAN
    BY DEF Tagging
  <2>4. modal' \in Modal /\ modal'.n = modals + 1
    BY <1>2, <2>1, <2>2, <2>3 DEF OpenModal, Modal, Fields, Row
  <2>5. ModalType'
    BY <2>2, <2>4, Bounds DEF ModalType
  <2>6. OpsFit'
    <3>1. \A i \in DOMAIN ops : ops[i] \in Op
      BY DEF PageTypes, OpsType
    <3> QED
      BY <1>2, <2>2, <3>1, Bounds DEF OpenModal, PageTypes, OpsType, OpsFit, Op, ModalType
  <2> QED
    BY <1>c, <1>2, <2>5, <2>6
       DEF OpenModal, PageTypes, ServerType, ShownType, LoadsType, OpsType, NotesType
<1>3. ASSUME NEW d \in Device, NEW k \in {"favorite", "delete", "connect"}, CardClick(k, d)
      PROVE  PageTypes'
  <2>1. OpsType'
    <3>1. 0 \in 0..modals /\ modals' = modals
      BY <1>3, Bounds DEF CardClick, PageTypes, ModalType
    <3> QED
      BY <1>3, <3>1, BeginTypes DEF CardClick
  <2> QED
    BY <1>c, <1>3, <2>1
       DEF CardClick, PageTypes, ServerType, ShownType, ModalType, LoadsType, NotesType
<1>4. ASSUME NEW d \in Device, NEW k \in {"restore", "purge"}, TrashClick(k, d)
      PROVE  PageTypes'
  <2>1. OpsType'
    <3>1. 0 \in 0..modals /\ modals' = modals
      BY <1>4, Bounds DEF TrashClick, PageTypes, ModalType
    <3> QED
      BY <1>4, <3>1, BeginTypes DEF TrashClick
  <2> QED
    BY <1>c, <1>4, <2>1
       DEF TrashClick, PageTypes, ServerType, ShownType, ModalType, LoadsType, NotesType
<1>5. CASE CloseModal
  BY <1>5
     DEF CloseModal, PageTypes, ServerType, ShownType, ModalType, LoadsType, OpsType, OpsFit,
         NotesType
<1>6. CASE Save
  <2>1. OpsType'
    BY <1>0, <1>6, BeginTypes DEF Save
  <2>2. modal' \in Modal /\ modal'.n = modal.n
    BY <1>0, <1>6 DEF Save, Modal
  <2>3. mishaps' \subseteq Mishap
    BY <1>6 DEF Save, Mishap, PageTypes, NotesType
  <2> QED
    BY <1>c, <1>6, <2>1, <2>2, <2>3
       DEF Save, PageTypes, ServerType, ShownType, ModalType, LoadsType, NotesType
<1>7. ASSUME NEW x \in Fields, Edit(x) PROVE PageTypes'
  <2>1. modal' \in Modal /\ modal'.n = modal.n
    BY <1>0, <1>7 DEF Edit, Modal
  <2> QED
    BY <1>c, <1>7, <2>1
       DEF Edit, PageTypes, ServerType, ShownType, ModalType, LoadsType, OpsType, OpsFit,
           NotesType
<1>8. ASSUME NEW t \in Tag, ToggleTag(t) PROVE PageTypes'
  <2>1. OpsType'
    BY <1>0, <1>8, BeginTypes DEF ToggleTag
  <2>2. Tagging(modal.device, {t}) \in BOOLEAN
    BY DEF Tagging
  <2>3. modal' \in Modal /\ modal'.n = modal.n
    BY <1>0, <1>8, <2>2 DEF ToggleTag, Modal
  <2> QED
    BY <1>c, <1>8, <2>1, <2>3
       DEF ToggleTag, PageTypes, ServerType, ShownType, ModalType, LoadsType, NotesType
<1>9. ASSUME NEW k \in {"favorite", "delete", "connect"}, ModalClick(k) PROVE PageTypes'
  <2>1. OpsType'
    BY <1>0, <1>9, BeginTypes DEF ModalClick
  <2> QED
    BY <1>c, <1>9, <2>1
       DEF ModalClick, PageTypes, ServerType, ShownType, ModalType, LoadsType, NotesType
<1> QED
  BY <1>1, <1>2, <1>3, <1>4, <1>5, <1>6, <1>7, <1>8, <1>9 DEF Administrator

\* What every request finds
LEMMA OpFields ==
    ASSUME PageTypes, NEW i \in DOMAIN ops
    PROVE  /\ ops[i] \in Op /\ ops[i].device \in Device /\ row[ops[i].device] \in Row
           /\ ops[i].kind = "save" => ops[i].value.alias \in Alias /\ ops[i].value.branch \in Branch \union {Null}
           /\ ops[i].kind \in {"add", "remove"} => ops[i].value \in Tag
           /\ ops[i].kind = "connect" => ops[i].device \in Numeric
           /\ ops[i].pc = "patched" => ops[i].kind = "save"
<1>1. ops[i] \in Op
  BY DEF PageTypes, OpsType
<1> QED
  BY <1>1 DEF PageTypes, OpsType, OpsFit, Op, ServerType, Fields

\* A row that changes keeps its form.
LEMMA RowChanged ==
    ASSUME ServerType, NEW d \in Device, NEW r \in Row, row' = [row EXCEPT ![d] = r],
           NEW T \in [Device -> SUBSET Tag], tagged' = T,
           launched' \subseteq Device
    PROVE  ServerType'
BY DEF ServerType

LEMMA HandleTypes ==
    ASSUME PageTypes, NEW i \in DOMAIN ops, Handle(i)
    PROVE  ServerType' /\ OpsType' /\ partly' \subseteq Device
<1> DEFINE d == ops[i].device
<1> USE DEF Pending, Exists, counters
<1>1. /\ d \in Device /\ row[d] \in Row /\ modals' = modals /\ partly \subseteq Device
      /\ ops[i].kind = "save" => ops[i].value.alias \in Alias /\ ops[i].value.branch \in Branch \union {Null}
      /\ ops[i].kind \in {"add", "remove"} => ops[i].value \in Tag
      /\ ops[i].pc = "patched" => ops[i].kind = "save"
      /\ row \in [Device -> Row] /\ tagged \in [Device -> SUBSET Tag] /\ launched \subseteq Device
  BY OpFields DEF Handle, PageTypes, ServerType, NotesType
<1> HIDE DEF d
<1>2. OpsType'
  <2>1. \A pc \in {"patched", "handled", "failed"} :
          Becomes(i, pc) /\ (pc = "patched" => ops[i].kind = "save") => OpsType'
    BY <1>1, Became DEF PageTypes
  <2> QED
    BY <2>1
       DEF Handle, ToggleFavorite, DeleteDevice, RestoreDevice, PurgeDevice, PatchDevice,
           SetDeviceBranch, AddDeviceTag, RemoveDeviceTag, RegisterLaunch
<1>3. partly' \subseteq Device
  BY <1>1
     DEF d, Handle, ToggleFavorite, DeleteDevice, RestoreDevice, PurgeDevice, PatchDevice,
         SetDeviceBranch, AddDeviceTag, RemoveDeviceTag, RegisterLaunch
<1>4. ServerType'
  <2>1. ASSUME NEW r \in Row, row' = [row EXCEPT ![d] = r],
               tagged' \in [Device -> SUBSET Tag], launched' \subseteq Device
        PROVE  ServerType'
    BY <1>1, <2>1, RowChanged DEF PageTypes
  <2>2. ASSUME row' = row, tagged' \in [Device -> SUBSET Tag], launched' \subseteq Device
        PROVE  ServerType'
    BY <2>2 DEF PageTypes, ServerType
  <2>3. CASE ToggleFavorite(i)
    <3>1. [row[d] EXCEPT !.favorite = ~@] \in Row
      BY <1>1 DEF Row
    <3>2. row' = row \/ row' = [row EXCEPT ![d] = [row[d] EXCEPT !.favorite = ~@]]
      BY <2>3 DEF ToggleFavorite, d
    <3> QED
      BY <1>1, <2>1, <2>2, <2>3, <3>1, <3>2 DEF ToggleFavorite, Row
  <2>4. CASE DeleteDevice(i)
    <3>1. [row[d] EXCEPT !.place = "trash", !.online = FALSE] \in Row
      BY <1>1 DEF Row
    <3>2. \/ row' = row
          \/ row' = [row EXCEPT ![d] = [row[d] EXCEPT !.place = "trash", !.online = FALSE]]
      <4>1. [row EXCEPT ![d].place = "trash", ![d].online = FALSE]
              = [row EXCEPT ![d] = [row[d] EXCEPT !.place = "trash", !.online = FALSE]]
        BY <1>1
      <4> QED
        BY <2>4, <4>1 DEF DeleteDevice, d
    <3> QED
      BY <1>1, <2>1, <2>2, <2>4, <3>1, <3>2 DEF DeleteDevice, Row
  <2>5. CASE RestoreDevice(i)
    <3>1. [row[d] EXCEPT !.place = "live"] \in Row
      BY <1>1 DEF Row
    <3>2. row' = row \/ row' = [row EXCEPT ![d] = [row[d] EXCEPT !.place = "live"]]
      BY <2>5 DEF RestoreDevice, d
    <3> QED
      BY <1>1, <2>1, <2>2, <2>5, <3>1, <3>2 DEF RestoreDevice, Row
  <2>6. CASE PurgeDevice(i)
    <3>1. [row[d] EXCEPT !.place = "gone"] \in Row
      BY <1>1 DEF Row
    <3>2. tagged' \in [Device -> SUBSET Tag]
      BY <1>1, <2>6 DEF PurgeDevice
    <3>3. \/ row' = row
          \/ row[d].place = "trash" /\ row' = [row EXCEPT ![d] = [row[d] EXCEPT !.place = "gone"]]
      BY <2>6 DEF PurgeDevice, d
    <3> QED
      BY <1>1, <2>1, <2>2, <2>6, <3>1, <3>2, <3>3 DEF PurgeDevice, Row
  <2>7. CASE PatchDevice(i)
    <3>1. [row[d] EXCEPT !.alias = ops[i].value.alias] \in Row
      BY <1>1, <2>7 DEF Row, PatchDevice
    <3>2. \/ row' = row
          \/ row' = [row EXCEPT ![d] = [row[d] EXCEPT !.alias = ops[i].value.alias]]
      BY <2>7 DEF PatchDevice, d
    <3> QED
      BY <1>1, <2>1, <2>2, <2>7, <3>1, <3>2 DEF PatchDevice, Row
  <2>8. CASE SetDeviceBranch(i)
    <3>1. [row[d] EXCEPT !.branch = ops[i].value.branch] \in Row
      BY <1>1, <2>8 DEF Row, SetDeviceBranch
    <3>2. \/ row' = row
          \/ row' = [row EXCEPT ![d] = [row[d] EXCEPT !.branch = ops[i].value.branch]]
      BY <2>8 DEF SetDeviceBranch, d
    <3> QED
      BY <1>1, <2>1, <2>2, <2>8, <3>1, <3>2 DEF SetDeviceBranch, Row
  <2>9. CASE AddDeviceTag(i)
    <3>1. tagged' \in [Device -> SUBSET Tag]
      BY <1>1, <2>9 DEF AddDeviceTag
    <3> QED
      BY <1>1, <2>2, <2>9, <3>1 DEF AddDeviceTag
  <2>10. CASE RemoveDeviceTag(i)
    <3>1. tagged' \in [Device -> SUBSET Tag]
      BY <1>1, <2>10 DEF RemoveDeviceTag
    <3> QED
      BY <1>1, <2>2, <2>10, <3>1 DEF RemoveDeviceTag
  <2>11. CASE RegisterLaunch(i)
    <3>1. launched' \subseteq Device
      BY <1>1, <2>11 DEF RegisterLaunch, d
    <3> QED
      BY <1>1, <2>2, <2>11, <3>1 DEF RegisterLaunch
  <2> QED
    BY <2>3, <2>4, <2>5, <2>6, <2>7, <2>8, <2>9, <2>10, <2>11 DEF Handle
<1> QED
  BY <1>2, <1>3, <1>4

LEMMA GoOnTypes == \A i \in DOMAIN ops : PageTypes /\ GoOn(i) => PageTypes'
<1> SUFFICES ASSUME PageTypes, NEW i \in DOMAIN ops, GoOn(i) PROVE PageTypes'
  OBVIOUS
<1> USE DEF serverVars, counters, history
<1> DEFINE d == ops[i].device
<1>1. /\ d \in Device /\ ops[i].modal \in 0..MaxModals
      /\ ops[i].kind = "save" => ops[i].value \in Fields
      /\ ops[i].kind \in {"add", "remove"} => ops[i].value \in Tag
      /\ mishaps \subseteq Mishap
  BY OpFields DEF Op, PageTypes, OpsType, OpsFit, NotesType
<1>2. modal # Null => /\ modal \in Modal /\ modal.n \in 0..modals
                      /\ modal.tags \in SUBSET Tag
  BY Bounds DEF PageTypes, ModalType, Modal
<1>3. Ends(i) /\ modals' = modals => OpsType'
  BY Ended DEF PageTypes
<1>4. Refresh(i) /\ modals' = modals => LoadsType' /\ ModalType' /\ mishaps' \subseteq Mishap
  <2> SUFFICES ASSUME Refresh(i), modals' = modals
               PROVE  LoadsType' /\ ModalType' /\ mishaps' \subseteq Mishap
    OBVIOUS
  <2>1. LoadsType'
    BY LoadStarted DEF Refresh, PageTypes
  <2>2. mishaps' \subseteq Mishap
    BY <1>1 DEF Refresh, Mishap
  <2>3. ModalType'
    BY ModalKept DEF Refresh, PageTypes
  <2> QED
    BY <2>1, <2>2, <2>3
<1>5. CASE ActionDone(i)
  BY <1>3, <1>4, <1>5 DEF ActionDone, PageTypes, ServerType, ShownType, NotesType
<1>6. CASE SaveDone(i)
  BY <1>1, <1>3, <1>4, <1>6 DEF SaveDone, PageTypes, ServerType, ShownType, NotesType
<1>7. CASE TagDone(i)
  <2>1. modal' # Null => modal' \in Modal /\ modal'.n <= modals'
    <3> DEFINE t == ops[i].value
    <3>1. CASE modal' = modal
      BY <1>7, <3>1 DEF TagDone, PageTypes, ModalType
    <3>2. CASE /\ modal # Null
               /\ \/ modal' = [modal EXCEPT !.tags = @ \union {t}]
                  \/ modal' = [modal EXCEPT !.tags = @ \ {t}]
      <4>1. t \in Tag
        BY <1>1, <1>7 DEF TagDone
      <4> HIDE DEF t
      <4>2. modal' \in Modal /\ modal'.n = modal.n
        BY <1>2, <3>2, <4>1 DEF Modal
      <4> QED
        BY <1>7, <3>2, <4>2 DEF TagDone, PageTypes, ModalType
    <3> QED
      BY <1>7, <3>1, <3>2 DEF TagDone, OwnModal
  <2>2. OpsType'
    BY <1>3, <1>7 DEF TagDone
  <2>3. mishaps' \subseteq Mishap
    BY <1>1, <1>7 DEF TagDone, Mishap
  <2>4. ModalType'
    BY <2>1, <1>7 DEF TagDone, ModalType, PageTypes
  <2> QED
    BY <1>7, <2>2, <2>3, <2>4 DEF TagDone, PageTypes, ServerType, ShownType, LoadsType, NotesType
<1>8. CASE ConnectDone(i)
  <2>1. opened' \subseteq Numeric
    BY <1>8, OpFields DEF ConnectDone, PageTypes, ShownType
  <2> QED
    BY <1>3, <1>8, <2>1
       DEF ConnectDone, PageTypes, ServerType, ShownType, ModalType, LoadsType, NotesType
<1>9. CASE OpFails(i)
  <2>1. modal' # Null => modal' \in Modal /\ modal'.n <= modals'
    <3>1. CASE modal' = modal
      BY <1>9, <3>1 DEF OpFails, PageTypes, ModalType
    <3>2. CASE modal # Null /\ modal' = [modal EXCEPT !.saving = FALSE]
      <4>1. modal' \in Modal /\ modal'.n = modal.n
        BY <1>2, <3>2 DEF Modal
      <4> QED
        BY <1>9, <3>2, <4>1 DEF OpFails, PageTypes, ModalType
    <3> QED
      BY <1>9, <3>1, <3>2 DEF OpFails, OwnModal
  <2>2. ModalType'
    BY <2>1, <1>9 DEF OpFails, ModalType, PageTypes
  <2> QED
    BY <1>3, <1>9, <2>2 DEF OpFails, PageTypes, ServerType, ShownType, LoadsType, NotesType
<1> QED
  BY <1>5, <1>6, <1>7, <1>8, <1>9 DEF GoOn

\* What happens elsewhere: one row changes, or the tags of one device.
LEMMA AlteredRow ==
    ASSUME NEW r \in Row, NEW x \in Altered(r)
    PROVE  x \in Row
<1>1. CASE x = [r EXCEPT !.online = ~@]
  BY <1>1 DEF Row
<1>2. CASE x = [r EXCEPT !.favorite = ~@]
  BY <1>2 DEF Row
<1>3. CASE x = [r EXCEPT !.place = "gone"]
  BY <1>3 DEF Row
<1>4. CASE x = IF r.place = "live" THEN [r EXCEPT !.place = "trash", !.online = FALSE]
               ELSE [r EXCEPT !.place = "live"]
  BY <1>4 DEF Row
<1>5. CASE \E a \in Alias : x = [r EXCEPT !.alias = a]
  BY <1>5 DEF Row
<1>6. CASE \E b \in Branch \union {Null} : x = [r EXCEPT !.branch = b]
  BY <1>6 DEF Row
<1> QED
  BY <1>1, <1>2, <1>3, <1>4, <1>5, <1>6 DEF Altered

LEMMA ForeignTypes ==
    ASSUME PageTypes, NEW d \in Device, Foreign(d)
    PROVE  ServerType' /\ partly' \subseteq Device /\ mishaps' \subseteq Mishap
<1>1. /\ row \in [Device -> Row] /\ row[d] \in Row /\ tagged \in [Device -> SUBSET Tag]
      /\ launched \subseteq Device /\ partly \subseteq Device /\ mishaps \subseteq Mishap
      /\ launched' = launched
  BY DEF PageTypes, ServerType, NotesType, Foreign
<1>2. CASE \E r \in Altered(row[d]) \ {row[d]} :
              /\ row' = [row EXCEPT ![d] = r]
              /\ tagged' = IF r.place = "gone" THEN [tagged EXCEPT ![d] = {}] ELSE tagged
              /\ partly' = IF Resaved(d, r) THEN partly \union {d} ELSE partly
              /\ mishaps' = mishaps \union {"foreign"}
                              \union (IF Resaved(d, r) /\ Saving(d) THEN {"twoSaves"} ELSE {})
  <2>1. PICK r \in Altered(row[d]) :
              /\ row' = [row EXCEPT ![d] = r]
              /\ tagged' = IF r.place = "gone" THEN [tagged EXCEPT ![d] = {}] ELSE tagged
              /\ partly' = IF Resaved(d, r) THEN partly \union {d} ELSE partly
              /\ mishaps' = mishaps \union {"foreign"}
                              \union (IF Resaved(d, r) /\ Saving(d) THEN {"twoSaves"} ELSE {})
    BY <1>2
  <2>2. r \in Row
    BY <1>1, AlteredRow
  <2>3. mishaps' \subseteq Mishap /\ partly' \subseteq Device
    BY <1>1, <2>1 DEF Mishap
  <2>4. row' \in [Device -> Row]
    BY <1>1, <2>1, <2>2
  <2>5. tagged' \in [Device -> SUBSET Tag]
    BY <1>1, <2>1
  <2> QED
    BY <1>1, <2>3, <2>4, <2>5 DEF ServerType
<1>3. CASE \E tags \in (SUBSET Tag) \ {tagged[d]} :
              /\ tagged' = [tagged EXCEPT ![d] = tags]
              /\ mishaps' = mishaps \union {"foreign"}
              /\ row' = row /\ partly' = partly
  <2>1. tagged' \in [Device -> SUBSET Tag]
    BY <1>1, <1>3
  <2> QED
    BY <1>1, <1>3, <2>1 DEF ServerType, Mishap
<1> QED
  BY <1>2, <1>3 DEF Foreign

LEMMA TypesStep == PageTypes /\ [DevicesNext]_devicesVars => PageTypes'
<1> SUFFICES ASSUME PageTypes, [DevicesNext]_devicesVars PROVE PageTypes'
  OBVIOUS
<1> USE DEF serverVars, counters, history
<1>1. CASE UNCHANGED devicesVars
  BY <1>1
     DEF devicesVars, PageTypes, ServerType, ShownType, ModalType, LoadsType, OpsType, OpsFit,
         NotesType
<1>2. CASE Administrator
  BY <1>2, UserTypes
<1>3. CASE Poll
  <2>1. LoadsType'
    BY <1>3, LoadStarted DEF Poll, PageTypes
  <2> QED
    BY <1>3, <2>1
       DEF Poll, PageTypes, ServerType, ShownType, ModalType, OpsType, OpsFit, NotesType
<1>4. CASE FetchTags
  <2>1. modal' \in Modal /\ modal'.n = modal.n /\ modals' = modals /\ modal # Null
    <3>1. tagged[modal.device] \in SUBSET Tag
      BY <1>4 DEF FetchTags, PageTypes, ModalType, Modal, ServerType
    <3> HIDE DEF serverVars
    <3> QED
      BY <1>4, <3>1 DEF FetchTags, PageTypes, ModalType, Modal
  <2>2. ModalType'
    BY <2>1 DEF PageTypes, ModalType
  <2> QED
    BY <1>4, <2>2
       DEF FetchTags, PageTypes, ServerType, ShownType, LoadsType, OpsType, OpsFit, NotesType
<1>5. ASSUME NEW i \in 1..MaxLoads, Loaded(i) PROVE PageTypes'
  <2>1. i \in DOMAIN loads /\ LoadsType'
    BY <1>5, LoadRemoved DEF Loaded, PageTypes
  <2>2. loads[i] \in LoadAnswer
    BY <2>1 DEF PageTypes, LoadsType
  <2>3. ShownType'
    BY <1>5, <2>2 DEF Loaded, LoadAnswer, PageTypes, ShownType
  <2>4. mishaps' \subseteq Mishap
    BY <1>5 DEF Loaded, PageTypes, NotesType, Mishap
  <2> QED
    BY <1>5, <2>1, <2>3, <2>4
       DEF Loaded, PageTypes, ServerType, ModalType, OpsType, OpsFit, NotesType
<1>6. ASSUME NEW i \in DOMAIN loads, LoadFails(i) PROVE PageTypes'
  <2>1. LoadsType'
    BY <1>6, LoadRemoved DEF LoadFails, PageTypes
  <2>2. mishaps' \subseteq Mishap /\ events' \in 0..MaxEvents
    BY <1>6, Bounds DEF LoadFails, PageTypes, NotesType, Mishap
  <2> QED
    BY <1>6, <2>1, <2>2
       DEF LoadFails, PageTypes, ServerType, ShownType, ModalType, OpsType, OpsFit, NotesType
<1>7. ASSUME NEW i \in DOMAIN ops, Handle(i) PROVE PageTypes'
  BY <1>7, HandleTypes
     DEF Handle, PageTypes, ShownType, ModalType, LoadsType, NotesType
<1>8. ASSUME NEW i \in DOMAIN ops, Lose(i) PROVE PageTypes'
  <2>1. OpsType'
    BY <1>8, Became DEF Lose, PageTypes
  <2>2. ops[i].device \in Device
    BY OpFields
  <2>3. /\ mishaps' \subseteq Mishap /\ events' \in 0..MaxEvents /\ partly' \subseteq Device
    BY <1>8, <2>2, Bounds DEF Lose, PageTypes, NotesType, Mishap
  <2>4. ModalType'
    <3>1. CASE modal' = modal
      BY <1>8, <3>1 DEF Lose, PageTypes, ModalType
    <3>2. CASE modal # Null /\ modal' = [modal EXCEPT !.sure = FALSE]
      <4>1. modal' \in Modal /\ modal'.n = modal.n
        BY <3>2 DEF PageTypes, ModalType, Modal
      <4> QED
        BY <1>8, <3>2, <4>1 DEF Lose, PageTypes, ModalType
    <3> QED
      BY <1>8, <3>1, <3>2 DEF Lose
  <2> QED
    BY <1>8, <2>1, <2>3, <2>4 DEF Lose, PageTypes, ServerType, ShownType, LoadsType, NotesType
<1>9. ASSUME NEW d \in Device, Foreign(d) PROVE PageTypes'
  <2>1. ServerType' /\ partly' \subseteq Device /\ mishaps' \subseteq Mishap
    BY <1>9, ForeignTypes
  <2>2. events' \in 0..MaxEvents
    BY <1>9, Bounds DEF Foreign, PageTypes, NotesType
  <2>3. ModalType'
    <3>1. /\ modals' = modals
          /\ modal' = modal \/ (modal # Null /\ modal' = [modal EXCEPT !.sure = FALSE])
      BY <1>9 DEF Foreign
    <3>2. modal # Null => modal \in Modal /\ [modal EXCEPT !.sure = FALSE] \in Modal
                          /\ [modal EXCEPT !.sure = FALSE].n = modal.n
      BY DEF PageTypes, ModalType, Modal
    <3> QED
      BY <3>1, <3>2 DEF PageTypes, ModalType
  <2> QED
    BY <1>9, <2>1, <2>2, <2>3
       DEF Foreign, PageTypes, ShownType, LoadsType, OpsType, OpsFit, NotesType
<1> QED
  BY <1>1, <1>2, <1>3, <1>4, <1>5, <1>6, <1>7, <1>8, <1>9, GoOnTypes DEF DevicesNext, OpStep

LEMMA TypesInvariant == DevicesSpec => []PageTypes
BY TypesInit, TypesStep, PTL DEF DevicesSpec

\* Type correctness of the page, its loads and its handlers.
THEOREM DevicesTypeCorrect == DevicesSpec => []DevicesTypeOK
BY TypesInvariant, TypesGiveType, PTL

-----------------------------------------------------------------------------
(* What a step does to the rows *)

Kept(d) == row'[d].alias = row[d].alias /\ row'[d].branch = row[d].branch

LEMMA HandledRow ==
    ASSUME PageTypes, NEW i \in DOMAIN ops, Handle(i)
    PROVE  /\ \A x \in Device : x # ops[i].device => row'[x] = row[x] /\ tagged'[x] = tagged[x]
           /\ ops[i].pc \in {"asked", "patched"} /\ (ops[i].pc = "patched" => ops[i].kind = "save")
           /\ \A x \in Device : row[x].place = "gone" => row'[x] = row[x]
           /\ ops[i].kind # "save" => (\A x \in Device : Kept(x)) /\ partly' = partly
           /\ ops[i].kind \in {"connect", "add", "remove"} => row' = row
           /\ ops[i].kind \notin {"purge", "add", "remove"} => tagged' = tagged
<1> DEFINE d == ops[i].device
<1>1. /\ d \in Device /\ row \in [Device -> Row] /\ row[d] \in Row
      /\ tagged \in [Device -> SUBSET Tag]
      /\ ops[i].pc = "patched" => ops[i].kind = "save"
  BY OpFields DEF PageTypes, ServerType
<1> HIDE DEF d
<1>2. ASSUME NEW x \in Device, x # d PROVE row'[x] = row[x] /\ tagged'[x] = tagged[x]
  BY <1>1, <1>2
     DEF d, Handle, ToggleFavorite, DeleteDevice, RestoreDevice, PurgeDevice, PatchDevice,
         SetDeviceBranch, AddDeviceTag, RemoveDeviceTag, RegisterLaunch
<1>3. /\ ops[i].pc \in {"asked", "patched"}
      /\ ops[i].kind \in {"connect", "add", "remove"} => row' = row
      /\ ops[i].kind \notin {"purge", "add", "remove"} => tagged' = tagged
      /\ ops[i].kind # "save" => partly' = partly
  BY <1>1
     DEF Pending, Handle, ToggleFavorite, DeleteDevice, RestoreDevice, PurgeDevice, PatchDevice,
         SetDeviceBranch, AddDeviceTag, RemoveDeviceTag, RegisterLaunch
<1>4. /\ row[d].place = "gone" => row'[d] = row[d]
      /\ ops[i].kind # "save" => Kept(d)
  <2>1. CASE row' = row
    BY <2>1 DEF Kept
  <2>2. CASE ToggleFavorite(i) /\ row' # row
    <3>1. row' = [row EXCEPT ![d].favorite = ~@] /\ row[d].place # "gone"
      BY <2>2 DEF ToggleFavorite, Exists, d
    <3> QED
      BY <1>1, <3>1 DEF Kept, Row
  <2>3. CASE DeleteDevice(i) /\ row' # row
    <3>1. /\ row' = [row EXCEPT ![d].place = "trash", ![d].online = FALSE]
          /\ row[d].place = "live"
      BY <2>3 DEF DeleteDevice, d
    <3> QED
      BY <1>1, <3>1 DEF Kept, Row
  <2>4. CASE RestoreDevice(i) /\ row' # row
    <3>1. row' = [row EXCEPT ![d].place = "live"] /\ row[d].place # "gone"
      BY <2>4 DEF RestoreDevice, Exists, d
    <3> QED
      BY <1>1, <3>1 DEF Kept, Row
  <2>5. CASE PurgeDevice(i) /\ row' # row
    <3>1. row' = [row EXCEPT ![d].place = "gone"] /\ row[d].place = "trash"
      BY <2>5 DEF PurgeDevice, d
    <3> QED
      BY <1>1, <3>1 DEF Kept, Row
  <2>6. CASE PatchDevice(i) /\ row' # row
    <3>1. /\ row' = [row EXCEPT ![d].alias = ops[i].value.alias] /\ row[d].place # "gone"
          /\ ops[i].kind = "save"
      BY <2>6 DEF PatchDevice, Pending, Exists, d
    <3> QED
      BY <1>1, <3>1 DEF Row
  <2>7. CASE SetDeviceBranch(i) /\ row' # row
    <3>1. /\ row' = [row EXCEPT ![d].branch = ops[i].value.branch] /\ row[d].place # "gone"
          /\ ops[i].kind = "save"
      BY <1>1, <2>7 DEF SetDeviceBranch, Exists, d
    <3> QED
      BY <1>1, <3>1 DEF Row
  <2> QED
    BY <2>1, <2>2, <2>3, <2>4, <2>5, <2>6, <2>7
       DEF Handle, AddDeviceTag, RemoveDeviceTag, RegisterLaunch
<1> QED
  BY <1>1, <1>2, <1>3, <1>4 DEF d, Kept

LEMMA ForeignRow ==
    ASSUME PageTypes, NEW d \in Device, Foreign(d)
    PROVE  /\ \A x \in Device : \/ Kept(x)
                                \/ x \in partly' /\ (Saving(x) => "twoSaves" \in mishaps')
           /\ partly \subseteq partly' /\ mishaps \subseteq mishaps'
           /\ "foreign" \in mishaps'
<1>1. row \in [Device -> Row]
  BY DEF PageTypes, ServerType
<1>2. CASE \E r \in Altered(row[d]) \ {row[d]} :
              /\ row' = [row EXCEPT ![d] = r]
              /\ partly' = IF Resaved(d, r) THEN partly \union {d} ELSE partly
              /\ mishaps' = mishaps \union {"foreign"}
                              \union (IF Resaved(d, r) /\ Saving(d) THEN {"twoSaves"} ELSE {})
  BY <1>1, <1>2 DEF Kept, Resaved
<1>3. CASE row' = row /\ partly' = partly /\ mishaps' = mishaps \union {"foreign"}
  BY <1>3 DEF Kept
<1> QED
  BY <1>2, <1>3 DEF Foreign

\* The tags of a device that is still there change under a window that is no longer sure.
LEMMA ForeignTags ==
    ASSUME PageTypes, NEW d \in Device, Foreign(d)
    PROVE  /\ \A x \in Device : row'[x].place # "gone" => row[x].place # "gone"
           /\ \A x \in Device : \/ tagged'[x] = tagged[x]
                                \/ x = d /\ row'[x].place = "gone"
                                \/ x = d /\ (modal # Null /\ modal.device = d =>
                                               modal' = [modal EXCEPT !.sure = FALSE])
           /\ \/ modal' = modal
              \/ modal # Null /\ modal.device = d /\ modal' = [modal EXCEPT !.sure = FALSE]
<1>1. row \in [Device -> Row] /\ row[d].place # "gone" /\ tagged \in [Device -> SUBSET Tag]
  BY DEF PageTypes, ServerType, Foreign, Exists
<1>2. CASE \E r \in Altered(row[d]) \ {row[d]} :
              /\ row' = [row EXCEPT ![d] = r]
              /\ tagged' = IF r.place = "gone" THEN [tagged EXCEPT ![d] = {}] ELSE tagged
              /\ modal' = modal
  BY <1>1, <1>2
<1>3. CASE \E tags \in (SUBSET Tag) \ {tagged[d]} :
              /\ tagged' = [tagged EXCEPT ![d] = tags]
              /\ modal' = IF modal # Null /\ modal.device = d THEN [modal EXCEPT !.sure = FALSE]
                          ELSE modal
              /\ row' = row
  BY <1>1, <1>3
<1> QED
  BY <1>2, <1>3 DEF Foreign

-----------------------------------------------------------------------------
(* Saves *)

Says(d) == told[d] = [alias |-> row[d].alias, branch |-> row[d].branch]

WillSay(d) == told'[d] = [alias |-> row'[d].alias, branch |-> row'[d].branch]

\* What a save has stored when its answer is under way
StoredBy(o) ==
    /\ o.pc \in {"patched", "handled"} => row[o.device].alias = o.value.alias
    /\ o.pc = "handled" => row[o.device].branch = o.value.branch
    /\ o.pc \in {"asked", "failed"} => o.device \in partly \/ Says(o.device)

IsSave(i) == ops[i].kind = "save"

SavesFit ==
    "twoSaves" \notin mishaps =>
        /\ \A i, j \in DOMAIN ops :
              IsSave(i) /\ IsSave(j) /\ ops[i].device = ops[j].device => i = j
        /\ \A i \in DOMAIN ops : IsSave(i) => StoredBy(ops[i])
        /\ SavedIsStored

LEMMA SavesUse ==
    ASSUME SavesFit, "twoSaves" \notin mishaps
    PROVE  /\ \A i, j \in DOMAIN ops :
                 ops[i].kind = "save" /\ ops[j].kind = "save" /\ ops[i].device = ops[j].device => i = j
           /\ \A i \in DOMAIN ops : ops[i].kind = "save" => StoredBy(ops[i])
           /\ \A d \in Device : Saving(d) \/ d \in partly \/ Says(d)
BY DEF SavesFit, IsSave, SavedIsStored, Says

\* Saves that only move, and the end of one that failed, leave their rows alone.
LEMMA SavesMove ==
    ASSUME PageTypes, SavesFit, told' = told, partly' = partly, mishaps \subseteq mishaps',
           \A d \in Device : Kept(d), NEW from,
           \A j \in DOMAIN ops' :
              ops'[j].kind = "save" => from[j] \in DOMAIN ops /\ ops'[j] = ops[from[j]],
           \A j, k \in DOMAIN ops' : from[j] = from[k] => j = k,
           \A i \in DOMAIN ops :
              ops[i].kind = "save" => (\E j \in DOMAIN ops' : from[j] = i /\ ops'[j] = ops[i]) \/ ops[i].pc = "failed"
    PROVE  SavesFit'
<1> SUFFICES ASSUME "twoSaves" \notin mishaps'
             PROVE  /\ (\A i, j \in DOMAIN ops :
                           IsSave(i) /\ IsSave(j) /\ ops[i].device = ops[j].device => i = j)'
                    /\ (\A i \in DOMAIN ops : IsSave(i) => StoredBy(ops[i]))'
                    /\ SavedIsStored'
  BY DEF SavesFit
<1>1. /\ \A i, j \in DOMAIN ops :
            ops[i].kind = "save" /\ ops[j].kind = "save" /\ ops[i].device = ops[j].device => i = j
      /\ \A i \in DOMAIN ops : ops[i].kind = "save" => StoredBy(ops[i])
      /\ \A d \in Device : Saving(d) \/ d \in partly \/ Says(d)
  BY SavesUse
<1>2. \A i \in DOMAIN ops : ops[i].device \in Device
  BY OpFields
<1>3. (\A i, j \in DOMAIN ops :
          IsSave(i) /\ IsSave(j) /\ ops[i].device = ops[j].device => i = j)'
  BY <1>1 DEF IsSave
<1>4. (\A i \in DOMAIN ops : IsSave(i) => StoredBy(ops[i]))'
  <2> SUFFICES ASSUME NEW j \in DOMAIN ops', ops'[j].kind = "save"
               PROVE  /\ ops'[j].pc \in {"patched", "handled"} =>
                            row'[ops'[j].device].alias = ops'[j].value.alias
                      /\ ops'[j].pc = "handled" =>
                           row'[ops'[j].device].branch = ops'[j].value.branch
                      /\ ops'[j].pc \in {"asked", "failed"} =>
                            \/ ops'[j].device \in partly
                            \/ told[ops'[j].device] = [alias |-> row'[ops'[j].device].alias,
                                                       branch |-> row'[ops'[j].device].branch]
    BY DEF StoredBy, IsSave, Says
  <2>1. from[j] \in DOMAIN ops /\ ops'[j] = ops[from[j]]
    OBVIOUS
  <2>2. StoredBy(ops[from[j]]) /\ Kept(ops[from[j]].device)
    BY <1>1, <1>2, <2>1
  <2> QED
    BY <2>1, <2>2 DEF StoredBy, Says, Kept
<1>5. SavedIsStored'
  <2> SUFFICES ASSUME NEW d \in Device, d \notin partly,
                      ~\E j \in DOMAIN ops' : ops'[j].kind = "save" /\ ops'[j].device = d
               PROVE  told[d] = [alias |-> row'[d].alias, branch |-> row'[d].branch]
    BY DEF SavedIsStored, Saving
  <2>1. Says(d)
    <3>1. CASE Saving(d)
      <4>1. PICK i \in DOMAIN ops : ops[i].kind = "save" /\ ops[i].device = d
        BY <3>1 DEF Saving
      <4>2. ops[i].pc = "failed"
        BY <4>1
      <4> QED
        BY <1>1, <4>1, <4>2 DEF StoredBy
    <3> QED
      BY <1>1, <3>1
  <2> QED
    BY <2>1 DEF Says, Kept
<1> QED
  BY <1>3, <1>4, <1>5

LEMMA SavesStay ==
    ASSUME PageTypes, SavesFit, told' = told, partly' = partly, mishaps \subseteq mishaps',
           \A d \in Device : Kept(d),
           \A j \in DOMAIN ops' : ops'[j].kind = "save" => j \in DOMAIN ops /\ ops'[j] = ops[j],
           \A i \in DOMAIN ops : ops[i].kind = "save" => i \in DOMAIN ops' /\ ops'[i] = ops[i]
    PROVE  SavesFit'
<1> DEFINE from == [j \in DOMAIN ops' |-> j]
<1>1. /\ \A j \in DOMAIN ops' : ops'[j].kind = "save" =>
           from[j] \in DOMAIN ops /\ ops'[j] = ops[from[j]]
      /\ \A j, k \in DOMAIN ops' : from[j] = from[k] => j = k
      /\ \A i \in DOMAIN ops : ops[i].kind = "save" =>
           (\E j \in DOMAIN ops' : from[j] = i /\ ops'[j] = ops[i]) \/ ops[i].pc = "failed"
  OBVIOUS
<1> HIDE DEF from
<1> QED
  BY <1>1, SavesMove

\* A row that is changed elsewhere was not being saved.
LEMMA SavesElsewhere ==
    ASSUME PageTypes, SavesFit, told' = told, ops' = ops, partly \subseteq partly',
           mishaps \subseteq mishaps',
           \A x \in Device : Kept(x) \/ (x \in partly' /\ (Saving(x) => "twoSaves" \in mishaps'))
    PROVE  SavesFit'
<1> SUFFICES ASSUME "twoSaves" \notin mishaps'
             PROVE  /\ (\A i, j \in DOMAIN ops :
                           IsSave(i) /\ IsSave(j) /\ ops[i].device = ops[j].device => i = j)'
                    /\ (\A i \in DOMAIN ops : IsSave(i) => StoredBy(ops[i]))'
                    /\ SavedIsStored'
  BY DEF SavesFit
<1>1. /\ \A i, j \in DOMAIN ops :
            ops[i].kind = "save" /\ ops[j].kind = "save" /\ ops[i].device = ops[j].device => i = j
      /\ \A i \in DOMAIN ops : ops[i].kind = "save" => StoredBy(ops[i])
      /\ \A d \in Device : Saving(d) \/ d \in partly \/ Says(d)
  BY SavesUse
<1>2. (\A i, j \in DOMAIN ops :
          IsSave(i) /\ IsSave(j) /\ ops[i].device = ops[j].device => i = j)'
  BY <1>1 DEF IsSave
<1>3. (\A i \in DOMAIN ops : IsSave(i) => StoredBy(ops[i]))'
  <2> SUFFICES ASSUME NEW i \in DOMAIN ops, ops[i].kind = "save"
               PROVE  /\ ops[i].pc \in {"patched", "handled"} =>
                            row'[ops[i].device].alias = ops[i].value.alias
                      /\ ops[i].pc = "handled" =>
                           row'[ops[i].device].branch = ops[i].value.branch
                      /\ ops[i].pc \in {"asked", "failed"} =>
                            \/ ops[i].device \in partly'
                            \/ told[ops[i].device] = [alias |-> row'[ops[i].device].alias,
                                                      branch |-> row'[ops[i].device].branch]
    BY DEF StoredBy, IsSave, Says
  <2>1. ops[i].device \in Device /\ Saving(ops[i].device)
    BY OpFields DEF Saving
  <2>2. StoredBy(ops[i]) /\ Kept(ops[i].device)
    BY <1>1, <2>1
  <2> QED
    BY <2>2 DEF StoredBy, Says, Kept
<1>4. SavedIsStored'
  <2> SUFFICES ASSUME NEW d \in Device, d \notin partly',
                      ~\E j \in DOMAIN ops : ops[j].kind = "save" /\ ops[j].device = d
               PROVE  told[d] = [alias |-> row'[d].alias, branch |-> row'[d].branch]
    BY DEF SavedIsStored, Saving
  <2>1. Says(d) /\ Kept(d)
    BY <1>1 DEF Saving
  <2> QED
    BY <2>1 DEF Says, Kept
<1> QED
  BY <1>2, <1>3, <1>4

LEMMA SavesEnd ==
    ASSUME PageTypes, SavesFit, told' = told, partly' = partly, mishaps \subseteq mishaps',
           row' = row, modals' = modals, NEW i \in DOMAIN ops, Ends(i),
           ops[i].kind # "save" \/ ops[i].pc = "failed"
    PROVE  SavesFit'
<1> DEFINE from == [j \in DOMAIN ops' |-> Before(i, j)]
<1>1. /\ \A j \in DOMAIN ops' : Before(i, j) \in DOMAIN ops \ {i} /\ ops'[j] = ops[Before(i, j)]
      /\ \A j, k \in DOMAIN ops' : Before(i, j) = Before(i, k) => j = k
      /\ \A k \in DOMAIN ops \ {i} : \E j \in DOMAIN ops' : k = Before(i, j)
  BY Ended DEF PageTypes
<1>2. /\ \A j \in DOMAIN ops' : ops'[j].kind = "save" =>
           from[j] \in DOMAIN ops /\ ops'[j] = ops[from[j]]
      /\ \A j, k \in DOMAIN ops' : from[j] = from[k] => j = k
  BY <1>1
<1>3. ASSUME NEW k \in DOMAIN ops, ops[k].kind = "save"
      PROVE  (\E j \in DOMAIN ops' : from[j] = k /\ ops'[j] = ops[k]) \/ ops[k].pc = "failed"
  BY <1>1, <1>3
<1>4. \A d \in Device : Kept(d)
  BY DEF Kept
<1> HIDE DEF from
<1> QED
  BY <1>2, <1>3, <1>4, SavesMove

\* A handler of a save goes on: its own row and notes may change, no other device's.
LEMMA SavesGoOn ==
    ASSUME PageTypes, SavesFit, "twoSaves" \notin mishaps, NEW i \in DOMAIN ops, ops[i].kind = "save",
           DOMAIN ops' = DOMAIN ops, \A j \in DOMAIN ops : j # i => ops'[j] = ops[j],
           ops'[i].kind = "save", ops'[i].device = ops[i].device, ops'[i].value = ops[i].value,
           \A x \in Device : x # ops[i].device => row'[x] = row[x],
           \A x \in Device : x # ops[i].device /\ x \in partly => x \in partly',
           told' = told,
           ops'[i].pc \in {"patched", "handled"} => row'[ops[i].device].alias = ops[i].value.alias,
           ops'[i].pc = "handled" => row'[ops[i].device].branch = ops[i].value.branch,
           ops'[i].pc \in {"asked", "failed"} => ops[i].device \in partly' \/ WillSay(ops[i].device)
    PROVE  SavesFit'
<1>1. /\ \A k, j \in DOMAIN ops :
            ops[k].kind = "save" /\ ops[j].kind = "save" /\ ops[k].device = ops[j].device => k = j
      /\ \A k \in DOMAIN ops : ops[k].kind = "save" => StoredBy(ops[k])
      /\ \A d \in Device : Saving(d) \/ d \in partly \/ Says(d)
  BY SavesUse
<1>2. \A k \in DOMAIN ops : ops[k].device \in Device
  BY OpFields
<1>3. (\A k, j \in DOMAIN ops :
          IsSave(k) /\ IsSave(j) /\ ops[k].device = ops[j].device => k = j)'
  BY <1>1 DEF IsSave
<1>4. (\A k \in DOMAIN ops : IsSave(k) => StoredBy(ops[k]))'
  <2> SUFFICES ASSUME NEW j \in DOMAIN ops', ops'[j].kind = "save"
               PROVE  /\ ops'[j].pc \in {"patched", "handled"} =>
                            row'[ops'[j].device].alias = ops'[j].value.alias
                      /\ ops'[j].pc = "handled" =>
                           row'[ops'[j].device].branch = ops'[j].value.branch
                      /\ ops'[j].pc \in {"asked", "failed"} =>
                            \/ ops'[j].device \in partly'
                            \/ told[ops'[j].device] = [alias |-> row'[ops'[j].device].alias,
                                                       branch |-> row'[ops'[j].device].branch]
    BY DEF StoredBy, IsSave, Says
  <2>1. CASE j = i
    BY <2>1 DEF Says, WillSay
  <2>2. CASE j # i
    <3>1. ops'[j] = ops[j] /\ StoredBy(ops[j]) /\ ops[j].device \in Device
          /\ ops[j].device # ops[i].device
      BY <1>1, <1>2, <2>2
    <3> QED
      BY <3>1 DEF StoredBy, Says, WillSay
  <2> QED
    BY <2>1, <2>2
<1>5. SavedIsStored'
  <2> SUFFICES ASSUME NEW d \in Device, d \notin partly',
                      ~\E j \in DOMAIN ops' : ops'[j].kind = "save" /\ ops'[j].device = d
               PROVE  told[d] = [alias |-> row'[d].alias, branch |-> row'[d].branch]
    BY DEF SavedIsStored, Saving
  <2>1. d # ops[i].device
    OBVIOUS
  <2>2. ~Saving(d)
    BY DEF Saving
  <2> QED
    BY <1>1, <2>1, <2>2 DEF Says
<1> QED
  BY <1>3, <1>4, <1>5 DEF SavesFit

LEMMA SavesHandled ==
    ASSUME PageTypes, SavesFit, NEW i \in DOMAIN ops, Handle(i) PROVE SavesFit'
<1>1. /\ modals' = modals /\ told' = told /\ mishaps' = mishaps
  BY DEF Handle, counters
<1>2. /\ \A x \in Device : x # ops[i].device => row'[x] = row[x]
      /\ ops[i].kind # "save" => (\A x \in Device : Kept(x)) /\ partly' = partly
      /\ ops[i].pc = "patched" => ops[i].kind = "save"
  BY HandledRow
<1>3. \E pc \in {"patched", "handled", "failed"} :
         Becomes(i, pc) /\ (pc = "patched" => ops[i].kind = "save")
  BY DEF Pending, Handle, ToggleFavorite, DeleteDevice, RestoreDevice, PurgeDevice, PatchDevice,
         SetDeviceBranch, AddDeviceTag, RemoveDeviceTag, RegisterLaunch
<1>4. /\ DOMAIN ops' = DOMAIN ops /\ \A j \in DOMAIN ops : j # i => ops'[j] = ops[j]
      /\ ops'[i].kind = ops[i].kind /\ ops'[i].device = ops[i].device
      /\ ops'[i].value = ops[i].value
  BY <1>1, <1>3, Became DEF PageTypes
<1>5. CASE ops[i].kind # "save"
  BY <1>1, <1>2, <1>4, <1>5, SavesStay
<1>6. CASE ops[i].kind = "save" /\ "twoSaves" \in mishaps
  BY <1>1, <1>6 DEF SavesFit
<1>7. CASE ops[i].kind = "save" /\ "twoSaves" \notin mishaps
  <2> DEFINE d == ops[i].device
             v == ops[i].value
  <2>1. /\ d \in Device /\ row \in [Device -> Row] /\ row[d] \in Row /\ StoredBy(ops[i])
        /\ Pending(i, "save") \/ ops[i].pc = "patched"
    BY <1>7, OpFields, SavesUse
       DEF PageTypes, ServerType, Pending, Handle, ToggleFavorite, DeleteDevice, RestoreDevice,
           PurgeDevice, PatchDevice, SetDeviceBranch, AddDeviceTag, RemoveDeviceTag, RegisterLaunch
  <2>2. PatchDevice(i) \/ SetDeviceBranch(i)
    BY <1>7
       DEF Pending, Handle, ToggleFavorite, DeleteDevice, RestoreDevice, PurgeDevice,
           AddDeviceTag, RemoveDeviceTag, RegisterLaunch
  <2>3. CASE PatchDevice(i) /\ Exists(d)
    <3>1. /\ row' = [row EXCEPT ![d].alias = v.alias] /\ Becomes(i, "patched") /\ partly' = partly
      BY <2>3 DEF PatchDevice
    <3>2. row'[d].alias = v.alias
      BY <2>1, <3>1 DEF Row
    <3>3. ops'[i].pc = "patched"
      BY <1>1, <1>7, <3>1, Became DEF PageTypes
    <3> QED
      BY <1>1, <1>2, <1>4, <1>7, <3>1, <3>2, <3>3, SavesGoOn
  <2>4. CASE PatchDevice(i) /\ ~Exists(d)
    <3>1. row' = row /\ Becomes(i, "failed") /\ partly' = partly /\ ops[i].pc = "asked"
      BY <2>4 DEF PatchDevice, Pending
    <3>2. ops'[i].pc = "failed"
      BY <1>1, <1>7, <3>1, Became DEF PageTypes
    <3>3. d \in partly' \/ WillSay(d)
      BY <1>1, <2>1, <3>1 DEF StoredBy, Says, WillSay
    <3> QED
      BY <1>1, <1>2, <1>4, <1>7, <3>1, <3>2, <3>3, SavesGoOn
  <2>5. CASE SetDeviceBranch(i) /\ Exists(d)
    <3>1. /\ row' = [row EXCEPT ![d].branch = v.branch] /\ Becomes(i, "handled")
          /\ partly' = partly /\ ops[i].pc = "patched"
      BY <2>5 DEF SetDeviceBranch
    <3>2. row[d].alias = v.alias
      BY <2>1, <3>1 DEF StoredBy
    <3>3. row'[d].branch = v.branch /\ row'[d].alias = v.alias
      BY <2>1, <3>1, <3>2 DEF Row
    <3>4. ops'[i].pc = "handled"
      BY <1>1, <1>7, <3>1, Became DEF PageTypes
    <3> QED
      BY <1>1, <1>2, <1>4, <1>7, <3>1, <3>3, <3>4, SavesGoOn
  <2>6. CASE SetDeviceBranch(i) /\ ~Exists(d)
    <3>1. row' = row /\ Becomes(i, "failed") /\ partly' = partly \union {d}
      BY <2>6 DEF SetDeviceBranch
    <3>2. ops'[i].pc = "failed"
      BY <1>1, <1>7, <3>1, Became DEF PageTypes
    <3> QED
      BY <1>1, <1>2, <1>4, <1>7, <3>1, <3>2, SavesGoOn
  <2> QED
    BY <2>2, <2>3, <2>4, <2>5, <2>6
<1> QED
  BY <1>5, <1>6, <1>7

LEMMA SavesLost ==
    ASSUME PageTypes, SavesFit, NEW i \in DOMAIN ops, Lose(i) PROVE SavesFit'
<1>1. /\ modals' = modals /\ told' = told /\ mishaps \subseteq mishaps' /\ row' = row
      /\ Becomes(i, "failed")
      /\ "twoSaves" \in mishaps' => "twoSaves" \in mishaps
  BY DEF Lose, serverVars
<1>2. /\ DOMAIN ops' = DOMAIN ops /\ \A j \in DOMAIN ops : j # i => ops'[j] = ops[j]
      /\ ops'[i].kind = ops[i].kind /\ ops'[i].device = ops[i].device
      /\ ops'[i].value = ops[i].value /\ ops'[i].pc = "failed"
  BY <1>1, Became DEF PageTypes
<1>3. CASE ops[i].kind # "save"
  <2>1. partly' = partly /\ \A d \in Device : Kept(d)
    BY <1>1, <1>3 DEF Lose, Kept
  <2> QED
    BY <1>1, <1>2, <1>3, <2>1, SavesStay
<1>4. CASE ops[i].kind = "save" /\ "twoSaves" \in mishaps
  BY <1>1, <1>4 DEF SavesFit
<1>5. CASE ops[i].kind = "save" /\ "twoSaves" \notin mishaps
  <2>1. StoredBy(ops[i]) /\ partly \subseteq partly'
    BY <1>5, SavesUse DEF Lose
  <2>2. ops[i].device \in partly' \/ WillSay(ops[i].device)
    <3>1. CASE ops[i].pc = "asked"
      <4>1. ops[i].device \in partly \/ Says(ops[i].device)
        BY <2>1, <3>1 DEF StoredBy
      <4> QED
        BY <1>1, <2>1, <4>1 DEF Says, WillSay
    <3>2. CASE ops[i].pc # "asked"
      BY <1>5, <3>2 DEF Lose
    <3> QED
      BY <3>1, <3>2
  <2> QED
    BY <1>1, <1>2, <1>5, <2>1, <2>2, SavesGoOn
<1> QED
  BY <1>3, <1>4, <1>5

LEMMA SavesDone ==
    ASSUME PageTypes, SavesFit, NEW i \in DOMAIN ops, SaveDone(i) PROVE SavesFit'
<1> DEFINE d == ops[i].device
<1>1. /\ modals' = modals /\ mishaps \subseteq mishaps' /\ row' = row /\ Ends(i)
      /\ told' = [told EXCEPT ![d] = ops[i].value] /\ partly' = partly \ {d}
      /\ ops[i].kind = "save" /\ ops[i].pc = "handled"
  BY DEF SaveDone, Refresh, serverVars, counters
<1> SUFFICES ASSUME "twoSaves" \notin mishaps'
             PROVE  /\ (\A k, j \in DOMAIN ops :
                           IsSave(k) /\ IsSave(j) /\ ops[k].device = ops[j].device => k = j)'
                    /\ (\A k \in DOMAIN ops : IsSave(k) => StoredBy(ops[k]))'
                    /\ SavedIsStored'
  BY DEF SavesFit
<1>2. /\ \A k, j \in DOMAIN ops :
            ops[k].kind = "save" /\ ops[j].kind = "save" /\ ops[k].device = ops[j].device => k = j
      /\ \A k \in DOMAIN ops : ops[k].kind = "save" => StoredBy(ops[k])
      /\ \A x \in Device : Saving(x) \/ x \in partly \/ Says(x)
  BY <1>1, SavesUse
<1>3. /\ \A j \in DOMAIN ops' : Before(i, j) \in DOMAIN ops \ {i} /\ ops'[j] = ops[Before(i, j)]
      /\ \A j, k \in DOMAIN ops' : Before(i, j) = Before(i, k) => j = k
      /\ \A k \in DOMAIN ops \ {i} : \E j \in DOMAIN ops' : k = Before(i, j)
  BY <1>1, Ended DEF PageTypes
<1>4. d \in Device /\ told \in [Device -> Fields] /\ ops[i].value \in Fields
  BY <1>1, OpFields DEF PageTypes, NotesType, OpsType, OpsFit
<1>5. (\A k, j \in DOMAIN ops :
          IsSave(k) /\ IsSave(j) /\ ops[k].device = ops[j].device => k = j)'
  BY <1>2, <1>3 DEF IsSave
<1>6. \A j \in DOMAIN ops' : ops'[j].kind = "save" => ops'[j].device # d
  BY <1>1, <1>2, <1>3
<1>7. (\A k \in DOMAIN ops : IsSave(k) => StoredBy(ops[k]))'
  <2> SUFFICES ASSUME NEW j \in DOMAIN ops', ops'[j].kind = "save"
               PROVE  /\ ops'[j].pc \in {"patched", "handled"} =>
                            row'[ops'[j].device].alias = ops'[j].value.alias
                      /\ ops'[j].pc = "handled" =>
                           row'[ops'[j].device].branch = ops'[j].value.branch
                      /\ ops'[j].pc \in {"asked", "failed"} =>
                            \/ ops'[j].device \in partly'
                            \/ told'[ops'[j].device] = [alias |-> row'[ops'[j].device].alias,
                                                        branch |-> row'[ops'[j].device].branch]
    BY DEF StoredBy, IsSave, Says
  <2>1. PICK k \in DOMAIN ops : ops'[j] = ops[k]
    BY <1>3
  <2>2. StoredBy(ops[k]) /\ ops[k].device # d /\ ops[k].device \in Device
    BY <1>2, <1>6, <2>1, OpFields
  <2>3. told'[ops[k].device] = told[ops[k].device]
    BY <1>1, <1>4, <2>2
  <2> HIDE DEF d
  <2> QED
    BY <1>1, <2>1, <2>2, <2>3 DEF StoredBy, Says, WillSay
<1>8. SavedIsStored'
  <2> SUFFICES ASSUME NEW x \in Device, x \notin partly',
                      ~\E j \in DOMAIN ops' : ops'[j].kind = "save" /\ ops'[j].device = x
               PROVE  told'[x] = [alias |-> row'[x].alias, branch |-> row'[x].branch]
    BY DEF SavedIsStored, Saving
  <2>1. CASE x = d
    <3>1. StoredBy(ops[i]) /\ told'[d] = ops[i].value
      BY <1>1, <1>2, <1>4
    <3>2. row[d].alias = ops[i].value.alias /\ row[d].branch = ops[i].value.branch
      BY <1>1, <3>1 DEF StoredBy
    <3>3. ops[i].value = [alias |-> ops[i].value.alias, branch |-> ops[i].value.branch]
      BY <1>4 DEF Fields
    <3> QED
      BY <1>1, <2>1, <3>1, <3>2, <3>3
  <2>2. CASE x # d
    <3>1. ~Saving(x)
      BY <1>3, <2>2 DEF Saving
    <3>2. Says(x) /\ told'[x] = told[x]
      BY <1>1, <1>2, <1>4, <2>2, <3>1
    <3> QED
      BY <1>1, <3>2 DEF Says
  <2> QED
    BY <2>1, <2>2
<1> QED
  BY <1>5, <1>7, <1>8

LEMMA SavesBegun ==
    ASSUME PageTypes, SavesFit, "twoSaves" \notin mishaps', mishaps' = mishaps,
           NEW d \in Device, ~Saving(d), row' = row, told' = told, partly' = partly,
           DOMAIN ops = 1..Len(ops), DOMAIN ops' = 1..(Len(ops) + 1), Len(ops) \in Nat,
           \A i \in DOMAIN ops : ops'[i] = ops[i],
           ops'[Len(ops) + 1].kind = "save", ops'[Len(ops) + 1].device = d,
           ops'[Len(ops) + 1].pc = "asked"
    PROVE  SavesFit'
<1> DEFINE n == Len(ops) + 1
<1>1. /\ \A i, j \in DOMAIN ops :
            ops[i].kind = "save" /\ ops[j].kind = "save" /\ ops[i].device = ops[j].device => i = j
      /\ \A i \in DOMAIN ops : ops[i].kind = "save" => StoredBy(ops[i])
      /\ \A x \in Device : Saving(x) \/ x \in partly \/ Says(x)
  BY SavesUse
<1>2. \A i \in DOMAIN ops : ops[i].kind = "save" => ops[i].device # d
  BY DEF Saving
<1>3. \A i \in DOMAIN ops' : i \in DOMAIN ops \/ i = n
  OBVIOUS
<1> HIDE DEF n
<1>4. (\A i, j \in DOMAIN ops :
          IsSave(i) /\ IsSave(j) /\ ops[i].device = ops[j].device => i = j)'
  BY <1>1, <1>2, <1>3 DEF IsSave, n
<1>5. (\A i \in DOMAIN ops : IsSave(i) => StoredBy(ops[i]))'
  <2> SUFFICES ASSUME NEW j \in DOMAIN ops', ops'[j].kind = "save"
               PROVE  /\ ops'[j].pc \in {"patched", "handled"} =>
                            row'[ops'[j].device].alias = ops'[j].value.alias
                      /\ ops'[j].pc = "handled" =>
                           row'[ops'[j].device].branch = ops'[j].value.branch
                      /\ ops'[j].pc \in {"asked", "failed"} =>
                            ops'[j].device \in partly \/ Says(ops'[j].device)
    BY DEF StoredBy, IsSave, Says
  <2>1. CASE j \in DOMAIN ops
    BY <1>1, <2>1 DEF StoredBy
  <2>2. CASE j = n
    BY <1>1, <2>2 DEF n
  <2> QED
    BY <1>3, <2>1, <2>2
<1>6. SavedIsStored'
  <2> SUFFICES ASSUME NEW x \in Device, x \notin partly,
                      ~\E j \in DOMAIN ops' : ops'[j].kind = "save" /\ ops'[j].device = x
               PROVE  Says(x)
    BY DEF SavedIsStored, Saving, Says
  <2>1. ~Saving(x)
    <3>1. \A j \in DOMAIN ops : j \in DOMAIN ops'
      OBVIOUS
    <3> QED
      BY <3>1 DEF Saving
  <2> QED
    BY <1>1, <2>1
<1> QED
  BY <1>4, <1>5, <1>6 DEF SavesFit

LEMMA SavesInit == DevicesInit => SavesFit
BY DEF DevicesInit, SavesFit, SavedIsStored

\* An appended handler of another kind
LEMMA SavesOther ==
    ASSUME PageTypes, SavesFit, told' = told, partly' = partly, mishaps' = mishaps, row' = row,
           modals' = modals, NEW d \in Device, NEW n \in 0..modals,
           NEW kind \in {"favorite", "delete", "restore", "purge", "add", "remove", "connect"},
           NEW value \in Tag \union {Null}, kind \in {"add", "remove"} => value \in Tag,
           kind = "connect" => d \in Numeric, Begin(kind, d, n, value)
    PROVE  SavesFit'
<1>1. modals \in 0..MaxModals /\ modals' \in Nat /\ modals <= modals'
  BY Bounds DEF PageTypes, ModalType
<1>2. /\ DOMAIN ops = 1..Len(ops) /\ DOMAIN ops' = 1..(Len(ops) + 1) /\ Len(ops) \in Nat
      /\ \A i \in DOMAIN ops : ops'[i] = ops[i]
      /\ ops'[Len(ops) + 1].kind = kind
  <2>1. /\ kind \in {"favorite", "delete", "restore", "purge", "save", "add", "remove", "connect"}
        /\ value \in Fields \union Tag \union {Null} /\ kind # "save"
        /\ OpsType /\ ShownType
    BY DEF PageTypes
  <2>2. /\ DOMAIN ops = 1..Len(ops) /\ DOMAIN ops' = 1..(Len(ops) + 1) /\ Len(ops) \in Nat
        /\ \A i \in DOMAIN ops : ops'[i] = ops[i]
        /\ ops'[Len(ops) + 1] = [kind |-> kind, device |-> d, modal |-> n, filter |-> filter,
                                 value |-> value, pc |-> "asked"]
    BY <1>1, <2>1, Begun
  <2> QED
    BY <2>2
<1>3. /\ \A j \in DOMAIN ops' : ops'[j].kind = "save" => j \in DOMAIN ops /\ ops'[j] = ops[j]
      /\ \A i \in DOMAIN ops : ops[i].kind = "save" => i \in DOMAIN ops' /\ ops'[i] = ops[i]
  BY <1>2
<1>4. \A x \in Device : Kept(x)
  BY DEF Kept
<1> QED
  BY <1>3, <1>4, SavesStay

LEMMA SavesStep == PageTypes /\ SavesFit /\ [DevicesNext]_devicesVars => SavesFit'
<1> SUFFICES ASSUME PageTypes, SavesFit, [DevicesNext]_devicesVars PROVE SavesFit'
  OBVIOUS
<1> USE DEF serverVars, counters, history
<1>0. /\ modal # Null => /\ modal.device \in Device /\ modal.n \in 0..modals
                          /\ modal.edit \in Fields
      /\ 0 \in 0..modals
  BY Bounds DEF PageTypes, ModalType, Modal
<1>1. ASSUME ops' = ops, row' = row, told' = told, partly' = partly, mishaps \subseteq mishaps'
      PROVE  SavesFit'
  <2>1. \A d \in Device : Kept(d)
    BY <1>1 DEF Kept
  <2> QED
    BY <1>1, <2>1, SavesStay
<1>2. ASSUME NEW d \in Device, NEW k \in {"favorite", "delete", "connect"}, CardClick(k, d)
      PROVE  SavesFit'
  BY <1>0, <1>2, SavesOther DEF CardClick
<1>3. ASSUME NEW d \in Device, NEW k \in {"restore", "purge"}, TrashClick(k, d) PROVE SavesFit'
  BY <1>0, <1>3, SavesOther DEF TrashClick
<1>4. ASSUME NEW t \in Tag, ToggleTag(t) PROVE SavesFit'
  BY <1>0, <1>4, SavesOther DEF ToggleTag
<1>5. ASSUME NEW k \in {"favorite", "delete", "connect"}, ModalClick(k) PROVE SavesFit'
  BY <1>0, <1>5, SavesOther DEF ModalClick
<1>6. CASE Save
  <2>1. CASE Saving(modal.device)
    BY <1>6, <2>1 DEF Save, SavesFit
  <2>2. CASE ~Saving(modal.device)
    <3>1. modals \in 0..MaxModals /\ modals' \in Nat /\ modals <= modals'
      BY <1>6, Bounds DEF Save, PageTypes, ModalType
    <3>2. /\ DOMAIN ops = 1..Len(ops) /\ DOMAIN ops' = 1..(Len(ops) + 1) /\ Len(ops) \in Nat
          /\ \A i \in DOMAIN ops : ops'[i] = ops[i]
          /\ ops'[Len(ops) + 1].kind = "save" /\ ops'[Len(ops) + 1].device = modal.device
          /\ ops'[Len(ops) + 1].pc = "asked"
      <4>1. /\ OpsType /\ ShownType /\ modal.edit \in Fields /\ modal.device \in Device
            /\ modal.n \in 0..modals /\ Begin("save", modal.device, modal.n, modal.edit)
        BY <1>0, <1>6 DEF Save, PageTypes
      <4>2. /\ DOMAIN ops = 1..Len(ops) /\ DOMAIN ops' = 1..(Len(ops) + 1) /\ Len(ops) \in Nat
            /\ \A i \in DOMAIN ops : ops'[i] = ops[i]
            /\ ops'[Len(ops) + 1] = [kind |-> "save", device |-> modal.device, modal |-> modal.n,
                                     filter |-> filter, value |-> modal.edit, pc |-> "asked"]
        BY <3>1, <4>1, Begun
      <4> QED
        BY <4>2
    <3>3. /\ mishaps' = mishaps /\ row' = row /\ told' = told /\ partly' = partly
          /\ modal.device \in Device
      BY <1>0, <1>6, <2>2 DEF Save
    <3>4. CASE "twoSaves" \in mishaps'
      BY <3>4 DEF SavesFit
    <3>5. CASE "twoSaves" \notin mishaps'
      BY <2>2, <3>2, <3>3, <3>5, SavesBegun
    <3> QED
      BY <3>4, <3>5
  <2> QED
    BY <2>1, <2>2
<1>7. ASSUME NEW i \in DOMAIN ops, Handle(i) PROVE SavesFit'
  BY <1>7, SavesHandled
<1>8. ASSUME NEW i \in DOMAIN ops, Lose(i) PROVE SavesFit'
  BY <1>8, SavesLost
<1>9. ASSUME NEW i \in DOMAIN ops, GoOn(i) PROVE SavesFit'
  <2>1. CASE SaveDone(i)
    BY <2>1, SavesDone
  <2>2. CASE ~SaveDone(i)
    <3>1. /\ told' = told /\ partly' = partly /\ mishaps \subseteq mishaps'
          /\ row' = row /\ modals' = modals /\ Ends(i)
          /\ ops[i].kind # "save" \/ ops[i].pc = "failed"
      BY <1>9, <2>2 DEF GoOn, ActionDone, TagDone, ConnectDone, OpFails, Refresh
    <3> QED
      BY <3>1, SavesEnd
  <2> QED
    BY <2>1, <2>2
<1>10. ASSUME NEW d \in Device, Foreign(d) PROVE SavesFit'
  <2>1. told' = told /\ ops' = ops
    BY <1>10 DEF Foreign
  <2> QED
    BY <1>10, <2>1, ForeignRow, SavesElsewhere
<1>11. CASE UNCHANGED devicesVars
  BY <1>1, <1>11 DEF devicesVars
<1>12. CASE \/ Poll \/ FetchTags \/ (\E i \in 1..MaxLoads : Loaded(i))
            \/ (\E i \in DOMAIN loads : LoadFails(i)) \/ (\E f \in Filters : ChangeFilter(f))
            \/ (\E d \in Device : OpenModal(d)) \/ CloseModal \/ (\E x \in Fields : Edit(x))
  BY <1>1, <1>12
     DEF Poll, FetchTags, Loaded, LoadFails, ChangeFilter, OpenModal, CloseModal, Edit
<1> QED
  BY <1>2, <1>3, <1>4, <1>5, <1>6, <1>7, <1>8, <1>9, <1>10, <1>11, <1>12
     DEF DevicesNext, Administrator, OpStep

\* What the last save said of a device is stored whole, whatever overtook, failed or was
\* clicked meanwhile, but for the exceptions named.
THEOREM SavedDeviceCorrect == DevicesSpec => []SavedIsStored
<1>1. SavesFit => SavedIsStored
  BY DEF SavesFit, SavedIsStored
<1> QED
  BY <1>1, SavesInit, SavesStep, TypesInvariant, PTL DEF DevicesSpec

-----------------------------------------------------------------------------
(* The tags in the window *)

\* A handler for a tag of the device whose window is open
TagOp(i) == ops[i].kind \in {"add", "remove"} /\ ops[i].device = modal.device

\* The window knows what its device has, but for what is asked or unanswered.
TagsAgree ==
    /\ \A t \in Tag : (\A i \in DOMAIN ops : TagOp(i) => ops[i].value # t)
                      => (t \in modal.tags <=> t \in tagged[modal.device])
    /\ \A i \in DOMAIN ops : TagOp(i) =>
          /\ ops[i].pc \in {"asked", "failed"} =>
                (ops[i].value \in modal.tags <=> ops[i].value \in tagged[modal.device])
          /\ ops[i].pc = "handled" =>
                (ops[i].value \in tagged[modal.device] <=> ops[i].kind = "add")

\* While the window is sure, its device has no handlers for tags but its own, one for each.
SureTags ==
    /\ modal.fetch \in {"asked", "read"} => \A i \in DOMAIN ops : ~TagOp(i)
    /\ \A i \in DOMAIN ops : TagOp(i) => ops[i].modal = modal.n
    /\ \A i, j \in DOMAIN ops : TagOp(i) /\ TagOp(j) /\ ops[i].value = ops[j].value => i = j
    /\ modal.fetch \in {"read", "shown"} /\ Exists(modal.device) => TagsAgree

OwnDevice == \A i \in DOMAIN ops : ops[i].modal = modal.n => ops[i].device = modal.device

TagsFit == modal # Null => OwnDevice /\ (modal.sure => SureTags)

LEMMA TagsGiveShown == PageTypes /\ TagsFit => TagsAreShown
<1> SUFFICES ASSUME PageTypes, TagsFit, modal # Null, modal.fetch = "shown", modal.sure,
                    ~Tagging(modal.device, Tag), Exists(modal.device)
             PROVE  modal.tags = tagged[modal.device]
  BY DEF TagsAreShown
<1>1. TagsAgree
  BY DEF TagsFit, SureTags
<1>2. \A i \in DOMAIN ops : ~TagOp(i)
  BY OpFields DEF Tagging, TagOp
<1>3. modal.tags \subseteq Tag /\ tagged[modal.device] \subseteq Tag
  BY DEF PageTypes, ServerType, ModalType, Modal
<1> QED
  BY <1>1, <1>2, <1>3 DEF TagsAgree

SameWindow ==
    /\ modal # Null /\ modal'.n = modal.n /\ modal'.device = modal.device
    /\ modal'.sure =>
         /\ modal.sure /\ modal'.tags = modal.tags /\ modal'.fetch = modal.fetch
         /\ Exists(modal.device)' =>
               Exists(modal.device) /\ tagged'[modal.device] = tagged[modal.device]

\* The window still says what it knows, and a request that is not handled changes nothing.
SamePc(new, old) ==
    modal'.sure /\ Exists(modal.device)' /\ new.kind \in {"add", "remove"} /\ new.device = modal.device
        => new.pc = old.pc \/ (old.pc = "asked" /\ new.pc = "failed")

\* The same window with the same tags; handlers for its tags only move, but for one that
\* failed, which may end.
LEMMA TagsMove ==
    ASSUME PageTypes, TagsFit, SameWindow, NEW from,
           \A j \in DOMAIN ops' :
              \/ /\ from[j] \in DOMAIN ops /\ ops'[j].kind = ops[from[j]].kind
                 /\ ops'[j].device = ops[from[j]].device /\ ops'[j].modal = ops[from[j]].modal
                 /\ ops'[j].value = ops[from[j]].value
                 /\ SamePc(ops'[j], ops[from[j]])
              \/ /\ ops'[j].kind \notin {"add", "remove"}
                 /\ ops'[j].modal = modal.n => ops'[j].device = modal.device,
           \A j, k \in DOMAIN ops' : from[j] = from[k] => j = k,
           \A i \in DOMAIN ops : modal.sure /\ TagOp(i) =>
              (\E j \in DOMAIN ops' : from[j] = i /\ ops'[j].kind = ops[i].kind) \/ ops[i].pc = "failed"
    PROVE  TagsFit'
<1> USE DEF SameWindow
<1> DEFINE Is(j) == ops'[j].kind \in {"add", "remove"} /\ ops'[j].device = modal.device
<1>1. \A j \in DOMAIN ops' : Is(j) =>
         /\ from[j] \in DOMAIN ops /\ TagOp(from[j])
         /\ ops'[j].kind = ops[from[j]].kind /\ ops'[j].modal = ops[from[j]].modal
         /\ ops'[j].value = ops[from[j]].value
         /\ modal'.sure /\ Exists(modal.device)' =>
               \/ ops'[j].pc = ops[from[j]].pc
               \/ ops[from[j]].pc = "asked" /\ ops'[j].pc = "failed"
  BY DEF TagOp, SamePc
<1>2. \A i \in DOMAIN ops : modal.sure /\ TagOp(i) =>
        (\E j \in DOMAIN ops' : from[j] = i /\ Is(j)) \/ ops[i].pc = "failed"
  <2> SUFFICES ASSUME NEW i \in DOMAIN ops, modal.sure, TagOp(i), ops[i].pc # "failed"
               PROVE  \E j \in DOMAIN ops' : from[j] = i /\ Is(j)
    OBVIOUS
  <2>1. PICK j \in DOMAIN ops' : from[j] = i /\ ops'[j].kind = ops[i].kind
    BY DEF TagOp
  <2> QED
    BY <2>1 DEF TagOp
<1>3. OwnDevice'
  BY DEF OwnDevice, TagsFit
<1>4. ASSUME modal'.sure PROVE SureTags'
  <2>1. SureTags
    BY <1>4 DEF TagsFit
  <2>2. \A j \in DOMAIN ops' : TagOp(j)' <=> Is(j)
    BY DEF TagOp
  <2> HIDE DEF Is
  <2>3. (modal.fetch \in {"asked", "read"} => \A i \in DOMAIN ops : ~TagOp(i))'
    BY <1>1, <1>4, <2>1, <2>2 DEF SureTags
  <2>4. (\A i \in DOMAIN ops : TagOp(i) => ops[i].modal = modal.n)'
    BY <1>1, <1>4, <2>1, <2>2 DEF SureTags
  <2>5. (\A i, j \in DOMAIN ops : TagOp(i) /\ TagOp(j) /\ ops[i].value = ops[j].value => i = j)'
    <3> SUFFICES ASSUME NEW i \in DOMAIN ops', NEW j \in DOMAIN ops', Is(i), Is(j),
                        ops'[i].value = ops'[j].value
                 PROVE  i = j
      BY <2>2
    <3>1. from[i] = from[j]
      BY <1>1, <2>1 DEF SureTags
    <3> QED
      BY <3>1
  <2>6. ASSUME modal'.fetch \in {"read", "shown"}, Exists(modal.device)' PROVE TagsAgree'
    <3>1. TagsAgree /\ tagged'[modal.device] = tagged[modal.device]
      BY <1>4, <2>1, <2>6 DEF SureTags
    <3>2. ASSUME NEW t \in Tag, \A j \in DOMAIN ops' : Is(j) => ops'[j].value # t
          PROVE  t \in modal.tags <=> t \in tagged[modal.device]
      <4>1. CASE \A i \in DOMAIN ops : TagOp(i) => ops[i].value # t
        BY <3>1, <4>1 DEF TagsAgree
      <4>2. CASE \E i \in DOMAIN ops : TagOp(i) /\ ops[i].value = t
        <5>1. PICK i \in DOMAIN ops : TagOp(i) /\ ops[i].value = t
          BY <4>2
        <5>2. ops[i].pc = "failed"
          BY <1>1, <1>2, <1>4, <3>2, <5>1
        <5> QED
          BY <3>1, <5>1, <5>2 DEF TagsAgree
      <4> QED
        BY <4>1, <4>2
    <3>3. ASSUME NEW j \in DOMAIN ops', Is(j)
          PROVE  /\ ops'[j].pc \in {"asked", "failed"} =>
                       (ops'[j].value \in modal.tags <=> ops'[j].value \in tagged[modal.device])
                 /\ ops'[j].pc = "handled" =>
                       (ops'[j].value \in tagged[modal.device] <=> ops'[j].kind = "add")
      <4>1. ops'[j].pc = ops[from[j]].pc \/ (ops[from[j]].pc = "asked" /\ ops'[j].pc = "failed")
        BY <1>1, <1>4, <2>6, <3>3
      <4> QED
        BY <1>1, <1>4, <3>1, <3>3, <4>1 DEF TagsAgree
    <3> QED
      BY <1>4, <2>2, <3>1, <3>2, <3>3 DEF TagsAgree
  <2> QED
    BY <2>3, <2>4, <2>5, <2>6 DEF SureTags
<1> QED
  BY <1>3, <1>4 DEF TagsFit

LEMMA TagsStay ==
    ASSUME PageTypes, TagsFit, SameWindow, DOMAIN ops' = DOMAIN ops,
           \A j \in DOMAIN ops :
              /\ ops'[j].kind = ops[j].kind /\ ops'[j].device = ops[j].device
              /\ ops'[j].modal = ops[j].modal /\ ops'[j].value = ops[j].value
              /\ SamePc(ops'[j], ops[j])
    PROVE  TagsFit'
<1> DEFINE from == [j \in DOMAIN ops' |-> j]
<1>1. \A j \in DOMAIN ops' : from[j] = j
  OBVIOUS
<1> HIDE DEF from
<1> QED
  BY <1>1, TagsMove

LEMMA TagsAppend ==
    ASSUME PageTypes, TagsFit, SameWindow, Len(ops) \in Nat,
           DOMAIN ops = 1..Len(ops), DOMAIN ops' = 1..(Len(ops) + 1),
           \A i \in DOMAIN ops : ops'[i] = ops[i],
           ops'[Len(ops) + 1].kind \notin {"add", "remove"},
           ops'[Len(ops) + 1].modal = modal.n => ops'[Len(ops) + 1].device = modal.device
    PROVE  TagsFit'
<1> DEFINE from == [j \in DOMAIN ops' |-> j]
<1>1. \A j \in DOMAIN ops' : from[j] = j
  OBVIOUS
<1> HIDE DEF from
<1>2. \A j \in DOMAIN ops' :
        \/ j \in DOMAIN ops /\ ops'[j] = ops[j] /\ SamePc(ops'[j], ops[j])
        \/ j = Len(ops) + 1
  BY DEF SamePc
<1>3. \A i \in DOMAIN ops : i \in DOMAIN ops' /\ ops'[i] = ops[i]
  OBVIOUS
<1> QED
  BY <1>1, <1>2, <1>3, TagsMove

LEMMA TagsEnd ==
    ASSUME PageTypes, TagsFit, SameWindow, modals' = modals, NEW i \in DOMAIN ops, Ends(i),
           modal.sure /\ TagOp(i) => ops[i].pc = "failed"
    PROVE  TagsFit'
<1> DEFINE from == [j \in DOMAIN ops' |-> Before(i, j)]
<1>1. /\ \A j \in DOMAIN ops' : Before(i, j) \in DOMAIN ops \ {i} /\ ops'[j] = ops[Before(i, j)]
      /\ \A j, k \in DOMAIN ops' : Before(i, j) = Before(i, k) => j = k
      /\ \A k \in DOMAIN ops \ {i} : \E j \in DOMAIN ops' : k = Before(i, j)
  BY Ended DEF PageTypes
<1>2. /\ \A j \in DOMAIN ops' : /\ from[j] \in DOMAIN ops /\ ops'[j] = ops[from[j]]
                              /\ SamePc(ops'[j], ops[from[j]])
      /\ \A j, k \in DOMAIN ops' : from[j] = from[k] => j = k
  BY <1>1 DEF SamePc
<1>3. ASSUME NEW k \in DOMAIN ops, modal.sure, TagOp(k)
      PROVE  (\E j \in DOMAIN ops' : from[j] = k /\ ops'[j].kind = ops[k].kind) \/ ops[k].pc = "failed"
  BY <1>1, <1>3
<1> HIDE DEF from
<1> QED
  BY <1>2, <1>3, TagsMove

LEMMA TagsOpened == PageTypes /\ (\E d \in Device : OpenModal(d)) => TagsFit'
<1> SUFFICES ASSUME PageTypes, NEW d \in Device, OpenModal(d) PROVE TagsFit'
  OBVIOUS
<1>1. /\ modal'.n = modals + 1 /\ modal'.device = d /\ modal'.fetch = "asked"
      /\ modal'.sure = ~Tagging(d, Tag) /\ ops' = ops
  BY DEF OpenModal
<1>2. OwnDevice'
  <2>1. \A i \in DOMAIN ops : ops[i].modal \in Nat /\ ops[i].modal <= modals /\ modals \in Nat
    BY OpFields, Bounds DEF Op, PageTypes, OpsType, OpsFit, ModalType
  <2> QED
    BY <1>1, <2>1 DEF OwnDevice
<1>3. ASSUME modal'.sure PROVE SureTags'
  <2>1. \A i \in DOMAIN ops' : ~TagOp(i)'
    BY <1>1, <1>3, OpFields DEF TagOp, Tagging
  <2> QED
    BY <1>1, <2>1 DEF SureTags
<1> QED
  BY <1>2, <1>3 DEF TagsFit

LEMMA TagsFetched == PageTypes /\ TagsFit /\ FetchTags => TagsFit'
<1> SUFFICES ASSUME PageTypes, TagsFit, FetchTags PROVE TagsFit'
  OBVIOUS
<1>1. /\ modal \in Modal /\ modal # Null /\ ops' = ops /\ row' = row /\ tagged' = tagged
  BY DEF FetchTags, PageTypes, ModalType, serverVars
<1>2. CASE modal.fetch = "asked"
  <2>1. /\ modal'.n = modal.n /\ modal'.device = modal.device /\ modal'.sure = modal.sure
        /\ modal'.fetch = "read" /\ modal'.tags = tagged[modal.device]
    BY <1>1, <1>2 DEF FetchTags, Modal
  <2>2. modal.sure => \A i \in DOMAIN ops : ~TagOp(i)
    BY <1>1, <1>2 DEF TagsFit, SureTags
  <2>3. ASSUME modal'.sure PROVE SureTags'
    <3>1. \A i \in DOMAIN ops' : ~TagOp(i)'
      BY <1>1, <2>1, <2>2, <2>3 DEF TagOp
    <3> QED
      BY <1>1, <2>1, <3>1 DEF SureTags, TagsAgree
  <2> QED
    BY <1>1, <2>1, <2>3 DEF TagsFit, OwnDevice
<1>3. CASE modal.fetch = "read"
  <2>1. /\ modal'.n = modal.n /\ modal'.device = modal.device /\ modal'.sure = modal.sure
        /\ modal'.fetch \in {"shown", "failed"} /\ modal'.tags = modal.tags
    BY <1>1, <1>3 DEF FetchTags, Modal
  <2>2. ASSUME modal'.sure PROVE SureTags'
    <3>1. SureTags
      BY <1>1, <2>1, <2>2 DEF TagsFit
    <3> QED
      BY <1>1, <1>3, <2>1, <3>1 DEF SureTags, TagsAgree, TagOp, Exists
  <2> QED
    BY <1>1, <2>1, <2>2 DEF TagsFit, OwnDevice
<1> QED
  BY <1>2, <1>3 DEF FetchTags

\* A click on a tag: it is asked for what the window shows.
LEMMA TagsClicked == PageTypes /\ TagsFit /\ (\E t \in Tag : ToggleTag(t)) => TagsFit'
<1> SUFFICES ASSUME PageTypes, TagsFit, NEW t \in Tag, ToggleTag(t) PROVE TagsFit'
  OBVIOUS
<1> DEFINE n == Len(ops) + 1
           kind == IF t \in modal.tags THEN "remove" ELSE "add"
<1>1. /\ modal # Null /\ modal \in Modal /\ modal.fetch = "shown"
      /\ row' = row /\ tagged' = tagged /\ modals' = modals
      /\ modal' = [modal EXCEPT !.sure = @ /\ ~Tagging(modal.device, {t})]
      /\ Begin(kind, modal.device, modal.n, t)
  BY DEF ToggleTag, PageTypes, ModalType, serverVars
<1>2. /\ modal'.n = modal.n /\ modal'.device = modal.device /\ modal'.tags = modal.tags
      /\ modal'.fetch = modal.fetch
      /\ modal'.sure => modal.sure /\ ~Tagging(modal.device, {t})
  BY <1>1 DEF Modal
<1>3. /\ DOMAIN ops = 1..Len(ops) /\ DOMAIN ops' = 1..(Len(ops) + 1) /\ Len(ops) \in Nat
      /\ \A i \in DOMAIN ops : ops'[i] = ops[i]
      /\ ops'[n] = [kind |-> kind, device |-> modal.device, modal |-> modal.n,
                    filter |-> filter, value |-> t, pc |-> "asked"]
  <2>1. /\ modals \in 0..MaxModals /\ modals' \in Nat /\ modals <= modals'
        /\ OpsType /\ ShownType /\ modal.device \in Device /\ modal.n \in 0..modals
        /\ kind \in {"favorite", "delete", "restore", "purge", "save", "add", "remove", "connect"}
        /\ t \in Fields \union Tag \union {Null} /\ kind \notin {"save", "connect"}
    BY <1>1, Bounds DEF PageTypes, ModalType, Modal
  <2> HIDE DEF kind
  <2> QED
    BY <1>1, <2>1, Begun
<1>4. /\ ops'[n].kind \in {"add", "remove"} /\ ops'[n].device = modal.device
      /\ ops'[n].modal = modal.n /\ ops'[n].value = t /\ ops'[n].pc = "asked"
      /\ \A j \in DOMAIN ops' : j \in DOMAIN ops \/ j = n
      /\ \A j \in DOMAIN ops : j \in DOMAIN ops' /\ j # n
  BY <1>3
<1> HIDE DEF n, kind
<1>5. OwnDevice'
  BY <1>1, <1>2, <1>3, <1>4 DEF OwnDevice, TagsFit
<1>6. ASSUME modal'.sure PROVE SureTags'
  <2>1. SureTags /\ \A j \in DOMAIN ops : TagOp(j) => ops[j].value # t
    BY <1>1, <1>2, <1>6 DEF TagsFit, Tagging, TagOp
  <2>2. \A j \in DOMAIN ops : TagOp(j)' <=> TagOp(j)
    BY <1>2, <1>3 DEF TagOp
  <2>3. (\A i \in DOMAIN ops : TagOp(i) => ops[i].modal = modal.n)'
    BY <1>2, <1>3, <1>4, <2>1, <2>2 DEF SureTags
  <2>4. (\A i, j \in DOMAIN ops : TagOp(i) /\ TagOp(j) /\ ops[i].value = ops[j].value => i = j)'
    <3> SUFFICES ASSUME NEW i \in DOMAIN ops', NEW j \in DOMAIN ops', TagOp(i)', TagOp(j)',
                        ops'[i].value = ops'[j].value
                 PROVE  i = j
      OBVIOUS
    <3> QED
      BY <1>3, <1>4, <2>1, <2>2 DEF SureTags
  <2>5. ASSUME Exists(modal.device)' PROVE TagsAgree'
    <3>1. TagsAgree
      BY <1>1, <1>2, <2>1, <2>5 DEF SureTags, Exists
    <3>2. (\A x \in Tag : (\A i \in DOMAIN ops : TagOp(i) => ops[i].value # x)
                          => (x \in modal.tags <=> x \in tagged[modal.device]))'
      <4> SUFFICES ASSUME NEW x \in Tag, \A i \in DOMAIN ops' : TagOp(i)' => ops'[i].value # x
                   PROVE  x \in modal.tags <=> x \in tagged[modal.device]
        BY <1>1, <1>2
      <4>1. \A i \in DOMAIN ops : TagOp(i) => ops[i].value # x
        BY <1>3, <1>4, <2>2
      <4> QED
        BY <3>1, <4>1 DEF TagsAgree
    <3>3. (\A i \in DOMAIN ops : TagOp(i) =>
             /\ ops[i].pc \in {"asked", "failed"} =>
                   (ops[i].value \in modal.tags <=> ops[i].value \in tagged[modal.device])
             /\ ops[i].pc = "handled" =>
                   (ops[i].value \in tagged[modal.device] <=> ops[i].kind = "add"))'
      <4> SUFFICES ASSUME NEW i \in DOMAIN ops', TagOp(i)'
                   PROVE  /\ ops'[i].pc \in {"asked", "failed"} =>
                               (ops'[i].value \in modal.tags <=>
                                 ops'[i].value \in tagged[modal.device])
                          /\ ops'[i].pc = "handled" =>
                               (ops'[i].value \in tagged[modal.device] <=> ops'[i].kind = "add")
        BY <1>1, <1>2
      <4>1. CASE i \in DOMAIN ops
        BY <1>3, <2>2, <3>1, <4>1 DEF TagsAgree
      <4>2. CASE i = n
        BY <1>4, <2>1, <3>1, <4>2 DEF TagsAgree
      <4> QED
        BY <1>4, <4>1, <4>2
    <3> QED
      BY <3>2, <3>3 DEF TagsAgree
  <2> QED
    BY <1>1, <1>2, <2>3, <2>4, <2>5 DEF SureTags
<1> QED
  BY <1>5, <1>6 DEF TagsFit

\* The server handles a request for a tag of the window: what it has follows the request.
LEMMA TagsStored ==
    ASSUME PageTypes, TagsFit, modal # Null, modal' = modal, modal.sure, NEW i \in DOMAIN ops, TagOp(i),
           ops[i].pc = "asked", DOMAIN ops' = DOMAIN ops,
           \A j \in DOMAIN ops : j # i => ops'[j] = ops[j],
           ops'[i].kind = ops[i].kind, ops'[i].device = ops[i].device,
           ops'[i].modal = ops[i].modal, ops'[i].value = ops[i].value, ops'[i].pc = "handled",
           Exists(modal.device)' => Exists(modal.device),
           \A t \in Tag : t # ops[i].value =>
                (t \in tagged'[modal.device] <=> t \in tagged[modal.device]),
           ops[i].value \in tagged'[modal.device] <=> ops[i].kind = "add"
    PROVE  TagsFit'
<1>1. SureTags /\ OwnDevice
  BY DEF TagsFit
<1>2. OwnDevice'
  BY <1>1 DEF OwnDevice
<1>3. \A j \in DOMAIN ops : TagOp(j)' <=> TagOp(j)
  BY DEF TagOp
<1>4. \A j \in DOMAIN ops : ops'[j].modal = ops[j].modal /\ ops'[j].value = ops[j].value
  OBVIOUS
<1>5. ASSUME modal.fetch \in {"read", "shown"}, Exists(modal.device)' PROVE TagsAgree'
  <2>1. TagsAgree
    BY <1>1, <1>5 DEF SureTags
  <2>2. (\A x \in Tag : (\A j \in DOMAIN ops : TagOp(j) => ops[j].value # x)
                        => (x \in modal.tags <=> x \in tagged[modal.device]))'
    <3> SUFFICES ASSUME NEW x \in Tag, \A j \in DOMAIN ops : TagOp(j) => ops[j].value # x
                 PROVE  x \in modal.tags <=> x \in tagged'[modal.device]
      BY <1>3, <1>4
    <3> QED
      BY <2>1 DEF TagsAgree
  <2>3. (\A j \in DOMAIN ops : TagOp(j) =>
           /\ ops[j].pc \in {"asked", "failed"} =>
                 (ops[j].value \in modal.tags <=> ops[j].value \in tagged[modal.device])
           /\ ops[j].pc = "handled" =>
                 (ops[j].value \in tagged[modal.device] <=> ops[j].kind = "add"))'
    <3> SUFFICES ASSUME NEW j \in DOMAIN ops, TagOp(j)
                 PROVE  /\ ops'[j].pc \in {"asked", "failed"} =>
                             (ops'[j].value \in modal.tags <=>
                               ops'[j].value \in tagged'[modal.device])
                        /\ ops'[j].pc = "handled" =>
                             (ops'[j].value \in tagged'[modal.device] <=> ops'[j].kind = "add")
      BY <1>3
    <3>1. CASE j = i
      BY <3>1
    <3>2. CASE j # i
      <4>1. ops[j].value # ops[i].value /\ ops[j].value \in Tag
        BY <1>1, <3>2, OpFields DEF SureTags, TagOp
      <4> QED
        BY <2>1, <3>2, <4>1 DEF TagsAgree
    <3> QED
      BY <3>1, <3>2
  <2> QED
    BY <2>2, <2>3 DEF TagsAgree
<1>6. SureTags'
  BY <1>1, <1>3, <1>4, <1>5 DEF SureTags
<1> QED
  BY <1>2, <1>6 DEF TagsFit

LEMMA TagsHandled ==
    ASSUME PageTypes, TagsFit, NEW i \in DOMAIN ops, Handle(i) PROVE TagsFit'
<1> DEFINE d == ops[i].device
<1>1. /\ modal' = modal /\ modals' = modals
  BY DEF Handle, counters
<1> SUFFICES ASSUME modal # Null PROVE TagsFit'
  BY <1>1 DEF TagsFit
<1>2. \E pc \in {"patched", "handled", "failed"} :
         Becomes(i, pc) /\ (pc = "patched" => ops[i].kind = "save")
  BY DEF Pending, Handle, ToggleFavorite, DeleteDevice, RestoreDevice, PurgeDevice, PatchDevice,
         SetDeviceBranch, AddDeviceTag, RemoveDeviceTag, RegisterLaunch
<1>3. /\ DOMAIN ops' = DOMAIN ops /\ \A j \in DOMAIN ops : j # i => ops'[j] = ops[j]
      /\ ops'[i].kind = ops[i].kind /\ ops'[i].device = ops[i].device
      /\ ops'[i].modal = ops[i].modal /\ ops'[i].value = ops[i].value
  BY <1>1, <1>2, Became DEF PageTypes
<1>4. /\ \A x \in Device : x # d => row'[x] = row[x] /\ tagged'[x] = tagged[x]
      /\ \A x \in Device : row[x].place = "gone" => row'[x] = row[x]
      /\ ops[i].kind \in {"connect", "add", "remove"} => row' = row
      /\ ops[i].kind \notin {"purge", "add", "remove"} => tagged' = tagged
      /\ ops[i].pc = "patched" => ops[i].kind = "save"
  BY HandledRow
<1>5. /\ modal.device \in Device /\ d \in Device
      /\ tagged \in [Device -> SUBSET Tag] /\ row \in [Device -> Row] /\ row[d] \in Row
      /\ ops[i].kind \in {"add", "remove"} => ops[i].value \in Tag
  BY OpFields DEF PageTypes, ModalType, Modal, ServerType
<1>6. Exists(modal.device)' => Exists(modal.device)
  BY <1>1, <1>4, <1>5 DEF Exists
<1> HIDE DEF d
<1>7. \A j \in DOMAIN ops : /\ ops'[j].kind = ops[j].kind /\ ops'[j].device = ops[j].device
                            /\ ops'[j].modal = ops[j].modal /\ ops'[j].value = ops[j].value
  BY <1>3
<1>8. ASSUME modal.sure /\ Exists(modal.device)' => tagged'[modal.device] = tagged[modal.device],
             SamePc(ops'[i], ops[i])
      PROVE  TagsFit'
  <2>1. \A j \in DOMAIN ops : SamePc(ops'[j], ops[j])
    BY <1>3, <1>8 DEF SamePc
  <2>2. SameWindow
    BY <1>1, <1>6, <1>8 DEF SameWindow
  <2> QED
    BY <1>3, <1>7, <2>1, <2>2, TagsStay
<1>9. CASE d # modal.device \/ ops[i].kind \notin {"add", "remove"}
  <2>1. SamePc(ops'[i], ops[i])
    BY <1>3, <1>9 DEF SamePc, d
  <2>2. Exists(modal.device)' => tagged'[modal.device] = tagged[modal.device]
    <3>1. CASE d # modal.device \/ ops[i].kind # "purge"
      BY <1>4, <1>5, <1>9, <3>1
    <3>2. CASE d = modal.device /\ ops[i].kind = "purge"
      <4>1. PurgeDevice(i)
        BY <1>4, <3>2
           DEF Pending, Handle, ToggleFavorite, DeleteDevice, RestoreDevice, PatchDevice,
               SetDeviceBranch, AddDeviceTag, RemoveDeviceTag, RegisterLaunch
      <4>2. CASE row[d].place = "trash"
        <5>1. row' = [row EXCEPT ![d].place = "gone"]
          BY <4>1, <4>2 DEF PurgeDevice, d
        <5>2. row'[d].place = "gone"
          BY <1>5, <5>1 DEF Row
        <5> QED
          BY <1>1, <3>2, <5>2 DEF Exists
      <4>3. CASE row[d].place # "trash"
        BY <4>1, <4>3 DEF PurgeDevice, d
      <4> QED
        BY <4>2, <4>3
    <3> QED
      BY <3>1, <3>2
  <2> QED
    BY <1>8, <2>1, <2>2
<1>10. CASE d = modal.device /\ ops[i].kind \in {"add", "remove"} /\ ~modal.sure
  <2>1. SamePc(ops'[i], ops[i])
    BY <1>1, <1>10 DEF SamePc
  <2> QED
    BY <1>8, <1>10, <2>1
<1>11. CASE d = modal.device /\ ops[i].kind \in {"add", "remove"} /\ modal.sure
  <2>0. /\ TagOp(i) /\ row' = row /\ ops[i].value \in Tag
    BY <1>4, <1>5, <1>11 DEF TagOp, d
  <2>1. AddDeviceTag(i) \/ RemoveDeviceTag(i)
    BY <1>4, <1>11
       DEF Pending, Handle, ToggleFavorite, DeleteDevice, RestoreDevice, PatchDevice, PurgeDevice,
           SetDeviceBranch, RegisterLaunch
  <2>2. CASE AddDeviceTag(i) /\ ~Exists(d)
    <3>1. tagged' = tagged /\ Becomes(i, "failed") /\ ops[i].pc = "asked"
      BY <2>2 DEF AddDeviceTag, Pending, d
    <3>2. ops'[i].pc = "failed"
      BY <1>1, <3>1, Became DEF PageTypes
    <3> QED
      BY <1>8, <3>1, <3>2 DEF SamePc
  <2>3. CASE AddDeviceTag(i) /\ Exists(d)
    <3>1. /\ tagged' = [tagged EXCEPT ![d] = @ \union {ops[i].value}]
          /\ Becomes(i, "handled") /\ ops[i].pc = "asked" /\ ops[i].kind = "add"
      BY <2>3 DEF AddDeviceTag, Pending, d
    <3>2. ops'[i].pc = "handled"
      BY <1>1, <3>1, Became DEF PageTypes
    <3>3. tagged'[modal.device] = tagged[modal.device] \union {ops[i].value}
      BY <1>5, <1>11, <3>1
    <3> QED
      BY <1>1, <1>3, <1>6, <1>11, <2>0, <3>1, <3>2, <3>3, TagsStored
  <2>4. CASE RemoveDeviceTag(i)
    <3>1. /\ tagged' = [tagged EXCEPT ![d] = @ \ {ops[i].value}]
          /\ Becomes(i, "handled") /\ ops[i].pc = "asked" /\ ops[i].kind = "remove"
      BY <2>4 DEF RemoveDeviceTag, Pending, d
    <3>2. ops'[i].pc = "handled"
      BY <1>1, <3>1, Became DEF PageTypes
    <3>3. tagged'[modal.device] = tagged[modal.device] \ {ops[i].value}
      BY <1>5, <1>11, <3>1
    <3> QED
      BY <1>1, <1>3, <1>6, <1>11, <2>0, <3>1, <3>2, <3>3, TagsStored
  <2> QED
    BY <2>1, <2>2, <2>3, <2>4
<1> QED
  BY <1>9, <1>10, <1>11

LEMMA TagsLost ==
    ASSUME PageTypes, TagsFit, NEW i \in DOMAIN ops, Lose(i) PROVE TagsFit'
<1>1. /\ row' = row /\ tagged' = tagged /\ modals' = modals /\ Becomes(i, "failed")
      /\ ops[i].pc # "failed"
      /\ modal' = IF ops[i].pc # "asked" /\ modal # Null /\ modal.n = ops[i].modal
                  THEN [modal EXCEPT !.sure = FALSE] ELSE modal
  BY DEF Lose, serverVars
<1>2. CASE modal = Null
  BY <1>1, <1>2 DEF TagsFit
<1>3. CASE modal # Null
  <2>1. modal \in Modal
    BY <1>3 DEF PageTypes, ModalType
  <2>2. /\ modal'.n = modal.n /\ modal'.device = modal.device /\ modal'.tags = modal.tags
        /\ modal'.fetch = modal.fetch /\ (modal'.sure => modal.sure)
        /\ modal'.sure /\ modal.n = ops[i].modal => ops[i].pc = "asked"
    BY <1>1, <1>3, <2>1 DEF Modal
  <2>3. SameWindow
    BY <1>1, <1>3, <2>2 DEF SameWindow, Exists
  <2>4. /\ DOMAIN ops' = DOMAIN ops /\ \A j \in DOMAIN ops : j # i => ops'[j] = ops[j]
        /\ ops'[i].kind = ops[i].kind /\ ops'[i].device = ops[i].device
        /\ ops'[i].modal = ops[i].modal /\ ops'[i].value = ops[i].value /\ ops'[i].pc = "failed"
    BY <1>1, Became DEF PageTypes
  <2>5. ASSUME modal'.sure, TagOp(i) PROVE ops[i].pc = "asked"
    <3>1. ops[i].modal = modal.n
      BY <1>3, <2>2, <2>5 DEF TagsFit, SureTags
    <3> QED
      BY <2>2, <2>5, <3>1
  <2>6. \A j \in DOMAIN ops : SamePc(ops'[j], ops[j])
    BY <2>4, <2>5 DEF SamePc, TagOp
  <2> QED
    BY <2>3, <2>4, <2>6, TagsStay
<1> QED
  BY <1>2, <1>3

LEMMA TagsDone ==
    ASSUME PageTypes, TagsFit, NEW i \in DOMAIN ops, TagDone(i) PROVE TagsFit'
<1> DEFINE t == ops[i].value
<1>1. /\ row' = row /\ tagged' = tagged /\ modals' = modals /\ Ends(i)
      /\ ops[i].pc = "handled" /\ ops[i].kind \in {"add", "remove"} /\ t \in Tag
      /\ modal' = IF ~OwnModal(i) THEN modal
                  ELSE IF ops[i].kind = "add" THEN [modal EXCEPT !.tags = @ \union {t}]
                  ELSE [modal EXCEPT !.tags = @ \ {t}]
  BY OpFields DEF TagDone, serverVars, counters
<1> HIDE DEF t
<1>2. CASE modal = Null
  BY <1>1, <1>2 DEF TagsFit, OwnModal
<1>3. CASE modal # Null /\ ~OwnModal(i)
  <2>1. SameWindow
    BY <1>1, <1>3 DEF SameWindow, Exists
  <2>2. ~(modal.sure /\ TagOp(i))
    BY <1>3 DEF TagsFit, SureTags, OwnModal
  <2> QED
    BY <1>1, <2>1, <2>2, TagsEnd
<1>4. CASE modal # Null /\ OwnModal(i)
  <2>1. modal \in Modal
    BY <1>4 DEF PageTypes, ModalType
  <2>2. /\ modal'.n = modal.n /\ modal'.device = modal.device /\ modal'.fetch = modal.fetch
        /\ modal'.sure = modal.sure
        /\ \A x \in Tag : x # t => (x \in modal'.tags <=> x \in modal.tags)
        /\ t \in modal'.tags <=> ops[i].kind = "add"
    BY <1>1, <1>4, <2>1 DEF Modal
  <2>3. OwnDevice /\ TagOp(i)
    BY <1>1, <1>4 DEF TagsFit, OwnDevice, OwnModal, TagOp
  <2>4. /\ \A j \in DOMAIN ops' : Before(i, j) \in DOMAIN ops \ {i} /\ ops'[j] = ops[Before(i, j)]
        /\ \A j, k \in DOMAIN ops' : Before(i, j) = Before(i, k) => j = k
        /\ \A k \in DOMAIN ops \ {i} : \E j \in DOMAIN ops' : k = Before(i, j)
    BY <1>1, Ended DEF PageTypes
  <2>5. OwnDevice'
    BY <2>2, <2>3, <2>4 DEF OwnDevice
  <2>6. ASSUME modal'.sure PROVE SureTags'
    <3>1. SureTags
      BY <1>4, <2>2, <2>6 DEF TagsFit
    <3>2. \A j \in DOMAIN ops' : TagOp(j)' <=> TagOp(Before(i, j))
      BY <2>2, <2>4 DEF TagOp
    <3>3. modal.fetch \notin {"asked", "read"}
      BY <2>3, <3>1 DEF SureTags
    <3>4. (\A j \in DOMAIN ops : TagOp(j) => ops[j].modal = modal.n)'
      BY <2>2, <2>4, <3>1, <3>2 DEF SureTags
    <3>5. (\A j, k \in DOMAIN ops : TagOp(j) /\ TagOp(k) /\ ops[j].value = ops[k].value => j = k)'
      <4> SUFFICES ASSUME NEW j \in DOMAIN ops', NEW k \in DOMAIN ops', TagOp(j)', TagOp(k)',
                          ops'[j].value = ops'[k].value
                   PROVE  j = k
        OBVIOUS
      <4>1. Before(i, j) = Before(i, k)
        BY <2>4, <3>1, <3>2 DEF SureTags
      <4> QED
        BY <2>4, <4>1
    <3>6. \A j \in DOMAIN ops' : TagOp(j)' => ops'[j].value # t /\ ops'[j].value \in Tag
      BY <2>3, <2>4, <3>1, <3>2, OpFields DEF SureTags, TagOp, t
    <3>7. ASSUME modal'.fetch \in {"read", "shown"}, Exists(modal.device)' PROVE TagsAgree'
      <4>1. TagsAgree
        BY <1>1, <2>2, <3>1, <3>7 DEF SureTags, Exists
      <4>2. t \in tagged[modal.device] <=> ops[i].kind = "add"
        BY <1>1, <2>3, <4>1 DEF TagsAgree, t
      <4>3. (\A x \in Tag : (\A j \in DOMAIN ops : TagOp(j) => ops[j].value # x)
                            => (x \in modal.tags <=> x \in tagged[modal.device]))'
        <5> SUFFICES ASSUME NEW x \in Tag, \A j \in DOMAIN ops' : TagOp(j)' => ops'[j].value # x
                     PROVE  x \in modal'.tags <=> x \in tagged[modal.device]
          BY <1>1, <2>2
        <5>1. CASE x = t
          BY <2>2, <4>2, <5>1
        <5>2. CASE x # t
          <6>1. \A k \in DOMAIN ops : TagOp(k) => ops[k].value # x
            BY <2>4, <3>2, <5>2 DEF t
          <6> QED
            BY <2>2, <4>1, <5>2, <6>1 DEF TagsAgree
        <5> QED
          BY <5>1, <5>2
      <4>4. (\A j \in DOMAIN ops : TagOp(j) =>
               /\ ops[j].pc \in {"asked", "failed"} =>
                     (ops[j].value \in modal.tags <=> ops[j].value \in tagged[modal.device])
               /\ ops[j].pc = "handled" =>
                     (ops[j].value \in tagged[modal.device] <=> ops[j].kind = "add"))'
        <5> SUFFICES ASSUME NEW j \in DOMAIN ops', TagOp(j)'
                     PROVE  /\ ops'[j].pc \in {"asked", "failed"} =>
                                 (ops'[j].value \in modal'.tags <=>
                                   ops'[j].value \in tagged[modal.device])
                            /\ ops'[j].pc = "handled" =>
                                 (ops'[j].value \in tagged[modal.device] <=> ops'[j].kind = "add")
          BY <1>1, <2>2
        <5>1. TagOp(Before(i, j)) /\ ops'[j] = ops[Before(i, j)] /\ Before(i, j) \in DOMAIN ops
          BY <2>4, <3>2
        <5> QED
          BY <2>2, <3>6, <4>1, <5>1 DEF TagsAgree
      <4> QED
        BY <4>3, <4>4 DEF TagsAgree
    <3> QED
      BY <2>2, <3>3, <3>4, <3>5, <3>7 DEF SureTags
  <2> QED
    BY <2>5, <2>6 DEF TagsFit
<1> QED
  BY <1>2, <1>3, <1>4

\* A click that begins a handler of another kind
LEMMA TagsBegun ==
    ASSUME PageTypes, TagsFit, row' = row, tagged' = tagged, modals' = modals,
           modal = Null => modal' = Null, modal # Null => SameWindow,
           NEW d \in Device, NEW n \in 0..modals,
           NEW kind \in {"favorite", "delete", "restore", "purge", "save", "connect"},
           NEW value \in Fields \union {Null}, kind = "save" => value \in Fields,
           kind = "connect" => d \in Numeric, Begin(kind, d, n, value),
           modal # Null => n = modal.n /\ d = modal.device
    PROVE  TagsFit'
<1>1. modals \in 0..MaxModals /\ modals' \in Nat /\ modals <= modals'
  BY Bounds DEF PageTypes, ModalType
<1>2. /\ kind \in {"favorite", "delete", "restore", "purge", "save", "add", "remove", "connect"}
      /\ value \in Fields \union Tag \union {Null} /\ kind \notin {"add", "remove"}
      /\ OpsType /\ ShownType
  BY DEF PageTypes
<1>3. /\ DOMAIN ops = 1..Len(ops) /\ DOMAIN ops' = 1..(Len(ops) + 1) /\ Len(ops) \in Nat
      /\ \A i \in DOMAIN ops : ops'[i] = ops[i]
      /\ ops'[Len(ops) + 1] = [kind |-> kind, device |-> d, modal |-> n, filter |-> filter,
                               value |-> value, pc |-> "asked"]
  BY <1>1, <1>2, Begun
<1>4. CASE modal = Null
  BY <1>4 DEF TagsFit
<1>5. CASE modal # Null
  <2>1. /\ ops'[Len(ops) + 1].kind \notin {"add", "remove"}
        /\ ops'[Len(ops) + 1].device = modal.device
    BY <1>2, <1>3, <1>5
  <2> QED
    BY <1>3, <1>5, <2>1, TagsAppend
<1> QED
  BY <1>4, <1>5

LEMMA TagsStep == PageTypes /\ TagsFit /\ [DevicesNext]_devicesVars => TagsFit'
<1> SUFFICES ASSUME PageTypes, TagsFit, [DevicesNext]_devicesVars PROVE TagsFit'
  OBVIOUS
<1> USE DEF serverVars, counters, history
<1>0. /\ modal # Null => /\ modal \in Modal /\ modal.device \in Device /\ modal.n \in 0..modals
                          /\ modal.edit \in Fields
      /\ 0 \in 0..modals
  BY Bounds DEF PageTypes, ModalType, Modal
<1>1. ASSUME ops' = ops, row' = row, tagged' = tagged,
             modal' = Null \/ (modal # Null /\ SameWindow) \/ modal' = modal
      PROVE  TagsFit'
  <2>1. CASE modal' = Null
    BY <2>1 DEF TagsFit
  <2>2. CASE modal # Null /\ SameWindow
    <3>1. \A j \in DOMAIN ops : SamePc(ops'[j], ops[j])
      BY <1>1 DEF SamePc
    <3> QED
      BY <1>1, <2>2, <3>1, TagsStay
  <2>3. CASE modal' = modal /\ modal' # Null
    <3>1. SameWindow /\ \A j \in DOMAIN ops : SamePc(ops'[j], ops[j])
      BY <1>1, <2>3 DEF SamePc, SameWindow, Exists
    <3> QED
      BY <1>1, <3>1, TagsStay
  <2> QED
    BY <1>1, <2>1, <2>2, <2>3
<1>2. ASSUME NEW d \in Device, NEW k \in {"favorite", "delete", "connect"}, CardClick(k, d)
      PROVE  TagsFit'
  BY <1>0, <1>2, TagsBegun DEF CardClick
<1>3. ASSUME NEW d \in Device, NEW k \in {"restore", "purge"}, TrashClick(k, d) PROVE TagsFit'
  BY <1>0, <1>3, TagsBegun DEF TrashClick
<1>4. ASSUME NEW t \in Tag, ToggleTag(t) PROVE TagsFit'
  BY <1>4, TagsClicked
<1>5. ASSUME NEW k \in {"favorite", "delete", "connect"}, ModalClick(k) PROVE TagsFit'
  <2>1. SameWindow
    BY <1>5 DEF ModalClick, SameWindow, Exists
  <2> QED
    BY <1>0, <1>5, <2>1, TagsBegun DEF ModalClick
<1>6. CASE Save
  <2>1. modal # Null /\ modal' = [modal EXCEPT !.saving = TRUE]
    BY <1>6 DEF Save
  <2>2. SameWindow
    BY <1>0, <1>6, <2>1 DEF Save, SameWindow, Exists, Modal
  <2> QED
    BY <1>0, <1>6, <2>1, <2>2, TagsBegun DEF Save
<1>7. ASSUME NEW i \in DOMAIN ops, Handle(i) PROVE TagsFit'
  BY <1>7, TagsHandled
<1>8. ASSUME NEW i \in DOMAIN ops, Lose(i) PROVE TagsFit'
  BY <1>8, TagsLost
<1>9. ASSUME NEW i \in DOMAIN ops, GoOn(i) PROVE TagsFit'
  <2>1. CASE TagDone(i)
    BY <2>1, TagsDone
  <2>2. CASE ~TagDone(i)
    <3>1. /\ row' = row /\ tagged' = tagged /\ modals' = modals /\ Ends(i)
          /\ ops[i].kind \notin {"add", "remove"} \/ ops[i].pc = "failed"
          /\ \/ modal' = modal \/ modal' = Null
             \/ modal # Null /\ modal' = [modal EXCEPT !.saving = FALSE]
      BY <1>9, <2>2 DEF GoOn, ActionDone, SaveDone, ConnectDone, OpFails, Refresh, OwnModal
    <3>2. CASE modal' = Null
      BY <3>2 DEF TagsFit
    <3>3. CASE modal' # Null
      <4>1. SameWindow
        BY <1>0, <3>1, <3>3 DEF SameWindow, Exists, Modal
      <4> QED
        BY <3>1, <4>1, TagsEnd DEF TagOp
    <3> QED
      BY <3>2, <3>3
  <2> QED
    BY <2>1, <2>2
<1>10. ASSUME NEW d \in Device, Foreign(d) PROVE TagsFit'
  <2>1. ops' = ops
    BY <1>10 DEF Foreign
  <2>2. modal' = modal \/ (modal # Null /\ modal' = [modal EXCEPT !.sure = FALSE])
    BY <1>10, ForeignTags
  <2>3. CASE modal = Null
    BY <2>2, <2>3 DEF TagsFit
  <2>4. CASE modal # Null
    <3>1. Exists(modal.device)' => \/ Exists(modal.device) /\ tagged'[modal.device] = tagged[modal.device]
                                  \/ modal' = [modal EXCEPT !.sure = FALSE]
      BY <1>0, <1>10, <2>2, <2>4, ForeignTags DEF Exists
    <3>2. CASE modal' = [modal EXCEPT !.sure = FALSE]
      <4>1. modal'.n = modal.n /\ modal'.device = modal.device /\ ~modal'.sure
        BY <1>0, <2>4, <3>2 DEF Modal
      <4> QED
        BY <2>1, <2>4, <4>1 DEF TagsFit, OwnDevice
    <3>3. CASE modal' = modal /\ modal' # [modal EXCEPT !.sure = FALSE]
      <4>1. SameWindow
        BY <2>4, <3>1, <3>3 DEF SameWindow
      <4>2. \A j \in DOMAIN ops : SamePc(ops'[j], ops[j])
        BY <2>1 DEF SamePc
      <4> QED
        BY <2>1, <4>1, <4>2, TagsStay
    <3> QED
      BY <2>2, <2>4, <3>2, <3>3
  <2> QED
    BY <2>3, <2>4
<1>11. CASE UNCHANGED devicesVars
  BY <1>1, <1>11 DEF devicesVars
<1>12. CASE \/ Poll \/ (\E i \in 1..MaxLoads : Loaded(i)) \/ (\E i \in DOMAIN loads : LoadFails(i))
            \/ (\E f \in Filters : ChangeFilter(f)) \/ CloseModal
  BY <1>1, <1>12 DEF Poll, Loaded, LoadFails, ChangeFilter, CloseModal
<1>13. ASSUME NEW x \in Fields, Edit(x) PROVE TagsFit'
  <2>1. modal # Null /\ modal' = [modal EXCEPT !.edit = x]
    BY <1>13 DEF Edit
  <2>2. SameWindow
    BY <1>0, <1>13, <2>1 DEF Edit, SameWindow, Exists, Modal
  <2> QED
    BY <1>1, <1>13, <2>1, <2>2 DEF Edit
<1>14. CASE FetchTags
  BY <1>14, TagsFetched
<1>15. ASSUME NEW d \in Device, OpenModal(d) PROVE TagsFit'
  BY <1>15, TagsOpened
<1> QED
  BY <1>2, <1>3, <1>4, <1>5, <1>6, <1>7, <1>8, <1>9, <1>10, <1>11, <1>12, <1>13, <1>14, <1>15
     DEF DevicesNext, Administrator, OpStep

\* With nothing asked, the window shows the tags its device has, for any tags, windows,
\* clicks and losses, but for the exceptions named.
THEOREM TagsCorrect == DevicesSpec => []TagsAreShown
<1>1. DevicesInit => TagsFit
  BY DEF DevicesInit, TagsFit
<1> QED
  BY <1>1, TagsStep, TagsGiveShown, TypesInvariant, PTL DEF DevicesSpec

-----------------------------------------------------------------------------
(* The list at rest *)

\* A handler that changed a row, and loads the list when it goes on; a save whose device was
\* removed for good goes no further, but then no list shows the row.
Writes(o) ==
    /\ o.kind \in {"favorite", "delete", "restore", "purge", "save"}
    /\ o.pc = "handled" \/ (o.pc = "patched" /\ Exists(o.device))

\* One that changed tags, and loads nothing
Retags(o) == o.kind \in {"add", "remove"} /\ o.pc = "handled"

\* What the page shows when the loads that are under way are answered in order
LastList == IF loads = << >> THEN list ELSE loads[Len(loads)].list
LastTags == IF loads = << >> THEN tagMap ELSE loads[Len(loads)].tags

Harmless == {"retagged", "twoSaves"}

\* The newest answer is right, or somebody is there who will load again.
Fresh ==
    mishaps \subseteq Harmless =>
        /\ LastList = Selection(filter) \/ \E i \in DOMAIN ops : Writes(ops[i])
        /\ mishaps = {} =>
              LastTags = tagged \/ \E i \in DOMAIN ops : Writes(ops[i]) \/ Retags(ops[i])

LEMMA FreshGivesQuiet == Fresh => QuietIsFresh
BY DEF Fresh, QuietIsFresh, Harmless, LastList, LastTags

LEMMA FreshInit == DevicesInit => Fresh
<1> SUFFICES ASSUME DevicesInit PROVE Fresh
  OBVIOUS
<1>1. loads = <<Asked(AllDevices)>> /\ filter = AllDevices
  BY DEF DevicesInit
<1>2. loads # << >> /\ Len(loads) = 1 /\ loads[Len(loads)] = Asked(AllDevices)
  BY <1>1
<1> QED
  BY <1>1, <1>2 DEF Fresh, LastList, LastTags, Asked

LEMMA FreshSpoilt == ~(mishaps' \subseteq Harmless) => Fresh'
BY DEF Fresh, Harmless

\* A load for the filter of the page
LEMMA FreshLoad ==
    ASSUME PageTypes, NEW f, StartLoad(f), filter' = f, row' = row, tagged' = tagged
    PROVE  Fresh'
<1>1. loads' # << >> /\ loads'[Len(loads')] = Asked(f)
  BY LoadStarted DEF PageTypes
<1>2. Selection(filter)' = Selection(f)
  BY DEF Selection, Matches
<1>3. LastList' = Selection(f) /\ LastTags' = tagged
  BY <1>1 DEF LastList, LastTags, Asked
<1> QED
  BY <1>2, <1>3 DEF Fresh

\* Nothing changes but handlers that move; one that changed rows stays.
LEMMA FreshMove ==
    ASSUME PageTypes, Fresh, LastList' = LastList, LastTags' = LastTags, row' = row,
           tagged' = tagged, filter' = filter, mishaps \subseteq mishaps',
           \A i \in DOMAIN ops : Writes(ops[i]) => \E j \in DOMAIN ops' : ops'[j] = ops[i],
           \A i \in DOMAIN ops : Retags(ops[i]) =>
              mishaps' # {} \/ \E j \in DOMAIN ops' : ops'[j] = ops[i]
    PROVE  Fresh'
<1> SUFFICES ASSUME mishaps' \subseteq Harmless
             PROVE  /\ (LastList = Selection(filter) \/ \E i \in DOMAIN ops : Writes(ops[i]))'
                    /\ mishaps' = {} =>
                          (LastTags = tagged \/ \E i \in DOMAIN ops : Writes(ops[i]) \/ Retags(ops[i]))'
  BY DEF Fresh
<1>1. Selection(filter)' = Selection(filter)
  BY DEF Selection, Matches
<1>2. /\ LastList = Selection(filter) \/ \E i \in DOMAIN ops : Writes(ops[i])
      /\ mishaps' = {} =>
           LastTags = tagged \/ \E i \in DOMAIN ops : Writes(ops[i]) \/ Retags(ops[i])
  BY DEF Fresh
<1>3. ASSUME NEW i \in DOMAIN ops, Writes(ops[i]) PROVE (\E j \in DOMAIN ops : Writes(ops[j]))'
  <2>1. PICK j \in DOMAIN ops' : ops'[j] = ops[i]
    BY <1>3
  <2> QED
    BY <1>3, <2>1 DEF Writes, Exists
<1>4. ASSUME NEW i \in DOMAIN ops, Retags(ops[i]), mishaps' = {}
      PROVE  (\E j \in DOMAIN ops : Retags(ops[j]))'
  <2>1. PICK j \in DOMAIN ops' : ops'[j] = ops[i]
    BY <1>4
  <2> QED
    BY <1>4, <2>1 DEF Retags
<1>5. (LastList = Selection(filter) \/ \E i \in DOMAIN ops : Writes(ops[i]))'
  BY <1>1, <1>2, <1>3
<1>6. ASSUME mishaps' = {}
      PROVE  (LastTags = tagged \/ \E i \in DOMAIN ops : Writes(ops[i]) \/ Retags(ops[i]))'
  BY <1>2, <1>3, <1>4, <1>6
<1> QED
  BY <1>5, <1>6

LEMMA FreshAnswered == PageTypes /\ Fresh /\ (\E i \in 1..MaxLoads : Loaded(i)) => Fresh'
<1> SUFFICES ASSUME PageTypes, Fresh, NEW i \in 1..MaxLoads, Loaded(i) PROVE Fresh'
  OBVIOUS
<1>1. /\ i \in DOMAIN loads /\ loads' = RemoveAt(loads, i) /\ list' = loads[i].list
      /\ tagMap' = loads[i].tags /\ ops' = ops /\ row' = row /\ tagged' = tagged
      /\ filter' = filter /\ (i # 1 => "overtaken" \in mishaps') /\ mishaps \subseteq mishaps'
  BY DEF Loaded, serverVars
<1>2. CASE i # 1
  BY <1>1, <1>2, FreshSpoilt DEF Harmless
<1>3. CASE i = 1
  <2>1. /\ loads \in Seq(LoadAnswer) /\ loads' \in Seq(LoadAnswer)
        /\ Len(loads') = Len(loads) - 1 /\ Len(loads) \in Nat \ {0}
        /\ \A j \in 1..(Len(loads) - 1) : loads'[j] = loads[j + 1]
    <3>1. loads \in Seq(LoadAnswer)
      BY DEF PageTypes, LoadsType
    <3> QED
      BY <1>1, <1>3, <3>1, RemovedAt
  <2>2. CASE Len(loads) = 1
    <3>1. loads' = << >> /\ loads # << >>
      BY <2>1, <2>2
    <3> QED
      BY <1>1, <1>3, <2>2, <3>1, FreshMove DEF LastList, LastTags
  <2>3. CASE Len(loads) # 1
    <3>1. /\ loads' # << >> /\ loads # << >> /\ Len(loads) - 1 \in 1..(Len(loads) - 1)
          /\ (Len(loads) - 1) + 1 = Len(loads)
      BY <2>1, <2>3
    <3>2. loads'[Len(loads')] = loads[Len(loads)]
      BY <2>1, <3>1
    <3> QED
      BY <1>1, <3>1, <3>2, FreshMove DEF LastList, LastTags
  <2> QED
    BY <2>2, <2>3
<1> QED
  BY <1>2, <1>3

\* A handler that changed a row is known to load; one that changed tags is known.
LEMMA FreshHandled ==
    ASSUME PageTypes, Fresh, NEW i \in DOMAIN ops, Handle(i) PROVE Fresh'
<1> DEFINE d == ops[i].device
<1>1. /\ modals' = modals /\ mishaps' = mishaps /\ loads' = loads /\ list' = list
      /\ tagMap' = tagMap /\ filter' = filter
  BY DEF Handle, counters
<1>2. /\ d \in Device /\ row \in [Device -> Row] /\ row[d] \in Row
      /\ ops[i].pc = "patched" => ops[i].kind = "save"
  BY OpFields DEF PageTypes, ServerType
<1> HIDE DEF d
<1>3. ASSUME NEW pc \in {"patched", "handled", "failed"}, Becomes(i, pc),
             pc = "patched" => ops[i].kind = "save"
      PROVE  /\ DOMAIN ops' = DOMAIN ops /\ \A j \in DOMAIN ops : j # i => ops'[j] = ops[j]
             /\ ops'[i].kind = ops[i].kind /\ ops'[i].device = d /\ ops'[i].pc = pc
  BY <1>1, <1>3, Became DEF PageTypes, d
<1>4. ASSUME DOMAIN ops' = DOMAIN ops,
             ops'[i].kind \in {"favorite", "delete", "restore", "purge", "save"},
             \/ ops'[i].pc = "handled"
             \/ ops'[i].pc = "patched" /\ row'[ops'[i].device].place # "gone"
      PROVE  Fresh'
  <2>1. (\E j \in DOMAIN ops : Writes(ops[j]))'
    BY <1>4 DEF Writes, Exists
  <2> QED
    BY <2>1 DEF Fresh
<1>5. ASSUME DOMAIN ops' = DOMAIN ops, \A j \in DOMAIN ops : j # i => ops'[j] = ops[j],
             row' = row, tagged' = tagged, ~Writes(ops[i]), ~Retags(ops[i])
      PROVE  Fresh'
  <2>1. \A j \in DOMAIN ops : Writes(ops[j]) \/ Retags(ops[j]) =>
          \E k \in DOMAIN ops' : ops'[k] = ops[j]
    BY <1>5
  <2> QED
    BY <1>1, <1>5, <2>1, FreshMove DEF LastList, LastTags
<1>6. ASSUME DOMAIN ops' = DOMAIN ops, \A j \in DOMAIN ops : j # i => ops'[j] = ops[j],
             row' = row, ops'[i].kind \in {"add", "remove"}, ops'[i].pc = "handled",
             ~Writes(ops[i])
      PROVE  Fresh'
  <2>1. (\E j \in DOMAIN ops : Retags(ops[j]))'
    BY <1>6 DEF Retags
  <2>2. Selection(filter)' = Selection(filter) /\ LastList' = LastList
    BY <1>1, <1>6 DEF Selection, Matches, LastList
  <2>3. ASSUME NEW j \in DOMAIN ops, Writes(ops[j])
        PROVE  (\E k \in DOMAIN ops : Writes(ops[k]))'
    BY <1>6, <2>3 DEF Writes, Exists
  <2> QED
    BY <1>1, <2>1, <2>2, <2>3 DEF Fresh
<1>7. CASE ToggleFavorite(i)
  <2>1. CASE Becomes(i, "handled") /\ ops[i].kind = "favorite"
    BY <1>3, <1>4, <2>1
  <2>2. CASE row' = row /\ tagged' = tagged /\ Becomes(i, "failed") /\ ops[i].pc = "asked"
    BY <1>3, <1>5, <2>2 DEF Writes, Retags
  <2> QED
    BY <1>7, <2>1, <2>2 DEF ToggleFavorite, Pending
<1>8. CASE DeleteDevice(i) \/ RestoreDevice(i) \/ PurgeDevice(i)
  <2>1. Becomes(i, "handled") /\ ops[i].kind \in {"delete", "restore", "purge"}
    BY <1>8 DEF DeleteDevice, RestoreDevice, PurgeDevice, Pending
  <2> QED
    BY <1>3, <1>4, <2>1
<1>9. CASE PatchDevice(i)
  <2>1. CASE Exists(d)
    <3>1. row' = [row EXCEPT ![d].alias = ops[i].value.alias] /\ Becomes(i, "patched")
          /\ ops[i].kind = "save" /\ row[d].place # "gone"
      BY <1>9, <2>1 DEF PatchDevice, Pending, d, Exists
    <3>2. row'[d].place # "gone"
      BY <1>2, <3>1 DEF Row
    <3>3. /\ DOMAIN ops' = DOMAIN ops /\ ops'[i].kind = "save" /\ ops'[i].device = d
          /\ ops'[i].pc = "patched"
      BY <1>3, <3>1
    <3> QED
      BY <1>4, <3>2, <3>3
  <2>2. CASE ~Exists(d)
    <3>1. /\ row' = row /\ tagged' = tagged /\ Becomes(i, "failed") /\ ops[i].pc = "asked"
      BY <1>9, <2>2 DEF PatchDevice, Pending, d
    <3> QED
      BY <1>3, <1>5, <3>1 DEF Writes, Retags
  <2> QED
    BY <2>1, <2>2
<1>10. CASE SetDeviceBranch(i)
  <2>1. CASE Exists(d)
    <3>1. Becomes(i, "handled") /\ ops[i].kind = "save"
      BY <1>2, <1>10, <2>1 DEF SetDeviceBranch, d
    <3> QED
      BY <1>3, <1>4, <3>1
  <2>2. CASE ~Exists(d)
    <3>1. /\ row' = row /\ tagged' = tagged /\ Becomes(i, "failed") /\ ops[i].pc = "patched"
      BY <1>10, <2>2 DEF SetDeviceBranch, d
    <3> QED
      BY <1>3, <1>5, <2>2, <3>1 DEF Writes, Retags, d
  <2> QED
    BY <2>1, <2>2
<1>11. CASE AddDeviceTag(i) \/ RemoveDeviceTag(i)
  <2>1. /\ row' = row /\ ops[i].kind \in {"add", "remove"} /\ ops[i].pc = "asked"
        /\ Becomes(i, "handled") \/ (Becomes(i, "failed") /\ tagged' = tagged)
    BY <1>11 DEF AddDeviceTag, RemoveDeviceTag, Pending
  <2>2. ~Writes(ops[i]) /\ ~Retags(ops[i])
    BY <2>1 DEF Writes, Retags
  <2>3. CASE Becomes(i, "handled")
    BY <1>3, <1>6, <2>1, <2>2, <2>3
  <2>4. CASE Becomes(i, "failed") /\ tagged' = tagged
    BY <1>3, <1>5, <2>1, <2>2, <2>4
  <2> QED
    BY <2>1, <2>3, <2>4
<1>12. CASE RegisterLaunch(i)
  <2>1. /\ row' = row /\ tagged' = tagged /\ ops[i].pc = "asked"
        /\ Becomes(i, "handled") \/ Becomes(i, "failed")
    BY <1>12 DEF RegisterLaunch, Pending
  <2> QED
    BY <1>3, <1>5, <2>1 DEF Writes, Retags
<1> QED
  BY <1>7, <1>8, <1>9, <1>10, <1>11, <1>12 DEF Handle

LEMMA FreshGoOn ==
    ASSUME PageTypes, Fresh, NEW i \in DOMAIN ops, GoOn(i) PROVE Fresh'
<1> USE DEF serverVars
<1>0. /\ row' = row /\ tagged' = tagged /\ filter' = filter /\ Ends(i)
      /\ list' = list /\ tagMap' = tagMap /\ modals' = modals /\ mishaps \subseteq mishaps'
  BY DEF GoOn, ActionDone, SaveDone, TagDone, ConnectDone, OpFails, Refresh, counters
<1>1. CASE ActionDone(i) \/ SaveDone(i)
  <2>1. Refresh(i)
    BY <1>1 DEF ActionDone, SaveDone
  <2>2. CASE ops[i].filter = filter
    BY <1>0, <2>1, <2>2, FreshLoad DEF Refresh
  <2>3. CASE ops[i].filter # filter
    <3>1. "oldFilter" \in mishaps'
      BY <2>1, <2>3 DEF Refresh
    <3> QED
      BY <3>1, FreshSpoilt DEF Harmless
  <2> QED
    BY <2>2, <2>3
<1>2. CASE TagDone(i) \/ ConnectDone(i) \/ OpFails(i)
  <2>1. /\ loads' = loads /\ ~Writes(ops[i]) /\ (Retags(ops[i]) => mishaps' # {})
    BY <1>2, OpFields DEF TagDone, ConnectDone, OpFails, Writes, Retags
  <2>2. \A k \in DOMAIN ops \ {i} : \E j \in DOMAIN ops' : ops'[j] = ops[k]
    <3>1. /\ \A j \in DOMAIN ops' : Before(i, j) \in DOMAIN ops \ {i} /\ ops'[j] = ops[Before(i, j)]
          /\ \A k \in DOMAIN ops \ {i} : \E j \in DOMAIN ops' : k = Before(i, j)
      BY <1>0, Ended DEF PageTypes
    <3> QED
      BY <3>1
  <2>3. LastList' = LastList /\ LastTags' = LastTags
    BY <1>0, <2>1 DEF LastList, LastTags
  <2> QED
    BY <1>0, <2>1, <2>2, <2>3, FreshMove
<1> QED
  BY <1>1, <1>2 DEF GoOn

LEMMA FreshBegun ==
    ASSUME PageTypes, Fresh, NEW kind, NEW d, NEW n, NEW value, Begin(kind, d, n, value),
           row' = row, tagged' = tagged, filter' = filter, loads' = loads, list' = list,
           tagMap' = tagMap, mishaps \subseteq mishaps'
    PROVE  Fresh'
<1>1. \A i \in DOMAIN ops : \E j \in DOMAIN ops' : ops'[j] = ops[i]
  <2> DEFINE o == [kind |-> kind, device |-> d, modal |-> n, filter |-> filter,
                   value |-> value, pc |-> "asked"]
  <2>1. ops' = Append(ops, o) /\ ops \in Seq(Op)
    BY DEF Begin, PageTypes, OpsType
  <2> HIDE DEF o
  <2> QED
    BY <2>1
<1> QED
  BY <1>1, FreshMove DEF LastList, LastTags

LEMMA FreshStep == PageTypes /\ Fresh /\ [DevicesNext]_devicesVars => Fresh'
<1> SUFFICES ASSUME PageTypes, Fresh, [DevicesNext]_devicesVars PROVE Fresh'
  OBVIOUS
<1> USE DEF serverVars, counters, history
<1>1. ASSUME ops' = ops, row' = row, tagged' = tagged, filter' = filter, loads' = loads,
             list' = list, tagMap' = tagMap, mishaps' = mishaps
      PROVE  Fresh'
  BY <1>1, FreshMove DEF LastList, LastTags
<1>2. CASE \/ (\E d \in Device, k \in {"favorite", "delete", "connect"} : CardClick(k, d))
           \/ (\E d \in Device, k \in {"restore", "purge"} : TrashClick(k, d))
           \/ (\E k \in {"favorite", "delete", "connect"} : ModalClick(k))
           \/ (\E t \in Tag : ToggleTag(t)) \/ Save
  <2>1. \E kind, d, n, value : Begin(kind, d, n, value)
    BY <1>2 DEF CardClick, TrashClick, ModalClick, ToggleTag, Save
  <2>2. /\ row' = row /\ tagged' = tagged /\ filter' = filter /\ loads' = loads /\ list' = list
        /\ tagMap' = tagMap /\ mishaps \subseteq mishaps'
    BY <1>2 DEF CardClick, TrashClick, ModalClick, ToggleTag, Save
  <2> QED
    BY <2>1, <2>2, FreshBegun
<1>3. CASE Poll
  BY <1>3, FreshLoad DEF Poll
<1>4. ASSUME NEW f \in Filters, ChangeFilter(f) PROVE Fresh'
  BY <1>4, FreshLoad DEF ChangeFilter
<1>5. CASE \E i \in 1..MaxLoads : Loaded(i)
  BY <1>5, FreshAnswered
<1>6. CASE (\E i \in DOMAIN loads : LoadFails(i)) \/ (\E d \in Device : Foreign(d))
  <2>1. "failed" \in mishaps' \/ "foreign" \in mishaps'
    BY <1>6 DEF LoadFails, Foreign
  <2> QED
    BY <2>1, FreshSpoilt DEF Harmless
<1>7. ASSUME NEW i \in DOMAIN ops, Handle(i) PROVE Fresh'
  BY <1>7, FreshHandled
<1>8. ASSUME NEW i \in DOMAIN ops, GoOn(i) PROVE Fresh'
  BY <1>8, FreshGoOn
<1>9. ASSUME NEW i \in DOMAIN ops, Lose(i) PROVE Fresh'
  <2>1. CASE ops[i].pc # "asked"
    <3>1. "failed" \in mishaps'
      BY <1>9, <2>1 DEF Lose
    <3> QED
      BY <3>1, FreshSpoilt DEF Harmless
  <2>2. CASE ops[i].pc = "asked"
    <3>1. /\ row' = row /\ tagged' = tagged /\ filter' = filter /\ loads' = loads
          /\ list' = list /\ tagMap' = tagMap /\ mishaps' = mishaps /\ modals' = modals
          /\ Becomes(i, "failed")
      BY <1>9, <2>2 DEF Lose
    <3>2. /\ DOMAIN ops' = DOMAIN ops /\ \A j \in DOMAIN ops : j # i => ops'[j] = ops[j]
      BY <3>1, Became DEF PageTypes
    <3>3. ~Writes(ops[i]) /\ ~Retags(ops[i])
      BY <2>2 DEF Writes, Retags
    <3>4. \A j \in DOMAIN ops : Writes(ops[j]) \/ Retags(ops[j]) =>
            \E k \in DOMAIN ops' : ops'[k] = ops[j]
      BY <3>2, <3>3
    <3> QED
      BY <3>1, <3>4, FreshMove DEF LastList, LastTags
  <2> QED
    BY <2>1, <2>2
<1>10. CASE UNCHANGED devicesVars
  BY <1>1, <1>10 DEF devicesVars
<1>11. CASE \/ FetchTags \/ CloseModal \/ (\E d \in Device : OpenModal(d))
            \/ (\E x \in Fields : Edit(x))
  BY <1>1, <1>11 DEF FetchTags, CloseModal, OpenModal, Edit
<1> QED
  BY <1>2, <1>3, <1>4, <1>5, <1>6, <1>7, <1>8, <1>9, <1>10, <1>11
     DEF DevicesNext, Administrator, OpStep

\* When everything is answered the page shows what the server has, for any devices, filters,
\* handlers and loads, but for the exceptions named.
THEOREM QuietCorrect == DevicesSpec => []QuietIsFresh
BY FreshInit, FreshStep, FreshGivesQuiet, TypesInvariant, PTL DEF DevicesSpec

-----------------------------------------------------------------------------
(* The session in the tab *)

USE TenantsAssumption, UsersAssumption, PagesAssumption, BoundsAssumption

-----------------------------------------------------------------------------
(* The inductive invariant *)

\* A request carries a token that was issued: whoever it was issued to answers for it.
TokensWereIssued == \A r \in flying : r.token \in {0} \union Issued

SessionInv == TypeOK /\ TokensWereIssued

-----------------------------------------------------------------------------
(* The parts of a step *)

\* What the layout and the pages write when the route changes
TabType ==
    /\ page \in Route
    /\ goal \in Route \union {"stay"}
    /\ active \in Tenant \union {None}
    /\ banner \in Tenant \union {None}
    /\ ready \in BOOLEAN
    /\ view \in {"none", "global", "scoped"}
    /\ loaded \in BOOLEAN
    /\ rows \in Rows \union {None}
    /\ since \in {0} \union Issued

FlyingType == flying \subseteq Request /\ TokensWereIssued

StorageType ==
    /\ token \in {0} \union Issued
    /\ stored \in User \union {None}
    /\ owner \in [Login -> User \union {None}]
    /\ expired \subseteq Issued

LEMMA InvParts == SessionInv <=> StorageType /\ TabType /\ FlyingType
BY DEF SessionInv, TypeOK, StorageType, TabType, FlyingType

\* A page is shown with its own view and goal, whatever the guard says.
LEMMA ShowType ==
    ASSUME NEW p \in Pages, NEW shown \in BOOLEAN, Show(p, shown), TabType, StorageType,
           active' = active, owner' = owner
    PROVE  TabType'
<1> DEFINE guard == Guard(p)
           open == shown \/ guard = "stay"
<1>1. guard \in {"login", "tenants", "stay"}
  BY DEF Guard
<1>2. ViewOf(p) \in {"none", "global", "scoped"}
  BY DEF ViewOf
<1>3. /\ page' = p /\ ready' = open /\ banner' = active
      /\ view' = IF open THEN ViewOf(p) ELSE "none"
      /\ goal' = IF guard # "stay" THEN guard
                 ELSE IF p = "tenants" /\ ~IsSuperAdmin THEN "dashboard" ELSE "stay"
      /\ loaded' = FALSE /\ rows' = None /\ since' = token
  BY Zenon DEF Show
<1> HIDE DEF guard
<1>4. goal' \in Route \union {"stay"}
  BY <1>1, <1>3 DEF Route
<1> QED
  BY <1>2, <1>3, <1>4 DEF TabType, StorageType, Issued, Route

LEMMA ShowLoginType ==
    ASSUME ShowLogin, TabType, active' \in Tenant \union {None}
    PROVE  TabType'
BY DEF ShowLogin, TabType, Route

\* Requests that lose their page keep their tokens.
LEMMA DetachedType ==
    ASSUME FlyingType, flying' = Detached, owner' = owner
    PROVE  FlyingType'
BY DEF FlyingType, Detached, Request, TokensWereIssued, Issued

LEMMA FewerRequests ==
    ASSUME FlyingType, flying' \subseteq flying, owner' = owner
    PROVE  FlyingType'
BY DEF FlyingType, TokensWereIssued, Issued

\* A new token goes to the next free number; the tokens issued before stay with their
\* users.
LEMMA TokenIssued ==
    ASSUME StorageType, NEW u \in User, IssueToken(u), expired' = expired
    PROVE  /\ StorageType' /\ Issued \subseteq Issued'
           /\ token' # 0 /\ stored' = u /\ owner'[token'] = u
<1>1. PICK n \in Login \ Issued :
        owner' = [owner EXCEPT ![n] = u] /\ token' = n /\ stored' = u
  BY Zenon DEF IssueToken
<1>2. u # None
  BY DEF User
<1>3. Issued' = Issued \union {n}
  BY <1>1, <1>2 DEF Issued, StorageType
<1> QED
  BY <1>1, <1>2, <1>3 DEF StorageType, Login

-----------------------------------------------------------------------------
(* Type correctness *)

LEMMA SessionInvInit == Init => SessionInv
BY DEF Init, SessionInv, TypeOK, TokensWereIssued, Issued, Route

LEMMA SessionInvStep == SessionInv /\ [Next]_vars => SessionInv'
<1> SUFFICES ASSUME StorageType, TabType, FlyingType, [Next]_vars
             PROVE  StorageType' /\ TabType' /\ FlyingType'
  BY InvParts DEF SessionInv, TypeOK, StorageType, TabType, FlyingType
<1> USE DEF storage, tabVars
<1>1. CASE UNCHANGED vars
  BY <1>1 DEF vars, StorageType, TabType, FlyingType, TokensWereIssued, Issued
<1>2. CASE Arrive
  <2>1. StorageType'
    BY <1>2 DEF Arrive, StorageType, Issued
  <2>2. CASE goal = page
    BY <1>2, <2>1, <2>2, FewerRequests DEF Arrive, TabType, Issued, Route
  <2>3. CASE goal = "login" /\ page # "login"
    BY <1>2, <2>1, <2>3, ShowLoginType, DetachedType DEF Arrive, TabType, Issued
  <2>4. CASE goal \notin {"login", page}
    <3>1. goal \in Pages /\ Show(goal, ready) /\ flying' = Detached
      BY <1>2, <2>4 DEF Arrive, TabType, Issued, Route
    <3> QED
      BY <1>2, <2>1, <3>1, ShowType, DetachedType DEF Arrive, TabType, Issued
  <2> QED
    BY <2>2, <2>3, <2>4
<1>3. ASSUME NEW p \in Route, Visit(p) PROVE StorageType' /\ TabType' /\ FlyingType'
  <2>1. StorageType' /\ FlyingType'
    BY <1>3, FewerRequests DEF Visit, StorageType, Issued
  <2>2. CASE p = "login"
    BY <1>3, <2>1, <2>2, ShowLoginType DEF Visit, TabType, Issued
  <2>3. CASE p # "login"
    BY <1>3, <2>1, <2>3, ShowType DEF Visit, Route
  <2> QED
    BY <2>2, <2>3
<1>4. ASSUME NEW p \in Route, Navigate(p) PROVE StorageType' /\ TabType' /\ FlyingType'
  BY <1>4, FewerRequests DEF Navigate, StorageType, TabType, Issued
<1>5. ASSUME NEW x \in Tenant, EnterTenant(x) PROVE StorageType' /\ TabType' /\ FlyingType'
  BY <1>5, FewerRequests DEF EnterTenant, StorageType, TabType, Issued, Route
<1>6. CASE ExitTenant
  BY <1>6, FewerRequests DEF ExitTenant, StorageType, TabType, Issued, Route
<1>7. ASSUME NEW x \in Tenant \union {None}, TerminalTenant(x)
      PROVE  StorageType' /\ TabType' /\ FlyingType'
  BY <1>7, FewerRequests DEF TerminalTenant, StorageType, TabType, Issued
<1>8. ASSUME NEW u \in User, LogIn(u) PROVE StorageType' /\ TabType' /\ FlyingType'
  <2>1. StorageType' /\ Issued \subseteq Issued'
    BY <1>8, TokenIssued DEF LogIn
  <2> QED
    BY <1>8, <2>1 DEF LogIn, TabType, FlyingType, TokensWereIssued, Route
<1>9. ASSUME NEW u \in User, LogInElsewhere(u) PROVE StorageType' /\ TabType' /\ FlyingType'
  <2>1. StorageType' /\ Issued \subseteq Issued'
    BY <1>9, TokenIssued DEF LogInElsewhere
  <2> QED
    BY <1>9, <2>1 DEF LogInElsewhere, TabType, FlyingType, TokensWereIssued
<1>10. CASE LogInFails
  BY <1>10, ShowLoginType, FewerRequests DEF LogInFails, StorageType, Issued, TabType
<1>11. CASE Logout
  BY <1>11, FewerRequests DEF Logout, StorageType, TabType, Issued, Route
<1>12. CASE SessionEndsElsewhere
  BY <1>12, FewerRequests DEF SessionEndsElsewhere, StorageType, TabType, Issued
<1>13. ASSUME NEW n \in Login, Expire(n) PROVE StorageType' /\ TabType' /\ FlyingType'
  BY <1>13, FewerRequests DEF Expire, StorageType, TabType, Issued
<1>14. CASE Send
  <2> DEFINE r == [kept |-> TRUE, token |-> token, tenant |-> active, kind |-> view]
  <2>1. r \in Request /\ r.token \in {0} \union Issued
    BY <1>14 DEF Send, Request, StorageType, TabType, Issued, Login
  <2>2. StorageType' /\ TabType'
    BY <1>14 DEF Send, StorageType, TabType, Issued
  <2>3. flying' = flying \union {r} /\ Issued' = Issued
    BY <1>14 DEF Send, Issued
  <2> HIDE DEF r
  <2>4. FlyingType'
    BY <2>1, <2>3 DEF FlyingType, TokensWereIssued
  <2> QED
    BY <2>2, <2>4
<1>15. ASSUME NEW r \in flying, Answer401(r) PROVE StorageType' /\ TabType' /\ FlyingType'
  BY <1>15, ShowLoginType, FewerRequests DEF Answer401, StorageType, Issued, TabType
<1>16. ASSUME NEW r \in flying, Answer(r) PROVE StorageType' /\ TabType' /\ FlyingType'
  <2>1. StorageType' /\ FlyingType'
    BY <1>16, FewerRequests DEF Answer, StorageType, Issued
  <2>2. owner[r.token] \in User /\ r.token \in Login
    BY <1>16 DEF Answer, Unauthorized, FlyingType, TokensWereIssued, StorageType, Issued
  <2>3. \A h \in Tenant \union {None} :
          EffectiveTenant(owner[r.token], h) \in Tenant \union {None}
    BY <2>2 DEF EffectiveTenant, User
  <2>4. rows' \in Rows \union {None}
    BY <1>16, <2>2, <2>3 DEF Answer, FlyingType, Request, Rows, TabType
  <2> QED
    BY <1>16, <2>1, <2>4 DEF Answer, TabType, Issued
<1> QED
  BY <1>1, <1>2, <1>3, <1>4, <1>5, <1>6, <1>7, <1>8, <1>9, <1>10, <1>11, <1>12, <1>13,
     <1>14, <1>15, <1>16 DEF Next

\* Every variable has its type, and every request in flight a token that was issued.
LEMMA SessionInvariant == Spec => []SessionInv
BY SessionInvInit, SessionInvStep, PTL DEF Spec

\* Type correctness of the session in the tab, whatever the other tabs do.
THEOREM TypeCorrect == Spec => []TypeOK
<1>1. SessionInv => TypeOK
  BY DEF SessionInv
<1> QED
  BY <1>1, SessionInvariant, PTL

-----------------------------------------------------------------------------
(* Token and user *)

LEMMA TokenStep == SessionInv /\ UserMatchesToken /\ [Next]_vars => UserMatchesToken'
<1> SUFFICES ASSUME StorageType, UserMatchesToken, [Next]_vars PROVE UserMatchesToken'
  BY InvParts
<1>1. ASSUME NEW u \in User, IssueToken(u), expired' = expired PROVE UserMatchesToken'
  BY <1>1, TokenIssued DEF UserMatchesToken
<1>2. ASSUME token' = 0 PROVE UserMatchesToken'
  BY <1>2 DEF UserMatchesToken
<1>3. ASSUME UNCHANGED <<token, stored, owner>> PROVE UserMatchesToken'
  BY <1>3 DEF UserMatchesToken
<1> QED
  BY <1>1, <1>2, <1>3
     DEF Next, vars, storage, tabVars, Arrive, Visit, Navigate, EnterTenant, ExitTenant,
         TerminalTenant, LogIn, LogInElsewhere, LogInFails, Logout, SessionEndsElsewhere,
         Expire, Send, Answer401, Answer

\* Whichever tab wrote last, and whatever a late 401 removed, the stored user is the one
\* the stored token was issued to.
THEOREM UserCorrect == Spec => []UserMatchesToken
<1>1. Init => UserMatchesToken
  BY DEF Init, UserMatchesToken
<1> QED
  BY <1>1, TokenStep, SessionInvariant, PTL DEF Spec

-----------------------------------------------------------------------------
(* Rows *)

\* Logins are numbered as they happen.
InOrder == \A m, n \in Login : n \in Issued /\ m < n => m \in Issued

\* What the page still waits for was sent since it appeared.
SentSince ==
    /\ token # 0 => token >= since
    /\ \A r \in flying : r.kept /\ r.token # 0 => r.token >= since

RowsInv == InOrder /\ SentSince /\ RowsOfThisSession

\* The next login comes after all others.
LEMMA NextLogin ==
    ASSUME SessionInv, InOrder, NEW u \in User, IssueToken(u)
    PROVE  InOrder' /\ token' \in Login /\ \A n \in Issued : token' > n
<1>1. PICK n \in Login \ Issued : /\ \A m \in Login \ Issued : n <= m
                                 /\ owner' = [owner EXCEPT ![n] = u] /\ token' = n
  BY Zenon DEF IssueToken
<1>2. u # None /\ owner \in [Login -> User \union {None}]
  BY DEF User, SessionInv, TypeOK
<1>3. Issued' = Issued \union {n} /\ Issued \subseteq Login /\ Login \subseteq Nat
  BY <1>1, <1>2 DEF Issued, Login
<1>4. \A m \in Login : m < n => m \in Issued
  BY <1>1, <1>3
<1>5. \A m \in Issued : n > m
  BY <1>1, <1>3 DEF InOrder
<1>6. InOrder'
  BY <1>3, <1>4 DEF InOrder
<1> QED
  BY <1>1, <1>5, <1>6

\* A new page starts with nothing that it waits for.
LEMMA NewPage ==
    ASSUME SessionInv, InOrder, owner' = owner, rows' = None,
           since' \in {0, token}, token' \in {0, token},
           \A r \in flying' : ~r.kept
    PROVE  RowsInv'
<1>1. token \in Nat
  BY DEF SessionInv, TypeOK, Issued, Login
<1> QED
  BY <1>1 DEF RowsInv, InOrder, Issued, SentSince, RowsOfThisSession

LEMMA RowsStep == SessionInv /\ RowsInv /\ [Next]_vars => RowsInv'
<1> SUFFICES ASSUME SessionInv, RowsInv, [Next]_vars PROVE RowsInv'
  OBVIOUS
<1> USE DEF storage, tabVars
<1>1. InOrder /\ SentSince /\ RowsOfThisSession
  BY DEF RowsInv
<1>2. ASSUME UNCHANGED <<owner, since, rows>>, token' \in {0, token}, flying' \subseteq flying
      PROVE  RowsInv'
  BY <1>1, <1>2 DEF RowsInv, InOrder, Issued, SentSince, RowsOfThisSession
<1>3. \A r \in Detached : ~r.kept
  BY DEF Detached, SessionInv, TypeOK, Request
<1>4. CASE Arrive
  <2>1. CASE goal = page
    BY <1>2, <1>4, <2>1 DEF Arrive
  <2>2. CASE goal # page
    <3>1. /\ UNCHANGED <<token, owner>> /\ flying' = Detached
          /\ ShowLogin \/ Show(goal, ready)
      BY <1>4, <2>2 DEF Arrive
    <3>2. rows' = None /\ since' \in {0, token}
      BY <3>1 DEF ShowLogin, Show
    <3> QED
      BY <1>1, <1>3, <3>1, <3>2, NewPage
  <2> QED
    BY <2>1, <2>2
<1>5. ASSUME NEW p \in Route, Visit(p) PROVE RowsInv'
  <2>1. /\ UNCHANGED <<token, owner>> /\ flying' = {}
        /\ ShowLogin \/ Show(p, FALSE)
    BY <1>5 DEF Visit
  <2>2. rows' = None /\ since' \in {0, token}
    BY <2>1 DEF ShowLogin, Show
  <2> QED
    BY <1>1, <2>1, <2>2, NewPage
<1>6. CASE LogInFails \/ \E r \in flying : Answer401(r)
  <2>1. owner' = owner /\ token' = 0 /\ rows' = None /\ since' = 0 /\ flying' = {}
    BY <1>6 DEF LogInFails, Answer401, ShowLogin
  <2> QED
    BY <1>1, <2>1, NewPage
<1>7. ASSUME NEW u \in User, LogIn(u) \/ LogInElsewhere(u) PROVE RowsInv'
  <2>1. IssueToken(u) /\ UNCHANGED <<since, rows, flying>>
    BY <1>7 DEF LogIn, LogInElsewhere
  <2>2. InOrder' /\ token' \in Login /\ \A n \in Issued : token' > n
    BY <1>1, <2>1, NextLogin
  <2>3. since = 0 \/ since \in Issued
    BY DEF SessionInv, TypeOK
  <2>4. token' >= since
    BY <2>2, <2>3 DEF Login, Issued
  <2> QED
    BY <1>1, <2>1, <2>2, <2>4 DEF RowsInv, SentSince, RowsOfThisSession
<1>8. CASE Send
  <2> DEFINE r == [kept |-> TRUE, token |-> token, tenant |-> active, kind |-> view]
  <2>1. flying' = flying \union {r} /\ UNCHANGED <<token, owner, since, rows>>
    BY <1>8 DEF Send
  <2>2. r.token = token
    OBVIOUS
  <2> HIDE DEF r
  <2> QED
    BY <1>1, <2>1, <2>2 DEF RowsInv, InOrder, Issued, SentSince, RowsOfThisSession
<1>9. ASSUME NEW r \in flying, Answer(r) PROVE RowsInv'
  <2>1. /\ UNCHANGED <<token, owner, since>> /\ flying' \subseteq flying /\ r.token # 0
        /\ rows' = rows \/ (r.kept /\ rows'.login = r.token)
    BY <1>9 DEF Answer, Unauthorized
  <2>2. r.kept => r.token >= since
    BY <1>1, <2>1 DEF SentSince
  <2> QED
    BY <1>1, <2>1, <2>2 DEF RowsInv, InOrder, Issued, SentSince, RowsOfThisSession
<1>10. ASSUME NEW x, EnterTenant(x) \/ TerminalTenant(x) \/ Navigate(x) \/ Expire(x)
       PROVE  RowsInv'
  BY <1>2, <1>10 DEF EnterTenant, TerminalTenant, Navigate, Expire
<1>11. CASE ExitTenant \/ Logout \/ SessionEndsElsewhere \/ UNCHANGED vars
  BY <1>2, <1>11 DEF ExitTenant, Logout, SessionEndsElsewhere, vars
<1> QED
  BY <1>4, <1>5, <1>6, <1>7, <1>8, <1>9, <1>10, <1>11 DEF Next

\* Whatever answers come late and whichever tab logs in or out, a page shows no rows of
\* an earlier login than the one it appeared under, for any number of tabs' logins,
\* pages and requests.
THEOREM RowsCorrect == Spec => []RowsOfThisSession
<1>1. Init => RowsInv
  BY DEF Init, RowsInv, InOrder, Issued, SentSince, RowsOfThisSession
<1>2. RowsInv => RowsOfThisSession
  BY DEF RowsInv
<1> QED
  BY <1>1, <1>2, RowsStep, SessionInvariant, PTL DEF Spec

=============================================================================
