-------------------------- MODULE BrandingPageProofs --------------------------
(***************************************************************************)
(* Proofs about BrandingPage, for any forms, any tidying of them, icons and*)
(* bounds: type correctness, and what typing, saving, choosing an icon and *)
(* triggering a build may rely on although loads replace the form.         *)
(***************************************************************************)
EXTENDS BrandingPage, SequenceTheorems, TLAPS

USE FormAssumption, BoundsAssumption

LEMMA TidyOnce == \A f \in Form : Stored[f] \in Form /\ Stored[Stored[f]] = Stored[f]
BY StoredAssumption

-----------------------------------------------------------------------------
(* The inductive invariant *)

\* Each handler passes only its own points, and after its first one there is a row.
FlowsFit ==
    /\ flow["save"].pc \notin {"trigger", "queued"}
    /\ flow["build"].pc \notin {"refresh", "answer"}
    /\ \A b \in Button : flow[b].pc \notin {"idle", "save"} => brand # None

\* A handler that is alone finds what it has stored.
AloneIsStored ==
    mishaps \intersect {"both", "elsewhere"} = {} =>
        /\ ~(Busy("save") /\ Busy("build"))
        /\ \A b \in Button :
              /\ flow[b].pc \notin {"idle", "save"} => brand = Stored[flow[b].form]
              /\ flow[b].pc \notin {"idle", "save", "upload"} /\ flow[b].icon # None
                    => icon = flow[b].icon
        /\ flow["save"].pc = "answer" => flow["save"].load.brand = Stored[flow["save"].form]

\* Answer a knows that a build is pending.
Knows(a) == a.brand # None /\ a.build \in Pending

\* The page knows of a pending build, or is about to, and begins no other.
BuildIsKnown ==
    mishaps \intersect {"failed", "overtaken", "elsewhere"} = {} =>
        /\ flow["build"].pc \in {"save", "upload", "trigger"} => build \notin Pending
        /\ build \in Pending =>
              /\ brand # None
              /\ status \in Pending \/ flow["build"].pc = "queued"
              /\ \A i \in DOMAIN loads : loads[i].old \/ Knows(loads[i])
              /\ flow["save"].pc = "answer" =>
                    flow["save"].load.old \/ Knows(flow["save"].load)

\* A handler took along the file that is in the field, if it still is.
IconIsTaken ==
    "hurry" \notin mishaps =>
        \A b \in Button : Busy(b) => iconFile \in {None, flow[b].icon}

\* Whatever can replace the form holds what was typed last, as the server keeps it.
AnswersAreTyped ==
    typed # None /\ mishaps \intersect {"typing", "polling", "elsewhere"} = {} =>
        /\ form \in {typed, Stored[typed]}
        /\ \A b \in Button : /\ Busy(b) => Stored[flow[b].form] = Stored[typed]
                             /\ flow[b].pc \notin {"idle", "save"} => brand = Stored[typed]
        /\ status \in Pending => brand = Stored[typed]
        /\ \A i \in DOMAIN loads : loads[i].brand = Stored[typed] /\ brand = Stored[typed]
        /\ flow["save"].pc = "answer" => flow["save"].load.brand = Stored[typed]

PageInv == FlowsFit /\ AloneIsStored /\ BuildIsKnown /\ IconIsTaken /\ AnswersAreTyped

-----------------------------------------------------------------------------
(* Loads under way *)

LEMMA RemovedLoads ==
    ASSUME NEW S, NEW s \in Seq(S), NEW i \in DOMAIN s
    PROVE  /\ RemoveAt(s, i) \in Seq(S) /\ Len(RemoveAt(s, i)) = Len(s) - 1
           /\ \A j \in DOMAIN RemoveAt(s, i) :
                 \E k \in DOMAIN s : RemoveAt(s, i)[j] = s[k]
<1> DEFINE a == SubSeq(s, 1, i - 1)
           b == SubSeq(s, i + 1, Len(s))
<1>1. i \in Nat /\ 1 <= i /\ i <= Len(s) /\ Len(s) \in Nat
  OBVIOUS
<1>2. /\ a \in Seq(S) /\ Len(a) = i - 1
      /\ \A j \in 1..(i - 1) : a[j] = s[j]
  BY <1>1
<1>3. /\ b \in Seq(S) /\ Len(b) = Len(s) - i
      /\ \A j \in 1..(Len(s) - i) : b[j] = s[i + j]
  BY <1>1
<1>4. /\ a \o b \in Seq(S) /\ Len(a \o b) = Len(s) - 1
      /\ \A j \in 1..(Len(s) - 1) :
            (a \o b)[j] = IF j <= i - 1 THEN a[j] ELSE b[j - (i - 1)]
  <2> HIDE DEF a, b
  <2>1. (i - 1) + (Len(s) - i) = Len(s) - 1
    BY <1>1
  <2>2. a \in Seq(S) /\ b \in Seq(S)
    BY <1>2, <1>3
  <2>3. /\ a \o b \in Seq(S) /\ Len(a \o b) = Len(a) + Len(b)
        /\ \A j \in 1..(Len(a) + Len(b)) :
              (a \o b)[j] = IF j <= Len(a) THEN a[j] ELSE b[j - Len(a)]
    BY <2>2, ConcatProperties, Zenon
  <2>4. Len(a) = i - 1 /\ Len(b) = Len(s) - i
    BY <1>2, <1>3
  <2> QED
    BY <2>1, <2>3, <2>4
<1>5. RemoveAt(s, i) = a \o b
  BY DEF RemoveAt
<1>6. ASSUME NEW j \in 1..(Len(s) - 1)
      PROVE  \E k \in DOMAIN s : (a \o b)[j] = s[k]
  <2> HIDE DEF a, b
  <2>1. CASE j <= i - 1
    <3>1. j \in 1..(i - 1) /\ j \in DOMAIN s
      BY <2>1, <1>1
    <3> QED
      BY <2>1, <3>1, <1>2, <1>4
  <2>2. CASE ~(j <= i - 1)
    <3>1. j - (i - 1) \in 1..(Len(s) - i) /\ i + (j - (i - 1)) = j + 1 /\ j + 1 \in DOMAIN s
      BY <2>2, <1>1
    <3> QED
      BY <3>1, <2>2, <1>3, <1>4
  <2> QED
    BY <2>1, <2>2
<1>7. DOMAIN (a \o b) = 1..(Len(s) - 1)
  <2> HIDE DEF a, b
  <2> QED
    BY <1>4
<1> HIDE DEF a, b
<1> QED
  BY <1>4, <1>5, <1>6, <1>7

-----------------------------------------------------------------------------
(* Type correctness *)

LEMMA CurrentType == TypeOK => Current \in Answer
BY DEF TypeOK, Current, Answer

LEMMA BegunType ==
    ASSUME TypeOK
    PROVE  [NoFlow EXCEPT !.pc = "save", !.form = form, !.icon = iconFile] \in Flow
BY DEF TypeOK, NoFlow, NoAnswer, Flow, Answer, Status

LEMMA NoFlowType == NoFlow \in Flow
BY DEF NoFlow, NoAnswer, Flow, Answer, Status

LEMMA FlowMoves ==
    ASSUME NEW f \in Flow,
           NEW pc \in {"idle", "save", "upload", "refresh", "answer", "trigger", "queued"}
    PROVE  [f EXCEPT !.pc = pc] \in Flow
BY DEF Flow

LEMMA FlowReads ==
    ASSUME NEW f \in Flow, NEW a \in Answer
    PROVE  [f EXCEPT !.pc = "answer", !.load = a] \in Flow
BY DEF Flow

LEMMA OutdatedType ==
    ASSUME NEW f \in [Button -> Flow]
    PROVE  Outdated(f) \in [Button -> Flow]
<1> SUFFICES ASSUME NEW b \in Button
             PROVE  [f[b] EXCEPT !.load.old = (f[b].pc = "answer")] \in Flow
  BY DEF Outdated
<1>1. f[b] \in Flow
  OBVIOUS
<1>2. [f[b].load EXCEPT !.old = (f[b].pc = "answer")] \in Answer
  BY <1>1 DEF Flow, Answer
<1> QED
  BY <1>1, <1>2 DEF Flow

LEMMA OutdatedLoads ==
    ASSUME loads \in Seq(Answer)
    PROVE  /\ [i \in DOMAIN loads |-> [loads[i] EXCEPT !.old = TRUE]] \in Seq(Answer)
           /\ Len([i \in DOMAIN loads |-> [loads[i] EXCEPT !.old = TRUE]]) = Len(loads)
<1>1. ASSUME NEW i \in DOMAIN loads PROVE [loads[i] EXCEPT !.old = TRUE] \in Answer
  <2>1. loads[i] \in Answer
    OBVIOUS
  <2> QED
    BY <2>1 DEF Answer
<1>2. DOMAIN loads = 1..Len(loads) /\ Len(loads) \in Nat
  OBVIOUS
<1> QED
  BY <1>1, <1>2

LEMMA TypeInit == Init => TypeOK
<1> SUFFICES ASSUME Init PROVE TypeOK
  OBVIOUS
<1>1. NoAnswer \in Answer
  BY DEF NoAnswer, Answer, Status
<1>2. loads \in Seq(Answer) /\ Len(loads) <= MaxLoads
  BY <1>1 DEF Init
<1>3. edits \in 0..MaxEdits /\ clicks \in 0..MaxClicks /\ events \in 0..MaxEvents
  BY DEF Init
<1>4. flow \in [Button -> Flow]
  BY NoFlowType DEF Init
<1> QED
  BY <1>2, <1>3, <1>4 DEF Init, TypeOK, Status, Mishap

LEMMA TypeStep == TypeOK /\ [Next]_vars => TypeOK'
<1> SUFFICES ASSUME TypeOK, [Next]_vars PROVE TypeOK'
  OBVIOUS
<1> USE DEF TypeOK, rowVars, pageVars, counters
<1>0. Current \in Answer /\ \A b \in Button : flow[b] \in Flow
  BY CurrentType
<1>1. CASE UNCHANGED vars
  BY <1>1 DEF vars
<1>2. ASSUME NEW f \in Form, Type(f) PROVE TypeOK'
  <2>1. mishaps' \subseteq Mishap
    BY <1>2 DEF Type, Spoiled, Mishap
  <2> QED
    BY <1>2, <2>1 DEF Type
<1>3. ASSUME NEW i \in Icon \union {None}, ChooseIcon(i) PROVE TypeOK'
  <2>1. mishaps' \subseteq Mishap
    BY <1>3 DEF ChooseIcon, Spoiled, Mishap
  <2> QED
    BY <1>3, <2>1 DEF ChooseIcon
<1>4. ASSUME NEW b \in Button, Begin(b)
      PROVE  /\ clicks' \in 0..MaxClicks /\ flow' \in [Button -> Flow]
             /\ mishaps' \subseteq Mishap
  <2>1. clicks' \in 0..MaxClicks
    BY <1>4 DEF Begin
  <2>2. flow' \in [Button -> Flow]
    BY <1>4, BegunType DEF Begin
  <2>3. mishaps' \subseteq Mishap
    BY <1>4 DEF Begin, Spoiled, Mishap
  <2> QED
    BY <2>1, <2>2, <2>3
<1>5. CASE OnSave
  BY <1>5, <1>4 DEF OnSave, Button
<1>6. CASE OnBuild
  BY <1>6, <1>4 DEF OnBuild, Button
<1>7. CASE Poll
  <2>1. loads' \in Seq(Answer) /\ Len(loads') <= MaxLoads
    BY <1>0, <1>7 DEF Poll
  <2> QED
    BY <1>7, <2>1 DEF Poll
<1>8. ASSUME NEW i \in DOMAIN loads
      PROVE  RemoveAt(loads, i) \in Seq(Answer) /\ Len(RemoveAt(loads, i)) <= MaxLoads
  <2>1. RemoveAt(loads, i) \in Seq(Answer) /\ Len(RemoveAt(loads, i)) = Len(loads) - 1
    BY RemovedLoads
  <2> QED
    BY <2>1
<1>9. ASSUME NEW a \in Answer, Apply(a)
      PROVE  enabled' \in BOOLEAN /\ form' \in Form /\ status' \in Status
  BY <1>9 DEF Apply, Answer
<1>10. ASSUME NEW i \in 1..MaxLoads, Loaded(i) PROVE TypeOK'
  <2>1. i \in DOMAIN loads /\ loads[i] \in Answer /\ Apply(loads[i])
    BY <1>10 DEF Loaded
  <2>2. mishaps' \subseteq Mishap
    BY <1>10 DEF Loaded, Spoiled, Mishap
  <2> QED
    BY <1>10, <1>8, <1>9, <2>1, <2>2 DEF Loaded
<1>11. ASSUME NEW i \in 1..MaxLoads, LoadFails(i) PROVE TypeOK'
  BY <1>11, <1>8 DEF LoadFails, Fails
<1>12. ASSUME NEW b \in Button, SaveBranding(b) PROVE TypeOK'
  <2>1. flow' \in [Button -> Flow]
    BY <1>12, <1>0, FlowMoves DEF SaveBranding, After
  <2>2. brand' \in Form
    BY <1>0, <1>12, TidyOnce DEF SaveBranding, Flow
  <2> QED
    BY <1>12, <2>1, <2>2 DEF SaveBranding
<1>13. ASSUME NEW b \in Button, UploadIcon(b) PROVE TypeOK'
  <2>1. flow' \in [Button -> Flow]
    BY <1>13, <1>0, FlowMoves DEF UploadIcon, After
  <2>2. icon' \in Icon \union {None}
    BY <1>0, <1>13 DEF UploadIcon, Flow
  <2> QED
    BY <1>13, <2>1, <2>2 DEF UploadIcon
<1>14. CASE TriggerBuild
  <2>1. CASE brand \notin Named
    <3>1. flow' \in [Button -> Flow]
      BY <1>14, <2>1, NoFlowType DEF TriggerBuild, Button
    <3> QED
      BY <1>14, <2>1, <3>1 DEF TriggerBuild
  <2>2. CASE brand \in Named
    <3>1. Outdated(flow) \in [Button -> Flow]
      BY OutdatedType
    <3>2. flow' = [Outdated(flow) EXCEPT !["build"].pc = "queued"]
      BY <1>14, <2>2 DEF TriggerBuild
    <3>3. flow' \in [Button -> Flow]
      BY <3>1, <3>2, FlowMoves DEF Button
    <3>4. loads' \in Seq(Answer) /\ Len(loads') <= MaxLoads
      BY <1>14, <2>2, OutdatedLoads DEF TriggerBuild
    <3>5. build' \in Status
      BY <1>14, <2>2 DEF TriggerBuild, Status
    <3> QED
      BY <1>14, <3>3, <3>4, <3>5 DEF TriggerBuild
  <2> QED
    BY <2>1, <2>2
<1>15. CASE BuildAnswered
  BY <1>15, NoFlowType DEF BuildAnswered, Status
<1>16. CASE ReadBranding
  <2>1. flow' = [flow EXCEPT !["save"] = [@ EXCEPT !.pc = "answer", !.load = Current]]
    BY <1>16 DEF ReadBranding
  <2>2. flow' \in [Button -> Flow]
    BY <1>0, <2>1, FlowReads DEF Button
  <2> QED
    BY <1>16, <2>2 DEF ReadBranding
<1>17. CASE SaveAnswered
  <2>1. flow["save"].load \in Answer
    BY <1>0 DEF Flow, Button
  <2>2. Apply(flow["save"].load)
    BY <1>17 DEF SaveAnswered
  <2>3. mishaps' \subseteq Mishap
    BY <1>17 DEF SaveAnswered, Spoiled, Mishap
  <2>4. flow' \in [Button -> Flow]
    BY <1>17, NoFlowType DEF SaveAnswered
  <2> QED
    BY <1>17, <1>9, <2>1, <2>2, <2>3, <2>4 DEF SaveAnswered
<1>18. CASE SavedFades
  BY <1>18 DEF SavedFades
<1>19. ASSUME NEW b \in Button, FlowFails(b) PROVE TypeOK'
  <2>1. flow' \in [Button -> Flow]
    BY <1>19, NoFlowType DEF FlowFails
  <2>2. brand' \in Form \union {None} /\ icon' \in Icon \union {None}
    BY <1>0, <1>19, TidyOnce DEF FlowFails, Flow
  <2>3. mishaps' \subseteq Mishap
    BY <1>19 DEF FlowFails, Mishap
  <2> QED
    BY <1>19, <2>1, <2>2, <2>3 DEF FlowFails, Fails
<1>20. CASE BuildGoesOn
  BY <1>20 DEF BuildGoesOn, Status, Pending
<1>21. CASE Elsewhere
  <2>1. mishaps' \subseteq Mishap
    BY <1>21 DEF Elsewhere, Mishap
  <2>2. brand' \in Form \union {None} /\ build' \in Status
    BY <1>21, TidyOnce DEF Elsewhere, Status
  <2> QED
    BY <1>21, <2>1, <2>2 DEF Elsewhere, Fails
<1> QED
  BY <1>1, <1>2, <1>3, <1>5, <1>6, <1>7, <1>10, <1>11, <1>12, <1>13, <1>14, <1>15, <1>16,
     <1>17, <1>18, <1>19, <1>20, <1>21 DEF Next, User, FlowStep

\* Every variable holds a value of its kind, whatever the bounds.
THEOREM TypeCorrect == Spec => []TypeOK
<1>1. TypeOK /\ [Next]_vars => TypeOK'
  BY TypeStep
<1> QED
  BY <1>1, TypeInit, PTL DEF Spec

-----------------------------------------------------------------------------
(* The page *)

LEMMA Triggered ==
    ASSUME TypeOK, TriggerBuild
    PROVE  /\ brand \notin Named =>
                 /\ flow'["build"].pc = "idle" /\ flow'["save"] = flow["save"]
                 /\ UNCHANGED <<build, loads>>
           /\ brand \in Named =>
                 /\ flow'["build"].pc = "queued" /\ flow'["build"].form = flow["build"].form
                 /\ flow'["build"].icon = flow["build"].icon
                 /\ \A g \in {"pc", "form", "icon"} : flow'["save"][g] = flow["save"][g]
                 /\ flow'["save"].load.brand = flow["save"].load.brand
                 /\ flow'["save"].load.old = (flow["save"].pc = "answer")
                 /\ build' = "queued"
                 /\ DOMAIN loads' = DOMAIN loads
                 /\ \A i \in DOMAIN loads : loads'[i].old /\ loads'[i].brand = loads[i].brand
<1> USE DEF TypeOK, Button
<1>1. \A b \in Button : flow[b] \in Flow /\ flow[b].load \in Answer
  BY DEF Flow
<1>2. CASE brand \notin Named
  BY <1>2 DEF TriggerBuild, NoFlow
<1>3. CASE brand \in Named
  <2>1. /\ flow' = [Outdated(flow) EXCEPT !["build"].pc = "queued"]
        /\ loads' = [i \in DOMAIN loads |-> [loads[i] EXCEPT !.old = TRUE]]
        /\ build' = "queued"
    BY <1>3 DEF TriggerBuild
  <2>2. Outdated(flow) \in [Button -> Flow]
    BY OutdatedType
  <2>3. /\ flow'["save"] = Outdated(flow)["save"]
        /\ flow'["build"] = [Outdated(flow)["build"] EXCEPT !.pc = "queued"]
    BY <2>1, <2>2
  <2>4. Outdated(flow)["save"] =
           [flow["save"] EXCEPT !.load = [@ EXCEPT !.old = (flow["save"].pc = "answer")]]
    BY DEF Outdated
  <2>5. Outdated(flow)["build"] =
           [flow["build"] EXCEPT !.load = [@ EXCEPT !.old = (flow["build"].pc = "answer")]]
    BY DEF Outdated
  <2>6. /\ flow'["build"].pc = "queued" /\ flow'["build"].form = flow["build"].form
        /\ flow'["build"].icon = flow["build"].icon
    BY <1>1, <2>3, <2>5 DEF Flow
  <2>7. /\ flow'["save"].pc = flow["save"].pc /\ flow'["save"].form = flow["save"].form
        /\ flow'["save"].icon = flow["save"].icon
        /\ flow'["save"].load = [flow["save"].load EXCEPT !.old = (flow["save"].pc = "answer")]
    BY <1>1, <2>3, <2>4 DEF Flow
  <2>8. /\ flow'["save"].load.brand = flow["save"].load.brand
        /\ flow'["save"].load.old = (flow["save"].pc = "answer")
    BY <1>1, <2>7 DEF Answer
  <2>9. ASSUME NEW i \in DOMAIN loads
        PROVE  loads'[i].old /\ loads'[i].brand = loads[i].brand
    <3>1. loads[i] \in Answer
      OBVIOUS
    <3> QED
      BY <2>1, <3>1 DEF Answer
  <2> QED
    BY <1>3, <2>1, <2>6, <2>7, <2>8, <2>9
<1> QED
  BY <1>2, <1>3

LEMMA FlowsStep ==
    ASSUME TypeOK, PageInv, Next
    PROVE  FlowsFit'
<1> USE DEF TypeOK, PageInv, rowVars, pageVars, counters, Button, Busy, FlowsFit
<1>0. \A b \in Button : flow[b] \in Flow /\ flow[b].form \in Form
  BY DEF Flow
<1>1. ASSUME NEW f \in Form, Type(f) PROVE FlowsFit'
  BY <1>0, <1>1 DEF Type
<1>2. ASSUME NEW i \in Icon \union {None}, ChooseIcon(i) PROVE FlowsFit'
  BY <1>0, <1>2 DEF ChooseIcon
<1>3. CASE OnSave
  BY <1>0, <1>3 DEF OnSave, Begin, NoFlow
<1>4. CASE OnBuild
  BY <1>0, <1>4 DEF OnBuild, Begin, NoFlow
<1>5. CASE Poll
  BY <1>0, <1>5 DEF Poll
<1>6. ASSUME NEW i \in 1..MaxLoads, Loaded(i) PROVE FlowsFit'
  BY <1>0, <1>6 DEF Loaded, Apply
<1>7. ASSUME NEW i \in 1..MaxLoads, LoadFails(i) PROVE FlowsFit'
  BY <1>0, <1>7 DEF LoadFails
<1>8. ASSUME NEW b \in Button, SaveBranding(b) PROVE FlowsFit'
  BY <1>0, <1>8, TidyOnce DEF SaveBranding, After
<1>9. ASSUME NEW b \in Button, UploadIcon(b) PROVE FlowsFit'
  BY <1>0, <1>9 DEF UploadIcon, After
<1>10. CASE TriggerBuild
  BY <1>0, <1>10, Triggered DEF TriggerBuild
<1>11. CASE BuildAnswered
  BY <1>0, <1>11 DEF BuildAnswered, NoFlow
<1>12. CASE ReadBranding
  BY <1>0, <1>12 DEF ReadBranding
<1>13. CASE SaveAnswered
  BY <1>0, <1>13 DEF SaveAnswered, NoFlow, Apply
<1>14. CASE SavedFades
  BY <1>0, <1>14 DEF SavedFades
<1>15. ASSUME NEW b \in Button, FlowFails(b) PROVE FlowsFit'
  BY <1>0, <1>15, TidyOnce DEF FlowFails, NoFlow
<1>16. CASE BuildGoesOn
  BY <1>0, <1>16 DEF BuildGoesOn
<1>17. CASE Elsewhere
  BY <1>0, <1>17, TidyOnce DEF Elsewhere
<1> QED
  BY <1>1, <1>2, <1>3, <1>4, <1>5, <1>6, <1>7, <1>8, <1>9,
     <1>10, <1>11, <1>12, <1>13, <1>14, <1>15, <1>16, <1>17 DEF Next, User, FlowStep

LEMMA AloneStep ==
    ASSUME TypeOK, PageInv, Next
    PROVE  AloneIsStored'
<1> USE DEF TypeOK, PageInv, rowVars, pageVars, counters, Button, Busy, AloneIsStored, FlowsFit,
            Spoiled, Current
<1>0. \A b \in Button : flow[b] \in Flow /\ flow[b].form \in Form
  BY DEF Flow
<1>1. ASSUME NEW f \in Form, Type(f) PROVE AloneIsStored'
  BY <1>0, <1>1 DEF Type
<1>2. ASSUME NEW i \in Icon \union {None}, ChooseIcon(i) PROVE AloneIsStored'
  BY <1>0, <1>2 DEF ChooseIcon
<1>3. CASE OnSave
  BY <1>0, <1>3 DEF OnSave, Begin, NoFlow
<1>4. CASE OnBuild
  BY <1>0, <1>4 DEF OnBuild, Begin, NoFlow
<1>5. CASE Poll
  BY <1>0, <1>5 DEF Poll
<1>6. ASSUME NEW i \in 1..MaxLoads, Loaded(i) PROVE AloneIsStored'
  BY <1>0, <1>6 DEF Loaded, Apply
<1>7. ASSUME NEW i \in 1..MaxLoads, LoadFails(i) PROVE AloneIsStored'
  BY <1>0, <1>7 DEF LoadFails
<1>8. ASSUME NEW b \in Button, SaveBranding(b) PROVE AloneIsStored'
  BY <1>0, <1>8 DEF SaveBranding, After
<1>9. ASSUME NEW b \in Button, UploadIcon(b) PROVE AloneIsStored'
  BY <1>0, <1>9 DEF UploadIcon, After
<1>10. CASE TriggerBuild
  BY <1>0, <1>10, Triggered DEF TriggerBuild
<1>11. CASE BuildAnswered
  BY <1>0, <1>11 DEF BuildAnswered, NoFlow
<1>12. CASE ReadBranding
  BY <1>0, <1>12 DEF ReadBranding
<1>13. CASE SaveAnswered
  BY <1>0, <1>13 DEF SaveAnswered, NoFlow, Apply
<1>14. CASE SavedFades
  BY <1>0, <1>14 DEF SavedFades
<1>15. ASSUME NEW b \in Button, FlowFails(b) PROVE AloneIsStored'
  BY <1>0, <1>15 DEF FlowFails, NoFlow
<1>16. CASE BuildGoesOn
  BY <1>0, <1>16 DEF BuildGoesOn
<1>17. CASE Elsewhere
  BY <1>0, <1>17, TidyOnce DEF Elsewhere
<1> QED
  BY <1>1, <1>2, <1>3, <1>4, <1>5, <1>6, <1>7, <1>8, <1>9,
     <1>10, <1>11, <1>12, <1>13, <1>14, <1>15, <1>16, <1>17 DEF Next, User, FlowStep

LEMMA IconStep ==
    ASSUME TypeOK, PageInv, Next
    PROVE  IconIsTaken'
<1> USE DEF TypeOK, PageInv, rowVars, pageVars, counters, Button, Busy, IconIsTaken, Spoiled
<1>0. \A b \in Button : flow[b] \in Flow /\ flow[b].form \in Form
  BY DEF Flow
<1>1. ASSUME NEW f \in Form, Type(f) PROVE IconIsTaken'
  BY <1>0, <1>1 DEF Type
<1>2. ASSUME NEW i \in Icon \union {None}, ChooseIcon(i) PROVE IconIsTaken'
  BY <1>0, <1>2 DEF ChooseIcon
<1>3. CASE OnSave
  BY <1>0, <1>3 DEF OnSave, Begin, NoFlow
<1>4. CASE OnBuild
  BY <1>0, <1>4 DEF OnBuild, Begin, NoFlow
<1>5. CASE Poll
  BY <1>0, <1>5 DEF Poll
<1>6. ASSUME NEW i \in 1..MaxLoads, Loaded(i) PROVE IconIsTaken'
  BY <1>0, <1>6 DEF Loaded, Apply
<1>7. ASSUME NEW i \in 1..MaxLoads, LoadFails(i) PROVE IconIsTaken'
  BY <1>0, <1>7 DEF LoadFails
<1>8. ASSUME NEW b \in Button, SaveBranding(b) PROVE IconIsTaken'
  BY <1>0, <1>8 DEF SaveBranding, After
<1>9. ASSUME NEW b \in Button, UploadIcon(b) PROVE IconIsTaken'
  BY <1>0, <1>9 DEF UploadIcon, After
<1>10. CASE TriggerBuild
  BY <1>0, <1>10, Triggered DEF TriggerBuild
<1>11. CASE BuildAnswered
  BY <1>0, <1>11 DEF BuildAnswered, NoFlow
<1>12. CASE ReadBranding
  BY <1>0, <1>12 DEF ReadBranding
<1>13. CASE SaveAnswered
  BY <1>0, <1>13 DEF SaveAnswered, NoFlow, Apply
<1>14. CASE SavedFades
  BY <1>0, <1>14 DEF SavedFades
<1>15. ASSUME NEW b \in Button, FlowFails(b) PROVE IconIsTaken'
  BY <1>0, <1>15 DEF FlowFails, NoFlow
<1>16. CASE BuildGoesOn
  BY <1>0, <1>16 DEF BuildGoesOn
<1>17. CASE Elsewhere
  BY <1>0, <1>17, TidyOnce DEF Elsewhere
<1> QED
  BY <1>1, <1>2, <1>3, <1>4, <1>5, <1>6, <1>7, <1>8, <1>9,
     <1>10, <1>11, <1>12, <1>13, <1>14, <1>15, <1>16, <1>17 DEF Next, User, FlowStep

LEMMA TypedStep ==
    ASSUME TypeOK, PageInv, Next
    PROVE  AnswersAreTyped'
<1> USE DEF TypeOK, PageInv, rowVars, pageVars, counters, Button, Busy, AnswersAreTyped,
            FlowsFit, Spoiled, Current, Quiet
<1>0. /\ \A b \in Button : flow[b] \in Flow /\ flow[b].form \in Form
      /\ typed # None => typed \in Form /\ Stored[typed] # None
                         /\ Stored[Stored[typed]] = Stored[typed]
  BY TidyOnce DEF Flow
<1>1. ASSUME NEW f \in Form, Type(f) PROVE AnswersAreTyped'
  <2>1. CASE Quiet /\ status \notin Pending
    <3>1. DOMAIN loads' = {} /\ \A b \in Button : flow'[b].pc = "idle"
      BY <1>1, <2>1 DEF Type
    <3> QED
      BY <1>1, <2>1, <3>1 DEF Type
  <2>2. CASE ~(Quiet /\ status \notin Pending)
    <3>1. mishaps' \intersect {"typing", "polling", "elsewhere"} # {}
      BY <1>1, <2>2 DEF Type
    <3> QED
      BY <3>1
  <2> QED
    BY <2>1, <2>2
<1>2. ASSUME NEW i \in Icon \union {None}, ChooseIcon(i) PROVE AnswersAreTyped'
  BY <1>0, <1>2 DEF ChooseIcon
<1>3. CASE OnSave
  BY <1>0, <1>3 DEF OnSave, Begin, NoFlow
<1>4. CASE OnBuild
  BY <1>0, <1>4 DEF OnBuild, Begin, NoFlow
<1>5. CASE Poll
  <2>1. \A j \in DOMAIN loads' :
           (j \in DOMAIN loads /\ loads'[j] = loads[j]) \/ loads'[j] = Current
    BY <1>5, CurrentType DEF Poll
  <2> QED
    BY <1>0, <1>5, <2>1 DEF Poll
<1>6. ASSUME NEW i \in 1..MaxLoads, Loaded(i) PROVE AnswersAreTyped'
  <2>1. i \in DOMAIN loads
    BY <1>6 DEF Loaded
  <2>2. \A j \in DOMAIN RemoveAt(loads, i) :
           \E k \in DOMAIN loads : RemoveAt(loads, i)[j] = loads[k]
    BY <2>1, RemovedLoads
  <2>3. ASSUME mishaps' \intersect {"typing", "polling", "elsewhere"} = {}, typed' # None
        PROVE  /\ form' = Stored[typed] /\ (status' \in Pending => brand = Stored[typed])
               /\ \A j \in DOMAIN loads' : loads'[j].brand = Stored[typed] /\ brand = Stored[typed]
    <3>1. /\ typed \in Form /\ Stored[typed] # None
          /\ \A k \in DOMAIN loads : loads[k].brand = Stored[typed] /\ brand = Stored[typed]
      BY <1>6, <2>3, TidyOnce DEF Loaded
    <3>2. form' = Stored[typed] /\ typed' = typed
      BY <1>6, <2>1, <3>1 DEF Loaded, Apply
    <3> QED
      BY <1>6, <2>1, <2>2, <3>1, <3>2 DEF Loaded, Apply
  <2> QED
    BY <1>6, <2>3 DEF Loaded
<1>7. ASSUME NEW i \in 1..MaxLoads, LoadFails(i) PROVE AnswersAreTyped'
  <2>1. i \in DOMAIN loads
    BY <1>7 DEF LoadFails
  <2>2. \A j \in DOMAIN RemoveAt(loads, i) :
           \E k \in DOMAIN loads : RemoveAt(loads, i)[j] = loads[k]
    BY <2>1, RemovedLoads
  <2> QED
    BY <1>0, <1>7, <2>1, <2>2 DEF LoadFails
<1>8. ASSUME NEW b \in Button, SaveBranding(b) PROVE AnswersAreTyped'
  BY <1>0, <1>8 DEF SaveBranding, After
<1>9. ASSUME NEW b \in Button, UploadIcon(b) PROVE AnswersAreTyped'
  BY <1>0, <1>9 DEF UploadIcon, After
<1>10. CASE TriggerBuild
  BY <1>0, <1>10, Triggered DEF TriggerBuild
<1>11. CASE BuildAnswered
  BY <1>0, <1>11 DEF BuildAnswered, NoFlow
<1>12. CASE ReadBranding
  BY <1>0, <1>12 DEF ReadBranding
<1>13. CASE SaveAnswered
  BY <1>0, <1>13 DEF SaveAnswered, NoFlow, Apply
<1>14. CASE SavedFades
  BY <1>0, <1>14 DEF SavedFades
<1>15. ASSUME NEW b \in Button, FlowFails(b) PROVE AnswersAreTyped'
  BY <1>0, <1>15 DEF FlowFails, NoFlow
<1>16. CASE BuildGoesOn
  BY <1>0, <1>16 DEF BuildGoesOn
<1>17. CASE Elsewhere
  BY <1>0, <1>17, TidyOnce DEF Elsewhere
<1> QED
  BY <1>1, <1>2, <1>3, <1>4, <1>5, <1>6, <1>7, <1>8, <1>9,
     <1>10, <1>11, <1>12, <1>13, <1>14, <1>15, <1>16, <1>17 DEF Next, User, FlowStep

LEMMA KnownStep ==
    ASSUME TypeOK, PageInv, Next
    PROVE  BuildIsKnown'
<1> USE DEF TypeOK, PageInv, rowVars, pageVars, counters, Button, Busy, BuildIsKnown, FlowsFit,
            Spoiled, Current, Knows, Pending
<1>0. \A b \in Button : flow[b] \in Flow /\ flow[b].form \in Form
  BY DEF Flow
<1>1. ASSUME NEW f \in Form, Type(f) PROVE BuildIsKnown'
  BY <1>0, <1>1 DEF Type
<1>2. ASSUME NEW i \in Icon \union {None}, ChooseIcon(i) PROVE BuildIsKnown'
  BY <1>0, <1>2 DEF ChooseIcon
<1>3. CASE OnSave
  BY <1>0, <1>3 DEF OnSave, Begin, NoFlow
<1>4. CASE OnBuild
  BY <1>0, <1>4 DEF OnBuild, Begin, NoFlow
<1>5. CASE Poll
  <2>1. \A j \in DOMAIN loads' :
           (j \in DOMAIN loads /\ loads'[j] = loads[j]) \/ loads'[j] = Current
    BY <1>5, CurrentType DEF Poll
  <2> QED
    BY <1>0, <1>5, <2>1 DEF Poll
<1>6. ASSUME NEW i \in 1..MaxLoads, Loaded(i) PROVE BuildIsKnown'
  <2>1. i \in DOMAIN loads
    BY <1>6 DEF Loaded
  <2>2. \A j \in DOMAIN RemoveAt(loads, i) :
           \E k \in DOMAIN loads : RemoveAt(loads, i)[j] = loads[k]
    BY <2>1, RemovedLoads
  <2>3. flow' = flow /\ build' = build /\ brand' = brand /\ loads' = RemoveAt(loads, i)
    BY <1>6 DEF Loaded
  <2>4. ASSUME mishaps' \intersect {"failed", "overtaken", "elsewhere"} = {}
        PROVE  /\ mishaps \intersect {"failed", "overtaken", "elsewhere"} = {}
               /\ ~loads[i].old
    BY <1>6, <2>4 DEF Loaded
  <2>5. ASSUME mishaps' \intersect {"failed", "overtaken", "elsewhere"} = {}, build \in Pending
        PROVE  status' \in Pending
    <3>1. Knows(loads[i])
      BY <2>1, <2>4, <2>5 DEF Knows
    <3> QED
      BY <1>6, <3>1 DEF Loaded, Apply, Knows
  <2> QED
    BY <2>2, <2>3, <2>4, <2>5
<1>7. ASSUME NEW i \in 1..MaxLoads, LoadFails(i) PROVE BuildIsKnown'
  <2>1. i \in DOMAIN loads
    BY <1>7 DEF LoadFails
  <2>2. \A j \in DOMAIN RemoveAt(loads, i) :
           \E k \in DOMAIN loads : RemoveAt(loads, i)[j] = loads[k]
    BY <2>1, RemovedLoads
  <2> QED
    BY <1>0, <1>7, <2>1, <2>2 DEF LoadFails
<1>8. ASSUME NEW b \in Button, SaveBranding(b) PROVE BuildIsKnown'
  BY <1>0, <1>8, TidyOnce DEF SaveBranding, After
<1>9. ASSUME NEW b \in Button, UploadIcon(b) PROVE BuildIsKnown'
  BY <1>0, <1>9 DEF UploadIcon, After
<1>10. CASE TriggerBuild
  BY <1>0, <1>10, Triggered DEF TriggerBuild
<1>11. CASE BuildAnswered
  BY <1>0, <1>11 DEF BuildAnswered, NoFlow
<1>12. CASE ReadBranding
  BY <1>0, <1>12 DEF ReadBranding
<1>13. CASE SaveAnswered
  BY <1>0, <1>13 DEF SaveAnswered, NoFlow, Apply
<1>14. CASE SavedFades
  BY <1>0, <1>14 DEF SavedFades
<1>15. ASSUME NEW b \in Button, FlowFails(b) PROVE BuildIsKnown'
  BY <1>0, <1>15 DEF FlowFails, NoFlow
<1>16. CASE BuildGoesOn
  BY <1>0, <1>16 DEF BuildGoesOn
<1>17. CASE Elsewhere
  BY <1>0, <1>17, TidyOnce DEF Elsewhere
<1> QED
  BY <1>1, <1>2, <1>3, <1>4, <1>5, <1>6, <1>7, <1>8, <1>9,
     <1>10, <1>11, <1>12, <1>13, <1>14, <1>15, <1>16, <1>17 DEF Next, User, FlowStep

LEMMA InvInit == Init => PageInv
<1> SUFFICES ASSUME Init PROVE PageInv
  OBVIOUS
<1>1. \A b \in Button : flow[b].pc = "idle"
  BY DEF Init, NoFlow
<1> QED
  BY <1>1 DEF Init, PageInv, FlowsFit, AloneIsStored, BuildIsKnown, IconIsTaken,
              AnswersAreTyped, Button, Busy, Pending

LEMMA InvStep == TypeOK /\ PageInv /\ [Next]_vars => PageInv'
<1> SUFFICES ASSUME TypeOK, PageInv, [Next]_vars PROVE PageInv'
  OBVIOUS
<1>1. CASE Next
  BY <1>1, FlowsStep, AloneStep, IconStep, TypedStep, KnownStep DEF PageInv
<1>2. CASE UNCHANGED vars
  BY <1>2 DEF vars, rowVars, pageVars, counters, PageInv, FlowsFit, AloneIsStored,
              BuildIsKnown, Knows, IconIsTaken, AnswersAreTyped, Busy
<1> QED
  BY <1>1, <1>2

THEOREM InvCorrect == Spec => [](TypeOK /\ PageInv)
<1>1. Init => TypeOK /\ PageInv
  BY TypeInit, InvInit
<1>2. TypeOK /\ PageInv /\ [Next]_vars => (TypeOK /\ PageInv)'
  BY TypeStep, InvStep
<1> QED
  BY <1>1, <1>2, PTL DEF Spec

-----------------------------------------------------------------------------
(* What the page promises *)

\* What the user typed last, or what the server made of it, stays in the form, for any forms,
\* any tidying and any number of edits, clicks, requests and loads, but for the exceptions
\* the property names.
THEOREM TypingCorrect == Spec => []TypingIsKept
<1>1. PageInv => TypingIsKept
  BY DEF PageInv, AnswersAreTyped, TypingIsKept
<1> QED
  BY <1>1, InvCorrect, PTL

\* "Salvo" appears only over what is stored.
THEOREM SavedCorrect == Spec => SavedIsStored
<1> DEFINE A == ~saved /\ saved' /\ mishaps \intersect {"both", "elsewhere"} = {} =>
                   /\ form' = Stored[flow["save"].form] /\ brand = form'
                   /\ flow["save"].icon # None => icon = flow["save"].icon
<1>1. TypeOK /\ PageInv /\ [Next]_vars => [A]_vars
  <2> SUFFICES ASSUME TypeOK, PageInv, Next, ~saved, saved',
                      mishaps \intersect {"both", "elsewhere"} = {}
               PROVE  A
    OBVIOUS
  <2>1. SaveAnswered
    BY DEF Next, User, Type, ChooseIcon, OnSave, OnBuild, Poll, FlowStep, SaveBranding,
           UploadIcon, TriggerBuild, BuildAnswered, ReadBranding, SavedFades, BuildGoesOn,
           Elsewhere, Loaded, LoadFails, FlowFails, pageVars
  <2>2. flow["save"].pc = "answer" /\ flow["save"].form \in Form
    BY <2>1 DEF SaveAnswered, TypeOK, Flow, Button
  <2>3. /\ flow["save"].load.brand = Stored[flow["save"].form]
        /\ brand = Stored[flow["save"].form] /\ brand # None
        /\ flow["save"].icon # None => icon = flow["save"].icon
    BY <2>2, TidyOnce DEF PageInv, AloneIsStored, Button
  <2>4. form' = Stored[flow["save"].form]
    BY <2>1, <2>2, <2>3 DEF SaveAnswered, Apply
  <2> QED
    BY <2>3, <2>4
<1> QED
  BY <1>1, InvCorrect, PTL DEF Spec, SavedIsStored

\* A build is asked for what the form showed at the click, tidied, with the icon chosen then.
THEOREM BuildCorrect == Spec => BuildIsOfForm
<1> DEFINE A == build' = "queued" /\ flow'["build"].pc = "queued"
                /\ flow["build"].pc = "trigger"
                /\ mishaps \intersect {"both", "elsewhere"} = {} =>
                   /\ brand = Stored[flow["build"].form]
                   /\ flow["build"].icon # None => icon = flow["build"].icon
<1>1. PageInv => A
  BY DEF PageInv, AloneIsStored, Button
<1> QED
  BY <1>1, InvCorrect, PTL DEF BuildIsOfForm

\* The page triggers no build while one is pending that it did not miss.
THEOREM OneBuildCorrect == Spec => OneBuildAtATime
<1> DEFINE A == flow["build"].pc = "trigger" /\ flow'["build"].pc = "queued"
                /\ mishaps \intersect {"failed", "overtaken", "elsewhere"} = {}
                => build \notin Pending
<1>1. PageInv => A
  BY DEF PageInv, BuildIsKnown
<1> QED
  BY <1>1, InvCorrect, PTL DEF OneBuildAtATime

\* A chosen file leaves its field only when it is stored.
THEOREM IconCorrect == Spec => IconIsStored
<1> DEFINE A == iconFile # None /\ iconFile' = None /\ edits' = edits
                /\ "hurry" \notin mishaps => icon' = iconFile
<1>1. TypeOK /\ PageInv /\ [Next]_vars => [A]_vars
  <2> SUFFICES ASSUME TypeOK, PageInv, Next, iconFile # None, iconFile' = None,
                      edits' = edits, "hurry" \notin mishaps
               PROVE  icon' = iconFile
    OBVIOUS
  <2>1. PICK b \in Button : UploadIcon(b)
    BY DEF Next, User, Type, ChooseIcon, OnSave, OnBuild, Poll, FlowStep, SaveBranding,
           TriggerBuild, BuildAnswered, ReadBranding, SaveAnswered, SavedFades,
           BuildGoesOn, Elsewhere, Loaded, LoadFails, FlowFails, pageVars, TypeOK
  <2> QED
    BY <2>1 DEF UploadIcon, PageInv, IconIsTaken, Busy
<1> QED
  BY <1>1, InvCorrect, PTL DEF Spec, IconIsStored

=============================================================================
