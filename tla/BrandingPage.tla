---------------------------- MODULE BrandingPage ----------------------------
(***************************************************************************)
(* The page of the custom client: a form with an icon, a button that saves *)
(* it, a button that saves it and triggers a build, and an interval that   *)
(* loads the form and the status again while a build is pending.           *)
(*                                                                         *)
(* The two buttons are independent of each other and of the interval.  The *)
(* server tidies what it saves: spaces around a field go, and an empty     *)
(* version becomes the usual one.  The next load shows that in the form.   *)
(* Builds go on as ClientBuilder describes; here only their status counts. *)
(* The address of the icon, messages and the download of the installer     *)
(* are left out.                                                           *)
(***************************************************************************)
EXTENDS Naturals, Sequences, SequencesExt

CONSTANTS Form,      \* contents of the form
          Blank,     \* the one the page begins with
          Filled,    \* those with something in both names, be it spaces
          Named,     \* those with a letter in both names
          Stored,    \* what the server saves of each
          Icon, None,
          MaxEdits,  \* bound on what is typed or chosen
          MaxClicks, \* bound on clicks on the buttons
          MaxEvents, \* bound on failing requests and on other windows
          MaxLoads   \* bound on the loads of the interval under way

ASSUME FormAssumption ==
    /\ Blank \in Form \ Filled /\ Named \subseteq Filled /\ Filled \subseteq Form
    /\ None \notin Form \union Icon
ASSUME StoredAssumption ==
    /\ Stored \in [Form -> Form]
    /\ \A f \in Form : Stored[Stored[f]] = Stored[f] /\ (Stored[f] \in Named <=> f \in Named)
ASSUME BoundsAssumption == {MaxEdits, MaxClicks, MaxEvents, MaxLoads} \subseteq Nat /\ MaxLoads > 0

Status == {"idle", "queued", "building", "ready", "failed"}
Pending == {"queued", "building"}
Button == {"save", "build"}

VARIABLES
    brand,    \* tenant_branding: the saved form, None without a row
    icon,     \* tenant_branding: icon_png
    build,    \* tenant_branding: build_status
    enabled,  \* the first answer has come, the form is shown
    form,     \* what the form shows
    iconFile, \* the file chosen for the icon
    status,   \* the status shown
    saved,    \* "Salvo" is shown
    flow,     \* button -> its handler
    loads,    \* refresh under way, for the interval or the first one
    edits, clicks, events, \* counters, for the bounds
    typed,    \* history: what the user typed last
    mishaps   \* history: what spoils the form or the status, see below

rowVars == <<brand, icon, build>>
pageVars == <<enabled, form, iconFile, status, saved>>
counters == <<edits, clicks, events>>
vars == <<rowVars, pageVars, flow, loads, counters, typed, mishaps>>

\* What get_branding answers; old: a build was triggered since.
Answer == [brand: Form \union {None}, build: Status, old: BOOLEAN]
Flow == [pc: {"idle", "save", "upload", "refresh", "answer", "trigger", "queued"},
         form: Form, icon: Icon \union {None}, load: Answer]

\* Mishaps: another window saved or triggered; a request failed; an answer came after a
\* build it does not know; both handlers were under way; something was typed, or a handler
\* begun, while a load or handler was under way; something was typed while a build was
\* pending; a file was chosen while a handler was under way.
Mishap == {"elsewhere", "failed", "overtaken", "both", "typing", "polling", "hurry"}

\* Every variable holds a value of its kind.
TypeOK ==
    /\ brand \in Form \union {None} /\ icon \in Icon \union {None} /\ build \in Status
    /\ enabled \in BOOLEAN /\ form \in Form /\ iconFile \in Icon \union {None}
    /\ status \in Status /\ saved \in BOOLEAN
    /\ flow \in [Button -> Flow]
    /\ loads \in Seq(Answer) /\ Len(loads) <= MaxLoads
    /\ edits \in 0..MaxEdits /\ clicks \in 0..MaxClicks /\ events \in 0..MaxEvents
    /\ typed \in Form \union {None} /\ mishaps \subseteq Mishap

\* get_branding
Current == [brand |-> brand, build |-> build, old |-> FALSE]

NoAnswer == [brand |-> None, build |-> "idle", old |-> FALSE]
NoFlow == [pc |-> "idle", form |-> Blank, icon |-> None, load |-> NoAnswer]

Init ==
    /\ brand = None /\ icon = None /\ build = "idle"
    /\ enabled = FALSE /\ form = Blank /\ iconFile = None /\ status = "idle" /\ saved = FALSE
    /\ flow = [b \in Button |-> NoFlow]
    /\ loads = <<NoAnswer>>
    /\ edits = 0 /\ clicks = 0 /\ events = 0
    /\ typed = None /\ mishaps = {}

-----------------------------------------------------------------------------
(* The form *)

Busy(b) == flow[b].pc # "idle"
Quiet == loads = << >> /\ \A b \in Button : ~Busy(b)

Spoiled(happens, mishap) == IF happens THEN {mishap} ELSE {}

Type(f) ==
    /\ enabled /\ form # f
    /\ edits < MaxEdits /\ edits' = edits + 1
    /\ form' = f /\ typed' = f
    /\ mishaps' = mishaps \union Spoiled(~Quiet, "typing") \union Spoiled(status \in Pending, "polling")
    /\ UNCHANGED <<rowVars, enabled, iconFile, status, saved, flow, loads, clicks, events>>

\* A file is chosen, or the choice is undone.
ChooseIcon(i) ==
    /\ enabled /\ iconFile # i
    /\ edits < MaxEdits /\ edits' = edits + 1
    /\ iconFile' = i
    /\ mishaps' = mishaps \union Spoiled(Busy("save") \/ Busy("build"), "hurry")
    /\ UNCHANGED <<rowVars, enabled, form, status, saved, flow, loads, clicks, events, typed>>

\* setForm and setStatus of refresh; without a row both stay.
Apply(a) ==
    /\ enabled' = TRUE
    /\ form' = IF a.brand = None THEN form ELSE a.brand
    /\ status' = IF a.brand = None THEN status ELSE a.build

\* A tick of the interval, which is there while the status shown is pending
Poll ==
    /\ enabled /\ status \in Pending
    /\ Len(loads) < MaxLoads
    /\ loads' = Append(loads, Current)
    /\ UNCHANGED <<rowVars, pageVars, flow, counters, typed, mishaps>>

\* Mutant: the answer sets the form only.
LoadedForm(i) ==
    /\ i \in DOMAIN loads
    /\ enabled' = TRUE
    /\ form' = IF loads[i].brand = None THEN form ELSE loads[i].brand
    /\ loads' = RemoveAt(loads, i)
    /\ mishaps' = mishaps \union Spoiled(loads[i].old, "overtaken")
    /\ UNCHANGED <<rowVars, iconFile, status, saved, flow, counters, typed>>

Loaded(i) ==
    /\ i \in DOMAIN loads
    /\ Apply(loads[i])
    /\ loads' = RemoveAt(loads, i)
    /\ mishaps' = mishaps \union Spoiled(loads[i].old, "overtaken")
    /\ UNCHANGED <<rowVars, iconFile, saved, flow, counters, typed>>

Fails == events < MaxEvents /\ events' = events + 1

\* Nothing is tried again but by the interval.
LoadFails(i) ==
    /\ i \in DOMAIN loads
    /\ Fails
    /\ loads' = RemoveAt(loads, i)
    /\ UNCHANGED <<rowVars, pageVars, flow, edits, clicks, typed, mishaps>>

-----------------------------------------------------------------------------
(* The buttons *)

\* A handler begins with saveBranding of the form as it is shown, and takes the icon along.
Begin(b) ==
    /\ enabled /\ ~Busy(b)
    /\ clicks < MaxClicks /\ clicks' = clicks + 1
    /\ flow' = [flow EXCEPT ![b] = [NoFlow EXCEPT !.pc = "save", !.form = form, !.icon = iconFile]]
    /\ mishaps' = mishaps \union Spoiled(\E c \in Button \ {b} : Busy(c), "both")
                          \union Spoiled(loads # << >>, "typing")

\* Something in the names is required to submit the form ...
OnSave ==
    /\ form \in Filled
    /\ Begin("save")
    /\ saved' = FALSE
    /\ UNCHANGED <<rowVars, enabled, form, iconFile, status, loads, edits, events, typed>>

\* Mutant: the button looks at its own handler only.
OnBuildAnytime ==
    /\ Begin("build")
    /\ UNCHANGED <<rowVars, pageVars, loads, edits, events, typed>>

\* ... but not to build; that button is disabled while the status shown is pending.
OnBuild ==
    /\ status \notin Pending
    /\ Begin("build")
    /\ UNCHANGED <<rowVars, pageVars, loads, edits, events, typed>>

\* What follows when the form and the icon are stored
After(b) == IF b = "save" THEN "refresh" ELSE "trigger"

\* Mutant: onSave loads the form beside saving it.
RefreshBeside(b) ==
    /\ flow[b].pc = "save"
    /\ brand' = Stored[flow[b].form]
    /\ flow' = [flow EXCEPT ![b].pc = IF flow[b].icon # None THEN "upload"
                                    ELSE IF b = "save" THEN "answer" ELSE "trigger",
                            ![b].load = Current]
    /\ UNCHANGED <<icon, build, pageVars, loads, counters, typed, mishaps>>

\* persist: save_branding, which tidies the form, and the icon next if one was chosen
SaveBranding(b) ==
    /\ flow[b].pc = "save"
    /\ brand' = Stored[flow[b].form]
    /\ flow' = [flow EXCEPT ![b].pc = IF flow[b].icon = None THEN After(b) ELSE "upload"]
    /\ UNCHANGED <<icon, build, pageVars, loads, counters, typed, mishaps>>

\* upload_icon; the field is emptied, whatever was chosen since.
UploadIcon(b) ==
    /\ flow[b].pc = "upload"
    /\ icon' = flow[b].icon
    /\ iconFile' = None
    /\ flow' = [flow EXCEPT ![b].pc = After(b)]
    /\ UNCHANGED <<brand, build, enabled, form, status, saved, loads, counters, typed, mishaps>>

\* Answers under way that do not know of the build
Outdated(f) == [b \in Button |-> [f[b] EXCEPT !.load.old = (f[b].pc = "answer")]]

\* trigger_build; it rejects a form without letters in the names, and no other.
TriggerBuild ==
    /\ flow["build"].pc = "trigger"
    /\ IF brand \notin Named
       THEN flow' = [flow EXCEPT !["build"] = NoFlow] /\ UNCHANGED <<build, loads>>
       ELSE /\ build' = "queued"
            /\ flow' = [Outdated(flow) EXCEPT !["build"].pc = "queued"]
            /\ loads' = [i \in DOMAIN loads |-> [loads[i] EXCEPT !.old = TRUE]]
    /\ UNCHANGED <<brand, icon, pageVars, counters, typed, mishaps>>

\* The page shows "queued" without asking.
BuildAnswered ==
    /\ flow["build"].pc = "queued"
    /\ status' = "queued"
    /\ flow' = [flow EXCEPT !["build"] = NoFlow]
    /\ UNCHANGED <<rowVars, enabled, form, iconFile, saved, loads, counters, typed, mishaps>>

\* The refresh of onSave
ReadBranding ==
    /\ flow["save"].pc = "refresh"
    /\ flow' = [flow EXCEPT !["save"].pc = "answer", !["save"].load = Current]
    /\ UNCHANGED <<rowVars, pageVars, loads, counters, typed, mishaps>>

\* Mutant: the form is not loaded again.
SavedAtOnce ==
    /\ flow["save"].pc = "answer"
    /\ saved' = TRUE
    /\ flow' = [flow EXCEPT !["save"] = NoFlow]
    /\ UNCHANGED <<rowVars, enabled, form, iconFile, status, loads, counters, typed, mishaps>>

SaveAnswered ==
    /\ flow["save"].pc = "answer"
    /\ Apply(flow["save"].load)
    /\ saved' = TRUE
    /\ mishaps' = mishaps \union Spoiled(flow["save"].load.old, "overtaken")
    /\ flow' = [flow EXCEPT !["save"] = NoFlow]
    /\ UNCHANGED <<rowVars, iconFile, loads, counters, typed>>

\* "Salvo" disappears after three seconds.
SavedFades ==
    /\ saved
    /\ saved' = FALSE
    /\ UNCHANGED <<rowVars, enabled, form, iconFile, status, flow, loads, counters, typed, mishaps>>

\* A request of a handler fails, before or after it was handled: the button is enabled.
FlowFails(b) ==
    /\ Busy(b)
    /\ Fails
    /\ brand' \in {brand} \union (IF flow[b].pc = "save" THEN {Stored[flow[b].form]} ELSE {})
    /\ icon' \in {icon} \union (IF flow[b].pc = "upload" THEN {flow[b].icon} ELSE {})
    /\ flow' = [flow EXCEPT ![b] = NoFlow]
    /\ mishaps' = mishaps \union {"failed"}
    /\ UNCHANGED <<build, pageVars, loads, edits, clicks, typed>>

-----------------------------------------------------------------------------
(* Elsewhere *)

\* spawn_build and resume_pending
BuildGoesOn ==
    /\ build \in Pending
    /\ build' \in (IF build = "queued" THEN {"building", "failed"} ELSE {"ready", "failed"})
    /\ UNCHANGED <<brand, icon, pageVars, flow, loads, counters, typed, mishaps>>

\* Another window saves a form or triggers a build.
Elsewhere ==
    /\ Fails
    /\ \/ brand' \in {Stored[f] : f \in Form} \ {brand} /\ UNCHANGED build
       \/ brand \in Named /\ build' = "queued" /\ UNCHANGED brand
    /\ mishaps' = mishaps \union {"elsewhere"}
    /\ UNCHANGED <<icon, pageVars, flow, loads, edits, clicks, typed>>

-----------------------------------------------------------------------------
User ==
    \/ \E f \in Form : Type(f)
    \/ \E i \in Icon \union {None} : ChooseIcon(i)
    \/ OnSave \/ OnBuild

FlowStep ==
    \/ \E b \in Button : SaveBranding(b) \/ UploadIcon(b)
    \/ TriggerBuild \/ BuildAnswered \/ ReadBranding \/ SaveAnswered

Next ==
    \/ User \/ Poll \/ FlowStep \/ SavedFades \/ BuildGoesOn \/ Elsewhere
    \/ \E i \in 1..MaxLoads : Loaded(i) \/ LoadFails(i)
    \/ \E b \in Button : FlowFails(b)

Spec == Init /\ [][Next]_vars

\* Requests are handled and answered, the interval ticks.  No fairness for the user, for
\* builds, or for other windows.
Fairness == WF_vars(FlowStep) /\ WF_vars(Poll) /\ WF_vars(Loaded(1))

FairSpec == Spec /\ Fairness

-----------------------------------------------------------------------------
(* Properties *)

\* "Salvo" appears only when the form of the click, tidied, and its icon are stored, and the
\* form shows what is stored, unless another handler or window saved besides (onSave,
\* persist, save_branding).
SavedIsStored ==
    [][~saved /\ saved' /\ mishaps \intersect {"both", "elsewhere"} = {} =>
         /\ form' = Stored[flow["save"].form] /\ brand = form'
         /\ flow["save"].icon # None => icon = flow["save"].icon]_vars

\* A build is asked for what the form showed at the click, tidied, with the icon chosen then,
\* unless another handler or window saved besides (onBuild, persist, trigger_build).
BuildIsOfForm ==
    [][build' = "queued" /\ flow'["build"].pc = "queued" /\ flow["build"].pc = "trigger"
       /\ mishaps \intersect {"both", "elsewhere"} = {} =>
         /\ brand = Stored[flow["build"].form]
         /\ flow["build"].icon # None => icon = flow["build"].icon]_vars

\* The page triggers no build while one is pending, although the route does not test it,
\* unless the page missed the pending one: its answer was lost, overtaken by an older one,
\* or it was triggered elsewhere (the disabled button, trigger_build).
OneBuildAtATime ==
    [][flow["build"].pc = "trigger" /\ flow'["build"].pc = "queued"
       /\ mishaps \intersect {"failed", "overtaken", "elsewhere"} = {}
       => build \notin Pending]_vars

\* What the user typed last stays in the form, or what the server made of it in saving it,
\* although every load replaces the form, unless it was typed while a load or a handler was
\* under way or a build was pending, or another window saved (refresh, save_branding).
TypingIsKept ==
    typed # None /\ mishaps \intersect {"typing", "polling", "elsewhere"} = {} =>
        form \in {typed, Stored[typed]}

\* A chosen file leaves its field only when it is stored, unless it was chosen during a save
\* (persist).
IconIsStored ==
    [][iconFile # None /\ iconFile' = None /\ edits' = edits /\ "hurry" \notin mishaps
       => icon' = iconFile]_vars

\* In the end both buttons are enabled again and the status shown is the one of the build,
\* unless the page missed a build (onSave, onBuild, the effect that polls).
PageSettles ==
    <>[](/\ \A b \in Button : ~Busy(b)
         /\ mishaps \intersect {"failed", "overtaken", "elsewhere"} = {} => status = build)

=============================================================================
