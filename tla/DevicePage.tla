----------------------------- MODULE DevicePage -----------------------------
(***************************************************************************)
(* The devices page: one administrator filters the list, works on its      *)
(* cards, on the trash and in the window of one device, while the list is  *)
(* loaded again and again.  Handlers of the page go on after their await   *)
(* with what they captured: the device, the window they belong to and the  *)
(* filter of the page when they were clicked.                              *)
(*                                                                         *)
(* Rows of the server carry what filters and windows can tell apart.  The  *)
(* order of the list and the three views of it are layout: a new order is  *)
(* the same load as a tick of the interval.  Other windows of the          *)
(* dashboard and the devices appear by what they do to the rows.           *)
(***************************************************************************)
EXTENDS Naturals, Sequences, SequencesExt

CONSTANTS Device, Branch, Alias, Tag, Null,
          Numeric,   \* devices whose RustDesk id is a number
          FirstRow,  \* the rows at the beginning
          Touched,   \* bound: the devices that others than this page change
          Filters,   \* the filters the user chooses
          MaxClicks, \* bound on the clicks and edits of the user
          MaxEvents, \* bound on changes from elsewhere and failing requests
          MaxModals, \* bound on the windows opened
          MaxLoads,  \* bound on the loads under way; ticks leave room for those of handlers
          MaxOps     \* bound on the handlers under way

Row == [place: {"live", "trash", "gone"}, online: BOOLEAN, favorite: BOOLEAN,
        branch: Branch \union {Null}, alias: Alias]
Filter == [trash: BOOLEAN, status: {"all", "online", "offline", "favorites"},
           branch: Branch \union {Null}, search: Alias \union {Null}]
AllDevices == [trash |-> FALSE, status |-> "all", branch |-> Null, search |-> Null]
\* What the window of a device lets the user edit
Fields == [alias: Alias, branch: Branch \union {Null}]

ASSUME NullAssumption == Null \notin Branch \union Alias \union Tag
ASSUME RowsAssumption == FirstRow \in [Device -> Row]
ASSUME FiltersAssumption == AllDevices \in Filters /\ Filters \subseteq Filter
ASSUME NumericAssumption == Numeric \subseteq Device
ASSUME DevicesBoundsAssumption ==
    {MaxClicks, MaxEvents, MaxModals, MaxLoads, MaxOps} \subseteq Nat /\ MaxLoads > 0

VARIABLES
    row,      \* the table devices
    tagged,   \* the table device_tags
    launched, \* devices with a row of connection_audit
    filter,   \* showTrash, statusFilter, branchFilter and search
    list,     \* devices: what the cards show
    tagMap,   \* deviceTagMap
    modal,    \* the window that is open, with the state of its component
    loads,    \* calls of load under way, the oldest first
    ops,      \* handlers under way, the oldest first
    opened,   \* devices whose client was opened
    modals, clicks, events, \* counters, for the bounds
    told,     \* history: what the last successful save of a device said
    partly,   \* history: devices whose last save stored only a part, or whose alias or
              \* branch was set elsewhere after it
    mishaps   \* history: what spoils the list or a save, see below

serverVars == <<row, tagged, launched>>
counters == <<modals, clicks, events>>
history == <<told, partly>>
devicesVars ==
    <<serverVars, filter, list, tagMap, modal, loads, ops, opened, counters, history, mishaps>>

\* Mishaps: a row or its tags were changed elsewhere; a load or an answer was lost; a load was answered
\* before an older one; a handler loaded with the filter it was clicked under; tags were
\* changed in a window, which loads nothing; two saves of one device met, of this page or
\* of another.
Mishap == {"foreign", "failed", "overtaken", "oldFilter", "retagged", "twoSaves"}

IsList(l) == DOMAIN l \subseteq Device /\ l \in [DOMAIN l -> Row]
\* sure: what the window knows of tags is certain
Modal == [n: 1..MaxModals, device: Device, edit: Fields, tags: SUBSET Tag,
          fetch: {"asked", "read", "shown", "failed"}, saving: BOOLEAN, sure: BOOLEAN]
Op == [kind: {"favorite", "delete", "restore", "purge", "save", "add", "remove", "connect"},
       device: Device, modal: 0..MaxModals, filter: Filter, value: Fields \union Tag \union {Null},
       pc: {"asked", "patched", "handled", "failed"}]

\* Every variable holds a value of its kind, and a client is opened only for a device whose
\* id is a number, whoever asks for it (connectDevice).
DevicesTypeOK ==
    /\ row \in [Device -> Row] /\ tagged \in [Device -> SUBSET Tag] /\ launched \subseteq Device
    /\ filter \in Filters
    /\ IsList(list)
    /\ tagMap \in [Device -> SUBSET Tag]
    /\ modal # Null => modal \in Modal
    /\ Len(loads) <= MaxLoads
    /\ \A i \in DOMAIN loads : IsList(loads[i].list) /\ loads[i].tags \in [Device -> SUBSET Tag]
    /\ Len(ops) <= MaxOps /\ \A i \in DOMAIN ops : ops[i] \in Op
    /\ opened \subseteq Numeric
    /\ modals \in 0..MaxModals /\ clicks \in 0..MaxClicks /\ events \in 0..MaxEvents
    /\ told \in [Device -> Fields] /\ partly \subseteq Device
    /\ mishaps \subseteq Mishap

\* list_devices: the trash knows no filter but the search, as load sends none.
Matches(f, r) ==
    /\ r.place = (IF f.trash THEN "trash" ELSE "live")
    /\ f.search # Null => r.alias = f.search
    /\ ~f.trash =>
         /\ f.branch # Null => r.branch = f.branch
         /\ f.status = "online" => r.online
         /\ f.status = "offline" => ~r.online
         /\ f.status = "favorites" => r.favorite

Selection(f) == [d \in {x \in Device : Matches(f, row[x])} |-> row[d]]

\* listBranches, listDevices and getAllDeviceTags with filter f.  They are handled when they
\* are asked: a load handled later is one of a later tick, and what counts here is how old
\* an answer can be.  Nothing compares a row with tags read before or after it.
Asked(f) == [list |-> Selection(f), tags |-> tagged]

DevicesInit ==
    /\ row = FirstRow /\ tagged = [d \in Device |-> {}] /\ launched = {}
    /\ filter = AllDevices /\ list = << >> /\ tagMap = [d \in Device |-> {}]
    /\ modal = Null /\ loads = <<Asked(AllDevices)>> /\ ops = << >> /\ opened = {}
    /\ modals = 0 /\ clicks = 0 /\ events = 0
    /\ told = [d \in Device |-> [alias |-> FirstRow[d].alias, branch |-> FirstRow[d].branch]]
    /\ partly = {} /\ mishaps = {}

-----------------------------------------------------------------------------
(* The list *)

CanLoad == Len(loads) < MaxLoads

\* load, as it was made for filter f
StartLoad(f) ==
    /\ CanLoad
    /\ loads' = Append(loads, Asked(f))

Click == clicks < MaxClicks /\ clicks' = clicks + 1

\* Mutant: the effect of the first render is the only one.
PollFirst ==
    /\ Len(loads) + Len(ops) < MaxLoads
    /\ StartLoad(AllDevices)
    /\ UNCHANGED <<serverVars, filter, list, tagMap, modal, ops, opened, counters, history, mishaps>>

\* A tick of the interval, and what a new order does
Poll ==
    /\ Len(loads) + Len(ops) < MaxLoads
    /\ StartLoad(filter)
    /\ UNCHANGED <<serverVars, filter, list, tagMap, modal, ops, opened, counters, history, mishaps>>

\* Filters, search and the trash button; an open window covers them.  The list stays until
\* the answer, the loads for other filters go on.
ChangeFilter(f) ==
    /\ modal = Null /\ f \in Filters \ {filter}
    /\ Click
    /\ filter' = f
    /\ StartLoad(f)
    /\ UNCHANGED <<serverVars, list, tagMap, modal, ops, opened, modals, events, history, mishaps>>

\* All are answered; it does not matter for which filter or when they were asked.
Loaded(i) ==
    /\ i \in DOMAIN loads
    /\ list' = loads[i].list
    /\ tagMap' = loads[i].tags
    /\ loads' = RemoveAt(loads, i)
    /\ mishaps' = IF i = 1 THEN mishaps ELSE mishaps \union {"overtaken"}
    /\ UNCHANGED <<serverVars, filter, modal, ops, opened, counters, history>>

\* One of them fails: an error is shown above the old list.
LoadFails(i) ==
    /\ events < MaxEvents
    /\ events' = events + 1
    /\ loads' = RemoveAt(loads, i)
    /\ mishaps' = mishaps \union {"failed"}
    /\ UNCHANGED <<serverVars, filter, list, tagMap, modal, ops, opened, modals, clicks, history>>

-----------------------------------------------------------------------------
(* Clicks on cards and in the window *)

\* A handler begins: its first request is sent.
Begin(kind, d, n, value) ==
    /\ Len(ops) < MaxOps
    /\ ops' = Append(ops, [kind |-> kind, device |-> d, modal |-> n, filter |-> filter,
                           value |-> value, pc |-> "asked"])

\* Mutant: the card offers the connection whatever the id.
CardOffers(kind, d) ==
    /\ modal = Null /\ ~filter.trash /\ d \in DOMAIN list
    /\ kind \in {"favorite", "delete", "connect"}
    /\ Click
    /\ Begin(kind, d, 0, Null)
    /\ UNCHANGED <<serverVars, filter, list, tagMap, modal, loads, opened, modals, events, history,
                   mishaps>>

\* A click on a card; a connection needs a numeric id.
CardClick(kind, d) ==
    /\ modal = Null /\ ~filter.trash /\ d \in DOMAIN list
    /\ kind \in {"favorite", "delete", "connect"}
    /\ kind = "connect" => d \in Numeric
    /\ Click
    /\ Begin(kind, d, 0, Null)
    /\ UNCHANGED <<serverVars, filter, list, tagMap, modal, loads, opened, modals, events, history,
                   mishaps>>

\* The trash has a card for each device of the same list.
TrashClick(kind, d) ==
    /\ modal = Null /\ filter.trash /\ d \in DOMAIN list
    /\ kind \in {"restore", "purge"}
    /\ Click
    /\ Begin(kind, d, 0, Null)
    /\ UNCHANGED <<serverVars, filter, list, tagMap, modal, loads, opened, modals, events, history,
                   mishaps>>

\* A handler for the tags of device d is under way.
Tagging(d, tags) ==
    \E i \in DOMAIN ops : ops[i].device = d /\ ops[i].kind \in {"add", "remove"} /\ ops[i].value \in tags

\* The window of a device opens with what the list knows of it.
OpenModal(d) ==
    /\ modal = Null /\ ~filter.trash /\ d \in DOMAIN list
    /\ modals < MaxModals
    /\ modals' = modals + 1
    /\ Click
    /\ modal' = [n |-> modals + 1, device |-> d,
                 edit |-> [alias |-> list[d].alias, branch |-> list[d].branch],
                 tags |-> {}, fetch |-> "asked", saving |-> FALSE, sure |-> ~Tagging(d, Tag)]
    /\ UNCHANGED <<serverVars, filter, list, tagMap, loads, ops, opened, events, history, mishaps>>

CloseModal ==
    /\ modal # Null
    /\ modal' = Null
    /\ UNCHANGED <<serverVars, filter, list, tagMap, loads, ops, opened, counters, history, mishaps>>

\* Typing goes on while a save is under way.
Edit(fields) ==
    /\ modal # Null /\ modal.edit # fields
    /\ Click
    /\ modal' = [modal EXCEPT !.edit = fields]
    /\ UNCHANGED <<serverVars, filter, list, tagMap, loads, ops, opened, modals, events, history,
                   mishaps>>

\* listTags and listDeviceTags are handled, then answered; a failure leaves no tags to click.
FetchTags ==
    /\ modal # Null
    /\ \/ /\ modal.fetch = "asked"
          /\ modal' = [modal EXCEPT !.fetch = "read", !.tags = tagged[modal.device]]
       \/ modal.fetch = "read" /\ modal' \in {[modal EXCEPT !.fetch = f] : f \in {"shown", "failed"}}
    /\ UNCHANGED <<serverVars, filter, list, tagMap, loads, ops, opened, counters, history, mishaps>>

\* Mutant: the tag is lit or dimmed at once.
ToggleAtOnce(t) ==
    /\ modal # Null /\ modal.fetch = "shown"
    /\ Click
    /\ Begin(IF t \in modal.tags THEN "remove" ELSE "add", modal.device, modal.n, t)
    /\ modal' = [modal EXCEPT !.sure = @ /\ ~Tagging(modal.device, {t}),
                              !.tags = IF t \in @ THEN @ \ {t} ELSE @ \union {t}]
    /\ UNCHANGED <<serverVars, filter, list, tagMap, loads, opened, modals, events, history, mishaps>>

\* What is asked depends on what is lit; it changes with the answer only.
ToggleTag(t) ==
    /\ modal # Null /\ modal.fetch = "shown"
    /\ Click
    /\ Begin(IF t \in modal.tags THEN "remove" ELSE "add", modal.device, modal.n, t)
    /\ modal' = [modal EXCEPT !.sure = @ /\ ~Tagging(modal.device, {t})]
    /\ UNCHANGED <<serverVars, filter, list, tagMap, loads, opened, modals, events, history, mishaps>>

ModalClick(kind) ==
    /\ modal # Null
    /\ kind \in {"favorite", "delete", "connect"}
    /\ kind = "connect" => modal.device \in Numeric
    /\ Click
    /\ Begin(kind, modal.device, modal.n, Null)
    /\ UNCHANGED <<serverVars, filter, list, tagMap, modal, loads, opened, modals, events, history,
                   mishaps>>

\* A save of device d is under way.
Saving(d) == \E i \in DOMAIN ops : ops[i].kind = "save" /\ ops[i].device = d

Save ==
    /\ modal # Null /\ ~modal.saving
    /\ Click
    /\ Begin("save", modal.device, modal.n, modal.edit)
    /\ modal' = [modal EXCEPT !.saving = TRUE]
    /\ mishaps' = IF Saving(modal.device) THEN mishaps \union {"twoSaves"} ELSE mishaps
    /\ UNCHANGED <<serverVars, filter, list, tagMap, loads, opened, modals, events, history>>

-----------------------------------------------------------------------------
(* The server handles a request *)

Exists(d) == row[d].place # "gone"

Pending(i, kind) == ops[i].kind = kind /\ ops[i].pc = "asked"

Becomes(i, pc) == ops' = [ops EXCEPT ![i].pc = pc]

ToggleFavorite(i) ==
    LET d == ops[i].device
    IN /\ Pending(i, "favorite")
       /\ IF Exists(d)
          THEN row' = [row EXCEPT ![d].favorite = ~@] /\ Becomes(i, "handled")
          ELSE UNCHANGED row /\ Becomes(i, "failed")
       /\ UNCHANGED <<tagged, launched, partly>>

\* delete_device, restore_device and purge_device answer the same for a row they leave alone.
DeleteDevice(i) ==
    LET d == ops[i].device
    IN /\ Pending(i, "delete")
       /\ row' = IF row[d].place = "live"
                 THEN [row EXCEPT ![d].place = "trash", ![d].online = FALSE] ELSE row
       /\ Becomes(i, "handled")
       /\ UNCHANGED <<tagged, launched, partly>>

RestoreDevice(i) ==
    LET d == ops[i].device
    IN /\ Pending(i, "restore")
       /\ row' = IF Exists(d) THEN [row EXCEPT ![d].place = "live"] ELSE row
       /\ Becomes(i, "handled")
       /\ UNCHANGED <<tagged, launched, partly>>

\* The tags of the device go with it.
PurgeDevice(i) ==
    LET d == ops[i].device
        purged == row[d].place = "trash"
    IN /\ Pending(i, "purge")
       /\ row' = IF purged THEN [row EXCEPT ![d].place = "gone"] ELSE row
       /\ tagged' = IF purged THEN [tagged EXCEPT ![d] = {}] ELSE tagged
       /\ Becomes(i, "handled")
       /\ UNCHANGED <<launched, partly>>

\* Mutant: the window does not wait for the branch, nor send it.
PatchOnly(i) ==
    LET d == ops[i].device
    IN /\ Pending(i, "save")
       /\ IF Exists(d)
          THEN row' = [row EXCEPT ![d].alias = ops[i].value.alias] /\ Becomes(i, "handled")
          ELSE UNCHANGED row /\ Becomes(i, "failed")
       /\ UNCHANGED <<tagged, launched, partly>>

\* onSave, its first request: alias and description
PatchDevice(i) ==
    LET d == ops[i].device
    IN /\ Pending(i, "save")
       /\ IF Exists(d)
          THEN row' = [row EXCEPT ![d].alias = ops[i].value.alias] /\ Becomes(i, "patched")
          ELSE UNCHANGED row /\ Becomes(i, "failed")
       /\ UNCHANGED <<tagged, launched, partly>>

\* Its second, sent when the first is answered
SetDeviceBranch(i) ==
    LET d == ops[i].device
    IN /\ ops[i].pc = "patched"
       /\ IF Exists(d)
          THEN row' = [row EXCEPT ![d].branch = ops[i].value.branch] /\ Becomes(i, "handled")
               /\ UNCHANGED partly
          ELSE UNCHANGED row /\ Becomes(i, "failed") /\ partly' = partly \union {d}
       /\ UNCHANGED <<tagged, launched>>

AddDeviceTag(i) ==
    LET d == ops[i].device
    IN /\ Pending(i, "add")
       /\ IF Exists(d)
          THEN tagged' = [tagged EXCEPT ![d] = @ \union {ops[i].value}] /\ Becomes(i, "handled")
          ELSE UNCHANGED tagged /\ Becomes(i, "failed")
       /\ UNCHANGED <<row, launched, partly>>

RemoveDeviceTag(i) ==
    /\ Pending(i, "remove")
    /\ tagged' = [tagged EXCEPT ![ops[i].device] = @ \ {ops[i].value}]
    /\ Becomes(i, "handled")
    /\ UNCHANGED <<row, launched, partly>>

\* register_launch, for a device that is not in the trash
RegisterLaunch(i) ==
    LET d == ops[i].device
    IN /\ Pending(i, "connect")
       /\ IF row[d].place = "live"
          THEN launched' = launched \union {d} /\ Becomes(i, "handled")
          ELSE UNCHANGED launched /\ Becomes(i, "failed")
       /\ UNCHANGED <<row, tagged, partly>>

Handle(i) ==
    /\ \/ ToggleFavorite(i) \/ DeleteDevice(i) \/ RestoreDevice(i) \/ PurgeDevice(i)
       \/ PatchDevice(i) \/ SetDeviceBranch(i) \/ AddDeviceTag(i) \/ RemoveDeviceTag(i)
       \/ RegisterLaunch(i)
    /\ UNCHANGED <<filter, list, tagMap, modal, loads, opened, counters, told, mishaps>>

\* A request fails at the browser, before or after it was handled.
Lose(i) ==
    LET o == ops[i]
        stored == o.pc # "asked"
    IN /\ o.pc # "failed"
       /\ events < MaxEvents
       /\ events' = events + 1
       /\ Becomes(i, "failed")
       /\ mishaps' = IF stored THEN mishaps \union {"failed"} ELSE mishaps
       /\ partly' = IF stored /\ o.kind = "save" THEN partly \union {o.device} ELSE partly
       /\ modal' = IF stored /\ modal # Null /\ modal.n = o.modal
                   THEN [modal EXCEPT !.sure = FALSE] ELSE modal
       /\ UNCHANGED <<serverVars, filter, list, tagMap, loads, opened, modals, clicks, told>>

-----------------------------------------------------------------------------
(* A handler goes on after its await *)

Ends(i) == ops' = RemoveAt(ops, i)

\* The window the handler belongs to is still the one that is open.
OwnModal(i) == modal # Null /\ modal.n = ops[i].modal

\* The list is loaded again, with the filter of the click.  A handler of a window closes
\* the window that is open now.
Refresh(i) ==
    /\ StartLoad(ops[i].filter)
    /\ modal' = IF ops[i].modal = 0 THEN modal ELSE Null
    /\ mishaps' = IF ops[i].filter = filter THEN mishaps ELSE mishaps \union {"oldFilter"}

\* Mutant: the list is left to the interval.
NoRefresh(i) ==
    /\ ops[i].pc = "handled"
    /\ ops[i].kind \in {"favorite", "delete", "restore", "purge"}
    /\ modal' = IF ops[i].modal = 0 THEN modal ELSE Null
    /\ Ends(i)
    /\ UNCHANGED <<serverVars, filter, list, tagMap, loads, opened, counters, history, mishaps>>

ActionDone(i) ==
    /\ ops[i].pc = "handled"
    /\ ops[i].kind \in {"favorite", "delete", "restore", "purge"}
    /\ Refresh(i)
    /\ Ends(i)
    /\ UNCHANGED <<serverVars, filter, list, tagMap, opened, counters, history>>

SaveDone(i) ==
    LET d == ops[i].device
    IN /\ ops[i].pc = "handled" /\ ops[i].kind = "save"
       /\ Refresh(i)
       /\ Ends(i)
       /\ told' = [told EXCEPT ![d] = ops[i].value]
       /\ partly' = partly \ {d}
       /\ UNCHANGED <<serverVars, filter, list, tagMap, opened, counters>>

TagDone(i) ==
    LET t == ops[i].value
    IN /\ ops[i].pc = "handled" /\ ops[i].kind \in {"add", "remove"}
       /\ Ends(i)
       /\ modal' = IF ~OwnModal(i) THEN modal
                   ELSE IF ops[i].kind = "add" THEN [modal EXCEPT !.tags = @ \union {t}]
                   ELSE [modal EXCEPT !.tags = @ \ {t}]
       /\ mishaps' = mishaps \union {"retagged"}
       /\ UNCHANGED <<serverVars, filter, list, tagMap, loads, opened, counters, history>>

\* connectDevice: the client is opened although its launch could not be registered.
ConnectDone(i) ==
    /\ ops[i].pc \in {"handled", "failed"} /\ ops[i].kind = "connect"
    /\ opened' = opened \union {ops[i].device}
    /\ Ends(i)
    /\ UNCHANGED <<serverVars, filter, list, tagMap, modal, loads, counters, told, partly, mishaps>>

\* Any other handler throws: no load, no message, the window stays; a save enables its button.
OpFails(i) ==
    /\ ops[i].pc = "failed" /\ ops[i].kind # "connect"
    /\ Ends(i)
    /\ modal' = IF ops[i].kind = "save" /\ OwnModal(i) THEN [modal EXCEPT !.saving = FALSE] ELSE modal
    /\ UNCHANGED <<serverVars, filter, list, tagMap, loads, opened, counters, history, mishaps>>

GoOn(i) == ActionDone(i) \/ SaveDone(i) \/ TagDone(i) \/ ConnectDone(i) \/ OpFails(i)

-----------------------------------------------------------------------------
(* Elsewhere *)

\* What is made of row r elsewhere: the ticks of an agent set it online, in the trash too,
\* and a lost one offline; another window stars, renames or moves it; the trash takes or
\* gives back a row; it is removed for good, as a placeholder without having been there.
Altered(r) ==
    {[r EXCEPT !.online = ~@], [r EXCEPT !.favorite = ~@], [r EXCEPT !.place = "gone"],
     IF r.place = "live" THEN [r EXCEPT !.place = "trash", !.online = FALSE]
     ELSE [r EXCEPT !.place = "live"]}
        \union {[r EXCEPT !.alias = a] : a \in Alias}
        \union {[r EXCEPT !.branch = b] : b \in Branch \union {Null}}

Resaved(d, r) == r.alias # row[d].alias \/ r.branch # row[d].branch

\* Other windows and the devices themselves; the tags of a row go with it.
Foreign(d) ==
    /\ d \in Touched /\ Exists(d)
    /\ events < MaxEvents
    /\ events' = events + 1
    /\ \/ \E r \in Altered(row[d]) \ {row[d]} :
            /\ row' = [row EXCEPT ![d] = r]
            /\ tagged' = IF r.place = "gone" THEN [tagged EXCEPT ![d] = {}] ELSE tagged
            /\ partly' = IF Resaved(d, r) THEN partly \union {d} ELSE partly
            /\ mishaps' = mishaps \union {"foreign"}
                 \union (IF Resaved(d, r) /\ Saving(d) THEN {"twoSaves"} ELSE {})
            /\ UNCHANGED modal
       \/ \E tags \in (SUBSET Tag) \ {tagged[d]} :
            /\ tagged' = [tagged EXCEPT ![d] = tags]
            /\ modal' = IF modal # Null /\ modal.device = d THEN [modal EXCEPT !.sure = FALSE]
                        ELSE modal
            /\ mishaps' = mishaps \union {"foreign"}
            /\ UNCHANGED <<row, partly>>
    /\ UNCHANGED <<launched, filter, list, tagMap, loads, ops, opened, modals, clicks, told>>

-----------------------------------------------------------------------------
Administrator ==
    \/ \E f \in Filters : ChangeFilter(f)
    \/ \E d \in Device : \/ OpenModal(d)
                         \/ \E k \in {"favorite", "delete", "connect"} : CardClick(k, d)
                         \/ \E k \in {"restore", "purge"} : TrashClick(k, d)
    \/ CloseModal \/ Save \/ \E x \in Fields : Edit(x)
    \/ \E t \in Tag : ToggleTag(t)
    \/ \E k \in {"favorite", "delete", "connect"} : ModalClick(k)

OpStep(i) == i \in DOMAIN ops /\ (Handle(i) \/ GoOn(i))

DevicesNext ==
    \/ Administrator \/ Poll \/ FetchTags
    \/ \E i \in 1..MaxLoads : Loaded(i)
    \/ \E i \in 1..MaxOps : OpStep(i)
    \/ \E i \in DOMAIN loads : LoadFails(i)
    \/ \E i \in DOMAIN ops : Lose(i)
    \/ \E d \in Device : Foreign(d)

DevicesSpec == DevicesInit /\ [][DevicesNext]_devicesVars

\* The interval ticks, the oldest load and the oldest handler get their answers.  No fairness
\* for the user, for faults or for other windows.
DevicesFairness == WF_devicesVars(Poll) /\ WF_devicesVars(Loaded(1)) /\ WF_devicesVars(OpStep(1))

FairDevicesSpec == DevicesSpec /\ DevicesFairness

-----------------------------------------------------------------------------
(* Properties *)

\* Alias and branch of a device are what the last save that closed its window said, unless
\* a save of it is under way, stored a part only (a save that fails says nothing), or met
\* another one, or they were set elsewhere since (onSave).
SavedIsStored ==
    "twoSaves" \notin mishaps =>
        \A d \in Device : Saving(d) \/ d \in partly
                          \/ told[d] = [alias |-> row[d].alias, branch |-> row[d].branch]

\* With no click on a tag under way, the window shows the tags its device has, unless clicks
\* on one tag met, one was under way when the window opened, an answer was lost, or the tags
\* were changed elsewhere (onToggleTag).
TagsAreShown ==
    modal # Null /\ modal.fetch = "shown" /\ modal.sure /\ ~Tagging(modal.device, Tag)
    /\ Exists(modal.device) => modal.tags = tagged[modal.device]

\* When everything is answered the page shows what the server has, without waiting for the
\* interval, unless one of the mishaps happened (load, onRefresh).
QuietIsFresh ==
    ops = << >> /\ loads = << >> /\ mishaps \subseteq {"retagged", "twoSaves"} =>
        /\ list = Selection(filter)
        /\ mishaps = {} => tagMap = tagged

\* Whatever overtook or failed, the page shows in the end what its filter selects, and the
\* button of the window is enabled again (load, the effect that polls, onSave).
PageSettles ==
    <>[](/\ list = Selection(filter) /\ tagMap = tagged
         /\ modal # Null => ~modal.saving)

=============================================================================
