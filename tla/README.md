# RustDesk Plus: a verification project

TLA+ models of the concurrent core of RustDesk Plus and of the pages of its dashboard, the TLC runs that check them
on small instances, and TLAPS proofs of their main safety properties for every
instance. Paths are relative to the repository (`src/` is its root).

1. [The system](#1-the-system)
2. [Plan](#2-plan)
3. [Modules and the code](#3-modules-and-the-code)
4. [Runs](#4-runs)
5. [Proofs](#5-proofs)
6. [Disagreements with the code's documents](#6-disagreements-with-the-codes-documents)
7. [What is not modelled](#7-what-is-not-modelled)

## 1. The system

RustDesk Plus adds a management server to the RustDesk remote desktop: `plus-api`
(Rust, axum, PostgreSQL), a Go agent that runs as a Windows service on every managed
PC and keeps a WebSocket to plus-api, a Next.js dashboard, a Go installer and the
unmodified `hbbs`/`hbbr` servers of RustDesk. plus-api has no process-wide lock but
one: a map from `"{tenant_id}:{device_uuid}"` to the sender of the task that serves
the agent's WebSocket (`state.rs`). Everything else is shared through PostgreSQL, where
each handler runs a sequence of statements that commit one by one. Hard behaviour
therefore comes from three sources: statements of different requests and background
tasks interleave; agents come and go while the map and the rows still speak of them;
and a restart of plus-api loses the map and all background tasks but no row.

| Component | State it keeps | Operations | What makes it correct |
|---|---|---|---|
| Device registry and presence (`routes/client.rs`, `presence.rs`, `main.rs`, `routes/admin.rs`) | `devices`: one row per uuid, RustDesk id unique in the tenant, `online`, `last_seen_at`, `deleted_at` | heartbeat, sysinfo (merge the agent's placeholder, upsert the native row), presence refresh through hbbs every 30 s, sweeper (60 s), trash, restore, purge | the trash is obeyed by everything but an administrator; a machine that is off ends up offline; placeholders disappear |
| Agent channel (`routes/agent.rs`, `state.rs`, `agent/main.go`) | the map of senders; one task per connection with its key | upgrade, find or create the device row, register, announce, tick every 20 s, takeover, cleanup; the agent's endless reconnection | a sender in the map belongs to a running task; commands reach their machine only; every agent ends up registered and online |
| Script runs (`routes/scripts.rs`, `agent/main.go`) | `script_runs`, `script_run_results`, `script_run_steps` | fan-out of a run, progress reports, closing of the run | each device gets one outcome; the run is closed once, after all, with the right verdict |
| Remote commands (`routes/admin.rs`, `routes/agent.rs`, terminal page) | `exec_jobs`, `exec_results` | send, store a result, poll for 120 s | a result reaches the row of its device and job and is not overwritten |
| Connection audit (`routes/audit.rs`) | audited connections, pending launches, nonces of processed posts | launch, new, peer, close; posts are repeated by the client | one row per connection, closed rows stay closed, a repeated post has no second effect |
| Client builder (`builder.rs`, `routes/admin.rs`) | `tenant_branding`, one executable per tenant, a task per build | save branding, trigger build, dispatch to GitHub Actions, poll, store, resume after a restart | a build ends; what is offered for download is whole and the tenant's own |
| Installer cache and agent binary (`installer.rs`, `config.rs`) | generated installer and its metadata, build lock, agent binary | build on demand, invalidate, serve; agent auto-update | the served installer carries the current configuration |
| Server configuration and setup (`config.rs`, `routes/setup.rs`) | `server_config`, install code and password of a tenant | create on first use, save, first-run setup | one administrator is set up; all requests see one install code |
| Tenants, users, authentication (`routes/admin.rs`, `auth.rs`) | `tenants`, `users`, JWT | CRUD, login, role checks | unique names, last administrator kept |
| Branches, tags, groups (`routes/admin.rs`) | `branches`, `device_tags`, `groups` | CRUD, device inherits the branch of its IP | references stay valid |
| Client login and address book (`routes/client.rs`) | none of its own | login, peers, address book | shows what the registry holds |
| Presence codec (`presence.rs`) | none | varint length prefix, bitmap of answers | the answer is attributed to the id asked |
| Agent script engine (`agent/main.go`) | graph of nodes, results by node | topological order, branches, node timeouts | every reachable node runs once, the last message says so |
| Agent auto-update and audit monitor (`agent/main.go`) | own binary, tail position of a log | compare versions, replace the binary, restart; post audit lines | ends after one update |
| Windows installer (`installer/main.go`) | none persistent | a linear installation | every step reported |
| hbbs entrypoint (`deploy/rustdesk-server/hbbs-entrypoint.sh`) | public host file | restart hbbs when it changes | hbbs runs with the latest host |
| Dashboard: session (`lib/api.ts`, `lib/auth.ts`, `layout.tsx`, `login`) | token and user (shared by tabs), active tenant (of the tab), banner | log in and out, choose a tenant, requests and their 401 | user and token belong together; rows and banner are those of the tenant asked for |
| Dashboard: terminal (`terminal/page.tsx`) | history of jobs, one interval per job, selected tenant and devices | run, poll, change tenant, clear | results are those of the job and tenant; input is not blocked for ever |
| Dashboard: scripts (`scripts/page.tsx`) | library, canvas, timer of the automatic save; run watched, interval | draw, open, create, import, delete; run, watch, look at history | what is drawn is stored in its script; the outcome shown is final |
| Dashboard: devices (`devices/page.tsx`) | list, filter, window of a device, trash | load, filter, edit, tag, connect, trash, purge | list and window settle on what the server has |
| Dashboard: custom client (`custom-client/page.tsx`) | form, icon, status | save, build, poll | what is called saved is stored as the server tidies it; no build beside another |
| Dashboard: other pages (`branches`, `tags`, `users`, `tenants`, `settings`, `audit`) | a list and a form each | load, one request per button | - |
| Deployment (`install.sh`, compose, nginx) | - | installation | - |

How they interact: the agent registers in the map and writes its row (channel →
registry); `exec_command` and `run_script` look the sender up by the uuid of a row and
write JSON to it (registry → channel → agent); results return through the same WebSocket
and are stored by `handle_agent` before it reads the next message; the native RustDesk
client posts to the registry without knowing of the agent, and hbbs confirms ids the
registry holds. The dashboard sees all of it only
through rows: its pages poll, every request carries token and tenant as they are when it is
sent, and a handler goes on after its `await` with what it captured before. Requests of one
page overlap and are answered in any order, which is where the hazards of the pages are.

The list of hazards, each at its line, is in `PROJECT.json`.

## 2. Plan

In the order of importance; *done* means modelled and checked.

| Step | Modules | Content | State |
|---|---|---|---|
| 1 | `Devices`, `AgentChannel` (extends it) | registry, presence, map of senders, connection tasks, losses, restarts | done, safety proved |
| 2 | `RunLedger`, `ScriptRun` (refines it) | fan-out and closing of script runs | done, safety and refinement proved |
| 3 | `ClientBuilder` | builds, GitHub's list of runs, restarts | done, safety proved |
| 4 | `Session` | token, tenant and requests of a tab beside other tabs | done, safety proved |
| 5 | `Terminal` | commands from the page to the agents and back, page and server in one model | done, safety proved |
| 6 | `ScriptEditor`, `ScriptWatch` | automatic save; starting and watching runs on top of the ledger's promise | done, safety proved |
| 7 | `BrandingPage` | form, icon and builds of the custom client, on top of what `ClientBuilder` does with the status | done, safety proved |
| 8 | `DevicePage` | list, window, tags and trash with overlapping loads and handlers | done, safety proved |
| 9 | `ConnectionAudit` | transactional posts, nonces, launches, row choice under READ COMMITTED | done, safety proved |
| 10 | `InstallerCache`, `AgentUpdate` | build lock, metadata, invalidation; version loop of the agent | open |
| 11 | `TenantConfig` | first use of password and install code, first-run setup | open |
| 12 | `ScriptOrder` | `topoSort` and the node loop as functions, checked against a reference order on all small graphs | open |
| 13 | `PresenceCodec`, `PresenceClock` | varint and bitmap as functions; a timed model of 20/30/60 s that justifies the untimed sweeper of `Devices` | open |
| 14 | `HbbsEntrypoint`, the branch a device inherits by its IP | the rest worth a model | open |

Abstract specifications: `RunLedger` (done); for the installer an atomic register of the
current configuration. Composition: `AgentChannel` extends `Devices`, since its tasks write
rows; `ScriptRun` and `Terminal` reduce the channel to what `AgentChannel` establishes (an
entry outlives its socket until the task cleans up; what a broken connection carried is
lost); `ScriptWatch` takes `RunLedger`'s promise and `BrandingPage` the statuses of
`ClientBuilder` as their server. The safety of every module that is done is proved; the
theorem worth proving next is lock safety of `InstallerCache`. Modules to be proved about contain no RECURSIVE operator.

## 3. Modules and the code

Every SQL statement, every operation on the map and every message read is one step,
because each takes effect alone. Local variables of a handler that it uses after an
`await` are state. An operator under a comment `Mutant` is a bug the code does not have,
used to test the properties; no specification uses it.

A module's specification is `Spec` and its types `TypeOK`, except where one proof module
is about two components that share no state: `BuilderAuditProofs` extends `ClientBuilder` and
`ConnectionAudit`, `SessionDeviceProofs` extends `Session` and `DevicePage`, so the
definitions of the second say whose they are (`AuditSpec`, `AuditTypeOK`; `DevicesSpec`,
`DevicesTypeOK`).

### Devices

The rows of one tenant. A machine owns up to two rows: `host` (uuid `host-<hostname>`,
the placeholder inserted by the agent) and `native` (the uuid RustDesk reports). `rid`
tells whether a row carries the machine's RustDesk id or the synthetic `agent:<hostname>`.

| Action | Code |
|---|---|
| `DeletePlaceholder`, `UpsertNative` | the two statements of `heartbeat_inner` and `sysinfo_inner` |
| `RefreshQuery`, `RefreshApply` | `presence::refresh`: ids read and sent to hbbs, answer applied later |
| `Sweep` | `offline_sweeper` |
| `DeleteDevice`, `RestoreDevice`, `PurgeDevice` | trash routes of `admin.rs` |

Abstractions. Hostnames and RustDesk ids are unique per machine and do not change; a post of
the native client without a hostname (`client.rs:313` stores NULL) is left out. Time
is abstract: the sweeper may clear a row exactly when nothing refreshes it
(`HasSource` in `AgentChannel`: the native client of a machine that is on, or a task in its
loop), which is what the frequent heartbeats of the client, 20 s ticks and a 60 s limit amount to. `latest`
keeps of `last_seen_at` only what `resolve_device_uuid` uses, the newest row of a machine.

### AgentChannel

One `handler[c]` per connection, whose `pc` follows `handle_agent` from the upgrade to the
end: `match` and `create` (the two statements of `ensure_agent_device`), `resolve` (the
fallback), `register`, `announce`, `loop`, `unregister`, `goOffline`. `agents` is the map.
A handler owns its receiver and the map the only sender, so "the channel is closed" is the
absence of the connection from the map (`ChannelClosed`): this is how a takeover ends the
old task. `socket` is what the server can observe of a TCP connection, `link` what the
agent believes; a loss may be silent, and then nothing on the server's side ends the task
until it writes. `enabled` is `AGENT_ENABLED`; it is read from the environment of the
process and so changes at a restart only, which makes the branch of the tick that tests it
unreachable. `served` is history: it was on at some time. The handlers that store results run inside `loop` and leave
this state alone. The two rejections before the upgrade (`agent.rs:50`, `51`) are one action, `Refuse`.

### RunLedger, ScriptRun

`RunLedger` is what the dashboard promises of a run. `ScriptRun` is one run: `runner` is the
`run_script` request with its local lists, `persister[d]` the task of device `d` inside
`persist_script_progress`, `job[d]` the script on its way to and in the agent, `report[d]`
the message with `all_done`. `run_script` keeps the lock of the map during the fan-out
(`MapLocked`), so no agent registers or unregisters meanwhile, but reports are handled.
A script whose last node fails sends two such messages (`AgentRepeats`); one whose order ends
with a node it does not have sends none unless a node fails (`dangling`, `AgentFallsSilent`:
`main.go:384-388`). Only these final messages are modelled. Agents report at any time, also
while the request is still entering and sending, and the three ways in which that breaks the
ledger are recorded in `raced` by the steps in which they happen: a device is entered after the
run was settled without it (`late`), a faster agent's result is set back to running
(`reopened`), the last open result is failed by the request when nobody counts any more
(`uncounted`). A request or task that a lost client or a restart ends is `cut`.

Abstractions. The query of the targets is the INSERT's step; a failing statement ends the
request like `CancelRequest`. The INSERT of a result and the send are two steps, `Enter` and
`Send`. `Reconnect` registers at once: of the takeover, `ScriptRun` keeps that the replaced task
removes its successor's entry (`TakeoverEnds`, `ChannelEnds`); the rest is `AgentChannel`'s.

### ClientBuilder

The row of `tenant_branding` (`brand`, `build`, `buildRun`), the stored executable (`file`,
the run it came from, and `torn` while it is being written) and the background tasks
(`task[t, slot]`), whose steps are those of `spawn_build`, `run_build`, `dispatch` and
`poll_and_store`. GitHub is `posted` (accepted dispatches not yet listed) and `github` (the
list of runs, numbered upwards). That the run shown first is the run just dispatched is
the code's guess, and the model's. A build is triggered at any time, as the route
allows, beside others of its tenant too and before `resume_pending` has read the table;
`overlapped` notes of which tenants. (The page triggers none beside a build it knows of:
`OneBuildAtATime` of `BrandingPage`.) `resume_pending` resumes nothing when the builder is disabled or
its configuration invalid (`SkipResume`). `Task`, `MaxTasks` and `Room` bound the tasks. `ListingLags` allows GitHub's list to be unavailable (the code goes on
with 0 for the newest run) or late by more than the minute the code waits. Failing database
statements are left out, and with them a task that dies without
leaving `failed`; a workflow that fails is one that does not succeed.

### Pages in general

A handler of a page runs without interruption up to its `await`, and goes on after it with
what it captured: that is the record of a request, a load, a save or an interval in the
models. The server handles a request at some moment between its sending and its answer, and
where two statements of it matter to the page, they are two steps. `overtaken`, `timedOut`,
`hurried`, `crossed`, `raced`, `overlapped` and the set `mishaps` are history: they record that something happened
for which the code's promise does not hold, so that a property can say exactly when it
does. Without any one of these exceptions TLC finds the property violated in its run, but for
two that need a larger instance: `OneBuildAtATime` without `overtaken` a third click,
`BusyEnds` a third run.

### Session

Token and stored user are shared by the tabs of a browser, the active tenant, page and
banner are the tab's. Other tabs appear as `LogInElsewhere` and `SessionEndsElsewhere`.
`request()` of `lib/api.ts` is `Send` with `Answer`, `Answer401` or an expired token;
`EffectiveTenant` is `effective_tenant` of `auth.rs`. `router.push` and `replace` only set
the goal of the tab, and `Arrive` runs the effects of the layout and of the new page. `rows`
says whose rows are shown and for which login they were answered, `since` (history) which login
was stored when the page appeared. A request outlives the page that sent it (`kept`), and its 401
then still removes the token.

### Terminal

The page (`Run`, `TenantChange`, `ClearHistory`, `Poll`, `PollAnswered`, `GiveUp`, `RunReplied`,
`RunFails`) and, for each job, `exec_command` statement by statement (`Refuse`,
`EnterRows`, `FanOut`, `MarkUnsent`, `Reply`) with the agents (`AgentDone` is `persist_result`). An
answer carries the rows as they were when it was read. Output and directories are left out.

### ScriptEditor

A script's definition is a graph of nodes, of which only identity and "edited" count.
`saves` holds each `setTimeout` closure of `scheduleSave` from its scheduling to its answer,
with script and graph captured; `SaveTimer` is the one in `saveTimerRef`. `bound` is the
script whose graph the canvas was filled with, `selected` the one the next save goes to:
the two part when a late answer selects its script again. Creating, importing and deleting is one
call at a time.

### ScriptWatch

The tab "Executar" by its mounts: an interval captures its run, but clears what the ref of
its mount holds. The history's detail is `get_script_run`, which reads the run and then its
results. The server is `RunLedger` with one outcome and one verdict.

### DevicePage

`loads` are the calls of `load` under way, with the filter they captured, `ops` the handlers
under way with device, window and filter of their click, `modal` the open window. Rows carry
what filters and windows can tell apart. `Foreign` is any change from elsewhere: the tick of an
agent, which sets a row in the trash online too, the sweeper, another window that stars,
renames, moves, tags, trashes or restores the device, and its removal for good, by a merge also
without the trash. `Touched` bounds the devices it happens to. A device that is removed and
registers again is another row, which the model has not. The password of the configuration,
the order of the list and its views are left out.

### BrandingPage

`flow[b]` is the handler of one of the two buttons, `loads` the loads of the interval. Builds
end at any time (`BuildGoesOn`). `OnSave` is the submission of the form, which the browser
refuses while a required field is empty (`Filled`: spaces are enough for it); `OnBuild` is not
refused, but the route refuses a stored row without names (`Named`). `save_branding` tidies what
it stores: `Stored[form]` has its fields trimmed and a version where there was none
(`admin.rs:1162-1177`), and is what every later answer puts into the form. Of `Stored` the module
assumes that tidying twice is tidying once and that a form has names after it exactly if it had some before,
spaces not counting.

### ConnectionAudit

Each transaction `tx[t]` of `receive_connection_audit` goes through `InsertNonce`, `FindRow`,
`LockRow` and `Commit`, or `Abort`s. `cand` is what the statement's snapshot found. A `FOR
UPDATE` that waited tests its row again and passes on to the next; an `UPDATE ... WHERE id =
(SELECT ...)` tests only the id again. The client posts `new`, `peer`, `close` in this order,
a refused connection without `peer`, repeats what was not answered and does not wait for
answers. How old a nonce is and which device row belongs to a connection is left out.

## 4. Runs

All bounds are constants of the configurations. `MaxFaults` and `MaxEvents` bound disturbances
(losses, restarts, failing requests, other windows, lost answers), `MaxEdits` and `MaxClicks`
what the user does, `MaxLoads`, `MaxPolls`, `MaxOps`, `MaxSaves`, `MaxRequests`, `MaxDetails`, `MaxTasks` what is under way
at the same time, `MaxLeft` the requests of pages left beside which another is sent, `Expiring`
and `Touched` which logins expire and which devices change elsewhere, the others how many jobs, runs, windows, mounts, logins, posts or restarts there are.
Nothing else is unbounded. Deadlock checking is off because each system may come to rest: a
machine that is off, a run that is closed, a page nobody clicks on.

| Run | Instance | What it shows |
|---|---|---|
| `channel_takeover` | 1 machine, 3 connections, 1 disturbance, `AGENT_ENABLED` on or off | no sender survives its task, through takeovers whose cleanup removes the successor's entry; registration and presence converge, placeholders merge, absent machines expire; until an agent is served the trash is obeyed |
| `channel_owners` | 2 machines, 2 shared connections, 1 disturbance | a message for one machine is not read by another's agent |
| `script_ledger` | 2 devices, 2 disturbances of any kind, reports at any time, scripts that dangle or not | a device's outcome is final but for the step of the request that reopens it; until a race the verdict matches and `RunLedger` is implemented (one outcome per device, one closing); a run stays open only for a device that will not report, when the request was cut, or when nobody counted its last failure |
| `builder_tenants` | 2 tenants with names of their own, one of them with 2 tasks, 2 tasks at a time, 2 runs, 1 restart, unreliable list | tenants that take each other's run never store the other's client, nothing half written is offered unless builds overlap; a build with a run recorded ends unless nothing is resumed |
| `session_tabs` | 2 tenants, a user of one and a super admin, 2 logins in any tab of which one expires, 2 requests that overtake each other | no page shows rows of a login before its own, a session that ended elsewhere ends here, rows settle |
| `session_banner` | the same with 1 login and one page more | violated: section 6 |
| `terminal_jobs` | 3 devices of 2 tenants, 1 job, 2 answers under way, 1 lost agent or reply, super admin and operator | history, targets and results keep to tenant and job; entries and intervals end |
| `editor_saves` | 2 scripts, 3 nodes, 2 changes, 2 saves, 1 event (a call may fail besides) | what is drawn is stored, and in its own script, but for the five mishaps named in `Mishap` |
| `script_watch` | 2 devices, 2 runs, 2 mounts, a late or lost answer, 1 detail | outcome and badge are right, button comes back and intervals end |
| `devices_page` | 2 devices, list and trash, 3 clicks or edits, 2 windows, 2 loads, 2 handlers, 1 event (a change from elsewhere to one device, or a failing request) | what a closed window said is stored, list and tags settle |
| `branding_page` | 5 forms (empty, spaces, two tidy ones, one that is stored as another), 2 icons, 2 edits, 2 clicks, 1 load of the interval, 1 event, builds that end at any time | what is typed stays or is shown as it was stored, "Salvo" is about the form shown, no second build, status settles |
| `audit_posts` | 2 connections to 1 device, 2 clicks, 4 posts in 3 transactions, 1 fault | one row per connection, launches shared out, closed rows stay closed |

Why the bounds are enough. Three connections per machine are needed for the chain in which
the cleanup of the first removes the entry of the second, whose end then hits the third;
a fourth repeats the third, since a finished connection is reused. Rows of different
machines meet only in the presence query, so two machines show every interaction, and one
is enough for the rest. In a script run two devices are two concurrent
reporters, or one that reports before the other is entered; two disturbances let one be lost,
come back and be lost again. Two builds suffice for a tenant to find an old run, its own or
another's, and to write its file beside a second one. One disturbance at any moment breaks the usual order; the safety of the channel
and of the runs is proved for any number. On a page, two requests of a kind are enough for
one to overtake the other, and two clicks for one handler to meet another; the exceptions in
the properties show that these cases do occur. Four posts are a whole
connection and a repetition or another connection's start.

Larger instances were checked once, with the same result: script runs with 3 devices and no
disturbance; the trash with 2 machines and 3
disturbances and `AGENT_ENABLED` off; the editor with 3 scripts (1.8 and 4 million states);
`ScriptWatch` with 2 answers under way (2.0 million) and with 3 runs in 1 mount; the custom
client with 3 clicks (1.7 million); the audit with 5 posts (1.6 million).

Fairness. tokio polls every task that is ready, so the steps of a handler, of the fan-out
and of a build are weakly fair; the sweeper and the 20 s tick are periodic; agents and
native clients retry for ever while their machine is on (`connect` in a loop in
`agent/main.go`; RustDesk's own heartbeat); every node of a script has a timeout; each loop
in `builder.rs` has a bound; GitHub lists what it accepted. On a page, every request is
answered or fails in the end (the browser gives up on a connection), timers fire, an interval goes on while it is not
cleared, and the router arrives. Nothing is assumed of the user, of
disturbances, of silent losses being noticed, of answers coming in order, or of lost agents coming back;
a workflow run need not end, because the code gives up.

## 5. Proofs

For all values of the constants under the assumptions named in the modules (which say
only that bounds are naturals, that `None` and `Null` are none of the values they stand beside, the
ranges of switches, that what is stored at first is well formed, and of the tidying of a form what section 3 says):

| Theorem | Module | Assumes |
|---|---|---|
| `TypeCorrect`: `Spec => []TypeOK` | all eight proof modules | - |
| `AuditTypeCorrect`, `DevicesTypeCorrect`: `AuditTypeOK`, `DevicesTypeOK` | `BuilderAuditProofs`, `SessionDeviceProofs` | - |
| `RegistrationCorrect`: `RegisteredIsLive` | `AgentChannelProofs` | - |
| `DeliveryCorrect`: `DeliveredToOwner` | `AgentChannelProofs` | - |
| `AgentlessTrashOffline`, `AgentlessTrashPersists`: `TrashedOffline`, `TrashPersists` | `AgentChannelProofs` | - |
| `ClosedCorrect`, `OutcomesFinal`, `LedgerImplemented`: `ClosedMatchesResults`, `OutcomeIsFinal`, `LedgerSpec` | `ScriptRunProofs` | - |
| `OfferCorrect`: `ReadyIsOwn` | `BuilderAuditProofs` | - |
| `OwnRunCorrect`: the run that made the file offered was dispatched for its tenant | `BuilderAuditProofs` | `TenantNames` |
| `OneRowCorrect`, `AnsweredCorrect`, `LaunchCorrect`, `ClosedCorrect`: `OneRowPerSession`, `AnsweredIsDone`, `NoLaunchIsWasted`, `ClosedIsFinal` | `BuilderAuditProofs` | - |
| `UserCorrect`, `RowsCorrect`: `UserMatchesToken`, `RowsOfThisSession` | `SessionDeviceProofs` | - |
| `SavedDeviceCorrect`, `TagsCorrect`, `QuietCorrect`: `SavedIsStored`, `TagsAreShown`, `QuietIsFresh` | `SessionDeviceProofs` | - |
| `HistoryCorrect`, `CommandsCorrect`, `ResultsCorrect`: `EntriesOfTenant`, `CommandStaysInTenant`, `FinishedShowsAll` | `TerminalProofs` | - |
| `NodesCorrect`, `CanvasCorrect`, `EdgesCorrect`, `DeletedCorrect`: `NodesStayHome`, `CanvasIsStored`, `EdgesHaveEnds`, `DeletedStayDeleted` | `ScriptEditorProofs` | - |
| `BadgeCorrect`, `BusyCorrect`, `OutcomesShown`: `BadgeIsFinal`, `BusyIsWatched`, `StoppedShowsAll` | `ScriptWatchProofs` | - |
| `TypingCorrect`, `SavedCorrect`, `BuildCorrect`, `OneBuildCorrect`, `IconCorrect`: `TypingIsKept`, `SavedIsStored`, `BuildIsOfForm`, `OneBuildAtATime`, `IconIsStored` | `BrandingPageProofs` | - |

*Agent channel.* `RegisteredIsLive` is not inductive for the delivery property alone: what
reaches an agent is a statement about `link`, the agent's side. `MapInv` adds that the
connection an agent reads from is served by a task with a key of that machine
(`LinkServesOwner`). Then a step that registers a connection cannot hand it to another
machine, and a connection can only be reused after the task and the link are both gone.
Until an agent is served, `AgentlessInv` says that no task ever runs and no row has the RustDesk id of
a placeholder, so that the only deletion outside the administrator's reach has nothing to
delete.

*Script runs.* `ClosedMatchesResults` fails to be inductive because between counting and
closing the handler trusts what it has read. `RunInv` says why it may, as long as no report has
raced the request (`Clean`): a script that is under way belongs to an open result
(`ScriptFollowsResult`); a result is failed or the request has it on one of its lists
(`RequestFollowsResults`); the request cannot find a run closed to which it sent nothing
(`RequestIsAhead`); and a task past its count holds the verdict over results that are all
finished (`PersisterIsRight`). The first three hold through races too, which is why
`OutcomesFinal` needs no `Clean`. The refinement follows from two lemmas that say which changes
of results and of the run's status a step can make.

*Client builder.* `ReadyIsOwn` says nothing of a task that is about to mark its build ready.
`BuildInv` follows the task (`Sound`): the run it follows exists; once it has passed the test of
the artifact's name that run has a name of its tenant, whichever run it took by mistake; when it
marks the build ready there is a file. Unless builds of the tenant overlap, it works alone
(`Alone`), its build is pending, and the file it leaves is whole. `FilesNamed` says the same of the
file whoever wrote it, `RowsFollowRuns` keeps recorded runs within GitHub's list, on which a task
resumed after a restart relies. Type correctness needs one fact more, that only a tenant with a
branding has builds (`HasBrand`). `TenantNames` of `OwnRunCorrect` says that two tenants never save
the same file name; the code does not enforce it, and without it the run that made the file may
be another tenant's.

*Session.* `TokensWereIssued`: a request in flight carries a token that was issued, so the server
finds its user. For `RowsCorrect`, logins are numbered as they happen (`InOrder`), and what the page
still waits for was sent since it appeared (`SentSince`), because leaving a page detaches its
requests and a login or logout in this tab leaves the page.

*Terminal.* `TerminalInv` follows a job from the server to its entry: its rows, agents and
results are devices of its tenant (`JobKeepsToRows`), nothing is polled or shown before the
reply (`ReplyComesFirst`), and answers and entries hold what the job had when they were read
(`AnswersFitEntry`, `EntriesFitJob`). The last two are true of late answers because an agent's result
is never taken back.

*Editor.* Every copy of a graph (server, library, load, saves, call, canvas) keeps to its
script (`CopiesAtHome`), which holds because without haste there is one script at a time
that anything is under way for (`OneAtATime`); and every copy has the ends of its edges
(`CopiesHaveEnds`). Type correctness needs that an empty selection has an empty canvas.
`CanvasIsStored` speaks of the moment when nothing is under way, and every copy can become the
canvas or the stored graph before that moment; `CopiesAgree` therefore follows them all. As
long as nothing went wrong, saves are stored in the order they were made and only the last
has a running timer (`SavesInOrder`); the library is behind the server by saves that are not
answered and the server behind the canvas by saves that are not stored (`LibraryAgrees`); a
load that was answered and a call under way hold what the server has (`LoadAgrees`,
`CallAgrees`). A node that is still being moved puts only the canvas ahead, so the order is
kept under that mishap too (`Lossless`).

*Watching.* Without late answers a mount does one thing at a time, its ref holds the interval
of that thing and the button is disabled for it (`OneAtATime`, `IntervalsAreHeld`,
`EngagedIsBusy`); outcomes an answer has read as decided stay so. For the badge, `BadgeInv`
says that whoever read a verdict reads its outcomes later, which is the order of the two
statements of `get_script_run`.

*Devices page.* `PageTypes` adds to the types what a handler of each kind carries (`OpsFit`). Each
of the three properties has its invariant, about whatever stands between page and server. `SavesFit`: a device has one save at a time,
and how much of it is stored follows from how far it got; a save that failed after its first
request, or was overwritten from elsewhere, has marked its device as partly stored. `TagsFit`: while the open window is sure, its
device has no handler for tags but the window's own, one for each tag, and the window is right
about every tag but those asked or unanswered. `Fresh`: the newest answer under way is
right, or a handler that changed a row has not yet loaded the list again. A save patched on a
device that was then removed for good is the exception that had to be found: it fails and
loads nothing, but no list shows its row any more.

*Audit.* `AuditInv` says of messages that each is handled once, by one transaction
(`HandledOnce`); of rows that a session is there because its `new` was handled, and a row is ended
because its `close` was (`RowsAreHandled`); of transactions that what they found concerns
their message and that a locked row is theirs alone and still right (`FoundFits`), which is
what the second test of `FOR UPDATE` is for. `NoLaunchIsWasted` needs that a launch a
waiting transaction passed over was taken by another (`PassedIsTaken`). For `ClosedIsFinal`,
a peer message can reach an ended row only if it crossed with the close
(`ClosedIsCrossed`); and `AnsweredIsDone` needs that the close message of a client that waits for its
answers finds its row (`ClosedInTime`).

*Custom client.* Of the tidying, all that is needed is that it is idempotent. Five facts about what the handlers under way have done so far: a handler
that is alone finds what it stored (`AloneIsStored`), the page knows of a pending build or
is about to (`BuildIsKnown`), a handler took along the file still in the field
(`IconIsTaken`), and whatever can replace the form holds what was typed last
(`AnswersAreTyped`).

Some of these are not properties of a run, which asks the harder questions: `TypeOK` (but
for `AuditTypeOK` and `DevicesTypeOK`, which are checked too), `TrashedOffline`, `UserMatchesToken`,
`EdgesHaveEnds`, `DeletedStayDeleted`, `BusyIsWatched`, `BuildIsOfForm` and `IconIsStored`.
TLC found no violation of them on the instances of section 4 before they were proved.

Every invariant and every action property of the passing runs is proved. Model-checked only are
the liveness properties, because fairness and ENABLED are beyond the prover:
`AgentConverges`, `PresenceConverges`, `MissingPeersExpire`, `PlaceholderMerges`, `RunCloses`,
`RecordedBuildEnds`, `SessionEndsEverywhere`, `RowsConverge`, `RunningEnds`, `DrawingLands`,
`BusyEnds` and `PageSettles` of both pages.

## 6. Where the code does not do what one expects

One run is a disagreement with a document: `session_banner`. The selector of the terminal
page makes its tenant the active one of the tab, but the banner is read when the path
changes, so it goes on naming the tenant before (`terminal/page.tsx:128`, `layout.tsx:71`),
while README.md:229 says that the banner names the client being viewed.

The following were met while modelling. The exceptions in the properties, or the assumptions
of a run, leave each of them out, and say so.

On the server:

- A heartbeat deletes an agent's placeholder that was moved to the trash, and the device
  returns as a new row (`client.rs:201`); the tick of a connected agent sets a trashed row
  online (`agent.rs:221`). `TrashedOffline` and `TrashPersists` therefore end with the first
  agent that is served.
- Merging a placeholder deletes the row whose uuid the agent is registered under; commands
  to the native row find no agent until it reconnects (`client.rs:201`).
- An agent that reports while later devices are still being entered closes the run before
  them (`scripts.rs:637`, the race `late`); its result can be overwritten by the late `running`
  (`scripts.rs:374`, `reopened`); and its count can come before the devices without agent are
  failed, after which nobody counts again (`scripts.rs:388`, `uncounted`). The run is then closed
  with a wrong verdict or stays open; the properties of `script_ledger` name the race they except.
- A script whose order ends with an unknown node sends no `all_done`, and its run stays open
  (`main.go:384-388`, `silent`).
- A run that names devices by id does not test whether they are in the trash
  (`scripts.rs:268`).
- A first build interrupted by a restart before its run is recorded stays queued
  (`builder.rs:301`); two tenants that dispatch together take the same run, and only the
  name of the artifact keeps them apart (`builder.rs:117`), if their names differ. Builds of one
  tenant that the route lets overlap write one file, which can be offered half written
  (`admin.rs:1284`).
- `exec_command` refuses operators (`admin.rs:741`), whom README.md:210 lets execute commands.
- A peer message that waits for a close of the same connection sets the closed row to active
  (`audit.rs:137`, `crossed` in `ConnectionAudit`); a close handled before its `new` leaves the
  row open for ever (`hurried`). Both need a client that does not wait for its answers.

On the pages:

- Terminal: an answer to a poll handled after the interval ended sets the entry to running
  again, and the input stays disabled (`RunningEnds`).
- Editor: the answer to a save selects its script again, behind the canvas of another one
  that was opened meanwhile, and the next change is stored in the wrong script
  (`NodesStayHome`); of two saves the older can be stored last; a failed save is not
  repeated; deleting a connected node with the key stores edges without ends.
- Scripts: an answer after the end of its interval enables the button while another run is
  watched; a run started then shares the ref, and one interval is left behind
  (`BusyEnds`).
- Devices: the refresh of a handler uses the filter of its click; a late answer to a save
  closes the window of another device; alias and branch are two requests, of which the
  second can fail without a word; cards keep old tags until the next load; two clicks on one
  tag send one request twice; what is typed while a save is under way is discarded; the
  trash shows the cards of the live list until its own arrives, and only the server's test
  (`purge_device`) keeps them from being removed.
- Custom client: the form shows after a save what the server made of it, trimmed and with the
  version 1.4.8 where there was none (`admin.rs:1162-1177`); the interval of 15 s replaces what was typed while a build is pending; a
  refresh asked before a build and answered after it enables the button again; a lost answer
  to the trigger leaves a build the page does not know; a file chosen during an upload is
  dropped.

## 7. What is not modelled

Descriptive data (addresses, versions, names, output of commands, the contents of forms) and
everything drawn; the steps table of scripts and their categories; several tenants in one device table
(all statements are keyed by tenant, and those models are of one tenant; `Session` and
`Terminal` have two); the disabled s3 storage of the builder; database failures in the middle of a
request, except where a request may be dropped (`CancelRequest`) or rolled back (`Abort`).

Hazards these parts have, beside those listed in `PROJECT.json`: an installer invalidated
while it is built from the previous configuration (`installer.rs:155`, `config.rs:198`); the
first uses of password and install code by two requests (`config.rs:108`) and two first-run
setups, since the test for a tenant is not repeated (`setup.rs:51`); an agent that finds the same new version after every restart
(`main.go:678`); the key of an audited session that RustDesk uses again.

Open steps of the plan, with what they would need: the installer cache and the update of the
agent, the configuration and setup of the server, the node loop of a script, the presence
codec, the entrypoint of hbbs, the branch a device inherits by its IP.

Left out for good: the CRUD of tenants, users, branches, tags and groups (single statements
under unique constraints) and their pages, which await one request per button and load
again; the client login and address book (queries); the views of the audit; the Windows
installer (a linear procedure); the deployment scripts.
