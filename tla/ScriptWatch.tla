----------------------------- MODULE ScriptWatch -----------------------------
(***************************************************************************)
(* The tabs "Executar" and "Histórico" of the scripts page: starting runs, *)
(* watching the last one, and looking at earlier ones.  Intervals, posts   *)
(* and answers of a tab that was left go on for nobody.                    *)
(*                                                                         *)
(* The server is what RunLedger promises of it, with one outcome and one   *)
(* verdict: run_script enters all devices before any of them finishes      *)
(* (ScriptRun tells when that is not so), outcomes are final, a run is     *)
(* closed after its last device.                                           *)
(***************************************************************************)
EXTENDS Naturals, FiniteSets

CONSTANTS Device, Chosen, None,
          MaxRuns,   \* bound on the runs
          MaxMounts, \* bound on how often the tab "Executar" is opened
          MaxPolls,  \* bound on the answers to polls under way
          MaxDetails \* bound on the details under way

ASSUME ChosenAssumption == Chosen \subseteq Device
ASSUME BoundsAssumption == {MaxRuns, MaxMounts, MaxPolls, MaxDetails} \subseteq Nat /\ MaxMounts > 0

Run == 1..MaxRuns
Mount == 1..MaxMounts
Outcome == [Device -> {"absent", "open", "finished"}]

ASSUME NoneAssumption == None \notin Run \union Mount

VARIABLES
    tab,       \* the tab that is open
    mount,     \* number of the last mount of "Executar"
    running,   \* its button is disabled
    active,    \* activeRun
    pollRef,   \* mount -> the interval its ref holds
    late,      \* mounts whose pollStartRef is more than 20 minutes ago
    intervals, \* runs with an interval
    post,      \* run -> its request
    answers,   \* answers to polls under way
    list,      \* runs the history lists
    details,   \* details being fetched for the history
    detail,    \* detailRun
    outcome,   \* run -> its results on the server
    status,    \* run -> script_runs.status, "none" without a row
    latest,    \* history: the run of the last startPolling of this mount
    overtaken, \* history: an answer was handled after its interval had ended
    timedOut   \* history: this mount gave up on a run

executeVars == <<running, active, latest, timedOut>>
refVars == <<pollRef, late, intervals>>
pageVars == <<tab, mount, executeVars, refVars>>
historyVars == <<list, details, detail>>
serverVars == <<outcome, status>>
vars == <<pageVars, post, answers, historyVars, serverVars, overtaken>>

Status == {"none", "running", "closed"}
Post == [pc: {"idle", "posted", "replied", "failed", "over"}, mount: Mount]
Watched == [run: Run, results: Outcome]
Detail == [run: Run, status: Status, results: Outcome]
Fetch == Detail \X {"asked", "half", "read"}

\* Every variable holds a value of its kind.
TypeOK ==
    /\ tab \in {"execute", "history"} /\ mount \in Mount
    /\ running \in BOOLEAN /\ timedOut \in BOOLEAN /\ overtaken \in BOOLEAN
    /\ active \in Watched \union {None} /\ latest \in Run \union {None}
    /\ pollRef \in [Mount -> Run \union {None}]
    /\ late \subseteq Mount /\ intervals \subseteq Run
    /\ post \in [Run -> Post]
    /\ answers \subseteq Watched
    /\ list \subseteq Run /\ details \subseteq Fetch
    /\ detail \in Detail \union {None}
    /\ outcome \in [Run -> Outcome] /\ status \in [Run -> Status]

NoOutcome == [d \in Device |-> "absent"]

Init ==
    /\ tab = "execute" /\ mount = 1
    /\ running = FALSE /\ active = None /\ latest = None /\ timedOut = FALSE
    /\ pollRef = [m \in Mount |-> None] /\ late = {} /\ intervals = {}
    /\ post = [r \in Run |-> [pc |-> "idle", mount |-> 1]]
    /\ answers = {}
    /\ list = {} /\ details = {} /\ detail = None
    /\ outcome = [r \in Run |-> NoOutcome] /\ status = [r \in Run |-> "none"]
    /\ overtaken = FALSE

-----------------------------------------------------------------------------
(* The tab "Executar" *)

\* The page that started r is the one that is shown.
Here(r) == tab = "execute" /\ post[r].mount = mount

\* The button; a choice of no device, or of no tag, disables it too.
CanRun == tab = "execute" /\ ~running

HandleRun(r) ==
    /\ CanRun
    /\ post[r].pc = "idle" /\ \A q \in Run : q < r => post[q].pc # "idle"
    /\ running' = TRUE
    /\ post' = [post EXCEPT ![r] = [pc |-> "posted", mount |-> mount]]
    /\ UNCHANGED <<tab, mount, active, latest, timedOut, refVars, answers, historyVars, serverVars,
                   overtaken>>

\* All devices, or those chosen or with the tag; a chosen device may be gone, and a tag may
\* be on none.
Targets == {{}, Chosen, Device}

\* run_script; a device without an agent is decided at once.
RunHandled(r) ==
    /\ post[r].pc = "posted"
    /\ \E targets \in Targets : outcome' = [outcome EXCEPT ![r] =
                                   [d \in Device |-> IF d \in targets THEN "open" ELSE "absent"]]
    /\ status' = [status EXCEPT ![r] = "running"]
    /\ post' = [post EXCEPT ![r].pc = "replied"]
    /\ UNCHANGED <<pageVars, answers, historyVars, overtaken>>

\* What is shown of a run at first
NewlyActive(r) == [run |-> r, results |-> NoOutcome]

\* startPolling: a new interval, on the ref of the mount that asked
StartPolling(r) ==
    LET m == post[r].mount
    IN /\ post[r].pc = "replied"
       /\ post' = [post EXCEPT ![r].pc = "over"]
       /\ intervals' = intervals \union {r}
       /\ pollRef' = [pollRef EXCEPT ![m] = r]
       /\ late' = late \ {m}
       /\ IF Here(r)
          THEN active' = NewlyActive(r) /\ latest' = r /\ timedOut' = FALSE
          ELSE UNCHANGED <<active, latest, timedOut>>
       /\ UNCHANGED <<tab, mount, running, answers, historyVars, serverVars, overtaken>>

\* Mutant: the error is shown and the button stays disabled.
RunFailsBusy(r) ==
    /\ post[r].pc = "failed"
    /\ post' = [post EXCEPT ![r].pc = "over"]
    /\ UNCHANGED <<pageVars, answers, historyVars, serverVars, overtaken>>

RunFails(r) ==
    /\ post[r].pc = "failed"
    /\ post' = [post EXCEPT ![r].pc = "over"]
    /\ running' = IF Here(r) THEN FALSE ELSE running
    /\ UNCHANGED <<tab, mount, active, latest, timedOut, refVars, answers, historyVars, serverVars,
                   overtaken>>

\* A tick of the interval, and get_script_run for it
Poll(r) ==
    /\ r \in intervals /\ post[r].mount \notin late
    /\ Cardinality(answers) < MaxPolls
    /\ answers' = answers \union {[run |-> r, results |-> outcome[r]]}
    /\ UNCHANGED <<pageVars, post, historyVars, serverVars, overtaken>>

\* Ends the interval that the ref of r's mount holds, whichever it is, and enables the button
EndPolling(r) ==
    /\ intervals' = intervals \ {pollRef[post[r].mount]}
    /\ running' = IF Here(r) THEN FALSE ELSE running
    /\ UNCHANGED <<pollRef, late>>

\* The tick that finds the 20 minutes over
GiveUp(r) ==
    /\ r \in intervals /\ post[r].mount \in late
    /\ EndPolling(r)
    /\ timedOut' = (timedOut \/ Here(r))
    /\ UNCHANGED <<tab, mount, active, latest, post, answers, historyVars, serverVars, overtaken>>

\* 20 minutes have passed since the last startPolling of mount m.
TimeUp(m) ==
    /\ m \notin late /\ \E r \in intervals : post[r].mount = m
    /\ late' = late \union {m}
    /\ UNCHANGED <<tab, mount, executeVars, pollRef, intervals, post, answers, historyVars,
                   serverVars, overtaken>>

\* Mutant: one finished device is enough.
AnyFinished(f) == \E d \in Device : f[d] = "finished"

\* There are results, and every one is finished.
AllFinished(f) == f # NoOutcome /\ \A d \in Device : f[d] # "open"

PollAnswered(a) ==
    /\ a \in answers
    /\ answers' = answers \ {a}
    /\ active' = IF Here(a.run) THEN a ELSE active
    /\ IF AllFinished(a.results) THEN EndPolling(a.run) ELSE UNCHANGED <<running, refVars>>
    /\ overtaken' = (overtaken \/ a.run \notin intervals)
    /\ UNCHANGED <<tab, mount, latest, timedOut, post, historyVars, serverVars>>

\* A failed poll is ignored.
PollLost(a) ==
    /\ a \in answers
    /\ answers' = answers \ {a}
    /\ UNCHANGED <<pageVars, post, historyVars, serverVars, overtaken>>

-----------------------------------------------------------------------------
(* Changing tabs, and the tab "Histórico" *)

\* "Executar" is unmounted, which ends the interval its ref holds, and the history loads.
ShowHistory ==
    /\ tab = "execute"
    /\ tab' = "history"
    /\ intervals' = intervals \ {pollRef[mount]}
    /\ running' = FALSE /\ active' = None /\ latest' = None /\ timedOut' = FALSE
    /\ list' = {} /\ details' = {} /\ detail' = None
    /\ UNCHANGED <<mount, pollRef, late, post, answers, serverVars, overtaken>>

ShowExecute ==
    /\ tab = "history" /\ mount < MaxMounts
    /\ tab' = "execute" /\ mount' = mount + 1
    /\ list' = {} /\ details' = {} /\ detail' = None
    /\ UNCHANGED <<executeVars, refVars, post, answers, serverVars, overtaken>>

\* list_script_runs, asked once
HistoryLoaded ==
    /\ tab = "history" /\ list = {}
    /\ list' = {r \in Run : status[r] # "none"}
    /\ UNCHANGED <<pageVars, post, answers, details, detail, serverVars, overtaken>>

\* A click on a run of the list, which a detail hides
OpenDetail(r) ==
    /\ tab = "history" /\ detail = None /\ r \in list
    /\ Cardinality(details) < MaxDetails
    /\ details' = details \union {<<[run |-> r, status |-> "none", results |-> NoOutcome], "asked">>}
    /\ UNCHANGED <<pageVars, post, answers, list, detail, serverVars, overtaken>>

\* Mutant: the results are read before the run.
ResultsFirst(f) ==
    /\ f \in details
    /\ \/ /\ f[2] = "asked"
          /\ details' = (details \ {f}) \union {<<[f[1] EXCEPT !.results = outcome[f[1].run]], "half">>}
       \/ /\ f[2] = "half"
          /\ details' = (details \ {f}) \union {<<[f[1] EXCEPT !.status = status[f[1].run]], "read">>}
    /\ UNCHANGED <<pageVars, post, answers, list, detail, serverVars, overtaken>>

\* get_script_run reads the run, then its results.
DetailReads(f) ==
    /\ f \in details
    /\ \/ /\ f[2] = "asked"
          /\ details' = (details \ {f}) \union {<<[f[1] EXCEPT !.status = status[f[1].run]], "half">>}
       \/ /\ f[2] = "half"
          /\ details' = (details \ {f}) \union {<<[f[1] EXCEPT !.results = outcome[f[1].run]], "read">>}
    /\ UNCHANGED <<pageVars, post, answers, list, detail, serverVars, overtaken>>

\* The answer shows its run, even over another one or after "Voltar".
DetailAnswered(f) ==
    /\ f \in details /\ f[2] = "read"
    /\ details' = details \ {f}
    /\ detail' = f[1]
    /\ UNCHANGED <<pageVars, post, answers, list, serverVars, overtaken>>

CloseDetail ==
    /\ detail # None
    /\ detail' = None
    /\ UNCHANGED <<pageVars, post, answers, list, details, serverVars, overtaken>>

-----------------------------------------------------------------------------
(* The server and the browser *)

\* persist_script_progress: an outcome, and with the last one the verdict, a step later
Decide(r, d) ==
    /\ outcome[r][d] = "open"
    /\ outcome' = [outcome EXCEPT ![r][d] = "finished"]
    /\ UNCHANGED <<pageVars, post, answers, historyVars, status, overtaken>>

Close(r) ==
    /\ status[r] = "running" /\ AllFinished(outcome[r])
    /\ status' = [status EXCEPT ![r] = "closed"]
    /\ UNCHANGED <<pageVars, post, answers, historyVars, outcome, overtaken>>

\* The request fails at the browser, before or after it was handled.
LosePost(r) ==
    /\ post[r].pc \in {"posted", "replied"}
    /\ post' = [post EXCEPT ![r].pc = "failed"]
    /\ UNCHANGED <<pageVars, answers, historyVars, serverVars, overtaken>>

-----------------------------------------------------------------------------
PostStep(r) == RunHandled(r) \/ StartPolling(r) \/ RunFails(r)

Next ==
    \/ \E r \in Run :
        \/ HandleRun(r) \/ PostStep(r) \/ Poll(r) \/ GiveUp(r) \/ LosePost(r)
        \/ OpenDetail(r) \/ Close(r) \/ \E d \in Device : Decide(r, d)
    \/ \E m \in Mount : TimeUp(m)
    \/ \E a \in answers : PollAnswered(a) \/ PollLost(a)
    \/ ShowHistory \/ ShowExecute \/ HistoryLoaded \/ CloseDetail
    \/ \E f \in details : DetailReads(f) \/ DetailAnswered(f)

Spec == Init /\ [][Next]_vars

\* Requests are handled, time passes, intervals tick.  No fairness for the devices, the
\* answers to polls, or the user.
Fairness ==
    /\ \A r \in Run : WF_vars(PostStep(r)) /\ WF_vars(GiveUp(r))
    /\ \A m \in Mount : WF_vars(TimeUp(m))

FairSpec == Spec /\ Fairness

-----------------------------------------------------------------------------
(* Properties *)

\* The button is disabled only while a request or the interval of the ref is there to
\* enable it again (handleRun, startPolling).
BusyIsWatched ==
    running => \/ \E r \in Run : Here(r) /\ post[r].pc \in {"posted", "replied", "failed"}
               \/ pollRef[mount] \in intervals

\* Once the button is enabled again, the page shows the last run with the final outcome of
\* every device, unless it gave up or an answer came after the end of its interval
\* (startPolling).
StoppedShowsAll ==
    tab = "execute" /\ ~running /\ latest # None /\ ~timedOut /\ ~overtaken =>
        /\ active = [run |-> latest, results |-> outcome[latest]]
        /\ AllFinished(active.results)

\* A detail whose badge is a verdict shows no device as unfinished, although run and results
\* are read one after the other (get_script_run).
BadgeIsFinal ==
    detail # None /\ detail.status = "closed" => AllFinished(detail.results)

\* The button is enabled again in the end, also for a run without devices or with one that
\* never answers, and no interval goes on, unless an answer after the end of one made a
\* second run start beside another (startPolling).
BusyEnds == <>[](~running /\ (overtaken \/ intervals = {}))

=============================================================================
