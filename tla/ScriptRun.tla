------------------------------ MODULE ScriptRun ------------------------------
(***************************************************************************)
(* One execution of a script: the request that fans it out to the agents   *)
(* (run_script), the agents, and the progress handler that records their   *)
(* reports and closes the run (persist_script_progress, called by the      *)
(* handle_agent task of the device).  Every SQL statement is one step.     *)
(*                                                                         *)
(* The channel to an agent is reduced to what AgentChannel establishes:    *)
(* the map entry outlives the socket until the task cleans up, and what a  *)
(* broken connection carried is lost.                                      *)
(***************************************************************************)
EXTENDS Naturals, FiniteSets

CONSTANTS Device,
          Disturbances, \* which of LoseAgent, CancelRequest, ServerRestart may happen
          MaxFaults     \* bound on their number

ASSUME DisturbancesAssumption == Disturbances \subseteq {"lose", "cancel", "restart"}
ASSUME FaultsAssumption == MaxFaults \in Nat

VARIABLES
    run,       \* script_runs.status, "none" before the INSERT
    result,    \* device -> script_run_results.status, "none" without a row
    runner,    \* the run_script request: where it is and its local variables
    dangling,  \* the last node in the script's order is one it does not have
    inMap,     \* devices with a sender in the agents map
    alive,     \* devices whose agent's connection works
    replaced,  \* devices with a task that a new connection replaced in the map
    job,       \* device -> where the script message is
    report,    \* device -> final report (all_done) on its way to the server
    persister, \* device -> where its task is in persist_script_progress
    raced,     \* history: which races of reports with the request took place
    faults

serverVars == <<run, result, runner, persister, dangling, raced>>
agentVars == <<inMap, alive, replaced, job, report>>
vars == <<serverVars, agentVars, faults>>

Outcome == {"done", "failed"}
Verdict == {"done", "failed", "partial"}
Status == {"none", "pending", "running"} \union Outcome

\* "cut": the request, or what a task still did for its run, was cut short.
RunnerState == [pc: {"idle", "dispatch", "send", "mark", "failUnsent", "returned", "cut"},
                todo: SUBSET Device, sent: SUBSET Device, unsent: SUBSET Device,
                current: SUBSET Device]
JobState == {"none", "queued", "executing", "repeating", "silent"}

\* The races that break the ledger, in the steps that name them.
Race == {"late", "reopened", "uncounted"}

\* Every variable holds a value of its kind.
TypeOK ==
    /\ run \in {"none", "running"} \union Verdict
    /\ result \in [Device -> Status]
    /\ runner \in RunnerState
    /\ dangling \in BOOLEAN
    /\ inMap \subseteq Device /\ alive \subseteq Device /\ replaced \subseteq Device
    /\ job \in [Device -> JobState]
    /\ report \in [Device -> {"none"} \union Outcome]
    /\ persister \in [Device -> {"idle", "count", "tally"} \union Verdict]
    /\ raced \subseteq Race
    /\ faults \in 0..MaxFaults

Init ==
    /\ run = "none"
    /\ result = [d \in Device |-> "none"]
    /\ runner = [pc |-> "idle", todo |-> {}, sent |-> {}, unsent |-> {}, current |-> {}]
    /\ dangling \in BOOLEAN
    /\ inMap \in SUBSET Device
    /\ alive = inMap /\ replaced = {}
    /\ job = [d \in Device |-> "none"]
    /\ report = [d \in Device |-> "none"]
    /\ persister = [d \in Device |-> "idle"]
    /\ raced = {}
    /\ faults = 0

-----------------------------------------------------------------------------
Entered == {d \in Device : result[d] # "none"}
Unfinished == {d \in Device : result[d] \in {"pending", "running"}}

VerdictOf(f) ==
    IF \A d \in Device : f[d] # "failed" THEN "done"
    ELSE IF \A d \in Device : f[d] # "done" THEN "failed"
    ELSE "partial"

\* The request is over, one way or the other.
Over == runner.pc \in {"returned", "cut"}

\* run_script holds the lock of the agents map across the fan-out.
MapLocked == runner.pc \in {"dispatch", "send", "mark"}

\* A task has counted the results as finished and is about to close the run, or has.
Settled == run \in Verdict \/ \E d \in Device : persister[d] \in {"tally"} \union Verdict

-----------------------------------------------------------------------------
(* run_script *)

\* INSERT INTO script_runs, then the rows of the target devices
StartRun(targets) ==
    /\ runner.pc = "idle"
    /\ run' = "running"
    /\ runner' = [runner EXCEPT !.pc = "dispatch", !.todo = targets]
    /\ UNCHANGED <<result, persister, dangling, raced, agentVars, faults>>

\* INSERT the result of one device; "late" if the run has been settled without it.
Enter(d) ==
    /\ runner.pc = "dispatch"
    /\ d \in runner.todo
    /\ result' = [result EXCEPT ![d] = "pending"]
    /\ runner' = [runner EXCEPT !.pc = "send", !.todo = @ \ {d}, !.current = {d}]
    /\ raced' = raced \union (IF Settled THEN {"late"} ELSE {})
    /\ UNCHANGED <<run, persister, dangling, agentVars, faults>>

\* Send to the agent of that device if the map has a sender.  A send to a connection
\* that no longer works succeeds and is lost.
Send(d) ==
    /\ runner.pc = "send" /\ d \in runner.current
    /\ \/ /\ d \in inMap
          /\ runner' = [runner EXCEPT !.pc = "mark"]
          /\ job' = IF d \in alive THEN [job EXCEPT ![d] = "queued"] ELSE job
       \/ /\ d \notin inMap
          /\ runner' = [runner EXCEPT !.pc = "dispatch", !.current = {}, !.unsent = @ \union {d}]
          /\ UNCHANGED job
    /\ UNCHANGED <<run, result, persister, dangling, raced, inMap, alive, replaced, report, faults>>

\* Only after the send is the result marked as running, whatever it is by now;
\* "reopened" if the agent's report was faster.
MarkRunning ==
    /\ runner.pc = "mark"
    /\ result' = [d \in Device |-> IF d \in runner.current THEN "running" ELSE result[d]]
    /\ runner' = [runner EXCEPT !.pc = "dispatch", !.current = {}, !.sent = @ \union runner.current]
    /\ raced' = raced \union (IF \E d \in runner.current : result[d] \in Outcome
                             THEN {"reopened"} ELSE {})
    /\ UNCHANGED <<run, persister, dangling, agentVars, faults>>

DispatchEnds ==
    /\ runner.pc = "dispatch" /\ runner.todo = {}
    /\ runner' = [runner EXCEPT !.pc = "failUnsent"]
    /\ UNCHANGED <<run, result, persister, dangling, raced, agentVars, faults>>

\* Mutant: the result of a device without an agent is left pending.
SkipUnsent(d) ==
    /\ runner.pc = "failUnsent"
    /\ d \in runner.unsent
    /\ runner' = [runner EXCEPT !.unsent = @ \ {d}]
    /\ UNCHANGED <<run, result, persister, dangling, raced, agentVars, faults>>

\* "uncounted" if all reports have been counted before this was the last open result.
FailUnsent(d) ==
    /\ runner.pc = "failUnsent"
    /\ d \in runner.unsent
    /\ result' = [result EXCEPT ![d] = "failed"]
    /\ runner' = [runner EXCEPT !.unsent = @ \ {d}]
    /\ raced' = raced \union (IF /\ Unfinished = {d} /\ runner.sent # {}
                                /\ \A e \in Device : persister[e] # "count"
                             THEN {"uncounted"} ELSE {})
    /\ UNCHANGED <<run, persister, dangling, agentVars, faults>>

\* The run fails here only if there were devices and none was sent the script.
FinishRequest ==
    /\ runner.pc = "failUnsent" /\ runner.unsent = {}
    /\ runner' = [runner EXCEPT !.pc = "returned"]
    /\ run' = IF runner.sent = {} /\ Entered # {} THEN "failed" ELSE run
    /\ UNCHANGED <<result, persister, dangling, raced, agentVars, faults>>

-----------------------------------------------------------------------------
(* Agents *)

AgentReceives(d) ==
    /\ d \in alive /\ job[d] = "queued"
    /\ job' = [job EXCEPT ![d] = "executing"]
    /\ UNCHANGED <<serverVars, inMap, alive, replaced, report, faults>>

\* Mutant: all_done is sent and the script goes on.
AgentKeepsReporting(d, o) ==
    /\ d \in alive /\ job[d] = "executing" /\ report[d] = "none"
    /\ report' = [report EXCEPT ![d] = o]
    /\ UNCHANGED <<serverVars, inMap, alive, replaced, job, faults>>

\* runScript sends the message with all_done at the last node of its order, or when a
\* node fails; a last node that fails sends it twice.
AgentReports(d, o) ==
    /\ d \in alive /\ job[d] = "executing"
    /\ dangling => o = "failed"
    /\ \/ job' = [job EXCEPT ![d] = "none"]
       \/ ~dangling /\ o = "failed" /\ job' = [job EXCEPT ![d] = "repeating"]
    /\ report' = [report EXCEPT ![d] = o]
    /\ UNCHANGED <<serverVars, inMap, alive, replaced, faults>>

AgentRepeats(d) ==
    /\ d \in alive /\ job[d] = "repeating"
    /\ report[d] = "none"
    /\ job' = [job EXCEPT ![d] = "none"]
    /\ report' = [report EXCEPT ![d] = "failed"]
    /\ UNCHANGED <<serverVars, inMap, alive, replaced, faults>>

\* The last entry of the order is not one of the nodes: it is skipped, and with it the
\* message with all_done.
AgentFallsSilent(d) ==
    /\ d \in alive /\ job[d] = "executing"
    /\ dangling
    /\ job' = [job EXCEPT ![d] = "silent"]
    /\ UNCHANGED <<serverVars, inMap, alive, replaced, report, faults>>

Unregister(d) ==
    /\ d \in inMap \ alive
    /\ ~MapLocked
    /\ persister[d] = "idle"
    /\ inMap' = inMap \ {d}
    /\ UNCHANGED <<serverVars, alive, replaced, job, report, faults>>

\* The agent dials in again, before or after the old task has cleaned up.
Reconnect(d) ==
    /\ d \notin alive
    /\ ~MapLocked
    /\ inMap' = inMap \union {d}
    /\ alive' = alive \union {d}
    /\ replaced' = replaced \union (inMap \intersect {d})
    /\ UNCHANGED <<serverVars, job, report, faults>>

\* The task that was replaced cleans up: it removes the entry of its successor ...
TakeoverEnds(d) ==
    /\ d \in replaced
    /\ ~MapLocked
    /\ persister[d] = "idle"
    /\ inMap' = inMap \ {d}
    /\ replaced' = replaced \ {d}
    /\ UNCHANGED <<serverVars, alive, job, report, faults>>

\* ... whose task then finds its channel closed and drops the connection, and what the
\* agent was doing or had sent with it.
ChannelEnds(d) ==
    /\ d \in alive \ inMap
    /\ persister[d] = "idle"
    /\ alive' = alive \ {d}
    /\ job' = [job EXCEPT ![d] = "none"]
    /\ report' = [report EXCEPT ![d] = "none"]
    /\ UNCHANGED <<serverVars, inMap, replaced, faults>>

-----------------------------------------------------------------------------
(* persist_script_progress with all_done *)

SaveResult(d) ==
    /\ persister[d] = "idle"
    /\ report[d] # "none"
    /\ result' = [result EXCEPT ![d] = report[d]]
    /\ report' = [report EXCEPT ![d] = "none"]
    /\ persister' = [persister EXCEPT ![d] = "count"]
    /\ UNCHANGED <<run, runner, dangling, raced, inMap, alive, replaced, job, faults>>

\* Mutant: results still pending are not counted.
CountRunning(d) ==
    /\ persister[d] = "count"
    /\ persister' = [persister EXCEPT
            ![d] = IF \E e \in Device : result[e] = "running" THEN "idle" ELSE "tally"]
    /\ UNCHANGED <<run, result, runner, dangling, raced, agentVars, faults>>

\* SELECT COUNT(*) ... FILTER (pending, running) over the rows the run has so far
CountUnfinished(d) ==
    /\ persister[d] = "count"
    /\ persister' = [persister EXCEPT ![d] = IF Unfinished = {} THEN "tally" ELSE "idle"]
    /\ UNCHANGED <<run, result, runner, dangling, raced, agentVars, faults>>

TallyOutcomes(d) ==
    /\ persister[d] = "tally"
    /\ persister' = [persister EXCEPT ![d] = VerdictOf(result)]
    /\ UNCHANGED <<run, result, runner, dangling, raced, agentVars, faults>>

CloseRun(d) ==
    /\ persister[d] \in Verdict
    /\ run' = persister[d]
    /\ persister' = [persister EXCEPT ![d] = "idle"]
    /\ UNCHANGED <<result, runner, dangling, raced, agentVars, faults>>

-----------------------------------------------------------------------------
(* Disturbances *)

Fault(kind) ==
    /\ kind \in Disturbances
    /\ faults < MaxFaults
    /\ faults' = faults + 1

\* The connection breaks: the script, its output and a report not yet read are lost.
LoseAgent(d) ==
    /\ Fault("lose")
    /\ d \in alive
    /\ alive' = alive \ {d}
    /\ job' = [job EXCEPT ![d] = "none"]
    /\ report' = [report EXCEPT ![d] = "none"]
    /\ UNCHANGED <<serverVars, inMap, replaced>>

\* The request is dropped where it is (its HTTP client went away).
CancelRequest ==
    /\ Fault("cancel")
    /\ runner.pc # "idle" /\ ~Over
    /\ runner' = [runner EXCEPT !.pc = "cut"]
    /\ UNCHANGED <<run, result, persister, dangling, raced, agentVars>>

ServerRestart ==
    /\ Fault("restart")
    /\ runner' = [runner EXCEPT !.pc = IF @ = "idle" THEN "idle" ELSE "cut"]
    /\ persister' = [d \in Device |-> "idle"]
    /\ inMap' = {} /\ alive' = {} /\ replaced' = {}
    /\ job' = [d \in Device |-> "none"]
    /\ report' = [d \in Device |-> "none"]
    /\ UNCHANGED <<run, result, dangling, raced>>

-----------------------------------------------------------------------------
RunnerStep ==
    \/ MarkRunning \/ DispatchEnds \/ FinishRequest
    \/ \E d \in Device : Enter(d) \/ Send(d) \/ FailUnsent(d)

PersisterStep(d) ==
    SaveResult(d) \/ CountUnfinished(d) \/ TallyOutcomes(d) \/ CloseRun(d)

AgentStep(d) ==
    \/ AgentReceives(d) \/ AgentRepeats(d) \/ AgentFallsSilent(d)
    \/ \E o \in Outcome : AgentReports(d, o)

Next ==
    \/ \E targets \in SUBSET Device : StartRun(targets)
    \/ RunnerStep
    \/ \E d \in Device : \/ AgentStep(d) \/ Unregister(d) \/ Reconnect(d)
                         \/ TakeoverEnds(d) \/ ChannelEnds(d)
                         \/ PersisterStep(d) \/ LoseAgent(d)
    \/ CancelRequest \/ ServerRestart

Spec == Init /\ [][Next]_vars

\* tokio runs ready tasks, and a script that runs on a live connection ends (every
\* node has a timeout).  No fairness for connections, losses or new requests.
Fairness ==
    /\ WF_vars(RunnerStep)
    /\ \A d \in Device : WF_vars(PersisterStep(d)) /\ WF_vars(AgentStep(d))

FairSpec == Spec /\ Fairness

-----------------------------------------------------------------------------
(* Properties *)

Terminal == run \in Verdict

\* No report raced the request: none was counted while devices were still to be entered
\* and none came between the send to a device and its mark as running.
Clean == raced \intersect {"late", "reopened"} = {}

\* But for these two races, the run is closed only when every device entered so far has
\* finished, and then carries the verdict over their outcomes (persist_script_progress,
\* run_script), however reports, counts, repeated messages and losses interleave.
ClosedMatchesResults ==
    Terminal /\ Clean => Unfinished = {} /\ run = VerdictOf(result)

\* A device that has reported keeps its outcome (persist_script_progress): the one step
\* that reopens a result is the request marking as running a device that was faster.
OutcomeIsFinal ==
    [][\A d \in Device : result[d] \in Outcome =>
          \/ result'[d] = result[d]
          \/ runner.pc = "mark" /\ d \in runner.current /\ "reopened" \in raced']_vars

\* A device that was sent the script will not report: it was lost with the script or its
\* last message, its report was overwritten, or the script's order dangles.
Stranded(d) ==
    /\ d \in Unfinished \intersect runner.sent
    /\ report[d] = "none"
    /\ \/ job[d] = "none" /\ (faults > 0 \/ "reopened" \in raced)
       \/ job[d] = "silent" /\ dangling

\* A run that has devices stays open only because of such a device, because the request
\* was cut short, or because its last open result was one the request failed by itself
\* after every report had been counted; nothing else keeps it open.
RunCloses ==
    <>[](run = "running" /\ Entered # {} =>
            (\E d \in Device : Stranded(d)) \/ runner.pc = "cut" \/ "uncounted" \in raced)

\* A device's outcome as the dashboard shows it
LedgerOutcome ==
    [d \in Device |-> IF result[d] = "none" THEN "absent"
                      ELSE IF result[d] \in {"pending", "running"} THEN "open"
                      ELSE result[d]]

Ledger == INSTANCE RunLedger WITH outcome <- LedgerOutcome, status <- run

\* Until a report races the request, the run implements the ledger the dashboard shows:
\* every step maps to entering or deciding one device or to closing the run once.
LedgerSpec ==
    Ledger!LedgerInit /\ [][Clean' => Ledger!LedgerNext]_<<LedgerOutcome, run>>

=============================================================================
