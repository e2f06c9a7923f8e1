--------------------------- MODULE ScriptRunProofs ---------------------------
(***************************************************************************)
(* Proofs about ScriptRun: type correctness, the verdict of a run, the     *)
(* finality of outcomes and the refinement of RunLedger, for reports at    *)
(* any time, the races with the request that break the ledger recorded.    *)
(***************************************************************************)
EXTENDS ScriptRun, TLAPS

-----------------------------------------------------------------------------
(* The inductive invariant *)

Closing == {"tally"} \union Verdict

IsOpen(d) == result[d] \in {"pending", "running"}

\* Devices whose agent may have been sent the script
Reached ==
    runner.sent \union (IF runner.pc \in {"mark", "cut"} THEN runner.current ELSE {})

\* Where the request is says what has happened so far: a run is closed under it only
\* after a script was sent.
RequestIsAhead ==
    /\ runner.pc = "idle" => /\ run = "none" /\ \A d \in Device : result[d] = "none"
                             /\ runner.sent = {} /\ runner.unsent = {} /\ runner.current = {}
    /\ runner.pc # "idle" => run # "none"
    /\ runner.pc \in {"dispatch", "failUnsent", "returned"} => runner.current = {}
    /\ \A d, e \in runner.current : d = e
    /\ ~Over /\ Terminal => Reached # {}

\* Where a device's script is and what its result says
ScriptFollowsResult ==
    \A d \in Device :
        /\ job[d] \in {"queued", "executing", "silent"} => IsOpen(d) /\ report[d] = "none"
        /\ job[d] = "repeating" =>
              \/ report[d] = "none" /\ result[d] \in {"running", "failed"}
              \/ report[d] = "failed"
        /\ report[d] # "none" => \/ IsOpen(d)
                                 \/ report[d] = "failed" /\ result[d] = "failed"
        /\ persister[d] # "idle" => result[d] # "none"
        /\ d \notin Reached => job[d] = "none" /\ report[d] = "none" /\ persister[d] = "idle"

\* What the local variables of the request say of the results
RequestFollowsResults ==
    \A d \in Device :
        /\ d \in runner.todo => result[d] = "none"
        /\ d \in runner.unsent => result[d] = "pending" /\ d \notin Reached
        /\ d \in runner.current /\ runner.pc = "send" =>
              result[d] = "pending" /\ d \notin runner.sent /\ d \notin runner.unsent
        /\ d \in runner.sent \/ d \in runner.current => result[d] # "none"
        /\ result[d] # "none" =>
              d \in runner.sent \/ d \in runner.current \/ d \in runner.unsent
                \/ result[d] = "failed"

\* Without a race, a task that has seen every result finished holds the verdict over all.
PersisterIsRight ==
    Clean => \A d \in Device :
        /\ persister[d] \in Closing => Unfinished = {}
        /\ persister[d] \in Verdict => persister[d] = VerdictOf(result)

RunInv ==
    RequestIsAhead /\ ScriptFollowsResult /\ RequestFollowsResults /\ PersisterIsRight
        /\ ClosedMatchesResults

-----------------------------------------------------------------------------
(* Type correctness *)

LEMMA VerdictType == \A f : VerdictOf(f) \in Verdict
BY DEF VerdictOf, Verdict

LEMMA TypeInit == Init => TypeOK
BY FaultsAssumption DEF Init, TypeOK, Status, JobState, RunnerState, Race

\* Every value of every variable has its type.
LEMMA TypeStep == TypeOK /\ [Next]_vars => TypeOK'
<1> SUFFICES ASSUME TypeOK, [Next]_vars PROVE TypeOK'
  OBVIOUS
<1> USE DEF TypeOK, Status, Outcome, serverVars, agentVars, JobState, RunnerState, Race
<1>1. CASE UNCHANGED vars
  BY <1>1 DEF vars
<1>2. CASE \E targets \in SUBSET Device : StartRun(targets)
  BY <1>2 DEF StartRun
<1>3. CASE MarkRunning
  BY <1>3 DEF MarkRunning
<1>4. CASE DispatchEnds
  BY <1>4 DEF DispatchEnds
<1>5. CASE FinishRequest
  BY <1>5 DEF FinishRequest, Verdict
<1>6. ASSUME NEW d \in Device, Enter(d) PROVE TypeOK'
  BY <1>6 DEF Enter
<1>7. ASSUME NEW d \in Device, Send(d) PROVE TypeOK'
  <2>1. runner' \in RunnerState
    <3>1. CASE runner' = [runner EXCEPT !.pc = "mark"]
      BY <3>1
    <3>2. CASE runner' = [runner EXCEPT !.pc = "dispatch", !.current = {},
                                        !.unsent = @ \union {d}]
      BY <3>2
    <3> QED
      BY <1>7, <3>1, <3>2 DEF Send
  <2>2. job' \in [Device -> JobState]
    BY <1>7 DEF Send
  <2> QED
    BY <1>7, <2>1, <2>2 DEF Send
<1>8. ASSUME NEW d \in Device, FailUnsent(d) PROVE TypeOK'
  BY <1>8 DEF FailUnsent
<1>9. ASSUME NEW d \in Device, AgentStep(d) PROVE TypeOK'
  <2>1. CASE AgentReceives(d) \/ AgentFallsSilent(d)
    BY <2>1 DEF AgentReceives, AgentFallsSilent
  <2>2. ASSUME NEW o \in Outcome, AgentReports(d, o) PROVE TypeOK'
    BY <2>2 DEF AgentReports
  <2>3. CASE AgentRepeats(d)
    BY <2>3 DEF AgentRepeats
  <2> QED
    BY <1>9, <2>1, <2>2, <2>3 DEF AgentStep
<1>10. CASE \E d \in Device :
            Unregister(d) \/ Reconnect(d) \/ TakeoverEnds(d) \/ ChannelEnds(d)
  BY <1>10 DEF Unregister, Reconnect, TakeoverEnds, ChannelEnds
<1>11. ASSUME NEW d \in Device, PersisterStep(d) PROVE TypeOK'
  <2>1. CASE SaveResult(d)
    BY <2>1 DEF SaveResult
  <2>2. CASE CountUnfinished(d)
    BY <2>2 DEF CountUnfinished
  <2>3. CASE TallyOutcomes(d)
    BY <2>3, VerdictType DEF TallyOutcomes
  <2>4. CASE CloseRun(d)
    BY <2>4 DEF CloseRun, Verdict
  <2> QED
    BY <1>11, <2>1, <2>2, <2>3, <2>4 DEF PersisterStep
<1>12. CASE \E d \in Device : LoseAgent(d)
  BY <1>12, FaultsAssumption DEF LoseAgent, Fault
<1>13. CASE CancelRequest \/ ServerRestart
  BY <1>13, FaultsAssumption DEF CancelRequest, ServerRestart, Fault
<1> QED
  BY <1>1, <1>2, <1>3, <1>4, <1>5, <1>6, <1>7, <1>8, <1>9, <1>10, <1>11, <1>12, <1>13
     DEF Next, RunnerStep

THEOREM TypeCorrect == Spec => []TypeOK
BY TypeInit, TypeStep, PTL DEF Spec

-----------------------------------------------------------------------------
(* Preservation of RunInv *)

\* A step that changes neither results nor verdicts keeps what they promise.
LEMMA SameVerdict ==
    ASSUME PersisterIsRight, ClosedMatchesResults,
           run' = run, result' = result, persister' = persister, raced \subseteq raced'
    PROVE  PersisterIsRight' /\ ClosedMatchesResults'
BY DEF PersisterIsRight, ClosedMatchesResults, Clean, Terminal, Unfinished, VerdictOf

LEMMA StartStep ==
    ASSUME TypeOK, RunInv, NEW targets \in SUBSET Device, StartRun(targets)
    PROVE  RunInv'
<1> USE DEF TypeOK, RunnerState, RunInv, StartRun, agentVars
<1>1. RequestIsAhead'
  BY DEF RequestIsAhead, Over, Terminal, Verdict
<1>2. Reached = {} /\ Reached' = {}
  BY DEF RequestIsAhead, Reached
<1>3. ScriptFollowsResult'
  BY <1>2 DEF ScriptFollowsResult, IsOpen
<1>4. RequestFollowsResults'
  BY <1>2 DEF RequestFollowsResults, RequestIsAhead
<1>5. PersisterIsRight' /\ ClosedMatchesResults'
  BY <1>2 DEF PersisterIsRight, ClosedMatchesResults, ScriptFollowsResult, Closing, Verdict, Terminal
<1> QED
  BY <1>1, <1>3, <1>4, <1>5

LEMMA EnterStep ==
    ASSUME TypeOK, RunInv, NEW d \in Device, Enter(d)
    PROVE  RunInv'
<1> USE DEF TypeOK, RunnerState, RunInv, agentVars
<1>1. /\ runner.pc = "dispatch" /\ runner'.pc = "send" /\ d \in runner.todo
      /\ runner'.todo = runner.todo \ {d} /\ runner.current = {} /\ runner'.current = {d}
      /\ runner'.sent = runner.sent /\ runner'.unsent = runner.unsent
      /\ result' = [result EXCEPT ![d] = "pending"]
      /\ UNCHANGED <<run, persister, job, report>>
  BY DEF Enter, RequestIsAhead
<1>2. result[d] = "none" /\ d \notin runner.sent /\ d \notin runner.unsent
  BY <1>1 DEF RequestFollowsResults
<1>3. Reached' = Reached /\ Reached = runner.sent
  BY <1>1 DEF Reached
<1>4. RequestIsAhead'
  BY <1>1, <1>3 DEF RequestIsAhead, Over, Terminal
<1>5. ScriptFollowsResult'
  BY <1>1, <1>2, <1>3 DEF ScriptFollowsResult, IsOpen
<1>6. RequestFollowsResults'
  BY <1>1, <1>2, <1>3 DEF RequestFollowsResults
<1>7. PersisterIsRight' /\ ClosedMatchesResults'
  <2>1. Clean' => ~Settled
    BY DEF Enter, Clean
  <2> QED
    BY <1>1, <2>1 DEF PersisterIsRight, ClosedMatchesResults, Settled, Terminal, Closing
<1> QED
  BY <1>4, <1>5, <1>6, <1>7

LEMMA SendStep ==
    ASSUME TypeOK, RunInv, NEW d \in Device, Send(d)
    PROVE  RunInv'
<1> USE DEF TypeOK, RunnerState, RunInv
<1>1. /\ runner.pc = "send" /\ d \in runner.current
      /\ result[d] = "pending" /\ d \notin runner.sent /\ d \notin runner.unsent
      /\ job[d] = "none" /\ report[d] = "none" /\ persister[d] = "idle"
      /\ UNCHANGED <<run, result, persister, raced, report>>
  BY DEF Send, RequestFollowsResults, ScriptFollowsResult, Reached
<1>2. PersisterIsRight' /\ ClosedMatchesResults'
  BY <1>1, SameVerdict
<1>3. CASE runner' = [runner EXCEPT !.pc = "mark"]
  <2>1. \/ job' = job \/ job' = [job EXCEPT ![d] = "queued"]
    BY DEF Send
  <2>2. Reached' = Reached \union runner.current
    BY <1>1, <1>3 DEF Reached
  <2>3. RequestIsAhead'
    BY <1>1, <1>3, <2>2 DEF RequestIsAhead, Over, Terminal
  <2>4. ScriptFollowsResult'
    BY <1>1, <1>3, <2>1, <2>2 DEF ScriptFollowsResult, IsOpen
  <2>5. RequestFollowsResults'
    BY <1>1, <1>3, <2>2 DEF RequestFollowsResults
  <2> QED
    BY <1>2, <2>3, <2>4, <2>5
<1>4. CASE /\ runner' = [runner EXCEPT !.pc = "dispatch", !.current = {}, !.unsent = @ \union {d}]
           /\ job' = job
  <2>1. Reached' = Reached /\ d \notin Reached
    BY <1>1, <1>4 DEF Reached
  <2>2. RequestIsAhead'
    BY <1>1, <1>4, <2>1 DEF RequestIsAhead, Over, Terminal
  <2>3. ScriptFollowsResult'
    BY <1>1, <1>4, <2>1 DEF ScriptFollowsResult, IsOpen
  <2>4. RequestFollowsResults'
    BY <1>1, <1>4, <2>1 DEF RequestFollowsResults, RequestIsAhead
  <2> QED
    BY <1>2, <2>2, <2>3, <2>4
<1> QED
  BY <1>3, <1>4 DEF Send

LEMMA MarkStep ==
    ASSUME TypeOK, RunInv, MarkRunning
    PROVE  RunInv'
<1> USE DEF TypeOK, RunnerState, RunInv, agentVars
<1>1. /\ runner.pc = "mark" /\ runner'.pc = "dispatch" /\ runner'.current = {}
      /\ runner'.todo = runner.todo /\ runner'.unsent = runner.unsent
      /\ runner'.sent = runner.sent \union runner.current
      /\ UNCHANGED <<run, persister, job, report>>
  BY DEF MarkRunning
<1>2. /\ \A d \in Device : d \notin runner.current => result'[d] = result[d]
      /\ \A d \in runner.current : result'[d] = "running"
  BY DEF MarkRunning
<1>3. Reached' = Reached /\ Reached = runner.sent \union runner.current
  BY <1>1 DEF Reached
<1>4. RequestIsAhead'
  BY <1>1, <1>3 DEF RequestIsAhead, Over, Terminal
<1>5. ScriptFollowsResult'
  BY <1>1, <1>2, <1>3 DEF ScriptFollowsResult, IsOpen
<1>6. RequestFollowsResults'
  BY <1>1, <1>2, <1>3 DEF RequestFollowsResults
<1>7. PersisterIsRight' /\ ClosedMatchesResults'
  <2> SUFFICES ASSUME Clean' PROVE PersisterIsRight' /\ ClosedMatchesResults'
    BY DEF PersisterIsRight, ClosedMatchesResults
  <2>1. Clean /\ \A d \in runner.current : result[d] \in {"pending", "running"}
    <3>1. Clean /\ \A d \in runner.current : result[d] \notin Outcome
      BY DEF MarkRunning, Clean
    <3> QED
      BY <3>1 DEF RequestFollowsResults, Status, Outcome
  <2>2. Unfinished' = Unfinished
    BY <1>2, <2>1 DEF Unfinished
  <2>3. \A d \in Device : /\ result'[d] = "failed" <=> result[d] = "failed"
                          /\ result'[d] = "done" <=> result[d] = "done"
    BY <1>2, <2>1
  <2>4. VerdictOf(result') = VerdictOf(result)
    BY <2>3 DEF VerdictOf
  <2> QED
    BY <1>1, <2>1, <2>2, <2>4 DEF PersisterIsRight, ClosedMatchesResults, Terminal
<1> QED
  BY <1>4, <1>5, <1>6, <1>7

LEMMA FailStep ==
    ASSUME TypeOK, RunInv, NEW d \in Device, FailUnsent(d)
    PROVE  RunInv'
<1> USE DEF TypeOK, RunnerState, RunInv, agentVars
<1>1. /\ runner.pc = "failUnsent" /\ d \in runner.unsent /\ result[d] = "pending"
      /\ d \notin Reached
      /\ runner' = [runner EXCEPT !.unsent = @ \ {d}]
      /\ result' = [result EXCEPT ![d] = "failed"]
      /\ UNCHANGED <<run, persister, job, report>>
  BY DEF FailUnsent, RequestFollowsResults
<1>2. Reached' = Reached /\ Reached = runner.sent
  BY <1>1 DEF Reached
<1>3. RequestIsAhead'
  BY <1>1, <1>2 DEF RequestIsAhead, Over, Terminal
<1>4. ScriptFollowsResult'
  BY <1>1, <1>2 DEF ScriptFollowsResult, IsOpen
<1>5. RequestFollowsResults'
  BY <1>1, <1>2 DEF RequestFollowsResults
<1>6. PersisterIsRight' /\ ClosedMatchesResults'
  <2>1. d \in Unfinished /\ (Clean' => Clean)
    BY <1>1 DEF Unfinished, FailUnsent, Clean
  <2> QED
    BY <1>1, <2>1 DEF PersisterIsRight, ClosedMatchesResults, Terminal, Closing
<1> QED
  BY <1>3, <1>4, <1>5, <1>6

\* A request that sent nothing fails the run when all its devices have failed.
LEMMA NothingSent ==
    ASSUME TypeOK, RunInv, FinishRequest, runner.sent = {}, Entered # {}
    PROVE  run = "running" /\ Unfinished = {} /\ VerdictOf(result) = "failed"
<1> USE DEF TypeOK, RunnerState, RunInv
<1>1. runner.current = {} /\ runner.unsent = {} /\ Reached = {}
  BY DEF FinishRequest, RequestIsAhead, Reached
<1>2. \A d \in Device : result[d] \in {"none", "failed"}
  BY <1>1 DEF RequestFollowsResults
<1>3. PICK d \in Device : result[d] = "failed"
  BY <1>2 DEF Entered
<1>4. run = "running"
  BY <1>1 DEF FinishRequest, RequestIsAhead, Over, Terminal
<1> QED
  BY <1>2, <1>3, <1>4 DEF VerdictOf, Unfinished

LEMMA FinishStep ==
    ASSUME TypeOK, RunInv, DispatchEnds \/ FinishRequest
    PROVE  RunInv'
<1> USE DEF TypeOK, RunnerState, RunInv, agentVars
<1>1. /\ runner.pc \in {"dispatch", "failUnsent"} /\ runner'.pc \in {"failUnsent", "returned"}
      /\ \E p \in {"failUnsent", "returned"} : runner' = [runner EXCEPT !.pc = p]
      /\ UNCHANGED <<result, persister, job, report, raced>>
      /\ run' # "none" /\ runner.current = {}
  BY DEF DispatchEnds, FinishRequest, RequestIsAhead
<1>2. Reached' = Reached
  BY <1>1 DEF Reached
<1>3. RequestIsAhead'
  BY <1>1, <1>2 DEF RequestIsAhead, Over, Terminal, DispatchEnds, FinishRequest
<1>4. ScriptFollowsResult'
  BY <1>1, <1>2 DEF ScriptFollowsResult, IsOpen
<1>5. RequestFollowsResults'
  BY <1>1, <1>2 DEF RequestFollowsResults
<1>6. CASE run' = run
  BY <1>1, <1>3, <1>4, <1>5, <1>6, SameVerdict
<1>7. CASE run' # run
  <2>1. run' = "failed" /\ Unfinished = {} /\ VerdictOf(result) = "failed"
    BY <1>7, NothingSent DEF DispatchEnds, FinishRequest
  <2>2. Unfinished' = {} /\ VerdictOf(result)' = "failed"
    BY <1>1, <2>1 DEF Unfinished, VerdictOf
  <2>3. PersisterIsRight'
    BY <1>1 DEF PersisterIsRight, Clean, Unfinished, VerdictOf
  <2> QED
    BY <1>3, <1>4, <1>5, <2>1, <2>2, <2>3 DEF ClosedMatchesResults
<1> QED
  BY <1>6, <1>7

\* What happens to the agents changes no result.
LEMMA AgentStepInv ==
    ASSUME TypeOK, RunInv, NEW e \in Device,
           \/ AgentStep(e) \/ Unregister(e) \/ Reconnect(e) \/ TakeoverEnds(e) \/ ChannelEnds(e)
           \/ LoseAgent(e)
    PROVE  RunInv'
<1> USE DEF TypeOK, RunnerState, RunInv
<1>1. UNCHANGED serverVars
  BY DEF AgentStep, AgentReceives, AgentReports, AgentRepeats, AgentFallsSilent, Unregister,
         Reconnect, TakeoverEnds, ChannelEnds, LoseAgent, Fault
<1>2. PersisterIsRight' /\ ClosedMatchesResults'
  BY <1>1, SameVerdict DEF serverVars
<1>3. Reached' = Reached /\ RequestIsAhead'
  BY <1>1 DEF serverVars, Reached, RequestIsAhead, Over, Terminal
<1>4. RequestFollowsResults'
  BY <1>1, <1>3 DEF serverVars, RequestFollowsResults
<1>5. ScriptFollowsResult'
  <2> USE DEF ScriptFollowsResult, IsOpen, serverVars
  <2>1. CASE AgentReceives(e)
    BY <1>1, <1>3, <2>1 DEF AgentReceives
  <2>2. ASSUME NEW o \in Outcome, AgentReports(e, o) PROVE ScriptFollowsResult'
    BY <1>1, <1>3, <2>2 DEF AgentReports, Outcome
  <2>3. CASE AgentRepeats(e)
    BY <1>1, <1>3, <2>3 DEF AgentRepeats
  <2>4. CASE AgentFallsSilent(e)
    BY <1>1, <1>3, <2>4 DEF AgentFallsSilent
  <2>5. CASE Unregister(e) \/ Reconnect(e) \/ TakeoverEnds(e)
    BY <1>1, <1>3, <2>5 DEF Unregister, Reconnect, TakeoverEnds
  <2>6. CASE ChannelEnds(e) \/ LoseAgent(e)
    BY <1>1, <1>3, <2>6 DEF ChannelEnds, LoseAgent
  <2> QED
    BY <2>1, <2>2, <2>3, <2>4, <2>5, <2>6 DEF AgentStep
<1> QED
  BY <1>2, <1>3, <1>4, <1>5

\* When every result is finished a report can only repeat what is recorded.
LEMMA SavedTwice ==
    ASSUME TypeOK, ScriptFollowsResult, Unfinished = {}, NEW e \in Device, SaveResult(e)
    PROVE  result' = result
<1>1. result[e] \notin {"pending", "running"}
  BY DEF Unfinished
<1>2. report[e] = result[e]
  BY <1>1 DEF SaveResult, ScriptFollowsResult, IsOpen
<1> QED
  BY <1>2 DEF SaveResult, TypeOK

LEMMA SaveStep ==
    ASSUME TypeOK, RunInv, NEW e \in Device, SaveResult(e)
    PROVE  RunInv'
<1> USE DEF TypeOK, RunnerState, RunInv
<1>1. /\ report[e] \in Outcome /\ e \in Reached
      /\ result' = [result EXCEPT ![e] = report[e]]
      /\ report' = [report EXCEPT ![e] = "none"]
      /\ persister' = [persister EXCEPT ![e] = "count"]
      /\ UNCHANGED <<run, runner, raced, job>>
  BY DEF SaveResult, ScriptFollowsResult
<1>2. Reached' = Reached
  BY <1>1 DEF Reached
<1>3. runner.pc # "idle" /\ (runner.pc = "send" => e \notin runner.current)
  BY <1>1 DEF RequestIsAhead, RequestFollowsResults, Reached
<1>4. RequestIsAhead'
  BY <1>1, <1>2, <1>3 DEF RequestIsAhead, Over, Terminal
<1>5. ScriptFollowsResult'
  BY <1>1, <1>2 DEF ScriptFollowsResult, IsOpen, Outcome
<1>6. RequestFollowsResults'
  BY <1>1, <1>2, <1>3 DEF RequestFollowsResults, Outcome, Reached
<1>7. CASE Unfinished = {}
  <2>1. result' = result
    BY <1>7, SavedTwice
  <2> QED
    BY <2>1, <1>1, <1>4, <1>5, <1>6
       DEF PersisterIsRight, ClosedMatchesResults, Terminal, Unfinished, VerdictOf, Closing,
           Verdict, Clean
<1>8. CASE Unfinished # {}
  BY <1>8, <1>1, <1>4, <1>5, <1>6
     DEF PersisterIsRight, ClosedMatchesResults, Terminal, Closing, Verdict, Clean
<1> QED
  BY <1>7, <1>8

\* Counting, judging and closing change no result.
LEMMA CloseStep ==
    ASSUME TypeOK, RunInv, NEW e \in Device,
           CountUnfinished(e) \/ TallyOutcomes(e) \/ CloseRun(e)
    PROVE  RunInv'
<1> USE DEF TypeOK, RunnerState, RunInv, agentVars
<1>1. /\ e \in Reached /\ result[e] # "none"
      /\ UNCHANGED <<result, runner, raced, job, report>>
      /\ \A d \in Device : d # e => persister'[d] = persister[d]
      /\ run' = run \/ run' \in Verdict
  BY DEF CountUnfinished, TallyOutcomes, CloseRun, ScriptFollowsResult, Verdict
<1>2. Reached' = Reached /\ runner.pc # "idle"
  BY <1>1 DEF Reached, RequestIsAhead
<1>3. RequestIsAhead'
  BY <1>1, <1>2 DEF RequestIsAhead, Over, Terminal, Verdict
<1>4. ScriptFollowsResult'
  BY <1>1, <1>2 DEF ScriptFollowsResult, IsOpen
<1>5. RequestFollowsResults'
  BY <1>1, <1>2 DEF RequestFollowsResults
<1>6. PersisterIsRight' /\ ClosedMatchesResults'
  <2> USE DEF PersisterIsRight, ClosedMatchesResults, Terminal, Unfinished, VerdictOf,
              Closing, Verdict, Clean
  <2>1. CASE CountUnfinished(e)
    BY <2>1 DEF CountUnfinished
  <2>2. CASE TallyOutcomes(e)
    BY <2>2 DEF TallyOutcomes
  <2>3. CASE CloseRun(e)
    BY <2>3 DEF CloseRun
  <2> QED
    BY <2>1, <2>2, <2>3
<1> QED
  BY <1>3, <1>4, <1>5, <1>6

LEMMA InterruptionInv ==
    ASSUME TypeOK, RunInv, CancelRequest \/ ServerRestart
    PROVE  RunInv'
<1> USE DEF TypeOK, RunnerState, RunInv
<1>1. /\ UNCHANGED <<run, result, raced>>
      /\ \/ runner' = runner /\ runner.pc = "idle"
         \/ runner' = [runner EXCEPT !.pc = "cut"] /\ runner.pc # "idle"
  <2>1. CASE CancelRequest
    BY <2>1 DEF CancelRequest
  <2>2. CASE ServerRestart /\ runner.pc = "idle"
    <3>1. runner' = [runner EXCEPT !.pc = "idle"]
      BY <2>2 DEF ServerRestart
    <3>2. runner' = runner
      BY <2>2, <3>1
    <3> QED
      BY <2>2, <3>2 DEF ServerRestart
  <2>3. CASE ServerRestart /\ runner.pc # "idle"
    BY <2>3 DEF ServerRestart
  <2> QED
    BY <2>1, <2>2, <2>3
<1>2. \A d \in Device : /\ d \in Reached => d \in Reached'
                        /\ d \in runner.unsent => d \notin Reached'
  BY <1>1 DEF Reached, RequestIsAhead, RequestFollowsResults
<1>3. RequestIsAhead'
  BY <1>1 DEF RequestIsAhead, Over, Terminal, Reached
<1>4. RequestFollowsResults'
  BY <1>1, <1>2 DEF RequestFollowsResults
<1>5. ScriptFollowsResult'
  BY <1>1, <1>2 DEF CancelRequest, ServerRestart, ScriptFollowsResult, IsOpen, agentVars
<1>6. PersisterIsRight' /\ ClosedMatchesResults'
  <2>1. CASE CancelRequest
    BY <2>1, <1>1, SameVerdict DEF CancelRequest
  <2>2. CASE ServerRestart
    BY <2>2, <1>1 DEF ServerRestart, PersisterIsRight, ClosedMatchesResults, Terminal,
                      Unfinished, VerdictOf, Closing, Verdict, Clean
  <2> QED
    BY <2>1, <2>2
<1> QED
  BY <1>3, <1>4, <1>5, <1>6

LEMMA InvStep ==
    ASSUME TypeOK, RunInv, [Next]_vars
    PROVE  RunInv'
<1>1. CASE UNCHANGED vars
  BY <1>1 DEF vars, serverVars, agentVars, RunInv, RequestIsAhead, Over, ScriptFollowsResult,
              Reached, IsOpen, RequestFollowsResults, PersisterIsRight, ClosedMatchesResults,
              Terminal, Unfinished, VerdictOf, Clean
<1>2. CASE RunnerStep \/ \E targets \in SUBSET Device : StartRun(targets)
  BY <1>2, StartStep, EnterStep, SendStep, MarkStep, FailStep, FinishStep DEF RunnerStep
<1>3. CASE \E d \in Device : PersisterStep(d)
  BY <1>3, SaveStep, CloseStep DEF PersisterStep
<1> QED
  BY <1>1, <1>2, <1>3, AgentStepInv, InterruptionInv DEF Next

LEMMA InvInit == Init => RunInv
BY DEF Init, RunInv, RequestIsAhead, Over, ScriptFollowsResult, Reached, IsOpen,
       RequestFollowsResults, PersisterIsRight, Closing, Verdict, ClosedMatchesResults, Terminal

LEMMA RunInvariant == Spec => [](TypeOK /\ RunInv)
<1>1. TypeOK /\ RunInv /\ [Next]_vars => (TypeOK /\ RunInv)'
  BY InvStep, TypeStep
<1> QED
  BY <1>1, TypeInit, InvInit, PTL DEF Spec

\* A run that no report raced is closed only when all results are finished, with the
\* verdict over them, whatever the agents, tasks and disturbances do.
THEOREM ClosedCorrect == Spec => []ClosedMatchesResults
BY RunInvariant, PTL DEF RunInv

-----------------------------------------------------------------------------
(* Outcomes and the ledger *)

\* Only these actions write results.
LEMMA ResultChanges ==
    ASSUME TypeOK, RunInv, [Next]_vars
    PROVE  \/ result' = result
           \/ \E d \in Device : /\ Enter(d) /\ result[d] = "none" /\ run' = run
                               /\ result' = [result EXCEPT ![d] = "pending"]
           \/ \E d \in Device : /\ result[d] = "pending" /\ run' = run /\ (Clean' => Clean)
                               /\ result' = [result EXCEPT ![d] = "failed"]
           \/ MarkRunning /\ run' = run
           \/ \E d \in Device, o \in Outcome :
                               /\ IsOpen(d) /\ run' = run /\ raced' = raced
                               /\ result' = [result EXCEPT ![d] = o]
<1> USE DEF TypeOK, RunInv, serverVars, agentVars
<1>1. ASSUME NEW d \in Device, Enter(d)
      PROVE  /\ result[d] = "none" /\ run' = run
             /\ result' = [result EXCEPT ![d] = "pending"]
  BY <1>1 DEF Enter, RequestFollowsResults
<1>2. CASE MarkRunning
  BY <1>2 DEF MarkRunning
<1>3. ASSUME NEW d \in Device, FailUnsent(d)
      PROVE  /\ result[d] = "pending" /\ run' = run /\ (Clean' => Clean)
             /\ result' = [result EXCEPT ![d] = "failed"]
  BY <1>3 DEF FailUnsent, RequestFollowsResults, Clean
<1>4. ASSUME NEW d \in Device, SaveResult(d)
      PROVE  \/ result' = result
             \/ /\ IsOpen(d) /\ run' = run /\ raced' = raced
                /\ \E o \in Outcome : result' = [result EXCEPT ![d] = o]
  <2>1. report[d] \in Outcome
    BY <1>4 DEF SaveResult
  <2> QED
    BY <1>4, <2>1 DEF SaveResult, ScriptFollowsResult
<1>5. CASE /\ [Next]_vars
           /\ ~ \E d \in Device : Enter(d) \/ FailUnsent(d) \/ SaveResult(d)
           /\ ~MarkRunning
  BY <1>5 DEF Next, vars, RunnerStep, StartRun, Send, DispatchEnds, FinishRequest, AgentStep,
              AgentReceives, AgentReports, AgentRepeats, AgentFallsSilent, Unregister, Reconnect,
              TakeoverEnds, ChannelEnds, PersisterStep, CountUnfinished, TallyOutcomes, CloseRun,
              LoseAgent, CancelRequest, ServerRestart
<1> QED
  BY <1>1, <1>2, <1>3, <1>4, <1>5

\* A device that has finished keeps its outcome, unless the request reopens it.
THEOREM OutcomesFinal == Spec => OutcomeIsFinal
<1>1. ASSUME TypeOK, MarkRunning, NEW d \in Device, result[d] \in Outcome
      PROVE  \/ result'[d] = result[d]
             \/ runner.pc = "mark" /\ d \in runner.current /\ "reopened" \in raced'
  BY <1>1 DEF MarkRunning, TypeOK
<1>2. TypeOK /\ RunInv /\ [Next]_vars =>
        [\A d \in Device : result[d] \in Outcome =>
            \/ result'[d] = result[d]
            \/ runner.pc = "mark" /\ d \in runner.current /\ "reopened" \in raced']_vars
  BY <1>1, ResultChanges DEF IsOpen, Outcome, TypeOK
<1> QED
  BY <1>2, RunInvariant, PTL DEF Spec, OutcomeIsFinal

\* How the status of a run changes
LEMMA StatusChanges ==
    ASSUME TypeOK, RunInv, [Next]_vars, run' # run
    PROVE  /\ result' = result
           /\ \/ run = "none" /\ run' = "running"
              \/ Clean' => /\ run = "running" /\ Entered # {} /\ Unfinished = {}
                           /\ run' = VerdictOf(result)
<1> USE DEF TypeOK, RunInv, serverVars, agentVars
<1>1. CASE \E targets \in SUBSET Device : StartRun(targets)
  BY <1>1 DEF StartRun, RequestIsAhead
<1>2. CASE FinishRequest
  <2>1. result' = result /\ runner.sent = {} /\ Entered # {} /\ run' = "failed"
    BY <1>2 DEF FinishRequest
  <2> QED
    BY <1>2, <2>1, NothingSent
<1>3. ASSUME NEW d \in Device, CloseRun(d), Clean'
      PROVE  /\ run = "running" /\ Entered # {} /\ Unfinished = {}
             /\ run' = VerdictOf(result)
  <2>1. Clean
    BY <1>3 DEF CloseRun, Clean
  <2>2. run' = VerdictOf(result) /\ Unfinished = {} /\ Entered # {}
    BY <1>3, <2>1 DEF CloseRun, PersisterIsRight, Closing, ScriptFollowsResult, Entered, Verdict
  <2>3. ~Terminal
    BY <2>1, <2>2 DEF ClosedMatchesResults
  <2>4. run # "none"
    BY <1>3 DEF CloseRun, RequestIsAhead, ScriptFollowsResult, Verdict
  <2> QED
    BY <2>2, <2>3, <2>4 DEF Terminal
<1>4. ASSUME NEW d \in Device, CloseRun(d) PROVE result' = result
  BY <1>4 DEF CloseRun
<1>5. CASE /\ ~FinishRequest
           /\ ~ \E targets \in SUBSET Device : StartRun(targets)
           /\ ~ \E d \in Device : CloseRun(d)
  BY <1>5 DEF Next, vars, RunnerStep, Enter, Send, MarkRunning, FailUnsent, DispatchEnds,
              AgentStep, AgentReceives, AgentReports, AgentRepeats, AgentFallsSilent, Unregister,
              Reconnect, TakeoverEnds, ChannelEnds, PersisterStep, SaveResult, CountUnfinished,
              TallyOutcomes, LoseAgent, CancelRequest, ServerRestart
<1> QED
  BY <1>1, <1>2, <1>3, <1>4, <1>5

LEMMA LedgerStep ==
    ASSUME TypeOK, RunInv, [Next]_vars, Clean'
    PROVE  [Ledger!LedgerNext]_<<LedgerOutcome, run>>
<1> USE DEF TypeOK, Status, Outcome
<1>1. CASE run' # run
  <2>1. LedgerOutcome' = LedgerOutcome
    BY <1>1, StatusChanges DEF LedgerOutcome
  <2>2. CASE run = "none" /\ run' = "running"
    BY <2>1, <2>2 DEF Ledger!LedgerNext, Ledger!Open
  <2>3. CASE run = "running" /\ Entered # {} /\ Unfinished = {} /\ run' = VerdictOf(result)
    <3>1. \A d \in Device : LedgerOutcome[d] # "open"
      BY <2>3 DEF Unfinished, LedgerOutcome
    <3>2. \E d \in Device : LedgerOutcome[d] # "absent"
      BY <2>3 DEF Entered, LedgerOutcome
    <3>3. \A d \in Device : /\ LedgerOutcome[d] = "failed" <=> result[d] = "failed"
                            /\ LedgerOutcome[d] = "done" <=> result[d] = "done"
      BY DEF LedgerOutcome
    <3>4. Ledger!VerdictOf(LedgerOutcome) = VerdictOf(result)
      BY <3>3 DEF VerdictOf, Ledger!VerdictOf
    <3> QED
      BY <2>1, <2>3, <3>1, <3>2, <3>4 DEF Ledger!LedgerNext, Ledger!Close
  <2> QED
    BY <1>1, <2>2, <2>3, StatusChanges
<1>2. CASE run' = run /\ result' = result
  BY <1>2 DEF LedgerOutcome
<1>3. ASSUME NEW d \in Device, Enter(d), result[d] = "none",
             result' = [result EXCEPT ![d] = "pending"], run' = run
      PROVE  Ledger!LedgerNext
  <2>1. run = "running"
    BY <1>3 DEF Enter, RunInv, RequestIsAhead, Clean, Settled
  <2>2. LedgerOutcome[d] = "absent"
        /\ LedgerOutcome' = [LedgerOutcome EXCEPT ![d] = "open"]
    BY <1>3 DEF LedgerOutcome
  <2> QED
    BY <1>3, <2>1, <2>2 DEF Ledger!LedgerNext, Ledger!Enter
<1>4. ASSUME NEW d \in Device, NEW o \in Outcome, IsOpen(d), Clean,
             result' = [result EXCEPT ![d] = o], run' = run
      PROVE  Ledger!LedgerNext
  <2>1. run = "running"
    <3>1. d \in Unfinished
      BY <1>4 DEF IsOpen, Unfinished
    <3>2. ~Terminal
      BY <1>4, <3>1 DEF RunInv, ClosedMatchesResults
    <3>3. run # "none"
      BY <1>4 DEF RunInv, RequestIsAhead, IsOpen
    <3> QED
      BY <3>2, <3>3 DEF Terminal
  <2>2. LedgerOutcome[d] = "open" /\ LedgerOutcome' = [LedgerOutcome EXCEPT ![d] = o]
    BY <1>4 DEF LedgerOutcome, IsOpen
  <2> QED
    BY <1>4, <2>1, <2>2 DEF Ledger!LedgerNext, Ledger!Decide
<1>5. CASE MarkRunning /\ run' = run
  <2>1. \A d \in runner.current : result[d] \in {"pending", "running"}
    <3>1. \A d \in runner.current : result[d] \notin Outcome
      BY <1>5 DEF MarkRunning, Clean
    <3> QED
      BY <3>1 DEF RunInv, RequestFollowsResults, RunnerState
  <2>2. LedgerOutcome' = LedgerOutcome
    BY <1>5, <2>1 DEF MarkRunning, LedgerOutcome
  <2> QED
    BY <1>5, <2>2
<1>6. CASE \E d \in Device : /\ result[d] = "pending" /\ run' = run /\ (Clean' => Clean)
                             /\ result' = [result EXCEPT ![d] = "failed"]
  BY <1>4, <1>6 DEF IsOpen
<1>7. CASE \E d \in Device, o \in Outcome :
              /\ IsOpen(d) /\ run' = run /\ raced' = raced
              /\ result' = [result EXCEPT ![d] = o]
  BY <1>4, <1>7 DEF Clean
<1> QED
  BY <1>1, <1>2, <1>3, <1>5, <1>6, <1>7, ResultChanges

\* Until a report races the request, the run implements the ledger: devices are entered
\* while it is open, decided once, and it is closed once, with the verdict over what was
\* entered.
THEOREM LedgerImplemented == Spec => LedgerSpec
<1>1. Init => Ledger!LedgerInit
  BY DEF Init, Ledger!LedgerInit, LedgerOutcome
<1>2. TypeOK /\ RunInv /\ [Next]_vars =>
         [Clean' => Ledger!LedgerNext]_<<LedgerOutcome, run>>
  BY LedgerStep
<1> QED
  BY <1>1, <1>2, RunInvariant, PTL DEF Spec, LedgerSpec

=============================================================================
