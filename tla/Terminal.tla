------------------------------ MODULE Terminal ------------------------------
(***************************************************************************)
(* The remote terminal: the page that posts a command and polls its        *)
(* results, the handlers exec_command and get_exec_results of the server,  *)
(* and the agents that execute (persist_result records what they send).    *)
(*                                                                         *)
(* A handler of the page runs without interruption up to its await; each   *)
(* SQL statement that others can observe is a step.  Answers to polls      *)
(* arrive in any order.  Every device counts as online in RustDesk, while  *)
(* its agent is connected or not.                                          *)
(***************************************************************************)
EXTENDS Naturals, FiniteSets

CONSTANTS Tenant, Device,
          Owner,     \* the tenant of each device
          Tagged,    \* devices with the one tag of their tenant
          None,
          Roles,     \* roles of the user to look at
          MaxJobs,   \* bound on the commands
          MaxPolls,  \* bound on the poll answers under way
          MaxFaults  \* bound on lost agents and lost replies

ASSUME OwnerAssumption == Owner \in [Device -> Tenant] /\ Tagged \subseteq Device
ASSUME NoneAssumption == None \notin Tenant \union Device
ASSUME RolesAssumption == Roles \subseteq {"super_admin", "admin", "operator"}
ASSUME BoundsAssumption == MaxJobs \in Nat /\ MaxPolls \in Nat /\ MaxFaults \in Nat

VARIABLES
    role,      \* of the user at the page
    tenant,    \* selectedTenantId, which is also what request() sends
    listed,    \* tenant whose tags and devices the page holds
    loads,     \* tenants whose lists are being loaded
    entry,     \* job -> its entry in history, None if there is none
    polls,     \* pollsRef: jobs with an interval
    answers,   \* answers to polls on their way
    post,      \* job -> its exec request
    done,      \* job -> devices whose exec_results row is done
    executing, \* job -> devices whose agent has the command
    linked,    \* devices with an agent in the map
    overtaken, \* history: jobs with an answer handled after their interval had ended
    timedOut,  \* history: jobs whose 120 s ran out
    faults

pageVars == <<role, tenant, listed, loads>>
ghosts == <<overtaken, timedOut>>
historyVars == <<entry, polls, ghosts>>
serverVars == <<post, done>>
agentVars == <<executing, linked>>
vars == <<pageVars, historyVars, answers, serverVars, agentVars, faults>>

Job == 1..MaxJobs
Result == [kind: {"none", "error", "rows"}, rows: SUBSET Device, done: SUBSET Device]
Entry == [running: BOOLEAN, result: Result]
Body == [kind: {"targets"}, pick: Device] \union [kind: {"tag"}, pick: Tenant]
            \union [kind: {"online"}, pick: {None}]
Post == [pc: {"idle", "posted", "entered", "marking", "replied", "failed", "over"},
         tenant: Tenant \union {None}, body: Body,
         rows: SUBSET Device, sent: SUBSET Device, unsent: SUBSET Device]
PollAnswer == [job: Job, rows: SUBSET Device, done: SUBSET Device]

\* "no entry" is none of the entries.
ASSUME EntryAssumption == None \notin Entry

\* Every variable holds a value of its kind.
TypeOK ==
    /\ role \in Roles
    /\ tenant \in Tenant \union {None}
    /\ listed \in Tenant \union {None}
    /\ loads \subseteq Tenant
    /\ entry \in [Job -> {None} \union Entry]
    /\ polls \subseteq Job
    /\ answers \subseteq PollAnswer
    /\ post \in [Job -> Post]
    /\ done \in [Job -> SUBSET Device]
    /\ executing \in [Job -> SUBSET Device]
    /\ linked \subseteq Device
    /\ overtaken \subseteq Job /\ timedOut \subseteq Job
    /\ faults \in 0..MaxFaults

NoResult == [kind |-> "none", rows |-> {}, done |-> {}]
ErrorResult == [kind |-> "error", rows |-> {}, done |-> {}]
NoPost == [pc |-> "idle", tenant |-> None, body |-> [kind |-> "online", pick |-> None],
           rows |-> {}, sent |-> {}, unsent |-> {}]

\* What the effect for tenant x loads
LoadsFor(x) == {x} \ {None}

\* The page is opened, by a super admin possibly without a tenant.
Init ==
    /\ role \in Roles
    /\ tenant \in IF role = "super_admin" THEN Tenant \union {None} ELSE Tenant
    /\ loads = LoadsFor(tenant)
    /\ listed = None
    /\ entry = [j \in Job |-> None]
    /\ polls = {} /\ answers = {}
    /\ post = [j \in Job |-> NoPost]
    /\ done = [j \in Job |-> {}]
    /\ executing = [j \in Job |-> {}]
    /\ linked = Device
    /\ overtaken = {} /\ timedOut = {} /\ faults = 0

-----------------------------------------------------------------------------
(* The page: tenant and lists *)

Shown == {j \in Job : entry[j] # None}
AnyRunning == \E j \in Shown : entry[j].running

\* The answers of two loads may come in either order.
ListsLoaded(x) ==
    /\ x \in loads
    /\ loads' = loads \ {x}
    /\ listed' = x
    /\ UNCHANGED <<role, tenant, historyVars, answers, serverVars, agentVars, faults>>

\* The selector of tenants
TenantOptions == IF role = "super_admin" THEN Tenant \union {None} ELSE {}

\* onTenantChange, the cleanup of the effect for the tenant that is left (no effect ran if
\* there was none) and the effect for the new one
TenantChange(x) ==
    /\ x # tenant
    /\ tenant' = x
    /\ entry' = [j \in Job |-> None]
    /\ loads' = loads \union LoadsFor(x)
    /\ polls' = IF tenant = None THEN polls ELSE {}
    /\ UNCHANGED <<role, listed, ghosts, answers, serverVars, agentVars, faults>>

\* The button "Limpar", and the commands clear and cls
ClearHistory ==
    /\ entry' = [j \in Job |-> None]
    /\ UNCHANGED <<pageVars, polls, ghosts, answers, serverVars, agentVars, faults>>

-----------------------------------------------------------------------------
(* The page: running a command *)

\* What a selector may hold: a selection outlives the list it was made from.
Mode == {"all", "tag", "device"}
Picks == Tenant \union Device \union {None}

\* What onRun asks for: a device that the list no longer holds, or nothing selected, is no
\* target at all.
BodyFor(mode, pick) ==
    IF mode = "tag" /\ pick \in Tenant THEN [kind |-> "tag", pick |-> pick]
    ELSE IF mode = "device" /\ pick \in Device /\ Owner[pick] = listed
         THEN [kind |-> "targets", pick |-> pick]
    ELSE [kind |-> "online", pick |-> None]

\* The input is disabled while a command runs and without a tenant.
CanRun == ~AnyRunning /\ tenant # None

Run(j, mode, pick) ==
    /\ CanRun
    /\ post[j].pc = "idle" /\ \A i \in Job : i < j => post[i].pc # "idle"
    /\ mode \in Mode /\ pick \in Picks
    /\ entry' = [entry EXCEPT ![j] = [running |-> TRUE, result |-> NoResult]]
    /\ post' = [post EXCEPT ![j].pc = "posted", ![j].tenant = tenant,
                            ![j].body = BodyFor(mode, pick)]
    /\ UNCHANGED <<pageVars, polls, ghosts, answers, done, agentVars, faults>>

\* Mutant: the entry is appended.
UpdateOrAdd(j, running, result) ==
    entry' = [entry EXCEPT ![j] = [running |-> running, result |-> result]]

\* Changes the entry of job j if history still has it
Update(j, running, result) ==
    entry' = IF j \in Shown
             THEN [entry EXCEPT ![j] = [running |-> running, result |-> result]] ELSE entry

\* Mutant: the error is not caught.
Uncaught(j) ==
    /\ post[j].pc = "failed"
    /\ post' = [post EXCEPT ![j].pc = "over"]
    /\ UNCHANGED <<pageVars, historyVars, answers, done, agentVars, faults>>

RunFails(j) ==
    /\ post[j].pc = "failed"
    /\ post' = [post EXCEPT ![j].pc = "over"]
    /\ Update(j, FALSE, ErrorResult)
    /\ UNCHANGED <<pageVars, polls, ghosts, answers, done, agentVars, faults>>

\* Nobody was sent the command: an error; else the interval starts, even if the entry has
\* been cleared meanwhile.
RunReplied(j) ==
    /\ post[j].pc = "replied"
    /\ post' = [post EXCEPT ![j].pc = "over"]
    /\ IF post[j].sent = {}
       THEN /\ Update(j, FALSE, ErrorResult)
            /\ UNCHANGED polls
       ELSE /\ polls' = polls \union {j}
            /\ UNCHANGED entry
    /\ UNCHANGED <<pageVars, ghosts, answers, done, agentVars, faults>>

\* One tick of the interval, with get_exec_results as it is answered
Poll(j) ==
    /\ j \in polls
    /\ tenant # None
    /\ Cardinality(answers) < MaxPolls
    /\ LET rows == IF post[j].tenant = tenant THEN post[j].rows ELSE {}
       IN answers' = answers \union {[job |-> j, rows |-> rows, done |-> done[j] \intersect rows]}
    /\ UNCHANGED <<pageVars, historyVars, serverVars, agentVars, faults>>

\* Mutant: one finished device is enough.
SomeDone(a) == a.rows # {} /\ a.done # {}

AllDone(a) == a.rows # {} /\ a.rows \subseteq a.done

PollAnswered(a) ==
    /\ a \in answers
    /\ answers' = answers \ {a}
    /\ Update(a.job, ~AllDone(a), [kind |-> "rows", rows |-> a.rows, done |-> a.done])
    /\ polls' = IF AllDone(a) THEN polls \ {a.job} ELSE polls
    /\ overtaken' = IF a.job \in polls THEN overtaken ELSE overtaken \union {a.job}
    /\ UNCHANGED <<pageVars, timedOut, serverVars, agentVars, faults>>

\* 120 s after the reply
GiveUp(j) ==
    /\ j \in polls
    /\ polls' = polls \ {j}
    /\ entry' = IF j \in Shown THEN [entry EXCEPT ![j].running = FALSE] ELSE entry
    /\ timedOut' = timedOut \union {j}
    /\ UNCHANGED <<pageVars, overtaken, answers, serverVars, agentVars, faults>>

\* What history shows of device d in the entry of job j
DeviceView(j, d) ==
    LET r == entry[j].result
    IN IF r.kind = "none" THEN "connecting"
       ELSE IF r.kind = "error" THEN "error"
       ELSE IF d \notin r.rows THEN "absent"
       ELSE IF d \in r.done THEN "finished" ELSE "waiting"

-----------------------------------------------------------------------------
(* exec_command *)

\* The uuids asked for
Targets(body, x) ==
    CASE body.kind = "targets" -> {body.pick}
      [] body.kind = "tag" -> {d \in Tagged : Owner[d] = body.pick /\ Owner[d] = x}
      [] body.kind = "online" -> {d \in Device : Owner[d] = x}

\* Mutant: the devices are looked up by uuid only.
RowsByUuid(body, x) == Targets(body, x)

\* The devices among them that get a row
TargetRows(body, x) == {d \in Targets(body, x) : Owner[d] = x}

\* require_admin
Refuse(j) ==
    /\ post[j].pc = "posted" /\ role = "operator"
    /\ post' = [post EXCEPT ![j].pc = "failed"]
    /\ UNCHANGED <<pageVars, historyVars, answers, done, agentVars, faults>>

\* The job and one row for each device
EnterRows(j) ==
    /\ post[j].pc = "posted" /\ role # "operator"
    /\ post' = [post EXCEPT ![j].pc = "entered",
                            ![j].rows = TargetRows(post[j].body, post[j].tenant)]
    /\ UNCHANGED <<pageVars, historyVars, answers, done, agentVars, faults>>

\* The fan-out, under the lock of the agents map
FanOut(j) ==
    /\ post[j].pc = "entered"
    /\ post' = [post EXCEPT ![j].pc = "marking",
                            ![j].sent = @ \union (post[j].rows \intersect linked),
                            ![j].unsent = post[j].rows \ linked]
    /\ executing' = [executing EXCEPT ![j] = post[j].rows \intersect linked]
    /\ UNCHANGED <<pageVars, historyVars, answers, done, linked, faults>>

MarkUnsent(j, d) ==
    /\ post[j].pc = "marking" /\ d \in post[j].unsent
    /\ done' = [done EXCEPT ![j] = @ \union {d}]
    /\ post' = [post EXCEPT ![j].unsent = @ \ {d}]
    /\ UNCHANGED <<pageVars, historyVars, answers, agentVars, faults>>

Reply(j) ==
    /\ post[j].pc = "marking" /\ post[j].unsent = {}
    /\ post' = [post EXCEPT ![j].pc = "replied"]
    /\ UNCHANGED <<pageVars, historyVars, answers, done, agentVars, faults>>

-----------------------------------------------------------------------------
(* Agents and faults *)

\* The last message of an agent about the job (persist_result)
AgentDone(j, d) ==
    /\ d \in executing[j]
    /\ executing' = [executing EXCEPT ![j] = @ \ {d}]
    /\ done' = [done EXCEPT ![j] = @ \union {d}]
    /\ UNCHANGED <<pageVars, historyVars, answers, post, linked, faults>>

\* The connection breaks, and with it what the agent still had to say.
LoseAgent(d) ==
    /\ d \in linked /\ faults < MaxFaults
    /\ linked' = linked \ {d}
    /\ executing' = [j \in Job |-> executing[j] \ {d}]
    /\ faults' = faults + 1
    /\ UNCHANGED <<pageVars, historyVars, answers, serverVars>>

AgentReturns(d) ==
    /\ d \notin linked
    /\ linked' = linked \union {d}
    /\ UNCHANGED <<pageVars, historyVars, answers, serverVars, executing, faults>>

\* The request fails at the browser.  One that was posted is not handled further: it was lost
\* on the way, or its handler is dropped with the connection; what it entered stays.
LoseReply(j) ==
    /\ post[j].pc \in {"posted", "replied"} /\ faults < MaxFaults
    /\ post' = [post EXCEPT ![j].pc = "failed"]
    /\ faults' = faults + 1
    /\ UNCHANGED <<pageVars, historyVars, answers, done, agentVars>>

-----------------------------------------------------------------------------
ExecStep(j) ==
    \/ Refuse(j) \/ EnterRows(j) \/ FanOut(j) \/ Reply(j)
    \/ \E d \in Device : MarkUnsent(j, d)

JobEnds(j) == RunFails(j) \/ RunReplied(j)

AnswersOf(j) == \E a \in answers : a.job = j /\ PollAnswered(a)

Next ==
    \/ \E x \in Tenant : ListsLoaded(x)
    \/ \E x \in TenantOptions : TenantChange(x)
    \/ ClearHistory
    \/ \E j \in Job :
        \/ \E mode \in Mode : \E pick \in Picks : Run(j, mode, pick)
        \/ JobEnds(j) \/ Poll(j) \/ GiveUp(j) \/ ExecStep(j) \/ LoseReply(j)
        \/ \E d \in Device : AgentDone(j, d)
    \/ \E a \in answers : PollAnswered(a)
    \/ \E d \in Device : LoseAgent(d) \/ AgentReturns(d)

Spec == Init /\ [][Next]_vars

\* tokio runs the handler, every answer is handled, the timer of 120 s fires.  No fairness
\* for the user, the agents, or the interval.
Fairness ==
    \A j \in Job : /\ WF_vars(ExecStep(j)) /\ WF_vars(JobEnds(j))
                   /\ WF_vars(AnswersOf(j)) /\ WF_vars(GiveUp(j))

FairSpec == Spec /\ Fairness

-----------------------------------------------------------------------------
(* Properties *)

\* The history holds nothing but commands of the tenant that is selected, however late
\* their replies and results arrive (onTenantChange, onRun).
EntriesOfTenant == \A j \in Shown : post[j].tenant = tenant

\* A command reaches only agents of the tenant it was posted for, even if a device of
\* another tenant is still selected (exec_command).
CommandStaysInTenant ==
    \A j \in Job : \A d \in executing[j] \union done[j] : Owner[d] = post[j].tenant

\* An entry shows exactly the devices of its own job, as finished only those that are, and
\* once it has stopped, unless by the timer, all of them as finished (onRun).
FinishedShowsAll ==
    \A j \in Shown : entry[j].result.kind = "rows" => \A d \in Device :
        /\ (DeviceView(j, d) = "absent") = (d \notin post[j].rows)
        /\ DeviceView(j, d) = "finished" => d \in done[j]
        /\ ~entry[j].running /\ j \notin timedOut => DeviceView(j, d) # "waiting"

\* The page comes to rest: no interval is left behind by a cleared history or a change of
\* tenant, and the input stays blocked only because an answer to a poll was handled after
\* its interval had ended (onRun).
RunningEnds == <>[](polls = {} /\ \A j \in Shown : entry[j].running => j \in overtaken)

=============================================================================
