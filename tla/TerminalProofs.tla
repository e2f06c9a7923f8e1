---------------------------- MODULE TerminalProofs ----------------------------
(***************************************************************************)
(* Proofs about Terminal, for any tenants, devices, tags and bounds: type  *)
(* correctness, that history and commands stay within a tenant, and that   *)
(* a finished entry shows what was executed.                               *)
(***************************************************************************)
EXTENDS Terminal, TLAPS

USE OwnerAssumption, NoneAssumption, RolesAssumption, BoundsAssumption,
    EntryAssumption

-----------------------------------------------------------------------------
(* The inductive invariant *)

\* What a job has done on the server is done by its rows, which are devices of its tenant.
JobKeepsToRows ==
    \A j \in Job :
        /\ post[j].pc \in {"idle", "posted"} =>
              post[j].rows = {} /\ executing[j] = {} /\ done[j] = {}
        /\ executing[j] \union done[j] \union post[j].unsent \subseteq post[j].rows
        /\ \A d \in post[j].rows : Owner[d] = post[j].tenant

\* Only a job that was replied to is polled and shows rows; one not yet posted shows
\* nothing.
ReplyComesFirst ==
    \A j \in Job :
        /\ j \in polls => post[j].pc = "over"
        /\ \A a \in answers : a.job = j => post[j].pc = "over"
        /\ j \in Shown => post[j].pc # "idle"
        /\ j \in Shown /\ entry[j].result.kind = "rows" => post[j].pc = "over"

\* While history shows a job, the answers to its polls are about all of its rows.
AnswersFitEntry ==
    \A a \in answers :
        /\ a.done \subseteq done[a.job]
        /\ a.job \in Shown => a.rows = post[a.job].rows

\* What the entries hold
EntriesFitJob ==
    \A j \in Shown : entry[j].result.kind = "rows" =>
        /\ entry[j].result.rows = post[j].rows
        /\ entry[j].result.done \subseteq done[j]
        /\ ~entry[j].running /\ j \notin timedOut =>
              entry[j].result.rows \subseteq entry[j].result.done

TerminalInv ==
    /\ JobKeepsToRows /\ ReplyComesFirst /\ EntriesOfTenant
    /\ AnswersFitEntry /\ EntriesFitJob

-----------------------------------------------------------------------------
(* Type correctness *)

LEMMA BodyType ==
    ASSUME NEW mode \in Mode, NEW pick \in Picks
    PROVE  BodyFor(mode, pick) \in Body
BY DEF Mode, Picks, BodyFor, Body

LEMMA EntryUpdated ==
    ASSUME entry \in [Job -> {None} \union Entry], NEW j \in Job, NEW running \in BOOLEAN,
           NEW result \in Result, Update(j, running, result)
    PROVE  entry' \in [Job -> {None} \union Entry]
BY DEF Update, Entry

LEMMA PostUpdated ==
    ASSUME post \in [Job -> Post], NEW j \in Job, NEW p \in Post,
           post' = [post EXCEPT ![j] = p]
    PROVE  post' \in [Job -> Post]
OBVIOUS

\* The steps of a request that only lead to its next point
LEMMA PostMoves ==
    ASSUME post \in [Job -> Post], NEW j \in Job,
           NEW pc \in {"marking", "replied", "failed", "over"},
           post' = [post EXCEPT ![j].pc = pc]
    PROVE  post' \in [Job -> Post]
<1>1. [post[j] EXCEPT !.pc = pc] \in Post
  BY DEF Post
<1> QED
  BY <1>1, PostUpdated

\* A request that is posted, enters its rows, or has been fanned out
LEMMA PostedType ==
    ASSUME NEW q \in Post, NEW x \in Tenant \union {None}, NEW body \in Body
    PROVE  [q EXCEPT !.pc = "posted", !.tenant = x, !.body = body] \in Post
BY DEF Post

LEMMA EnteredType ==
    ASSUME NEW q \in Post, NEW rows \in SUBSET Device
    PROVE  [q EXCEPT !.pc = "entered", !.rows = rows] \in Post
BY DEF Post

LEMMA FannedType ==
    ASSUME NEW q \in Post, NEW sent \in SUBSET Device, NEW unsent \in SUBSET Device
    PROVE  [q EXCEPT !.pc = "marking", !.sent = @ \union sent, !.unsent = unsent] \in Post
BY DEF Post

LEMMA RowsAreDevices ==
    ASSUME NEW p \in Post
    PROVE  /\ TargetRows(p.body, p.tenant) \subseteq Device
           /\ \A d \in TargetRows(p.body, p.tenant) : Owner[d] = p.tenant
BY DEF TargetRows, Targets, Post, Body

LEMMA TypeInit == Init => TypeOK
<1> SUFFICES ASSUME Init PROVE TypeOK
  OBVIOUS
<1>1. NoPost \in Post
  BY DEF NoPost, Post, Body
<1>2. tenant \in Tenant \union {None} /\ loads \subseteq Tenant
  BY DEF Init, LoadsFor
<1> QED
  BY <1>1, <1>2 DEF Init, TypeOK

LEMMA TypeStep == TypeOK /\ [Next]_vars => TypeOK'
<1> SUFFICES ASSUME TypeOK, [Next]_vars PROVE TypeOK'
  OBVIOUS
<1> USE DEF TypeOK, pageVars, ghosts, historyVars, serverVars, agentVars
<1>0. /\ entry \in [Job -> {None} \union Entry]
      /\ NoResult \in Result /\ ErrorResult \in Result
  BY DEF Entry, NoResult, ErrorResult, Result
<1>1. CASE UNCHANGED vars
  BY <1>1 DEF vars
<1>2. ASSUME NEW x \in Tenant, ListsLoaded(x) PROVE TypeOK'
  BY <1>2 DEF ListsLoaded
<1>3. ASSUME NEW x \in TenantOptions, TenantChange(x) PROVE TypeOK'
  BY <1>3 DEF TenantChange, TenantOptions, LoadsFor
<1>4. CASE ClearHistory
  BY <1>4 DEF ClearHistory
<1>5. ASSUME NEW j \in Job, NEW mode \in Mode, NEW pick \in Picks, Run(j, mode, pick)
      PROVE  TypeOK'
  <2>1. entry' \in [Job -> {None} \union Entry]
    BY <1>0, <1>5 DEF Run, Entry
  <2> DEFINE p == [post[j] EXCEPT !.pc = "posted", !.tenant = tenant,
                                  !.body = BodyFor(mode, pick)]
  <2>2. p \in Post /\ post' = [post EXCEPT ![j] = p]
    BY <1>5, BodyType, PostedType DEF Run
  <2>3. post' \in [Job -> Post]
    BY <2>2, PostUpdated
  <2> QED
    BY <1>5, <2>1, <2>3 DEF Run
<1>6. ASSUME NEW j \in Job, RunFails(j) PROVE TypeOK'
  <2>1. post' \in [Job -> Post]
    BY <1>6, PostMoves DEF RunFails
  <2> QED
    BY <1>0, <1>6, <2>1, EntryUpdated DEF RunFails, Entry
<1>7. ASSUME NEW j \in Job, RunReplied(j) PROVE TypeOK'
  <2>1. entry' \in [Job -> {None} \union Entry]
    BY <1>0, <1>7, EntryUpdated DEF RunReplied
  <2>2. post' \in [Job -> Post]
    BY <1>7, PostMoves DEF RunReplied
  <2>3. polls' \subseteq Job
    BY <1>7 DEF RunReplied
  <2> QED
    BY <1>7, <2>1, <2>2, <2>3 DEF RunReplied, Entry
<1>8. ASSUME NEW j \in Job, Poll(j) PROVE TypeOK'
  <2> DEFINE rows == IF post[j].tenant = tenant THEN post[j].rows ELSE {}
             a == [job |-> j, rows |-> rows, done |-> done[j] \intersect rows]
  <2>1. answers' = answers \union {a}
    BY <1>8 DEF Poll
  <2>2. a \in PollAnswer
    BY DEF PollAnswer, Post
  <2> QED
    BY <1>8, <2>1, <2>2 DEF Poll
<1>9. ASSUME NEW a \in answers, PollAnswered(a) PROVE TypeOK'
  <2>1. /\ a.job \in Job
        /\ [kind |-> "rows", rows |-> a.rows, done |-> a.done] \in Result
    BY DEF PollAnswer, Result
  <2>2. entry' \in [Job -> {None} \union Entry]
    BY <1>0, <1>9, <2>1, EntryUpdated DEF PollAnswered
  <2>3. polls' \subseteq Job /\ overtaken' \subseteq Job /\ answers' \subseteq PollAnswer
    BY <1>9, <2>1 DEF PollAnswered
  <2> QED
    BY <1>9, <2>2, <2>3 DEF PollAnswered, Entry
<1>10. ASSUME NEW j \in Job, GiveUp(j) PROVE TypeOK'
  BY <1>10 DEF GiveUp, Shown, Entry
<1>11. ASSUME NEW j \in Job, ExecStep(j) PROVE TypeOK'
  <2>1. CASE Refuse(j) \/ Reply(j)
    BY <2>1, PostMoves DEF Refuse, Reply
  <2>2. CASE EnterRows(j)
    <3> DEFINE p == [post[j] EXCEPT !.pc = "entered",
                                    !.rows = TargetRows(post[j].body, post[j].tenant)]
    <3>1. post' = [post EXCEPT ![j] = p]
      BY <2>2 DEF EnterRows
    <3>2. p \in Post
      BY RowsAreDevices, EnteredType
    <3> QED
      BY <2>2, <3>1, <3>2, PostUpdated DEF EnterRows
  <2>3. CASE FanOut(j)
    <3> DEFINE p == [post[j] EXCEPT !.pc = "marking",
                                    !.sent = @ \union (post[j].rows \intersect linked),
                                    !.unsent = post[j].rows \ linked]
    <3>1. post' = [post EXCEPT ![j] = p]
      BY <2>3 DEF FanOut
    <3>2. post[j].rows \subseteq Device
      BY DEF Post
    <3>3. p \in Post
      BY <3>2, FannedType
    <3> QED
      BY <2>3, <3>1, <3>2, <3>3, PostUpdated DEF FanOut
  <2>4. ASSUME NEW d \in Device, MarkUnsent(j, d) PROVE TypeOK'
    BY <2>4 DEF MarkUnsent, Post
  <2> QED
    BY <1>11, <2>1, <2>2, <2>3, <2>4 DEF ExecStep
<1>12. ASSUME NEW j \in Job, LoseReply(j) PROVE TypeOK'
  <2>1. post' \in [Job -> Post]
    BY <1>12, PostMoves DEF LoseReply
  <2>2. faults' \in 0..MaxFaults
    BY <1>12 DEF LoseReply
  <2> QED
    BY <1>12, <2>1, <2>2 DEF LoseReply
<1>13. ASSUME NEW j \in Job, NEW d \in Device, AgentDone(j, d) PROVE TypeOK'
  BY <1>13 DEF AgentDone
<1>14. ASSUME NEW d \in Device, LoseAgent(d) PROVE TypeOK'
  BY <1>14 DEF LoseAgent
<1>15. ASSUME NEW d \in Device, AgentReturns(d) PROVE TypeOK'
  BY <1>15 DEF AgentReturns
<1> QED
  BY <1>1, <1>2, <1>3, <1>4, <1>5, <1>6, <1>7, <1>8, <1>9, <1>10, <1>11, <1>12, <1>13,
     <1>14, <1>15 DEF Next, JobEnds

\* Type correctness of the terminal, its jobs and their agents.
THEOREM TypeCorrect == Spec => []TypeOK
BY TypeInit, TypeStep, PTL DEF Spec

-----------------------------------------------------------------------------
(* The parts of the invariant *)

LEMMA InvInit == Init => TerminalInv
BY DEF Init, TerminalInv, JobKeepsToRows, ReplyComesFirst, EntriesOfTenant, AnswersFitEntry,
       EntriesFitJob, Shown, NoPost

\* Steps that only lead a request to its next point
Moves(j, pc) ==
    /\ post' = [post EXCEPT ![j].pc = pc]
    /\ UNCHANGED <<done, executing>>

LEMMA RowsStep == TypeOK /\ JobKeepsToRows /\ [Next]_vars => JobKeepsToRows'
<1> SUFFICES ASSUME TypeOK, JobKeepsToRows, [Next]_vars PROVE JobKeepsToRows'
  OBVIOUS
<1> USE DEF pageVars, ghosts, historyVars, serverVars, agentVars, JobKeepsToRows
<1>0. /\ post \in [Job -> Post]
      /\ done \in [Job -> SUBSET Device] /\ executing \in [Job -> SUBSET Device]
  BY DEF TypeOK
<1>1. ASSUME UNCHANGED <<post, done, executing>> PROVE JobKeepsToRows'
  BY <1>1
<1>2. ASSUME NEW j \in Job, NEW pc \in {"replied", "failed", "over"}, Moves(j, pc)
      PROVE  JobKeepsToRows'
  BY <1>0, <1>2 DEF Moves, Post
<1>3. ASSUME NEW j \in Job, NEW mode \in Mode, NEW pick \in Picks, Run(j, mode, pick)
      PROVE  JobKeepsToRows'
  BY <1>0, <1>3 DEF Run, Post
<1>4. ASSUME NEW j \in Job, EnterRows(j) PROVE JobKeepsToRows'
  <2> DEFINE R == TargetRows(post[j].body, post[j].tenant)
  <2>1. \A d \in R : Owner[d] = post[j].tenant
    BY <1>0, RowsAreDevices
  <2>2. post' = [post EXCEPT ![j].pc = "entered", ![j].rows = R]
    BY <1>4 DEF EnterRows
  <2>3. UNCHANGED <<done, executing>> /\ post[j].pc = "posted"
    BY <1>4 DEF EnterRows
  <2> HIDE DEF R
  <2> QED
    BY <1>0, <2>1, <2>2, <2>3 DEF Post
<1>5. ASSUME NEW j \in Job, FanOut(j) PROVE JobKeepsToRows'
  BY <1>0, <1>5 DEF FanOut, Post
<1>6. ASSUME NEW j \in Job, NEW d \in Device, MarkUnsent(j, d) PROVE JobKeepsToRows'
  BY <1>0, <1>6 DEF MarkUnsent, Post
<1>7. ASSUME NEW j \in Job, NEW d \in Device, AgentDone(j, d) PROVE JobKeepsToRows'
  BY <1>0, <1>7 DEF AgentDone
<1>8. ASSUME NEW d \in Device, LoseAgent(d) PROVE JobKeepsToRows'
  BY <1>0, <1>8 DEF LoseAgent
<1>9. ASSUME NEW j \in Job, ExecStep(j) PROVE JobKeepsToRows'
  BY <1>2, <1>4, <1>5, <1>6, <1>9 DEF ExecStep, Refuse, Reply, Moves
<1>10. ASSUME NEW j \in Job, JobEnds(j) \/ LoseReply(j) PROVE JobKeepsToRows'
  BY <1>2, <1>10 DEF JobEnds, RunFails, RunReplied, LoseReply, Moves
<1> QED
  BY <1>1, <1>3, <1>7, <1>8, <1>9, <1>10
     DEF Next, vars, ListsLoaded, TenantChange, ClearHistory, Poll, PollAnswered, GiveUp,
         AgentReturns

HistoryInv == ReplyComesFirst /\ EntriesOfTenant /\ AnswersFitEntry /\ EntriesFitJob

\* What server and agents do to a job that the page does not yet poll, or to its results
LEMMA ServerKeepsHistory ==
    ASSUME TypeOK, HistoryInv, UNCHANGED <<tenant, entry, polls, answers, timedOut>>,
           post' \in [Job -> Post],
           \A i \in Job : /\ post'[i].tenant = post[i].tenant
                          /\ post[i].pc = "over" => post'[i] = post[i]
                          /\ post[i].pc # "idle" => post'[i].pc # "idle"
                          /\ done[i] \subseteq done'[i]
    PROVE  HistoryInv'
<1>0. Shown' = Shown /\ Shown \subseteq Job
  BY DEF Shown
<1> USE DEF HistoryInv
<1>1. ReplyComesFirst'
  <2> SUFFICES ASSUME NEW j \in Job
               PROVE  /\ j \in polls => post'[j].pc = "over"
                      /\ \A a \in answers : a.job = j => post'[j].pc = "over"
                      /\ j \in Shown => post'[j].pc # "idle"
                      /\ j \in Shown /\ entry[j].result.kind = "rows" => post'[j].pc = "over"
    BY <1>0 DEF ReplyComesFirst
  <2> QED
    BY DEF ReplyComesFirst
<1>2. EntriesOfTenant'
  BY <1>0 DEF EntriesOfTenant
<1>3. AnswersFitEntry'
  <2> SUFFICES ASSUME NEW a \in answers
               PROVE  /\ a.done \subseteq done'[a.job]
                      /\ a.job \in Shown => a.rows = post'[a.job].rows
    BY <1>0 DEF AnswersFitEntry
  <2>1. a.job \in Job /\ post[a.job].pc = "over"
    BY DEF TypeOK, PollAnswer, ReplyComesFirst
  <2>2. done[a.job] \subseteq done'[a.job] /\ post'[a.job] = post[a.job]
    BY <2>1
  <2> QED
    BY <2>2 DEF AnswersFitEntry
<1>4. EntriesFitJob'
  <2> SUFFICES ASSUME NEW j \in Job, j \in Shown, entry[j].result.kind = "rows"
               PROVE  /\ entry[j].result.rows = post'[j].rows
                      /\ entry[j].result.done \subseteq done'[j]
                      /\ ~entry[j].running /\ j \notin timedOut =>
                            entry[j].result.rows \subseteq entry[j].result.done
    BY <1>0 DEF EntriesFitJob
  <2>1. post[j].pc = "over"
    BY DEF ReplyComesFirst
  <2>2. done[j] \subseteq done'[j] /\ post'[j] = post[j]
    BY <2>1
  <2> QED
    BY <2>2 DEF EntriesFitJob
<1> QED
  BY <1>1, <1>2, <1>3, <1>4

\* A change of tenant and a cleared history leave nothing behind that could be wrong.
LEMMA UpdateShown ==
    ASSUME TypeOK, NEW j \in Job, NEW running \in BOOLEAN, NEW result \in Result,
           Update(j, running, result)
    PROVE  /\ Shown' = Shown
           /\ \A i \in Shown \ {j} : entry'[i] = entry[i]
           /\ j \in Shown => entry'[j] = [running |-> running, result |-> result]
<1>1. CASE j \in Shown
  <2>1. entry' = [entry EXCEPT ![j] = [running |-> running, result |-> result]]
    BY <1>1 DEF Update
  <2>2. \A i \in Job : entry'[i] = IF i = j THEN [running |-> running, result |-> result]
                                   ELSE entry[i]
    BY <2>1 DEF TypeOK
  <2>3. entry'[j] # None
    BY <2>2 DEF Entry
  <2> QED
    BY <1>1, <2>2, <2>3 DEF Shown
<1>2. CASE j \notin Shown
  BY <1>2 DEF Update, Shown
<1> QED
  BY <1>1, <1>2

LEMMA ClearedHistory ==
    ASSUME TypeOK, HistoryInv, entry' = [j \in Job |-> None], polls' \subseteq polls,
           UNCHANGED <<answers, post, done>>
    PROVE  HistoryInv'
<1>1. Shown' = {}
  BY DEF Shown
<1> QED
  BY <1>1 DEF HistoryInv, ReplyComesFirst, EntriesOfTenant, AnswersFitEntry, EntriesFitJob

\* The reply of a job, or its failure, at most puts an error into its entry.
LEMMA ReplyHandled ==
    ASSUME TypeOK, HistoryInv, NEW j \in Job, post[j].pc \in {"failed", "replied"},
           post' = [post EXCEPT ![j].pc = "over"],
           Update(j, FALSE, ErrorResult) \/ UNCHANGED entry,
           polls' \in {polls, polls \union {j}},
           UNCHANGED <<tenant, answers, done, timedOut>>
    PROVE  HistoryInv'
<1> USE DEF HistoryInv
<1>1. /\ \A i \in Job : /\ post'[i].tenant = post[i].tenant
                        /\ post'[i].rows = post[i].rows
                        /\ i # j => post'[i].pc = post[i].pc
      /\ post'[j].pc = "over"
  BY DEF TypeOK, Post
<1>2. /\ Shown' = Shown
      /\ \A i \in Shown \ {j} : entry'[i] = entry[i]
      /\ j \in Shown => entry'[j] = entry[j] \/ entry'[j].result.kind = "error"
  <2>1. CASE UNCHANGED entry
    BY <2>1 DEF Shown
  <2>2. CASE Update(j, FALSE, ErrorResult)
    <3>1. ErrorResult \in Result /\ ErrorResult.kind = "error"
      BY DEF ErrorResult, Result
    <3>2. /\ Shown' = Shown
          /\ \A i \in Shown \ {j} : entry'[i] = entry[i]
          /\ j \in Shown => entry'[j] = [running |-> FALSE, result |-> ErrorResult]
      BY <2>2, <3>1, UpdateShown, Zenon
    <3> QED
      BY <3>1, <3>2
  <2> QED
    BY <2>1, <2>2
<1>3. ReplyComesFirst'
  BY <1>1, <1>2 DEF ReplyComesFirst, Shown
<1>4. EntriesOfTenant'
  BY <1>1, <1>2 DEF EntriesOfTenant, Shown
<1>5. AnswersFitEntry'
  BY <1>1, <1>2 DEF AnswersFitEntry, Shown, TypeOK, PollAnswer
<1>6. EntriesFitJob'
  BY <1>1, <1>2 DEF EntriesFitJob, Shown
<1> QED
  BY <1>3, <1>4, <1>5, <1>6

LEMMA HistoryStep ==
    TypeOK /\ JobKeepsToRows /\ HistoryInv /\ [Next]_vars => HistoryInv'
<1> SUFFICES ASSUME TypeOK, TypeOK', JobKeepsToRows, HistoryInv, [Next]_vars
             PROVE  HistoryInv'
  BY TypeStep
<1> USE DEF pageVars, ghosts, historyVars, serverVars, agentVars
<1>0. /\ post \in [Job -> Post] /\ post' \in [Job -> Post]
      /\ done \in [Job -> SUBSET Device]
      /\ entry \in [Job -> {None} \union Entry]
  BY DEF TypeOK
<1>1. ASSUME UNCHANGED <<tenant, entry, polls, answers, timedOut, post, done>>
      PROVE  HistoryInv'
  BY <1>0, <1>1, ServerKeepsHistory
<1>2. ASSUME NEW x \in TenantOptions, TenantChange(x) PROVE HistoryInv'
  BY <1>2, ClearedHistory DEF TenantChange
<1>3. CASE ClearHistory
  BY <1>3, ClearedHistory DEF ClearHistory
<1>4. ASSUME NEW j \in Job, NEW mode \in Mode, NEW pick \in Picks, Run(j, mode, pick)
      PROVE  HistoryInv'
  <2>1. /\ \A i \in Job \ {j} : post'[i] = post[i] /\ entry'[i] = entry[i]
        /\ post[j].pc = "idle" /\ post'[j].pc = "posted" /\ post'[j].tenant = tenant
        /\ entry'[j].result.kind = "none"
    BY <1>0, <1>4 DEF Run, NoResult, Post
  <2>2. UNCHANGED <<tenant, polls, answers, timedOut, done>>
    BY <1>4 DEF Run
  <2>3. j \notin polls /\ \A a \in answers : a.job # j
    BY <2>1 DEF HistoryInv, ReplyComesFirst
  <2>4. ReplyComesFirst'
    BY <2>1, <2>2, <2>3 DEF HistoryInv, ReplyComesFirst, Shown
  <2>5. EntriesOfTenant'
    BY <2>1, <2>2 DEF HistoryInv, EntriesOfTenant, Shown
  <2>6. AnswersFitEntry'
    BY <2>1, <2>2, <2>3 DEF HistoryInv, AnswersFitEntry, Shown, TypeOK, PollAnswer
  <2>7. EntriesFitJob'
    BY <2>1, <2>2 DEF HistoryInv, EntriesFitJob, Shown
  <2> QED
    BY <2>4, <2>5, <2>6, <2>7 DEF HistoryInv
<1>5. ASSUME NEW j \in Job, RunFails(j) PROVE HistoryInv'
  BY <1>5, ReplyHandled DEF RunFails
<1>6. ASSUME NEW j \in Job, RunReplied(j) PROVE HistoryInv'
  BY <1>6, ReplyHandled DEF RunReplied
<1>7. ASSUME NEW j \in Job, Poll(j) PROVE HistoryInv'
  <2> DEFINE rows == IF post[j].tenant = tenant THEN post[j].rows ELSE {}
             a == [job |-> j, rows |-> rows, done |-> done[j] \intersect rows]
  <2>1. answers' = answers \union {a} /\ j \in polls
    BY <1>7 DEF Poll
  <2>2. UNCHANGED <<tenant, entry, polls, timedOut, post, done>>
    BY <1>7 DEF Poll
  <2>3. a.job = j /\ a.done \subseteq done[j] /\ (j \in Shown => a.rows = post[j].rows)
    BY DEF HistoryInv, EntriesOfTenant
  <2> HIDE DEF a
  <2>4. ReplyComesFirst'
    BY <2>1, <2>2, <2>3 DEF HistoryInv, ReplyComesFirst, Shown
  <2>5. AnswersFitEntry'
    BY <2>1, <2>2, <2>3 DEF HistoryInv, AnswersFitEntry, Shown
  <2>6. EntriesOfTenant' /\ EntriesFitJob'
    BY <2>2 DEF HistoryInv, EntriesOfTenant, EntriesFitJob, Shown
  <2> QED
    BY <2>4, <2>5, <2>6 DEF HistoryInv
<1>8. ASSUME NEW a \in answers, PollAnswered(a) PROVE HistoryInv'
  <2>1. a.job \in Job /\ post[a.job].pc = "over"
    BY DEF HistoryInv, ReplyComesFirst, TypeOK, PollAnswer
  <2>2. /\ UNCHANGED <<tenant, timedOut, post, done>>
        /\ answers' \subseteq answers /\ polls' \subseteq polls
    BY <1>8 DEF PollAnswered
  <2>3. /\ Shown' = Shown
        /\ \A i \in Shown :
             IF i = a.job
             THEN /\ entry'[i].running = ~AllDone(a)
                  /\ entry'[i].result = [kind |-> "rows", rows |-> a.rows, done |-> a.done]
             ELSE entry'[i] = entry[i]
    <3>1. [kind |-> "rows", rows |-> a.rows, done |-> a.done] \in Result
      BY DEF TypeOK, PollAnswer, Result
    <3>2. Update(a.job, ~AllDone(a), [kind |-> "rows", rows |-> a.rows, done |-> a.done])
      BY <1>8 DEF PollAnswered
    <3>3. (~AllDone(a)) \in BOOLEAN
      BY DEF AllDone
    <3> DEFINE result == [kind |-> "rows", rows |-> a.rows, done |-> a.done]
    <3> HIDE DEF result
    <3>4. /\ Shown' = Shown
          /\ \A i \in Shown \ {a.job} : entry'[i] = entry[i]
          /\ a.job \in Shown => entry'[a.job] = [running |-> ~AllDone(a), result |-> result]
      BY <2>1, <3>1, <3>2, <3>3, UpdateShown, Zenon DEF result
    <3>5. /\ [running |-> ~AllDone(a), result |-> result].running = ~AllDone(a)
          /\ [running |-> ~AllDone(a), result |-> result].result = result
      OBVIOUS
    <3>6. a.job \in Shown => entry'[a.job].running = ~AllDone(a) /\ entry'[a.job].result = result
      BY <3>4, <3>5, Zenon
    <3> QED
      BY <3>4, <3>6 DEF result
  <2>4. ReplyComesFirst'
    BY <2>1, <2>2, <2>3 DEF HistoryInv, ReplyComesFirst, Shown
  <2>5. AnswersFitEntry'
    BY <2>2, <2>3 DEF HistoryInv, AnswersFitEntry
  <2>6. EntriesOfTenant'
    BY <2>2, <2>3 DEF HistoryInv, EntriesOfTenant
  <2>7. EntriesFitJob'
    <3> SUFFICES ASSUME NEW i \in Shown', entry'[i].result.kind = "rows"
                 PROVE  /\ entry'[i].result.rows = post[i].rows
                        /\ entry'[i].result.done \subseteq done[i]
                        /\ ~entry'[i].running /\ i \notin timedOut =>
                              entry'[i].result.rows \subseteq entry'[i].result.done
      BY <2>2 DEF EntriesFitJob
    <3>1. CASE i = a.job
      <4>1. a.job \in Shown
        BY <2>3, <3>1
      <4>2. a.rows = post[i].rows /\ a.done \subseteq done[i]
        BY <3>1, <4>1 DEF HistoryInv, AnswersFitEntry
      <4> QED
        <5>1. entry'[i].result.rows = a.rows /\ entry'[i].result.done = a.done
          BY <2>3, <3>1, <4>1
        <5>2. entry'[i].running = ~AllDone(a)
          BY <2>3, <3>1, <4>1
        <5>3. ~entry'[i].running => a.rows \subseteq a.done
          BY <5>2 DEF AllDone
        <5> QED
          BY <4>2, <5>1, <5>3
    <3>2. CASE i # a.job
      BY <2>3, <3>2 DEF HistoryInv, EntriesFitJob
    <3> QED
      BY <3>1, <3>2
  <2> QED
    BY <2>4, <2>5, <2>6, <2>7 DEF HistoryInv
<1>9. ASSUME NEW j \in Job, GiveUp(j) PROVE HistoryInv'
  <2>1. /\ UNCHANGED <<tenant, answers, post, done>>
        /\ timedOut' = timedOut \union {j} /\ polls' \subseteq polls
    BY <1>9 DEF GiveUp
  <2>2. /\ Shown' = Shown
        /\ \A i \in Shown : /\ entry'[i].result = entry[i].result
                            /\ i # j => entry'[i] = entry[i]
    <3>1. CASE j \in Shown
      <4>1. entry' = [entry EXCEPT ![j].running = FALSE] /\ entry[j] \in Entry
        BY <1>0, <1>9, <3>1 DEF GiveUp, Shown
      <4>2. [entry[j] EXCEPT !.running = FALSE] \in Entry
        BY <4>1 DEF Entry
      <4>3. \A i \in Job : entry'[i] = IF i = j THEN [entry[j] EXCEPT !.running = FALSE]
                                       ELSE entry[i]
        BY <1>0, <4>1
      <4>4. Shown' = Shown
        BY <3>1, <4>2, <4>3 DEF Shown
      <4>5. [entry[j] EXCEPT !.running = FALSE].result = entry[j].result
        BY <4>1 DEF Entry
      <4> QED
        BY <4>3, <4>4, <4>5 DEF Shown
    <3>2. CASE j \notin Shown
      BY <1>9, <3>2 DEF GiveUp, Shown
    <3> QED
      BY <3>1, <3>2
  <2>3. ReplyComesFirst'
    BY <2>1, <2>2 DEF HistoryInv, ReplyComesFirst, Shown
  <2>4. EntriesOfTenant' /\ AnswersFitEntry'
    BY <2>1, <2>2 DEF HistoryInv, EntriesOfTenant, AnswersFitEntry
  <2>5. EntriesFitJob'
    BY <2>1, <2>2 DEF HistoryInv, EntriesFitJob
  <2> QED
    BY <2>3, <2>4, <2>5 DEF HistoryInv
<1>10. ASSUME NEW j \in Job, ExecStep(j) \/ LoseReply(j) PROVE HistoryInv'
  <2>1. UNCHANGED <<tenant, entry, polls, answers, timedOut>>
    BY <1>10 DEF ExecStep, Refuse, EnterRows, FanOut, Reply, MarkUnsent, LoseReply
  <2>2. \A i \in Job : /\ post'[i].tenant = post[i].tenant
                       /\ post[i].pc = "over" => post'[i] = post[i]
                       /\ post[i].pc # "idle" => post'[i].pc # "idle"
    BY <1>0, <1>10 DEF ExecStep, Refuse, EnterRows, FanOut, Reply, MarkUnsent, LoseReply, Post
  <2>3. \A i \in Job : done[i] \subseteq done'[i]
    BY <1>0, <1>10 DEF ExecStep, Refuse, EnterRows, FanOut, Reply, MarkUnsent, LoseReply
  <2> QED
    BY <1>0, <2>1, <2>2, <2>3, ServerKeepsHistory
<1>11. ASSUME NEW j \in Job, NEW d \in Device, AgentDone(j, d) PROVE HistoryInv'
  <2>1. UNCHANGED <<tenant, entry, polls, answers, timedOut, post>>
    BY <1>11 DEF AgentDone
  <2>2. \A i \in Job : done[i] \subseteq done'[i]
    BY <1>0, <1>11 DEF AgentDone
  <2> QED
    BY <1>0, <2>1, <2>2, ServerKeepsHistory
<1> QED
  BY <1>1, <1>2, <1>3, <1>4, <1>5, <1>6, <1>7, <1>8, <1>9, <1>10, <1>11
     DEF Next, vars, JobEnds, ListsLoaded, LoseAgent, AgentReturns

-----------------------------------------------------------------------------
(* The theorems *)

LEMMA Invariant == Spec => [](TypeOK /\ TerminalInv)
<1>1. TypeOK /\ TerminalInv /\ [Next]_vars => TypeOK' /\ TerminalInv'
  BY TypeStep, RowsStep, HistoryStep DEF TerminalInv, HistoryInv
<1> QED
  BY TypeInit, InvInit, <1>1, PTL DEF Spec

\* History never holds a command of another tenant, however late a reply arrives.
THEOREM HistoryCorrect == Spec => []EntriesOfTenant
<1>1. TerminalInv => EntriesOfTenant
  BY DEF TerminalInv
<1> QED
  BY <1>1, Invariant, PTL

\* No agent of another tenant executes a command or has a result for it.
THEOREM CommandsCorrect == Spec => []CommandStaysInTenant
<1>1. TypeOK /\ TerminalInv => CommandStaysInTenant
  BY DEF TerminalInv, JobKeepsToRows, CommandStaysInTenant
<1> QED
  BY <1>1, Invariant, PTL

\* Whatever overtakes what, an entry shows the devices of its job as they are, and stops
\* before its time is over only when all have finished.
THEOREM ResultsCorrect == Spec => []FinishedShowsAll
<1>1. TypeOK /\ TerminalInv => FinishedShowsAll
  BY DEF TerminalInv, EntriesFitJob, FinishedShowsAll, DeviceView, Shown
<1> QED
  BY <1>1, Invariant, PTL

=============================================================================
