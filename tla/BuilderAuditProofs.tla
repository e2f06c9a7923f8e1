------------------------- MODULE BuilderAuditProofs -------------------------
(***************************************************************************)
(* Proofs about ClientBuilder and about ConnectionAudit, two parts of      *)
(* plus-api that share no state.                                           *)
(*                                                                         *)
(* The builder: type correctness; that a tenant is offered an executable   *)
(* under one of its own names, a complete one unless its builds overlap;   *)
(* and that it was built for that tenant if names tell tenants apart.      *)
(*                                                                         *)
(* The audit, for any devices, connections, transactions and bounds: type  *)
(* correctness, one row for a connection, that what a client was told      *)
(* stands in the table, that no launch is wasted and that a closed row     *)
(* stays as it is.                                                         *)
(***************************************************************************)
EXTENDS ClientBuilder, ConnectionAudit, SequenceTheorems, TLAPS

USE TaskAssumption

-----------------------------------------------------------------------------
(* Type correctness *)

\* Whatever is built has a branding.
HasBrand ==
    /\ \A k \in Task : pc(k) # "idle" => task[k].brand # NoBrand /\ brand[k[1]] # NoBrand
    /\ \A t \in Tenant : build[t] # "idle" => brand[t] # NoBrand

LEMMA ZeroRun == 0 \in RunId
BY BoundAssumption DEF RunId

LEMMA IdleType == IdleTask \in TaskState
BY ZeroRun DEF IdleTask, TaskState, Step

\* What a step of a task makes of the tasks
LEMMA TaskMoves ==
    ASSUME TypeOK, NEW k \in Task, TaskStep(k)
    PROVE  \E x \in TaskState :
              /\ task' = [task EXCEPT ![k] = x]
              /\ x.pc # "idle" => x.brand = task[k].brand
              /\ pc(k) # "idle"
<1>1. task[k] \in TaskState /\ Latest \in RunId
  <2>1. task[k] \in TaskState
    BY DEF TypeOK
  <2>2. Latest \in RunId
    BY LenProperties, BoundAssumption DEF TypeOK, Latest, RunId
  <2> QED
    BY <2>1, <2>2
<1>2. CASE ListRuns(k)
  <2>1. PICK before \in {Latest} \union (IF ListingLags THEN {0} ELSE {}) :
            task' = [task EXCEPT ![k].pc = "post", ![k].before = before]
    BY <1>2 DEF ListRuns
  <2>2. before \in RunId
    BY <2>1, <1>1, ZeroRun
  <2> DEFINE x == [task[k] EXCEPT !.pc = "post", !.before = before]
  <2>3. x \in TaskState /\ x.brand = task[k].brand
    BY <1>1, <2>2 DEF TaskState, Step
  <2>4. task' = [task EXCEPT ![k] = x]
    BY <2>1
  <2>5. pc(k) # "idle"
    BY <1>2 DEF ListRuns
  <2> QED
    BY <2>3, <2>4, <2>5
<1>3. CASE FindRun(k) /\ ~Fail(k)
  <2> DEFINE x == [task[k] EXCEPT !.pc = "record", !.before = 0, !.run = Latest]
  <2>1. x \in TaskState /\ x.brand = task[k].brand
    BY <1>1, ZeroRun DEF TaskState, Step
  <2>2. task' = [task EXCEPT ![k] = x]
    BY <1>3 DEF FindRun
  <2>3. pc(k) # "idle"
    BY <1>3 DEF FindRun
  <2> QED
    BY <2>1, <2>2, <2>3
<1>4. CASE /\ PostDispatch(k) \/ RecordRun(k) \/ PollRun(k) \/ Download(k) \/ WriteFile(k)
           /\ ~Fail(k)
  <2>1. PICK step \in Step : task' = [task EXCEPT ![k].pc = step]
    BY <1>4 DEF PostDispatch, RecordRun, PollRun, Download, WriteFile, Goto, Step
  <2> DEFINE x == [task[k] EXCEPT !.pc = step]
  <2>2. pc(k) # "idle"
    BY <1>4 DEF PostDispatch, RecordRun, PollRun, Download, WriteFile
  <2>3. x \in TaskState /\ x.brand = task[k].brand
    BY <1>1 DEF TaskState
  <2> QED
    BY <2>1, <2>2, <2>3
<1>5. CASE MarkReady(k) \/ MarkFailed(k)
  BY <1>5, IdleType DEF MarkReady, MarkFailed, IdleTask
<1>6. CASE Fail(k) /\ ~MarkReady(k) /\ ~MarkFailed(k)
  <2> DEFINE x == [IdleTask EXCEPT !.pc = "fail", !.brand = task[k].brand]
  <2>1. x \in TaskState /\ x.brand = task[k].brand
    BY <1>1, ZeroRun DEF IdleTask, TaskState, Step
  <2>2. task' = [task EXCEPT ![k] = x]
    BY <1>6 DEF Fail
  <2>3. pc(k) # "idle"
    BY <1>6 DEF TaskStep, ListRuns, PostDispatch, FindRun, RecordRun, PollRun, Download, WriteFile
  <2> QED
    BY <2>1, <2>2, <2>3
<1> QED
  BY <1>2, <1>3, <1>4, <1>5, <1>6 DEF TaskStep

LEMMA TaskStepType ==
    ASSUME TypeOK, HasBrand, NEW k \in Task, TaskStep(k)
    PROVE  TypeOK' /\ HasBrand'
<1> USE DEF rowVars, fileVars, githubVars
<1>1. k[1] \in Tenant /\ task[k] \in TaskState /\ task[k].run \in RunId
      /\ task[k].brand \in Brand \union {NoBrand}
  BY DEF TypeOK, TaskState
<1>2. PICK x \in TaskState : /\ task' = [task EXCEPT ![k] = x]
                             /\ x.pc # "idle" => x.brand = task[k].brand
                             /\ pc(k) # "idle"
  BY TaskMoves
<1>3. task' \in [Task -> TaskState]
      /\ \A l \in Task : pc(l)' # "idle" => task'[l].brand # NoBrand /\ brand[l[1]] # NoBrand
  BY <1>2 DEF TypeOK, HasBrand, pc
<1>4. UNCHANGED <<brand, resuming, crashes, github, overlapped>>
  BY DEF TaskStep, ListRuns, PostDispatch, FindRun, RecordRun, PollRun, Download, WriteFile,
         MarkReady, MarkFailed
<1>5. posted' \in Seq(Dispatch) /\ Len(github) + Len(posted') <= MaxRuns
  <2>1. CASE posted' = posted
    BY <2>1 DEF TypeOK
  <2>2. CASE PostDispatch(k) /\ posted' # posted
    <3> DEFINE d == [tenant |-> k[1], brand |-> task[k].brand]
    <3>1. d \in Dispatch
      BY <1>1, <1>2 DEF HasBrand, Dispatch
    <3>2. posted' = Append(posted, d) /\ Len(github) + Len(posted) < MaxRuns
      BY <2>2 DEF PostDispatch
    <3>3. posted' \in Seq(Dispatch) /\ Len(posted') = Len(posted) + 1
      BY <3>1, <3>2, AppendProperties DEF TypeOK
    <3> QED
      BY <3>2, <3>3, LenProperties, BoundAssumption DEF TypeOK
  <2> QED
    BY <2>1, <2>2
       DEF TaskStep, ListRuns, PostDispatch, FindRun, RecordRun, PollRun, Download, WriteFile,
           MarkReady, MarkFailed
<1>6. /\ build' \in [Tenant -> {"idle", "queued", "building", "ready", "failed"}]
      /\ \A t \in Tenant : build[t]' # "idle" => brand[t] # NoBrand
  <2>1. build' = build \/ \E b \in {"building", "ready", "failed"} :
                              build' = [build EXCEPT ![k[1]] = b]
    BY DEF TaskStep, ListRuns, PostDispatch, FindRun, RecordRun, PollRun, Download, WriteFile,
           MarkReady, MarkFailed
  <2>2. brand[k[1]] # NoBrand
    BY <1>2 DEF HasBrand
  <2> QED
    BY <2>1, <2>2, <1>1 DEF TypeOK, HasBrand
<1>7. buildRun' \in [Tenant -> RunId] /\ file' \in [Tenant -> RunId] /\ torn' \subseteq Tenant
  BY <1>1 DEF TypeOK, TaskStep, ListRuns, PostDispatch, FindRun, RecordRun, PollRun, Download,
              WriteFile, MarkReady, MarkFailed
<1> QED
  BY <1>3, <1>4, <1>5, <1>6, <1>7 DEF TypeOK, HasBrand

\* The task a new build gets
LEMMA SpareIsFree ==
    ASSUME NEW t \in Tenant, Room(t)
    PROVE  Spare(t) \in Free(t)
<1>1. \E s \in Free(t) : TRUE
  BY DEF Room
<1> QED
  BY <1>1 DEF Spare

LEMMA TypeStep == TypeOK /\ HasBrand /\ [Next]_vars => (TypeOK /\ HasBrand)'
<1> SUFFICES ASSUME TypeOK, HasBrand, [Next]_vars
             PROVE  TypeOK' /\ HasBrand'
  OBVIOUS
<1> USE DEF TypeOK, HasBrand, pc, rowVars, fileVars, githubVars
<1>1. ASSUME NEW t \in Tenant, NEW b \in Brand, SaveBranding(t, b) PROVE TypeOK' /\ HasBrand'
  BY <1>1, BrandAssumption DEF SaveBranding
<1>2. ASSUME NEW t \in Tenant, TriggerBuild(t) PROVE TypeOK' /\ HasBrand'
  <2> DEFINE s == Spare(t)
  <2>1. task' = [task EXCEPT ![<<t, s>>] = [IdleTask EXCEPT !.pc = "list", !.brand = brand[t]]]
    BY <1>2 DEF TriggerBuild
  <2> DEFINE new == [IdleTask EXCEPT !.pc = "list", !.brand = brand[t]]
  <2>2. new \in TaskState /\ new.brand = brand[t]
    BY IdleType, ZeroRun DEF IdleTask, TaskState, Step
  <2>3. task' = [task EXCEPT ![<<t, s>>] = new] /\ brand[t] # NoBrand /\ brand' = brand
    BY <1>2, <2>1 DEF TriggerBuild
  <2>4. <<t, s>> \in Task
    BY <1>2, SpareIsFree DEF TriggerBuild, Free
  <2> HIDE DEF new, s
  <2>5. task' \in [Task -> TaskState]
    BY <2>2, <2>3, <2>4
  <2>6. \A l \in Task : task'[l] = IF l = <<t, s>> THEN new ELSE task[l]
    BY <2>3
  <2>7. HasBrand'
    BY <1>2, <2>2, <2>3, <2>6 DEF TriggerBuild
  <2> QED
    BY <1>2, <2>5, <2>7 DEF TriggerBuild
<1>3. ASSUME NEW k \in Task, TaskStep(k) PROVE TypeOK' /\ HasBrand'
  BY <1>3, TaskStepType
<1>4. CASE Crash
  <2>1. task' \in [Task -> TaskState] /\ \A l \in Task : pc(l)' = "idle"
    BY <1>4, IdleType, BoundAssumption DEF Crash, IdleTask, TaskState, Step, RunId
  <2> QED
    BY <1>4, <2>1, BoundAssumption DEF Crash
<1>5. CASE ResumeBuilds
  <2> DEFINE Poll(k) ==
        [IdleTask EXCEPT !.pc = "poll", !.brand = brand[k[1]], !.run = buildRun[k[1]]]
  <2>1. \A k \in Task : task'[k] = task[k] \/ (k[1] \in Resumed /\ task'[k] = Poll(k))
    BY <1>5 DEF ResumeBuilds
  <2>2. \A k \in Task : k[1] \in Tenant /\ Poll(k) \in TaskState /\ Poll(k).brand = brand[k[1]]
    BY ZeroRun DEF IdleTask, TaskState, Step
  <2> HIDE DEF Poll
  <2>3. task' \in [Task -> TaskState]
    <3>1. task' = [k \in Task |-> task'[k]]
      BY <1>5 DEF ResumeBuilds
    <3>2. \A k \in Task : task'[k] \in TaskState
      BY <2>1, <2>2
    <3> QED
      BY <3>1, <3>2
  <2>4. \A k \in Task : pc(k)' # "idle" => task'[k].brand # NoBrand /\ brand[k[1]] # NoBrand
    BY <2>1, <2>2 DEF Resumed, Pending
  <2> QED
    BY <1>5, <2>3, <2>4 DEF ResumeBuilds
<1>6. CASE RunAppears
  <2>1. Head(posted) \in Dispatch /\ Tail(posted) \in Seq(Dispatch)
        /\ Len(Tail(posted)) = Len(posted) - 1
    BY <1>6, HeadTailProperties DEF RunAppears
  <2> DEFINE new == [tenant |-> Head(posted).tenant, brand |-> Head(posted).brand,
                     state |-> "running"]
  <2>2. new \in Run
    BY <2>1 DEF Dispatch, Run
  <2>3. github' \in Seq(Run) /\ Len(github') = Len(github) + 1
    BY <1>6, <2>2, AppendProperties DEF RunAppears
  <2> QED
    BY <1>6, <2>1, <2>3, LenProperties, BoundAssumption DEF RunAppears
<1>7. ASSUME NEW r \in DOMAIN github, RunSucceeds(r) PROVE TypeOK' /\ HasBrand'
  <2>1. github' = [github EXCEPT ![r] = [github[r] EXCEPT !.state = "success"]]
    BY <1>7 DEF RunSucceeds
  <2>2. r \in 1..Len(github) /\ [github[r] EXCEPT !.state = "success"] \in Run
    <3>1. r \in 1..Len(github)
      BY LenProperties
    <3>2. github[r] \in Run
      BY <3>1, ElementOfSeq
    <3> QED
      BY <3>1, <3>2 DEF Run
  <2>3. github' \in Seq(Run) /\ Len(github') = Len(github)
    BY <2>1, <2>2, ExceptSeq
  <2> QED
    BY <1>7, <2>3 DEF RunSucceeds
<1>8. CASE UNCHANGED vars \/ SkipResume
  BY <1>8 DEF vars, SkipResume
<1> QED
  BY <1>1, <1>2, <1>3, <1>4, <1>5, <1>6, <1>7, <1>8 DEF Next, ResumePending

LEMMA InitType == Init => TypeOK /\ HasBrand
<1> SUFFICES ASSUME Init PROVE TypeOK /\ HasBrand
  OBVIOUS
<1>1. task \in [Task -> TaskState] /\ \A k \in Task : pc(k) = "idle"
  BY IdleType DEF Init, IdleTask, pc
<1>2. posted \in Seq(Dispatch) /\ github \in Seq(Run) /\ Len(github) + Len(posted) <= MaxRuns
  BY EmptySeq, BoundAssumption DEF Init
<1>3. crashes \in 0..MaxCrashes
  BY BoundAssumption DEF Init
<1>4. HasBrand
  BY <1>1 DEF Init, HasBrand
<1> QED
  BY <1>1, <1>2, <1>3, <1>4, ZeroRun DEF Init, TypeOK

\* Every value of every variable has its type, overlapping builds or not.
THEOREM TypeCorrect == Spec => []TypeOK
BY InitType, TypeStep, PTL DEF Spec

-----------------------------------------------------------------------------
(* A tenant is offered only complete executables under its own names *)

Listed(r) == r \in 1..Len(github)

\* A task that does not overlap another is alone in working for its tenant, whose
\* build is pending, and leaves a whole file.
Alone(k) ==
    /\ Pending(k[1]) /\ resuming # "due"
    /\ \A l \in Task : pc(l) # "idle" /\ l[1] = k[1] => l = k
    /\ pc(k) = "ready" => k[1] \notin torn

\* A task follows a run that exists and, past the test of the artifact's name, one
\* with a name of its tenant; before it says so there is a file.
Sound(k) ==
    /\ pc(k) \in {"record", "poll", "download", "write", "ready"} => Listed(task[k].run)
    /\ pc(k) \in {"write", "ready"} => Named(k[1], task[k].run)
    /\ pc(k) = "ready" => file[k[1]] # 0
    /\ k[1] \notin overlapped => Alone(k)

TasksSound == \A k \in Task : pc(k) # "idle" => Sound(k)

RowsFollowRuns ==
    \A t \in Tenant : buildRun[t] <= Len(github) /\ file[t] <= Len(github)

FilesNamed == \A t \in Tenant : file[t] # 0 => Named(t, file[t])

BuildInv == TasksSound /\ RowsFollowRuns /\ FilesNamed /\ ReadyIsOwn

LEMMA GithubIsFunction ==
    ASSUME TypeOK
    PROVE  /\ Len(github) \in Nat /\ DOMAIN github = 1..Len(github)
           /\ \A r \in 1..Len(github) : github[r] \in Run
BY LenProperties, ElementOfSeq DEF TypeOK

\* Names stay while the list of runs does.
LEMMA NamesKeep ==
    ASSUME github' = github
    PROVE  \A t, r : Named(t, r)' <=> Named(t, r)
BY DEF Named, ArtifactName

\* A step of a task leaves the other tasks alone.
LEMMA OthersKeep ==
    ASSUME TypeOK, TasksSound, NEW k \in Task, pc(k) # "idle", NEW x,
           task' = [task EXCEPT ![k] = x]
    PROVE  /\ k[1] \in Tenant /\ Sound(k) /\ task'[k] = x
           /\ \A l \in Task : l # k => task'[l] = task[l]
           /\ \A l \in Task : l[1] \in Tenant
           /\ \A l \in Task : /\ l # k /\ pc(l) # "idle"
                              /\ k[1] \notin overlapped \/ l[1] \notin overlapped
                              => l[1] # k[1]
<1>1. k[1] \in Tenant /\ Sound(k) /\ \A l \in Task : l[1] \in Tenant
  BY DEF TasksSound
<1>2. task'[k] = x /\ \A l \in Task : l # k => task'[l] = task[l]
  BY DEF TypeOK
<1>3. ASSUME NEW l \in Task, l # k, pc(l) # "idle",
             k[1] \notin overlapped \/ l[1] \notin overlapped
      PROVE  l[1] # k[1]
  <2>1. Sound(l)
    BY <1>3 DEF TasksSound
  <2> QED
    BY <1>1, <1>3, <2>1 DEF Sound, Alone
<1> QED
  BY <1>1, <1>2, <1>3

\* What a step of task k has to leave for the other tasks: their rows while they are alone,
\* and their files.
LEMMA OthersSound ==
    ASSUME TypeOK, TasksSound, NEW k \in Task, pc(k) # "idle", NEW x,
           task' = [task EXCEPT ![k] = x],
           \A t \in Tenant : t # k[1] => /\ build'[t] = build[t]
                                         /\ t \in torn' => t \in torn,
           \A t \in Tenant : file[t] # 0 => file'[t] # 0,
           UNCHANGED <<github, resuming, overlapped>>
    PROVE  \A l \in Task : l # k /\ pc(l)' # "idle" => Sound(l)'
<1> SUFFICES ASSUME NEW l \in Task, l # k, pc(l)' # "idle"
             PROVE  Sound(l)'
  OBVIOUS
<1>1. /\ k[1] \in Tenant /\ Sound(k) /\ task'[k] = x
      /\ \A m \in Task : m # k => task'[m] = task[m]
      /\ \A m \in Task : m[1] \in Tenant
      /\ \A m \in Task : /\ m # k /\ pc(m) # "idle"
                         /\ k[1] \notin overlapped \/ m[1] \notin overlapped
                         => m[1] # k[1]
  BY OthersKeep
<1>2. task'[l] = task[l] /\ pc(l) # "idle" /\ pc(l)' = pc(l) /\ Sound(l)
  BY <1>1 DEF TasksSound, pc
<1>3. Listed(task'[l].run) <=> Listed(task[l].run)
  BY <1>2
<1>4. Listed(task[l].run)' <=> Listed(task[l].run)
  BY <1>2 DEF Listed
<1>5. Named(l[1], task[l].run)' <=> Named(l[1], task[l].run)
  BY <1>2 DEF Named, ArtifactName
<1>6. file[l[1]] # 0 => file'[l[1]] # 0
  BY <1>1
<1>7. ASSUME l[1] \notin overlapped PROVE Alone(l)'
  <2>1. l[1] # k[1] /\ Alone(l)
    BY <1>1, <1>2, <1>7 DEF Sound
  <2>2. build'[l[1]] = build[l[1]] /\ (l[1] \in torn' => l[1] \in torn)
    BY <1>1, <2>1
  <2>3. \A m \in Task : pc(m)' # "idle" /\ m[1] = l[1] => m = l
    BY <1>1, <2>1 DEF Alone, pc
  <2> QED
    BY <1>2, <2>1, <2>2, <2>3 DEF Alone, Pending
<1> QED
  BY <1>2, <1>4, <1>5, <1>6, <1>7 DEF Sound

\* A task that is alone stays alone while its build is pending and its file whole.
LEMMA StaysAlone ==
    ASSUME TypeOK, TasksSound, NEW k \in Task, pc(k) # "idle", NEW x,
           task' = [task EXCEPT ![k] = x],
           build'[k[1]] \in {build[k[1]], "building"},
           x.pc = "ready" => k[1] \notin torn',
           UNCHANGED <<resuming, overlapped>>,
           k[1] \notin overlapped
    PROVE  Alone(k)'
<1>1. /\ k[1] \in Tenant /\ Sound(k) /\ task'[k] = x
      /\ \A m \in Task : m # k => task'[m] = task[m]
  BY OthersKeep
<1>2. Alone(k)
  BY <1>1 DEF Sound
<1>3. \A m \in Task : pc(m)' # "idle" /\ m[1] = k[1] => m = k
  BY <1>1, <1>2 DEF Alone, pc
<1>4. Pending(k[1])'
  BY <1>2 DEF Alone, Pending
<1> QED
  BY <1>1, <1>2, <1>3, <1>4 DEF Alone, pc

\* The steps of a task that change neither the row nor the file nor the list of runs
LEMMA QuietMove ==
    ASSUME TypeOK, BuildInv, NEW k \in Task, pc(k) # "idle", NEW x,
           task' = [task EXCEPT ![k] = x],
           x.pc \notin {"write", "ready"},
           x.pc \in {"record", "poll", "download"} => Listed(x.run),
           UNCHANGED <<build, buildRun, file, torn, github, resuming, overlapped>>
    PROVE  BuildInv'
<1>1. TasksSound
  BY DEF BuildInv
<1>2. task'[k] = x
  BY <1>1, OthersKeep
<1>3. Sound(k)'
  <2>1. k[1] \notin overlapped => Alone(k)'
    BY <1>1, StaysAlone
  <2> QED
    BY <1>2, <2>1 DEF Sound, Listed, pc
<1>4. \A l \in Task : l # k /\ pc(l)' # "idle" => Sound(l)'
  BY <1>1, OthersSound
<1>5. TasksSound'
  BY <1>3, <1>4 DEF TasksSound
<1>6. RowsFollowRuns' /\ FilesNamed' /\ ReadyIsOwn'
  BY NamesKeep DEF BuildInv, RowsFollowRuns, FilesNamed, ReadyIsOwn
<1> QED
  BY <1>5, <1>6 DEF BuildInv

LEMMA RecordStepInv ==
    ASSUME TypeOK, BuildInv, NEW k \in Task, RecordRun(k)
    PROVE  BuildInv'
<1> DEFINE x == [task[k] EXCEPT !.pc = "poll"]
<1>1. /\ pc(k) = "record" /\ task' = [task EXCEPT ![k] = x] /\ TasksSound
      /\ build' = [build EXCEPT ![k[1]] = "building"]
      /\ buildRun' = [buildRun EXCEPT ![k[1]] = task[k].run]
      /\ UNCHANGED <<file, torn, github, resuming, overlapped>>
  BY DEF RecordRun, Goto, fileVars, githubVars, BuildInv
<1>2. k[1] \in Tenant /\ Sound(k) /\ task'[k] = x
  BY <1>1, OthersKeep
<1>3. x.pc = "poll" /\ x.run = task[k].run /\ Listed(task[k].run)
  BY <1>1, <1>2 DEF Sound, TypeOK, TaskState
<1>4. build'[k[1]] = "building" /\ \A t \in Tenant : t # k[1] => build'[t] = build[t]
  BY <1>1, <1>2 DEF TypeOK
<1> HIDE DEF x
<1>5. Sound(k)'
  <2>1. k[1] \notin overlapped => Alone(k)'
    BY <1>1, <1>3, <1>4, StaysAlone
  <2> QED
    BY <1>1, <1>2, <1>3, <2>1 DEF Sound, Listed, pc
<1>6. \A l \in Task : l # k /\ pc(l)' # "idle" => Sound(l)'
  BY <1>1, <1>4, OthersSound
<1>7. TasksSound'
  BY <1>5, <1>6 DEF TasksSound
<1>8. RowsFollowRuns'
  <2>1. \A t \in Tenant : buildRun'[t] = IF t = k[1] THEN task[k].run ELSE buildRun[t]
    BY <1>1, <1>2 DEF TypeOK
  <2>2. task[k].run <= Len(github)
    BY <1>3, GithubIsFunction DEF Listed
  <2> QED
    BY <1>1, <2>1, <2>2 DEF BuildInv, RowsFollowRuns
<1>9. FilesNamed' /\ ReadyIsOwn'
  BY <1>1, <1>4, NamesKeep DEF BuildInv, FilesNamed, ReadyIsOwn
<1> QED
  BY <1>7, <1>8, <1>9 DEF BuildInv

LEMMA DownloadStepInv ==
    ASSUME TypeOK, HasBrand, BuildInv, NEW k \in Task, Download(k), ~Fail(k)
    PROVE  BuildInv'
<1> DEFINE x == [task[k] EXCEPT !.pc = "write"]
<1>1. /\ pc(k) = "download" /\ task' = [task EXCEPT ![k] = x] /\ TasksSound
      /\ ArtifactName(task[k].run) = FileName[<<k[1], task[k].brand>>]
      /\ torn' = torn \union {k[1]}
      /\ UNCHANGED <<build, buildRun, file, github, resuming, overlapped>>
  BY DEF Download, Goto, rowVars, githubVars, BuildInv
<1>2. k[1] \in Tenant /\ Sound(k) /\ task'[k] = x
  BY <1>1, OthersKeep
<1>3. x.pc = "write" /\ x.run = task[k].run /\ Listed(task[k].run)
  BY <1>1, <1>2 DEF Sound, TypeOK, TaskState
<1>4. Named(k[1], task[k].run)
  <2>1. task[k].brand \in Brand
    BY <1>1 DEF TypeOK, HasBrand, TaskState
  <2> QED
    BY <1>1, <2>1 DEF Named
<1> HIDE DEF x
<1>5. Sound(k)'
  <2>1. k[1] \notin overlapped => Alone(k)'
    BY <1>1, <1>3, StaysAlone
  <2>2. Named(k[1], task[k].run)'
    BY <1>1, <1>3, <1>4, <1>2 DEF Named, ArtifactName
  <2> QED
    BY <1>1, <1>2, <1>3, <2>1, <2>2 DEF Sound, Listed, pc
<1>6. \A l \in Task : l # k /\ pc(l)' # "idle" => Sound(l)'
  BY <1>1, OthersSound
<1>7. TasksSound'
  BY <1>5, <1>6 DEF TasksSound
<1>8. RowsFollowRuns' /\ FilesNamed'
  BY <1>1, NamesKeep DEF BuildInv, RowsFollowRuns, FilesNamed
<1>9. ReadyIsOwn'
  <2>1. k[1] \notin overlapped => build[k[1]] # "ready"
    BY <1>2 DEF Sound, Alone, Pending
  <2> QED
    BY <1>1, <2>1, NamesKeep DEF BuildInv, ReadyIsOwn
<1> QED
  BY <1>7, <1>8, <1>9 DEF BuildInv

LEMMA WriteStepInv ==
    ASSUME TypeOK, BuildInv, NEW k \in Task, WriteFile(k), ~Fail(k)
    PROVE  BuildInv'
<1> DEFINE x == [task[k] EXCEPT !.pc = "ready"]
<1>1. /\ pc(k) = "write" /\ task' = [task EXCEPT ![k] = x] /\ TasksSound
      /\ file' = [file EXCEPT ![k[1]] = task[k].run]
      /\ torn' = torn \ {k[1]}
      /\ UNCHANGED <<build, buildRun, github, resuming, overlapped>>
  BY DEF WriteFile, Goto, rowVars, githubVars, BuildInv
<1>2. k[1] \in Tenant /\ Sound(k) /\ task'[k] = x
  BY <1>1, OthersKeep
<1>3. /\ x.pc = "ready" /\ x.run = task[k].run /\ Listed(task[k].run)
      /\ Named(k[1], task[k].run)
  BY <1>1, <1>2 DEF Sound, TypeOK, TaskState
<1>4. task[k].run # 0
  BY <1>3, GithubIsFunction DEF Listed
<1>5. \A t \in Tenant : file'[t] = IF t = k[1] THEN task[k].run ELSE file[t]
  BY <1>1, <1>2 DEF TypeOK
<1> HIDE DEF x
<1>6. Sound(k)'
  <2>1. k[1] \notin overlapped => Alone(k)'
    BY <1>1, <1>3, StaysAlone
  <2>2. Named(k[1], task[k].run)'
    BY <1>1, <1>3, <1>2 DEF Named, ArtifactName
  <2> QED
    BY <1>1, <1>2, <1>3, <1>4, <1>5, <2>1, <2>2 DEF Sound, Listed, pc
<1>7. \A l \in Task : l # k /\ pc(l)' # "idle" => Sound(l)'
  BY <1>1, <1>4, <1>5, OthersSound
<1>8. TasksSound'
  BY <1>6, <1>7 DEF TasksSound
<1>9. RowsFollowRuns'
  <2>1. task[k].run <= Len(github)
    BY <1>3, GithubIsFunction DEF Listed
  <2> QED
    BY <1>1, <1>5, <2>1 DEF BuildInv, RowsFollowRuns
<1>10. FilesNamed'
  BY <1>1, <1>3, <1>5, NamesKeep DEF BuildInv, FilesNamed
<1>11. ReadyIsOwn'
  BY <1>1, <1>3, <1>4, <1>5, NamesKeep DEF BuildInv, ReadyIsOwn
<1> QED
  BY <1>8, <1>9, <1>10, <1>11 DEF BuildInv

LEMMA EndStepInv ==
    ASSUME TypeOK, BuildInv, NEW k \in Task, MarkReady(k) \/ MarkFailed(k)
    PROVE  BuildInv'
<1>1. /\ pc(k) \in {"ready", "fail"} /\ task' = [task EXCEPT ![k] = IdleTask] /\ TasksSound
      /\ build' = [build EXCEPT ![k[1]] = IF pc(k) = "ready" THEN "ready" ELSE "failed"]
      /\ UNCHANGED <<buildRun, file, torn, github, resuming, overlapped>>
  BY DEF MarkReady, MarkFailed, fileVars, githubVars, BuildInv
<1>2. k[1] \in Tenant /\ Sound(k) /\ task'[k] = IdleTask
  BY <1>1, OthersKeep
<1>3. /\ build'[k[1]] = IF pc(k) = "ready" THEN "ready" ELSE "failed"
      /\ \A t \in Tenant : t # k[1] => build'[t] = build[t]
  BY <1>1, <1>2 DEF TypeOK
<1>4. pc(k)' = "idle"
  BY <1>2 DEF pc, IdleTask
<1>5. \A l \in Task : l # k /\ pc(l)' # "idle" => Sound(l)'
  BY <1>1, <1>3, OthersSound
<1>6. TasksSound'
  BY <1>4, <1>5 DEF TasksSound
<1>7. RowsFollowRuns' /\ FilesNamed'
  BY <1>1, NamesKeep DEF BuildInv, RowsFollowRuns, FilesNamed
<1>8. ReadyIsOwn'
  <2>1. pc(k) = "ready" => /\ file[k[1]] # 0 /\ Named(k[1], file[k[1]])
                           /\ k[1] \notin torn \/ k[1] \in overlapped
    BY <1>2 DEF Sound, Alone, BuildInv, FilesNamed
  <2> QED
    BY <2>1, <1>1, <1>2, <1>3, NamesKeep DEF BuildInv, ReadyIsOwn
<1> QED
  BY <1>6, <1>7, <1>8 DEF BuildInv

LEMMA TaskStepInv ==
    ASSUME TypeOK, HasBrand, BuildInv, NEW k \in Task, TaskStep(k)
    PROVE  BuildInv'
<1>1. task[k] \in TaskState
  BY DEF TypeOK
<1>2. CASE ListRuns(k)
  <2>1. PICK before : task' = [task EXCEPT ![k] = [@ EXCEPT !.pc = "post", !.before = before]]
    BY <1>2 DEF ListRuns
  <2> DEFINE x == [task[k] EXCEPT !.pc = "post", !.before = before]
  <2>2. x.pc = "post" /\ task' = [task EXCEPT ![k] = x]
    BY <1>1, <2>1 DEF TaskState
  <2> HIDE DEF x
  <2> QED
    BY <1>2, <2>2, QuietMove DEF ListRuns, rowVars, fileVars, githubVars
<1>3. CASE PostDispatch(k) /\ ~Fail(k)
  <2> DEFINE x == [task[k] EXCEPT !.pc = "find"]
  <2>1. x.pc = "find" /\ task' = [task EXCEPT ![k] = x]
    BY <1>1, <1>3 DEF PostDispatch, Goto, TaskState
  <2> HIDE DEF x
  <2> QED
    BY <1>3, <2>1, QuietMove DEF PostDispatch, rowVars, fileVars
<1>4. CASE FindRun(k) /\ ~Fail(k)
  <2> DEFINE x == [task[k] EXCEPT !.pc = "record", !.before = 0, !.run = Latest]
  <2>1. x.pc = "record" /\ x.run = Latest /\ task' = [task EXCEPT ![k] = x]
    BY <1>1, <1>4 DEF FindRun, Goto, TaskState
  <2>2. Listed(Latest)
    <3>1. Latest > task[k].before /\ task[k].before \in Nat
      BY <1>1, <1>4, BoundAssumption DEF FindRun, Goto, TaskState, RunId
    <3> QED
      BY <3>1, GithubIsFunction DEF Listed, Latest
  <2> HIDE DEF x
  <2> QED
    BY <1>4, <2>1, <2>2, QuietMove DEF FindRun, rowVars, fileVars, githubVars
<1>5. CASE PollRun(k) /\ ~Fail(k)
  <2> DEFINE x == [task[k] EXCEPT !.pc = "download"]
  <2>1. x.pc = "download" /\ x.run = task[k].run /\ task' = [task EXCEPT ![k] = x]
    BY <1>1, <1>5 DEF PollRun, Goto, TaskState
  <2>2. Listed(task[k].run)
    BY <1>5 DEF PollRun, BuildInv, TasksSound, Sound
  <2> HIDE DEF x
  <2> QED
    BY <1>5, <2>1, <2>2, QuietMove DEF PollRun, rowVars, fileVars, githubVars
<1>6. CASE /\ PostDispatch(k) \/ FindRun(k) \/ PollRun(k) \/ Download(k) \/ WriteFile(k)
           /\ Fail(k)
  <2> DEFINE x == [IdleTask EXCEPT !.pc = "fail", !.brand = task[k].brand]
  <2>1. x.pc = "fail" /\ task' = [task EXCEPT ![k] = x]
    BY <1>6 DEF Fail, IdleTask
  <2> HIDE DEF x
  <2>3. ASSUME NEW step, task' = [task EXCEPT ![k].pc = step] PROVE step = "fail"
    <3>1. k \in DOMAIN task /\ task[k] \in [pc: Step, brand: Brand \union {NoBrand},
                                           before: RunId, run: RunId]
      BY <1>1 DEF TypeOK, TaskState
    <3>2. task'[k].pc = step
      BY <2>3, <3>1
    <3>3. task'[k].pc = "fail"
      BY <2>1, <3>1
    <3> QED
      BY <3>2, <3>3
  <2>2. /\ pc(k) # "idle"
        /\ UNCHANGED <<build, buildRun, file, torn, github, resuming, overlapped>>
    <3>1. CASE PostDispatch(k) \/ FindRun(k) \/ PollRun(k)
      BY <3>1 DEF PostDispatch, FindRun, PollRun, rowVars, fileVars, githubVars
    <3>2. CASE Download(k)
      <4>1. task' # [task EXCEPT ![k].pc = "write"]
        BY <2>3
      <4> QED
        BY <3>2, <4>1 DEF Download, Goto, rowVars, githubVars
    <3>3. CASE WriteFile(k)
      <4>1. task' # [task EXCEPT ![k].pc = "ready"]
        BY <2>3
      <4> QED
        BY <3>3, <4>1 DEF WriteFile, Goto, rowVars, fileVars, githubVars
    <3> QED
      BY <1>6, <3>1, <3>2, <3>3
  <2> QED
    BY <2>1, <2>2, QuietMove
<1>7. CASE (Download(k) \/ WriteFile(k)) /\ ~Fail(k)
  BY <1>7, DownloadStepInv, WriteStepInv
<1>8. CASE RecordRun(k) \/ MarkReady(k) \/ MarkFailed(k)
  BY <1>8, RecordStepInv, EndStepInv
<1> QED
  BY <1>2, <1>3, <1>4, <1>5, <1>6, <1>7, <1>8 DEF TaskStep

\* A new task is alone or its tenant is noted.
LEMMA TriggerInv ==
    ASSUME TypeOK, BuildInv, NEW t \in Tenant, TriggerBuild(t)
    PROVE  BuildInv'
<1>1. PICK k, x : /\ k \in Task /\ task' = [task EXCEPT ![k] = x]
                  /\ k[1] = t /\ pc(k) = "idle" /\ x.pc = "list"
  <2>1. <<t, Spare(t)>> \in Task /\ pc(<<t, Spare(t)>>) = "idle"
    BY SpareIsFree DEF TriggerBuild, Free
  <2>2. [IdleTask EXCEPT !.pc = "list", !.brand = brand[t]].pc = "list"
    BY DEF IdleTask
  <2>3. task' = [task EXCEPT ![<<t, Spare(t)>>] =
                     [IdleTask EXCEPT !.pc = "list", !.brand = brand[t]]]
    BY DEF TriggerBuild
  <2> QED
    BY <2>1, <2>2, <2>3
<1>2. k \in Task /\ k[1] = t /\ pc(k) = "idle"
  BY <1>1
<1>3. x.pc = "list"
  BY <1>1
<1>4. /\ build' = [build EXCEPT ![t] = "queued"]
      /\ overlapped' = IF Busy(t) THEN overlapped \union {t} ELSE overlapped \ {t}
      /\ UNCHANGED <<buildRun, file, torn, github, resuming>>
  BY DEF TriggerBuild, fileVars, githubVars
<1>5. task'[k] = x /\ \A l \in Task : l # k => task'[l] = task[l]
  BY <1>1, <1>2 DEF TypeOK
<1>6. build'[t] = "queued" /\ \A u \in Tenant : u # t => build'[u] = build[u]
  BY <1>4 DEF TypeOK
<1>7. t \notin overlapped' =>
          resuming # "due" /\ \A l \in Task : l[1] = t => pc(l) = "idle"
  BY <1>4 DEF Busy
<1>8. ASSUME NEW l \in Task, pc(l)' # "idle", l # k PROVE Sound(l)'
  <2>1. Sound(l) /\ task'[l] = task[l] /\ pc(l) # "idle" /\ pc(l)' = pc(l)
    BY <1>5, <1>8 DEF BuildInv, TasksSound, pc
  <2>2. ASSUME l[1] \notin overlapped' PROVE Alone(l)'
    <3>1. l[1] # t
      BY <1>7, <2>1, <2>2
    <3>2. l[1] \notin overlapped /\ l[1] \in Tenant /\ Alone(l)
      BY <1>4, <2>1, <2>2, <3>1 DEF Sound
    <3>3. \A m \in Task : pc(m)' # "idle" /\ m[1] = l[1] => m = l
      BY <1>2, <1>5, <3>1, <3>2 DEF Alone, pc
    <3> QED
      BY <1>4, <1>6, <2>1, <3>1, <3>2, <3>3 DEF Alone, Pending
  <2>3. Named(l[1], task[l].run)' <=> Named(l[1], task[l].run)
    BY <1>4, <2>1 DEF Named, ArtifactName
  <2> QED
    BY <1>4, <2>1, <2>2, <2>3 DEF Sound, Listed
<1>9. Sound(k)'
  <2>1. ASSUME k[1] \notin overlapped' PROVE Alone(k)'
    <3>1. \A m \in Task : pc(m)' # "idle" /\ m[1] = k[1] => m = k
      BY <1>2, <1>5, <1>7, <2>1 DEF pc
    <3> QED
      BY <1>2, <1>3, <1>4, <1>5, <1>6, <1>7, <2>1, <3>1 DEF Alone, Pending, pc
  <2> QED
    BY <1>3, <1>5, <2>1 DEF Sound, pc
<1>10. TasksSound'
  BY <1>8, <1>9 DEF TasksSound
<1>11. RowsFollowRuns' /\ FilesNamed'
  BY <1>4, NamesKeep DEF BuildInv, RowsFollowRuns, FilesNamed
<1>12. ReadyIsOwn'
  <2>1. \A u \in Tenant : u # t => (u \in overlapped' <=> u \in overlapped)
    BY <1>4
  <2> QED
    BY <1>4, <1>6, <2>1, NamesKeep DEF BuildInv, ReadyIsOwn
<1> QED
  BY <1>10, <1>11, <1>12 DEF BuildInv

LEMMA ResumeInv ==
    ASSUME TypeOK, BuildInv, ResumeBuilds
    PROVE  BuildInv'
<1>1. /\ resuming = "due" /\ resuming' = "done"
      /\ UNCHANGED <<build, buildRun, file, torn, github, overlapped>>
  BY DEF ResumeBuilds, rowVars, fileVars, githubVars
<1>2. \A l \in Task : l[1] \in Tenant /\ (l[1] \notin overlapped => pc(l) = "idle")
  BY <1>1 DEF BuildInv, TasksSound, Sound, Alone
<1> DEFINE x(l) == [IdleTask EXCEPT !.pc = "poll", !.brand = brand[l[1]], !.run = buildRun[l[1]]]
           Started(l) == l[1] \in Resumed /\ l[2] = Spare(l[1])
<1>3. \A l \in Task : task'[l] = IF Started(l) THEN x(l) ELSE task[l]
  BY DEF ResumeBuilds
<1>4. \A l \in Task : x(l).pc = "poll" /\ x(l).run = buildRun[l[1]]
  BY DEF IdleTask
<1>5. \A l, m \in Task : Started(l) /\ Started(m) /\ l[1] = m[1] => l = m
  <2> SUFFICES ASSUME NEW l \in Task, NEW m \in Task, Started(l), Started(m), l[1] = m[1]
               PROVE  l = m
    OBVIOUS
  <2>1. l[2] = m[2]
    BY Zenon
  <2> QED
    BY <2>1
<1> HIDE DEF x
<1>6. ASSUME NEW l \in Task, pc(l)' # "idle" PROVE Sound(l)'
  <2>1. CASE Started(l)
    <3>1. /\ Pending(l[1]) /\ buildRun[l[1]] # 0
          /\ pc(l)' = "poll" /\ task'[l].run = buildRun[l[1]]
      BY <1>3, <1>4, <2>1 DEF Resumed, pc
    <3>2. Listed(buildRun[l[1]])
      BY <1>2, <3>1, GithubIsFunction, BoundAssumption
         DEF TypeOK, BuildInv, RowsFollowRuns, Listed, RunId
    <3>3. ASSUME l[1] \notin overlapped, NEW m \in Task, pc(m)' # "idle", m[1] = l[1]
          PROVE  m = l
      <4>1. pc(m) = "idle"
        BY <1>2, <3>3
      <4>2. Started(m)
        BY <1>3, <3>3, <4>1 DEF pc
      <4> QED
        BY <1>5, <2>1, <3>3, <4>2
    <3> QED
      BY <1>1, <3>1, <3>2, <3>3 DEF Sound, Alone, Pending, Listed
  <2>2. CASE ~Started(l)
    <3>1. task'[l] = task[l] /\ pc(l)' = pc(l)
      BY <1>3, <2>2 DEF pc
    <3>2. Sound(l) /\ l[1] \in overlapped
      BY <1>2, <1>6, <3>1 DEF BuildInv, TasksSound
    <3>3. Named(l[1], task[l].run)' <=> Named(l[1], task[l].run)
      BY <1>1, <3>1 DEF Named, ArtifactName
    <3> QED
      BY <1>1, <3>1, <3>2, <3>3 DEF Sound, Listed
  <2> QED
    BY <2>1, <2>2
<1>7. TasksSound'
  BY <1>6 DEF TasksSound
<1>8. RowsFollowRuns' /\ FilesNamed' /\ ReadyIsOwn'
  BY <1>1, NamesKeep DEF BuildInv, RowsFollowRuns, FilesNamed, ReadyIsOwn
<1> QED
  BY <1>7, <1>8 DEF BuildInv

\* GitHub adds runs and ends them; a run stays the one its dispatch asked for.
LEMMA GithubInv ==
    ASSUME TypeOK, BuildInv, RunAppears \/ \E r \in DOMAIN github : RunSucceeds(r)
    PROVE  BuildInv'
<1>1. UNCHANGED <<build, buildRun, file, torn, task, resuming, overlapped>>
  BY DEF RunAppears, RunSucceeds, rowVars, fileVars
<1>2. /\ Len(github') \in Nat /\ Len(github) <= Len(github')
      /\ \A r \in 1..Len(github) : /\ github'[r].tenant = github[r].tenant
                                   /\ github'[r].brand = github[r].brand
  <2>1. CASE RunAppears
    <3> DEFINE new == [tenant |-> Head(posted).tenant, brand |-> Head(posted).brand,
                       state |-> "running"]
    <3>1. Head(posted) \in Dispatch
      BY <2>1, HeadTailProperties DEF RunAppears, TypeOK
    <3>2. new \in Run /\ github' = Append(github, new)
      BY <2>1, <3>1 DEF RunAppears, Dispatch, Run
    <3> HIDE DEF new
    <3> QED
      BY <3>2, AppendProperties, GithubIsFunction DEF TypeOK
  <2>2. ASSUME NEW r \in DOMAIN github, RunSucceeds(r)
        PROVE  /\ Len(github') = Len(github)
               /\ \A q \in 1..Len(github) : /\ github'[q].tenant = github[q].tenant
                                            /\ github'[q].brand = github[q].brand
    <3>1. github' = [github EXCEPT ![r] = [github[r] EXCEPT !.state = "success"]]
      BY <2>2 DEF RunSucceeds
    <3>2. r \in 1..Len(github) /\ github[r] \in Run
      BY GithubIsFunction
    <3>3. /\ [github[r] EXCEPT !.state = "success"] \in Run
          /\ [github[r] EXCEPT !.state = "success"].tenant = github[r].tenant
          /\ [github[r] EXCEPT !.state = "success"].brand = github[r].brand
      BY <3>2 DEF Run
    <3>4. Len(github') = Len(github)
      BY <3>1, <3>2, <3>3, ExceptSeq DEF TypeOK
    <3> QED
      BY <3>1, <3>2, <3>3, <3>4, GithubIsFunction
  <2> QED
    BY <2>1, <2>2, GithubIsFunction
<1>3. ASSUME NEW r, Listed(r) PROVE Listed(r)' /\ \A t : Named(t, r)' <=> Named(t, r)
  <2>1. Listed(r)'
    BY <1>2, <1>3, GithubIsFunction DEF Listed
  <2>2. ArtifactName(r)' = ArtifactName(r)
    BY <1>2, <1>3 DEF Listed, ArtifactName
  <2> QED
    BY <2>1, <2>2 DEF Named
<1>4. ASSUME NEW k \in Task, pc(k)' # "idle" PROVE Sound(k)'
  <2>1. Sound(k) /\ task'[k] = task[k] /\ pc(k)' = pc(k) /\ (Alone(k)' <=> Alone(k))
    BY <1>1, <1>4 DEF BuildInv, TasksSound, Alone, Pending, pc
  <2>2. \A r : Listed(r) => Listed(r)' /\ (Named(k[1], r) => Named(k[1], r)')
    BY <1>3
  <2>3. Listed(task[k].run) => /\ Listed(task[k].run)'
                               /\ Named(k[1], task[k].run) => Named(k[1], task[k].run)'
    <3>1. \A r : r = task[k].run /\ Listed(r) => Listed(task[k].run)'
      BY <1>1, <2>2 DEF Listed
    <3>2. \A r : r = task[k].run /\ Listed(r) /\ Named(k[1], r) => Named(k[1], task[k].run)'
      BY <1>1, <2>2 DEF Named, ArtifactName
    <3> QED
      BY <3>1, <3>2
  <2> QED
    BY <1>1, <2>1, <2>3 DEF Sound
<1>5. TasksSound'
  BY <1>4 DEF TasksSound
<1>6. RowsFollowRuns'
  BY <1>1, <1>2, GithubIsFunction, BoundAssumption DEF BuildInv, RowsFollowRuns, TypeOK, RunId
<1>7. \A t \in Tenant : file[t] # 0 /\ Named(t, file[t]) => Named(t, file[t])'
  <2> SUFFICES ASSUME NEW t \in Tenant, file[t] # 0, Named(t, file[t])
               PROVE  Named(t, file[t])'
    OBVIOUS
  <2>1. Listed(file[t])
    BY GithubIsFunction, BoundAssumption DEF BuildInv, RowsFollowRuns, TypeOK, RunId, Listed
  <2>2. /\ github'[file[t]].tenant = github[file[t]].tenant
        /\ github'[file[t]].brand = github[file[t]].brand
    BY <1>2, <2>1 DEF Listed
  <2> QED
    BY <1>1, <2>2 DEF Named, ArtifactName
<1>8. FilesNamed' /\ ReadyIsOwn'
  BY <1>1, <1>7 DEF BuildInv, FilesNamed, ReadyIsOwn
<1> QED
  BY <1>5, <1>6, <1>8 DEF BuildInv

LEMMA BuildStep ==
    ASSUME TypeOK, HasBrand, BuildInv, [Next]_vars
    PROVE  BuildInv'
<1>1. CASE UNCHANGED <<build, buildRun, fileVars, task, githubVars, resuming, overlapped>>
  BY <1>1 DEF fileVars, githubVars, BuildInv, TasksSound, Sound, Alone, Pending, Listed, Named,
              ArtifactName, RowsFollowRuns, FilesNamed, ReadyIsOwn, pc
<1>2. CASE (\E t \in Tenant, b \in Brand : SaveBranding(t, b)) \/ UNCHANGED vars
  BY <1>1, <1>2 DEF SaveBranding, vars, rowVars
<1>3. ASSUME NEW t \in Tenant, TriggerBuild(t) PROVE BuildInv'
  BY <1>3, TriggerInv
<1>4. ASSUME NEW k \in Task, TaskStep(k) PROVE BuildInv'
  BY <1>4, TaskStepInv
<1>5. CASE Crash
  <2>1. \A k \in Task : pc(k)' = "idle"
    BY <1>5 DEF Crash, pc, IdleTask
  <2> QED
    BY <1>5, <2>1, NamesKeep
       DEF Crash, rowVars, fileVars, githubVars, BuildInv, TasksSound, RowsFollowRuns, FilesNamed,
           ReadyIsOwn
<1>6. CASE ResumeBuilds
  BY <1>6, ResumeInv
<1>7. CASE SkipResume
  <2>1. /\ resuming = "due" /\ UNCHANGED <<build, buildRun, file, torn, task, github, overlapped>>
    BY <1>7 DEF SkipResume, rowVars, fileVars, githubVars
  <2>2. ASSUME NEW k \in Task, pc(k)' # "idle" PROVE Sound(k)'
    <3>1. Sound(k) /\ k[1] \in overlapped /\ pc(k)' = pc(k)
      BY <2>1, <2>2 DEF BuildInv, TasksSound, Sound, Alone, pc
    <3> QED
      BY <2>1, <3>1 DEF Sound, Listed, Named, ArtifactName
  <2> QED
    BY <2>1, <2>2, NamesKeep DEF BuildInv, TasksSound, RowsFollowRuns, FilesNamed, ReadyIsOwn
<1>8. CASE RunAppears \/ \E r \in DOMAIN github : RunSucceeds(r)
  BY <1>8, GithubInv
<1> QED
  BY <1>2, <1>3, <1>4, <1>5, <1>6, <1>7, <1>8 DEF Next, ResumePending

LEMMA BuildInvHolds == Spec => [](TypeOK /\ HasBrand /\ BuildInv)
<1>1. Init => BuildInv
  <2> SUFFICES ASSUME Init PROVE BuildInv
    OBVIOUS
  <2>1. \A k \in Task : pc(k) = "idle"
    BY DEF Init, IdleTask, pc
  <2> QED
    BY <2>1, EmptySeq
       DEF Init, BuildInv, TasksSound, RowsFollowRuns, FilesNamed, ReadyIsOwn
<1>2. TypeOK /\ HasBrand /\ BuildInv /\ [Next]_vars => (TypeOK /\ HasBrand /\ BuildInv)'
  BY TypeStep, BuildStep
<1> QED
  BY InitType, <1>1, <1>2, PTL DEF Spec

\* A tenant is offered nothing but an executable under one of its own names, a complete
\* one unless its builds overlap: runs taken by mistake, failures, restarts and half
\* written files included.
THEOREM OfferCorrect == Spec => []ReadyIsOwn
<1>1. BuildInv => ReadyIsOwn
  BY DEF BuildInv
<1> QED
  BY BuildInvHolds, <1>1, PTL

\* File names tell tenants apart.
TenantNames ==
    \A m, n \in Tenant \X Brand : FileName[m] = FileName[n] => m[1] = n[1]

\* If file names tell tenants apart, the run that made the file of a tenant was
\* dispatched for that tenant, overlapping builds or not.
THEOREM OwnRunCorrect ==
    ASSUME TenantNames
    PROVE  Spec => [](\A t \in Tenant : build[t] = "ready" => github[file[t]].tenant = t)
<1>1. ASSUME TypeOK, BuildInv, NEW t \in Tenant, build[t] = "ready"
      PROVE  github[file[t]].tenant = t
  <2>1. file[t] # 0 /\ Named(t, file[t])
    BY <1>1 DEF BuildInv, ReadyIsOwn
  <2>2. Listed(file[t])
    BY <1>1, <2>1, GithubIsFunction, BoundAssumption
       DEF BuildInv, RowsFollowRuns, TypeOK, RunId, Listed
  <2>3. github[file[t]].tenant \in Tenant /\ github[file[t]].brand \in Brand
    BY <1>1, <2>2, GithubIsFunction DEF Listed, Run
  <2>4. PICK b \in Brand : ArtifactName(file[t]) = FileName[<<t, b>>]
    BY <2>1 DEF Named
  <2> DEFINE m == <<github[file[t]].tenant, github[file[t]].brand>>
             n == <<t, b>>
  <2>5. m \in Tenant \X Brand /\ n \in Tenant \X Brand /\ FileName[m] = FileName[n]
    BY <2>3, <2>4 DEF ArtifactName
  <2>6. m[1] = n[1]
    BY <2>5 DEF TenantNames
  <2> QED
    BY <2>6
<1>2. TypeOK /\ BuildInv =>
          \A t \in Tenant : build[t] = "ready" => github[file[t]].tenant = t
  BY <1>1
<1> QED
  BY BuildInvHolds, <1>2, PTL

-----------------------------------------------------------------------------
(* The audit: the inductive invariant *)

USE TargetAssumption, NoneAssumption

\* Transaction t has inserted its nonce and is not committed.
Working(t) == tx[t].pc \in {"find", "lock", "commit"}
Handles(t, action) == Working(t) /\ tx[t].msg.action = action

\* A message is handled by one transaction at a time and not once it is done.
HandledOnce ==
    /\ told \subseteq nonces /\ nonces \subseteq sent
    /\ \A t \in Tx :
          /\ tx[t].pc # "idle" => tx[t].msg \in sent
          /\ Working(t) => tx[t].msg \notin nonces
    /\ \A t, u \in Tx : Working(t) /\ Working(u) /\ tx[t].msg = tx[u].msg => t = u

\* A row with a session is the one of a message "new" that was handled, and ends with "close".
RowsAreHandled ==
    /\ \A r \in DOMAIN rows :
          /\ rows[r].session # None => [session |-> rows[r].session, action |-> "new"] \in nonces
          /\ rows[r].ended => /\ rows[r].session # None
                              /\ [session |-> rows[r].session, action |-> "close"] \in nonces
    /\ \A m \in nonces : m.action = "new" =>
          \E r \in DOMAIN rows : rows[r].session = m.session /\ rows[r].target = Target[m.session]

\* Row r is one that the message of t is about.
Concerns(t, r) ==
    /\ r \in DOMAIN rows
    /\ IF tx[t].msg.action = "new" THEN rows[r].target = Target[tx[t].msg.session]
       ELSE rows[r].session = tx[t].msg.session

\* A row that was found fits, and who has locked it has it alone.
FoundFits ==
    /\ \A t \in Tx : /\ tx[t].pc = "lock" => \A r \in tx[t].cand : Concerns(t, r)
                     /\ tx[t].pc = "commit" /\ tx[t].pick # 0 =>
                           Concerns(t, tx[t].pick) /\ StillRight(t, tx[t].pick)
                     /\ tx[t].pc # "commit" => tx[t].pick = 0
    /\ \A t, u \in Tx : tx[t].pc = "commit" /\ tx[u].pc = "commit" /\ tx[t].pick = tx[u].pick
                        /\ tx[t].pick # 0 => t = u

\* A launch that was passed over is taken.
PassedIsTaken ==
    \A t \in Tx : Handles(t, "new") =>
        /\ tx[t].pc = "lock" => \A r \in tx[t].seen \ tx[t].cand : rows[r].status # "launched"
        /\ tx[t].pc = "commit" /\ tx[t].pick = 0 => \A r \in tx[t].seen : rows[r].status # "launched"

\* Transaction t has found row r and may write it.
Reaches(t, r) ==
    \/ tx[t].pc = "lock" /\ r \in tx[t].cand
    \/ tx[t].pc = "commit" /\ r = tx[t].pick

\* A peer message that has found a closed row crossed with its close message.
ClosedIsCrossed ==
    \A t \in Tx : Handles(t, "peer") =>
        \A r \in DOMAIN rows :
            Reaches(t, r) /\ rows[r].ended => tx[t].msg.session \in crossed

\* In a session that waits for each answer a close message finds its row, and the row stays
\* closed.
ClosedInTime ==
    /\ \A m \in sent : /\ [m EXCEPT !.action = "new"] \in sent
                       /\ m.session \notin hurried => Before(m) \intersect sent \subseteq told
    /\ \A m \in nonces : m.action = "close" /\ m.session \notin hurried =>
          \E r \in DOMAIN rows :
              rows[r].session = m.session /\ rows[r].ended /\ rows[r].status = "closed"
    /\ \A t \in Tx : Handles(t, "close") /\ tx[t].msg.session \notin hurried =>
          /\ tx[t].pc = "lock" => tx[t].cand # {}
          /\ tx[t].pc = "commit" => tx[t].pick # 0

AuditInv ==
    /\ HandledOnce /\ RowsAreHandled /\ OneRowPerSession /\ FoundFits
    /\ PassedIsTaken /\ ClosedIsCrossed /\ ClosedInTime

-----------------------------------------------------------------------------
(* The audit: rows and transactions *)

LEMMA NoTxType == NoTx \in TxState
BY DEF NoTx, TxState

LEMMA NewestFound == ASSUME NEW S PROVE Newest(S) \subseteq S
BY DEF Newest

\* What comes before a message in its session
LEMMA BeforeIs ==
    ASSUME NEW m \in Msg, NEW p \in Msg
    PROVE  p \in Before(m) <=> /\ p.session = m.session
                               /\ \/ p.action = "new" /\ m.action # "new"
                                  \/ p.action = "peer" /\ m.action = "close"
<1>1. 1 \in 1..3 /\ 2 \in 1..3 /\ 3 \in 1..3 /\ \A i \in 1..3 : i = 1 \/ i = 2 \/ i = 3
  OBVIOUS
<1>2. Action[1] = "new" /\ Action[2] = "peer" /\ Action[3] = "close"
  BY DEF Action
<1>3. m.action \in {"new", "peer", "close"} /\ p.action \in {"new", "peer", "close"}
  BY DEF Msg
<1>4. (\E i, j \in 1..3 : i < j /\ p.action = Action[i] /\ m.action = Action[j])
      <=> \/ p.action = "new" /\ m.action # "new"
          \/ p.action = "peer" /\ m.action = "close"
  BY <1>1, <1>2, <1>3
<1> QED
  BY <1>4 DEF Before

\* Transaction t puts row x in the place of the one it has locked.
Puts(t, x) ==
    /\ tx[t].pick \in DOMAIN rows
    /\ rows' = [rows EXCEPT ![tx[t].pick] = x]
    /\ x.target = rows[tx[t].pick].target
    /\ x.session = tx[t].msg.session
    /\ x.status # "launched"
    /\ IF tx[t].msg.action = "new" THEN rows[tx[t].pick].status = "launched"
       ELSE rows[tx[t].pick].session = tx[t].msg.session
    /\ IF tx[t].msg.action = "close" THEN x.ended /\ x.status = "closed"
       ELSE x.ended = rows[tx[t].pick].ended

NewRow(m) == [target |-> Target[m.session], session |-> m.session,
              status |-> "connecting", fresh |-> FALSE, ended |-> FALSE]

\* What a transaction writes
LEMMA CommitRows ==
    ASSUME AuditTypeOK, HandledOnce, FoundFits, NEW t \in Tx, Commit(t)
    PROVE  /\ tx[t].msg \in Msg
           /\ \/ tx[t].pick = 0 /\ tx[t].msg.action = "new" /\ rows' = Append(rows, NewRow(tx[t].msg))
              \/ tx[t].pick = 0 /\ tx[t].msg.action # "new" /\ rows' = rows
              \/ \E x \in Row : Puts(t, x)
<1> DEFINE m == tx[t].msg
           r == tx[t].pick
<1>1. m \in Msg /\ m.session \in Session /\ m.action \in {"new", "peer", "close"}
  BY DEF Commit, HandledOnce, AuditTypeOK, Msg
<1>2. rows' = Written(t) /\ tx[t].pc = "commit"
  BY DEF Commit
<1>3. CASE r = 0
  BY <1>1, <1>2, <1>3 DEF Written, NewRow
<1>4. CASE r # 0
  <2>1. r \in DOMAIN rows /\ rows[r] \in Row
    BY <1>2, <1>4 DEF FoundFits, Concerns, AuditTypeOK
  <2>2. IF m.action = "new" THEN rows[r].status = "launched" ELSE rows[r].session = m.session
    BY <1>2, <1>4 DEF FoundFits, Concerns, StillRight
  <2>3. CASE m.action = "new"
    <3> DEFINE x == [rows[r] EXCEPT !.session = m.session, !.status = "connecting"]
    <3>1. x \in Row /\ rows' = [rows EXCEPT ![r] = x]
      BY <1>1, <1>2, <1>4, <2>1, <2>3 DEF Written, Row
    <3>2. x.target = rows[r].target /\ x.session = m.session /\ x.status = "connecting"
          /\ x.ended = rows[r].ended
      BY <2>1 DEF Row
    <3> HIDE DEF x
    <3>3. Puts(t, x)
      BY <2>1, <2>2, <2>3, <3>1, <3>2 DEF Puts
    <3> QED
      BY <1>1, <3>1, <3>3
  <2>4. CASE m.action = "peer"
    <3> DEFINE x == [rows[r] EXCEPT !.status = "active"]
    <3>1. x \in Row /\ rows' = [rows EXCEPT ![r] = x]
      BY <1>1, <1>2, <1>4, <2>1, <2>4 DEF Written, Row
    <3>2. x.target = rows[r].target /\ x.session = rows[r].session /\ x.status = "active"
          /\ x.ended = rows[r].ended
      BY <2>1 DEF Row
    <3> HIDE DEF x
    <3>3. Puts(t, x)
      BY <2>1, <2>2, <2>4, <3>1, <3>2 DEF Puts
    <3> QED
      BY <1>1, <3>1, <3>3
  <2>5. CASE m.action = "close"
    <3> DEFINE x == [rows[r] EXCEPT !.status = "closed", !.ended = TRUE]
    <3>1. x \in Row /\ rows' = [rows EXCEPT ![r] = x]
      BY <1>1, <1>2, <1>4, <2>1, <2>5 DEF Written, Row
    <3>2. x.target = rows[r].target /\ x.session = rows[r].session /\ x.status = "closed" /\ x.ended
      BY <2>1 DEF Row
    <3> HIDE DEF x
    <3>3. Puts(t, x)
      BY <2>1, <2>2, <2>5, <3>1, <3>2 DEF Puts
    <3> QED
      BY <1>1, <3>1, <3>3
  <2> QED
    BY <1>1, <2>3, <2>4, <2>5
<1> QED
  BY <1>3, <1>4

\* The rows that are there stay, each with its device and its session, and what is taken or
\* ended stays so.
LEMMA RowsStay ==
    ASSUME AuditTypeOK, HandledOnce, FoundFits, AuditNext
    PROVE  /\ rows' \in Seq(Row) /\ DOMAIN rows \subseteq DOMAIN rows' /\ Len(rows) <= Len(rows')
           /\ \A r \in DOMAIN rows' : rows'[r].session = None <=> rows'[r].status = "launched"
           /\ \A r \in DOMAIN rows :
                 /\ rows'[r].target = rows[r].target
                 /\ rows[r].session # None => rows'[r].session = rows[r].session
                 /\ rows[r].status # "launched" => rows'[r].status # "launched"
                 /\ rows[r].ended => rows'[r].ended
<1> USE DEF AuditTypeOK
<1> DEFINE Goal == /\ rows' \in Seq(Row) /\ DOMAIN rows \subseteq DOMAIN rows' /\ Len(rows) <= Len(rows')
                   /\ \A r \in DOMAIN rows' : rows'[r].session = None <=> rows'[r].status = "launched"
                   /\ \A r \in DOMAIN rows :
                         /\ rows'[r].target = rows[r].target
                         /\ rows[r].session # None => rows'[r].session = rows[r].session
                         /\ rows[r].status # "launched" => rows'[r].status # "launched"
                         /\ rows[r].ended => rows'[r].ended
<1>1. ASSUME NEW x \in Row, rows' = Append(rows, x), x.session = None <=> x.status = "launched"
      PROVE  Goal
  <2>1. /\ rows' \in Seq(Row) /\ Len(rows') = Len(rows) + 1 /\ Len(rows) \in Nat
        /\ \A r \in DOMAIN rows : rows'[r] = rows[r]
        /\ rows'[Len(rows')] = x
        /\ DOMAIN rows' = DOMAIN rows \union {Len(rows')}
    BY <1>1
  <2> QED
    BY <1>1, <2>1
<1>2. ASSUME NEW x \in Row, NEW q \in DOMAIN rows, rows' = [rows EXCEPT ![q] = x],
             x.target = rows[q].target, rows[q].session # None => x.session = rows[q].session,
             rows[q].status # "launched" => x.status # "launched",
             rows[q].ended => x.ended, x.session = None <=> x.status = "launched"
      PROVE  Goal
  <2>1. /\ rows' \in Seq(Row) /\ Len(rows') = Len(rows) /\ Len(rows) \in Nat
        /\ \A r \in DOMAIN rows : rows'[r] = IF r = q THEN x ELSE rows[r]
    BY <1>2
  <2> QED
    BY <1>2, <2>1
<1>3. ASSUME rows' = rows PROVE Goal
  BY <1>3
<1>4. ASSUME NEW d \in Device, RegisterLaunch(d) PROVE Goal
  <2> DEFINE x == [target |-> d, session |-> None, status |-> "launched", fresh |-> TRUE,
                   ended |-> FALSE]
  <2>1. x \in Row /\ x.session = None /\ x.status = "launched" /\ rows' = Append(rows, x)
    BY <1>4 DEF RegisterLaunch, Row
  <2> HIDE DEF x
  <2> QED
    BY <1>1, <2>1
<1>5. ASSUME NEW q \in DOMAIN rows, Expire(q) PROVE Goal
  <2> DEFINE x == [rows[q] EXCEPT !.fresh = FALSE]
  <2>1. rows[q] \in Row /\ rows' = [rows EXCEPT ![q] = x]
    BY <1>5 DEF Expire
  <2>2. /\ x \in Row /\ x.session = rows[q].session /\ x.status = rows[q].status
        /\ x.ended = rows[q].ended /\ x.target = rows[q].target
    BY <2>1 DEF Row
  <2> HIDE DEF x
  <2> QED
    BY <1>2, <2>1, <2>2
<1>6. ASSUME NEW t \in Tx, Commit(t) PROVE Goal
  <2>1. tx[t].msg \in Msg /\ tx[t].msg.session \in Session
    BY <1>6, CommitRows DEF Msg
  <2>2. CASE rows' = Append(rows, NewRow(tx[t].msg))
    <3>1. NewRow(tx[t].msg) \in Row /\ NewRow(tx[t].msg).session # None
          /\ NewRow(tx[t].msg).status # "launched"
      BY <2>1 DEF NewRow, Row
    <3> QED
      BY <1>1, <2>2, <3>1
  <2>3. ASSUME NEW x \in Row, Puts(t, x) PROVE Goal
    <3>1. x.session # None
      BY <2>1, <2>3 DEF Puts
    <3> QED
      BY <1>2, <2>3, <3>1 DEF Puts
  <2> QED
    BY <1>3, <1>6, <2>2, <2>3, CommitRows
<1> QED
  BY <1>3, <1>4, <1>5, <1>6 DEF AuditNext, Post, TxStep, InsertNonce, FindRow, LockRow, Abort

\* A step of a transaction changes nothing of the others.
LEMMA TxMoves ==
    ASSUME AuditTypeOK, NEW t \in Tx, TxStep(t) \/ Abort(t) \/ \E m \in Msg : Post(t, m)
    PROVE  \E x \in TxState :
              /\ tx' = [tx EXCEPT ![t] = x]
              /\ x.pick \in 0..Len(rows) /\ x.cand \union x.seen \subseteq DOMAIN rows
<1> USE DEF AuditTypeOK
<1>1. tx[t] \in TxState /\ tx[t].pick \in 0..Len(rows)
      /\ tx[t].cand \union tx[t].seen \subseteq DOMAIN rows
      /\ 0 \in 0..Len(rows) /\ DOMAIN rows \subseteq Nat /\ DOMAIN rows = 1..Len(rows)
  OBVIOUS
<1> DEFINE Moves(x) == /\ tx' = [tx EXCEPT ![t] = x] /\ x \in TxState
                       /\ x.pick \in 0..Len(rows) /\ x.cand \union x.seen \subseteq DOMAIN rows
<1>2. CASE tx' = [tx EXCEPT ![t] = NoTx]
  <2>1. Moves(NoTx)
    BY <1>1, <1>2, NoTxType DEF NoTx
  <2> QED
    BY <2>1
<1>3. CASE tx' = [tx EXCEPT ![t].pc = "find"] \/ tx' = [tx EXCEPT ![t].pc = "commit"]
  <2>1. PICK step \in {"find", "commit"} : tx' = [tx EXCEPT ![t].pc = step]
    BY <1>3
  <2>2. Moves([tx[t] EXCEPT !.pc = step])
    BY <1>1, <2>1 DEF TxState
  <2> QED
    BY <2>2
<1>4. ASSUME NEW m \in Msg, Post(t, m) PROVE \E x : Moves(x)
  <2>1. tx' = [tx EXCEPT ![t] = [NoTx EXCEPT !.pc = "nonce", !.msg = m]]
    BY <1>4 DEF Post
  <2>2. Moves([NoTx EXCEPT !.pc = "nonce", !.msg = m])
    BY <1>1, <2>1, NoTxType DEF NoTx, TxState
  <2> QED
    BY <2>2
<1>5. CASE FindRow(t)
  <2> DEFINE f == Found(tx[t].msg)
  <2>1. tx' = [tx EXCEPT ![t].pc = "lock", ![t].cand = f, ![t].seen = f]
    BY <1>5 DEF FindRow
  <2>2. f \subseteq DOMAIN rows
    BY NewestFound DEF Found, Launches, OpenRows
  <2> HIDE DEF f
  <2>3. Moves([tx[t] EXCEPT !.pc = "lock", !.cand = f, !.seen = f])
    BY <1>1, <2>1, <2>2 DEF TxState
  <2> QED
    BY <2>3
<1>6. ASSUME NEW r \in tx[t].cand, tx' = [tx EXCEPT ![t].pc = "commit", ![t].pick = r]
      PROVE  \E x : Moves(x)
  <2>1. r \in 0..Len(rows) /\ r \in Nat
    BY <1>1
  <2>2. Moves([tx[t] EXCEPT !.pc = "commit", !.pick = r])
    BY <1>1, <1>6, <2>1 DEF TxState
  <2> QED
    BY <2>2
<1>7. ASSUME NEW r \in tx[t].cand, tx' = [tx EXCEPT ![t].cand = @ \ {r}]
      PROVE  \E x : Moves(x)
  <2>1. Moves([tx[t] EXCEPT !.cand = @ \ {r}])
    BY <1>1, <1>7 DEF TxState
  <2> QED
    BY <2>1
<1>8. CASE LockRow(t)
  <2>1. \/ tx' = [tx EXCEPT ![t].pc = "commit"]
        \/ \E r \in tx[t].cand : \/ tx' = [tx EXCEPT ![t].pc = "commit", ![t].pick = r]
                                 \/ tx' = [tx EXCEPT ![t].cand = @ \ {r}]
    BY <1>8, NewestFound DEF LockRow
  <2> QED
    BY <1>3, <1>6, <1>7, <2>1
<1> QED
  BY <1>2, <1>3, <1>4, <1>5, <1>8 DEF TxStep, InsertNonce, Commit, Abort

LEMMA AuditTypeStep ==
    ASSUME AuditTypeOK, HandledOnce, FoundFits, [AuditNext]_auditVars
    PROVE  AuditTypeOK'
<1>1. CASE AuditNext
  <2> USE DEF AuditTypeOK, counters
  <2>1. /\ rows' \in Seq(Row) /\ DOMAIN rows \subseteq DOMAIN rows' /\ Len(rows) <= Len(rows')
        /\ \A r \in DOMAIN rows' : rows'[r].session = None <=> rows'[r].status = "launched"
    BY <1>1, RowsStay
  <2>2. /\ tx' \in [Tx -> TxState]
        /\ \A t \in Tx : /\ tx'[t].pick \in 0..Len(rows')
                         /\ tx'[t].cand \union tx'[t].seen \subseteq DOMAIN rows'
    <3>1. 0..Len(rows) \subseteq 0..Len(rows')
      BY <2>1
    <3>2. CASE tx' = tx
      BY <2>1, <3>1, <3>2
    <3>3. ASSUME NEW t \in Tx, TxStep(t) \/ Abort(t) \/ \E m \in Msg : Post(t, m)
          PROVE  /\ tx' \in [Tx -> TxState]
                 /\ \A u \in Tx : /\ tx'[u].pick \in 0..Len(rows')
                                  /\ tx'[u].cand \union tx'[u].seen \subseteq DOMAIN rows'
      <4>1. PICK x \in TxState :
                /\ tx' = [tx EXCEPT ![t] = x]
                /\ x.pick \in 0..Len(rows) /\ x.cand \union x.seen \subseteq DOMAIN rows
        BY <3>3, TxMoves
      <4> QED
        BY <2>1, <3>1, <4>1
    <3> QED
      BY <1>1, <3>2, <3>3 DEF AuditNext, RegisterLaunch, Expire
  <2>3. \A t \in Tx : tx[t].pc # "idle" => tx[t].msg \in Msg /\ tx[t].msg \in sent
                                           /\ tx[t].msg.session \in Session
    BY DEF HandledOnce, Msg
  <2>4. nonces' \subseteq Msg /\ sent' \subseteq Msg /\ told' \subseteq sent'
    <3>1. ASSUME NEW t \in Tx, TxStep(t)
          PROVE  /\ nonces' \subseteq nonces \union {tx[t].msg}
                 /\ told' \subseteq told \union {tx[t].msg}
                 /\ sent' = sent /\ tx[t].pc # "idle"
      BY <3>1 DEF TxStep, InsertNonce, FindRow, LockRow, Commit, Answer
    <3>2. ASSUME NEW t \in Tx, TxStep(t) PROVE nonces' \subseteq Msg /\ told' \subseteq sent'
      <4>1. tx[t].msg \in Msg /\ tx[t].msg \in sent
        BY <2>3, <3>1, <3>2
      <4> QED
        BY <3>1, <3>2, <4>1
    <3>3. ASSUME NEW t \in Tx, NEW m \in Msg, Post(t, m)
          PROVE  sent' = sent \union {m} /\ UNCHANGED <<nonces, told>>
      BY <3>3 DEF Post
    <3> QED
      BY <1>1, <3>1, <3>2, <3>3 DEF AuditNext, RegisterLaunch, Expire, Abort
  <2>5. clicks' \in 0..MaxClicks /\ posts' \in 0..MaxPosts /\ faults' \in 0..MaxFaults
    <3> DEFINE Counts == /\ clicks' = clicks \/ (clicks < MaxClicks /\ clicks' = clicks + 1)
                         /\ posts' = posts \/ (posts < MaxPosts /\ posts' = posts + 1)
                         /\ faults' = faults \/ (faults < MaxFaults /\ faults' = faults + 1)
    <3>1. Counts
      <4>1. ASSUME NEW d \in Device, RegisterLaunch(d) PROVE Counts
        BY <4>1 DEF RegisterLaunch
      <4>2. ASSUME NEW r \in DOMAIN rows, Expire(r) PROVE Counts
        BY <4>2 DEF Expire, Fault
      <4>3. ASSUME NEW t \in Tx, NEW m \in Msg, Post(t, m) PROVE Counts
        BY <4>3 DEF Post
      <4>4. ASSUME NEW t \in Tx, TxStep(t) \/ Abort(t) PROVE Counts
        BY <2>3, <4>4 DEF TxStep, InsertNonce, FindRow, LockRow, Commit, Abort, Answer, Fault
      <4> QED
        BY <1>1, <4>1, <4>2, <4>3, <4>4 DEF AuditNext
    <3>2. MaxClicks \in Nat /\ MaxPosts \in Nat /\ MaxFaults \in Nat
      BY BoundsAssumption
    <3> QED
      BY <3>1, <3>2
  <2>6. hurried' \subseteq Session /\ crossed' \subseteq Session
    BY <1>1, <2>3 DEF AuditNext, RegisterLaunch, Expire, Post, TxStep, InsertNonce, FindRow, LockRow,
       Commit, Abort, Msg
  <2> QED
    BY <2>1, <2>2, <2>4, <2>5, <2>6
<1>2. CASE UNCHANGED auditVars
  BY <1>2 DEF AuditTypeOK, auditVars, counters
<1> QED
  BY <1>1, <1>2

-----------------------------------------------------------------------------
(* The audit: each part of the invariant *)

LEMMA HandledStep ==
    ASSUME AuditTypeOK, HandledOnce, AuditNext
    PROVE  HandledOnce'
<1> USE DEF AuditTypeOK, HandledOnce, Working, counters
<1>1. ASSUME NEW t \in Tx, NEW m \in Msg, Post(t, m) PROVE HandledOnce'
  <2>1. /\ tx' = [tx EXCEPT ![t] = [NoTx EXCEPT !.pc = "nonce", !.msg = m]]
        /\ sent' = sent \union {m} /\ UNCHANGED <<nonces, told>>
    BY <1>1 DEF Post
  <2>2. tx'[t].pc = "nonce" /\ tx'[t].msg = m /\ \A u \in Tx \ {t} : tx'[u] = tx[u]
    BY <2>1 DEF NoTx
  <2> QED
    BY <2>1, <2>2
<1>2. ASSUME NEW t \in Tx, InsertNonce(t) PROVE HandledOnce'
  <2>1. CASE tx[t].msg \in nonces
    <3>1. /\ tx' = [tx EXCEPT ![t] = NoTx] /\ told' \in {told, told \union {tx[t].msg}}
          /\ UNCHANGED <<nonces, sent>>
      BY <1>2, <2>1 DEF InsertNonce, Answer
    <3>2. tx'[t].pc = "idle" /\ \A u \in Tx \ {t} : tx'[u] = tx[u]
      BY <3>1 DEF NoTx
    <3> QED
      BY <2>1, <3>1, <3>2
  <2>2. CASE tx[t].msg \notin nonces
    <3>1. /\ tx' = [tx EXCEPT ![t].pc = "find"] /\ tx[t].pc = "nonce" /\ ~NonceHeld(t)
          /\ UNCHANGED <<nonces, sent, told>>
      BY <1>2, <2>2 DEF InsertNonce
    <3>2. /\ tx'[t].pc = "find" /\ tx'[t].msg = tx[t].msg /\ \A u \in Tx \ {t} : tx'[u] = tx[u]
      BY <3>1 DEF TxState
    <3>3. \A u \in Tx \ {t} : Working(u) => tx[u].msg # tx[t].msg
      BY <3>1 DEF NonceHeld
    <3> QED
      BY <2>2, <3>1, <3>2, <3>3
  <2> QED
    BY <2>1, <2>2
<1>3. ASSUME NEW t \in Tx, FindRow(t) \/ LockRow(t) PROVE HandledOnce'
  <2>1. /\ tx[t].pc \in {"find", "lock"} /\ UNCHANGED <<nonces, sent, told>>
        /\ tx'[t].pc \in {"lock", "commit"} /\ tx'[t].msg = tx[t].msg
        /\ \A u \in Tx \ {t} : tx'[u] = tx[u]
    BY <1>3 DEF FindRow, LockRow, TxState
  <2> QED
    BY <2>1
<1>4. ASSUME NEW t \in Tx, Commit(t) PROVE HandledOnce'
  <2>1. /\ tx[t].pc = "commit" /\ nonces' = nonces \union {tx[t].msg} /\ UNCHANGED sent
        /\ told' \in {told, told \union {tx[t].msg}} /\ tx' = [tx EXCEPT ![t] = NoTx]
    BY <1>4 DEF Commit, Answer
  <2>2. tx'[t].pc = "idle" /\ \A u \in Tx \ {t} : tx'[u] = tx[u]
    BY <2>1 DEF NoTx
  <2> QED
    BY <2>1, <2>2
<1>5. ASSUME NEW t \in Tx, Abort(t) PROVE HandledOnce'
  <2>1. tx' = [tx EXCEPT ![t] = NoTx] /\ UNCHANGED <<nonces, sent, told>>
    BY <1>5 DEF Abort
  <2>2. tx'[t].pc = "idle" /\ \A u \in Tx \ {t} : tx'[u] = tx[u]
    BY <2>1 DEF NoTx
  <2> QED
    BY <2>1, <2>2
<1>6. CASE UNCHANGED <<nonces, sent, told, tx>>
  BY <1>6
<1> QED
  BY <1>1, <1>2, <1>3, <1>4, <1>5, <1>6 DEF AuditNext, TxStep, RegisterLaunch, Expire

\* The rows after a row is put at the end
LEMMA RowAppended ==
    ASSUME AuditTypeOK, NEW x \in Row, rows' = Append(rows, x)
    PROVE  \E n : /\ n \notin DOMAIN rows /\ DOMAIN rows' = DOMAIN rows \union {n} /\ rows'[n] = x
                  /\ n = Len(rows') /\ Len(rows') > Len(rows)
                  /\ \A r \in DOMAIN rows : rows'[r] = rows[r]
<1>1. /\ rows' \in Seq(Row) /\ Len(rows') = Len(rows) + 1 /\ Len(rows) \in Nat
      /\ \A r \in DOMAIN rows : rows'[r] = rows[r]
      /\ rows'[Len(rows')] = x
      /\ DOMAIN rows' = DOMAIN rows \union {Len(rows')} /\ Len(rows') \notin DOMAIN rows
  BY DEF AuditTypeOK
<1> QED
  BY <1>1

LEMMA RowPut ==
    ASSUME AuditTypeOK, NEW t \in Tx, NEW x \in Row, Puts(t, x)
    PROVE  /\ tx[t].pick \in DOMAIN rows /\ DOMAIN rows' = DOMAIN rows
           /\ rows'[tx[t].pick] = x /\ Len(rows') = Len(rows)
           /\ \A r \in DOMAIN rows : r # tx[t].pick => rows'[r] = rows[r]
BY DEF AuditTypeOK, Puts

LEMMA NewRowType == ASSUME NEW m \in Msg PROVE NewRow(m) \in Row
BY DEF NewRow, Row, Msg

\* What a click and a launch that expires make of the rows
LEMMA LaunchRows ==
    ASSUME AuditTypeOK, \/ \E d \in Device : RegisterLaunch(d)
                        \/ \E q \in DOMAIN rows : Expire(q)
    PROVE  /\ UNCHANGED <<nonces, tx, sent, told, hurried, crossed>>
           /\ DOMAIN rows \subseteq DOMAIN rows'
           /\ \A r \in DOMAIN rows' :
                 \/ r \notin DOMAIN rows /\ rows'[r].session = None /\ ~rows'[r].ended
                 \/ /\ r \in DOMAIN rows
                    /\ rows'[r].session = rows[r].session /\ rows'[r].status = rows[r].status
                    /\ rows'[r].ended = rows[r].ended /\ rows'[r].target = rows[r].target
                    /\ rows'[r] = rows[r] \/ rows[r].status = "launched"
<1>1. ASSUME NEW d \in Device, RegisterLaunch(d)
      PROVE  /\ DOMAIN rows \subseteq DOMAIN rows'
             /\ \A r \in DOMAIN rows' :
                   \/ r \notin DOMAIN rows /\ rows'[r].session = None /\ ~rows'[r].ended
                   \/ r \in DOMAIN rows /\ rows'[r] = rows[r]
  <2> DEFINE x == [target |-> d, session |-> None, status |-> "launched", fresh |-> TRUE,
                   ended |-> FALSE]
  <2>1. x \in Row /\ x.session = None /\ ~x.ended /\ rows' = Append(rows, x)
    BY <1>1 DEF RegisterLaunch, Row
  <2> HIDE DEF x
  <2> QED
    BY <2>1, RowAppended
<1>2. ASSUME NEW q \in DOMAIN rows, Expire(q)
      PROVE  /\ DOMAIN rows' = DOMAIN rows
             /\ \A r \in DOMAIN rows :
                    /\ rows'[r].session = rows[r].session /\ rows'[r].status = rows[r].status
                    /\ rows'[r].ended = rows[r].ended /\ rows'[r].target = rows[r].target
                    /\ rows'[r] = rows[r] \/ rows[r].status = "launched"
  BY <1>2 DEF Expire, AuditTypeOK, Row
<1> QED
  BY <1>1, <1>2 DEF RegisterLaunch, Expire

LEMMA RowsHandledStep ==
    ASSUME AuditTypeOK, HandledOnce, FoundFits, RowsAreHandled, AuditNext
    PROVE  RowsAreHandled'
<1>1. CASE (\E d \in Device : RegisterLaunch(d)) \/ \E q \in DOMAIN rows : Expire(q)
  BY <1>1, LaunchRows DEF RowsAreHandled
<1>2. ASSUME NEW t \in Tx, Commit(t) PROVE RowsAreHandled'
  <2> DEFINE m == tx[t].msg
  <2>1. m \in Msg /\ nonces' = nonces \union {m} /\ m.session # None
        /\ m = [session |-> m.session, action |-> m.action]
    BY <1>2, CommitRows DEF Commit, Msg
  <2>2. \A n \in nonces : n.action = "new" =>
          \E r \in DOMAIN rows' : rows'[r].session = n.session /\ rows'[r].target = Target[n.session]
    <3>1. \A n \in nonces : n.session # None
      BY DEF AuditTypeOK, Msg
    <3> QED
      BY <1>2, <3>1, RowsStay DEF RowsAreHandled, AuditNext, TxStep
  <2>3. CASE rows' = Append(rows, NewRow(m)) /\ m.action = "new"
    <3>1. NewRow(m).session = m.session /\ NewRow(m).target = Target[m.session] /\ ~NewRow(m).ended
      BY DEF NewRow
    <3>2. PICK n : /\ n \notin DOMAIN rows /\ DOMAIN rows' = DOMAIN rows \union {n}
                   /\ rows'[n] = NewRow(m) /\ \A r \in DOMAIN rows : rows'[r] = rows[r]
      BY <2>1, <2>3, RowAppended, NewRowType
    <3> HIDE DEF m
    <3> QED
      BY <2>1, <2>2, <2>3, <3>1, <3>2 DEF RowsAreHandled
  <2>4. CASE rows' = rows /\ m.action # "new"
    BY <2>1, <2>4 DEF RowsAreHandled
  <2>5. ASSUME NEW x \in Row, Puts(t, x) PROVE RowsAreHandled'
    <3> DEFINE p == tx[t].pick
    <3>1. /\ p \in DOMAIN rows /\ DOMAIN rows' = DOMAIN rows /\ rows'[p] = x
          /\ \A r \in DOMAIN rows : r # p => rows'[r] = rows[r]
      BY <2>5, RowPut
    <3>2. /\ x.session = m.session /\ x.target = rows[p].target
          /\ x.ended => m.action = "close" \/ rows[p].ended
          /\ m.action = "new" => rows[p].status = "launched"
          /\ m.action # "new" => rows[p].session = m.session
      BY <2>5 DEF Puts
    <3>3. m.action = "new" => rows[p].target = Target[m.session]
      BY <1>2, <3>1 DEF Commit, FoundFits, Concerns, AuditTypeOK
    <3>4. m.action = "new" => ~rows[p].ended
      BY <3>1, <3>2 DEF RowsAreHandled, AuditTypeOK
    <3> HIDE DEF m, p
    <3>5. \A r \in DOMAIN rows' :
             /\ rows'[r].session # None => [session |-> rows'[r].session, action |-> "new"] \in nonces'
             /\ rows'[r].ended => /\ rows'[r].session # None
                                  /\ [session |-> rows'[r].session, action |-> "close"] \in nonces'
      <4> SUFFICES ASSUME NEW r \in DOMAIN rows'
                   PROVE  /\ rows'[r].session # None =>
                                [session |-> rows'[r].session, action |-> "new"] \in nonces'
                          /\ rows'[r].ended =>
                                /\ rows'[r].session # None
                                /\ [session |-> rows'[r].session, action |-> "close"] \in nonces'
        OBVIOUS
      <4>1. CASE r # p
        BY <2>1, <3>1, <4>1 DEF RowsAreHandled
      <4>2. CASE r = p
        BY <2>1, <3>1, <3>2, <3>4, <4>2 DEF RowsAreHandled
      <4> QED
        BY <4>1, <4>2
    <3>6. m.action = "new" => \E r \in DOMAIN rows' :
             rows'[r].session = m.session /\ rows'[r].target = Target[m.session]
      BY <3>1, <3>2, <3>3
    <3> QED
      BY <2>1, <2>2, <3>5, <3>6 DEF RowsAreHandled
  <2> QED
    BY <1>2, <2>3, <2>4, <2>5, CommitRows
<1>3. CASE UNCHANGED <<rows, nonces>>
  BY <1>3 DEF RowsAreHandled
<1> QED
  BY <1>1, <1>2, <1>3 DEF AuditNext, TxStep, Post, InsertNonce, FindRow, LockRow, Abort, counters

LEMMA OneRowStep ==
    ASSUME AuditTypeOK, HandledOnce, FoundFits, RowsAreHandled, OneRowPerSession, AuditNext
    PROVE  OneRowPerSession'
<1>1. CASE (\E d \in Device : RegisterLaunch(d)) \/ \E q \in DOMAIN rows : Expire(q)
  BY <1>1, LaunchRows DEF OneRowPerSession
<1>2. ASSUME NEW t \in Tx, Commit(t) PROVE OneRowPerSession'
  <2> DEFINE m == tx[t].msg
             p == tx[t].pick
  <2>1. m \in Msg /\ m \notin nonces /\ m = [session |-> m.session, action |-> m.action]
    BY <1>2, CommitRows DEF Commit, Msg, HandledOnce, Working
  \* A connection that is new has no row yet.
  <2>2. m.action = "new" => \A r \in DOMAIN rows : rows[r].session # m.session
    BY <2>1 DEF RowsAreHandled, Msg
  <2>3. CASE rows' = Append(rows, NewRow(m)) /\ m.action = "new"
    <3>1. NewRow(m).session = m.session
      BY DEF NewRow
    <3> HIDE DEF m, p
    <3> QED
      BY <2>1, <2>2, <2>3, <3>1, RowAppended, NewRowType DEF OneRowPerSession
  <2>4. ASSUME NEW x \in Row, Puts(t, x) PROVE OneRowPerSession'
    <3>1. /\ p \in DOMAIN rows /\ DOMAIN rows' = DOMAIN rows /\ rows'[p] = x
          /\ \A r \in DOMAIN rows : r # p => rows'[r] = rows[r]
      BY <2>4, RowPut
    <3>2. x.session = m.session /\ (m.action # "new" => rows[p].session = m.session)
      BY <2>4 DEF Puts
    <3> HIDE DEF m, p
    <3> QED
      BY <2>2, <3>1, <3>2 DEF OneRowPerSession
  <2> QED
    BY <1>2, <2>3, <2>4, CommitRows DEF OneRowPerSession
<1>3. CASE rows' = rows
  BY <1>3 DEF OneRowPerSession
<1> QED
  BY <1>1, <1>2, <1>3 DEF AuditNext, TxStep, Post, InsertNonce, FindRow, LockRow, Abort, counters

\* The steps of a transaction that leave the rows alone
LEMMA QuietMoves ==
    ASSUME AuditTypeOK, NEW t \in Tx, InsertNonce(t) \/ Abort(t) \/ \E m \in Msg : Post(t, m)
    PROVE  /\ UNCHANGED <<rows, nonces, crossed>>
           /\ tx'[t].pc \in {"idle", "nonce", "find"} /\ \A u \in Tx \ {t} : tx'[u] = tx[u]
           /\ tx'[t].pick = 0 \/ (tx[t].pc = "nonce" /\ tx'[t].pick = tx[t].pick)
<1>1. tx \in [Tx -> TxState] /\ tx[t] \in TxState
  BY DEF AuditTypeOK
<1>2. \/ tx' = [tx EXCEPT ![t] = NoTx]
      \/ tx[t].pc = "nonce" /\ tx' = [tx EXCEPT ![t].pc = "find"]
      \/ \E m \in Msg : tx' = [tx EXCEPT ![t] = [NoTx EXCEPT !.pc = "nonce", !.msg = m]]
  BY DEF Post, InsertNonce, Abort
<1>3. CASE tx' = [tx EXCEPT ![t] = NoTx]
  BY <1>1, <1>3 DEF NoTx, Post, InsertNonce, Abort
<1>4. CASE tx[t].pc = "nonce" /\ tx' = [tx EXCEPT ![t].pc = "find"]
  BY <1>1, <1>4 DEF TxState, Post, InsertNonce, Abort
<1>5. ASSUME NEW m \in Msg, tx' = [tx EXCEPT ![t] = [NoTx EXCEPT !.pc = "nonce", !.msg = m]]
      PROVE  /\ tx'[t].pc = "nonce" /\ tx'[t].pick = 0
             /\ \A u \in Tx \ {t} : tx'[u] = tx[u]
  BY <1>1, <1>5 DEF NoTx
<1> QED
  BY <1>2, <1>3, <1>4, <1>5 DEF Post, InsertNonce, Abort

LEMMA FindMoves ==
    ASSUME AuditTypeOK, NEW t \in Tx, FindRow(t)
    PROVE  /\ tx[t].pc = "find" /\ tx'[t].pc = "lock" /\ tx'[t].msg = tx[t].msg
           /\ tx'[t].cand = Found(tx[t].msg) /\ tx'[t].seen = tx'[t].cand
           /\ tx'[t].pick = tx[t].pick
           /\ \A u \in Tx \ {t} : tx'[u] = tx[u]
           /\ UNCHANGED <<rows, nonces, sent, told, hurried, crossed>>
<1>1. tx \in [Tx -> TxState] /\ tx[t] \in TxState
  BY DEF AuditTypeOK
<1> DEFINE f == Found(tx[t].msg)
<1>2. tx' = [tx EXCEPT ![t].pc = "lock", ![t].cand = f, ![t].seen = f]
  BY DEF FindRow
<1> HIDE DEF f
<1>3. /\ tx'[t].pc = "lock" /\ tx'[t].msg = tx[t].msg /\ tx'[t].cand = f /\ tx'[t].seen = f
      /\ tx'[t].pick = tx[t].pick /\ \A u \in Tx \ {t} : tx'[u] = tx[u]
  BY <1>1, <1>2 DEF TxState
<1> QED
  BY <1>3 DEF FindRow, f

LEMMA LockMoves ==
    ASSUME AuditTypeOK, NEW t \in Tx, LockRow(t)
    PROVE  /\ tx[t].pc = "lock" /\ tx'[t].msg = tx[t].msg /\ tx'[t].seen = tx[t].seen
           /\ \/ /\ tx[t].cand = {} /\ tx'[t].pc = "commit" /\ tx'[t].pick = tx[t].pick
              \/ \E r \in tx[t].cand :
                    /\ ~Locked(t, r)
                    /\ \/ /\ StillRight(t, r) /\ tx'[t].pc = "commit" /\ tx'[t].pick = r
                       \/ /\ ~StillRight(t, r) /\ tx'[t].pc = "lock" /\ tx'[t].pick = tx[t].pick
                          /\ tx'[t].cand = tx[t].cand \ {r}
           /\ \A u \in Tx \ {t} : tx'[u] = tx[u]
           /\ UNCHANGED <<rows, nonces, sent, told, hurried, crossed>>
<1>1. tx \in [Tx -> TxState] /\ tx[t] \in TxState
  BY DEF AuditTypeOK
<1>2. CASE tx[t].cand = {} /\ tx' = [tx EXCEPT ![t].pc = "commit"]
  BY <1>1, <1>2 DEF LockRow, TxState
<1>3. ASSUME NEW r \in tx[t].cand, tx' = [tx EXCEPT ![t].pc = "commit", ![t].pick = r]
      PROVE  /\ tx'[t].msg = tx[t].msg /\ tx'[t].seen = tx[t].seen
             /\ tx'[t].pc = "commit" /\ tx'[t].pick = r /\ \A u \in Tx \ {t} : tx'[u] = tx[u]
  BY <1>1, <1>3 DEF TxState
<1>4. ASSUME NEW r \in tx[t].cand, tx' = [tx EXCEPT ![t].cand = @ \ {r}]
      PROVE  /\ tx'[t].msg = tx[t].msg /\ tx'[t].seen = tx[t].seen /\ tx'[t].pc = tx[t].pc
             /\ tx'[t].pick = tx[t].pick /\ tx'[t].cand = tx[t].cand \ {r}
             /\ \A u \in Tx \ {t} : tx'[u] = tx[u]
  BY <1>1, <1>4 DEF TxState
<1>5. CASE ~(tx[t].cand = {} /\ tx' = [tx EXCEPT ![t].pc = "commit"])
  <2>1. PICK r \in tx[t].cand :
            /\ ~Locked(t, r)
            /\ tx' = IF StillRight(t, r) THEN [tx EXCEPT ![t].pc = "commit", ![t].pick = r]
                     ELSE [tx EXCEPT ![t].cand = @ \ {r}]
    BY <1>5, NewestFound DEF LockRow
  <2>2. tx[t].pc = "lock" /\ UNCHANGED <<rows, nonces, sent, told, hurried, crossed>>
    BY DEF LockRow
  <2>3. CASE StillRight(t, r)
    BY <1>3, <2>1, <2>2, <2>3
  <2>4. CASE ~StillRight(t, r)
    BY <1>4, <2>1, <2>2, <2>4
  <2> QED
    BY <2>3, <2>4
<1> QED
  BY <1>2, <1>5

\* Concerns and StillRight in the next state
WillConcern(t, r) ==
    /\ r \in DOMAIN rows'
    /\ IF tx'[t].msg.action = "new" THEN rows'[r].target = Target[tx'[t].msg.session]
       ELSE rows'[r].session = tx'[t].msg.session
WillBeRight(t, r) == tx'[t].msg.action = "new" => rows'[r].status = "launched"

\* What a row is about does not change for who has found it.
LEMMA ConcernsStay ==
    ASSUME AuditTypeOK, HandledOnce, FoundFits, AuditNext, NEW t \in Tx, tx[t].pc # "idle",
           tx'[t].msg = tx[t].msg, NEW r, Concerns(t, r)
    PROVE  WillConcern(t, r)
<1>1. tx[t].msg \in Msg /\ tx[t].msg.session # None
  BY DEF HandledOnce, AuditTypeOK, Msg
<1> QED
  BY <1>1, RowsStay DEF Concerns, WillConcern

LEMMA FoundStep ==
    ASSUME AuditTypeOK, HandledOnce, FoundFits, AuditNext
    PROVE  FoundFits'
<1> DEFINE Fits(t) == /\ tx'[t].pc = "lock" => \A r \in tx'[t].cand : WillConcern(t, r)
                      /\ tx'[t].pc = "commit" /\ tx'[t].pick # 0 =>
                            WillConcern(t, tx'[t].pick) /\ WillBeRight(t, tx'[t].pick)
                      /\ tx'[t].pc # "commit" => tx'[t].pick = 0
           Own(t, u) == tx'[t].pc = "commit" /\ tx'[u].pc = "commit" /\ tx'[t].pick = tx'[u].pick
                        /\ tx'[t].pick # 0 => t = u
<1>1. (\A t \in Tx : Fits(t)) /\ (\A t, u \in Tx : Own(t, u)) => FoundFits'
  BY DEF FoundFits, Concerns, StillRight, WillConcern, WillBeRight
\* Who does nothing keeps what it has, unless its row is written.
<1>2. ASSUME NEW t \in Tx, tx'[t] = tx[t],
             tx[t].pc = "commit" /\ tx[t].pick # 0 =>
                 rows'[tx[t].pick].status = rows[tx[t].pick].status
      PROVE  Fits(t)
  <2>1. tx[t].pc = "lock" => \A r \in tx[t].cand : WillConcern(t, r)
    BY <1>2, ConcernsStay DEF FoundFits
  <2>2. tx[t].pc = "commit" /\ tx[t].pick # 0 =>
            WillConcern(t, tx[t].pick) /\ StillRight(t, tx[t].pick)
    BY <1>2, ConcernsStay DEF FoundFits
  <2>3. tx[t].pc = "commit" /\ tx[t].pick # 0 => WillBeRight(t, tx[t].pick)
    BY <1>2, <2>2 DEF StillRight, WillBeRight
  <2>4. tx[t].pc # "commit" => tx[t].pick = 0
    BY DEF FoundFits
  <2> HIDE DEF FoundFits
  <2> QED
    BY <1>2, <2>1, <2>2, <2>3, <2>4
<1>3. CASE (\E d \in Device : RegisterLaunch(d)) \/ \E q \in DOMAIN rows : Expire(q)
  <2>1. UNCHANGED tx /\ \A r \in DOMAIN rows : rows'[r].status = rows[r].status
    BY <1>3, LaunchRows
  <2>2. \A t \in Tx : Fits(t)
    BY <1>2, <2>1 DEF FoundFits, Concerns
  <2>3. \A t, u \in Tx : Own(t, u)
    BY <2>1 DEF FoundFits
  <2> QED
    BY <1>1, <2>2, <2>3
<1>4. ASSUME NEW t \in Tx, Commit(t) PROVE FoundFits'
  <2>1. tx' = [tx EXCEPT ![t] = NoTx] /\ tx[t].pc = "commit"
    BY <1>4 DEF Commit
  <2>2. tx'[t].pc = "idle" /\ tx'[t].pick = 0 /\ \A u \in Tx \ {t} : tx'[u] = tx[u]
    BY <2>1 DEF NoTx, AuditTypeOK
  <2>3. ASSUME NEW u \in Tx \ {t}, tx[u].pc = "commit", tx[u].pick # 0
        PROVE  rows'[tx[u].pick].status = rows[tx[u].pick].status
    <3>1. tx[u].pick # tx[t].pick /\ tx[u].pick \in DOMAIN rows
      BY <2>1, <2>3 DEF FoundFits, Concerns
    <3>2. rows'[tx[u].pick] = rows[tx[u].pick]
      BY <1>4, <3>1, CommitRows, RowAppended, RowPut, NewRowType
    <3> QED
      BY <3>2
  <2>4. \A u \in Tx : Fits(u)
    BY <1>2, <2>2, <2>3
  <2>5. \A u, v \in Tx : Own(u, v)
    BY <2>2 DEF FoundFits
  <2> QED
    BY <1>1, <2>4, <2>5
\* The other steps of a transaction leave the rows alone.
<1>5. ASSUME NEW t \in Tx, rows' = rows, \A u \in Tx \ {t} : tx'[u] = tx[u], Fits(t),
             tx'[t].pc = "commit" /\ tx'[t].pick # 0 => ~Locked(t, tx'[t].pick)
      PROVE  FoundFits'
  <2>1. \A u \in Tx : Fits(u)
    BY <1>2, <1>5
  <2>2. \A u \in Tx \ {t} : Own(t, u) /\ Own(u, t)
    BY <1>5 DEF Locked
  <2>3. \A u, v \in Tx : Own(u, v)
    BY <1>5, <2>2 DEF FoundFits
  <2> QED
    BY <1>1, <2>1, <2>3
<1>6. ASSUME NEW t \in Tx, InsertNonce(t) \/ Abort(t) \/ \E m \in Msg : Post(t, m)
      PROVE  FoundFits'
  <2>1. /\ rows' = rows /\ tx'[t].pc \notin {"lock", "commit"} /\ tx'[t].pick = 0
        /\ \A u \in Tx \ {t} : tx'[u] = tx[u]
    BY <1>6, QuietMoves DEF FoundFits
  <2>2. Fits(t)
    BY <2>1
  <2> QED
    BY <1>5, <2>1, <2>2
<1>7. ASSUME NEW t \in Tx, FindRow(t) PROVE FoundFits'
  <2>1. \A r \in Found(tx[t].msg) : Concerns(t, r)
    BY NewestFound DEF Found, Launches, OpenRows, Concerns
  <2>2. Fits(t)
    BY <1>7, <2>1, FindMoves DEF Concerns, WillConcern, FoundFits
  <2> QED
    BY <1>5, <1>7, <2>2, FindMoves
<1>8. ASSUME NEW t \in Tx, LockRow(t) PROVE FoundFits'
  <2>1. /\ tx[t].pick = 0 /\ rows' = rows /\ tx'[t].msg = tx[t].msg
        /\ \A r \in tx[t].cand : Concerns(t, r)
    BY <1>8, LockMoves DEF FoundFits
  <2>2. Fits(t)
    BY <1>8, <2>1, LockMoves DEF Concerns, StillRight, WillConcern, WillBeRight
  <2>3. tx'[t].pc = "commit" /\ tx'[t].pick # 0 => ~Locked(t, tx'[t].pick)
    BY <1>8, <2>1, LockMoves
  <2> QED
    BY <1>5, <1>8, <2>1, <2>2, <2>3, LockMoves
<1> QED
  BY <1>3, <1>4, <1>6, <1>7, <1>8 DEF AuditNext, TxStep

LEMMA PassedStep ==
    ASSUME AuditTypeOK, HandledOnce, FoundFits, PassedIsTaken, AuditNext
    PROVE  PassedIsTaken'
<1> USE DEF Handles, Working
<1> DEFINE Taken(t) == tx'[t].pc \in {"find", "lock", "commit"} /\ tx'[t].msg.action = "new" =>
        /\ tx'[t].pc = "lock" => \A r \in tx'[t].seen \ tx'[t].cand : rows'[r].status # "launched"
        /\ tx'[t].pc = "commit" /\ tx'[t].pick = 0 =>
              \A r \in tx'[t].seen : rows'[r].status # "launched"
<1>1. \A r \in DOMAIN rows : rows[r].status # "launched" => rows'[r].status # "launched"
  BY RowsStay
<1>2. \A t \in Tx : tx[t].seen \subseteq DOMAIN rows
  BY DEF AuditTypeOK
<1>3. ASSUME NEW t \in Tx, tx'[t] = tx[t] PROVE Taken(t)
  BY <1>1, <1>2, <1>3 DEF PassedIsTaken
<1>4. ASSUME NEW t \in Tx, tx'[t].pc \notin {"lock", "commit"} \/ Taken(t),
             \A u \in Tx \ {t} : tx'[u] = tx[u]
      PROVE  PassedIsTaken'
  BY <1>3, <1>4 DEF PassedIsTaken
<1>5. ASSUME NEW t \in Tx, InsertNonce(t) \/ Abort(t) \/ \E m \in Msg : Post(t, m)
      PROVE  PassedIsTaken'
  BY <1>4, <1>5, QuietMoves
<1>6. ASSUME NEW t \in Tx, FindRow(t) PROVE PassedIsTaken'
  <2>1. Taken(t)
    BY <1>6, FindMoves
  <2> QED
    BY <1>4, <1>6, <2>1, FindMoves
<1>7. ASSUME NEW t \in Tx, LockRow(t) PROVE PassedIsTaken'
  <2>1. \A r \in tx[t].cand : r # 0
    BY <1>7 DEF LockRow, FoundFits, Concerns, AuditTypeOK
  <2>2. Taken(t)
    BY <1>1, <1>2, <1>7, <2>1, LockMoves DEF PassedIsTaken, StillRight
  <2> QED
    BY <1>4, <1>7, <2>2, LockMoves
<1>8. ASSUME NEW t \in Tx, Commit(t) PROVE PassedIsTaken'
  <2>1. tx'[t].pc = "idle" /\ \A u \in Tx \ {t} : tx'[u] = tx[u]
    BY <1>8 DEF Commit, NoTx, AuditTypeOK
  <2> QED
    BY <1>4, <2>1
<1>9. CASE tx' = tx
  BY <1>3, <1>9 DEF PassedIsTaken
<1> QED
  BY <1>5, <1>6, <1>7, <1>8, <1>9 DEF AuditNext, TxStep, RegisterLaunch, Expire

\* Reaches in the next state
WillReach(t, r) ==
    \/ tx'[t].pc = "lock" /\ r \in tx'[t].cand
    \/ tx'[t].pc = "commit" /\ r = tx'[t].pick

LEMMA CrossedStep ==
    ASSUME AuditTypeOK, HandledOnce, FoundFits, ClosedIsCrossed, AuditNext
    PROVE  ClosedIsCrossed'
<1> DEFINE Crosses(t) ==
        tx'[t].pc \in {"find", "lock", "commit"} /\ tx'[t].msg.action = "peer" =>
            \A r \in DOMAIN rows' :
                WillReach(t, r) /\ rows'[r].ended => tx'[t].msg.session \in crossed'
<1>1. (\A t \in Tx : Crosses(t)) => ClosedIsCrossed'
  BY DEF ClosedIsCrossed, Handles, Working, Reaches, WillReach
<1>2. 0 \notin DOMAIN rows /\ 0 \notin DOMAIN rows' /\ crossed \subseteq crossed'
  <2>1. rows \in Seq(Row) /\ rows' \in Seq(Row)
    BY RowsStay DEF AuditTypeOK
  <2>2. crossed \subseteq crossed'
    BY DEF AuditNext, RegisterLaunch, Expire, Post, TxStep, InsertNonce, FindRow, LockRow, Commit,
       Abort
  <2> QED
    BY <2>1, <2>2
<1>3. ASSUME NEW t \in Tx, tx'[t] = tx[t],
             \A r \in DOMAIN rows : Reaches(t, r) /\ rows'[r].ended /\ tx[t].msg.action = "peer"
                 => rows[r].ended \/ tx[t].msg.session \in crossed'
      PROVE  Crosses(t)
  <2> SUFFICES ASSUME Handles(t, "peer"), NEW r \in DOMAIN rows', Reaches(t, r), rows'[r].ended
               PROVE  tx[t].msg.session \in crossed'
    BY <1>3 DEF WillReach, Reaches, Handles, Working
  <2>1. r \in DOMAIN rows
    BY <1>2 DEF Reaches, FoundFits, Concerns
  <2> QED
    BY <1>2, <1>3, <2>1 DEF ClosedIsCrossed, Handles
<1>4. CASE (\E d \in Device : RegisterLaunch(d)) \/ \E q \in DOMAIN rows : Expire(q)
  <2>1. UNCHANGED tx /\ \A r \in DOMAIN rows : rows'[r].ended = rows[r].ended
    BY <1>4, LaunchRows
  <2> QED
    BY <1>1, <1>3, <2>1
<1>5. ASSUME NEW t \in Tx, rows' = rows, Crosses(t), \A u \in Tx \ {t} : tx'[u] = tx[u]
      PROVE  ClosedIsCrossed'
  <2>1. \A u \in Tx \ {t} : Crosses(u)
    BY <1>3, <1>5
  <2> QED
    BY <1>1, <1>5, <2>1
<1>6. ASSUME NEW t \in Tx, InsertNonce(t) \/ Abort(t) \/ \E m \in Msg : Post(t, m)
      PROVE  ClosedIsCrossed'
  <2>1. Crosses(t)
    BY <1>6, QuietMoves DEF WillReach
  <2> QED
    BY <1>5, <1>6, <2>1, QuietMoves
<1>7. ASSUME NEW t \in Tx, FindRow(t) PROVE ClosedIsCrossed'
  <2>1. tx[t].msg.action = "peer" => \A r \in Found(tx[t].msg) : ~rows[r].ended
    BY NewestFound DEF Found, OpenRows
  <2>2. Crosses(t)
    BY <1>7, <2>1, FindMoves DEF WillReach
  <2> QED
    BY <1>5, <1>7, <2>2, FindMoves
<1>8. ASSUME NEW t \in Tx, LockRow(t) PROVE ClosedIsCrossed'
  <2>1. \A r \in DOMAIN rows' : WillReach(t, r) => Reaches(t, r)
    BY <1>2, <1>8, LockMoves DEF WillReach, Reaches, FoundFits
  <2>2. Crosses(t)
    BY <1>2, <1>8, <2>1, LockMoves DEF ClosedIsCrossed, Handles, Working
  <2> QED
    BY <1>5, <1>8, <2>2, LockMoves
\* A commit ends a row that nobody else has locked; a peer message that waits for it crosses.
<1>9. ASSUME NEW t \in Tx, Commit(t) PROVE ClosedIsCrossed'
  <2>1. tx[t].pc = "commit" /\ tx'[t].pc = "idle" /\ \A u \in Tx \ {t} : tx'[u] = tx[u]
    BY <1>9 DEF Commit, NoTx, AuditTypeOK
  <2>2. ASSUME NEW u \in Tx \ {t}, NEW r \in DOMAIN rows, Reaches(u, r), rows'[r].ended,
               tx[u].msg.action = "peer", ~rows[r].ended
        PROVE  tx[u].msg.session \in crossed'
    <3>1. PICK x \in Row : Puts(t, x) /\ r = tx[t].pick
      <4>1. rows'[r] # rows[r]
        BY <2>2
      <4> QED
        BY <1>9, <4>1, CommitRows, RowAppended, RowPut, NewRowType
    <3>2. tx[t].msg.action = "close" /\ rows[r].session = tx[t].msg.session
      BY <2>2, <3>1, RowPut DEF Puts
    <3>3. tx[u].pc = "lock" /\ r \in tx[u].cand /\ Concerns(u, r)
      BY <1>2, <2>1, <2>2, <3>1 DEF Reaches, FoundFits
    <3>4. tx[u].msg \in Msg /\ tx[u].msg.session = tx[t].msg.session
      BY <2>2, <3>2, <3>3 DEF HandledOnce, AuditTypeOK, Concerns
    <3>5. tx[u].msg = [session |-> tx[t].msg.session, action |-> "peer"]
      BY <2>2, <3>4 DEF Msg
    <3>6. PeerWaits(tx[t].msg.session, tx[t].pick)
      BY <3>1, <3>3, <3>5 DEF PeerWaits
    <3> QED
      BY <1>9, <3>2, <3>4, <3>6 DEF Commit
  <2>3. Crosses(t)
    BY <2>1
  <2>4. \A u \in Tx \ {t} : Crosses(u)
    BY <1>3, <2>1, <2>2
  <2> QED
    BY <1>1, <2>3, <2>4
<1> QED
  BY <1>4, <1>6, <1>7, <1>8, <1>9 DEF AuditNext, TxStep

LEMMA InTimeStep ==
    ASSUME AuditTypeOK, HandledOnce, RowsAreHandled, OneRowPerSession, FoundFits, ClosedInTime,
           AuditNext
    PROVE  ClosedInTime'
<1> DEFINE Posted == \A m \in sent : /\ [m EXCEPT !.action = "new"] \in sent
                                     /\ m.session \notin hurried => Before(m) \intersect sent \subseteq told
           Closed == \A m \in nonces : m.action = "close" /\ m.session \notin hurried =>
                         \E r \in DOMAIN rows :
                            rows[r].session = m.session /\ rows[r].ended /\ rows[r].status = "closed"
           Finds(t) == tx[t].pc \in {"find", "lock", "commit"} /\ tx[t].msg.action = "close"
                       /\ tx[t].msg.session \notin hurried =>
                           /\ tx[t].pc = "lock" => tx[t].cand # {}
                           /\ tx[t].pc = "commit" => tx[t].pick # 0
<1>1. /\ Posted /\ Closed /\ \A t \in Tx : Finds(t)
      /\ Posted' /\ Closed' /\ (\A t \in Tx : Finds(t)') => ClosedInTime'
  BY DEF ClosedInTime, Handles, Working
<1>2. hurried \subseteq hurried' /\ told \subseteq told' /\ (sent' = sent \/ \E t \in Tx, m \in Msg : Post(t, m))
  BY DEF AuditNext, RegisterLaunch, Expire, Post, TxStep, InsertNonce, FindRow, LockRow, Commit,
     Abort, Answer
<1>3. sent \subseteq Msg /\ nonces \subseteq sent /\ told \subseteq nonces
  BY DEF AuditTypeOK, HandledOnce
<1>4. Posted'
  <2>1. CASE sent' = sent
    BY <1>1, <1>2, <2>1 DEF Before
  <2>2. ASSUME NEW t \in Tx, NEW m \in Msg, Post(t, m) PROVE Posted'
    <3>1. /\ m \in sent \/ ((m.action # "new" => [m EXCEPT !.action = "new"] \in sent)
                           /\ \A p \in sent : m \notin Before(p))
          /\ sent' = sent \union {m} /\ told' = told
          /\ m.session \notin hurried' => Before(m) \intersect sent \subseteq told
      BY <2>2, <1>2 DEF Post
    <3>2. m.action = "new" => [m EXCEPT !.action = "new"] = m
      BY DEF Msg
    <3>3. m \notin Before(m)
      BY BeforeIs
    <3>4. \A n \in sent : /\ [n EXCEPT !.action = "new"] \in sent'
                          /\ n.session \notin hurried' => Before(n) \intersect sent' \subseteq told'
      BY <1>1, <1>2, <3>1
    <3>5. /\ [m EXCEPT !.action = "new"] \in sent'
          /\ m.session \notin hurried' => Before(m) \intersect sent' \subseteq told'
      BY <1>1, <3>1, <3>2, <3>3
    <3>6. \A n \in sent' : /\ [n EXCEPT !.action = "new"] \in sent'
                           /\ n.session \notin hurried' => Before(n) \intersect sent' \subseteq told'
      BY <3>1, <3>4, <3>5
    <3> QED
      BY <3>6 DEF Before
  <2> QED
    BY <1>2, <2>1, <2>2
\* In time, what comes before a message is told when it is posted.
<1>5. ASSUME NEW m \in sent, m.session \notin hurried, NEW p \in sent, p \in Before(m)
      PROVE  p \in nonces
  BY <1>1, <1>3, <1>5
<1>6. ASSUME NEW m \in nonces', m.action = "close", m.session \notin hurried'
      PROVE  \E r \in DOMAIN rows' :
                rows'[r].session = m.session /\ rows'[r].ended /\ rows'[r].status = "closed"
  <2>1. CASE m \in nonces
    <3>1. PICK r \in DOMAIN rows :
              rows[r].session = m.session /\ rows[r].ended /\ rows[r].status = "closed"
      BY <1>1, <1>2, <1>6, <2>1
    <3>2. m \in Msg /\ m.session # None
      BY <1>3, <2>1 DEF Msg
    <3>3. r \in DOMAIN rows' /\ rows'[r].session = m.session /\ rows'[r].ended
      BY <3>1, <3>2, RowsStay
    <3>4. ASSUME NEW t \in Tx, Commit(t), NEW x \in Row, Puts(t, x), r = tx[t].pick
          PROVE  x.status = "closed"
      <4>1. /\ tx[t].msg \in Msg /\ tx[t].msg \in sent /\ tx[t].msg \notin nonces
            /\ tx[t].msg.action \in {"new", "peer", "close"}
        BY <3>4 DEF Commit, HandledOnce, Working, AuditTypeOK, Msg
      <4>2. tx[t].msg.action # "new" /\ tx[t].msg.session = m.session
        BY <3>1, <3>4 DEF Puts
      <4>3. tx[t].msg.action # "peer"
        BY <1>2, <1>3, <1>5, <1>6, <2>1, <3>2, <4>1, <4>2, BeforeIs
      <4> QED
        BY <3>4, <4>1, <4>2, <4>3 DEF Puts
    <3>5. rows'[r].status = "closed"
      <4>1. CASE (\E d \in Device : RegisterLaunch(d)) \/ \E q \in DOMAIN rows : Expire(q)
        BY <3>1, <4>1, LaunchRows
      <4>2. ASSUME NEW t \in Tx, Commit(t) PROVE rows'[r].status = "closed"
        BY <3>1, <3>4, <4>2, CommitRows, RowAppended, RowPut, NewRowType
      <4>3. CASE rows' = rows
        BY <3>1, <4>3
      <4> QED
        BY <4>1, <4>2, <4>3 DEF AuditNext, TxStep, Post, InsertNonce, FindRow, LockRow, Abort, counters
    <3> QED
      BY <3>3, <3>5
  <2>2. CASE m \notin nonces
    <3>1. PICK t \in Tx : Commit(t) /\ m = tx[t].msg
      BY <1>6, <2>2 DEF AuditNext, RegisterLaunch, Expire, Post, TxStep, InsertNonce, FindRow,
         LockRow, Commit, Abort
    <3>2. tx[t].pick # 0
      BY <1>1, <1>2, <1>6, <3>1 DEF Commit
    <3>3. PICK x \in Row : Puts(t, x)
      BY <3>1, <3>2, CommitRows
    <3> QED
      BY <1>6, <3>1, <3>3, RowPut DEF Puts
  <2> QED
    BY <2>1, <2>2
<1>7. Closed'
  BY <1>6
<1>8. ASSUME NEW t \in Tx, tx'[t] = tx[t] PROVE Finds(t)'
  BY <1>1, <1>2, <1>8
<1>9. ASSUME NEW t \in Tx, InsertNonce(t) \/ Abort(t) \/ \E m \in Msg : Post(t, m), NEW u \in Tx
      PROVE  Finds(u)'
  BY <1>8, <1>9, QuietMoves
<1>10. ASSUME NEW t \in Tx, FindRow(t), NEW u \in Tx PROVE Finds(u)'
  <2>1. ASSUME tx[t].msg.action = "close", tx[t].msg.session \notin hurried
        PROVE  Found(tx[t].msg) # {}
    <3> DEFINE m == tx[t].msg
               n == [m EXCEPT !.action = "new"]
    <3>1. m \in sent /\ m \in Msg /\ m \notin nonces
      BY <1>10 DEF FindRow, HandledOnce, Working, AuditTypeOK
    <3>2. n \in sent /\ n \in Msg /\ n.action = "new" /\ n.session = m.session
      BY <1>1, <3>1 DEF Msg
    <3>3. n \in nonces
      <4> HIDE DEF n
      <4> QED
        BY <1>5, <2>1, <3>1, <3>2, BeforeIs
    <3>4. PICK r \in DOMAIN rows : rows[r].session = m.session
      <4> HIDE DEF n
      <4> QED
        BY <3>2, <3>3 DEF RowsAreHandled
    <3>5. ~rows[r].ended
      <4>1. m = [session |-> m.session, action |-> "close"]
        BY <2>1, <3>1 DEF Msg
      <4>2. m \notin nonces /\ rows[r].session = m.session
        BY <3>1, <3>4
      <4> HIDE DEF m, n
      <4>3. [session |-> rows[r].session, action |-> "close"] \notin nonces
        BY <4>1, <4>2
      <4> QED
        BY <3>4, <4>3 DEF RowsAreHandled
    <3>6. m.session # None /\ \A q \in OpenRows(m.session) : q = r
      BY <3>1, <3>4 DEF OneRowPerSession, OpenRows, Msg
    <3>7. r \in OpenRows(m.session) /\ r <= r
      BY <3>4, <3>5 DEF OpenRows, AuditTypeOK
    <3> QED
      BY <2>1, <3>6, <3>7 DEF Found, Newest
  <2>2. Finds(t)'
    BY <1>2, <1>10, <2>1, FindMoves
  <2> QED
    BY <1>8, <1>10, <2>2, FindMoves
<1>11. ASSUME NEW t \in Tx, LockRow(t), NEW u \in Tx PROVE Finds(u)'
  <2>1. \A r \in tx[t].cand : r # 0
    BY <1>11 DEF LockRow, FoundFits, Concerns, AuditTypeOK
  <2>2. Finds(t)'
    BY <1>1, <1>2, <1>11, <2>1, LockMoves DEF StillRight
  <2> QED
    BY <1>8, <1>11, <2>2, LockMoves
<1>12. ASSUME NEW t \in Tx, Commit(t), NEW u \in Tx PROVE Finds(u)'
  <2>1. tx'[t].pc = "idle" /\ \A v \in Tx \ {t} : tx'[v] = tx[v]
    BY <1>12 DEF Commit, NoTx, AuditTypeOK
  <2> QED
    BY <1>8, <2>1
<1>13. \A u \in Tx : Finds(u)'
  BY <1>8, <1>9, <1>10, <1>11, <1>12 DEF AuditNext, TxStep, RegisterLaunch, Expire
<1> QED
  BY <1>1, <1>4, <1>7, <1>13

-----------------------------------------------------------------------------
(* What the audit promises *)

LEMMA AuditInit1 == AuditInit => AuditTypeOK /\ AuditInv
<1> SUFFICES ASSUME AuditInit PROVE AuditTypeOK /\ AuditInv
  OBVIOUS
<1>1. rows = << >> /\ DOMAIN rows = {} /\ rows \in Seq(Row) /\ Len(rows) = 0
  BY DEF AuditInit
<1>2. \A t \in Tx : tx[t] = NoTx
  BY DEF AuditInit
<1>3. NoTx.pc = "idle" /\ NoTx.pick = 0 /\ NoTx.cand = {} /\ NoTx.seen = {} /\ NoTx.msg = None
  BY DEF NoTx
<1>4. AuditTypeOK
  <2>1. tx \in [Tx -> TxState]
    BY NoTxType DEF AuditInit
  <2>2. MaxClicks \in Nat /\ MaxPosts \in Nat /\ MaxFaults \in Nat
    BY BoundsAssumption
  <2> QED
    BY <1>1, <1>2, <1>3, <2>1, <2>2 DEF AuditInit, AuditTypeOK
<1>5. HandledOnce /\ FoundFits /\ PassedIsTaken /\ ClosedIsCrossed /\ ClosedInTime
  BY <1>1, <1>2, <1>3 DEF AuditInit, HandledOnce, FoundFits, PassedIsTaken, ClosedIsCrossed,
     ClosedInTime, Handles, Working
<1>6. RowsAreHandled /\ OneRowPerSession
  BY <1>1 DEF AuditInit, RowsAreHandled, OneRowPerSession
<1> QED
  BY <1>4, <1>5, <1>6 DEF AuditInv

THEOREM AuditInvCorrect == AuditSpec => [](AuditTypeOK /\ AuditInv)
<1>1. AuditTypeOK /\ AuditInv /\ [AuditNext]_auditVars => (AuditTypeOK /\ AuditInv)'
  <2> SUFFICES ASSUME AuditTypeOK, AuditInv, [AuditNext]_auditVars PROVE (AuditTypeOK /\ AuditInv)'
    OBVIOUS
  <2>1. CASE AuditNext
    BY <2>1, AuditTypeStep, HandledStep, RowsHandledStep, OneRowStep, FoundStep, PassedStep,
       CrossedStep, InTimeStep DEF AuditInv
  <2>2. CASE UNCHANGED auditVars
    <3>1. AuditTypeOK'
      BY <2>2, AuditTypeStep DEF AuditInv
    <3>2. AuditInv'
      BY <2>2 DEF auditVars, counters, AuditInv, HandledOnce, RowsAreHandled, OneRowPerSession,
         FoundFits, Concerns, StillRight, PassedIsTaken, ClosedIsCrossed, Reaches, ClosedInTime,
         Handles, Working, Before
    <3> QED
      BY <3>1, <3>2
  <2> QED
    BY <2>1, <2>2
<1> QED
  BY <1>1, AuditInit1, PTL DEF AuditSpec

THEOREM AuditTypeCorrect == AuditSpec => []AuditTypeOK
BY AuditInvCorrect, PTL

\* However often a message is posted, and in whichever transactions, a connection has at most
\* one row.
THEOREM OneRowCorrect == AuditSpec => []OneRowPerSession
<1>1. AuditInv => OneRowPerSession
  BY DEF AuditInv
<1> QED
  BY <1>1, AuditInvCorrect, PTL

\* What a client was told stands in the table, whatever failed and was repeated.
THEOREM AnsweredCorrect == AuditSpec => []AnsweredIsDone
<1>1. AuditTypeOK /\ AuditInv => AnsweredIsDone
  <2> SUFFICES ASSUME AuditTypeOK, AuditInv, NEW s \in Session
               PROVE  /\ Told(s, "new") => \E r \in DOMAIN rows :
                            rows[r].session = s /\ rows[r].target = Target[s]
                      /\ s \notin hurried /\ Told(s, "close") => \E r \in DOMAIN rows :
                            rows[r].session = s /\ rows[r].ended /\ rows[r].status = "closed"
    BY DEF AnsweredIsDone
  <2>1. \A action : Told(s, action) => [session |-> s, action |-> action] \in nonces
    BY DEF Told, AuditInv, HandledOnce
  <2>3. Told(s, "new") => \E r \in DOMAIN rows :
            rows[r].session = s /\ rows[r].target = Target[s]
    <3> DEFINE m == [session |-> s, action |-> "new"]
    <3>1. Told(s, "new") => m \in nonces
      BY <2>1
    <3>2. m.action = "new" /\ m.session = s
      OBVIOUS
    <3> HIDE DEF m
    <3> QED
      BY <3>1, <3>2 DEF AuditInv, RowsAreHandled
  <2>4. s \notin hurried /\ Told(s, "close") => \E r \in DOMAIN rows :
            rows[r].session = s /\ rows[r].ended /\ rows[r].status = "closed"
    <3> DEFINE m == [session |-> s, action |-> "close"]
    <3>1. Told(s, "close") => m \in nonces
      BY <2>1
    <3>2. m.action = "close" /\ m.session = s
      OBVIOUS
    <3> HIDE DEF m
    <3> QED
      BY <3>1, <3>2 DEF AuditInv, ClosedInTime
  <2> QED
    BY <2>3, <2>4
<1> QED
  BY <1>1, AuditInvCorrect, PTL

\* A connection is entered without a launch only if each launch its statement found was taken.
THEOREM LaunchCorrect == AuditSpec => NoLaunchIsWasted
<1> DEFINE A == \A t \in Tx : tx[t].pc = "commit" /\ Len(rows') > Len(rows) /\ tx'[t].pc = "idle" =>
                    \A r \in tx[t].seen : rows[r].status # "launched"
<1>1. AuditTypeOK /\ AuditInv /\ [AuditNext]_auditVars => [A]_auditVars
  <2> SUFFICES ASSUME AuditTypeOK, AuditInv, AuditNext, NEW t \in Tx, tx[t].pc = "commit",
                      Len(rows') > Len(rows), tx'[t].pc = "idle"
               PROVE  \A r \in tx[t].seen : rows[r].status # "launched"
    OBVIOUS
  <2>1. HandledOnce /\ FoundFits /\ PassedIsTaken /\ rows \in Seq(Row) /\ Len(rows) \in Nat
    BY DEF AuditInv, AuditTypeOK
  <2>2. PICK u \in Tx : Commit(u)
    <3>1. rows' # rows /\ tx' # tx
      BY <2>1
    <3> QED
      BY <3>1 DEF AuditNext, TxStep, RegisterLaunch, Expire, Post, InsertNonce, FindRow, LockRow, Abort
  <2>3. u = t
    BY <2>2 DEF Commit, AuditTypeOK
  <2>4. tx[t].pick = 0 /\ tx[t].msg.action = "new" /\ tx[t].msg \in Msg
    BY <2>1, <2>2, <2>3, CommitRows, RowPut
  <2> QED
    BY <2>1, <2>4 DEF PassedIsTaken, Handles, Working
<1> QED
  BY <1>1, AuditInvCorrect, PTL DEF AuditSpec, NoLaunchIsWasted

\* A row that was closed stays as it is, unless the peer message had found it before.
THEOREM ClosedCorrect == AuditSpec => ClosedIsFinal
<1> DEFINE A == \A r \in DOMAIN rows :
                    rows[r].ended /\ rows[r].session \notin crossed => rows'[r] = rows[r]
<1>1. AuditTypeOK /\ AuditInv /\ [AuditNext]_auditVars => [A]_auditVars
  <2> SUFFICES ASSUME AuditTypeOK, AuditInv, AuditNext, NEW r \in DOMAIN rows, rows[r].ended,
                      rows[r].session \notin crossed
               PROVE  rows'[r] = rows[r]
    OBVIOUS
  <2>1. /\ HandledOnce /\ FoundFits /\ ClosedIsCrossed
        /\ rows[r].session # None /\ [session |-> rows[r].session, action |-> "close"] \in nonces
        /\ rows[r].status # "launched"
    BY DEF AuditInv, RowsAreHandled, AuditTypeOK
  <2>2. CASE (\E d \in Device : RegisterLaunch(d)) \/ \E q \in DOMAIN rows : Expire(q)
    BY <2>1, <2>2, LaunchRows
  <2>3. ASSUME NEW t \in Tx, Commit(t) PROVE rows'[r] = rows[r]
    <3>1. /\ tx[t].msg \in Msg /\ tx[t].msg \notin nonces /\ tx[t].pc = "commit"
          /\ tx[t].msg = [session |-> tx[t].msg.session, action |-> tx[t].msg.action]
          /\ tx[t].msg.action \in {"new", "peer", "close"}
      BY <2>1, <2>3, CommitRows DEF Commit, HandledOnce, Working, Msg
    <3>2. ASSUME NEW x \in Row, Puts(t, x), r = tx[t].pick PROVE FALSE
      <4>1. tx[t].msg.action # "new" /\ rows[r].session = tx[t].msg.session
        BY <2>1, <3>2 DEF Puts
      <4>2. tx[t].msg.action # "close"
        BY <2>1, <3>1, <4>1
      <4>3. tx[t].msg.action # "peer"
        BY <2>1, <3>1, <3>2, <4>1 DEF ClosedIsCrossed, Handles, Working, Reaches
      <4> QED
        BY <3>1, <4>1, <4>2, <4>3
    <3> QED
      BY <2>1, <2>3, <3>2, CommitRows, RowAppended, RowPut, NewRowType
  <2>4. CASE rows' = rows
    BY <2>4
  <2> QED
    BY <2>2, <2>3, <2>4 DEF AuditNext, TxStep, Post, InsertNonce, FindRow, LockRow, Abort, counters
<1> QED
  BY <1>1, AuditInvCorrect, PTL DEF AuditSpec, ClosedIsFinal

=============================================================================
