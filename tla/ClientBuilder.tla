---------------------------- MODULE ClientBuilder ----------------------------
(***************************************************************************)
(* The branded client of each tenant: trigger_build queues a build, a      *)
(* background task dispatches a workflow on GitHub Actions, finds the run  *)
(* it started, polls it and stores the executable, and resume_pending      *)
(* picks up the builds a restart interrupted.                              *)
(*                                                                         *)
(* A run is known by its number: GitHub numbers runs upwards, and the only *)
(* trace of who dispatched a run is its position in the list.              *)
(***************************************************************************)
EXTENDS Naturals, Sequences, FiniteSets

CONSTANTS Tenant,
          Brand,        \* brandings an administrator may save
          NoBrand,      \* no branding saved yet
          FileName,     \* <<tenant, branding>> -> file_name, also the name of the artifact
          Slot,         \* numbers of the tasks of a tenant
          Task,         \* bound: the tasks <<tenant, slot>> that may run at a time
          ListingLags,  \* GitHub's list of runs may fail, or be late by a minute
          MaxTasks,     \* bound on tasks beside which a build is triggered
          MaxRuns,      \* bound on workflow runs
          MaxCrashes    \* bound on restarts of plus-api

ASSUME BrandAssumption == NoBrand \notin Brand /\ DOMAIN FileName = Tenant \X Brand
ASSUME TaskAssumption == Task \subseteq Tenant \X Slot
ASSUME ModeAssumption == ListingLags \in BOOLEAN
ASSUME BoundAssumption == MaxRuns \in Nat /\ MaxCrashes \in Nat

VARIABLES
    brand,     \* tenant -> branding saved in tenant_branding
    build,     \* tenant -> build_status
    buildRun,  \* tenant -> build_run_id, 0 if NULL
    file,      \* tenant -> run whose executable is in branded-<tenant>.exe, 0 if none
    torn,      \* tenants whose file is being written
    task,      \* background task -> its state
    posted,    \* dispatches GitHub has accepted but not listed yet
    github,    \* runs in the list, by number
    resuming,  \* resume_pending of this start: "due", "done" or "skipped"
    crashes,
    overlapped \* history: tenants whose build was triggered beside another of theirs

rowVars == <<brand, build, buildRun>>
fileVars == <<file, torn>>
githubVars == <<posted, github>>
vars == <<rowVars, fileVars, task, githubVars, resuming, crashes, overlapped>>

Dispatch == [tenant: Tenant, brand: Brand]
Run == [tenant: Tenant, brand: Brand, state: {"running", "success"}]
RunId == 0..MaxRuns
Step == {"idle", "list", "post", "find", "record", "poll", "download",
         "write", "ready", "fail"}
TaskState == [pc: Step, brand: Brand \union {NoBrand}, before: RunId, run: RunId]

IdleTask == [pc |-> "idle", brand |-> NoBrand, before |-> 0, run |-> 0]

\* Every variable holds a value of its kind.
TypeOK ==
    /\ brand \in [Tenant -> Brand \union {NoBrand}]
    /\ build \in [Tenant -> {"idle", "queued", "building", "ready", "failed"}]
    /\ buildRun \in [Tenant -> RunId]
    /\ file \in [Tenant -> RunId]
    /\ torn \subseteq Tenant
    /\ task \in [Task -> TaskState]
    /\ posted \in Seq(Dispatch)
    /\ github \in Seq(Run) /\ Len(github) + Len(posted) <= MaxRuns
    /\ resuming \in {"due", "done", "skipped"}
    /\ crashes \in 0..MaxCrashes
    /\ overlapped \subseteq Tenant

Init ==
    /\ brand = [t \in Tenant |-> NoBrand]
    /\ build = [t \in Tenant |-> "idle"]
    /\ buildRun = [t \in Tenant |-> 0]
    /\ file = [t \in Tenant |-> 0]
    /\ torn = {}
    /\ task = [k \in Task |-> IdleTask]
    /\ posted = <<>>
    /\ github = <<>>
    /\ resuming = "done"
    /\ crashes = 0
    /\ overlapped = {}

-----------------------------------------------------------------------------
pc(k) == task[k].pc
Goto(k, step) == task' = [task EXCEPT ![k].pc = step]

\* An error ends the task, which forgets what it was about.
Fail(k) == task' = [task EXCEPT ![k] = [IdleTask EXCEPT !.pc = "fail", !.brand = task[k].brand]]

Pending(t) == build[t] \in {"queued", "building"}
Free(t) == {s \in Slot : <<t, s>> \in Task /\ pc(<<t, s>>) = "idle"}
Spare(t) == CHOOSE s \in Free(t) : TRUE

\* A task works for the tenant, or resume_pending may yet start one.
Busy(t) == resuming = "due" \/ \E k \in Task : k[1] = t /\ pc(k) # "idle"

\* Bound: the tenant has a task to spare, beside the one resume_pending may need.
Room(t) ==
    /\ Cardinality({k \in Task : pc(k) # "idle"}) < MaxTasks
    /\ \E s \in Free(t) : resuming = "due" => Free(t) # {s}

\* latest_run_id: the list holds the newest run first.
Latest == Len(github)

\* The artifact of a run has the file name its dispatch asked for.
ArtifactName(r) == FileName[<<github[r].tenant, github[r].brand>>]

-----------------------------------------------------------------------------
(* Requests of the dashboard *)

SaveBranding(t, b) ==
    /\ brand' = [brand EXCEPT ![t] = b]
    /\ UNCHANGED <<build, buildRun, fileVars, task, githubVars, resuming, crashes, overlapped>>

\* build_run_id keeps the number of the previous build.  The page disables the
\* button while a build is in progress; the route does not test it, and whether the
\* task is alone is only noted.
TriggerBuild(t) ==
    /\ brand[t] # NoBrand
    /\ Room(t)
    /\ build' = [build EXCEPT ![t] = "queued"]
    /\ task' = [task EXCEPT ![<<t, Spare(t)>>] = [IdleTask EXCEPT !.pc = "list", !.brand = brand[t]]]
    /\ overlapped' = IF Busy(t) THEN overlapped \union {t} ELSE overlapped \ {t}
    /\ UNCHANGED <<brand, buildRun, fileVars, githubVars, resuming, crashes>>

-----------------------------------------------------------------------------
(* The background task of spawn_build *)

\* The newest run so far, or 0 if GitHub cannot be asked
ListRuns(k) ==
    /\ pc(k) = "list"
    /\ \E before \in {Latest} \union (IF ListingLags THEN {0} ELSE {}) :
          task' = [task EXCEPT ![k].pc = "post", ![k].before = before]
    /\ UNCHANGED <<rowVars, fileVars, githubVars, resuming, crashes, overlapped>>

PostDispatch(k) ==
    /\ pc(k) = "post"
    /\ \/ /\ Len(github) + Len(posted) < MaxRuns
          /\ posted' = Append(posted, [tenant |-> k[1], brand |-> task[k].brand])
          /\ Goto(k, "find")
       \/ UNCHANGED posted /\ Fail(k)
    /\ UNCHANGED <<rowVars, fileVars, github, resuming, crashes, overlapped>>

\* The first run listed that is newer than the newest one seen before is taken for
\* the run of this dispatch; after 20 attempts the task gives up.
FindRun(k) ==
    /\ pc(k) = "find"
    /\ \/ /\ Latest > task[k].before
          /\ task' = [task EXCEPT ![k].pc = "record", ![k].before = 0, ![k].run = Latest]
       \/ ListingLags /\ Fail(k)
    /\ UNCHANGED <<rowVars, fileVars, githubVars, resuming, crashes, overlapped>>

RecordRun(k) ==
    /\ pc(k) = "record"
    /\ build' = [build EXCEPT ![k[1]] = "building"]
    /\ buildRun' = [buildRun EXCEPT ![k[1]] = task[k].run]
    /\ Goto(k, "poll")
    /\ UNCHANGED <<brand, fileVars, githubVars, resuming, crashes, overlapped>>

\* poll_and_store: a run that does not end within 90 minutes counts as failed.
PollRun(k) ==
    /\ pc(k) = "poll"
    /\ \/ github[task[k].run].state = "success" /\ Goto(k, "download")
       \/ github[task[k].run].state # "success" /\ Fail(k)
    /\ UNCHANGED <<rowVars, fileVars, githubVars, resuming, crashes, overlapped>>

\* Mutant: the first artifact, whatever its name.
DownloadFirst(k) ==
    /\ pc(k) = "download"
    /\ torn' = torn \union {k[1]}
    /\ Goto(k, "write")
    /\ UNCHANGED <<rowVars, file, githubVars, resuming, crashes, overlapped>>

\* The artifact is looked up by the file name the task was started with; writing
\* the file begins by truncating it.
Download(k) ==
    /\ pc(k) = "download"
    /\ \/ /\ ArtifactName(task[k].run) = FileName[<<k[1], task[k].brand>>]
          /\ torn' = torn \union {k[1]}
          /\ Goto(k, "write")
       \/ UNCHANGED torn /\ Fail(k)
    /\ UNCHANGED <<rowVars, file, githubVars, resuming, crashes, overlapped>>

WriteFile(k) ==
    /\ pc(k) = "write"
    /\ \/ /\ file' = [file EXCEPT ![k[1]] = task[k].run]
          /\ torn' = torn \ {k[1]}
          /\ Goto(k, "ready")
       \/ UNCHANGED fileVars /\ Fail(k)
    /\ UNCHANGED <<rowVars, githubVars, resuming, crashes, overlapped>>

MarkReady(k) ==
    /\ pc(k) = "ready"
    /\ build' = [build EXCEPT ![k[1]] = "ready"]
    /\ task' = [task EXCEPT ![k] = IdleTask]
    /\ UNCHANGED <<brand, buildRun, fileVars, githubVars, resuming, crashes, overlapped>>

MarkFailed(k) ==
    /\ pc(k) = "fail"
    /\ build' = [build EXCEPT ![k[1]] = "failed"]
    /\ task' = [task EXCEPT ![k] = IdleTask]
    /\ UNCHANGED <<brand, buildRun, fileVars, githubVars, resuming, crashes, overlapped>>

TaskStep(k) ==
    \/ ListRuns(k) \/ PostDispatch(k) \/ FindRun(k) \/ RecordRun(k) \/ PollRun(k)
    \/ Download(k) \/ WriteFile(k) \/ MarkReady(k) \/ MarkFailed(k)

-----------------------------------------------------------------------------
(* Restart *)

\* Tasks are lost; a file being written stays half written.
Crash ==
    /\ crashes < MaxCrashes
    /\ crashes' = crashes + 1
    /\ task' = [k \in Task |-> IdleTask]
    /\ resuming' = "due"
    /\ UNCHANGED <<rowVars, fileVars, githubVars, overlapped>>

\* Mutant: only the builds in state 'queued'.
ResumedQueued == {t \in Tenant : build[t] = "queued" /\ buildRun[t] # 0}

Resumed == {t \in Tenant : Pending(t) /\ buildRun[t] # 0}

\* resume_pending: every pending build with a run id is polled again, under the
\* file name saved by now.
ResumeBuilds ==
    /\ resuming = "due" /\ resuming' = "done"
    /\ \A t \in Resumed : Free(t) # {}
    /\ task' = [k \in Task |->
          IF k[1] \in Resumed /\ k[2] = Spare(k[1])
          THEN [IdleTask EXCEPT !.pc = "poll", !.brand = brand[k[1]], !.run = buildRun[k[1]]]
          ELSE task[k]]
    /\ UNCHANGED <<rowVars, fileVars, githubVars, crashes, overlapped>>

\* The builder is disabled, its configuration is invalid or the table cannot be read:
\* nothing is resumed until the next start.
SkipResume ==
    /\ resuming = "due" /\ resuming' = "skipped"
    /\ UNCHANGED <<rowVars, fileVars, task, githubVars, crashes, overlapped>>

ResumePending == ResumeBuilds \/ SkipResume

-----------------------------------------------------------------------------
(* GitHub Actions *)

RunAppears ==
    /\ posted # <<>>
    /\ posted' = Tail(posted)
    /\ github' = Append(github, [tenant |-> Head(posted).tenant, brand |-> Head(posted).brand,
                                 state |-> "running"])
    /\ UNCHANGED <<rowVars, fileVars, task, resuming, crashes, overlapped>>

\* A run that fails is one that never succeeds: the task gives up on both.
RunSucceeds(r) ==
    /\ github[r].state = "running"
    /\ github' = [github EXCEPT ![r].state = "success"]
    /\ UNCHANGED <<rowVars, fileVars, task, posted, resuming, crashes, overlapped>>

-----------------------------------------------------------------------------
Next ==
    \/ \E t \in Tenant : TriggerBuild(t) \/ \E b \in Brand : SaveBranding(t, b)
    \/ \E k \in Task : TaskStep(k)
    \/ Crash \/ ResumePending
    \/ RunAppears \/ \E r \in DOMAIN github : RunSucceeds(r)

Spec == Init /\ [][Next]_vars

\* tokio runs its tasks, which end every loop after a fixed number of attempts;
\* GitHub lists what it has accepted.
Fairness ==
    /\ \A k \in Task : WF_vars(TaskStep(k))
    /\ WF_vars(ResumePending)
    /\ WF_vars(RunAppears)

FairSpec == Spec /\ Fairness

-----------------------------------------------------------------------------
(* Properties *)

\* Run r made an executable under a name that tenant t may ask for: its own, unless
\* the names of two tenants coincide, which nothing prevents.
Named(t, r) == \E b \in Brand : ArtifactName(r) = FileName[<<t, b>>]

\* What a tenant is offered for download exists, carries a name of that tenant and, if
\* its builds did not overlap, is complete: although tasks take each other's runs and
\* are interrupted while they write, serve_branded never reads a missing file or one
\* made under another name, and a half written one only beside a second build.
ReadyIsOwn ==
    \A t \in Tenant : build[t] = "ready" =>
        /\ file[t] # 0 /\ Named(t, file[t])
        /\ t \notin torn \/ t \in overlapped

\* A build of a tenant that has a run recorded, the one of the build before included,
\* ends through any number of restarts that resume it.
RecordedBuildEnds ==
    \A t \in Tenant : Pending(t) /\ buildRun[t] # 0 ~> ~Pending(t) \/ resuming = "skipped"

=============================================================================
