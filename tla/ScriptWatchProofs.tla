-------------------------- MODULE ScriptWatchProofs --------------------------
(***************************************************************************)
(* Proofs about ScriptWatch, for any devices, runs, mounts and polls: type *)
(* correctness, that a disabled button is watched, that a stopped page     *)
(* shows the final outcomes, and that a verdict never stands beside        *)
(* unfinished devices.                                                     *)
(***************************************************************************)
EXTENDS ScriptWatch, TLAPS

USE ChosenAssumption, BoundsAssumption, NoneAssumption

-----------------------------------------------------------------------------
(* The inductive invariant *)

Pending(r) == post[r].pc \in {"posted", "replied", "failed"}

\* Something of run r is still to come on the page that started it.
Engaged(r) == Pending(r) \/ r \in intervals

\* Only a run that was replied to is polled, and no page is from the future.
PollsFollowPosts ==
    /\ \A r \in intervals : post[r].pc = "over"
    /\ \A a \in answers : post[a.run].pc = "over"
    /\ \A r \in Run : post[r].mount <= mount

\* The ref of a mount holds a run that this mount started.
RefsOwn ==
    \A m \in Mount : pollRef[m] # None =>
        post[pollRef[m]].pc = "over" /\ post[pollRef[m]].mount = m

HistoryIsIdle == tab = "history" => ~running /\ latest = None

\* Without late answers, a mount does one thing at a time, its ref holds its interval,
\* and it is busy with it.
OneAtATime ==
    ~overtaken => \A r, q \in Run :
        Engaged(r) /\ Engaged(q) /\ post[r].mount = post[q].mount => r = q

IntervalsAreHeld == ~overtaken => \A r \in intervals : pollRef[post[r].mount] = r

EngagedIsBusy == ~overtaken => \A r \in Run : Engaged(r) /\ Here(r) => running

\* The run shown last is the one the ref of the mount holds.
LatestIsHeld == latest # None => pollRef[mount] = latest

\* What an answer shows as decided stays so.
AnswersFitOutcome ==
    \A a \in answers : \A d \in Device :
        a.results[d] # "open" => outcome[a.run][d] = a.results[d]

\* Either the last run is still watched, or its final outcome is shown.
LatestIsShown ==
    ~overtaken /\ latest # None /\ ~timedOut =>
        \/ latest \in intervals
        \/ /\ active = [run |-> latest, results |-> outcome[latest]]
           /\ AllFinished(outcome[latest])

WatchInv ==
    /\ PollsFollowPosts /\ RefsOwn /\ HistoryIsIdle /\ BusyIsWatched
    /\ OneAtATime /\ IntervalsAreHeld /\ EngagedIsBusy
    /\ LatestIsHeld /\ AnswersFitOutcome /\ LatestIsShown

\* A verdict is there once all devices have finished, and whoever has read it reads their
\* outcomes later.
BadgeInv ==
    /\ \A r \in Run : /\ post[r].pc \in {"idle", "posted"} => status[r] = "none"
                      /\ status[r] = "closed" => AllFinished(outcome[r])
    /\ \A f \in details : f[1].status = "closed" =>
           /\ status[f[1].run] = "closed"
           /\ f[2] = "read" => AllFinished(f[1].results)
    /\ BadgeIsFinal

-----------------------------------------------------------------------------
(* Type correctness *)

LEMMA PostUpdated ==
    ASSUME TypeOK, NEW r \in Run, NEW pc \in {"replied", "failed", "over"},
           post' = [post EXCEPT ![r].pc = pc]
    PROVE  /\ post' \in [Run -> Post]
           /\ \A q \in Run : /\ post'[q].mount = post[q].mount
                             /\ post'[q].pc = IF q = r THEN pc ELSE post[q].pc
<1>1. /\ [post[r] EXCEPT !.pc = pc] \in Post
      /\ [post[r] EXCEPT !.pc = pc].pc = pc
      /\ [post[r] EXCEPT !.pc = pc].mount = post[r].mount
  BY DEF TypeOK, Post
<1>2. \A q \in Run : post'[q] = IF q = r THEN [post[r] EXCEPT !.pc = pc] ELSE post[q]
  BY DEF TypeOK
<1>3. post' \in [Run -> Post]
  BY <1>1 DEF TypeOK
<1> QED
  BY <1>1, <1>2, <1>3

LEMMA NoOutcomeType == NoOutcome \in Outcome
BY DEF NoOutcome, Outcome

LEMMA TypeInit == Init => TypeOK
<1> SUFFICES ASSUME Init PROVE TypeOK
  OBVIOUS
<1>1. post \in [Run -> Post]
  BY DEF Init, Post, Mount
<1>2. mount \in Mount
  BY DEF Init, Mount
<1>3. /\ pollRef \in [Mount -> Run \union {None}]
      /\ outcome \in [Run -> Outcome] /\ status \in [Run -> Status]
  BY NoOutcomeType DEF Init, Status
<1> QED
  BY <1>1, <1>2, <1>3 DEF Init, TypeOK

LEMMA TypeStep == TypeOK /\ [Next]_vars => TypeOK'
<1> SUFFICES ASSUME TypeOK, [Next]_vars PROVE TypeOK'
  OBVIOUS
<1> USE DEF executeVars, refVars, pageVars, historyVars, serverVars
<1>1. CASE UNCHANGED vars
  BY <1>1 DEF TypeOK, vars
<1>2. ASSUME NEW r \in Run, HandleRun(r) PROVE TypeOK'
  BY <1>2 DEF HandleRun, TypeOK, Post
<1>3. ASSUME NEW r \in Run, RunHandled(r) PROVE TypeOK'
  <2>1. post' \in [Run -> Post]
    BY <1>3, PostUpdated DEF RunHandled
  <2>2. outcome' \in [Run -> Outcome]
    BY <1>3 DEF RunHandled, TypeOK, Outcome
  <2>3. status' \in [Run -> Status]
    BY <1>3 DEF RunHandled, TypeOK, Status
  <2> QED
    BY <1>3, <2>1, <2>2, <2>3 DEF RunHandled, TypeOK
<1>4. ASSUME NEW r \in Run, StartPolling(r) PROVE TypeOK'
  <2>1. post' \in [Run -> Post]
    BY <1>4, PostUpdated DEF StartPolling
  <2>2. active' \in Watched \union {None}
    BY <1>4, NoOutcomeType DEF StartPolling, TypeOK, NewlyActive, Watched
  <2>3. latest' \in Run \union {None} /\ timedOut' \in BOOLEAN
    BY <1>4 DEF StartPolling, TypeOK
  <2>4. pollRef' \in [Mount -> Run \union {None}]
    BY <1>4 DEF StartPolling, TypeOK
  <2> QED
    BY <1>4, <2>1, <2>2, <2>3, <2>4 DEF StartPolling, TypeOK
<1>5. ASSUME NEW r \in Run, RunFails(r) PROVE TypeOK'
  <2>1. post' \in [Run -> Post]
    BY <1>5, PostUpdated DEF RunFails
  <2> QED
    BY <1>5, <2>1 DEF RunFails, TypeOK
<1>6. ASSUME NEW r \in Run, Poll(r) PROVE TypeOK'
  BY <1>6 DEF Poll, TypeOK, Watched
<1>7. ASSUME NEW r \in Run, GiveUp(r) PROVE TypeOK'
  <2>1. timedOut' \in BOOLEAN
    BY <1>7 DEF GiveUp, Here
  <2> QED
    BY <1>7, <2>1 DEF GiveUp, EndPolling, TypeOK
<1>8. ASSUME NEW r \in Run, LosePost(r) PROVE TypeOK'
  <2>1. post' \in [Run -> Post]
    BY <1>8, PostUpdated DEF LosePost
  <2> QED
    BY <1>8, <2>1 DEF LosePost, TypeOK
<1>9. ASSUME NEW r \in Run, OpenDetail(r) PROVE TypeOK'
  BY <1>9, NoOutcomeType DEF OpenDetail, TypeOK, Fetch, Detail, Status
<1>10. ASSUME NEW r \in Run, Close(r) PROVE TypeOK'
  BY <1>10 DEF Close, TypeOK, Status
<1>11. ASSUME NEW r \in Run, NEW d \in Device, Decide(r, d) PROVE TypeOK'
  BY <1>11 DEF Decide, TypeOK, Outcome
<1>12. ASSUME NEW m \in Mount, TimeUp(m) PROVE TypeOK'
  BY <1>12 DEF TimeUp, TypeOK
<1>13. ASSUME NEW a \in answers, PollAnswered(a) PROVE TypeOK'
  <2>1. active' \in Watched \union {None} /\ overtaken' \in BOOLEAN
    BY <1>13 DEF PollAnswered, TypeOK
  <2>2. running' \in BOOLEAN /\ intervals' \subseteq Run
    BY <1>13 DEF PollAnswered, EndPolling, TypeOK
  <2> QED
    BY <1>13, <2>1, <2>2 DEF PollAnswered, EndPolling, TypeOK
<1>14. ASSUME NEW a \in answers, PollLost(a) PROVE TypeOK'
  BY <1>14 DEF PollLost, TypeOK
<1>15. CASE ShowHistory
  BY <1>15 DEF ShowHistory, TypeOK
<1>16. CASE ShowExecute
  BY <1>16 DEF ShowExecute, TypeOK, Mount
<1>17. CASE HistoryLoaded
  BY <1>17 DEF HistoryLoaded, TypeOK
<1>18. CASE CloseDetail
  BY <1>18 DEF CloseDetail, TypeOK
<1>19. ASSUME NEW f \in details, DetailReads(f) PROVE TypeOK'
  <2>1. f \in Detail \X {"asked", "half", "read"}
    BY DEF TypeOK, Fetch
  <2>2. /\ <<[f[1] EXCEPT !.status = status[f[1].run]], "half">> \in Fetch
        /\ <<[f[1] EXCEPT !.results = outcome[f[1].run]], "read">> \in Fetch
    BY <2>1 DEF TypeOK, Fetch, Detail
  <2> QED
    BY <1>19, <2>2 DEF DetailReads, TypeOK
<1>20. ASSUME NEW f \in details, DetailAnswered(f) PROVE TypeOK'
  BY <1>20 DEF DetailAnswered, TypeOK, Fetch
<1> QED
  BY <1>1, <1>2, <1>3, <1>4, <1>5, <1>6, <1>7, <1>8, <1>9, <1>10, <1>11, <1>12, <1>13,
     <1>14, <1>15, <1>16, <1>17, <1>18, <1>19, <1>20 DEF Next, PostStep

\* Type correctness of both tabs and the runs they show.
THEOREM TypeCorrect == Spec => []TypeOK
BY TypeInit, TypeStep, PTL DEF Spec

-----------------------------------------------------------------------------
(* Verdicts *)

LEMMA BadgeInit == Init => BadgeInv
BY DEF Init, BadgeInv, BadgeIsFinal

LEMMA BadgeStep == TypeOK /\ BadgeInv /\ [Next]_vars => BadgeInv'
<1> SUFFICES ASSUME TypeOK, BadgeInv, [Next]_vars PROVE BadgeInv'
  OBVIOUS
<1> USE DEF executeVars, refVars, pageVars, historyVars, serverVars
<1>0. \A f \in details : /\ f = <<f[1], f[2]>> /\ f[1] \in Detail
                         /\ f[2] \in {"asked", "half", "read"}
  BY DEF TypeOK, Fetch
<1>1. ASSUME UNCHANGED <<outcome, status>>, details' \subseteq details, detail' \in {detail, None},
             \A r \in Run : post'[r].pc \in {"idle", "posted"} => post[r].pc \in {"idle", "posted"}
      PROVE  BadgeInv'
  BY <1>1 DEF BadgeInv, BadgeIsFinal
<1>2. ASSUME NEW r \in Run, RunHandled(r) PROVE BadgeInv'
  <2>1. /\ status' = [status EXCEPT ![r] = "running"]
        /\ \A q \in Run : q # r => outcome'[q] = outcome[q]
        /\ UNCHANGED <<details, detail>>
    BY <1>2 DEF RunHandled, TypeOK
  <2>2. /\ post[r].pc = "posted" /\ post'[r].pc = "replied"
        /\ \A q \in Run : q # r => post'[q] = post[q]
    BY <1>2 DEF RunHandled, TypeOK, Post
  <2>3. status[r] = "none"
    BY <2>2 DEF BadgeInv
  <2> QED
    BY <1>0, <2>1, <2>2, <2>3 DEF BadgeInv, BadgeIsFinal, TypeOK, Detail
<1>3. ASSUME NEW r \in Run, NEW d \in Device, Decide(r, d) PROVE BadgeInv'
  <2>1. status[r] # "closed"
    BY <1>3 DEF Decide, BadgeInv, AllFinished
  <2>2. \A q \in Run : q # r => outcome'[q] = outcome[q]
    BY <1>3 DEF Decide, TypeOK
  <2> QED
    BY <1>3, <2>1, <2>2 DEF Decide, BadgeInv, BadgeIsFinal
<1>4. ASSUME NEW r \in Run, Close(r) PROVE BadgeInv'
  <2>1. /\ status' = [status EXCEPT ![r] = "closed"] /\ status[r] = "running"
        /\ AllFinished(outcome[r])
        /\ UNCHANGED <<outcome, post, details, detail>>
    BY <1>4 DEF Close
  <2> QED
    BY <1>0, <2>1 DEF BadgeInv, BadgeIsFinal, TypeOK, Detail
<1>5. ASSUME NEW r \in Run, OpenDetail(r) PROVE BadgeInv'
  BY <1>5 DEF OpenDetail, BadgeInv, BadgeIsFinal
<1>6. ASSUME NEW f \in details, DetailReads(f) PROVE BadgeInv'
  <2> DEFINE run == f[1].run
             half == <<[f[1] EXCEPT !.status = status[run]], "half">>
             read == <<[f[1] EXCEPT !.results = outcome[run]], "read">>
  <2>1. /\ half[1].run = run /\ half[1].status = status[run] /\ half[2] = "half"
        /\ read[1].run = run /\ read[1].status = f[1].status /\ read[1].results = outcome[run]
        /\ read[2] = "read" /\ run \in Run
    BY <1>0 DEF Detail
  <2>2. UNCHANGED <<outcome, status, post, detail>>
    BY <1>6 DEF DetailReads
  <2>3. CASE details' = (details \ {f}) \union {half}
    <3> HIDE DEF half, run
    <3> QED
      BY <2>1, <2>2, <2>3 DEF BadgeInv, BadgeIsFinal
  <2>4. CASE details' = (details \ {f}) \union {read}
    <3>1. read[1].status = "closed" => status[run] = "closed" /\ AllFinished(outcome[run])
      BY <2>1 DEF BadgeInv
    <3> HIDE DEF read, run
    <3> QED
      BY <2>1, <2>2, <2>4, <3>1 DEF BadgeInv, BadgeIsFinal
  <2> QED
    BY <1>6, <2>3, <2>4 DEF DetailReads
<1>7. ASSUME NEW f \in details, DetailAnswered(f) PROVE BadgeInv'
  BY <1>7 DEF DetailAnswered, BadgeInv, BadgeIsFinal
<1>8. ASSUME NEW r \in Run, HandleRun(r) PROVE BadgeInv'
  BY <1>8 DEF HandleRun, BadgeInv, BadgeIsFinal, TypeOK
<1>9. ASSUME NEW r \in Run, StartPolling(r) \/ RunFails(r) \/ LosePost(r) PROVE BadgeInv'
  <2>1. \A q \in Run : post'[q].pc \in {"idle", "posted"} => post[q].pc \in {"idle", "posted"}
    BY <1>9, PostUpdated DEF StartPolling, RunFails, LosePost
  <2> QED
    BY <1>1, <1>9, <2>1 DEF StartPolling, RunFails, LosePost
<1>10. ASSUME UNCHANGED <<outcome, status, post>>, details' \subseteq details,
              detail' \in {detail, None}
       PROVE  BadgeInv'
  BY <1>1, <1>10
<1> QED
  BY <1>2, <1>3, <1>4, <1>5, <1>6, <1>7, <1>8, <1>9, <1>10
     DEF Next, vars, PostStep, Poll, GiveUp, EndPolling, TimeUp, PollAnswered, PollLost,
         ShowHistory, ShowExecute, HistoryLoaded, CloseDetail

\* A verdict in the history never stands beside an unfinished device, although run and
\* results are read by two statements.
THEOREM BadgeCorrect == Spec => []BadgeIsFinal
<1>1. BadgeInv => BadgeIsFinal
  BY DEF BadgeInv
<1> QED
  BY <1>1, TypeInit, TypeStep, BadgeInit, BadgeStep, PTL DEF Spec

-----------------------------------------------------------------------------
(* Watching a run *)

\* What WatchInv speaks of, but for the answers
watchVars == <<tab, mount, running, active, latest, timedOut, pollRef, intervals, post, outcome,
               overtaken>>

LEMMA WatchInit == Init => WatchInv
BY DEF Init, WatchInv, PollsFollowPosts, RefsOwn, HistoryIsIdle, BusyIsWatched, OneAtATime,
       IntervalsAreHeld, EngagedIsBusy, LatestIsHeld, AnswersFitOutcome, LatestIsShown,
       Engaged, Pending, Mount

LEMMA FewerAnswers ==
    ASSUME WatchInv, UNCHANGED watchVars, answers' \subseteq answers
    PROVE  WatchInv'
<1> USE DEF watchVars, WatchInv
<1>1. PollsFollowPosts' /\ RefsOwn' /\ HistoryIsIdle' /\ LatestIsHeld'
  BY DEF PollsFollowPosts, RefsOwn, HistoryIsIdle, LatestIsHeld
<1>2. BusyIsWatched' /\ OneAtATime' /\ IntervalsAreHeld' /\ EngagedIsBusy'
  BY DEF BusyIsWatched, OneAtATime, IntervalsAreHeld, EngagedIsBusy, Engaged, Pending, Here
<1>3. AnswersFitOutcome' /\ LatestIsShown'
  BY DEF AnswersFitOutcome, LatestIsShown
<1> QED
  BY <1>1, <1>2, <1>3

LEMMA PollWatched ==
    ASSUME TypeOK, WatchInv, NEW r \in Run, Poll(r)
    PROVE  WatchInv'
<1> USE DEF watchVars, pageVars, executeVars, refVars, serverVars
<1> DEFINE a == [run |-> r, results |-> outcome[r]]
<1>1. answers' = answers \union {a} /\ r \in intervals /\ UNCHANGED watchVars
  BY DEF Poll
<1>2. a.run = r /\ a.results = outcome[r]
  OBVIOUS
<1> HIDE DEF a
<1> USE DEF WatchInv
<1>3. PollsFollowPosts' /\ AnswersFitOutcome'
  BY <1>1, <1>2 DEF PollsFollowPosts, AnswersFitOutcome
<1>4. RefsOwn' /\ HistoryIsIdle' /\ LatestIsHeld' /\ LatestIsShown'
  BY <1>1 DEF RefsOwn, HistoryIsIdle, LatestIsHeld, LatestIsShown
<1>5. BusyIsWatched' /\ OneAtATime' /\ IntervalsAreHeld' /\ EngagedIsBusy'
  BY <1>1 DEF BusyIsWatched, OneAtATime, IntervalsAreHeld, EngagedIsBusy, Engaged, Pending, Here
<1> QED
  BY <1>3, <1>4, <1>5

\* Devices finish, and only those that were unfinished.
LEMMA DecideWatched ==
    ASSUME TypeOK, WatchInv, NEW r \in Run, NEW d \in Device, Decide(r, d)
    PROVE  WatchInv'
<1> USE DEF watchVars, pageVars, executeVars, refVars
<1>1. /\ UNCHANGED <<tab, mount, running, active, latest, timedOut, pollRef, intervals, post,
                     overtaken, answers>>
      /\ \A q \in Run : q # r => outcome'[q] = outcome[q]
      /\ \A c \in Device : c # d => outcome'[r][c] = outcome[r][c]
      /\ outcome[r][d] = "open"
  BY DEF Decide, TypeOK, Outcome
<1> USE DEF WatchInv
<1>2. AnswersFitOutcome'
  BY <1>1 DEF AnswersFitOutcome, TypeOK, Watched, Outcome
<1>3. LatestIsShown'
  BY <1>1 DEF LatestIsShown, AllFinished, TypeOK
<1>4. PollsFollowPosts' /\ RefsOwn' /\ HistoryIsIdle' /\ LatestIsHeld'
  BY <1>1 DEF PollsFollowPosts, RefsOwn, HistoryIsIdle, LatestIsHeld
<1>5. BusyIsWatched' /\ OneAtATime' /\ IntervalsAreHeld' /\ EngagedIsBusy'
  BY <1>1 DEF BusyIsWatched, OneAtATime, IntervalsAreHeld, EngagedIsBusy, Engaged, Pending, Here
<1> QED
  BY <1>2, <1>3, <1>4, <1>5

LEMMA HandleRunWatched ==
    ASSUME TypeOK, WatchInv, NEW r \in Run, HandleRun(r)
    PROVE  WatchInv'
<1> USE DEF watchVars, refVars, serverVars
<1>1. /\ UNCHANGED <<tab, mount, active, latest, timedOut, pollRef, intervals, outcome,
                     overtaken, answers>>
      /\ ~running /\ running' /\ tab = "execute"
      /\ \A q \in Run : q # r => post'[q] = post[q]
      /\ post[r].pc = "idle" /\ post'[r].pc = "posted" /\ post'[r].mount = mount
  BY DEF HandleRun, CanRun, TypeOK, Post
<1> USE DEF WatchInv
<1>2. r \notin intervals /\ \A a \in answers : a.run # r
  BY <1>1 DEF PollsFollowPosts
<1>3. mount \in Nat
  BY DEF TypeOK, Mount
<1>4. PollsFollowPosts'
  BY <1>1, <1>2, <1>3 DEF PollsFollowPosts, TypeOK, Watched
<1>5. RefsOwn' /\ LatestIsHeld' /\ HistoryIsIdle'
  BY <1>1 DEF RefsOwn, LatestIsHeld, HistoryIsIdle, TypeOK
<1>6. BusyIsWatched' /\ EngagedIsBusy'
  BY <1>1 DEF BusyIsWatched, EngagedIsBusy, Here
<1>7. ~overtaken => \A q \in Run : Engaged(q) => post[q].mount # mount
  BY <1>1 DEF EngagedIsBusy, Here
<1>8. OneAtATime'
  BY <1>1, <1>7 DEF OneAtATime, Engaged, Pending
<1>9. IntervalsAreHeld' /\ AnswersFitOutcome' /\ LatestIsShown'
  BY <1>1, <1>2 DEF IntervalsAreHeld, AnswersFitOutcome, LatestIsShown, TypeOK
<1> QED
  BY <1>4, <1>5, <1>6, <1>8, <1>9

\* The server has entered the devices, or the request is lost: still something to come.
LEMMA PostMovesWatched ==
    ASSUME TypeOK, WatchInv, NEW r \in Run, RunHandled(r) \/ LosePost(r)
    PROVE  WatchInv'
<1> USE DEF watchVars, pageVars, executeVars, refVars, serverVars
<1>1. /\ UNCHANGED <<tab, mount, running, active, latest, timedOut, pollRef, intervals,
                     overtaken, answers>>
      /\ Pending(r)
      /\ \A q \in Run : post[q].pc = "over" => outcome'[q] = outcome[q]
  BY DEF RunHandled, LosePost, TypeOK, Pending
<1>2. /\ \A q \in Run : q # r => post'[q].pc = post[q].pc
      /\ \A q \in Run : post'[q].mount = post[q].mount
      /\ Pending(r)'
  BY PostUpdated DEF RunHandled, LosePost, Pending
<1>3. \A q \in Run : Engaged(q)' = Engaged(q)
  BY <1>1, <1>2 DEF Engaged, Pending
<1> USE DEF WatchInv
<1>4. PollsFollowPosts' /\ RefsOwn' /\ HistoryIsIdle' /\ LatestIsHeld'
  BY <1>1, <1>2
     DEF PollsFollowPosts, RefsOwn, HistoryIsIdle, LatestIsHeld, Pending, TypeOK, Watched
<1>5. BusyIsWatched'
  BY <1>1, <1>2 DEF BusyIsWatched, Here, Pending
<1>6. OneAtATime' /\ IntervalsAreHeld' /\ EngagedIsBusy'
  BY <1>1, <1>2, <1>3 DEF OneAtATime, IntervalsAreHeld, EngagedIsBusy, Here, TypeOK
<1>7. \A a \in answers : a.run \in Run /\ outcome'[a.run] = outcome[a.run]
  BY <1>1 DEF PollsFollowPosts, TypeOK, Watched
<1>8. latest # None => outcome'[latest] = outcome[latest]
  BY <1>1 DEF LatestIsHeld, RefsOwn, TypeOK
<1>9. AnswersFitOutcome' /\ LatestIsShown'
  BY <1>1, <1>7, <1>8 DEF AnswersFitOutcome, LatestIsShown
<1> QED
  BY <1>4, <1>5, <1>6, <1>9

LEMMA StartPollingWatched ==
    ASSUME TypeOK, WatchInv, NEW r \in Run, StartPolling(r)
    PROVE  WatchInv'
<1> DEFINE m == post[r].mount
<1>1. /\ UNCHANGED <<tab, mount, running, outcome, overtaken, answers>>
      /\ intervals' = intervals \union {r}
      /\ pollRef' = [pollRef EXCEPT ![m] = r]
      /\ IF Here(r) THEN latest' = r ELSE UNCHANGED <<active, latest, timedOut>>
      /\ Pending(r)
  BY DEF StartPolling, NewlyActive, serverVars, Pending
<1>2. /\ \A q \in Run : post'[q].mount = post[q].mount
      /\ \A q \in Run : post'[q].pc = IF q = r THEN "over" ELSE post[q].pc
  BY PostUpdated DEF StartPolling
<1>3. m \in Mount /\ pollRef \in [Mount -> Run \union {None}]
  BY DEF TypeOK, Post
<1>4. \A q \in Run : Engaged(q)' = Engaged(q)
  BY <1>1, <1>2 DEF Engaged, Pending
<1> HIDE DEF m
<1> USE DEF WatchInv
<1>5. PollsFollowPosts'
  BY <1>1, <1>2 DEF PollsFollowPosts, TypeOK, Watched
<1>6. RefsOwn'
  BY <1>1, <1>2, <1>3 DEF RefsOwn, m
<1>7. HistoryIsIdle'
  BY <1>1 DEF HistoryIsIdle, Here
<1>8. LatestIsHeld'
  BY <1>1, <1>3 DEF LatestIsHeld, HistoryIsIdle, Here, TypeOK, m
<1>9. BusyIsWatched'
  <2> SUFFICES ASSUME running
               PROVE  \/ \E q \in Run : Here(q)' /\ Pending(q)'
                      \/ pollRef'[mount] \in intervals'
    BY <1>1 DEF BusyIsWatched, Pending
  <2>1. mount \in Mount /\ tab = "execute"
    BY DEF HistoryIsIdle, TypeOK
  <2>2. CASE m = mount
    BY <1>1, <1>3, <2>1, <2>2
  <2>3. CASE m # mount
    BY <1>1, <1>2, <1>3, <2>1, <2>3 DEF BusyIsWatched, Here, Pending, m
  <2> QED
    BY <2>2, <2>3
<1>10. OneAtATime' /\ EngagedIsBusy'
  BY <1>1, <1>2, <1>4 DEF OneAtATime, EngagedIsBusy, Here
<1>11. IntervalsAreHeld'
  <2> SUFFICES ASSUME ~overtaken, NEW q \in intervals' PROVE pollRef'[post[q].mount] = q
    BY <1>1, <1>2 DEF IntervalsAreHeld, TypeOK
  <2>1. CASE q = r
    BY <1>1, <1>3, <2>1 DEF m
  <2>2. CASE q # r
    <3>1. q \in intervals /\ q \in Run /\ post[q].mount \in Mount
      BY <1>1, <2>2 DEF TypeOK, Post
    <3>2. post[q].mount # m
      BY <1>1, <2>2, <3>1 DEF OneAtATime, Engaged, m
    <3> QED
      BY <1>1, <1>3, <3>1, <3>2 DEF IntervalsAreHeld
  <2> QED
    BY <2>1, <2>2
<1>12. AnswersFitOutcome' /\ LatestIsShown'
  BY <1>1 DEF AnswersFitOutcome, LatestIsShown
<1> QED
  BY <1>5, <1>6, <1>7, <1>8, <1>9, <1>10, <1>11, <1>12

LEMMA RunFailsWatched ==
    ASSUME TypeOK, WatchInv, NEW r \in Run, RunFails(r)
    PROVE  WatchInv'
<1> USE DEF refVars, serverVars
<1>1. /\ UNCHANGED <<tab, mount, active, latest, timedOut, pollRef, intervals, outcome,
                     overtaken, answers>>
      /\ running' = IF Here(r) THEN FALSE ELSE running
      /\ Pending(r) /\ post[r].pc = "failed"
  BY DEF RunFails, Pending
<1>2. /\ \A q \in Run : post'[q].mount = post[q].mount
      /\ \A q \in Run : post'[q].pc = IF q = r THEN "over" ELSE post[q].pc
  BY PostUpdated DEF RunFails
<1> USE DEF WatchInv
<1>3. r \notin intervals
  BY <1>1 DEF PollsFollowPosts
<1>4. \A q \in Run : Engaged(q)' <=> Engaged(q) /\ q # r
  BY <1>1, <1>2, <1>3 DEF Engaged, Pending
<1>5. PollsFollowPosts' /\ RefsOwn' /\ LatestIsHeld'
  BY <1>1, <1>2 DEF PollsFollowPosts, RefsOwn, LatestIsHeld, TypeOK, Watched
<1>6. HistoryIsIdle' /\ AnswersFitOutcome' /\ LatestIsShown'
  BY <1>1 DEF HistoryIsIdle, AnswersFitOutcome, LatestIsShown
<1>7. BusyIsWatched'
  BY <1>1, <1>2 DEF BusyIsWatched, Here
<1>8. OneAtATime' /\ IntervalsAreHeld'
  BY <1>1, <1>2, <1>4 DEF OneAtATime, IntervalsAreHeld, TypeOK
<1>9. EngagedIsBusy'
  <2> SUFFICES ASSUME ~overtaken, NEW q \in Run, Engaged(q), q # r, tab = "execute",
                      post[q].mount = mount
               PROVE  running'
    BY <1>1, <1>2, <1>4 DEF EngagedIsBusy, Here
  <2>1. ~Here(r)
    BY <1>1 DEF OneAtATime, Engaged, Here
  <2> QED
    BY <1>1, <2>1 DEF EngagedIsBusy, Here
<1> QED
  BY <1>5, <1>6, <1>7, <1>8, <1>9

\* The end of an interval, on time or not: what holds but for what is shown
LEMMA EndPollingWatched ==
    ASSUME TypeOK, WatchInv, NEW r \in Run, post[r].pc = "over", EndPolling(r),
           UNCHANGED <<tab, mount, latest, post, outcome>>, answers' \subseteq answers,
           overtaken' \/ r \in intervals, overtaken => overtaken'
    PROVE  /\ PollsFollowPosts' /\ RefsOwn' /\ HistoryIsIdle' /\ BusyIsWatched'
           /\ OneAtATime' /\ IntervalsAreHeld' /\ EngagedIsBusy'
           /\ LatestIsHeld' /\ AnswersFitOutcome'
<1> DEFINE m == post[r].mount
<1> USE DEF WatchInv
<1>1. /\ intervals' = intervals \ {pollRef[m]} /\ pollRef' = pollRef
      /\ running' = IF Here(r) THEN FALSE ELSE running
  BY DEF EndPolling
<1>2. m \in Mount /\ mount \in Mount
  BY DEF TypeOK, Post
<1>3. \A q \in Run : /\ Engaged(q)' => Engaged(q)
                     /\ Here(q)' = Here(q) /\ Pending(q)' = Pending(q)
  BY <1>1 DEF Engaged, Pending, Here
<1> HIDE DEF m
<1>4. PollsFollowPosts' /\ RefsOwn' /\ LatestIsHeld' /\ AnswersFitOutcome'
  BY <1>1 DEF PollsFollowPosts, RefsOwn, LatestIsHeld, AnswersFitOutcome
<1>5. HistoryIsIdle'
  BY <1>1 DEF HistoryIsIdle, Here
<1>6. BusyIsWatched'
  <2> SUFFICES ASSUME running, ~Here(r), pollRef[mount] \in intervals
               PROVE  pollRef[mount] # pollRef[m]
    BY <1>1, <1>3 DEF BusyIsWatched, Here
  <2>1. m # mount
    BY DEF HistoryIsIdle, Here, m, TypeOK
  <2>2. pollRef[mount] # None /\ post[pollRef[mount]].mount = mount
    BY <1>2 DEF RefsOwn, TypeOK
  <2> QED
    BY <1>2, <2>1, <2>2 DEF RefsOwn
<1>7. OneAtATime' /\ IntervalsAreHeld'
  BY <1>1, <1>3 DEF OneAtATime, IntervalsAreHeld
<1>8. EngagedIsBusy'
  <2> SUFFICES ASSUME ~overtaken', NEW q \in Run, Engaged(q)', Here(q)
               PROVE  running'
    BY <1>3 DEF EngagedIsBusy
  <2>1. ~overtaken /\ r \in intervals /\ Engaged(r)
    BY DEF Engaged
  <2>2. pollRef[m] = r /\ r \notin intervals'
    BY <1>1, <2>1 DEF IntervalsAreHeld, m
  <2>3. q # r
    BY <2>2 DEF Engaged, Pending
  <2>4. ~Here(r)
    BY <1>3, <2>1, <2>3 DEF OneAtATime, Here
  <2> QED
    BY <1>1, <1>3, <2>1, <2>4 DEF EngagedIsBusy
<1> QED
  BY <1>4, <1>5, <1>6, <1>7, <1>8

LEMMA GiveUpWatched ==
    ASSUME TypeOK, WatchInv, NEW r \in Run, GiveUp(r)
    PROVE  WatchInv'
<1>1. /\ EndPolling(r) /\ r \in intervals
      /\ UNCHANGED <<tab, mount, active, latest, post, answers, outcome, overtaken>>
      /\ timedOut' = (timedOut \/ Here(r))
  BY DEF GiveUp, historyVars, serverVars
<1>2. post[r].pc = "over"
  BY <1>1 DEF WatchInv, PollsFollowPosts
<1>3. LatestIsShown'
  <2> SUFFICES ASSUME ~overtaken, latest # None, ~timedOut, ~Here(r), latest \in intervals
               PROVE  latest \in intervals'
    BY <1>1 DEF WatchInv, LatestIsShown
  <2>1. latest = pollRef[mount] /\ tab = "execute" /\ mount \in Mount
    BY DEF WatchInv, LatestIsHeld, HistoryIsIdle, TypeOK
  <2>2. post[latest].mount = mount
    BY <2>1 DEF WatchInv, RefsOwn
  <2>3. pollRef[post[r].mount] = r /\ r # latest
    BY <1>1, <2>1, <2>2 DEF WatchInv, IntervalsAreHeld, Here
  <2> QED
    BY <1>1, <2>3 DEF EndPolling
<1> QED
  BY <1>1, <1>2, <1>3, EndPollingWatched DEF WatchInv

LEMMA PollAnsweredWatched ==
    ASSUME TypeOK, WatchInv, NEW a \in answers, PollAnswered(a)
    PROVE  WatchInv'
<1>1. /\ UNCHANGED <<tab, mount, latest, timedOut, post, outcome>>
      /\ answers' = answers \ {a}
      /\ active' = IF Here(a.run) THEN a ELSE active
      /\ IF AllFinished(a.results) THEN EndPolling(a.run)
         ELSE UNCHANGED <<running, pollRef, intervals>>
      /\ overtaken' = (overtaken \/ a.run \notin intervals)
  BY DEF PollAnswered, historyVars, serverVars, refVars
<1>2. a \in Watched /\ a.run \in Run /\ a = [run |-> a.run, results |-> a.results]
  BY DEF TypeOK, Watched
<1>3. post[a.run].pc = "over"
  BY DEF WatchInv, PollsFollowPosts
\* What has been decided for all devices when the answer was given is final.
<1>4. AllFinished(a.results) => outcome[a.run] = a.results
  <2>1. outcome[a.run] \in Outcome /\ a.results \in Outcome
    BY <1>2 DEF TypeOK, Watched
  <2>2. AllFinished(a.results) => \A d \in Device : outcome[a.run][d] = a.results[d]
    BY DEF AllFinished, WatchInv, AnswersFitOutcome
  <2> QED
    BY <2>1, <2>2 DEF Outcome
<1>5. LatestIsShown'
  <2> SUFFICES ASSUME ~overtaken, a.run \in intervals, latest # None, ~timedOut,
                      latest \notin intervals'
               PROVE  /\ active' = [run |-> latest, results |-> outcome[latest]]
                      /\ AllFinished(outcome[latest])
    BY <1>1 DEF LatestIsShown
  <2>1. latest = pollRef[mount] /\ tab = "execute" /\ mount \in Mount /\ latest \in Run
    BY DEF WatchInv, LatestIsHeld, HistoryIsIdle, TypeOK
  <2>2. post[latest].mount = mount
    BY <2>1 DEF WatchInv, RefsOwn
  <2>3. pollRef[post[a.run].mount] = a.run
    BY DEF WatchInv, IntervalsAreHeld
  <2>4. CASE a.run = latest
    <3>1. Here(a.run) /\ AllFinished(a.results)
      BY <1>1, <2>1, <2>2, <2>4 DEF Here
    <3> QED
      BY <1>1, <1>2, <1>4, <2>4, <3>1
  <2>5. CASE a.run # latest
    <3>1. ~Here(a.run)
      BY <2>1, <2>3, <2>5 DEF Here
    <3>2. latest \notin intervals
      BY <1>1, <2>3, <2>5 DEF EndPolling
    <3> QED
      BY <1>1, <3>1, <3>2 DEF WatchInv, LatestIsShown
  <2> QED
    BY <2>4, <2>5
<1>6. CASE AllFinished(a.results)
  BY <1>1, <1>2, <1>3, <1>5, <1>6, EndPollingWatched DEF WatchInv
<1>7. CASE ~AllFinished(a.results)
  <2> USE DEF WatchInv
  <2>1. UNCHANGED <<running, pollRef, intervals>>
    BY <1>1, <1>7
  <2>2. PollsFollowPosts' /\ RefsOwn' /\ HistoryIsIdle' /\ LatestIsHeld'
    BY <1>1, <2>1 DEF PollsFollowPosts, RefsOwn, HistoryIsIdle, LatestIsHeld
  <2>3. BusyIsWatched' /\ OneAtATime' /\ IntervalsAreHeld' /\ EngagedIsBusy'
    BY <1>1, <2>1
       DEF BusyIsWatched, OneAtATime, IntervalsAreHeld, EngagedIsBusy, Engaged, Pending, Here
  <2>4. AnswersFitOutcome'
    BY <1>1 DEF AnswersFitOutcome
  <2> QED
    BY <1>5, <2>2, <2>3, <2>4
<1> QED
  BY <1>6, <1>7

LEMMA TabsWatched ==
    ASSUME TypeOK, WatchInv, ShowHistory \/ ShowExecute
    PROVE  WatchInv'
<1> USE DEF executeVars, refVars, serverVars
<1>1. /\ UNCHANGED <<pollRef, post, answers, outcome, overtaken>>
      /\ intervals' \subseteq intervals /\ ~running' /\ latest' = None
      /\ mount' \in {mount, mount + 1}
  BY DEF ShowHistory, ShowExecute, WatchInv, HistoryIsIdle
<1>2. \A q \in Run : (Engaged(q)' => Engaged(q)) /\ ~Here(q)'
  BY <1>1 DEF Engaged, Pending, Here, ShowHistory, ShowExecute, WatchInv, PollsFollowPosts,
              TypeOK, Post, Mount
<1> USE DEF WatchInv
<1>3. PollsFollowPosts'
  BY <1>1 DEF PollsFollowPosts, TypeOK, Post, Mount
<1>4. RefsOwn' /\ HistoryIsIdle' /\ LatestIsHeld' /\ LatestIsShown'
  BY <1>1 DEF RefsOwn, HistoryIsIdle, LatestIsHeld, LatestIsShown
<1>5. BusyIsWatched' /\ OneAtATime' /\ IntervalsAreHeld' /\ EngagedIsBusy'
  BY <1>1, <1>2 DEF BusyIsWatched, OneAtATime, IntervalsAreHeld, EngagedIsBusy
<1>6. AnswersFitOutcome'
  BY <1>1 DEF AnswersFitOutcome
<1> QED
  BY <1>3, <1>4, <1>5, <1>6

LEMMA WatchStep == TypeOK /\ WatchInv /\ [Next]_vars => WatchInv'
<1> SUFFICES ASSUME TypeOK, WatchInv, [Next]_vars PROVE WatchInv'
  OBVIOUS
<1>1. ASSUME UNCHANGED watchVars, answers' \subseteq answers PROVE WatchInv'
  BY <1>1, FewerAnswers
<1> QED
  BY <1>1, PollWatched, DecideWatched, HandleRunWatched, PostMovesWatched,
     StartPollingWatched, RunFailsWatched, GiveUpWatched, PollAnsweredWatched, TabsWatched
     DEF Next, vars, watchVars, pageVars, executeVars, refVars, historyVars, serverVars,
         PostStep, TimeUp, PollLost, HistoryLoaded, CloseDetail, OpenDetail, DetailReads,
         DetailAnswered, Close

LEMMA WatchInvariant == Spec => [](TypeOK /\ WatchInv)
BY TypeInit, TypeStep, WatchInit, WatchStep, PTL DEF Spec

\* However runs, mounts and answers overlap, a disabled button has somebody to enable it.
THEOREM BusyCorrect == Spec => []BusyIsWatched
<1>1. WatchInv => BusyIsWatched
  BY DEF WatchInv
<1> QED
  BY <1>1, WatchInvariant, PTL

\* A page that has stopped watching, and neither gave up nor was overtaken, shows the final
\* outcomes of the last run.
THEOREM OutcomesShown == Spec => []StoppedShowsAll
<1>1. TypeOK /\ WatchInv => StoppedShowsAll
  <2> SUFFICES ASSUME TypeOK, WatchInv, tab = "execute", ~running, latest # None, ~timedOut,
                      ~overtaken
               PROVE  /\ active = [run |-> latest, results |-> outcome[latest]]
                      /\ AllFinished(active.results)
    BY DEF StoppedShowsAll
  <2>1. latest \in Run /\ post[latest].mount = mount
    BY DEF TypeOK, WatchInv, LatestIsHeld, RefsOwn
  <2>2. latest \notin intervals
    BY <2>1 DEF WatchInv, EngagedIsBusy, Engaged, Here
  <2> QED
    BY <2>2 DEF WatchInv, LatestIsShown
<1> QED
  BY <1>1, WatchInvariant, PTL

=============================================================================
