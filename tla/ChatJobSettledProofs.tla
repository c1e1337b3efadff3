------------------------- MODULE ChatJobSettledProofs -------------------------
(* Proofs of how a job ends as long as no database or Redis call is          *)
(* rejected, for any jobs, slots, cancels and stalls: it settles with a       *)
(* terminal status, ChatJob implements JobLifecycle, and the attachments of   *)
(* a job are there until its run has used them.                               *)
EXTENDS ChatJobProofs

\* The run has written the final status of its job, or found it written.
Over(r) == \/ r.pc \in {"announce", "finish", "release", "return"}
           \/ r.pc = "cleanup" /\ r.outcome = "none"

RunEnds == \A w \in Workers :
    ~run[w].thrown /\ (Over(run[w]) => db[run[w].job] \in Terminal)

\* Whoever takes the job out of the queue for good has ended its row, or is
\* about to: the run, the canceller, or the "failed" listener.
JobEnds(j) ==
    /\ api[j] \in Unqueued \cup {"publish", "retrying", "accepted"}
    /\ api[j] \notin Unqueued => bull[j] # "absent"
    /\ bull[j] = "completed" => db[j] \in Terminal
    /\ bull[j] = "removed" => db[j] \in Terminal \/ canceller[j] = "mark"
    /\ bull[j] = "failed" => \/ db[j] \in Terminal
                             \/ j \in bereft
                             \/ \E x \in watchers : x.job = j /\ x.pc = "mark"

AllJobsEnd == \A j \in Jobs : JobEnds(j)

\* The inductive invariant.
EndInv == SlotsInv /\ RunEnds /\ AllJobsEnd

LEMMA EndInvTerminal == EndInv => SettledIsTerminal
  BY DEF EndInv, SettledIsTerminal, Settled, AllJobsEnd, JobEnds, Unqueued, SlotsInv, TypeOK

LEMMA NoFault == ASSUME TypeOK, MaxFaults = 0 PROVE ~Fault
  BY DEF TypeOK, Fault

\* A step that writes only terminal statuses, except for jobs that are not
\* in the queue yet, does not disturb the runs.
LEMMA QuietRuns ==
  ASSUME EndInv, UNCHANGED run,
         \A j \in Jobs : db[j] \in Terminal => db'[j] \in Terminal \/ bull[j] = "absent"
  PROVE  RunEnds'
<1> SUFFICES ASSUME NEW w \in Workers, Over(run[w])
             PROVE  db'[run[w].job] \in Terminal
  BY DEF EndInv, RunEnds
<1>1. run[w].job \in Jobs /\ bull[run[w].job] = "active"
  BY DEF Over, EndInv, SlotsInv, AllSlotsOK, SlotOK
<1> QED BY <1>1 DEF EndInv, RunEnds

LEMMA JobStepEnds ==
  ASSUME EndInv, MaxFaults = 0, NEW j \in Jobs,
         \/ Submit(j) \/ Handle(j) \/ Cancel(j) \/ Cancelling(j) \/ Stall(j)
         \/ CancelKeyEnds(j) \/ HandlerFault(j) \/ CancelFault(j)
  PROVE  RunEnds' /\ AllJobsEnd'
<1>0. TypeOK /\ JobEnds(j) /\ AddedOnce
  BY DEF EndInv, SlotsInv, AllJobsEnd
<1>1. CASE Submit(j)
  <2>1. bull[j] = "absent"
    BY <1>0, <1>1 DEF Submit, AddedOnce, Unqueued
  <2>2. RunEnds'
    BY <1>0, <1>1, <2>1, QuietRuns DEF Submit, SetStatus, TypeOK
  <2>3. AllJobsEnd'
    BY <1>0, <1>1, <2>1 DEF Submit, SetStatus, TypeOK, EndInv, AllJobsEnd, JobEnds,
       Unqueued, queueVars, history
  <2> QED BY <2>2, <2>3
<1>2. CASE CloneFiles(j) \/ Accept(j)
  <2>1. RunEnds'
    BY <1>2, QuietRuns DEF CloneFiles, Accept
  <2>2. AllJobsEnd'
    BY <1>0, <1>2 DEF CloneFiles, Accept, TypeOK, EndInv, AllJobsEnd, JobEnds, Unqueued,
       AddedOnce, queueVars, history
  <2> QED BY <2>1, <2>2
<1>3. CASE Enqueue(j)
  <2>1. RunEnds'
    BY <1>3, QuietRuns DEF Enqueue, rowVars
  <2>2. AllJobsEnd'
    BY <1>0, <1>3 DEF Enqueue, TypeOK, EndInv, AllJobsEnd, JobEnds, Unqueued, rowVars,
       history
  <2> QED BY <2>1, <2>2
<1>4. CASE Refuse(j)
  BY <1>0, <1>4 DEF Refuse, JobEnds, Unqueued
<1>5. CASE Cancel(j)
  <2>1. RunEnds'
    BY <1>5, QuietRuns DEF Cancel, rowVars
  <2>2. AllJobsEnd'
    BY <1>0, <1>5 DEF Cancel, TypeOK, EndInv, AllJobsEnd, JobEnds, Unqueued, rowVars,
       queueVars, history
  <2> QED BY <2>1, <2>2
<1>6. CASE Cancelling(j)
  <2>1. \A i \in Jobs : db[i] \in Terminal => db'[i] \in Terminal
    BY <1>0, <1>6 DEF Cancelling, SetStatus, TypeOK, Terminal
  <2>2. RunEnds'
    BY <1>6, <2>1, QuietRuns DEF Cancelling
  <2>3. \A i \in Jobs \ {j} : canceller'[i] = canceller[i] /\ bull'[i] = bull[i]
    BY <1>0, <1>6 DEF Cancelling, TypeOK
  <2>4. UNCHANGED <<api, watchers, bereft>>
    BY <1>6 DEF Cancelling, history
  <2>5. JobEnds(j)'
    <3>1. CASE canceller[j] = "mark"
      <4>1. db'[j] \in Terminal
        BY <1>0, <1>6, <3>1 DEF Cancelling, SetStatus, TypeOK, Terminal
      <4>2. UNCHANGED bull
        BY <1>6, <3>1 DEF Cancelling
      <4> QED BY <1>0, <2>4, <4>1, <4>2 DEF JobEnds
    <3>2. CASE canceller[j] = "remove"
      <4>1. canceller'[j] = "mark" /\ UNCHANGED db
        BY <1>0, <1>6, <3>2 DEF Cancelling, CancelNext, TypeOK
      <4>2. bull'[j] \in {bull[j], "removed"}
        BY <1>0, <1>6 DEF Cancelling, TypeOK
      <4> QED BY <1>0, <2>4, <4>1, <4>2 DEF JobEnds
    <3>3. CASE canceller[j] \notin {"mark", "remove"}
      BY <1>0, <1>6, <2>4, <3>3 DEF Cancelling, JobEnds
    <3> QED BY <3>1, <3>2, <3>3
  <2>6. \A i \in Jobs \ {j} : JobEnds(i)'
    BY <2>1, <2>3, <2>4 DEF EndInv, AllJobsEnd, JobEnds
  <2> QED BY <2>2, <2>5, <2>6 DEF AllJobsEnd
<1>7. CASE Stall(j)
  <2>1. RunEnds'
    BY <1>7, QuietRuns DEF Stall, rowVars
  <2>2. UNCHANGED <<api, db, canceller, bereft>> /\ watchers \subseteq watchers'
    BY <1>7 DEF Stall, rowVars, apiVars, history
  <2>3. \A i \in Jobs \ {j} : bull'[i] = bull[i]
    BY <1>0, <1>7 DEF Stall, TypeOK
  <2>4. \/ bull'[j] = "waiting"
        \/ bull'[j] = "failed" /\ \E x \in watchers' : x.job = j /\ x.pc = "mark"
    <3> DEFINE x == [job |-> j, on |-> "failed", pc |-> "mark"]
    <3>1. bull'[j] = "waiting" \/ (bull'[j] = "failed" /\ x \in watchers')
      BY <1>0, <1>7 DEF Stall, TypeOK
    <3>2. x.job = j /\ x.pc = "mark"
      OBVIOUS
    <3> QED BY <3>1, <3>2
  <2>5. AllJobsEnd'
    BY <2>2, <2>3, <2>4 DEF EndInv, AllJobsEnd, JobEnds
  <2> QED BY <2>1, <2>5
<1>8. CASE CancelKeyEnds(j)
  <2>1. RunEnds'
    BY <1>8, QuietRuns DEF CancelKeyEnds, rowVars
  <2>2. AllJobsEnd'
    BY <1>8 DEF CancelKeyEnds, EndInv, AllJobsEnd, JobEnds, rowVars, queueVars, history
  <2> QED BY <2>1, <2>2
<1>9. CASE HandlerFault(j) \/ CancelFault(j)
  BY <1>0, <1>9, NoFault DEF HandlerFault, CancelFault
<1> QED BY <1>1, <1>2, <1>3, <1>4, <1>5, <1>6, <1>7, <1>8, <1>9 DEF Handle

LEMMA RetryEnds ==
  ASSUME EndInv, NEW old \in Jobs, NEW j \in Jobs, Retry(old, j)
  PROVE  RunEnds' /\ AllJobsEnd'
<1>0. TypeOK /\ AddedOnce
  BY DEF EndInv, SlotsInv
<1>1. bull[j] = "absent"
  BY <1>0 DEF Retry, AddedOnce, Unqueued
<1>2. RunEnds'
  BY <1>0, <1>1, QuietRuns DEF Retry, SetStatus, TypeOK
<1>3. AllJobsEnd'
  BY <1>0, <1>1 DEF Retry, SetStatus, TypeOK, EndInv, AllJobsEnd, JobEnds, Unqueued,
     queueVars, history
<1> QED BY <1>2, <1>3

LEMMA PickEnds ==
  ASSUME EndInv, NEW w \in Workers, NEW j \in Jobs, Pick(w, j)
  PROVE  RunEnds' /\ AllJobsEnd'
<1>0. TypeOK
  BY DEF EndInv, SlotsInv
<1>1. run'[w].pc = "picked" /\ ~run'[w].thrown /\ \A v \in Workers \ {w} : run'[v] = run[v]
  BY <1>0 DEF Pick, TypeOK, Idle
<1>2. RunEnds'
  BY <1>1 DEF Pick, rowVars, EndInv, RunEnds, Over
<1>3. AllJobsEnd'
  BY <1>0 DEF Pick, TypeOK, EndInv, AllJobsEnd, JobEnds, rowVars, apiVars, history
<1> QED BY <1>2, <1>3

\* A step of a run other than its return: it throws nothing, and it is over
\* only if the row is.
LEMMA WorkOver ==
  ASSUME EndInv, NEW w \in Workers, Work(w), ~Return(w)
  PROVE  /\ run'[w].job = run[w].job /\ ~run'[w].thrown
         /\ Over(run'[w]) => db'[run[w].job] \in Terminal
<1>0. /\ run \in [Workers -> Runs] /\ run[w] \in Runs /\ ~run[w].thrown
      /\ Marked(run[w]) /\ run[w].job \in Jobs
      /\ db \in [Jobs -> Terminal \cup Cancellable \cup {"absent"}]
      /\ Over(run[w]) => db[run[w].job] \in Terminal
  BY WorkAdvances DEF EndInv, RunEnds, SlotsInv, TypeOK, RunsOK
<1>1. ASSUME NEW o, o # "none", Raise(w, o)
      PROVE  run'[w].job = run[w].job /\ ~run'[w].thrown /\ ~Over(run'[w])
  BY <1>0, <1>1 DEF Raise, Raised, Runs, Over
<1>2. ASSUME NEW o, EndWith(w, o)
      PROVE  run'[w].job = run[w].job /\ ~run'[w].thrown /\ ~Over(run'[w])
  BY <1>0, <1>2 DEF EndWith, Runs, Over
<1>3. ASSUME NEW p, Goto(w, p)
      PROVE  run'[w].job = run[w].job /\ ~run'[w].thrown /\ run'[w].pc = p
  BY <1>0, <1>3 DEF Goto, Runs
<1>4. CASE CheckPicked(w) \/ TakeLock(w) \/ Check(w) \/ SetProgress(w) \/ AnnounceStart(w)
          \/ Generate(w) \/ SaveAnswer(w) \/ Validate(w) \/ Deliver(w)
  BY <1>1, <1>2, <1>3, <1>4 DEF CheckPicked, TakeLock, Check, CheckThen, SetProgress,
     AnnounceStart, Generate, SaveAnswer, Validate, Deliver, Over
<1>5. CASE OpenContext(w)
  <2>1. CASE run' = [run EXCEPT ![w].pc = "opened", ![w].browser = TRUE]
    <3>1. run'[w].job = run[w].job /\ ~run'[w].thrown /\ run'[w].pc = "opened"
      BY <1>0, <2>1 DEF Runs
    <3> QED BY <3>1 DEF Over
  <2> QED BY <1>1, <1>2, <1>5, <2>1 DEF OpenContext
<1>6. CASE Complete(w)
  BY <1>0, <1>3, <1>6 DEF Complete, SetStatus, Terminal
<1>7. CASE Mark(w)
  <2>1. run[w].outcome \in Marks
    BY <1>0, <1>7 DEF Mark, At, Marked, Runs, Marks
  <2>2. StatusOf(run[w].outcome) \in Terminal
    BY <2>1, StatusOfType
  <2> QED BY <1>0, <1>3, <1>7, <2>2 DEF Mark, SetStatus
<1>8. CASE Announce(w)
  <2>1. run'[w].job = run[w].job /\ ~run'[w].thrown
    BY <1>0, <1>8 DEF Announce, Runs
  <2> QED BY <1>0, <1>8, <2>1 DEF Announce, At, Over
<1>9. CASE Finish(w)
  <2>1. run'[w].job = run[w].job /\ ~run'[w].thrown
    BY <1>0, <1>9 DEF Finish, AfterDone, Runs
  <2> QED BY <1>0, <1>9, <2>1 DEF Finish, At, Over
<1>10. CASE Cleanup(w)
  <2>1. run'[w] = AfterCleanup(run[w])
    BY <1>0, <1>10 DEF Cleanup
  <2>2. run'[w].job = run[w].job /\ ~run'[w].thrown
    BY <1>0, <2>1 DEF AfterCleanup, Runs
  <2>3. run[w].outcome # "none" => run'[w].pc = "mark"
    BY <1>0, <2>1 DEF AfterCleanup, Runs
  <2> QED BY <1>0, <1>10, <2>2, <2>3 DEF Cleanup, At, Over
<1>11. CASE GiveBackLock(w)
  BY <1>0, <1>3, <1>11 DEF GiveBackLock, rowVars, At, Over
<1> QED BY <1>4, <1>5, <1>6, <1>7, <1>8, <1>9, <1>10, <1>11 DEF Work

LEMMA WorkEnds ==
  ASSUME EndInv, NEW w \in Workers, Work(w)
  PROVE  RunEnds' /\ AllJobsEnd'
<1>0. TypeOK /\ RunsOK /\ ~At(w, "idle") /\ run[w].job \in Jobs /\ bull[run[w].job] = "active"
  <2>1. SlotsInv
    BY DEF EndInv
  <2>2. ~At(w, "idle")
    <3>1. CASE Return(w)
      BY <3>1 DEF Return, At
    <3> QED BY <2>1, <3>1, WorkAdvances DEF SlotsInv
  <2> QED BY <2>1, <2>2 DEF SlotsInv, AllSlotsOK, SlotOK, At
<1>1. \A v \in Workers \ {w} : Over(run[v]) => run[v].job # run[w].job /\ run[v].job \in Jobs
  BY <1>0 DEF EndInv, SlotsInv, NoTwins, AllSlotsOK, SlotOK, At, Over
<1>2. \A i \in Jobs \ {run[w].job} : db'[i] = db[i] /\ bull'[i] = bull[i]
  BY <1>0 DEF Work, CheckPicked, TakeLock, Check, SetProgress, AnnounceStart,
     OpenContext, Validate, Generate, Deliver, SaveAnswer, Complete, Mark, Announce,
     Finish, Cleanup, GiveBackLock, Return, rowVars, queueVars, SetStatus, TypeOK
<1>3. UNCHANGED <<api, canceller, bereft>>
  BY DEF Work, CheckPicked, TakeLock, Check, SetProgress, AnnounceStart,
     OpenContext, Validate, Generate, Deliver, SaveAnswer, Complete, Mark, Announce,
     Finish, Cleanup, GiveBackLock, Return, apiVars, history
<1>4. CASE ~Return(w)
  <2>1. \A v \in Workers \ {w} : run'[v] = run[v]
    BY <1>0, <1>4, WorkAdvances DEF Advances, TypeOK
  <2>2. RunEnds'
    BY <1>1, <1>2, <1>4, <2>1, WorkOver DEF EndInv, RunEnds
  <2>3. UNCHANGED <<bull, watchers>>
    BY <1>4 DEF Work, CheckPicked, TakeLock, Check, SetProgress, AnnounceStart,
       OpenContext, Validate, Generate, Deliver, SaveAnswer, Complete, Mark, Announce,
       Finish, Cleanup, GiveBackLock, queueVars
  <2>4. AllJobsEnd'
    BY <1>0, <1>2, <1>3, <2>3 DEF EndInv, AllJobsEnd, JobEnds
  <2> QED BY <2>2, <2>4
<1>5. CASE Return(w)
  <2>1. run'[w] = Idle /\ \A v \in Workers \ {w} : run'[v] = run[v]
    BY <1>0, <1>5 DEF Return, TypeOK
  <2>2. ~Over(Idle) /\ ~Idle.thrown
    BY DEF Idle, Over
  <2>3. ~run[w].thrown /\ db[run[w].job] \in Terminal
    BY <1>5 DEF EndInv, RunEnds, Return, At, Over
  <2>4. UNCHANGED <<watchers, db>> /\ bull'[run[w].job] = "completed"
    BY <1>0, <1>5, <2>3 DEF Return, rowVars, TypeOK
  <2>5. RunEnds'
    BY <2>1, <2>2, <2>4 DEF EndInv, RunEnds
  <2>6. AllJobsEnd'
    BY <1>0, <1>2, <1>3, <2>3, <2>4 DEF EndInv, AllJobsEnd, JobEnds
  <2> QED BY <2>5, <2>6
<1> QED BY <1>4, <1>5

LEMMA WatchEnds ==
  ASSUME EndInv, MaxFaults = 0, NEW x \in watchers, Watch(x) \/ WatcherFault(x)
  PROVE  RunEnds' /\ AllJobsEnd'
<1>0. TypeOK /\ x \in Watchers /\ x.job \in Jobs
  BY DEF EndInv, SlotsInv, TypeOK, Watchers
<1>1. Watch(x)
  BY <1>0, NoFault DEF WatcherFault
<1>2. \A i \in Jobs : db[i] \in Terminal => db'[i] \in Terminal
  BY <1>0, <1>1 DEF Watch, SetStatus, TypeOK, Terminal
<1>3. UNCHANGED <<run, bull, api, canceller, bereft>>
  BY <1>1 DEF Watch, queueVars, apiVars, history
<1>4. RunEnds'
  BY <1>2, <1>3, QuietRuns
<1>5. x.pc = "mark" => db'[x.job] \in Terminal
  BY <1>0, <1>1 DEF Watch, SetStatus, TypeOK, Terminal
<1>6. \A y \in watchers \ {x} : y \in watchers'
  BY <1>1 DEF Watch, WatcherTo
<1>7. AllJobsEnd'
  <2> SUFFICES ASSUME NEW i \in Jobs PROVE JobEnds(i)'
    BY DEF AllJobsEnd
  <2>1. JobEnds(i)
    BY DEF EndInv, AllJobsEnd
  <2> QED BY <1>2, <1>3, <1>5, <1>6, <2>1 DEF JobEnds
<1> QED BY <1>4, <1>7

LEMMA CrashEnds ==
  ASSUME EndInv, Crash
  PROVE  RunEnds' /\ AllJobsEnd'
<1>1. \A w \in Workers : run'[w] = Idle
  BY DEF Crash, ProcessDies
<1>2. RunEnds'
  BY <1>1 DEF RunEnds, Over, Idle
<1>3. UNCHANGED <<db, bull, api, canceller>>
  BY DEF Crash, rowVars, queueVars, apiVars
<1>4. bereft \subseteq bereft' /\ \A x \in watchers : x.job \in bereft'
  BY DEF Crash, ProcessDies
<1>5. AllJobsEnd'
  BY <1>3, <1>4 DEF EndInv, AllJobsEnd, JobEnds
<1> QED BY <1>2, <1>5

LEMMA OtherEnds ==
  ASSUME EndInv, \/ \E k \in Keys : LeaseEnds(k) \/ Reconnect(k)
                 \/ UNCHANGED vars
  PROVE  RunEnds' /\ AllJobsEnd'
  BY DEF LeaseEnds, Reconnect, vars, rowVars, queueVars, apiVars, history, EndInv, RunEnds,
     AllJobsEnd, JobEnds

LEMMA InitEnds == Init => EndInv
<1> SUFFICES ASSUME Init PROVE RunEnds /\ AllJobsEnd
  BY InitSlots DEF EndInv
<1>1. RunEnds
  BY DEF Init, RunEnds, Over, Idle
<1>2. AllJobsEnd
  BY DEF Init, AllJobsEnd, JobEnds, Unqueued
<1> QED BY <1>1, <1>2

LEMMA NextEnds == ASSUME MaxFaults = 0 PROVE EndInv /\ [Next]_vars => EndInv'
<1> SUFFICES ASSUME EndInv, [Next]_vars
             PROVE  EndInv'
  OBVIOUS
<1>1. SlotsInv'
  BY NextSlots DEF EndInv
<1>2. ASSUME NEW w \in Workers PROVE ~RunFault(w)
  BY NoFault DEF EndInv, SlotsInv, RunFault
<1>3. RunEnds' /\ AllJobsEnd'
  BY <1>2, JobStepEnds, RetryEnds, PickEnds, WorkEnds, WatchEnds, CrashEnds, OtherEnds DEF Next
<1> QED BY <1>1, <1>3 DEF EndInv

(* As long as no database or Redis call is rejected, a job nobody acts on    *)
(* any more has a terminal status, for any number of jobs, slots, cancel     *)
(* requests, stalls and deaths of the worker: the row updates of             *)
(* chatJobProcessor, worker.ts and the cancel handler in routes/chat.ts.     *)
THEOREM SettledTerminal == ASSUME MaxFaults = 0 PROVE Spec => []SettledIsTerminal
<1>1. EndInv /\ [Next]_vars => EndInv'
  BY NextEnds
<1> QED BY <1>1, InitEnds, EndInvTerminal, PTL DEF Spec

-----------------------------------------------------------------------------
(* The pipeline keeps the promise of JobLifecycle.                          *)

\* Nothing in the system is left that could act on job j.
Quiet(j) == /\ api[j] = "accepted"
            /\ db[j] \in Terminal
            /\ canceller[j] = "idle"
            /\ bull[j] \in {"removed", "completed", "failed"}
            /\ \A x \in watchers : x.job # j

LEMMA StageQuiet == EndInv => \A j \in Jobs : Stage(j) = "settled" <=> Quiet(j)
<1> SUFFICES ASSUME EndInv, NEW j \in Jobs
             PROVE  Stage(j) = "settled" <=> Quiet(j)
  OBVIOUS
<1>1. JobEnds(j) /\ TypeOK
  BY DEF EndInv, SlotsInv, AllJobsEnd
<1>2. Settled(j) /\ j \notin bereft => db[j] \in Terminal
  BY <1>1, EndInvTerminal DEF SettledIsTerminal, JobEnds, Unqueued
<1>3. Settled(j) => api[j] = "accepted" /\ bull[j] \in {"removed", "completed", "failed"}
  BY <1>1 DEF Settled, JobEnds, Unqueued, TypeOK
<1>4. Stage(j) = "settled" => Quiet(j)
  BY <1>2, <1>3 DEF Stage, Settled, Quiet
<1>5. Quiet(j) => Stage(j) = "settled"
  BY DEF Stage, Settled, Quiet
<1> QED BY <1>4, <1>5

\* Another job's step, or one that no handler of a quiet job can take.
LEMMA JobStepQuiet ==
  ASSUME EndInv, MaxFaults = 0, NEW j \in Jobs, Quiet(j), NEW i \in Jobs,
         \/ Submit(i) \/ Handle(i) \/ Cancel(i) \/ Cancelling(i) \/ Stall(i)
         \/ CancelKeyEnds(i) \/ HandlerFault(i) \/ CancelFault(i)
  PROVE  Quiet(j)' /\ db'[j] = db[j]
<1>0. TypeOK /\ ~HandlerFault(i) /\ ~CancelFault(i)
  BY NoFault DEF EndInv, SlotsInv, HandlerFault, CancelFault
<1>1. CASE Submit(i) \/ CloneFiles(i) \/ Enqueue(i) \/ Accept(i) \/ Refuse(i)
  <2>1. i # j
    BY <1>1 DEF Quiet, Submit, CloneFiles, Enqueue, Accept, Refuse
  <2> QED BY <1>0, <1>1, <2>1 DEF Quiet, Submit, CloneFiles, Enqueue, Accept, Refuse,
          SetStatus, rowVars, queueVars, TypeOK
<1>2. CASE Cancel(i) \/ CancelKeyEnds(i)
  <2>1. Cancel(i) => i # j
    BY DEF Quiet, Cancel, Terminal, Cancellable
  <2> QED BY <1>0, <1>2, <2>1 DEF Quiet, Cancel, CancelKeyEnds, rowVars, queueVars, TypeOK
<1>3. CASE Cancelling(i)
  <2>1. i # j
    BY <1>3 DEF Quiet, Cancelling
  <2> QED BY <1>0, <1>3, <2>1 DEF Quiet, Cancelling, SetStatus, TypeOK
<1>4. CASE Stall(i)
  <2>1. i # j
    BY <1>4 DEF Quiet, Stall, Orphaned
  <2>2. \A x \in watchers' : x \in watchers \/ x.job = i
    BY <1>4 DEF Stall
  <2> QED BY <1>0, <1>4, <2>1, <2>2 DEF Quiet, Stall, rowVars, apiVars, TypeOK
<1> QED BY <1>0, <1>1, <1>2, <1>3, <1>4 DEF Handle

LEMMA WorkQuiet ==
  ASSUME EndInv, NEW j \in Jobs, Quiet(j), NEW w \in Workers, Work(w)
  PROVE  Quiet(j)' /\ db'[j] = db[j]
<1>0. TypeOK /\ RunsOK /\ ~run[w].thrown
  BY DEF EndInv, SlotsInv, RunEnds
<1>1. run[w].job # j
  BY ChatAssumption DEF EndInv, SlotsInv, AllSlotsOK, SlotOK, Quiet
<1>2. db'[j] = db[j] /\ bull'[j] = bull[j]
  BY <1>0, <1>1 DEF Work, CheckPicked, TakeLock, Check, SetProgress, AnnounceStart,
     OpenContext, Validate, Generate, Deliver, SaveAnswer, Complete, Mark, Announce,
     Finish, Cleanup, GiveBackLock, Return, rowVars, queueVars, SetStatus, TypeOK
<1>3. UNCHANGED <<api, canceller, watchers>>
  BY <1>0 DEF Work, CheckPicked, TakeLock, Check, SetProgress, AnnounceStart,
     OpenContext, Validate, Generate, Deliver, SaveAnswer, Complete, Mark, Announce,
     Finish, Cleanup, GiveBackLock, Return, apiVars
<1> QED BY <1>2, <1>3 DEF Quiet

LEMMA StaysQuiet ==
  ASSUME EndInv, MaxFaults = 0, [Next]_vars, NEW j \in Jobs, Quiet(j)
  PROVE  Quiet(j)' /\ db'[j] = db[j]
<1>0. TypeOK /\ AddedOnce
  BY DEF EndInv, SlotsInv
<1>1. ASSUME NEW old \in Jobs, NEW i \in Jobs, Retry(old, i)
      PROVE  Quiet(j)' /\ db'[j] = db[j]
  <2>1. i # j
    BY <1>1 DEF Retry, Quiet
  <2> QED BY <1>0, <1>1, <2>1 DEF Quiet, Retry, SetStatus, queueVars, TypeOK
<1>2. ASSUME NEW w \in Workers, NEW i \in Jobs, Pick(w, i)
      PROVE  Quiet(j)' /\ db'[j] = db[j]
  BY <1>0, <1>2 DEF Pick, Quiet, rowVars, apiVars, TypeOK
<1>3. ASSUME NEW x \in watchers, Watch(x) \/ WatcherFault(x)
      PROVE  Quiet(j)' /\ db'[j] = db[j]
  <2>1. Watch(x) /\ x.job # j /\ x \in Watchers
    BY <1>0, <1>3, NoFault DEF WatcherFault, Quiet, TypeOK
  <2>2. db'[j] = db[j] /\ UNCHANGED <<bull, api, canceller>>
    BY <1>0, <2>1 DEF Watch, SetStatus, queueVars, apiVars, TypeOK
  <2>3. \A y \in watchers' : y \in watchers \/ y.job = x.job
    BY <2>1 DEF Watch, WatcherTo, Watchers
  <2> QED BY <2>1, <2>2, <2>3 DEF Quiet
<1>4. CASE \/ \E k \in Keys : LeaseEnds(k) \/ Reconnect(k)
           \/ Crash
           \/ UNCHANGED vars
  BY <1>4 DEF LeaseEnds, Reconnect, Crash, ProcessDies, vars, rowVars, queueVars, apiVars, Quiet
<1>5. ASSUME NEW w \in Workers PROVE ~RunFault(w)
  BY <1>0, NoFault DEF RunFault
<1> QED BY <1>1, <1>2, <1>3, <1>4, <1>5, JobStepQuiet, WorkQuiet DEF Next

\* A job leaves the stage "absent" by the handler that creates it, and never
\* comes back to it.
LEMMA CreatedOnce ==
  ASSUME TypeOK, MaxFaults = 0, [Next]_vars, NEW j \in Jobs
  PROVE  /\ api[j] # "none" => api'[j] # "none"
         /\ api[j] = "none" /\ api'[j] # "none" =>
               \/ Submit(j)
               \/ \E old \in Jobs : Retry(old, j)
<1>1. ASSUME NEW i \in Jobs,
             \/ Submit(i) \/ Handle(i) \/ Cancel(i) \/ Cancelling(i) \/ Stall(i)
             \/ CancelKeyEnds(i) \/ HandlerFault(i) \/ CancelFault(i)
      PROVE  /\ api[j] # "none" => api'[j] # "none"
             /\ api[j] = "none" => api'[j] = "none" \/ Submit(j)
  BY <1>1, NoFault DEF Submit, Handle, CloneFiles, Enqueue, Accept, Refuse, Cancel, Cancelling,
     Stall, CancelKeyEnds, HandlerFault, CancelFault, apiVars, TypeOK
<1>2. ASSUME NEW old \in Jobs, NEW i \in Jobs, Retry(old, i)
      PROVE  /\ api[j] # "none" => api'[j] # "none"
             /\ api[j] = "none" => api'[j] = "none" \/ Retry(old, j)
  BY <1>2 DEF Retry, TypeOK
<1>3. ASSUME \/ \E w \in Workers, i \in Jobs : Pick(w, i)
             \/ \E w \in Workers : Work(w) \/ RunFault(w)
             \/ \E x \in watchers : Watch(x) \/ WatcherFault(x)
             \/ \E k \in Keys : LeaseEnds(k) \/ Reconnect(k)
             \/ Crash
             \/ UNCHANGED vars
      PROVE  api' = api
  BY <1>3 DEF Pick, Work, CheckPicked, TakeLock, Check, SetProgress, AnnounceStart,
     OpenContext, Validate, Generate, Deliver, SaveAnswer, Complete, Mark, Announce,
     Finish, Cleanup, GiveBackLock, Return, RunFault, Watch, WatcherFault, LeaseEnds,
     Reconnect, Crash, vars, apiVars
<1> QED BY <1>1, <1>2, <1>3 DEF Next

\* The step that creates a job leaves every other job at its stage.
LEMMA CreatesOne ==
  ASSUME EndInv, NEW j \in Jobs, Submit(j) \/ \E old \in Jobs : Retry(old, j)
  PROVE  /\ Stage(j) = "absent" /\ Stage(j)' = "open"
         /\ \A i \in Jobs \ {j} : Stage(i)' = Stage(i) /\ db'[i] = db[i]
<1>0. TypeOK
  BY DEF EndInv, SlotsInv
<1>1. api[j] = "none" /\ api' = [api EXCEPT ![j] = "clone"]
  BY DEF Submit, Retry
<1>2. Stage(j) = "absent" /\ Stage(j)' = "open"
  BY <1>0, <1>1 DEF Stage, Settled, TypeOK
<1>3. ASSUME NEW i \in Jobs \ {j}
      PROVE  Stage(i)' = Stage(i) /\ db'[i] = db[i]
  <2>1. db'[i] = db[i] /\ api'[i] = api[i] /\ UNCHANGED <<canceller, bull, watchers, bereft>>
    BY <1>0 DEF Submit, Retry, SetStatus, queueVars, history, TypeOK
  <2> QED BY <2>1 DEF Stage, Settled
<1> QED BY <1>2, <1>3

\* The jobs that a step settles.
Settling(j) == Stage(j) = "open" /\ Stage(j)' = "settled"

LEMMA StepImplements ==
  ASSUME EndInv, EndInv', MaxFaults = 0, [Next]_vars
  PROVE  Lifecycle!LifecycleNext \/ Lifecycle!lifecycleVars' = Lifecycle!lifecycleVars
<1>0. TypeOK /\ \A j \in Jobs : Stage(j) \in {"absent", "open", "settled"}
  BY DEF EndInv, SlotsInv, Stage
<1>1. \A j \in Jobs : Stage(j) = "settled" => Stage(j)' = "settled" /\ db'[j] = db[j]
  <2> SUFFICES ASSUME NEW j \in Jobs, Quiet(j)
               PROVE  Stage(j)' = "settled" /\ db'[j] = db[j]
    BY StageQuiet
  <2>1. Quiet(j)' /\ db'[j] = db[j]
    BY StaysQuiet
  <2> QED BY <2>1 DEF Stage, Settled, Quiet
<1>2. \A j \in Jobs : Stage(j)' = "settled" => db'[j] \in Terminal
  <2>1. (EndInv => \A j \in Jobs : Stage(j) = "settled" <=> Quiet(j))'
    BY StageQuiet, PTL
  <2> QED BY <2>1 DEF Quiet
<1>3. CASE \E j \in Jobs : Submit(j) \/ \E old \in Jobs : Retry(old, j)
  <2>1. PICK j \in Jobs : Submit(j) \/ \E old \in Jobs : Retry(old, j)
    BY <1>3
  <2>2. /\ Stage(j) = "absent" /\ Stage(j)' = "open"
        /\ \A i \in Jobs \ {j} : Stage(i)' = Stage(i) /\ db'[i] = db[i]
    BY <2>1, CreatesOne
  <2>3. Lifecycle!Submit(j)
    BY <2>2 DEF Lifecycle!Submit
  <2> QED BY <2>3 DEF Lifecycle!LifecycleNext
<1>4. CASE ~\E j \in Jobs : Submit(j) \/ \E old \in Jobs : Retry(old, j)
  <2>0. PICK S \in SUBSET Jobs : \A j \in Jobs : j \in S <=> Settling(j)
    <3>1. {j \in Jobs : Settling(j)} \in SUBSET Jobs
      OBVIOUS
    <3> QED BY <3>1
  <2>1. \A j \in Jobs : api[j] = "none" <=> api'[j] = "none"
    BY <1>0, <1>4, CreatedOnce
  <2>2. \A j \in Jobs : Stage(j)' = IF j \in S THEN "settled" ELSE Stage(j)
    BY <1>0, <1>1, <2>0, <2>1 DEF Stage, Settling
  <2>3. CASE S = {}
    BY <1>1, <2>2, <2>3 DEF Lifecycle!lifecycleVars
  <2>4. CASE S # {}
    <3> DEFINE v == [j \in S |-> db'[j]]
    <3>1. v \in [S -> Terminal]
      BY <1>2, <2>0 DEF Settling
    <3>2. Lifecycle!Settle(S)
      BY <1>1, <2>0, <2>2, <2>4, <3>1 DEF Settling, Lifecycle!Settle
    <3> QED BY <3>2 DEF Lifecycle!LifecycleNext
  <2> QED BY <2>3, <2>4
<1> QED BY <1>3, <1>4

LEMMA InitImplements == Init => Lifecycle!LifecycleInit
  BY DEF Init, Lifecycle!LifecycleInit, Stage

(* As long as no database or Redis call is rejected, every job opens once,   *)
(* by POST /chat or a retry, and settles once and for all with one terminal  *)
(* status: the rows, queue entries, runs, listeners and cancel handlers of   *)
(* routes/chat.ts, chatJobProcessor and worker.ts implement JobLifecycle.    *)
THEOREM LifecycleImplemented == ASSUME MaxFaults = 0 PROVE Spec => ImplementsLifecycle
<1>1. EndInv /\ [Next]_vars => EndInv'
  BY NextEnds
<1>2. EndInv /\ EndInv' /\ [Next]_vars =>
        [Lifecycle!LifecycleNext]_(Lifecycle!lifecycleVars)
  BY StepImplements
<1> QED BY <1>1, <1>2, InitEnds, InitImplements, PTL
        DEF Spec, ImplementsLifecycle, Lifecycle!LifecycleSpec

-----------------------------------------------------------------------------
(* Attachments, while the worker lives: a job is run once, so that no second *)
(* run finds the clones deleted by the first.                               *)

\* A run has its browser context from newContext to the finally block, and
\* never leaves the processor with it.
InContext == {"opened", "validate", "setStreaming", "send", "event", "deliver", "ended", "answer"}

RunServes(r) == /\ r.pc \in InContext => r.browser
                /\ r.pc \in {"release", "return"} => ~r.browser

RunsServe == \A w \in Workers : RunServes(run[w])

\* The finally block is behind the run.
CleanedUp(r) == r.pc \in {"mark", "announce", "finish", "release", "return"} /\ ~r.browser

JobServed(j) ==
    /\ bull[j] = "active" => \E w \in Workers : run[w].job = j
    /\ bull[j] \in {"absent", "waiting"} => answers[j] = 0 /\ files[j] # "deleted"
    /\ \A w \in Workers : run[w].job = j /\ files[j] = "deleted" => CleanedUp(run[w])
    /\ answers[j] > 0 /\ files[j] = "cloned" =>
          \E w \in Workers : run[w].job = j /\ run[w].browser

AllJobsServed == \A j \in Jobs : JobServed(j)

\* The inductive invariant, as long as no call is rejected and no worker dies.
ServeInv == EndInv /\ RunsServe /\ AllJobsServed

LEMMA ServeInvServes == ServeInv => AttachmentsServed
<1> SUFFICES ASSUME ServeInv PROVE AttachmentsServed
  OBVIOUS
<1>1. ASSUME NEW w \in Workers, run[w].pc \in {"setStreaming", "send"}
      PROVE  files[run[w].job] # "deleted"
  <2>1. run[w].job \in Jobs
    BY <1>1 DEF ServeInv, EndInv, SlotsInv, AllSlotsOK, SlotOK
  <2> QED BY <1>1, <2>1 DEF ServeInv, AllJobsServed, JobServed, CleanedUp
<1>2. ASSUME NEW j \in Jobs, Settled(j), answers[j] > 0
      PROVE  files[j] # "cloned"
  <2>1. \A w \in Workers : run[w].job # j
    BY <1>2, ChatAssumption DEF Settled, ServeInv, EndInv, SlotsInv, AllSlotsOK, SlotOK
  <2> QED BY <1>2, <2>1 DEF ServeInv, AllJobsServed, JobServed
<1> QED BY <1>1, <1>2 DEF AttachmentsServed

\* A step that spares the slots and one job's queue entry, clones and answers.
LEMMA SparedIsServed ==
  ASSUME ServeInv, NEW j \in Jobs, UNCHANGED <<run, answers>>,
         bull'[j] = bull[j], files'[j] = files[j]
  PROVE  JobServed(j)'
  BY DEF ServeInv, AllJobsServed, JobServed

LEMMA JobStepServes ==
  ASSUME ServeInv, MaxFaults = 0, NEW j \in Jobs,
         \/ Submit(j) \/ Handle(j) \/ Cancel(j) \/ Cancelling(j) \/ Stall(j)
         \/ CancelKeyEnds(j) \/ HandlerFault(j) \/ CancelFault(j)
  PROVE  RunsServe' /\ AllJobsServed'
<1>0. TypeOK /\ AddedOnce /\ JobEnds(j) /\ JobServed(j)
  BY DEF ServeInv, EndInv, SlotsInv, AllJobsEnd, AllJobsServed
<1>1. UNCHANGED <<run, answers>>
  BY DEF Submit, Handle, CloneFiles, Enqueue, Accept, Refuse, Cancel, Cancelling, Stall,
     CancelKeyEnds, HandlerFault, CancelFault, rowVars
<1>2. RunsServe'
  BY <1>1 DEF ServeInv, RunsServe
<1>3. ~Stall(j) /\ ~Refuse(j) /\ ~HandlerFault(j) /\ ~CancelFault(j)
  BY <1>0, NoFault DEF Stall, Orphaned, JobServed, Refuse, JobEnds, Unqueued, HandlerFault,
     CancelFault
<1>4. \A i \in Jobs \ {j} : bull'[i] = bull[i] /\ files'[i] = files[i]
  BY <1>0, <1>3 DEF Submit, Handle, CloneFiles, Enqueue, Accept, Cancel, Cancelling,
     CancelKeyEnds, rowVars, queueVars, TypeOK
<1>5. \A i \in Jobs \ {j} : JobServed(i)'
  BY <1>1, <1>4, SparedIsServed
<1>6. bull[j] \in {"absent", "waiting"} => \A w \in Workers : run[w].job # j
  BY ChatAssumption DEF ServeInv, EndInv, SlotsInv, AllSlotsOK, SlotOK
<1>7. JobServed(j)'
  <2>1. CASE CloneFiles(j)
    <3>1. bull'[j] = "absent" /\ files'[j] # "deleted" /\ bull[j] = "absent"
      BY <1>0, <2>1 DEF CloneFiles, TypeOK, AddedOnce, Unqueued, queueVars
    <3> QED BY <1>0, <1>1, <3>1 DEF JobServed
  <2>2. CASE Enqueue(j)
    <3>1. bull'[j] = "waiting" /\ bull[j] = "absent" /\ UNCHANGED files
      BY <1>0, <2>2 DEF Enqueue, TypeOK, AddedOnce, Unqueued, rowVars
    <3> QED BY <1>0, <1>1, <3>1 DEF JobServed
  <2>3. CASE Cancelling(j)
    <3>1. UNCHANGED files /\ (bull'[j] = bull[j] \/ (bull[j] = "waiting" /\ bull'[j] = "removed"))
      BY <1>0, <2>3 DEF Cancelling, TypeOK
    <3> QED BY <1>0, <1>1, <1>6, <3>1, SparedIsServed DEF JobServed
  <2>4. CASE Submit(j) \/ Accept(j) \/ Cancel(j) \/ CancelKeyEnds(j)
    BY <1>1, <2>4, SparedIsServed DEF Submit, Accept, Cancel, CancelKeyEnds, rowVars, queueVars
  <2> QED BY <1>3, <2>1, <2>2, <2>3, <2>4 DEF Handle
<1> QED BY <1>2, <1>5, <1>7 DEF AllJobsServed

LEMMA PickServes ==
  ASSUME ServeInv, NEW w \in Workers, NEW j \in Jobs, Pick(w, j)
  PROVE  RunsServe' /\ AllJobsServed'
<1>0. TypeOK
  BY DEF ServeInv, EndInv, SlotsInv
<1>1. /\ run'[w].pc = "picked" /\ run'[w].job = j
      /\ \A v \in Workers \ {w} : run'[v] = run[v]
  BY <1>0 DEF Pick, TypeOK, Idle
<1>2. UNCHANGED <<answers, files>>
  BY DEF Pick, rowVars
<1>3. bull[j] = "waiting" /\ bull'[j] = "active" /\ \A i \in Jobs \ {j} : bull'[i] = bull[i]
  BY <1>0 DEF Pick, TypeOK
<1>4. run[w].job = NoJob
  BY DEF Pick, At, ServeInv, EndInv, SlotsInv, AllSlotsOK, SlotOK
<1>5. RunsServe'
  BY <1>1 DEF ServeInv, RunsServe, RunServes, InContext
<1>6. AllJobsServed'
  BY <1>1, <1>2, <1>3, <1>4, ChatAssumption DEF ServeInv, AllJobsServed, JobServed
<1> QED BY <1>5, <1>6

\* What a step of a run does to its context, and to its job's clones and
\* answers.
StepServes(w, j) ==
    /\ RunServes(run'[w])
    /\ \/ /\ files'[j] = files[j]
          /\ run[w].browser => run'[w].browser
          /\ CleanedUp(run[w]) => CleanedUp(run'[w])
       \/ files'[j] # "cloned" /\ CleanedUp(run'[w])
    /\ answers'[j] > 0 => answers[j] > 0 \/ run'[w].browser

LEMMA WorkStepServes ==
  ASSUME ServeInv, NEW w \in Workers, Work(w), ~Return(w), NEW j \in Jobs, j = run[w].job
  PROVE  StepServes(w, j)
<1>0. /\ run \in [Workers -> Runs] /\ run[w] \in Runs /\ RunServes(run[w])
      /\ TypeOK /\ run[w].browser \in BOOLEAN
  BY DEF ServeInv, EndInv, SlotsInv, TypeOK, RunsServe, Runs
<1>1. ASSUME NEW o, Raise(w, o)
      PROVE  /\ (run'[w].browser <=> run[w].browser)
             /\ run'[w].pc = IF run[w].browser THEN "cleanup" ELSE "mark"
  BY <1>0, <1>1 DEF Raise, Raised, Runs
<1>2. ASSUME NEW o, EndWith(w, o)
      PROVE  (run'[w].browser <=> run[w].browser) /\ run'[w].pc = "mark"
  BY <1>0, <1>2 DEF EndWith, Runs
<1>3. ASSUME NEW p, Goto(w, p)
      PROVE  (run'[w].browser <=> run[w].browser) /\ run'[w].pc = p
  BY <1>0, <1>3 DEF Goto, Runs
<1> USE DEF StepServes, RunServes, InContext, CleanedUp
<1>4. CASE CheckPicked(w) \/ TakeLock(w) \/ SetProgress(w) \/ AnnounceStart(w)
          \/ Generate(w) \/ Validate(w) \/ Deliver(w) \/ Complete(w)
  <2>1. UNCHANGED <<answers, files>>
    BY <1>4 DEF CheckPicked, TakeLock, SetProgress, AnnounceStart, Generate, Validate,
       Deliver, Complete, rowVars
  <2>2. CASE CheckPicked(w) \/ TakeLock(w)
    <3>1. run[w].pc \in {"picked", "lock"}
      BY <2>2 DEF CheckPicked, TakeLock, At
    <3> QED BY <1>1, <1>3, <2>1, <2>2, <3>1 DEF CheckPicked, TakeLock
  <2>3. CASE SetProgress(w) \/ AnnounceStart(w) \/ Complete(w)
    BY <1>0, <1>3, <2>1, <2>3 DEF SetProgress, AnnounceStart, Complete, At
  <2>4. CASE Generate(w) \/ Validate(w) \/ Deliver(w)
    <3>1. run[w].pc \in {"send", "validate", "deliver"} /\ run[w].browser
      BY <1>0, <2>4 DEF Generate, Validate, Deliver, At
    <3> QED BY <1>1, <1>2, <1>3, <2>1, <2>4, <3>1 DEF Generate, Validate, Deliver
  <2> QED BY <1>4, <2>2, <2>3, <2>4
<1>5. CASE Check(w)
  <2>1. UNCHANGED <<answers, files>>
    BY <1>5 DEF Check, rowVars
  <2> QED BY <1>0, <1>1, <1>3, <1>5, <2>1 DEF Check, CheckThen
<1>6. CASE OpenContext(w)
  <2>1. UNCHANGED <<answers, files>> /\ run[w].pc = "connect"
    BY <1>6 DEF OpenContext, At, rowVars
  <2>2. CASE run' = [run EXCEPT ![w].pc = "opened", ![w].browser = TRUE]
    <3>1. run'[w].pc = "opened" /\ run'[w].browser = TRUE
      BY <1>0, <2>2 DEF Runs
    <3> QED BY <2>1, <3>1
  <2> QED BY <1>0, <1>1, <1>2, <1>6, <2>1, <2>2 DEF OpenContext
<1>7. CASE SaveAnswer(w)
  <2>1. UNCHANGED files /\ run[w].browser
    BY <1>0, <1>7 DEF SaveAnswer, At
  <2> QED BY <1>0, <1>3, <1>7, <2>1 DEF SaveAnswer, At
<1>8. CASE Mark(w) \/ GiveBackLock(w)
  <2>1. UNCHANGED <<answers, files>>
    BY <1>8 DEF Mark, GiveBackLock, rowVars
  <2> QED BY <1>0, <1>3, <1>8, <2>1 DEF Mark, GiveBackLock, At
<1>9. CASE Announce(w)
  <2>1. run'[w].pc = "finish" /\ (run'[w].browser <=> run[w].browser)
    BY <1>0, <1>9 DEF Announce, Runs
  <2> QED BY <1>9, <2>1 DEF Announce
<1>10. CASE Finish(w)
  <2>1. /\ (run'[w].browser <=> run[w].browser)
        /\ run'[w].pc = IF run[w].browser THEN "cleanup"
                        ELSE IF holding[w] # {} THEN "release" ELSE "return"
    BY <1>0, <1>10 DEF Finish, AfterDone, Runs
  <2> QED BY <1>10, <2>1 DEF Finish
<1>11. CASE Cleanup(w)
  <2>1. run'[w] = AfterCleanup(run[w])
    BY <1>0, <1>11 DEF Cleanup
  <2>2. run'[w].pc \in {"release", "mark"} /\ ~run'[w].browser
    BY <1>0, <2>1 DEF AfterCleanup, Runs
  <2>3. files'[j] # "cloned" /\ UNCHANGED answers
    BY <1>0, <1>11 DEF Cleanup, TypeOK
  <2> QED BY <2>2, <2>3
<1> QED BY <1>4, <1>5, <1>6, <1>7, <1>8, <1>9, <1>10, <1>11 DEF Work

LEMMA WorkServes ==
  ASSUME ServeInv, NEW w \in Workers, Work(w)
  PROVE  RunsServe' /\ AllJobsServed'
<1>0. TypeOK /\ RunsOK /\ AllSlotsOK /\ ~At(w, "idle")
  <2>1. TypeOK /\ RunsOK /\ AllSlotsOK
    BY DEF ServeInv, EndInv, SlotsInv
  <2>2. CASE Return(w)
    BY <2>1, <2>2 DEF Return, At
  <2> QED BY <2>1, <2>2, WorkAdvances
<1>1. PICK j \in Jobs : j = run[w].job
  BY <1>0 DEF RunsOK
<1>2. bull[j] = "active" /\ \A v \in Workers \ {w} : run[v].job # j
  BY <1>0, <1>1, ChatAssumption DEF ServeInv, EndInv, SlotsInv, NoTwins, SlotOK, AllSlotsOK, At
<1>3. \A i \in Jobs \ {j} : bull'[i] = bull[i] /\ files'[i] = files[i] /\ answers'[i] = answers[i]
  BY <1>0, <1>1 DEF Work, CheckPicked, TakeLock, Check, SetProgress, AnnounceStart,
     OpenContext, Validate, Generate, Deliver, SaveAnswer, Complete, Mark, Announce,
     Finish, Cleanup, GiveBackLock, Return, rowVars, queueVars, TypeOK
<1>4. JobServed(j)
  BY DEF ServeInv, AllJobsServed
<1>5. CASE ~Return(w)
  <2>1. run'[w].job = j /\ \A v \in Workers \ {w} : run'[v] = run[v]
    BY <1>0, <1>1, <1>5, WorkAdvances DEF Advances, Continues, TypeOK
  <2>2. StepServes(w, j)
    BY <1>1, <1>5, WorkStepServes
  <2>3. RunsServe'
    BY <2>1, <2>2 DEF ServeInv, RunsServe, StepServes
  <2>4. UNCHANGED bull
    BY <1>5 DEF Work, CheckPicked, TakeLock, Check, SetProgress, AnnounceStart,
       OpenContext, Validate, Generate, Deliver, SaveAnswer, Complete, Mark, Announce,
       Finish, Cleanup, GiveBackLock, queueVars
  <2>5. \A i \in Jobs \ {j} : JobServed(i)'
    BY <1>1, <1>3, <2>1, <2>4 DEF ServeInv, AllJobsServed, JobServed
  <2>6. answers'[j] > 0 /\ files'[j] = "cloned" => run'[w].browser
    BY <1>1, <1>2, <1>4, <2>2 DEF StepServes, JobServed
  <2>7. files'[j] = "deleted" => CleanedUp(run'[w])
    BY <1>1, <1>4, <2>2 DEF StepServes, JobServed
  <2>8. JobServed(j)'
    BY <1>2, <2>1, <2>4, <2>6, <2>7 DEF JobServed
  <2> QED BY <2>3, <2>5, <2>8 DEF AllJobsServed
<1>6. CASE Return(w)
  <2>1. run'[w] = Idle /\ \A v \in Workers \ {w} : run'[v] = run[v]
    BY <1>0, <1>6 DEF Return, TypeOK
  <2>2. UNCHANGED <<files, answers>> /\ bull'[j] \in {"completed", "failed"}
    BY <1>0, <1>1, <1>6 DEF Return, rowVars, TypeOK
  <2>3. RunsServe'
    BY <2>1 DEF ServeInv, RunsServe, RunServes, InContext, Idle
  <2>4. \A i \in Jobs \ {j} : JobServed(i)'
    <3> SUFFICES ASSUME NEW i \in Jobs \ {j} PROVE JobServed(i)'
      OBVIOUS
    <3>1. \A v \in Workers : run[v].job = i \/ run'[v].job = i => run'[v] = run[v]
      BY <1>1, <2>1, ChatAssumption DEF Idle
    <3>2. JobServed(i)
      BY DEF ServeInv, AllJobsServed
    <3> QED BY <1>3, <2>2, <3>1, <3>2 DEF JobServed
  <2>5. ~run[w].browser
    BY <1>6 DEF Return, At, ServeInv, RunsServe, RunServes
  <2>6. ~(answers[j] > 0 /\ files[j] = "cloned")
    BY <1>2, <1>4, <2>5 DEF JobServed
  <2>7. \A v \in Workers : run'[v].job # j
    BY <1>2, <2>1, ChatAssumption DEF Idle
  <2>8. JobServed(j)'
    BY <2>2, <2>6, <2>7 DEF JobServed
  <2> QED BY <2>3, <2>4, <2>8 DEF AllJobsServed
<1> QED BY <1>5, <1>6

LEMMA OtherServes ==
  ASSUME ServeInv, MaxFaults = 0, MaxCrashes = 0,
         \/ \E old, j \in Jobs : Retry(old, j)
         \/ \E x \in watchers : Watch(x) \/ WatcherFault(x)
         \/ \E k \in Keys : LeaseEnds(k) \/ Reconnect(k)
         \/ Crash
         \/ UNCHANGED vars
  PROVE  RunsServe' /\ AllJobsServed'
<1>0. TypeOK /\ ~Fault /\ ~Crash
  BY NoFault DEF ServeInv, EndInv, SlotsInv, TypeOK, Crash
<1>1. UNCHANGED <<run, answers, files, bull>>
  BY <1>0 DEF Retry, Watch, WatcherFault, LeaseEnds, Reconnect, vars, rowVars, queueVars
<1>2. RunsServe'
  BY <1>1 DEF ServeInv, RunsServe
<1>3. AllJobsServed'
  BY <1>1, SparedIsServed DEF AllJobsServed
<1> QED BY <1>2, <1>3

LEMMA InitServes == Init => ServeInv
<1> SUFFICES ASSUME Init PROVE RunsServe /\ AllJobsServed
  BY InitEnds DEF ServeInv
<1>1. RunsServe
  BY DEF Init, RunsServe, RunServes, InContext, Idle
<1>2. AllJobsServed
  BY ChatAssumption DEF Init, AllJobsServed, JobServed, Idle
<1> QED BY <1>1, <1>2

LEMMA NextServes ==
  ASSUME MaxFaults = 0, MaxCrashes = 0
  PROVE  ServeInv /\ [Next]_vars => ServeInv'
<1> SUFFICES ASSUME ServeInv, [Next]_vars
             PROVE  ServeInv'
  OBVIOUS
<1>1. EndInv'
  BY NextEnds DEF ServeInv
<1>2. ASSUME NEW w \in Workers PROVE ~RunFault(w)
  BY NoFault DEF ServeInv, EndInv, SlotsInv, RunFault
<1>3. RunsServe' /\ AllJobsServed'
  BY <1>2, JobStepServes, PickServes, WorkServes, OtherServes DEF Next
<1> QED BY <1>1, <1>3 DEF ServeInv

(* README.md:118: while nothing is rejected and no worker dies, a run finds  *)
(* the attachment rows of its job until it has used them, and leaves none of *)
(* an answered job behind, for any jobs, slots, cancels and retries: the     *)
(* finally block of chatJobProcessor, where consumeAttachments is called,    *)
(* against the clones chatJobService makes.  (After a death of the worker    *)
(* the second run of a job may find them deleted by the first.)              *)
THEOREM AttachmentsSafety ==
  ASSUME MaxFaults = 0, MaxCrashes = 0
  PROVE  Spec => []AttachmentsServed
<1>1. ServeInv /\ [Next]_vars => ServeInv'
  BY NextServes
<1> QED BY <1>1, InitServes, ServeInvServes, PTL DEF Spec

=============================================================================
