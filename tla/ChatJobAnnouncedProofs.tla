------------------------ MODULE ChatJobAnnouncedProofs ------------------------
(* Proofs that the stream of a job is not left open: a job that the queue    *)
(* has finished with gets its done event, whatever is rejected, and a settled *)
(* one the event of the status its row ends with.                            *)
EXTENDS ChatJobSettledProofs

-----------------------------------------------------------------------------
(* The done event.                                                          *)

\* The run has published done, unless an exception took it there.
PastFinish(r) == \/ r.pc \in {"release", "return"}
                 \/ r.pc = "cleanup" /\ r.outcome = "none"

RunsFinish == \A w \in Workers :
    PastFinish(run[w]) => run[w].thrown \/ "done" \in published[run[w].job]

\* Whatever ended the job in the queue has published done, or a listener of
\* worker.ts is about to.
JobFinishes(j) ==
    /\ bull[j] = "completed" => "done" \in published[j]
    /\ bull[j] = "failed" => \/ "done" \in published[j]
                             \/ j \in bereft
                             \/ \E x \in watchers : x.job = j /\ x.pc # "read"

AllJobsFinish == \A j \in Jobs : JobFinishes(j)

\* The inductive invariant.
FinishInv == SlotsInv /\ RunsFinish /\ AllJobsFinish

LEMMA FinishInvAnnounces == FinishInv => FinishedIsAnnounced
  BY DEF FinishInv, FinishedIsAnnounced, Settled, AllJobsFinish, JobFinishes

\* No step takes an event off the stream of a job.
LEMMA StreamGrows ==
  ASSUME TypeOK, [Next]_vars, NEW j \in Jobs
  PROVE  published[j] \subseteq published'[j]
<1>1. ASSUME NEW i, NEW e, Publish(i, e)
      PROVE  published[j] \subseteq published'[j]
  BY <1>1 DEF Publish, TypeOK
<1>2. CASE UNCHANGED published
  BY <1>2
<1>3. ASSUME NEW i \in Jobs,
             \/ Submit(i) \/ Handle(i) \/ Cancel(i) \/ Cancelling(i) \/ Stall(i)
             \/ CancelKeyEnds(i) \/ HandlerFault(i) \/ CancelFault(i)
      PROVE  published[j] \subseteq published'[j]
  BY <1>1, <1>2, <1>3 DEF Submit, Handle, CloneFiles, Enqueue, Accept, Refuse, Cancel,
     Cancelling, Stall, CancelKeyEnds, HandlerFault, CancelFault, rowVars
<1>4. ASSUME NEW old \in Jobs, NEW i \in Jobs, Retry(old, i)
      PROVE  published[j] \subseteq published'[j]
  BY <1>4 DEF Retry
<1>5. ASSUME NEW w \in Workers, Work(w) \/ RunFault(w) \/ \E i \in Jobs : Pick(w, i)
      PROVE  published[j] \subseteq published'[j]
  BY <1>1, <1>2, <1>5 DEF Pick, Work, CheckPicked, TakeLock, Check, SetProgress,
     AnnounceStart, OpenContext, Validate, Generate, Deliver, SaveAnswer, Complete, Mark,
     Announce, Finish, Cleanup, GiveBackLock, Return, RunFault, rowVars
<1>6. ASSUME NEW x \in watchers, Watch(x) \/ WatcherFault(x)
      PROVE  published[j] \subseteq published'[j]
  BY <1>1, <1>2, <1>6 DEF Watch, WatcherFault, rowVars
<1>7. CASE \/ \E k \in Keys : LeaseEnds(k) \/ Reconnect(k)
           \/ Crash
           \/ UNCHANGED vars
  BY <1>7 DEF LeaseEnds, Reconnect, Crash, vars, rowVars
<1> QED BY <1>3, <1>4, <1>5, <1>6, <1>7 DEF Next

\* A step that leaves the slots alone leaves no run short of its done event.
LEMMA QuietFinish ==
  ASSUME FinishInv, [Next]_vars, UNCHANGED run
  PROVE  RunsFinish'
<1> SUFFICES ASSUME NEW w \in Workers, PastFinish(run[w])
             PROVE  run[w].thrown \/ "done" \in published'[run[w].job]
  BY DEF RunsFinish
<1>1. run[w].job \in Jobs
  BY DEF PastFinish, FinishInv, SlotsInv, AllSlotsOK, SlotOK
<1> QED BY <1>1, StreamGrows DEF FinishInv, RunsFinish, SlotsInv

LEMMA JobStepFinishes ==
  ASSUME FinishInv, NEW j \in Jobs,
         \/ Submit(j) \/ Handle(j) \/ Cancel(j) \/ Cancelling(j) \/ Stall(j)
         \/ CancelKeyEnds(j) \/ HandlerFault(j) \/ CancelFault(j)
  PROVE  RunsFinish' /\ AllJobsFinish'
<1>0. TypeOK /\ Next
  BY DEF FinishInv, SlotsInv, Next
<1>1. UNCHANGED <<run, bereft>> /\ watchers \subseteq watchers'
  BY DEF Submit, Handle, CloneFiles, Enqueue, Accept, Refuse, Cancel, Cancelling, Stall,
     CancelKeyEnds, HandlerFault, CancelFault, history
<1>2. RunsFinish'
  BY <1>0, <1>1, QuietFinish
<1>3. \A i \in Jobs : published[i] \subseteq published'[i]
  BY <1>0, StreamGrows
<1>4. CASE Stall(j)
  <2>1. \A i \in Jobs \ {j} : bull'[i] = bull[i]
    BY <1>0, <1>4 DEF Stall, TypeOK
  <2>2. \/ bull'[j] = "waiting"
        \/ bull'[j] = "failed" /\ \E x \in watchers' : x.job = j /\ x.pc = "mark"
    <3> DEFINE x == [job |-> j, on |-> "failed", pc |-> "mark"]
    <3>1. bull'[j] = "waiting" \/ (bull'[j] = "failed" /\ x \in watchers')
      BY <1>0, <1>4 DEF Stall, TypeOK
    <3>2. x.job = j /\ x.pc = "mark"
      OBVIOUS
    <3> QED BY <3>1, <3>2
  <2> QED BY <1>1, <1>2, <1>3, <2>1, <2>2 DEF FinishInv, AllJobsFinish, JobFinishes
<1>5. CASE ~Stall(j)
  <2>1. \A i \in Jobs : bull'[i] \in {bull[i], "waiting", "removed"}
    BY <1>0, <1>5 DEF Submit, Handle, CloneFiles, Enqueue, Accept, Refuse, Cancel, Cancelling,
       CancelKeyEnds, HandlerFault, CancelFault, queueVars, TypeOK
  <2>2. AllJobsFinish'
    BY <1>1, <1>3, <2>1 DEF FinishInv, AllJobsFinish, JobFinishes
  <2> QED BY <1>2, <2>2
<1> QED BY <1>4, <1>5

LEMMA RetryFinishes ==
  ASSUME FinishInv, NEW old \in Jobs, NEW j \in Jobs, Retry(old, j)
  PROVE  RunsFinish' /\ AllJobsFinish'
<1>1. UNCHANGED <<run, bereft, watchers, published, bull>>
  BY DEF Retry, history, queueVars
<1> QED BY <1>1 DEF FinishInv, RunsFinish, AllJobsFinish, JobFinishes

LEMMA PickFinishes ==
  ASSUME FinishInv, NEW w \in Workers, NEW j \in Jobs, Pick(w, j)
  PROVE  RunsFinish' /\ AllJobsFinish'
<1>0. TypeOK
  BY DEF FinishInv, SlotsInv
<1>1. run'[w].pc = "picked" /\ \A v \in Workers \ {w} : run'[v] = run[v]
  BY <1>0 DEF Pick, TypeOK, Idle
<1>2. UNCHANGED <<published, watchers, bereft>>
  BY DEF Pick, rowVars, history
<1>3. RunsFinish'
  BY <1>1, <1>2 DEF FinishInv, RunsFinish, PastFinish
<1>4. AllJobsFinish'
  BY <1>0, <1>2 DEF Pick, TypeOK, FinishInv, AllJobsFinish, JobFinishes
<1> QED BY <1>3, <1>4

\* A step of a run other than its return gets past publisher.complete only
\* by way of it.
LEMMA WorkPastFinish ==
  ASSUME FinishInv, NEW w \in Workers, Work(w), ~Return(w), PastFinish(run'[w])
  PROVE  run'[w].thrown \/ "done" \in published'[run[w].job]
<1>0. /\ run \in [Workers -> Runs] /\ run[w] \in Runs /\ run[w].job \in Jobs
      /\ Marked(run[w]) /\ TypeOK /\ [Next]_vars
      /\ PastFinish(run[w]) => run[w].thrown \/ "done" \in published[run[w].job]
  BY WorkAdvances DEF FinishInv, RunsFinish, SlotsInv, TypeOK, RunsOK, Next
<1>1. ASSUME NEW o, o # "none", Raise(w, o)
      PROVE  FALSE
  BY <1>0, <1>1 DEF Raise, Raised, Runs, PastFinish
<1>2. ASSUME NEW o, EndWith(w, o)
      PROVE  FALSE
  BY <1>0, <1>2 DEF EndWith, Runs, PastFinish
<1>3. ASSUME NEW p, Goto(w, p)
      PROVE  run'[w].pc = p /\ (run[w].thrown => run'[w].thrown)
  BY <1>0, <1>3 DEF Goto, Runs
<1>4. CASE CheckPicked(w) \/ TakeLock(w) \/ Check(w) \/ SetProgress(w) \/ AnnounceStart(w)
          \/ Generate(w) \/ SaveAnswer(w) \/ Validate(w) \/ Deliver(w) \/ Complete(w)
          \/ Mark(w)
  BY <1>1, <1>2, <1>3, <1>4 DEF CheckPicked, TakeLock, Check, CheckThen, SetProgress,
     AnnounceStart, Generate, SaveAnswer, Validate, Deliver, Complete, Mark, PastFinish
<1>5. CASE OpenContext(w)
  <2>1. CASE run' = [run EXCEPT ![w].pc = "opened", ![w].browser = TRUE]
    <3>1. run'[w].pc = "opened"
      BY <1>0, <2>1 DEF Runs
    <3> QED BY <3>1 DEF PastFinish
  <2> QED BY <1>1, <1>2, <1>5, <2>1 DEF OpenContext
<1>6. CASE Announce(w)
  BY <1>0, <1>6 DEF Announce, Runs, PastFinish
<1>7. CASE Finish(w)
  BY <1>0, <1>7 DEF Finish, Publish, TypeOK
<1>8. CASE Cleanup(w)
  <2>1. run'[w] = AfterCleanup(run[w])
    BY <1>0, <1>8 DEF Cleanup
  <2>2. run[w].thrown = run'[w].thrown /\ (run[w].outcome # "none" => run'[w].pc = "mark")
    BY <1>0, <2>1 DEF AfterCleanup, Runs
  <2>3. PastFinish(run[w])
    BY <1>8, <2>2 DEF Cleanup, At, PastFinish
  <2> QED BY <1>0, <1>8, <2>2, <2>3 DEF Cleanup
<1>9. CASE GiveBackLock(w)
  BY <1>0, <1>3, <1>9 DEF GiveBackLock, At, PastFinish, rowVars
<1> QED BY <1>4, <1>5, <1>6, <1>7, <1>8, <1>9 DEF Work

LEMMA WorkFinishes ==
  ASSUME FinishInv, NEW w \in Workers, Work(w)
  PROVE  RunsFinish' /\ AllJobsFinish'
<1>0. TypeOK /\ [Next]_vars /\ RunsOK
  BY DEF FinishInv, SlotsInv, Next
<1>1. \A j \in Jobs : published[j] \subseteq published'[j]
  BY <1>0, StreamGrows
<1>2. UNCHANGED bereft
  BY DEF Work, CheckPicked, TakeLock, Check, SetProgress, AnnounceStart,
     OpenContext, Validate, Generate, Deliver, SaveAnswer, Complete, Mark, Announce,
     Finish, Cleanup, GiveBackLock, Return, history
<1>3. \A v \in Workers : PastFinish(run[v]) => run[v].job \in Jobs
  BY DEF FinishInv, SlotsInv, AllSlotsOK, SlotOK, PastFinish
<1>4. CASE ~Return(w)
  <2>1. run'[w].job = run[w].job /\ \A v \in Workers \ {w} : run'[v] = run[v]
    BY <1>0, <1>4, WorkAdvances DEF Advances, Continues, TypeOK
  <2>2. RunsFinish'
    BY <1>1, <1>3, <1>4, <2>1, WorkPastFinish DEF FinishInv, RunsFinish
  <2>3. UNCHANGED <<bull, watchers>>
    BY <1>4 DEF Work, CheckPicked, TakeLock, Check, SetProgress, AnnounceStart,
       OpenContext, Validate, Generate, Deliver, SaveAnswer, Complete, Mark, Announce,
       Finish, Cleanup, GiveBackLock, queueVars
  <2>4. AllJobsFinish'
    BY <1>1, <1>2, <2>3 DEF FinishInv, AllJobsFinish, JobFinishes
  <2> QED BY <2>2, <2>4
<1>5. CASE Return(w)
  <2>1. run'[w] = Idle /\ \A v \in Workers \ {w} : run'[v] = run[v]
    BY <1>0, <1>5 DEF Return, TypeOK
  <2>2. RunsFinish'
    BY <1>1, <1>3, <2>1 DEF FinishInv, RunsFinish, PastFinish, Idle
  <2>3. PICK j \in Jobs : j = run[w].job /\ \A i \in Jobs \ {j} : bull'[i] = bull[i]
    BY <1>0, <1>3, <1>5 DEF Return, TypeOK, At, PastFinish
  <2>4. watchers \subseteq watchers'
    BY <1>5 DEF Return
  <2>5. JobFinishes(j)'
    <3>1. CASE run[w].thrown
      <4> DEFINE x == [job |-> j, on |-> "failed", pc |-> "mark"]
      <4>1. bull'[j] = "failed" /\ x \in watchers'
        BY <1>0, <1>5, <2>3, <3>1 DEF Return, TypeOK
      <4>2. x.job = j /\ x.pc # "read"
        OBVIOUS
      <4> HIDE DEF x
      <4> QED BY <4>1, <4>2 DEF JobFinishes
    <3>2. CASE ~run[w].thrown
      <4>1. bull'[j] = "completed"
        BY <1>0, <1>5, <2>3, <3>2 DEF Return, TypeOK
      <4>2. "done" \in published[j]
        BY <1>5, <2>3, <3>2 DEF Return, At, FinishInv, RunsFinish, PastFinish
      <4> QED BY <1>1, <4>1, <4>2 DEF JobFinishes
    <3> QED BY <3>1, <3>2
  <2> QED BY <1>1, <1>2, <2>2, <2>3, <2>4, <2>5 DEF FinishInv, AllJobsFinish, JobFinishes
<1> QED BY <1>4, <1>5

\* A rejected call gets a run there only by an exception, which it keeps.
LEMMA RunFaultFinishes ==
  ASSUME FinishInv, NEW w \in Workers, RunFault(w)
  PROVE  RunsFinish' /\ AllJobsFinish'
<1>0. /\ run \in [Workers -> Runs] /\ run[w] \in Runs /\ run[w].job \in Jobs /\ Marked(run[w])
      /\ Advances(w)
      /\ PastFinish(run[w]) => run[w].thrown \/ "done" \in published[run[w].job]
  BY RunFaultAdvances DEF FinishInv, RunsFinish, SlotsInv, TypeOK, RunsOK
<1>1. UNCHANGED <<published, bull, watchers, bereft>>
  BY DEF RunFault, rowVars, queueVars
<1>2. run'[w].job = run[w].job /\ \A v \in Workers \ {w} : run'[v] = run[v]
  BY <1>0 DEF Advances, Continues
<1>3. PastFinish(run'[w]) => run'[w].thrown \/ "done" \in published[run[w].job]
  <2>1. CASE Raise(w, "failed")
    BY <1>0, <2>1 DEF Raise, Raised, Runs, PastFinish
  <2>2. CASE run' = [run EXCEPT ![w] = Escaped(@, w)]
    BY <1>0, <2>2 DEF Escaped, Runs
  <2>3. CASE Goto(w, "announce")
    BY <1>0, <2>3 DEF Goto, Runs, PastFinish
  <2>4. CASE At(w, "cleanup") /\ run' = [run EXCEPT ![w] = AfterCleanup(@)]
    <3>1. run'[w] = AfterCleanup(run[w])
      BY <1>0, <2>4
    <3>2. run[w].thrown = run'[w].thrown /\ (run[w].outcome # "none" => run'[w].pc = "mark")
      BY <1>0, <3>1 DEF AfterCleanup, Runs
    <3> QED BY <1>0, <2>4, <3>2 DEF At, PastFinish
  <2>5. CASE At(w, "release") /\ Goto(w, "return")
    <3>1. run'[w].thrown = run[w].thrown
      BY <1>0, <2>5 DEF Goto, Runs
    <3> QED BY <1>0, <2>5, <3>1 DEF At, PastFinish
  <2>6. CASE run' = [run EXCEPT ![w] = IF @.caught THEN Escaped(@, w)
                                                    ELSE Raised(@, "failed")]
    <3>1. CASE run[w].caught
      BY <2>2, <2>6, <3>1
    <3>2. CASE ~run[w].caught
      BY <2>1, <2>6, <3>2 DEF Raise
    <3> QED BY <3>1, <3>2
  <2> QED BY <2>1, <2>2, <2>3, <2>4, <2>5, <2>6 DEF RunFault
<1>4. RunsFinish'
  BY <1>1, <1>2, <1>3 DEF FinishInv, RunsFinish
<1>5. AllJobsFinish'
  BY <1>1 DEF FinishInv, AllJobsFinish, JobFinishes
<1> QED BY <1>4, <1>5

\* The process dies: its listeners' jobs are recorded as bereft.
LEMMA DeathFinishes ==
  ASSUME FinishInv, ProcessDies, UNCHANGED <<published, bull>>
  PROVE  RunsFinish' /\ AllJobsFinish'
<1>1. \A w \in Workers : run'[w] = Idle
  BY DEF ProcessDies
<1>2. bereft \subseteq bereft' /\ \A x \in watchers : x.job \in bereft'
  BY DEF ProcessDies
<1>3. RunsFinish'
  BY <1>1 DEF RunsFinish, PastFinish, Idle
<1>4. AllJobsFinish'
  BY <1>2 DEF FinishInv, AllJobsFinish, JobFinishes
<1> QED BY <1>3, <1>4

LEMMA WatchFinishes ==
  ASSUME FinishInv, NEW x \in watchers, Watch(x) \/ WatcherFault(x)
  PROVE  RunsFinish' /\ AllJobsFinish'
<1>0. TypeOK /\ [Next]_vars /\ x \in Watchers /\ x.job \in Jobs
  BY DEF FinishInv, SlotsInv, TypeOK, Watchers, Next
<1>1. CASE WatcherFault(x) /\ ProcessDies
  BY <1>1, DeathFinishes DEF WatcherFault, rowVars, queueVars
<1>2. CASE Watch(x) \/ (WatcherFault(x) /\ ~ProcessDies)
  <2>1. UNCHANGED <<run, bull, bereft>>
    BY <1>2 DEF Watch, WatcherFault, queueVars, history
  <2>2. RunsFinish'
    BY <1>0, <2>1, QuietFinish
  <2>3. \A i \in Jobs : published[i] \subseteq published'[i]
    BY <1>0, StreamGrows
  <2>4. \A y \in watchers \ {x} : y \in watchers'
    BY <1>2 DEF Watch, WatcherFault, WatcherTo
  <2>5. x.pc # "read" =>
           "done" \in published'[x.job] \/ \E y \in watchers' : y.job = x.job /\ y.pc # "read"
    <3>1. ASSUME NEW p \in {"announce", "finish"}, WatcherTo(x, p)
          PROVE  \E y \in watchers' : y.job = x.job /\ y.pc # "read"
      <4>1. [x EXCEPT !.pc = p] \in watchers'
        BY <3>1 DEF WatcherTo
      <4>2. [x EXCEPT !.pc = p].job = x.job /\ [x EXCEPT !.pc = p].pc = p
        BY <1>0 DEF Watchers
      <4> QED BY <4>1, <4>2
    <3>2. CASE Watch(x)
      BY <1>0, <3>1, <3>2 DEF Watch, Publish, TypeOK
    <3>3. CASE WatcherFault(x) /\ ~ProcessDies
      <4>1. x.pc = "read" \/ WatcherTo(x, "announce")
        BY <3>3 DEF WatcherFault
      <4> QED BY <3>1, <4>1
    <3> QED BY <1>2, <3>2, <3>3
  <2>6. AllJobsFinish'
    <3> SUFFICES ASSUME NEW i \in Jobs PROVE JobFinishes(i)'
      BY DEF AllJobsFinish
    <3>1. JobFinishes(i)
      BY DEF FinishInv, AllJobsFinish
    <3> QED BY <2>1, <2>3, <2>4, <2>5, <3>1 DEF JobFinishes
  <2> QED BY <2>2, <2>6
<1> QED BY <1>1, <1>2

LEMMA OtherFinishes ==
  ASSUME FinishInv, \/ \E k \in Keys : LeaseEnds(k) \/ Reconnect(k)
                    \/ Crash
                    \/ UNCHANGED vars
  PROVE  RunsFinish' /\ AllJobsFinish'
<1>1. CASE Crash
  BY <1>1, DeathFinishes DEF Crash, rowVars, queueVars
<1>2. CASE (\E k \in Keys : LeaseEnds(k) \/ Reconnect(k)) \/ UNCHANGED vars
  BY <1>2 DEF LeaseEnds, Reconnect, vars, rowVars, queueVars, history, FinishInv,
     RunsFinish, AllJobsFinish, JobFinishes
<1> QED BY <1>1, <1>2

LEMMA InitFinishes == Init => FinishInv
<1> SUFFICES ASSUME Init PROVE RunsFinish /\ AllJobsFinish
  BY InitSlots DEF FinishInv
<1>1. RunsFinish
  BY DEF Init, RunsFinish, PastFinish, Idle
<1>2. AllJobsFinish
  BY DEF Init, AllJobsFinish, JobFinishes
<1> QED BY <1>1, <1>2

LEMMA NextFinishes == FinishInv /\ [Next]_vars => FinishInv'
<1> SUFFICES ASSUME FinishInv, [Next]_vars
             PROVE  FinishInv'
  OBVIOUS
<1>1. SlotsInv'
  BY NextSlots DEF FinishInv
<1>2. RunsFinish' /\ AllJobsFinish'
  BY JobStepFinishes, RetryFinishes, PickFinishes, WorkFinishes, RunFaultFinishes,
     WatchFinishes, OtherFinishes DEF Next
<1> QED BY <1>1, <1>2 DEF FinishInv

(* Whatever calls are rejected and however often the worker dies, the stream *)
(* of a job that the queue has finished with has its done event, unless a    *)
(* death took the listener that was to send it: publisher.complete in        *)
(* chatJobProcessor and in markWorkerFailure of worker.ts.                   *)
THEOREM FinishedAnnounced == Spec => []FinishedIsAnnounced
  BY InitFinishes, NextFinishes, FinishInvAnnounces, PTL DEF Spec

-----------------------------------------------------------------------------
(* The event of the outcome.                                                *)

\* The event of the status that the row has is on the stream,
Told(j) == published[j] \cap AnnouncedBy(db[j]) # {}

\* or whoever wrote that status publishes its event next,
MarkOf(x) == IF x.on = "stalled" THEN "timeout" ELSE "failed"

Telling(j) == \/ \E w \in Workers : /\ run[w].job = j
                                    /\ At(w, "announce")
                                    /\ StatusOf(run[w].outcome) = db[j]
              \/ canceller[j] = "announce" /\ db[j] = "cancelled"
              \/ \E x \in watchers : x.job = j /\ x.pc = "announce" /\ MarkOf(x) = db[j]

\* or somebody is still going to write the status.
WillMark(j) == \/ canceller[j] \in {"signal", "remove", "mark"}
               \/ \E x \in watchers : x.job = j /\ x.pc = "mark"
               \/ /\ bull[j] \in {"waiting", "active"}
                  /\ \A w \in Workers : run[w].job = j => ~Over(run[w])

JobTells(j) ==
    /\ db[j] \in Terminal /\ j \notin bereft => Told(j) \/ Telling(j) \/ WillMark(j)
    /\ bull[j] = "removed" => "done" \in published[j] \/ canceller[j] # "idle"

AllJobsTell == \A j \in Jobs : JobTells(j)

\* An answer is saved, and its job completed, only after its event.
Answered(r) == r.pc \in {"ended", "answer", "complete"} => "message_complete" \in published[r.job]

RunsTell == \A w \in Workers : Answered(run[w])

\* The inductive invariant, as long as no call is rejected.
TellInv == EndInv /\ FinishInv /\ RunsTell /\ AllJobsTell

LEMMA TellInvAnnounces == TellInv => SettledIsAnnounced
<1> SUFFICES ASSUME TellInv, NEW j \in Jobs, Settled(j), api[j] = "accepted", j \notin bereft
             PROVE  "done" \in published[j] /\ Told(j)
  BY DEF SettledIsAnnounced, Told
<1>1. db[j] \in Terminal
  BY EndInvTerminal DEF TellInv, SettledIsTerminal
<1>2. bull[j] \in {"removed", "completed", "failed"}
  BY DEF TellInv, EndInv, SlotsInv, TypeOK, AllJobsEnd, JobEnds, Unqueued, Settled
<1>3. JobTells(j) /\ JobFinishes(j)
  BY DEF TellInv, FinishInv, AllJobsTell, AllJobsFinish
<1>4. "done" \in published[j]
  BY <1>2, <1>3 DEF JobTells, JobFinishes, Settled
<1>5. \A w \in Workers : run[w].job # j
  BY <1>2, ChatAssumption DEF TellInv, EndInv, SlotsInv, AllSlotsOK, SlotOK
<1>6. ~Telling(j) /\ ~WillMark(j)
  BY <1>2, <1>5 DEF Telling, WillMark, Settled
<1> QED BY <1>1, <1>3, <1>4, <1>6 DEF JobTells

LEMMA MarksTold == \A o \in Marks : EventOf(o) \in AnnouncedBy(StatusOf(o))
  BY MarksAre DEF EventOf, AnnouncedBy, StatusOf

\* A job whose row, queue entry, canceller, listeners and run a step spares.
LEMMA Untouched ==
  ASSUME TellInv, [Next]_vars, NEW j \in Jobs,
         db'[j] = db[j], bull'[j] = bull[j], canceller'[j] = canceller[j],
         j \in bereft => j \in bereft',
         \A x \in watchers : x.job = j => x \in watchers',
         \A w \in Workers : run[w].job = j \/ run'[w].job = j => run'[w] = run[w]
  PROVE  JobTells(j)'
<1>1. published[j] \subseteq published'[j]
  BY StreamGrows DEF TellInv, EndInv, SlotsInv
<1>2. JobTells(j)
  BY DEF TellInv, AllJobsTell
<1>3. Told(j) => Told(j)'
  BY <1>1 DEF Told
<1>4. Telling(j) => Telling(j)'
  BY DEF Telling, At
<1>5. WillMark(j) => WillMark(j)'
  BY DEF WillMark
<1> QED BY <1>1, <1>2, <1>3, <1>4, <1>5 DEF JobTells

\* A step that leaves the slots alone spares what they rely on.
LEMMA QuietTells ==
  ASSUME TellInv, [Next]_vars, UNCHANGED run
  PROVE  RunsTell'
<1> SUFFICES ASSUME NEW w \in Workers, run[w].pc \in {"ended", "answer", "complete"}
             PROVE  "message_complete" \in published'[run[w].job]
  BY DEF RunsTell, Answered
<1>1. run[w].job \in Jobs
  BY DEF TellInv, EndInv, SlotsInv, AllSlotsOK, SlotOK
<1> QED BY <1>1, StreamGrows DEF TellInv, EndInv, SlotsInv, RunsTell, Answered

LEMMA CancellingTells ==
  ASSUME TellInv, NEW j \in Jobs, Cancelling(j)
  PROVE  JobTells(j)'
<1>0. TypeOK /\ [Next]_vars /\ JobTells(j)
  BY DEF TellInv, EndInv, SlotsInv, AllJobsTell, Next
<1>1. UNCHANGED <<run, watchers, bereft>>
  BY DEF Cancelling, history
<1>2. published[j] \subseteq published'[j]
  BY <1>0, StreamGrows
<1>3. canceller'[j] = CancelNext[canceller[j]]
  BY <1>0 DEF Cancelling, TypeOK
<1>4. Told(j) /\ UNCHANGED db => Told(j)'
  BY <1>2 DEF Told
<1>5. CASE canceller[j] \in {"signal", "remove"}
  <2>1. canceller'[j] \in {"remove", "mark"}
    BY <1>3, <1>5 DEF CancelNext
  <2> QED BY <2>1 DEF JobTells, WillMark
<1>6. CASE canceller[j] = "mark"
  <2>1. canceller'[j] = "announce" /\ db'[j] = "cancelled"
    BY <1>0, <1>3, <1>6 DEF Cancelling, CancelNext, SetStatus, TypeOK
  <2> QED BY <2>1 DEF JobTells, Telling
<1>7. CASE canceller[j] = "announce"
  <2>1. canceller'[j] = "finish" /\ UNCHANGED <<db, bull>> /\ "cancelled" \in published'[j]
    BY <1>0, <1>3, <1>7 DEF Cancelling, CancelNext, Publish, TypeOK
  <2>2. db[j] = "cancelled" => Told(j)'
    BY <2>1 DEF Told, AnnouncedBy
  <2>3. Telling(j) => Told(j)' \/ Telling(j)'
    BY <1>1, <2>1, <2>2 DEF Telling, At
  <2>4. WillMark(j) => WillMark(j)'
    BY <1>1, <1>7, <2>1 DEF WillMark
  <2> QED BY <1>0, <1>1, <1>4, <2>1, <2>3, <2>4 DEF JobTells
<1>8. CASE canceller[j] = "finish"
  <2>1. UNCHANGED <<db, bull>> /\ "done" \in published'[j]
    BY <1>0, <1>8 DEF Cancelling, Publish, TypeOK
  <2>2. Telling(j) => Telling(j)'
    BY <1>1, <1>8, <2>1 DEF Telling, At
  <2>3. WillMark(j) => WillMark(j)'
    BY <1>1, <1>8, <2>1 DEF WillMark
  <2> QED BY <1>0, <1>1, <1>4, <2>1, <2>2, <2>3 DEF JobTells
<1> QED BY <1>0, <1>5, <1>6, <1>7, <1>8 DEF Cancelling, TypeOK

LEMMA JobStepTells ==
  ASSUME TellInv, MaxFaults = 0, NEW j \in Jobs,
         \/ Submit(j) \/ Handle(j) \/ Cancel(j) \/ Cancelling(j) \/ Stall(j)
         \/ CancelKeyEnds(j) \/ HandlerFault(j) \/ CancelFault(j)
  PROVE  RunsTell' /\ AllJobsTell'
<1>0. TypeOK /\ [Next]_vars /\ AddedOnce /\ AllSlotsOK /\ JobTells(j) /\ JobEnds(j)
  BY DEF TellInv, EndInv, SlotsInv, AllJobsTell, AllJobsEnd, Next
<1>1. UNCHANGED <<run, bereft>> /\ watchers \subseteq watchers'
  BY DEF Submit, Handle, CloneFiles, Enqueue, Accept, Refuse, Cancel, Cancelling, Stall,
     CancelKeyEnds, HandlerFault, CancelFault, history
<1>2. RunsTell'
  BY <1>0, <1>1, QuietTells
<1>3. \A i \in Jobs \ {j} : db'[i] = db[i] /\ bull'[i] = bull[i] /\ canceller'[i] = canceller[i]
  <2>1. CASE Submit(j) \/ CloneFiles(j) \/ Enqueue(j) \/ Accept(j) \/ Refuse(j)
    BY <1>0, <2>1 DEF Submit, CloneFiles, Enqueue, Accept, Refuse, rowVars, queueVars,
       SetStatus, TypeOK
  <2>2. CASE Cancel(j) \/ Stall(j) \/ CancelKeyEnds(j) \/ HandlerFault(j) \/ CancelFault(j)
    BY <1>0, <2>2 DEF Cancel, Stall, CancelKeyEnds, HandlerFault, CancelFault, rowVars,
       queueVars, apiVars, TypeOK
  <2>3. CASE Cancelling(j)
    BY <1>0, <2>3 DEF Cancelling, SetStatus, TypeOK
  <2> QED BY <2>1, <2>2, <2>3 DEF Handle
<1>4. \A i \in Jobs \ {j} : JobTells(i)'
  BY <1>0, <1>1, <1>3, Untouched
<1>5. JobTells(j)'
  <2>1. CASE Submit(j)
    <3>1. db'[j] = "queued" /\ bull'[j] = "absent"
      BY <1>0, <2>1 DEF Submit, SetStatus, TypeOK, AddedOnce, Unqueued, queueVars
    <3> QED BY <3>1 DEF JobTells, Terminal
  <2>2. CASE CloneFiles(j) \/ Accept(j) \/ CancelKeyEnds(j)
    <3>1. UNCHANGED <<db, bull, canceller>>
      BY <2>2 DEF CloneFiles, Accept, CancelKeyEnds, rowVars, queueVars
    <3> QED BY <1>0, <1>1, <3>1, Untouched
  <2>3. CASE Enqueue(j)
    <3>1. bull[j] = "absent" /\ bull'[j] = "waiting"
      BY <1>0, <2>3 DEF Enqueue, TypeOK, AddedOnce, Unqueued
    <3>2. \A w \in Workers : run[w].job # j
      BY <1>0, <3>1, ChatAssumption DEF AllSlotsOK, SlotOK
    <3> QED BY <1>1, <3>1, <3>2 DEF JobTells, WillMark
  <2>4. CASE Refuse(j)
    BY <1>0, <2>4 DEF Refuse, JobEnds, Unqueued
  <2>5. CASE Cancel(j)
    <3>1. canceller'[j] = "signal"
      BY <1>0, <2>5 DEF Cancel, TypeOK
    <3> QED BY <3>1 DEF JobTells, WillMark
  <2>6. CASE Stall(j)
    <3>1. \A w \in Workers : run[w].job # j
      BY <2>6 DEF Stall, Orphaned
    <3>2. \/ bull'[j] = "waiting"
          \/ bull'[j] = "failed" /\ \E x \in watchers' : x.job = j /\ x.pc = "mark"
      <4> DEFINE x == [job |-> j, on |-> "failed", pc |-> "mark"]
      <4>1. bull'[j] = "waiting" \/ (bull'[j] = "failed" /\ x \in watchers')
        BY <1>0, <2>6 DEF Stall, TypeOK
      <4>2. x.job = j /\ x.pc = "mark"
        OBVIOUS
      <4> QED BY <4>1, <4>2
    <3> QED BY <1>1, <3>1, <3>2 DEF JobTells, WillMark
  <2>7. CASE HandlerFault(j) \/ CancelFault(j)
    BY <1>0, <2>7, NoFault DEF HandlerFault, CancelFault
  <2> QED BY <2>1, <2>2, <2>3, <2>4, <2>5, <2>6, <2>7, CancellingTells DEF Handle
<1> QED BY <1>2, <1>4, <1>5 DEF AllJobsTell

LEMMA RetryTells ==
  ASSUME TellInv, NEW old \in Jobs, NEW j \in Jobs, Retry(old, j)
  PROVE  RunsTell' /\ AllJobsTell'
<1>0. TypeOK /\ [Next]_vars /\ AddedOnce
  BY DEF TellInv, EndInv, SlotsInv, Next
<1>1. UNCHANGED <<run, watchers, bereft, bull, canceller>>
  BY DEF Retry, history, queueVars
<1>2. RunsTell'
  BY <1>0, <1>1, QuietTells
<1>3. \A i \in Jobs \ {j} : JobTells(i)'
  <2>1. \A i \in Jobs \ {j} : db'[i] = db[i]
    BY <1>0 DEF Retry, SetStatus, TypeOK
  <2> QED BY <1>0, <1>1, <2>1, Untouched
<1>4. db'[j] = "queued" /\ bull'[j] = "absent"
  BY <1>0, <1>1 DEF Retry, SetStatus, TypeOK, AddedOnce, Unqueued
<1>5. JobTells(j)'
  BY <1>4 DEF JobTells, Terminal
<1> QED BY <1>2, <1>3, <1>5 DEF AllJobsTell

LEMMA PickTells ==
  ASSUME TellInv, NEW w \in Workers, NEW j \in Jobs, Pick(w, j)
  PROVE  RunsTell' /\ AllJobsTell'
<1>0. TypeOK /\ [Next]_vars /\ AllSlotsOK
  BY DEF TellInv, EndInv, SlotsInv, Next
<1>1. /\ run'[w].pc = "picked" /\ run'[w].job = j
      /\ \A v \in Workers \ {w} : run'[v] = run[v]
  BY <1>0 DEF Pick, TypeOK, Idle
<1>2. UNCHANGED <<db, published, canceller, watchers, bereft>>
  BY DEF Pick, rowVars, apiVars, history
<1>3. bull'[j] = "active" /\ \A i \in Jobs \ {j} : bull'[i] = bull[i]
  BY <1>0 DEF Pick, TypeOK
<1>4. run[w].job = NoJob /\ \A v \in Workers : run[v].job # j
  BY <1>0, ChatAssumption DEF Pick, At, AllSlotsOK, SlotOK
<1>5. RunsTell'
  BY <1>1, <1>2 DEF TellInv, RunsTell, Answered
<1>6. \A i \in Jobs \ {j} : JobTells(i)'
  BY <1>0, <1>1, <1>2, <1>3, <1>4, ChatAssumption, Untouched
<1>7. \A v \in Workers : run'[v].job = j => ~Over(run'[v])
  BY <1>1, <1>4 DEF Over
<1>8. JobTells(j)'
  BY <1>3, <1>7 DEF JobTells, WillMark
<1> QED BY <1>5, <1>6, <1>8 DEF AllJobsTell

\* Where a step of a run leaves the outcome of its job: still open, about to
\* be announced, on the stream, or where it was.
LeavesTold(w, j) ==
    \/ ~Over(run'[w])
    \/ run'[w].pc = "announce" /\ StatusOf(run'[w].outcome) = db'[j]
    \/ Told(j)'
    \/ Over(run[w]) /\ ~(At(w, "announce") /\ StatusOf(run[w].outcome) = db[j]) /\ UNCHANGED db

LEMMA WorkLeavesTold ==
  ASSUME TellInv, NEW w \in Workers, Work(w), ~Return(w), NEW j \in Jobs, j = run[w].job
  PROVE  LeavesTold(w, j) /\ Answered(run[w])'
<1>0. /\ run \in [Workers -> Runs] /\ run[w] \in Runs /\ Marked(run[w]) /\ TypeOK
      /\ [Next]_vars /\ Answered(run[w]) /\ run'[w].job = j
  BY WorkAdvances DEF TellInv, EndInv, SlotsInv, TypeOK, RunsOK, RunsTell, Next, Advances,
     Continues
<1>1. published[j] \subseteq published'[j]
  BY <1>0, StreamGrows
<1>2. ASSUME NEW o, o # "none", Raise(w, o)
      PROVE  ~Over(run'[w]) /\ run'[w].pc \in {"cleanup", "mark"}
  BY <1>0, <1>2 DEF Raise, Raised, Runs, Over
<1>3. ASSUME NEW o, EndWith(w, o)
      PROVE  ~Over(run'[w]) /\ run'[w].pc = "mark"
  BY <1>0, <1>3 DEF EndWith, Runs, Over
<1>4. ASSUME NEW p, Goto(w, p)
      PROVE  run'[w].pc = p /\ run'[w].outcome = run[w].outcome
  BY <1>0, <1>4 DEF Goto, Runs
<1> USE DEF LeavesTold
<1>5. CASE CheckPicked(w) \/ TakeLock(w) \/ SetProgress(w) \/ AnnounceStart(w)
          \/ Generate(w) \/ Validate(w)
  BY <1>2, <1>3, <1>4, <1>5 DEF CheckPicked, TakeLock, SetProgress, AnnounceStart,
     Generate, Validate, Over, Answered
<1>6. CASE Check(w)
  <2>1. CASE \E o : o # "none" /\ Raise(w, o)
    BY <1>2, <2>1 DEF Answered
  <2>2. CASE Goto(w, CheckThen[run[w].pc])
    BY <1>0, <1>1, <1>4, <1>6, <2>2 DEF Check, CheckThen, Over, Answered
  <2> QED BY <1>6, <2>1, <2>2 DEF Check
<1>7. CASE OpenContext(w)
  <2>1. CASE run' = [run EXCEPT ![w].pc = "opened", ![w].browser = TRUE]
    <3>1. run'[w].pc = "opened"
      BY <1>0, <2>1 DEF Runs
    <3> QED BY <3>1 DEF Over, Answered
  <2> QED BY <1>2, <1>3, <1>7, <2>1 DEF OpenContext, Answered
<1>8. CASE Deliver(w)
  <2>1. CASE Publish(run[w].job, "message_complete") /\ Goto(w, "ended")
    BY <1>0, <1>4, <2>1 DEF Publish, TypeOK, Over, Answered
  <2> QED BY <1>3, <1>8, <2>1 DEF Deliver, Answered
<1>9. CASE SaveAnswer(w)
  BY <1>0, <1>1, <1>4, <1>9 DEF SaveAnswer, At, Over, Answered
<1>10. CASE Complete(w)
  <2>1. run'[w].pc = "finish" /\ db'[j] = "completed" /\ "message_complete" \in published'[j]
    BY <1>0, <1>1, <1>4, <1>10 DEF Complete, At, SetStatus, TypeOK, Answered
  <2>2. Told(j)'
    BY <2>1 DEF Told, AnnouncedBy
  <2> QED BY <2>1, <2>2 DEF Answered
<1>11. CASE Mark(w)
  <2>1. run'[w].pc = "announce" /\ StatusOf(run'[w].outcome) = db'[j]
    BY <1>0, <1>4, <1>11 DEF Mark, SetStatus, TypeOK
  <2> QED BY <2>1 DEF Answered
<1>12. CASE Announce(w)
  <2>1. run'[w].pc = "finish" /\ UNCHANGED db /\ EventOf(run[w].outcome) \in published'[j]
    BY <1>0, <1>12 DEF Announce, Publish, Runs, TypeOK
  <2>2. EventOf(run[w].outcome) \in AnnouncedBy(StatusOf(run[w].outcome))
    BY <1>0, <1>12, MarksTold DEF Announce, At, Marked, Runs, Marks
  <2>3. StatusOf(run[w].outcome) = db[j] => Told(j)'
    BY <2>1, <2>2 DEF Told
  <2>4. Over(run[w])
    BY <1>12 DEF Announce, At, Over
  <2> QED BY <2>1, <2>3, <2>4 DEF Answered
<1>13. CASE Finish(w)
  <2>1. run'[w].pc \in {"cleanup", "release", "return"}
    BY <1>0, <1>13 DEF Finish, AfterDone, Runs
  <2> QED BY <1>13, <2>1 DEF Finish, At, Over, Answered
<1>14. CASE Cleanup(w)
  <2>1. run'[w] = AfterCleanup(run[w])
    BY <1>0, <1>14 DEF Cleanup
  <2>2. /\ run'[w].pc \in {"release", "mark"}
        /\ run[w].outcome # "none" => run'[w].pc = "mark"
    BY <1>0, <2>1 DEF AfterCleanup, Runs
  <2> QED BY <1>14, <2>2 DEF Cleanup, At, Over, Answered
<1>15. CASE GiveBackLock(w)
  BY <1>4, <1>15 DEF GiveBackLock, rowVars, At, Over, Answered
<1> QED BY <1>5, <1>6, <1>7, <1>8, <1>9, <1>10, <1>11, <1>12, <1>13, <1>14, <1>15 DEF Work

LEMMA WorkTells ==
  ASSUME TellInv, NEW w \in Workers, Work(w)
  PROVE  RunsTell' /\ AllJobsTell'
<1>0. TypeOK /\ RunsOK /\ [Next]_vars /\ AllSlotsOK /\ ~At(w, "idle")
  <2>1. TypeOK /\ RunsOK /\ AllSlotsOK /\ [Next]_vars
    BY DEF TellInv, EndInv, SlotsInv, Next
  <2>2. CASE Return(w)
    BY <2>1, <2>2 DEF Return, At
  <2> QED BY <2>1, <2>2, WorkAdvances
<1>1. PICK j \in Jobs : j = run[w].job
  BY <1>0 DEF RunsOK
<1>2. bull[j] = "active" /\ \A v \in Workers \ {w} : run[v].job # j
  BY <1>0, <1>1, ChatAssumption DEF TellInv, EndInv, SlotsInv, NoTwins, AllSlotsOK, SlotOK, At
<1>3. \A i \in Jobs \ {j} : db'[i] = db[i] /\ bull'[i] = bull[i]
  BY <1>0, <1>1 DEF Work, CheckPicked, TakeLock, Check, SetProgress, AnnounceStart,
     OpenContext, Validate, Generate, Deliver, SaveAnswer, Complete, Mark, Announce,
     Finish, Cleanup, GiveBackLock, Return, rowVars, queueVars, SetStatus, TypeOK
<1>4. UNCHANGED <<canceller, bereft>> /\ watchers \subseteq watchers'
  BY DEF Work, CheckPicked, TakeLock, Check, SetProgress, AnnounceStart,
     OpenContext, Validate, Generate, Deliver, SaveAnswer, Complete, Mark, Announce,
     Finish, Cleanup, GiveBackLock, Return, apiVars, history
<1>5. \A v \in Workers : ~At(v, "idle") => run[v].job \in Jobs
  BY <1>0 DEF RunsOK
<1>6. \A i \in Jobs : published[i] \subseteq published'[i]
  BY <1>0, StreamGrows
<1>7. JobTells(j)
  BY DEF TellInv, AllJobsTell
<1>8. CASE ~Return(w)
  <2>1. run'[w].job = j /\ \A v \in Workers \ {w} : run'[v] = run[v]
    BY <1>0, <1>1, <1>8, WorkAdvances DEF Advances, Continues, TypeOK
  <2>2. LeavesTold(w, j) /\ Answered(run[w])'
    BY <1>1, <1>8, WorkLeavesTold
  <2>3. RunsTell'
    BY <1>5, <1>6, <2>1, <2>2 DEF At, TellInv, RunsTell, Answered
  <2>4. \A i \in Jobs \ {j} : JobTells(i)'
    BY <1>0, <1>1, <1>3, <1>4, <2>1, Untouched
  <2>5. UNCHANGED bull
    BY <1>8 DEF Work, CheckPicked, TakeLock, Check, SetProgress, AnnounceStart,
       OpenContext, Validate, Generate, Deliver, SaveAnswer, Complete, Mark, Announce,
       Finish, Cleanup, GiveBackLock, queueVars
  <2>6. JobTells(j)'
    <3>1. CASE ~Over(run'[w])
      <4>1. \A v \in Workers : run'[v].job = j => ~Over(run'[v])
        BY <1>2, <2>1, <3>1
      <4> QED BY <1>2, <2>5, <4>1 DEF JobTells, WillMark
    <3>2. CASE run'[w].pc = "announce" /\ StatusOf(run'[w].outcome) = db'[j]
      <4>1. Telling(j)'
        BY <2>1, <3>2 DEF Telling, At
      <4> QED BY <1>2, <2>5, <4>1 DEF JobTells
    <3>3. CASE Told(j)'
      BY <1>2, <2>5, <3>3 DEF JobTells
    <3>4. CASE /\ Over(run[w]) /\ UNCHANGED db
               /\ ~(At(w, "announce") /\ StatusOf(run[w].outcome) = db[j])
      <4>1. Told(j) => Told(j)'
        BY <1>6, <3>4 DEF Told
      <4>2. Telling(j) => Telling(j)'
        BY <1>2, <1>4, <3>4 DEF Telling, At
      <4>3. WillMark(j) => WillMark(j)'
        BY <1>1, <1>4, <3>4 DEF WillMark
      <4> QED BY <1>2, <1>4, <1>7, <2>5, <3>4, <4>1, <4>2, <4>3 DEF JobTells
    <3> QED BY <2>2, <3>1, <3>2, <3>3, <3>4 DEF LeavesTold
  <2> QED BY <2>3, <2>4, <2>6 DEF AllJobsTell
<1>9. CASE Return(w)
  <2>1. run'[w] = Idle /\ \A v \in Workers \ {w} : run'[v] = run[v]
    BY <1>0, <1>9 DEF Return, TypeOK
  <2>2. UNCHANGED db /\ bull'[j] \in {"completed", "failed"}
    BY <1>0, <1>1, <1>9 DEF Return, rowVars, TypeOK
  <2>3. RunsTell'
    BY <1>5, <1>6, <2>1 DEF At, Idle, TellInv, RunsTell, Answered
  <2>4. \A i \in Jobs \ {j} : JobTells(i)'
    <3> SUFFICES ASSUME NEW i \in Jobs \ {j} PROVE JobTells(i)'
      OBVIOUS
    <3>1. \A v \in Workers : run[v].job = i \/ run'[v].job = i => run'[v] = run[v]
      BY <1>1, <2>1, ChatAssumption DEF Idle
    <3> QED BY <1>0, <1>3, <1>4, <3>1, Untouched
  <2>5. JobTells(j)'
    <3>1. Told(j) => Told(j)'
      BY <1>6, <2>2 DEF Told
    <3>2. Telling(j) => Telling(j)'
      BY <1>2, <1>4, <1>9, <2>2 DEF Return, Telling, At
    <3>3. Over(run[w])
      BY <1>9 DEF Return, At, Over
    <3>4. WillMark(j) => WillMark(j)'
      BY <1>1, <1>4, <3>3 DEF WillMark
    <3> QED BY <1>4, <1>7, <2>2, <3>1, <3>2, <3>4 DEF JobTells
  <2> QED BY <2>3, <2>4, <2>5 DEF AllJobsTell
<1> QED BY <1>8, <1>9

LEMMA WatchTells ==
  ASSUME TellInv, MaxFaults = 0, NEW x \in watchers, Watch(x) \/ WatcherFault(x)
  PROVE  RunsTell' /\ AllJobsTell'
<1>0. TypeOK /\ [Next]_vars /\ x \in Watchers
  BY DEF TellInv, EndInv, SlotsInv, TypeOK, Watchers, Next
<1>1. Watch(x)
  BY <1>0, NoFault DEF WatcherFault
<1>2. UNCHANGED <<run, bull, canceller, bereft>>
  BY <1>1 DEF Watch, queueVars, apiVars, history
<1>3. RunsTell'
  BY <1>0, <1>2, QuietTells
<1>4. \A y \in watchers \ {x} : y \in watchers'
  BY <1>1 DEF Watch, WatcherTo
<1>5. PICK j \in Jobs : j = x.job
  BY <1>0 DEF Watchers
<1>6. \A i \in Jobs \ {j} : JobTells(i)'
  <2>1. \A i \in Jobs \ {j} : db'[i] = db[i]
    BY <1>0, <1>1, <1>5 DEF Watch, SetStatus, TypeOK
  <2> QED BY <1>0, <1>2, <1>4, <1>5, <2>1, Untouched
<1>7. JobTells(j)'
  <2>1. published[j] \subseteq published'[j] /\ JobTells(j)
    BY <1>0, StreamGrows DEF TellInv, AllJobsTell
  <2>2. UNCHANGED db /\ Told(j) => Told(j)'
    BY <2>1 DEF Told
  <2>3. UNCHANGED db /\ x.pc \notin {"mark"} /\ WillMark(j) => WillMark(j)'
    BY <1>2, <1>4 DEF WillMark
  <2>4. CASE x.pc \in {"read", "finish"} /\ UNCHANGED db
    <3>1. Telling(j) => Telling(j)'
      BY <1>2, <1>4, <2>4 DEF Telling, At
    <3> QED BY <1>2, <2>1, <2>2, <2>3, <2>4, <3>1 DEF JobTells
  <2>5. CASE x.pc = "read" /\ WatcherTo(x, "mark")
    <3> DEFINE y == [x EXCEPT !.pc = "mark"]
    <3>1. y \in watchers' /\ y.job = j /\ y.pc = "mark"
      BY <1>0, <1>5, <2>5 DEF WatcherTo, Watchers
    <3> HIDE DEF y
    <3> QED BY <1>2, <2>1, <3>1 DEF JobTells, WillMark
  <2>6. CASE x.pc = "mark" /\ db'[j] = MarkOf(x) /\ WatcherTo(x, "announce")
    <3> DEFINE y == [x EXCEPT !.pc = "announce"]
    <3>1. y \in watchers' /\ y.job = j /\ y.pc = "announce" /\ y.on = x.on
      BY <1>0, <1>5, <2>6 DEF WatcherTo, Watchers
    <3> HIDE DEF y
    <3>2. Telling(j)'
      BY <2>6, <3>1 DEF Telling, MarkOf
    <3> QED BY <1>2, <2>1, <3>2 DEF JobTells
  <2>7. CASE x.pc = "announce" /\ UNCHANGED db /\ published'[j] \cap AnnouncedBy(MarkOf(x)) # {}
    <3>1. MarkOf(x) = db[j] => Told(j)'
      BY <2>7 DEF Told
    <3>2. Telling(j) => Telling(j)' \/ Told(j)'
      BY <1>2, <1>4, <2>7, <3>1 DEF Telling, At
    <3> QED BY <1>2, <2>1, <2>2, <2>3, <2>7, <3>2 DEF JobTells
  <2>8. x.pc = "mark" => db'[j] = MarkOf(x)
    BY <1>0, <1>1, <1>5 DEF Watch, SetStatus, MarkOf, TypeOK
  <2>9. x.pc = "announce" => published'[j] \cap AnnouncedBy(MarkOf(x)) # {}
    BY <1>0, <1>1, <1>5 DEF Watch, Publish, MarkOf, AnnouncedBy, TypeOK
  <2> QED BY <1>1, <2>4, <2>5, <2>6, <2>7, <2>8, <2>9 DEF Watch
<1> QED BY <1>3, <1>6, <1>7 DEF AllJobsTell

\* The death of the process leaves active jobs behind, which stall, and takes
\* only listeners whose jobs it records.
LEMMA CrashTells ==
  ASSUME TellInv, Crash
  PROVE  RunsTell' /\ AllJobsTell'
<1>1. \A w \in Workers : run'[w] = Idle
  BY DEF Crash, ProcessDies
<1>2. RunsTell'
  BY <1>1 DEF RunsTell, Answered, Idle
<1>3. UNCHANGED <<db, published, bull, canceller>>
  BY DEF Crash, rowVars, queueVars, apiVars
<1>4. bereft \subseteq bereft' /\ \A x \in watchers : x.job \in bereft'
  BY DEF Crash, ProcessDies
<1>5. ASSUME NEW j \in Jobs
      PROVE  JobTells(j)'
  <2>1. JobTells(j)
    BY DEF TellInv, AllJobsTell
  <2>2. \A w \in Workers : run'[w].job # j
    BY <1>1, ChatAssumption DEF Idle
  <2>3. Told(j) => Told(j)'
    BY <1>3 DEF Told
  <2>4. bull[j] = "active" => WillMark(j)'
    BY <1>3, <2>2 DEF WillMark
  <2>5. ASSUME j \notin bereft', Telling(j)
        PROVE  Telling(j)' \/ WillMark(j)'
    <3>1. \A x \in watchers : x.job # j
      BY <1>4, <2>5
    <3>2. \A w \in Workers : run[w].job = j => bull[j] = "active"
      BY ChatAssumption DEF TellInv, EndInv, SlotsInv, AllSlotsOK, SlotOK
    <3> QED BY <1>3, <2>4, <2>5, <3>1, <3>2 DEF Telling
  <2>6. ASSUME j \notin bereft', WillMark(j)
        PROVE  WillMark(j)'
    BY <1>3, <1>4, <2>2, <2>6 DEF WillMark
  <2> QED BY <1>3, <1>4, <2>1, <2>3, <2>5, <2>6 DEF JobTells
<1> QED BY <1>2, <1>5 DEF AllJobsTell

LEMMA OtherTells ==
  ASSUME TellInv, \/ \E k \in Keys : LeaseEnds(k) \/ Reconnect(k)
                  \/ UNCHANGED vars
  PROVE  RunsTell' /\ AllJobsTell'
<1>1. [Next]_vars /\ UNCHANGED <<run, db, bull, canceller, bereft, watchers>>
  BY DEF Next, LeaseEnds, Reconnect, vars, rowVars, queueVars, apiVars, history
<1>2. RunsTell'
  BY <1>1, QuietTells
<1>3. AllJobsTell'
  BY <1>1, Untouched DEF AllJobsTell
<1> QED BY <1>2, <1>3

LEMMA InitTells == Init => TellInv
<1> SUFFICES ASSUME Init PROVE RunsTell /\ AllJobsTell
  BY InitEnds, InitFinishes DEF TellInv
<1>1. RunsTell
  BY DEF Init, RunsTell, Answered, Idle
<1>2. AllJobsTell
  BY DEF Init, AllJobsTell, JobTells, Terminal
<1> QED BY <1>1, <1>2

LEMMA NextTells == ASSUME MaxFaults = 0 PROVE TellInv /\ [Next]_vars => TellInv'
<1> SUFFICES ASSUME TellInv, [Next]_vars
             PROVE  TellInv'
  OBVIOUS
<1>1. EndInv' /\ FinishInv'
  BY NextEnds, NextFinishes DEF TellInv
<1>2. ASSUME NEW w \in Workers PROVE ~RunFault(w)
  BY NoFault DEF TellInv, EndInv, SlotsInv, RunFault
<1>3. RunsTell' /\ AllJobsTell'
  BY <1>2, JobStepTells, RetryTells, PickTells, WorkTells, WatchTells, CrashTells,
     OtherTells DEF Next
<1> QED BY <1>1, <1>3 DEF TellInv

(* As long as no database or Redis call is rejected, whoever wrote the       *)
(* status a settled job ends with has also published its event and done, for *)
(* any jobs, slots, cancels, stalls and deaths of the worker: the order of   *)
(* row update, event and publisher.complete in chatJobProcessor, worker.ts   *)
(* and POST /chat/:jobId/cancel.                                             *)
THEOREM SettledAnnounced == ASSUME MaxFaults = 0 PROVE Spec => []SettledIsAnnounced
<1>1. TellInv /\ [Next]_vars => TellInv'
  BY NextTells
<1> QED BY <1>1, InitTells, TellInvAnnounces, PTL DEF Spec

=============================================================================
