--------------------------- MODULE ChatJobProofs ----------------------------
(* Proofs about the Redis lock of the chat worker and the life of a chat    *)
(* job that uses it, for any jobs, slots and keys, and whatever is rejected, *)
(* stalls or dies: queue, slots and lock stay in step (a busy slot runs a     *)
(* job the queue counts as active, no two slots run the same one, a slot      *)
(* holds only the lock of its job, and only inside its section), and a        *)
(* cancel signal set in time keeps the prompt from the provider.             *)
EXTENDS ChatJob, TLAPS

-----------------------------------------------------------------------------
(* The lock.                                                               *)

\* A run takes one lock, so a slot holds at most one key.
OneKeyEach == \A w \in Workers : \A k, l \in holding[w] : k = l

\* The inductive invariant.
LockInv == LockTypeOK /\ LeaseIntact /\ TokenLive /\ OneKeyEach

LEMMA LockInitInv == LockInit => LockInv
  BY LockAssumption
  DEF LockInit, LockInv, LockTypeOK, LeaseIntact, TokenLive, OneKeyEach

\* SET ... NX: the key was free, so no lease in force is disturbed.
LEMMA AcquireInv ==
  ASSUME LockInv, NEW w \in Workers, NEW k \in Keys, Acquire(w, k)
  PROVE  LockInv'
<1>1. LockTypeOK'
  BY DEF LockInv, LockTypeOK, Acquire
<1>2. LeaseIntact'
  BY LockAssumption DEF LockInv, LockTypeOK, LeaseIntact, Acquire, Busy
<1>3. TokenLive'
  BY LockAssumption DEF LockInv, LockTypeOK, TokenLive, Acquire, Busy
<1>4. OneKeyEach'
  BY DEF LockInv, LockTypeOK, OneKeyEach, Acquire
<1> QED BY <1>1, <1>2, <1>3, <1>4 DEF LockInv

\* The compare-and-delete script removes the caller's token and no other.
LEMMA ReleaseInv ==
  ASSUME LockInv, NEW w \in Workers, NEW k \in Keys, Release(w, k)
  PROVE  LockInv'
<1>1. LockTypeOK'
  BY DEF LockInv, LockTypeOK, Release
<1>2. LeaseIntact'
  BY DEF LockInv, LockTypeOK, LeaseIntact, Release
<1>3. TokenLive'
  BY LockAssumption DEF LockInv, LockTypeOK, TokenLive, OneKeyEach, Release
<1>4. OneKeyEach'
  BY DEF LockInv, LockTypeOK, OneKeyEach, Release
<1> QED BY <1>1, <1>2, <1>3, <1>4 DEF LockInv

\* The death of slots turns their tokens into stale ones.
LEMMA AbandonInv ==
  ASSUME LockInv, NEW S \in SUBSET Workers, Abandon(S)
  PROVE  LockInv'
<1>1. LockTypeOK'
  BY DEF LockInv, LockTypeOK, Abandon
<1>2. LeaseIntact'
  BY DEF LockInv, LockTypeOK, LeaseIntact, Abandon
<1>3. TokenLive'
  BY LockAssumption DEF LockInv, LockTypeOK, TokenLive, Abandon
<1>4. OneKeyEach'
  BY DEF LockInv, LockTypeOK, OneKeyEach, Abandon
<1> QED BY <1>1, <1>2, <1>3, <1>4 DEF LockInv

\* An expiry is recorded as a lapse of whoever held the key.
LEMMA ExpireInv ==
  ASSUME LockInv, NEW k \in Keys, Expire(k)
  PROVE  LockInv'
<1>1. LockTypeOK'
  BY DEF LockInv, LockTypeOK, Expire
<1>2. LeaseIntact'
  BY DEF LockInv, LockTypeOK, LeaseIntact, Expire
<1>3. TokenLive'
  BY LockAssumption DEF LockInv, LockTypeOK, TokenLive, Expire
<1>4. OneKeyEach'
  BY DEF LockInv, LockTypeOK, OneKeyEach, Expire
<1> QED BY <1>1, <1>2, <1>3, <1>4 DEF LockInv

LEMMA LockNextInv == LockInv /\ [LockNext]_lockVars => LockInv'
<1> SUFFICES ASSUME LockInv, [LockNext]_lockVars
             PROVE  LockInv'
  OBVIOUS
<1>1. CASE \E w \in Workers, k \in Keys : Acquire(w, k) \/ Release(w, k)
  BY <1>1, AcquireInv, ReleaseInv
<1>2. CASE \E S \in SUBSET Workers : Abandon(S)
  BY <1>2, AbandonInv
<1>3. CASE \E k \in Keys : Expire(k)
  BY <1>3, ExpireInv
<1>4. CASE UNCHANGED lockVars
  BY <1>4 DEF lockVars, LockInv, LockTypeOK, LeaseIntact, TokenLive, OneKeyEach
<1> QED BY <1>1, <1>2, <1>3, <1>4 DEF LockNext

(* The inductive invariant holds in every behaviour of the lock.            *)
THEOREM LockInvariant == LockSpec => []LockInv
  BY LockInitInv, LockNextInv, PTL DEF LockSpec

(* While its TTL has not passed, the key keeps the token of the run that    *)
(* took it (concurrencyLock.ts: NX in acquire, the comparison in release).  *)
THEOREM LeaseSafety == LockSpec => []LeaseIntact
<1>1. LockInv => LeaseIntact
  BY DEF LockInv
<1> QED BY <1>1, LockInvariant, PTL

LEMMA IntactIsExclusive == LockInv => Exclusive
  BY DEF LockInv, LockTypeOK, LeaseIntact, Exclusive

(* One active job per user and provider, as long as no run outlives its TTL *)
(* (the lock chatJobProcessor takes around processChatJob).                 *)
THEOREM LockExclusion == LockSpec => []Exclusive
  BY LockInvariant, IntactIsExclusive, PTL

-----------------------------------------------------------------------------
(* The chat job.                                                           *)

LEMMA CheckThenType == \A p \in DOMAIN CheckThen : CheckThen[p] \in PCs
  BY DEF CheckThen, PCs

LEMMA CancelNextType ==
  \A s \in {"signal", "remove", "mark", "announce", "finish"} :
     CancelNext[s] \in {"idle", "remove", "mark", "announce", "finish"}
  BY DEF CancelNext

LEMMA AfterFaultType ==
  \A s \in DOMAIN AfterFault : AfterFault[s] \in {"broken", "refuse", "accepted", "drop", "refused"}
  BY DEF AfterFault

LEMMA EventsAre == Events = {"queued", "started", "message_complete", "retrying", "done",
  "error", "rate_limited", "requires_login", "manual_action_required", "cancelled", "timeout"}
  BY DEF Events, EventOf, Outcomes


\* A run that is about to mark its job knows with which outcome.
Marked(r) == /\ r.outcome # "completed"
             /\ r.pc \in {"mark", "announce"} => r.outcome # "none"

\* What a busy slot works on is a job.
RunsOK == \A w \in Workers : (~At(w, "idle") => run[w].job \in Jobs) /\ Marked(run[w])

LEMMA JobStepTypes ==
  ASSUME TypeOK, RunsOK, NEW j \in Jobs,
         \/ Submit(j) \/ Handle(j) \/ Cancel(j) \/ Cancelling(j) \/ Stall(j)
         \/ CancelKeyEnds(j) \/ HandlerFault(j) \/ CancelFault(j)
  PROVE  TypeOK' /\ RunsOK'
<1> USE DEF TypeOK, RunsOK, At, Publish, SetStatus, rowVars, queueVars, apiVars,
            lockVars, history, LockTypeOK
<1>1. CASE Submit(j)
  BY <1>1 DEF Submit, Cancellable
<1>2. CASE CloneFiles(j)
  BY <1>2 DEF CloneFiles
<1>3. CASE Enqueue(j)
  BY <1>3 DEF Enqueue
<1>4. CASE Accept(j)
  BY <1>4, EventsAre DEF Accept
<1>5. CASE Refuse(j)
  BY <1>5 DEF Refuse, Terminal
<1>6. CASE Cancel(j)
  BY <1>6 DEF Cancel
<1>7. CASE Cancelling(j)
  BY <1>7, CancelNextType, EventsAre DEF Cancelling, Terminal
<1>8. CASE Stall(j)
  BY <1>8 DEF Stall, Watchers
<1>9. CASE CancelKeyEnds(j)
  BY <1>9 DEF CancelKeyEnds
<1>10. CASE HandlerFault(j)
  BY <1>10, AfterFaultType DEF HandlerFault, Fault
<1>11. CASE CancelFault(j)
  BY <1>11 DEF CancelFault, Fault
<1> QED BY <1>1, <1>2, <1>3, <1>4, <1>5, <1>6, <1>7, <1>8, <1>9, <1>10, <1>11 DEF Handle

LEMMA RetryTypes ==
  ASSUME TypeOK, RunsOK, NEW old \in Jobs, NEW j \in Jobs, Retry(old, j)
  PROVE  TypeOK' /\ RunsOK'
  BY DEF Retry, TypeOK, RunsOK, At, SetStatus, queueVars, lockVars, history,
         LockTypeOK, Cancellable

-----------------------------------------------------------------------------
(* What the helpers of the runs make of a run.                              *)

LEMMA PCsAre == PCs = {"idle", "picked", "lock", "setRunning", "announceStart", "connect",
        "validate", "setStreaming", "send", "deliver", "answer", "complete", "mark",
        "announce", "finish", "cleanup", "release", "return",
        "begin", "started", "opened", "ended", "event"}
  BY DEF PCs, CheckThen

LEMMA IdleType == Idle \in Runs /\ Idle.pc = "idle"
  BY PCsAre DEF Idle, Runs

LEMMA PickedType ==
  ASSUME NEW j \in Jobs
  PROVE  [Idle EXCEPT !.pc = "picked", !.job = j] \in Runs
  BY PCsAre DEF Idle, Runs

\* q is what r may become while it works on its job.
Continues(r, q) == q \in Runs /\ q.job = r.job /\ (Marked(r) => Marked(q))

Marks == Outcomes \ {"completed"}

LEMMA GotoType ==
  ASSUME NEW r \in Runs, NEW p \in PCs,
         p \notin {"mark", "announce"} \/ r.pc = "mark"
  PROVE  Continues(r, [r EXCEPT !.pc = p])
  BY DEF Runs, Continues, Marked

LEMMA EndWithType ==
  ASSUME NEW r \in Runs, NEW o \in Marks
  PROVE  Continues(r, [r EXCEPT !.pc = "mark", !.outcome = o])
  BY PCsAre DEF Runs, Continues, Marked, Marks, Outcomes

LEMMA RaisedType ==
  ASSUME NEW r \in Runs, NEW o \in Marks
  PROVE  Continues(r, Raised(r, o))
<1> DEFINE p == IF r.browser THEN "cleanup" ELSE "mark"
<1>1. p \in PCs
  BY PCsAre
<1> HIDE DEF p
<1>2. [r EXCEPT !.pc = p, !.outcome = o, !.caught = TRUE] \in Runs
  BY <1>1 DEF Runs, Marks
<1>3. [r EXCEPT !.pc = p, !.outcome = o, !.caught = TRUE].job = r.job
  BY DEF Runs
<1>4. Marked([r EXCEPT !.pc = p, !.outcome = o, !.caught = TRUE])
  BY <1>1 DEF Runs, Marks, Marked, Outcomes
<1> QED BY <1>2, <1>3, <1>4 DEF Raised, Continues, p

LEMMA EscapedType ==
  ASSUME NEW r \in Runs, NEW w
  PROVE  Continues(r, Escaped(r, w))
<1> DEFINE p == IF holding[w] # {} THEN "release" ELSE "return"
<1>1. p \in PCs \ {"mark", "announce"}
  BY PCsAre
<1> HIDE DEF p
<1>2. Continues(r, [r EXCEPT !.pc = p, !.outcome = "none", !.thrown = TRUE])
  BY <1>1 DEF Runs, Continues, Marked
<1> QED BY <1>2 DEF Escaped, p

LEMMA AfterDoneType ==
  ASSUME NEW r \in Runs, NEW w
  PROVE  Continues(r, AfterDone(r, w))
<1> DEFINE p == IF r.browser THEN "cleanup"
                ELSE IF holding[w] # {} THEN "release" ELSE "return"
<1>1. p \in PCs \ {"mark", "announce"}
  BY PCsAre
<1> HIDE DEF p
<1>2. Continues(r, [r EXCEPT !.pc = p])
  BY <1>1, GotoType
<1> QED BY <1>2 DEF AfterDone, p

LEMMA AfterCleanupType ==
  ASSUME NEW r \in Runs
  PROVE  Continues(r, AfterCleanup(r))
<1> DEFINE p == IF r.outcome = "none" THEN "release" ELSE "mark"
<1>1. p \in PCs /\ (p \in {"mark", "announce"} => r.outcome # "none")
  BY PCsAre
<1> HIDE DEF p
<1>2. Continues(r, [r EXCEPT !.pc = p, !.browser = FALSE])
  BY <1>1 DEF Runs, Continues, Marked
<1> QED BY <1>2 DEF AfterCleanup, p

\* A step of slot w only, which keeps its job.
Advances(w) == \E r : Continues(run[w], r) /\ run' = [run EXCEPT ![w] = r]

LEMMA GotoAdvances ==
  ASSUME run \in [Workers -> Runs], NEW w \in Workers, NEW p \in PCs, Goto(w, p),
         p \notin {"mark", "announce"} \/ At(w, "mark")
  PROVE  Advances(w)
<1>1. Continues(run[w], [run[w] EXCEPT !.pc = p])
  BY GotoType DEF At
<1>2. run' = [run EXCEPT ![w] = [run[w] EXCEPT !.pc = p]]
  BY DEF Goto
<1> QED BY <1>1, <1>2 DEF Advances

LEMMA EndWithAdvances ==
  ASSUME run \in [Workers -> Runs], NEW w \in Workers, NEW o \in Marks, EndWith(w, o)
  PROVE  Advances(w)
<1>1. Continues(run[w], [run[w] EXCEPT !.pc = "mark", !.outcome = o])
  BY EndWithType
<1>2. run' = [run EXCEPT ![w] = [run[w] EXCEPT !.pc = "mark", !.outcome = o]]
  BY DEF EndWith
<1> QED BY <1>1, <1>2 DEF Advances

LEMMA RaiseAdvances ==
  ASSUME run \in [Workers -> Runs], NEW w \in Workers, NEW o \in Marks, Raise(w, o)
  PROVE  Advances(w)
<1>1. Continues(run[w], Raised(run[w], o))
  BY RaisedType
<1>2. run' = [run EXCEPT ![w] = Raised(run[w], o)]
  BY DEF Raise
<1> QED BY <1>1, <1>2 DEF Advances

\* A step that advances a busy slot keeps the slots typed.
LEMMA AdvanceTypes ==
  ASSUME run \in [Workers -> Runs], RunsOK, NEW w \in Workers, ~At(w, "idle"), Advances(w)
  PROVE  run' \in [Workers -> Runs] /\ RunsOK'
  BY DEF RunsOK, At, Advances, Continues

LEMMA MarksAre == Marks = {"failed", "busy", "rate_limited", "requires_login",
             "manual_action_required", "cancelled", "timeout"}
  BY DEF Outcomes, Marks

\* Every step of a run but its return advances it.
LEMMA WorkAdvances ==
  ASSUME TypeOK, NEW w \in Workers, Work(w), ~Return(w)
  PROVE  Advances(w) /\ ~At(w, "idle")
<1> USE PCsAre, MarksAre
<1>0. run \in [Workers -> Runs]
  BY DEF TypeOK
<1>1. CASE CheckPicked(w)
  BY <1>0, <1>1, GotoAdvances, RaiseAdvances DEF CheckPicked, At
<1>2. CASE TakeLock(w)
  BY <1>0, <1>2, GotoAdvances, RaiseAdvances DEF TakeLock, At
<1>3. CASE Check(w)
  BY <1>0, <1>3, GotoAdvances, RaiseAdvances, CheckThenType DEF Check, At, CheckThen
<1>4. CASE SetProgress(w)
  BY <1>0, <1>4, GotoAdvances DEF SetProgress, At
<1>5. CASE AnnounceStart(w)
  BY <1>0, <1>5, GotoAdvances DEF AnnounceStart, At
<1>6. CASE OpenContext(w)
  <2>1. ~At(w, "idle")
    BY <1>6 DEF OpenContext, At
  <2>2. CASE EndWith(w, "requires_login") \/ EndWith(w, "failed")
    BY <1>0, <2>1, <2>2, EndWithAdvances
  <2>3. CASE Raise(w, "failed")
    BY <1>0, <2>1, <2>3, RaiseAdvances
  <2>4. CASE run' = [run EXCEPT ![w].pc = "opened", ![w].browser = TRUE]
    <3> DEFINE q == [run[w] EXCEPT !.pc = "opened", !.browser = TRUE]
    <3>1. Continues(run[w], q)
      BY <1>0 DEF Continues, Runs, Marked
    <3>2. run' = [run EXCEPT ![w] = q]
      BY <2>4
    <3> HIDE DEF q
    <3> QED BY <3>1, <3>2, <2>1 DEF Advances
  <2> QED BY <1>6, <2>2, <2>3, <2>4 DEF OpenContext
<1>7. CASE Validate(w)
  BY <1>0, <1>7, GotoAdvances, EndWithAdvances, RaiseAdvances DEF Validate, At
<1>8. CASE Generate(w)
  BY <1>0, <1>8, GotoAdvances, RaiseAdvances DEF Generate, At
<1>9. CASE Deliver(w)
  BY <1>0, <1>9, GotoAdvances, EndWithAdvances DEF Deliver, At
<1>10. CASE SaveAnswer(w)
  BY <1>0, <1>10, GotoAdvances DEF SaveAnswer, At
<1>11. CASE Complete(w)
  BY <1>0, <1>11, GotoAdvances DEF Complete, At
<1>12. CASE Mark(w)
  BY <1>0, <1>12, GotoAdvances DEF Mark, At
<1>13. CASE Announce(w)
  <2> DEFINE q == [run[w] EXCEPT !.pc = "finish", !.outcome = "none"]
  <2>1. Continues(run[w], q)
    BY <1>0 DEF Continues, Runs, Marked
  <2>2. run' = [run EXCEPT ![w] = q]
    BY <1>13 DEF Announce
  <2> HIDE DEF q
  <2> QED BY <2>1, <2>2, <1>13 DEF Advances, Announce, At
<1>14. CASE Finish(w)
  BY <1>0, <1>14, AfterDoneType DEF Finish, Advances, At
<1>15. CASE Cleanup(w)
  BY <1>0, <1>15, AfterCleanupType DEF Cleanup, Advances, At
<1>16. CASE GiveBackLock(w)
  BY <1>0, <1>16, GotoAdvances DEF GiveBackLock, At
<1> QED BY <1>1, <1>2, <1>3, <1>4, <1>5, <1>6, <1>7, <1>8, <1>9, <1>10, <1>11, <1>12,
           <1>13, <1>14, <1>15, <1>16 DEF Work

-----------------------------------------------------------------------------
(* The type invariant.                                                      *)

\* Everything but the slots.
RestOK ==
    /\ db \in [Jobs -> Terminal \cup Cancellable \cup {"absent"}]
    /\ published \in [Jobs -> SUBSET Events]
    /\ answers \in [Jobs -> Nat]
    /\ files \in [Jobs -> {"none", "cloned", "deleted"}]
    /\ retryOf \in [Jobs -> Jobs \cup {NoJob}]
    /\ bull \in [Jobs -> {"absent", "waiting", "active", "removed", "completed", "failed"}]
    /\ stalls \in [Jobs -> Nat]
    /\ api \in [Jobs -> {"none", "clone", "add", "publish", "retrying", "accepted",
                         "refuse", "drop", "refused", "broken"}]
    /\ canceller \in [Jobs -> {"idle", "signal", "remove", "mark", "announce", "finish"}]
    /\ cancelKey \in [Jobs -> BOOLEAN]
    /\ connected \in SUBSET Keys
    /\ watchers \in SUBSET Watchers
    /\ LockTypeOK
    /\ crashes \in Nat
    /\ faults \in Nat
    /\ bereft \in SUBSET Jobs

LEMMA TypeSplit == TypeOK <=> (RestOK /\ run \in [Workers -> Runs])
  BY DEF TypeOK, RestOK

LEMMA TypeSplitPrimed == (RestOK' /\ run' \in [Workers -> Runs]) => TypeOK'
  BY DEF TypeOK, RestOK

LEMMA StatusOfType == \A o \in Marks : StatusOf(o) \in Terminal
  BY MarksAre DEF StatusOf, Terminal

LEMMA EventOfType == \A o \in Marks : EventOf(o) \in Events
  BY DEF Events, Marks

\* What acquiring, releasing and abandoning keys leave well-typed.
LEMMA LockStepTypes ==
  ASSUME LockTypeOK, [LockNext]_lockVars
  PROVE  LockTypeOK'
<1>1. CASE \E w \in Workers, k \in Keys : Acquire(w, k) \/ Release(w, k)
  <2>1. ASSUME NEW w \in Workers, NEW k \in Keys, Acquire(w, k)
        PROVE  LockTypeOK'
    BY <2>1 DEF LockTypeOK, Acquire
  <2>2. ASSUME NEW w \in Workers, NEW k \in Keys, Release(w, k)
        PROVE  LockTypeOK'
    BY <2>2 DEF LockTypeOK, Release
  <2> QED BY <1>1, <2>1, <2>2
<1>2. CASE \E S \in SUBSET Workers : Abandon(S)
  BY <1>2 DEF LockTypeOK, Abandon
<1>3. CASE \E k \in Keys : Expire(k)
  BY <1>3 DEF LockTypeOK, Expire
<1>4. CASE UNCHANGED lockVars
  BY <1>4 DEF lockVars, LockTypeOK
<1> QED BY <1>1, <1>2, <1>3, <1>4 DEF LockNext

\* The steps of a run, as far as they concern the other variables.
LEMMA WorkRest ==
  ASSUME TypeOK, RunsOK, NEW w \in Workers, Work(w), [LockNext]_lockVars
  PROVE  RestOK'
<1> DEFINE j == run[w].job
<1>0. ~At(w, "idle")
  BY PCsAre DEF Work, At, CheckPicked, TakeLock, Check, CheckThen, SetProgress,
     AnnounceStart, OpenContext, Validate, Generate, Deliver, SaveAnswer, Complete,
     Mark, Announce, Finish, Cleanup, GiveBackLock, Return
<1>1. j \in Jobs /\ run[w] \in Runs /\ Marked(run[w])
  BY <1>0 DEF TypeOK, RunsOK
<1>2. At(w, "mark") \/ At(w, "announce") => run[w].outcome \in Marks
  BY <1>1 DEF At, Runs, Marked, Marks
<1> HIDE DEF j
<1>3. LockTypeOK'
  BY LockStepTypes DEF TypeOK
<1>4. CASE CheckPicked(w) \/ TakeLock(w) \/ Check(w) \/ Generate(w) \/ OpenContext(w)
          \/ GiveBackLock(w)
  BY <1>3, <1>4 DEF TypeOK, RestOK, CheckPicked, TakeLock, Check, Generate, OpenContext,
     GiveBackLock, rowVars, queueVars, apiVars, history
<1>5. CASE SetProgress(w)
  BY <1>1, <1>3, <1>5 DEF j, TypeOK, RestOK, SetProgress, SetStatus, Cancellable,
     queueVars, apiVars, history
<1>6. CASE AnnounceStart(w) \/ Deliver(w) \/ Finish(w)
  BY <1>1, <1>3, <1>6, EventsAre DEF j, TypeOK, RestOK, AnnounceStart, Deliver, Finish,
     Publish, queueVars, apiVars, history
<1>7. CASE Announce(w)
  <2>1. EventOf(run[w].outcome) \in Events
    BY <1>2, <1>7, EventOfType DEF Announce
  <2> QED
    BY <1>1, <1>3, <1>7, <2>1 DEF j, TypeOK, RestOK, Announce, Publish, queueVars,
       apiVars, history
<1>8. CASE Mark(w)
  <2>1. StatusOf(run[w].outcome) \in Terminal
    BY <1>2, <1>8, StatusOfType DEF Mark
  <2> QED
    BY <1>1, <1>3, <1>8, <2>1 DEF j, TypeOK, RestOK, Mark, SetStatus, queueVars,
       apiVars, history
<1>9. CASE Validate(w)
  BY <1>3, <1>9 DEF TypeOK, RestOK, Validate, rowVars, queueVars, apiVars, history
<1>10. CASE SaveAnswer(w)
  BY <1>1, <1>3, <1>10 DEF j, TypeOK, RestOK, SaveAnswer, queueVars, apiVars, history
<1>11. CASE Complete(w)
  BY <1>1, <1>3, <1>11 DEF j, TypeOK, RestOK, Complete, SetStatus, Terminal,
     queueVars, apiVars, history
<1>12. CASE Cleanup(w)
  BY <1>1, <1>3, <1>12 DEF j, TypeOK, RestOK, Cleanup, queueVars, apiVars, history
<1>13. CASE Return(w)
  BY <1>1, <1>3, <1>13 DEF j, TypeOK, RestOK, Return, Watchers, rowVars, apiVars, history
<1> QED BY <1>4, <1>5, <1>6, <1>7, <1>8, <1>9, <1>10, <1>11, <1>12, <1>13 DEF Work

-----------------------------------------------------------------------------
(* The lock: whatever else a step does, to the lock it is one of its own.   *)

LEMMA WorkLock ==
  ASSUME TypeOK, RunsOK, NEW w \in Workers, Work(w)
  PROVE  [LockNext]_lockVars
<1>1. CASE TakeLock(w)
  <2>1. run[w].job \in Jobs
    BY <1>1 DEF TakeLock, RunsOK, At
  <2>2. KeyOf[run[w].job] \in Keys
    BY <2>1, ChatAssumption
  <2>3. CASE Acquire(w, KeyOf[run[w].job])
    BY <2>2, <2>3 DEF LockNext
  <2>4. CASE UNCHANGED lockVars
    BY <2>4
  <2> QED BY <1>1, <2>3, <2>4 DEF TakeLock
<1>2. CASE GiveBackLock(w)
  <2>1. PICK k \in holding[w] : Release(w, k)
    BY <1>2 DEF GiveBackLock
  <2>2. k \in Keys
    BY DEF TypeOK, LockTypeOK
  <2> QED BY <2>1, <2>2 DEF LockNext
<1>3. CASE UNCHANGED lockVars
  BY <1>3
<1>4. Work(w) /\ ~TakeLock(w) /\ ~GiveBackLock(w) => UNCHANGED lockVars
  BY DEF Work, CheckPicked, Check, SetProgress, AnnounceStart, OpenContext, Validate,
     Generate, Deliver, SaveAnswer, Complete, Mark, Announce, Finish, Cleanup, Return
<1> QED BY <1>1, <1>2, <1>3, <1>4

LEMMA FaultLock ==
  ASSUME NEW w \in Workers, RunFault(w)
  PROVE  [LockNext]_lockVars
<1>1. CASE Abandon({w})
  <2>1. {w} \in SUBSET Workers
    OBVIOUS
  <2> QED BY <1>1, <2>1 DEF LockNext
<1>2. CASE UNCHANGED lockVars
  BY <1>2
<1> QED BY <1>1, <1>2 DEF RunFault

LEMMA DeathLock == Abandon(Workers) => LockNext
<1>1. Workers \in SUBSET Workers
  OBVIOUS
<1> QED BY <1>1 DEF LockNext

LEMMA NextLock ==
  ASSUME TypeOK, RunsOK, [Next]_vars
  PROVE  [LockNext]_lockVars
<1>1. CASE \E j \in Jobs : \/ Submit(j) \/ Handle(j) \/ Cancel(j) \/ Cancelling(j)
                           \/ Stall(j) \/ CancelKeyEnds(j)
                           \/ HandlerFault(j) \/ CancelFault(j)
  BY <1>1 DEF Submit, Handle, CloneFiles, Enqueue, Accept, Refuse, Cancel, Cancelling,
     Stall, CancelKeyEnds, HandlerFault, CancelFault
<1>2. CASE \E old, j \in Jobs : Retry(old, j)
  BY <1>2 DEF Retry
<1>3. CASE \E w \in Workers, j \in Jobs : Pick(w, j)
  BY <1>3 DEF Pick
<1>4. CASE \E w \in Workers : Work(w) \/ RunFault(w)
  BY <1>4, WorkLock, FaultLock
<1>5. CASE \E x \in watchers : Watch(x) \/ WatcherFault(x)
  BY <1>5, DeathLock DEF Watch, WatcherFault, ProcessDies
<1>6. CASE \E k \in Keys : LeaseEnds(k) \/ Reconnect(k)
  BY <1>6 DEF LeaseEnds, Reconnect, LockNext
<1>7. CASE Crash
  BY <1>7, DeathLock DEF Crash, ProcessDies
<1>8. CASE UNCHANGED vars
  BY <1>8 DEF vars
<1> QED BY <1>1, <1>2, <1>3, <1>4, <1>5, <1>6, <1>7, <1>8 DEF Next

-----------------------------------------------------------------------------
(* The remaining steps keep the types, and with them every step does.       *)

LEMMA PickTypes ==
  ASSUME TypeOK, RunsOK, NEW w \in Workers, NEW j \in Jobs, Pick(w, j)
  PROVE  TypeOK' /\ RunsOK'
<1> DEFINE r == [Idle EXCEPT !.pc = "picked", !.job = j]
<1>1. r \in Runs /\ r.job = j /\ Marked(r)
  BY PickedType DEF Idle, Marked
<1> HIDE DEF r
<1>2. run' = [run EXCEPT ![w] = r]
  BY DEF Pick, r
<1>3. run' \in [Workers -> Runs]
  BY <1>1, <1>2 DEF TypeOK
<1>4. RunsOK'
  BY <1>1, <1>2 DEF TypeOK, RunsOK, At
<1>5. RestOK'
  BY DEF Pick, TypeOK, RestOK, LockTypeOK, rowVars, apiVars, lockVars, history
<1> QED BY <1>3, <1>4, <1>5, TypeSplitPrimed

\* An idle slot has nothing to mark.
LEMMA IdleMarked == Marked(Idle)
  BY DEF Marked, Idle

LEMMA WorkTypes ==
  ASSUME TypeOK, RunsOK, NEW w \in Workers, Work(w)
  PROVE  TypeOK' /\ RunsOK'
<1>1. RestOK'
  BY WorkLock, WorkRest
<1>2. CASE Return(w)
  <2>1. run' = [run EXCEPT ![w] = Idle]
    BY <1>2 DEF Return
  <2> QED
    BY <1>1, <2>1, IdleType, IdleMarked, TypeSplitPrimed DEF TypeOK, RunsOK, At
<1>3. CASE ~Return(w)
  <2>1. Advances(w) /\ ~At(w, "idle")
    BY <1>3, WorkAdvances
  <2>2. run' \in [Workers -> Runs] /\ RunsOK'
    BY <2>1, AdvanceTypes DEF TypeOK
  <2> QED BY <1>1, <2>2, TypeSplitPrimed
<1> QED BY <1>2, <1>3

\* A rejected call advances the run as well.
LEMMA RunFaultAdvances ==
  ASSUME TypeOK, NEW w \in Workers, RunFault(w)
  PROVE  Advances(w) /\ ~At(w, "idle")
<1>0. run \in [Workers -> Runs] /\ run[w] \in Runs
  BY DEF TypeOK
<1>1. CASE run[w].pc \in InTry /\ Raise(w, "failed")
  BY <1>0, <1>1, RaiseAdvances, MarksAre DEF InTry, CheckThen, At
<1>2. CASE /\ run[w].pc \in {"picked", "lock", "begin", "announce", "finish"}
           /\ run' = [run EXCEPT ![w] = Escaped(@, w)]
  <2>1. Continues(run[w], Escaped(run[w], w))
    BY <1>0, EscapedType
  <2>2. run' = [run EXCEPT ![w] = Escaped(run[w], w)]
    BY <1>2
  <2> QED BY <1>2, <2>1, <2>2 DEF Advances, At
<1>3. CASE At(w, "mark") /\ (Raise(w, "failed") \/ Goto(w, "announce"))
  BY <1>0, <1>3, RaiseAdvances, GotoAdvances, MarksAre, PCsAre DEF At
<1>4. CASE /\ run[w].pc \in {"announce", "finish"}
           /\ run' = [run EXCEPT ![w] = Raised(@, "failed")]
  <2>1. Raise(w, "failed")
    BY <1>4 DEF Raise
  <2> QED BY <1>0, <1>4, <2>1, RaiseAdvances, MarksAre DEF At
<1>5. CASE At(w, "cleanup") /\ run' = [run EXCEPT ![w] = AfterCleanup(@)]
  BY <1>0, <1>5, AfterCleanupType DEF Advances, At
<1>6. CASE At(w, "release") /\ Goto(w, "return")
  BY <1>0, <1>6, GotoAdvances, PCsAre DEF At
<1>7. CASE /\ run[w].pc \in {"announce", "finish"}
           /\ run' = [run EXCEPT ![w] = IF @.caught THEN Escaped(@, w)
                                                    ELSE Raised(@, "failed")]
  <2>1. CASE run[w].caught
    <3>1. run' = [run EXCEPT ![w] = Escaped(@, w)]
      BY <1>7, <2>1
    <3> QED BY <1>2, <1>7, <3>1
  <2>2. CASE ~run[w].caught
    <3>1. run' = [run EXCEPT ![w] = Raised(@, "failed")]
      BY <1>7, <2>2
    <3> QED BY <1>4, <1>7, <3>1
  <2> QED BY <2>1, <2>2
<1> QED BY <1>1, <1>2, <1>3, <1>5, <1>6, <1>7 DEF RunFault

LEMMA RunFaultTypes ==
  ASSUME TypeOK, RunsOK, NEW w \in Workers, RunFault(w)
  PROVE  TypeOK' /\ RunsOK'
<1>0. run \in [Workers -> Runs] /\ run[w] \in Runs
  BY DEF TypeOK
<1>1. RestOK'
  <2>1. LockTypeOK'
    BY FaultLock, LockStepTypes DEF TypeOK
  <2> QED BY <2>1 DEF RunFault, Fault, TypeOK, RestOK, rowVars, queueVars, apiVars
<1>2. Advances(w) /\ ~At(w, "idle")
  BY RunFaultAdvances
<1>3. run' \in [Workers -> Runs] /\ RunsOK'
  BY <1>0, <1>2, AdvanceTypes
<1> QED BY <1>1, <1>3, TypeSplitPrimed

\* The death of the worker process leaves idle slots.
LEMMA DeathTypes ==
  ASSUME TypeOK, ProcessDies
  PROVE  /\ run' \in [Workers -> Runs] /\ RunsOK' /\ LockTypeOK'
         /\ watchers' \in SUBSET Watchers /\ bereft' \in SUBSET Jobs
<1>1. LockTypeOK'
  BY DeathLock, LockStepTypes DEF ProcessDies, TypeOK
<1>2. run' \in [Workers -> Runs] /\ \A w \in Workers : run'[w] = Idle
  BY IdleType DEF ProcessDies
<1>3. RunsOK'
  BY <1>2, IdleType, IdleMarked DEF RunsOK, At
<1>4. bereft' \in SUBSET Jobs
  BY DEF ProcessDies, TypeOK, Watchers
<1> QED BY <1>1, <1>2, <1>3, <1>4 DEF ProcessDies

LEMMA WatchTypes ==
  ASSUME TypeOK, RunsOK, NEW x \in watchers, Watch(x) \/ WatcherFault(x)
  PROVE  TypeOK' /\ RunsOK'
<1>1. x \in Watchers /\ x.job \in Jobs
  BY DEF TypeOK, Watchers
<1>2. \A p \in {"read", "mark", "announce", "finish"} :
         [x EXCEPT !.pc = p] \in Watchers
  BY <1>1 DEF Watchers
<1>3. CASE Watch(x)
  <2>1. watchers' \in SUBSET Watchers
    BY <1>2, <1>3 DEF Watch, WatcherTo, TypeOK
  <2>2. db' \in [Jobs -> Terminal \cup Cancellable \cup {"absent"}]
    BY <1>1, <1>3 DEF Watch, TypeOK, SetStatus, Terminal
  <2>3. published' \in [Jobs -> SUBSET Events]
    BY <1>1, <1>3, EventsAre DEF Watch, TypeOK, Publish
  <2>4. UNCHANGED <<answers, files, retryOf, queueVars, apiVars, connected, run,
                    lockVars, history>>
    BY <1>3 DEF Watch
  <2> QED
    BY <2>1, <2>2, <2>3, <2>4 DEF TypeOK, RunsOK, At, LockTypeOK, queueVars, apiVars,
       lockVars, history
<1>4. CASE WatcherFault(x) /\ ProcessDies
  <2>1. RestOK'
    BY <1>4, DeathTypes
    DEF WatcherFault, Fault, TypeOK, RestOK, rowVars, queueVars, apiVars
  <2> QED BY <1>4, <2>1, DeathTypes, TypeSplitPrimed
<1>5. CASE WatcherFault(x) /\ UNCHANGED <<run, lockVars, bereft>>
  BY <1>2, <1>5
  DEF WatcherFault, Fault, WatcherTo, TypeOK, RunsOK, At, LockTypeOK, ProcessDies, lockVars,
      rowVars, queueVars, apiVars
<1> QED BY <1>3, <1>4, <1>5 DEF WatcherFault

LEMMA TimeTypes ==
  ASSUME TypeOK, RunsOK, NEW k \in Keys, LeaseEnds(k) \/ Reconnect(k)
  PROVE  TypeOK' /\ RunsOK'
<1>1. LockTypeOK'
  <2>1. [LockNext]_lockVars
    BY DEF LeaseEnds, Reconnect, LockNext
  <2> QED BY <2>1, LockStepTypes DEF TypeOK
<1> QED
  BY <1>1 DEF LeaseEnds, Reconnect, TypeOK, RunsOK, At, rowVars, queueVars, apiVars, history

LEMMA CrashTypes ==
  ASSUME TypeOK, RunsOK, Crash
  PROVE  TypeOK' /\ RunsOK'
<1>1. RestOK'
  BY DeathTypes DEF Crash, TypeOK, RestOK, rowVars, queueVars, apiVars
<1> QED BY <1>1, DeathTypes, TypeSplitPrimed DEF Crash

LEMMA InitTypes == Init => TypeOK /\ RunsOK
<1> SUFFICES ASSUME Init PROVE TypeOK /\ RunsOK
  OBVIOUS
<1>1. LockTypeOK
  BY LockInitInv DEF Init, LockInv
<1>2. RestOK
  BY <1>1 DEF Init, RestOK
<1>3. run \in [Workers -> Runs] /\ \A w \in Workers : run[w] = Idle
  BY IdleType DEF Init
<1>4. RunsOK
  BY <1>3, IdleType, IdleMarked DEF RunsOK, At
<1> QED BY <1>2, <1>3, <1>4, TypeSplit

LEMMA NextTypes == TypeOK /\ RunsOK /\ [Next]_vars => (TypeOK /\ RunsOK)'
<1> SUFFICES ASSUME TypeOK, RunsOK, [Next]_vars
             PROVE  TypeOK' /\ RunsOK'
  OBVIOUS
<1>1. CASE UNCHANGED vars
  BY <1>1 DEF vars, rowVars, queueVars, apiVars, lockVars, history, TypeOK, RunsOK, At,
              LockTypeOK
<1>2. CASE Next
  BY <1>2, JobStepTypes, RetryTypes, PickTypes, WorkTypes, RunFaultTypes, WatchTypes,
     TimeTypes, CrashTypes DEF Next
<1> QED BY <1>1, <1>2

(* The type invariant of the pipeline, for any number of jobs, slots, keys, *)
(* crashes and rejected calls.  It needs that a run which is about to write *)
(* a final status has one to write.                                         *)
THEOREM TypeSafety == Spec => []TypeOK
<1>1. Spec => [](TypeOK /\ RunsOK)
  BY InitTypes, NextTypes, PTL DEF Spec
<1> QED BY <1>1, PTL

(* Seen from the lock, the pipeline is a user of it that follows its rules. *)
THEOREM UsesLock == Spec => LockSpec
<1>1. Init => LockInit
  BY DEF Init
<1>2. TypeOK /\ RunsOK /\ [Next]_vars => [LockNext]_lockVars
  BY NextLock
<1>3. Spec => [](TypeOK /\ RunsOK)
  BY InitTypes, NextTypes, PTL DEF Spec
<1> QED BY <1>1, <1>2, <1>3, PTL DEF Spec, LockSpec

(* README.md:36, one active job per user and provider, for any number of    *)
(* slots, jobs and users, through crashes, stalls and rejected calls, as    *)
(* long as no run outlives LOCK_TTL_MS.                                     *)
THEOREM OneActive == Spec => []OneActiveJob
<1>1. Exclusive => OneActiveJob
  BY DEF OneActiveJob
<1> QED BY <1>1, UsesLock, LockExclusion, PTL

-----------------------------------------------------------------------------
(* Slots, queue and lock.                                                  *)

\* The handler that submits a job has not called queue.add yet.
Unqueued == {"none", "clone", "add"}

\* What ties a slot with run r and keys h to the queue.
SlotOK(r, h) ==
    IF r.pc = "idle"
    THEN r.job = NoJob /\ h = {}
    ELSE /\ r.job \in Jobs
         /\ bull[r.job] = "active"
         /\ h \subseteq {KeyOf[r.job]}
         /\ r.pc \in {"picked", "lock", "return"} => h = {}

AllSlotsOK == \A w \in Workers : SlotOK(run[w], holding[w])

NoTwins == \A v, w \in Workers : v # w /\ run[v].job = run[w].job => At(v, "idle")

\* queue.add is called once, by the handler that created the job.
AddedOnce == \A j \in Jobs : api[j] \in Unqueued => bull[j] = "absent"

\* The inductive invariant.
SlotsInv == TypeOK /\ RunsOK /\ AllSlotsOK /\ NoTwins /\ AddedOnce

LEMMA SlotsInvSound == SlotsInv => SlotsSound
  BY DEF SlotsInv, SlotsSound, AllSlotsOK, SlotOK, NoTwins, At

\* A step that leaves slots and lock alone only has to spare the active jobs.
LEMMA QuietSlots ==
  ASSUME SlotsInv, UNCHANGED <<run, holding>>,
         \A j \in Jobs : bull[j] = "active" => bull'[j] = "active"
  PROVE  AllSlotsOK' /\ NoTwins'
  BY DEF SlotsInv, AllSlotsOK, SlotOK, NoTwins, At

\* A step of slot w that keeps its job keeps it in step with the queue if it
\* leaves the queue and the other slots alone.
LEMMA BusySlot ==
  ASSUME SlotsInv, NEW w \in Workers, ~At(w, "idle"), Advances(w),
         run'[w].pc # "idle",
         \A v \in Workers \ {w} : holding'[v] = holding[v],
         holding'[w] \subseteq {KeyOf[run[w].job]},
         run'[w].pc \in {"picked", "lock", "return"} => holding'[w] = {},
         UNCHANGED bull
  PROVE  AllSlotsOK' /\ NoTwins'
<1>1. PICK r : Continues(run[w], r) /\ run' = [run EXCEPT ![w] = r]
  BY DEF Advances
<1>2. run'[w] = r /\ run'[w].job = run[w].job /\ \A v \in Workers \ {w} : run'[v] = run[v]
  BY <1>1 DEF SlotsInv, TypeOK, Continues
<1>3. AllSlotsOK'
  BY <1>2 DEF SlotsInv, AllSlotsOK, SlotOK, At
<1>4. NoTwins'
  BY <1>2 DEF SlotsInv, NoTwins, At
<1> QED BY <1>3, <1>4

LEMMA JobStepSlots ==
  ASSUME SlotsInv, NEW j \in Jobs,
         \/ Submit(j) \/ Handle(j) \/ Cancel(j) \/ Cancelling(j) \/ Stall(j)
         \/ CancelKeyEnds(j) \/ HandlerFault(j) \/ CancelFault(j)
  PROVE  AllSlotsOK' /\ NoTwins' /\ AddedOnce'
<1>1. CASE Stall(j)
  <2>1. UNCHANGED <<run, holding, api>>
    BY <1>1 DEF Stall, apiVars, lockVars
  <2>2. \A v \in Workers : run[v].job # j
    BY <1>1 DEF Stall, Orphaned
  <2>3. \A i \in Jobs \ {j} : bull'[i] = bull[i]
    BY <1>1 DEF Stall, SlotsInv, TypeOK
  <2>4. bull[j] = "active"
    BY <1>1 DEF Stall, Orphaned
  <2>5. AllSlotsOK' /\ NoTwins'
    BY <2>1, <2>2, <2>3 DEF SlotsInv, AllSlotsOK, SlotOK, NoTwins, At
  <2>6. AddedOnce'
    BY <2>1, <2>3, <2>4 DEF SlotsInv, AddedOnce
  <2> QED BY <2>5, <2>6
<1>2. CASE ~Stall(j)
  <2>1. UNCHANGED <<run, holding>>
    BY <1>2 DEF Submit, Handle, CloneFiles, Enqueue, Accept, Refuse, Cancel, Cancelling,
       CancelKeyEnds, HandlerFault, CancelFault, lockVars
  <2>2. \A i \in Jobs : bull[i] = "active" => bull'[i] = "active"
    <3>1. CASE Enqueue(j)
      BY <3>1 DEF Enqueue, SlotsInv, TypeOK, AddedOnce, Unqueued
    <3>2. CASE Cancelling(j)
      BY <3>2 DEF Cancelling, SlotsInv, TypeOK
    <3>3. CASE UNCHANGED bull
      BY <3>3
    <3> QED
      BY <1>2, <3>1, <3>2, <3>3 DEF Submit, Handle, CloneFiles, Accept, Refuse, Cancel,
         CancelKeyEnds, HandlerFault, CancelFault, queueVars
  <2>3. AddedOnce'
    <3>1. CASE Submit(j) \/ CloneFiles(j) \/ Accept(j) \/ Refuse(j)
      BY <3>1 DEF Submit, CloneFiles, Accept, Refuse, SlotsInv, TypeOK, AddedOnce,
         Unqueued, queueVars
    <3>2. CASE Enqueue(j)
      BY <3>2 DEF Enqueue, SlotsInv, TypeOK, AddedOnce, Unqueued
    <3>3. CASE Cancelling(j)
      BY <3>3 DEF Cancelling, SlotsInv, TypeOK, AddedOnce, Unqueued
    <3>4. CASE Cancel(j) \/ CancelKeyEnds(j) \/ CancelFault(j)
      BY <3>4 DEF Cancel, CancelKeyEnds, CancelFault, SlotsInv, AddedOnce, queueVars
    <3>5. CASE HandlerFault(j)
      BY <3>5, AfterFaultType DEF HandlerFault, SlotsInv, TypeOK, AddedOnce, Unqueued,
         queueVars
    <3> QED BY <1>2, <3>1, <3>2, <3>3, <3>4, <3>5 DEF Handle
  <2> QED BY <2>1, <2>2, <2>3, QuietSlots
<1> QED BY <1>1, <1>2

LEMMA RetrySlots ==
  ASSUME SlotsInv, NEW old \in Jobs, NEW j \in Jobs, Retry(old, j)
  PROVE  AllSlotsOK' /\ NoTwins' /\ AddedOnce'
<1>1. UNCHANGED <<run, holding, bull>>
  BY DEF Retry, queueVars, lockVars
<1>2. AddedOnce'
  BY <1>1 DEF Retry, SlotsInv, TypeOK, AddedOnce, Unqueued
<1> QED BY <1>1, <1>2, QuietSlots

\* An idle slot takes a waiting job, which no other slot can be running.
LEMMA PickSlots ==
  ASSUME SlotsInv, NEW w \in Workers, NEW j \in Jobs, Pick(w, j)
  PROVE  AllSlotsOK' /\ NoTwins' /\ AddedOnce'
<1> DEFINE r == [Idle EXCEPT !.pc = "picked", !.job = j]
<1>1. r.pc = "picked" /\ r.job = j
  BY DEF Idle
<1> HIDE DEF r
<1>2. run' = [run EXCEPT ![w] = r]
  BY DEF Pick, r
<1>3. run'[w] = r /\ \A v \in Workers \ {w} : run'[v] = run[v]
  BY <1>2 DEF SlotsInv, TypeOK
<1>4. bull'[j] = "active" /\ \A i \in Jobs \ {j} : bull'[i] = bull[i]
  BY DEF Pick, SlotsInv, TypeOK
<1>5. UNCHANGED <<holding, api>>
  BY DEF Pick, lockVars, apiVars
<1>6. \A v \in Workers : run[v].job # j
  BY ChatAssumption DEF Pick, SlotsInv, AllSlotsOK, SlotOK
<1>7. holding[w] = {}
  BY DEF Pick, At, SlotsInv, AllSlotsOK, SlotOK
<1>8. AllSlotsOK'
  BY <1>1, <1>3, <1>4, <1>5, <1>7 DEF SlotsInv, AllSlotsOK, SlotOK
<1>9. NoTwins'
  BY <1>1, <1>3, <1>6 DEF SlotsInv, NoTwins, At
<1>10. AddedOnce'
  BY <1>4, <1>5 DEF Pick, SlotsInv, AddedOnce
<1> QED BY <1>8, <1>9, <1>10

\* A step of a run other than its return: where it goes, and with which keys.
LEMMA WorkHolds ==
  ASSUME SlotsInv, NEW w \in Workers, Work(w), ~Return(w)
  PROVE  /\ run'[w].pc # "idle"
         /\ \A v \in Workers \ {w} : holding'[v] = holding[v]
         /\ holding'[w] \subseteq {KeyOf[run[w].job]}
         /\ run'[w].pc \in {"picked", "lock", "return"} => holding'[w] = {}
<1>0. run \in [Workers -> Runs] /\ run[w] \in Runs /\ holding \in [Workers -> SUBSET Keys]
  BY DEF SlotsInv, TypeOK, LockTypeOK
<1>1. holding[w] \subseteq {KeyOf[run[w].job]}
  BY <1>0 DEF SlotsInv, AllSlotsOK, SlotOK
<1>2. ASSUME NEW o, Raise(w, o)
      PROVE  run'[w].pc \in {"cleanup", "mark"}
  BY <1>0, <1>2 DEF Raise, Raised, Runs
<1>3. ASSUME NEW o, EndWith(w, o)
      PROVE  run'[w].pc = "mark"
  BY <1>0, <1>3 DEF EndWith, Runs
<1>4. ASSUME NEW p, Goto(w, p)
      PROVE  run'[w].pc = p
  BY <1>0, <1>4 DEF Goto, Runs
<1>5. CASE CheckPicked(w)
  <2>1. holding[w] = {}
    BY <1>5 DEF CheckPicked, At, SlotsInv, AllSlotsOK, SlotOK
  <2> QED BY <1>2, <1>4, <1>5, <2>1 DEF CheckPicked, lockVars
<1>6. CASE TakeLock(w)
  <2>1. CASE Acquire(w, KeyOf[run[w].job]) /\ Goto(w, "begin")
    BY <1>0, <1>4, <2>1 DEF Acquire
  <2>2. CASE Raise(w, "busy") /\ UNCHANGED lockVars
    BY <1>1, <1>2, <2>2 DEF lockVars
  <2> QED BY <1>6, <2>1, <2>2 DEF TakeLock
<1>7. CASE Check(w)
  BY <1>1, <1>2, <1>4, <1>7 DEF Check, CheckThen, lockVars
<1>8. CASE SetProgress(w) \/ AnnounceStart(w) \/ Generate(w) \/ SaveAnswer(w)
          \/ Complete(w) \/ Mark(w)
  BY <1>1, <1>2, <1>4, <1>8 DEF SetProgress, AnnounceStart, Generate, SaveAnswer,
     Complete, Mark, lockVars
<1>9. CASE OpenContext(w)
  <2>1. CASE run' = [run EXCEPT ![w].pc = "opened", ![w].browser = TRUE]
    <3>1. run'[w].pc = "opened"
      BY <1>0, <2>1 DEF Runs
    <3> QED BY <1>1, <1>9, <3>1 DEF OpenContext, lockVars
  <2> QED BY <1>1, <1>2, <1>3, <1>9, <2>1 DEF OpenContext, lockVars
<1>10. CASE Validate(w) \/ Deliver(w)
  BY <1>1, <1>2, <1>3, <1>4, <1>10 DEF Validate, Deliver, lockVars
<1>11. CASE Announce(w)
  <2>1. run'[w].pc = "finish"
    BY <1>0, <1>11 DEF Announce, Runs
  <2> QED BY <1>1, <1>11, <2>1 DEF Announce, lockVars
<1>12. CASE Finish(w)
  <2>1. run'[w].pc = IF run[w].browser THEN "cleanup"
                     ELSE IF holding[w] # {} THEN "release" ELSE "return"
    BY <1>0, <1>12 DEF Finish, AfterDone, Runs
  <2> QED BY <1>1, <1>12, <2>1 DEF Finish, lockVars
<1>13. CASE Cleanup(w)
  <2>1. run'[w].pc \in {"release", "mark"}
    BY <1>0, <1>13 DEF Cleanup, AfterCleanup, Runs
  <2> QED BY <1>1, <1>13, <2>1 DEF Cleanup, lockVars
<1>14. CASE GiveBackLock(w)
  BY <1>0, <1>4, <1>14 DEF GiveBackLock, Release
<1> QED BY <1>5, <1>6, <1>7, <1>8, <1>9, <1>10, <1>11, <1>12, <1>13, <1>14 DEF Work

LEMMA WorkSlots ==
  ASSUME SlotsInv, NEW w \in Workers, Work(w)
  PROVE  AllSlotsOK' /\ NoTwins' /\ AddedOnce'
<1>1. CASE ~Return(w)
  <2>1. UNCHANGED <<bull, api>>
    BY <1>1 DEF Work, CheckPicked, TakeLock, Check, SetProgress, AnnounceStart,
       OpenContext, Validate, Generate, Deliver, SaveAnswer, Complete, Mark, Announce,
       Finish, Cleanup, GiveBackLock, queueVars, apiVars
  <2>2. Advances(w) /\ ~At(w, "idle")
    BY <1>1, WorkAdvances DEF SlotsInv
  <2>3. AddedOnce'
    BY <2>1 DEF SlotsInv, AddedOnce
  <2> QED BY <1>1, <2>1, <2>2, <2>3, WorkHolds, BusySlot
<1>2. CASE Return(w)
  <2>1. run'[w] = Idle /\ \A v \in Workers \ {w} : run'[v] = run[v]
    BY <1>2 DEF Return, SlotsInv, TypeOK
  <2>2. UNCHANGED <<holding, api>>
    BY <1>2 DEF Return, lockVars, apiVars
  <2>3. run[w].job \in Jobs /\ bull[run[w].job] = "active" /\ holding[w] = {}
    BY <1>2 DEF Return, At, SlotsInv, AllSlotsOK, SlotOK
  <2>4. \A v \in Workers \ {w} : run[v].job = run[w].job => At(v, "idle")
    BY DEF SlotsInv, NoTwins
  <2>5. \A i \in Jobs \ {run[w].job} : bull'[i] = bull[i]
    BY <1>2 DEF Return, SlotsInv, TypeOK
  <2>6. AllSlotsOK'
    BY <2>1, <2>2, <2>3, <2>4, <2>5 DEF SlotsInv, AllSlotsOK, SlotOK, At, Idle
  <2>7. NoTwins'
    <3> SUFFICES ASSUME NEW u \in Workers, NEW v \in Workers, u # v,
                        run'[u].job = run'[v].job
                 PROVE  run'[u].pc = "idle"
      BY DEF NoTwins, At
    <3>1. CASE u = w
      BY <2>1, <3>1 DEF Idle
    <3>2. CASE u # w /\ v = w
      <4>1. run[u].job = NoJob
        BY <2>1, <3>2 DEF Idle
      <4>2. run[u].pc = "idle"
        BY <4>1, ChatAssumption DEF SlotsInv, AllSlotsOK, SlotOK
      <4> QED BY <2>1, <3>2, <4>2
    <3>3. CASE u # w /\ v # w
      BY <2>1, <3>3 DEF SlotsInv, NoTwins, At
    <3> QED BY <3>1, <3>2, <3>3
  <2>8. AddedOnce'
    BY <2>2, <2>3, <2>5 DEF SlotsInv, AddedOnce
  <2> QED BY <2>6, <2>7, <2>8
<1> QED BY <1>1, <1>2

LEMMA RunFaultSlots ==
  ASSUME SlotsInv, NEW w \in Workers, RunFault(w)
  PROVE  AllSlotsOK' /\ NoTwins' /\ AddedOnce'
<1>0. run \in [Workers -> Runs] /\ run[w] \in Runs /\ holding \in [Workers -> SUBSET Keys]
  BY DEF SlotsInv, TypeOK, LockTypeOK
<1>1. holding[w] \subseteq {KeyOf[run[w].job]}
  BY <1>0 DEF SlotsInv, AllSlotsOK, SlotOK
<1>2. UNCHANGED <<bull, api>>
  BY DEF RunFault, queueVars, apiVars
<1>3. Advances(w) /\ ~At(w, "idle")
  BY RunFaultAdvances DEF SlotsInv
<1>4. /\ run'[w].pc # "idle"
      /\ \A v \in Workers \ {w} : holding'[v] = holding[v]
      /\ holding'[w] \subseteq {KeyOf[run[w].job]}
      /\ run'[w].pc \in {"picked", "lock", "return"} => holding'[w] = {}
  <2>1. CASE Raise(w, "failed") /\ UNCHANGED lockVars
    BY <1>0, <1>1, <2>1 DEF Raise, Raised, Runs, lockVars
  <2>2. CASE run' = [run EXCEPT ![w] = Escaped(@, w)] /\ UNCHANGED lockVars
    BY <1>0, <1>1, <2>2 DEF Escaped, Runs, lockVars
  <2>3. CASE Goto(w, "announce") /\ UNCHANGED lockVars
    BY <1>0, <1>1, <2>3 DEF Goto, Runs, lockVars
  <2>4. CASE run' = [run EXCEPT ![w] = AfterCleanup(@)] /\ UNCHANGED lockVars
    BY <1>0, <1>1, <2>4 DEF AfterCleanup, Runs, lockVars
  <2>5. CASE Abandon({w}) /\ Goto(w, "return")
    BY <1>0, <2>5 DEF Abandon, Goto, Runs
  <2>6. CASE /\ run' = [run EXCEPT ![w] = IF @.caught THEN Escaped(@, w)
                                                     ELSE Raised(@, "failed")]
             /\ UNCHANGED lockVars
    <3>1. CASE run[w].caught
      BY <2>2, <2>6, <3>1
    <3>2. CASE ~run[w].caught
      BY <2>1, <2>6, <3>2 DEF Raise
    <3> QED BY <3>1, <3>2
  <2> QED BY <2>1, <2>2, <2>3, <2>4, <2>5, <2>6 DEF RunFault
<1>5. AddedOnce'
  BY <1>2 DEF SlotsInv, AddedOnce
<1> QED BY <1>2, <1>3, <1>4, <1>5, BusySlot

\* The death of the process frees all slots and all keys.
LEMMA DeathSlots ==
  ASSUME SlotsInv, ProcessDies, UNCHANGED <<bull, api>>
  PROVE  AllSlotsOK' /\ NoTwins' /\ AddedOnce'
<1>1. \A w \in Workers : run'[w] = Idle /\ holding'[w] = {}
  BY DEF ProcessDies, Abandon
<1>2. AllSlotsOK' /\ NoTwins'
  BY <1>1 DEF AllSlotsOK, SlotOK, NoTwins, At, Idle
<1>3. AddedOnce'
  BY DEF SlotsInv, AddedOnce
<1> QED BY <1>2, <1>3

LEMMA OtherSlots ==
  ASSUME SlotsInv,
         \/ \E x \in watchers : Watch(x) \/ WatcherFault(x)
         \/ \E k \in Keys : LeaseEnds(k) \/ Reconnect(k)
         \/ Crash
         \/ UNCHANGED vars
  PROVE  AllSlotsOK' /\ NoTwins' /\ AddedOnce'
<1>1. UNCHANGED <<bull, api>>
  BY DEF Watch, WatcherFault, LeaseEnds, Reconnect, Crash, vars, queueVars, apiVars
<1>2. CASE ProcessDies
  BY <1>1, <1>2, DeathSlots
<1>3. CASE UNCHANGED <<run, holding>>
  BY <1>1, <1>3, QuietSlots DEF SlotsInv, AddedOnce
<1> QED
  BY <1>2, <1>3 DEF Watch, WatcherFault, LeaseEnds, Expire, Reconnect, Crash, vars, lockVars

LEMMA InitSlots == Init => SlotsInv
<1> SUFFICES ASSUME Init PROVE AllSlotsOK /\ NoTwins /\ AddedOnce
  BY InitTypes DEF SlotsInv
<1>1. \A w \in Workers : run[w] = Idle /\ holding[w] = {}
  BY DEF Init, LockInit
<1>2. AllSlotsOK /\ NoTwins
  BY <1>1 DEF AllSlotsOK, SlotOK, NoTwins, At, Idle
<1>3. AddedOnce
  BY DEF Init, AddedOnce
<1> QED BY <1>2, <1>3

LEMMA NextSlots == SlotsInv /\ [Next]_vars => SlotsInv'
<1> SUFFICES ASSUME SlotsInv, [Next]_vars
             PROVE  SlotsInv'
  OBVIOUS
<1>1. TypeOK' /\ RunsOK'
  BY NextTypes DEF SlotsInv
<1>2. AllSlotsOK' /\ NoTwins' /\ AddedOnce'
  BY JobStepSlots, RetrySlots, PickSlots, WorkSlots, RunFaultSlots, OtherSlots DEF Next
<1> QED BY <1>1, <1>2 DEF SlotsInv

(* The inductive invariant that ties runs, queue entries and locks together. *)
THEOREM SlotsInvariant == Spec => []SlotsInv
  BY InitSlots, NextSlots, PTL DEF Spec

(* Queue, slots and locks stay in step, for any number of jobs, slots, keys, *)
(* crashes, stalls and rejected calls: BullMQ's active jobs against the runs *)
(* of chatJobProcessor and the keys they hold (worker.ts, chatJobProcessor). *)
THEOREM SlotsSafety == Spec => []SlotsSound
  BY SlotsInvariant, SlotsInvSound, PTL

-----------------------------------------------------------------------------
(* The cancel signal, for any crashes, stalls and rejected calls.          *)

\* The calls between the last check of the cancel key and the prompt's end.
Sending == {"validate", "setStreaming", "send"}

\* A run of w that is in that stretch after the step was in it before, or has
\* just read the key and found it unset.
EntersUnsignalled(w) ==
    run'[w].pc \in Sending =>
        /\ run'[w].job = run[w].job
        /\ run[w].pc \in Sending \/ ~cancelKey[run[w].job]

LEMMA WorkEnters ==
  ASSUME TypeOK, NEW w \in Workers, Work(w)
  PROVE  EntersUnsignalled(w)
<1>0. run \in [Workers -> Runs] /\ run[w] \in Runs
  BY DEF TypeOK
<1>1. ASSUME NEW o, Raise(w, o)
      PROVE  run'[w].pc \in {"cleanup", "mark"}
  BY <1>0, <1>1 DEF Raise, Raised, Runs
<1>2. ASSUME NEW o, EndWith(w, o)
      PROVE  run'[w].pc = "mark"
  BY <1>0, <1>2 DEF EndWith, Runs
<1>3. ASSUME NEW p, Goto(w, p)
      PROVE  run'[w].pc = p /\ run'[w].job = run[w].job
  BY <1>0, <1>3 DEF Goto, Runs
<1>4. CASE CheckPicked(w) \/ TakeLock(w)
  BY <1>1, <1>3, <1>4 DEF CheckPicked, TakeLock, EntersUnsignalled, Sending
<1>5. CASE Check(w)
  <2>1. CASE run'[w].pc \in {"cleanup", "mark"}
    BY <2>1 DEF EntersUnsignalled, Sending
  <2>2. CASE ~CancelSeen(w) /\ Goto(w, CheckThen[run[w].pc])
    BY <1>3, <2>2 DEF CancelSeen, EntersUnsignalled
  <2> QED BY <1>1, <1>5, <2>1, <2>2 DEF Check
<1>6. CASE SetProgress(w)
  BY <1>3, <1>6 DEF SetProgress, At, EntersUnsignalled, Sending
<1>7. CASE OpenContext(w)
  <2>1. CASE run' = [run EXCEPT ![w].pc = "opened", ![w].browser = TRUE]
    <3>1. run'[w].pc = "opened"
      BY <1>0, <2>1 DEF Runs
    <3> QED BY <3>1 DEF EntersUnsignalled, Sending
  <2> QED BY <1>1, <1>2, <1>7, <2>1 DEF OpenContext, EntersUnsignalled, Sending
<1>8. CASE Validate(w)
  BY <1>1, <1>2, <1>3, <1>8 DEF Validate, At, EntersUnsignalled, Sending
<1>9. CASE AnnounceStart(w) \/ Generate(w) \/ Deliver(w) \/ SaveAnswer(w) \/ Complete(w)
          \/ Mark(w) \/ GiveBackLock(w)
  BY <1>1, <1>2, <1>3, <1>9 DEF AnnounceStart, Generate, Deliver, SaveAnswer, Complete,
     Mark, GiveBackLock, EntersUnsignalled, Sending
<1>10. CASE Announce(w)
  <2>1. run'[w].pc = "finish"
    BY <1>0, <1>10 DEF Announce, Runs
  <2> QED BY <2>1 DEF EntersUnsignalled, Sending
<1>11. CASE Finish(w)
  <2>1. run'[w].pc \in {"cleanup", "release", "return"}
    BY <1>0, <1>11 DEF Finish, AfterDone, Runs
  <2> QED BY <2>1 DEF EntersUnsignalled, Sending
<1>12. CASE Cleanup(w)
  <2>1. run'[w].pc \in {"release", "mark"}
    BY <1>0, <1>12 DEF Cleanup, AfterCleanup, Runs
  <2> QED BY <2>1 DEF EntersUnsignalled, Sending
<1>13. CASE Return(w)
  <2>1. run'[w].pc = "idle"
    BY <1>0, <1>13 DEF Return, Idle
  <2> QED BY <2>1 DEF EntersUnsignalled, Sending
<1> QED BY <1>4, <1>5, <1>6, <1>7, <1>8, <1>9, <1>10, <1>11, <1>12, <1>13 DEF Work

LEMMA FaultEnters ==
  ASSUME TypeOK, NEW w \in Workers, RunFault(w)
  PROVE  EntersUnsignalled(w)
<1>0. run \in [Workers -> Runs] /\ run[w] \in Runs
  BY DEF TypeOK
<1>1. run'[w].pc \notin Sending
  <2>1. CASE Raise(w, "failed")
    BY <1>0, <2>1 DEF Raise, Raised, Runs, Sending
  <2>2. CASE run' = [run EXCEPT ![w] = Escaped(@, w)]
    BY <1>0, <2>2 DEF Escaped, Runs, Sending
  <2>3. CASE Goto(w, "announce") \/ Goto(w, "return")
    BY <1>0, <2>3 DEF Goto, Runs, Sending
  <2>4. CASE run' = [run EXCEPT ![w] = AfterCleanup(@)]
    BY <1>0, <2>4 DEF AfterCleanup, Runs, Sending
  <2>5. CASE run' = [run EXCEPT ![w] = IF @.caught THEN Escaped(@, w)
                                                    ELSE Raised(@, "failed")]
    <3>1. CASE run[w].caught
      BY <2>2, <2>5, <3>1
    <3>2. CASE ~run[w].caught
      BY <2>1, <2>5, <3>2 DEF Raise
    <3> QED BY <3>1, <3>2
  <2> QED BY <2>1, <2>2, <2>3, <2>4, <2>5 DEF RunFault
<1> QED BY <1>1 DEF EntersUnsignalled

LEMMA StepEnters ==
  ASSUME TypeOK, Next, NEW w \in Workers
  PROVE  EntersUnsignalled(w)
<1>1. CASE run'[w] = run[w]
  BY <1>1 DEF EntersUnsignalled
<1>2. CASE run'[w].pc \in {"idle", "picked"}
  BY <1>2 DEF EntersUnsignalled, Sending
<1>3. CASE Work(w) \/ RunFault(w)
  BY <1>3, WorkEnters, FaultEnters
<1>4. ASSUME NEW v \in Workers, v # w, Work(v) \/ RunFault(v)
      PROVE  run'[w] = run[w]
  <2>1. CASE Return(v)
    BY <1>4, <2>1 DEF Return, TypeOK
  <2>2. CASE ~Return(v)
    <3>1. Advances(v)
      BY <1>4, <2>2, WorkAdvances, RunFaultAdvances
    <3> QED BY <1>4, <3>1 DEF Advances, TypeOK
  <2> QED BY <2>1, <2>2
<1>5. ASSUME NEW v \in Workers, NEW j \in Jobs, Pick(v, j)
      PROVE  run'[w] = run[w] \/ run'[w].pc = "picked"
  BY <1>5 DEF Pick, TypeOK, Idle
<1>6. ASSUME ProcessDies
      PROVE  run'[w].pc = "idle"
  BY <1>6 DEF ProcessDies, Idle
<1>7. ASSUME \/ \E j \in Jobs : \/ Submit(j) \/ Handle(j) \/ Cancel(j) \/ Cancelling(j)
                                \/ Stall(j) \/ CancelKeyEnds(j)
                                \/ HandlerFault(j) \/ CancelFault(j)
             \/ \E old, j \in Jobs : Retry(old, j)
             \/ \E k \in Keys : LeaseEnds(k) \/ Reconnect(k)
      PROVE  run' = run
  BY <1>7 DEF Submit, Handle, CloneFiles, Enqueue, Accept, Refuse, Cancel, Cancelling,
     Stall, CancelKeyEnds, HandlerFault, CancelFault, Retry, LeaseEnds, Reconnect
<1>8. ASSUME NEW x \in watchers, Watch(x) \/ WatcherFault(x)
      PROVE  run' = run \/ ProcessDies
  BY <1>8 DEF Watch, WatcherFault
<1> QED BY <1>1, <1>2, <1>3, <1>4, <1>5, <1>6, <1>7, <1>8 DEF Next, Crash

(* POST /chat/:jobId/cancel: once the cancel key is set, no run of the job,  *)
(* present or later, gets from throwIfCancelled to the prompt, unless it was *)
(* already past the last check when the key was set.                         *)
THEOREM CancelSafety == Spec => CancelledNeverSent
<1>1. TypeOK /\ [Next]_vars =>
        [\A j \in Jobs : cancelKey[j] /\ ~Committed(j) => ~Committed(j)']_vars
  <2> SUFFICES ASSUME TypeOK, Next, NEW j \in Jobs, cancelKey[j], ~Committed(j)
               PROVE  ~Committed(j)'
    OBVIOUS
  <2>1. \A w \in Workers : EntersUnsignalled(w)
    BY StepEnters
  <2> QED BY <2>1 DEF Committed, EntersUnsignalled, Sending
<1> QED BY <1>1, TypeSafety, PTL DEF Spec, CancelledNeverSent
=============================================================================
