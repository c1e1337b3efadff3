----------------------------- MODULE Schedulers ------------------------------
(***************************************************************************)
(* One of the interval schedulers on several replicas of the API           *)
(* (retentionCleanupScheduler.ts; providerHealthScheduler.ts alike, which  *)
(* keeps no status row): SET NX EX under the replica's instanceId, the     *)
(* run, and a release in two calls, GET and DEL.  ProviderLock, which      *)
(* releases by one script, is the contrast.  schedulerStatusService.ts     *)
(* keeps one row for all replicas.  What the two deletions of              *)
(* retentionCleanupService.ts remove is not modelled, only that they may   *)
(* be rejected.                                                            *)
(***************************************************************************)
EXTENDS Naturals, FiniteSets

CONSTANTS Replicas,
          NoReplica,
          MaxTicks, MaxMishaps

ASSUME SchedulersAssumption ==
    /\ NoReplica \notin Replicas
    /\ MaxTicks \in Nat /\ MaxMishaps \in Nat

VARIABLES
    run,        \* a replica's runOnce: next await
    lock,       \* the value of the lock key
    note,       \* lastStatus of the status row
    ticks, mishaps,
    lapsed,     \* history: the lock ended by time under this run
    raced,      \* history: a lock ended by time between its GET and its DEL
    mute        \* history: the row missed a write, or the process died, since it says running

schedulerVars == <<run, lock, note, ticks, mishaps, lapsed, raced, mute>>

Mishap == mishaps < MaxMishaps /\ mishaps' = mishaps + 1
Working == {p \in Replicas : run[p] \in {"start", "usage", "events", "finish", "fail"}}

SchedulersInit ==
    /\ run = [p \in Replicas |-> "waiting"]
    /\ lock = NoReplica
    /\ note = "none"
    /\ ticks = 0 /\ mishaps = 0
    /\ lapsed = [p \in Replicas |-> FALSE]
    /\ raced = FALSE /\ mute = FALSE

Goto(p, pc) == run' = [run EXCEPT ![p] = pc]

\* safeRecord: a rejected write of the status row is only logged.
Record(status) ==
    \/ /\ note' = status /\ UNCHANGED mishaps
       /\ mute' = (mute /\ status = "running")
    \/ Mishap /\ mute' = TRUE /\ UNCHANGED note

\* The timer of an interval, or the tool that runs the scheduler once.
Acquire(p) ==
    /\ run[p] = "waiting" /\ ticks < MaxTicks
    /\ ticks' = ticks + 1
    /\ IF lock = NoReplica
       THEN lock' = p /\ Goto(p, "start") /\ lapsed' = [lapsed EXCEPT ![p] = FALSE]
       ELSE Goto(p, "skip") /\ UNCHANGED <<lock, lapsed>>
    /\ UNCHANGED <<note, mishaps, raced, mute>>

RecordSkipped(p) ==
    /\ run[p] = "skip"
    /\ Goto(p, "waiting")
    /\ Record("skipped")
    /\ UNCHANGED <<lock, ticks, lapsed, raced>>

RecordStarted(p) ==
    /\ run[p] = "start"
    /\ Goto(p, "usage")
    /\ Record("running")
    /\ UNCHANGED <<lock, ticks, lapsed, raced>>

\* runRetentionCleanup: cleanupUsageLogs, then deleteOldNotificationEvents.
CleanUp(p) ==
    /\ \/ run[p] = "usage" /\ Goto(p, "events")
       \/ run[p] = "events" /\ Goto(p, "finish")
    /\ UNCHANGED <<lock, note, ticks, mishaps, lapsed, raced, mute>>

CleanUpFails(p) ==
    /\ run[p] \in {"usage", "events"} /\ Mishap
    /\ Goto(p, "fail")
    /\ UNCHANGED <<lock, note, ticks, lapsed, raced, mute>>

RecordEnd(p) ==
    /\ run[p] \in {"finish", "fail"}
    /\ Goto(p, "get")
    /\ Record(IF run[p] = "finish" THEN "success" ELSE "failed")
    /\ UNCHANGED <<lock, ticks, lapsed, raced>>

ReadNothing(p) ==
    /\ run[p] = "get"
    /\ Goto(p, "del")
    /\ UNCHANGED <<lock, note, ticks, mishaps, lapsed, raced, mute>>
ReadLock(p) ==
    /\ run[p] = "get"
    /\ Goto(p, IF lock = p THEN "del" ELSE "waiting")
    /\ UNCHANGED <<lock, note, ticks, mishaps, lapsed, raced, mute>>

\* DEL removes whatever is there by now.
DeleteLock(p) ==
    /\ run[p] = "del"
    /\ Goto(p, "waiting")
    /\ lock' = NoReplica
    /\ UNCHANGED <<note, ticks, mishaps, lapsed, raced, mute>>

\* A rejected GET or DEL is logged; the lock stays until it ends.
ReleaseFails(p) ==
    /\ run[p] \in {"get", "del"} /\ Mishap
    /\ Goto(p, "waiting")
    /\ UNCHANGED <<lock, note, ticks, lapsed, raced, mute>>

\* EX: the lock of a run that takes longer, or of one that is gone.
Lapse ==
    /\ lock # NoReplica
    /\ lock' = NoReplica
    /\ lapsed' = [lapsed EXCEPT ![lock] = @ \/ run[lock] # "waiting"]
    /\ raced' = (raced \/ run[lock] = "del")
    /\ UNCHANGED <<run, note, ticks, mishaps, mute>>

\* The process dies; a new one takes its place and waits for its first interval.
Restart(p) ==
    /\ run[p] # "waiting" /\ Mishap
    /\ Goto(p, "waiting")
    /\ mute' = (mute \/ p \in Working)
    /\ lapsed' = [lapsed EXCEPT ![p] = FALSE]
    /\ UNCHANGED <<lock, note, ticks, raced>>

SchedulersNext ==
    \/ \E p \in Replicas :
          \/ Acquire(p) \/ RecordSkipped(p) \/ RecordStarted(p) \/ CleanUp(p)
          \/ CleanUpFails(p) \/ RecordEnd(p) \/ ReadLock(p) \/ DeleteLock(p)
          \/ ReleaseFails(p) \/ Restart(p)
    \/ Lapse

SchedulersSpec == SchedulersInit /\ [][SchedulersNext]_schedulerVars

-----------------------------------------------------------------------------

\* retentionCleanupScheduler.ts says of the runs that they are "single-flight via a
\* Redis lock so replicas never double-run": two are at work only if the lock of one
\* of them ended by time, or that of a third did between the two calls of its release,
\* which then removed theirs.
SingleFlight ==
    \A p, q \in Working : p = q \/ lapsed[p] \/ lapsed[q] \/ raced

\* The row of the settings page says running only while a replica is at work, unless
\* it died or a write of the row was rejected; a skip or the end of another run may
\* well hide a run that is at work.
RunningIsRun == note = "running" /\ ~mute => Working # {}
=============================================================================
