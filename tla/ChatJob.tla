------------------------------- MODULE ChatJob -------------------------------
(***************************************************************************)
(* The life of a chat job: the API handlers that create, enqueue, cancel   *)
(* and retry it (apps/api routes/chat.ts, chatJobService.ts, chatQueue.ts, *)
(* cancelSignal.ts), the BullMQ queue between the processes, and the       *)
(* worker that runs it (chatJobProcessor.ts, worker.ts), sharing the       *)
(* AutomationJob row, the attachment rows, the Redis cancel key, the Redis *)
(* lock (ProviderLock) and the job's event list.                           *)
(*                                                                         *)
(* A step is one awaited call: everything between two awaits of a handler  *)
(* is atomic, since both processes run JavaScript on one thread.           *)
(* The definitions that stand directly before another one with a longer    *)
(* form of its name are deliberate mistakes in it, for the mutation tests   *)
(* the README describes; nothing uses them.                                *)
(***************************************************************************)
EXTENDS ProviderLock, Naturals

CONSTANTS Jobs,         \* job ids
          KeyOf,        \* the key of each job
          NoJob,        \* the job of an idle slot; what no retry repeats
          MayCancel,    \* the jobs whose user may ask to cancel them
          MayAttach,    \* the jobs whose request may carry attachments
          LeaseLapses,  \* may LOCK_TTL_MS pass during a run?
          CancelLapses, \* may CANCEL_TTL_SECONDS pass before the key is read?
          MaxCrashes,   \* deaths of the worker process
          MaxFaults     \* database or Redis calls that are rejected

ASSUME ChatAssumption ==
    /\ KeyOf \in [Jobs -> Keys]
    /\ NoJob \notin Jobs
    /\ MayCancel \subseteq Jobs
    /\ MayAttach \subseteq Jobs
    /\ LeaseLapses \in BOOLEAN
    /\ CancelLapses \in BOOLEAN
    /\ MaxCrashes \in Nat
    /\ MaxFaults \in Nat

VARIABLES
    db,         \* AutomationJob.status, "absent" before the row exists
    published,  \* the kinds of events published on the job's channel
    answers,    \* assistant messages saved for the job
    files,      \* the job's attachment clones: "none", "cloned", "deleted"
    retryOf,    \* the job whose retry this one is
    bull,       \* where BullMQ has the job
    stalls,     \* BullMQ's stalled counter
    api,        \* the handler that submits the job
    canceller,  \* the handler of POST /chat/:jobId/cancel
    cancelKey,  \* cancel:job:<id> is set
    connected,  \* keys whose ProviderConnection is connected with a session
    run,        \* what each slot is doing
    watchers,   \* "failed" and "stalled" listeners under way in worker.ts
    crashes, faults, \* spent budgets
    bereft      \* history: jobs that a dying process took a listener of

rowVars == <<db, published, answers, files, retryOf>>
apiVars == <<api, canceller, cancelKey>>
queueVars == <<bull, stalls>>
history == <<crashes, faults, bereft>>
vars == <<rowVars, queueVars, apiVars, connected, run, watchers, lockVars, history>>

-----------------------------------------------------------------------------
(* Statuses and events.                                                     *)

Outcomes == {"completed", "failed", "busy", "rate_limited", "requires_login",
             "manual_action_required", "cancelled", "timeout"}

Terminal == {"completed", "failed", "requires_login",
             "manual_action_required", "cancelled", "timeout"}

CancellableLate == {"queued", "running", "streaming", "completed"}
Cancellable == {"queued", "running", "streaming"}

Retryable == {"failed", "cancelled", "timeout", "requires_login",
              "manual_action_required"}

\* The status and the event with which failJob (PROVIDER_BUSY or any other
\* code), markRateLimited, markRequiresLogin, markManualActionRequired,
\* cancelJob and timeoutJob end a job.
StatusOf(o) == IF o \in {"busy", "rate_limited"} THEN "failed" ELSE o
EventOf(o) == IF o \in {"busy", "failed"} THEN "error" ELSE o

Events == {"queued", "started", "message_complete", "retrying", "done"}
              \cup {EventOf(o) : o \in Outcomes \ {"completed"}}

Publish(j, e) == published' = [published EXCEPT ![j] = @ \cup {e}]

SetStatus(j, s) == db' = [db EXCEPT ![j] = s]

-----------------------------------------------------------------------------
(* The runs of the worker.  "pc" names the awaited call a run makes next;   *)
(* "outcome" is a terminal mark it still has to make, or "none"; "browser"  *)
(* says that its browser context is open, so that the inner finally block   *)
(* is ahead; "caught" that it is past the try block of processChatJob, so   *)
(* that an exception now leaves the processor; "thrown" that one has.       *)

Idle == [pc |-> "idle", job |-> NoJob, outcome |-> "none",
         browser |-> FALSE, caught |-> FALSE, thrown |-> FALSE]

\* The five places where processChatJob calls checkJobTimeout and
\* throwIfCancelled outside the event loop, with what follows each.
CheckThen == [begin    |-> "setRunning",
              started  |-> "connect",
              opened   |-> "validate",
              ended    |-> "answer",
              event    |-> "deliver"]

PCs == {"idle", "picked", "lock", "setRunning", "announceStart", "connect",
        "validate", "setStreaming", "send", "deliver", "answer", "complete",
        "mark", "announce", "finish", "cleanup", "release", "return"}
           \cup DOMAIN CheckThen

Runs == [pc : PCs, job : Jobs \cup {NoJob}, outcome : Outcomes \cup {"none"},
         browser : BOOLEAN, caught : BOOLEAN, thrown : BOOLEAN]

At(w, p) == run[w].pc = p

Goto(w, p) == run' = [run EXCEPT ![w].pc = p]

\* A mark made by a call inside the try block.
EndWith(w, o) == run' = [run EXCEPT ![w].pc = "mark", ![w].outcome = o]

\* An exception: the finally block first if the context is open, then the
\* mark made by the catch block.  A mark that was pending is forgotten.
Raised(r, o) == [r EXCEPT !.pc = IF r.browser THEN "cleanup" ELSE "mark",
                          !.outcome = o, !.caught = TRUE]

Raise(w, o) == run' = [run EXCEPT ![w] = Raised(@, o)]

\* An exception nobody catches: the outer finally block, then BullMQ.
EscapedQuietly(r, w) == [r EXCEPT !.pc = IF holding[w] # {} THEN "release" ELSE "return",
                                 !.outcome = "none"]
Escaped(r, w) == [r EXCEPT !.pc = IF holding[w] # {} THEN "release" ELSE "return",
                           !.outcome = "none", !.thrown = TRUE]

AfterDoneKeepingLock(r, w) == [r EXCEPT !.pc = IF r.browser THEN "cleanup" ELSE "return"]
AfterDoneKeepingFiles(r, w) == [r EXCEPT !.pc = IF holding[w] # {} THEN "release" ELSE "return",
                                         !.browser = FALSE]
AfterDone(r, w) == [r EXCEPT !.pc = IF r.browser THEN "cleanup"
                                    ELSE IF holding[w] # {} THEN "release"
                                    ELSE "return"]

-----------------------------------------------------------------------------
Init ==
    /\ db = [j \in Jobs |-> "absent"]
    /\ published = [j \in Jobs |-> {}]
    /\ answers = [j \in Jobs |-> 0]
    /\ files = [j \in Jobs |-> "none"]
    /\ retryOf = [j \in Jobs |-> NoJob]
    /\ bull = [j \in Jobs |-> "absent"]
    /\ stalls = [j \in Jobs |-> 0]
    /\ api = [j \in Jobs |-> "none"]
    /\ canceller = [j \in Jobs |-> "idle"]
    /\ cancelKey = [j \in Jobs |-> FALSE]
    /\ connected = Keys
    /\ run = [w \in Workers |-> Idle]
    /\ watchers = {}
    /\ LockInit
    /\ crashes = 0
    /\ faults = 0
    /\ bereft = {}

-----------------------------------------------------------------------------
(* The API.                                                                 *)

\* POST /chat and each provider of POST /chat/multi, up to createJob: the
\* provider must be runnable, that is, connected.
Submit(j) ==
    /\ api[j] = "none"
    /\ KeyOf[j] \in connected
    /\ SetStatus(j, "queued")
    /\ api' = [api EXCEPT ![j] = "clone"]
    /\ UNCHANGED <<published, answers, files, retryOf, queueVars, canceller,
                   cancelKey, connected, run, watchers, lockVars, history>>

\* The thread's conversation is looked up, and the job gets its own copies of
\* the attachments of the request, if any; the request of a retry has none.
CloneFiles(j) ==
    /\ api[j] = "clone"
    /\ \E f \in IF j \in MayAttach /\ retryOf[j] = NoJob THEN {"none", "cloned"} ELSE {"none"} :
          files' = [files EXCEPT ![j] = f]
    /\ api' = [api EXCEPT ![j] = "add"]
    /\ UNCHANGED <<db, published, answers, retryOf, queueVars, canceller,
                   cancelKey, connected, run, watchers, lockVars, history>>

\* POST /chat/:jobId/retry of job "old" creates job j.
Retry(old, j) ==
    /\ api[j] = "none"
    /\ api[old] = "accepted"
    /\ db[old] \in Retryable
    /\ KeyOf[j] = KeyOf[old]
    /\ KeyOf[j] \in connected
    /\ SetStatus(j, "queued")
    /\ retryOf' = [retryOf EXCEPT ![j] = old]
    /\ api' = [api EXCEPT ![j] = "clone"]
    /\ UNCHANGED <<published, answers, files, queueVars, canceller, cancelKey,
                   connected, run, watchers, lockVars, history>>

\* enqueueCreatedJob: first queue.add ...
Enqueue(j) ==
    /\ api[j] = "add"
    /\ bull' = [bull EXCEPT ![j] = "waiting"]
    /\ api' = [api EXCEPT ![j] = "publish"]
    /\ UNCHANGED <<rowVars, stalls, canceller, cancelKey, connected, run,
                   watchers, lockVars, history>>

\* ... then the queued event; a retry also tells the stream of the old job.
Accept(j) ==
    /\ \/ /\ api[j] = "publish"
          /\ Publish(j, "queued")
          /\ api' = [api EXCEPT ![j] = IF retryOf[j] = NoJob THEN "accepted"
                                                             ELSE "retrying"]
       \/ /\ api[j] = "retrying"
          /\ Publish(retryOf[j], "retrying")
          /\ api' = [api EXCEPT ![j] = "accepted"]
    /\ UNCHANGED <<db, answers, files, retryOf, queueVars, canceller,
                   cancelKey, connected, run, watchers, lockVars, history>>

\* The catch block of enqueueCreatedJob, reached when either call was
\* rejected, and the removal of the clones before the 503.
Refuse(j) ==
    /\ \/ /\ api[j] = "refuse"
          /\ SetStatus(j, "failed")
          /\ api' = [api EXCEPT ![j] = "drop"]
          /\ UNCHANGED files
       \/ /\ api[j] = "drop"
          /\ files' = [files EXCEPT ![j] = IF @ = "cloned" THEN "deleted" ELSE @]
          /\ api' = [api EXCEPT ![j] = "refused"]
          /\ UNCHANGED db
    /\ UNCHANGED <<published, answers, retryOf, queueVars, canceller,
                   cancelKey, connected, run, watchers, lockVars, history>>

Handle(j) == CloneFiles(j) \/ Enqueue(j) \/ Accept(j) \/ Refuse(j)

\* POST /chat/:jobId/cancel reads the status once ...
Cancel(j) ==
    /\ j \in MayCancel
    /\ api[j] = "accepted"
    /\ canceller[j] = "idle"
    /\ db[j] \in Cancellable
    /\ canceller' = [canceller EXCEPT ![j] = "signal"]
    /\ UNCHANGED <<rowVars, queueVars, api, cancelKey, connected, run,
                   watchers, lockVars, history>>

\* ... and then sets the cancel key, takes the job out of the queue if it
\* still waits there, overwrites the status and publishes, in this order.
CancelNextUnmarked == [signal |-> "remove", remove |-> "announce",
                       mark |-> "announce", announce |-> "finish", finish |-> "idle"]
CancelNextUnannounced == [signal |-> "remove", remove |-> "mark",
                          mark |-> "finish", announce |-> "finish", finish |-> "idle"]
CancelNext == [signal |-> "remove", remove |-> "mark", mark |-> "announce",
               announce |-> "finish", finish |-> "idle"]

Cancelling(j) ==
    LET step == canceller[j] IN
    /\ step # "idle"
    /\ canceller' = [canceller EXCEPT ![j] = CancelNext[step]]
    /\ cancelKey' = IF step = "signal" THEN [cancelKey EXCEPT ![j] = TRUE] ELSE cancelKey
    /\ bull' = IF step = "remove" /\ bull[j] = "waiting"
               THEN [bull EXCEPT ![j] = "removed"] ELSE bull
    /\ IF step = "mark" THEN SetStatus(j, "cancelled") ELSE UNCHANGED db
    /\ IF step \in {"announce", "finish"}
       THEN Publish(j, IF step = "announce" THEN "cancelled" ELSE "done")
       ELSE UNCHANGED published
    /\ UNCHANGED <<answers, files, retryOf, stalls, api, connected, run,
                   watchers, lockVars, history>>

-----------------------------------------------------------------------------
(* The worker.  Each action is one awaited call of one run.                 *)

Pick(w, j) ==
    /\ At(w, "idle")
    /\ bull[j] = "waiting"
    /\ bull' = [bull EXCEPT ![j] = "active"]
    /\ run' = [run EXCEPT ![w] = [Idle EXCEPT !.pc = "picked", !.job = j]]
    /\ UNCHANGED <<rowVars, stalls, apiVars, connected, watchers, lockVars, history>>

\* throwIfCancelled and isJobCancelled read the cancel key.
CancelSeenButOpened(w) == cancelKey[run[w].job] /\ ~At(w, "opened")
CancelSeen(w) == cancelKey[run[w].job]

\* The first thing a run does: was the job cancelled while it waited?
CheckPicked(w) ==
    /\ At(w, "picked")
    /\ IF CancelSeen(w) THEN Raise(w, "cancelled") ELSE Goto(w, "lock")
    /\ UNCHANGED <<rowVars, queueVars, apiVars, connected, watchers, lockVars, history>>

TakeLockWaiting(w) ==
    /\ At(w, "lock")
    /\ Acquire(w, KeyOf[run[w].job]) /\ Goto(w, "begin")
    /\ UNCHANGED <<rowVars, queueVars, apiVars, connected, watchers, history>>
TakeLock(w) ==
    /\ At(w, "lock")
    /\ LET k == KeyOf[run[w].job] IN
       \/ Acquire(w, k) /\ Goto(w, "begin")
       \/ Busy(k) /\ Raise(w, "busy") /\ UNCHANGED lockVars
    /\ UNCHANGED <<rowVars, queueVars, apiVars, connected, watchers, history>>

\* checkJobTimeout and throwIfCancelled; the deadline is CHAT_JOB_TIMEOUT_MS
\* after the start, so it has not passed at the first of them.
Check(w) ==
    /\ run[w].pc \in DOMAIN CheckThen
    /\ \/ ~At(w, "begin") /\ Raise(w, "timeout")
       \/ IF CancelSeen(w)
          THEN Raise(w, "cancelled")
          ELSE Goto(w, CheckThen[run[w].pc])
    /\ UNCHANGED <<rowVars, queueVars, apiVars, connected, watchers, lockVars, history>>

\* The two progress updates of the row.
SetProgress(w) ==
    /\ \/ /\ At(w, "setRunning")
          /\ SetStatus(run[w].job, "running")
          /\ Goto(w, "announceStart")
       \/ /\ At(w, "setStreaming")
          /\ SetStatus(run[w].job, "streaming")
          /\ Goto(w, "send")
    /\ UNCHANGED <<published, answers, files, retryOf, queueVars, apiVars,
                   connected, watchers, lockVars, history>>

AnnounceStart(w) ==
    /\ At(w, "announceStart")
    /\ Publish(run[w].job, "started")
    /\ Goto(w, "started")
    /\ UNCHANGED <<db, answers, files, retryOf, queueVars, apiVars, connected,
                   watchers, lockVars, history>>

\* The connection is read; its session is decrypted and restored into a new
\* browser context, each of which may fail.
OpenContext(w) ==
    /\ At(w, "connect")
    /\ \/ KeyOf[run[w].job] \notin connected /\ EndWith(w, "requires_login")
       \/ /\ KeyOf[run[w].job] \in connected
          /\ \/ EndWith(w, "failed")
             \/ Raise(w, "failed")
             \/ run' = [run EXCEPT ![w].pc = "opened", ![w].browser = TRUE]
    /\ UNCHANGED <<rowVars, queueVars, apiVars, connected, watchers, lockVars, history>>

\* validateSession finds the provider's session logged out, throws, or
\* answers "connected".
Validate(w) ==
    /\ At(w, "validate")
    /\ \/ /\ connected' = connected \ {KeyOf[run[w].job]}
          /\ EndWith(w, "requires_login")
       \/ (Raise(w, "failed") \/ Goto(w, "setStreaming")) /\ UNCHANGED connected
    /\ UNCHANGED <<rowVars, queueVars, apiVars, watchers, lockVars, history>>

\* The adapter's generator: the next event other than a delta, or a throw.
\* (A delta only repeats the check of "event".)
Generate(w) ==
    /\ At(w, "send")
    /\ Goto(w, "event") \/ Raise(w, "failed")
    /\ UNCHANGED <<rowVars, queueVars, apiVars, connected, watchers, lockVars, history>>

Deliver(w) ==
    /\ At(w, "deliver")
    /\ \/ /\ \E o \in {"requires_login", "manual_action_required",
                       "rate_limited", "failed"} : EndWith(w, o)
          /\ UNCHANGED published
       \/ Publish(run[w].job, "message_complete") /\ Goto(w, "ended")
    /\ UNCHANGED <<db, answers, files, retryOf, queueVars, apiVars, connected,
                   watchers, lockVars, history>>

SaveAnswer(w) ==
    /\ At(w, "answer")
    /\ answers' = [answers EXCEPT ![run[w].job] = @ + 1]
    /\ Goto(w, "complete")
    /\ UNCHANGED <<db, published, files, retryOf, queueVars, apiVars,
                   connected, watchers, lockVars, history>>

Complete(w) ==
    /\ At(w, "complete")
    /\ SetStatus(run[w].job, "completed")
    /\ Goto(w, "finish")
    /\ UNCHANGED <<published, answers, files, retryOf, queueVars, apiVars,
                   connected, watchers, lockVars, history>>

\* The three calls with which every mark ends a job: the row, the event that
\* names the outcome, and publisher.complete.
Mark(w) ==
    /\ At(w, "mark")
    /\ SetStatus(run[w].job, StatusOf(run[w].outcome))
    /\ Goto(w, "announce")
    /\ UNCHANGED <<published, answers, files, retryOf, queueVars, apiVars,
                   connected, watchers, lockVars, history>>

Announce(w) ==
    /\ At(w, "announce")
    /\ Publish(run[w].job, EventOf(run[w].outcome))
    /\ run' = [run EXCEPT ![w].pc = "finish", ![w].outcome = "none"]
    /\ UNCHANGED <<db, answers, files, retryOf, queueVars, apiVars, connected,
                   watchers, lockVars, history>>

Finish(w) ==
    /\ At(w, "finish")
    /\ Publish(run[w].job, "done")
    /\ run' = [run EXCEPT ![w] = AfterDone(@, w)]
    /\ UNCHANGED <<db, answers, files, retryOf, queueVars, apiVars, connected,
                   watchers, lockVars, history>>

\* The inner finally block: the context is closed and the clones deleted;
\* then the mark of the exception that led here, if one did.
AfterCleanup(r) == [r EXCEPT !.pc = IF r.outcome = "none" THEN "release" ELSE "mark",
                             !.browser = FALSE]

Cleanup(w) ==
    /\ At(w, "cleanup")
    /\ files' = [files EXCEPT ![run[w].job] = IF @ = "cloned" THEN "deleted" ELSE @]
    /\ run' = [run EXCEPT ![w] = AfterCleanup(@)]
    /\ UNCHANGED <<db, published, answers, retryOf, queueVars, apiVars,
                   connected, watchers, lockVars, history>>

GiveBackLock(w) ==
    /\ At(w, "release")
    /\ \E k \in holding[w] : Release(w, k)
    /\ Goto(w, "return")
    /\ UNCHANGED <<rowVars, queueVars, apiVars, connected, watchers, history>>

\* BullMQ records how the processor ended; attempts is 1, so a failed job is
\* not tried again.
Return(w) ==
    /\ At(w, "return")
    /\ bull' = [bull EXCEPT ![run[w].job] =
                   IF run[w].thrown THEN "failed" ELSE "completed"]
    /\ watchers' = IF run[w].thrown
                   THEN watchers \cup {[job |-> run[w].job, on |-> "failed", pc |-> "mark"]}
                   ELSE watchers
    /\ run' = [run EXCEPT ![w] = Idle]
    /\ UNCHANGED <<rowVars, stalls, apiVars, connected, lockVars, history>>

Work(w) == \/ CheckPicked(w) \/ TakeLock(w) \/ Check(w) \/ SetProgress(w)
           \/ AnnounceStart(w) \/ OpenContext(w) \/ Validate(w) \/ Generate(w)
           \/ Deliver(w) \/ SaveAnswer(w) \/ Complete(w) \/ Mark(w)
           \/ Announce(w) \/ Finish(w) \/ Cleanup(w) \/ GiveBackLock(w)
           \/ Return(w)

-----------------------------------------------------------------------------
(* The listeners of worker.ts.                                              *)

Watchers == [job : Jobs, on : {"failed", "stalled"},
             pc : {"read", "mark", "announce", "finish"}]

WatcherTo(x, p) == watchers' = (watchers \ {x}) \cup {[x EXCEPT !.pc = p]}

\* markStalledJob spares a job it reads as completed or cancelled; then
\* markWorkerFailure writes the row, publishes the event, publishes done.
Watch(x) ==
    /\ x \in watchers
    /\ \/ /\ x.pc = "read"
          /\ IF db[x.job] \in {"completed", "cancelled"}
             THEN watchers' = watchers \ {x}
             ELSE WatcherTo(x, "mark")
          /\ UNCHANGED <<db, published>>
       \/ /\ x.pc = "mark"
          /\ SetStatus(x.job, IF x.on = "stalled" THEN "timeout" ELSE "failed")
          /\ WatcherTo(x, "announce")
          /\ UNCHANGED published
       \/ /\ x.pc = "announce"
          /\ Publish(x.job, IF x.on = "stalled" THEN "timeout" ELSE "error")
          /\ WatcherTo(x, "finish")
          /\ UNCHANGED db
       \/ /\ x.pc = "finish"
          /\ Publish(x.job, "done")
          /\ watchers' = watchers \ {x}
          /\ UNCHANGED db
    /\ UNCHANGED <<answers, files, retryOf, queueVars, apiVars, connected,
                   run, lockVars, history>>

-----------------------------------------------------------------------------
(* The surroundings: BullMQ's stalled check, time, and the user.            *)

Orphaned(j) == bull[j] = "active" /\ \A w \in Workers : run[w].job # j

\* A job whose worker is gone waits again the first time it stalls, and
\* fails the second time (maxStalledCount is 1).
Stall(j) ==
    /\ Orphaned(j)
    /\ stalls' = [stalls EXCEPT ![j] = @ + 1]
    /\ \/ /\ stalls[j] = 0
          /\ bull' = [bull EXCEPT ![j] = "waiting"]
          /\ watchers' = watchers \cup {[job |-> j, on |-> "stalled", pc |-> "read"]}
       \/ /\ stalls[j] > 0
          /\ bull' = [bull EXCEPT ![j] = "failed"]
          /\ watchers' = watchers \cup {[job |-> j, on |-> "failed", pc |-> "mark"]}
    /\ UNCHANGED <<rowVars, apiVars, connected, run, lockVars, history>>

\* LOCK_TTL_MS has passed since a key was set.  The token of a run that is
\* gone always gets there; a live one only if a run may last that long.
LeaseEnds(k) ==
    /\ LeaseLapses \/ lock[k] = Stale
    /\ Expire(k)
    /\ UNCHANGED <<rowVars, queueVars, apiVars, connected, run, watchers, history>>

CancelKeyEnds(j) ==
    /\ CancelLapses
    /\ cancelKey[j]
    /\ cancelKey' = [cancelKey EXCEPT ![j] = FALSE]
    /\ UNCHANGED <<rowVars, queueVars, api, canceller, connected, run,
                   watchers, lockVars, history>>

\* The user signs in to the provider again (routes/providers.ts).
Reconnect(k) ==
    /\ k \notin connected
    /\ connected' = connected \cup {k}
    /\ UNCHANGED <<rowVars, queueVars, apiVars, run, watchers, lockVars, history>>

-----------------------------------------------------------------------------
(* Failures.                                                                *)

\* All runs and listeners are lost; rows, queue, keys and lock remain.
ProcessDies == /\ run' = [w \in Workers |-> Idle]
               /\ watchers' = {}
               /\ bereft' = bereft \cup {x.job : x \in watchers}
               /\ Abandon(Workers)

Crash ==
    /\ crashes < MaxCrashes
    /\ watchers # {} \/ \E w \in Workers : ~At(w, "idle")
    /\ crashes' = crashes + 1
    /\ ProcessDies
    /\ UNCHANGED <<rowVars, queueVars, apiVars, connected, faults>>

Fault == faults < MaxFaults /\ faults' = faults + 1

\* A database or Redis call of a handler is rejected.  Before the enqueue
\* the exception becomes a 500 and the handler stops where it is; the two
\* calls of enqueueCreatedJob are caught alike, although the job is in the
\* queue when it is the second that was rejected; the later ones are
\* swallowed or only cost the retrying event.
AfterFault == [clone |-> "broken", add |-> "refuse", publish |-> "refuse",
               retrying |-> "accepted", refuse |-> "drop", drop |-> "refused"]

HandlerFault(j) ==
    /\ Fault
    /\ api[j] \in DOMAIN AfterFault
    /\ api' = [api EXCEPT ![j] = AfterFault[@]]
    /\ UNCHANGED <<rowVars, queueVars, canceller, cancelKey, connected, run,
                   watchers, lockVars, crashes, bereft>>

CancelFault(j) ==
    /\ Fault
    /\ canceller[j] # "idle"
    /\ canceller' = [canceller EXCEPT ![j] = IF @ = "remove" THEN "mark" ELSE "idle"]
    /\ UNCHANGED <<rowVars, queueVars, api, cancelKey, connected, run,
                   watchers, lockVars, crashes, bereft>>

\* A call of a run is rejected.  In the try block the error becomes a failed
\* job; outside it leaves the processor, except where the code swallows it.
InTry == {"setRunning", "announceStart", "connect", "validate", "setStreaming",
          "deliver", "answer", "complete"} \cup DOMAIN CheckThen

RunFault(w) ==
    /\ Fault
    /\ \/ /\ run[w].pc \in InTry
          /\ Raise(w, "failed")
          /\ UNCHANGED lockVars
       \/ /\ run[w].pc \in {"picked", "lock", "begin"}
          /\ run' = [run EXCEPT ![w] = Escaped(@, w)]
          /\ UNCHANGED lockVars
       \/ /\ At(w, "mark")
          /\ IF run[w].outcome = "requires_login"
             THEN Raise(w, "failed")
             ELSE Goto(w, "announce")
          /\ UNCHANGED lockVars
       \/ /\ run[w].pc \in {"announce", "finish"}
          /\ run' = [run EXCEPT ![w] = IF @.caught THEN Escaped(@, w)
                                                   ELSE Raised(@, "failed")]
          /\ UNCHANGED lockVars
       \/ /\ At(w, "cleanup")
          /\ run' = [run EXCEPT ![w] = AfterCleanup(@)]
          /\ UNCHANGED lockVars
       \/ /\ At(w, "release")
          /\ Abandon({w})
          /\ Goto(w, "return")
    /\ UNCHANGED <<rowVars, queueVars, apiVars, connected, watchers, crashes, bereft>>

\* A call of a listener is rejected: reading and writing the row swallow it,
\* a rejected publish is an unhandled rejection, which ends the process.
WatcherFault(x) ==
    /\ Fault
    /\ x \in watchers
    /\ \/ /\ x.pc = "read"
          /\ watchers' = watchers \ {x}
          /\ UNCHANGED <<run, lockVars, bereft>>
       \/ /\ x.pc = "mark"
          /\ WatcherTo(x, "announce")
          /\ UNCHANGED <<run, lockVars, bereft>>
       \/ x.pc \in {"announce", "finish"} /\ ProcessDies
    /\ UNCHANGED <<rowVars, queueVars, apiVars, connected, crashes>>

-----------------------------------------------------------------------------
Next ==
    \/ \E j \in Jobs : \/ Submit(j) \/ Handle(j) \/ Cancel(j) \/ Cancelling(j)
                       \/ Stall(j) \/ CancelKeyEnds(j)
                       \/ HandlerFault(j) \/ CancelFault(j)
    \/ \E old, j \in Jobs : Retry(old, j)
    \/ \E w \in Workers, j \in Jobs : Pick(w, j)
    \/ \E w \in Workers : Work(w) \/ RunFault(w)
    \/ \E x \in watchers : Watch(x) \/ WatcherFault(x)
    \/ \E k \in Keys : LeaseEnds(k) \/ Reconnect(k)
    \/ Crash

Spec == Init /\ [][Next]_vars

\* The event loops keep running what has begun, BullMQ hands out waiting jobs
\* and checks for stalled ones.  Nothing is assumed of users, of crashes or
\* of the TTLs.  A generator ends: each adapter has a total timeout.
Fairness ==
    /\ \A j \in Jobs : /\ WF_vars(Handle(j))
                       /\ WF_vars(Cancelling(j))
                       /\ WF_vars(Stall(j))
                       /\ WF_vars(\E w \in Workers : Pick(w, j))
    /\ \A w \in Workers : WF_vars(Work(w))
    /\ \A x \in Watchers : WF_vars(Watch(x))

FairSpec == Spec /\ Fairness

-----------------------------------------------------------------------------
(* Properties.                                                              *)

TypeOK ==
    /\ db \in [Jobs -> Terminal \cup Cancellable \cup {"absent"}]
    /\ published \in [Jobs -> SUBSET Events]
    /\ answers \in [Jobs -> Nat]
    /\ files \in [Jobs -> {"none", "cloned", "deleted"}]
    /\ retryOf \in [Jobs -> Jobs \cup {NoJob}]
    /\ bull \in [Jobs -> {"absent", "waiting", "active", "removed", "completed", "failed"}]
    /\ stalls \in [Jobs -> Nat]
    /\ api \in [Jobs -> {"none", "clone", "add", "publish", "retrying", "accepted",
                         "refuse", "drop", "refused", "broken"}]
    /\ canceller \in [Jobs -> {"idle", "signal", "remove", "mark", "announce", "finish"}]
    /\ cancelKey \in [Jobs -> BOOLEAN]
    /\ connected \in SUBSET Keys
    /\ run \in [Workers -> Runs]
    /\ watchers \in SUBSET Watchers
    /\ LockTypeOK
    /\ crashes \in Nat
    /\ faults \in Nat
    /\ bereft \in SUBSET Jobs

\* Nothing is going to act on the job any more, short of a new retry of it.
Settled(j) ==
    /\ api[j] \in {"accepted", "refused", "broken"}
    /\ canceller[j] = "idle"
    /\ bull[j] \notin {"waiting", "active"}
    /\ \A x \in watchers : x.job # j

(* Bookkeeping of queue, slots and lock that everything else rests on: a     *)
(* busy slot runs an active job, two slots never run the same one, and a     *)
(* slot holds at most the key of its own job's user and provider, and only   *)
(* from the acquisition to the release.                                      *)
SlotsSound ==
    /\ \A w \in Workers :
          IF At(w, "idle")
          THEN run[w].job = NoJob /\ holding[w] = {}
          ELSE /\ run[w].job \in Jobs
               /\ bull[run[w].job] = "active"
               /\ holding[w] \subseteq {KeyOf[run[w].job]}
               /\ run[w].pc \in {"picked", "lock", "return"} => holding[w] = {}
    /\ \A v, w \in Workers : v # w /\ run[v].job = run[w].job => At(v, "idle")

(* README.md:36, "one active job per user_id + provider": two runs are past  *)
(* the lock of the same key only if one of them outlived LOCK_TTL_MS.        *)
OneActiveJob == Exclusive

(* A settled job that neither the API left behind with a 500 nor a death of  *)
(* the worker robbed of a listener has a terminal status: the status route,  *)
(* the retry guard and the history never show it as queued, running or       *)
(* streaming for ever, whatever cancels, stalls and marks raced for the row. *)
SettledIsTerminal == \A j \in Jobs :
    Settled(j) /\ api[j] # "broken" /\ j \notin bereft => db[j] \in Terminal

(* Even when one database or Redis call is rejected, anywhere, and the       *)
(* worker dies, the stream of a job that the queue has finished with gets    *)
(* its done event, unless the death took its listener.  (Its row need not    *)
(* get a status then: the marks swallow a rejected update.)                  *)
FinishedIsAnnounced == \A j \in Jobs :
    Settled(j) /\ j \notin bereft /\ bull[j] \in {"completed", "failed"} => "done" \in published[j]

(* The stream agrees with the row: whoever wrote the status a settled job    *)
(* ends with has also published the event of that status and done, so a      *)
(* viewer of the event list can learn the outcome the database shows.        *)
AnnouncedBy(s) == IF s = "failed" THEN {"error", "rate_limited"}
                  ELSE IF s = "completed" THEN {"message_complete"} ELSE {s}

SettledIsAnnounced == \A j \in Jobs :
    Settled(j) /\ api[j] = "accepted" /\ j \notin bereft =>
        /\ "done" \in published[j]
        /\ published[j] \cap AnnouncedBy(db[j]) # {}

(* README.md:118, "... attaches them via the provider's file input, then    *)
(* deletes the temp files and the attachment rows": while a run may be about *)
(* to read its attachment rows nobody has deleted them, neither the handler  *)
(* that cloned them, nor a sibling, nor a retry; and of a job that got its   *)
(* answer no clone is left behind.                                           *)
AttachmentsServed ==
    /\ \A w \in Workers :
           run[w].pc \in {"setStreaming", "send"} => files[run[w].job] # "deleted"
    /\ \A j \in Jobs : Settled(j) /\ answers[j] > 0 => files[j] # "cloned"

(* A cancel request that comes before the last check ahead of the prompt     *)
(* keeps the prompt from the provider: once the key is set, no run of the    *)
(* job, present or later, gets past that check.                              *)
Committed(j) == \E w \in Workers :
    run[w].job = j /\ run[w].pc \in {"validate", "setStreaming", "send"}

CancelledNeverSent ==
    [][\A j \in Jobs : cancelKey[j] /\ ~Committed(j) => ~Committed(j)']_vars

(* Every job that was put into the queue is settled in the end.              *)
EveryJobSettles == \A j \in Jobs : api[j] # "none" ~> Settled(j)

-----------------------------------------------------------------------------
(* What the pipeline promises (JobLifecycle).                               *)

\* A job whose listener died before it could end the row is never over.
Stage(j) == IF api[j] = "none" THEN "absent"
            ELSE IF Settled(j) /\ (j \in bereft => db[j] \in Terminal) THEN "settled"
            ELSE "open"

Lifecycle == INSTANCE JobLifecycle WITH
    Open <- "open",
    stage <- [j \in Jobs |-> Stage(j)],
    verdict <- [j \in Jobs |-> IF Stage(j) = "settled" THEN db[j] ELSE "open"]

(* Every job opens, then settles once and for all with one terminal status.  *)
ImplementsLifecycle == Lifecycle!LifecycleSpec

=============================================================================
