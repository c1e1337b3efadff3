----------------------------- MODULE Completion ------------------------------
(***************************************************************************)
(* The answer of POST /v1/chat/completions once its job is in the queue    *)
(* (openaiCompat.ts from line 262 on): the handler subscribes to the job's *)
(* events (redisJobEventBus.ts) and turns them into one JSON answer, raced *)
(* by a timer, or into a stream of chunks, raced by the client's           *)
(* departure.  The usage row is written by calls nobody waits for          *)
(* (completeUsageSuccess, completeUsageError), which may land in any       *)
(* order.  Gateway.tla shows the way to the queue.                         *)
(***************************************************************************)
EXTENDS Naturals, Sequences, FiniteSets

CONSTANTS Outcomes      \* the event sequences a job may publish

ASSUME CompletionAssumption == Outcomes # {} /\ <<>> \notin Outcomes

VARIABLES
    mode,       \* "json" or "sse"
    events,     \* what the job publishes
    told,       \* how many events it has published
    call,       \* the awaited call of subscribe: idle, replay, subscribe, quit, none
    line,       \* the subscriber: off, on, leaving (unsubscribe is under way), closed
    queue,      \* published events on their way to it
    hasError, hasText, hasCompleted,    \* the handler's flags
    timer,      \* armed, cleared, fired
    reply,      \* what the client was told first: 0 is nothing yet
    writes,     \* the updates of the usage row that have not landed
    row,        \* the status of the usage row
    missed,     \* history: events published between replay and subscription
    replayed,   \* history: the last event was handled while the handler had no handle
    after       \* history: events that wrote to the row after the answer

jobVars == <<mode, events, told>>
flagVars == <<hasError, hasText, hasCompleted>>
completionVars == <<jobVars, call, line, queue, flagVars, timer, reply, writes, row,
                    missed, replayed, after>>

\* The first answer of an event counts; the others write to the row only.
Failing == {"error", "requires_login", "manual_action_required", "rate_limited"}
StatusFor(e) ==
    CASE e = "done" -> "completed"
      [] e \in {"rate_limited", "cancelled", "timeout"} -> e
      [] OTHER -> "failed"

\* What the row must say if the client was told c.
RowFor(c, status) ==
    CASE c = 200 -> status = "completed"
      [] c = 500 -> status \in {"failed", "rate_limited"}
      [] c = 499 -> status \in {"cancelled", "timeout"}
      [] c = 504 -> status = "timeout"
      [] c = 0 -> TRUE

\* unsubscribe?.(): only once the handler holds it.
Hold == call = "none"
Released(l) == IF Hold /\ l = "on" THEN "leaving" ELSE l

\* The handler's state, as a record, so that a replay can fold it over events.
Now == [error |-> hasError, text |-> hasText, completed |-> hasCompleted, line |-> line,
        timer |-> timer, reply |-> reply, writes |-> writes, replayed |-> replayed,
        after |-> after]

Replies(h, code, e) ==
    [h EXCEPT !.reply = IF @ = 0 THEN code ELSE @,
              !.writes = @ \cup {StatusFor(e)},
              !.after = IF h.reply = 0 THEN @ ELSE @ \cup {e},
              !.line = Released(@),
              !.replayed = ~Hold]

\* The callback of a JSON answer ignores everything after an error, and ignores
\* cancelled and timeout, which a done follows.
JsonHandles(h, e) ==
    IF h.error THEN h
    ELSE CASE e = "message_complete" -> [h EXCEPT !.text = TRUE]
           [] e \in Failing -> [Replies(h, 500, e) EXCEPT !.error = TRUE, !.timer = "cleared"]
           [] e = "done" -> [Replies(h, 200, e) EXCEPT !.timer = "cleared"]
           [] OTHER -> h

\* The callback of a stream ends it at every event of these kinds, and again at
\* the done that follows.
SseHandles(h, e) ==
    CASE e = "message_delta" -> [h EXCEPT !.text = TRUE]
      [] e \in Failing -> [Replies(h, 500, e) EXCEPT !.completed = TRUE]
      [] e = "done" -> [Replies(h, 200, e) EXCEPT !.completed = TRUE]
      [] e \in {"cancelled", "timeout"} -> [Replies(h, 499, e) EXCEPT !.completed = TRUE]
      [] OTHER -> h

HandlesUnmuted(h, e) ==
    IF mode = "json" THEN JsonHandles([h EXCEPT !.error = FALSE], e) ELSE SseHandles(h, e)
Handles(h, e) == IF mode = "json" THEN JsonHandles(h, e) ELSE SseHandles(h, e)

Becomes(h) ==
    /\ hasError' = h.error /\ hasText' = h.text /\ hasCompleted' = h.completed
    /\ line' = h.line /\ timer' = h.timer /\ reply' = h.reply
    /\ writes' = h.writes /\ replayed' = h.replayed /\ after' = h.after

CompletionInit ==
    /\ mode = "json" /\ events = <<>> /\ told = 0
    /\ call = "idle" /\ line = "off" /\ queue = <<>>
    /\ hasError = FALSE /\ hasText = FALSE /\ hasCompleted = FALSE
    /\ timer = "cleared"
    /\ reply = 0 /\ writes = {} /\ row = "queued"
    /\ missed = {} /\ replayed = FALSE /\ after = {}

-----------------------------------------------------------------------------

\* The job is in the queue; the handler sets its timer and subscribes.
Await(m, es) ==
    /\ call = "idle"
    /\ mode' = m /\ events' = es
    /\ timer' = IF m = "json" THEN "armed" ELSE "cleared"
    /\ call' = "replay"
    /\ UNCHANGED <<told, line, queue, flagVars, reply, writes, row, missed, replayed, after>>

\* The publishers of both processes: list and channel in one transaction.
PublishOutcome ==
    /\ told < Len(events)
    /\ told' = told + 1
    /\ queue' = IF line \in {"on", "leaving"} THEN Append(queue, events[told']) ELSE queue
    /\ missed' = IF call = "subscribe" THEN missed \cup {events[told']} ELSE missed
    /\ UNCHANGED <<mode, events, call, line, flagVars, timer, reply, writes, row, replayed,
                   after>>

\* LRANGE: the handler's callback runs for each event of the list.
Replay ==
    LET h[n \in 0..told] == IF n = 0 THEN Now ELSE Handles(h[n - 1], events[n])
    IN
    /\ call = "replay"
    /\ Becomes(h[told])
    /\ call' = "subscribe"
    /\ UNCHANGED <<jobVars, queue, row, missed>>

JoinChannel ==
    /\ call = "subscribe"
    /\ line' = "on"
    /\ call' = "quit"
    /\ UNCHANGED <<jobVars, queue, flagVars, timer, reply, writes, row, missed, replayed,
                   after>>

\* The replay client has quit; a JSON answer that is over by now releases the
\* subscriber at once, if it failed or has a text.
GetHandleForgetting ==
    /\ call = "quit"
    /\ call' = "none"
    /\ UNCHANGED <<jobVars, line, queue, flagVars, timer, reply, writes, row, missed,
                   replayed, after>>
GetHandle ==
    /\ call = "quit"
    /\ call' = "none"
    /\ line' = IF mode = "json" /\ (hasError \/ hasText) THEN "leaving" ELSE line
    /\ UNCHANGED <<jobVars, queue, flagVars, timer, reply, writes, row, missed, replayed,
                   after>>

\* A message of the channel; they go on arriving until the client is disconnected.
Hear ==
    /\ queue # <<>>
    /\ Becomes(Handles(Now, Head(queue)))
    /\ queue' = Tail(queue)
    /\ UNCHANGED <<jobVars, call, row, missed>>

Disconnected ==
    /\ line = "leaving"
    /\ line' = "closed" /\ queue' = <<>>
    /\ UNCHANGED <<jobVars, call, flagVars, timer, reply, writes, row, missed, replayed,
                   after>>

\* OPENAI_COMPAT_NONSTREAM_TIMEOUT_MS.
TimeOutAnswer ==
    /\ timer = "armed"
    /\ timer' = "fired"
    /\ hasError' = TRUE
    /\ line' = Released(line)
    /\ writes' = writes \cup {"timeout"}
    /\ reply' = 504
    /\ UNCHANGED <<jobVars, call, queue, hasText, hasCompleted, row, missed, replayed, after>>

\* The request's close event reaches the handler once it listens; the body of a
\* POST is read by then, and the event may never come.
ClientLeaves ==
    /\ mode = "sse" /\ Hold /\ line # "closed"
    /\ writes' = IF hasCompleted THEN writes ELSE writes \cup {"client_disconnected"}
    /\ after' = IF hasCompleted THEN after ELSE after \cup {"close"}
    /\ line' = Released(line)
    /\ line' # line
    /\ UNCHANGED <<jobVars, call, queue, flagVars, timer, reply, row, missed, replayed>>

WriteLands ==
    /\ \E s \in writes : row' = s /\ writes' = writes \ {s}
    /\ UNCHANGED <<jobVars, call, line, queue, flagVars, timer, reply, missed, replayed,
                   after>>

CompletionNext ==
    \/ \E m \in {"json", "sse"}, es \in Outcomes : Await(m, es)
    \/ PublishOutcome \/ Replay \/ JoinChannel \/ GetHandle \/ Hear \/ Disconnected
    \/ TimeOutAnswer \/ ClientLeaves \/ WriteLands

\* The job ends (ChatJob's EveryJobSettles), Redis and the database answer, the
\* timer is a timer; a client need not leave.
CompletionFairness ==
    /\ WF_completionVars(PublishOutcome) /\ WF_completionVars(Replay)
    /\ WF_completionVars(JoinChannel) /\ WF_completionVars(GetHandle)
    /\ WF_completionVars(Hear) /\ WF_completionVars(Disconnected)
    /\ WF_completionVars(TimeOutAnswer) /\ WF_completionVars(WriteLands)

CompletionSpec == CompletionInit /\ [][CompletionNext]_completionVars /\ CompletionFairness

-----------------------------------------------------------------------------

CompletionTypeOK ==
    /\ mode \in {"json", "sse"} /\ events \in Outcomes \cup {<<>>} /\ told \in 0..Len(events)
    /\ call \in {"idle", "replay", "subscribe", "quit", "none"}
    /\ line \in {"off", "on", "leaving", "closed"}
    /\ hasError \in BOOLEAN /\ hasText \in BOOLEAN /\ hasCompleted \in BOOLEAN
    /\ timer \in {"armed", "cleared", "fired"}
    /\ reply \in {0, 200, 499, 500, 504}
    /\ row \in {"queued", "completed", "failed", "rate_limited", "cancelled", "timeout",
                "client_disconnected"}

\* The usage page (api-usage) and the client see the same outcome: when every write
\* has landed, the row agrees with the answer, except where events of the job, or
\* the close of the connection, were handled after the answer; and after a failed
\* JSON answer, whose flag hasError mutes the callback, even then.
RowAgrees ==
    /\ reply # 0 /\ writes = {}
    /\ after = {} \/ (mode = "json" /\ reply \in {500, 504})
    => RowFor(reply, row)

\* The Redis subscriber of every request is released, except where the job was
\* over before the handler held the function that does it, or where the last event
\* of a stream fell between replay and subscription.
EndReleased ==
    call = "replay" ~>
       \/ line = "closed"
       \/ replayed /\ (mode = "sse" \/ ~hasText)
       \/ mode = "sse" /\ "done" \in missed
=============================================================================
