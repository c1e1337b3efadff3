------------------------------ MODULE JobStream ------------------------------
(***************************************************************************)
(* How a job's events reach the chat view: the publishers append each      *)
(* event to a Redis list and publish it on the job's channel               *)
(* (redisJobEventPublisher.ts of both processes); GET /chat/:jobId/stream  *)
(* replays the list, then subscribes to the channel (redisJobEventBus.ts,  *)
(* routes/chat.ts); the browser feeds a response card from the event       *)
(* stream (attachStream in ChatWorkspace.tsx).                             *)
(*                                                                         *)
(* Events are numbered in the order of publication.  FetchReversed, and    *)
(* the other definitions that stand directly before the one whose name     *)
(* they extend, are mistakes for mutation tests (see README.md).           *)
(***************************************************************************)
EXTENDS Naturals, Sequences, FiniteSets, SequencesExt

CONSTANTS Scripts,      \* the event sequences a job may publish
          MaxReplay,    \* MAX_REPLAY_EVENTS
          ListLapses    \* may EVENT_TTL_SECONDS pass after the last event?

ASSUME StreamAssumption == /\ Scripts # {} /\ <<>> \notin Scripts
                           /\ MaxReplay \in Nat \ {0, 1}
                           /\ ListLapses \in BOOLEAN

VARIABLES
    script,     \* what the job publishes
    sent,       \* how many events it has published
    list,       \* the replay list: the numbers of the events in it
    pc,         \* the awaited call of the stream handler
    finished,   \* its flag of that name
    subscribed, \* its Redis subscriber is on the channel
    wire,       \* published events on their way to the subscriber
    frames,     \* SSE frames on their way to the browser; 0 is the end
    conn,       \* the HTTP connection, as the browser sees it; left by the user
    card,       \* the status of the response card
    updates,    \* changes to the card that React has not applied yet
    shown,      \* history: the events the card has handled
    start,      \* history: the first event the handler could have sent
    gap         \* history: events published between replay and subscription

redisVars == <<script, sent, list>>
handlerVars == <<pc, finished, subscribed>>
cardVars == <<card, updates, shown>>
browserVars == <<conn, cardVars>>
historyVars == <<start, gap>>
streamVars == <<redisVars, handlerVars, wire, frames, browserVars, historyVars>>

-----------------------------------------------------------------------------

\* The events that end the stream on the server ...
TerminalButLimited == {"done", "error", "requires_login", "manual_action_required",
                       "cancelled", "timeout"}
Terminal == {"done", "error", "requires_login", "manual_action_required",
             "rate_limited", "cancelled", "timeout"}

\* ... and those at which the card closes its EventSource.
Closing == {"done", "error", "requires_login", "manual_action_required",
            "rate_limited", "cancelled", "timeout"}

Events == {"queued", "retrying", "started", "message_delta", "message_complete"} \cup Closing

\* What is published of a job: a done comes after an answer or another end.  Where a
\* retry or a late event of the worker slips in before it, at a, no card begins
\* there: it is neither the first event nor the first after a wait in the queue,
\* and nearer to the end than the replay list reaches.
ASSUME ScriptsAssumption ==
    /\ Scripts \subseteq Seq(Events)
    /\ \A s \in Scripts : \A a, i \in 1..Len(s) :
          /\ a < i /\ s[i] = "done" /\ s[a] # "done"
          /\ \A k \in a..(i - 1) : s[k] \notin Closing \cup {"message_complete"}
          => a > 1 /\ s[a - 1] # "queued" /\ Len(s) - a + 1 < MaxReplay

\* The updates of the card: one per event, and "lost" for a lost connection,
\* which shows as an error with a message of its own unless the card is done.
DoneAfterIgnored(c) == c
DoneAfter(c) == IF c \in {"cancelled", "timeout"} THEN c ELSE "completed"

LostAfter(c) == IF c = "completed" THEN c ELSE "disconnected"

CardAfter(c, e) ==
    CASE e = "started" -> "started"
      [] e = "message_delta" -> "streaming"
      [] e = "message_complete" -> "completed"
      [] e \in {"queued", "retrying"} -> "queued"
      [] e = "done" -> DoneAfter(c)
      [] e = "lost" -> LostAfter(c)
      [] OTHER -> e

Applied(c, us) ==
    LET after[n \in 0..Len(us)] == IF n = 0 THEN c ELSE CardAfter(after[n - 1], us[n])
    IN  after[Len(us)]

\* The last n elements of s, as LTRIM key -n -1 leaves them.
LastN(s, n) == IF Len(s) <= n THEN s ELSE SubSeq(s, Len(s) - n + 1, Len(s))

-----------------------------------------------------------------------------

StreamInit ==
    /\ script \in Scripts
    /\ sent = 0
    /\ list = <<>>
    /\ pc = "none"
    /\ finished = FALSE
    /\ subscribed = FALSE
    /\ wire = <<>>
    /\ frames = <<>>
    /\ conn = "none"
    /\ card = "queued"
    /\ updates = <<>>
    /\ shown = <<>>
    /\ start = 0
    /\ gap = {}

-----------------------------------------------------------------------------
(* Redis.                                                                   *)

\* RPUSH, LTRIM, EXPIRE and PUBLISH in one transaction.
Publish ==
    /\ sent < Len(script)
    /\ sent' = sent + 1
    /\ list' = LastN(Append(list, sent'), MaxReplay)
    /\ wire' = IF subscribed THEN Append(wire, sent') ELSE wire
    /\ gap' = IF pc = "subscribe" THEN gap \cup {sent'} ELSE gap
    /\ UNCHANGED <<script, handlerVars, frames, browserVars, start>>

\* Ten minutes after an event the list is gone, unless another was published:
\* nothing more is, or the job waits in the queue.
ListExpires ==
    /\ ListLapses
    /\ list # <<>>
    /\ sent = Len(script) \/ script[sent] = "queued"
    /\ list' = <<>>
    /\ UNCHANGED <<script, sent, handlerVars, wire, frames, browserVars, historyVars>>

-----------------------------------------------------------------------------
(* The stream handler.                                                      *)

\* The browser learns the job's id after the queued event is published.
Open ==
    /\ pc = "none"
    /\ sent > 0
    /\ pc' = "fetch"
    /\ conn' = "open"
    /\ UNCHANGED <<redisVars, finished, subscribed, wire, frames, cardVars, historyVars>>

\* send() and teardown(), for a batch of events handled in one callback: the
\* frames up to the first terminal event, and then the end of the response.
Handled(batch) ==
    LET ends == {i \in 1..Len(batch) : script[batch[i]] \in Terminal}
    IN  IF ends = {} THEN batch
        ELSE Append(SubSeq(batch, 1, CHOOSE i \in ends : \A k \in ends : i <= k), 0)

Ends(batch) == \E i \in 1..Len(batch) : script[batch[i]] \in Terminal

\* LRANGE, and the synchronous replay of its answer.
FetchReversed ==
    /\ pc = "fetch"
    /\ frames' = frames \o Handled(Reverse(list))
    /\ finished' = Ends(list)
    /\ start' = IF list = <<>> THEN sent + 1 ELSE list[1]
    /\ pc' = "subscribe"
    /\ UNCHANGED <<redisVars, subscribed, wire, browserVars, gap>>
Fetch ==
    /\ pc = "fetch"
    /\ frames' = frames \o Handled(list)
    /\ finished' = Ends(list)
    /\ start' = IF list = <<>> THEN sent + 1 ELSE list[1]
    /\ pc' = "subscribe"
    /\ UNCHANGED <<redisVars, subscribed, wire, browserVars, gap>>

\* SUBSCRIBE; then the replay client is quit.
Subscribe ==
    /\ pc = "subscribe"
    /\ subscribed' = TRUE
    /\ pc' = "quit"
    /\ UNCHANGED <<redisVars, finished, wire, frames, browserVars, historyVars>>

\* subscribe() returns the handle.  A stream that is over by now is released;
\* else the handler listens from now on for the browser's departure.
ReturnKeeping ==
    /\ pc = "quit"
    /\ pc' = "live"
    /\ UNCHANGED <<redisVars, finished, subscribed, wire, frames, browserVars, historyVars>>
Return ==
    /\ pc = "quit"
    /\ pc' = "live"
    /\ subscribed' = ~finished
    /\ UNCHANGED <<redisVars, finished, wire, frames, browserVars, historyVars>>

\* A message from the channel.  Before the handle is there a terminal one
\* finishes the stream without releasing the subscriber.
Message ==
    /\ wire # <<>>
    /\ subscribed
    /\ wire' = Tail(wire)
    /\ IF finished
       THEN UNCHANGED <<frames, finished, subscribed>>
       ELSE LET batch == <<Head(wire)>> IN
            /\ frames' = frames \o Handled(batch)
            /\ finished' = Ends(batch)
            /\ subscribed' = ~(Ends(batch) /\ pc = "live")
    /\ UNCHANGED <<redisVars, pc, browserVars, historyVars>>

\* The browser's departure reaches the server: unheard, unless the handler
\* has registered for it by then.
CloseArrives ==
    /\ conn \in {"leaving", "left"}
    /\ conn' = "closed"
    /\ IF pc = "live"
       THEN finished' = TRUE /\ subscribed' = FALSE
       ELSE UNCHANGED <<finished, subscribed>>
    /\ UNCHANGED <<redisVars, pc, wire, frames, cardVars, historyVars>>

-----------------------------------------------------------------------------
(* The browser.                                                             *)

\* closeAllStreams(): another conversation, or the button that stops streams.
LeavePage ==
    /\ conn = "open"
    /\ conn' = "left"
    /\ UNCHANGED <<redisVars, handlerVars, wire, frames, cardVars, historyVars>>

\* The user cancelled the job of the card, and the API has answered.
CancelCard ==
    /\ conn = "open"
    /\ conn' = "left"
    /\ updates' = Append(updates, "cancelled")
    /\ UNCHANGED <<redisVars, handlerVars, wire, frames, card, shown, historyVars>>

\* handleEvent.  The update closes the EventSource when React runs it, which
\* may be at once.  An event named "error" also calls source.onerror, which
\* closes the EventSource itself and adds an update for a lost connection.
Show ==
    /\ conn = "open"
    /\ frames # <<>> /\ Head(frames) # 0
    /\ frames' = Tail(frames)
    /\ shown' = Append(shown, Head(frames))
    /\ LET e == script[Head(frames)] IN
       /\ updates' = updates \o (IF e = "error" THEN <<e, "lost">> ELSE <<e>>)
       /\ \/ conn' = IF e = "error" THEN "leaving" ELSE conn
          \/ updates = <<>> /\ e \in Closing /\ conn' = "leaving"
    /\ UNCHANGED <<redisVars, handlerVars, wire, card, historyVars>>

\* source.onerror: the response ended before the EventSource was closed.
Lost ==
    /\ conn = "open"
    /\ frames # <<>> /\ Head(frames) = 0
    /\ frames' = Tail(frames)
    /\ updates' = Append(updates, "lost")
    /\ conn' = "leaving"
    /\ UNCHANGED <<redisVars, handlerVars, wire, card, shown, historyVars>>

\* React renders: it applies every update in order.
Render ==
    /\ updates # <<>>
    /\ card' = Applied(card, updates)
    /\ updates' = <<>>
    /\ conn' = IF conn = "open" /\ Range(updates) \cap Closing # {} THEN "leaving" ELSE conn
    /\ UNCHANGED <<redisVars, handlerVars, wire, frames, shown, historyVars>>

-----------------------------------------------------------------------------
Serve == Fetch \/ Subscribe \/ Return \/ Message \/ CloseArrives

View == Show \/ Lost \/ Render

StreamNext == Publish \/ ListExpires \/ Open \/ Serve \/ LeavePage \/ CancelCard \/ View

StreamSpec == StreamInit /\ [][StreamNext]_streamVars

\* Event loops and connections make progress; jobs and users need not.
StreamFairSpec == StreamSpec /\ WF_streamVars(Serve) /\ WF_streamVars(View)

-----------------------------------------------------------------------------
(* Properties.                                                              *)

Numbers == 1..sent

StreamTypeOK ==
    /\ script \in Scripts
    /\ sent \in 0..Len(script)
    /\ list \in Seq(Numbers) /\ Len(list) <= MaxReplay
    /\ pc \in {"none", "fetch", "subscribe", "quit", "live"}
    /\ finished \in BOOLEAN
    /\ subscribed \in BOOLEAN
    /\ wire \in Seq(Numbers)
    /\ frames \in Seq(Numbers \cup {0})
    /\ conn \in {"none", "open", "leaving", "left", "closed"}
    /\ card \in {"queued", "started", "streaming", "completed", "disconnected"}
                   \cup (Terminal \ {"done"})
    /\ updates \in Seq(Events \cup {"lost"})
    /\ shown \in Seq(Numbers)
    /\ start \in 0..(sent + 1)
    /\ gap \subseteq Numbers

(* Although replay and subscription are two calls, the card never handles an *)
(* event twice or before an older one (message_delta appends to the text),    *)
(* and from the first replayed event to the last one handled, only one that   *)
(* was published between LRANGE and SUBSCRIBE may be missing.                 *)
LostOnlyInGap ==
    /\ \A i, k \in 1..Len(shown) : i < k => shown[i] < shown[k]
    /\ shown # <<>> => \A i \in start..Last(shown) : i \in Range(shown) \/ i \in gap

(* done, which every outcome publishes, sets the status "completed" too.      *)
(* Still a card says so only of a job whose stream had message_complete,      *)
(* unless an event fell into the gap or the replay list, at its limit, begins *)
(* with a done.                                                               *)
CompletedWasAnswered ==
    card = "completed" /\ gap = {} /\ script[shown[1]] # "done" =>
        \E i \in Range(shown) : script[i] = "message_complete"

(* README.md: "Each provider reports its own errors": the message of the     *)
(* provider's error is what the card of that provider shows.                  *)
OwnErrorReported ==
    (\E i \in Range(shown) : script[i] = "error") /\ updates = <<>> => card = "error"

\* What the handler can still receive, or has handled, ends the stream.
Unlost == \E i \in 1..sent : i >= start /\ i \notin gap /\ script[i] \in Terminal

(* The comment in routes/chat.ts: a terminal event replayed before the       *)
(* handle is there "must not leave the Redis subscriber connection           *)
(* dangling".  A stream that has not lost all the terminal events of its job *)
(* releases its subscriber in the end, also when one arrived while the replay *)
(* client quits, or the browser went away before the handler could notice.   *)
StreamReleased == (pc = "live" /\ Unlost) ~> ~subscribed

(* A card whose stream the user leaves open then leaves its waiting states. *)
CardSettles ==
    (pc = "live" /\ Unlost /\ conn = "open")
        ~> (conn = "left" \/ card \notin {"queued", "started", "streaming"})

=============================================================================
