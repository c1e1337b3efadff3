----------------------------- MODULE Discussion -----------------------------
(***************************************************************************)
(* The discuss mode of ChatWorkspace.tsx: runDiscussion asks one provider  *)
(* after the other, each turn by streamPrompt; stopDiscussion breaks off.  *)
(* Nothing but the flag discussionRunning keeps a second loop from         *)
(* starting, and loops share the abort flag, the map of open streams and   *)
(* the one reference to a stream that may be finished by force.            *)
(*                                                                         *)
(* A step is what JavaScript runs between two awaits, the continuations of *)
(* the promises it resolves included.                                      *)
(***************************************************************************)
EXTENDS Naturals, FiniteSets

CONSTANTS MaxLoops,  \* how often Start is pressed, a bound
          Turns,     \* rounds times participants
          MaxStops,  \* how often Stop is pressed, a bound
          MayLeave   \* may the user open another conversation?

ASSUME DiscussionAssumption ==
    /\ MaxLoops \in Nat \ {0} /\ Turns \in Nat \ {0} /\ MaxStops \in Nat
    /\ MayLeave \in BOOLEAN

VARIABLES
    abort,      \* discussionAbortRef
    running,    \* discussionRunning
    loop,       \* the calls of runDiscussion: awaited call and turn
    active,     \* activeStreamRef: <<loop, turn>>, or none
    sources,    \* the open EventSources, by <<loop, turn>>
    entry,      \* the status of the entry of each turn of each loop
    stopping,   \* the calls of stopDiscussion, and whose jobs they have cancelled
    overlapped, \* history: a loop was started beside a living one
    cutOff      \* history: Leave closed the stream of a turn

vars == <<abort, running, loop, active, sources, entry, stopping, overlapped, cutOff>>

Loops == 1..MaxLoops
Stops == 1..MaxStops
Steps == Loops \X (1..Turns)
none == <<>>

Waiting == {"queued", "started"}
Results == {"completed", "failed", "cancelled"}

Alive(l) == loop[l].pc \in {"post", "stream"}
Step(l) == <<l, loop[l].turn>>

-----------------------------------------------------------------------------

Init ==
    /\ abort = FALSE
    /\ running = FALSE
    /\ loop = [l \in Loops |-> [pc |-> "unborn", turn |-> 1]]
    /\ active = none
    /\ sources = {}
    /\ entry = [s \in Steps |-> "absent"]
    /\ stopping = [h \in Stops |-> [pc |-> "idle", seen |-> {}]]
    /\ overlapped = FALSE
    /\ cutOff = FALSE

\* updateEntry: an entry that is not in the transcript is not put there.
Updated(e, s, status) == [e EXCEPT ![s] = IF @ = "absent" THEN @ ELSE status]

\* Where loop l goes once streamPrompt has resolved, with the abort flag at a.
AfterTurn(l, a) ==
    IF a \/ loop[l].turn = Turns THEN [loop[l] EXCEPT !.pc = "over"]
    ELSE [pc |-> "post", turn |-> loop[l].turn + 1]

\* The entries after the turn of l ended with result: its own, and a new one
\* if the loop goes on.
EntriesAfterUnlessAborted(e, l, a, result) ==
    LET next == AfterTurn(l, a) IN
    IF next.pc = "over" THEN e
    ELSE [Updated(e, Step(l), result) EXCEPT ![<<l, next.turn>>] = "queued"]
EntriesAfter(e, l, a, result) ==
    LET next == AfterTurn(l, a)
        ended == Updated(e, Step(l), result)
    IN  IF next.pc = "over" THEN ended ELSE [ended EXCEPT ![<<l, next.turn>>] = "queued"]

\* runDiscussion, from the result of a turn to its next await or its end.
Resume(l, result) ==
    /\ loop' = [loop EXCEPT ![l] = AfterTurn(l, abort)]
    /\ entry' = EntriesAfter(entry, l, abort, result)
    /\ running' = (running /\ AfterTurn(l, abort).pc # "over")

-----------------------------------------------------------------------------
(* The user starts a discussion; its turns.                                 *)

Start(l) ==
    /\ ~running
    /\ loop[l].pc = "unborn"
    /\ \A k \in 1..(l - 1) : loop[k].pc # "unborn"
    /\ abort' = FALSE
    /\ running' = TRUE
    /\ loop' = [loop EXCEPT ![l].pc = "post"]
    /\ entry' = [s \in Steps |-> IF s = <<l, 1>> THEN "queued" ELSE "absent"]
    /\ overlapped' = (overlapped \/ \E k \in Loops : Alive(k))
    /\ UNCHANGED <<active, sources, stopping, cutOff>>

\* postChat is answered: the EventSource opens.
PostReturnsUnheld(l) ==
    /\ loop[l].pc = "post"
    /\ loop' = [loop EXCEPT ![l].pc = "stream"]
    /\ sources' = sources \cup {Step(l)}
    /\ UNCHANGED <<abort, running, active, entry, stopping, overlapped, cutOff>>
PostReturns(l) ==
    /\ loop[l].pc = "post"
    /\ loop' = [loop EXCEPT ![l].pc = "stream"]
    /\ sources' = sources \cup {Step(l)}
    /\ active' = Step(l)
    /\ UNCHANGED <<abort, running, entry, stopping, overlapped, cutOff>>

\* postChat is rejected: the provider is skipped.
PostFails(l) ==
    /\ loop[l].pc = "post"
    /\ Resume(l, "failed")
    /\ UNCHANGED <<abort, active, sources, stopping, overlapped, cutOff>>

\* started, message_delta
Progress(l) ==
    /\ loop[l].pc = "stream" /\ Step(l) \in sources
    /\ entry' = Updated(entry, Step(l), "started")
    /\ UNCHANGED <<abort, running, loop, active, sources, stopping, overlapped, cutOff>>

\* finish(), upon a terminal event or the loss of the connection.
OutcomeUnresolved(l) ==
    /\ loop[l].pc = "stream" /\ Step(l) \in sources
    /\ active' = none
    /\ sources' = sources \ {Step(l)}
    /\ \/ \E result \in Results : Resume(l, result)
       \/ UNCHANGED <<loop, entry, running>>
    /\ UNCHANGED <<abort, stopping, overlapped, cutOff>>
Outcome(l) ==
    /\ loop[l].pc = "stream" /\ Step(l) \in sources
    /\ active' = none
    /\ sources' = sources \ {Step(l)}
    /\ \E result \in Results : Resume(l, result)
    /\ UNCHANGED <<abort, stopping, overlapped, cutOff>>

-----------------------------------------------------------------------------
(* The user stops it.                                                       *)

Cancelled(e) == [s \in Steps |-> IF e[s] \in Waiting THEN "cancelled" ELSE e[s]]

\* stopDiscussion after its last await, with the abort flag at a.  The loop
\* whose stream is finished by force takes its next step after that.
ForceAndClose(a) ==
    /\ active' = none
    /\ sources' = {}
    /\ running' = FALSE
    /\ IF active = none
       THEN entry' = Cancelled(entry) /\ UNCHANGED loop
       ELSE LET l == active[1] IN
            /\ loop' = [loop EXCEPT ![l] = AfterTurn(l, a)]
            /\ entry' = EntriesAfter(Cancelled(entry), l, a, "cancelled")

\* Without an open stream nothing is awaited.
Stop(h) ==
    /\ running
    /\ stopping[h].pc = "idle"
    /\ \A k \in 1..(h - 1) : stopping[k].pc # "idle"
    /\ abort' = TRUE
    /\ IF sources = {}
       THEN stopping' = [stopping EXCEPT ![h].pc = "done"] /\ ForceAndClose(TRUE)
       ELSE /\ \E s \in sources :
                  stopping' = [stopping EXCEPT ![h] = [pc |-> "cancel", seen |-> {s}]]
            /\ UNCHANGED <<running, loop, active, sources, entry>>
    /\ UNCHANGED <<overlapped, cutOff>>

\* cancelChatJob is answered: the next job of the map, if there is one.
StopNext(h) ==
    /\ stopping[h].pc = "cancel"
    /\ IF sources \subseteq stopping[h].seen
       THEN stopping' = [stopping EXCEPT ![h].pc = "done"] /\ ForceAndClose(abort)
       ELSE /\ \E s \in sources \ stopping[h].seen :
                  stopping' = [stopping EXCEPT ![h].seen = @ \cup {s}]
            /\ UNCHANGED <<running, loop, active, sources, entry>>
    /\ UNCHANGED <<abort, overlapped, cutOff>>

\* startNewConversation, openThread: the streams are closed, but nobody is
\* told; a saved discussion takes the place of the transcript.
Leave ==
    /\ MayLeave
    /\ sources' = {}
    /\ entry' \in {entry, [s \in Steps |-> "absent"]}
    /\ cutOff' = (cutOff \/ sources # {})
    /\ UNCHANGED <<abort, running, loop, active, stopping, overlapped>>

-----------------------------------------------------------------------------
Next ==
    \/ \E l \in Loops : Start(l) \/ PostReturns(l) \/ PostFails(l) \/ Progress(l) \/ Outcome(l)
    \/ \E h \in Stops : Stop(h) \/ StopNext(h)
    \/ Leave

Spec == Init /\ [][Next]_vars

\* The API answers every request, and every stream ends: the worker announces
\* each job (ChatJob), or the connection is lost.
DiscussionFairness ==
    /\ \A l \in Loops : WF_vars(PostReturns(l) \/ PostFails(l)) /\ WF_vars(Outcome(l))
    /\ \A h \in Stops : WF_vars(StopNext(h))

FairSpec == Spec /\ DiscussionFairness

-----------------------------------------------------------------------------
(* Properties.                                                              *)

DiscussionTypeOK ==
    /\ abort \in BOOLEAN
    /\ running \in BOOLEAN
    /\ loop \in [Loops -> [pc : {"unborn", "post", "stream", "over"}, turn : 1..Turns]]
    /\ active \in Steps \cup {none}
    /\ sources \subseteq Steps
    /\ entry \in [Steps -> {"absent"} \cup Waiting \cup Results]
    /\ stopping \in [Stops -> [pc : {"idle", "cancel", "done"}, seen : SUBSET Steps]]
    /\ overlapped \in BOOLEAN /\ cutOff \in BOOLEAN

(* While the page says that a discussion is running, which disables Start    *)
(* and the form, the loop started last is alive: a loop of an earlier start, *)
(* or a late Stop, may end the display of a living loop but never the other  *)
(* way round, which would lock the form for good.  Nor does an entry show a   *)
(* spinner that no loop will ever take away, whatever the order of Stop, late *)
(* progress of a stopped turn and a second Start.                             *)
NobodyWaitsAlone ==
    /\ running => \E l \in Loops : /\ Alive(l)
                                   /\ \A k \in Loops : k > l => loop[k].pc = "unborn"
    /\ \A s \in Steps : entry[s] \in Waiting => Alive(s[1]) /\ loop[s[1]].turn = s[2]

(* As long as no two loops met, Stop can finish the awaited turn by force,   *)
(* also after the user opened another conversation and the stream is closed. *)
StopReaches ==
    ~overlapped => \A l \in Loops : loop[l].pc = "stream" => active = Step(l)

(* Comment of streamPrompt: "Used by the discussion orchestrator to run      *)
(* providers strictly one after another."                                     *)
OneSpeaker == \A l, k \in Loops : Alive(l) /\ Alive(k) => l = k

(* When every stream ends, every loop ends, unless it met another one or a   *)
(* change of conversation closed a stream behind its back.                    *)
DiscussionEnds == \A l \in Loops : Alive(l) ~> (~Alive(l) \/ overlapped \/ cutOff)

=============================================================================
