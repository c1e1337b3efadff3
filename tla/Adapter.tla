------------------------------- MODULE Adapter -------------------------------
(***************************************************************************)
(* sendMessage of the provider adapters (ChatGPTAdapter.ts and             *)
(* ClaudeAdapter.ts alike, GeminiAdapter.ts with one rule of its own): the *)
(* checks before the prompt is sent and the loop that polls the page until *)
(* the answer seems to be complete.  The page changes between any two      *)
(* reads.  Nothing on it says that an answer is complete: the adapter      *)
(* infers that from a text that has not changed for a while.               *)
(*                                                                         *)
(* Time is counted in polls.  A text is a sequence of chunks.  ChatJob has *)
(* the events of this loop as the outcomes of a run.                       *)
(***************************************************************************)
EXTENDS Naturals, Sequences, SequencesExt

CONSTANTS Texts,    \* the answers of a provider
          ChromeTexts, \* the texts isLikelyChromeText takes for the page's menus
          Idle,     \* RESPONSE_IDLE_TIMEOUT_MS in polls
          Total,    \* RESPONSE_TOTAL_TIMEOUT_MS in polls
          WallEvery \* polls between two looks for a login wall

Chunks == UNION {{t[i] : i \in DOMAIN t} : t \in Texts}

ASSUME AdapterAssumption ==
    /\ Texts \subseteq Seq(Chunks) /\ Texts # {} /\ <<>> \notin Texts
    /\ Idle \in Nat \ {0} /\ Total \in Nat \ {0} /\ WallEvery \in Nat \ {0}

VARIABLES
    at,         \* the adapter's next await
    gemini,     \* GeminiAdapter's rules hold
    target,     \* the answer of this turn
    above,      \* what else latestResponseText finds: an answer of the resumed
                \* conversation, the prompt, or nothing
    page,       \* the text this turn's response shows
    begun,      \* that response is there
    quiet,      \* polls since it last changed
    before,     \* beforeResponseText
    lastText, lastChangeAt, sawAnyResponse, polls,
    deltas,     \* history: the chunks yielded so far
    ending,     \* the last event yielded
    excuses     \* history: the page has replaced a text, has not kept the pace

pageVars == <<target, above, page, begun, quiet>>
loopVars == <<before, lastText, lastChangeAt, sawAnyResponse, polls, deltas>>
adapterVars == <<at, gemini, pageVars, loopVars, ending, excuses>>

Polling == at \in {"poll", "wall", "signs", "read", "judge"}
Generating == Polling /\ begun /\ page # target
Pause == IF gemini THEN Idle ELSE 2 * Idle

AdapterInit ==
    /\ at = "idle" /\ gemini = FALSE
    /\ target = <<>> /\ above = <<>> /\ page = <<>> /\ begun = FALSE /\ quiet = 0
    /\ before = <<>> /\ lastText = <<>> /\ lastChangeAt = 0
    /\ sawAnyResponse = FALSE /\ polls = 0 /\ deltas = <<>>
    /\ ending = "none" /\ excuses = {}

-----------------------------------------------------------------------------
(* The page, which belongs to the provider.                                 *)

PageShows(text, why) ==
    /\ page' = text /\ quiet' = 0
    /\ excuses' = excuses \cup why
    /\ UNCHANGED <<at, gemini, target, above, loopVars, ending>>

\* The conversation of a stored URL renders, or the prompt, which some selectors match
\* as well; if that happens after the adapter has noted the latest answer, it looks
\* like a new one.
RenderOthers ==
    /\ at \notin {"idle", "ended"}
    /\ above' \in Texts \ (ChromeTexts \cup {above})
    /\ excuses' = IF Polling THEN excuses \cup {"replaced"} ELSE excuses
    /\ UNCHANGED <<at, gemini, target, page, begun, quiet, loopVars, ending>>

\* The answer begins and grows.  A chunk that comes after a pause, between the look
\* at the text and the look at the buttons, may be the last one and go unseen.
Grow ==
    /\ Polling /\ (begun => IsStrictPrefix(page, target))
    /\ \E n \in 1..Len(target) :
          /\ begun => n > Len(page)
          /\ PageShows(SubSeq(target, 1, n),
                       IF at = "judge" /\ polls - lastChangeAt >= Idle
                       THEN {"pace"} ELSE {})
    /\ begun' = TRUE

\* The page replaces the answer it has shown (a regenerated or reformatted one).
Rewrite ==
    /\ Generating
    /\ \E t \in Texts : ~IsPrefix(page, t) /\ PageShows(t, {"replaced"})
    /\ UNCHANGED begun

-----------------------------------------------------------------------------
(* Before the prompt.                                                       *)

\* navigateForPrompt never throws: gotoWithRetry gives up quietly.
Navigate(g, t) ==
    /\ at = "idle"
    /\ at' = "login" /\ gemini' = g /\ target' = t
    /\ UNCHANGED <<above, page, begun, quiet, loopVars, ending, excuses>>

Yield(event, next) ==
    /\ ending' = event
    /\ at' = next
    /\ UNCHANGED <<gemini, pageVars, loopVars, excuses>>

Proceed(next) ==
    /\ at' = next
    /\ UNCHANGED <<gemini, pageVars, loopVars, ending, excuses>>

DetectLogin ==
    /\ at = "login"
    /\ \/ Proceed("limit")
       \/ \E e \in {"requires_login", "manual_action_required"} : Yield(e, "ended")

DetectLimit ==
    /\ at = "limit"
    /\ \/ Proceed("composer")
       \/ ~gemini /\ Yield("rate_limited", "ended")

FindComposer ==
    /\ at = "composer"
    /\ \/ Yield("started", "attach")
       \/ Yield("error", "ended")

\* attachFiles, fillComposer: a locator that fails is an error, or an exception
\* that ends the iteration without an event.
AttachAndFill ==
    /\ at = "attach"
    /\ \/ Proceed("before")
       \/ Yield("error", "ended")
       \/ Yield("threw", "ended")

\* The last visible response that does not look like the page's menus: this turn's,
\* or another, or none.
LatestResponseText == IF begun /\ page \notin ChromeTexts THEN page ELSE above

\* beforeResponseText is read before clickSend, or Enter, sends the prompt.
SendPrompt ==
    /\ at = "before"
    /\ before' = LatestResponseText
    /\ at' = "poll"
    /\ UNCHANGED <<gemini, pageVars, lastText, lastChangeAt, sawAnyResponse, polls, deltas,
                   ending, excuses>>

-----------------------------------------------------------------------------
(* The loop.                                                                *)

WaitPoll ==
    /\ at = "poll" /\ polls < Total
    /\ at' = "wall"
    /\ polls' = polls + 1
    /\ quiet' = quiet + 1
    /\ excuses' = IF Generating /\ quiet' >= Pause THEN excuses \cup {"pace"} ELSE excuses
    /\ UNCHANGED <<gemini, target, above, page, begun, before, lastText, lastChangeAt, sawAnyResponse,
                   deltas, ending>>

LookForWall ==
    /\ at = "wall"
    /\ \/ Proceed("signs")
       \/ ~sawAnyResponse /\ polls % WallEvery = 0 /\ Yield("requires_login", "ended")

LookForSigns ==
    /\ at = "signs"
    /\ \/ Proceed("read")
       \/ ~gemini /\ \E e \in {"rate_limited", "manual_action_required"} : Yield(e, "ended")

\* The text and the delta against the last one.
Delta(text) == IF IsPrefix(lastText, text)
               THEN SubSeq(text, Len(lastText) + 1, Len(text)) ELSE text

ReadText ==
    /\ at = "read"
    /\ at' = "judge"
    /\ sawAnyResponse' = (sawAnyResponse \/ LatestResponseText # <<>>)
    /\ IF LatestResponseText \notin {<<>>, before, lastText}
       THEN /\ deltas' = deltas \o Delta(LatestResponseText)
            /\ lastText' = LatestResponseText /\ lastChangeAt' = polls
       ELSE UNCHANGED <<deltas, lastText, lastChangeAt>>
    /\ UNCHANGED <<gemini, pageVars, before, polls, ending, excuses>>

\* The two rules of ChatGPT and Claude, with the buttons' candidates as they are
\* found, or not, on the page; the one rule of Gemini.
SeemsCompleteAnyway(stop, send) == lastText # <<>> /\ polls - lastChangeAt >= Idle
SeemsComplete(stop, send) ==
    LET idle == polls - lastChangeAt
    IN  /\ lastText # <<>>
        /\ \/ idle >= Pause
           \/ ~gemini /\ ~stop /\ send /\ idle >= Idle

Judge ==
    /\ at = "judge"
    /\ \E stop, send \in BOOLEAN :
          /\ sawAnyResponse' = (sawAnyResponse \/ (stop /\ ~gemini))
          /\ excuses' = IF Generating /\ ~stop /\ ~gemini THEN excuses \cup {"pace"} ELSE excuses
          /\ IF SeemsComplete(stop, send)
             THEN ending' = "message_complete" /\ at' = "ended"
             ELSE at' = "poll" /\ UNCHANGED ending
    /\ UNCHANGED <<gemini, pageVars, before, lastText, lastChangeAt, polls, deltas>>

GiveUpIfNothing ==
    /\ at = "poll" /\ polls >= Total /\ (lastText # <<>> \/ ~sawAnyResponse)
    /\ at' = "ended"
    /\ ending' = IF lastText # <<>> THEN "message_complete" ELSE "error"
    /\ excuses' = excuses \cup {"pace"}
    /\ UNCHANGED <<gemini, pageVars, loopVars>>
\* The loop's total time is over; sawAnyResponse tells a slow answer from none.
GiveUp ==
    /\ at = "poll" /\ polls >= Total
    /\ at' = "ended"
    /\ ending' = CASE lastText # <<>> -> "message_complete"
                   [] lastText = <<>> /\ ~sawAnyResponse -> "error"
                   [] lastText = <<>> /\ sawAnyResponse -> "timeout"
    /\ excuses' = excuses \cup {"pace"}
    /\ UNCHANGED <<gemini, pageVars, loopVars>>

\* Any other call on the page may throw; chatJobProcessor's catch takes it.
Throw ==
    /\ at \notin {"idle", "ended"}
    /\ Yield("threw", "ended")

Adapting ==
    \/ DetectLogin \/ DetectLimit \/ FindComposer \/ AttachAndFill \/ SendPrompt
    \/ WaitPoll \/ LookForWall \/ LookForSigns \/ ReadText \/ Judge \/ GiveUp

AdapterNext ==
    \/ \E g \in BOOLEAN, t \in Texts : Navigate(g, t)
    \/ Adapting \/ Throw
    \/ RenderOthers \/ Grow \/ Rewrite

AdapterSpec == AdapterInit /\ [][AdapterNext]_adapterVars /\ WF_adapterVars(Adapting)

-----------------------------------------------------------------------------

\* The message_complete of an adapter carries the whole answer of this turn, unless
\* the page was silent for longer than the rules allow, was not rendered in time,
\* replaced its answer, hid the stop button, brought the last chunk after a pause
\* between two reads, or took too long; or the answer passes through the text of
\* the previous one, which the loop takes for that one; or what is on the page at the
\* end looks like its menus, and was skipped.
\* And its deltas, which the endpoint for programs concatenates, add up to what was
\* read, unless the page replaced what it had shown.
WholeAnswer ==
    /\ ending = "message_complete" /\ excuses = {} =>
           \/ lastText = target
           \/ before # <<>> /\ IsPrefix(before, target)
           \/ page \in ChromeTexts
    /\ "replaced" \notin excuses => deltas = lastText

\* Every send ends with one of the events that end a run, whatever the page does.
SendEnds == at = "login" ~> at = "ended"
=============================================================================
