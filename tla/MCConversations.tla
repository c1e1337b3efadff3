--------------------------- MODULE MCConversations ---------------------------
(* What becomes of answers, side by side for TLC: how an adapter reads one    *)
(* off the page, how the endpoint for programs hands it on and how its use is *)
(* logged, where the next turn continues, and how the conversations are       *)
(* listed.  ChatJob, JobStream and Discussion are what lies between.          *)
EXTENDS Completion, Adapter, History, ConversationUrls, UsageLog

VARIABLE part

\* What ChatJob publishes for: an answer; an answer cancelled too late; a provider
\* error; a rate limit; a job cancelled by the API and again by the worker; a
\* stalled job, marked as timed out, that runs again and fails, or succeeds.
JobOutcomes == {
    <<"queued", "started", "message_delta", "message_complete", "done">>,
    <<"queued", "started", "message_complete", "cancelled", "done", "done">>,
    <<"queued", "started", "message_delta", "error", "done">>,
    <<"queued", "rate_limited", "done">>,
    <<"queued", "started", "cancelled", "done", "cancelled", "done">>,
    <<"queued", "started", "timeout", "done", "started", "error", "done">>,
    <<"queued", "started", "timeout", "done", "started", "message_complete", "done">> }

\* A long answer, its beginning, and another answer.  The beginning looks like a menu,
\* and is skipped, as an answer and in passing.
Answers == { <<"a", "b">>, <<"a", "b", "c">>, <<"c">> }
Menus == { <<"a", "b">> }

allVars ==
    <<part, completionVars, adapterVars, historyVars, conversationVars, usageVars>>

ConversationsInit ==
    /\ part \in {"completion", "adapter", "history", "urls", "usage"}
    /\ CompletionInit
    /\ AdapterInit
    /\ HistoryInit
    /\ ConversationInit
    /\ UsageInit

ConversationsNext ==
    \/ /\ part = "completion" /\ CompletionNext
       /\ UNCHANGED <<part, adapterVars, historyVars, conversationVars, usageVars>>
    \/ /\ part = "adapter" /\ AdapterNext
       /\ UNCHANGED <<part, completionVars, historyVars, conversationVars, usageVars>>
    \/ /\ part = "history" /\ HistoryNext
       /\ UNCHANGED <<part, completionVars, adapterVars, conversationVars, usageVars>>
    \/ /\ part = "urls" /\ ConversationNext
       /\ UNCHANGED <<part, completionVars, adapterVars, historyVars, usageVars>>
    \/ /\ part = "usage" /\ UsageNext
       /\ UNCHANGED <<part, completionVars, adapterVars, historyVars, conversationVars>>

ConversationsSpec ==
    /\ ConversationsInit
    /\ [][ConversationsNext]_allVars
    /\ part = "completion" => CompletionFairness
    /\ part = "adapter" => WF_adapterVars(Adapting)
==============================================================================
