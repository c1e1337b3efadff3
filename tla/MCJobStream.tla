----------------------------- MODULE MCJobStream -----------------------------
(* Instances of JobStream for TLC.                                          *)
EXTENDS JobStream

\* What ChatJob publishes for: an answer; an answer cancelled too late; a
\* provider error; a rate limit; a job cancelled by the API and again by the
\* worker, and then retried; one that is retried between the two events of the
\* worker; a stalled job, marked as timed out, that runs again.
JobScripts == {
    <<"queued", "started", "message_delta", "message_delta", "message_complete", "done">>,
    <<"queued", "started", "message_complete", "cancelled", "done", "done">>,
    <<"queued", "started", "message_delta", "error", "done">>,
    <<"queued", "rate_limited", "done">>,
    <<"queued", "started", "cancelled", "done", "cancelled", "done", "retrying">>,
    <<"queued", "started", "cancelled", "done", "cancelled", "retrying", "done">>,
    <<"queued", "started", "timeout", "done", "started", "message_complete", "done">> }

\* A provider that fails in the middle of its answer.
ErrorScripts == { <<"queued", "started", "message_delta", "error", "done">> }
=============================================================================
