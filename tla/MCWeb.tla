-------------------------------- MODULE MCWeb --------------------------------
(* The two halves of the web app that talk to a job, side by side for TLC:    *)
(* the stream of one job with its card, and the loop of a discussion.  Where  *)
(* a part was not chosen, what it must do in fairness is not enabled.          *)
EXTENDS MCJobStream, Discussion

VARIABLE part

allVars ==
    <<part, streamVars, vars>>

WebInit ==
    /\ part \in {"stream", "discussion"}
    /\ StreamInit
    /\ Init
    /\ part # "stream" => script = CHOOSE s \in Scripts : TRUE

WebNext ==
    \/ /\ part = "stream" /\ StreamNext
       /\ UNCHANGED <<part, vars>>
    \/ /\ part = "discussion" /\ Next
       /\ UNCHANGED <<part, streamVars>>

WebSpec ==
    /\ WebInit
    /\ [][WebNext]_allVars
    /\ WF_streamVars(Serve) /\ WF_streamVars(View)
    /\ DiscussionFairness
==============================================================================
