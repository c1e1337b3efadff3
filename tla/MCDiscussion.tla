---------------------------- MODULE MCDiscussion ----------------------------
(* Instances of Discussion for TLC; the configurations give the bounds.      *)
EXTENDS Discussion
=============================================================================
