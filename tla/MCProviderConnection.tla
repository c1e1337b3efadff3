------------------------ MODULE MCProviderConnection ------------------------
(* Instances of ProviderConnection for TLC.                                  *)
EXTENDS ProviderConnection, TLC

CONSTANTS c1, c2, c3, p1, p2, d1, v1, v2

CallSymmetry == Permutations(Connects) \cup Permutations(Polls) \cup Permutations(Checkers)
=============================================================================
