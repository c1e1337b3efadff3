------------------------------ MODULE MCChatJob ------------------------------
(* Instances of ChatJob for TLC: a few jobs of one user on one provider, so *)
(* that they compete for one lock, or of one user on two providers.         *)
EXTENDS ChatJob, TLC

CONSTANTS j1, j2, j3, s1, s2, k1, k2

OneKey == [j \in Jobs |-> k1]
TwoKeys == [j \in Jobs |-> IF j = j1 THEN k1 ELSE k2]

SlotSymmetry == Permutations(Workers)
AllSymmetry == Permutations(Workers) \cup Permutations(Jobs)
=============================================================================
