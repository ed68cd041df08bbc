---------------------------- MODULE MCChallenges ----------------------------
(***************************************************************************)
(* Challenges for TLC: calls and challenge ids are interchangeable.        *)
(***************************************************************************)
EXTENDS Challenges, TLC

Symmetry == Permutations(Calls) \cup Permutations(ChallengeIds)
=============================================================================
