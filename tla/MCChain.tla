------------------------------- MODULE MCChain -------------------------------
(***************************************************************************)
(* Chain for TLC.  Transaction hashes are numbers, which the Merkle root   *)
(* orders, so there is no symmetry to reduce by; with three of them a      *)
(* level of the tree is odd.                                               *)
(***************************************************************************)
EXTENDS Chain

ThreeTxs == 1 .. 3
=============================================================================
