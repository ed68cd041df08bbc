------------------------------ MODULE MCLedger ------------------------------
(***************************************************************************)
(* Ledger for TLC.  Handler goroutines are interchangeable, so the runs    *)
(* that check no liveness reduce by their permutations.                    *)
(***************************************************************************)
EXTENDS Ledger, TLC

WorkerSymmetry == Permutations(Workers)
=============================================================================
