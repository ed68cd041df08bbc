---------------------------- MODULE AbstractChain ----------------------------
(***************************************************************************)
(* What the block chain promises: the genesis block is empty and comes     *)
(* first, every block takes some of the transactions that pend at the      *)
(* instant it appears, and what is in a block stays there.                 *)
(***************************************************************************)
EXTENDS Integers, Sequences

CONSTANT Txs       \* transactions

VARIABLES chain,   \* the set of transactions of each block, the genesis first
          pending  \* the transactions that are in no block yet

vars == <<chain, pending>>

Sealed == UNION {chain[i] : i \in DOMAIN chain}

Init == chain = << >> /\ pending = {}

Genesis == /\ chain = << >>
           /\ chain' = << {} >>
           /\ UNCHANGED pending

Arrive(t) == /\ t \notin pending \cup Sealed
             /\ pending' = pending \cup {t}
             /\ UNCHANGED chain

Seal(block) == /\ chain # << >>
               /\ block \subseteq pending
               /\ chain' = Append(chain, block)
               /\ pending' = pending \ block

Next == \/ Genesis
        \/ \E t \in Txs : Arrive(t)
        \/ \E block \in SUBSET Txs : Seal(block)

Spec == Init /\ [][Next]_vars
=============================================================================
