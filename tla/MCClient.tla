------------------------------ MODULE MCClient ------------------------------
(***************************************************************************)
(* Client for TLC: the player and the authority that mints for him.        *)
(*                                                                         *)
(* Pages are small so that a chain of three blocks has more than one, and  *)
(* offsets have two bits so that a page number a user types wraps around.  *)
(***************************************************************************)
EXTENDS Client

MCNonces == 0 .. MaxTxs - 1

\* Bounds: questions and signed payloads meet only in the menu and in the tables,
\* and signing looks at no block.  So a behaviour either grows a chain and asks,
\* or signs; and the others commit what the player needs, not every filler.
Others == {j \in DOMAIN txs : txs[j].sender # Me}

AsksOrSigns == \/ signed = << >> /\ Len(txs) < MaxTxs
               \/ chain = << >> /\ at # "query" /\ Cardinality(Others) <= 2
=============================================================================
