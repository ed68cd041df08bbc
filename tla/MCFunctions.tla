----------------------------- MODULE MCFunctions -----------------------------
(***************************************************************************)
(* The Ledger's pure functions for TLC, each over a table of inputs of its *)
(* own.  Settlement: one channel of eight bits, every amount from nothing  *)
(* to beyond both limits, every balance of the receiver.  Merkle: every    *)
(* sequence of distinct transaction hashes.                                *)
(***************************************************************************)
EXTENDS Settlement, Merkle

CONSTANT Hashes   \* the transaction hashes a block may hold: numbers

ASSUME HashesAssumption == Hashes \subseteq Nat /\ IsFiniteSet(Hashes)

VARIABLE txHashes \* the input, in the order the database returned the rows

MCAmounts          == 0 .. 260
MCSenderBalances   == {100, 255}
MCReceiverBalances == 0 .. 255

\* No settlement: the input is one of Merkle.
Hashing == r = Unsettled

AllInit == /\ \/ Init
              \/ r = Unsettled /\ read = Unsettled /\ saved = Unsettled
           /\ txHashes = << >>

AllNext == \/ ~Hashing /\ Settle /\ UNCHANGED txHashes
           \/ /\ Hashing
              /\ \E h \in Hashes \ ToSet(txHashes) : txHashes' = Append(txHashes, h)
              /\ UNCHANGED vars

AllSpec == AllInit /\ [][AllNext]_<<vars, txHashes>>

\* The tree the code's rules describe, from the top down.  A full node at height d
\* stands for Span(n)[d] of the n leaves; node i of that height exists if one of
\* them does, and where the right child does not exist the left one is there twice.
Span(n) == LET span[d \in 0 .. n] == IF d = 0 THEN 1 ELSE 2 * span[d - 1]
           IN  span

Exists(n, d, i) == i * Span(n)[d] < n

Nodes(leaves) ==
  LET n == Len(leaves)
      tree[d \in 0 .. n] ==
        [i \in {j \in 0 .. n - 1 : Exists(n, d, j)} |->
           IF d = 0 THEN leaves[i + 1]
           ELSE Node(tree[d - 1][2 * i],
                     tree[d - 1][IF Exists(n, d - 1, 2 * i + 1) THEN 2 * i + 1
                                                                ELSE 2 * i])]
  IN  tree

\* Its root is the first node that stands for all leaves.
Height(n) == CHOOSE d \in 0 .. n : /\ ~Exists(n, d, 1)
                                  /\ \A e \in 0 .. d - 1 : Exists(n, e, 1)
DescribedTree(leaves) == Nodes(leaves)[Height(Len(leaves))][0]

\* The leaves are sorted, none is lost, and the level-by-level reduction builds
\* exactly that tree over them, whichever of its levels are odd.
RootIsDescribedTree ==
  txHashes # << >> =>
    LET sorted == Sorted(txHashes)
    IN  /\ ToSet(sorted) = ToSet(txHashes)
        /\ \A i, j \in DOMAIN txHashes : i < j => sorted[i] < sorted[j]
        /\ BuildMerkleRoot(txHashes) = DescribedTree(Leaves(sorted))

\* The root names the set of transactions: the row order does not matter, and
\* adding, dropping or exchanging a transaction always changes it.  ValidateChain
\* relies on both when it recomputes the root from another query.
RootIdentifiesSet ==
  Hashing =>
  \A S \in SUBSET Hashes :
    BuildMerkleRoot(SetToSeq(S)) = BuildMerkleRoot(txHashes)
      <=> S = ToSet(txHashes)
=============================================================================
