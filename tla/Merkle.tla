------------------------------- MODULE Merkle -------------------------------
(***************************************************************************)
(* BuildMerkleRoot of internal/domain/merkle/merkle.go.                    *)
(*                                                                         *)
(* SHA-256 is taken to be collision free, so a digest is the term that was *)
(* hashed: << >> for the empty input, <<h>> for a leaf, <<l, r>> for an    *)
(* inner node.  A leaf is never a node: the one hashes 64 characters of    *)
(* hexadecimal text, the other 64 bytes of two digests.  A transaction hash*)
(* is a number, which orders like the strings that the code sorts.         *)
(***************************************************************************)
EXTENDS Integers, Sequences, SequencesExt, FiniteSets

EmptyRoot  == << >>
Leaf(h)    == <<h>>
Node(l, r) == <<l, r>>

\* Mutant of Reduce: the last node of an odd level is dropped, not repeated.
ReduceDropping(level) ==
  [i \in 1 .. Len(level) \div 2 |-> Node(level[2 * i - 1], level[2 * i])]

\* One pass of the loop: an odd level repeats its last node, then neighbours
\* are hashed together.
Reduce(level) ==
  LET even == IF Len(level) % 2 = 0 THEN level ELSE Append(level, Last(level))
  IN  [i \in 1 .. Len(even) \div 2 |-> Node(even[2 * i - 1], even[2 * i])]

\* Mutant of Sorted: the rows stay in the order the database returned them.
SortedNot(txHashes) == txHashes

\* sort.Strings.  A hash goes to the place that counts those up to it; equal ones
\* keep their order.
Place(txHashes, i) ==
  Cardinality({j \in DOMAIN txHashes :
                 \/ txHashes[j] < txHashes[i]
                 \/ txHashes[j] = txHashes[i] /\ j <= i})

Sorted(txHashes) ==
  [n \in DOMAIN txHashes |->
     txHashes[CHOOSE i \in DOMAIN txHashes : Place(txHashes, i) = n]]

Leaves(txHashes) == [i \in DOMAIN txHashes |-> Leaf(txHashes[i])]

\* The loop runs while a level has more than one node.
Pass(level) == IF Len(level) > 1 THEN Reduce(level) ELSE level

Levels(leaves) ==
  LET level[pass \in 0 .. Len(leaves)] ==
        IF pass = 0 THEN leaves ELSE Pass(level[pass - 1])
  IN  level

BuildMerkleRoot(txHashes) ==
  IF txHashes = << >> THEN EmptyRoot
  ELSE LET levels == Levels(Leaves(Sorted(txHashes)))
       IN  levels[Len(txHashes)][1]
=============================================================================
