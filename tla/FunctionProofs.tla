--------------------------- MODULE FunctionProofs ---------------------------
(***************************************************************************)
(* Theorems about the Ledger's pure functions, for every input: the books  *)
(* balance for every channel width and every mint cap that fits the signed *)
(* half of a channel, and the Merkle root of any number of transactions is *)
(* that of the tree its rules describe and names the set it was built from.*)
(***************************************************************************)
EXTENDS MCFunctions, DataProofs

\* What is saved was computed from an admitted request and the rows read.
SettledInv == /\ r \in Request
              /\ read.sender \in Row /\ read.receiver \in Row
              /\ saved # Unsettled =>
                   /\ WithinLimits(r) /\ Accepts(r, read.sender)
                   /\ saved = Settled(r, read.sender, read.receiver)

\* BooksBalance at every width: the receiver is credited the nearest value the
\* channel can hold and the sender debited exactly the amount, so SubmitTransaction's
\* limits are the ones its conversions need.
THEOREM SettlementExact == Spec => []BooksBalance
<1>1. Init => SettledInv
  <2>1. ASSUME NEW balances \in SUBSET (0 .. MaxToken), NEW row \in Rows(balances)
        PROVE  row \in Row
    <3>1. PICK t \in [Channels -> balances] : row = [tokens |-> t, nonce |-> 0]
      BY <2>1 DEF Rows
    <3>2. t \in [Channels -> 0 .. MaxToken]
      BY <2>1, <3>1
    <3> QED BY <3>1, <3>2 DEF Row
  <2>2. Init => /\ read.sender \in Rows(SenderBalances)
                /\ read.receiver \in Rows(ReceiverBalances)
    BY DEF Init
  <2> QED BY <2>1, <2>2, BalanceAssumption DEF Init, SettledInv
<1>2. SettledInv /\ [Settle]_vars => SettledInv'
  BY DEF SettledInv, Settle, vars
<1>3. SettledInv => BooksBalance
  BY SettlesExactly DEF SettledInv, BooksBalance
<1> QED BY <1>1, <1>2, <1>3, PTL DEF Spec

-----------------------------------------------------------------------------
(* The rows a block is sealed with.                                          *)

\* The rows are the listing of a set of hashes.
RowsInv == /\ txHashes \in Listings(ToSet(txHashes))
           /\ ToSet(txHashes) \subseteq Hashes

\* One more row that is not there yet.
LEMMA OneMoreRow ==
  ASSUME NEW s, s \in Listings(ToSet(s)), NEW h, h \notin ToSet(s)
  PROVE  /\ ToSet(Append(s, h)) = ToSet(s) \cup {h}
         /\ Append(s, h) \in Listings(ToSet(Append(s, h)))
<1> DEFINE S == ToSet(s)
           T == S \cup {h}
           n == Cardinality(S)
           t == Append(s, h)
<1>1. /\ n \in Nat /\ s = [i \in 1 .. n |-> s[i]] /\ DOMAIN s = 1 .. n
      /\ \A i \in 1 .. n : s[i] \in S
      /\ \A i, j \in 1 .. n : s[i] = s[j] => i = j
      /\ \A g \in S : \E i \in 1 .. n : s[i] = g
  <2> HIDE DEF S
  <2> QED BY ListingFacts DEF S
<1> HIDE DEF S, n
<1>2. s \in [1 .. n -> T] /\ h \in T
  BY <1>1
<1>3. s \in Seq(T) /\ Len(s) = n
  BY <1>1, <1>2
<1> HIDE DEF T
<1>4. t = [i \in 1 .. n + 1 |-> IF i <= n THEN s[i] ELSE h]
  BY <1>1, <1>2, <1>3
<1>5. /\ \A i \in 1 .. n : t[i] = s[i]
      /\ t[n + 1] = h /\ DOMAIN t = 1 .. n + 1
      /\ \A i \in 1 .. n + 1 : i \in 1 .. n \/ i = n + 1
      /\ \A i \in 1 .. n : i \in 1 .. n + 1
      /\ n + 1 \in 1 .. n + 1
  BY <1>1, <1>4
<1> HIDE DEF t
<1>6. t \in [1 .. n + 1 -> T]
  <2>1. \A i \in 1 .. n + 1 : t[i] \in T
    BY <1>1, <1>5 DEF T
  <2>2. t = [i \in 1 .. n + 1 |-> t[i]]
    BY <1>4
  <2> QED BY <2>1, <2>2
<1>7. h \notin S
  BY DEF S
<1>8. \A i, j \in 1 .. n + 1 : t[i] = t[j] => i = j
  BY <1>1, <1>5, <1>7
<1>9. \A g \in T : \E i \in 1 .. n + 1 : t[i] = g
  BY <1>1, <1>5 DEF T
<1>10. t \in Bijection(1 .. n + 1, T)
  BY <1>6, <1>8, <1>9 DEF Bijection, Injection, Surjection, IsInjective
<1>11. ToSet(t) = T
  <2>1. \A i \in 1 .. n + 1 : t[i] \in T
    BY <1>6
  <2> QED BY <1>5, <1>9, <2>1 DEF ToSet
<1>12. n + 1 \in Nat
  BY <1>1
<1>13. t \in Listings(T)
  BY <1>10, <1>12 DEF Listings
<1> QED BY <1>11, <1>13 DEF t, T, S

LEMMA RowsAreListed == AllSpec => []RowsInv
<1>1. AllInit => RowsInv
  <2>1. ToSet(<< >>) = {} /\ << >> \in [1 .. 0 -> {}]
    BY DEF ToSet
  <2>2. << >> \in Bijection(1 .. 0, {})
    BY <2>1 DEF Bijection, Injection, Surjection, IsInjective
  <2>3. << >> \in Listings({})
    BY <2>2 DEF Listings
  <2> QED BY <2>1, <2>3 DEF AllInit, RowsInv
<1>2. RowsInv /\ [AllNext]_<<vars, txHashes>> => RowsInv'
  <2> SUFFICES ASSUME RowsInv, [AllNext]_<<vars, txHashes>> PROVE RowsInv'
    OBVIOUS
  <2>1. CASE txHashes' = txHashes
    BY <2>1 DEF RowsInv
  <2>2. ASSUME NEW h \in Hashes \ ToSet(txHashes), txHashes' = Append(txHashes, h)
        PROVE  RowsInv'
    BY <2>2, OneMoreRow DEF RowsInv
  <2> QED BY <2>1, <2>2 DEF AllNext
<1> QED BY <1>1, <1>2, PTL DEF AllSpec

\* RootIdentifiesSet for any hashes: whatever a block holds, the root that
\* ValidateChain computes again from another query, in another order, is the one
\* in the block exactly if it is over the same transactions.
THEOREM RootIdentifies == AllSpec => []RootIdentifiesSet
<1>1. RowsInv => RootIdentifiesSet
  <2> SUFFICES ASSUME RowsInv, NEW S \in SUBSET Hashes
               PROVE  BuildMerkleRoot(SetToSeq(S)) = BuildMerkleRoot(txHashes)
                        <=> S = ToSet(txHashes)
    BY DEF RootIdentifiesSet
  <2>1. IsFiniteSet(S) /\ S \in SUBSET Nat
    BY HashesAssumption, FS_Subset
  <2>2. SetToSeq(S) \in Listings(S)
    BY <2>1, SetToSeqLists
  <2>3. ToSet(txHashes) \in SUBSET Nat /\ txHashes \in Listings(ToSet(txHashes))
    BY HashesAssumption DEF RowsInv
  <2> QED BY <2>1, <2>2, <2>3, RootNamesSet
<1> QED BY <1>1, RowsAreListed, PTL

-----------------------------------------------------------------------------
(* The reference tree.  Its two functions are recursive: each is shown to    *)
(* exist before anything can be said of it.                                  *)

SpanOf(f, n) == f = [d \in 0 .. n |-> IF d = 0 THEN 1 ELSE 2 * f[d - 1]]

LEMMA SpansExist == \A n \in Nat : \E f : SpanOf(f, n)
<1> DEFINE T == {n \in Nat : \E f : SpanOf(f, n)}
<1>1. 0 \in T
  <2> DEFINE f == [d \in 0 .. 0 |-> 1]
  <2>1. f = [d \in 0 .. 0 |-> IF d = 0 THEN 1 ELSE 2 * f[d - 1]]
    OBVIOUS
  <2> QED BY <2>1 DEF SpanOf
<1>2. ASSUME NEW n \in Nat, n \in T PROVE n + 1 \in T
  <2>1. PICK f : f = [d \in 0 .. n |-> IF d = 0 THEN 1 ELSE 2 * f[d - 1]]
    BY <1>2 DEF SpanOf
  <2> DEFINE g == [d \in 0 .. n + 1 |-> IF d <= n THEN f[d] ELSE 2 * f[n]]
  <2>2. ASSUME NEW d \in 0 .. n + 1
        PROVE  g[d] = IF d = 0 THEN 1 ELSE 2 * g[d - 1]
    <3>1. CASE d = 0
      BY <2>1, <3>1
    <3>2. CASE d \in 1 .. n
      <4>1. d - 1 \in 0 .. n /\ d \in 0 .. n /\ g[d] = f[d] /\ g[d - 1] = f[d - 1]
        BY <3>2
      <4>2. f[d] = 2 * f[d - 1]
        BY <2>1, <3>2, <4>1
      <4> QED BY <3>2, <4>1, <4>2
    <3>3. CASE d = n + 1
      BY <3>3
    <3> QED BY <3>1, <3>2, <3>3
  <2>3. g = [d \in 0 .. n + 1 |-> g[d]]
    OBVIOUS
  <2> HIDE DEF g
  <2>4. SpanOf(g, n + 1)
    BY <2>2, <2>3 DEF SpanOf
  <2> QED BY <2>4
<1> HIDE DEF T
<1>3. \A n \in Nat : n \in T
  BY <1>1, <1>2, SetInduction
<1> QED BY <1>3 DEF T

\* A node stands for one leaf or for twice what the nodes below it stand for.
LEMMA SpanDoubles ==
  ASSUME NEW n \in Nat
  PROVE  /\ Span(n)[0] = 1
         /\ \A d \in 0 .. n - 1 : Span(n)[d + 1] = 2 * Span(n)[d]
         /\ \A d \in 0 .. n : Span(n)[d] \in Nat \ {0}
<1> DEFINE f == Span(n)
<1>1. f = [d \in 0 .. n |-> IF d = 0 THEN 1 ELSE 2 * f[d - 1]]
  <2>1. Span(n) = CHOOSE g : SpanOf(g, n)
    BY DEF Span, SpanOf
  <2>2. SpanOf(Span(n), n)
    BY <2>1, SpansExist
  <2> QED BY <2>2 DEF SpanOf
<1> HIDE DEF f
<1>2. f[0] = 1
  BY <1>1
<1>3. ASSUME NEW d \in 0 .. n - 1 PROVE f[d + 1] = 2 * f[d]
  <2>1. d + 1 \in 0 .. n /\ d + 1 # 0 /\ d + 1 - 1 = d
    OBVIOUS
  <2> QED BY <1>1, <2>1
<1> DEFINE T == {d \in Nat : d <= n => f[d] \in Nat \ {0}}
<1>4. 0 \in T
  BY <1>2
<1>5. ASSUME NEW d \in Nat, d \in T PROVE d + 1 \in T
  <2> SUFFICES ASSUME d + 1 <= n PROVE f[d + 1] \in Nat \ {0}
    OBVIOUS
  <2>1. d \in 0 .. n - 1 /\ f[d] \in Nat \ {0}
    BY <1>5
  <2>2. f[d + 1] = 2 * f[d]
    BY <1>3, <2>1
  <2> QED BY <2>1, <2>2
<1> HIDE DEF T
<1>6. \A d \in Nat : d \in T
  BY <1>4, <1>5, SetInduction
<1>7. \A d \in 0 .. n : f[d] \in Nat \ {0}
  BY <1>6 DEF T
<1> QED BY <1>2, <1>3, <1>7 DEF f

\* The nodes of height d over leaves, from those one below.
NodeRow(leaves, d, below) ==
  [i \in {j \in 0 .. Len(leaves) - 1 : Exists(Len(leaves), d, j)} |->
     IF d = 0 THEN leaves[i + 1]
     ELSE Node(below[2 * i],
               below[IF Exists(Len(leaves), d - 1, 2 * i + 1) THEN 2 * i + 1
                                                             ELSE 2 * i])]

NodesOf(f, leaves, n) == f = [d \in 0 .. n |-> NodeRow(leaves, d, f[d - 1])]

LEMMA NodesExist ==
  ASSUME NEW leaves
  PROVE  \A n \in Nat : \E f : NodesOf(f, leaves, n)
<1> DEFINE T == {n \in Nat : \E f : NodesOf(f, leaves, n)}
<1>1. \A x, y : NodeRow(leaves, 0, x) = NodeRow(leaves, 0, y)
  BY DEF NodeRow
<1>2. 0 \in T
  <2> DEFINE f == [d \in 0 .. 0 |-> NodeRow(leaves, 0, << >>)]
  <2>1. \A d \in 0 .. 0 : d = 0
    OBVIOUS
  <2>2. f = [d \in 0 .. 0 |-> NodeRow(leaves, d, f[d - 1])]
    BY <1>1, <2>1
  <2> QED BY <2>2 DEF NodesOf
<1>3. ASSUME NEW n \in Nat, n \in T PROVE n + 1 \in T
  <2>1. PICK f : f = [d \in 0 .. n |-> NodeRow(leaves, d, f[d - 1])]
    BY <1>3 DEF NodesOf
  <2> DEFINE g == [d \in 0 .. n + 1 |-> IF d <= n THEN f[d]
                                       ELSE NodeRow(leaves, n + 1, f[n])]
  <2>2. ASSUME NEW d \in 0 .. n + 1 PROVE g[d] = NodeRow(leaves, d, g[d - 1])
    <3>1. CASE d = 0
      <4>1. g[0] = f[0] /\ f[0] = NodeRow(leaves, 0, f[0 - 1])
        BY <2>1
      <4> QED BY <1>1, <3>1, <4>1
    <3>2. CASE d \in 1 .. n
      <4>1. d - 1 \in 0 .. n /\ d \in 0 .. n /\ g[d] = f[d] /\ g[d - 1] = f[d - 1]
        BY <3>2
      <4>2. f[d] = NodeRow(leaves, d, f[d - 1])
        BY <2>1, <4>1
      <4> QED BY <4>1, <4>2
    <3>3. CASE d = n + 1
      <4>1. g[n + 1] = NodeRow(leaves, n + 1, f[n]) /\ n + 1 - 1 = n /\ g[n] = f[n]
        OBVIOUS
      <4> QED BY <3>3, <4>1
    <3> QED BY <3>1, <3>2, <3>3
  <2>3. g = [d \in 0 .. n + 1 |-> g[d]]
    OBVIOUS
  <2> HIDE DEF g
  <2>4. NodesOf(g, leaves, n + 1)
    BY <2>2, <2>3 DEF NodesOf
  <2> QED BY <2>4
<1> HIDE DEF T
<1>4. \A n \in Nat : n \in T
  BY <1>2, <1>3, SetInduction
<1> QED BY <1>4 DEF T

LEMMA NodesStep ==
  ASSUME NEW leaves, Len(leaves) \in Nat, NEW d \in 0 .. Len(leaves)
  PROVE  Nodes(leaves)[d] = NodeRow(leaves, d, Nodes(leaves)[d - 1])
<1> DEFINE n == Len(leaves)
           f == Nodes(leaves)
<1>1. Nodes(leaves) = CHOOSE g : NodesOf(g, leaves, n)
  BY DEF Nodes, NodesOf, NodeRow
<1>2. NodesOf(f, leaves, n)
  BY <1>1, NodesExist
<1>3. f = [e \in 0 .. n |-> NodeRow(leaves, e, f[e - 1])]
  BY <1>2 DEF NodesOf
<1> HIDE DEF f
<1> QED BY <1>3 DEF f

\* The level that the p-th pass leaves is the row of height p: as many nodes as
\* there exist, in the same order.
Described(leaves, p, k) ==
  LET n == Len(leaves)
  IN  /\ Distinct(Levels(leaves)[p], k)
      /\ \A i \in Nat : i < k <=> Exists(n, p, i)
      /\ \A i \in 0 .. k - 1 : Nodes(leaves)[p][i] = Levels(leaves)[p][i + 1]

\* Nobody has more nodes than leaves.
LEMMA NodesBound ==
  ASSUME NEW n \in Nat, NEW d \in 0 .. n, NEW i \in Nat, Exists(n, d, i)
  PROVE  i \in 0 .. n - 1
<1>1. Span(n)[d] \in Nat \ {0}
  BY SpanDoubles
<1> DEFINE x == Span(n)[d]
<1>2. i * x < n
  BY DEF Exists
<1> HIDE DEF x
<1>3. x \in Nat \ {0}
  BY <1>1 DEF x
<1>4. i <= i * x
  BY <1>3
<1> QED BY <1>2, <1>3, <1>4

LEMMA DescribedStart ==
  ASSUME NEW n \in Nat \ {0}, NEW leaves, Distinct(leaves, n)
  PROVE  Described(leaves, 0, n)
<1>1. Len(leaves) = n /\ Levels(leaves)[0] = leaves
  BY ListLength, LevelsStep DEF Distinct
<1>2. \A i \in Nat : i < n <=> Exists(n, 0, i)
  BY SpanDoubles DEF Exists
<1>3. Nodes(leaves)[0] = NodeRow(leaves, 0, Nodes(leaves)[0 - 1])
  BY <1>1, NodesStep
<1>4. ASSUME NEW i \in 0 .. n - 1 PROVE Nodes(leaves)[0][i] = leaves[i + 1]
  <2>1. i \in {j \in 0 .. n - 1 : Exists(n, 0, j)}
    BY <1>2
  <2> QED BY <1>1, <1>3, <2>1 DEF NodeRow
<1> QED BY <1>1, <1>2, <1>4 DEF Described

LEMMA DescribedPass ==
  ASSUME NEW n \in Nat \ {0}, NEW leaves, Distinct(leaves, n), NEW p \in 0 .. n - 1,
         NEW k \in Nat \ {0, 1}, Described(leaves, p, k),
         Levels(leaves)[p + 1] = Reduce(Levels(leaves)[p])
  PROVE  Described(leaves, p + 1, Halved(k))
<1> DEFINE h == Halved(k)
           level == Levels(leaves)[p]
           row   == Nodes(leaves)[p]
           x     == Span(n)[p]
<1>1. Len(leaves) = n
  BY ListLength DEF Distinct
<1>2. /\ Distinct(level, k) /\ \A i \in Nat : i < k <=> Exists(n, p, i)
      /\ \A i \in 0 .. k - 1 : row[i] = level[i + 1]
  BY <1>1 DEF Described
<1>3. x \in Nat \ {0} /\ Span(n)[p + 1] = 2 * x
  BY SpanDoubles
<1>4. h \in Nat \ {0} /\ \A i \in Nat : i < h <=> 2 * i < k
  BY DEF Halved
<1> HIDE DEF h, level, row
<1>5. ASSUME NEW i \in Nat PROVE Exists(n, p + 1, i) <=> Exists(n, p, 2 * i)
  <2> HIDE DEF x
  <2>1. i * (2 * x) = (2 * i) * x
    BY <1>3
  <2>2. i * Span(n)[p + 1] = (2 * i) * Span(n)[p]
    BY <1>3, <2>1 DEF x
  <2> QED BY <2>2 DEF Exists
<1>6. \A i \in Nat : i < h <=> Exists(n, p + 1, i)
  <2>1. \A i \in Nat : 2 * i \in Nat
    OBVIOUS
  <2> QED BY <1>2, <1>4, <1>5, <2>1
<1>7. Reduce(level) = [i \in 1 .. h |->
                         Node(level[2 * i - 1], level[IF 2 * i <= k THEN 2 * i ELSE k])]
  BY <1>2, ReduceList DEF Distinct, h
<1>8. Distinct(Reduce(level), h)
  BY <1>2, ReduceDistinct DEF h
<1>9. Nodes(leaves)[p + 1] = NodeRow(leaves, p + 1, row)
  <2>1. p + 1 \in 0 .. n /\ p + 1 - 1 = p
    OBVIOUS
  <2>2. \A d \in 0 .. n : Nodes(leaves)[d] = NodeRow(leaves, d, Nodes(leaves)[d - 1])
    BY <1>1, NodesStep
  <2> QED BY <2>1, <2>2 DEF row
<1>10. ASSUME NEW i \in 0 .. h - 1
       PROVE  Nodes(leaves)[p + 1][i] = Reduce(level)[i + 1]
  <2>1. i \in Nat /\ i < h /\ i + 1 \in 1 .. h /\ 2 * i < k /\ p + 1 \in 0 .. n
    BY <1>4
  <2>2. i \in {j \in 0 .. n - 1 : Exists(n, p + 1, j)}
    BY <1>6, <2>1, NodesBound
  <2>3. Nodes(leaves)[p + 1][i]
          = Node(row[2 * i], row[IF Exists(n, p, 2 * i + 1) THEN 2 * i + 1 ELSE 2 * i])
    <3>1. p + 1 # 0 /\ p + 1 - 1 = p
      OBVIOUS
    <3> QED BY <1>1, <1>9, <2>2, <3>1 DEF NodeRow
  <2>4. Reduce(level)[i + 1]
          = Node(level[2 * (i + 1) - 1],
                 level[IF 2 * (i + 1) <= k THEN 2 * (i + 1) ELSE k])
    BY <1>7, <2>1
  <2>5. row[2 * i] = level[2 * (i + 1) - 1]
    <3>1. 2 * i \in 0 .. k - 1 /\ 2 * i + 1 = 2 * (i + 1) - 1
      BY <2>1
    <3> QED BY <1>2, <3>1
  <2>6. CASE 2 * i + 1 < k
    <3>1. /\ 2 * i + 1 \in 0 .. k - 1 /\ 2 * i + 1 \in Nat
          /\ 2 * i + 1 + 1 = 2 * (i + 1) /\ 2 * (i + 1) <= k
      BY <2>1, <2>6
    <3>2. row[2 * i + 1] = level[2 * (i + 1)] /\ Exists(n, p, 2 * i + 1)
      BY <1>2, <2>6, <3>1
    <3> QED BY <2>3, <2>4, <2>5, <3>1, <3>2
  <2>7. CASE ~(2 * i + 1 < k)
    <3>1. k = 2 * i + 1 /\ k = 2 * (i + 1) - 1 /\ ~(2 * (i + 1) <= k)
          /\ 2 * i + 1 \in Nat
      BY <2>1, <2>7
    <3>2. ~Exists(n, p, 2 * i + 1)
      BY <1>2, <2>7, <3>1
    <3> QED BY <2>3, <2>4, <2>5, <3>1, <3>2
  <2> QED BY <2>6, <2>7
<1>11. Levels(leaves)[p + 1] = Reduce(level)
  BY DEF level
<1> QED BY <1>1, <1>6, <1>8, <1>10, <1>11 DEF Described, h

\* The root of the reduction is the root of the described tree.
LEMMA RootDescribed ==
  ASSUME NEW n \in Nat \ {0}, NEW leaves, Distinct(leaves, n)
  PROVE  Levels(leaves)[n][1] = DescribedTree(leaves)
<1>1. PICK top \in 0 .. n :
        Ends(leaves, top) /\ Levels(leaves)[n][1] = Levels(leaves)[top][1]
  BY TopLevel
<1>2. Len(leaves) = n
  BY ListLength DEF Distinct
<1> DEFINE T == {p \in Nat : p <= top => \E k \in Nat \ {0} : Described(leaves, p, k)}
<1>3. 0 \in T
  BY DescribedStart
<1>4. \A p \in Nat, k, l \in Nat \ {0} :
        Described(leaves, p, k) /\ Distinct(Levels(leaves)[p], l) => k = l
  <2> SUFFICES ASSUME NEW p \in Nat, NEW k \in Nat \ {0}, NEW l \in Nat \ {0},
                      Described(leaves, p, k), Distinct(Levels(leaves)[p], l)
               PROVE  k = l
    OBVIOUS
  <2>1. Len(Levels(leaves)[p]) = k /\ Len(Levels(leaves)[p]) = l
    BY ListLength DEF Described, Distinct
  <2> QED BY <2>1
<1>5. ASSUME NEW p \in Nat, p \in T PROVE p + 1 \in T
  <2> SUFFICES ASSUME p + 1 <= top
               PROVE  \E k \in Nat \ {0} : Described(leaves, p + 1, k)
    OBVIOUS
  <2>1. p \in 0 .. top - 1 /\ p \in 0 .. n - 1
    OBVIOUS
  <2>2. PICK k \in Nat \ {0} : Described(leaves, p, k)
    BY <1>5
  <2>3. PICK l \in Nat \ {0, 1} : Distinct(Levels(leaves)[p], l)
    BY <1>1, <2>1 DEF Ends
  <2>4. k = l
    BY <1>4, <2>2, <2>3
  <2>5. Levels(leaves)[p + 1] = Reduce(Levels(leaves)[p])
    BY <1>1, <2>1 DEF Ends
  <2>6. Described(leaves, p + 1, Halved(k)) /\ Halved(k) \in Nat \ {0}
    BY <2>1, <2>2, <2>3, <2>4, <2>5, DescribedPass, HalfIsLess
  <2> QED BY <2>6
<1> HIDE DEF T
<1>6. \A p \in Nat : p \in T
  BY <1>3, <1>5, SetInduction
<1>7. ASSUME NEW e \in 0 .. top - 1 PROVE Exists(n, e, 1)
  <2>1. PICK k \in Nat \ {0} : Described(leaves, e, k)
    BY <1>6 DEF T
  <2>2. PICK l \in Nat \ {0, 1} : Distinct(Levels(leaves)[e], l)
    BY <1>1 DEF Ends
  <2>3. k = l /\ 1 < k
    BY <1>4, <2>1, <2>2
  <2> QED BY <1>2, <2>1, <2>3 DEF Described
<1>8. Described(leaves, top, 1)
  <2>1. PICK k \in Nat \ {0} : Described(leaves, top, k)
    BY <1>6 DEF T
  <2>2. k = 1
    BY <1>1, <1>4, <2>1 DEF Ends
  <2> QED BY <2>1, <2>2
<1>9. ~Exists(n, top, 1) /\ Nodes(leaves)[top][0] = Levels(leaves)[top][1]
  <2>1. ~(1 < 1) /\ 0 \in 0 .. 1 - 1 /\ 0 + 1 = 1
    OBVIOUS
  <2> QED BY <1>2, <1>8, <2>1 DEF Described
<1>10. Height(n) = top
  <2> DEFINE Top(d) == /\ ~Exists(n, d, 1)
                       /\ \A e \in 0 .. d - 1 : Exists(n, e, 1)
  <2>1. Top(top)
    BY <1>7, <1>9
  <2>2. ASSUME NEW d \in 0 .. n, Top(d) PROVE d = top
    <3>1. CASE d < top
      <4>1. d \in 0 .. top - 1
        BY <3>1
      <4> QED BY <1>7, <2>2, <4>1
    <3>2. CASE top < d
      <4>1. top \in 0 .. d - 1
        BY <3>2
      <4> QED BY <1>9, <2>2, <4>1
    <3> QED BY <3>1, <3>2
  <2>3. Height(n) = CHOOSE d \in 0 .. n : Top(d)
    BY DEF Height
  <2> HIDE DEF Top
  <2> QED BY <2>1, <2>2, <2>3
<1> QED BY <1>1, <1>2, <1>9, <1>10 DEF DescribedTree

\* RootIsDescribedTree for any number of transactions: sorting loses none, and
\* merkle.go's level-by-level reduction, which repeats the last node of every odd
\* level, builds the tree described from the top down.
THEOREM TreeIsDescribed == AllSpec => []RootIsDescribedTree
<1>1. RowsInv => RootIsDescribedTree
  <2> SUFFICES ASSUME RowsInv, txHashes # << >>
               PROVE  LET sorted == Sorted(txHashes)
                      IN  /\ ToSet(sorted) = ToSet(txHashes)
                          /\ \A i, j \in DOMAIN txHashes :
                               i < j => sorted[i] < sorted[j]
                          /\ BuildMerkleRoot(txHashes) = DescribedTree(Leaves(sorted))
    BY DEF RootIsDescribedTree
  <2> DEFINE S == ToSet(txHashes)
             n == Cardinality(S)
             a == Sorted(txHashes)
  <2>1. S \in SUBSET Nat /\ txHashes \in Listings(S)
    BY HashesAssumption DEF RowsInv
  <2> HIDE DEF S
  <2>2. S # {} /\ n \in Nat \ {0} /\ BuildMerkleRoot(txHashes) = Levels(Leaves(a))[n][1]
    BY <2>1, RootOfListing
  <2>3. DOMAIN txHashes = 1 .. n
    BY <2>1, ListingFacts
  <2>4. /\ Distinct(a, n) /\ {a[k] : k \in 1 .. n} = S
        /\ \A j, k \in 1 .. n : j < k => a[j] < a[k]
    BY <2>1, SortedIncreases
  <2> HIDE DEF n
  <2>5. ToSet(a) = S
    BY <2>2, <2>4, ListLength DEF ToSet, Distinct
  <2>6. Distinct(Leaves(a), n)
    BY <2>2, <2>4, LeavesAreDistinct
  <2>7. Levels(Leaves(a))[n][1] = DescribedTree(Leaves(a))
    BY <2>2, <2>6, RootDescribed
  <2> QED BY <2>2, <2>3, <2>4, <2>5, <2>7 DEF S
<1> QED BY <1>1, RowsAreListed, PTL
=============================================================================
