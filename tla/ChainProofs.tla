---------------------------- MODULE ChainProofs ----------------------------
(***************************************************************************)
(* Theorems about Chain, for every finite set of transactions and chains   *)
(* of any length.  Of the Merkle root they use one fact, RootNamesSet of   *)
(* DataProofs: it is a function of the set of transactions, and one to one.*)
(* They mention no constant of LedgerData, which DataProofs brings along.  *)
(***************************************************************************)
EXTENDS Chain, DataProofs

\* The committed chain passes its own validation once the number of its first row is
\* the one it was hashed with.
IntactBlock(i) ==
  /\ blocks[i].hash = <<IF i = 1 THEN 0 ELSE blocks[i].height,
                        blocks[i].prevHash, blocks[i].merkleRoot>>
  /\ blocks[i].prevHash = IF i = 1 THEN GenesisBlockPrevHash ELSE blocks[i - 1].hash
  /\ blocks[i].merkleRoot = TxsRoot(TransactionHashesByBlock(blocks[i].height))

Intact == /\ blocks # << >> => blocks[1] = StoredGenesis
          /\ \A i \in DOMAIN blocks : IntactBlock(i)

\* The three sequences are sequences, of whatever.
Sequential == /\ \E S : blocks \in Seq(S)
              /\ \E S : loaded \in Seq(S)
              /\ \E S : hashesAt \in Seq(S)

TxTyped == tx = [pending |-> tx.pending, latest |-> tx.latest,
                 block |-> tx.block, sealed |-> tx.sealed]

ChainInv == Sequential /\ TxTyped /\ TypeOK /\ Consistent /\ Intact
              /\ BlamesGenesisAlone

\* What Append does to the length and the elements of a sequence.
LEMMA Appended ==
  ASSUME NEW S, NEW s \in Seq(S), NEW e
  PROVE  /\ Append(s, e) \in Seq(S \cup {e})
         /\ Len(s) \in Nat /\ Len(Append(s, e)) = Len(s) + 1
         /\ DOMAIN s = 1 .. Len(s) /\ DOMAIN Append(s, e) = 1 .. Len(s) + 1
         /\ \A i \in 1 .. Len(s) : Append(s, e)[i] = s[i]
         /\ Append(s, e)[Len(s) + 1] = e
<1> DEFINE T == S \cup {e}
<1>1. s \in Seq(T) /\ e \in T
  OBVIOUS
<1> HIDE DEF T
<1>2. Append(s, e) \in Seq(T)
  BY <1>1
<1>3. /\ Len(s) \in Nat /\ Len(Append(s, e)) = Len(s) + 1
      /\ DOMAIN s = 1 .. Len(s) /\ DOMAIN Append(s, e) = 1 .. Len(s) + 1
      /\ \A i \in 1 .. Len(s) : Append(s, e)[i] = s[i]
      /\ Append(s, e)[Len(s) + 1] = e
  BY <1>1, <1>2
<1> QED BY <1>2, <1>3 DEF T

\* The last element of a sequence that has one.
LEMMA LastElement ==
  ASSUME NEW s, \E S : s \in Seq(S), s # << >>
  PROVE  Len(s) \in Nat \ {0} /\ Last(s) = s[Len(s)] /\ Len(s) \in DOMAIN s
  BY DEF Last

\* A block just mined carries its own hash.
LEMMA MinedBlock ==
  ASSUME NEW prev, NEW txs
  PROVE  LET b == NextBlock(prev, txs)
         IN  /\ b.height = prev.height + 1 /\ b.prevHash = prev.hash
             /\ b.merkleRoot = TxsRoot(txs) /\ b.hash = ComputeBlockHash(b)
  BY DEF NextBlock, Mine, ComputeBlockHash

\* The row of the genesis block, field by field.
LEMMA GenesisBlock ==
  /\ StoredGenesis.height = FirstHeight
  /\ StoredGenesis.prevHash = GenesisBlockPrevHash
  /\ StoredGenesis.merkleRoot = TxsRoot({})
  /\ StoredGenesis.hash = <<0, GenesisBlockPrevHash, TxsRoot({})>>
  /\ [StoredGenesis EXCEPT !.height = 0] = Genesis
  /\ Genesis.height = 0 /\ Genesis.prevHash = GenesisBlockPrevHash
  /\ Genesis.merkleRoot = TxsRoot({}) /\ Genesis.hash = StoredGenesis.hash
<1> DEFINE root == TxsRoot({})
           hash == <<0, GenesisBlockPrevHash, root>>
<1> HIDE DEF root, hash
<1>1. Genesis = [height |-> 0, prevHash |-> GenesisBlockPrevHash,
                 merkleRoot |-> root, hash |-> hash]
  BY DEF Genesis, Mine, ComputeBlockHash, root, hash
<1>2. StoredGenesis = [height |-> FirstHeight, prevHash |-> GenesisBlockPrevHash,
                       merkleRoot |-> root, hash |-> hash]
  BY <1>1 DEF StoredGenesis
<1> QED BY <1>1, <1>2 DEF root, hash

\* Committing a seal adds the new block at the next height and puts exactly the
\* transactions it was computed from there.
LEMMA SealEffect ==
  ASSUME ChainInv, CommitSeal
  PROVE  LET n == Len(blocks)
             b == tx.block
         IN  /\ n \in Nat \ {0} /\ blocks' = Append(blocks, b)
             /\ b.height = FirstHeight + n /\ b.prevHash = blocks[n].hash
             /\ b.merkleRoot = TxsRoot(tx.sealed) /\ b.hash = ComputeBlockHash(b)
             /\ \A t \in Txs : height'[t] = IF t \in tx.sealed THEN FirstHeight + n
                                                             ELSE height[t]
             /\ tx.sealed \subseteq PendingTransactions
<1>1. /\ blocks # << >> /\ tx.latest = Last(blocks)
      /\ tx.block = NextBlock(tx.latest, tx.pending) /\ tx.sealed = tx.pending
      /\ tx.pending \subseteq PendingTransactions
  BY DEF ChainInv, Consistent, SealOK, CommitSeal, Sealing
<1>2. Len(blocks) \in Nat \ {0} /\ tx.latest = blocks[Len(blocks)]
      /\ blocks[Len(blocks)].height = FirstHeight + Len(blocks) - 1
  BY <1>1, LastElement DEF ChainInv, Sequential, TypeOK
<1> QED BY <1>1, <1>2, MinedBlock, FirstHeightAssumption DEF CommitSeal

\* The transactions of the block at height h after the step.
HashesAfter(h) == {t \in Txs : height'[t] = h}

\* The heights of the blocks, which only pending transactions do not have.
LEMMA Heights ==
  ASSUME ChainInv
  PROVE  /\ FirstHeight \in Nat \ {0} /\ Len(blocks) \in Nat
         /\ DOMAIN blocks = 1 .. Len(blocks)
         /\ \A i \in DOMAIN blocks : blocks[i].height = FirstHeight + i - 1
         /\ height \in [Txs -> {-2, -1} \cup FirstHeight .. FirstHeight + Len(blocks) - 1]
  BY FirstHeightAssumption DEF ChainInv, TypeOK, Sequential, Absent, Unsealed

\* A commit leaves every earlier block its own transactions.
LEMMA SealedStay ==
  ASSUME ChainInv, CommitSeal
  PROVE  /\ \A i \in DOMAIN blocks : HashesAfter(blocks[i].height)
                                        = TransactionHashesByBlock(blocks[i].height)
         /\ HashesAfter(FirstHeight + Len(blocks)) = tx.sealed
<1> DEFINE top == FirstHeight + Len(blocks)
<1>1. /\ \A t \in Txs : height'[t] = IF t \in tx.sealed THEN top ELSE height[t]
      /\ tx.sealed \subseteq PendingTransactions
  BY SealEffect
<1>2. \A t \in tx.sealed : t \in Txs /\ height[t] = -1
  BY <1>1 DEF PendingTransactions, Unsealed
<1>3. /\ top \in Nat /\ \A t \in Txs : height[t] # top
      /\ \A i \in DOMAIN blocks : blocks[i].height \in Nat /\ blocks[i].height # top
  BY Heights
<1> HIDE DEF top
<1>4. ASSUME NEW i \in DOMAIN blocks
      PROVE  HashesAfter(blocks[i].height)
               = TransactionHashesByBlock(blocks[i].height)
  <2>1. \A t \in Txs : height'[t] = blocks[i].height <=> height[t] = blocks[i].height
    BY <1>1, <1>2, <1>3
  <2> QED BY <2>1 DEF HashesAfter, TransactionHashesByBlock
<1>5. HashesAfter(top) = tx.sealed
  <2>1. \A t \in Txs : height'[t] = top <=> t \in tx.sealed
    BY <1>1, <1>3
  <2> QED BY <1>2, <2>1 DEF HashesAfter
<1> QED BY <1>4, <1>5 DEF top

\* Committing a seal keeps the invariant.
LEMMA CommitKeeps ==
  ASSUME ChainInv, CommitSeal
  PROVE  ChainInv'
<1> DEFINE n == Len(blocks)
<1>0. n \in Nat \ {0} /\ blocks' = Append(blocks, tx.block)
  BY SealEffect
<1>1. /\ DOMAIN blocks = 1 .. n /\ DOMAIN blocks' = 1 .. n + 1
      /\ n \in Nat /\ Len(blocks') = n + 1
      /\ \A i \in 1 .. n : blocks'[i] = blocks[i]
      /\ blocks'[n + 1] = tx.block
      /\ \E S : blocks' \in Seq(S)
  <2>1. PICK S : blocks \in Seq(S)
    BY DEF ChainInv, Sequential
  <2> DEFINE e    == tx.block
             more == Append(blocks, e)
  <2>2. /\ more \in Seq(S \cup {e})
        /\ Len(blocks) \in Nat /\ Len(more) = Len(blocks) + 1
        /\ DOMAIN blocks = 1 .. Len(blocks) /\ DOMAIN more = 1 .. Len(blocks) + 1
        /\ \A i \in 1 .. Len(blocks) : more[i] = blocks[i]
        /\ more[Len(blocks) + 1] = e
    <3> HIDE DEF e
    <3> QED BY <2>1, Appended
  <2>3. blocks' = more
    BY <1>0
  <2> HIDE DEF more
  <2> QED BY <2>2, <2>3
<1>2. UNCHANGED check /\ tx' = NoTx /\ sealer' = "waiting" /\ sealer = "commit"
  BY DEF CommitSeal
<1>3. Sequential' /\ TxTyped'
  BY <1>1, <1>2 DEF ChainInv, Sequential, TxTyped, NoTx, check
<1>4. \A i \in 1 .. n : blocks[i].height = FirstHeight + i - 1
  BY <1>1, Heights
<1>5. TypeOK'
  <2>1. \A i \in DOMAIN blocks' : blocks'[i].height = FirstHeight + i - 1
    <3>1. blocks'[n + 1].height = FirstHeight + n
      BY <1>1, SealEffect
    <3>2. \A i \in 1 .. n : blocks'[i].height = FirstHeight + i - 1
      BY <1>1, <1>4
    <3> QED BY <1>1, <3>1, <3>2, FirstHeightAssumption
  <2>2. height' \in [Txs -> {Absent, Unsealed} \cup
                            FirstHeight .. FirstHeight + Len(blocks') - 1]
    <3>1. /\ \A t \in Txs : height'[t] = IF t \in tx.sealed THEN FirstHeight + n
                                                             ELSE height[t]
          /\ \E h : height' = [t \in Txs |-> h[t]]
      <4>1. height' = [t \in Txs |-> IF t \in tx.sealed THEN tx.block.height
                                                        ELSE height[t]]
        BY DEF CommitSeal
      <4> QED BY <4>1, SealEffect
    <3> QED BY <1>1, <3>1, Heights DEF Absent, Unsealed
  <2> QED BY <1>2, <2>1, <2>2 DEF ChainInv, TypeOK, check, NoTx, SealerStates,
                                  Sealing
<1>6. \A i \in 1 .. n :
        HashesAfter(blocks[i].height) = TransactionHashesByBlock(blocks[i].height)
  BY <1>1, SealedStay
<1>7. Consistent'
  <2>1. SealOK'
    BY <1>2 DEF SealOK, NoTx, Sealing
  <2>2. \A i \in DOMAIN loaded : i \in 1 .. n /\ loaded[i] = blocks[i]
    BY <1>1 DEF ChainInv, Consistent, ValidationOK, Sequential
  <2>3. DOMAIN hashesAt \subseteq DOMAIN loaded
    BY DEF ChainInv, Sequential, TypeOK
  <2>4. \A i \in DOMAIN hashesAt :
          hashesAt[i] = HashesAfter(loaded[i].height)
    BY <1>6, <2>2, <2>3 DEF ChainInv, Consistent, ValidationOK
  <2>5. ValidationOK'
    BY <1>1, <1>2, <2>2, <2>4 DEF ChainInv, Consistent, ValidationOK, check,
       Sequential, HashesAfter, TransactionHashesByBlock
  <2> QED BY <2>1, <2>5 DEF Consistent
<1>8. Intact'
  <2>1. blocks'[1] = StoredGenesis
    BY <1>0, <1>1 DEF ChainInv, Intact
  <2>2. ASSUME NEW i \in 1 .. n + 1 PROVE IntactBlock(i)'
    <3>1. CASE i = n + 1
      <4>1. /\ tx.block.height = FirstHeight + n /\ tx.block.prevHash = blocks[n].hash
            /\ tx.block.merkleRoot = TxsRoot(tx.sealed)
            /\ tx.block.hash = ComputeBlockHash(tx.block)
        BY SealEffect
      <4>2. HashesAfter(FirstHeight + n) = tx.sealed
        BY SealedStay
      <4>3. i - 1 = n /\ i # 1 /\ n \in 1 .. n
        BY <1>0, <3>1
      <4>4. blocks'[i] = tx.block /\ blocks'[i - 1] = blocks[n]
        BY <1>1, <3>1, <4>3
      <4> QED BY <4>1, <4>2, <4>3, <4>4
              DEF IntactBlock, ComputeBlockHash, HashesAfter, TransactionHashesByBlock
    <3>2. CASE i \in 1 .. n
      <4>1. IntactBlock(i)
        BY <1>1, <3>2 DEF ChainInv, Intact
      <4>2. blocks'[i] = blocks[i] /\ (i # 1 => blocks'[i - 1] = blocks[i - 1])
        BY <1>1, <3>2
      <4>3. TransactionHashesByBlock(blocks[i].height)'
              = TransactionHashesByBlock(blocks[i].height)
        BY <1>6, <3>2, <4>2 DEF HashesAfter, TransactionHashesByBlock
      <4> QED BY <4>1, <4>2, <4>3 DEF IntactBlock, TransactionHashesByBlock
    <3> QED BY <3>1, <3>2
  <2> QED BY <1>1, <2>1, <2>2 DEF Intact
<1>9. BlamesGenesisAlone'
  BY <1>2 DEF ChainInv, BlamesGenesisAlone, check
<1> QED BY <1>3, <1>5, <1>7, <1>8, <1>9 DEF ChainInv

\* The genesis block: an empty chain becomes a chain of one valid block.
LEMMA GenesisKeeps ==
  ASSUME ChainInv, CreateGenesis
  PROVE  ChainInv'
<1>1. /\ blocks = << >> /\ blocks' = <<StoredGenesis>>
      /\ UNCHANGED <<height, tx, check>> /\ sealer' = "waiting"
      /\ sealer = "createGenesis"
  BY DEF ChainInv, Consistent, SealOK, CreateGenesis
<1>2. /\ Len(blocks) = 0 /\ Len(blocks') = 1 /\ DOMAIN blocks' = {1}
      /\ blocks'[1] = StoredGenesis /\ blocks' \in Seq({StoredGenesis})
  BY <1>1
<1>3. height \in [Txs -> {-2, -1}]
  BY <1>2, Heights
<1>4. Sequential' /\ TxTyped' /\ BlamesGenesisAlone'
  BY <1>1, <1>2 DEF ChainInv, Sequential, TxTyped, BlamesGenesisAlone, check
<1>5. TypeOK'
  <2>1. height' \in [Txs -> {Absent, Unsealed} \cup
                            FirstHeight .. FirstHeight + Len(blocks') - 1]
    BY <1>1, <1>3 DEF Absent, Unsealed
  <2> QED BY <1>1, <1>2, <2>1, GenesisBlock, FirstHeightAssumption
          DEF ChainInv, TypeOK, check, SealerStates, Sealing
<1>6. Len(loaded) = 0 /\ DOMAIN loaded = {} /\ DOMAIN hashesAt = {}
  BY <1>2 DEF ChainInv, Sequential, Consistent, ValidationOK, TypeOK
<1>7. Consistent'
  BY <1>1, <1>2, <1>6 DEF ChainInv, Consistent, SealOK, ValidationOK, Sealing, check
<1>8. Intact'
  <2>1. TransactionHashesByBlock(FirstHeight)' = {}
    BY <1>1, <1>3, FirstHeightAssumption DEF TransactionHashesByBlock
  <2> QED BY <1>2, <2>1, GenesisBlock DEF Intact, IntactBlock, TransactionHashesByBlock
<1> QED BY <1>4, <1>5, <1>7, <1>8 DEF ChainInv

\* A transaction that arrives is in no block, so no block changes.
LEMMA SubmitKeeps ==
  ASSUME ChainInv, NEW t \in Txs, Submit(t)
  PROVE  ChainInv'
<1>1. /\ height[t] = -2 /\ height' = [height EXCEPT ![t] = -1]
      /\ UNCHANGED <<blocks, sealer, tx, validator, loaded, hashesAt>>
  BY DEF Submit, Absent, Unsealed, seal, check
<1>2. /\ height \in [Txs -> {-2, -1} \cup FirstHeight .. FirstHeight + Len(blocks) - 1]
      /\ Len(blocks) \in Nat /\ DOMAIN blocks = 1 .. Len(blocks)
      /\ FirstHeight \in Nat \ {0}
      /\ \A i \in DOMAIN blocks : blocks[i].height = FirstHeight + i - 1
  BY Heights
<1>3. \A h \in Nat : HashesAfter(h) = TransactionHashesByBlock(h)
  BY <1>1, <1>2 DEF HashesAfter, TransactionHashesByBlock
<1>4. Sequential' /\ TxTyped' /\ BlamesGenesisAlone'
  BY <1>1 DEF ChainInv, Sequential, TxTyped, BlamesGenesisAlone
<1>5. TypeOK'
  BY <1>1, <1>2 DEF ChainInv, TypeOK, Absent, Unsealed
<1>6. Consistent'
  <2>1. SealOK'
    BY <1>1, <1>2 DEF ChainInv, Consistent, SealOK, PendingTransactions, Unsealed
  <2>2. ASSUME NEW i \in DOMAIN hashesAt
        PROVE  hashesAt[i] = HashesAfter(loaded[i].height)
    <3>1. i \in DOMAIN loaded /\ loaded[i] = blocks[i] /\ i \in DOMAIN blocks
      BY DEF ChainInv, Sequential, TypeOK, Consistent, ValidationOK
    <3>2. loaded[i].height \in Nat
      BY <1>2, <3>1
    <3> QED BY <1>3, <3>2 DEF ChainInv, Consistent, ValidationOK
  <2>3. ValidationOK'
    BY <1>1, <2>2 DEF ChainInv, Consistent, ValidationOK, HashesAfter,
                      TransactionHashesByBlock
  <2> QED BY <2>1, <2>3 DEF Consistent
<1>7. Intact'
  <2>1. ASSUME NEW i \in DOMAIN blocks PROVE IntactBlock(i)'
    <3>1. HashesAfter(blocks[i].height) = TransactionHashesByBlock(blocks[i].height)
      BY <1>2, <1>3
    <3>2. IntactBlock(i)
      BY DEF ChainInv, Intact
    <3> QED BY <1>1, <3>1, <3>2 DEF IntactBlock, HashesAfter, TransactionHashesByBlock
  <2> QED BY <1>1, <2>1 DEF ChainInv, Intact
<1> QED BY <1>4, <1>5, <1>6, <1>7 DEF ChainInv

\* Steps that leave the tables alone keep the committed chain valid.
LEMMA TablesKept ==
  ASSUME ChainInv, UNCHANGED tables
  PROVE  /\ Intact'
         /\ PendingTransactions' = PendingTransactions
         /\ \A h \in Int : HashesAfter(h) = TransactionHashesByBlock(h)
<1>1. blocks' = blocks /\ height' = height
  BY DEF tables
<1>2. Intact
  BY DEF ChainInv
<1>3. Intact'
  <2>1. ASSUME NEW i \in DOMAIN blocks PROVE IntactBlock(i)'
    <3>1. IntactBlock(i)
      BY <1>2 DEF Intact
    <3> QED BY <1>1, <3>1 DEF IntactBlock, TransactionHashesByBlock
  <2> QED BY <1>1, <1>2, <2>1 DEF Intact
<1>4. PendingTransactions' = PendingTransactions
  BY <1>1 DEF PendingTransactions
<1>5. \A h \in Int : HashesAfter(h) = TransactionHashesByBlock(h)
  BY <1>1 DEF HashesAfter, TransactionHashesByBlock
<1> QED BY <1>3, <1>4, <1>5

\* The sealer's other statements change only what it holds in memory.
LEMMA SealerKeeps ==
  ASSUME ChainInv,
         \/ FindGenesis \/ GenesisFails \/ Tick \/ ReadPending \/ ReadLatest
         \/ CreateBlock \/ SealTransactions \/ SealFails
  PROVE  ChainInv'
<1>1. UNCHANGED <<tables, check>>
  BY DEF FindGenesis, GenesisFails, Tick, ReadPending, ReadLatest, CreateBlock,
         SealTransactions, SealFails, Abandon
<1>2. blocks' = blocks /\ height' = height /\ validator' = validator
      /\ loaded' = loaded /\ hashesAt' = hashesAt
  BY <1>1 DEF tables, check
<1>3. Intact' /\ PendingTransactions' = PendingTransactions
  BY <1>1, TablesKept
<1>4. Sequential' /\ BlamesGenesisAlone'
  BY <1>2 DEF ChainInv, Sequential, BlamesGenesisAlone
<1>5. ValidationOK'
  <2>1. sealer # "down" /\ sealer' # "down"
    BY DEF FindGenesis, GenesisFails, Tick, ReadPending, ReadLatest, CreateBlock,
       SealTransactions, SealFails, Abandon, Sealing
  <2> QED BY <1>2, <2>1 DEF ChainInv, Consistent, ValidationOK,
                            TransactionHashesByBlock
<1>6. PendingTransactions \subseteq Txs /\ Absent = -2 /\ Unsealed = -1
  BY DEF PendingTransactions, Absent, Unsealed
<1>7. TxTyped' /\ tx'.pending \subseteq Txs /\ tx'.sealed \subseteq tx'.pending
      /\ sealer' \in SealerStates
  BY <1>6 DEF ChainInv, TxTyped, TypeOK, Consistent, SealOK, NoTx, SealerStates,
     Sealing, FindGenesis, GenesisFails, Tick, ReadPending, ReadLatest,
     CreateBlock, SealTransactions, SealFails, Abandon
<1>8. TypeOK'
  BY <1>2, <1>7 DEF ChainInv, TypeOK
<1>9. SealOK'
  <2>1. CASE FindGenesis \/ GenesisFails \/ Tick
    BY <1>2, <2>1 DEF ChainInv, Consistent, SealOK, FindGenesis, GenesisFails,
       Tick, Sealing, NoTx
  <2>2. CASE ReadPending
    <3>1. /\ tx'.pending = PendingTransactions /\ tx'.sealed = tx.sealed
          /\ sealer = "readPending" /\ sealer' = "readLatest"
      BY <2>2 DEF ChainInv, TxTyped, ReadPending
    <3> QED BY <1>3, <3>1 DEF ChainInv, Consistent, SealOK, NoTx, Sealing
  <2>3. CASE ReadLatest
    <3>1. CASE Abandon
      BY <3>1 DEF SealOK, Abandon, NoTx, Sealing
    <3>2. CASE ~Abandon
      <4>1. /\ blocks # << >> /\ tx'.latest = Last(blocks)
            /\ tx'.pending = tx.pending /\ tx'.sealed = tx.sealed
            /\ sealer = "readLatest" /\ sealer' = "createBlock"
        BY <2>3, <3>2 DEF ChainInv, TxTyped, ReadLatest, LatestBlock
      <4>2. Last(blocks)' = Last(blocks)
        BY <1>2
      <4> QED BY <1>2, <1>3, <4>1, <4>2 DEF ChainInv, Consistent, SealOK, Sealing
    <3> QED BY <3>1, <3>2
  <2>4. CASE CreateBlock
    <3>1. /\ tx'.block = NextBlock(tx.latest, tx.pending)
          /\ tx'.pending = tx.pending /\ tx'.latest = tx.latest
          /\ tx'.sealed = tx.sealed /\ sealer = "createBlock"
          /\ sealer' = IF tx.pending = {} THEN "commit" ELSE "sealTxs"
      BY <2>4 DEF ChainInv, TxTyped, CreateBlock
    <3>2. NextBlock(tx.latest, tx.pending)' = NextBlock(tx'.latest, tx'.pending)
      BY DEF NextBlock
    <3> QED BY <1>2, <1>3, <3>1, <3>2
            DEF ChainInv, Consistent, SealOK, Sealing
  <2>5. CASE SealTransactions
    BY <1>2, <1>3, <2>5 DEF ChainInv, TxTyped, Consistent, SealOK,
       SealTransactions, Sealing
  <2>6. CASE SealFails
    BY <2>6 DEF SealOK, SealFails, Abandon, NoTx, Sealing
  <2> QED BY <2>1, <2>2, <2>3, <2>4, <2>5, <2>6
<1> QED BY <1>3, <1>4, <1>5, <1>7, <1>8, <1>9 DEF ChainInv, Consistent

\* Reading the blocks, or failing to read, reports nothing wrong.
LEMMA ReadBlocksKeeps ==
  ASSUME ChainInv, ReadBlocks \/ ValidationFails
  PROVE  ChainInv'
<1>1. UNCHANGED <<tables, blocks, height, sealer, tx, hashesAt>>
  BY DEF ReadBlocks, ValidationFails, tables, seal
<1>2. Intact' /\ SealOK' /\ TxTyped'
  BY <1>1, TablesKept DEF ChainInv, Consistent, SealOK, PendingTransactions, TxTyped
<1>3. CASE ValidationFails
  BY <1>1, <1>2, <1>3 DEF ChainInv, Sequential, TypeOK, Consistent, ValidationOK,
     BlamesGenesisAlone, ValidationFails, ValidatorStates, TransactionHashesByBlock
<1>4. CASE ReadBlocks
  <2>1. /\ loaded' = blocks /\ hashesAt = << >>
        /\ validator' = IF blocks = << >> THEN "passed" ELSE "readHashes"
    BY <1>4 DEF ChainInv, Consistent, ValidationOK, ReadBlocks
  <2>2. Len(blocks) \in Nat /\ (blocks # << >> => Len(blocks) > 0)
    BY DEF ChainInv, Sequential
  <2>3. Len(hashesAt) = 0 /\ DOMAIN hashesAt = {}
    BY <2>1
  <2>4. Sequential' /\ TypeOK' /\ BlamesGenesisAlone'
    BY <1>1, <2>1, <2>2, <2>3 DEF ChainInv, Sequential, TypeOK, BlamesGenesisAlone,
       ValidatorStates
  <2>5. ValidationOK'
    BY <1>1, <1>4, <2>1, <2>2, <2>3
       DEF ChainInv, Consistent, ValidationOK, ReadBlocks
  <2> QED BY <1>2, <2>4, <2>5 DEF ChainInv, Consistent
<1> QED BY <1>3, <1>4

\* A snapshot of the blocks, with the transactions later found at each, is valid but
\* for the height of the genesis row: later seals only add blocks.
LEMMA SnapshotValid ==
  ASSUME ChainInv, loaded # << >>, NEW found,
         \A i \in DOMAIN loaded : found[i] = TransactionHashesByBlock(loaded[i].height)
  PROVE  Broken(loaded, found) = {1}
<1>1. \A i \in DOMAIN loaded :
        /\ i \in DOMAIN blocks /\ loaded[i] = blocks[i]
        /\ i # 1 => i - 1 \in DOMAIN loaded /\ loaded[i - 1] = blocks[i - 1]
  BY DEF ChainInv, Sequential, Consistent, ValidationOK
<1>2. ASSUME NEW i \in DOMAIN loaded, i # 1 PROVE ValidBlock(loaded, found, i)
  <2>1. IntactBlock(i)
    BY <1>1 DEF ChainInv, Intact
  <2> QED BY <1>1, <1>2, <2>1 DEF ValidBlock, IntactBlock, ComputeBlockHash
<1>3. 1 \in DOMAIN loaded
  BY DEF ChainInv, Sequential
<1>4. ~ValidBlock(loaded, found, 1)
  <2>1. /\ loaded[1].hash = <<0, loaded[1].prevHash, loaded[1].merkleRoot>>
        /\ loaded[1].height = FirstHeight
    <3>1. 1 \in DOMAIN blocks /\ loaded[1] = blocks[1]
      BY <1>1, <1>3
    <3>2. IntactBlock(1)
      BY <3>1 DEF ChainInv, Intact
    <3>3. blocks[1].hash = <<0, blocks[1].prevHash, blocks[1].merkleRoot>>
      BY <3>2 DEF IntactBlock
    <3>4. blocks[1].height = FirstHeight
      BY <3>1, Heights
    <3> QED BY <3>1, <3>3, <3>4
  <2> QED BY <2>1, FirstHeightAssumption DEF ValidBlock, ComputeBlockHash
<1> QED BY <1>2, <1>3, <1>4 DEF Broken

\* Reading the transactions of one more block.
LEMMA ReadHashesKeeps ==
  ASSUME ChainInv, ReadHashes
  PROVE  ChainInv'
<1> DEFINE n == Len(hashesAt)
           h == loaded[n + 1].height
<1>1. /\ validator = "readHashes"
      /\ UNCHANGED <<tables, blocks, height, sealer, tx, loaded>>
      /\ hashesAt' = Append(hashesAt, TransactionHashesByBlock(h))
  BY DEF ReadHashes, tables, seal
<1>2. Intact' /\ SealOK' /\ TxTyped'
  BY <1>1, TablesKept DEF ChainInv, Consistent, SealOK, PendingTransactions, TxTyped
<1>3. /\ \E S : hashesAt' \in Seq(S)
      /\ n \in Nat /\ Len(hashesAt') = n + 1
      /\ DOMAIN hashesAt = 1 .. n /\ DOMAIN hashesAt' = 1 .. n + 1
      /\ \A i \in 1 .. n : hashesAt'[i] = hashesAt[i]
      /\ hashesAt'[n + 1] = TransactionHashesByBlock(h)
  <2>1. PICK S : hashesAt \in Seq(S)
    BY DEF ChainInv, Sequential
  <2> DEFINE e    == TransactionHashesByBlock(h)
             more == Append(hashesAt, e)
  <2>2. /\ more \in Seq(S \cup {e})
        /\ Len(hashesAt) \in Nat /\ Len(more) = Len(hashesAt) + 1
        /\ DOMAIN hashesAt = 1 .. Len(hashesAt) /\ DOMAIN more = 1 .. Len(hashesAt) + 1
        /\ \A i \in 1 .. Len(hashesAt) : more[i] = hashesAt[i]
        /\ more[Len(hashesAt) + 1] = e
    <3> HIDE DEF e
    <3> QED BY <2>1, Appended
  <2>3. hashesAt' = more
    BY <1>1
  <2> HIDE DEF more
  <2> QED BY <2>2, <2>3
<1>4. n < Len(loaded) /\ Len(loaded) \in Nat /\ DOMAIN loaded = 1 .. Len(loaded)
  BY <1>1 DEF ChainInv, Sequential, Consistent, ValidationOK
<1>5. \A i \in DOMAIN hashesAt' :
        hashesAt'[i] = TransactionHashesByBlock(loaded[i].height)
  BY <1>3 DEF ChainInv, Consistent, ValidationOK
<1>6. loaded # << >>
  BY <1>3, <1>4
<1>7. /\ validator' = IF Len(hashesAt') < Len(loaded) THEN "readHashes" ELSE "failed"
      /\ Len(hashesAt') >= Len(loaded) => Broken(loaded, hashesAt') = {1}
  <2>1. Len(hashesAt') >= Len(loaded) => Broken(loaded, hashesAt') = {1}
    BY <1>3, <1>4, <1>5, <1>6, SnapshotValid
  <2>2. validator' = IF Len(hashesAt') < Len(loaded) THEN "readHashes"
                     ELSE IF ValidChain(loaded, hashesAt') THEN "passed"
                     ELSE "failed"
    BY DEF ReadHashes
  <2> QED BY <1>3, <1>4, <2>1, <2>2 DEF ValidChain
<1>8. Sequential' /\ TypeOK' /\ BlamesGenesisAlone'
  BY <1>1, <1>3, <1>4, <1>7 DEF ChainInv, Sequential, TypeOK, BlamesGenesisAlone,
     ValidatorStates
<1>9. ValidationOK'
  BY <1>1, <1>3, <1>4, <1>5, <1>7 DEF ChainInv, Consistent, ValidationOK,
     TransactionHashesByBlock
<1> QED BY <1>2, <1>8, <1>9 DEF ChainInv, Consistent

\* Starting and stopping the node: memory is lost, tables are not.
LEMMA RestartKeeps ==
  ASSUME ChainInv, Start \/ Stop
  PROVE  ChainInv'
<1>1. UNCHANGED <<tables, blocks, height>>
  BY DEF Start, Stop, tables
<1>2. Intact' /\ PendingTransactions' = PendingTransactions
  BY <1>1, TablesKept
<1>3. Len(<< >>) = 0 /\ DOMAIN << >> = {} /\ << >> \in Seq({}) /\ Len(blocks) \in Nat
  BY DEF ChainInv, Sequential
<1>4. CASE Start
  <2>1. /\ sealer = "down" /\ sealer' = "findGenesis" /\ tx' = tx
        /\ validator' = "readBlocks" /\ loaded' = loaded /\ hashesAt' = hashesAt
    BY <1>4 DEF Start
  <2>2. tx = NoTx
    BY <2>1 DEF ChainInv, Consistent, SealOK, Sealing
  <2>3. SealOK'
    BY <1>1, <2>1, <2>2 DEF SealOK, NoTx, Sealing
  <2>4. Sequential' /\ TypeOK' /\ BlamesGenesisAlone' /\ TxTyped'
    BY <1>1, <2>1 DEF ChainInv, Sequential, TypeOK, BlamesGenesisAlone, TxTyped,
       SealerStates, ValidatorStates
  <2>5. loaded = << >> /\ hashesAt = << >>
    BY <2>1, <1>4 DEF ChainInv, Consistent, ValidationOK, Start
  <2>6. ValidationOK'
    BY <1>1, <1>3, <2>1, <2>5 DEF ValidationOK
  <2> QED BY <1>2, <2>3, <2>4, <2>6 DEF ChainInv, Consistent
<1>5. CASE Stop
  <2>1. /\ sealer' = "down" /\ tx' = NoTx
        /\ validator' = "down" /\ loaded' = << >> /\ hashesAt' = << >>
    BY <1>5 DEF Stop
  <2>2. SealOK'
    BY <2>1 DEF SealOK, NoTx, Sealing
  <2>3. Sequential' /\ TypeOK' /\ BlamesGenesisAlone' /\ TxTyped'
    BY <1>1, <1>3, <2>1 DEF ChainInv, Sequential, TypeOK, BlamesGenesisAlone, TxTyped,
       NoTx, SealerStates, ValidatorStates
  <2>4. ValidationOK'
    BY <1>1, <1>3, <2>1 DEF ValidationOK
  <2> QED BY <1>2, <2>2, <2>3, <2>4 DEF ChainInv, Consistent
<1> QED BY <1>4, <1>5

\* Initially there is no block and no transaction.
LEMMA ChainInit == Init => ChainInv
<1> SUFFICES ASSUME Init PROVE ChainInv
  OBVIOUS
<1>1. /\ blocks = << >> /\ loaded = << >> /\ hashesAt = << >> /\ tx = NoTx
      /\ sealer = "down" /\ validator = "down"
      /\ height = [t \in Txs |-> Absent]
  BY DEF Init
<1>2. Len(<< >>) = 0 /\ DOMAIN << >> = {} /\ << >> \in Seq({})
  OBVIOUS
<1>3. Sequential /\ TxTyped /\ BlamesGenesisAlone
  BY <1>1, <1>2 DEF Sequential, TxTyped, NoTx, BlamesGenesisAlone
<1>4. TypeOK
  BY <1>1, <1>2 DEF TypeOK, NoTx, SealerStates, ValidatorStates, Absent
<1>5. Consistent
  BY <1>1, <1>2 DEF Consistent, SealOK, ValidationOK, NoTx, Sealing
<1>6. Intact
  BY <1>1, <1>2 DEF Intact
<1> QED BY <1>3, <1>4, <1>5, <1>6 DEF ChainInv

\* Nothing changes when nothing happens.
LEMMA StutterKeeps == ChainInv /\ UNCHANGED vars => ChainInv'
<1> SUFFICES ASSUME ChainInv, UNCHANGED vars PROVE ChainInv'
  OBVIOUS
<1>1. Intact'
  BY TablesKept DEF vars, tables
<1> QED BY <1>1 DEF vars, ChainInv, Sequential, TxTyped, TypeOK, Consistent, SealOK,
  ValidationOK, BlamesGenesisAlone, PendingTransactions, TransactionHashesByBlock

\* Every step keeps the invariant.
LEMMA ChainStep == ChainInv /\ [Next]_vars => ChainInv'
  BY RestartKeeps, SubmitKeeps, GenesisKeeps, SealerKeeps, CommitKeeps,
     ReadBlocksKeeps, ReadHashesKeeps, StutterKeeps
     DEF Next, SealerStep, ValidatorStep

\* TypeOK: blocks are numbered without a gap and transactions are only in blocks
\* that exist.
THEOREM ChainTypeCorrect == Spec => []TypeOK
<1>1. ChainInv => TypeOK
  BY DEF ChainInv
<1> QED BY <1>1, ChainInit, ChainStep, PTL DEF Spec

-----------------------------------------------------------------------------
(* What the hashes in a chain commit to.                                     *)

\* One root, one set of transactions.
LEMMA TxsRootNames ==
  ASSUME NEW S \in SUBSET Txs, NEW T \in SUBSET Txs
  PROVE  TxsRoot(S) = TxsRoot(T) <=> S = T
<1>1. IsFiniteSet(S) /\ IsFiniteSet(T) /\ S \in SUBSET Nat /\ T \in SUBSET Nat
  BY TxsAssumption, FS_Subset
<1>2. SetToSeq(S) \in Listings(S) /\ SetToSeq(T) \in Listings(T)
  BY <1>1, SetToSeqLists
<1>3. ASSUME NEW U \in SUBSET Txs PROVE TxsRoot(U) = BuildMerkleRoot(SetToSeq(U))
  <2>1. <<U, BuildMerkleRoot(SetToSeq(U))>> \in MerkleRoots
    BY DEF MerkleRoots
  <2>2. \A row \in MerkleRoots :
          row[1] = U => row = <<U, BuildMerkleRoot(SetToSeq(U))>>
    BY DEF MerkleRoots
  <2>3. (CHOOSE row \in MerkleRoots : row[1] = U)
          = <<U, BuildMerkleRoot(SetToSeq(U))>>
    BY <2>1, <2>2
  <2> DEFINE root == BuildMerkleRoot(SetToSeq(U))
  <2>4. TxsRoot(U) = <<U, root>>[2]
    BY <2>3 DEF TxsRoot
  <2> HIDE DEF root
  <2>5. <<U, root>>[2] = root
    OBVIOUS
  <2> QED BY <2>4, <2>5 DEF root
<1> QED BY <1>1, <1>2, <1>3, RootNamesSet

\* The chain as it was mined passes the validation with the committed transactions.
LEMMA MinedIsValid ==
  ASSUME ChainInv
  PROVE  /\ DOMAIN Mined(blocks) = DOMAIN blocks
         /\ \A i \in DOMAIN blocks :
              /\ Mined(blocks)[i].hash = blocks[i].hash
              /\ ValidBlock(Mined(blocks), Committed, i)
<1>1. DOMAIN Mined(blocks) = DOMAIN blocks
  BY DEF Mined
<1>2. ASSUME NEW i \in DOMAIN blocks
      PROVE  /\ i = 1 => Mined(blocks)[i] = Genesis /\ blocks[i] = StoredGenesis
             /\ i # 1 => Mined(blocks)[i] = blocks[i] /\ i - 1 \in DOMAIN blocks
  <2>1. i = 1 => Mined(blocks)[i] = Genesis /\ blocks[i] = StoredGenesis
    <3>1. i = 1 => blocks # << >> /\ blocks[i] = StoredGenesis
      BY DEF ChainInv, Intact
    <3>2. i = 1 => Mined(blocks)[i] = [blocks[i] EXCEPT !.height = 0]
      BY DEF Mined
    <3> QED BY <3>1, <3>2, GenesisBlock
  <2> QED BY <2>1, Heights DEF Mined
<1>3. \A i \in DOMAIN blocks : Mined(blocks)[i].hash = blocks[i].hash
  BY <1>2, GenesisBlock
<1>4. ASSUME NEW i \in DOMAIN blocks PROVE ValidBlock(Mined(blocks), Committed, i)
  <2>1. IntactBlock(i) /\ Committed[i] = TransactionHashesByBlock(blocks[i].height)
    BY DEF ChainInv, Intact, Committed
  <2>2. CASE i = 1
    <3>1. blocks[i].merkleRoot = TxsRoot({})
      BY <1>2, <2>2, GenesisBlock
    <3>2. Genesis.hash = ComputeBlockHash(Genesis)
      BY GenesisBlock DEF ComputeBlockHash
    <3> QED BY <1>2, <2>1, <2>2, <3>1, <3>2, GenesisBlock DEF ValidBlock, IntactBlock
  <2>3. CASE i # 1
    <3>1. Mined(blocks)[i - 1].hash = blocks[i - 1].hash
      BY <1>2, <1>3, <2>3
    <3> QED BY <1>2, <2>1, <2>3, <3>1 DEF ValidBlock, IntactBlock, ComputeBlockHash
  <2> QED BY <2>2, <2>3
<1> QED BY <1>1, <1>3, <1>4

\* ChainIntegrity, for chains of any length: apart from the number of the genesis
\* row, linkage and Merkle roots agree with the transactions table at every instant,
\* and with nothing but that table: rows lost, added or exchanged in any block fail
\* the validation of that block.
THEOREM AlwaysIntact == Spec => []ChainIntegrity
<1>1. ChainInv => ChainIntegrity
  <2> SUFFICES ASSUME ChainInv, NEW i \in DOMAIN blocks, NEW S \in SUBSET Txs
               PROVE  ValidBlock(Mined(blocks), [Committed EXCEPT ![i] = S], i)
                        <=> S = Committed[i]
    BY DEF ChainIntegrity
  <2>1. ValidBlock(Mined(blocks), Committed, i)
    BY MinedIsValid
  <2>2. Committed[i] \in SUBSET Txs /\ i \in DOMAIN Committed
    BY DEF Committed, TransactionHashesByBlock
  <2>3. TxsRoot(S) = TxsRoot(Committed[i]) <=> S = Committed[i]
    BY <2>2, TxsRootNames
  <2>4. [Committed EXCEPT ![i] = S][i] = S
    BY <2>2
  <2> HIDE DEF Committed
  <2> QED BY <2>1, <2>3, <2>4 DEF ValidBlock
<1> QED BY <1>1, ChainInit, ChainStep, PTL DEF Spec

\* A chain as ValidateChain is given it: blocks with the transactions found in each.
ChainOf(n, bs, found) == /\ IsList(bs, n)
                         /\ \A i \in 1 .. n : found[i] \in SUBSET Txs
                         /\ ValidChain(bs, found)

\* The four fields of a block that its hash is a digest of, or is.
SameBlock(b, c) == /\ b.height = c.height /\ b.prevHash = c.prevHash
                   /\ b.merkleRoot = c.merkleRoot /\ b.hash = c.hash

\* A block with the hash of another is the same block over the same transactions.
LEMMA HashNamesBlock ==
  ASSUME NEW n \in Nat, NEW a, NEW fa, ChainOf(n, a, fa), NEW i \in 1 .. n,
         NEW m \in Nat, NEW b, NEW fb, ChainOf(m, b, fb), NEW j \in 1 .. m,
         a[i].hash = b[j].hash
  PROVE  /\ SameBlock(a[i], b[j]) /\ fa[i] = fb[j]
         /\ i = 1 <=> j = 1
         /\ i # 1 => a[i - 1].hash = b[j - 1].hash
<1>1. ValidBlock(a, fa, i) /\ ValidBlock(b, fb, j)
  BY ListLength DEF ChainOf, ValidChain, Broken
<1>2. ComputeBlockHash(a[i]) = ComputeBlockHash(b[j])
  BY <1>1 DEF ValidBlock
<1>3. SameBlock(a[i], b[j])
  BY <1>2 DEF ComputeBlockHash, SameBlock
<1>4. fa[i] = fb[j]
  <2>1. TxsRoot(fa[i]) = TxsRoot(fb[j])
    BY <1>1, <1>3 DEF ValidBlock, SameBlock
  <2> QED BY <2>1, TxsRootNames DEF ChainOf
<1>5. \A x : ComputeBlockHash(x) # GenesisBlockPrevHash
  BY DEF ComputeBlockHash, GenesisBlockPrevHash
<1>6. /\ i # 1 => a[i - 1].hash = ComputeBlockHash(a[i - 1])
      /\ j # 1 => b[j - 1].hash = ComputeBlockHash(b[j - 1])
  <2>1. /\ i # 1 => i - 1 \in 1 .. n
        /\ j # 1 => j - 1 \in 1 .. m
    OBVIOUS
  <2> QED BY <2>1, ListLength DEF ChainOf, ValidChain, Broken, ValidBlock
<1> QED BY <1>1, <1>3, <1>4, <1>5, <1>6 DEF ValidBlock, SameBlock

\* README.md's "tampering any block breaks all descendants": two chains that both
\* pass ValidateChain and end in the same block hash are the same blocks over the
\* same transactions, from the genesis on.  So whoever changes anything in a block
\* and wants the validation to pass has to change the hash of the last block.
THEOREM TipFixesHistory ==
  ASSUME NEW n \in Nat \ {0}, NEW a, NEW fa, ChainOf(n, a, fa),
         NEW m \in Nat \ {0}, NEW b, NEW fb, ChainOf(m, b, fb),
         a[n].hash = b[m].hash
  PROVE  n = m /\ \A i \in 1 .. n : SameBlock(a[i], b[i]) /\ fa[i] = fb[i]
<1> DEFINE Agree(k) == a[n - k].hash = b[m - k].hash
           T == {k \in Nat : k < n => k < m /\ Agree(k)}
<1>1. 0 \in T
  OBVIOUS
<1>2. ASSUME NEW k \in Nat, k \in T PROVE k + 1 \in T
  <2> SUFFICES ASSUME k + 1 < n PROVE k + 1 < m /\ Agree(k + 1)
    OBVIOUS
  <2> DEFINE i == n - k
             j == m - k
  <2>1. /\ i \in 1 .. n /\ j \in 1 .. m /\ a[i].hash = b[j].hash
        /\ i # 1 /\ i - 1 = n - (k + 1) /\ j - 1 = m - (k + 1)
    BY <1>2
  <2> HIDE DEF i, j
  <2>2. j # 1 /\ a[i - 1].hash = b[j - 1].hash
    BY <2>1, HashNamesBlock
  <2>3. k + 1 < m
    BY <2>1, <2>2 DEF j
  <2> QED BY <2>1, <2>2, <2>3
<1> HIDE DEF T
<1>3. \A k \in Nat : k \in T
  BY <1>1, <1>2, SetInduction
<1>4. n - 1 \in Nat /\ n - 1 < m /\ a[n - (n - 1)].hash = b[m - (n - 1)].hash
  BY <1>3 DEF T
<1>5. n = m
  <2> DEFINE j == m - (n - 1)
  <2>1. j \in 1 .. m /\ 1 \in 1 .. n /\ a[1].hash = b[j].hash
    BY <1>4
  <2> HIDE DEF j
  <2>2. j = 1
    BY <2>1, HashNamesBlock
  <2> QED BY <2>2 DEF j
<1>6. ASSUME NEW i \in 1 .. n PROVE SameBlock(a[i], b[i]) /\ fa[i] = fb[i]
  <2>1. n - i \in Nat /\ n - i < n /\ n - (n - i) = i /\ m - (n - i) = i
    BY <1>5
  <2>2. a[i].hash = b[i].hash
    BY <1>3, <2>1 DEF T
  <2> QED BY <1>5, <2>2, HashNamesBlock
<1> QED BY <1>5, <1>6

\* The chain as it was mined is the only one that ends in its last block hash.
OnlyHistory ==
  blocks # << >> =>
    \A m \in Nat \ {0} : \A b, fb :
      ChainOf(m, b, fb) /\ b[m].hash = Last(blocks).hash =>
        /\ m = Len(blocks)
        /\ \A i \in 1 .. m : SameBlock(b[i], Mined(blocks)[i]) /\ fb[i] = Committed[i]

\* At every instant the hash of the last block commits to all blocks before it and
\* to every transaction in them: whatever chain ValidateChain accepts and that ends
\* in this hash has the blocks the sealer mined and the transactions of the table.
\* The stored rows are not that chain: their genesis has another height.
THEOREM TipCommitsToHistory == Spec => []OnlyHistory
<1>1. ChainInv => OnlyHistory
  <2> SUFFICES ASSUME ChainInv, blocks # << >>, NEW m \in Nat \ {0}, NEW b, NEW fb,
                      ChainOf(m, b, fb), b[m].hash = Last(blocks).hash
               PROVE  /\ m = Len(blocks)
                      /\ \A i \in 1 .. m : /\ SameBlock(b[i], Mined(blocks)[i])
                                           /\ fb[i] = Committed[i]
    BY DEF OnlyHistory
  <2> DEFINE n == Len(blocks)
             mined == Mined(blocks)
  <2>1. n \in Nat \ {0} /\ Last(blocks) = blocks[n] /\ DOMAIN blocks = 1 .. n
    BY LastElement DEF ChainInv, Sequential
  <2>2. mined = [i \in 1 .. n |-> mined[i]]
    BY <2>1 DEF Mined
  <2>3. \A i \in 1 .. n : Committed[i] \in SUBSET Txs
    BY <2>1 DEF Committed, TransactionHashesByBlock
  <2>4. ValidChain(mined, Committed)
    BY MinedIsValid DEF ValidChain, Broken
  <2>5. b[m].hash = mined[n].hash
    BY <2>1, MinedIsValid
  <2> HIDE DEF n, mined
  <2>6. ChainOf(n, mined, Committed)
    BY <2>2, <2>3, <2>4 DEF ChainOf, IsList
  <2>7. m = n /\ \A i \in 1 .. m : SameBlock(b[i], mined[i]) /\ fb[i] = Committed[i]
    BY <2>1, <2>5, <2>6, TipFixesHistory
  <2> QED BY <2>7 DEF n, mined
<1> QED BY <1>1, ChainInit, ChainStep, PTL DEF Spec

\* BlamesGenesisAlone: although the validation is no transaction and the sealer runs
\* beside it, it finds fault with the genesis row, whose height is not the one it
\* was hashed with, and with no other block.
THEOREM ValidationVerdict == Spec => []BlamesGenesisAlone
<1>1. ChainInv => BlamesGenesisAlone
  BY DEF ChainInv
<1> QED BY <1>1, ChainInit, ChainStep, PTL DEF Spec

\* Consistent: the inductive invariant about the two goroutines' memory.
THEOREM GoroutinesConsistent == Spec => []Consistent
<1>1. ChainInv => Consistent
  BY DEF ChainInv
<1> QED BY <1>1, ChainInit, ChainStep, PTL DEF Spec

\* AppendOnly: no step changes a block or moves a sealed transaction.
THEOREM HistoryIsAppendOnly == Spec => AppendOnly
<1> DEFINE Appends == /\ IsPrefix(blocks, blocks')
                      /\ \A t \in Txs : height[t] >= 0 => height'[t] = height[t]
<1>1. ChainInv /\ [Next]_vars => Appends
  <2> SUFFICES ASSUME ChainInv, [Next]_vars PROVE Appends
    OBVIOUS
  <2>1. PICK S : blocks \in Seq(S)
    BY DEF ChainInv, Sequential
  <2>2. ASSUME UNCHANGED blocks PROVE IsPrefix(blocks, blocks')
    BY <2>1, <2>2 DEF IsPrefix
  <2>3. ASSUME NEW b, blocks' = Append(blocks, b) PROVE IsPrefix(blocks, blocks')
    <3>1. /\ Len(blocks) \in Nat /\ Len(blocks') = Len(blocks) + 1
          /\ blocks' \in Seq(S \cup {b})
          /\ \A i \in 1 .. Len(blocks) : blocks'[i] = blocks[i]
      BY <2>1, <2>3, Appended
    <3>2. SubSeq(blocks', 1, Len(blocks)) = SubSeq(blocks, 1, Len(blocks))
      BY <2>1, <3>1
    <3> QED BY <3>1, <3>2 DEF IsPrefix
  <2>4. CASE CommitSeal
    BY <2>3, <2>4, SealEffect DEF PendingTransactions, Unsealed
  <2>5. CASE CreateGenesis
    BY <2>3, <2>5 DEF CreateGenesis
  <2>6. ASSUME NEW t \in Txs, Submit(t) PROVE Appends
    BY <2>2, <2>6 DEF Submit, ChainInv, TypeOK, Absent
  <2>7. CASE UNCHANGED tables
    BY <2>2, <2>7 DEF tables
  <2>8. UNCHANGED tables \/ CommitSeal \/ CreateGenesis \/ \E t \in Txs : Submit(t)
    BY DEF Next, SealerStep, ValidatorStep, Start, Stop, FindGenesis, GenesisFails,
       Tick, ReadPending, ReadLatest, CreateBlock, SealTransactions, SealFails,
       Abandon, ReadBlocks, ReadHashes, ValidationFails, vars, tables
  <2> QED BY <2>4, <2>5, <2>6, <2>7, <2>8
<1> QED BY <1>1, ChainInit, ChainStep, PTL DEF Spec, AppendOnly

\* The contents of the blocks after a step.
LEMMA ContentsAfter ==
  BlockContents' = [i \in DOMAIN blocks' |-> HashesAfter(blocks'[i].height)]
  BY DEF BlockContents, Committed, TransactionHashesByBlock, HashesAfter

\* The genesis block appears empty.
LEMMA GenesisRefines ==
  ASSUME ChainInv, CreateGenesis
  PROVE  Abstract!Genesis
<1>1. /\ blocks = << >> /\ blocks' = <<StoredGenesis>> /\ height' = height
  BY DEF ChainInv, Consistent, SealOK, CreateGenesis
<1>2. Len(blocks) = 0 /\ DOMAIN blocks = {} /\ DOMAIN blocks' = {1}
  BY <1>1
<1>3. height \in [Txs -> {-2, -1}]
  BY <1>2, Heights
<1>4. HashesAfter(FirstHeight) = {}
  BY <1>1, <1>3, FirstHeightAssumption DEF HashesAfter
<1>5. BlockContents = << >>
  BY <1>2 DEF BlockContents, Committed
<1>6. BlockContents' = << {} >>
  <2>1. BlockContents' = [i \in {1} |-> HashesAfter(blocks'[i].height)]
    BY <1>2, ContentsAfter
  <2>2. \A i \in {1} : HashesAfter(blocks'[i].height) = {}
    BY <1>1, <1>4, GenesisBlock
  <2>3. [i \in {1} |-> HashesAfter(blocks'[i].height)] = [i \in {1} |-> {}]
    BY <2>2
  <2>4. [i \in {1} |-> {}] = << {} >>
    OBVIOUS
  <2> QED BY <2>1, <2>3, <2>4
<1>7. PendingTransactions' = PendingTransactions
  BY <1>1 DEF PendingTransactions
<1> QED BY <1>5, <1>6, <1>7 DEF Abstract!Genesis

\* An arriving transaction is one nobody has seen.
LEMMA SubmitRefines ==
  ASSUME ChainInv, NEW t \in Txs, Submit(t)
  PROVE  Abstract!Arrive(t)
<1>1. /\ height[t] = -2 /\ height' = [height EXCEPT ![t] = -1] /\ blocks' = blocks
  BY DEF Submit, Absent, Unsealed
<1>2. /\ height \in [Txs -> {-2, -1} \cup FirstHeight .. FirstHeight + Len(blocks) - 1]
      /\ \A i \in DOMAIN blocks : blocks[i].height \in Nat \ {0}
  BY Heights
<1>3. \A i \in DOMAIN blocks :
        HashesAfter(blocks[i].height) = TransactionHashesByBlock(blocks[i].height)
  BY <1>1, <1>2 DEF HashesAfter, TransactionHashesByBlock
<1>4. BlockContents' = BlockContents
  BY <1>1, <1>3, ContentsAfter DEF BlockContents, Committed
<1>5. PendingTransactions' = PendingTransactions \cup {t}
  BY <1>1, <1>2 DEF PendingTransactions, Unsealed
<1>6. t \notin PendingTransactions
  BY <1>1 DEF PendingTransactions, Unsealed
<1>7. t \notin Abstract!Sealed
  BY <1>1, <1>2 DEF Abstract!Sealed, BlockContents, Committed, TransactionHashesByBlock
<1> QED BY <1>4, <1>5, <1>6, <1>7 DEF Abstract!Arrive

\* The commit of a seal moves exactly what the seal read, in one step.
LEMMA CommitRefines ==
  ASSUME ChainInv, CommitSeal
  PROVE  Abstract!Seal(tx.sealed)
<1> DEFINE n == Len(blocks)
<1>1. /\ n \in Nat \ {0} /\ blocks' = Append(blocks, tx.block)
      /\ tx.block.height = FirstHeight + n
      /\ \A t \in Txs : height'[t] = IF t \in tx.sealed THEN FirstHeight + n
                                                         ELSE height[t]
      /\ tx.sealed \subseteq PendingTransactions
  BY SealEffect
<1>2. PICK S : blocks \in Seq(S)
  BY DEF ChainInv, Sequential
<1>3. /\ DOMAIN blocks = 1 .. n /\ DOMAIN blocks' = 1 .. n + 1
      /\ \A i \in 1 .. n : blocks'[i] = blocks[i]
      /\ blocks'[n + 1] = tx.block
  <2> DEFINE b == tx.block
  <2>1. blocks' = Append(blocks, b)
    BY <1>1
  <2> HIDE DEF b
  <2>2. /\ DOMAIN blocks = 1 .. n /\ DOMAIN blocks' = 1 .. n + 1
        /\ \A i \in 1 .. n : blocks'[i] = blocks[i]
        /\ blocks'[n + 1] = b
    BY <1>2, <2>1, Appended
  <2> QED BY <2>2 DEF b
<1>4. /\ \A i \in 1 .. n : HashesAfter(blocks'[i].height)
                              = TransactionHashesByBlock(blocks[i].height)
      /\ HashesAfter(blocks'[n + 1].height) = tx.sealed
  BY <1>1, <1>3, SealedStay
<1>5. BlockContents' = Append(BlockContents, tx.sealed)
  <2> DEFINE old == BlockContents
  <2>1. old = [i \in 1 .. n |-> TransactionHashesByBlock(blocks[i].height)]
    BY <1>3 DEF BlockContents, Committed
  <2>2. old \in Seq(SUBSET Txs) /\ Len(old) = n
    BY <1>1, <2>1 DEF TransactionHashesByBlock
  <2>3. \A i \in 1 .. n : old[i] = HashesAfter(blocks'[i].height)
    BY <1>4, <2>1
  <2>4. BlockContents' = [i \in 1 .. n + 1 |-> HashesAfter(blocks'[i].height)]
    BY <1>3, ContentsAfter
  <2>5. \A i \in 1 .. n + 1 : HashesAfter(blocks'[i].height)
                                = IF i <= n THEN old[i] ELSE tx.sealed
    BY <1>1, <1>4, <2>3
  <2>6. BlockContents' = [i \in 1 .. n + 1 |-> IF i <= n THEN old[i] ELSE tx.sealed]
    BY <2>4, <2>5
  <2> HIDE DEF old
  <2>7. Append(old, tx.sealed)
          = [i \in 1 .. n + 1 |-> IF i <= n THEN old[i] ELSE tx.sealed]
    BY <1>1, <2>2
  <2> QED BY <2>6, <2>7 DEF old
<1>6. PendingTransactions' = PendingTransactions \ tx.sealed
  BY <1>1, FirstHeightAssumption DEF PendingTransactions, Unsealed
<1>7. BlockContents # << >>
  BY <1>1, <1>3 DEF BlockContents, Committed
<1> QED BY <1>1, <1>5, <1>6, <1>7 DEF Abstract!Seal

\* ImplementsAbstractChain: whatever the sealer, the validation, arriving
\* transactions and restarts do between two statements, the tables change the way
\* the abstract chain does, for any number of transactions and blocks.
THEOREM ChainRefinement == Spec => ImplementsAbstractChain
<1>1. Init => Abstract!Init
  <2> SUFFICES ASSUME Init PROVE Abstract!Init
    OBVIOUS
  <2>1. blocks = << >> /\ DOMAIN << >> = {}
    BY DEF Init
  <2>2. BlockContents = << >>
    BY <2>1 DEF BlockContents, Committed
  <2>3. PendingTransactions = {}
    BY DEF Init, PendingTransactions, Absent, Unsealed
  <2> QED BY <2>2, <2>3 DEF Abstract!Init
<1>2. ChainInv /\ [Next]_vars => [Abstract!Next]_Abstract!vars
  <2> SUFFICES ASSUME ChainInv, [Next]_vars
               PROVE  Abstract!Next \/ UNCHANGED <<BlockContents, PendingTransactions>>
    BY DEF Abstract!vars
  <2>1. CASE CommitSeal
    <3>1. tx.sealed \in SUBSET Txs
      BY DEF ChainInv, TypeOK
    <3> QED BY <2>1, <3>1, CommitRefines DEF Abstract!Next
  <2>2. CASE CreateGenesis
    BY <2>2, GenesisRefines DEF Abstract!Next
  <2>3. ASSUME NEW t \in Txs, Submit(t) PROVE Abstract!Next
    BY <2>3, SubmitRefines DEF Abstract!Next
  <2>4. CASE UNCHANGED tables
    BY <2>4 DEF tables, BlockContents, Committed, PendingTransactions,
       TransactionHashesByBlock
  <2>5. UNCHANGED tables \/ CommitSeal \/ CreateGenesis \/ \E t \in Txs : Submit(t)
    BY DEF Next, SealerStep, ValidatorStep, Start, Stop, FindGenesis, GenesisFails,
       Tick, ReadPending, ReadLatest, CreateBlock, SealTransactions, SealFails,
       Abandon, ReadBlocks, ReadHashes, ValidationFails, vars, tables
  <2> QED BY <2>1, <2>2, <2>3, <2>4, <2>5
<1> QED BY <1>1, <1>2, ChainInit, ChainStep, PTL
        DEF Spec, ImplementsAbstractChain, Abstract!Spec
=============================================================================
