------------------------------- MODULE Chain -------------------------------
(***************************************************************************)
(* The block chain of the Ledger node: the BlockSealer goroutine, which    *)
(* moves committed transactions into blocks, the chain validation that     *)
(* runs at start-up beside it, and the handlers that append transactions.  *)
(*                                                                         *)
(* Every action is one SQL statement.  The statements of a seal share a    *)
(* READ COMMITTED transaction: their writes show only after its commit.    *)
(* Timestamps and the proof of work are left out: both only vary a hash.   *)
(***************************************************************************)
EXTENDS Merkle

CONSTANTS Txs,        \* transaction hashes: distinct numbers, finitely many
          FirstHeight, \* the number the database gives a block inserted without one
          MaxBlocks,  \* bound: no empty block is sealed from here on
          NoBlock     \* nil

ASSUME TxsAssumption == Txs \subseteq Nat /\ IsFiniteSet(Txs) /\ MaxBlocks \in Nat

\* The blocks sequence of the database starts at 1; a failed insert uses a number up.
ASSUME FirstHeightAssumption == FirstHeight \in Nat \ {0}

VARIABLES blocks,     \* the blocks table by ascending height, the genesis first
          height,     \* the block_height column of the transactions table
          sealer,     \* what the sealer does next
          tx,         \* what its open transaction has read and written
          validator,  \* what the start-up validation does next
          loaded,     \* the blocks the validation has read
          hashesAt    \* the transaction hashes it has read, by block

tables == <<blocks, height>>
seal   == <<sealer, tx>>
check  == <<validator, loaded, hashesAt>>
vars   == <<blocks, height, sealer, tx, validator, loaded, hashesAt>>

Absent   == -2   \* no such row
Unsealed == -1   \* block_height IS NULL

\* pending and latest are the locals of seal, block and sealed its uncommitted
\* writes: the inserted block and the transactions put into it.
NoTx == [pending |-> {}, latest |-> NoBlock, block |-> NoBlock, sealed |-> {}]

Sealing == {"readPending", "readLatest", "createBlock", "sealTxs", "commit"}
SealerStates == {"down", "findGenesis", "createGenesis", "waiting"} \cup Sealing
ValidatorStates == {"down", "readBlocks", "readHashes", "passed", "failed",
                    "unreadable"}

-----------------------------------------------------------------------------
\* computeBlockHash: the term that is hashed.
ComputeBlockHash(b) == <<b.height, b.prevHash, b.merkleRoot>>

GenesisBlockPrevHash == << >>

\* A mined block.
Mine(b) == [height |-> b.height, prevHash |-> b.prevHash,
            merkleRoot |-> b.merkleRoot, hash |-> ComputeBlockHash(b)]

\* The root sorts its input, so the row order of the query does not matter: a table
\* with a row for every set of transactions.
MerkleRoots == {<<txs, BuildMerkleRoot(SetToSeq(txs))>> : txs \in SUBSET Txs}
TxsRoot(txs) == (CHOOSE row \in MerkleRoots : row[1] = txs)[2]

\* The genesis block as ensureGenesis mines it, and the row CreateBlock makes of
\* it: height is the table's only integer primary key, so GORM takes its zero for
\* "not given", leaves the column out and the database numbers the row.  The hash
\* stays the one of height 0.
Genesis == Mine([height |-> 0, prevHash |-> GenesisBlockPrevHash,
                 merkleRoot |-> TxsRoot({})])
StoredGenesis == [Genesis EXCEPT !.height = FirstHeight]

\* Mutant of NextBlock: the height is not advanced.
NextBlockSameHeight(prev, txs) ==
  Mine([height |-> prev.height, prevHash |-> prev.hash, merkleRoot |-> TxsRoot(txs)])

NextBlock(prev, txs) == Mine([height |-> prev.height + 1, prevHash |-> prev.hash,
                              merkleRoot |-> TxsRoot(txs)])

\* Mutants of PendingTransactions: sealed transactions are pending, too; and of
\* LatestBlock: ascending instead of descending order.
PendingUnfiltered == {t \in Txs : height[t] # Absent}
LatestBlockFirst  == IF blocks = << >> THEN NoBlock ELSE Head(blocks)

\* The repository's queries, on the committed tables.
PendingTransactions == {t \in Txs : height[t] = Unsealed}
TransactionHashesByBlock(h) == {t \in Txs : height[t] = h}
LatestBlock == IF blocks = << >> THEN NoBlock ELSE Last(blocks)

\* chain.ValidateChain on blocks bs and the transactions found at each height.
ValidBlock(bs, found, i) ==
  /\ bs[i].hash = ComputeBlockHash(bs[i])
  /\ bs[i].prevHash = IF i = 1 THEN GenesisBlockPrevHash ELSE bs[i - 1].hash
  /\ bs[i].merkleRoot = TxsRoot(found[i])

Broken(bs, found) == {i \in DOMAIN bs : ~ValidBlock(bs, found, i)}
ValidChain(bs, found) == Broken(bs, found) = {}

-----------------------------------------------------------------------------
Init == /\ blocks = << >>
        /\ height = [t \in Txs |-> Absent]
        /\ sealer = "down" /\ tx = NoTx
        /\ validator = "down" /\ loaded = << >> /\ hashesAt = << >>

\* startBackground: the sealer goroutine starts, the validation runs beside it.
Start == /\ sealer = "down"
         /\ sealer' = "findGenesis"
         /\ validator' = "readBlocks"
         /\ UNCHANGED <<tables, tx, loaded, hashesAt>>

\* The node stops anywhere; an open transaction is rolled back.
Stop == /\ sealer # "down"
        /\ sealer' = "down" /\ tx' = NoTx
        /\ validator' = "down" /\ loaded' = << >> /\ hashesAt' = << >>
        /\ UNCHANGED tables

\* The gRPC server is started when the validation has returned, whatever it
\* found.  A handler then commits a transaction under a fresh hash.
Submit(t) == /\ validator \in {"passed", "failed", "unreadable"}
             /\ height[t] = Absent
             /\ height' = [height EXCEPT ![t] = Unsealed]
             /\ UNCHANGED <<blocks, seal, check>>

-----------------------------------------------------------------------------
\* ensureGenesis.  Whatever it returns, the loop begins.  On the tables of the SQL
\* migrations, whose height column has no default, the insert always fails.
FindGenesis == /\ sealer = "findGenesis"
               /\ sealer' = IF blocks = << >> THEN "createGenesis" ELSE "waiting"
               /\ UNCHANGED <<tables, tx, check>>

CreateGenesis == /\ sealer = "createGenesis"
                 /\ blocks' = Append(blocks, StoredGenesis)
                 /\ sealer' = "waiting"
                 /\ UNCHANGED <<height, tx, check>>

GenesisFails == /\ sealer \in {"findGenesis", "createGenesis"}
                /\ sealer' = "waiting"
                /\ UNCHANGED <<tables, tx, check>>

\* One tick of the loop: seal's transaction, statement by statement.
Tick == /\ sealer = "waiting"
        /\ PendingTransactions # {} \/ Len(blocks) < MaxBlocks
        /\ sealer' = "readPending"
        /\ UNCHANGED <<tables, tx, check>>

ReadPending == /\ sealer = "readPending"
               /\ tx' = [tx EXCEPT !.pending = PendingTransactions]
               /\ sealer' = "readLatest"
               /\ UNCHANGED <<tables, check>>

\* Mutant of Abandon: the block was inserted outside the transaction.
AbandonKeepingBlock ==
  /\ sealer' = "waiting"
  /\ tx' = NoTx
  /\ blocks' = IF tx.block = NoBlock THEN blocks ELSE Append(blocks, tx.block)
  /\ UNCHANGED <<height, check>>

\* Mutant of Abandon: the loop returns the error of a seal.
AbandonEndingLoop == /\ sealer' = "ended"
                     /\ tx' = NoTx
                     /\ UNCHANGED <<tables, check>>

\* The transaction is rolled back and the loop goes on.
Abandon == /\ sealer' = "waiting"
           /\ tx' = NoTx
           /\ UNCHANGED <<tables, check>>

ReadLatest == /\ sealer = "readLatest"
              /\ IF LatestBlock = NoBlock
                   THEN Abandon
                   ELSE /\ tx' = [tx EXCEPT !.latest = LatestBlock]
                        /\ sealer' = "createBlock"
                        /\ UNCHANGED <<tables, check>>

CreateBlock == /\ sealer = "createBlock"
               /\ tx' = [tx EXCEPT !.block = NextBlock(tx.latest, tx.pending)]
               /\ sealer' = IF tx.pending = {} THEN "commit" ELSE "sealTxs"
               /\ UNCHANGED <<tables, check>>

\* Mutant of SealTransactions: UPDATE ... WHERE block_height IS NULL.
SealWhateverPends == /\ sealer = "sealTxs"
                     /\ tx' = [tx EXCEPT !.sealed = PendingTransactions]
                     /\ sealer' = "commit"
                     /\ UNCHANGED <<tables, check>>

\* Mutant of SealTransactions: the UPDATE runs outside the transaction.
SealOutsideTransaction ==
  /\ sealer = "sealTxs"
  /\ tx' = [tx EXCEPT !.sealed = tx.pending]
  /\ height' = [t \in Txs |-> IF t \in tx.pending THEN tx.block.height
                                                 ELSE height[t]]
  /\ sealer' = "commit"
  /\ UNCHANGED <<blocks, check>>

\* UPDATE transactions SET block_height WHERE hash IN (the hashes read).
SealTransactions == /\ sealer = "sealTxs"
                    /\ tx' = [tx EXCEPT !.sealed = tx.pending]
                    /\ sealer' = "commit"
                    /\ UNCHANGED <<tables, check>>

\* What the transaction wrote becomes visible, all at once.
CommitSeal == /\ sealer = "commit"
              /\ blocks' = Append(blocks, tx.block)
              /\ height' = [t \in Txs |-> IF t \in tx.sealed THEN tx.block.height
                                                            ELSE height[t]]
              /\ sealer' = "waiting"
              /\ tx' = NoTx
              /\ UNCHANGED check

SealFails == sealer \in Sealing /\ Abandon

-----------------------------------------------------------------------------
\* LedgerService.ValidateChain: the blocks, then the transactions block by
\* block, in statements of their own.
ReadBlocks == /\ validator = "readBlocks"
              /\ loaded' = blocks
              /\ validator' = IF blocks = << >> THEN "passed" ELSE "readHashes"
              /\ UNCHANGED <<tables, seal, hashesAt>>

ReadHashes ==
  /\ validator = "readHashes"
  /\ LET block == loaded[Len(hashesAt) + 1]
     IN  hashesAt' = Append(hashesAt, TransactionHashesByBlock(block.height))
  /\ validator' = IF Len(hashesAt') < Len(loaded) THEN "readHashes"
                  ELSE IF ValidChain(loaded, hashesAt') THEN "passed"
                  ELSE "failed"
  /\ UNCHANGED <<tables, seal, loaded>>

\* A query fails, and so does the validation.
ValidationFails == /\ validator \in {"readBlocks", "readHashes"}
                   /\ validator' = "unreadable"
                   /\ UNCHANGED <<tables, seal, loaded, hashesAt>>

-----------------------------------------------------------------------------
SealerStep == \/ FindGenesis \/ CreateGenesis \/ GenesisFails
              \/ Tick \/ ReadPending \/ ReadLatest \/ CreateBlock
              \/ SealTransactions \/ CommitSeal \/ SealFails

ValidatorStep == ReadBlocks \/ ReadHashes \/ ValidationFails

Next == \/ Start \/ Stop
        \/ \E t \in Txs : Submit(t)
        \/ SealerStep
        \/ ValidatorStep

Spec == Init /\ [][Next]_vars

\* The node is restarted when it is down, the ticker ticks, and no statement of
\* the sealer that is tried again and again fails for ever, except the insert of
\* the genesis block.
Fairness == /\ WF_vars(Start)
            /\ SF_vars(FindGenesis) /\ SF_vars(Tick)
            /\ SF_vars(ReadPending) /\ SF_vars(ReadLatest)
            /\ SF_vars(CreateBlock) /\ SF_vars(SealTransactions)
            /\ SF_vars(CommitSeal)

FairSpec == Spec /\ Fairness

-----------------------------------------------------------------------------
(***************************************************************************)
(* The inductive invariant behind the properties.                          *)
(***************************************************************************)
\* The seal in progress: what it read is still true, because only the sealer
\* takes transactions out of the pending ones and only it adds blocks.
SealOK ==
  /\ sealer = "createGenesis" => blocks = << >>
  /\ sealer \notin Sealing \ {"readPending"} => tx = NoTx
  /\ sealer \in Sealing => tx.pending \subseteq PendingTransactions
  /\ sealer \in {"createBlock", "sealTxs", "commit"} =>
       blocks # << >> /\ tx.latest = Last(blocks)
  /\ sealer \in {"sealTxs", "commit"} => tx.block = NextBlock(tx.latest, tx.pending)
  /\ tx.sealed = IF sealer = "commit" THEN tx.pending ELSE {}

\* The validation in progress: its snapshots are the committed history.
ValidationOK ==
  /\ validator = "down" <=> sealer = "down"
  /\ validator \in {"down", "readBlocks"} => loaded = << >> /\ hashesAt = << >>
  /\ validator = "readHashes" => Len(hashesAt) < Len(loaded)
  /\ Len(loaded) <= Len(blocks)
  /\ \A i \in DOMAIN loaded : loaded[i] = blocks[i]
  /\ \A i \in DOMAIN hashesAt :
       hashesAt[i] = TransactionHashesByBlock(loaded[i].height)

\* Whatever one of the two goroutines holds in memory agrees with the tables.
Consistent == SealOK /\ ValidationOK

-----------------------------------------------------------------------------
\* The types.  Blocks are numbered without a gap from FirstHeight on, and a
\* transaction is only ever in a block that exists (the foreign key of the
\* transactions table).
TypeOK == /\ \A i \in DOMAIN blocks : blocks[i].height = FirstHeight + i - 1
          /\ height \in [Txs -> {Absent, Unsealed} \cup
                               FirstHeight .. FirstHeight + Len(blocks) - 1]
          /\ sealer \in SealerStates /\ validator \in ValidatorStates
          /\ tx.pending \subseteq Txs /\ tx.sealed \subseteq tx.pending
          /\ Len(hashesAt) <= Len(loaded)

\* The chain as it was mined: the table, with the height of its first row put back
\* to the 0 it was hashed with.
Mined(bs) == [i \in DOMAIN bs |-> IF i = 1 THEN [bs[i] EXCEPT !.height = 0]
                                            ELSE bs[i]]

\* Apart from the number the genesis row got, the committed chain is intact at
\* every instant, and with no other transactions than it has: every block is
\* linked to the one before it, and its Merkle root is that of the transactions
\* whose block_height names it and of no others, although transactions keep
\* arriving while a block is put together.
Committed == [i \in DOMAIN blocks |-> TransactionHashesByBlock(blocks[i].height)]

ChainIntegrity ==
  \A i \in DOMAIN blocks, S \in SUBSET Txs :
    ValidBlock(Mined(blocks), [Committed EXCEPT ![i] = S], i) <=> S = Committed[i]


\* What the validation can conclude: it passes an empty table and nothing else, and
\* when it fails the genesis row is the one block at fault.  The blocks behind it,
\* read statement by statement while the sealer goes on sealing, are never
\* reported by mistake.
BlamesGenesisAlone ==
  /\ validator = "passed" => loaded = << >>
  /\ validator = "failed" => Broken(loaded, hashesAt) = {1}

\* History is append-only: no block is changed or dropped, and a sealed
\* transaction stays in its block, over any number of restarts.
AppendOnly == [][ /\ IsPrefix(blocks, blocks')
                  /\ \A t \in Txs : height[t] >= 0 => height'[t] = height[t]
                ]_vars

\* The chain implements the abstract one: at every commit the block that appears
\* takes its transactions out of the pending ones in the same instant, none is in
\* two blocks or in none, and blocks keep what they have, whatever arrives, fails
\* or restarts between the statements of a seal.
BlockContents == Committed
Abstract == INSTANCE AbstractChain WITH chain <- BlockContents,
                                        pending <- PendingTransactions
ImplementsAbstractChain == Abstract!Spec

\* Once there is a genesis block every transaction gets into a block, however
\* often a seal fails or the node restarts.
PendingIsSealed ==
  \A t \in Txs : (height[t] = Unsealed /\ blocks # << >>) ~> height[t] >= 0
=============================================================================
