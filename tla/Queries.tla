------------------------------ MODULE Queries ------------------------------
(***************************************************************************)
(* The read handlers of the Ledger node.  A handler runs its SQL           *)
(* statements one after the other without a transaction, so submissions    *)
(* and seals are committed between them; it answers with what all of them  *)
(* returned.  The tables are those of the ledger and of the abstract       *)
(* chain; a transaction is named by its place in the journal, a block by   *)
(* its height, and the first row has FirstHeight (see Chain).              *)
(***************************************************************************)
EXTENDS LedgerTables, FiniteSets, SequencesExt

CONSTANTS HistoryMax, HistoryDefault,    \* 100 and 20 records
          PageMax, PageDefault,          \* 50 and 10 blocks
          TopMax, TopDefault,            \* 100 and 10 players
          Wrap,                          \* 2^32: offsets are uint32 products
          FirstHeight,                   \* the height the genesis row is given
          MaxTxs                         \* bound: transactions

ASSUME QueriesAssumption ==
  /\ HistoryDefault \in 1 .. HistoryMax /\ PageDefault \in 1 .. PageMax
  /\ TopDefault \in 1 .. TopMax
  /\ Wrap \in Nat \ {0} /\ FirstHeight \in Nat \ {0} /\ MaxTxs \in Nat

VARIABLES chain, pending,   \* the abstract chain
          call              \* the handler that runs for the client

blocks == <<chain, pending>>

Blocks == INSTANCE AbstractChain WITH Txs <- 1 .. MaxTxs, chain <- chain,
                                      pending <- pending

-----------------------------------------------------------------------------
\* A call: its arguments, the statements still to run, the results so far by the
\* name of their statement.
Call(op, arg, todo) == [op |-> op, arg |-> arg, todo |-> todo, got |-> << >>]

\* No handler is running.
NoCall == Call("none", << >>, << >>)

\* Mutants: GetChainStats counts in another order, GetTransactionHistory and
\* ListBlocks count after they have read the rows.
GetChainStatsSwapped ==
  Call("stats", << >>, <<"latest", "total", "unsealed", "accounts">>)
GetTransactionHistoryCountedLast(a, limit, offset) ==
  Call("history", [player |-> a, limit |-> limit, offset |-> offset],
       <<"records", "count">>)
ListBlocksCountedLast(page, size) ==
  Call("list", [page |-> page, size |-> size], <<"heights", "height">>)

\* The handlers, by the order of their statements.
GetBalance(a) == Call("balance", [player |-> a], <<"row">>)
GetTransactionHistory(a, limit, offset) ==
  Call("history", [player |-> a, limit |-> limit, offset |-> offset],
       <<"count", "records">>)
GetChainStats ==
  Call("stats", << >>, <<"latest", "unsealed", "total", "accounts">>)
GetBlock(h) == Call("block", [height |-> h], <<"block">>)
ListBlocks(page, size) ==
  Call("list", [page |-> page, size |-> size], <<"height", "heights">>)
GetLeaderboard(top, by) ==
  Call("leaderboard", [top |-> top, by |-> by], <<"entries">>)

Running  == call.todo # << >>
Answered == call.op # "none" /\ ~Running

With(got, name, v) ==
  [n \in DOMAIN got \cup {name} |-> IF n = name THEN v ELSE got[n]]

\* The next statement of the call is the one named so, and returns v.
Due(name)        == Running /\ Head(call.todo) = name
Returns(name, v) == /\ call' = [call EXCEPT !.todo = Tail(@),
                                            !.got = With(@, name, v)]
                    /\ UNCHANGED <<ledger, blocks>>

\* A page size the repository accepts: nothing, or too much, is the default.
Limited(n, max, default) == IF n = 0 \/ n > max THEN default ELSE n

-----------------------------------------------------------------------------
\* The statements on players and transactions.
Stored == {a \in Accounts : players[a] # NoRow}

Find == /\ Due("row")
        /\ Returns("row", RowOrZero(players[call.arg.player]))

Count == Due("accounts") /\ Returns("accounts", Cardinality(Stored))

Score(a, by) == IF by \in Channels THEN players[a].tokens[by]
                ELSE MapThenSumSet(LAMBDA c : players[a].tokens[c], Channels)

\* ORDER BY one column, LIMIT: players with equal scores come in any order.
LeaderboardQuery ==
  /\ Due("entries")
  /\ \E ranked \in SetToSeqs(Stored) :
       /\ \A i \in 1 .. Len(ranked) - 1 :
            Score(ranked[i], call.arg.by) >= Score(ranked[i + 1], call.arg.by)
       /\ Returns("entries",
            [i \in 1 .. Min({Len(ranked), Limited(call.arg.top, TopMax, TopDefault)})
               |-> [player |-> ranked[i], row |-> players[ranked[i]]]])

\* The heights there are, the transactions of the block at one of them, and the
\* height of the tip, which is 0 as long as there is no block.
Heights    == FirstHeight .. FirstHeight + Len(chain) - 1
BlockAt(h) == chain[h - FirstHeight + 1]
Tip        == IF chain = << >> THEN 0 ELSE FirstHeight + Len(chain) - 1

\* The transactions of an account, and the block_height column: -1 for NULL.
InvolvedIn(a)  == {i \in DOMAIN txs : a \in {txs[i].sender, txs[i].receiver}}
BlockHeight(i) == IF i \in pending THEN -1
                  ELSE CHOOSE h \in Heights : i \in BlockAt(h)

CountByPlayer == /\ Due("count")
                 /\ Returns("count", Cardinality(InvolvedIn(call.arg.player)))

\* ORDER BY timestamp, LIMIT, OFFSET.  Timestamps count seconds: which of the
\* records of one second make the page is open.
FindByPlayer ==
  /\ Due("records")
  /\ LET found == InvolvedIn(call.arg.player)
         limit == Limited(call.arg.limit, HistoryMax, HistoryDefault)
         left  == Max({0, Cardinality(found) - call.arg.offset})
     IN  \E page \in kSubset(Min({limit, left}), found) :
           Returns("records", {[tx |-> i, height |-> BlockHeight(i)] : i \in page})

CountAll     == Due("total") /\ Returns("total", Len(txs))
CountPending == Due("unsealed") /\ Returns("unsealed", Cardinality(pending))

-----------------------------------------------------------------------------
\* The statements on blocks.
LatestBlock == Due("latest") /\ Returns("latest", Tip)
CountBlocks == Due("height") /\ Returns("height", Len(chain))

\* Blocks found: their hashes are read by one statement each.
ReturnsBlocks(heights) ==
  /\ call' = [call EXCEPT !.todo = Tail(@) \o [i \in DOMAIN heights |-> "hashes"],
                          !.got = With(With(@, "heights", heights), "hashes", << >>)]
  /\ UNCHANGED <<ledger, blocks>>

GetByHeight == /\ Due("block")
               /\ ReturnsBlocks(IF call.arg.height \in Heights
                                  THEN <<call.arg.height>> ELSE << >>)

\* page * pageSize in uint32.
Offset(page, size) == (page * size) % Wrap

PageSize == Limited(call.arg.size, PageMax, PageDefault)

ListBlocksQuery ==
  /\ Due("heights")
  /\ LET first == Offset(call.arg.page, PageSize)
         rows  == Min({PageSize, Max({0, Len(chain) - first})})
     IN  ReturnsBlocks([i \in 1 .. rows |-> FirstHeight + first + i - 1])

TransactionHashesByBlock ==
  /\ Due("hashes")
  /\ LET h == call.got.heights[Len(call.got.hashes) + 1]
     IN  Returns("hashes", Append(call.got.hashes, BlockAt(h)))

Statement == \/ Find \/ Count \/ LeaderboardQuery
             \/ CountByPlayer \/ FindByPlayer \/ CountAll \/ CountPending
             \/ LatestBlock \/ CountBlocks \/ GetByHeight \/ ListBlocksQuery
             \/ TransactionHashesByBlock

-----------------------------------------------------------------------------
\* The statistics never account for less than there is: transactions less pending
\* ones are at least those up to the reported block, and every party of a counted
\* transaction is among the counted players.  GetChainStats owes it to the order
\* of its statements, each later one counting what may only have grown.
StatsAccountFor ==
  Answered /\ call.op = "stats" =>
    LET shown == call.got
    IN  /\ shown.total - shown.unsealed
             >= Cardinality(UNION {BlockAt(h) : h \in FirstHeight .. shown.latest})
        /\ shown.accounts >= Cardinality(UNION {{txs[i].sender, txs[i].receiver} :
                                                  i \in 1 .. shown.total})

\* A page of the history is as full as the total it is shown with requires, and
\* a block it names for a transaction is and remains the block of that
\* transaction.
HistoryHolds ==
  Answered /\ call.op = "history" =>
    LET limit == Limited(call.arg.limit, HistoryMax, HistoryDefault)
    IN  /\ Cardinality(call.got.records)
             >= Min({limit, call.got.count - call.arg.offset})
        /\ \A r \in call.got.records :
             /\ call.arg.player \in {txs[r.tx].sender, txs[r.tx].receiver}
             /\ r.height # -1 => r.height = BlockHeight(r.tx)

\* A page of blocks shows consecutive blocks from its place in the chain, no less
\* of them than the total it is shown with requires and each with all of its
\* transactions, although they are read one block after the other; as long as
\* the place fits in 32 bits.
BlocksHold ==
  /\ Answered /\ call.op \in {"list", "block"} =>
       /\ Len(call.got.hashes) = Len(call.got.heights)
       /\ \A i \in DOMAIN call.got.heights :
            call.got.hashes[i] = BlockAt(call.got.heights[i])
  /\ Answered /\ call.op = "list" /\ call.arg.page * PageSize < Wrap =>
       LET first == call.arg.page * PageSize
       IN  /\ \A i \in DOMAIN call.got.heights :
                call.got.heights[i] = FirstHeight + first + i - 1
           /\ Len(call.got.heights) >= Min({PageSize, call.got.height - first})
=============================================================================
