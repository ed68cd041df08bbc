---------------------------- MODULE LedgerTables ----------------------------
(***************************************************************************)
(* The committed tables of the Ledger and what one committed submission    *)
(* does to them.                                                           *)
(*                                                                         *)
(* A submission reads its two rows with plain SELECTs: the FOR UPDATE that *)
(* FindOrCreate asks for with Set("gorm:query_option", ...) is an option   *)
(* of GORM v1 that v2, the one used, does not read.  So the rows are those *)
(* of some instants while the submission was under way, and other          *)
(* submissions may have committed since.  past and stale are history       *)
(* variables: they say what the tables were and where such a submission    *)
(* wrote over newer rows.                                                  *)
(***************************************************************************)
EXTENDS LedgerData

VARIABLES players,      \* the players table
          txs,          \* the journal: the transactions table, oldest first
          authorities,  \* the registered minting authorities
          past,         \* history: the players table before each commit
          stale         \* history: accounts whose row was ever written from a copy
                        \* that was no longer the committed row

ledger == <<players, txs, authorities, past, stale>>

Rows == [Accounts -> Row \cup {NoRow}]

\* The types; the history has the table before every commit.
TablesOK == /\ players \in Rows
            /\ txs \in Seq(Request)
            /\ authorities \subseteq Accounts
            /\ past \in Seq(Rows) /\ Len(past) = Len(txs)
            /\ stale \subseteq Accounts

TablesInit == /\ players = [a \in Accounts |-> NoRow]
              /\ txs = << >>
              /\ authorities = {GenesisAuthority}
              /\ past = << >>
              /\ stale = {}

-----------------------------------------------------------------------------
\* The players table after n commits.
Table(n) == IF n < Len(txs) THEN past[n + 1] ELSE players

\* What the two reads of r can have found if it came in after n commits: the sender's
\* row first, then the receiver's.
Reads(r, n) ==
  UNION {{[sender |-> Table(i)[r.sender], receiver |-> Table(j)[r.receiver]] :
            j \in i .. Len(txs)} : i \in n .. Len(txs)}

\* The accounts of r whose row is not, or no longer, the copy that was read.
Overtaken(r, copy) ==
  {r[role] : role \in {x \in Roles : copy[x] # RowOrZero(players[r[x]])}}

Admitted(r) == WithinLimits(r) /\ Authorised(r, authorities)

\* A row that was not found is inserted, which fails if it has come into being.
Insertable(r, found) == \A role \in Roles :
                          found[role] = NoRow => players[r[role]] = NoRow

Found(found) == [role \in Roles |-> RowOrZero(found[role])]

\* The commit: both rows, computed from the copies, and the journal record.
Write(r, copy) ==
  LET new == Settled(r, copy["sender"], copy["receiver"])
  IN  /\ players' = [players EXCEPT ![r[FirstSaved(r)]] = new[FirstSaved(r)],
                                    ![r[LastSaved(r)]]  = new[LastSaved(r)]]
      /\ txs' = Append(txs, r)
      /\ past' = Append(past, players)
      /\ stale' = stale \cup Overtaken(r, copy)
      /\ UNCHANGED authorities

SettleFrom(r, found) == /\ Admitted(r)
                        /\ Accepts(r, Found(found)["sender"])
                        /\ Insertable(r, found)
                        /\ Write(r, Found(found))

\* The submission r, which came in after n commits, commits; and what lets the
\* Ledger turn it down.
Settle(r, n)    == \E found \in Reads(r, n) : SettleFrom(r, found)
Refusable(r, n) == \E found \in Reads(r, n) :
                     ~ /\ Admitted(r)
                       /\ Accepts(r, Found(found)["sender"])
                       /\ Insertable(r, found)

-----------------------------------------------------------------------------
\* Every nonce in the journal is spent, for the senders whose rows were never
\* written from a stale copy.
NoncesSpent ==
  \A i \in DOMAIN txs :
    txs[i].sender \notin stale =>
      txs[i].nonce < RowOrZero(players[txs[i].sender]).nonce
=============================================================================
