----------------------------- MODULE LedgerData -----------------------------
(***************************************************************************)
(* What LedgerService.SubmitTransaction computes from a request and the    *)
(* two player rows it read, before it writes anything: the checks and the  *)
(* new rows.  LedgerTables says what a commit makes of it, Ledger executes *)
(* it statement by statement.                                              *)
(***************************************************************************)
EXTENDS Engine, Sequences

CONSTANTS Accounts,          \* player and authority ids
          GenesisAuthority,  \* the authority seeded at start-up
          MaxMint,           \* the cap of a MINT per channel: 127
          Amounts,           \* the amounts a payload may name
          Nonces,            \* the nonces a payload may name
          NoRow              \* "record not found"

ASSUME AccountsAssumption == GenesisAuthority \in Accounts
ASSUME MintAssumption     == MaxMint \in Nat /\ 2 * MaxMint <= MaxToken
ASSUME InputAssumption    == Amounts \subseteq Nat /\ Nonces \subseteq Nat

-----------------------------------------------------------------------------
Row     == [tokens : [Channels -> 0 .. MaxToken], nonce : Nat]
ZeroRow == [tokens |-> [c \in Channels |-> 0], nonce |-> 0]

ASSUME NoRowAssumption == NoRow \notin Row

Request == [type : {"MINT", "TRANSFER"}, sender : Accounts,
            receiver : Accounts, amount : [Channels -> Amounts],
            nonce : Nonces]
Roles   == {"sender", "receiver"}

\* Reading a row that does not exist creates it with zeros.
RowOrZero(row) == IF row = NoRow THEN ZeroRow ELSE row

-----------------------------------------------------------------------------
\* Mutant of MaxAmount: a mint may fill the channel, like a transfer.
MaxAmountUncapped(r) == MaxToken

\* The gRPC adapter and the service turn these away before any statement runs.
MaxAmount(r) == IF r.type = "MINT" THEN MaxMint ELSE MaxToken

WithinLimits(r) == \A c \in Channels : r.amount[c] <= MaxAmount(r)

Authorised(r, registered) == r.type = "MINT" => r.sender \in registered

\* Mutants of Funded and Accepts: the balance is not checked; a spent nonce is
\* taken again.
FundedUnchecked(r, snd) == TRUE
AcceptsOldNonce(r, snd) ==
  /\ r.nonce <= snd.nonce
  /\ r.type = "TRANSFER" => \A c \in Channels : r.amount[c] <= snd.tokens[c]

\* The checks made inside the database transaction, on the rows it read.
Funded(r, snd) ==
  r.type = "TRANSFER" => \A c \in Channels : r.amount[c] <= snd.tokens[c]

Accepts(r, snd) == snd.nonce = r.nonce /\ Funded(r, snd)

-----------------------------------------------------------------------------
\* The receiver's columns pass through uint8() on their way to the engine.
AsPlayerState(row) ==
  [row EXCEPT !.tokens = [c \in Channels |-> Uint8(row.tokens[c])]]

SettledMint(r, snd, rcv) ==
  [receiver |-> PlayerCompleteMission(AsPlayerState(rcv),
                                [c \in Channels |-> Int8(r.amount[c])]),
   sender   |-> [snd EXCEPT !.nonce = @ + 1]]

\* Mutant of SettledTransfer: the sender keeps what was sent.
SettledUndebited(r, snd, rcv) ==
  LET after == PlayerTransactions(
                 [tokens |-> [c \in Channels |-> Uint8(r.amount[c])],
                  nonce  |-> snd.nonce],
                 AsPlayerState(rcv))
  IN  [sender   |-> [snd EXCEPT !.nonce = after.from.nonce],
       receiver |-> after.to]

SettledTransfer(r, snd, rcv) ==
  LET after == PlayerTransactions(
                 [tokens |-> [c \in Channels |-> Uint8(r.amount[c])],
                  nonce  |-> snd.nonce],
                 AsPlayerState(rcv))
  IN  [sender   |-> [tokens |-> [c \in Channels |->
                                   snd.tokens[c] - r.amount[c]],
                     nonce  |-> after.from.nonce],
       receiver |-> after.to]

\* The two rows to be saved, by role.
Settled(r, snd, rcv) == IF r.type = "MINT" THEN SettledMint(r, snd, rcv)
                                           ELSE SettledTransfer(r, snd, rcv)

\* The order of the two saves.  When sender and receiver are one account the
\* second save overwrites the first.
FirstSaved(r) == IF r.type = "MINT" THEN "receiver" ELSE "sender"
LastSaved(r)  == IF r.type = "MINT" THEN "sender" ELSE "receiver"
=============================================================================
