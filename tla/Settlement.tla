----------------------------- MODULE Settlement -----------------------------
(***************************************************************************)
(* The arithmetic of one submission between two accounts: checks,          *)
(* conversions, engine call and new rows, from every amount, balance and   *)
(* type.  Channels do not interact, so one is enough, and the checks can   *)
(* run at the real width of a channel.                                     *)
(***************************************************************************)
EXTENDS LedgerData

CONSTANTS SenderBalances, ReceiverBalances,   \* balances to start from
          Unsettled                           \* nothing computed yet

ASSUME BalanceAssumption == /\ SenderBalances \subseteq 0 .. MaxToken
                            /\ ReceiverBalances \subseteq 0 .. MaxToken

VARIABLES r,      \* the request
          read,   \* the rows FindOrCreate returned, by role
          saved   \* the rows UpdateBalance is called with, by role

vars == <<r, read, saved>>

Rows(balances) == {[tokens |-> t, nonce |-> 0] : t \in [Channels -> balances]}

Init == /\ r \in {q \in Request : q.sender # q.receiver /\ q.nonce = 0}
        /\ read \in [sender : Rows(SenderBalances), receiver : Rows(ReceiverBalances)]
        /\ saved = Unsettled

Settle == /\ saved = Unsettled
          /\ WithinLimits(r)
          /\ Accepts(r, read.sender)
          /\ saved' = Settled(r, read.sender, read.receiver)
          /\ UNCHANGED <<r, read>>

Spec == Init /\ [][Settle]_vars

-----------------------------------------------------------------------------
\* The books of a settlement, in plain integers: the receiver gets the amount,
\* up to a full channel; a transfer takes the whole amount from the sender and
\* a mint takes nothing.  No int8, uint8 or int16 conversion on the way shows,
\* because the checks admit only amounts that survive them.
BooksBalance ==
  saved # Unsettled =>
    \A c \in Channels :
      LET owed == read.receiver.tokens[c] + r.amount[c]
          paid == IF r.type = "MINT" THEN 0 ELSE r.amount[c]
      IN  /\ saved.receiver.tokens[c] = IF owed <= MaxToken THEN owed ELSE MaxToken
          /\ saved.sender.tokens[c] = read.sender.tokens[c] - paid
=============================================================================
