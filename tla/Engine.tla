------------------------------- MODULE Engine -------------------------------
(***************************************************************************)
(* The game calculation rules of internal/domain/engine/engine.go, on one  *)
(* player state [tokens |-> [Channels -> Nat], nonce |-> Nat].             *)
(*                                                                         *)
(* The code fixes the channel width at eight bits.  Here the largest       *)
(* uint8 is the constant MaxToken, so that a small instance overflows and  *)
(* clamps where the code does; MCFunctions runs at the real width, 255.    *)
(***************************************************************************)
EXTENDS Integers

CONSTANTS Channels,    \* the token colours: red, green, blue
          MaxToken     \* the largest value of a uint8 channel: 255

ASSUME MaxTokenAssumption == MaxToken \in Nat \ {0}

-----------------------------------------------------------------------------
\* Go's conversions: they keep the low-order bits, silently.
Uint8(n) == n % (MaxToken + 1)

Int8(n) == LET low == Uint8(n)
           IN  IF 2 * low > MaxToken THEN low - (MaxToken + 1) ELSE low

\* clampUint8: v cut off at both ends of the uint8 range.
ClampUint8(v) == IF v < 0 THEN 0
                 ELSE IF v > MaxToken THEN MaxToken ELSE v

\* calculation: a signed delta added in int16, which holds every such sum.
Calculation(color, val) == ClampUint8(color + val)

-----------------------------------------------------------------------------
\* Mutant of PlayerTransactions: the receiver continues the sender's nonces.
PlayerTransactionsOneNonce(from, to) ==
  [from |-> [tokens |-> [c \in Channels |-> 0], nonce |-> from.nonce + 1],
   to   |-> [tokens |-> [c \in Channels |->
                           ClampUint8(to.tokens[c] + from.tokens[c])],
             nonce  |-> from.nonce + 1]]

\* A transfer.  from carries the AMOUNTS in its tokens and the sender's nonce;
\* to is the receiver's state.  Both nonces advance.
PlayerTransactions(from, to) ==
  [from |-> [tokens |-> [c \in Channels |-> 0], nonce |-> from.nonce + 1],
   to   |-> [tokens |-> [c \in Channels |->
                           ClampUint8(to.tokens[c] + from.tokens[c])],
             nonce  |-> to.nonce + 1]]

\* A mission reward: a signed delta per channel, and the nonce advances.
PlayerCompleteMission(play, reward) ==
  [tokens |-> [c \in Channels |-> Calculation(play.tokens[c], reward[c])],
   nonce  |-> play.nonce + 1]
=============================================================================
