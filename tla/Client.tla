------------------------------- MODULE Client -------------------------------
(***************************************************************************)
(* The player's command line client against a Ledger that others use, too. *)
(* It asks, and it signs transfers, offers and swap legs with the nonce a  *)
(* GetBalance returned.  It waits for ten seconds, returns to its menu and *)
(* may sign again, while what it sent may still be carried out.            *)
(*                                                                         *)
(* One player, and any submissions of the others.  What the Game Server    *)
(* holds is module Challenges; here it keeps some of the offers handed to  *)
(* it, submits them at any time, and describes challenges in any terms.    *)
(* Menu options 2, 3 and 11 touch neither signed payloads nor the Ledger.  *)
(***************************************************************************)
EXTENDS Queries

CONSTANTS Me,         \* the player at the client
          NoOne,      \* the empty receiver id
          NoOrder, NoAnswer,
          Limits,     \* history limits a user types; the client's default is one
          Pages,      \* page numbers a user types
          Asked,      \* block heights a user types
          ListSize,   \* blocks the client asks for: 5
          MaxSigned,  \* bound: payloads signed
          MaxLag,     \* bound: commits that somebody else's submission misses
          MaxBlocks   \* bound: no empty block is sealed from here on

ASSUME ClientAssumption == /\ Me \in Accounts /\ NoOne \notin Accounts
                           /\ NoAnswer \notin Row \cup {NoRow}
                           /\ Limits \cup Pages \cup Asked \subseteq Nat
                           /\ ListSize \in Nat
                           /\ MaxSigned \in Nat /\ MaxLag \in Nat
                           /\ MaxBlocks \in Nat

VARIABLES at,        \* what the client does
          order,     \* what the user has entered and not yet signed
          signed,    \* every payload signed so far, with its use and the length of
                     \* the journal when it was sent
          inFlight,  \* the signed payloads a server has and has not dealt with
          held,      \* the signed offers the Game Server holds
          answer     \* the balance answered, NoRow for an answer without one

client == <<at, order, signed, inFlight, held, answer>>
vars   == <<ledger, blocks, call, client>>

Kinds  == {"transfer", "offer", "leg"}
Places == {"menu", "query", "confirm", "nonce", "sent"}
Order  == [kind : Kinds, receiver : Accounts, amount : [Channels -> Amounts]]

\* The terms the client takes over from a challenge that is gone: none.
Gone == [kind |-> "leg", receiver |-> NoOne, amount |-> [c \in Channels |-> 0]]

ASSUME OrderAssumption == NoOrder \notin Order \cup {Gone}

Payload(o, nonce) == [type |-> "TRANSFER", sender |-> Me, receiver |-> o.receiver,
                      amount |-> o.amount, nonce |-> nonce]

Init == /\ TablesInit /\ Blocks!Init /\ call = NoCall
        /\ at = "menu" /\ order = NoOrder /\ answer = NoAnswer
        /\ signed = << >> /\ inFlight = {} /\ held = {}

-----------------------------------------------------------------------------
\* Menu options 1 and 5 to 8: the arguments the client can send.
Questions == {GetBalance(Me), GetChainStats}
             \cup {GetTransactionHistory(Me, limit, 0) : limit \in Limits}
             \cup {GetLeaderboard(TopDefault, by) : by \in Channels \cup {"TOTAL"}}
             \cup {GetBlock(h) : h \in Asked}
             \cup {ListBlocks(page, ListSize) : page \in Pages}

Ask(question) == /\ at = "menu"
                 /\ at' = "query" /\ call' = question
                 /\ UNCHANGED <<ledger, blocks, order, signed, inFlight, held, answer>>

PrintAnswer == /\ at = "query" /\ Answered
               /\ at' = "menu" /\ call' = NoCall
               /\ UNCHANGED <<ledger, blocks, order, signed, inFlight, held, answer>>

\* A statement of the handler that answers the client.
Handle == Statement /\ UNCHANGED client

\* Something was entered: the nonce is fetched.
FetchNonce(o) ==
  /\ at' = "nonce" /\ order' = o /\ call' = GetBalance(Me)
  /\ UNCHANGED <<ledger, blocks, signed, inFlight, held, answer>>

\* Options 4 and 9.
Enter(o) == /\ at = "menu"
            /\ o.kind \in {"transfer", "offer"}
            /\ FetchNonce(o)

\* Option 10: whatever the first look at the challenge shows, the user is asked.
\* The terms are read a second time and signed as they are.
Respond == /\ at = "menu"
           /\ at' = "confirm"
           /\ UNCHANGED <<ledger, blocks, call, order, signed, inFlight, held, answer>>

Accept(terms) == /\ at = "confirm"
                 /\ terms.kind = "leg"
                 /\ FetchNonce(terms)

\* The payload is signed with the nonce read and sent.
Sign == /\ at = "nonce" /\ Answered
        /\ Len(signed) < MaxSigned
        /\ signed' = Append(signed,
                            [kind |-> order.kind, sent |-> Len(txs),
                             payload |-> Payload(order, call.got["row"].nonce)])
        /\ inFlight' = inFlight \cup {Len(signed) + 1}
        /\ at' = "sent" /\ call' = NoCall /\ order' = NoOrder
        /\ UNCHANGED <<ledger, blocks, held, answer>>

PrintResult == /\ at = "sent" /\ answer # NoAnswer
               /\ at' = "menu" /\ answer' = NoAnswer
               /\ UNCHANGED <<ledger, blocks, call, order, signed, inFlight, held>>

\* The deadline of an RPC passes or the RPC fails, or the user does not go on.
GiveUp == /\ at # "menu"
          /\ at' = "menu" /\ call' = NoCall /\ order' = NoOrder
          /\ answer' = NoAnswer
          /\ UNCHANGED <<ledger, blocks, signed, inFlight, held>>

-----------------------------------------------------------------------------
\* A submission commits what it computed from the rows it found; its record gets
\* the next place in the journal.
Settles(r, found) == /\ Len(txs) < MaxTxs
                     /\ SettleFrom(r, found)
                     /\ Blocks!Arrive(Len(txs) + 1)

\* The client still waits for the answer to payload i.
Awaited(i) == at = "sent" /\ i = Len(signed) /\ answer = NoAnswer

Answers(i, balance) == answer' = IF Awaited(i) THEN balance ELSE answer

\* The rows that payload i can have found since it was sent.
Finds(i) == Reads(signed[i].payload, signed[i].sent)

\* The balance SubmitTransaction answers a transfer with: its copy of the sender.
NewBalance(r, found) == Settled(r, Found(found)["sender"],
                                   Found(found)["receiver"])["sender"]

\* A transfer, or the second leg of a swap, is carried out.
Deliver(i) == /\ i \in inFlight /\ signed[i].kind # "offer"
              /\ signed[i].payload.receiver # NoOne
              /\ \E found \in Finds(i) :
                   /\ Settles(signed[i].payload, found)
                   /\ Answers(i, NewBalance(signed[i].payload, found))
              /\ inFlight' = inFlight \ {i}
              /\ UNCHANGED <<call, at, order, signed, held>>

\* Mutant of Refuse: newBalance is answered although the transaction was rolled
\* back after it had been assigned.
RefuseWithBalance(i) ==
  /\ i \in inFlight
  /\ inFlight' = inFlight \ {i}
  /\ IF signed[i].payload.receiver = NoOne
       THEN Answers(i, NoRow)
       ELSE \E found \in Finds(i) : Answers(i, NewBalance(signed[i].payload, found))
  /\ UNCHANGED <<ledger, blocks, call, at, order, signed, held>>

\* It is turned down by either server, or its transaction fails.
Refuse(i) == /\ i \in inFlight
             /\ inFlight' = inFlight \ {i}
             /\ Answers(i, NoRow)
             /\ UNCHANGED <<ledger, blocks, call, at, order, signed, held>>

\* The Game Server's own call to the Ledger times out: it answers that the leg
\* failed, and the leg is still under way.
LegLost(i) == /\ i \in inFlight /\ signed[i].kind = "leg"
              /\ Answers(i, NoRow)
              /\ UNCHANGED <<ledger, blocks, call, at, order, signed, inFlight, held>>

\* An offer the Game Server takes, and one of those it submits for an opponent
\* who accepts, at any time from then on; after a failure the challenge is open and
\* it may be submitted again.
HandOver(i) == /\ i \in inFlight /\ signed[i].kind = "offer"
               /\ signed[i].payload.receiver # Me
               /\ \E c \in Channels : signed[i].payload.amount[c] > 0
               /\ inFlight' = inFlight \ {i} /\ held' = held \cup {i}
               /\ signed' = [signed EXCEPT ![i].sent = Len(txs)]
               /\ Answers(i, NoRow)
               /\ UNCHANGED <<ledger, blocks, call, at, order>>

SettleOffer(i) == /\ i \in held
                  /\ \E found \in Finds(i) : Settles(signed[i].payload, found)
                  /\ UNCHANGED <<call, client>>

\* The others, whose submissions are under way for any time up to the bound, and
\* the sealer.
OtherSubmission(r) ==
  LET since == IF Len(txs) > MaxLag THEN Len(txs) - MaxLag ELSE 0
  IN  /\ r.sender # Me
      /\ \E found \in Reads(r, since) : Settles(r, found)
      /\ UNCHANGED <<call, client>>

CreateGenesis == Blocks!Genesis /\ UNCHANGED <<ledger, call, client>>

Seal(block) == /\ block # {} \/ Len(chain) < MaxBlocks
               /\ Blocks!Seal(block)
               /\ UNCHANGED <<ledger, call, client>>

-----------------------------------------------------------------------------
ClientStep == \/ \E question \in Questions : Ask(question)
              \/ PrintAnswer \/ Handle \/ Respond \/ Sign \/ PrintResult \/ GiveUp
              \/ \E o \in Order : Enter(o)
              \/ \E terms \in Order \cup {Gone} : Accept(terms)

Environment == \/ \E i \in DOMAIN signed : \/ Deliver(i) \/ Refuse(i) \/ LegLost(i)
                                           \/ HandOver(i) \/ SettleOffer(i)
               \/ \E r \in Request : OtherSubmission(r)
               \/ CreateGenesis
               \/ \E block \in SUBSET pending : Seal(block)

Next == ClientStep \/ Environment

Spec == Init /\ [][Next]_vars

-----------------------------------------------------------------------------
\* The types: a payload in flight or held has been signed, and the client has an
\* order exactly while it fetches the nonce for it.
TypeOK == /\ players \in Rows /\ past \in Seq(Rows) /\ Len(past) = Len(txs)
          /\ stale \subseteq Accounts
          /\ at \in Places
          /\ \A i \in DOMAIN signed : signed[i].sent \in 0 .. Len(txs)
          /\ order \in Order \cup {Gone, NoOrder} /\ (at = "nonce" <=> order # NoOrder)
          /\ call.op # "none" <=> at \in {"query", "nonce"}
          /\ inFlight \cup held \subseteq DOMAIN signed /\ inFlight \cap held = {}
          /\ answer \in Row \cup {NoRow, NoAnswer}
          /\ answer # NoAnswer => at = "sent"

\* The journal places of the player's transfers, and where one was signed.
Mine        == {j \in DOMAIN txs : txs[j].sender = Me}
SignedAs(r) == {k \in DOMAIN signed : signed[k].payload = r}

\* The Ledger carries out nothing that the player did not sign, and as long as his
\* row was never written from a stale copy it does so in the order of signing: a
\* payload whose time has passed, because a later one was carried out, is dead,
\* wherever it is held or delayed and however often the client gave up and the
\* user signed again.
SettledInSigningOrder ==
  \A j \in Mine :
    /\ SignedAs(txs[j]) # {}
    /\ Me \notin stale =>
         \A i \in Mine : i < j =>
           \A k \in SignedAs(txs[i]), l \in SignedAs(txs[j]) : k < l

\* A balance the client prints after a transfer is the one that transfer left: the
\* payload signed last is in the journal, the nonce shown follows its nonce, and
\* the Ledger falls behind it only where it writes the player's row from a stale
\* copy.
PrintedIsSettled ==
  answer \notin {NoAnswer, NoRow} =>
    LET last == signed[Len(signed)].payload
    IN  /\ \E j \in Mine : txs[j] = last
        /\ answer.nonce = last.nonce + 1
        /\ Me \notin stale => answer.nonce <= players[Me].nonce
=============================================================================
