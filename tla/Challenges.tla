----------------------------- MODULE Challenges -----------------------------
(***************************************************************************)
(* Token-swap challenges: GameService over the Redis ChallengeRepository,  *)
(* composed with the Ledger that settles the two legs of a swap.           *)
(*                                                                         *)
(* A challenge carries the proposer's signed TRANSFER, the opponent sends  *)
(* his own when he accepts; both are requests to the Ledger with the       *)
(* nonces their signers chose.  Every handler call is a process and every  *)
(* action one Redis command or one Ledger RPC.  An RPC takes its time: a   *)
(* submission works on the rows of any instants since it was sent.         *)
(***************************************************************************)
EXTENDS LedgerTables, SequencesExt, FiniteSets

CONSTANTS ChallengeIds,
          Calls,       \* concurrent RespondChallenge calls
          NoReq,       \* nil
          Faults,      \* whether Redis, the Ledger and the node can fail
          MaxTxs,      \* bound: transactions journalled or under way
          MaxLag       \* bound: commits that somebody else's submission misses

ASSUME ChallengesAssumption == /\ NoReq \notin Request \cup ChallengeIds
                               /\ Faults \in BOOLEAN
                               /\ MaxTxs \in Nat /\ MaxLag \in Nat

VARIABLES challenge,  \* the challenge:{id} keys
          pc, arg,    \* what a call does next, and its locals
          late        \* legs whose call has given up on the answer

calls == <<pc, arg>>
vars  == <<ledger, challenge, calls, late>>

\* status "unused" is an id not drawn yet, "expired" one whose key is gone.
\* offer is the proposer's transfer, want the amount asked for it.
Unused == [status |-> "unused", offer |-> NoReq, want |-> [c \in Channels |-> 0]]
\* leg is the opponent's transfer, sent the length of the journal when the leg
\* under way was sent.  The other two are there for properties alone: the length of
\* the journal when the call came in, and whether leg then had the opponent's
\* current nonce.
NoArgs == [id |-> NoReq, leg |-> NoReq, sent |-> 0, seen |-> 0,
           current |-> FALSE]

Exists(id) == challenge[id].status \in {"pending", "declined", "completed"}

CallsIn(labels) == Cardinality({c \in Calls : pc[c] \in labels})

\* The bound: n more transactions fit in.
Room(n) == Len(txs) + Cardinality(late) + 2 * CallsIn({"proposerLeg"})
             + CallsIn({"opponentLeg"}) + n <= MaxTxs

Init == /\ TablesInit
        /\ challenge = [id \in ChallengeIds |-> Unused]
        /\ pc = [c \in Calls |-> "idle"]
        /\ arg = [c \in Calls |-> NoArgs]
        /\ late = {}

-----------------------------------------------------------------------------
Positive(amount) == \E c \in Channels : amount[c] > 0

\* ProposeChallenge, under a fresh id.
Propose(id, offer, want) ==
  /\ challenge[id].status = "unused"
  /\ offer.type = "TRANSFER" /\ offer.sender # offer.receiver
  /\ Positive(offer.amount) /\ Positive(want)
  /\ challenge' = [challenge EXCEPT ![id] = [status |-> "pending",
                                             offer |-> offer, want |-> want]]
  /\ UNCHANGED <<ledger, calls, late>>

\* Mutant of Open: the status is not checked.
OpenOrClosed(id) == Exists(id)

\* RespondChallenge's checks of the challenge it finds.
Open(id) == challenge[id].status = "pending"

\* verifyTransferPayload: the opponent's transfer matches the challenge.
Matches(leg, id) == /\ leg.type = "TRANSFER"
                    /\ leg.sender = challenge[id].offer.receiver
                    /\ leg.receiver = challenge[id].offer.sender
                    /\ leg.amount = challenge[id].want

\* The opponent's answer comes in and the challenge is found pending.
Accept(c, id, leg) ==
  /\ pc[c] = "idle"
  /\ Open(id) /\ Matches(leg, id)
  /\ Room(2)
  /\ pc' = [pc EXCEPT ![c] = "proposerLeg"]
  /\ arg' = [arg EXCEPT ![c] =
               [id |-> id, leg |-> leg, sent |-> Len(txs), seen |-> Len(txs),
                current |-> leg.nonce = RowOrZero(players[leg.sender]).nonce]]
  /\ UNCHANGED <<ledger, challenge, late>>

Decline(c, id) ==
  /\ pc[c] = "idle"
  /\ Open(id)
  /\ pc' = [pc EXCEPT ![c] = "findDeclined"]
  /\ arg' = [arg EXCEPT ![c] = [NoArgs EXCEPT !.id = id]]
  /\ UNCHANGED <<ledger, challenge, late>>

\* Anything else is refused, and changes nothing.
Refuse(id) == ~Open(id) /\ UNCHANGED vars

-----------------------------------------------------------------------------
Goto(c, label) == pc' = [pc EXCEPT ![c] = label] /\ UNCHANGED arg
Return(c)      == /\ pc' = [pc EXCEPT ![c] = "idle"]
                  /\ arg' = [arg EXCEPT ![c] = NoArgs]

Offer(c) == challenge[arg[c].id].offer

\* The answers to a leg: the Ledger settles it, or turns it down.
Done(c, leg)    == Settle(leg, arg[c].sent)
Refused(c, leg) == Refusable(leg, arg[c].sent) /\ UNCHANGED ledger

\* The opponent's leg is sent when the proposer's has been answered.
SendOpponentLeg(c) == /\ pc' = [pc EXCEPT ![c] = "opponentLeg"]
                      /\ arg' = [arg EXCEPT ![c].sent = Len(txs')]

\* Mutant of ProposerLeg: only err is looked at, never Success.
ProposerLegUnchecked(c) ==
  /\ pc[c] = "proposerLeg"
  /\ Done(c, Offer(c)) \/ Refused(c, Offer(c))
  /\ SendOpponentLeg(c)
  /\ UNCHANGED <<challenge, late>>

\* The proposer's leg: the call returns an error when the Ledger turns it down,
\* and the challenge stays pending.
ProposerLeg(c) ==
  /\ pc[c] = "proposerLeg"
  /\ \/ Done(c, Offer(c)) /\ SendOpponentLeg(c)
     \/ Refused(c, Offer(c)) /\ Return(c)
  /\ UNCHANGED <<challenge, late>>

\* Mutant of OpponentLeg: only err is looked at, never Success.
OpponentLegUnchecked(c) ==
  /\ pc[c] = "opponentLeg"
  /\ Done(c, arg[c].leg) \/ Refused(c, arg[c].leg)
  /\ Goto(c, "findCompleted")
  /\ UNCHANGED <<challenge, late>>

\* The opponent's leg: a challenge that fails here is marked declined.
OpponentLeg(c) ==
  /\ pc[c] = "opponentLeg"
  /\ \/ Done(c, arg[c].leg) /\ Goto(c, "findCompleted")
     \/ Refused(c, arg[c].leg) /\ Goto(c, "findFailed")
  /\ UNCHANGED <<challenge, late>>

\* UpdateStatus: it reads the record, gives up when that is gone, ...
FindForUpdate(c) ==
  /\ pc[c] \in {"findDeclined", "findFailed", "findCompleted"}
  /\ IF Exists(arg[c].id)
       THEN Goto(c, IF pc[c] = "findCompleted" THEN "setCompleted" ELSE "setDeclined")
       ELSE Return(c)
  /\ UNCHANGED <<ledger, challenge, late>>

\* ... and writes it back with the new status, even if it has changed or
\* expired meanwhile.
SetStatus(c) ==
  /\ pc[c] \in {"setDeclined", "setCompleted"}
  /\ challenge' = [challenge EXCEPT ![arg[c].id].status =
                     IF pc[c] = "setCompleted" THEN "completed" ELSE "declined"]
  /\ Return(c)
  /\ UNCHANGED <<ledger, late>>

-----------------------------------------------------------------------------
\* A deadline passes or the connection breaks while the Ledger has a leg: the
\* call goes on without an answer, and the leg may still be settled.
LegLost(c) ==
  /\ \/ /\ pc[c] = "proposerLeg"
        /\ late' = late \cup {[leg |-> Offer(c), sent |-> arg[c].sent]}
        /\ Return(c)
     \/ /\ pc[c] = "opponentLeg"
        /\ late' = late \cup {[leg |-> arg[c].leg, sent |-> arg[c].sent]}
        /\ Goto(c, "findFailed")
  /\ UNCHANGED <<ledger, challenge>>

LateLeg(l) == /\ Settle(l.leg, l.sent)
              /\ late' = late \ {l}
              /\ UNCHANGED <<challenge, calls>>

\* A Redis command fails, or the node stops: the call ends there.
Abort(c) == /\ pc[c] # "idle"
            /\ Return(c)
            /\ UNCHANGED <<ledger, challenge, late>>

Fault == /\ Faults
         /\ \/ \E c \in Calls : LegLost(c) \/ Abort(c)
            \/ \E l \in late : LateLeg(l)

\* The key's TTL runs out.
Expire(id) == /\ Exists(id)
              /\ challenge' = [challenge EXCEPT ![id].status = "expired"]
              /\ UNCHANGED <<ledger, calls, late>>

\* Everybody else's mints and transfers, under way for any time up to the bound.
OtherSubmission ==
  LET since == IF Len(txs) > MaxLag THEN Len(txs) - MaxLag ELSE 0
  IN  /\ Room(1)
      /\ \E r \in Request : Settle(r, since)
      /\ UNCHANGED <<challenge, calls, late>>

-----------------------------------------------------------------------------
Next == \/ \E id \in ChallengeIds :
             \/ \E offer \in Request, want \in [Channels -> Amounts] :
                  Propose(id, offer, want)
             \/ \E c \in Calls : \/ \E leg \in Request : Accept(c, id, leg)
                                 \/ Decline(c, id)
             \/ Refuse(id) \/ Expire(id)
        \/ \E c \in Calls : \/ ProposerLeg(c) \/ OpponentLeg(c)
                            \/ FindForUpdate(c) \/ SetStatus(c)
        \/ OtherSubmission
        \/ Fault

Spec == Init /\ [][Next]_vars

-----------------------------------------------------------------------------
Labels == {"idle", "proposerLeg", "opponentLeg", "findDeclined", "findFailed",
           "findCompleted", "setDeclined", "setCompleted"}

\* The types; a call past the first check works on an id that has a record.
TypeOK ==
  /\ TablesOK
  /\ late \subseteq [leg : Request, sent : 0 .. Len(txs)]
  /\ challenge \in [ChallengeIds ->
       [status : {"unused", "pending", "declined", "completed", "expired"},
        offer : Request \cup {NoReq}, want : [Channels -> Amounts \cup {0}]]]
  /\ pc \in [Calls -> Labels]
  /\ \A c \in Calls : /\ pc[c] # "idle" => challenge[arg[c].id].offer \in Request
                      /\ arg[c].sent \in 0 .. Len(txs)

\* A transfer somebody signed is settled twice only if a submission wrote its
\* sender's row back from a stale copy, although a challenge hands the same signed
\* bytes to the Ledger again after a failure, from concurrent responses, or when
\* the signer submits them, too.
LegsSettleOnce ==
  \A i, j \in DOMAIN txs :
    txs[i] = txs[j] => i = j \/ txs[i].sender \in stale

\* The opponent never pays first: the service hands over the opponent's leg only
\* when the proposer's is in the journal.
ProposerPaysFirst ==
  \A c \in Calls :
    pc[c] \in {"opponentLeg", "findFailed", "findCompleted", "setCompleted"} =>
      Offer(c) \in ToSet(txs)

\* A challenge that reads "completed" was settled in full: both transfers are in
\* the journal.
CompletedIsSwapped ==
  \A id \in ChallengeIds :
    challenge[id].status = "completed" =>
      /\ challenge[id].offer \in ToSet(txs)
      /\ \E r \in ToSet(txs) : Matches(r, id)

\* An outcome is final: once it is recorded and the calls that found the challenge
\* pending have returned, no later answer, retry or late leg changes it.
OutcomeIsFinal ==
  [][\A id \in ChallengeIds :
       challenge[id].status \in {"declined", "completed"}
       /\ (\A c \in Calls : arg[c].id # id)
         => /\ challenge'[id].status \in {challenge[id].status, "expired"}
            /\ \A c \in Calls : arg'[c].id # id]_vars

\* The flow the end-to-end test walks through: the opponent signs with the nonce
\* the Ledger reports, can pay, and nothing else happens on the Ledger between the
\* two legs.  Then the second leg is settled like the first.
SwapSettlesBothLegs ==
  \A c \in Calls :
    ~ /\ pc[c] = "findFailed"
      /\ arg[c].current
      /\ Len(txs) = arg[c].seen + 1
      /\ Funded(arg[c].leg, players[arg[c].leg.sender])
=============================================================================
