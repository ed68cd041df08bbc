-------------------------- MODULE ChallengesProofs --------------------------
(***************************************************************************)
(* Theorems about Challenges, for any number of challenges, of concurrent  *)
(* responses and of other submissions, with or without faults.             *)
(***************************************************************************)
EXTENDS Challenges, DataProofs

-----------------------------------------------------------------------------
(* The invariant.                                                            *)

\* The tables; a nonce is journalled twice only for a sender whose row was written
\* from a stale copy.
NoncesOnce ==
  \A i, j \in DOMAIN txs :
    txs[i].sender = txs[j].sender /\ txs[i].nonce = txs[j].nonce
      => i = j \/ txs[i].sender \in stale

JournalInv == TablesOK /\ NoncesSpent /\ NoncesOnce

\* A challenge has an offer from the moment it is drawn.
Statuses == {"unused", "pending", "declined", "completed", "expired"}

ChallengeInv ==
  /\ challenge \in [ChallengeIds ->
       [status : Statuses, offer : Request \cup {NoReq},
        want : [Channels -> Amounts \cup {0}]]]
  /\ \A id \in ChallengeIds :
       challenge[id].status # "unused" => challenge[id].offer \in Request

\* What a call knows of its challenge and of the legs it has handed over.
Swapping == {"proposerLeg", "opponentLeg", "findCompleted", "setCompleted"}
Paid     == {"opponentLeg", "findFailed", "findCompleted", "setCompleted"}
Swapped  == {"findCompleted", "setCompleted"}

CallOK(c) ==
  /\ pc[c] \in Labels /\ arg[c].sent \in 0 .. Len(txs)
  /\ pc[c] # "idle" => /\ arg[c].id \in ChallengeIds
                       /\ challenge[arg[c].id].status # "unused"
  /\ pc[c] \in Swapping => arg[c].leg \in Request /\ Matches(arg[c].leg, arg[c].id)
  /\ pc[c] \in Paid => \E i \in DOMAIN txs : txs[i] = Offer(c)
  /\ pc[c] \in Swapped => \E i \in DOMAIN txs : txs[i] = arg[c].leg

CallInv ==
  /\ pc \in [Calls -> Labels] /\ DOMAIN arg = Calls
  /\ \A c \in Calls : CallOK(c)

\* What "completed" means.
Both(id) == /\ \E i \in DOMAIN txs : txs[i] = challenge[id].offer
            /\ \E i \in DOMAIN txs : Matches(txs[i], id)

CompletedInv ==
  \A id \in ChallengeIds : challenge[id].status = "completed" => Both(id)

SwapInv == /\ JournalInv /\ ChallengeInv /\ CallInv /\ CompletedInv
           /\ late \subseteq [leg : Request, sent : 0 .. Len(txs)]

-----------------------------------------------------------------------------
(* One submission, as the journal sees it.                                   *)

\* The journal and the challenges only grow: records stay at their places, and a
\* challenge that was drawn keeps its terms.
Later ==
  /\ Len(txs) \in Nat /\ Len(txs') \in Nat /\ Len(txs) <= Len(txs')
  /\ \A i \in DOMAIN txs : i \in DOMAIN txs' /\ txs'[i] = txs[i]
  /\ \A id \in ChallengeIds :
       challenge[id].status # "unused" =>
         /\ challenge'[id].status # "unused"
         /\ challenge'[id].offer = challenge[id].offer
         /\ challenge'[id].want = challenge[id].want

\* The table after any number of commits holds rows, and so does what was read.
LEMMA FoundRows ==
  ASSUME TablesOK, NEW r \in Request, NEW n \in Nat, NEW found \in Reads(r, n)
  PROVE  /\ Found(found) \in [Roles -> Row]
         /\ \E i \in n .. Len(txs) : found.sender = Table(i)[r.sender]
<1>1. /\ Len(txs) \in Nat /\ past \in Seq(Rows) /\ Len(past) = Len(txs)
      /\ players \in Rows
  BY DEF TablesOK
<1>2. \A i \in n .. Len(txs) : Table(i) \in [Accounts -> Row \cup {NoRow}]
  BY <1>1 DEF Table, Rows
<1>3. PICK i \in n .. Len(txs), j \in n .. Len(txs) :
        found = [sender |-> Table(i)[r.sender], receiver |-> Table(j)[r.receiver]]
  BY <1>1 DEF Reads
<1>4. r.sender \in Accounts /\ r.receiver \in Accounts
  BY RequestParts
<1>5. RowOrZero(found.sender) \in Row /\ RowOrZero(found.receiver) \in Row
  BY <1>2, <1>3, <1>4, RowRead
<1> QED BY <1>3, <1>5 DEF Found, Roles

\* What a submission writes: the rows of its parties, from what it read.
LEMMA SettleWrites ==
  ASSUME TablesOK, NEW r \in Request, NEW n \in Nat, Settle(r, n)
  PROVE  \E copy \in [Roles -> Row] :
           /\ Accepts(r, copy["sender"]) /\ Written(players, players', r, copy)
           /\ txs' = Append(txs, r) /\ past' = Append(past, players)
           /\ stale' = stale \cup Behind(players, r, copy)
           /\ UNCHANGED authorities
<1>1. PICK found \in Reads(r, n) : SettleFrom(r, found)
  BY DEF Settle
<1>2. Found(found) \in [Roles -> Row]
  BY FoundRows
<1> QED BY <1>1, <1>2 DEF SettleFrom, Write, Written, Overtaken, Behind

\* The tables grow by one record and the table before it.
LEMMA SettleGrows ==
  ASSUME TablesOK, NEW r \in Request, NEW n \in Nat, Settle(r, n)
  PROVE  /\ TablesOK' /\ stale \subseteq stale'
         /\ Len(txs) \in Nat /\ Len(txs') = Len(txs) + 1
         /\ DOMAIN txs = 1 .. Len(txs) /\ DOMAIN txs' = 1 .. (Len(txs) + 1)
         /\ \A i \in 1 .. Len(txs) : txs'[i] = txs[i]
         /\ txs'[Len(txs) + 1] = r
         /\ \A i \in 0 .. Len(txs) : Table(i)' = Table(i)
         /\ \A m \in Nat : m = Len(txs') => Table(m)' = players'
<1> DEFINE n0 == Len(txs)
<1>1. PICK copy \in [Roles -> Row] :
        /\ Accepts(r, copy["sender"]) /\ Written(players, players', r, copy)
        /\ txs' = Append(txs, r) /\ past' = Append(past, players)
        /\ stale' = stale \cup Behind(players, r, copy)
        /\ UNCHANGED authorities
  BY SettleWrites
<1>2. /\ players \in [Accounts -> Row \cup {NoRow}] /\ txs \in Seq(Request)
      /\ past \in Seq(Rows) /\ Len(past) = n0 /\ n0 \in Nat
      /\ authorities \subseteq Accounts /\ stale \subseteq Accounts
      /\ players \in Rows
  BY DEF TablesOK, Rows
<1>3. r \in AnyRequest
  BY RequestIsAny
<1>4. /\ players' \in [Accounts -> Row \cup {NoRow}]
      /\ Behind(players, r, copy) \subseteq {r.sender, r.receiver}
      /\ r.sender \in Accounts /\ r.receiver \in Accounts
  BY <1>1, <1>2, <1>3, WrittenRows
<1>5. /\ txs' \in Seq(Request) /\ Len(txs') = n0 + 1
      /\ DOMAIN txs = 1 .. n0 /\ DOMAIN txs' = 1 .. (n0 + 1)
      /\ \A i \in 1 .. n0 : txs'[i] = txs[i]
      /\ txs'[n0 + 1] = r
  BY <1>1, <1>2
<1>6. /\ past' \in Seq(Rows) /\ Len(past') = n0 + 1
      /\ \A i \in 1 .. n0 : past'[i] = past[i]
      /\ past'[n0 + 1] = players
  BY <1>1, <1>2
<1>7. TablesOK'
  BY <1>1, <1>2, <1>4, <1>5, <1>6 DEF TablesOK, Rows
<1>8. ASSUME NEW i \in 0 .. n0 PROVE Table(i)' = Table(i)
  <2>1. Table(i)' = past'[i + 1]
    BY <1>2, <1>5 DEF Table
  <2>2. CASE i < n0
    BY <1>2, <1>6, <2>1, <2>2 DEF Table
  <2>3. CASE i = n0
    BY <1>2, <1>6, <2>1, <2>3 DEF Table
  <2> QED BY <1>2, <2>2, <2>3
<1>9. \A m \in Nat : m = Len(txs') => Table(m)' = players'
  BY <1>2, <1>5 DEF Table
<1> QED BY <1>1, <1>2, <1>5, <1>7, <1>8, <1>9

\* A submission spends a nonce no record of its sender has, unless it wrote over
\* newer rows.
LEMMA SettleJournal ==
  ASSUME JournalInv, NEW r \in Request, NEW n \in Nat, Settle(r, n)
  PROVE  JournalInv'
<1> DEFINE n0 == Len(txs)
<1>1. PICK copy \in [Roles -> Row] :
        /\ Accepts(r, copy["sender"]) /\ Written(players, players', r, copy)
        /\ txs' = Append(txs, r)
        /\ stale' = stale \cup Behind(players, r, copy)
  BY SettleWrites DEF JournalInv
<1>2. /\ players \in [Accounts -> Row \cup {NoRow}] /\ txs \in Seq(AnyRequest)
      /\ r \in AnyRequest /\ SpentIn(players, txs, stale)
  BY RequestIsAny DEF JournalInv, TablesOK, Rows, NoncesSpent, SpentIn, NonceIn
<1>3. /\ SpentIn(players', txs', stale')
      /\ \A i \in DOMAIN txs : txs[i].sender = r.sender /\ txs[i].nonce = r.nonce
           => r.sender \in stale'
  BY <1>1, <1>2, WrittenSpends
<1>4. /\ TablesOK' /\ stale \subseteq stale' /\ n0 \in Nat
      /\ DOMAIN txs = 1 .. n0 /\ DOMAIN txs' = 1 .. (n0 + 1)
      /\ \A i \in 1 .. n0 : txs'[i] = txs[i]
      /\ txs'[n0 + 1] = r
  BY SettleGrows DEF JournalInv
<1>5. NoncesOnce'
  <2> SUFFICES ASSUME NEW i \in 1 .. (n0 + 1), NEW j \in 1 .. (n0 + 1),
                      txs'[i].sender = txs'[j].sender,
                      txs'[i].nonce = txs'[j].nonce, i # j
               PROVE  txs'[i].sender \in stale'
    BY <1>4 DEF NoncesOnce
  <2>1. CASE i \in 1 .. n0 /\ j \in 1 .. n0
    BY <1>4, <2>1 DEF JournalInv, NoncesOnce
  <2>2. CASE i = n0 + 1 \/ j = n0 + 1
    BY <1>3, <1>4, <2>2
  <2> QED BY <1>4, <2>1, <2>2
<1> QED BY <1>3, <1>4, <1>5 DEF JournalInv, NoncesSpent, SpentIn, NonceIn

-----------------------------------------------------------------------------
(* What stays true of challenges and calls that a step does not touch.       *)

LEMMA NoReqIsNone == NoReq \notin Request
  BY ChallengesAssumption

\* A call that does not move keeps what it knows.
LEMMA CallKept ==
  ASSUME SwapInv, Later, NEW c \in Calls, pc'[c] = pc[c], arg'[c] = arg[c]
  PROVE  CallOK(c)'
<1> USE DEF SwapInv, CallInv
<1>1. CallOK(c) /\ arg'[c].sent \in 0 .. Len(txs')
  BY DEF CallOK, Later
<1>2. CASE pc[c] = "idle"
  BY <1>1, <1>2 DEF CallOK, Swapping, Paid, Swapped
<1>3. CASE pc[c] # "idle"
  <2> DEFINE id == arg[c].id
  <2>1. /\ id \in ChallengeIds /\ challenge'[id].status # "unused"
        /\ challenge'[id].offer = challenge[id].offer
        /\ challenge'[id].want = challenge[id].want
    BY <1>1, <1>3 DEF CallOK, Later
  <2>2. Matches(arg[c].leg, id) => Matches(arg[c].leg, id)'
    BY <2>1 DEF Matches
  <2>3. \A r : (\E i \in DOMAIN txs : txs[i] = r) => \E i \in DOMAIN txs' : txs'[i] = r
    BY DEF Later
  <2>4. Offer(c)' = Offer(c)
    BY <2>1 DEF Offer
  <2> QED BY <1>1, <1>3, <2>1, <2>2, <2>3, <2>4 DEF CallOK
<1> QED BY <1>2, <1>3

\* So one call at a time needs a look.
LEMMA OthersKept ==
  ASSUME SwapInv, Later, NEW c \in Calls, CallOK(c)',
         pc' \in [Calls -> Labels], DOMAIN arg' = Calls,
         \A d \in Calls \ {c} : pc'[d] = pc[d] /\ arg'[d] = arg[d]
  PROVE  CallInv'
<1>1. \A d \in Calls : CallOK(d)'
  BY CallKept
<1> QED BY <1>1 DEF CallInv

LEMMA AllKept ==
  ASSUME SwapInv, Later, UNCHANGED <<pc, arg>>
  PROVE  CallInv'
<1>1. \A d \in Calls : CallOK(d)'
  BY CallKept
<1> QED BY <1>1 DEF SwapInv, CallInv

\* A challenge settled in full remains so.
LEMMA BothKept ==
  ASSUME SwapInv, Later, NEW id \in ChallengeIds,
         challenge[id].status # "unused", Both(id)
  PROVE  Both(id)'
<1>1. /\ challenge'[id].offer = challenge[id].offer
      /\ challenge'[id].want = challenge[id].want
  BY DEF Later
<1>2. \A i \in DOMAIN txs : i \in DOMAIN txs' /\ txs'[i] = txs[i]
  BY DEF Later
<1>3. PICK i \in DOMAIN txs : txs[i] = challenge[id].offer
  BY DEF Both
<1>4. PICK j \in DOMAIN txs : Matches(txs[j], id)
  BY DEF Both
<1>5. Matches(txs[j], id)'
  BY <1>1, <1>2, <1>4 DEF Matches
<1> QED BY <1>1, <1>2, <1>3, <1>5 DEF Both

LEMMA CompletedKept ==
  ASSUME SwapInv, Later,
         \A id \in ChallengeIds :
           challenge'[id].status = "completed" => challenge[id].status = "completed"
  PROVE  CompletedInv'
<1>1. \A id \in ChallengeIds : challenge'[id].status = "completed" => Both(id)'
  BY BothKept DEF SwapInv, CompletedInv
<1> QED BY <1>1 DEF CompletedInv
-----------------------------------------------------------------------------
(* Every step keeps the invariant.                                           *)

\* A submission while the challenges stand still.
LEMMA LegSettles ==
  ASSUME SwapInv, NEW r \in Request, NEW n \in Nat, Settle(r, n),
         UNCHANGED challenge
  PROVE  /\ JournalInv' /\ Later /\ ChallengeInv' /\ CompletedInv'
         /\ \E i \in DOMAIN txs' : txs'[i] = r
<1>1. JournalInv'
  BY SettleJournal DEF SwapInv
<1>2. Later /\ \E i \in DOMAIN txs' : txs'[i] = r
  BY SettleGrows DEF SwapInv, JournalInv, Later
<1>3. ChallengeInv'
  BY DEF SwapInv, ChallengeInv
<1> QED BY <1>1, <1>2, <1>3, CompletedKept

\* A step that writes neither tables nor challenges.
LEMMA TablesKept ==
  ASSUME SwapInv, UNCHANGED ledger
  PROVE  /\ JournalInv' /\ Len(txs) \in Nat
         /\ UNCHANGED <<players, txs, authorities, past, stale>>
<1>1. UNCHANGED <<players, txs, authorities, past, stale>>
  BY DEF ledger
<1> QED BY <1>1 DEF SwapInv, JournalInv, TablesOK, NoncesSpent, NoncesOnce

LEMMA NothingWritten ==
  ASSUME SwapInv, UNCHANGED <<ledger, challenge>>
  PROVE  JournalInv' /\ Later /\ ChallengeInv' /\ CompletedInv'
<1>1. JournalInv' /\ Len(txs) \in Nat /\ UNCHANGED <<txs, challenge>>
  BY TablesKept
<1>2. ChallengeInv'
  BY <1>1 DEF SwapInv, ChallengeInv
<1>3. Later
  BY <1>1 DEF Later
<1> QED BY <1>1, <1>2, <1>3, CompletedKept

\* The two ways a call moves on: to another label, or out.
LEMMA GotoMoves ==
  ASSUME SwapInv, NEW c \in Calls, NEW label \in Labels, Goto(c, label)
  PROVE  /\ pc' \in [Calls -> Labels] /\ DOMAIN arg' = Calls
         /\ pc'[c] = label /\ arg'[c] = arg[c]
         /\ \A d \in Calls \ {c} : pc'[d] = pc[d] /\ arg'[d] = arg[d]
  BY DEF SwapInv, CallInv, Goto

LEMMA ReturnMoves ==
  ASSUME SwapInv, Later, NEW c \in Calls, Return(c)
  PROVE  /\ pc' \in [Calls -> Labels] /\ DOMAIN arg' = Calls
         /\ CallOK(c)'
         /\ \A d \in Calls \ {c} : pc'[d] = pc[d] /\ arg'[d] = arg[d]
<1>1. /\ pc' \in [Calls -> Labels] /\ DOMAIN arg' = Calls
      /\ pc'[c] = "idle" /\ arg'[c] = NoArgs
      /\ \A d \in Calls \ {c} : pc'[d] = pc[d] /\ arg'[d] = arg[d]
  BY DEF SwapInv, CallInv, Return, Labels
<1>2. CallOK(c)'
  BY <1>1 DEF CallOK, NoArgs, Later, Labels, Swapping, Paid, Swapped
<1> QED BY <1>1, <1>2

\* A call that goes on with its challenge and legs as they are, having learned
\* what its new label asks for.
LEMMA MovedOK ==
  ASSUME SwapInv, Later, NEW c \in Calls, NEW label \in Labels \ {"idle"},
         pc[c] # "idle", pc'[c] = label,
         \/ arg'[c] = arg[c]
         \/ /\ arg'[c].id = arg[c].id /\ arg'[c].leg = arg[c].leg
            /\ arg'[c].sent \in 0 .. Len(txs'),
         label \in Swapping => pc[c] \in Swapping,
         label \in Paid => \/ pc[c] \in Paid
                           \/ \E i \in DOMAIN txs' : txs'[i] = Offer(c),
         label \in Swapped => \/ pc[c] \in Swapped
                              \/ \E i \in DOMAIN txs' : txs'[i] = arg[c].leg
  PROVE  CallOK(c)'
<1> DEFINE id == arg[c].id
<1>1. /\ CallOK(c) /\ arg'[c].id = id /\ arg'[c].leg = arg[c].leg
      /\ arg'[c].sent \in 0 .. Len(txs')
  BY DEF SwapInv, CallInv, CallOK, Later
<1>2. /\ id \in ChallengeIds /\ challenge'[id].status # "unused"
      /\ challenge'[id].offer = challenge[id].offer
      /\ challenge'[id].want = challenge[id].want
  BY <1>1 DEF CallOK, Later
<1>3. Offer(c)' = Offer(c)
  BY <1>1, <1>2 DEF Offer
<1>4. label \in Swapping => arg[c].leg \in Request /\ Matches(arg[c].leg, id)'
  BY <1>1, <1>2 DEF CallOK, Matches
<1>5. label \in Paid => \E i \in DOMAIN txs' : txs'[i] = Offer(c)'
  BY <1>1, <1>3 DEF CallOK, Later
<1>6. label \in Swapped => \E i \in DOMAIN txs' : txs'[i] = arg[c].leg
  BY <1>1 DEF CallOK, Later
<1> QED BY <1>1, <1>2, <1>4, <1>5, <1>6 DEF CallOK, Matches

\* The offer of a call that has begun, and its leg while the swap goes on.
LEMMA LegsAreRequests ==
  ASSUME SwapInv, NEW c \in Calls, pc[c] # "idle"
  PROVE  /\ Offer(c) \in Request
         /\ Len(txs) \in Nat /\ arg[c].sent \in 0 .. Len(txs)
         /\ pc[c] \in Swapping => arg[c].leg \in Request
  BY DEF SwapInv, CallInv, CallOK, ChallengeInv, Offer, JournalInv, TablesOK

\* Legs without an answer stay requests of the past.
LEMMA LateKept ==
  ASSUME SwapInv, Later, late' = late
  PROVE  (late \subseteq [leg : Request, sent : 0 .. Len(txs)])'
<1>1. \A l \in late : l \in [leg : Request, sent : 0 .. Len(txs)]
  BY DEF SwapInv
<1>2. 0 .. Len(txs) \subseteq 0 .. Len(txs')
  BY DEF Later
<1> QED BY <1>1, <1>2

LEMMA ProposeStep ==
  ASSUME SwapInv, NEW id \in ChallengeIds, NEW offer \in Request,
         NEW want \in [Channels -> Amounts], Propose(id, offer, want)
  PROVE  SwapInv'
<1>1. /\ challenge[id].status = "unused"
      /\ challenge' = [challenge EXCEPT ![id] = [status |-> "pending",
                                                offer |-> offer, want |-> want]]
      /\ UNCHANGED <<ledger, pc, arg, late>>
  BY DEF Propose, calls
<1>2. \A i \in ChallengeIds :
        challenge'[i] = IF i = id THEN [status |-> "pending", offer |-> offer,
                                        want |-> want]
                        ELSE challenge[i]
  BY <1>1 DEF SwapInv, ChallengeInv
<1>3. JournalInv' /\ UNCHANGED txs /\ Len(txs) \in Nat
  BY <1>1, TablesKept
<1>4. ChallengeInv'
  BY <1>1, <1>2 DEF SwapInv, ChallengeInv, Statuses
<1>5. Later
  BY <1>1, <1>2, <1>3 DEF Later
<1>6. CompletedInv'
  BY <1>2, <1>5, CompletedKept
<1> QED BY <1>1, <1>3, <1>4, <1>5, <1>6, AllKept DEF SwapInv

LEMMA AcceptStep ==
  ASSUME SwapInv, NEW c \in Calls, NEW id \in ChallengeIds, NEW leg \in Request,
         Accept(c, id, leg)
  PROVE  SwapInv'
<1>1. /\ challenge[id].status = "pending" /\ Matches(leg, id)
      /\ UNCHANGED <<ledger, challenge, late>>
      /\ pc' \in [Calls -> Labels] /\ DOMAIN arg' = Calls
      /\ pc'[c] = "proposerLeg" /\ arg'[c].id = id /\ arg'[c].leg = leg
      /\ arg'[c].sent = Len(txs)
      /\ \A d \in Calls \ {c} : pc'[d] = pc[d] /\ arg'[d] = arg[d]
  BY DEF SwapInv, CallInv, Accept, Open, Labels
<1>2. Len(txs') = Len(txs) /\ Len(txs) \in Nat
  BY <1>1, TablesKept
<1>3. CallOK(c)'
  BY <1>1, <1>2 DEF CallOK, Labels, Paid, Swapped, Matches
<1>4. JournalInv' /\ Later /\ ChallengeInv' /\ CompletedInv'
  BY <1>1, NothingWritten
<1>5. CallInv'
  BY <1>1, <1>3, <1>4, OthersKept
<1> QED BY <1>1, <1>2, <1>4, <1>5 DEF SwapInv

LEMMA DeclineStep ==
  ASSUME SwapInv, NEW c \in Calls, NEW id \in ChallengeIds, Decline(c, id)
  PROVE  SwapInv'
<1>1. /\ challenge[id].status = "pending"
      /\ UNCHANGED <<ledger, challenge, late>>
      /\ pc' \in [Calls -> Labels] /\ DOMAIN arg' = Calls
      /\ pc'[c] = "findDeclined" /\ arg'[c].id = id /\ arg'[c].sent = 0
      /\ \A d \in Calls \ {c} : pc'[d] = pc[d] /\ arg'[d] = arg[d]
  BY DEF SwapInv, CallInv, Decline, Open, Labels, NoArgs
<1>2. Len(txs') = Len(txs) /\ Len(txs) \in Nat
  BY <1>1, TablesKept
<1>3. CallOK(c)'
  BY <1>1, <1>2 DEF CallOK, Labels, Swapping, Paid, Swapped
<1>4. JournalInv' /\ Later /\ ChallengeInv' /\ CompletedInv'
  BY <1>1, NothingWritten
<1>5. CallInv'
  BY <1>1, <1>3, <1>4, OthersKept
<1> QED BY <1>1, <1>2, <1>4, <1>5 DEF SwapInv

\* The two RPCs: the leg is journalled before the call goes on to the next one.
LEMMA ProposerLegStep ==
  ASSUME SwapInv, NEW c \in Calls, ProposerLeg(c)
  PROVE  SwapInv'
<1>1. /\ pc[c] = "proposerLeg" /\ UNCHANGED <<challenge, late>>
      /\ Offer(c) \in Request /\ pc[c] \in Swapping
      /\ arg[c].sent \in Nat
  BY LegsAreRequests DEF ProposerLeg, Swapping
<1>2. CASE Done(c, Offer(c)) /\ SendOpponentLeg(c)
  <2>1. /\ JournalInv' /\ Later /\ ChallengeInv' /\ CompletedInv'
        /\ \E i \in DOMAIN txs' : txs'[i] = Offer(c)
    BY <1>1, <1>2, LegSettles DEF Done
  <2>2. /\ pc' \in [Calls -> Labels] /\ DOMAIN arg' = Calls
        /\ pc'[c] = "opponentLeg"
        /\ \A d \in Calls \ {c} : pc'[d] = pc[d] /\ arg'[d] = arg[d]
        /\ arg'[c].id = arg[c].id /\ arg'[c].leg = arg[c].leg
        /\ arg'[c].sent = Len(txs')
    BY <1>2 DEF SwapInv, CallInv, SendOpponentLeg, Labels
  <2>3. arg'[c].sent \in 0 .. Len(txs')
    BY <2>1, <2>2 DEF Later
  <2>4. CallOK(c)'
    BY <1>1, <2>1, <2>2, <2>3, MovedOK DEF Labels, Swapped
  <2> QED BY <1>1, <2>1, <2>2, <2>4, OthersKept, LateKept DEF SwapInv
<1>3. CASE Return(c) /\ UNCHANGED ledger
  <2>1. JournalInv' /\ Later /\ ChallengeInv' /\ CompletedInv'
    BY <1>1, <1>3, NothingWritten
  <2>2. CallInv'
    BY <1>3, <2>1, ReturnMoves, OthersKept
  <2> QED BY <1>1, <2>1, <2>2, LateKept DEF SwapInv
<1> QED BY <1>2, <1>3 DEF ProposerLeg, Refused

LEMMA OpponentLegStep ==
  ASSUME SwapInv, NEW c \in Calls, OpponentLeg(c)
  PROVE  SwapInv'
<1>1. /\ pc[c] = "opponentLeg" /\ UNCHANGED <<challenge, late>>
      /\ arg[c].leg \in Request /\ pc[c] \in Swapping /\ pc[c] \in Paid
      /\ arg[c].sent \in Nat
  BY LegsAreRequests DEF OpponentLeg, Swapping, Paid
<1>2. CASE Done(c, arg[c].leg) /\ Goto(c, "findCompleted")
  <2>1. /\ JournalInv' /\ Later /\ ChallengeInv' /\ CompletedInv'
        /\ \E i \in DOMAIN txs' : txs'[i] = arg[c].leg
    BY <1>1, <1>2, LegSettles DEF Done
  <2>2. /\ pc' \in [Calls -> Labels] /\ DOMAIN arg' = Calls
        /\ pc'[c] = "findCompleted" /\ arg'[c] = arg[c]
        /\ \A d \in Calls \ {c} : pc'[d] = pc[d] /\ arg'[d] = arg[d]
    BY <1>2, GotoMoves DEF Labels
  <2>3. CallOK(c)'
    BY <1>1, <2>1, <2>2, MovedOK DEF Labels
  <2> QED BY <1>1, <2>1, <2>2, <2>3, OthersKept, LateKept DEF SwapInv
<1>3. CASE Goto(c, "findFailed") /\ UNCHANGED ledger
  <2>1. JournalInv' /\ Later /\ ChallengeInv' /\ CompletedInv'
    BY <1>1, <1>3, NothingWritten
  <2>2. /\ pc' \in [Calls -> Labels] /\ DOMAIN arg' = Calls
        /\ pc'[c] = "findFailed" /\ arg'[c] = arg[c]
        /\ \A d \in Calls \ {c} : pc'[d] = pc[d] /\ arg'[d] = arg[d]
    BY <1>3, GotoMoves DEF Labels
  <2>3. CallOK(c)'
    BY <1>1, <2>1, <2>2, MovedOK DEF Labels, Swapping, Swapped
  <2> QED BY <1>1, <2>1, <2>2, <2>3, OthersKept, LateKept DEF SwapInv
<1> QED BY <1>2, <1>3 DEF OpponentLeg, Refused

\* UpdateStatus: the read ...
LEMMA FindStep ==
  ASSUME SwapInv, NEW c \in Calls, FindForUpdate(c)
  PROVE  SwapInv'
<1>1. /\ pc[c] \in {"findDeclined", "findFailed", "findCompleted"}
      /\ UNCHANGED <<ledger, challenge, late>>
  BY DEF FindForUpdate
<1>2. JournalInv' /\ Later /\ ChallengeInv' /\ CompletedInv'
  BY <1>1, NothingWritten
<1>3. CallInv'
  <2>1. ASSUME NEW label \in Labels \ {"idle"}, Goto(c, label),
               \/ label = "setCompleted" /\ pc[c] = "findCompleted"
               \/ label = "setDeclined"
        PROVE  CallInv'
    <3>1. /\ pc' \in [Calls -> Labels] /\ DOMAIN arg' = Calls
          /\ pc'[c] = label /\ arg'[c] = arg[c]
          /\ \A d \in Calls \ {c} : pc'[d] = pc[d] /\ arg'[d] = arg[d]
      BY <2>1, GotoMoves
    <3>2. CallOK(c)'
      BY <1>1, <1>2, <2>1, <3>1, MovedOK DEF Swapping, Paid, Swapped
    <3> QED BY <1>2, <3>1, <3>2, OthersKept
  <2>2. ASSUME Return(c) PROVE CallInv'
    BY <1>2, <2>2, ReturnMoves, OthersKept
  <2> QED BY <2>1, <2>2 DEF FindForUpdate, Labels
<1> QED BY <1>1, <1>2, <1>3, LateKept DEF SwapInv

\* ... and the write: "completed" only after both legs.
LEMMA SetStep ==
  ASSUME SwapInv, NEW c \in Calls, SetStatus(c)
  PROVE  SwapInv'
<1> DEFINE id     == arg[c].id
           status == IF pc[c] = "setCompleted" THEN "completed" ELSE "declined"
<1>1. /\ pc[c] \in {"setDeclined", "setCompleted"}
      /\ challenge' = [challenge EXCEPT ![id].status = status]
      /\ Return(c) /\ UNCHANGED <<ledger, late>>
  BY DEF SetStatus
<1>2. id \in ChallengeIds /\ challenge[id].status # "unused" /\ CallOK(c)
  BY <1>1 DEF SwapInv, CallInv, CallOK
<1>3. /\ \A i \in ChallengeIds :
           /\ challenge'[i].offer = challenge[i].offer
           /\ challenge'[i].want = challenge[i].want
           /\ challenge'[i].status = IF i = id THEN status ELSE challenge[i].status
      /\ challenge' \in [ChallengeIds ->
           [status : Statuses, offer : Request \cup {NoReq},
            want : [Channels -> Amounts \cup {0}]]]
  BY <1>1, <1>2 DEF SwapInv, ChallengeInv, Statuses
<1>4. JournalInv' /\ UNCHANGED txs /\ Len(txs) \in Nat
  BY <1>1, TablesKept
<1>5. ChallengeInv'
  BY <1>2, <1>3 DEF SwapInv, ChallengeInv
<1>6. Later
  BY <1>1, <1>3, <1>4 DEF Later
<1>7. CallInv'
  BY <1>1, <1>6, ReturnMoves, OthersKept
<1>8. ASSUME NEW i \in ChallengeIds, challenge'[i].status = "completed"
      PROVE  Both(i)'
  <2>1. CASE challenge[i].status = "completed"
    BY <1>6, <2>1, BothKept DEF SwapInv, CompletedInv
  <2>2. CASE i = id /\ pc[c] = "setCompleted"
    <3>1. Both(id)
      BY <1>2, <2>2 DEF CallOK, Swapping, Paid, Swapped, Both, Offer
    <3> QED BY <1>2, <1>6, <2>2, <3>1, BothKept
  <2> QED BY <1>3, <1>8, <2>1, <2>2
<1> QED BY <1>1, <1>4, <1>5, <1>7, <1>8 DEF SwapInv, CompletedInv

\* Lost answers and failures end a call, or send it on as if the leg had failed.
LEMMA FaultStep ==
  ASSUME SwapInv, Fault
  PROVE  SwapInv'
<1>1. ASSUME NEW c \in Calls, LegLost(c)
      PROVE  SwapInv'
  <2>1. UNCHANGED <<ledger, challenge>> /\ pc[c] # "idle"
    BY <1>1 DEF LegLost
  <2>2. JournalInv' /\ Later /\ ChallengeInv' /\ CompletedInv'
    BY <2>1, NothingWritten
  <2>3. late' \subseteq [leg : Request, sent : 0 .. Len(txs')]
    <3>1. Len(txs') = Len(txs)
      BY <2>1, TablesKept
    <3> QED BY <1>1, <2>1, <3>1, LegsAreRequests DEF LegLost, Swapping, SwapInv
  <2>4. CASE Return(c)
    BY <2>2, <2>3, <2>4, ReturnMoves, OthersKept DEF SwapInv
  <2>5. CASE pc[c] = "opponentLeg" /\ Goto(c, "findFailed")
    <3>1. /\ pc' \in [Calls -> Labels] /\ DOMAIN arg' = Calls
          /\ pc'[c] = "findFailed" /\ arg'[c] = arg[c]
          /\ \A d \in Calls \ {c} : pc'[d] = pc[d] /\ arg'[d] = arg[d]
      BY <2>5, GotoMoves DEF Labels
    <3>2. CallOK(c)'
      BY <2>1, <2>2, <2>5, <3>1, MovedOK DEF Labels, Swapping, Paid, Swapped
    <3> QED BY <2>2, <2>3, <3>1, <3>2, OthersKept DEF SwapInv
  <2> QED BY <1>1, <2>4, <2>5 DEF LegLost
<1>2. ASSUME NEW c \in Calls, Abort(c)
      PROVE  SwapInv'
  <2>1. UNCHANGED <<ledger, challenge, late>> /\ Return(c)
    BY <1>2 DEF Abort
  <2>2. JournalInv' /\ Later /\ ChallengeInv' /\ CompletedInv'
    BY <2>1, NothingWritten
  <2> QED BY <2>1, <2>2, ReturnMoves, OthersKept, LateKept DEF SwapInv
<1>3. ASSUME NEW l \in late, LateLeg(l)
      PROVE  SwapInv'
  <2>1. /\ l.leg \in Request /\ l.sent \in Nat /\ Settle(l.leg, l.sent)
        /\ UNCHANGED <<challenge, pc, arg>> /\ late' \subseteq late
    BY <1>3 DEF LateLeg, calls, SwapInv
  <2>2. /\ JournalInv' /\ Later /\ ChallengeInv' /\ CompletedInv'
    BY <2>1, LegSettles
  <2>3. \A m \in late : m \in [leg : Request, sent : 0 .. Len(txs)]
    BY DEF SwapInv
  <2>4. 0 .. Len(txs) \subseteq 0 .. Len(txs')
    BY <2>2 DEF Later
  <2> QED BY <2>1, <2>2, <2>3, <2>4, AllKept DEF SwapInv
<1> QED BY <1>1, <1>2, <1>3 DEF Fault

\* A key that expires keeps its terms; other submissions are like any.
LEMMA ExpireStep ==
  ASSUME SwapInv, NEW id \in ChallengeIds, Expire(id)
  PROVE  SwapInv'
<1>1. /\ challenge' = [challenge EXCEPT ![id].status = "expired"]
      /\ challenge[id].status # "unused"
      /\ UNCHANGED <<ledger, pc, arg, late>>
  BY DEF Expire, Exists, calls
<1>2. /\ \A i \in ChallengeIds :
           /\ challenge'[i].offer = challenge[i].offer
           /\ challenge'[i].want = challenge[i].want
           /\ challenge'[i].status = IF i = id THEN "expired"
                                     ELSE challenge[i].status
      /\ challenge' \in [ChallengeIds ->
           [status : Statuses, offer : Request \cup {NoReq},
            want : [Channels -> Amounts \cup {0}]]]
  BY <1>1 DEF SwapInv, ChallengeInv, Statuses
<1>3. JournalInv' /\ Later /\ UNCHANGED txs
  BY <1>1, <1>2, TablesKept DEF Later
<1>4. ChallengeInv'
  BY <1>1, <1>2 DEF SwapInv, ChallengeInv
<1>5. CompletedInv'
  BY <1>2, <1>3, CompletedKept
<1> QED BY <1>1, <1>3, <1>4, <1>5, AllKept DEF SwapInv

LEMMA OtherStep ==
  ASSUME SwapInv, OtherSubmission
  PROVE  SwapInv'
<1> DEFINE since == IF Len(txs) > MaxLag THEN Len(txs) - MaxLag ELSE 0
<1>1. since \in Nat
  BY ChallengesAssumption DEF SwapInv, JournalInv, TablesOK
<1>2. PICK r \in Request : Settle(r, since)
  BY DEF OtherSubmission
<1>3. UNCHANGED <<challenge, pc, arg, late>>
  BY DEF OtherSubmission, calls
<1>4. JournalInv' /\ Later /\ ChallengeInv' /\ CompletedInv'
  BY <1>1, <1>2, <1>3, LegSettles
<1> QED BY <1>3, <1>4, LateKept, AllKept DEF SwapInv

-----------------------------------------------------------------------------
(* The theorems.                                                             *)

LEMMA SwapInit == Init => SwapInv
<1> SUFFICES ASSUME Init PROVE SwapInv
  OBVIOUS
<1>1. /\ players = [a \in Accounts |-> NoRow] /\ txs = << >>
      /\ authorities = {GenesisAuthority} /\ past = << >> /\ stale = {}
      /\ challenge = [id \in ChallengeIds |-> Unused]
      /\ pc = [c \in Calls |-> "idle"] /\ arg = [c \in Calls |-> NoArgs]
      /\ late = {}
  BY DEF Init, TablesInit
<1>2. JournalInv /\ Len(txs) = 0
  BY <1>1, AccountsAssumption
     DEF JournalInv, TablesOK, Rows, NoncesSpent, NoncesOnce
<1>3. ChallengeInv /\ CompletedInv
  BY <1>1 DEF ChallengeInv, CompletedInv, Unused, Statuses
<1>4. CallInv
  BY <1>1, <1>2 DEF CallInv, CallOK, NoArgs, Labels, Swapping, Paid, Swapped
<1> QED BY <1>1, <1>2, <1>3, <1>4 DEF SwapInv

LEMMA SwapStays == SwapInv /\ [Next]_vars => SwapInv'
<1> SUFFICES ASSUME SwapInv, [Next]_vars PROVE SwapInv'
  OBVIOUS
<1>1. CASE UNCHANGED vars
  BY <1>1, NothingWritten, AllKept, LateKept DEF vars, calls, SwapInv
<1>2. ASSUME NEW id \in ChallengeIds,
             \/ \E offer \in Request, want \in [Channels -> Amounts] :
                  Propose(id, offer, want)
             \/ \E c \in Calls : \/ \E leg \in Request : Accept(c, id, leg)
                                 \/ Decline(c, id)
             \/ Refuse(id) \/ Expire(id)
      PROVE  SwapInv'
  BY <1>1, <1>2, ProposeStep, AcceptStep, DeclineStep, ExpireStep DEF Refuse
<1>3. ASSUME NEW c \in Calls,
             ProposerLeg(c) \/ OpponentLeg(c) \/ FindForUpdate(c) \/ SetStatus(c)
      PROVE  SwapInv'
  BY <1>3, ProposerLegStep, OpponentLegStep, FindStep, SetStep
<1> QED BY <1>1, <1>2, <1>3, OtherStep, FaultStep DEF Next

LEMMA SwapAlways == Spec => []SwapInv
  BY SwapInit, SwapStays, PTL DEF Spec

\* Types, for any number of calls and challenges: a call past the first check
\* works on a challenge that has an offer.
THEOREM ChallengesTypeCorrect == Spec => []TypeOK
<1>1. SwapInv => TypeOK
  BY DEF SwapInv, JournalInv, ChallengeInv, CallInv, CallOK, TypeOK, Statuses
<1> QED BY <1>1, SwapAlways, PTL

\* No signed leg is settled twice, whoever submits it and how often, unless the
\* signer's row was written back from a stale copy.
THEOREM LegsAreSettledOnce == Spec => []LegsSettleOnce
<1>1. SwapInv => LegsSettleOnce
  BY DEF SwapInv, JournalInv, NoncesOnce, LegsSettleOnce
<1> QED BY <1>1, SwapAlways, PTL

\* The opponent's leg is handed over only after the proposer's is journalled.
THEOREM ProposerPaid == Spec => []ProposerPaysFirst
<1>1. SwapInv => ProposerPaysFirst
  BY DEF SwapInv, CallInv, CallOK, Paid, ProposerPaysFirst, ToSet
<1> QED BY <1>1, SwapAlways, PTL

\* A challenge marked completed was settled in full.
THEOREM CompletedWasSwapped == Spec => []CompletedIsSwapped
<1>1. SwapInv => CompletedIsSwapped
  BY DEF SwapInv, CompletedInv, Both, CompletedIsSwapped, ToSet
<1> QED BY <1>1, SwapAlways, PTL

\* A recorded outcome that no call is about to write again stays as it is, or
\* expires with its key.
Recorded(id) == /\ challenge[id].status \in {"declined", "completed"}
                /\ \A c \in Calls : arg[c].id # id

Final(id) == /\ challenge'[id].status \in {challenge[id].status, "expired"}
             /\ \A c \in Calls : arg'[c].id # id

THEOREM OutcomeStays == Spec => OutcomeIsFinal
<1>1. ASSUME SwapInv, [Next]_vars, NEW id \in ChallengeIds, Recorded(id)
      PROVE  Final(id)
  <2> USE <1>1
  <2> USE DEF Recorded
  <2>1. /\ DOMAIN arg = Calls
        /\ challenge \in [ChallengeIds ->
             [status : Statuses, offer : Request \cup {NoReq},
              want : [Channels -> Amounts \cup {0}]]]
        /\ NoArgs.id # id
    BY <1>1, ChallengesAssumption DEF SwapInv, CallInv, ChallengeInv, NoArgs
  \* A call that goes on keeps its id, one that returns forgets it.
  <2>2. ASSUME NEW c \in Calls,
               Return(c) \/ SendOpponentLeg(c) \/ \E label \in Labels : Goto(c, label)
        PROVE  \A d \in Calls : arg'[d].id # id
    <3>1. CASE SendOpponentLeg(c)
      <4>1. \A d \in Calls : arg'[d].id = arg[d].id
        BY <2>1, <3>1 DEF SendOpponentLeg
      <4> QED BY <4>1
    <3>2. CASE Return(c) \/ \E label \in Labels : Goto(c, label)
      BY <2>1, <3>2 DEF Return, Goto
    <3> QED BY <2>2, <3>1, <3>2
  <2>3. ASSUME UNCHANGED <<challenge, arg>> PROVE Final(id)
    BY <2>3 DEF Final
  <2>4. ASSUME NEW other \in ChallengeIds, NEW offer, NEW want,
               Propose(other, offer, want)
        PROVE  Final(id)
    BY <2>1, <2>4 DEF Propose, calls, Final
  <2>5. ASSUME NEW c \in Calls, NEW other \in ChallengeIds, NEW leg,
               Accept(c, other, leg) \/ Decline(c, other)
        PROVE  Final(id)
    <3>1. UNCHANGED challenge /\ other # id
      BY <2>5 DEF Accept, Decline, Open
    <3>2. /\ \A d \in Calls \ {c} : arg'[d] = arg[d]
          /\ arg'[c].id = other
      BY <2>1, <2>5 DEF Accept, Decline, NoArgs
    <3> QED BY <3>1, <3>2 DEF Final
  <2>6. ASSUME NEW c \in Calls,
               ProposerLeg(c) \/ OpponentLeg(c) \/ FindForUpdate(c)
                 \/ LegLost(c) \/ Abort(c)
        PROVE  Final(id)
    <3>1. UNCHANGED challenge
      BY <2>6 DEF ProposerLeg, OpponentLeg, FindForUpdate, LegLost, Abort
    <3>2. Return(c) \/ SendOpponentLeg(c) \/ \E label \in Labels : Goto(c, label)
      BY <2>6 DEF ProposerLeg, OpponentLeg, FindForUpdate, LegLost, Abort, Labels
    <3> QED BY <2>2, <3>1, <3>2 DEF Final
  <2>7. ASSUME NEW c \in Calls, SetStatus(c) PROVE Final(id)
    <3>1. challenge'[id] = challenge[id]
      BY <2>1, <2>7 DEF SetStatus
    <3> QED BY <2>2, <2>7, <3>1 DEF SetStatus, Final
  <2>8. ASSUME NEW other \in ChallengeIds, Expire(other) PROVE Final(id)
    BY <2>1, <2>8 DEF Expire, calls, Final
  <2>9. ASSUME OtherSubmission \/ \E l \in late : LateLeg(l) PROVE Final(id)
    BY <2>3, <2>9 DEF OtherSubmission, LateLeg, calls
  <2>10. ASSUME UNCHANGED vars PROVE Final(id)
    BY <2>3, <2>10 DEF vars, calls
  <2> QED BY <1>1, <2>4, <2>5, <2>6, <2>7, <2>8, <2>9, <2>10
          DEF Next, Fault, Refuse
<1>2. SwapInv /\ [Next]_vars =>
        \A id \in ChallengeIds :
          challenge[id].status \in {"declined", "completed"}
          /\ (\A c \in Calls : arg[c].id # id)
            => /\ challenge'[id].status \in {challenge[id].status, "expired"}
               /\ \A c \in Calls : arg'[c].id # id
  BY <1>1 DEF Recorded, Final
<1> QED BY <1>2, SwapAlways, PTL DEF Spec, OutcomeIsFinal

-----------------------------------------------------------------------------
(* The proposer's leg spends a nonce of both parties, the opponent's too.     *)

\* What the Ledger's rows say of a leg signed with the nonce it reported when the
\* acceptance came in, as long as the opponent's row is never put back: the nonce
\* can only have been spent meanwhile, the proposer's leg spends it for certain, and
\* no row that the opponent's leg can find is older than that.
Outdated(c) ==
  LET leg == arg[c].leg
  IN  arg[c].current /\ leg.sender \notin stale =>
        /\ pc[c] = "proposerLeg" => NonceIn(players, leg.sender) >= leg.nonce
        /\ pc[c] = "opponentLeg" =>
             \A i \in arg[c].sent .. Len(txs) :
               NonceIn(Table(i), leg.sender) > leg.nonce
        /\ pc[c] \notin Swapped

\* A submission raises the nonces of both parties, unless it writes over newer rows.
LEMMA SettleRaises ==
  ASSUME SwapInv, NEW r \in Request, NEW n \in Nat, Settle(r, n)
  PROVE  /\ \A a \in Accounts \ stale' : NonceIn(players', a) >= NonceIn(players, a)
         /\ \A a \in {r.sender, r.receiver} \ stale' :
              NonceIn(players', a) = NonceIn(players, a) + 1
<1>1. PICK copy \in [Roles -> Row] :
        /\ Accepts(r, copy["sender"]) /\ Written(players, players', r, copy)
        /\ stale' = stale \cup Behind(players, r, copy)
  BY SettleWrites DEF SwapInv, JournalInv
<1>2. players \in [Accounts -> Row \cup {NoRow}] /\ r \in AnyRequest
  BY RequestIsAny DEF SwapInv, JournalInv, TablesOK, Rows
<1>3. Spends(players, players', r, copy)
  BY <1>1, <1>2, WrittenRows
<1> QED BY <1>1, <1>3 DEF Spends

\* A step leaves the tables alone or is one submission.
LEMMA OneSubmission ==
  ASSUME SwapInv, [Next]_vars
  PROVE  UNCHANGED ledger \/ \E r \in Request, n \in Nat : Settle(r, n)
<1>1. ASSUME NEW c \in Calls,
             ProposerLeg(c) \/ OpponentLeg(c) \/ FindForUpdate(c)
               \/ SetStatus(c) \/ LegLost(c) \/ Abort(c)
      PROVE  UNCHANGED ledger \/ \E r \in Request, n \in Nat : Settle(r, n)
  <2>1. pc[c] = "proposerLeg" => Offer(c) \in Request /\ arg[c].sent \in Nat
    BY LegsAreRequests
  <2>2. pc[c] = "opponentLeg" => arg[c].leg \in Request /\ arg[c].sent \in Nat
    BY LegsAreRequests DEF Swapping
  <2> QED BY <1>1, <2>1, <2>2
          DEF ProposerLeg, OpponentLeg, Done, Refused, FindForUpdate, SetStatus,
              LegLost, Abort
<1>2. ASSUME NEW l \in late, LateLeg(l) PROVE \E r \in Request, n \in Nat : Settle(r, n)
  BY <1>2 DEF LateLeg, SwapInv
<1>3. ASSUME OtherSubmission PROVE \E r \in Request, n \in Nat : Settle(r, n)
  BY <1>3, ChallengesAssumption DEF OtherSubmission, SwapInv, JournalInv, TablesOK
<1>4. ASSUME NEW id \in ChallengeIds,
             \/ \E offer, want : Propose(id, offer, want)
             \/ \E c \in Calls : Decline(c, id) \/ \E leg : Accept(c, id, leg)
             \/ Refuse(id) \/ Expire(id)
      PROVE  UNCHANGED ledger
  BY <1>4 DEF Propose, Decline, Accept, Refuse, Expire, vars
<1>5. UNCHANGED vars => UNCHANGED ledger
  BY DEF vars
<1> QED BY <1>1, <1>2, <1>3, <1>4, <1>5 DEF Next, Fault

\* No step puts a nonce back, unless it writes over newer rows; the tables of the
\* past stay.
LEMMA NoncesRise ==
  ASSUME SwapInv, [Next]_vars
  PROVE  /\ \A a \in Accounts : /\ NonceIn(players, a) \in Nat
                                /\ NonceIn(players', a) \in Nat
         /\ \A a \in Accounts \ stale' : NonceIn(players', a) >= NonceIn(players, a)
         /\ stale \subseteq stale'
         /\ Len(txs) \in Nat /\ Len(txs') \in {Len(txs), Len(txs) + 1}
         /\ \A i \in 0 .. Len(txs) : Table(i)' = Table(i)
         /\ Table(Len(txs)) = players
         /\ \A m \in Nat : m = Len(txs') => Table(m)' = players'
<1>1. /\ players \in [Accounts -> Row \cup {NoRow}] /\ Len(txs) \in Nat
      /\ players' \in [Accounts -> Row \cup {NoRow}]
  BY SwapStays DEF SwapInv, JournalInv, TablesOK, Rows
<1>2. \A a \in Accounts : /\ NonceIn(players, a) \in Nat
                          /\ NonceIn(players', a) \in Nat
  BY <1>1, RowRead DEF NonceIn
<1>3. Table(Len(txs)) = players
  BY <1>1 DEF Table
<1>4. CASE UNCHANGED ledger
  <2>1. UNCHANGED <<players, txs, past, stale>>
    BY <1>4 DEF ledger
  <2> QED BY <1>1, <1>2, <1>3, <2>1 DEF Table
<1>5. ASSUME NEW r \in Request, NEW n \in Nat, Settle(r, n)
      PROVE  /\ \A a \in Accounts \ stale' :
                  NonceIn(players', a) >= NonceIn(players, a)
             /\ stale \subseteq stale'
             /\ Len(txs') = Len(txs) + 1
             /\ \A i \in 0 .. Len(txs) : Table(i)' = Table(i)
             /\ \A m \in Nat : m = Len(txs') => Table(m)' = players'
  BY <1>5, SettleRaises, SettleGrows DEF SwapInv, JournalInv
<1> QED BY <1>1, <1>2, <1>3, <1>4, <1>5, OneSubmission

\* The leg of a call that is about to hand one over.
LEMMA LegParts ==
  ASSUME SwapInv, NEW c \in Calls, pc[c] \in Swapping
  PROVE  /\ arg[c].leg \in Request
         /\ arg[c].leg.sender \in Accounts /\ arg[c].leg.nonce \in Nat
         /\ Offer(c).receiver = arg[c].leg.sender
<1>1. arg[c].leg \in Request /\ Matches(arg[c].leg, arg[c].id)
  BY DEF SwapInv, CallInv, CallOK
<1> QED BY <1>1, RequestIsAny, PartsOfAny DEF Matches, Offer

\* A call that does not move while others commit.
LEMMA OutdatedKept ==
  ASSUME SwapInv, [Next]_vars, NEW d \in Calls, Outdated(d),
         pc'[d] = pc[d], arg'[d] = arg[d]
  PROVE  Outdated(d)'
<1> DEFINE o == arg[d].leg.sender
<1> SUFFICES ASSUME arg[d].current, o \notin stale'
             PROVE  /\ pc[d] = "proposerLeg" => NonceIn(players', o) >= arg[d].leg.nonce
                    /\ pc[d] = "opponentLeg" =>
                         \A i \in arg[d].sent .. Len(txs') :
                           NonceIn(Table(i)', o) > arg[d].leg.nonce
                    /\ pc[d] \notin Swapped
  BY DEF Outdated, NonceIn
<1>1. /\ Len(txs) \in Nat /\ Len(txs') \in {Len(txs), Len(txs) + 1}
      /\ stale \subseteq stale'
      /\ \A i \in 0 .. Len(txs) : Table(i)' = Table(i)
      /\ Table(Len(txs)) = players
      /\ \A m \in Nat : m = Len(txs') => Table(m)' = players'
  BY NoncesRise
<1>2. CASE pc[d] = "proposerLeg"
  <2>1. /\ o \in Accounts /\ arg[d].leg.nonce \in Nat
    BY <1>2, LegParts DEF Swapping
  <2>2. /\ NonceIn(players, o) \in Nat /\ NonceIn(players', o) \in Nat
        /\ NonceIn(players', o) >= NonceIn(players, o)
    BY <2>1, NoncesRise
  <2>3. NonceIn(players, o) >= arg[d].leg.nonce
    BY <1>1, <1>2 DEF Outdated
  <2> QED BY <1>2, <2>1, <2>2, <2>3 DEF Swapped
<1>3. CASE pc[d] = "opponentLeg"
  <2>1. /\ o \in Accounts /\ arg[d].leg.nonce \in Nat
        /\ arg[d].sent \in 0 .. Len(txs)
    BY <1>3, LegParts, LegsAreRequests DEF Swapping
  <2>2. /\ NonceIn(players, o) \in Nat /\ NonceIn(players', o) \in Nat
        /\ NonceIn(players', o) >= NonceIn(players, o)
    BY <2>1, NoncesRise
  <2>3. \A i \in arg[d].sent .. Len(txs) : NonceIn(Table(i), o) > arg[d].leg.nonce
    BY <1>1, <1>3 DEF Outdated
  <2>4. NonceIn(players', o) > arg[d].leg.nonce
    <3>1. NonceIn(players, o) > arg[d].leg.nonce
      BY <1>1, <2>1, <2>3
    <3> QED BY <2>1, <2>2, <3>1
  <2>5. ASSUME NEW i \in arg[d].sent .. Len(txs')
        PROVE  NonceIn(Table(i)', o) > arg[d].leg.nonce
    <3>1. CASE i \in 0 .. Len(txs)
      <4>1. Table(i)' = Table(i)
        BY <1>1, <3>1
      <4>2. NonceIn(Table(i), o) > arg[d].leg.nonce
        BY <1>1, <2>1, <2>3, <2>5, <3>1
      <4> QED BY <4>1, <4>2
    <3>2. CASE i = Len(txs')
      <4>1. Table(i)' = players'
        BY <1>1, <3>2
      <4> QED BY <2>4, <4>1
    <3> QED BY <1>1, <2>1, <2>5, <3>1, <3>2
  <2> QED BY <1>3, <2>5 DEF Swapped
<1>4. CASE pc[d] \notin {"proposerLeg", "opponentLeg"}
  BY <1>1, <1>4 DEF Outdated
<1> QED BY <1>2, <1>3, <1>4

LEMMA OutdatedStays ==
  ASSUME SwapInv, [Next]_vars, \A c \in Calls : Outdated(c), NEW d \in Calls
  PROVE  Outdated(d)'
<1>1. pc \in [Calls -> Labels] /\ DOMAIN arg = Calls /\ Outdated(d)
  BY DEF SwapInv, CallInv
<1>2. stale \subseteq stale'
  BY NoncesRise
<1>3. ASSUME pc'[d] = pc[d], arg'[d] = arg[d] PROVE Outdated(d)'
  BY <1>1, <1>3, OutdatedKept
\* A call that goes on to a label at which nothing new is claimed.
<1>4. ASSUME NEW c \in Calls, NEW label \in Labels,
             label \notin {"proposerLeg", "opponentLeg"},
             label \in Swapped => pc[c] \in Swapped,
             Goto(c, label)
      PROVE  Outdated(d)'
  BY <1>1, <1>2, <1>3, <1>4 DEF Goto, Outdated
<1>5. ASSUME NEW c \in Calls, Return(c) PROVE Outdated(d)'
  <2>1. c = d => ~arg'[d].current
    BY <1>1, <1>5 DEF Return, NoArgs
  <2>2. c # d => pc'[d] = pc[d] /\ arg'[d] = arg[d]
    BY <1>1, <1>5 DEF Return
  <2> QED BY <1>3, <2>1, <2>2 DEF Outdated
<1>6. ASSUME NEW c \in Calls, NEW id \in ChallengeIds, NEW leg \in Request,
             Accept(c, id, leg)
      PROVE  Outdated(d)'
  <2>1. /\ UNCHANGED <<players, stale>>
        /\ c # d => pc'[d] = pc[d] /\ arg'[d] = arg[d]
        /\ c = d => /\ pc'[d] = "proposerLeg" /\ arg'[d].leg = leg
                    /\ arg'[d].current = (leg.nonce = NonceIn(players, leg.sender))
    BY <1>1, <1>6 DEF Accept, ledger, NonceIn
  <2>2. leg.sender \in Accounts /\ leg.nonce \in Nat
    BY RequestIsAny, PartsOfAny
  <2>3. CASE c # d
    BY <1>3, <2>1, <2>3
  <2>4. CASE c = d
    <3>1. arg'[d].current => NonceIn(players', leg.sender) >= leg.nonce
      <4>1. /\ NonceIn(players, leg.sender) \in Nat
            /\ NonceIn(players', leg.sender) = NonceIn(players, leg.sender)
        BY <2>1, <2>2, NoncesRise
      <4>2. arg'[d].current => leg.nonce = NonceIn(players, leg.sender)
        BY <2>1, <2>4
      <4> QED BY <2>2, <4>1, <4>2
    <3> QED BY <2>1, <2>4, <3>1 DEF Outdated, Swapped
  <2> QED BY <2>3, <2>4
<1>7. ASSUME NEW c \in Calls, NEW id \in ChallengeIds, Decline(c, id)
      PROVE  Outdated(d)'
  <2>1. /\ c # d => pc'[d] = pc[d] /\ arg'[d] = arg[d]
        /\ c = d => ~arg'[d].current
    BY <1>1, <1>7 DEF Decline, NoArgs
  <2> QED BY <1>3, <2>1 DEF Outdated
<1>8. ASSUME NEW c \in Calls, ProposerLeg(c) PROVE Outdated(d)'
  <2>1. CASE Done(c, Offer(c)) /\ SendOpponentLeg(c)
    <3> DEFINE o == arg[c].leg.sender
    <3>1. /\ pc[c] = "proposerLeg" /\ pc[c] \in Swapping
          /\ Offer(c) \in Request /\ arg[c].sent \in Nat
      BY <1>8, LegsAreRequests DEF ProposerLeg, Swapping
    <3>2. /\ o \in Accounts /\ arg[c].leg.nonce \in Nat
          /\ Offer(c).receiver = o
      BY <3>1, LegParts
    <3>3. o \notin stale' => NonceIn(players', o) = NonceIn(players, o) + 1
      BY <2>1, <3>1, <3>2, SettleRaises DEF Done
    <3>4. /\ c # d => pc'[d] = pc[d] /\ arg'[d] = arg[d]
          /\ c = d => /\ pc'[d] = "opponentLeg" /\ arg'[d].leg = arg[c].leg
                      /\ arg'[d].current = arg[c].current
                      /\ arg'[d].sent = Len(txs')
      BY <1>1, <2>1 DEF SendOpponentLeg
    <3>5. CASE c = d
      <4>1. arg[c].current /\ o \notin stale' => NonceIn(players, o) >= arg[c].leg.nonce
        BY <1>1, <1>2, <3>1, <3>5 DEF Outdated
      <4>2. NonceIn(players, o) \in Nat /\ Len(txs') \in Nat
        BY <3>2, NoncesRise
      <4>3. arg[c].current /\ o \notin stale' => NonceIn(players', o) > arg[c].leg.nonce
        BY <3>2, <3>3, <4>1, <4>2
      <4>4. \A i \in Len(txs') .. Len(txs') : i = Len(txs') /\ Table(i)' = players'
        BY <4>2, NoncesRise
      <4>5. arg'[d].current /\ o \notin stale' =>
              \A i \in arg'[d].sent .. Len(txs') :
                NonceIn(Table(i)', o) > arg'[d].leg.nonce
        BY <3>4, <3>5, <4>3, <4>4
      <4> QED BY <3>4, <3>5, <4>5 DEF Outdated, Swapped, NonceIn
    <3> QED BY <1>3, <3>4, <3>5
  <2> QED BY <1>5, <1>8, <2>1 DEF ProposerLeg
<1>9. ASSUME NEW c \in Calls, OpponentLeg(c) PROVE Outdated(d)'
  <2>1. CASE Done(c, arg[c].leg) /\ Goto(c, "findCompleted")
    <3> DEFINE o == arg[c].leg.sender
    <3>1. pc[c] = "opponentLeg" /\ pc[c] \in Swapping
      BY <1>9 DEF OpponentLeg, Swapping
    <3>2. /\ arg[c].leg \in Request /\ arg[c].sent \in 0 .. Len(txs)
          /\ o \in Accounts /\ arg[c].leg.nonce \in Nat
      BY <3>1, LegParts, LegsAreRequests
    <3>3. PICK i \in arg[c].sent .. Len(txs) : NonceIn(Table(i), o) = arg[c].leg.nonce
      <4>1. PICK found \in Reads(arg[c].leg, arg[c].sent) :
              Accepts(arg[c].leg, Found(found)["sender"])
        BY <2>1 DEF Done, Settle, SettleFrom
      <4>2. PICK i \in arg[c].sent .. Len(txs) : found.sender = Table(i)[o]
        BY <3>2, FoundRows DEF SwapInv, JournalInv
      <4> QED BY <4>1, <4>2 DEF Accepts, Found, Roles, NonceIn
    <3>4. ~(arg[c].current /\ o \notin stale)
      BY <3>1, <3>2, <3>3 DEF Outdated
    <3>5. /\ c # d => pc'[d] = pc[d] /\ arg'[d] = arg[d]
          /\ c = d => arg'[d] = arg[d]
      BY <1>1, <2>1 DEF Goto
    <3> QED BY <1>2, <1>3, <3>4, <3>5 DEF Outdated
  <2>2. CASE Goto(c, "findFailed")
    BY <1>4, <2>2 DEF Labels, Swapped
  <2> QED BY <1>9, <2>1, <2>2 DEF OpponentLeg
<1>10. ASSUME NEW c \in Calls, FindForUpdate(c) PROVE Outdated(d)'
  <2>1. CASE Goto(c, "setCompleted") /\ pc[c] = "findCompleted"
    BY <1>4, <2>1 DEF Labels, Swapped
  <2>2. CASE Goto(c, "setDeclined")
    BY <1>4, <2>2 DEF Labels, Swapped
  <2> QED BY <1>5, <1>10, <2>1, <2>2 DEF FindForUpdate
<1>11. ASSUME NEW c \in Calls, SetStatus(c) \/ LegLost(c) \/ Abort(c)
       PROVE  Outdated(d)'
  <2>1. Return(c) \/ Goto(c, "findFailed")
    BY <1>11 DEF SetStatus, LegLost, Abort
  <2> QED BY <1>4, <1>5, <2>1 DEF Labels, Swapped
<1>12. ASSUME \/ \E id, offer, want : Propose(id, offer, want)
              \/ \E id : Refuse(id) \/ Expire(id)
              \/ OtherSubmission \/ \E l \in late : LateLeg(l)
              \/ UNCHANGED vars
       PROVE  Outdated(d)'
  BY <1>3, <1>12 DEF Propose, Refuse, Expire, OtherSubmission, LateLeg, calls, vars
<1>13. ASSUME Fault PROVE Outdated(d)'
  BY <1>11, <1>12, <1>13 DEF Fault
<1>14. ASSUME NEW id \in ChallengeIds,
              \/ \E offer, want : Propose(id, offer, want)
              \/ \E c \in Calls : \/ \E leg \in Request : Accept(c, id, leg)
                                  \/ Decline(c, id)
              \/ Refuse(id) \/ Expire(id)
       PROVE  Outdated(d)'
  BY <1>6, <1>7, <1>12, <1>14
<1> QED BY <1>8, <1>9, <1>10, <1>11, <1>12, <1>13, <1>14 DEF Next

\* The flow the end-to-end test walks through never completes a swap, whatever
\* else happens on the Ledger, unless the opponent's row is once written back from a
\* stale copy: the Ledger turns down an opponent's leg signed with the nonce it
\* reports, whichever rows it finds, because the proposer's leg before it spends that
\* nonce of the receiver.  Only a leg signed for a later nonce can be the second one.
ReportedNonceIsRefused ==
  \A c \in Calls :
    LET leg == arg[c].leg
    IN  arg[c].current /\ leg.sender \notin stale =>
          /\ pc[c] = "opponentLeg" =>
               \A found \in Reads(leg, arg[c].sent) :
                 ~Accepts(leg, Found(found)["sender"])
          /\ pc[c] \notin {"findCompleted", "setCompleted"}

THEOREM ReportedNonceFails == Spec => []ReportedNonceIsRefused
<1>1. Init => \A c \in Calls : Outdated(c)
  BY DEF Init, Outdated, NoArgs
<1>2. SwapInv /\ (\A c \in Calls : Outdated(c)) /\ [Next]_vars
        => (\A c \in Calls : Outdated(c))'
  BY OutdatedStays
<1>3. SwapInv /\ (\A c \in Calls : Outdated(c)) => ReportedNonceIsRefused
  <2> SUFFICES ASSUME SwapInv, NEW c \in Calls, Outdated(c), arg[c].current,
                      arg[c].leg.sender \notin stale, pc[c] = "opponentLeg",
                      NEW found \in Reads(arg[c].leg, arg[c].sent),
                      Accepts(arg[c].leg, Found(found)["sender"])
               PROVE  FALSE
    BY DEF ReportedNonceIsRefused, Outdated, Swapped
  <2>1. /\ arg[c].leg \in Request /\ arg[c].leg.nonce \in Nat
        /\ arg[c].sent \in Nat
    BY LegParts, LegsAreRequests DEF Swapping
  <2>2. PICK i \in arg[c].sent .. Len(txs) :
          found.sender = Table(i)[arg[c].leg.sender]
    BY <2>1, FoundRows DEF SwapInv, JournalInv
  <2>3. NonceIn(Table(i), arg[c].leg.sender) = arg[c].leg.nonce
    BY <2>2 DEF Accepts, Found, Roles, NonceIn
  <2> QED BY <2>1, <2>3 DEF Outdated
<1> QED BY <1>1, <1>2, <1>3, SwapAlways, PTL DEF Spec
=============================================================================
