---------------------------- MODULE ClientProofs ----------------------------
(***************************************************************************)
(* Theorems about Client, for every set of accounts and channels, every    *)
(* token range and every number of transactions and signed payloads.       *)
(***************************************************************************)
EXTENDS Client, DataProofs, FiniteSetTheorems

-----------------------------------------------------------------------------
(* The invariant.  As long as no stale copy was written over the player's    *)
(* row, the nonces he signs never fall, because the row they are read from   *)
(* never does, and the ones in the journal rise.                             *)

Nonce(a) == RowOrZero(players[a]).nonce

SignedEntry == [kind : Kinds, sent : Nat,
                payload : [type : {"TRANSFER"}, sender : {Me},
                           receiver : Accounts \cup {NoOne},
                           amount : [Channels -> Nat], nonce : Nat]]

\* The tables, and the player's records among them.
JournalInv ==
  /\ players \in Rows
  /\ txs \in Seq(AnyRequest)
  /\ past \in Seq(Rows) /\ Len(past) = Len(txs)
  /\ stale \subseteq Accounts
  /\ \A j \in Mine : SignedAs(txs[j]) # {}
  /\ Me \notin stale =>
       /\ \A j \in Mine : txs[j].nonce < Nonce(Me)
       /\ \A i, j \in Mine : i < j => txs[i].nonce < txs[j].nonce

\* What was signed was signed with nonces that did not fall and were reached.
SignedInv ==
  /\ signed \in Seq(SignedEntry)
  /\ \A k \in DOMAIN signed :
       /\ signed[k].sent \in 0 .. Len(txs)
       /\ signed[k].kind = "offer" => signed[k].payload.receiver \in Accounts
       /\ Me \notin stale =>
            /\ signed[k].payload.nonce <= Nonce(Me)
            /\ \A l \in DOMAIN signed :
                 k < l => signed[k].payload.nonce <= signed[l].payload.nonce

\* The servers have nothing but what was signed.
ServerInv ==
  /\ inFlight \subseteq DOMAIN signed
  /\ held \subseteq {k \in DOMAIN signed : signed[k].payload.receiver \in Accounts}

\* The nonce that was read is no smaller than any signed before.
ReadNonce == call.got["row"].nonce
NonceRead ==
  /\ call.todo = << >>
  /\ ReadNonce \in Nat
  /\ Me \notin stale =>
       /\ ReadNonce <= Nonce(Me)
       /\ \A k \in DOMAIN signed : signed[k].payload.nonce <= ReadNonce

OrderInv ==
  at = "nonce" => /\ order \in Order \cup {Gone}
                  /\ call = GetBalance(Me) \/ NonceRead

\* The answer that is about to be printed.
AnswerInv ==
  /\ answer # NoAnswer => at = "sent"
  /\ at = "sent" => signed # << >>
  /\ answer \notin {NoAnswer, NoRow} =>
       LET last == signed[Len(signed)].payload
       IN  /\ \E j \in Mine : txs[j] = last
           /\ answer.nonce = last.nonce + 1
           /\ players[Me] # NoRow
           /\ Me \notin stale => answer.nonce <= players[Me].nonce

ClientInv == JournalInv /\ SignedInv /\ ServerInv /\ OrderInv /\ AnswerInv

-----------------------------------------------------------------------------
(* One submission, as the tables see it.                                     *)

\* The table after any number of commits holds rows, and so does what was read.
LEMMA FoundRows ==
  ASSUME JournalInv, NEW r \in AnyRequest, NEW n \in Nat, NEW found \in Reads(r, n)
  PROVE  Found(found) \in [Roles -> Row]
<1>1. /\ Len(txs) \in Nat /\ past \in Seq(Rows) /\ Len(past) = Len(txs)
      /\ players \in Rows
  BY DEF JournalInv
<1>2. \A i \in n .. Len(txs) : Table(i) \in [Accounts -> Row \cup {NoRow}]
  BY <1>1 DEF Table, Rows
<1>3. PICK i \in n .. Len(txs), j \in n .. Len(txs) :
        found = [sender |-> Table(i)[r.sender], receiver |-> Table(j)[r.receiver]]
  BY <1>1 DEF Reads
<1>4. r.sender \in Accounts /\ r.receiver \in Accounts
  BY PartsOfAny
<1>5. RowOrZero(found.sender) \in Row /\ RowOrZero(found.receiver) \in Row
  BY <1>2, <1>3, <1>4, RowRead
<1> QED BY <1>3, <1>5 DEF Found, Roles

\* A submission leaves rows of its parties, computed from what it read, and spends
\* the sender's nonce; the player's does not fall unless the copy was stale.
LEMMA SubmitNonces ==
  ASSUME JournalInv, NEW r \in AnyRequest, NEW n \in Nat, NEW found \in Reads(r, n),
         Settles(r, found)
  PROVE  /\ players' \in Rows /\ txs' = Append(txs, r) /\ past' = Append(past, players)
         /\ stale \subseteq stale' /\ stale' \subseteq Accounts
         /\ Found(found) \in [Roles -> Row] /\ Accepts(r, Found(found)["sender"])
         /\ \A a \in {r.sender, r.receiver} : players'[a] # NoRow
         /\ \A a \in Accounts \ {r.sender, r.receiver} : players'[a] = players[a]
         /\ Me \notin stale' => Nonce(Me)' >= Nonce(Me)
         /\ r.sender = Me /\ Me \notin stale' =>
              r.nonce = Nonce(Me) /\ Nonce(Me)' = r.nonce + 1
<1> DEFINE copy == Found(found)
<1>1. copy \in [Roles -> Row]
  BY FoundRows
<1>2. /\ Accepts(r, copy["sender"]) /\ Written(players, players', r, copy)
      /\ txs' = Append(txs, r) /\ past' = Append(past, players)
      /\ stale' = stale \cup Behind(players, r, copy)
  BY DEF Settles, SettleFrom, Write, Written, Overtaken, Behind
<1> HIDE DEF copy
<1>3. /\ players' \in [Accounts -> Row \cup {NoRow}]
      /\ Behind(players, r, copy) \subseteq {r.sender, r.receiver}
      /\ r.sender \in Accounts /\ r.receiver \in Accounts
      /\ \A a \in {r.sender, r.receiver} : players'[a] # NoRow
      /\ \A a \in Accounts \ {r.sender, r.receiver} : players'[a] = players[a]
      /\ Spends(players, players', r, copy)
  <2>1. players \in [Accounts -> Row \cup {NoRow}]
    BY DEF JournalInv, Rows
  <2> QED BY <1>1, <1>2, <2>1, WrittenRows
<1>4. Me \in Accounts /\ stale \subseteq Accounts
  BY ClientAssumption DEF JournalInv
<1>5. Me \notin stale' => Nonce(Me)' >= Nonce(Me)
  BY <1>2, <1>3, <1>4 DEF Spends, Nonce, NonceIn, RowOrZero
<1>6. r.sender = Me /\ Me \notin stale' =>
        r.nonce = Nonce(Me) /\ Nonce(Me)' = r.nonce + 1
  BY <1>2, <1>3, <1>4 DEF Spends, Nonce, NonceIn, RowOrZero
<1> QED BY <1>1, <1>2, <1>3, <1>4, <1>5, <1>6 DEF Rows, copy

-----------------------------------------------------------------------------
(* Submissions keep the invariant.                                           *)

\* Appending to a sequence: its length, its places and what they hold.
LEMMA Appended ==
  ASSUME NEW S, NEW s \in Seq(S), NEW e \in S
  PROVE  /\ Append(s, e) \in Seq(S)
         /\ Len(s) \in Nat /\ Len(Append(s, e)) = Len(s) + 1
         /\ DOMAIN s = 1 .. Len(s)
         /\ DOMAIN Append(s, e) = 1 .. Len(s) + 1
         /\ \A i \in 1 .. Len(s) : Append(s, e)[i] = s[i]
         /\ Append(s, e)[Len(s) + 1] = e
  OBVIOUS

LEMMA MineIsAccount == Me \in Accounts
  BY ClientAssumption

\* Rows have nonces, and so has an account without one.
LEMMA NonceNat == players \in Rows => Nonce(Me) \in Nat
  BY RowRead, MineIsAccount DEF Nonce, Rows

\* What can be settled: a request of another account, or something signed.
Submittable(r) == r \in AnyRequest /\ (r.sender # Me \/ SignedAs(r) # {})

\* It is settled from rows that it found since it came in.
Submits(r) == \E n \in Nat : \E found \in Reads(r, n) : Settles(r, found)

\* The player's records stay behind his nonce and rise.
LEMMA SettleJournal ==
  ASSUME JournalInv, NEW r, Submittable(r), Submits(r), UNCHANGED signed
  PROVE  JournalInv'
<1> DEFINE n == Len(txs)
<1>0. r \in AnyRequest /\ r.nonce \in Nat /\ r.sender \in Accounts
  BY PartsOfAny DEF Submittable
<1>1. /\ players' \in Rows
      /\ txs' = Append(txs, r) /\ past' = Append(past, players)
      /\ stale \subseteq stale' /\ stale' \subseteq Accounts
      /\ Me \notin stale' => Nonce(Me)' >= Nonce(Me)
      /\ r.sender = Me /\ Me \notin stale' =>
           r.nonce = Nonce(Me) /\ Nonce(Me)' = r.nonce + 1
  BY <1>0, SubmitNonces DEF Submits
<1>2. /\ txs' \in Seq(AnyRequest) /\ n \in Nat /\ Len(txs') = n + 1
      /\ DOMAIN txs = 1 .. n /\ DOMAIN txs' = 1 .. n + 1
      /\ \A i \in 1 .. n : txs'[i] = txs[i]
      /\ txs'[n + 1] = r
  BY <1>0, <1>1, Appended DEF JournalInv
<1>3. past' \in Seq(Rows) /\ Len(past') = n + 1
  BY <1>1, Appended DEF JournalInv
<1>4. Nonce(Me) \in Nat /\ Nonce(Me)' \in Nat
  BY <1>1, RowRead, MineIsAccount DEF JournalInv, Nonce, Rows
<1>5. /\ Mine \subseteq 1 .. n
      /\ \A j \in Mine' : j \in Mine \/ (j = n + 1 /\ r.sender = Me)
  BY <1>2 DEF Mine
<1>6. \A j \in Mine : /\ txs[j].nonce \in Nat /\ txs'[j] = txs[j]
                      /\ SignedAs(txs[j]) # {}
                      /\ Me \notin stale => txs[j].nonce < Nonce(Me)
  <2>1. \A j \in Mine : txs[j] \in AnyRequest
    BY <1>2, <1>5 DEF JournalInv
  <2> QED BY <2>1, <1>2, <1>5, PartsOfAny DEF JournalInv
<1>7. ASSUME NEW j \in Mine' PROVE SignedAs(txs'[j]) # {}
  BY <1>0, <1>2, <1>5, <1>6 DEF Submittable
<1>8. ASSUME Me \notin stale', NEW j \in Mine' PROVE txs'[j].nonce < Nonce(Me)'
  <2>1. CASE j \in Mine
    <3>1. Nonce(Me)' >= Nonce(Me) /\ Me \notin stale
      BY <1>1, <1>8
    <3>2. txs'[j].nonce < Nonce(Me) /\ txs'[j].nonce \in Nat
      BY <1>6, <2>1, <3>1
    <3> QED BY <1>4, <3>1, <3>2
  <2>2. CASE j = n + 1 /\ r.sender = Me
    BY <1>0, <1>1, <1>2, <1>8, <2>2
  <2> QED BY <1>5, <2>1, <2>2
<1>9. ASSUME Me \notin stale', NEW i \in Mine', NEW j \in Mine', i < j
      PROVE  txs'[i].nonce < txs'[j].nonce
  <2>1. i \in Mine
    BY <1>2, <1>5, <1>9 DEF Mine
  <2>2. CASE j \in Mine
    BY <1>1, <1>6, <1>9, <2>1, <2>2 DEF JournalInv
  <2>3. CASE j = n + 1 /\ r.sender = Me
    BY <1>1, <1>2, <1>6, <1>9, <2>1, <2>3
  <2> QED BY <1>5, <2>2, <2>3
<1>10. \A j \in Mine' : (SignedAs(txs[j]) # {})'
  BY <1>7 DEF SignedAs
<1> QED BY <1>1, <1>2, <1>3, <1>8, <1>9, <1>10 DEF JournalInv

\* What the client holds is not overtaken: nonces only grow.
LEMMA SettleHeld ==
  ASSUME ClientInv, NEW r, Submittable(r), Submits(r),
         UNCHANGED <<signed, order, at, call>>
  PROVE  SignedInv' /\ OrderInv'
<1>1. /\ players' \in Rows /\ txs' = Append(txs, r) /\ stale \subseteq stale'
      /\ Me \notin stale' => Nonce(Me)' >= Nonce(Me)
  BY SubmitNonces DEF ClientInv, Submittable, Submits
<1>2. /\ Nonce(Me) \in Nat /\ Nonce(Me)' \in Nat
      /\ Len(txs) \in Nat /\ Len(txs') = Len(txs) + 1
  BY <1>1, RowRead, MineIsAccount, Appended
     DEF ClientInv, JournalInv, Submittable, Nonce, Rows
<1>3. \A k \in DOMAIN signed : signed[k].payload.nonce \in Nat
  <2>1. \A k \in DOMAIN signed : signed[k] \in SignedEntry
    BY DEF ClientInv, SignedInv
  <2> QED BY <2>1 DEF SignedEntry
<1>4. ASSUME Me \notin stale', NEW m \in Nat, m <= Nonce(Me) PROVE m <= Nonce(Me)'
  BY <1>1, <1>2, <1>4
<1>5. \A m \in 0 .. Len(txs) : m \in 0 .. Len(txs')
  BY <1>2
<1>6. SignedInv'
  <2>1. ASSUME NEW k \in DOMAIN signed
        PROVE  /\ signed[k].sent \in 0 .. Len(txs')
               /\ Me \notin stale' => signed[k].payload.nonce <= Nonce(Me)'
    BY <1>1, <1>3, <1>4, <1>5 DEF ClientInv, SignedInv
  <2> QED BY <1>1, <2>1 DEF ClientInv, SignedInv
<1>7. NonceRead => NonceRead'
  BY <1>1, <1>4 DEF NonceRead, ReadNonce
<1> QED BY <1>6, <1>7 DEF ClientInv, OrderInv

\* An answer that is still to be printed stays true.
LEMMA SettleAnswer ==
  ASSUME ClientInv, NEW r, Submittable(r), Submits(r),
         UNCHANGED <<signed, at, answer>>
  PROVE  AnswerInv'
<1>1. /\ players' \in Rows
      /\ txs' = Append(txs, r) /\ stale \subseteq stale'
      /\ Me \notin stale' => Nonce(Me)' >= Nonce(Me)
      /\ players[Me] # NoRow => players'[Me] # NoRow
  BY SubmitNonces, MineIsAccount DEF ClientInv, Submittable, Submits
<1>2. \A j \in Mine : j \in Mine' /\ txs'[j] = txs[j]
  BY <1>1, Appended DEF ClientInv, JournalInv, Submittable, Mine
<1>3. ASSUME answer \notin {NoAnswer, NoRow}
      PROVE  /\ players'[Me] # NoRow
             /\ Me \notin stale' => answer.nonce <= players'[Me].nonce
  <2>1. /\ players[Me] # NoRow /\ players'[Me] # NoRow
        /\ Me \notin stale' => answer.nonce <= players[Me].nonce
        /\ answer.nonce = signed[Len(signed)].payload.nonce + 1
    BY <1>1, <1>3 DEF ClientInv, AnswerInv
  <2>2. Me \notin stale' => players'[Me].nonce >= players[Me].nonce
    BY <1>1, <2>1 DEF Nonce, RowOrZero
  <2>3. players[Me].nonce \in Nat /\ players'[Me].nonce \in Nat
    BY <1>1, <2>1, MineIsAccount DEF ClientInv, JournalInv, Rows, Row
  <2>4. answer.nonce \in Nat
    <3>1. signed # << >> /\ signed \in Seq(SignedEntry)
      BY <1>3 DEF ClientInv, AnswerInv, SignedInv
    <3>2. signed[Len(signed)] \in SignedEntry
      BY <3>1
    <3> QED BY <2>1, <3>2 DEF SignedEntry
  <2> QED BY <2>1, <2>2, <2>3, <2>4
<1> QED BY <1>1, <1>2, <1>3 DEF ClientInv, AnswerInv

-----------------------------------------------------------------------------
(* The other steps keep it: they leave the tables alone.                     *)

\* Payloads stay what they are; one may be sent on.
SameSigned ==
  /\ signed' \in Seq(SignedEntry) /\ Len(signed') = Len(signed)
  /\ DOMAIN signed' = DOMAIN signed
  /\ \A k \in DOMAIN signed : /\ signed'[k].payload = signed[k].payload
                              /\ signed'[k].kind = signed[k].kind
                              /\ signed'[k].sent \in 0 .. Len(txs)

LEMMA NothingSigned == ClientInv /\ UNCHANGED signed => SameSigned
  BY DEF ClientInv, SignedInv, SameSigned

LEMMA HandedOver ==
  ASSUME ClientInv, NEW i \in DOMAIN signed, HandOver(i)
  PROVE  SameSigned
<1>1. /\ signed' = [signed EXCEPT ![i] = [signed[i] EXCEPT !.sent = Len(txs)]]
      /\ signed \in Seq(SignedEntry) /\ Len(txs) \in Nat
      /\ \A k \in DOMAIN signed : signed[k].sent \in 0 .. Len(txs)
  BY DEF HandOver, ClientInv, SignedInv, JournalInv
<1> DEFINE e == [signed[i] EXCEPT !.sent = Len(txs)]
<1>2. /\ e \in SignedEntry /\ e.payload = signed[i].payload
      /\ e.kind = signed[i].kind /\ e.sent = Len(txs)
  <2>1. signed[i] \in SignedEntry
    BY <1>1
  <2> QED BY <1>1, <2>1 DEF SignedEntry
<1> HIDE DEF e
<1>3. signed' = [signed EXCEPT ![i] = e]
  BY <1>1 DEF e
<1>4. /\ signed' \in Seq(SignedEntry) /\ Len(signed') = Len(signed)
      /\ DOMAIN signed' = DOMAIN signed
      /\ \A k \in DOMAIN signed : signed'[k] = IF k = i THEN e ELSE signed[k]
  <2> DEFINE n == Len(signed)
  <2>1. n \in Nat /\ DOMAIN signed = 1 .. n /\ signed \in [1 .. n -> SignedEntry]
    BY <1>1
  <2>2. /\ signed' \in [1 .. n -> SignedEntry]
        /\ \A k \in 1 .. n : signed'[k] = IF k = i THEN e ELSE signed[k]
    BY <1>2, <1>3, <2>1
  <2> QED BY <2>1, <2>2
<1> QED BY <1>1, <1>2, <1>4 DEF SameSigned

\* With the tables and the signed payloads unchanged, what they say of each
\* other is, too.
LEMMA QuietTables ==
  ASSUME ClientInv, UNCHANGED ledger, SameSigned
  PROVE  JournalInv' /\ SignedInv'
<1>1. UNCHANGED <<players, txs, past, stale>> /\ Nonce(Me)' = Nonce(Me)
  BY DEF ledger, Nonce, RowOrZero
<1>2. Mine' = Mine /\ \A r : SignedAs(r)' = SignedAs(r)
  BY <1>1 DEF Mine, SignedAs, SameSigned
<1>3. \A j \in Mine : (SignedAs(txs[j]) # {})'
  <2>1. \A j \in Mine : SignedAs(txs[j]) # {} /\ txs'[j] = txs[j]
    BY <1>1 DEF ClientInv, JournalInv
  <2> QED BY <2>1 DEF SignedAs, SameSigned
<1>4. JournalInv'
  BY <1>1, <1>2, <1>3 DEF ClientInv, JournalInv
<1>5. SignedInv'
  BY <1>1 DEF ClientInv, SignedInv, SameSigned
<1> QED BY <1>4, <1>5

\* An answer that is not replaced stays true with them.
LEMMA QuietAnswer ==
  ASSUME ClientInv, UNCHANGED ledger, SameSigned,
         \/ UNCHANGED <<at, answer>>
         \/ answer' = NoAnswer /\ at' # "sent"
         \/ answer' = NoRow /\ at = "sent" /\ UNCHANGED at
  PROVE  AnswerInv'
<1>1. UNCHANGED <<players, txs, stale>> /\ Mine' = Mine
  BY DEF ledger, Mine
<1>2. signed # << >> => /\ signed' # << >>
                        /\ signed'[Len(signed')].payload = signed[Len(signed)].payload
  <2>1. signed \in Seq(SignedEntry)
    BY DEF ClientInv, SignedInv
  <2> QED BY <2>1 DEF SameSigned
<1>3. at' = "sent" => signed' # << >>
  BY <1>2 DEF ClientInv, AnswerInv
<1>4. ASSUME answer' \notin {NoAnswer, NoRow}
      PROVE  UNCHANGED <<at, answer>> /\ signed # << >>
  BY <1>4 DEF ClientInv, AnswerInv
<1> QED BY <1>1, <1>2, <1>3, <1>4 DEF ClientInv, AnswerInv

\* A statement of a handler writes no table.
LEMMA StatementReads ==
  ASSUME Statement
  PROVE  UNCHANGED <<ledger, blocks>>
  BY DEF Statement, Find, Count, LeaderboardQuery, CountByPlayer, FindByPlayer,
         CountAll, CountPending, LatestBlock, CountBlocks, GetByHeight,
         ListBlocksQuery, TransactionHashesByBlock, Returns, ReturnsBlocks

\* GetBalance has one statement; its result is the row's nonce.
LEMMA NonceIsRead ==
  ASSUME ClientInv, call = GetBalance(Me), Statement, UNCHANGED signed
  PROVE  NonceRead'
<1>1. /\ call = [op |-> "balance", arg |-> [player |-> Me],
                 todo |-> <<"row">>, got |-> << >>]
      /\ call.todo = <<"row">> /\ Head(call.todo) = "row"
      /\ call.arg.player = Me
  BY DEF GetBalance, Call
<1>2. Find
  BY <1>1 DEF Statement, Count, LeaderboardQuery, CountByPlayer, FindByPlayer,
              CountAll, CountPending, LatestBlock, CountBlocks, GetByHeight,
              ListBlocksQuery, TransactionHashesByBlock, Due
<1>3. call' = [call EXCEPT !.todo = Tail(call.todo),
                           !.got = With(call.got, "row", RowOrZero(players[Me]))]
  BY <1>1, <1>2 DEF Find, Returns
<1>4. /\ call'.todo = << >>
      /\ call'.got = With(call.got, "row", RowOrZero(players[Me]))
  BY <1>1, <1>3
<1>5. call'.got["row"] = RowOrZero(players[Me])
  BY <1>4 DEF With
<1>6. Nonce(Me) \in Nat
  BY NonceNat DEF ClientInv, JournalInv
<1>7. UNCHANGED <<players, stale, signed>>
  BY <1>2 DEF Find, Returns, ledger
<1>8. ReadNonce' = Nonce(Me) /\ Nonce(Me)' = Nonce(Me)
  BY <1>5, <1>7 DEF ReadNonce, Nonce, RowOrZero
<1>9. Me \notin stale => \A k \in DOMAIN signed : signed[k].payload.nonce <= Nonce(Me)
  BY DEF ClientInv, SignedInv
<1> QED BY <1>4, <1>6, <1>7, <1>8, <1>9 DEF NonceRead

\* A question, its answer, and everything that only moves the client about.
LEMMA MenuSteps ==
  ASSUME ClientInv,
         \/ \E question \in Questions : Ask(question)
         \/ PrintAnswer \/ Respond \/ PrintResult \/ GiveUp
         \/ \E o \in Order : Enter(o)
         \/ \E terms \in Order \cup {Gone} : Accept(terms)
  PROVE  ClientInv'
<1>1. UNCHANGED <<ledger, signed, inFlight, held>> /\ SameSigned
  BY NothingSigned DEF Ask, PrintAnswer, Respond, PrintResult, GiveUp, Enter,
                       Accept, FetchNonce
<1>2. ServerInv'
  BY <1>1 DEF ClientInv, ServerInv
<1>3. OrderInv'
  BY DEF OrderInv, Ask, PrintAnswer, Respond, PrintResult, GiveUp, Enter,
         Accept, FetchNonce
<1>4. AnswerInv'
  <2>1. at # "sent" => answer = NoAnswer
    BY DEF ClientInv, AnswerInv
  <2>2. answer' = NoAnswer /\ at' # "sent"
    BY <2>1 DEF Ask, PrintAnswer, Respond, PrintResult, GiveUp, Enter, Accept,
                FetchNonce
  <2> QED BY <1>1, <2>2, QuietAnswer
<1> QED BY <1>1, <1>2, <1>3, <1>4, QuietTables DEF ClientInv

\* A statement of the handler the client waits for.
LEMMA HandleStep ==
  ASSUME ClientInv, Handle
  PROVE  ClientInv'
<1>1. UNCHANGED <<ledger, signed, inFlight, held, at, order, answer>> /\ SameSigned
  BY StatementReads, NothingSigned DEF Handle, client
<1>2. ServerInv'
  BY <1>1 DEF ClientInv, ServerInv
<1>3. OrderInv'
  <2>1. CASE at # "nonce"
    BY <1>1, <2>1 DEF OrderInv
  <2>2. CASE at = "nonce" /\ call = GetBalance(Me)
    BY <1>1, <2>2, NonceIsRead DEF Handle, ClientInv, OrderInv
  <2>3. CASE at = "nonce" /\ NonceRead
    <3>1. ~Running
      BY <2>3 DEF NonceRead, Running
    <3>2. ~Statement
      BY <3>1 DEF Statement, Find, Count, LeaderboardQuery, CountByPlayer,
                  FindByPlayer, CountAll, CountPending, LatestBlock,
                  CountBlocks, GetByHeight, ListBlocksQuery,
                  TransactionHashesByBlock, Due
    <3> QED BY <3>2 DEF Handle
  <2> QED BY <2>1, <2>2, <2>3 DEF ClientInv, OrderInv
<1>4. AnswerInv'
  BY <1>1, QuietAnswer
<1> QED BY <1>1, <1>2, <1>3, <1>4, QuietTables DEF ClientInv

\* Servers turn down or put aside what was signed; blocks appear.
LEMMA ServerSteps ==
  ASSUME ClientInv,
         \/ \E i \in DOMAIN signed : Refuse(i) \/ LegLost(i) \/ HandOver(i)
         \/ CreateGenesis
         \/ \E block \in SUBSET pending : Seal(block)
  PROVE  ClientInv'
<1>1. /\ UNCHANGED <<ledger, at, order, call>> /\ SameSigned
      /\ \/ UNCHANGED answer
         \/ answer' = NoRow /\ at = "sent"
  <2>1. ASSUME NEW i \in DOMAIN signed, Refuse(i) \/ LegLost(i) PROVE UNCHANGED signed
    BY <2>1 DEF Refuse, LegLost
  <2>2. CASE CreateGenesis \/ \E block \in SUBSET pending : Seal(block)
    BY <2>2, NothingSigned DEF CreateGenesis, Seal, client
  <2> QED BY <2>1, <2>2, NothingSigned, HandedOver
          DEF Refuse, LegLost, HandOver, Answers, Awaited
<1>2. ServerInv'
  <2>1. ASSUME NEW i \in DOMAIN signed, Refuse(i) \/ LegLost(i) \/ HandOver(i)
        PROVE  ServerInv'
    <3>1. /\ inFlight' \subseteq inFlight
          /\ held' \subseteq held \cup (IF signed[i].kind = "offer" THEN {i} ELSE {})
      BY <2>1 DEF Refuse, LegLost, HandOver
    <3>2. signed[i].kind = "offer" => signed[i].payload.receiver \in Accounts
      BY DEF ClientInv, SignedInv
    <3> QED BY <1>1, <3>1, <3>2 DEF ClientInv, ServerInv, SameSigned
  <2>2. ASSUME CreateGenesis \/ \E block \in SUBSET pending : Seal(block)
        PROVE  ServerInv'
    BY <2>2 DEF ClientInv, ServerInv, CreateGenesis, Seal, client
  <2> QED BY <2>1, <2>2
<1>3. OrderInv'
  BY <1>1 DEF ClientInv, OrderInv, NonceRead, ReadNonce, Nonce, RowOrZero, ledger,
              SameSigned
<1>4. AnswerInv'
  BY <1>1, QuietAnswer
<1> QED BY <1>1, <1>2, <1>3, <1>4, QuietTables DEF ClientInv

\* Signing: the nonce read is the largest signed so far.
LEMMA SignStep ==
  ASSUME ClientInv, Sign
  PROVE  ClientInv'
<1> DEFINE n     == Len(signed)
           entry == [kind |-> order.kind, sent |-> Len(txs),
                     payload |-> Payload(order, ReadNonce)]
<1>1. /\ at = "nonce" /\ at' = "sent" /\ call.todo = << >>
      /\ signed' = Append(signed, entry)
      /\ inFlight' = inFlight \cup {n + 1}
      /\ UNCHANGED <<players, txs, past, stale, held, answer>>
  BY DEF Sign, Answered, Running, ReadNonce, ledger
<1>2. NonceRead
  <2>1. call # GetBalance(Me)
    BY <1>1 DEF GetBalance, Call
  <2> QED BY <1>1, <2>1 DEF ClientInv, OrderInv
<1>3. /\ order \in Order \cup {Gone} /\ ReadNonce \in Nat /\ Len(txs) \in Nat
      /\ Me \notin stale =>
           /\ ReadNonce <= Nonce(Me)
           /\ \A k \in DOMAIN signed : signed[k].payload.nonce <= ReadNonce
  BY <1>1, <1>2 DEF ClientInv, OrderInv, NonceRead, JournalInv
<1>4. /\ order.kind \in Kinds /\ order.receiver \in Accounts \cup {NoOne}
      /\ order.amount \in [Channels -> Nat]
      /\ order.kind = "offer" => order.receiver \in Accounts
  <2>1. CASE order = Gone
    BY <2>1 DEF Gone, Kinds
  <2>2. CASE order \in Order
    <3>1. /\ order.kind \in Kinds /\ order.receiver \in Accounts
          /\ order.amount \in [Channels -> Amounts]
      BY <2>2 DEF Order
    <3> QED BY <3>1, InputAssumption
  <2> QED BY <1>3, <2>1, <2>2
<1>5. /\ entry \in SignedEntry /\ entry.sent \in 0 .. Len(txs)
      /\ entry.payload.nonce = ReadNonce
      /\ entry.kind = "offer" => entry.payload.receiver \in Accounts
  BY <1>3, <1>4 DEF SignedEntry, Payload
<1> HIDE DEF entry
<1>6. /\ signed' \in Seq(SignedEntry) /\ n \in Nat
      /\ DOMAIN signed = 1 .. n /\ DOMAIN signed' = 1 .. n + 1
      /\ \A i \in 1 .. n : signed'[i] = signed[i]
      /\ signed'[n + 1] = entry
      /\ Len(signed') = n + 1
  BY <1>1, <1>5, Appended DEF ClientInv, SignedInv
<1>7. JournalInv'
  <2>1. ASSUME NEW j \in Mine
        PROVE  \E k \in DOMAIN signed' : signed'[k].payload = txs[j]
    <3>1. PICK k \in DOMAIN signed : signed[k].payload = txs[j]
      BY DEF ClientInv, JournalInv, SignedAs
    <3> QED BY <1>6, <3>1
  <2>2. Nonce(Me)' = Nonce(Me) /\ Mine' = Mine
    BY <1>1 DEF Nonce, RowOrZero, Mine
  <2> QED BY <1>1, <2>1, <2>2 DEF ClientInv, JournalInv, SignedAs
<1>8. SignedInv'
  <2>1. Nonce(Me)' = Nonce(Me)
    BY <1>1 DEF Nonce, RowOrZero
  <2>2. ASSUME NEW k \in DOMAIN signed'
        PROVE  /\ signed'[k].sent \in 0 .. Len(txs')
               /\ Me \notin stale' => signed'[k].payload.nonce <= Nonce(Me)'
               /\ signed'[k].kind = "offer" => signed'[k].payload.receiver \in Accounts
    BY <1>1, <1>3, <1>5, <1>6, <2>1 DEF ClientInv, SignedInv
  <2>3. ASSUME Me \notin stale', NEW k \in DOMAIN signed', NEW l \in DOMAIN signed', k < l
        PROVE  signed'[k].payload.nonce <= signed'[l].payload.nonce
    <3>1. k \in 1 .. n
      BY <1>6, <2>3
    <3>2. CASE l \in 1 .. n
      BY <1>1, <1>6, <2>3, <3>1, <3>2 DEF ClientInv, SignedInv
    <3>3. CASE l = n + 1
      BY <1>1, <1>3, <1>5, <1>6, <2>3, <3>1, <3>3
    <3> QED BY <1>6, <3>2, <3>3
  <2> QED BY <1>6, <2>2, <2>3 DEF SignedInv
<1>9. ServerInv'
  <2>1. \A k \in DOMAIN signed : k \in DOMAIN signed' /\ signed'[k] = signed[k]
    BY <1>6
  <2>2. n + 1 \in DOMAIN signed'
    BY <1>6
  <2> QED BY <1>1, <2>1, <2>2 DEF ClientInv, ServerInv
<1>10. OrderInv'
  BY <1>1 DEF OrderInv
<1>11. AnswerInv'
  <2>1. answer' = NoAnswer
    BY <1>1 DEF ClientInv, AnswerInv
  <2>2. signed' # << >>
    BY <1>6
  <2> QED BY <1>1, <2>1, <2>2 DEF AnswerInv
<1> QED BY <1>7, <1>8, <1>9, <1>10, <1>11 DEF ClientInv

\* A payload with a receiver is something that can be submitted.
LEMMA SignedSubmittable ==
  ASSUME ClientInv, NEW i \in DOMAIN signed,
         signed[i].payload.receiver \in Accounts
  PROVE  Submittable(signed[i].payload) /\ signed[i].payload.sender = Me
<1>1. signed[i] \in SignedEntry
  BY DEF ClientInv, SignedInv
<1>2. signed[i].payload \in AnyRequest /\ signed[i].payload.sender = Me
  BY <1>1, MineIsAccount DEF SignedEntry, AnyRequest
<1> QED BY <1>2 DEF Submittable, SignedAs

\* The balance a submission answers is the row it computed for its sender.
LEMMA BalanceIsRow ==
  ASSUME NEW r \in AnyRequest, NEW found, Found(found) \in [Roles -> Row],
         Accepts(r, Found(found)["sender"])
  PROVE  NewBalance(r, found) \in Row /\ NewBalance(r, found).nonce = r.nonce + 1
<1> DEFINE copy == Found(found)
<1>1. copy["sender"] \in Row /\ copy["receiver"] \in Row /\ "sender" \in Roles
  BY DEF Roles
<1> HIDE DEF copy
<1>2. /\ Settled(r, copy["sender"], copy["receiver"])["sender"] \in Row
      /\ Settled(r, copy["sender"], copy["receiver"])["sender"].nonce
           = copy["sender"].nonce + 1
  BY <1>1, SettledAny DEF copy
<1>3. copy["sender"].nonce = r.nonce
  BY DEF Accepts, copy
<1> QED BY <1>2, <1>3 DEF NewBalance, copy

\* The Ledger carries something out for the player: when the client waits for the
\* answer, it gets the balance of that submission.
LEMMA DeliverStep ==
  ASSUME ClientInv, NEW i \in DOMAIN signed, Deliver(i)
  PROVE  ClientInv'
<1> DEFINE r == signed[i].payload
<1>0. PICK found \in Finds(i) :
        /\ Settles(r, found) /\ Answers(i, NewBalance(r, found))
  BY DEF Deliver
<1>1. /\ r.receiver # NoOne
      /\ inFlight' = inFlight \ {i}
      /\ UNCHANGED <<signed, order, at, call, held>>
      /\ answer' = IF Awaited(i) THEN NewBalance(r, found) ELSE answer
  BY <1>0 DEF Deliver, Answers
<1>2. Submittable(r) /\ r.sender = Me /\ r \in AnyRequest
  <2>1. signed[i] \in SignedEntry
    BY DEF ClientInv, SignedInv
  <2>2. r.receiver \in Accounts
    BY <1>1, <2>1 DEF SignedEntry
  <2> QED BY <2>2, SignedSubmittable DEF Submittable
<1>3. signed[i].sent \in Nat /\ found \in Reads(r, signed[i].sent)
  BY <1>0 DEF Finds, ClientInv, SignedInv
<1>4. Submits(r)
  BY <1>0, <1>3 DEF Submits
<1> HIDE DEF r
<1>5. JournalInv' /\ SignedInv' /\ OrderInv'
  BY <1>1, <1>2, <1>4, SettleJournal, SettleHeld DEF ClientInv
<1>6. ServerInv'
  BY <1>1 DEF ClientInv, ServerInv
<1>7. CASE ~Awaited(i)
  BY <1>1, <1>2, <1>4, <1>5, <1>6, <1>7, SettleAnswer DEF ClientInv
<1>8. CASE Awaited(i)
  <2>1. /\ txs \in Seq(AnyRequest) /\ txs' = Append(txs, r)
        /\ Found(found) \in [Roles -> Row] /\ Accepts(r, Found(found)["sender"])
        /\ players' \in Rows /\ players'[Me] # NoRow
        /\ Me \notin stale' => Nonce(Me)' = r.nonce + 1
    BY <1>0, <1>2, <1>3, SubmitNonces DEF ClientInv, JournalInv
  <2>2. Len(txs) + 1 \in Mine' /\ txs'[Len(txs) + 1] = r
    BY <1>2, <2>1, Appended DEF Mine
  <2>3. answer'.nonce = r.nonce + 1
    BY <1>1, <1>2, <1>8, <2>1, BalanceIsRow
  <2>4. i = Len(signed) /\ at' = "sent" /\ signed' = signed /\ signed # << >>
    BY <1>1, <1>8 DEF Awaited, ClientInv, AnswerInv
  <2>5. Me \notin stale' => answer'.nonce <= players'[Me].nonce
    <3>1. r.nonce + 1 <= r.nonce + 1
      BY <1>2, PartsOfAny
    <3> QED BY <2>1, <2>3, <3>1 DEF Nonce, RowOrZero
  <2>6. AnswerInv'
    BY <2>1, <2>2, <2>3, <2>4, <2>5 DEF AnswerInv, r
  <2> QED BY <1>5, <1>6, <2>6 DEF ClientInv
<1> QED BY <1>7, <1>8

\* The Ledger carries out an offer the Game Server held, or a submission of
\* somebody else.
LEMMA OthersSubmit ==
  ASSUME ClientInv,
         \/ \E i \in DOMAIN signed : SettleOffer(i)
         \/ \E r \in Request : OtherSubmission(r)
  PROVE  \E r : Submittable(r) /\ Submits(r)
<1>1. ASSUME NEW i \in DOMAIN signed, SettleOffer(i)
      PROVE  Submittable(signed[i].payload) /\ Submits(signed[i].payload)
  <2>1. Submittable(signed[i].payload)
    BY <1>1, SignedSubmittable DEF SettleOffer, ClientInv, ServerInv
  <2>2. signed[i].sent \in Nat
    BY DEF ClientInv, SignedInv
  <2> QED BY <1>1, <2>1, <2>2 DEF SettleOffer, Finds, Submits
<1>2. ASSUME NEW r \in Request, OtherSubmission(r)
      PROVE  Submittable(r) /\ Submits(r)
  <2> DEFINE since == IF Len(txs) > MaxLag THEN Len(txs) - MaxLag ELSE 0
  <2>1. r.sender # Me /\ \E found \in Reads(r, since) : Settles(r, found)
    BY <1>2 DEF OtherSubmission
  <2>2. since \in Nat
    <3>1. Len(txs) \in Nat /\ MaxLag \in Nat
      BY ClientAssumption DEF ClientInv, JournalInv
    <3> QED BY <3>1
  <2> HIDE DEF since
  <2> QED BY <2>1, <2>2, RequestIsAny DEF Submittable, Submits
<1> QED BY <1>1, <1>2

LEMMA OtherSettles ==
  ASSUME ClientInv,
         \/ \E i \in DOMAIN signed : SettleOffer(i)
         \/ \E r \in Request : OtherSubmission(r)
  PROVE  ClientInv'
<1>1. UNCHANGED <<signed, inFlight, held, order, at, call, answer>>
  BY DEF SettleOffer, OtherSubmission, client
<1>2. PICK r : Submittable(r) /\ Submits(r)
  BY OthersSubmit
<1>3. ServerInv'
  BY <1>1 DEF ClientInv, ServerInv
<1> QED BY <1>1, <1>2, <1>3, SettleJournal, SettleHeld, SettleAnswer DEF ClientInv

-----------------------------------------------------------------------------
(* What the read handlers rely on.  Journal and chain only grow, and every   *)
(* transaction of the journal is in one block or pends.                      *)

TablesInv ==
  /\ chain \in Seq(SUBSET Nat)
  /\ pending \subseteq DOMAIN txs
  /\ \A h \in DOMAIN chain : chain[h] \subseteq DOMAIN txs \ pending
  /\ \A g, h \in DOMAIN chain : chain[g] \cap chain[h] # {} => g = h
  /\ \A i \in DOMAIN txs : i \in pending \/ \E h \in DOMAIN chain : i \in chain[h]
  /\ IsFiniteSet(Stored)
  /\ \A i \in DOMAIN txs : {txs[i].sender, txs[i].receiver} \subseteq Stored

\* What no step takes back.
Grows ==
  /\ DOMAIN txs \subseteq DOMAIN txs' /\ Len(txs) <= Len(txs')
  /\ \A i \in DOMAIN txs : txs'[i] = txs[i]
  /\ DOMAIN chain \subseteq DOMAIN chain' /\ Len(chain) <= Len(chain')
  /\ \A h \in DOMAIN chain : chain'[h] = chain[h]
  /\ pending' \cap DOMAIN txs \subseteq pending

\* The minimum and the maximum of two.
LEMMA MinOfTwo ==
  ASSUME NEW m \in Int, NEW n \in Int
  PROVE  Min({m, n}) = IF m <= n THEN m ELSE n
BY DEF Min

LEMMA MaxOfTwo ==
  ASSUME NEW m \in Int, NEW n \in Int
  PROVE  Max({m, n}) = IF m >= n THEN m ELSE n
BY DEF Max

\* The lengths and domains of the two tables.
LEMMA TableLengths ==
  ASSUME JournalInv, TablesInv
  PROVE  /\ Len(txs) \in Nat /\ DOMAIN txs = 1 .. Len(txs)
         /\ Len(chain) \in Nat /\ DOMAIN chain = 1 .. Len(chain)
         /\ IsFiniteSet(DOMAIN txs) /\ Cardinality(DOMAIN txs) = Len(txs)
         /\ IsFiniteSet(pending)
<1>1. /\ Len(txs) \in Nat /\ DOMAIN txs = 1 .. Len(txs)
      /\ Len(chain) \in Nat /\ DOMAIN chain = 1 .. Len(chain)
  BY DEF JournalInv, TablesInv
<1>2. IsFiniteSet(1 .. Len(txs)) /\ Cardinality(1 .. Len(txs)) = Len(txs)
  <2> DEFINE n == Len(txs)
  <2>1. n \in Int /\ n >= 0
    BY <1>1
  <2> HIDE DEF n
  <2>2. /\ IsFiniteSet(1 .. n)
        /\ Cardinality(1 .. n) = IF 1 > n THEN 0 ELSE n - 1 + 1
    BY <2>1, FS_Interval
  <2>3. Cardinality(1 .. n) = n
    BY <2>1, <2>2
  <2> QED BY <2>2, <2>3 DEF n
<1>3. IsFiniteSet(pending)
  BY <1>1, <1>2, FS_Subset DEF TablesInv
<1> QED BY <1>1, <1>2, <1>3

\* The block_height column names the block a transaction is in.
LEMMA HeightOfSealed ==
  ASSUME JournalInv, TablesInv, NEW i \in DOMAIN txs
  PROVE  /\ i \in pending => BlockHeight(i) = -1
         /\ i \notin pending => BlockHeight(i) \in Heights /\ i \in BlockAt(BlockHeight(i))
<1>1. CASE i \in pending
  BY <1>1 DEF BlockHeight
<1>2. CASE i \notin pending
  <2>1. PICK h \in DOMAIN chain : i \in chain[h]
    BY <1>2 DEF TablesInv
  <2> DEFINE g == FirstHeight + h - 1
  <2>2. g \in Heights /\ g - FirstHeight + 1 = h
    BY <2>1, TableLengths, QueriesAssumption DEF Heights
  <2> HIDE DEF g
  <2>3. g \in Heights /\ i \in BlockAt(g)
    BY <2>1, <2>2 DEF BlockAt
  <2>4. BlockHeight(i) = CHOOSE x \in Heights : i \in BlockAt(x)
    BY <1>2 DEF BlockHeight
  <2> QED BY <1>2, <2>3, <2>4
<1> QED BY <1>1, <1>2

\* The block at a height stays there.
LEMMA BlocksStay ==
  ASSUME JournalInv, TablesInv, Grows, Len(chain') \in Nat
  PROVE  /\ \A h \in Heights : h \in Heights' /\ BlockAt(h)' = BlockAt(h)
         /\ \A h \in Heights' : h - FirstHeight + 1 \in 1 .. Len(chain')
         /\ \A h \in Heights : h \in Nat /\ h - FirstHeight + 1 \in DOMAIN chain
<1>1. /\ Len(chain) \in Nat /\ DOMAIN chain = 1 .. Len(chain)
      /\ FirstHeight \in Nat \ {0}
  BY TableLengths, QueriesAssumption
<1>2. \A h \in Heights : h \in Nat /\ h - FirstHeight + 1 \in DOMAIN chain
  BY <1>1 DEF Heights
<1>3. \A h \in Heights : h \in Heights'
  BY <1>1 DEF Heights, Grows
<1>4. \A h \in Heights' : h - FirstHeight + 1 \in 1 .. Len(chain')
  BY <1>1 DEF Heights
<1>5. \A h \in Heights : BlockAt(h)' = BlockAt(h)
  BY <1>2 DEF BlockAt, Grows
<1> QED BY <1>2, <1>3, <1>4, <1>5

\* A transaction that is in a block remains there.
LEMMA HeightStays ==
  ASSUME JournalInv, TablesInv, JournalInv', TablesInv', Grows,
         NEW i \in DOMAIN txs, i \notin pending
  PROVE  i \notin pending' /\ BlockHeight(i)' = BlockHeight(i)
<1>1. i \in DOMAIN txs' /\ i \notin pending'
  BY DEF Grows
<1>2. PICK g \in Heights : g = BlockHeight(i) /\ i \in BlockAt(g)
  BY HeightOfSealed
<1>3. Len(chain') \in Nat /\ DOMAIN chain' = 1 .. Len(chain')
  BY DEF TablesInv
<1>4. g \in Heights' /\ i \in BlockAt(g)' /\ g \in Nat
  BY <1>2, <1>3, BlocksStay
<1>5. ASSUME NEW h \in Heights', i \in BlockAt(h)' PROVE h = g
  <2> DEFINE m == h - FirstHeight + 1
             n == g - FirstHeight + 1
  <2>1. m \in DOMAIN chain' /\ n \in DOMAIN chain'
    BY <1>3, <1>4, BlocksStay
  <2>2. i \in chain'[m] /\ i \in chain'[n]
    BY <1>4, <1>5 DEF BlockAt
  <2> HIDE DEF m, n
  <2>3. m = n
    BY <2>1, <2>2 DEF TablesInv
  <2>4. h \in Int /\ FirstHeight \in Int
    BY QueriesAssumption DEF Heights
  <2> QED BY <1>4, <2>3, <2>4 DEF m, n
<1>6. BlockHeight(i)' = CHOOSE h \in Heights' : i \in BlockAt(h)'
  BY <1>1 DEF BlockHeight
<1>7. \A h \in Heights' : i \in BlockAt(h)' <=> h = g
  BY <1>4, <1>5
<1>8. (CHOOSE h \in Heights' : i \in BlockAt(h)') = g
  BY <1>4, <1>7
<1> QED BY <1>1, <1>2, <1>6, <1>8

-----------------------------------------------------------------------------
(* The tables grow with every step.                                          *)

\* A submission: one more transaction, which pends; its parties have rows.
LEMMA SettleTables ==
  ASSUME JournalInv, TablesInv, NEW r \in AnyRequest, Submits(r)
  PROVE  TablesInv' /\ Grows
<1> DEFINE n == Len(txs)
<1>1. /\ n \in Nat /\ DOMAIN txs = 1 .. n /\ txs' = Append(txs, r)
      /\ DOMAIN txs' = 1 .. n + 1 /\ Len(txs') = n + 1 /\ txs'[n + 1] = r
      /\ \A i \in 1 .. n : txs'[i] = txs[i]
  <2>1. txs' = Append(txs, r)
    BY SubmitNonces DEF Submits
  <2> QED BY <2>1, Appended DEF JournalInv
<1>2. pending' = pending \cup {n + 1} /\ chain' = chain
  BY DEF Submits, Settles, Blocks!Arrive
<1>3. r.sender \in Accounts /\ r.receiver \in Accounts
  BY PartsOfAny
<1>4. Stored' = Stored \cup {r.sender, r.receiver}
  <2>1. /\ \A a \in {r.sender, r.receiver} : players'[a] # NoRow
        /\ \A a \in Accounts \ {r.sender, r.receiver} : players'[a] = players[a]
    BY SubmitNonces DEF Submits
  <2> QED BY <1>3, <2>1 DEF Stored
<1>5. IsFiniteSet(Stored')
  <2>1. IsFiniteSet(Stored \cup {r.sender})
    BY FS_AddElement DEF TablesInv
  <2>2. Stored' = (Stored \cup {r.sender}) \cup {r.receiver}
    BY <1>4
  <2> QED BY <2>1, <2>2, FS_AddElement
<1>6. \A i \in DOMAIN txs' : {txs'[i].sender, txs'[i].receiver} \subseteq Stored'
  BY <1>1, <1>4 DEF TablesInv
<1>7. \A h \in DOMAIN chain : chain[h] \subseteq DOMAIN txs' \ pending'
  BY <1>1, <1>2 DEF TablesInv
<1>8. \A i \in DOMAIN txs' : i \in pending' \/ \E h \in DOMAIN chain : i \in chain[h]
  BY <1>1, <1>2 DEF TablesInv
<1>9. pending' \subseteq DOMAIN txs' /\ pending' \cap DOMAIN txs \subseteq pending
  BY <1>1, <1>2 DEF TablesInv
<1>10. TablesInv'
  BY <1>2, <1>5, <1>6, <1>7, <1>8, <1>9 DEF TablesInv
<1>11. Len(chain) <= Len(chain)
  BY DEF TablesInv
<1> QED BY <1>1, <1>2, <1>9, <1>10, <1>11 DEF Grows

\* A block, the genesis included, takes some of the pending transactions.
LEMMA SealTables ==
  ASSUME JournalInv, TablesInv, NEW block, block \subseteq pending,
         chain' = Append(chain, block), pending' = pending \ block,
         UNCHANGED ledger
  PROVE  TablesInv' /\ Grows
<1> DEFINE n == Len(chain)
<1>1. n \in Nat /\ DOMAIN chain = 1 .. n /\ DOMAIN txs \subseteq Nat /\ Len(txs) \in Nat
  BY TableLengths
<1>2. block \in SUBSET Nat
  BY <1>1 DEF TablesInv
<1>3. /\ chain' \in Seq(SUBSET Nat) /\ DOMAIN chain' = 1 .. n + 1
      /\ Len(chain') = n + 1 /\ chain'[n + 1] = block
      /\ \A h \in 1 .. n : chain'[h] = chain[h]
  BY <1>2, Appended DEF TablesInv
<1>4. UNCHANGED <<players, txs>> /\ Stored' = Stored
  BY DEF ledger, Stored
<1>5. ASSUME NEW h \in DOMAIN chain' PROVE chain'[h] \subseteq DOMAIN txs \ pending'
  <2>1. CASE h \in 1 .. n
    BY <1>1, <1>3, <2>1 DEF TablesInv
  <2>2. CASE h = n + 1
    BY <1>3, <2>2 DEF TablesInv
  <2> QED BY <1>1, <1>3, <2>1, <2>2
<1>6. ASSUME NEW g \in DOMAIN chain', NEW h \in DOMAIN chain',
             chain'[g] \cap chain'[h] # {}
      PROVE  g = h
  <2>1. \A k \in 1 .. n : chain'[k] = chain[k] /\ chain[k] \cap block = {}
    BY <1>1, <1>3 DEF TablesInv
  <2>2. CASE g \in 1 .. n /\ h \in 1 .. n
    BY <1>1, <1>6, <2>1, <2>2 DEF TablesInv
  <2>3. CASE g = n + 1 /\ h \in 1 .. n
    BY <1>3, <1>6, <2>1, <2>3
  <2>4. CASE g \in 1 .. n /\ h = n + 1
    BY <1>3, <1>6, <2>1, <2>4
  <2> QED BY <1>1, <1>3, <2>2, <2>3, <2>4
<1>7. ASSUME NEW i \in DOMAIN txs, i \notin pending'
      PROVE  \E h \in DOMAIN chain' : i \in chain'[h]
  <2>1. CASE i \in block
    BY <1>1, <1>3, <2>1
  <2>2. CASE i \notin block
    <3>1. PICK h \in DOMAIN chain : i \in chain[h]
      BY <1>7, <2>2 DEF TablesInv
    <3> QED BY <1>1, <1>3, <3>1
  <2> QED BY <2>1, <2>2
<1>8. TablesInv'
  BY <1>3, <1>4, <1>5, <1>6, <1>7 DEF TablesInv
<1> QED BY <1>1, <1>3, <1>4, <1>8 DEF Grows

LEMMA QuietGrows ==
  ASSUME JournalInv, TablesInv, UNCHANGED <<ledger, blocks>>
  PROVE  TablesInv' /\ Grows
<1>1. UNCHANGED <<players, txs, chain, pending>> /\ Stored' = Stored
  BY DEF ledger, blocks, Stored
<1>2. Len(txs) \in Nat /\ Len(chain) \in Nat
  BY TableLengths
<1> QED BY <1>1, <1>2 DEF TablesInv, Grows

-----------------------------------------------------------------------------
(* The handlers.  What the statements that have run returned is still true,  *)
(* or accounts for less than there is by now.                                *)

CallTyped == call = [op  |-> call.op,  arg |-> call.arg,
                     todo |-> call.todo, got |-> call.got]

Got(name) == call.got[name]
Has(name) == name \in DOMAIN call.got

\* GetChainStats.
Reported(latest) == UNION {BlockAt(h) : h \in FirstHeight .. latest}
Parties(n)       == UNION {{txs[i].sender, txs[i].receiver} : i \in 1 .. n}

LatestRead   == Has("latest") /\ Got("latest") \in {0} \cup Heights
UnsealedRead == /\ LatestRead /\ Has("unsealed") /\ Got("unsealed") \in Nat
                /\ Len(txs) - Got("unsealed") >= Cardinality(Reported(Got("latest")))
TotalRead    == /\ LatestRead /\ Has("unsealed") /\ Got("unsealed") \in Nat
                /\ Has("total") /\ Got("total") \in 0 .. Len(txs)
                /\ Got("total") - Got("unsealed")
                     >= Cardinality(Reported(Got("latest")))
AccountsRead == /\ TotalRead
                /\ Has("accounts")
                /\ Got("accounts") >= Cardinality(Parties(Got("total")))

StatsInv ==
  \/ call.todo = <<"latest", "unsealed", "total", "accounts">>
  \/ call.todo = <<"unsealed", "total", "accounts">> /\ LatestRead
  \/ call.todo = <<"total", "accounts">> /\ UnsealedRead
  \/ call.todo = <<"accounts">> /\ TotalRead
  \/ call.todo = << >> /\ AccountsRead

\* GetTransactionHistory.
PageLimit == Limited(call.arg.limit, HistoryMax, HistoryDefault)
CountRead == /\ Has("count")
             /\ Got("count") \in 0 .. Cardinality(InvolvedIn(call.arg.player))
RecordsRead ==
  /\ Has("records")
  /\ Cardinality(Got("records")) >= Min({PageLimit, Got("count") - call.arg.offset})
  /\ \A r \in Got("records") :
       /\ r.tx \in DOMAIN txs
       /\ call.arg.player \in {txs[r.tx].sender, txs[r.tx].receiver}
       /\ r.height # -1 => r.tx \notin pending /\ r.height = BlockHeight(r.tx)

HistoryInv ==
  /\ call.arg.limit \in Nat /\ call.arg.offset \in Nat
  /\ \/ call.todo = <<"count", "records">>
     \/ call.todo = <<"records">> /\ CountRead
     \/ call.todo = << >> /\ CountRead /\ RecordsRead

\* GetBlock and ListBlocks.
First == call.arg.page * PageSize
HeightRead == Has("height") /\ Got("height") \in 0 .. Len(chain)
BlocksRead ==
  /\ Has("heights") /\ Has("hashes")
  /\ Got("heights") \in Seq(Nat) /\ Got("hashes") \in Seq(SUBSET Nat)
  /\ \A i \in DOMAIN Got("heights") : Got("heights")[i] \in Heights
  /\ call.todo \in Seq({"hashes"})
  /\ Len(call.todo) + Len(Got("hashes")) = Len(Got("heights"))
  /\ \A i \in DOMAIN Got("hashes") :
       Got("hashes")[i] = BlockAt(Got("heights")[i])
PageRead ==
  First < Wrap =>
    /\ \A i \in DOMAIN Got("heights") : Got("heights")[i] = FirstHeight + First + i - 1
    /\ Len(Got("heights")) >= Min({PageSize, Got("height") - First})

ListInv ==
  /\ call.arg.page \in Nat /\ call.arg.size \in Nat
  /\ \/ call.todo = <<"height", "heights">>
     \/ call.todo = <<"heights">> /\ HeightRead
     \/ HeightRead /\ BlocksRead /\ PageRead

BlockInv == \/ call.todo = <<"block">> /\ call.arg.height \in Nat
            \/ BlocksRead

CallInv == /\ CallTyped
           /\ call.op = "stats"   => StatsInv
           /\ call.op = "history" => HistoryInv
           /\ call.op = "list"    => ListInv
           /\ call.op = "block"   => BlockInv

\* The answers are as good as the properties demand.
LEMMA AnswersHold ==
  ASSUME CallInv
  PROVE  StatsAccountFor /\ HistoryHolds /\ BlocksHold
<1>1. StatsAccountFor
  <2>1. ASSUME Answered, call.op = "stats" PROVE AccountsRead
    <3>1. /\ <<"latest", "unsealed", "total", "accounts">> # << >>
          /\ <<"unsealed", "total", "accounts">> # << >>
          /\ <<"total", "accounts">> # << >> /\ <<"accounts">> # << >>
      OBVIOUS
    <3> QED BY <2>1, <3>1 DEF CallInv, StatsInv, Answered, Running
  <2>2. AccountsRead =>
          /\ call.got.total - call.got.unsealed
               >= Cardinality(UNION {BlockAt(h) : h \in FirstHeight .. call.got.latest})
          /\ call.got.accounts >= Cardinality(UNION {{txs[i].sender, txs[i].receiver} :
                                                       i \in 1 .. call.got.total})
    BY DEF AccountsRead, TotalRead, Reported, Parties, Got
  <2> QED BY <2>1, <2>2 DEF StatsAccountFor
<1>2. HistoryHolds
  <2>1. ASSUME Answered, call.op = "history" PROVE RecordsRead
    <3>1. <<"count", "records">> # << >> /\ <<"records">> # << >>
      OBVIOUS
    <3> QED BY <2>1, <3>1 DEF CallInv, HistoryInv, Answered, Running
  <2>2. ASSUME RecordsRead
        PROVE  /\ Cardinality(call.got.records)
                    >= Min({PageLimit, call.got.count - call.arg.offset})
               /\ \A r \in call.got.records :
                    /\ call.arg.player \in {txs[r.tx].sender, txs[r.tx].receiver}
                    /\ r.height # -1 => r.height = BlockHeight(r.tx)
    BY <2>2 DEF RecordsRead, Got
  <2> QED BY <2>1, <2>2 DEF HistoryHolds, PageLimit
<1>3. BlocksHold
  <2>1. ASSUME Answered, call.op \in {"list", "block"}
        PROVE  BlocksRead /\ Len(call.todo) = 0
    <3>1. /\ <<"height", "heights">> # << >> /\ <<"heights">> # << >>
          /\ <<"block">> # << >>
      OBVIOUS
    <3>2. call.todo = << >>
      BY <2>1 DEF Answered, Running
    <3>3. BlocksRead
      BY <2>1, <3>1, <3>2 DEF CallInv, ListInv, BlockInv
    <3> QED BY <3>2, <3>3
  <2>2. ASSUME Answered, call.op \in {"list", "block"}
        PROVE  /\ Len(call.got.hashes) = Len(call.got.heights)
               /\ \A i \in DOMAIN call.got.heights :
                    call.got.hashes[i] = BlockAt(call.got.heights[i])
    <3>1. BlocksRead /\ Len(call.todo) = 0
      BY <2>1, <2>2
    <3>2. Len(Got("hashes")) = Len(Got("heights"))
      BY <3>1 DEF BlocksRead
    <3>3. DOMAIN Got("hashes") = DOMAIN Got("heights")
      BY <3>1, <3>2 DEF BlocksRead
    <3> QED BY <3>1, <3>2, <3>3 DEF BlocksRead, Got
  <2>3. Answered /\ call.op = "list" => PageRead
    <3>1. <<"height", "heights">> # << >> /\ <<"heights">> # << >>
      OBVIOUS
    <3> QED BY <3>1 DEF CallInv, ListInv, Answered, Running
  <2> QED BY <2>2, <2>3 DEF BlocksHold, PageRead, First, Got
<1> QED BY <1>1, <1>2, <1>3

\* The heights up to the latest are places of the chain.
LEMMA UpToLatest ==
  ASSUME JournalInv, TablesInv, NEW latest \in {0} \cup Heights,
         NEW h \in FirstHeight .. latest
  PROVE  h \in Heights /\ h - FirstHeight + 1 \in DOMAIN chain
<1>1. /\ Len(chain) \in Nat /\ DOMAIN chain = 1 .. Len(chain)
      /\ FirstHeight \in Nat \ {0}
  BY TableLengths, QueriesAssumption
<1> QED BY <1>1 DEF Heights

\* The blocks up to one height hold some of the transactions that do not pend.
LEMMA ReportedFinite ==
  ASSUME JournalInv, TablesInv, NEW latest \in {0} \cup Heights
  PROVE  /\ IsFiniteSet(Reported(latest))
         /\ Len(txs) - Cardinality(pending) >= Cardinality(Reported(latest))
<1> DEFINE R == Reported(latest)
<1>1. /\ Len(txs) \in Nat /\ DOMAIN chain = 1 .. Len(chain) /\ Len(chain) \in Nat
      /\ IsFiniteSet(DOMAIN txs) /\ Cardinality(DOMAIN txs) = Len(txs)
      /\ IsFiniteSet(pending)
  BY TableLengths
<1>2. R \subseteq DOMAIN txs /\ R \cap pending = {}
  <2>1. \A h \in FirstHeight .. latest : BlockAt(h) \subseteq DOMAIN txs \ pending
    BY UpToLatest DEF TablesInv, BlockAt
  <2> QED BY <2>1 DEF Reported
<1> HIDE DEF R
<1>3. IsFiniteSet(R) /\ Cardinality(R) \in Nat /\ Cardinality(pending) \in Nat
  BY <1>1, <1>2, FS_Subset, FS_CardinalityType
<1>4. Cardinality(pending \cup R) <= Len(txs)
  <2>1. pending \cup R \in SUBSET DOMAIN txs
    BY <1>2 DEF TablesInv
  <2> QED BY <1>1, <2>1, FS_Subset
<1>5. Cardinality(pending \cup R) = Cardinality(pending) + Cardinality(R)
  <2>1. Cardinality(pending \cap R) = 0
    <3>1. pending \cap R = {}
      BY <1>2
    <3> QED BY <3>1, FS_EmptySet
  <2>2. Cardinality(pending \cup R)
          = Cardinality(pending) + Cardinality(R) - Cardinality(pending \cap R)
    BY <1>1, <1>3, FS_Union
  <2> QED BY <1>3, <2>1, <2>2
<1>6. Len(txs) - Cardinality(pending) >= Cardinality(R)
  BY <1>1, <1>3, <1>4, <1>5
<1> QED BY <1>3, <1>6 DEF R

\* As the tables grow, what was read stays right.
LEMMA CallOutlives ==
  ASSUME JournalInv, TablesInv, JournalInv', TablesInv', Grows, CallInv,
         UNCHANGED call
  PROVE  CallInv'
<1>0. /\ Len(txs) \in Nat /\ DOMAIN txs = 1 .. Len(txs)
      /\ Len(chain) \in Nat /\ DOMAIN chain = 1 .. Len(chain)
      /\ Len(txs') \in Nat /\ Len(chain') \in Nat
  BY TableLengths DEF JournalInv, TablesInv
<1>1. CallTyped'
  BY DEF CallInv, CallTyped
<1>2. ASSUME call.op = "stats" PROVE StatsInv'
  <2>1. LatestRead => LatestRead'
    BY <1>0, BlocksStay DEF LatestRead, Has, Got
  <2>2. ASSUME LatestRead PROVE Reported(Got("latest"))' = Reported(Got("latest"))
    <3>1. \A h \in FirstHeight .. Got("latest") : BlockAt(h)' = BlockAt(h)
      BY <1>0, <2>2, UpToLatest, BlocksStay DEF LatestRead
    <3>2. Got("latest")' = Got("latest")
      BY DEF Got
    <3> QED BY <3>1, <3>2 DEF Reported
  <2>3. UnsealedRead => UnsealedRead'
    <3> SUFFICES ASSUME UnsealedRead PROVE UnsealedRead'
      OBVIOUS
    <3>1. /\ LatestRead' /\ Reported(Got("latest"))' = Reported(Got("latest"))
          /\ Got("unsealed") \in Nat /\ Got("unsealed")' = Got("unsealed")
          /\ Has("unsealed")'
      BY <2>1, <2>2 DEF UnsealedRead, Got, Has
    <3>2. Len(txs') - Got("unsealed") >= Len(txs) - Got("unsealed")
      BY <1>0, <3>1 DEF Grows
    <3>3. Len(txs') - Got("unsealed") >= Cardinality(Reported(Got("latest")))
      <4>1. IsFiniteSet(Reported(Got("latest")))
        BY ReportedFinite DEF UnsealedRead, LatestRead
      <4>2. Cardinality(Reported(Got("latest"))) \in Nat
        BY <4>1, FS_CardinalityType
      <4> QED BY <1>0, <3>1, <3>2, <4>2 DEF UnsealedRead
    <3> QED BY <3>1, <3>3 DEF UnsealedRead
  <2>4. TotalRead => TotalRead'
    BY <1>0, <2>1, <2>2 DEF TotalRead, Got, Has, Grows
  <2>5. AccountsRead => AccountsRead'
    <3> SUFFICES ASSUME AccountsRead PROVE AccountsRead'
      OBVIOUS
    <3>1. Got("total") \in 0 .. Len(txs) /\ Got("total")' = Got("total")
      BY DEF AccountsRead, TotalRead, Got
    <3>2. \A i \in 1 .. Got("total") : txs'[i] = txs[i]
      BY <1>0, <3>1 DEF Grows
    <3>3. Parties(Got("total"))' = Parties(Got("total"))
      BY <3>1, <3>2 DEF Parties
    <3> QED BY <2>4, <3>3 DEF AccountsRead, Got, Has
  <2> QED BY <1>2, <2>1, <2>3, <2>4, <2>5 DEF CallInv, StatsInv
<1>3. ASSUME call.op = "history" PROVE HistoryInv'
  <2> DEFINE p == call.arg.player
  <2>1. CountRead => CountRead'
    <3>1. InvolvedIn(p) \subseteq InvolvedIn(p)'
      BY DEF InvolvedIn, Grows
    <3>2. IsFiniteSet(InvolvedIn(p)')
      <4>1. IsFiniteSet(DOMAIN txs')
        <5>1. DOMAIN txs' = 1 .. Len(txs')
          BY DEF JournalInv
        <5> QED BY <1>0, <5>1, FS_Interval
      <4> QED BY <4>1, FS_Subset DEF InvolvedIn
    <3>3. Cardinality(InvolvedIn(p)) <= Cardinality(InvolvedIn(p)')
      BY <3>1, <3>2, FS_Subset
    <3>4. Cardinality(InvolvedIn(p)) \in Nat /\ Cardinality(InvolvedIn(p)') \in Nat
      BY <3>1, <3>2, FS_Subset, FS_CardinalityType
    <3> QED BY <3>3, <3>4 DEF CountRead, Got, Has
  <2>2. RecordsRead => RecordsRead'
    <3> SUFFICES ASSUME RecordsRead PROVE RecordsRead'
      OBVIOUS
    <3>1. Got("records")' = Got("records") /\ Got("count")' = Got("count")
      BY DEF Got
    <3>2. ASSUME NEW r \in Got("records")
          PROVE  /\ r.tx \in DOMAIN txs'
                 /\ call.arg.player \in {txs'[r.tx].sender, txs'[r.tx].receiver}
                 /\ r.height # -1 => /\ r.tx \notin pending'
                                     /\ r.height = BlockHeight(r.tx)'
      <4>1. /\ r.tx \in DOMAIN txs
            /\ call.arg.player \in {txs[r.tx].sender, txs[r.tx].receiver}
        BY DEF RecordsRead
      <4>2. ASSUME r.height # -1
            PROVE  r.tx \notin pending' /\ r.height = BlockHeight(r.tx)'
        <5>1. r.tx \notin pending /\ r.height = BlockHeight(r.tx)
          BY <4>2 DEF RecordsRead
        <5> QED BY <4>1, <5>1, HeightStays
      <4> QED BY <4>1, <4>2 DEF Grows
    <3> QED BY <3>1, <3>2 DEF RecordsRead, PageLimit, Has
  <2> QED BY <1>3, <2>1, <2>2 DEF CallInv, HistoryInv
<1>4. HeightRead => HeightRead'
  BY <1>0 DEF HeightRead, Has, Got, Grows
<1>5. BlocksRead => BlocksRead'
  <2> SUFFICES ASSUME BlocksRead PROVE BlocksRead'
    OBVIOUS
  <2> DEFINE heights == Got("heights")
             hashes  == Got("hashes")
  <2>1. heights' = heights /\ hashes' = hashes
    BY DEF Got
  <2>2. /\ heights \in Seq(Nat) /\ hashes \in Seq(SUBSET Nat)
        /\ call.todo \in Seq({"hashes"})
        /\ Len(call.todo) + Len(hashes) = Len(heights)
        /\ \A i \in DOMAIN heights : heights[i] \in Heights
    BY DEF BlocksRead
  <2>3. DOMAIN hashes \subseteq DOMAIN heights
    BY <2>2
  <2>4. ASSUME NEW i \in DOMAIN heights
        PROVE  /\ heights[i] \in Heights'
               /\ chain'[heights[i] - FirstHeight + 1] = BlockAt(heights[i])
    <3>1. PICK h \in Heights : h = heights[i]
      BY <2>2
    <3>2. h \in Heights' /\ BlockAt(h)' = BlockAt(h)
      BY <1>0, BlocksStay
    <3> QED BY <3>1, <3>2 DEF BlockAt
  <2>5. \A i \in DOMAIN hashes : hashes[i] = chain'[heights[i] - FirstHeight + 1]
    BY <2>3, <2>4 DEF BlocksRead
  <2> HIDE DEF heights, hashes
  <2>6. \A i \in DOMAIN hashes : (hashes[i] = BlockAt(heights[i]))'
    BY <2>1, <2>5 DEF BlockAt
  <2> QED BY <2>1, <2>2, <2>4, <2>6 DEF BlocksRead, Has, heights, hashes
<1>6. PageRead' <=> PageRead
  BY DEF PageRead, First, PageSize, Got
<1>7. call.op = "list" => ListInv'
  BY <1>4, <1>5, <1>6 DEF CallInv, ListInv
<1>8. call.op = "block" => BlockInv'
  BY <1>5 DEF CallInv, BlockInv
<1> QED BY <1>1, <1>2, <1>3, <1>7, <1>8 DEF CallInv

\* Which statement runs follows from its name.
LEMMA Statements ==
  ASSUME Statement
  PROVE  /\ call.todo # << >>
         /\ Head(call.todo) = "latest"   => LatestBlock
         /\ Head(call.todo) = "unsealed" => CountPending
         /\ Head(call.todo) = "total"    => CountAll
         /\ Head(call.todo) = "accounts" => Count
         /\ Head(call.todo) = "count"    => CountByPlayer
         /\ Head(call.todo) = "records"  => FindByPlayer
         /\ Head(call.todo) = "height"   => CountBlocks
         /\ Head(call.todo) = "heights"  => ListBlocksQuery
         /\ Head(call.todo) = "block"    => GetByHeight
         /\ Head(call.todo) = "hashes"   => TransactionHashesByBlock
BY DEF Statement, Find, Count, LeaderboardQuery, CountByPlayer, FindByPlayer,
       CountAll, CountPending, LatestBlock, CountBlocks, GetByHeight,
       ListBlocksQuery, TransactionHashesByBlock, Due, Running

\* What a statement returns is added to the results that are there.
LEMMA Returned ==
  ASSUME CallTyped, NEW name, NEW v, Returns(name, v)
  PROVE  /\ CallTyped' /\ UNCHANGED <<ledger, blocks>>
         /\ call'.op = call.op /\ call'.arg = call.arg
         /\ call'.todo = Tail(call.todo)
         /\ Has(name)' /\ Got(name)' = v
         /\ \A n : n # name /\ Has(n) => Has(n)' /\ Got(n)' = Got(n)
<1>1. /\ UNCHANGED <<ledger, blocks>> /\ CallTyped'
      /\ call'.op = call.op /\ call'.arg = call.arg
      /\ call'.todo = Tail(call.todo)
      /\ call'.got = With(call.got, name, v)
  BY DEF Returns, CallTyped
<1> DEFINE new == With(call.got, name, v)
<1>2. /\ name \in DOMAIN new /\ new[name] = v
      /\ \A n \in DOMAIN call.got :
           n \in DOMAIN new /\ (n # name => new[n] = call.got[n])
  BY DEF With
<1> HIDE DEF new
<1>3. call'.got = new
  BY <1>1 DEF new
<1> QED BY <1>1, <1>2, <1>3 DEF Has, Got

\* A page size or limit is a number of records.
LEMMA LimitedNat ==
  ASSUME NEW n \in Nat, NEW max, NEW default \in 1 .. max
  PROVE  Limited(n, max, default) \in Nat
BY DEF Limited

\* The statements of GetChainStats.
LEMMA StatsStep ==
  ASSUME JournalInv, TablesInv, CallTyped, StatsInv, Statement
  PROVE  CallTyped' /\ call'.op = call.op /\ StatsInv'
<1>0. Len(txs) \in Nat /\ Len(chain) \in Nat
  BY TableLengths
<1>1. CASE call.todo = <<"latest", "unsealed", "total", "accounts">>
  <2>1. /\ Head(call.todo) = "latest"
        /\ Tail(call.todo) = <<"unsealed", "total", "accounts">>
    BY <1>1
  <2>2. Returns("latest", Tip)
    BY <2>1, Statements DEF LatestBlock
  <2>3. UNCHANGED chain /\ Has("latest")' /\ Got("latest")' = Tip
    BY <2>2, Returned DEF blocks
  <2>4. Tip \in {0} \cup Heights
    <3>1. chain # << >> => Len(chain) \in Nat \ {0}
      BY DEF TablesInv
    <3> QED BY <3>1, QueriesAssumption DEF Tip, Heights
  <2>5. LatestRead'
    BY <2>3, <2>4 DEF LatestRead, Heights
  <2> QED BY <2>1, <2>2, <2>5, Returned DEF StatsInv
<1>2. CASE call.todo = <<"unsealed", "total", "accounts">> /\ LatestRead
  <2>1. /\ Head(call.todo) = "unsealed"
        /\ Tail(call.todo) = <<"total", "accounts">>
    BY <1>2
  <2>2. Returns("unsealed", Cardinality(pending))
    BY <2>1, Statements DEF CountPending
  <2>3. /\ UNCHANGED <<txs, chain>> /\ LatestRead
        /\ Has("unsealed")' /\ Got("unsealed")' = Cardinality(pending)
        /\ Has("latest")' /\ Got("latest")' = Got("latest")
    BY <1>2, <2>2, Returned DEF ledger, blocks, LatestRead
  <2>4. Len(txs) - Cardinality(pending) >= Cardinality(Reported(Got("latest")))
    BY <2>3, ReportedFinite DEF LatestRead
  <2>5. Cardinality(pending) \in Nat
    BY TableLengths, FS_CardinalityType
  <2>6. Reported(Got("latest"))' = Reported(Got("latest"))
    BY <2>3 DEF Reported, BlockAt
  <2>7. UnsealedRead'
    BY <2>3, <2>4, <2>5, <2>6 DEF UnsealedRead, LatestRead, Heights
  <2> QED BY <2>1, <2>2, <2>7, Returned DEF StatsInv
<1>3. CASE call.todo = <<"total", "accounts">> /\ UnsealedRead
  <2>1. Head(call.todo) = "total" /\ Tail(call.todo) = <<"accounts">>
    BY <1>3
  <2>2. Returns("total", Len(txs))
    BY <2>1, Statements DEF CountAll
  <2>3. /\ UNCHANGED <<txs, chain>> /\ UnsealedRead
        /\ Has("total")' /\ Got("total")' = Len(txs)
        /\ Has("latest")' /\ Got("latest")' = Got("latest")
        /\ Has("unsealed")' /\ Got("unsealed")' = Got("unsealed")
    BY <1>3, <2>2, Returned DEF ledger, blocks, UnsealedRead, LatestRead
  <2>4. Reported(Got("latest"))' = Reported(Got("latest"))
    BY <2>3 DEF Reported, BlockAt
  <2>5. TotalRead'
    BY <1>0, <2>3, <2>4 DEF TotalRead, UnsealedRead, LatestRead, Heights
  <2> QED BY <2>1, <2>2, <2>5, Returned DEF StatsInv
<1>4. CASE call.todo = <<"accounts">> /\ TotalRead
  <2>1. Head(call.todo) = "accounts" /\ Tail(call.todo) = << >>
    BY <1>4
  <2>2. Returns("accounts", Cardinality(Stored))
    BY <2>1, Statements DEF Count
  <2>3. /\ UNCHANGED <<txs, chain>> /\ TotalRead
        /\ Has("accounts")' /\ Got("accounts")' = Cardinality(Stored)
        /\ Has("latest")' /\ Got("latest")' = Got("latest")
        /\ Has("unsealed")' /\ Got("unsealed")' = Got("unsealed")
        /\ Has("total")' /\ Got("total")' = Got("total")
    BY <1>4, <2>2, Returned DEF ledger, blocks, TotalRead, LatestRead
  <2>4. /\ Reported(Got("latest"))' = Reported(Got("latest"))
        /\ Parties(Got("total"))' = Parties(Got("total"))
    BY <2>3 DEF Reported, BlockAt, Parties
  <2>5. TotalRead'
    BY <2>3, <2>4 DEF TotalRead, LatestRead, Heights
  <2>6. Parties(Got("total")) \subseteq Stored
    <3>1. \A i \in 1 .. Got("total") : i \in DOMAIN txs
      BY <1>0, <2>3 DEF TotalRead, JournalInv
    <3> QED BY <3>1 DEF Parties, TablesInv
  <2>7. Cardinality(Stored) >= Cardinality(Parties(Got("total")))
    <3>1. /\ IsFiniteSet(Parties(Got("total")))
          /\ Cardinality(Parties(Got("total"))) <= Cardinality(Stored)
      BY <2>6, FS_Subset DEF TablesInv
    <3>2. Cardinality(Parties(Got("total"))) \in Nat /\ Cardinality(Stored) \in Nat
      BY <3>1, FS_CardinalityType DEF TablesInv
    <3> QED BY <3>1, <3>2
  <2>8. AccountsRead'
    BY <2>3, <2>4, <2>5, <2>7 DEF AccountsRead
  <2> QED BY <2>1, <2>2, <2>8, Returned DEF StatsInv
<1>5. call.todo # << >>
  BY Statements
<1> QED BY <1>1, <1>2, <1>3, <1>4, <1>5 DEF StatsInv

\* The statements of GetTransactionHistory.
LEMMA PageOfHistory ==
  ASSUME JournalInv, TablesInv, CallTyped, HistoryInv, CountRead, FindByPlayer
  PROVE  /\ CallTyped' /\ call'.op = call.op /\ call'.arg = call.arg
         /\ call'.todo = Tail(call.todo) /\ CountRead' /\ RecordsRead'
<1> DEFINE player == call.arg.player
           offset == call.arg.offset
           found  == InvolvedIn(player)
           left   == Max({0, Cardinality(found) - offset})
           row(i) == [tx |-> i, height |-> BlockHeight(i)]
<1>1. PICK page \in kSubset(Min({PageLimit, left}), found) :
        Returns("records", {row(i) : i \in page})
  BY DEF FindByPlayer, PageLimit
<1> DEFINE rows == {row(i) : i \in page}
<1>2. /\ CallTyped' /\ call'.op = call.op /\ call'.arg = call.arg
      /\ call'.todo = Tail(call.todo)
      /\ UNCHANGED <<txs, chain, pending>>
      /\ Has("records")' /\ Got("records")' = rows
      /\ Has("count") /\ Has("count")' /\ Got("count")' = Got("count")
  BY <1>1, Returned DEF CountRead, ledger, blocks
<1>3. page \subseteq found /\ Cardinality(page) = Min({PageLimit, left})
  BY <1>1 DEF kSubset
<1>4. IsFiniteSet(found) /\ Cardinality(found) \in Nat /\ IsFiniteSet(page)
  <2>1. IsFiniteSet(found)
    BY TableLengths, FS_Subset DEF InvolvedIn
  <2> QED BY <1>3, <2>1, FS_Subset, FS_CardinalityType
<1>5. PageLimit \in Nat /\ offset \in Nat /\ Got("count") \in 0 .. Cardinality(found)
  BY LimitedNat, QueriesAssumption DEF PageLimit, HistoryInv, CountRead
<1>6. Cardinality(page) >= Min({PageLimit, Got("count") - offset})
  <2> DEFINE c == Cardinality(found)
             g == Got("count")
  <2> HIDE DEF c, g
  <2>1. c \in Nat /\ g \in 0 .. c
    BY <1>4, <1>5 DEF c, g
  <2>2. left = IF 0 >= c - offset THEN 0 ELSE c - offset
    BY <1>5, <2>1, MaxOfTwo DEF c
  <2> HIDE DEF left, offset
  <2>3. left \in Nat /\ left >= g - offset
    BY <1>5, <2>1, <2>2
  <2>4. Cardinality(page) = IF PageLimit <= left THEN PageLimit ELSE left
    BY <1>3, <1>5, <2>3, MinOfTwo
  <2>5. /\ g - offset \in Int
        /\ Min({PageLimit, g - offset})
             = IF PageLimit <= g - offset THEN PageLimit ELSE g - offset
    BY <1>5, <2>1, MinOfTwo
  <2>6. Cardinality(page) >= Min({PageLimit, g - offset})
    BY <1>5, <2>3, <2>4, <2>5
  <2> QED BY <2>6 DEF g
<1>7. Cardinality(rows) = Cardinality(page)
  <2> DEFINE f == [i \in page |-> row(i)]
  <2>1. f \in Surjection(page, rows)
    BY DEF Surjection
  <2>2. f \in Injection(page, rows)
    <3>1. \A i, j \in page : f[i] = f[j] => i = j
      <4>1. \A i, j : row(i) = row(j) => i = j
        OBVIOUS
      <4> QED BY <4>1
    <3> QED BY <3>1 DEF Injection, IsInjective
  <2> HIDE DEF f, rows
  <2> QED BY <1>4, <2>1, <2>2, FS_Surjection
<1>8. ASSUME NEW r \in rows
      PROVE  /\ r.tx \in DOMAIN txs
             /\ player \in {txs[r.tx].sender, txs[r.tx].receiver}
             /\ r.height # -1 => r.tx \notin pending /\ r.height = BlockHeight(r.tx)
  <2>1. PICK i \in page : r = row(i)
    OBVIOUS
  <2>2. r.tx = i /\ r.height = BlockHeight(i)
    BY <2>1
  <2>3. i \in DOMAIN txs /\ player \in {txs[i].sender, txs[i].receiver}
    BY <1>3 DEF InvolvedIn
  <2>4. BlockHeight(i) # -1 => i \notin pending
    BY <2>3, HeightOfSealed
  <2> QED BY <2>2, <2>3, <2>4
<1>9. \A i : BlockHeight(i)' = BlockHeight(i)
  BY <1>2 DEF BlockHeight, Heights, BlockAt
<1>10. CountRead'
  BY <1>2, <1>5 DEF CountRead, InvolvedIn
<1> HIDE DEF rows
<1>11. RecordsRead'
  BY <1>2, <1>6, <1>7, <1>8, <1>9 DEF RecordsRead, PageLimit
<1> QED BY <1>2, <1>10, <1>11

LEMMA HistoryStep ==
  ASSUME JournalInv, TablesInv, CallTyped, HistoryInv, Statement
  PROVE  CallTyped' /\ call'.op = call.op /\ HistoryInv'
<1>1. CASE call.todo = <<"count", "records">>
  <2>1. Head(call.todo) = "count" /\ Tail(call.todo) = <<"records">>
    BY <1>1
  <2>2. Returns("count", Cardinality(InvolvedIn(call.arg.player)))
    BY <2>1, Statements DEF CountByPlayer
  <2>3. /\ UNCHANGED txs /\ call'.arg = call.arg
        /\ Has("count")' /\ Got("count")' = Cardinality(InvolvedIn(call.arg.player))
    BY <2>2, Returned DEF ledger
  <2>4. Cardinality(InvolvedIn(call.arg.player)) \in Nat
    <3>1. IsFiniteSet(InvolvedIn(call.arg.player))
      BY TableLengths, FS_Subset DEF InvolvedIn
    <3> QED BY <3>1, FS_CardinalityType
  <2>5. CountRead'
    BY <2>3, <2>4 DEF CountRead, InvolvedIn
  <2> QED BY <2>1, <2>2, <2>5, Returned DEF HistoryInv
<1>2. CASE call.todo = <<"records">> /\ CountRead
  <2>1. Head(call.todo) = "records" /\ Tail(call.todo) = << >>
    BY <1>2
  <2>2. FindByPlayer
    BY <2>1, Statements
  <2> QED BY <1>2, <2>1, <2>2, PageOfHistory DEF HistoryInv
<1>3. call.todo # << >>
  BY Statements
<1> QED BY <1>1, <1>2, <1>3 DEF HistoryInv

\* The statements of GetBlock and ListBlocks: blocks are found, ...
LEMMA BlocksReturned ==
  ASSUME JournalInv, TablesInv, CallTyped, NEW heights \in Seq(Nat),
         \A i \in DOMAIN heights : heights[i] \in Heights,
         Tail(call.todo) = << >>, ReturnsBlocks(heights)
  PROVE  /\ CallTyped' /\ UNCHANGED <<ledger, blocks>>
         /\ call'.op = call.op /\ call'.arg = call.arg /\ BlocksRead'
         /\ Got("heights")' = heights
         /\ Has("height") => Has("height")' /\ Got("height")' = Got("height")
<1> DEFINE todo == [i \in DOMAIN heights |-> "hashes"]
           some == With(call.got, "heights", heights)
           all  == With(some, "hashes", << >>)
<1>1. /\ UNCHANGED <<ledger, blocks>> /\ CallTyped'
      /\ call'.op = call.op /\ call'.arg = call.arg
      /\ call'.todo = << >> \o todo /\ call'.got = all
  BY DEF ReturnsBlocks, CallTyped
<1>2. todo \in Seq({"hashes"}) /\ Len(todo) = Len(heights)
  <2>1. DOMAIN heights = 1 .. Len(heights) /\ Len(heights) \in Nat
    OBVIOUS
  <2> QED BY <2>1
<1> HIDE DEF todo
<1>3. << >> \o todo = todo
  BY <1>2
<1>4. /\ DOMAIN some = DOMAIN call.got \cup {"heights"} /\ some["heights"] = heights
      /\ \A n \in DOMAIN call.got : n # "heights" => some[n] = call.got[n]
  BY DEF With
<1> HIDE DEF some
<1>5. /\ DOMAIN all = DOMAIN some \cup {"hashes"} /\ all["hashes"] = << >>
      /\ \A n \in DOMAIN some : n # "hashes" => all[n] = some[n]
  BY DEF With
<1> HIDE DEF all
<1>6. /\ Has("heights")' /\ Got("heights")' = heights
      /\ Has("hashes")' /\ Got("hashes")' = << >>
      /\ Has("height") => Has("height")' /\ Got("height")' = Got("height")
  BY <1>1, <1>4, <1>5 DEF Has, Got
<1>7. UNCHANGED chain
  BY <1>1 DEF blocks
<1>8. /\ << >> \in Seq(SUBSET Nat) /\ Len(<< >>) = 0 /\ DOMAIN << >> = {}
      /\ Len(heights) \in Nat
  OBVIOUS
<1>9. BlocksRead'
  <2>1. call'.todo \in Seq({"hashes"}) /\ Len(call'.todo) + 0 = Len(heights)
    BY <1>1, <1>2, <1>3, <1>8
  <2> QED BY <1>6, <1>7, <1>8, <2>1 DEF BlocksRead, Heights
<1> QED BY <1>1, <1>6, <1>9

\* ... and the hashes of one of them.
LEMMA HashesReturned ==
  ASSUME JournalInv, TablesInv, CallTyped, BlocksRead, Statement
  PROVE  /\ CallTyped' /\ UNCHANGED <<ledger, blocks>>
         /\ call'.op = call.op /\ call'.arg = call.arg /\ BlocksRead'
         /\ Got("heights")' = Got("heights")
         /\ Has("height") => Has("height")' /\ Got("height")' = Got("height")
<1> DEFINE heights == Got("heights")
           hashes  == Got("hashes")
           n       == Len(hashes)
           block   == BlockAt(heights[n + 1])
<1>1. /\ heights \in Seq(Nat) /\ hashes \in Seq(SUBSET Nat)
      /\ \A i \in DOMAIN heights : heights[i] \in Heights
      /\ call.todo \in Seq({"hashes"})
      /\ Len(call.todo) + n = Len(heights)
      /\ \A i \in DOMAIN hashes : hashes[i] = BlockAt(heights[i])
  BY DEF BlocksRead
<1>2. call.todo # << >> /\ Head(call.todo) = "hashes"
  <2>1. call.todo # << >>
    BY Statements
  <2> QED BY <1>1, <2>1
<1>3. Returns("hashes", Append(hashes, block))
  BY <1>2, Statements DEF TransactionHashesByBlock, Got
<1>4. /\ CallTyped' /\ UNCHANGED <<ledger, blocks>> /\ UNCHANGED chain
      /\ call'.op = call.op /\ call'.arg = call.arg
      /\ call'.todo = Tail(call.todo)
      /\ Has("hashes")' /\ Got("hashes")' = Append(hashes, block)
      /\ \A name : name # "hashes" /\ Has(name) =>
           Has(name)' /\ Got(name)' = Got(name)
  BY <1>3, Returned DEF blocks
<1>5. Has("heights")' /\ Got("heights")' = heights
  BY <1>4 DEF BlocksRead
<1> HIDE DEF heights, hashes
<1>6. /\ Len(call.todo) \in Nat \ {0} /\ n \in Nat /\ Len(heights) \in Nat
      /\ n + 1 \in DOMAIN heights
      /\ Tail(call.todo) \in Seq({"hashes"})
      /\ Len(Tail(call.todo)) = Len(call.todo) - 1
  BY <1>1, <1>2
<1>7. block \in SUBSET Nat
  <2>1. heights[n + 1] \in Heights
    BY <1>1, <1>6
  <2>2. heights[n + 1] - FirstHeight + 1 \in DOMAIN chain
    BY <2>1, TableLengths, QueriesAssumption DEF Heights
  <2> QED BY <2>2 DEF TablesInv, BlockAt
<1> DEFINE more == Append(hashes, block)
<1>8. /\ more \in Seq(SUBSET Nat) /\ Len(more) = n + 1
      /\ DOMAIN hashes = 1 .. n /\ DOMAIN more = 1 .. n + 1
      /\ \A i \in 1 .. n : more[i] = hashes[i]
      /\ more[n + 1] = block
  <2> HIDE DEF block
  <2> QED BY <1>1, <1>7, Appended
<1>9. \A i \in DOMAIN more : more[i] = BlockAt(heights[i])
  <2> HIDE DEF more
  <2>1. \A i \in DOMAIN more : i \in 1 .. n \/ i = n + 1
    BY <1>6, <1>8
  <2> QED BY <1>1, <1>8, <2>1
<1> HIDE DEF more
<1>10. Got("hashes")' = more
  BY <1>4 DEF more
<1>11. Len(call'.todo) + Len(more) = Len(heights)
  <2> DEFINE left == Len(call.todo)
  <2>1. /\ Len(call'.todo) = left - 1 /\ left \in Nat
        /\ left + n = Len(heights)
    BY <1>1, <1>4, <1>6
  <2> HIDE DEF left, n
  <2> QED BY <1>6, <1>8, <2>1
<1>12. BlocksRead'
  BY <1>1, <1>4, <1>5, <1>6, <1>8, <1>9, <1>10, <1>11 DEF BlocksRead, Heights, BlockAt
<1> QED BY <1>4, <1>5, <1>12 DEF heights

\* The page that ListBlocks finds.
LEMMA PageOfBlocks ==
  ASSUME JournalInv, TablesInv, CallTyped, ListInv, HeightRead,
         Tail(call.todo) = << >>, ListBlocksQuery
  PROVE  /\ CallTyped' /\ call'.op = call.op /\ call'.arg = call.arg
         /\ HeightRead' /\ BlocksRead' /\ PageRead'
<1> DEFINE first   == Offset(call.arg.page, PageSize)
           room    == Max({0, Len(chain) - first})
           rows    == Min({PageSize, room})
           heights == [i \in 1 .. rows |-> FirstHeight + first + i - 1]
<1>1. ReturnsBlocks(heights)
  BY DEF ListBlocksQuery
<1>2. Len(chain) \in Nat
  BY TableLengths
<1>3. PageSize \in Nat /\ call.arg.page \in Nat
  BY LimitedNat, QueriesAssumption DEF PageSize, ListInv
<1>4. First \in Nat
  BY <1>3 DEF First
<1>5. first \in Nat /\ (First < Wrap => first = First)
  <2>1. first = First % Wrap /\ Wrap \in Nat \ {0}
    BY QueriesAssumption DEF Offset, First
  <2> HIDE DEF first
  <2>2. first \in 0 .. Wrap - 1
    BY <1>4, <2>1
  <2>3. ASSUME First < Wrap PROVE first = First
    BY <1>4, <2>1, <2>3
  <2> QED BY <2>1, <2>2, <2>3
<1> HIDE DEF first
<1>6. room = IF 0 >= Len(chain) - first THEN 0 ELSE Len(chain) - first
  BY <1>2, <1>5, MaxOfTwo
<1> HIDE DEF room
<1>7. room \in Nat /\ room >= Len(chain) - first
  BY <1>2, <1>5, <1>6
<1>8. rows = IF PageSize <= room THEN PageSize ELSE room
  BY <1>3, <1>7, MinOfTwo
<1> HIDE DEF rows
<1>9. rows \in Nat /\ rows <= room
  BY <1>3, <1>7, <1>8
<1>10. \A i \in 1 .. rows : /\ FirstHeight + first + i - 1 \in Nat
                            /\ FirstHeight + first + i - 1 \in Heights
  BY <1>2, <1>5, <1>6, <1>9, QueriesAssumption DEF Heights
<1>11. /\ heights \in Seq(Nat) /\ Len(heights) = rows
       /\ \A i \in DOMAIN heights : heights[i] = FirstHeight + first + i - 1
       /\ \A i \in DOMAIN heights : heights[i] \in Heights
  BY <1>9, <1>10
<1> HIDE DEF heights
<1>12. /\ CallTyped' /\ UNCHANGED <<ledger, blocks>>
       /\ call'.op = call.op /\ call'.arg = call.arg /\ BlocksRead'
       /\ Got("heights")' = heights
       /\ Has("height")' /\ Got("height")' = Got("height")
  BY <1>1, <1>11, BlocksReturned DEF HeightRead
<1>13. HeightRead'
  BY <1>12 DEF HeightRead, blocks
<1>14. PageRead'
  <2> DEFINE shown == Got("height")
  <2>1. shown \in 0 .. Len(chain)
    BY DEF HeightRead
  <2> HIDE DEF shown
  <2>2. ASSUME First < Wrap PROVE rows >= Min({PageSize, shown - First})
    <3>1. /\ shown - First \in Int
          /\ Min({PageSize, shown - First})
               = IF PageSize <= shown - First THEN PageSize ELSE shown - First
      BY <1>2, <1>3, <1>4, <2>1, MinOfTwo
    <3>2. room >= shown - First
      BY <1>2, <1>4, <1>5, <1>7, <2>1, <2>2
    <3> QED BY <1>3, <1>7, <1>8, <3>1, <3>2
  <2>3. PageSize' = PageSize /\ First' = First
    BY <1>12 DEF PageSize, First
  <2>4. First < Wrap =>
          /\ \A i \in DOMAIN heights : heights[i] = FirstHeight + First + i - 1
          /\ Len(heights) >= Min({PageSize, shown - First})
    BY <1>5, <1>11, <2>2
  <2>5. Got("height")' = shown
    BY <1>12 DEF shown
  <2> QED BY <1>12, <2>3, <2>4, <2>5 DEF PageRead
<1> QED BY <1>12, <1>13, <1>14

LEMMA ListStep ==
  ASSUME JournalInv, TablesInv, CallTyped, ListInv, Statement
  PROVE  CallTyped' /\ call'.op = call.op /\ ListInv'
<1>1. CASE call.todo = <<"height", "heights">>
  <2>1. Head(call.todo) = "height" /\ Tail(call.todo) = <<"heights">>
    BY <1>1
  <2>2. Returns("height", Len(chain))
    BY <2>1, Statements DEF CountBlocks
  <2>3. HeightRead'
    BY <2>2, Returned, TableLengths DEF HeightRead, blocks
  <2> QED BY <2>1, <2>2, <2>3, Returned DEF ListInv
<1>2. CASE call.todo = <<"heights">> /\ HeightRead
  <2>1. Head(call.todo) = "heights" /\ Tail(call.todo) = << >>
    BY <1>2
  <2>2. ListBlocksQuery
    BY <2>1, Statements
  <2> QED BY <1>2, <2>1, <2>2, PageOfBlocks DEF ListInv
<1>3. CASE HeightRead /\ BlocksRead /\ PageRead
  <2>1. /\ CallTyped' /\ UNCHANGED chain
        /\ call'.op = call.op /\ call'.arg = call.arg /\ BlocksRead'
        /\ Got("heights")' = Got("heights")
        /\ Has("height")' /\ Got("height")' = Got("height")
    BY <1>3, HashesReturned DEF HeightRead, blocks
  <2>2. HeightRead'
    BY <1>3, <2>1 DEF HeightRead
  <2>3. PageRead'
    BY <1>3, <2>1 DEF PageRead, First, PageSize
  <2> QED BY <2>1, <2>2, <2>3 DEF ListInv
<1> QED BY <1>1, <1>2, <1>3 DEF ListInv

LEMMA BlockStep ==
  ASSUME JournalInv, TablesInv, CallTyped, BlockInv, Statement
  PROVE  CallTyped' /\ call'.op = call.op /\ BlockInv'
<1>1. CASE call.todo = <<"block">> /\ call.arg.height \in Nat
  <2> DEFINE heights == IF call.arg.height \in Heights THEN <<call.arg.height>>
                        ELSE << >>
  <2>1. Head(call.todo) = "block" /\ Tail(call.todo) = << >>
    BY <1>1
  <2>2. ReturnsBlocks(heights)
    BY <2>1, Statements DEF GetByHeight
  <2>3. heights \in Seq(Nat) /\ \A i \in DOMAIN heights : heights[i] \in Heights
    BY <1>1
  <2> HIDE DEF heights
  <2> QED BY <2>1, <2>2, <2>3, BlocksReturned DEF BlockInv
<1>2. CASE BlocksRead
  BY <1>2, HashesReturned DEF BlockInv
<1> QED BY <1>1, <1>2 DEF BlockInv

\* Every statement keeps what its handler has read.
LEMMA StatementKeeps ==
  ASSUME JournalInv, TablesInv, CallInv, Statement
  PROVE  CallInv' /\ call'.op = call.op
<1>1. CallTyped' /\ call'.op = call.op
  BY DEF CallInv, CallTyped, Statement, Find, Count, LeaderboardQuery,
         CountByPlayer, FindByPlayer, CountAll, CountPending, LatestBlock,
         CountBlocks, GetByHeight, ListBlocksQuery, TransactionHashesByBlock,
         Returns, ReturnsBlocks
<1> QED BY <1>1, StatsStep, HistoryStep, ListStep, BlockStep DEF CallInv


-----------------------------------------------------------------------------
(* Every step keeps the tables and what the handlers have read.              *)

QueriesInv == TablesInv /\ CallInv

\* The call of a handler that has run no statement yet, or of none.
LEMMA CallBegins ==
  ASSUME call' \in Questions \cup {NoCall}
  PROVE  CallInv'
<1> USE DEF CallInv, CallTyped, Call
<1>1. CASE call' \in {NoCall, GetBalance(Me)}
  BY <1>1 DEF NoCall, GetBalance
<1>2. CASE call' = GetChainStats
  BY <1>2 DEF GetChainStats, StatsInv
<1>3. ASSUME NEW limit \in Limits, call' = GetTransactionHistory(Me, limit, 0)
      PROVE  CallInv'
  BY <1>3, ClientAssumption DEF GetTransactionHistory, HistoryInv
<1>4. ASSUME NEW by, call' = GetLeaderboard(TopDefault, by)
      PROVE  CallInv'
  BY <1>4 DEF GetLeaderboard
<1>5. ASSUME NEW h \in Asked, call' = GetBlock(h)
      PROVE  CallInv'
  BY <1>5, ClientAssumption DEF GetBlock, BlockInv
<1>6. ASSUME NEW page \in Pages, call' = ListBlocks(page, ListSize)
      PROVE  CallInv'
  BY <1>6, ClientAssumption DEF ListBlocks, ListInv
<1> QED BY <1>1, <1>2, <1>3, <1>4, <1>5, <1>6 DEF Questions

\* A menu option starts a call, ends it, or leaves it alone.
LEMMA MenuCalls ==
  ASSUME ClientStep, ~Handle
  PROVE  /\ UNCHANGED <<ledger, blocks>>
         /\ call' \in Questions \cup {NoCall} \/ UNCHANGED call
<1>1. GetBalance(Me) \in Questions
  BY DEF Questions
<1> QED BY <1>1 DEF ClientStep, Ask, PrintAnswer, Respond, Sign, PrintResult,
                    GiveUp, Enter, Accept, FetchNonce

\* What is settled was signed by the player, or is another's.
LEMMA SettledSubmittable ==
  ASSUME ClientInv,
         \/ \E i \in DOMAIN signed : Deliver(i) \/ SettleOffer(i)
         \/ \E r \in Request : OtherSubmission(r)
  PROVE  /\ UNCHANGED call
         /\ \E r \in AnyRequest : Submits(r)
<1>1. ASSUME NEW i \in DOMAIN signed, Deliver(i)
      PROVE  signed[i].payload \in AnyRequest /\ Submits(signed[i].payload)
  <2>1. signed[i] \in SignedEntry
    BY DEF ClientInv, SignedInv
  <2>2. signed[i].payload.receiver \in Accounts
    BY <1>1, <2>1 DEF Deliver, SignedEntry
  <2>3. signed[i].sent \in Nat
    BY DEF ClientInv, SignedInv
  <2>4. Submits(signed[i].payload)
    BY <1>1, <2>3 DEF Deliver, Finds, Submits
  <2> QED BY <2>2, <2>4, SignedSubmittable DEF Submittable
<1>2. ASSUME \/ \E i \in DOMAIN signed : SettleOffer(i)
             \/ \E r \in Request : OtherSubmission(r)
      PROVE  \E r \in AnyRequest : Submits(r)
  BY <1>2, OthersSubmit DEF Submittable
<1>3. UNCHANGED call
  BY DEF Deliver, Answers, SettleOffer, OtherSubmission
<1> QED BY <1>1, <1>2, <1>3 DEF Submittable

\* The environment leaves a call alone, and only adds to the tables.
LEMMA EnvironmentGrows ==
  ASSUME ClientInv, TablesInv, Environment
  PROVE  UNCHANGED call /\ TablesInv' /\ Grows
<1>1. CASE \/ \E i \in DOMAIN signed : Deliver(i) \/ SettleOffer(i)
           \/ \E r \in Request : OtherSubmission(r)
  BY <1>1, SettledSubmittable, SettleTables DEF ClientInv
<1>2. CASE \E i \in DOMAIN signed : Refuse(i) \/ LegLost(i) \/ HandOver(i)
  <2>1. UNCHANGED <<ledger, blocks, call>>
    BY <1>2 DEF Refuse, LegLost, HandOver, Answers
  <2> QED BY <2>1, QuietGrows DEF ClientInv
<1>3. CASE CreateGenesis
  <2>1. /\ chain = << >> /\ chain' = << {} >>
        /\ UNCHANGED <<ledger, pending, call>>
    BY <1>3 DEF CreateGenesis, Blocks!Genesis
  <2>2. chain' = Append(chain, {}) /\ pending' = pending \ {}
    BY <2>1
  <2>3. {} \subseteq pending
    OBVIOUS
  <2> QED BY <2>1, <2>2, <2>3, SealTables DEF ClientInv
<1>4. ASSUME NEW block \in SUBSET pending, Seal(block)
      PROVE  UNCHANGED call /\ TablesInv' /\ Grows
  <2>1. /\ chain' = Append(chain, block) /\ pending' = pending \ block
        /\ UNCHANGED <<ledger, call>>
    BY <1>4 DEF Seal, Blocks!Seal
  <2> QED BY <2>1, SealTables DEF ClientInv
<1> QED BY <1>1, <1>2, <1>3, <1>4 DEF Environment

LEMMA QueriesStay ==
  ASSUME ClientInv, ClientInv', QueriesInv, [Next]_vars
  PROVE  QueriesInv'
<1>0. JournalInv /\ JournalInv' /\ TablesInv /\ CallInv
  BY DEF ClientInv, QueriesInv
<1>1. ASSUME TablesInv', Grows, UNCHANGED call
      PROVE  QueriesInv'
  BY <1>0, <1>1, CallOutlives DEF QueriesInv
<1>2. CASE Handle
  BY <1>0, <1>2, StatementReads, QuietGrows, StatementKeeps DEF Handle, QueriesInv
<1>3. CASE ClientStep /\ ~Handle
  BY <1>0, <1>1, <1>3, MenuCalls, CallBegins, QuietGrows DEF QueriesInv
<1>4. CASE Environment
  BY <1>0, <1>1, <1>4, EnvironmentGrows
<1>5. CASE UNCHANGED vars
  BY <1>0, <1>1, <1>5, QuietGrows DEF vars
<1> QED BY <1>2, <1>3, <1>4, <1>5 DEF Next

-----------------------------------------------------------------------------
(* The types.  Where the client is tells what it has entered and which call  *)
(* runs for it.                                                              *)

PlaceType ==
  /\ at \in Places
  /\ order \in Order \cup {Gone, NoOrder} /\ (at = "nonce" <=> order # NoOrder)
  /\ call.op # "none" <=> at \in {"query", "nonce"}

\* A payload is in flight or held; a balance that was answered is a row.
HandedType == /\ inFlight \cap held = {}
              /\ answer \in Row \cup {NoRow, NoAnswer}

LEMMA PlaceStays ==
  ASSUME ClientInv, QueriesInv, PlaceType, [Next]_vars
  PROVE  PlaceType'
<1> USE DEF PlaceType, Places
<1>1. CASE Handle
  BY <1>1, StatementKeeps DEF Handle, client, ClientInv, QueriesInv
<1>2. ASSUME NEW question \in Questions, Ask(question) PROVE PlaceType'
  <2>1. question.op # "none"
    BY DEF Questions, GetBalance, GetChainStats, GetTransactionHistory,
           GetLeaderboard, GetBlock, ListBlocks, Call
  <2> QED BY <1>2, <2>1 DEF Ask
<1>3. ASSUME NEW o \in Order \cup {Gone}, FetchNonce(o) PROVE PlaceType'
  <2>1. o # NoOrder
    BY OrderAssumption
  <2>2. GetBalance(Me).op = "balance"
    BY DEF GetBalance, Call
  <2> QED BY <1>3, <2>1, <2>2 DEF FetchNonce
<1>4. NoCall.op = "none"
  BY DEF NoCall, Call
<1>5. CASE PrintAnswer \/ Respond \/ Sign \/ PrintResult \/ GiveUp
  BY <1>4, <1>5 DEF PrintAnswer, Respond, Sign, PrintResult, GiveUp
<1>6. CASE Environment
  <2>1. UNCHANGED <<at, order, call>>
    BY <1>6 DEF Environment, Deliver, Refuse, LegLost, HandOver, SettleOffer,
                OtherSubmission, CreateGenesis, Seal, Answers, client
  <2> QED BY <2>1
<1>7. CASE UNCHANGED vars
  BY <1>7 DEF vars, client
<1>8. CASE ClientStep
  BY <1>1, <1>2, <1>3, <1>5, <1>8 DEF ClientStep, Enter, Accept
<1> QED BY <1>6, <1>7, <1>8 DEF Next

LEMMA HandedStays ==
  ASSUME ClientInv, HandedType, [Next]_vars
  PROVE  HandedType'
<1> USE DEF HandedType
<1>1. CASE ClientStep
  <2>1. UNCHANGED held /\ (answer' = NoAnswer \/ UNCHANGED answer)
    BY <1>1 DEF ClientStep, Ask, PrintAnswer, Handle, Respond, Sign, PrintResult,
                GiveUp, Enter, Accept, FetchNonce, client
  <2>2. inFlight' = inFlight \/ inFlight' = inFlight \cup {Len(signed) + 1}
    BY <1>1 DEF ClientStep, Ask, PrintAnswer, Handle, Respond, Sign, PrintResult,
                GiveUp, Enter, Accept, FetchNonce, client
  <2>3. Len(signed) + 1 \notin held
    BY DEF ClientInv, ServerInv, SignedInv
  <2> QED BY <2>1, <2>2, <2>3
<1>2. ASSUME NEW i \in DOMAIN signed,
             Refuse(i) \/ LegLost(i) \/ HandOver(i) \/ SettleOffer(i)
      PROVE  HandedType'
  BY <1>2 DEF Refuse, LegLost, HandOver, SettleOffer, Answers, client
<1>3. ASSUME NEW i \in DOMAIN signed, Deliver(i)
      PROVE  HandedType'
  <2> DEFINE r == signed[i].payload
  <2>1. r \in AnyRequest /\ signed[i].sent \in Nat
    <3>1. signed[i] \in SignedEntry
      BY DEF ClientInv, SignedInv
    <3>2. signed[i].payload.receiver \in Accounts
      BY <1>3, <3>1 DEF Deliver, SignedEntry
    <3> QED BY <3>1, <3>2, SignedSubmittable DEF Submittable, SignedEntry
  <2>2. PICK found \in Reads(r, signed[i].sent) :
          Settles(r, found) /\ Answers(i, NewBalance(r, found))
    BY <1>3 DEF Deliver, Finds
  <2> HIDE DEF r
  <2>3. NewBalance(r, found) \in Row
    BY <2>1, <2>2, SubmitNonces, BalanceIsRow DEF ClientInv
  <2>4. /\ inFlight' \subseteq inFlight /\ UNCHANGED held
        /\ answer' \in {NewBalance(r, found), answer}
    BY <1>3, <2>2 DEF Deliver, Answers
  <2> QED BY <2>3, <2>4
<1>4. CASE \/ \E r \in Request : OtherSubmission(r)
           \/ CreateGenesis
           \/ \E block \in SUBSET pending : Seal(block)
  BY <1>4 DEF OtherSubmission, CreateGenesis, Seal, client
<1>5. CASE UNCHANGED vars
  BY <1>5 DEF vars, client
<1> QED BY <1>1, <1>2, <1>3, <1>4, <1>5 DEF Next, Environment
-----------------------------------------------------------------------------
(* The theorems.                                                             *)

LEMMA ClientInit == Init => ClientInv
<1> SUFFICES ASSUME Init PROVE ClientInv
  OBVIOUS
<1>1. /\ players = [a \in Accounts |-> NoRow] /\ txs = << >>
      /\ past = << >> /\ stale = {}
      /\ at = "menu" /\ answer = NoAnswer
      /\ signed = << >> /\ inFlight = {} /\ held = {}
  BY DEF Init, TablesInit
<1>2. Mine = {} /\ players \in Rows
  BY <1>1 DEF Mine, Rows
<1> QED BY <1>1, <1>2 DEF ClientInv, JournalInv, SignedInv, ServerInv, OrderInv,
                          AnswerInv

LEMMA ClientStays == ClientInv /\ [Next]_vars => ClientInv'
<1> SUFFICES ASSUME ClientInv, [Next]_vars PROVE ClientInv'
  OBVIOUS
<1>1. CASE ClientStep
  BY <1>1, MenuSteps, HandleStep, SignStep DEF ClientStep
<1>2. CASE Environment
  BY <1>2, ServerSteps, DeliverStep, OtherSettles DEF Environment
<1>3. CASE UNCHANGED vars
  <2>1. /\ UNCHANGED <<ledger, signed, inFlight, held, at, order, answer, call>>
        /\ SameSigned
    BY <1>3, NothingSigned DEF vars, client
  <2>2. ServerInv' /\ OrderInv'
    BY <2>1 DEF ClientInv, ServerInv, OrderInv, NonceRead, ReadNonce, Nonce,
                RowOrZero, ledger
  <2> QED BY <2>1, <2>2, QuietTables, QuietAnswer DEF ClientInv
<1> QED BY <1>1, <1>2, <1>3 DEF Next

LEMMA FullInit == Init => QueriesInv /\ PlaceType /\ HandedType
<1> SUFFICES ASSUME Init PROVE QueriesInv /\ PlaceType /\ HandedType
  OBVIOUS
<1>1. /\ players = [a \in Accounts |-> NoRow] /\ txs = << >>
      /\ chain = << >> /\ pending = {} /\ call = NoCall
  BY DEF Init, TablesInit, Blocks!Init
<1>2. TablesInv
  <2>1. Stored = {}
    BY <1>1 DEF Stored
  <2> QED BY <1>1, <2>1, FS_EmptySet DEF TablesInv
<1>3. CallInv /\ call.op = "none"
  BY <1>1 DEF CallInv, CallTyped, NoCall, Call
<1> QED BY <1>2, <1>3 DEF QueriesInv, PlaceType, HandedType, Init, Places

\* The whole invariant: the journal and the player's payloads, what the handlers
\* have read, and the types.
FullInv == ClientInv /\ QueriesInv /\ PlaceType /\ HandedType

LEMMA FullAlways == Spec => []FullInv
<1>1. FullInv /\ [Next]_vars => FullInv'
  BY ClientStays, QueriesStay, PlaceStays, HandedStays DEF FullInv
<1>2. Init => FullInv
  BY ClientInit, FullInit DEF FullInv
<1> QED BY <1>1, <1>2, PTL DEF Spec

\* The types: a payload in flight or held was signed and is not both, a call runs
\* exactly while the client waits for one, and an answer is a row.
THEOREM TypesHold == Spec => []TypeOK
<1>1. FullInv => TypeOK
  BY DEF FullInv, PlaceType, HandedType, TypeOK, ClientInv, JournalInv, SignedInv,
         ServerInv, AnswerInv
<1> QED BY <1>1, FullAlways, PTL

\* What the player signed is carried out in the order of signing, for any number
\* of payloads, whatever is delayed, held, resubmitted or given up, as long as no
\* submission wrote over a newer row of his: nonces are read from a row that only
\* grows, so a later payload never has a smaller one.
THEOREM SigningOrder == Spec => []SettledInSigningOrder
<1>1. ClientInv => SettledInSigningOrder
  <2> SUFFICES ASSUME ClientInv PROVE SettledInSigningOrder
    OBVIOUS
  <2>1. ASSUME Me \notin stale, NEW i \in Mine, NEW j \in Mine, i < j,
               NEW k \in SignedAs(txs[i]), NEW l \in SignedAs(txs[j])
        PROVE  k < l
    <3>1. txs[i].nonce < txs[j].nonce
      BY <2>1 DEF ClientInv, JournalInv
    <3>2. /\ k \in DOMAIN signed /\ l \in DOMAIN signed
          /\ signed[k].payload.nonce = txs[i].nonce
          /\ signed[l].payload.nonce = txs[j].nonce
      BY DEF SignedAs
    <3>3. signed[k] \in SignedEntry /\ signed[l] \in SignedEntry
      BY <3>2 DEF ClientInv, SignedInv
    <3>4. /\ signed[k].payload.nonce \in Nat /\ signed[l].payload.nonce \in Nat
          /\ k \in Nat /\ l \in Nat
      <4>1. /\ signed[k].payload.nonce \in Nat
            /\ signed[l].payload.nonce \in Nat
        BY <3>3 DEF SignedEntry
      <4>2. signed \in Seq(SignedEntry)
        BY DEF ClientInv, SignedInv
      <4>3. DOMAIN signed \subseteq Nat
        BY <4>2
      <4> QED BY <3>2, <4>1, <4>3
    <3>5. ~(l < k) /\ k # l
      BY <2>1, <3>1, <3>2, <3>4 DEF ClientInv, SignedInv
    <3> QED BY <3>4, <3>5
  <2> QED BY <2>1 DEF SettledInSigningOrder, ClientInv, JournalInv
<1> QED BY <1>1, ClientInit, ClientStays, PTL DEF Spec

\* A balance that is printed was left by the payload signed last, which is in the
\* journal: no failed, lost or foreign submission is shown as the player's own.
THEOREM PrintedWasSettled == Spec => []PrintedIsSettled
<1>1. ClientInv => PrintedIsSettled
  BY DEF ClientInv, AnswerInv, PrintedIsSettled
<1> QED BY <1>1, ClientInit, ClientStays, PTL DEF Spec

\* The statistics a client sees account for no less than there is, for any number
\* of submissions and seals between the four statements of GetChainStats.
THEOREM StatsAreCautious == Spec => []StatsAccountFor
<1>1. FullInv => StatsAccountFor
  BY AnswersHold DEF FullInv, QueriesInv
<1> QED BY <1>1, FullAlways, PTL

\* The history is as full as its count requires and names the blocks in which its
\* transactions are and remain, whatever is submitted or sealed in between.
THEOREM HistoryIsTrue == Spec => []HistoryHolds
<1>1. FullInv => HistoryHolds
  BY AnswersHold DEF FullInv, QueriesInv
<1> QED BY <1>1, FullAlways, PTL

\* A page of blocks is consecutive, as full as its total requires and complete in
\* its transactions, although it is read block by block while the chain grows.
THEOREM PagesAreConsecutive == Spec => []BlocksHold
<1>1. FullInv => BlocksHold
  BY AnswersHold DEF FullInv, QueriesInv
<1> QED BY <1>1, FullAlways, PTL
=============================================================================
