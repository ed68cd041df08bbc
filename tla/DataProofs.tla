----------------------------- MODULE DataProofs -----------------------------
(***************************************************************************)
(* Lemmas about the pure functions of the Ledger node, on which the        *)
(* theorems about its processes rest: what one submission computes, for    *)
(* every token range and every amount; sums over accounts; and what a      *)
(* Merkle root says about any set of hashes.                               *)
(***************************************************************************)
EXTENDS LedgerData, Merkle, FiniteSetTheorems, WellFoundedInduction, TLAPS

-----------------------------------------------------------------------------
(* The engine: every conversion and every clamp lands in the uint8 range.  *)

\* uint8() of any integer is a channel value.
LEMMA Uint8Range == \A n \in Int : Uint8(n) \in 0 .. MaxToken
  BY MaxTokenAssumption DEF Uint8

\* int8() of any integer is an integer.
LEMMA Int8Range == \A n \in Int : Int8(n) \in Int
  BY Uint8Range, MaxTokenAssumption DEF Int8

\* clampUint8 and calculation return a channel value.
LEMMA ClampRange == \A v \in Int : ClampUint8(v) \in 0 .. MaxToken
  BY MaxTokenAssumption DEF ClampUint8

\* The row created for an account that is not found is a row.
LEMMA ZeroIsRow == ZeroRow \in Row /\ ZeroRow # NoRow
  BY NoRowAssumption, MaxTokenAssumption DEF ZeroRow, Row

\* Whatever is read of an account is a row, with a natural nonce.
LEMMA RowRead ==
  ASSUME NEW row \in Row \cup {NoRow}
  PROVE  RowOrZero(row) \in Row /\ RowOrZero(row).nonce \in Nat
  BY ZeroIsRow DEF RowOrZero, Row

\* What SubmitTransaction may be asked for, whatever bounds the inputs.
AnyRequest == [type : {"MINT", "TRANSFER"}, sender : Accounts,
               receiver : Accounts, amount : [Channels -> Nat], nonce : Nat]

LEMMA RequestIsAny == Request \subseteq AnyRequest
  BY InputAssumption DEF Request, AnyRequest

\* The two accounts of a request are accounts, and its nonce is natural.
LEMMA PartsOfAny ==
  ASSUME NEW r \in AnyRequest
  PROVE  /\ r.sender \in Accounts /\ r.receiver \in Accounts
         /\ r.nonce \in Nat
         /\ r.type \in {"MINT", "TRANSFER"}
         /\ r.amount \in [Channels -> Nat]
         /\ FirstSaved(r) \in Roles /\ LastSaved(r) \in Roles
         /\ \A role \in Roles : r[role] \in Accounts
         /\ {r[FirstSaved(r)], r[LastSaved(r)]} = {r.sender, r.receiver}
         /\ FirstSaved(r) # LastSaved(r)
  BY DEF AnyRequest, Roles, FirstSaved, LastSaved

\* An accepted request turns two rows into two rows, each with its nonce
\* advanced by one.
LEMMA SettledAny ==
  ASSUME NEW r \in AnyRequest, NEW snd \in Row, NEW rcv \in Row,
         Accepts(r, snd)
  PROVE  /\ \A role \in Roles : Settled(r, snd, rcv)[role] \in Row
         /\ Settled(r, snd, rcv)["sender"].nonce = snd.nonce + 1
         /\ Settled(r, snd, rcv)["receiver"].nonce = rcv.nonce + 1
<1> DEFINE new == Settled(r, snd, rcv)
<1>1. /\ r.amount \in [Channels -> Nat] /\ r.nonce \in Nat
      /\ snd.tokens \in [Channels -> 0 .. MaxToken] /\ snd.nonce \in Nat
      /\ rcv.tokens \in [Channels -> 0 .. MaxToken] /\ rcv.nonce \in Nat
  BY PartsOfAny DEF Row
<1>2. AsPlayerState(rcv) = [tokens |-> [c \in Channels |-> Uint8(rcv.tokens[c])],
                            nonce  |-> rcv.nonce]
  BY DEF AsPlayerState, Row
<1>3. \A c \in Channels : /\ Uint8(rcv.tokens[c]) \in 0 .. MaxToken
                          /\ Uint8(r.amount[c]) \in 0 .. MaxToken
                          /\ Int8(r.amount[c]) \in Int
  BY <1>1, Uint8Range, Int8Range, MaxTokenAssumption
<1>4. CASE r.type = "MINT"
  <2>1. new = SettledMint(r, snd, rcv)
    BY <1>4 DEF Settled
  <2>2. new["sender"] \in Row /\ new["sender"].nonce = snd.nonce + 1
    BY <2>1, <1>1 DEF SettledMint, Row
  <2>3. \A c \in Channels :
          Calculation(Uint8(rcv.tokens[c]), Int8(r.amount[c])) \in 0 .. MaxToken
    <3> TAKE c \in Channels
    <3>1. Uint8(rcv.tokens[c]) + Int8(r.amount[c]) \in Int
      BY <1>3, MaxTokenAssumption
    <3> QED BY <3>1, ClampRange DEF Calculation
  <2>4. new["receiver"] =
          [tokens |-> [c \in Channels |->
                         Calculation(Uint8(rcv.tokens[c]), Int8(r.amount[c]))],
           nonce  |-> rcv.nonce + 1]
    BY <2>1, <1>2 DEF SettledMint, PlayerCompleteMission
  <2>5. new["receiver"] \in Row /\ new["receiver"].nonce = rcv.nonce + 1
    BY <2>3, <2>4, <1>1 DEF Row
  <2> QED BY <2>2, <2>5 DEF Roles
<1>5. CASE r.type = "TRANSFER"
  <2>1. new = SettledTransfer(r, snd, rcv)
    BY <1>5 DEF Settled
  <2>2. \A c \in Channels : snd.tokens[c] - r.amount[c] \in 0 .. MaxToken
    <3> TAKE c \in Channels
    <3>1. r.amount[c] <= snd.tokens[c]
      BY <1>5 DEF Accepts, Funded
    <3>2. r.amount[c] \in Nat /\ snd.tokens[c] \in 0 .. MaxToken
      BY <1>1
    <3> QED BY <3>1, <3>2, MaxTokenAssumption
  <2>3. new["sender"] = [tokens |-> [c \in Channels |->
                                       snd.tokens[c] - r.amount[c]],
                         nonce  |-> snd.nonce + 1]
    BY <2>1 DEF SettledTransfer, PlayerTransactions
  <2>4. new["sender"] \in Row /\ new["sender"].nonce = snd.nonce + 1
    BY <2>2, <2>3, <1>1 DEF Row
  <2>5. \A c \in Channels :
          ClampUint8(Uint8(rcv.tokens[c]) + Uint8(r.amount[c])) \in 0 .. MaxToken
    <3> TAKE c \in Channels
    <3>1. Uint8(rcv.tokens[c]) + Uint8(r.amount[c]) \in Int
      BY <1>3, MaxTokenAssumption
    <3> QED BY <3>1, ClampRange
  <2>6. new["receiver"] =
          [tokens |-> [c \in Channels |->
                         ClampUint8(Uint8(rcv.tokens[c]) + Uint8(r.amount[c]))],
           nonce  |-> rcv.nonce + 1]
    BY <2>1, <1>2 DEF SettledTransfer, PlayerTransactions
  <2>7. new["receiver"] \in Row /\ new["receiver"].nonce = rcv.nonce + 1
    BY <2>5, <2>6, <1>1 DEF Row
  <2> QED BY <2>4, <2>7 DEF Roles
<1> QED BY <1>4, <1>5, PartsOfAny

\* The same of the requests of a model, and of what is computed from them.
LEMMA RequestParts ==
  ASSUME NEW r \in Request
  PROVE  /\ r.sender \in Accounts /\ r.receiver \in Accounts
         /\ r.nonce \in Nat
         /\ r.type \in {"MINT", "TRANSFER"}
         /\ r.amount \in [Channels -> Nat]
         /\ FirstSaved(r) \in Roles /\ LastSaved(r) \in Roles
         /\ \A role \in Roles : r[role] \in Accounts
         /\ {r[FirstSaved(r)], r[LastSaved(r)]} = {r.sender, r.receiver}
         /\ FirstSaved(r) # LastSaved(r)
<1>1. r \in AnyRequest
  BY RequestIsAny
<1> QED BY <1>1, PartsOfAny

LEMMA SettledRows ==
  ASSUME NEW r \in Request, NEW snd \in Row, NEW rcv \in Row,
         Accepts(r, snd)
  PROVE  /\ \A role \in Roles : Settled(r, snd, rcv)[role] \in Row
         /\ Settled(r, snd, rcv)["sender"].nonce = snd.nonce + 1
         /\ Settled(r, snd, rcv)["receiver"].nonce = rcv.nonce + 1
<1>1. r \in AnyRequest
  BY RequestIsAny
<1> QED BY <1>1, SettledAny

\* One submission, as the table of rows sees it when the parties' rows are written
\* from the copies that were read of them.
NonceIn(rows, a) == RowOrZero(rows[a]).nonce

Written(rows, after, r, copy) ==
  LET new == Settled(r, copy["sender"], copy["receiver"])
  IN  after = [rows EXCEPT ![r[FirstSaved(r)]] = new[FirstSaved(r)],
                           ![r[LastSaved(r)]]  = new[LastSaved(r)]]

\* The parties whose row is not, or no longer, the copy.
Behind(rows, r, copy) ==
  {r[role] : role \in {x \in Roles : copy[x] # RowOrZero(rows[r[x]])}}

\* It spends the sender's nonce, raises both parties' by one and lowers nobody's,
\* but for those whose copies were behind.
Spends(rows, after, r, copy) ==
  /\ \A a \in {r.sender, r.receiver} \ Behind(rows, r, copy) :
       NonceIn(after, a) = NonceIn(rows, a) + 1
  /\ \A a \in Accounts \ Behind(rows, r, copy) :
       NonceIn(after, a) >= NonceIn(rows, a)
  /\ r.sender \notin Behind(rows, r, copy) => r.nonce = NonceIn(rows, r.sender)

\* It leaves rows of both parties and touches no other.
LEMMA WrittenRows ==
  ASSUME NEW rows \in [Accounts -> Row \cup {NoRow}], NEW after,
         NEW r \in AnyRequest, NEW copy \in [Roles -> Row],
         Accepts(r, copy["sender"]), Written(rows, after, r, copy)
  PROVE  /\ after \in [Accounts -> Row \cup {NoRow}]
         /\ Behind(rows, r, copy) \subseteq {r.sender, r.receiver}
         /\ r.sender \in Accounts /\ r.receiver \in Accounts
         /\ \A a \in {r.sender, r.receiver} : after[a] # NoRow
         /\ \A a \in Accounts \ {r.sender, r.receiver} : after[a] = rows[a]
         /\ Spends(rows, after, r, copy)
<1> DEFINE new   == Settled(r, copy["sender"], copy["receiver"])
           first == FirstSaved(r)
           last  == LastSaved(r)
<1>1. after = [rows EXCEPT ![r[first]] = new[first], ![r[last]]  = new[last]]
  BY DEF Written
<1>2. /\ r.sender \in Accounts /\ r.receiver \in Accounts /\ r.nonce \in Nat
      /\ first \in Roles /\ last \in Roles
      /\ r[first] \in Accounts /\ r[last] \in Accounts
      /\ first # last /\ {r[first], r[last]} = {r.sender, r.receiver}
      /\ r["sender"] = r.sender /\ r["receiver"] = r.receiver
  BY PartsOfAny
<1>3. copy["sender"] \in Row /\ copy["receiver"] \in Row
  BY DEF Roles
<1>4. /\ \A role \in Roles : new[role] \in Row
      /\ \A role \in Roles : new[role].nonce = copy[role].nonce + 1
  <2>1. /\ \A role \in Roles : new[role] \in Row
        /\ new["sender"].nonce = copy["sender"].nonce + 1
        /\ new["receiver"].nonce = copy["receiver"].nonce + 1
    BY <1>3, SettledAny
  <2> QED BY <2>1 DEF Roles
<1>5. copy["sender"].nonce = r.nonce
  BY DEF Accepts
<1>6. \A a \in Accounts :
        after[a] = IF a = r[last] THEN new[last]
                   ELSE IF a = r[first] THEN new[first] ELSE rows[a]
  <2> HIDE DEF new, first, last
  <2> QED BY <1>1, <1>2
<1>7. after \in [Accounts -> Row \cup {NoRow}]
  <2> HIDE DEF new, first, last
  <2> QED BY <1>1, <1>2, <1>4
<1> HIDE DEF new
<1>8. Behind(rows, r, copy) \subseteq {r.sender, r.receiver}
  BY <1>2 DEF Behind, Roles
<1>9. ASSUME NEW role \in Roles, r[role] \notin Behind(rows, r, copy)
      PROVE  copy[role] = RowOrZero(rows[r[role]])
  BY <1>9 DEF Behind
<1>10. ASSUME NEW a \in {r.sender, r.receiver} PROVE after[a] # NoRow
  BY <1>2, <1>4, <1>6, <1>10, NoRowAssumption
<1>11. ASSUME NEW a \in {r.sender, r.receiver} \ Behind(rows, r, copy)
       PROVE  NonceIn(after, a) = NonceIn(rows, a) + 1
  <2>1. PICK role \in {first, last} : a = r[role] /\ after[a] = new[role]
    BY <1>2, <1>6, <1>11
  <2>2. copy[role] = RowOrZero(rows[a]) /\ new[role].nonce = copy[role].nonce + 1
    BY <1>2, <1>4, <1>9, <1>11, <2>1
  <2> QED BY <1>10, <1>11, <2>1, <2>2 DEF NonceIn, RowOrZero
<1>12. \A a \in Accounts : NonceIn(rows, a) \in Nat
  BY RowRead DEF NonceIn
<1>13. \A a \in Accounts \ {r.sender, r.receiver} : after[a] = rows[a]
  BY <1>2, <1>6
<1>14. ASSUME NEW a \in Accounts \ Behind(rows, r, copy)
       PROVE  NonceIn(after, a) >= NonceIn(rows, a)
  <2>1. CASE a \in {r.sender, r.receiver}
    BY <1>11, <1>12, <1>14, <2>1
  <2>2. CASE a \notin {r.sender, r.receiver}
    <3>1. NonceIn(after, a) = NonceIn(rows, a)
      BY <1>13, <2>2 DEF NonceIn
    <3> QED BY <1>12, <3>1
  <2> QED BY <2>1, <2>2
<1>15. r.sender \notin Behind(rows, r, copy) => r.nonce = NonceIn(rows, r.sender)
  BY <1>2, <1>5, <1>9 DEF NonceIn, Roles
<1>16. Spends(rows, after, r, copy)
  BY <1>11, <1>14, <1>15 DEF Spends
<1> QED BY <1>2, <1>7, <1>8, <1>10, <1>13, <1>16

\* The journal against the rows: the nonces in it are spent, but for the accounts
\* in put, whose rows were written from a copy that was behind.
SpentIn(rows, journal, put) ==
  \A i \in DOMAIN journal :
    journal[i].sender \notin put => journal[i].nonce < NonceIn(rows, journal[i].sender)

\* One more submission keeps it so, under a nonce its sender has not used before.
LEMMA WrittenSpends ==
  ASSUME NEW rows \in [Accounts -> Row \cup {NoRow}], NEW after,
         NEW r \in AnyRequest, NEW copy \in [Roles -> Row],
         Accepts(r, copy["sender"]), Written(rows, after, r, copy),
         NEW journal \in Seq(AnyRequest), NEW put, SpentIn(rows, journal, put)
  PROVE  LET more == put \cup Behind(rows, r, copy)
         IN  /\ SpentIn(after, Append(journal, r), more)
             /\ \A i \in DOMAIN journal :
                  journal[i].sender = r.sender /\ journal[i].nonce = r.nonce
                    => r.sender \in more
<1> DEFINE more == put \cup Behind(rows, r, copy)
           n == Len(journal)
<1>1. /\ n \in Nat /\ DOMAIN journal = 1 .. n /\ DOMAIN Append(journal, r) = 1 .. n + 1
      /\ Append(journal, r)[n + 1] = r
      /\ \A i \in 1 .. n : Append(journal, r)[i] = journal[i]
  OBVIOUS
<1>2. \A i \in 1 .. n : journal[i].sender \in Accounts /\ journal[i].nonce \in Nat
  BY <1>1, PartsOfAny
<1>3. r.sender \in Accounts /\ r.nonce \in Nat
  BY PartsOfAny
<1>4. /\ after \in [Accounts -> Row \cup {NoRow}]
      /\ \A a \in Accounts : NonceIn(rows, a) \in Nat /\ NonceIn(after, a) \in Nat
  <2>1. after \in [Accounts -> Row \cup {NoRow}]
    BY WrittenRows
  <2> QED BY <2>1, RowRead DEF NonceIn
<1>5. /\ \A a \in Accounts \ more : NonceIn(after, a) >= NonceIn(rows, a)
      /\ r.sender \notin more => /\ r.nonce = NonceIn(rows, r.sender)
                                 /\ NonceIn(after, r.sender) = r.nonce + 1
  <2>1. Spends(rows, after, r, copy)
    BY WrittenRows
  <2> QED BY <1>3, <2>1 DEF Spends
<1>6. \A i \in 1 .. n : journal[i].sender \notin more =>
        journal[i].nonce < NonceIn(rows, journal[i].sender)
  BY <1>1 DEF SpentIn
<1> HIDE DEF more
<1>7. ASSUME NEW i \in 1 .. n + 1, Append(journal, r)[i].sender \notin more
      PROVE  Append(journal, r)[i].nonce < NonceIn(after, Append(journal, r)[i].sender)
  <2>1. CASE i = n + 1
    BY <1>1, <1>3, <1>5, <1>7, <2>1
  <2>2. CASE i \in 1 .. n
    <3>1. /\ journal[i].sender \in Accounts /\ journal[i].nonce \in Nat
          /\ journal[i].nonce < NonceIn(rows, journal[i].sender)
          /\ NonceIn(after, journal[i].sender) >= NonceIn(rows, journal[i].sender)
      BY <1>1, <1>2, <1>5, <1>6, <1>7, <2>2
    <3> QED BY <1>1, <1>4, <2>2, <3>1
  <2> QED BY <1>1, <2>1, <2>2
<1>8. ASSUME NEW i \in 1 .. n, journal[i].sender = r.sender, journal[i].nonce = r.nonce
      PROVE  r.sender \in more
  BY <1>2, <1>3, <1>5, <1>6, <1>8
<1> QED BY <1>1, <1>7, <1>8 DEF SpentIn, more

-----------------------------------------------------------------------------
(* What one accepted request computes, in plain integers.                   *)

\* An amount within the limits survives its conversions, and so does a balance.
LEMMA UintExact == \A n \in 0 .. MaxToken : Uint8(n) = n
  BY MaxTokenAssumption DEF Uint8

\* The int8 conversion of a mint amount is exact below the cap.
LEMMA IntExact == \A n \in 0 .. MaxMint : Int8(n) = n
<1>1. \A n \in 0 .. MaxMint : n \in 0 .. MaxToken /\ ~(2 * n > MaxToken)
  BY MintAssumption, MaxTokenAssumption
<1> QED BY <1>1, UintExact DEF Int8

\* clampUint8 of a sum of naturals cuts it off at the top only.
LEMMA ClampSum ==
  \A m, n \in Nat : ClampUint8(m + n) = IF m + n <= MaxToken THEN m + n
                                                             ELSE MaxToken
  BY MaxTokenAssumption DEF ClampUint8

\* The receiver's row passes through uint8() unchanged.
LEMMA StateExact ==
  ASSUME NEW row \in Row
  PROVE  /\ row.tokens \in [Channels -> 0 .. MaxToken]
         /\ \A c \in Channels : AsPlayerState(row).tokens[c] = row.tokens[c]
  BY UintExact DEF AsPlayerState, Row

\* What one accepted request computes.
LEMMA SettlesExactly ==
  ASSUME NEW q \in Request, NEW snd \in Row, NEW rcv \in Row,
         WithinLimits(q), Accepts(q, snd), NEW c \in Channels
  PROVE  LET new  == Settled(q, snd, rcv)
             owed == rcv.tokens[c] + q.amount[c]
             paid == IF q.type = "MINT" THEN 0 ELSE q.amount[c]
         IN  /\ new.receiver.tokens[c] = IF owed <= MaxToken THEN owed ELSE MaxToken
             /\ new.sender.tokens[c] = snd.tokens[c] - paid
<1> DEFINE a == q.amount[c]
           b == rcv.tokens[c]
<1>1. /\ q.amount \in [Channels -> Nat] /\ q.type \in {"MINT", "TRANSFER"}
      /\ a \in Nat /\ a <= MaxAmount(q)
  BY InputAssumption DEF Request, WithinLimits
<1>2. /\ b \in 0 .. MaxToken /\ b \in Nat /\ snd.tokens[c] \in 0 .. MaxToken
      /\ AsPlayerState(rcv).tokens[c] = b
  BY StateExact, MaxTokenAssumption
<1>3. ClampUint8(b + a) = IF b + a <= MaxToken THEN b + a ELSE MaxToken
  BY <1>1, <1>2, ClampSum
<1>4. CASE q.type = "MINT"
  <2>1. Int8(a) = a
    BY <1>1, <1>4, IntExact, MintAssumption DEF MaxAmount
  <2>2. Settled(q, snd, rcv).receiver.tokens[c] = ClampUint8(b + Int8(a))
    BY <1>2, <1>4 DEF Settled, SettledMint, PlayerCompleteMission, Calculation
  <2>3. Settled(q, snd, rcv).sender.tokens = snd.tokens
    BY <1>4 DEF Settled, SettledMint, Row
  <2>4. snd.tokens[c] - 0 = snd.tokens[c]
    BY <1>2, MaxTokenAssumption
  <2> QED BY <1>3, <1>4, <2>1, <2>2, <2>3, <2>4
<1>5. CASE q.type = "TRANSFER"
  <2>1. Uint8(a) = a
    BY <1>1, <1>5, UintExact, MaxTokenAssumption DEF MaxAmount
  <2>2. Settled(q, snd, rcv).receiver.tokens[c] = ClampUint8(b + Uint8(a))
    BY <1>2, <1>5 DEF Settled, SettledTransfer, PlayerTransactions
  <2>3. Settled(q, snd, rcv).sender.tokens[c] = snd.tokens[c] - a
    BY <1>5 DEF Settled, SettledTransfer
  <2> QED BY <1>3, <1>5, <2>1, <2>2, <2>3
<1> QED BY <1>1, <1>4, <1>5

-----------------------------------------------------------------------------
(* Sums.  g gives the sum of f over each part of S, one member at a time, in *)
(* the way MapThenSumSet folds; the order makes no difference.               *)

\* A set of naturals that is not empty has a least member.
LEMMA LeastNatural ==
  ASSUME NEW T \in SUBSET Nat, T # {}
  PROVE  \E n \in T : \A m \in T : n <= m
<1>1. \E n \in T : \A m \in T : ~ (<<m, n>> \in OpToRel(<, Nat))
  BY WFMin, NatLessThanWellFounded
<1>2. PICK n \in T : \A m \in T : ~ (<<m, n>> \in OpToRel(<, Nat))
  BY <1>1
<1>3. \A m \in T : ~(m < n)
  BY <1>2 DEF OpToRel
<1> QED BY <1>3

\* A part of a finite set without one member has one member less.
LEMMA WithoutOne ==
  ASSUME NEW S, IsFiniteSet(S), NEW s \in SUBSET S, NEW x \in s
  PROVE  /\ s \ {x} \in SUBSET S
         /\ Cardinality(s) \in Nat /\ Cardinality(s \ {x}) \in Nat
         /\ Cardinality(s \ {x}) < Cardinality(s)
<1>1. IsFiniteSet(s) /\ IsFiniteSet(s \ {x})
  BY FS_Subset
<1>2. Cardinality(s \ {x}) = Cardinality(s) - 1
  BY <1>1, FS_RemoveElement
<1> QED BY <1>1, <1>2, FS_CardinalityType

Taken(s) == CHOOSE x \in s : TRUE
Part(g, f, s) == IF s = {} THEN 0 ELSE f[Taken(s)] + g[s \ {Taken(s)}]
Sums(g, f, S) == g = [s \in SUBSET S |-> Part(g, f, s)]

Total(f, S) == (CHOOSE g : Sums(g, f, S))[S]

Addends(f, S) == IsFiniteSet(S) /\ \A x \in S : f[x] \in Nat

LEMMA TakenIsMember == \A s : s # {} => Taken(s) \in s
  BY DEF Taken

\* There is such a function: one that is right for the parts of fewer than n
\* members can be made right for those of n.
LEMMA SumsExist ==
  ASSUME NEW S, NEW f, Addends(f, S)
  PROVE  \E g : Sums(g, f, S)
<1> DEFINE Right(g, n) == /\ g \in [SUBSET S -> Nat]
                          /\ \A s \in SUBSET S :
                               Cardinality(s) < n => g[s] = Part(g, f, s)
           Wrong == {n \in Nat : ~ \E g : Right(g, n)}
<1>1. \A s \in SUBSET S : IsFiniteSet(s) /\ Cardinality(s) \in Nat
  BY FS_Subset, FS_CardinalityType DEF Addends
<1>2. Wrong = {}
  <2> SUFFICES ASSUME Wrong # {} PROVE FALSE
    OBVIOUS
  <2>1. PICK n \in Wrong : \A m \in Wrong : n <= m
    <3>1. Wrong \in SUBSET Nat
      OBVIOUS
    <3> HIDE DEF Wrong
    <3> QED BY <3>1, LeastNatural
  <2>2. n # 0
    <3>1. [s \in SUBSET S |-> 0] \in [SUBSET S -> Nat]
      OBVIOUS
    <3>2. \A s \in SUBSET S : ~(Cardinality(s) < 0)
      BY <1>1
    <3>3. Right([s \in SUBSET S |-> 0], 0)
      BY <3>1, <3>2
    <3> HIDE DEF Right
    <3> QED BY <2>1, <3>3
  <2>3. PICK g : Right(g, n - 1)
    <3>1. n - 1 \in Nat /\ ~(n <= n - 1)
      BY <2>1, <2>2
    <3>2. n - 1 \notin Wrong
      BY <2>1, <3>1
    <3> HIDE DEF Right
    <3> QED BY <3>1, <3>2
  <2> DEFINE h == [s \in SUBSET S |-> IF Cardinality(s) < n - 1 THEN g[s]
                                      ELSE Part(g, f, s)]
  <2>4. ASSUME NEW s \in SUBSET S, s # {}
        PROVE  /\ s \ {Taken(s)} \in SUBSET S /\ f[Taken(s)] \in Nat
               /\ Cardinality(s \ {Taken(s)}) < Cardinality(s)
               /\ Cardinality(s \ {Taken(s)}) \in Nat
    <3>1. Taken(s) \in s
      BY <2>4, TakenIsMember
    <3> QED BY <3>1, WithoutOne DEF Addends
  <2>5. h \in [SUBSET S -> Nat]
    <3>1. ASSUME NEW s \in SUBSET S PROVE Part(g, f, s) \in Nat
      <4>1. CASE s = {}
        BY <4>1 DEF Part
      <4>2. CASE s # {}
        <5>1. f[Taken(s)] \in Nat /\ g[s \ {Taken(s)}] \in Nat
          BY <2>3, <2>4, <4>2
        <5> QED BY <4>2, <5>1 DEF Part
      <4> QED BY <4>1, <4>2
    <3> QED BY <2>3, <3>1
  <2>6. ASSUME NEW s \in SUBSET S, Cardinality(s) < n
        PROVE  h[s] = Part(h, f, s)
    <3>1. h[s] = Part(g, f, s)
      BY <2>3, <2>6
    <3>2. CASE s = {}
      BY <3>1, <3>2 DEF Part
    <3>3. CASE s # {}
      <4> DEFINE t == s \ {Taken(s)}
      <4>1. t \in SUBSET S /\ Cardinality(t) < n - 1
        BY <1>1, <2>1, <2>4, <2>6, <3>3
      <4>2. h[t] = g[t]
        BY <4>1
      <4> HIDE DEF h
      <4> QED BY <3>1, <3>3, <4>2 DEF Part
    <3> QED BY <3>2, <3>3
  <2>7. Right(h, n)
    <3> HIDE DEF h
    <3> QED BY <2>5, <2>6
  <2> HIDE DEF Right, h
  <2> QED BY <2>1, <2>7
<1> DEFINE n == Cardinality(S) + 1
<1>3. n \in Nat /\ \A s \in SUBSET S : Cardinality(s) < n
  <2>1. S \in SUBSET S /\ \A s \in SUBSET S : Cardinality(s) <= Cardinality(S)
    BY FS_Subset DEF Addends
  <2> QED BY <1>1, <2>1
<1> HIDE DEF n
<1>4. PICK g : Right(g, n)
  <2> HIDE DEF Right
  <2> QED BY <1>2, <1>3
<1>5. g = [s \in SUBSET S |-> Part(g, f, s)]
  BY <1>3, <1>4
<1> QED BY <1>5 DEF Sums

\* Any member may be taken first.
LEMMA AnyFirst ==
  ASSUME NEW S, NEW f, Addends(f, S), NEW g, Sums(g, f, S)
  PROVE  \A s \in SUBSET S : /\ g[s] \in Nat
                             /\ s = {} => g[s] = 0
                             /\ \A x \in s : g[s] = f[x] + g[s \ {x}]
<1> DEFINE Good(s) == g[s] \in Nat /\ \A x \in s : g[s] = f[x] + g[s \ {x}]
           Wrong   == {n \in Nat : \E s \in SUBSET S : n = Cardinality(s) /\ ~Good(s)}
<1>1. \A s \in SUBSET S : IsFiniteSet(s) /\ Cardinality(s) \in Nat
  BY FS_Subset, FS_CardinalityType DEF Addends
<1>2. \A s \in SUBSET S : g[s] = Part(g, f, s)
  BY DEF Sums
<1>3. \A s \in SUBSET S : s = {} => g[s] = 0
  BY <1>2 DEF Part
<1>4. \A x \in S : f[x] \in Nat
  BY DEF Addends
<1>5. Wrong = {}
  <2> SUFFICES ASSUME Wrong # {} PROVE FALSE
    OBVIOUS
  <2>1. PICK n \in Wrong : \A m \in Wrong : n <= m
    <3>1. Wrong \in SUBSET Nat
      OBVIOUS
    <3> HIDE DEF Wrong
    <3> QED BY <3>1, LeastNatural
  <2>2. PICK s \in SUBSET S : n = Cardinality(s) /\ ~Good(s)
    BY <2>1
  <2>3. s # {}
    BY <1>3, <2>2
  <2>4. ASSUME NEW t \in SUBSET S, Cardinality(t) < n PROVE Good(t)
    <3> HIDE DEF Good
    <3>1. Cardinality(t) \in Nat /\ n \in Nat
      BY <1>1, <2>1
    <3>2. Cardinality(t) \notin Wrong
      BY <2>1, <2>4, <3>1
    <3> QED BY <3>1, <3>2
  <2>5. \A x \in s : s \ {x} \in SUBSET S /\ Good(s \ {x})
    <3> HIDE DEF Good
    <3> QED BY <2>2, <2>4, WithoutOne DEF Addends
  <2> DEFINE y == Taken(s)
  <2>6. y \in s /\ g[s] = f[y] + g[s \ {y}]
    BY <1>2, <2>3, TakenIsMember DEF Part
  <2> HIDE DEF y
  <2>7. g[s] \in Nat
    <3>1. f[y] \in Nat /\ g[s \ {y}] \in Nat
      BY <1>4, <2>2, <2>5, <2>6
    <3> QED BY <2>6, <3>1
  <2>8. ASSUME NEW x \in s, x # y
        PROVE  g[s] = f[x] + g[s \ {x}]
    <3> DEFINE rest == (s \ {x}) \ {y}
    <3>1. g[s \ {x}] = f[y] + g[rest]
      BY <2>5, <2>6, <2>8
    <3>2. g[s \ {y}] = f[x] + g[(s \ {y}) \ {x}]
      BY <2>5, <2>6, <2>8
    <3>3. g[s \ {y}] = f[x] + g[rest]
      <4>1. (s \ {y}) \ {x} = rest
        OBVIOUS
      <4> HIDE DEF rest
      <4> QED BY <3>2, <4>1
    <3>4. g[rest] \in Nat
      <4>1. rest \in SUBSET S /\ Cardinality(rest) < n
        <5>1. y \in s \ {x} /\ s \ {x} \in SUBSET S
          BY <2>5, <2>6, <2>8
        <5>2. Cardinality(s \ {x}) < n /\ Cardinality(s \ {x}) \in Nat
          BY <2>2, WithoutOne DEF Addends
        <5>3. /\ rest \in SUBSET S /\ Cardinality(rest) \in Nat
              /\ Cardinality(rest) < Cardinality(s \ {x})
          <6> DEFINE t == s \ {x}
          <6> HIDE DEF t
          <6>1. y \in t /\ t \in SUBSET S
            BY <5>1 DEF t
          <6>2. /\ t \ {y} \in SUBSET S /\ Cardinality(t \ {y}) \in Nat
                /\ Cardinality(t \ {y}) < Cardinality(t)
            BY <6>1, WithoutOne DEF Addends
          <6> QED BY <6>2 DEF t
        <5>4. n \in Nat
          BY <2>1
        <5> HIDE DEF rest
        <5> QED BY <5>2, <5>3, <5>4
      <4> QED BY <2>4, <4>1
    <3> HIDE DEF rest
    <3>5. f[x] \in Nat /\ f[y] \in Nat
      BY <1>4, <2>2, <2>6
    <3> QED BY <2>6, <3>1, <3>3, <3>4, <3>5
  <2> QED BY <2>2, <2>6, <2>7, <2>8
<1>6. ASSUME NEW s \in SUBSET S PROVE Good(s)
  <2> HIDE DEF Good
  <2>1. Cardinality(s) \in Nat /\ Cardinality(s) \notin Wrong
    BY <1>1, <1>5
  <2> QED BY <2>1
<1> QED BY <1>3, <1>6

\* Sums of the same addends are equal.
LEMMA SumsAgree ==
  ASSUME NEW S, NEW f, Addends(f, S), NEW g, Sums(g, f, S),
         NEW T, NEW h, Addends(h, T), NEW k, Sums(k, h, T),
         NEW U, U \subseteq S, U \subseteq T, \A x \in U : f[x] = h[x]
  PROVE  g[U] = k[U]
<1> DEFINE Wrong == {n \in Nat : \E s \in SUBSET U : n = Cardinality(s) /\ g[s] # k[s]}
<1>1. \A s \in SUBSET U : /\ s \in SUBSET S /\ s \in SUBSET T
                          /\ Cardinality(s) \in Nat
  BY FS_Subset, FS_CardinalityType DEF Addends
<1>2. Wrong = {}
  <2> SUFFICES ASSUME Wrong # {} PROVE FALSE
    OBVIOUS
  <2>1. PICK n \in Wrong : \A m \in Wrong : n <= m
    <3>1. Wrong \in SUBSET Nat
      OBVIOUS
    <3> HIDE DEF Wrong
    <3> QED BY <3>1, LeastNatural
  <2>2. PICK s \in SUBSET U : n = Cardinality(s) /\ g[s] # k[s]
    BY <2>1
  <2>3. s # {}
    <3>1. s = {} => g[s] = 0 /\ k[s] = 0
      BY <1>1, AnyFirst
    <3> QED BY <2>2, <3>1
  <2>4. PICK x : x \in s
    BY <2>3
  <2>5. g[s] = f[x] + g[s \ {x}] /\ k[s] = h[x] + k[s \ {x}]
    <3>1. s \in SUBSET S /\ s \in SUBSET T
      BY <1>1
    <3>2. g[s] = f[x] + g[s \ {x}]
      BY <2>4, <3>1, AnyFirst
    <3>3. k[s] = h[x] + k[s \ {x}]
      BY <2>4, <3>1, AnyFirst
    <3> QED BY <3>2, <3>3
  <2>6. s \ {x} \in SUBSET U /\ Cardinality(s \ {x}) < n
    BY <1>1, <2>2, <2>4, WithoutOne DEF Addends
  <2>7. g[s \ {x}] = k[s \ {x}]
    <3> DEFINE t == s \ {x}
    <3> HIDE DEF t
    <3>1. t \in SUBSET U /\ Cardinality(t) < n
      BY <2>6 DEF t
    <3>2. Cardinality(t) \in Nat /\ Cardinality(t) \notin Wrong
      BY <1>1, <2>1, <3>1
    <3>3. g[t] = k[t]
      BY <3>1, <3>2
    <3> QED BY <3>3 DEF t
  <2> QED BY <2>2, <2>4, <2>5, <2>7
<1>3. Cardinality(U) \in Nat /\ Cardinality(U) \notin Wrong
  BY <1>1, <1>2
<1> QED BY <1>3

\* The sum over a set: taking one member out, and replacing no addend.
LEMMA TotalSums ==
  ASSUME NEW S, NEW f, Addends(f, S)
  PROVE  Sums(CHOOSE g : Sums(g, f, S), f, S)
BY SumsExist

LEMMA TotalIsSum ==
  ASSUME NEW S, NEW f, Addends(f, S), NEW g, Sums(g, f, S)
  PROVE  Total(f, S) = g[S]
BY TotalSums, SumsAgree DEF Total

LEMMA TotalEmpty == \A f : Total(f, {}) = 0
<1> SUFFICES ASSUME NEW f PROVE Total(f, {}) = 0
  OBVIOUS
<1>1. Addends(f, {})
  BY FS_EmptySet DEF Addends
<1> QED BY <1>1, TotalSums, AnyFirst DEF Total

LEMMA TotalSame ==
  ASSUME NEW S, NEW f, Addends(f, S), NEW h, \A x \in S : f[x] = h[x]
  PROVE  Total(f, S) = Total(h, S)
<1>1. Addends(h, S)
  BY DEF Addends
<1> QED BY <1>1, TotalSums, SumsAgree DEF Total

LEMMA TotalSplit ==
  ASSUME NEW S, NEW f, Addends(f, S), NEW x \in S
  PROVE  /\ f[x] \in Nat /\ Total(f, S) \in Nat
         /\ Addends(f, S \ {x}) /\ Total(f, S \ {x}) \in Nat
         /\ Total(f, S) = f[x] + Total(f, S \ {x})
<1> DEFINE g == CHOOSE g : Sums(g, f, S)
           k == CHOOSE k : Sums(k, f, S \ {x})
<1>1. Addends(f, S \ {x}) /\ f[x] \in Nat
  BY FS_Subset DEF Addends
<1>2. Sums(g, f, S) /\ Sums(k, f, S \ {x})
  BY <1>1, TotalSums
<1>3. Total(f, S) = g[S] /\ Total(f, S \ {x}) = k[S \ {x}]
  BY DEF Total
<1> HIDE DEF g, k
<1>4. g[S] \in Nat /\ k[S \ {x}] \in Nat /\ g[S] = f[x] + g[S \ {x}]
  BY <1>1, <1>2, AnyFirst
<1>5. g[S \ {x}] = k[S \ {x}]
  BY <1>1, <1>2, SumsAgree
<1> QED BY <1>1, <1>3, <1>4, <1>5

\* Zeros add up to nothing.
LEMMA TotalZero ==
  ASSUME NEW S, NEW f, Addends(f, S), \A x \in S : f[x] = 0
  PROVE  Total(f, S) = 0
<1> DEFINE g == [s \in SUBSET S |-> 0]
<1>1. ASSUME NEW s \in SUBSET S PROVE Part(g, f, s) = 0
  <2>1. CASE s # {}
    <3>1. Taken(s) \in S /\ s \ {Taken(s)} \in SUBSET S
      BY <2>1, TakenIsMember
    <3>2. f[Taken(s)] = 0 /\ g[s \ {Taken(s)}] = 0
      BY <3>1
    <3> HIDE DEF g
    <3> QED BY <3>2 DEF Part
  <2> QED BY <2>1 DEF Part
<1>2. Sums(g, f, S)
  BY <1>1 DEF Sums
<1>3. g[S] = 0
  OBVIOUS
<1> HIDE DEF g
<1> QED BY <1>2, <1>3, TotalIsSum

-----------------------------------------------------------------------------
(* Induction over the naturals. *)

\* Induction, for the numbers of which something holds as a set.
LEMMA SetInduction ==
  ASSUME NEW T, 0 \in T, \A n \in Nat : n \in T => n + 1 \in T
  PROVE  \A n \in Nat : n \in T
<1> SUFFICES ASSUME NEW n \in Nat, n \notin T PROVE FALSE
  OBVIOUS
<1> DEFINE Missing == {m \in Nat : m \notin T}
<1>1. PICK m \in Missing : \A k \in Missing : m <= k
  <2>1. Missing \in SUBSET Nat /\ Missing # {}
    OBVIOUS
  <2> HIDE DEF Missing
  <2> QED BY <2>1, LeastNatural
<1>2. m # 0 /\ m - 1 \in Nat /\ ~(m <= m - 1)
  BY <1>1
<1>3. m - 1 \in T
  BY <1>1, <1>2
<1>4. m - 1 + 1 \in T
  BY <1>2, <1>3
<1> QED BY <1>1, <1>2, <1>4

-----------------------------------------------------------------------------
(* Levels of a Merkle tree, as lists of k nodes.                             *)

IsList(s, k)   == s = [i \in 1 .. k |-> s[i]]
Distinct(s, k) == IsList(s, k) /\ \A i, j \in 1 .. k : s[i] = s[j] => i = j
Halved(k)      == (k + 1) \div 2

LEMMA ListLength ==
  ASSUME NEW k \in Nat, NEW s, IsList(s, k)
  PROVE  /\ Len(s) = k /\ DOMAIN s = 1 .. k
         /\ s \in Seq({s[i] : i \in 1 .. k})
<1>1. s = [i \in 1 .. k |-> s[i]]
  BY DEF IsList
<1>2. s \in [1 .. k -> {s[i] : i \in 1 .. k}]
  BY <1>1
<1>3. s \in Seq({s[i] : i \in 1 .. k})
  BY <1>2
<1> QED BY <1>2, <1>3

\* Half of a level.
LEMMA HalfIsLess ==
  ASSUME NEW k \in Nat \ {0}
  PROVE  /\ Halved(k) \in Nat \ {0} /\ (k > 1 => Halved(k) < k)
         /\ k \in {2 * Halved(k), 2 * Halved(k) - 1}
         /\ \A i \in 1 .. Halved(k) : 2 * i - 1 \in 1 .. k
         /\ \A i \in Nat : 2 * i <= k => i <= Halved(k)
  BY DEF Halved

\* One pass pairs neighbours; a node without one is its own.
LEMMA ReduceList ==
  ASSUME NEW k \in Nat \ {0}, NEW s, IsList(s, k)
  PROVE  Reduce(s) = [i \in 1 .. Halved(k) |->
                        Node(s[2 * i - 1], s[IF 2 * i <= k THEN 2 * i ELSE k])]
<1>1. Len(s) = k /\ s \in Seq({s[i] : i \in 1 .. k}) /\ Last(s) = s[k]
  BY ListLength DEF Last
<1>2. CASE k % 2 = 0
  <2>1. k \div 2 = Halved(k) /\ \A i \in 1 .. Halved(k) : 2 * i <= k
    BY <1>2 DEF Halved
  <2> QED BY <1>1, <1>2, <2>1 DEF Reduce
<1>3. CASE k % 2 # 0
  <2> DEFINE even == Append(s, s[k])
  <2>1. /\ Len(even) = k + 1 /\ even[k + 1] = s[k]
        /\ \A i \in 1 .. k : even[i] = s[i]
    BY <1>1
  <2>2. Reduce(s) = [i \in 1 .. Halved(k) |-> Node(even[2 * i - 1], even[2 * i])]
    BY <1>1, <1>3, <2>1 DEF Reduce, Halved
  <2>3. ASSUME NEW i \in 1 .. Halved(k)
        PROVE  /\ even[2 * i - 1] = s[2 * i - 1]
               /\ even[2 * i] = s[IF 2 * i <= k THEN 2 * i ELSE k]
    <3>1. 2 * i - 1 \in 1 .. k /\ (2 * i \in 1 .. k \/ 2 * i = k + 1)
      BY HalfIsLess
    <3> QED BY <2>1, <3>1
  <2> HIDE DEF even
  <2> QED BY <2>2, <2>3
<1> QED BY <1>2, <1>3

LEMMA NodeParts ==
  \A l, r, x, y : Node(l, r) = Node(x, y) => l = x /\ r = y
  BY DEF Node

\* Different nodes are paired to different nodes.
LEMMA ReduceDistinct ==
  ASSUME NEW k \in Nat \ {0}, NEW s, Distinct(s, k)
  PROVE  Distinct(Reduce(s), Halved(k))
<1>1. Reduce(s) = [i \in 1 .. Halved(k) |->
                     Node(s[2 * i - 1], s[IF 2 * i <= k THEN 2 * i ELSE k])]
  BY ReduceList DEF Distinct
<1>2. IsList(Reduce(s), Halved(k))
  BY <1>1 DEF IsList
<1>3. ASSUME NEW i \in 1 .. Halved(k), NEW j \in 1 .. Halved(k),
             Reduce(s)[i] = Reduce(s)[j]
      PROVE  i = j
  <2>1. s[2 * i - 1] = s[2 * j - 1]
    BY <1>1, <1>3, NodeParts
  <2>2. 2 * i - 1 \in 1 .. k /\ 2 * j - 1 \in 1 .. k
    BY HalfIsLess
  <2>3. 2 * i - 1 = 2 * j - 1
    BY <2>1, <2>2 DEF Distinct
  <2> QED BY <2>3
<1> QED BY <1>2, <1>3 DEF Distinct

\* A level can be read off the next one.
LEMMA ReduceInjective ==
  ASSUME NEW k \in Nat \ {0}, NEW a, Distinct(a, k),
         NEW l \in Nat \ {0}, NEW b, Distinct(b, l),
         Reduce(a) = Reduce(b), k <= l
  PROVE  k = l /\ a = b
<1> DEFINE h == Halved(k)
<1>1. /\ Reduce(a) = [i \in 1 .. Halved(k) |->
                     Node(a[2 * i - 1], a[IF 2 * i <= k THEN 2 * i ELSE k])]
      /\ Reduce(b) = [i \in 1 .. Halved(l) |->
                     Node(b[2 * i - 1], b[IF 2 * i <= l THEN 2 * i ELSE l])]
  BY ReduceList DEF Distinct
<1>2. Halved(k) = Halved(l)
  <2>1. IsList(Reduce(a), Halved(k)) /\ IsList(Reduce(b), Halved(l))
    BY <1>1 DEF IsList
  <2>2. Halved(k) \in Nat /\ Halved(l) \in Nat
    BY HalfIsLess
  <2> QED BY <2>1, <2>2, ListLength
<1>3. ASSUME NEW i \in 1 .. Halved(k)
      PROVE  /\ a[2 * i - 1] = b[2 * i - 1]
             /\ a[IF 2 * i <= k THEN 2 * i ELSE k] = b[IF 2 * i <= l THEN 2 * i ELSE l]
  <2>1. Reduce(a)[i] = Node(a[2 * i - 1], a[IF 2 * i <= k THEN 2 * i ELSE k])
    BY <1>1
  <2>2. Reduce(b)[i] = Node(b[2 * i - 1], b[IF 2 * i <= l THEN 2 * i ELSE l])
    BY <1>1, <1>2
  <2> QED BY <2>1, <2>2, NodeParts
<1>4. k = l
  <2> SUFFICES ASSUME k < l PROVE FALSE
    OBVIOUS
  <2>1. k = 2 * h - 1 /\ l = 2 * h /\ h \in 1 .. Halved(k)
    BY <1>2, HalfIsLess
  <2>2. a[k] = b[k] /\ a[k] = b[l]
    BY <1>3, <2>1
  <2>3. b[k] # b[l]
    BY <2>1 DEF Distinct
  <2> QED BY <2>2, <2>3
<1>5. ASSUME NEW n \in 1 .. k PROVE a[n] = b[n]
  <2>1. PICK i \in 1 .. Halved(k) : n = 2 * i \/ n = 2 * i - 1
    <3>1. CASE n % 2 = 0
      <4>1. n = 2 * (n \div 2) /\ n \div 2 \in 1 .. Halved(k)
        BY <3>1 DEF Halved
      <4> QED BY <4>1
    <3>2. CASE n % 2 # 0
      <4>1. n = 2 * ((n + 1) \div 2) - 1 /\ (n + 1) \div 2 \in 1 .. Halved(k)
        BY <3>2 DEF Halved
      <4> QED BY <4>1
    <3> QED BY <3>1, <3>2
  <2> QED BY <1>3, <1>4, <2>1
<1> QED BY <1>4, <1>5 DEF Distinct, IsList

\* The recursive function of the levels exists, and so has the rows it describes.
LevelsOf(f, leaves, n) ==
  f = [p \in 0 .. n |-> IF p = 0 THEN leaves ELSE Pass(f[p - 1])]

LEMMA LevelsExist ==
  ASSUME NEW leaves
  PROVE  \A n \in Nat : \E f : LevelsOf(f, leaves, n)
<1> DEFINE T == {n \in Nat : \E f : LevelsOf(f, leaves, n)}
<1>1. 0 \in T
  <2> DEFINE f == [p \in 0 .. 0 |-> leaves]
  <2>1. f = [p \in 0 .. 0 |-> IF p = 0 THEN leaves ELSE Pass(f[p - 1])]
    OBVIOUS
  <2> QED BY <2>1 DEF LevelsOf
<1>2. ASSUME NEW n \in Nat, n \in T PROVE n + 1 \in T
  <2>1. PICK f : f = [p \in 0 .. n |-> IF p = 0 THEN leaves ELSE Pass(f[p - 1])]
    BY <1>2 DEF LevelsOf
  <2> DEFINE g == [p \in 0 .. n + 1 |-> IF p <= n THEN f[p] ELSE Pass(f[n])]
  <2>2. ASSUME NEW p \in 0 .. n + 1
        PROVE  g[p] = IF p = 0 THEN leaves ELSE Pass(g[p - 1])
    <3>1. CASE p = 0
      BY <2>1, <3>1
    <3>2. CASE p \in 1 .. n
      <4>1. p - 1 \in 0 .. n /\ p \in 0 .. n /\ g[p] = f[p] /\ g[p - 1] = f[p - 1]
        BY <3>2
      <4>2. f[p] = Pass(f[p - 1])
        BY <2>1, <3>2, <4>1
      <4> QED BY <3>2, <4>1, <4>2
    <3>3. CASE p = n + 1
      BY <3>3
    <3> QED BY <3>1, <3>2, <3>3
  <2>3. g = [p \in 0 .. n + 1 |-> g[p]]
    OBVIOUS
  <2> HIDE DEF g
  <2>4. LevelsOf(g, leaves, n + 1)
    BY <2>2, <2>3 DEF LevelsOf
  <2> QED BY <2>4
<1> HIDE DEF T
<1>3. \A n \in Nat : n \in T
  BY <1>1, <1>2, SetInduction
<1> QED BY <1>3 DEF T

LEMMA LevelsStep ==
  ASSUME NEW n \in Nat, NEW leaves, IsList(leaves, n)
  PROVE  /\ Levels(leaves)[0] = leaves
         /\ \A p \in 0 .. n - 1 : Levels(leaves)[p + 1] = Pass(Levels(leaves)[p])
<1>1. Len(leaves) = n
  BY ListLength
<1>2. Levels(leaves) = CHOOSE f : LevelsOf(f, leaves, n)
  BY <1>1 DEF Levels, LevelsOf
<1>3. LevelsOf(Levels(leaves), leaves, n)
  BY <1>2, LevelsExist
<1> DEFINE f == Levels(leaves)
<1>4. f = [p \in 0 .. n |-> IF p = 0 THEN leaves ELSE Pass(f[p - 1])]
  BY <1>3 DEF LevelsOf
<1> HIDE DEF f
<1>5. f[0] = leaves
  BY <1>4
<1>6. ASSUME NEW p \in 0 .. n - 1 PROVE f[p + 1] = Pass(f[p])
  <2>1. p + 1 \in 0 .. n /\ p + 1 # 0 /\ p + 1 - 1 = p
    OBVIOUS
  <2> QED BY <1>4, <2>1
<1> QED BY <1>5, <1>6 DEF f

\* A pass over different nodes gives different nodes, and one less at least until
\* a single one is left.
LEMMA PassDistinct ==
  ASSUME NEW k \in Nat \ {0}, NEW s, Distinct(s, k)
  PROVE  /\ Len(s) = k
         /\ k = 1 => Pass(s) = s
         /\ k > 1 => /\ Pass(s) = Reduce(s) /\ Distinct(Pass(s), Halved(k))
                     /\ Halved(k) \in Nat \ {0} /\ Halved(k) < k
<1>1. Len(s) = k
  BY ListLength DEF Distinct
<1> QED BY <1>1, ReduceDistinct, HalfIsLess DEF Pass

LEMMA LevelsShrink ==
  ASSUME NEW n \in Nat \ {0}, NEW leaves, Distinct(leaves, n)
  PROVE  \A p \in 0 .. n : \E k \in Nat \ {0} :
           Distinct(Levels(leaves)[p], k) /\ (k = 1 \/ k <= n - p)
<1> DEFINE f == Levels(leaves)
           Narrow(p) == \E k \in Nat \ {0} :
                          Distinct(f[p], k) /\ (k = 1 \/ k <= n - p)
           T == {p \in Nat : p <= n => Narrow(p)}
<1>1. f[0] = leaves /\ \A p \in 0 .. n - 1 : f[p + 1] = Pass(f[p])
  BY LevelsStep DEF Distinct
<1> HIDE DEF f
<1>2. 0 \in T
  BY <1>1
<1>3. ASSUME NEW p \in Nat, p \in T PROVE p + 1 \in T
  <2> SUFFICES ASSUME p + 1 <= n PROVE Narrow(p + 1)
    OBVIOUS
  <2>1. PICK k \in Nat \ {0} : Distinct(f[p], k) /\ (k = 1 \/ k <= n - p)
    BY <1>3
  <2>2. f[p + 1] = Pass(f[p])
    BY <1>1
  <2>3. CASE k = 1
    BY <2>1, <2>2, <2>3, PassDistinct
  <2>4. CASE k # 1
    <3>1. /\ Distinct(f[p + 1], Halved(k)) /\ Halved(k) \in Nat \ {0}
          /\ Halved(k) < k
      BY <2>1, <2>2, <2>4, PassDistinct
    <3>2. Halved(k) <= n - (p + 1)
      BY <2>1, <2>4, <3>1
    <3> QED BY <3>1, <3>2
  <2> QED BY <2>3, <2>4
<1> HIDE DEF T
<1>4. \A p \in Nat : p \in T
  BY <1>2, <1>3, SetInduction
<1> QED BY <1>4 DEF T, f

\* There is a first level with a single node, and from there on nothing changes:
\* that node is the root.
Ends(leaves, top) ==
  /\ Distinct(Levels(leaves)[top], 1)
  /\ \A p \in 0 .. top - 1 : \E k \in Nat \ {0, 1} : Distinct(Levels(leaves)[p], k)
  /\ \A p \in 0 .. top - 1 : Levels(leaves)[p + 1] = Reduce(Levels(leaves)[p])

LEMMA TopLevel ==
  ASSUME NEW n \in Nat \ {0}, NEW leaves, Distinct(leaves, n)
  PROVE  \E top \in 0 .. n :
           Ends(leaves, top) /\ Levels(leaves)[n][1] = Levels(leaves)[top][1]
<1> DEFINE f == Levels(leaves)
<1>1. f[0] = leaves /\ \A p \in 0 .. n - 1 : f[p + 1] = Pass(f[p])
  BY LevelsStep DEF Distinct
<1>2. \A p \in 0 .. n : \E k \in Nat \ {0} :
        Distinct(f[p], k) /\ (k = 1 \/ k <= n - p)
  BY LevelsShrink
<1> HIDE DEF f
<1> DEFINE Single == {p \in 0 .. n : Distinct(f[p], 1)}
<1>3. n \in Single
  <2>1. PICK k \in Nat \ {0} : Distinct(f[n], k) /\ (k = 1 \/ k <= n - n)
    BY <1>2
  <2> QED BY <2>1
<1>4. PICK top \in Single : \A p \in Single : top <= p
  <2>1. Single \in SUBSET Nat /\ Single # {}
    BY <1>3
  <2> HIDE DEF Single
  <2> QED BY <2>1, LeastNatural
<1>5. ASSUME NEW p \in 0 .. top - 1
      PROVE  /\ \E k \in Nat \ {0, 1} : Distinct(f[p], k)
             /\ f[p + 1] = Reduce(f[p])
  <2>1. p \in 0 .. n /\ p \in 0 .. n - 1 /\ p \notin Single
    BY <1>4
  <2>2. PICK k \in Nat \ {0} : Distinct(f[p], k)
    BY <1>2, <2>1
  <2>3. k # 1
    BY <2>1, <2>2
  <2>4. f[p + 1] = Reduce(f[p])
    BY <1>1, <2>1, <2>2, <2>3, PassDistinct
  <2> QED BY <2>2, <2>3, <2>4
<1>6. f[n] = f[top]
  <2> DEFINE T == {p \in Nat : top + p <= n => f[top + p] = f[top]}
  <2>1. 0 \in T
    BY <1>4
  <2>2. ASSUME NEW p \in Nat, p \in T PROVE p + 1 \in T
    <3> SUFFICES ASSUME top + p + 1 <= n PROVE f[top + (p + 1)] = f[top]
      OBVIOUS
    <3>1. top + p \in 0 .. n - 1 /\ (top + p) + 1 = top + (p + 1)
      BY <1>4
    <3>2. f[top + p] = f[top] /\ Pass(f[top]) = f[top]
      BY <1>4, <2>2, PassDistinct
    <3> QED BY <1>1, <3>1, <3>2
  <2> HIDE DEF T
  <2>3. \A p \in Nat : p \in T
    BY <2>1, <2>2, SetInduction
  <2>4. n - top \in Nat /\ top + (n - top) = n
    BY <1>4
  <2> QED BY <2>3, <2>4 DEF T
<1>7. Ends(leaves, top)
  BY <1>4, <1>5 DEF Ends, f
<1> QED BY <1>4, <1>6, <1>7 DEF f

LEMMA LeafIsNoNode == \A h, l, r : Leaf(h) # Node(l, r) /\ Leaf(h) # EmptyRoot
                                   /\ Node(l, r) # EmptyRoot
  BY DEF Leaf, Node, EmptyRoot

AreLeaves(s, k) == \A i \in 1 .. k : \E h : s[i] = Leaf(h)

\* From one root down: equal roots stand over equal leaves.
LEMMA SameRootSameLeaves ==
  ASSUME NEW n \in Nat \ {0}, NEW a, Distinct(a, n), AreLeaves(a, n),
         NEW m \in Nat \ {0}, NEW b, Distinct(b, m), AreLeaves(b, m),
         Levels(a)[n][1] = Levels(b)[m][1]
  PROVE  a = b
<1>1. PICK s \in 0 .. n : Ends(a, s) /\ Levels(a)[n][1] = Levels(a)[s][1]
  BY TopLevel
<1>2. PICK t \in 0 .. m : Ends(b, t) /\ Levels(b)[m][1] = Levels(b)[t][1]
  BY TopLevel
<1> DEFINE f == Levels(a)
           g == Levels(b)
           T == {p \in Nat : p <= s /\ p <= t => f[s - p] = g[t - p]}
<1>3. /\ f[0] = a /\ g[0] = b
      /\ \A p \in 0 .. s - 1 : f[p + 1] = Reduce(f[p])
                               /\ \E k \in Nat \ {0, 1} : Distinct(f[p], k)
      /\ \A p \in 0 .. t - 1 : g[p + 1] = Reduce(g[p])
                               /\ \E k \in Nat \ {0, 1} : Distinct(g[p], k)
      /\ Distinct(f[s], 1) /\ Distinct(g[t], 1) /\ f[s][1] = g[t][1]
  BY <1>1, <1>2, LevelsStep DEF Ends, Distinct
<1> HIDE DEF f, g
<1>4. 0 \in T
  <2>1. f[s] = [i \in 1 .. 1 |-> f[s][i]] /\ g[t] = [i \in 1 .. 1 |-> g[t][i]]
    BY <1>3 DEF Distinct, IsList
  <2>2. \A i \in 1 .. 1 : f[s][i] = g[t][i]
    BY <1>3
  <2>3. f[s] = g[t]
    BY <2>1, <2>2
  <2> QED BY <2>3
<1>5. ASSUME NEW p \in Nat, p \in T PROVE p + 1 \in T
  <2> SUFFICES ASSUME p + 1 <= s, p + 1 <= t PROVE f[s - (p + 1)] = g[t - (p + 1)]
    OBVIOUS
  <2> DEFINE u == s - (p + 1)
             v == t - (p + 1)
  <2>1. u \in 0 .. s - 1 /\ u + 1 = s - p /\ v \in 0 .. t - 1 /\ v + 1 = t - p
    OBVIOUS
  <2>2. f[u + 1] = g[v + 1]
    BY <1>5, <2>1
  <2>3. Reduce(f[u]) = Reduce(g[v])
    BY <1>3, <2>1, <2>2
  <2>4. PICK k \in Nat \ {0} : Distinct(f[u], k)
    BY <1>3, <2>1
  <2>5. PICK l \in Nat \ {0} : Distinct(g[v], l)
    BY <1>3, <2>1
  <2> HIDE DEF u, v
  <2>6. f[u] = g[v]
    <3>1. CASE k <= l
      BY <2>3, <2>4, <2>5, <3>1, ReduceInjective
    <3>2. CASE l <= k
      BY <2>3, <2>4, <2>5, <3>2, ReduceInjective
    <3> QED BY <3>1, <3>2
  <2> QED BY <2>6 DEF u, v
<1> HIDE DEF T
<1>6. \A p \in Nat : p \in T
  BY <1>4, <1>5, SetInduction
\* One tree cannot end above the leaves of the other: no leaf is a node.
<1>7. ASSUME NEW q \in Nat \ {0}, NEW w, Distinct(w, q), AreLeaves(w, q),
             NEW k \in Nat \ {0}, NEW x, Distinct(x, k), w = Reduce(x)
      PROVE  FALSE
  <2>1. w = [i \in 1 .. Halved(k) |->
               Node(x[2 * i - 1], x[IF 2 * i <= k THEN 2 * i ELSE k])]
    BY <1>7, ReduceList DEF Distinct
  <2>2. 1 \in 1 .. Halved(k) /\ 1 \in 1 .. q
    BY HalfIsLess
  <2>3. \E l, r : w[1] = Node(l, r)
    BY <2>1, <2>2
  <2> QED BY <1>7, <2>2, <2>3, LeafIsNoNode DEF AreLeaves
<1>8. CASE s < t
  <2>1. s \in T /\ s - s = 0 /\ t - s - 1 \in 0 .. t - 1 /\ t - s - 1 + 1 = t - s
    BY <1>6, <1>8
  <2>2. a = g[t - s]
    BY <1>3, <1>8, <2>1 DEF T
  <2>3. PICK k \in Nat \ {0} : Distinct(g[t - s - 1], k)
    BY <1>3, <2>1
  <2>4. a = Reduce(g[t - s - 1])
    BY <1>3, <2>1, <2>2
  <2> QED BY <1>7, <2>3, <2>4
<1>9. CASE t < s
  <2>1. t \in T /\ t - t = 0 /\ s - t - 1 \in 0 .. s - 1 /\ s - t - 1 + 1 = s - t
    BY <1>6, <1>9
  <2>2. b = f[s - t]
    BY <1>3, <1>9, <2>1 DEF T
  <2>3. PICK k \in Nat \ {0} : Distinct(f[s - t - 1], k)
    BY <1>3, <2>1
  <2>4. b = Reduce(f[s - t - 1])
    BY <1>3, <2>1, <2>2
  <2> QED BY <1>7, <2>3, <2>4
<1>10. CASE s = t
  <2>1. s \in T /\ s - s = 0 /\ t - s = 0
    BY <1>6, <1>10
  <2> QED BY <1>3, <1>10, <2>1 DEF T
<1> QED BY <1>8, <1>9, <1>10

-----------------------------------------------------------------------------
(* Sorting.  The rank of a member counts the members up to it.               *)

Rank(S, h) == Cardinality({g \in S : g <= h})

Listings(S) == UNION {Bijection(1 .. n, S) : n \in Nat}

\* A listing has as many places as the set has members.
LEMMA ListingSize ==
  ASSUME NEW S, NEW s \in Listings(S)
  PROVE  /\ IsFiniteSet(S) /\ Cardinality(S) \in Nat
         /\ s \in Bijection(1 .. Cardinality(S), S)
<1>1. PICK n \in Nat : s \in Bijection(1 .. n, S)
  BY DEF Listings
<1>2. ExistsBijection(1 .. n, S)
  BY <1>1 DEF ExistsBijection
<1>3. Cardinality(S) = n /\ IsFiniteSet(S)
  BY <1>2, FS_CountingElements, FS_NatBijection
<1> QED BY <1>1, <1>3

LEMMA ListingFacts ==
  ASSUME NEW S, NEW s \in Listings(S)
  PROVE  LET n == Cardinality(S)
         IN  /\ n \in Nat /\ IsFiniteSet(S)
             /\ s = [i \in 1 .. n |-> s[i]] /\ DOMAIN s = 1 .. n
             /\ \A i \in 1 .. n : s[i] \in S
             /\ \A i, j \in 1 .. n : s[i] = s[j] => i = j
             /\ \A h \in S : \E i \in 1 .. n : s[i] = h
  BY ListingSize DEF Bijection, Injection, Surjection, IsInjective

\* The members of a finite set, in any order and in the order SetToSeq takes.
LEMMA SetToSeqLists ==
  ASSUME NEW S, IsFiniteSet(S)
  PROVE  SetToSeq(S) \in Listings(S)
<1> DEFINE n == Cardinality(S)
<1>1. n \in Nat /\ ExistsBijection(1 .. n, S)
  BY FS_CardinalityType
<1>2. \E f \in [1 .. n -> S] : IsInjective(f)
  BY <1>1 DEF ExistsBijection, Bijection, Injection
<1>3. SetToSeq(S) \in [1 .. n -> S] /\ IsInjective(SetToSeq(S))
  BY <1>2 DEF SetToSeq
<1>4. SetToSeq(S) \in Injection(1 .. n, S)
  BY <1>3 DEF Injection
<1>5. IsFiniteSet(1 .. n) /\ Cardinality(1 .. n) = n
  BY <1>1, FS_Interval
<1>6. SetToSeq(S) \in Surjection(1 .. n, S)
  BY <1>4, <1>5, FS_Injection
<1>7. SetToSeq(S) \in Bijection(1 .. n, S)
  BY <1>4, <1>6 DEF Bijection
<1> HIDE DEF n
<1> QED BY <1>1, <1>7 DEF Listings

\* Ranks run from one to the number of members and tell members apart by order.
LEMMA RankRange ==
  ASSUME NEW S \in SUBSET Nat, IsFiniteSet(S), NEW h \in S
  PROVE  Rank(S, h) \in 1 .. Cardinality(S)
<1> DEFINE A == {g \in S : g <= h}
<1>1. A \in SUBSET S /\ A # {}
  OBVIOUS
<1> HIDE DEF A
<1>2. IsFiniteSet(A) /\ Cardinality(A) <= Cardinality(S)
  BY <1>1, FS_Subset
<1>3. Cardinality(A) \in Nat /\ Cardinality(A) # 0 /\ Cardinality(S) \in Nat
  BY <1>1, <1>2, FS_EmptySet, FS_CardinalityType
<1> QED BY <1>2, <1>3 DEF Rank, A

LEMMA RankGrows ==
  ASSUME NEW S \in SUBSET Nat, IsFiniteSet(S), NEW g \in S, NEW h \in S, g < h
  PROVE  Rank(S, g) < Rank(S, h)
<1> DEFINE A == {x \in S : x <= g}
           B == {x \in S : x <= h}
<1>1. A \in SUBSET B /\ h \in B /\ h \notin A /\ B \in SUBSET S
  <2>1. \A x \in S : x \in Nat
    OBVIOUS
  <2>2. h \in B /\ B \in SUBSET S
    BY <2>1
  <2>3. h \notin A
    BY <2>1
  <2>4. \A x \in Nat : x <= g => x <= h
    BY <2>1
  <2>5. A \in SUBSET B
    BY <2>1, <2>4
  <2> QED BY <2>2, <2>3, <2>5
<1> HIDE DEF A, B
<1>2. IsFiniteSet(B)
  BY <1>1, FS_Subset
<1>3. /\ IsFiniteSet(A) /\ Cardinality(A) <= Cardinality(B)
      /\ Cardinality(A) # Cardinality(B)
  BY <1>1, <1>2, FS_Subset
<1>4. Cardinality(A) \in Nat /\ Cardinality(B) \in Nat
  BY <1>2, <1>3, FS_CardinalityType
<1> QED BY <1>3, <1>4 DEF Rank, A, B

LEMMA RankOrders ==
  ASSUME NEW S \in SUBSET Nat, IsFiniteSet(S)
  PROVE  /\ \A g, h \in S : Rank(S, g) < Rank(S, h) => g < h
         /\ \A g, h \in S : Rank(S, g) = Rank(S, h) => g = h
<1>1. \A g, h \in S : Rank(S, g) \in Nat /\ (g < h => Rank(S, g) < Rank(S, h))
  BY RankGrows, RankRange
<1>2. \A g, h \in S : g \in Nat /\ h \in Nat
  OBVIOUS
<1> QED BY <1>1, <1>2

\* Every rank is taken: there are as many as members.
LEMMA RankOnto ==
  ASSUME NEW S \in SUBSET Nat, IsFiniteSet(S), NEW k \in 1 .. Cardinality(S)
  PROVE  \E h \in S : Rank(S, h) = k
<1> DEFINE n == Cardinality(S)
           f == [h \in S |-> Rank(S, h)]
<1>1. n \in Nat
  BY FS_CardinalityType
<1>2. f \in [S -> 1 .. n]
  BY RankRange
<1>3. \A g, h \in S : f[g] = f[h] => g = h
  BY RankOrders
<1>4. f \in Injection(S, 1 .. n)
  BY <1>2, <1>3 DEF Injection, IsInjective
<1>5. IsFiniteSet(1 .. n) /\ Cardinality(1 .. n) = n
  BY <1>1, FS_Interval
<1>6. f \in Surjection(S, 1 .. n)
  <2> HIDE DEF f
  <2> QED BY <1>4, <1>5, FS_Injection
<1>7. \E h \in S : f[h] = k
  <2> HIDE DEF f
  <2> QED BY <1>6 DEF Surjection
<1> QED BY <1>7

\* Where sort.Strings puts a row depends on its rank only.
LEMMA PlaceIsRank ==
  ASSUME NEW S \in SUBSET Nat, NEW s \in Listings(S), NEW i \in 1 .. Cardinality(S)
  PROVE  Place(s, i) = Rank(S, s[i])
<1> DEFINE n == Cardinality(S)
           A == {j \in 1 .. n : s[j] <= s[i]}
           B == {g \in S : g <= s[i]}
           f == [j \in A |-> s[j]]
<1>1. /\ n \in Nat /\ IsFiniteSet(S) /\ DOMAIN s = 1 .. n
      /\ \A j \in 1 .. n : s[j] \in S
      /\ \A j, k \in 1 .. n : s[j] = s[k] => j = k
      /\ \A h \in S : \E j \in 1 .. n : s[j] = h
  BY ListingFacts
<1> HIDE DEF n
<1>2. i \in 1 .. n
  BY DEF n
<1>3. {j \in DOMAIN s :
         \/ s[j] < s[i]
         \/ s[j] = s[i] /\ j <= i} = A
  <2>1. ASSUME NEW j \in 1 .. n
        PROVE  (s[j] < s[i] \/ (s[j] = s[i] /\ j <= i)) <=> s[j] <= s[i]
    <3>1. s[j] = s[i] => j = i
      BY <1>1, <1>2
    <3>2. \A g \in S : g \in Nat
      OBVIOUS
    <3>3. s[j] \in S /\ s[i] \in S
      BY <1>1, <1>2
    <3>4. s[j] \in Nat /\ s[i] \in Nat
      BY <3>2, <3>3
    <3>5. j \in Nat
      BY <1>1
    <3> QED BY <3>1, <3>4, <3>5
  <2> QED BY <1>1, <2>1
<1>4. f \in Bijection(A, B)
  <2>1. f \in [A -> B] /\ \A j, k \in A : f[j] = f[k] => j = k
    BY <1>1
  <2>2. ASSUME NEW h \in B PROVE \E j \in A : f[j] = h
    BY <1>1
  <2> HIDE DEF f, A, B
  <2> QED BY <2>1, <2>2 DEF Bijection, Injection, Surjection, IsInjective
<1>5. IsFiniteSet(A)
  <2>1. IsFiniteSet(1 .. n) /\ A \in SUBSET (1 .. n)
    BY <1>1, FS_Interval
  <2> HIDE DEF A
  <2> QED BY <2>1, FS_Subset
<1>6. Cardinality(A) = Cardinality(B)
  <2> HIDE DEF A, B, f
  <2>1. ExistsBijection(A, B)
    BY <1>4 DEF ExistsBijection
  <2> QED BY <1>5, <2>1, FS_Bijection
<1>7. Place(s, i) = Cardinality(A)
  BY <1>3 DEF Place
<1> QED BY <1>6, <1>7 DEF Rank

\* Sorting a listing puts at each place the member of that rank.
LEMMA SortedByRank ==
  ASSUME NEW S \in SUBSET Nat, NEW s \in Listings(S)
  PROVE  /\ IsList(Sorted(s), Cardinality(S))
         /\ \A k \in 1 .. Cardinality(S) :
              Sorted(s)[k] \in S /\ Rank(S, Sorted(s)[k]) = k
<1> DEFINE n == Cardinality(S)
<1>1. /\ n \in Nat /\ IsFiniteSet(S) /\ DOMAIN s = 1 .. n
      /\ \A j \in 1 .. n : s[j] \in S
      /\ \A h \in S : \E j \in 1 .. n : s[j] = h
  BY ListingFacts
<1>2. \A i \in 1 .. n : Place(s, i) = Rank(S, s[i])
  BY PlaceIsRank
<1>3. \A k \in 1 .. n : \E h \in S : Rank(S, h) = k
  BY <1>1, RankOnto
<1> HIDE DEF n
<1>4. Sorted(s) = [k \in 1 .. n |-> s[CHOOSE i \in 1 .. n : Place(s, i) = k]]
  BY <1>1 DEF Sorted
<1>5. ASSUME NEW k \in 1 .. n PROVE Sorted(s)[k] \in S /\ Rank(S, Sorted(s)[k]) = k
  <2> DEFINE i == CHOOSE j \in 1 .. n : Place(s, j) = k
  <2>1. \E j \in 1 .. n : Place(s, j) = k
    BY <1>1, <1>2, <1>3
  <2>2. i \in 1 .. n /\ Place(s, i) = k
    BY <2>1
  <2>3. Sorted(s)[k] = s[i]
    BY <1>4
  <2> HIDE DEF i
  <2> QED BY <1>1, <1>2, <2>2, <2>3
<1>6. IsList(Sorted(s), n)
  BY <1>4 DEF IsList
<1> QED BY <1>5, <1>6 DEF n

\* It loses nothing, is increasing, and does not depend on the order of the rows.
LEMMA SortedIncreases ==
  ASSUME NEW S \in SUBSET Nat, NEW s \in Listings(S)
  PROVE  LET n == Cardinality(S)
         IN  /\ Distinct(Sorted(s), n)
             /\ {Sorted(s)[k] : k \in 1 .. n} = S
             /\ \A j, k \in 1 .. n : j < k => Sorted(s)[j] < Sorted(s)[k]
<1> DEFINE n == Cardinality(S)
<1>1. n \in Nat /\ IsFiniteSet(S)
  BY ListingFacts
<1>2. /\ IsList(Sorted(s), n)
      /\ \A k \in 1 .. n : Sorted(s)[k] \in S /\ Rank(S, Sorted(s)[k]) = k
  BY SortedByRank
<1>3. /\ \A g, h \in S : Rank(S, g) < Rank(S, h) => g < h
      /\ \A g, h \in S : Rank(S, g) = Rank(S, h) => g = h
      /\ \A h \in S : Rank(S, h) \in 1 .. n
  BY <1>1, RankOrders, RankRange
<1> HIDE DEF n
<1>4. \A j, k \in 1 .. n : Sorted(s)[j] = Sorted(s)[k] => j = k
  BY <1>2
<1>5. ASSUME NEW j \in 1 .. n, NEW k \in 1 .. n, j < k
      PROVE  Sorted(s)[j] < Sorted(s)[k]
  <2>1. /\ Sorted(s)[j] \in S /\ Rank(S, Sorted(s)[j]) = j
        /\ Sorted(s)[k] \in S /\ Rank(S, Sorted(s)[k]) = k
    BY <1>2
  <2>2. Rank(S, Sorted(s)[j]) < Rank(S, Sorted(s)[k])
    BY <1>5, <2>1
  <2> QED BY <1>3, <2>1, <2>2
<1>6. ASSUME NEW h \in S PROVE \E k \in 1 .. n : Sorted(s)[k] = h
  BY <1>2, <1>3
<1>7. {Sorted(s)[k] : k \in 1 .. n} = S
  BY <1>2, <1>6
<1> QED BY <1>2, <1>4, <1>5, <1>7 DEF n, Distinct

LEMMA SortedIsUnique ==
  ASSUME NEW S \in SUBSET Nat, NEW s \in Listings(S), NEW t \in Listings(S)
  PROVE  Sorted(s) = Sorted(t)
<1> DEFINE n == Cardinality(S)
<1>1. n \in Nat /\ IsFiniteSet(S)
  BY ListingFacts
<1>2. /\ IsList(Sorted(s), n) /\ IsList(Sorted(t), n)
      /\ \A k \in 1 .. n : /\ Sorted(s)[k] \in S /\ Rank(S, Sorted(s)[k]) = k
                           /\ Sorted(t)[k] \in S /\ Rank(S, Sorted(t)[k]) = k
  BY SortedByRank
<1>3. \A g, h \in S : Rank(S, g) = Rank(S, h) => g = h
  BY <1>1, RankOrders
<1> HIDE DEF n
<1> DEFINE a == Sorted(s)
           b == Sorted(t)
<1>4. ASSUME NEW k \in 1 .. n PROVE a[k] = b[k]
  <2>1. /\ a[k] \in S /\ Rank(S, a[k]) = k
        /\ b[k] \in S /\ Rank(S, b[k]) = k
    BY <1>2
  <2> HIDE DEF a, b
  <2> QED BY <1>3, <2>1
<1>5. a = [k \in 1 .. n |-> a[k]] /\ b = [k \in 1 .. n |-> b[k]]
  BY <1>2 DEF IsList
<1> HIDE DEF a, b
<1>6. a = b
  BY <1>4, <1>5
<1> QED BY <1>6 DEF a, b

-----------------------------------------------------------------------------
(* The root names the set.                                                   *)

LEMMA LeavesAreDistinct ==
  ASSUME NEW n \in Nat, NEW s, Distinct(s, n)
  PROVE  /\ Distinct(Leaves(s), n) /\ AreLeaves(Leaves(s), n)
         /\ \A i \in 1 .. n : Leaves(s)[i] = Leaf(s[i])
<1>1. DOMAIN s = 1 .. n
  BY ListLength DEF Distinct
<1>2. Leaves(s) = [i \in 1 .. n |-> Leaf(s[i])]
  BY <1>1 DEF Leaves
<1>3. \A g, h : Leaf(g) = Leaf(h) => g = h
  BY DEF Leaf
<1> QED BY <1>2, <1>3 DEF Distinct, IsList, AreLeaves

\* The root of a listing.
LEMMA RootOfListing ==
  ASSUME NEW S \in SUBSET Nat, NEW s \in Listings(S)
  PROVE  LET n == Cardinality(S)
         IN  /\ S = {} => s = << >> /\ BuildMerkleRoot(s) = EmptyRoot
             /\ S # {} => /\ n \in Nat \ {0} /\ Len(s) = n /\ s # << >>
                          /\ BuildMerkleRoot(s) = Levels(Leaves(Sorted(s)))[n][1]
<1> DEFINE n == Cardinality(S)
<1>1. n \in Nat /\ IsFiniteSet(S) /\ s = [i \in 1 .. n |-> s[i]]
  BY ListingFacts
<1>2. n = 0 <=> S = {}
  BY <1>1, FS_EmptySet
<1> HIDE DEF n
<1>3. Len(s) = n
  BY <1>1, ListLength DEF IsList
<1>4. CASE n = 0
  <2>1. s = << >>
    BY <1>1, <1>4
  <2> QED BY <1>2, <1>4, <2>1 DEF BuildMerkleRoot
<1>5. CASE n # 0
  <2>1. s # << >>
    BY <1>3, <1>5
  <2> QED BY <1>1, <1>2, <1>3, <1>5, <2>1 DEF BuildMerkleRoot, n
<1> QED BY <1>4, <1>5

\* A root is that of nothing, a leaf or a node: that of nothing stands apart.
LEMMA RootIsNotEmpty ==
  ASSUME NEW n \in Nat \ {0}, NEW a, Distinct(a, n), AreLeaves(a, n)
  PROVE  Levels(a)[n][1] # EmptyRoot
<1>1. PICK top \in 0 .. n : Ends(a, top) /\ Levels(a)[n][1] = Levels(a)[top][1]
  BY TopLevel
<1>2. CASE top = 0
  <2>1. Levels(a)[0] = a
    BY LevelsStep DEF Distinct
  <2>2. 1 \in 1 .. n
    OBVIOUS
  <2> QED BY <1>1, <1>2, <2>1, <2>2, LeafIsNoNode DEF AreLeaves
<1>3. CASE top # 0
  <2> DEFINE below == Levels(a)[top - 1]
  <2>1. top - 1 \in 0 .. top - 1 /\ top - 1 + 1 = top
    BY <1>3
  <2>2. PICK k \in Nat \ {0, 1} : Distinct(below, k)
    BY <1>1, <2>1 DEF Ends
  <2>3. Levels(a)[top] = Reduce(below)
    BY <1>1, <2>1 DEF Ends
  <2> HIDE DEF below
  <2>4. 1 \in 1 .. Halved(k) /\ k \in Nat \ {0}
    BY HalfIsLess
  <2>5. Reduce(below) =
          [i \in 1 .. Halved(k) |->
             Node(below[2 * i - 1], below[IF 2 * i <= k THEN 2 * i ELSE k])]
    BY <2>2, <2>4, ReduceList DEF Distinct
  <2>6. \E l, r : Reduce(below)[1] = Node(l, r)
    BY <2>4, <2>5
  <2> QED BY <1>1, <2>3, <2>6, LeafIsNoNode
<1> QED BY <1>2, <1>3

\* Two listings have one root exactly if they list one set.
LEMMA RootNamesSet ==
  ASSUME NEW S \in SUBSET Nat, NEW s \in Listings(S),
         NEW T \in SUBSET Nat, NEW t \in Listings(T)
  PROVE  BuildMerkleRoot(s) = BuildMerkleRoot(t) <=> S = T
<1>1. ASSUME NEW X \in SUBSET Nat, NEW x \in Listings(X), X # {}
      PROVE  LET n == Cardinality(X)
                 a == Leaves(Sorted(x))
             IN  /\ n \in Nat \ {0} /\ Distinct(a, n) /\ AreLeaves(a, n)
                 /\ X = {Sorted(x)[k] : k \in 1 .. n}
                 /\ \A k \in 1 .. n : a[k] = Leaf(Sorted(x)[k])
                 /\ BuildMerkleRoot(x) = Levels(a)[n][1]
                 /\ BuildMerkleRoot(x) # EmptyRoot
  BY <1>1, RootOfListing, SortedIncreases, LeavesAreDistinct, RootIsNotEmpty
<1>2. \A X \in SUBSET Nat : \A x \in Listings(X) :
        X = {} => BuildMerkleRoot(x) = EmptyRoot
  BY RootOfListing
<1>3. CASE S = {} \/ T = {}
  BY <1>1, <1>2, <1>3
<1>4. CASE S # {} /\ T # {}
  <2>1. ASSUME S = T PROVE BuildMerkleRoot(s) = BuildMerkleRoot(t)
    <3>1. Sorted(s) = Sorted(t)
      BY <2>1, SortedIsUnique
    <3> QED BY <1>4, <2>1, <3>1, RootOfListing
  <2>2. ASSUME BuildMerkleRoot(s) = BuildMerkleRoot(t) PROVE S = T
    <3> DEFINE n == Cardinality(S)
               m == Cardinality(T)
               a == Leaves(Sorted(s))
               b == Leaves(Sorted(t))
    <3>1. /\ n \in Nat \ {0} /\ Distinct(a, n) /\ AreLeaves(a, n)
          /\ S = {Sorted(s)[k] : k \in 1 .. n}
          /\ \A k \in 1 .. n : a[k] = Leaf(Sorted(s)[k])
          /\ BuildMerkleRoot(s) = Levels(a)[n][1]
      <4>1. S # {}
        BY <1>4
      <4> QED BY <1>1, <4>1
    <3>2. /\ m \in Nat \ {0} /\ Distinct(b, m) /\ AreLeaves(b, m)
          /\ T = {Sorted(t)[k] : k \in 1 .. m}
          /\ \A k \in 1 .. m : b[k] = Leaf(Sorted(t)[k])
          /\ BuildMerkleRoot(t) = Levels(b)[m][1]
      BY <1>1, <1>4
    <3> HIDE DEF n, m, a, b
    <3>3. a = b
      BY <2>2, <3>1, <3>2, SameRootSameLeaves
    <3>4. n = m
      <4>1. Len(a) = n /\ Len(b) = m
        BY <3>1, <3>2, ListLength DEF Distinct
      <4> QED BY <3>3, <4>1
    <3>5. \A g, h : Leaf(g) = Leaf(h) => g = h
      BY DEF Leaf
    <3>6. \A k \in 1 .. n : Sorted(s)[k] = Sorted(t)[k]
      BY <3>1, <3>2, <3>3, <3>4, <3>5
    <3> QED BY <3>1, <3>2, <3>4, <3>6
  <2> QED BY <2>1, <2>2
<1> QED BY <1>3, <1>4
=============================================================================
