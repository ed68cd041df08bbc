--------------------------- MODULE MissionsProofs ---------------------------
(***************************************************************************)
(* Theorems about Missions, for any number of players, missions and calls. *)
(***************************************************************************)
EXTENDS Missions, TLAPS

\* TypeOK, by the part of the system the variables belong to.
RedisOK  == /\ mission \in [MissionIds ->
                 [state : {"unused", "open", "completed", "expired"},
                  owner : Players \cup {NoPlayer}, ripe : BOOLEAN]]
            /\ active \in [Players -> MissionIds \cup {NoMission}]
            /\ cooling \in [Players -> BOOLEAN]
LocalOK  == /\ pc \in [Calls -> {"idle"} \cup Requesting \cup Completing]
            /\ arg \in [Calls -> [player : Players \cup {NoPlayer},
                                  id : MissionIds \cup {NoMission}, nonce : Nat]]
CallOK(c) == /\ pc[c] # "idle" => arg[c].player \in Players
             /\ pc[c] \in Completing \cup {"findActiveMission"}
                  => arg[c].id \in MissionIds
             /\ mintMu = c <=> pc[c] \in {"getNonce", "submitMint"}
CallsOK  == \A c \in Calls : CallOK(c)
LedgerOK == /\ minted \in Seq(MissionIds)
            /\ peak \in Nat /\ ledgerNonce \in 0 .. peak
            /\ late \subseteq MissionIds \X Nat
            /\ crossed \subseteq Calls /\ lost \subseteq MissionIds

\* TypeOK falls into the parts that one action at a time can disturb, ...
LEMMA Parts == TypeOK => RedisOK /\ LocalOK /\ CallsOK /\ LedgerOK
BY DEF TypeOK, RedisOK, LocalOK, CallsOK, CallOK, LedgerOK

\* ... and is put together again from them after a step.
LEMMA NextParts == RedisOK' /\ LocalOK' /\ CallsOK' /\ LedgerOK' => TypeOK'
BY DEF TypeOK, RedisOK, LocalOK, CallsOK, CallOK, LedgerOK

\* A write of the authority's row from any nonce keeps the peak above it.
LEMMA AdvancesKeeps ==
  ASSUME LedgerOK, NEW nonce \in Nat, Advances(nonce)
  PROVE  peak' \in Nat /\ ledgerNonce' \in 0 .. peak'
BY DEF LedgerOK, Advances

\* Moving one call on keeps the locals well-typed when the call itself stays so
\* and the mutex does not change for any other.
LEMMA OneCallMoves ==
  ASSUME TypeOK, NEW c \in Calls,
         NEW label \in {"idle"} \cup Requesting \cup Completing,
         NEW a \in [player : Players \cup {NoPlayer},
                    id : MissionIds \cup {NoMission}, nonce : Nat],
         pc' = [pc EXCEPT ![c] = label], arg' = [arg EXCEPT ![c] = a],
         label # "idle" => a.player \in Players,
         label \in Completing \cup {"findActiveMission"} => a.id \in MissionIds,
         mintMu' = c <=> label \in {"getNonce", "submitMint"},
         \A d \in Calls \ {c} : mintMu' = d <=> mintMu = d
  PROVE  LocalOK' /\ CallsOK'
<1>1. LocalOK'
  BY Parts DEF LocalOK
<1>2. ASSUME NEW d \in Calls PROVE CallOK(d)'
  <2>1. CASE d = c
    BY <2>1, Parts DEF LocalOK, CallOK
  <2>2. CASE d # c
    BY <2>2, Parts DEF LocalOK, CallsOK, CallOK
  <2> QED BY <2>1, <2>2
<1> QED BY <1>1, <1>2 DEF CallsOK

\* A call goes to label without touching its locals or the mutex.
LEMMA GotoKeeps ==
  ASSUME TypeOK, NEW c \in Calls, pc[c] # "idle",
         NEW label \in Requesting \cup Completing, Goto(c, label),
         label \in Completing \cup {"findActiveMission"} => arg[c].id \in MissionIds,
         pc[c] \notin {"getNonce", "submitMint"},
         label \notin {"getNonce", "submitMint"}
  PROVE  LocalOK' /\ CallsOK'
<1>1. arg' = [arg EXCEPT ![c] = arg[c]] /\ pc' = [pc EXCEPT ![c] = label]
      /\ mintMu' = mintMu
  BY Parts DEF Goto, LocalOK
<1>2. /\ arg[c] \in [player : Players \cup {NoPlayer},
                     id : MissionIds \cup {NoMission}, nonce : Nat]
      /\ arg[c].player \in Players /\ mintMu # c
      /\ label # "idle"
  BY Parts DEF LocalOK, CallsOK, CallOK, Requesting, Completing
<1> QED BY <1>1, <1>2, OneCallMoves

\* A call returns and gives the mutex back if it has it.
LEMMA ReturnKeeps ==
  ASSUME TypeOK, NEW c \in Calls, Return(c)
  PROVE  LocalOK' /\ CallsOK'
<1>1. \A d \in Calls \ {c} : mintMu' = d <=> mintMu = d
  BY MissionsAssumption DEF Return
<1>2. mintMu' # c
  BY MissionsAssumption DEF Return
<1>3. NoArgs \in [player : Players \cup {NoPlayer},
                  id : MissionIds \cup {NoMission}, nonce : Nat]
  BY DEF NoArgs
<1> QED BY <1>1, <1>2, <1>3, OneCallMoves DEF Return, Completing

\* NewGameService starts with empty tables, no calls and a free mutex.
LEMMA TypeInit == Init => TypeOK
BY MissionsAssumption DEF Init, TypeOK, Unused, NoArgs, Requesting, Completing

\* A step of one handler keeps the types, ...
LEMMA HandlerKeeps ==
  ASSUME TypeOK, NEW c \in Calls, Advance(c)
  PROVE  TypeOK'
<1> USE DEF redis, ledger
<1>0. /\ RedisOK /\ LocalOK /\ CallsOK /\ LedgerOK
  BY Parts
<1>c. /\ pc[c] # "idle" => arg[c].player \in Players
      /\ pc[c] \in Completing \cup {"findActiveMission"} => arg[c].id \in MissionIds
      /\ arg[c] \in [player : Players \cup {NoPlayer},
                     id : MissionIds \cup {NoMission}, nonce : Nat]
  BY <1>0 DEF LocalOK, CallsOK, CallOK
<1>r. UNCHANGED redis => RedisOK'
  BY <1>0 DEF RedisOK
<1>l. UNCHANGED ledger => LedgerOK'
  BY <1>0 DEF LedgerOK
<1>1. CASE FindActive(c)
  <2>1. CASE active[arg[c].player] = NoMission
    <3>1. Goto(c, "getCooldown") /\ pc[c] = "findActive"
      BY <1>1, <2>1 DEF FindActive
    <3>2. LocalOK' /\ CallsOK'
      BY <3>1, GotoKeeps DEF Requesting, Completing
    <3> QED BY <1>1, <1>r, <1>l, <3>2, NextParts DEF FindActive
  <2>2. CASE active[arg[c].player] # NoMission
    <3> DEFINE a == [arg[c] EXCEPT !.id = active[arg[c].player]]
    <3>1. /\ pc[c] = "findActive" /\ pc' = [pc EXCEPT ![c] = "findActiveMission"]
          /\ arg' = [arg EXCEPT ![c] = a] /\ UNCHANGED mintMu
      BY <1>1, <2>2 DEF FindActive
    <3>2. arg[c].player \in Players /\ active[arg[c].player] \in MissionIds
      BY <1>0, <1>c, <2>2, <3>1 DEF RedisOK
    <3>3. /\ a \in [player : Players \cup {NoPlayer},
                    id : MissionIds \cup {NoMission}, nonce : Nat]
          /\ a.player \in Players /\ a.id \in MissionIds
      BY <1>c, <3>2
    <3>4. mintMu' # c
      BY <1>0, <3>1 DEF CallsOK, CallOK
    <3> HIDE DEF a
    <3>5. LocalOK' /\ CallsOK'
      BY <3>1, <3>3, <3>4, OneCallMoves DEF Requesting
    <3> QED BY <1>1, <1>r, <1>l, <3>5, NextParts DEF FindActive
  <2> QED BY <2>1, <2>2
<1>2. CASE FindActiveMission(c)
  <2>1. LocalOK' /\ CallsOK'
    BY <1>2, GotoKeeps, ReturnKeeps DEF FindActiveMission, Requesting, Completing
  <2> QED BY <1>2, <1>r, <1>l, <2>1, NextParts DEF FindActiveMission
<1>3. CASE GetCooldownRemaining(c)
  <2>1. LocalOK' /\ CallsOK'
    BY <1>3, GotoKeeps, ReturnKeeps DEF GetCooldownRemaining, Requesting, Completing
  <2> QED BY <1>3, <1>r, <1>l, <2>1, NextParts DEF GetCooldownRemaining
<1>4. ASSUME NEW m \in MissionIds, Create(c, m) PROVE TypeOK'
  <2>1. LocalOK' /\ CallsOK'
    BY <1>4, ReturnKeeps DEF Create
  <2>2. RedisOK'
    BY <1>0, <1>4, <1>c DEF Create, RedisOK
  <2> QED BY <1>4, <1>l, <2>1, <2>2, NextParts DEF Create
<1>5. CASE Validate(c)
  <2>1. LocalOK' /\ CallsOK'
    BY <1>5, <1>c, GotoKeeps, ReturnKeeps DEF Validate, Completing
  <2> QED BY <1>5, <1>r, <1>l, <2>1, NextParts DEF Validate
<1>6. CASE FindAgain(c)
  <2>1. LocalOK' /\ CallsOK'
    <3>1. pc[c] = "findAgain" /\ arg[c].id \in MissionIds
      BY <1>6, <1>c DEF FindAgain, Completing
    <3>2. CASE Goto(c, "markCompleted")
      BY <3>1, <3>2, GotoKeeps DEF Completing
    <3>3. CASE Return(c)
      BY <3>3, ReturnKeeps
    <3> QED BY <1>6, <3>2, <3>3 DEF FindAgain
  <2> QED BY <1>6, <1>r, <1>l, <2>1, NextParts DEF FindAgain
<1>7. CASE MarkCompleted(c)
  <2>1. LocalOK' /\ CallsOK'
    BY <1>7, <1>c, GotoKeeps DEF MarkCompleted, Completing
  <2>2. RedisOK'
    BY <1>0, <1>7 DEF MarkCompleted, RedisOK
  <2> QED BY <1>7, <1>l, <2>1, <2>2, NextParts DEF MarkCompleted
<1>8. CASE Lock(c)
  <2>1. /\ pc' = [pc EXCEPT ![c] = "getNonce"] /\ arg' = [arg EXCEPT ![c] = arg[c]]
        /\ mintMu = NoCall /\ mintMu' = c
        /\ arg[c].player \in Players /\ arg[c].id \in MissionIds
    BY <1>0, <1>8, <1>c DEF Lock, LocalOK, Completing
  <2>2. LocalOK' /\ CallsOK'
    BY <1>c, <2>1, OneCallMoves, MissionsAssumption DEF Completing
  <2> QED BY <1>8, <1>r, <1>l, <2>2, NextParts DEF Lock
<1>9. CASE GetAuthorityNonce(c)
  <2> DEFINE a == [arg[c] EXCEPT !.nonce = ledgerNonce]
  <2>1. /\ pc' = [pc EXCEPT ![c] = "submitMint"] /\ arg' = [arg EXCEPT ![c] = a]
        /\ UNCHANGED mintMu /\ mintMu = c
    BY <1>0, <1>9 DEF GetAuthorityNonce, CallsOK, CallOK
  <2>2. /\ a \in [player : Players \cup {NoPlayer},
                  id : MissionIds \cup {NoMission}, nonce : Nat]
        /\ a.player \in Players /\ a.id \in MissionIds
    BY <1>0, <1>9, <1>c DEF GetAuthorityNonce, LedgerOK, Completing
  <2> HIDE DEF a
  <2>3. LocalOK' /\ CallsOK'
    BY <2>1, <2>2, OneCallMoves DEF Completing
  <2>4. LedgerOK'
    BY <1>0, <1>9 DEF GetAuthorityNonce, LedgerOK
  <2> QED BY <1>9, <1>r, <2>3, <2>4, NextParts DEF GetAuthorityNonce
<1>10. CASE SubmitMint(c)
  <2>1. LocalOK' /\ CallsOK'
    BY <1>10, ReturnKeeps DEF SubmitMint
  <2>2. LedgerOK'
    <3>1. arg[c].id \in MissionIds /\ arg[c].nonce \in Nat
      BY <1>10, <1>c DEF SubmitMint, Completing
    <3> QED BY <1>0, <1>10, <3>1, AdvancesKeeps DEF SubmitMint, LedgerOK
  <2> QED BY <1>10, <1>r, <2>1, <2>2, NextParts DEF SubmitMint
<1>11. CASE MintRejected(c)
  <2>1. LocalOK' /\ CallsOK'
    BY <1>11, ReturnKeeps DEF MintRejected
  <2>2. LedgerOK'
    BY <1>0, <1>11, <1>c DEF MintRejected, LedgerOK, Completing
  <2> QED BY <1>11, <1>r, <2>1, <2>2, NextParts DEF MintRejected
<1> QED BY <1>1, <1>2, <1>3, <1>4, <1>5, <1>6, <1>7, <1>8, <1>9, <1>10, <1>11
        DEF Advance

\* ... and so does a call that arrives.
LEMMA ArrivalKeeps ==
  ASSUME TypeOK, NEW c \in Calls, NEW p \in Players,
         Request(c, p) \/ \E m \in MissionIds : Complete(c, m, p)
  PROVE  TypeOK'
<1>1. pc[c] = "idle" /\ UNCHANGED <<redis, mintMu, ledger>> /\ mintMu # c
  BY Parts DEF Request, Complete, Admits, CallsOK, CallOK
<1>2. RedisOK' /\ LedgerOK'
  BY <1>1, Parts DEF RedisOK, LedgerOK, redis, ledger
<1>3. CASE Request(c, p)
  <2> DEFINE a == [NoArgs EXCEPT !.player = p]
  <2>1. a \in [player : Players \cup {NoPlayer},
               id : MissionIds \cup {NoMission}, nonce : Nat] /\ a.player \in Players
    BY DEF NoArgs
  <2>2. pc' = [pc EXCEPT ![c] = "findActive"] /\ arg' = [arg EXCEPT ![c] = a]
    BY <1>3 DEF Request
  <2> HIDE DEF a
  <2>3. LocalOK' /\ CallsOK'
    BY <1>1, <2>1, <2>2, OneCallMoves DEF Requesting, Completing
  <2> QED BY <1>2, <2>3, NextParts
<1>4. ASSUME NEW m \in MissionIds, Complete(c, m, p) PROVE TypeOK'
  <2> DEFINE a == [NoArgs EXCEPT !.player = p, !.id = m]
  <2>1. /\ a \in [player : Players \cup {NoPlayer},
                  id : MissionIds \cup {NoMission}, nonce : Nat]
        /\ a.player \in Players /\ a.id \in MissionIds
    BY DEF NoArgs
  <2>2. pc' = [pc EXCEPT ![c] = "validate"] /\ arg' = [arg EXCEPT ![c] = a]
    BY <1>4 DEF Complete
  <2> HIDE DEF a
  <2>3. LocalOK' /\ CallsOK'
    BY <1>1, <2>1, <2>2, OneCallMoves DEF Requesting, Completing
  <2> QED BY <1>2, <2>3, NextParts
<1> QED BY <1>3, <1>4

\* A step of the environment: time, other people's transfers and failures.
LEMMA EnvironmentKeeps ==
  ASSUME TypeOK,
         \/ \E m \in MissionIds : Ripen(m) \/ ExpireMission(m)
         \/ \E p \in Players : ExpireCooldown(p)
         \/ \E nonce \in 0 .. MaxNonce : AuthorityReceives(nonce)
         \/ Fault
  PROVE  TypeOK'
<1>0. /\ RedisOK /\ LocalOK /\ CallsOK /\ LedgerOK
  BY Parts
<1>l. UNCHANGED local => LocalOK' /\ CallsOK'
  BY <1>0 DEF LocalOK, CallsOK, CallOK, local
<1>1. ASSUME NEW m \in MissionIds, Ripen(m) \/ ExpireMission(m) PROVE TypeOK'
  <2> DEFINE Missions == [state : {"unused", "open", "completed", "expired"},
                          owner : Players \cup {NoPlayer}, ripe : BOOLEAN]
  <2>1. mission' \in [MissionIds -> Missions]
    <3>1. mission \in [MissionIds -> Missions] /\ mission[m] \in Missions
      BY <1>0 DEF RedisOK
    <3>2. CASE Ripen(m)
      <4>1. [mission[m] EXCEPT !.ripe = TRUE] \in Missions
        BY <3>1
      <4> QED BY <3>1, <3>2, <4>1, Zenon DEF Ripen
    <3>3. CASE ExpireMission(m)
      <4>1. [mission[m] EXCEPT !.state = "expired"] \in Missions
        BY <3>1
      <4> QED BY <3>1, <3>3, <4>1, Zenon DEF ExpireMission
    <3> QED BY <1>1, <3>2, <3>3
  <2>2. RedisOK'
    BY <1>0, <1>1, <2>1 DEF Ripen, ExpireMission, RedisOK
  <2> QED BY <1>0, <1>1, <1>l, <2>2, NextParts DEF Ripen, ExpireMission, LedgerOK,
             ledger
<1>2. ASSUME NEW p \in Players, ExpireCooldown(p) PROVE TypeOK'
  <2>1. RedisOK'
    BY <1>0, <1>2 DEF ExpireCooldown, RedisOK
  <2> QED BY <1>0, <1>2, <1>l, <2>1, NextParts DEF ExpireCooldown, LedgerOK, ledger
<1>3. ASSUME NEW nonce \in 0 .. MaxNonce, AuthorityReceives(nonce) PROVE TypeOK'
  <2>1. LedgerOK'
    BY <1>0, <1>3, AdvancesKeeps DEF AuthorityReceives, Crosses, LedgerOK
  <2> QED BY <1>0, <1>3, <1>l, <2>1, NextParts DEF AuthorityReceives, RedisOK, redis
<1>4. ASSUME NEW c \in Calls, MintLost(c) PROVE TypeOK'
  <2>1. arg[c].id \in MissionIds /\ arg[c].nonce \in Nat
    BY <1>0, <1>4 DEF MintLost, LocalOK, CallsOK, CallOK, Completing
  <2>2. LedgerOK' /\ RedisOK'
    BY <1>0, <1>4, <2>1 DEF MintLost, LedgerOK, RedisOK, redis
  <2> QED BY <1>4, <2>2, ReturnKeeps, NextParts DEF MintLost
<1>5. ASSUME NEW c \in Calls, Abort(c) PROVE TypeOK'
  <2>0. pc[c] \in Rewarding => arg[c].id \in MissionIds
    BY <1>0 DEF CallsOK, CallOK, Rewarding, Completing
  <2>1. LedgerOK' /\ RedisOK'
    BY <1>0, <1>5, <2>0 DEF Abort, LedgerOK, RedisOK, redis
  <2> QED BY <1>5, <2>1, ReturnKeeps, NextParts DEF Abort
<1>6. ASSUME NEW l \in late, LateMint(l) PROVE TypeOK'
  <2>1. l[1] \in MissionIds /\ l[2] \in Nat
    BY <1>0 DEF LedgerOK
  <2>2. LedgerOK' /\ RedisOK'
    BY <1>0, <1>6, <2>1, AdvancesKeeps
       DEF LateMint, Crosses, LedgerOK, RedisOK, redis
  <2> QED BY <1>6, <1>l, <2>2, NextParts DEF LateMint
<1> QED BY <1>1, <1>2, <1>3, <1>4, <1>5, <1>6 DEF Fault

\* Every step of a call, of the clock and of the faults preserves TypeOK: it is
\* inductive as it stands.
LEMMA TypeStep == TypeOK /\ [Next]_vars => TypeOK'
<1>1. TypeOK /\ Next => TypeOK'
  BY HandlerKeeps, ArrivalKeeps, EnvironmentKeeps DEF Next
<1>2. TypeOK /\ UNCHANGED vars => TypeOK'
  BY DEF TypeOK, vars, redis, local, ledger
<1> QED BY <1>1, <1>2

-----------------------------------------------------------------------------
\* TypeOK, with the mutex: whatever call is between Lock and its return holds
\* GameService.mintMu, and a completing call has the mission it was given.
THEOREM MissionsTypeCorrect == Spec => []TypeOK
BY TypeInit, TypeStep, PTL DEF Spec

\* NoNonceRace: however many CompleteMission calls overlap, and whatever fails,
\* the mutex keeps the authority's nonce current from its read to the mint against
\* all but the writers outside it.
THEOREM MutexPreventsRaces == Spec => []NoNonceRace
<1>1. Init => NoNonceRace
  BY DEF Init, NoNonceRace
<1>2. TypeOK /\ NoNonceRace /\ [Next]_vars => NoNonceRace'
  <2> SUFFICES ASSUME TypeOK, NoNonceRace, [Next]_vars,
                      NEW d \in Calls, (pc[d] = "submitMint")'
               PROVE  arg'[d].nonce = ledgerNonce' \/ d \in crossed'
    BY DEF NoNonceRace
  <2>0. pc \in [Calls -> {"idle"} \cup Requesting \cup Completing]
        /\ DOMAIN arg = Calls
    BY DEF TypeOK
  <2>1. CASE UNCHANGED vars
    BY <2>1 DEF vars, ledger, local, NoNonceRace
  <2>2. ASSUME UNCHANGED ledgerNonce, crossed \subseteq crossed' \cup (Calls \ {d}),
               pc'[d] = pc[d], arg'[d] = arg[d]
        PROVE  arg'[d].nonce = ledgerNonce' \/ d \in crossed'
    BY <2>2 DEF NoNonceRace
  <2>3. ASSUME NEW c \in Calls,
               \/ Advance(c)
               \/ \E p \in Players :
                    Request(c, p) \/ \E m \in MissionIds : Complete(c, m, p)
        PROVE  arg'[d].nonce = ledgerNonce' \/ d \in crossed'
    <3>1. CASE c = d
      <4>1. GetAuthorityNonce(d)
        BY <2>0, <2>3, <3>1 DEF Advance, FindActive, FindActiveMission,
           GetCooldownRemaining, Create, Validate, FindAgain, MarkCompleted, Lock,
           SubmitMint, MintRejected, Goto, Return, Request, Complete
      <4> QED BY <2>0, <4>1 DEF GetAuthorityNonce
    <3>2. CASE c # d
      <4>1. pc'[d] = pc[d] /\ arg'[d] = arg[d]
        BY <2>0, <2>3, <3>2 DEF Advance, FindActive, FindActiveMission,
           GetCooldownRemaining, Create, Validate, FindAgain, MarkCompleted, Lock,
           GetAuthorityNonce, SubmitMint, MintRejected, Goto, Return, Request,
           Complete
      <4>2. mintMu = d
        BY <4>1 DEF TypeOK
      <4>3. ~SubmitMint(c)
        BY <3>2, <4>2 DEF SubmitMint, TypeOK
      <4>4. UNCHANGED ledgerNonce /\ crossed \subseteq crossed' \cup (Calls \ {d})
        BY <2>3, <3>2, <4>3 DEF Advance, FindActive, FindActiveMission,
           GetCooldownRemaining, Create, Validate, FindAgain, MarkCompleted, Lock,
           GetAuthorityNonce, MintRejected, Request, Complete, ledger
      <4> QED BY <4>1, <4>4, <2>2
    <3> QED BY <3>1, <3>2
  <2>4. CASE \/ \E m \in MissionIds : Ripen(m) \/ ExpireMission(m)
             \/ \E p \in Players : ExpireCooldown(p)
    BY <2>2, <2>4 DEF Ripen, ExpireMission, ExpireCooldown, local, ledger
  <2>5. ASSUME NEW c \in Calls, MintLost(c) \/ Abort(c)
        PROVE  arg'[d].nonce = ledgerNonce' \/ d \in crossed'
    <3>1. /\ UNCHANGED <<ledgerNonce, crossed>>
          /\ c # d /\ pc'[d] = pc[d] /\ arg'[d] = arg[d]
      BY <2>0, <2>5 DEF MintLost, Abort, Return
    <3> QED BY <2>2, <3>1
  <2>6. CASE \/ \E nonce \in 0 .. MaxNonce : AuthorityReceives(nonce)
             \/ \E l \in late : LateMint(l)
    BY <2>6 DEF AuthorityReceives, LateMint, Crosses, local
  <2> QED BY <2>1, <2>3, <2>4, <2>5, <2>6 DEF Next, Fault
<1> QED BY <1>1, <1>2, MissionsTypeCorrect, PTL DEF Spec

-----------------------------------------------------------------------------
\* What makes a mission pay once, when no player has two calls under way.  A call
\* at one of these labels has found its mission to be completable and may still
\* mint.
Admitted == {"findAgain", "markCompleted", "lock", "getNonce", "submitMint"}

Open(m) == mission[m].state = "open"
Past(m) == mission[m].state \in {"completed", "expired"}

\* Two calls under way are of two players, ...
OneCallEach ==
  \A c, d \in Calls :
    pc[c] # "idle" /\ pc[d] # "idle" /\ arg[c].player = arg[d].player => c = d

\* ... the pointer of a player names his open mission, ...
PointerNames == \A m \in MissionIds :
                  Open(m) => /\ mission[m].owner \in Players
                             /\ active[mission[m].owner] = m

\* ... a call that goes on to create finds no open mission of its player, one that
\* found or completes a mission no other, and what may still be minted is a mission
\* of the caller that was not minted and is not about to be, ...
FreshCall(c) ==
  /\ pc[c] \in {"getCooldown", "create"} =>
       \A n \in MissionIds : Open(n) => mission[n].owner # arg[c].player
  /\ pc[c] \in {"findActiveMission", "findAgain", "markCompleted"} =>
       \A n \in MissionIds :
         Open(n) /\ mission[n].owner = arg[c].player => n = arg[c].id
  /\ pc[c] \in Admitted => /\ mission[arg[c].id].owner = arg[c].player
                           /\ mission[arg[c].id].state # "unused"
                           /\ arg[c].id \notin ToSet(minted)
                           /\ \A l \in late : l[1] # arg[c].id
  /\ pc[c] \in Rewarding => Past(arg[c].id)

\* ... and neither a mission that was minted nor one whose mint is on its way is
\* open, nor will the same be minted again.
MintedOnce == /\ IsInjective(minted)
              /\ \A m \in ToSet(minted) : Past(m) /\ \A l \in late : l[1] # m
              /\ \A l \in late : Past(l[1])
              /\ \A k, l \in late : k[1] = l[1] => k = l

OnceInv == /\ OneCallEach /\ PointerNames /\ MintedOnce
           /\ \A c \in Calls : FreshCall(c)

\* A new element at the end of a sequence without repetitions.
LEMMA AppendNew ==
  ASSUME NEW S, NEW s \in Seq(S), NEW e \in S
  PROVE  /\ ToSet(Append(s, e)) = ToSet(s) \cup {e}
         /\ IsInjective(s) /\ e \notin ToSet(s) => IsInjective(Append(s, e))
<1>1. /\ Append(s, e) \in Seq(S)
      /\ DOMAIN s = 1..Len(s) /\ DOMAIN Append(s, e) = 1..(Len(s) + 1)
      /\ Len(s) \in Nat
      /\ \A i \in 1..Len(s) : Append(s, e)[i] = s[i]
      /\ Append(s, e)[Len(s) + 1] = e
  OBVIOUS
<1>2. 1..(Len(s) + 1) = (1..Len(s)) \cup {Len(s) + 1}
  BY <1>1
<1> DEFINE t == Append(s, e)
<1> HIDE DEF t
<1>3. ToSet(t) = ToSet(s) \cup {e}
  BY <1>1, <1>2 DEF ToSet, t
<1>4. ASSUME IsInjective(s), e \notin ToSet(s) PROVE IsInjective(t)
  BY <1>1, <1>2, <1>4 DEF IsInjective, ToSet, t
<1> QED BY <1>3, <1>4 DEF t

\* A step that leaves a call alone, and neither opens, re-uses nor mints a mission
\* of its player, keeps what the call relies on.
LEMMA CallUntouched ==
  ASSUME TypeOK, NEW d \in Calls, FreshCall(d), pc'[d] = pc[d], arg'[d] = arg[d],
         pc[d] # "idle" =>
           \A n \in MissionIds :
             /\ Open(n)' /\ mission'[n].owner = arg[d].player
                  => Open(n) /\ mission[n].owner = arg[d].player
             /\ mission[n].state # "unused" =>
                  mission'[n].owner = mission[n].owner /\ mission'[n].state # "unused"
             /\ Past(n) => Past(n)'
             /\ n \in ToSet(minted') \ ToSet(minted) /\ pc[d] \in Admitted
                  => n # arg[d].id
             /\ (\E l \in late' \ late : l[1] = n) /\ pc[d] \in Admitted
                  => n # arg[d].id
  PROVE  FreshCall(d)'
<1>1. pc[d] \in Completing \cup {"findActiveMission"} => arg[d].id \in MissionIds
  BY DEF TypeOK
<1>2. pc[d] \in Admitted \cup Rewarding =>
        arg[d].id \in MissionIds /\ pc[d] # "idle" /\ pc[d] \in Admitted
  BY <1>1 DEF Admitted, Rewarding, Completing
<1>3. pc[d] \in {"getCooldown", "create", "findActiveMission", "findAgain",
                 "markCompleted"} => pc[d] # "idle"
  OBVIOUS
<1>4. pc[d] \in Admitted => /\ arg[d].id \notin ToSet(minted)'
                            /\ \A l \in late' : l[1] # arg[d].id
  <2>1. pc[d] \in Admitted => arg[d].id \notin ToSet(minted')
    BY <1>2 DEF FreshCall
  <2>2. ASSUME pc[d] \in Admitted, NEW l \in late' PROVE l[1] # arg[d].id
    BY <1>2, <2>2 DEF FreshCall
  <2> QED BY <2>1, <2>2
<1> QED BY <1>2, <1>3, <1>4 DEF FreshCall

\* The records of the missions stay as they are for PointerNames and MintedOnce.
LEMMA TablesUntouched ==
  ASSUME OnceInv, UNCHANGED <<mission, active, minted, late>>
  PROVE  PointerNames' /\ MintedOnce'
BY DEF OnceInv, PointerNames, MintedOnce, Open, Past

\* A step of call c that leaves Redis and the Ledger alone.
LEMMA LocalStep ==
  ASSUME TypeOK, OnceInv, NEW c \in Calls, UNCHANGED <<redis, minted, late>>,
         pc[c] # "idle",
         pc' \in [Calls -> {"idle"} \cup Requesting \cup Completing],
         \A d \in Calls \ {c} : pc'[d] = pc[d] /\ arg'[d] = arg[d],
         pc'[c] # "idle" => arg'[c].player = arg[c].player,
         FreshCall(c)'
  PROVE  OnceInv'
<1>1. OneCallEach'
  BY DEF OnceInv, OneCallEach
<1>2. PointerNames' /\ MintedOnce'
  BY TablesUntouched DEF redis
<1>3. ASSUME NEW d \in Calls \ {c} PROVE FreshCall(d)'
  BY CallUntouched DEF OnceInv, redis, Open, Past
<1> QED BY <1>1, <1>2, <1>3 DEF OnceInv

\* A call that returns relies on nothing any more.
LEMMA ReturnStep ==
  ASSUME TypeOK, OnceInv, NEW c \in Calls, pc[c] # "idle", Return(c),
         UNCHANGED <<redis, minted, late>>
  PROVE  OnceInv'
<1>1. /\ pc' \in [Calls -> {"idle"} \cup Requesting \cup Completing]
      /\ \A d \in Calls \ {c} : pc'[d] = pc[d] /\ arg'[d] = arg[d]
      /\ pc'[c] = "idle"
  BY DEF TypeOK, Return
<1>2. FreshCall(c)'
  BY <1>1 DEF FreshCall, Admitted, Rewarding
<1> QED BY <1>1, <1>2, LocalStep

\* A call that arrives is the only one of its player and has found nothing yet.
LEMMA ArrivalStep ==
  ASSUME TypeOK, OnceInv, ~Overlapping, NEW c \in Calls, NEW p \in Players,
         Request(c, p) \/ \E m \in MissionIds : Complete(c, m, p)
  PROVE  OnceInv'
<1>1. /\ \A d \in Calls : arg[d].player # p
      /\ UNCHANGED <<mission, active, minted, late>>
  BY DEF Request, Complete, Admits, redis, ledger
<1>2. /\ pc'[c] \in {"findActive", "validate"} /\ arg'[c].player = p
      /\ \A d \in Calls \ {c} : pc'[d] = pc[d] /\ arg'[d] = arg[d]
  <2>1. DOMAIN pc = Calls /\ DOMAIN arg = Calls
    BY DEF TypeOK
  <2>2. CASE Request(c, p)
    BY <2>1, <2>2 DEF Request, NoArgs
  <2>3. ASSUME NEW m \in MissionIds, Complete(c, m, p)
        PROVE  /\ pc'[c] = "validate" /\ arg'[c].player = p
               /\ \A d \in Calls \ {c} : pc'[d] = pc[d] /\ arg'[d] = arg[d]
    BY <2>1, <2>3 DEF Complete, NoArgs
  <2> QED BY <2>2, <2>3
<1>3. OneCallEach'
  BY <1>1, <1>2 DEF OnceInv, OneCallEach
<1>4. PointerNames' /\ MintedOnce'
  BY <1>1, TablesUntouched
<1>5. FreshCall(c)'
  BY <1>2 DEF FreshCall, Admitted, Rewarding
<1>6. ASSUME NEW d \in Calls \ {c} PROVE FreshCall(d)'
  BY <1>1, <1>2, CallUntouched DEF OnceInv, Open, Past
<1> QED BY <1>3, <1>4, <1>5, <1>6 DEF OnceInv

\* The steps of a call that only read: what they find makes FreshCall true.
LEMMA ReadStep ==
  ASSUME TypeOK, OnceInv, NEW c \in Calls,
         \/ FindActive(c) \/ FindActiveMission(c) \/ GetCooldownRemaining(c)
         \/ Validate(c) \/ FindAgain(c) \/ Lock(c) \/ GetAuthorityNonce(c)
         \/ MintRejected(c)
  PROVE  OnceInv'
<1>0. /\ pc[c] # "idle" /\ UNCHANGED <<redis, minted, late>>
      /\ UNCHANGED <<mission, active>>
  BY DEF FindActive, FindActiveMission, GetCooldownRemaining, Validate, FindAgain,
     Lock, GetAuthorityNonce, MintRejected, redis, ledger
<1>1. CASE Return(c)
  BY <1>0, <1>1, ReturnStep
<1>2. CASE ~Return(c)
  <2>1. /\ pc' \in [Calls -> {"idle"} \cup Requesting \cup Completing]
        /\ \A d \in Calls \ {c} : pc'[d] = pc[d] /\ arg'[d] = arg[d]
        /\ arg'[c].player = arg[c].player
    <3>1. /\ pc \in [Calls -> {"idle"} \cup Requesting \cup Completing]
          /\ DOMAIN arg = Calls /\ arg[c] \in [player : Players \cup {NoPlayer},
                          id : MissionIds \cup {NoMission}, nonce : Nat]
      BY DEF TypeOK
    <3>2. CASE FindActive(c)
      BY <3>1, <3>2 DEF FindActive, Goto, Requesting
    <3>3. CASE GetAuthorityNonce(c)
      BY <3>1, <3>3 DEF GetAuthorityNonce, Completing
    <3>4. CASE \/ FindActiveMission(c) \/ GetCooldownRemaining(c)
               \/ Validate(c) \/ FindAgain(c) \/ Lock(c)
      BY <1>2, <3>1, <3>4 DEF FindActiveMission, GetCooldownRemaining, Validate,
         FindAgain, Lock, Goto, Requesting, Completing
    <3> QED BY <1>2, <3>2, <3>3, <3>4 DEF MintRejected
  <2>2. FreshCall(c) /\ PointerNames /\ MintedOnce /\ arg[c].player \in Players
    BY <1>0 DEF OnceInv, TypeOK
  <2>3. FreshCall(c)'
    <3>1. CASE FindActive(c)
      <4>1. CASE active[arg[c].player] = NoMission
        <5>1. pc'[c] = "getCooldown" /\ arg'[c] = arg[c]
          BY <3>1, <4>1 DEF FindActive, Goto, TypeOK
        <5>2. \A n \in MissionIds : Open(n) => mission[n].owner # arg[c].player
          BY <2>2, <4>1, MissionsAssumption DEF PointerNames
        <5> QED BY <1>0, <5>1, <5>2 DEF FreshCall, Admitted, Rewarding, Open
      <4>2. CASE active[arg[c].player] # NoMission
        <5>1. pc'[c] = "findActiveMission" /\ arg'[c].player = arg[c].player
              /\ arg'[c].id = active[arg[c].player]
          BY <3>1, <4>2 DEF FindActive, TypeOK
        <5> QED BY <1>0, <2>2, <5>1
                DEF FreshCall, Admitted, Rewarding, Open, PointerNames
      <4> QED BY <4>1, <4>2
    <3>2. CASE FindActiveMission(c)
      <4>1. /\ pc[c] = "findActiveMission" /\ pc'[c] = "getCooldown"
            /\ arg'[c] = arg[c] /\ ~Exists(arg[c].id)
        BY <1>2, <3>2 DEF FindActiveMission, Goto, TypeOK
      <4> QED BY <1>0, <2>2, <4>1
              DEF FreshCall, Admitted, Rewarding, Open, Exists
    <3>3. CASE GetCooldownRemaining(c)
      <4>1. /\ pc[c] = "getCooldown" /\ pc'[c] = "create" /\ arg'[c] = arg[c]
        BY <1>2, <3>3 DEF GetCooldownRemaining, Goto, TypeOK
      <4> QED BY <1>0, <2>2, <4>1 DEF FreshCall, Admitted, Rewarding, Open
    <3>4. CASE Validate(c)
      <4>1. /\ pc[c] = "validate" /\ pc'[c] = "findAgain" /\ arg'[c] = arg[c]
            /\ Completable(arg[c].id, arg[c].player) /\ arg[c].id \in MissionIds
        BY <1>2, <3>4 DEF Validate, Goto, TypeOK, Completing
      <4>2. \A n \in MissionIds :
              Open(n) /\ mission[n].owner = arg[c].player => n = arg[c].id
        BY <2>2, <4>1 DEF Completable, PointerNames, Open
      <4>3. arg[c].id \notin ToSet(minted) /\ \A l \in late : l[1] # arg[c].id
        BY <2>2, <4>1 DEF Completable, MintedOnce, Past
      <4> QED BY <1>0, <4>1, <4>2, <4>3
              DEF FreshCall, Admitted, Rewarding, Open, Completable
    <3>5. CASE FindAgain(c)
      <4>1. /\ pc[c] = "findAgain" /\ pc'[c] = "markCompleted" /\ arg'[c] = arg[c]
        BY <1>2, <3>5 DEF FindAgain, Goto, TypeOK
      <4> QED BY <1>0, <2>2, <4>1 DEF FreshCall, Admitted, Rewarding, Open
    <3>6. CASE Lock(c)
      <4>1. /\ pc[c] = "lock" /\ pc'[c] = "getNonce" /\ arg'[c] = arg[c]
        BY <3>6 DEF Lock, TypeOK
      <4> QED BY <1>0, <2>2, <4>1 DEF FreshCall, Admitted, Rewarding, Past
    <3>7. CASE GetAuthorityNonce(c)
      <4>1. /\ pc[c] = "getNonce" /\ pc'[c] = "submitMint"
            /\ arg'[c].id = arg[c].id /\ arg'[c].player = arg[c].player
        BY <3>7 DEF GetAuthorityNonce, TypeOK
      <4> QED BY <1>0, <2>2, <4>1 DEF FreshCall, Admitted, Rewarding, Past
    <3> QED BY <1>2, <3>1, <3>2, <3>3, <3>4, <3>5, <3>6, <3>7 DEF MintRejected
  <2> QED BY <1>0, <2>1, <2>3, LocalStep
<1> QED BY <1>1, <1>2

\* Create: no open mission of the player is left behind, and the new one is not
\* anybody else's.
LEMMA CreateStep ==
  ASSUME TypeOK, OnceInv, NEW c \in Calls, NEW m \in MissionIds, Create(c, m)
  PROVE  OnceInv'
<1>0. /\ pc[c] = "create" /\ mission[m].state = "unused" /\ UNCHANGED <<minted, late>>
      /\ mission' = [mission EXCEPT ![m] =
                       [state |-> "open", owner |-> arg[c].player, ripe |-> FALSE]]
      /\ active' = [active EXCEPT ![arg[c].player] = m]
      /\ \A d \in Calls \ {c} : pc'[d] = pc[d] /\ arg'[d] = arg[d]
      /\ pc'[c] = "idle"
      /\ arg[c].player \in Players
      /\ DOMAIN mission = MissionIds /\ DOMAIN active = Players
  BY DEF Create, ledger, Return, TypeOK
<1>1. /\ mission'[m].state = "open" /\ mission'[m].owner = arg[c].player
      /\ \A n \in MissionIds \ {m} : mission'[n] = mission[n]
      /\ active'[arg[c].player] = m
      /\ \A q \in Players \ {arg[c].player} : active'[q] = active[q]
  BY <1>0
<1>2. \A n \in MissionIds : Open(n) => mission[n].owner # arg[c].player
  BY <1>0 DEF OnceInv, FreshCall
<1>3. OneCallEach'
  BY <1>0 DEF OnceInv, OneCallEach
<1>4. PointerNames'
  BY <1>0, <1>1, <1>2 DEF OnceInv, PointerNames, Open
<1>5. MintedOnce'
  <2>1. \A n \in MissionIds : Past(n) => Past(n)'
    BY <1>0, <1>1 DEF Past
  <2>2. ToSet(minted) \subseteq MissionIds /\ \A l \in late : l[1] \in MissionIds
    BY DEF TypeOK, ToSet
  <2> QED BY <1>0, <2>1, <2>2 DEF OnceInv, MintedOnce
<1>6. FreshCall(c)'
  BY <1>0 DEF FreshCall, Admitted, Rewarding
<1>7. ASSUME NEW d \in Calls \ {c} PROVE FreshCall(d)'
  <2>1. pc[d] # "idle" => arg[d].player # arg[c].player
    BY <1>0 DEF OnceInv, OneCallEach
  <2> QED BY <1>0, <1>1, <2>1, CallUntouched DEF OnceInv, Open, Past
<1> QED BY <1>3, <1>4, <1>5, <1>6, <1>7 DEF OnceInv

\* MarkCompleted: the only mission of the player that can be open is the one that
\* is completed, so the pointer that is deleted names no other.
LEMMA MarkStep ==
  ASSUME TypeOK, OnceInv, NEW c \in Calls, MarkCompleted(c)
  PROVE  OnceInv'
<1> DEFINE m == arg[c].id
<1>0. /\ pc[c] = "markCompleted" /\ UNCHANGED <<minted, late>>
      /\ mission' = [mission EXCEPT ![m].state = "completed"]
      /\ active' = [active EXCEPT ![arg[c].player] = NoMission]
      /\ \A d \in Calls \ {c} : pc'[d] = pc[d] /\ arg'[d] = arg[d]
      /\ pc'[c] = "lock" /\ arg'[c] = arg[c]
      /\ arg[c].player \in Players /\ m \in MissionIds
  BY DEF MarkCompleted, ledger, Goto, TypeOK, Completing
<1>1. /\ mission'[m].state = "completed" /\ mission'[m].owner = mission[m].owner
      /\ \A n \in MissionIds \ {m} : mission'[n] = mission[n]
      /\ \A q \in Players \ {arg[c].player} : active'[q] = active[q]
  <2>1. /\ mission \in [MissionIds -> [state : {"unused", "open", "completed",
                 "expired"}, owner : Players \cup {NoPlayer}, ripe : BOOLEAN]]
        /\ DOMAIN active = Players
    BY DEF TypeOK
  <2> QED BY <1>0, <2>1
<1> HIDE DEF m
<1>2. /\ \A n \in MissionIds : Open(n) /\ mission[n].owner = arg[c].player => n = m
      /\ mission[m].owner = arg[c].player /\ m \notin ToSet(minted)
      /\ mission[m].state # "unused" /\ \A l \in late : l[1] # m
  BY <1>0 DEF OnceInv, FreshCall, Admitted, m
<1>3. OneCallEach'
  BY <1>0 DEF OnceInv, OneCallEach
<1>4. PointerNames'
  BY <1>0, <1>1, <1>2 DEF OnceInv, PointerNames, Open
<1>5. MintedOnce'
  <2>1. \A n \in MissionIds : Past(n) => Past(n)'
    BY <1>0, <1>1 DEF Past
  <2>2. ToSet(minted) \subseteq MissionIds /\ \A l \in late : l[1] \in MissionIds
    BY DEF TypeOK, ToSet
  <2> QED BY <1>0, <2>1, <2>2 DEF OnceInv, MintedOnce
<1>6. FreshCall(c)'
  BY <1>0, <1>1, <1>2 DEF FreshCall, Admitted, Rewarding, Past, m
<1>7. ASSUME NEW d \in Calls \ {c} PROVE FreshCall(d)'
  BY <1>0, <1>1, CallUntouched DEF OnceInv, Open, Past
<1> QED BY <1>3, <1>4, <1>5, <1>6, <1>7 DEF OnceInv

\* A call that submits its mint, or gives up on it, is the only one that may mint
\* its mission, since every other is of another player.
LEMMA SoleMinter ==
  ASSUME TypeOK, OnceInv, NEW c \in Calls, pc[c] = "submitMint"
  PROVE  /\ arg[c].id \in MissionIds /\ Past(arg[c].id)
         /\ arg[c].id \notin ToSet(minted) /\ \A l \in late : l[1] # arg[c].id
         /\ \A d \in Calls \ {c} : pc[d] \in Admitted => arg[d].id # arg[c].id
<1>1. /\ arg[c].id \in MissionIds /\ FreshCall(c)
  BY DEF TypeOK, OnceInv, Completing
<1>2. ASSUME NEW d \in Calls \ {c}, pc[d] \in Admitted
      PROVE  arg[d].id # arg[c].id
  <2>1. FreshCall(d) /\ pc[d] # "idle"
    BY <1>2 DEF OnceInv, Admitted
  <2> QED BY <1>1, <1>2, <2>1 DEF OnceInv, OneCallEach, FreshCall, Admitted
<1> QED BY <1>1, <1>2 DEF FreshCall, Admitted, Rewarding

\* The mint is carried out, or its answer is lost and it is carried out later.
LEMMA MintStep ==
  ASSUME TypeOK, OnceInv, NEW c \in Calls, SubmitMint(c) \/ MintLost(c)
  PROVE  OnceInv'
<1> DEFINE m == arg[c].id
<1>0. /\ pc[c] = "submitMint" /\ UNCHANGED <<mission, active>>
      /\ \A d \in Calls \ {c} : pc'[d] = pc[d] /\ arg'[d] = arg[d]
      /\ pc'[c] = "idle"
  BY DEF SubmitMint, MintLost, redis, Return, TypeOK
<1>1. /\ m \in MissionIds /\ Past(m)
      /\ m \notin ToSet(minted) /\ \A l \in late : l[1] # m
      /\ \A d \in Calls \ {c} : pc[d] \in Admitted => arg[d].id # m
  BY <1>0, SoleMinter
<1>2. \/ minted' = Append(minted, m) /\ late' = late
      \/ minted' = minted /\ late' = late \cup {<<m, arg[c].nonce>>}
  BY DEF SubmitMint, MintLost
<1> HIDE DEF m
<1>3. /\ ToSet(minted') \subseteq ToSet(minted) \cup {m}
      /\ \A l \in late' : l \in late \/ l[1] = m
      /\ minted' # minted => late' = late
      /\ IsInjective(minted')
  <2>1. minted \in Seq(MissionIds) /\ IsInjective(minted)
    BY DEF TypeOK, OnceInv, MintedOnce
  <2>2. /\ ToSet(Append(minted, m)) = ToSet(minted) \cup {m}
        /\ IsInjective(Append(minted, m))
    BY <1>1, <2>1, AppendNew
  <2>3. CASE minted' = Append(minted, m) /\ late' = late
    BY <2>2, <2>3, Zenon
  <2>4. CASE minted' = minted /\ late' = late \cup {<<m, arg[c].nonce>>}
    <3>1. \A l \in late' : l \in late \/ l[1] = m
      BY <2>4
    <3> QED BY <2>1, <2>4, <3>1, Zenon
  <2> QED BY <1>2, <2>3, <2>4
<1>4. OneCallEach'
  BY <1>0 DEF OnceInv, OneCallEach
<1>5. PointerNames'
  BY <1>0 DEF OnceInv, PointerNames, Open
<1>6. MintedOnce'
  <2>1. \A n : Past(n)' <=> Past(n)
    BY <1>0 DEF Past
  <2>2. MintedOnce
    BY DEF OnceInv
  <2>3. CASE minted' = Append(minted, m) /\ late' = late
    <3>1. \A n \in ToSet(minted') : Past(n)' /\ \A l \in late' : l[1] # n
      BY <1>1, <1>3, <2>1, <2>2, <2>3 DEF MintedOnce
    <3>2. ToSet(minted') = ToSet(minted)'
      OBVIOUS
    <3> QED BY <1>3, <2>1, <2>2, <2>3, <3>1, <3>2 DEF MintedOnce
  <2>4. CASE minted' = minted /\ late' = late \cup {<<m, arg[c].nonce>>}
    BY <1>1, <2>1, <2>2, <2>4 DEF MintedOnce
  <2> QED BY <1>2, <2>3, <2>4
<1>7. FreshCall(c)'
  BY <1>0 DEF FreshCall, Admitted, Rewarding
<1>8. ASSUME NEW d \in Calls \ {c} PROVE FreshCall(d)'
  <2>1. FreshCall(d)
    BY DEF OnceInv
  <2> QED BY <1>0, <1>1, <1>3, <2>1, CallUntouched DEF Open, Past
<1> QED BY <1>4, <1>5, <1>6, <1>7, <1>8 DEF OnceInv

\* A mint nobody waits for any more reaches the Ledger.
LEMMA LateStep ==
  ASSUME TypeOK, OnceInv, NEW l \in late, LateMint(l)
  PROVE  OnceInv'
<1>0. /\ UNCHANGED <<mission, active, pc, arg>>
      /\ minted' = Append(minted, l[1]) /\ late' = late \ {l}
      /\ l[1] \in MissionIds /\ minted \in Seq(MissionIds)
  BY DEF LateMint, redis, local, TypeOK
<1>1. /\ MintedOnce /\ l[1] \notin ToSet(minted)
  BY DEF OnceInv, MintedOnce
<1>2. ToSet(minted') = ToSet(minted) \cup {l[1]} /\ IsInjective(minted')
  BY <1>0, <1>1, AppendNew DEF MintedOnce
<1>3. OneCallEach' /\ PointerNames'
  BY <1>0 DEF OnceInv, OneCallEach, PointerNames, Open
<1>4. MintedOnce'
  <2>1. \A n : Past(n)' <=> Past(n)
    BY <1>0 DEF Past
  <2>2. \A n \in ToSet(minted') : Past(n)' /\ \A k \in late' : k[1] # n
    BY <1>0, <1>1, <1>2, <2>1 DEF MintedOnce
  <2>3. ToSet(minted') = ToSet(minted)'
    OBVIOUS
  <2> QED BY <1>0, <1>1, <1>2, <2>1, <2>2, <2>3 DEF MintedOnce
<1>5. ASSUME NEW d \in Calls PROVE FreshCall(d)'
  <2>1. FreshCall(d)
    BY DEF OnceInv
  <2>2. pc[d] \in Admitted => arg[d].id # l[1]
    BY <2>1 DEF FreshCall
  <2> QED BY <1>0, <1>2, <2>1, <2>2, CallUntouched DEF Open, Past
<1> QED BY <1>3, <1>4, <1>5 DEF OnceInv

\* Time passes: a mission ripens or expires, and its pointer with it.
LEMMA TimeStep ==
  ASSUME TypeOK, OnceInv, NEW m \in MissionIds, Ripen(m) \/ ExpireMission(m)
  PROVE  OnceInv'
<1>0. /\ UNCHANGED <<pc, arg, minted, late>>
      /\ \A n \in MissionIds \ {m} : mission'[n] = mission[n]
      /\ mission'[m].owner = mission[m].owner
  <2>1. /\ mission \in [MissionIds -> [state : {"unused", "open", "completed",
                 "expired"}, owner : Players \cup {NoPlayer}, ripe : BOOLEAN]]
    BY DEF TypeOK
  <2> QED BY <2>1 DEF Ripen, ExpireMission, local, ledger
<1>1. \/ /\ mission[m].state = "open" /\ mission'[m].state = "open"
         /\ UNCHANGED active
      \/ /\ Exists(m) /\ mission'[m].state = "expired"
         /\ active' = [p \in Players |-> IF active[p] = m THEN NoMission
                                                          ELSE active[p]]
  <2>1. /\ mission \in [MissionIds -> [state : {"unused", "open", "completed",
                 "expired"}, owner : Players \cup {NoPlayer}, ripe : BOOLEAN]]
    BY DEF TypeOK
  <2> QED BY <2>1 DEF Ripen, ExpireMission
<1>2. \A n \in MissionIds : /\ Past(n) => Past(n)'
                            /\ Open(n)' => Open(n)
                            /\ mission'[n].owner = mission[n].owner
                            /\ mission[n].state # "unused" =>
                                 mission'[n].state # "unused"
  BY <1>0, <1>1 DEF Past, Open
<1>3. OneCallEach'
  BY <1>0 DEF OnceInv, OneCallEach
<1>4. PointerNames'
  BY <1>0, <1>1 DEF OnceInv, PointerNames, Open
<1>5. MintedOnce'
  <2>1. ToSet(minted) \subseteq MissionIds /\ \A l \in late : l[1] \in MissionIds
    BY DEF TypeOK, ToSet
  <2> QED BY <1>0, <1>2, <2>1 DEF OnceInv, MintedOnce
<1>6. ASSUME NEW d \in Calls PROVE FreshCall(d)'
  BY <1>0, <1>2, CallUntouched DEF OnceInv
<1> QED BY <1>3, <1>4, <1>5, <1>6 DEF OnceInv

\* The invariant that makes missions pay once.
LEMMA OnceStep ==
  ASSUME ~Overlapping
  PROVE  TypeOK /\ OnceInv /\ [Next]_vars => OnceInv'
<1> SUFFICES ASSUME TypeOK, OnceInv, [Next]_vars PROVE OnceInv'
  OBVIOUS
<1>1. ASSUME UNCHANGED <<mission, active, pc, arg, minted, late>> PROVE OnceInv'
  BY <1>1 DEF OnceInv, OneCallEach, PointerNames, MintedOnce, FreshCall, Open, Past
<1>2. CASE \/ UNCHANGED vars \/ \E nonce \in 0 .. MaxNonce : AuthorityReceives(nonce)
           \/ \E p \in Players : ExpireCooldown(p)
  BY <1>1, <1>2 DEF vars, AuthorityReceives, ExpireCooldown, redis, local, ledger
<1>3. ASSUME NEW c \in Calls, Advance(c) PROVE OnceInv'
  BY <1>3, ReadStep, CreateStep, MarkStep, MintStep DEF Advance
<1>4. ASSUME NEW c \in Calls, Abort(c) PROVE OnceInv'
  BY <1>4, ReturnStep DEF Abort, ledger
<1> QED BY <1>2, <1>3, <1>4, ArrivalStep, TimeStep, MintStep, LateStep
        DEF Next, Fault

LEMMA OnceInit == Init => OnceInv
BY MissionsAssumption DEF Init, OnceInv, OneCallEach, PointerNames, MintedOnce,
   FreshCall, Open, Past, Unused, Admitted, Rewarding, IsInjective, ToSet

\* RewardOnce: as long as a player waits for one call before he makes the next, no
\* failure, lost answer, expiry or transfer to the authority makes a mission pay
\* twice, whatever the calls of the other players do.
THEOREM RewardsPaidOnce ==
  ASSUME ~Overlapping
  PROVE  Spec => []RewardOnce
<1>1. OnceInv => RewardOnce
  BY DEF OnceInv, MintedOnce, RewardOnce
<1> QED BY <1>1, OnceInit, OnceStep, MissionsTypeCorrect, PTL DEF Spec
=============================================================================
