------------------------------ MODULE Missions ------------------------------
(***************************************************************************)
(* The missions of the Game Server: GameService and missionService over    *)
(* the Redis MissionRepository, with the reward minted by a call to the    *)
(* Ledger.                                                                 *)
(*                                                                         *)
(* Every handler call is a process and every action one Redis command, one *)
(* MULTI/EXEC pipeline, one Ledger RPC or one mutex operation.  A mission  *)
(* is an abstract id, time is what lets keys expire and missions ripen,    *)
(* and the Ledger is the authority's nonce and the journal of its mints.   *)
(* It works on the nonce that it read while the RPC was under way, which   *)
(* others may have changed since, and writes back the one that follows.    *)
(***************************************************************************)
EXTENDS Naturals, Sequences, SequencesExt, FiniteSets

CONSTANTS Players, MissionIds,
          Calls,       \* concurrent handler goroutines
          NoMission, NoPlayer, NoCall,
          Overlapping, \* whether a player has several calls under way at once
          Outsiders,   \* whether anyone sends tokens to the authority's account
          Faults,      \* whether Redis, the Ledger and the node can fail
          MaxNonce     \* bound: the greatest nonce of the authority

ASSUME MissionsAssumption == /\ NoMission \notin MissionIds
                             /\ NoPlayer \notin Players /\ NoCall \notin Calls
                             /\ {Overlapping, Outsiders, Faults} \subseteq BOOLEAN
                             /\ MaxNonce \in Nat

VARIABLES mission,     \* the mission:{id} keys
          active,      \* the player:active:{playerID} keys
          cooling,     \* whether player:cooldown:{playerID} exists
          pc, arg,     \* what a call does next, and its locals
          mintMu,      \* the owner of GameService.mintMu
          ledgerNonce, \* the authority's nonce in the Ledger
          minted,      \* the missions whose reward was minted, oldest first
          late,        \* mints whose call has given up on the answer
          peak,        \* history: the greatest nonce the authority has had
          crossed,     \* history: calls since whose reading of the nonce somebody
                       \* outside the mutex has written the authority's row
          lost         \* history: completed missions whose call ended in a failure

redis  == <<mission, active, cooling>>
local  == <<pc, arg, mintMu>>
ledger == <<ledgerNonce, minted, late, peak, crossed, lost>>
vars   == <<redis, local, ledger>>

\* state "unused" is an id no call has drawn yet, "expired" one whose key is
\* gone; ripe: the mission's cooldown has elapsed since it was issued.
Unused == [state |-> "unused", owner |-> NoPlayer, ripe |-> FALSE]
NoArgs == [player |-> NoPlayer, id |-> NoMission, nonce |-> 0]

Exists(m) == mission[m].state \in {"open", "completed"}

Init == /\ mission = [m \in MissionIds |-> Unused]
        /\ active = [p \in Players |-> NoMission]
        /\ cooling = [p \in Players |-> FALSE]
        /\ pc = [c \in Calls |-> "idle"]
        /\ arg = [c \in Calls |-> NoArgs]
        /\ mintMu = NoCall
        /\ ledgerNonce = 0 /\ minted = << >> /\ late = {}
        /\ peak = 0 /\ crossed = {} /\ lost = {}

-----------------------------------------------------------------------------
Goto(c, label) == pc' = [pc EXCEPT ![c] = label] /\ UNCHANGED <<arg, mintMu>>

\* Mutant of Return: the deferred Unlock is missing.
ReturnLocked(c) == /\ pc' = [pc EXCEPT ![c] = "idle"]
                   /\ arg' = [arg EXCEPT ![c] = NoArgs]
                   /\ UNCHANGED mintMu

\* The call returns, and the deferred Unlock runs if it holds the mutex.
Return(c) == /\ pc' = [pc EXCEPT ![c] = "idle"]
             /\ arg' = [arg EXCEPT ![c] = NoArgs]
             /\ mintMu' = IF mintMu = c THEN NoCall ELSE mintMu

-----------------------------------------------------------------------------
Requesting == {"findActive", "findActiveMission", "getCooldown", "create"}
Completing == {"validate", "findAgain", "markCompleted", "lock", "getNonce",
               "submitMint"}
Rewarding  == {"lock", "getNonce", "submitMint"}

CallsIn(labels) == Cardinality({c \in Calls : pc[c] \in labels})

\* A call of player p can arrive at c.
Admits(c, p) == /\ pc[c] = "idle"
                /\ Overlapping \/ \A d \in Calls : arg[d].player # p

\* The bounds: every mission that is requested finds an unused id, and every
\* mint a nonce.  A call for a mission that is over needs neither.
SpareMission == CallsIn(Requesting) < Cardinality({m \in MissionIds :
                                                  mission[m].state = "unused"})
SpareNonce == peak + Cardinality(late) + CallsIn(Completing) < MaxNonce

\* RequestMission arrives.
Request(c, p) == /\ Admits(c, p) /\ SpareMission
                 /\ pc' = [pc EXCEPT ![c] = "findActive"]
                 /\ arg' = [arg EXCEPT ![c] = [NoArgs EXCEPT !.player = p]]
                 /\ UNCHANGED <<redis, mintMu, ledger>>

\* FindActiveByPlayer: the pointer, then the mission it names, which may have
\* gone in between.
FindActive(c) == /\ pc[c] = "findActive"
                 /\ IF active[arg[c].player] = NoMission
                      THEN Goto(c, "getCooldown")
                      ELSE /\ pc' = [pc EXCEPT ![c] = "findActiveMission"]
                           /\ arg' = [arg EXCEPT ![c].id = active[arg[c].player]]
                           /\ UNCHANGED mintMu
                 /\ UNCHANGED <<redis, ledger>>

FindActiveMission(c) == /\ pc[c] = "findActiveMission"
                        /\ IF Exists(arg[c].id) THEN Return(c)
                                                ELSE Goto(c, "getCooldown")
                        /\ UNCHANGED <<redis, ledger>>

GetCooldownRemaining(c) == /\ pc[c] = "getCooldown"
                           /\ IF cooling[arg[c].player] THEN Return(c)
                                                        ELSE Goto(c, "create")
                           /\ UNCHANGED <<redis, ledger>>

\* MissionRepository.Create, under a fresh id: mission and pointer together.
Create(c, m) == /\ pc[c] = "create"
                /\ mission[m].state = "unused"
                /\ mission' = [mission EXCEPT ![m] = [state |-> "open",
                                   owner |-> arg[c].player, ripe |-> FALSE]]
                /\ active' = [active EXCEPT ![arg[c].player] = m]
                /\ Return(c)
                /\ UNCHANGED <<cooling, ledger>>

-----------------------------------------------------------------------------
\* CompleteMission arrives.
Complete(c, m, p) == /\ Admits(c, p)
                     /\ SpareNonce \/ mission[m].state \in {"completed", "expired"}
                     /\ pc' = [pc EXCEPT ![c] = "validate"]
                     /\ arg' = [arg EXCEPT ![c] = [NoArgs EXCEPT !.player = p,
                                                                 !.id = m]]
                     /\ UNCHANGED <<redis, mintMu, ledger>>

\* Mutant of Completable: the Completed flag is not looked at.
CompletableAgain(m, p) == /\ Exists(m)
                          /\ mission[m].owner = p
                          /\ mission[m].ripe

\* validateAndComplete's checks of the record it has found.
Completable(m, p) == /\ mission[m].state = "open"
                     /\ mission[m].owner = p
                     /\ mission[m].ripe

Validate(c) == /\ pc[c] = "validate"
               /\ IF Completable(arg[c].id, arg[c].player)
                    THEN Goto(c, "findAgain") ELSE Return(c)
               /\ UNCHANGED <<redis, ledger>>

\* MissionRepository.Complete reads the record again, for its fields only, ...
FindAgain(c) == /\ pc[c] = "findAgain"
                /\ IF Exists(arg[c].id) THEN Goto(c, "markCompleted")
                                        ELSE Return(c)
                /\ UNCHANGED <<redis, ledger>>

\* ... and stores it completed, deletes the pointer, whatever that names by now,
\* and starts the cooldown.
MarkCompleted(c) == /\ pc[c] = "markCompleted"
                    /\ mission' = [mission EXCEPT ![arg[c].id].state = "completed"]
                    /\ active' = [active EXCEPT ![arg[c].player] = NoMission]
                    /\ cooling' = [cooling EXCEPT ![arg[c].player] = TRUE]
                    /\ Goto(c, "lock")
                    /\ UNCHANGED ledger

\* Mutant of Lock: the mutex is not waited for.
LockUnheld(c) == /\ pc[c] = "lock"
                 /\ pc' = [pc EXCEPT ![c] = "getNonce"]
                 /\ UNCHANGED <<redis, arg, mintMu, ledger>>

Lock(c) == /\ pc[c] = "lock"
           /\ mintMu = NoCall
           /\ mintMu' = c
           /\ pc' = [pc EXCEPT ![c] = "getNonce"]
           /\ UNCHANGED <<redis, arg, ledger>>

GetAuthorityNonce(c) == /\ pc[c] = "getNonce"
                        /\ pc' = [pc EXCEPT ![c] = "submitMint"]
                        /\ arg' = [arg EXCEPT ![c].nonce = ledgerNonce]
                        /\ crossed' = crossed \ {c}
                        /\ UNCHANGED <<redis, mintMu, ledgerNonce, minted, late,
                                       peak, lost>>

\* The authority's row is written with the nonce that follows the one read.
Advances(nonce) == /\ ledgerNonce' = nonce + 1
                   /\ peak' = IF nonce < peak THEN peak ELSE nonce + 1

\* Somebody outside the mutex writes it.
Crosses == crossed' = crossed \cup {c \in Calls : pc[c] = "submitMint"}

\* The Ledger has found the nonce it was sent, be it before others changed it.
SubmitMint(c) == /\ pc[c] = "submitMint"
                 /\ Advances(arg[c].nonce)
                 /\ minted' = Append(minted, arg[c].id)
                 /\ Return(c)
                 /\ UNCHANGED <<redis, late, crossed, lost>>

\* The Ledger answers that the nonce does not match: the reward is dropped.
MintRejected(c) == /\ pc[c] = "submitMint"
                   /\ arg[c].nonce # ledgerNonce \/ c \in crossed
                   /\ lost' = lost \cup {arg[c].id}
                   /\ Return(c)
                   /\ UNCHANGED <<redis, ledgerNonce, minted, late, peak, crossed>>

-----------------------------------------------------------------------------
\* A deadline passes or the connection breaks: the call gives up on its mint,
\* which the Ledger may still commit, since its statements do not carry the
\* call's context.
MintLost(c) == /\ pc[c] = "submitMint"
               /\ late' = late \cup {<<arg[c].id, arg[c].nonce>>}
               /\ lost' = lost \cup {arg[c].id}
               /\ Return(c)
               /\ UNCHANGED <<redis, ledgerNonce, minted, peak, crossed>>

LateMint(l) == /\ Advances(l[2])
               /\ minted' = Append(minted, l[1])
               /\ late' = late \ {l}
               /\ Crosses
               /\ UNCHANGED <<redis, local, lost>>

\* Any Redis command or RPC fails, or the node stops: the call ends there, and the
\* reward with it if the mission is marked already.
Abort(c) == /\ pc[c] # "idle"
            /\ lost' = IF pc[c] \in Rewarding THEN lost \cup {arg[c].id} ELSE lost
            /\ Return(c)
            /\ UNCHANGED <<redis, ledgerNonce, minted, late, peak, crossed>>

Fault == /\ Faults
         /\ \/ \E c \in Calls : MintLost(c) \/ Abort(c)
            \/ \E l \in late : LateMint(l)

\* A transfer to the authority's account advances its nonce, like any other
\* receiver's: from the one its row has, or had when it was read.
AuthorityReceives(nonce) == /\ Outsiders /\ SpareNonce
                            /\ nonce <= peak
                            /\ Advances(nonce)
                            /\ Crosses
                            /\ UNCHANGED <<redis, local, minted, late, lost>>

\* A mission's cooldown has elapsed.
Ripen(m) == /\ mission[m].state = "open" /\ ~mission[m].ripe
            /\ mission' = [mission EXCEPT ![m].ripe = TRUE]
            /\ UNCHANGED <<active, cooling, local, ledger>>

\* Keys expire.  A mission and its pointer are set together with one TTL, of at
\* least twice the cooldown.
ExpireMission(m) == /\ Exists(m) /\ mission[m].ripe
                    /\ mission' = [mission EXCEPT ![m].state = "expired"]
                    /\ active' = [p \in Players |-> IF active[p] = m THEN NoMission
                                                                    ELSE active[p]]
                    /\ UNCHANGED <<cooling, local, ledger>>

ExpireCooldown(p) == /\ cooling[p]
                     /\ cooling' = [cooling EXCEPT ![p] = FALSE]
                     /\ UNCHANGED <<mission, active, local, ledger>>

-----------------------------------------------------------------------------
Advance(c) == \/ FindActive(c) \/ FindActiveMission(c)
              \/ GetCooldownRemaining(c)
              \/ \E m \in MissionIds : Create(c, m)
              \/ Validate(c) \/ FindAgain(c) \/ MarkCompleted(c)
              \/ Lock(c) \/ GetAuthorityNonce(c)
              \/ SubmitMint(c) \/ MintRejected(c)

Next == \/ \E c \in Calls : \/ \E p \in Players : Request(c, p)
                            \/ \E p \in Players, m \in MissionIds :
                                 Complete(c, m, p)
                            \/ Advance(c)
        \/ \E m \in MissionIds : Ripen(m) \/ ExpireMission(m)
        \/ \E p \in Players : ExpireCooldown(p)
        \/ \E nonce \in 0 .. MaxNonce : AuthorityReceives(nonce)
        \/ Fault

Spec == Init /\ [][Next]_vars

\* Goroutines run, and a Go mutex hands itself to the longest waiter (SF).
Fairness == \A c \in Calls : SF_vars(Advance(c))

FairSpec == Spec /\ Fairness

-----------------------------------------------------------------------------
\* The types; a completing call has its mission and player, and the mutex is held
\* exactly from Lock to the return.
TypeOK ==
  /\ mission \in [MissionIds -> [state : {"unused", "open", "completed", "expired"},
                                 owner : Players \cup {NoPlayer},
                                 ripe : BOOLEAN]]
  /\ active \in [Players -> MissionIds \cup {NoMission}]
  /\ cooling \in [Players -> BOOLEAN]
  /\ pc \in [Calls -> {"idle"} \cup Requesting \cup Completing]
  /\ arg \in [Calls -> [player : Players \cup {NoPlayer},
                        id : MissionIds \cup {NoMission}, nonce : Nat]]
  /\ \A c \in Calls : /\ pc[c] # "idle" => arg[c].player \in Players
                      /\ pc[c] \in Completing \cup {"findActiveMission"}
                           => arg[c].id \in MissionIds
                      /\ mintMu = c <=> pc[c] \in {"getNonce", "submitMint"}
  /\ minted \in Seq(MissionIds)
  /\ peak \in Nat /\ ledgerNonce \in 0 .. peak
  /\ late \subseteq MissionIds \X Nat
  /\ crossed \subseteq Calls /\ lost \subseteq MissionIds

\* A mission pays once: completing it again, after its key was rewritten, or
\* while an earlier mint is still under way, mints no second reward.
RewardOnce == IsInjective(minted)

\* The mutex keeps concurrent CompleteMission calls from minting with the same
\* authority nonce: a mint goes out of date only where somebody outside the mutex, a
\* transfer to the authority or a mint whose caller gave up on it, writes the
\* authority's row between its two RPCs.
NoNonceRace ==
  \A c \in Calls :
    pc[c] = "submitMint" => arg[c].nonce = ledgerNonce \/ c \in crossed

\* A mission that is marked completed is paid, unless the call that completed it
\* failed afterwards: no call waits for ever for the mutex, whatever befell those
\* that held it.
CompletedIsPaid ==
  \A m \in MissionIds :
    mission[m].state = "completed" ~> m \in ToSet(minted) \cup lost
=============================================================================
