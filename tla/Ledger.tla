------------------------------- MODULE Ledger -------------------------------
(***************************************************************************)
(* LedgerService.SubmitTransaction as the handlers of the Ledger node      *)
(* execute it: every worker is one gRPC call, every action one SQL         *)
(* statement of its READ COMMITTED transaction, and the statements of      *)
(* different workers interleave.                                           *)
(*                                                                         *)
(* A worker sees the committed rows and its own uncommitted ones (view).   *)
(* An INSERT or UPDATE takes the row's lock until the transaction ends; a  *)
(* plain SELECT, which is what FindOrCreate runs, takes none.              *)
(***************************************************************************)
EXTENDS LedgerTables, FiniteSets, FiniteSetsExt

CONSTANTS Workers,    \* concurrent handler goroutines
          NoWorker,   \* owner of a free row
          NoReq,      \* request of an idle worker
          MaxTxs      \* bound: submissions committed or in progress

ASSUME WorkersAssumption == NoWorker \notin Workers /\ NoReq \notin Request
ASSUME BoundAssumption   == MaxTxs \in Nat

\* Ids are the primary keys of the players table, of 64 characters at most.
ASSUME FiniteAssumption == IsFiniteSet(Accounts)

VARIABLES lock,         \* the owner of each row's write lock
          pc,           \* the statement a worker executes next
          req,          \* the request a worker is serving
          copy,         \* senderModel and receiverModel, by role
          buf,          \* the rows a worker wrote and has not committed
          since         \* history: the length of the journal when the request came

workers == <<lock, pc, req, copy, buf, since>>
vars    == <<ledger, workers>>

Labels == {"idle", "findSender", "createSender", "findReceiver",
           "createReceiver", "saveFirst", "saveLast", "commit"}

NoCopies == [role \in Roles |-> NoRow]
NoRows   == [a \in Accounts |-> NoRow]

Init == /\ TablesInit
        /\ lock = [a \in Accounts |-> NoWorker]
        /\ pc = [w \in Workers |-> "idle"]
        /\ req = [w \in Workers |-> NoReq]
        /\ copy = [w \in Workers |-> NoCopies]
        /\ buf = [w \in Workers |-> NoRows]
        /\ since = [w \in Workers |-> 0]

-----------------------------------------------------------------------------
\* What worker w reads of account a: its own write, else the committed row.
View(w, a) == IF buf[w][a] # NoRow THEN buf[w][a] ELSE players[a]

Available(w, a) == lock[a] \in {w, NoWorker}

\* Worker w writes row; it must own the lock or be able to take it.
Put(w, a, row) == /\ Available(w, a)
                  /\ lock' = [lock EXCEPT ![a] = w]
                  /\ buf' = [buf EXCEPT ![w][a] = row]

\* Mutant of End: the locks are kept.
EndKeepingLocks(w) == /\ pc' = [pc EXCEPT ![w] = "idle"]
                      /\ req' = [req EXCEPT ![w] = NoReq]
                      /\ copy' = [copy EXCEPT ![w] = NoCopies]
                      /\ buf' = [buf EXCEPT ![w] = NoRows]
                      /\ since' = [since EXCEPT ![w] = 0]
                      /\ UNCHANGED lock

\* The end of a transaction, whichever way it ends: its locks are released,
\* its private rows are gone and the worker is free.
End(w) == /\ lock' = [a \in Accounts |->
                        IF lock[a] = w THEN NoWorker ELSE lock[a]]
          /\ pc' = [pc EXCEPT ![w] = "idle"]
          /\ req' = [req EXCEPT ![w] = NoReq]
          /\ copy' = [copy EXCEPT ![w] = NoCopies]
          /\ buf' = [buf EXCEPT ![w] = NoRows]
          /\ since' = [since EXCEPT ![w] = 0]

\* Mutant of Rollback: there is no transaction to undo what was written.
RollbackPublishing(w) == /\ End(w)
                         /\ players' = [a \in Accounts |-> View(w, a)]
                         /\ UNCHANGED <<txs, authorities, past, stale>>

Rollback(w) == End(w) /\ UNCHANGED ledger

-----------------------------------------------------------------------------
InProgress == {w \in Workers : pc[w] # "idle"}

\* A verified request arrives; the ones refused before the transaction opens
\* change nothing and are not actions.
Receive(w, r) ==
  /\ pc[w] = "idle"
  /\ Len(txs) + Cardinality(InProgress) < MaxTxs
  /\ Admitted(r)
  /\ pc' = [pc EXCEPT ![w] = "findSender"]
  /\ req' = [req EXCEPT ![w] = r]
  /\ since' = [since EXCEPT ![w] = Len(txs)]
  /\ UNCHANGED <<ledger, lock, copy, buf>>

\* FindOrCreate, its SELECT.  It waits for nobody; a row another transaction has
\* inserted but not committed is not found.
Find(w, role, create, next) ==
  LET row == View(w, req[w][role])
  IN  /\ IF row = NoRow
           THEN pc' = [pc EXCEPT ![w] = create] /\ UNCHANGED copy
           ELSE /\ copy' = [copy EXCEPT ![w][role] = row]
                /\ pc' = [pc EXCEPT ![w] = next]
      /\ UNCHANGED <<ledger, lock, req, buf, since>>

\* Mutant of Create: an upsert that overwrites a row committed meanwhile.
CreateOverwriting(w, role, next) ==
  /\ Put(w, req[w][role], ZeroRow)
  /\ copy' = [copy EXCEPT ![w][role] = ZeroRow]
  /\ pc' = [pc EXCEPT ![w] = next]
  /\ UNCHANGED <<ledger, req, since>>

\* FindOrCreate, its INSERT.  It waits for a concurrent insert of the same key
\* and fails if that one committed meanwhile.
Create(w, role, next) ==
  LET a == req[w][role]
  IN  IF players[a] = NoRow
      THEN /\ Put(w, a, ZeroRow)
           /\ copy' = [copy EXCEPT ![w][role] = ZeroRow]
           /\ pc' = [pc EXCEPT ![w] = next]
           /\ UNCHANGED <<ledger, req, since>>
      ELSE Available(w, a) /\ Rollback(w)

FindSender(w)     == /\ pc[w] = "findSender"
                     /\ Find(w, "sender", "createSender", "findReceiver")
CreateSender(w)   == /\ pc[w] = "createSender"
                     /\ Create(w, "sender", "findReceiver")
FindReceiver(w)   == /\ pc[w] = "findReceiver"
                     /\ Find(w, "receiver", "createReceiver", "saveFirst")
CreateReceiver(w) == /\ pc[w] = "createReceiver"
                     /\ Create(w, "receiver", "saveFirst")

\* Mutant of Reject: the closure returns no error, so the transaction commits the
\* rows it has created.
RejectCommitting(w) == /\ pc[w] = "saveFirst"
                       /\ ~Accepts(req[w], copy[w]["sender"])
                       /\ players' = [a \in Accounts |-> View(w, a)]
                       /\ End(w)
                       /\ UNCHANGED <<txs, authorities, past, stale>>

\* The nonce or the balance does not match the row that was read: the closure
\* returns an error and the transaction is rolled back.
Reject(w) == /\ pc[w] = "saveFirst"
             /\ ~Accepts(req[w], copy[w]["sender"])
             /\ Rollback(w)

NewRow(w, role) == Settled(req[w], copy[w]["sender"], copy[w]["receiver"])[role]

\* UpdateBalance writes every column of the row from the worker's copy.
Save(w, role, next) == /\ Put(w, req[w][role], NewRow(w, role))
                       /\ pc' = [pc EXCEPT ![w] = next]
                       /\ UNCHANGED <<ledger, req, copy, since>>

SaveFirst(w) == /\ pc[w] = "saveFirst"
                /\ Accepts(req[w], copy[w]["sender"])
                /\ Save(w, FirstSaved(req[w]), "saveLast")

SaveLast(w) == /\ pc[w] = "saveLast"
               /\ Save(w, LastSaved(req[w]), "commit")

\* The journal record is inserted under a fresh key, which conflicts with
\* nothing, and the transaction commits.
Commit(w) == /\ pc[w] = "commit"
             /\ players' = [a \in Accounts |-> View(w, a)]
             /\ txs' = Append(txs, req[w])
             /\ past' = Append(past, players)
             /\ stale' = stale \cup Overtaken(req[w], copy[w])
             /\ End(w)
             /\ UNCHANGED authorities

-----------------------------------------------------------------------------
\* The lock the next statement of w needs, if any.
Wanted(w) ==
  CASE pc[w] = "createSender"   -> {req[w].sender}
    [] pc[w] = "createReceiver" -> {req[w].receiver}
    [] pc[w] = "saveFirst"      -> {a \in {req[w][FirstSaved(req[w])]} :
                                      Accepts(req[w], copy[w]["sender"])}
    [] pc[w] = "saveLast"       -> {req[w][LastSaved(req[w])]}
    [] OTHER                    -> {}

\* w waits for a worker of C.
WaitsIn(w, C) == \E a \in Wanted(w) : lock[a] \in C \ {w}

\* Postgres' deadlock detector aborts a transaction of a waiting cycle.
DeadlockVictim(w) == /\ \E C \in SUBSET Workers :
                          w \in C /\ \A v \in C : WaitsIn(v, C)
                     /\ Rollback(w)

\* A statement fails, the connection drops or the node stops before COMMIT:
\* at any point of the transaction, and always with its rollback.
Fail(w) == pc[w] # "idle" /\ Rollback(w)

\* RegisterAuthority: an insert that a second registration leaves alone.
RegisterAuthority(a) == /\ authorities' = authorities \cup {a}
                        /\ UNCHANGED <<players, txs, past, stale, workers>>

\* The steps a worker takes when nothing goes wrong below it.
Advance(w) == \/ FindSender(w)   \/ CreateSender(w)
              \/ FindReceiver(w) \/ CreateReceiver(w)
              \/ Reject(w) \/ SaveFirst(w) \/ SaveLast(w) \/ Commit(w)

Next == \/ \E w \in Workers : \/ \E r \in Request : Receive(w, r)
                              \/ Advance(w)
                              \/ DeadlockVictim(w)
                              \/ Fail(w)
        \/ \E a \in Accounts : RegisterAuthority(a)

Spec == Init /\ [][Next]_vars

\* A goroutine that can run runs.  Postgres grants a contended row lock in
\* arrival order, so a statement that could repeatedly proceed does (SF), and
\* its detector leaves no cycle of waiting transactions alone (WF).
Fairness == /\ \A w \in Workers : SF_vars(Advance(w))
            /\ WF_vars(\E w \in Workers : DeadlockVictim(w))

FairSpec == Spec /\ Fairness

-----------------------------------------------------------------------------
(***************************************************************************)
(* The inductive invariant behind the properties: what a worker holds at   *)
(* each statement.                                                         *)
(***************************************************************************)
Searching == {"findSender", "createSender", "findReceiver", "createReceiver"}
HasSender   == Labels \ {"idle", "findSender", "createSender"}
HasReceiver == {"saveFirst", "saveLast", "commit"}

\* A busy worker serves an admitted request, has the copies its statement
\* needs, and goes past the first save only with an accepted request.
WorkerOK(w) ==
  /\ pc[w] = "idle" => req[w] = NoReq
  /\ pc[w] # "idle" => /\ req[w] \in Request
                       /\ WithinLimits(req[w])
                       /\ Authorised(req[w], authorities)
  /\ copy[w]["sender"] # NoRow <=> pc[w] \in HasSender
  /\ copy[w]["receiver"] # NoRow <=> pc[w] \in HasReceiver
  /\ pc[w] \in {"saveLast", "commit"} => Accepts(req[w], copy[w]["sender"])

\* An uncommitted row is locked by its writer.  Before the first save it can
\* only be a fresh row that nobody has committed; afterwards the saved roles
\* hold their new rows.
BufferOK(w) ==
  /\ \A a \in Accounts :
       /\ buf[w][a] # NoRow => lock[a] = w
       /\ pc[w] = "idle" => buf[w][a] = NoRow
       /\ pc[w] # "idle" /\ a \notin {req[w].sender, req[w].receiver}
            => buf[w][a] = NoRow
       /\ pc[w] \in Searching \cup {"saveFirst"} /\ buf[w][a] # NoRow
            => buf[w][a] = ZeroRow /\ players[a] = NoRow
  /\ pc[w] = "saveLast" => buf[w][req[w][FirstSaved(req[w])]]
                             = NewRow(w, FirstSaved(req[w]))
  /\ pc[w] = "commit" =>
       /\ buf[w][req[w][LastSaved(req[w])]] = NewRow(w, LastSaved(req[w]))
       /\ req[w].sender # req[w].receiver =>
            buf[w][req[w][FirstSaved(req[w])]] = NewRow(w, FirstSaved(req[w]))

\* A copy is a row that was committed, or missing, while the call was under way:
\* the sender's at commit i, the receiver's no earlier.  A row that was missing has
\* been created here and nobody can commit it meanwhile.
ReadAt(w, role, i) ==
  /\ copy[w][role] = RowOrZero(Table(i)[req[w][role]])
  /\ Table(i)[req[w][role]] = NoRow =>
       buf[w][req[w][role]] # NoRow /\ players[req[w][role]] = NoRow

ReadsOK(w) ==
  pc[w] # "idle" =>
    \E i, j \in since[w] .. Len(txs) :
      /\ i <= j
      /\ pc[w] \in HasSender => ReadAt(w, "sender", i)
      /\ pc[w] \in HasReceiver => ReadAt(w, "receiver", j)

\* What a worker holds agrees with the statement it is at, and is what the tables
\* were at some instants of its call: how far behind a stale copy can be.
WorkersConsistent == \A w \in Workers : WorkerOK(w) /\ BufferOK(w) /\ ReadsOK(w)

-----------------------------------------------------------------------------
\* The type of every variable.  Row bounds the balances: no interleaving of
\* checks, engine calls and saves leaves a channel below zero or above the
\* uint8 range, at any point of any transaction.
TypeOK == /\ TablesOK
          /\ lock \in [Accounts -> Workers \cup {NoWorker}]
          /\ pc \in [Workers -> Labels]
          /\ req \in [Workers -> Request \cup {NoReq}]
          /\ copy \in [Workers -> [Roles -> Row \cup {NoRow}]]
          /\ buf \in [Workers -> [Accounts -> Row \cup {NoRow}]]
          /\ since \in [Workers -> Nat]

\* What replay protection needs: two transactions of one sender commit under one
\* nonce only if a submission that had read that sender's row before another commit
\* changed it wrote it back.  Sequential calls, retries, failures and concurrent
\* calls on other accounts do not get a nonce accepted twice.
ReplayNeedsStaleWrite ==
  \A i, j \in DOMAIN txs :
    txs[i].sender = txs[j].sender /\ txs[i].nonce = txs[j].nonce =>
      i = j \/ txs[i].sender \in stale

\* What the code says of the nonce check, "replay protection": at most one
\* transaction of a sender commits under each nonce.
NonceUnique ==
  \A i, j \in DOMAIN txs :
    txs[i].sender = txs[j].sender /\ txs[i].nonce = txs[j].nonce => i = j

\* The tokens of one channel held by all accounts, and the ones minted.
Supply(c) == LET Held(a) == RowOrZero(players[a]).tokens[c]
             IN  MapThenSumSet(Held, Accounts)
Minted(c) == LET Mint(i) == IF txs[i].type = "MINT" THEN txs[i].amount[c]
                                                     ELSE 0
             IN  MapThenSumSet(Mint, DOMAIN txs)

\* Only minting creates tokens: as long as every transfer joined two different
\* accounts and no submission wrote over a newer row, the balances never add up to
\* more than was minted.
TokensBacked ==
  stale = {} /\ (\A i \in DOMAIN txs : txs[i].sender # txs[i].receiver) =>
    \A c \in Channels : Supply(c) <= Minted(c)

\* The same, of every transfer the service accepts.
TokensAlwaysBacked == \A c \in Channels : Supply(c) <= Minted(c)

\* All or nothing: rows change only together with one new journal record and
\* only those of its sender, whose nonce is then spent, and of its receiver; a
\* rejected, deadlocked or failed submission leaves no trace.
WholeCommits ==
  [][ \/ UNCHANGED <<players, txs>>
      \/ \E r \in Request :
           /\ txs' = Append(txs, r)
           /\ players'[r.receiver] # NoRow
           /\ players'[r.sender] # NoRow
           /\ r.sender # r.receiver => players'[r.sender].nonce = r.nonce + 1
           /\ \A a \in Accounts \ {r.sender, r.receiver} :
                players'[a] = players[a]
    ]_vars

\* The ledger implements the abstract one: no caller sees a statement of a
\* submission without the others, and a submission that commits has worked on rows
\* committed during its call, the sender's read before the receiver's.
Open == [w \in Workers |-> [req |-> req[w], since |-> since[w]]]
Abstract == INSTANCE AbstractLedger WITH open <- Open
ImplementsAbstract == Abstract!Spec

\* Every call is answered: no submission waits for ever for a row.
EveryCallAnswered == \A w \in Workers : pc[w] # "idle" ~> pc[w] = "idle"
=============================================================================
