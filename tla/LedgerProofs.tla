---------------------------- MODULE LedgerProofs ----------------------------
(***************************************************************************)
(* Theorems about Ledger, for every set of accounts, channels and workers, *)
(* every token range and every bound.                                      *)
(***************************************************************************)
EXTENDS Ledger, DataProofs

-----------------------------------------------------------------------------
(* Types.  A row stays in range only because a worker past its checks holds *)
(* an accepted request and the rows it needs: WorkerOK carries that.        *)

TypeInv == TypeOK /\ \A w \in Workers : WorkerOK(w)

\* A step of one worker leaves the others as they were.
LEMMA OtherWorker ==
  ASSUME NEW v \in Workers, WorkerOK(v), authorities \subseteq authorities',
         pc'[v] = pc[v], req'[v] = req[v], copy'[v] = copy[v]
  PROVE  WorkerOK(v)'
  BY DEF WorkerOK, Authorised, Accepts, Funded

\* The end of a transaction without effect keeps the types.
LEMMA RollbackTypes ==
  ASSUME TypeInv, NEW w \in Workers, Rollback(w)
  PROVE  TypeInv'
<1>1. TypeOK'
  BY NoRowAssumption DEF TypeInv, TypeOK, TablesOK, Rollback, End, ledger,
                         Labels, NoCopies, NoRows
<1>2. ASSUME NEW v \in Workers PROVE WorkerOK(v)'
  BY DEF TypeInv, TypeOK, WorkerOK, Rollback, End, ledger, NoCopies, Roles,
         HasSender, HasReceiver, Authorised, Accepts, Funded
<1> QED BY <1>1, <1>2 DEF TypeInv

\* Assigning one role's copy keeps the type of copy, and touches no other.
LEMMA CopyAssigned ==
  ASSUME TypeInv, NEW w \in Workers, NEW role \in Roles, NEW row \in Row,
         copy' = [copy EXCEPT ![w][role] = row]
  PROVE  /\ copy' \in [Workers -> [Roles -> Row \cup {NoRow}]]
         /\ copy'[w][role] = row
         /\ \A other \in Roles \ {role} : copy'[w][other] = copy[w][other]
         /\ \A v \in Workers \ {w} : copy'[v] = copy[v]
<1>1. copy \in [Workers -> [Roles -> Row \cup {NoRow}]]
  BY DEF TypeInv, TypeOK
<1>2. copy[w] \in [Roles -> Row \cup {NoRow}]
  BY <1>1
<1>3. [copy[w] EXCEPT ![role] = row] \in [Roles -> Row \cup {NoRow}]
  BY <1>2
<1>4. copy' = [copy EXCEPT ![w] = [copy[w] EXCEPT ![role] = row]]
  OBVIOUS
<1> QED BY <1>1, <1>2, <1>3, <1>4

\* A row read by FindOrCreate is a row.
LEMMA FindTypes ==
  ASSUME TypeInv, NEW w \in Workers, NEW role \in Roles,
         NEW create \in Labels, NEW next \in Labels,
         Find(w, role, create, next), req[w] \in Request
  PROVE  /\ TypeOK'
         /\ \A v \in Workers \ {w} : WorkerOK(v)'
         /\ \/ pc'[w] = create /\ copy' = copy
            \/ /\ pc'[w] = next
               /\ copy'[w][role] # NoRow
               /\ \A other \in Roles \ {role} : copy'[w][other] = copy[w][other]
<1> DEFINE a == req[w][role]
<1>1. a \in Accounts
  BY RequestParts
<1>2. View(w, a) \in Row \cup {NoRow}
  BY <1>1 DEF TypeInv, TypeOK, TablesOK, Rows, View
<1>3. CASE View(w, a) = NoRow
  <2>1. pc' = [pc EXCEPT ![w] = create] /\ UNCHANGED <<lock, copy>>
        /\ UNCHANGED <<ledger, req, buf, since>>
    BY <1>3 DEF Find
  <2>2. TypeOK'
    BY <2>1 DEF TypeInv, TypeOK, TablesOK, ledger
  <2>3. ASSUME NEW v \in Workers \ {w} PROVE WorkerOK(v)'
    BY <2>1, OtherWorker DEF TypeInv, TypeOK, ledger
  <2> QED BY <2>1, <2>2, <2>3 DEF TypeInv, TypeOK
<1>4. CASE View(w, a) # NoRow
  <2>1. /\ copy' = [copy EXCEPT ![w][role] = View(w, a)]
        /\ pc' = [pc EXCEPT ![w] = next]
        /\ UNCHANGED <<ledger, lock, req, buf, since>>
    BY <1>4 DEF Find
  <2>2. /\ copy' \in [Workers -> [Roles -> Row \cup {NoRow}]]
        /\ copy'[w][role] = View(w, a)
        /\ \A other \in Roles \ {role} : copy'[w][other] = copy[w][other]
        /\ \A v \in Workers \ {w} : copy'[v] = copy[v]
    BY <1>2, <1>4, <2>1, CopyAssigned
  <2>3. TypeOK'
    BY <1>1, <2>1, <2>2 DEF TypeInv, TypeOK, TablesOK, ledger
  <2>4. ASSUME NEW v \in Workers \ {w} PROVE WorkerOK(v)'
    BY <2>1, <2>2, OtherWorker DEF TypeInv, TypeOK, ledger
  <2> QED BY <1>4, <2>1, <2>2, <2>3, <2>4 DEF TypeInv, TypeOK
<1> QED BY <1>3, <1>4

\* A row created by FindOrCreate is the zero row.
LEMMA CreateTypes ==
  ASSUME TypeInv, NEW w \in Workers, NEW role \in Roles, NEW next \in Labels,
         Create(w, role, next), ~Rollback(w), req[w] \in Request
  PROVE  /\ TypeOK'
         /\ \A v \in Workers \ {w} : WorkerOK(v)'
         /\ pc'[w] = next
         /\ copy'[w][role] # NoRow
         /\ \A other \in Roles \ {role} : copy'[w][other] = copy[w][other]
<1> DEFINE a == req[w][role]
<1>1. a \in Accounts
  BY RequestParts
<1>2. /\ copy' = [copy EXCEPT ![w][role] = ZeroRow]
      /\ pc' = [pc EXCEPT ![w] = next]
      /\ lock' = [lock EXCEPT ![a] = w]
      /\ buf' = [buf EXCEPT ![w][a] = ZeroRow]
      /\ UNCHANGED <<ledger, req, since>>
  BY DEF Create, Put
<1>3. /\ copy' \in [Workers -> [Roles -> Row \cup {NoRow}]]
      /\ copy'[w][role] = ZeroRow
      /\ \A other \in Roles \ {role} : copy'[w][other] = copy[w][other]
      /\ \A v \in Workers \ {w} : copy'[v] = copy[v]
  BY <1>2, ZeroIsRow, CopyAssigned
<1>4. TypeOK'
  BY <1>1, <1>2, <1>3, ZeroIsRow DEF TypeInv, TypeOK, TablesOK, ledger
<1>5. ASSUME NEW v \in Workers \ {w} PROVE WorkerOK(v)'
  BY <1>2, <1>3, OtherWorker DEF TypeInv, TypeOK, ledger
<1> QED BY <1>2, <1>3, <1>4, <1>5, ZeroIsRow DEF TypeInv, TypeOK

\* The four statements of FindOrCreate keep the types and give the worker the
\* copy its next statement needs.
LEMMA FindOrCreateTypes ==
  ASSUME TypeInv, NEW w \in Workers,
         \/ FindSender(w) \/ CreateSender(w)
         \/ FindReceiver(w) \/ CreateReceiver(w)
  PROVE  TypeInv'
<1>1. WorkerOK(w) /\ pc[w] \in Searching
  BY DEF TypeInv, Searching, FindSender, CreateSender, FindReceiver,
         CreateReceiver
<1>2. req[w] \in Request
  BY <1>1 DEF WorkerOK, Searching
<1>3. CASE Rollback(w)
  BY <1>3, RollbackTypes
<1>4. ASSUME ~Rollback(w)
      PROVE  UNCHANGED <<req, authorities>>
  BY <1>4 DEF FindSender, CreateSender, FindReceiver, CreateReceiver, Find,
              Create, ledger
<1>5. CASE FindSender(w) /\ ~Rollback(w)
  <2>1. Find(w, "sender", "createSender", "findReceiver") /\ pc[w] = "findSender"
    BY <1>5 DEF FindSender
  <2>2. /\ TypeOK' /\ \A v \in Workers \ {w} : WorkerOK(v)'
        /\ \/ pc'[w] = "createSender" /\ copy' = copy
           \/ /\ pc'[w] = "findReceiver" /\ copy'[w]["sender"] # NoRow
              /\ copy'[w]["receiver"] = copy[w]["receiver"]
    BY <1>2, <2>1, FindTypes DEF Labels, Roles
  <2>3. WorkerOK(w)'
    BY <1>1, <1>4, <1>5, <2>1, <2>2
       DEF WorkerOK, HasSender, HasReceiver, Authorised, Labels
  <2> QED BY <2>2, <2>3 DEF TypeInv
<1>6. CASE CreateSender(w) /\ ~Rollback(w)
  <2>1. Create(w, "sender", "findReceiver") /\ pc[w] = "createSender"
    BY <1>6 DEF CreateSender
  <2>2. /\ TypeOK' /\ \A v \in Workers \ {w} : WorkerOK(v)'
        /\ pc'[w] = "findReceiver" /\ copy'[w]["sender"] # NoRow
        /\ copy'[w]["receiver"] = copy[w]["receiver"]
    BY <1>2, <1>6, <2>1, CreateTypes DEF Labels, Roles
  <2>3. WorkerOK(w)'
    BY <1>1, <1>4, <1>6, <2>1, <2>2
       DEF WorkerOK, HasSender, HasReceiver, Authorised, Labels
  <2> QED BY <2>2, <2>3 DEF TypeInv
<1>7. CASE FindReceiver(w) /\ ~Rollback(w)
  <2>1. Find(w, "receiver", "createReceiver", "saveFirst")
        /\ pc[w] = "findReceiver"
    BY <1>7 DEF FindReceiver
  <2>2. /\ TypeOK' /\ \A v \in Workers \ {w} : WorkerOK(v)'
        /\ \/ pc'[w] = "createReceiver" /\ copy' = copy
           \/ /\ pc'[w] = "saveFirst" /\ copy'[w]["receiver"] # NoRow
              /\ copy'[w]["sender"] = copy[w]["sender"]
    BY <1>2, <2>1, FindTypes DEF Labels, Roles
  <2>3. WorkerOK(w)'
    BY <1>1, <1>4, <1>7, <2>1, <2>2
       DEF WorkerOK, HasSender, HasReceiver, Authorised, Labels
  <2> QED BY <2>2, <2>3 DEF TypeInv
<1>8. CASE CreateReceiver(w) /\ ~Rollback(w)
  <2>1. Create(w, "receiver", "saveFirst") /\ pc[w] = "createReceiver"
    BY <1>8 DEF CreateReceiver
  <2>2. /\ TypeOK' /\ \A v \in Workers \ {w} : WorkerOK(v)'
        /\ pc'[w] = "saveFirst" /\ copy'[w]["receiver"] # NoRow
        /\ copy'[w]["sender"] = copy[w]["sender"]
    BY <1>2, <1>8, <2>1, CreateTypes DEF Labels, Roles
  <2>3. WorkerOK(w)'
    BY <1>1, <1>4, <1>8, <2>1, <2>2
       DEF WorkerOK, HasSender, HasReceiver, Authorised, Labels
  <2> QED BY <2>2, <2>3 DEF TypeInv
<1> QED BY <1>3, <1>5, <1>6, <1>7, <1>8

\* The row a save writes is a row: the accepted request was settled on rows.
LEMMA NewRowIsRow ==
  ASSUME TypeInv, NEW w \in Workers, pc[w] \in HasReceiver,
         Accepts(req[w], copy[w]["sender"])
  PROVE  /\ \A role \in Roles : NewRow(w, role) \in Row
         /\ NewRow(w, "sender").nonce = copy[w]["sender"].nonce + 1
         /\ NewRow(w, "receiver").nonce = copy[w]["receiver"].nonce + 1
<1>1. req[w] \in Request
  BY DEF TypeInv, WorkerOK, HasReceiver
<1>2. copy[w]["sender"] \in Row /\ copy[w]["receiver"] \in Row
  BY DEF TypeInv, TypeOK, WorkerOK, HasReceiver, HasSender, Labels, Roles
<1> QED BY <1>1, <1>2, SettledRows DEF NewRow

\* Saving and committing keep the types.
LEMMA SaveTypes ==
  ASSUME TypeInv, NEW w \in Workers, SaveFirst(w) \/ SaveLast(w)
  PROVE  TypeInv'
<1>1. req[w] \in Request /\ pc[w] \in HasReceiver
      /\ Accepts(req[w], copy[w]["sender"])
  BY DEF TypeInv, WorkerOK, SaveFirst, SaveLast, HasReceiver
<1>2. \A role \in Roles : NewRow(w, role) \in Row /\ req[w][role] \in Accounts
  BY <1>1, NewRowIsRow, RequestParts
<1>3. PICK role \in Roles, next \in {"saveLast", "commit"} : Save(w, role, next)
  BY <1>1, RequestParts DEF SaveFirst, SaveLast
<1>4. TypeOK'
  BY <1>2, <1>3 DEF TypeInv, TypeOK, TablesOK, Save, Put, ledger, Labels
<1>5. ASSUME NEW v \in Workers PROVE WorkerOK(v)'
  BY <1>1, <1>3 DEF TypeInv, TypeOK, WorkerOK, Save, Put, ledger, HasSender,
                    HasReceiver, Labels, Authorised, Accepts, Funded
<1> QED BY <1>4, <1>5 DEF TypeInv

\* Committing keeps the types: what is published are rows.
LEMMA CommitTypes ==
  ASSUME TypeInv, NEW w \in Workers, Commit(w)
  PROVE  TypeInv'
<1>1. req[w] \in Request
  BY DEF TypeInv, WorkerOK, Commit
<1>2. \A a \in Accounts : View(w, a) \in Row \cup {NoRow}
  BY DEF TypeInv, TypeOK, TablesOK, Rows, View
<1>3. TypeOK'
  <2>1. TablesOK'
    <3>1. Overtaken(req[w], copy[w]) \subseteq Accounts
      BY <1>1, RequestParts DEF Overtaken
    <3> QED BY <1>1, <1>2, <3>1 DEF TypeInv, TypeOK, TablesOK, Rows, Commit
  <2> QED BY <2>1 DEF TypeInv, TypeOK, Commit, End, Labels, NoCopies, NoRows
<1>4. ASSUME NEW v \in Workers PROVE WorkerOK(v)'
  BY DEF TypeInv, TypeOK, WorkerOK, Commit, End, NoCopies, Roles, HasSender,
         HasReceiver, Authorised, Accepts, Funded
<1> QED BY <1>3, <1>4 DEF TypeInv

\* Receiving a request keeps the types.
LEMMA ReceiveTypes ==
  ASSUME TypeInv, NEW w \in Workers, NEW r \in Request, Receive(w, r)
  PROVE  TypeInv'
<1>1. TypeOK'
  BY DEF TypeInv, TypeOK, TablesOK, Receive, ledger, Labels
<1>2. ASSUME NEW v \in Workers PROVE WorkerOK(v)'
  <2>1. /\ pc[w] = "idle" /\ pc' = [pc EXCEPT ![w] = "findSender"]
        /\ req' = [req EXCEPT ![w] = r] /\ copy' = copy
        /\ authorities' = authorities /\ WithinLimits(r) /\ Authorised(r, authorities)
    BY DEF Receive, ledger, Admitted
  <2>2. WorkerOK(v)
    BY DEF TypeInv
  <2>3. CASE v = w
    BY <2>1, <2>2, <2>3 DEF TypeInv, TypeOK, WorkerOK, HasSender, HasReceiver, Labels
  <2>4. CASE v # w
    BY <2>1, <2>2, <2>4, OtherWorker DEF TypeInv, TypeOK
  <2> QED BY <2>3, <2>4
<1> QED BY <1>1, <1>2 DEF TypeInv

\* Initially every variable has its type and every worker is idle.
LEMMA TypeInit == Init => TypeInv
<1> SUFFICES ASSUME Init PROVE TypeInv
  OBVIOUS
<1>1. TypeOK
  BY AccountsAssumption DEF Init, TablesInit, TypeOK, TablesOK, Rows, NoRows, NoCopies,
     Labels
<1>2. ASSUME NEW w \in Workers PROVE WorkerOK(w)
  BY DEF Init, WorkerOK, NoCopies, Roles, HasSender, HasReceiver
<1> QED BY <1>1, <1>2 DEF TypeInv

\* Every step keeps the types.
LEMMA TypeStep == TypeInv /\ [Next]_vars => TypeInv'
<1> SUFFICES ASSUME TypeInv, [Next]_vars PROVE TypeInv'
  OBVIOUS
<1>1. CASE UNCHANGED vars
  BY <1>1 DEF TypeInv, TypeOK, TablesOK, WorkerOK, Authorised, vars, ledger, workers
<1>2. ASSUME NEW w \in Workers, NEW r \in Request, Receive(w, r)
      PROVE  TypeInv'
  BY <1>2, ReceiveTypes
<1>3. ASSUME NEW w \in Workers,
             \/ FindSender(w) \/ CreateSender(w)
             \/ FindReceiver(w) \/ CreateReceiver(w)
      PROVE  TypeInv'
  BY <1>3, FindOrCreateTypes
<1>4. ASSUME NEW w \in Workers, SaveFirst(w) \/ SaveLast(w)
      PROVE  TypeInv'
  BY <1>4, SaveTypes
<1>5. ASSUME NEW w \in Workers, Commit(w)
      PROVE  TypeInv'
  BY <1>5, CommitTypes
<1>6. ASSUME NEW w \in Workers, Reject(w) \/ DeadlockVictim(w) \/ Fail(w)
      PROVE  TypeInv'
  BY <1>6, RollbackTypes DEF Reject, DeadlockVictim, Fail
<1>7. ASSUME NEW a \in Accounts, RegisterAuthority(a)
      PROVE  TypeInv'
  <2>1. TypeOK'
    BY <1>7 DEF TypeInv, TypeOK, TablesOK, RegisterAuthority, workers
  <2>2. ASSUME NEW v \in Workers PROVE WorkerOK(v)'
    BY <1>7, OtherWorker DEF TypeInv, RegisterAuthority, workers
  <2> QED BY <2>1, <2>2 DEF TypeInv
<1> QED BY <1>1, <1>2, <1>3, <1>4, <1>5, <1>6, <1>7 DEF Next, Advance

\* In every reachable state each variable has its type; in particular no balance,
\* committed or not, leaves the uint8 range.
THEOREM TypeCorrect == Spec => []TypeOK
<1>1. TypeInv => TypeOK
  BY DEF TypeInv
<1> QED BY <1>1, TypeInit, TypeStep, PTL DEF Spec

-----------------------------------------------------------------------------
(* Buffers.  What an open transaction has written is locked and is exactly  *)
(* what its statements computed, so a commit publishes whole transfers.     *)

BufferInv == TypeInv /\ \A w \in Workers : BufferOK(w)

\* A step that leaves worker v and the rows it locked alone keeps its buffer.
LEMMA OtherBuffer ==
  ASSUME BufferInv, NEW v \in Workers,
         pc'[v] = pc[v], req'[v] = req[v], copy'[v] = copy[v],
         buf'[v] = buf[v],
         \A a \in Accounts : lock[a] = v => lock'[a] = v /\ players'[a] = players[a]
  PROVE  BufferOK(v)'
<1>1. BufferOK(v)
  BY DEF BufferInv
<1>2. \A role \in Roles : NewRow(v, role)' = NewRow(v, role)
  BY DEF NewRow
<1>3. ASSUME pc[v] \in {"saveLast", "commit"}
      PROVE  FirstSaved(req[v]) \in Roles /\ LastSaved(req[v]) \in Roles
  BY <1>3 DEF FirstSaved, LastSaved, Roles
<1> QED BY <1>1, <1>2, <1>3 DEF BufferOK

\* Once a transaction has ended its worker holds nothing.
LEMMA EndBuffer ==
  ASSUME BufferInv, NEW w \in Workers, End(w)
  PROVE  BufferOK(w)'
  BY DEF BufferInv, TypeInv, TypeOK, BufferOK, End, NoRows, Searching

\* Rolling back publishes nothing and releases only the worker's own locks.
LEMMA RollbackBuffers ==
  ASSUME BufferInv, NEW w \in Workers, Rollback(w)
  PROVE  BufferInv'
<1>1. TypeInv'
  BY RollbackTypes DEF BufferInv
<1>2. BufferOK(w)'
  BY EndBuffer DEF Rollback
<1>3. ASSUME NEW v \in Workers \ {w} PROVE BufferOK(v)'
  <2>1. /\ pc'[v] = pc[v] /\ req'[v] = req[v] /\ copy'[v] = copy[v]
        /\ buf'[v] = buf[v] /\ players' = players
        /\ \A a \in Accounts : lock[a] = v => lock'[a] = v
    BY DEF BufferInv, TypeInv, TypeOK, Rollback, End, ledger
  <2> QED BY <2>1, OtherBuffer
<1> QED BY <1>1, <1>2, <1>3 DEF BufferInv

\* Writing a row: the lock was free or already the writer's, so no other
\* worker loses one.
LEMMA PutBuffers ==
  ASSUME BufferInv, NEW w \in Workers, NEW a \in Accounts, NEW row,
         Put(w, a, row)
  PROVE  /\ \A b \in Accounts : lock'[b] = IF b = a THEN w ELSE lock[b]
         /\ \A b \in Accounts : buf'[w][b] = IF b = a THEN row ELSE buf[w][b]
         /\ \A v \in Workers \ {w} :
              /\ buf'[v] = buf[v]
              /\ \A b \in Accounts : lock[b] = v => lock'[b] = v
<1>1. /\ lock \in [Accounts -> Workers \cup {NoWorker}]
      /\ buf \in [Workers -> [Accounts -> Row \cup {NoRow}]]
  BY DEF BufferInv, TypeInv, TypeOK
<1>2. buf' = [buf EXCEPT ![w] = [buf[w] EXCEPT ![a] = row]]
      /\ lock' = [lock EXCEPT ![a] = w] /\ lock[a] \in {w, NoWorker}
  BY DEF Put, Available
<1>3. \A v \in Workers : v # NoWorker
  BY WorkersAssumption
<1> QED BY <1>1, <1>2, <1>3

\* Reading leaves every buffer alone.
LEMMA FindBuffers ==
  ASSUME BufferInv, NEW w \in Workers, NEW role \in Roles,
         NEW create \in Searching, NEW next \in Searching \cup {"saveFirst"},
         pc[w] \in Searching, Find(w, role, create, next), TypeInv'
  PROVE  BufferInv'
<1> DEFINE a == req[w][role]
<1>1. req[w] \in Request /\ a \in Accounts
  BY RequestParts DEF BufferInv, TypeInv, WorkerOK, Searching
<1>2. /\ UNCHANGED <<players, lock, req, buf>>
      /\ pc' = [pc EXCEPT ![w] = create] \/ pc' = [pc EXCEPT ![w] = next]
      /\ copy' = copy \/ copy' = [copy EXCEPT ![w][role] = View(w, a)]
  BY DEF Find, ledger
<1>3. pc'[w] \in Searching \cup {"saveFirst"}
  BY <1>2 DEF BufferInv, TypeInv, TypeOK
<1>4. BufferOK(w)'
  BY <1>2, <1>3 DEF BufferInv, BufferOK, Searching
<1>5. ASSUME NEW v \in Workers \ {w} PROVE BufferOK(v)'
  <2>1. pc'[v] = pc[v] /\ req'[v] = req[v] /\ copy'[v] = copy[v]
        /\ buf'[v] = buf[v]
    BY <1>2 DEF BufferInv, TypeInv, TypeOK
  <2> QED BY <1>2, <2>1, OtherBuffer
<1> QED BY <1>4, <1>5 DEF BufferInv

\* Creating buffers a zero row under a lock, for an account nobody committed.
LEMMA CreateBuffers ==
  ASSUME BufferInv, NEW w \in Workers, NEW role \in Roles,
         NEW next \in Searching \cup {"saveFirst"}, pc[w] \in Searching,
         req[w][role] \in {req[w].sender, req[w].receiver},
         Create(w, role, next), ~Rollback(w), TypeInv'
  PROVE  BufferInv'
<1> DEFINE a == req[w][role]
<1>1. req[w] \in Request /\ a \in Accounts
  BY RequestParts DEF BufferInv, TypeInv, WorkerOK, Searching
<1>2. /\ players[a] = NoRow /\ Put(w, a, ZeroRow)
      /\ copy' = [copy EXCEPT ![w][role] = ZeroRow]
      /\ pc' = [pc EXCEPT ![w] = next]
      /\ UNCHANGED <<players, req>>
  BY DEF Create, ledger
<1>3. /\ \A b \in Accounts : lock'[b] = IF b = a THEN w ELSE lock[b]
      /\ \A b \in Accounts : buf'[w][b] = IF b = a THEN ZeroRow ELSE buf[w][b]
      /\ \A v \in Workers \ {w} :
           /\ buf'[v] = buf[v]
           /\ \A b \in Accounts : lock[b] = v => lock'[b] = v
  BY <1>1, <1>2, PutBuffers
<1>4. pc'[w] \in Searching \cup {"saveFirst"}
  BY <1>2 DEF BufferInv, TypeInv, TypeOK
<1>5. BufferOK(w)'
  BY <1>2, <1>3, <1>4 DEF BufferInv, BufferOK, Searching
<1>6. ASSUME NEW v \in Workers \ {w} PROVE BufferOK(v)'
  <2>1. pc'[v] = pc[v] /\ req'[v] = req[v] /\ copy'[v] = copy[v]
    BY <1>2 DEF BufferInv, TypeInv, TypeOK
  <2> QED BY <1>2, <1>3, <2>1, OtherBuffer
<1> QED BY <1>5, <1>6 DEF BufferInv

\* Each save puts the new row of its role in the buffer.
LEMMA SaveBuffers ==
  ASSUME BufferInv, NEW w \in Workers, SaveFirst(w) \/ SaveLast(w)
  PROVE  BufferInv'
<1> DEFINE first == FirstSaved(req[w])
           last  == LastSaved(req[w])
<1>1. TypeInv'
  BY SaveTypes DEF BufferInv
<1>2. /\ req[w] \in Request /\ first \in Roles /\ last \in Roles
      /\ req[w][first] \in Accounts /\ req[w][last] \in Accounts
      /\ {req[w][first], req[w][last]} = {req[w].sender, req[w].receiver}
  BY RequestParts DEF BufferInv, TypeInv, WorkerOK, SaveFirst, SaveLast
<1>3. UNCHANGED <<players, req, copy>>
  BY DEF SaveFirst, SaveLast, Save, ledger
<1>4. \A role \in Roles : NewRow(w, role)' = NewRow(w, role)
  BY <1>3 DEF NewRow
<1>5. ASSUME NEW v \in Workers \ {w}, NEW role \in {first, last},
             NEW next \in Labels, Save(w, role, next)
      PROVE  BufferOK(v)'
  <2>1. pc'[v] = pc[v] /\ req'[v] = req[v] /\ copy'[v] = copy[v]
    BY <1>5 DEF BufferInv, TypeInv, TypeOK, Save
  <2>2. /\ buf'[v] = buf[v]
        /\ \A b \in Accounts : lock[b] = v => lock'[b] = v
    BY <1>2, <1>5, PutBuffers DEF Save
  <2> QED BY <1>3, <2>1, <2>2, OtherBuffer
<1>6. CASE SaveFirst(w)
  <2>1. /\ pc[w] = "saveFirst" /\ pc' = [pc EXCEPT ![w] = "saveLast"]
        /\ Put(w, req[w][first], NewRow(w, first))
        /\ Save(w, first, "saveLast")
    BY <1>6 DEF SaveFirst, Save
  <2>2. /\ \A b \in Accounts : lock'[b] = IF b = req[w][first] THEN w ELSE lock[b]
        /\ \A b \in Accounts : buf'[w][b] = IF b = req[w][first]
                                             THEN NewRow(w, first) ELSE buf[w][b]
    BY <1>2, <2>1, PutBuffers
  <2>3. pc'[w] = "saveLast"
    BY <2>1 DEF BufferInv, TypeInv, TypeOK
  <2>4. BufferOK(w)'
    BY <1>2, <1>3, <1>4, <2>1, <2>2, <2>3 DEF BufferInv, BufferOK, Searching
  <2> QED BY <1>1, <1>5, <2>1, <2>4 DEF BufferInv, Labels
<1>7. CASE SaveLast(w)
  <2>1. /\ pc[w] = "saveLast" /\ pc' = [pc EXCEPT ![w] = "commit"]
        /\ Put(w, req[w][last], NewRow(w, last))
        /\ Save(w, last, "commit")
    BY <1>7 DEF SaveLast, Save
  <2>2. /\ \A b \in Accounts : lock'[b] = IF b = req[w][last] THEN w ELSE lock[b]
        /\ \A b \in Accounts : buf'[w][b] = IF b = req[w][last]
                                             THEN NewRow(w, last) ELSE buf[w][b]
    BY <1>2, <2>1, PutBuffers
  <2>3. pc'[w] = "commit"
    BY <2>1 DEF BufferInv, TypeInv, TypeOK
  <2>4. BufferOK(w)'
    <3>1. ASSUME NEW b \in Accounts
          PROVE  /\ buf'[w][b] # NoRow => lock'[b] = w
                 /\ b \notin {req[w].sender, req[w].receiver} => buf'[w][b] = NoRow
      BY <1>2, <2>1, <2>2 DEF BufferInv, BufferOK
    <3>2. buf'[w][req[w][last]] = NewRow(w, last)
      BY <1>2, <2>2
    <3>3. req[w].sender # req[w].receiver => buf'[w][req[w][first]] = NewRow(w, first)
      <4>1. buf[w][req[w][first]] = NewRow(w, first)
        BY <2>1 DEF BufferInv, BufferOK
      <4>2. req[w].sender # req[w].receiver => req[w][first] # req[w][last]
        BY <1>2
      <4> QED BY <1>2, <2>2, <4>1, <4>2
    <3>4. /\ req'[w] = req[w] /\ NewRow(w, last)' = NewRow(w, last)
          /\ NewRow(w, first)' = NewRow(w, first)
      BY <1>2, <1>3, <1>4
    <3>5. (req[w].sender # req[w].receiver =>
             buf[w][req[w][first]] = NewRow(w, first))'
      BY <3>3, <3>4
    <3>6. (buf[w][req[w][last]] = NewRow(w, last))'
      BY <3>2, <3>4
    <3>7. ASSUME NEW b \in Accounts
          PROVE  (/\ buf[w][b] # NoRow => lock[b] = w
                  /\ pc[w] = "idle" => buf[w][b] = NoRow
                  /\ pc[w] # "idle" /\ b \notin {req[w].sender, req[w].receiver}
                       => buf[w][b] = NoRow
                  /\ pc[w] \in Searching \cup {"saveFirst"} /\ buf[w][b] # NoRow
                       => buf[w][b] = ZeroRow /\ players[b] = NoRow)'
      BY <2>3, <3>1, <3>4 DEF Searching
    <3> QED BY <2>3, <3>5, <3>6, <3>7 DEF BufferOK
  <2> QED BY <1>1, <1>5, <2>1, <2>4 DEF BufferInv, Labels
<1> QED BY <1>6, <1>7

\* What a commit publishes: the new rows of the two parties and nothing else.
LEMMA CommitEffect ==
  ASSUME BufferInv, NEW w \in Workers, Commit(w)
  PROVE  LET r == req[w]
         IN  /\ r \in Request /\ WithinLimits(r) /\ Authorised(r, authorities)
             /\ Accepts(r, copy[w]["sender"])
             /\ txs' = Append(txs, r)
             /\ players'[r[LastSaved(r)]] = NewRow(w, LastSaved(r))
             /\ r.sender # r.receiver =>
                  players'[r[FirstSaved(r)]] = NewRow(w, FirstSaved(r))
             /\ \A a \in Accounts \ {r.sender, r.receiver} :
                  players'[a] = players[a]
             /\ copy[w] \in [Roles -> Row]
             /\ Written(players, players', r, copy[w])
<1> DEFINE r == req[w]
<1>1. /\ pc[w] = "commit" /\ r \in Request /\ WithinLimits(r)
      /\ Authorised(r, authorities) /\ Accepts(r, copy[w]["sender"])
      /\ txs' = Append(txs, r)
      /\ \A a \in Accounts : players'[a] = View(w, a)
  BY DEF BufferInv, TypeInv, WorkerOK, Commit
<1>2. \A role \in Roles : NewRow(w, role) \in Row /\ r[role] \in Accounts
  BY <1>1, NewRowIsRow, RequestParts DEF BufferInv, HasReceiver
<1>3. FirstSaved(r) \in Roles /\ LastSaved(r) \in Roles
  BY <1>1, RequestParts
<1>4. BufferOK(w)
  BY DEF BufferInv
<1>5. /\ players'[r[LastSaved(r)]] = NewRow(w, LastSaved(r))
      /\ r.sender # r.receiver => players'[r[FirstSaved(r)]] = NewRow(w, FirstSaved(r))
      /\ \A a \in Accounts \ {r.sender, r.receiver} : players'[a] = players[a]
  BY <1>1, <1>2, <1>3, <1>4, NoRowAssumption DEF BufferOK, View
<1>6. copy[w] \in [Roles -> Row]
  <2>1. copy[w] \in [Roles -> Row \cup {NoRow}]
    BY DEF BufferInv, TypeInv, TypeOK
  <2>2. copy[w]["sender"] # NoRow /\ copy[w]["receiver"] # NoRow
    BY <1>1 DEF BufferInv, TypeInv, WorkerOK, HasSender, HasReceiver, Labels
  <2> QED BY <2>1, <2>2 DEF Roles
<1>7. Written(players, players', r, copy[w])
  <2> DEFINE new   == Settled(r, copy[w]["sender"], copy[w]["receiver"])
             first == FirstSaved(r)
             last  == LastSaved(r)
  <2>1. /\ players \in [Accounts -> Row \cup {NoRow}]
        /\ players' = [a \in Accounts |-> players'[a]]
    BY DEF BufferInv, TypeInv, TypeOK, TablesOK, Rows, Commit
  <2>2. \A role \in Roles : NewRow(w, role) = new[role]
    BY DEF NewRow
  <2>3. /\ first \in Roles /\ last \in Roles
        /\ r[first] \in Accounts /\ r[last] \in Accounts
        /\ {r[first], r[last]} = {r.sender, r.receiver}
    BY <1>1, RequestParts
  <2>4. \A a \in Accounts :
          players'[a] = IF a = r[last] THEN new[last]
                        ELSE IF a = r[first] THEN new[first] ELSE players[a]
    BY <1>5, <2>2, <2>3
  <2>5. players' = [players EXCEPT ![r[first]] = new[first], ![r[last]] = new[last]]
    <3> HIDE DEF first, last, new
    <3> QED BY <2>1, <2>3, <2>4
  <2> QED BY <2>5 DEF Written
<1> QED BY <1>1, <1>5, <1>6, <1>7

\* A commit touches only rows its worker had locked.
LEMMA CommitBuffers ==
  ASSUME BufferInv, NEW w \in Workers, Commit(w)
  PROVE  BufferInv'
<1>1. TypeInv'
  BY CommitTypes DEF BufferInv
<1>2. BufferOK(w)'
  BY EndBuffer DEF Commit
<1>3. ASSUME NEW v \in Workers \ {w} PROVE BufferOK(v)'
  <2>1. /\ pc'[v] = pc[v] /\ req'[v] = req[v] /\ copy'[v] = copy[v]
        /\ buf'[v] = buf[v]
        /\ \A a \in Accounts : lock[a] = v => lock'[a] = v
    BY DEF BufferInv, TypeInv, TypeOK, Commit, End
  <2>2. ASSUME NEW a \in Accounts, lock[a] = v PROVE players'[a] = players[a]
    BY <2>2 DEF BufferInv, BufferOK, Commit, View
  <2> QED BY <2>1, <2>2, OtherBuffer
<1> QED BY <1>1, <1>2, <1>3 DEF BufferInv

\* Initially nothing is written.
LEMMA BufferInit == Init => BufferInv
<1> SUFFICES ASSUME Init PROVE BufferInv
  OBVIOUS
<1>1. ASSUME NEW w \in Workers PROVE BufferOK(w)
  BY DEF Init, BufferOK, NoRows, Searching
<1> QED BY <1>1, TypeInit DEF BufferInv

\* Every step keeps uncommitted rows locked and computed from the copies.
LEMMA BufferStep == BufferInv /\ [Next]_vars => BufferInv'
<1> SUFFICES ASSUME BufferInv, [Next]_vars PROVE BufferInv'
  OBVIOUS
<1>0. TypeInv'
  BY TypeStep DEF BufferInv
<1>1. ASSUME UNCHANGED <<players, lock, pc, req, copy, buf>>
      PROVE  BufferInv'
  BY <1>0, <1>1, OtherBuffer DEF BufferInv
<1>2. ASSUME NEW w \in Workers, NEW r \in Request, Receive(w, r)
      PROVE  BufferInv'
  <2>1. /\ pc[w] = "idle" /\ pc' = [pc EXCEPT ![w] = "findSender"]
        /\ req' = [req EXCEPT ![w] = r]
        /\ UNCHANGED <<players, lock, copy, buf>>
    BY <1>2 DEF Receive, ledger
  <2>2. BufferOK(w)'
    BY <2>1 DEF BufferInv, TypeInv, TypeOK, BufferOK, Searching
  <2>3. ASSUME NEW v \in Workers \ {w} PROVE BufferOK(v)'
    <3>1. pc'[v] = pc[v] /\ req'[v] = req[v]
      BY <2>1 DEF BufferInv, TypeInv, TypeOK
    <3> QED BY <2>1, <3>1, OtherBuffer
  <2> QED BY <1>0, <2>2, <2>3 DEF BufferInv
<1>3. ASSUME NEW w \in Workers, FindSender(w) \/ FindReceiver(w)
      PROVE  BufferInv'
  BY <1>0, <1>3, FindBuffers DEF FindSender, FindReceiver, Searching, Roles
<1>4. ASSUME NEW w \in Workers, CreateSender(w) \/ CreateReceiver(w)
      PROVE  BufferInv'
  <2>1. CASE Rollback(w)
    BY <2>1, RollbackBuffers
  <2>2. CASE ~Rollback(w)
    BY <1>0, <1>4, <2>2, CreateBuffers
       DEF CreateSender, CreateReceiver, Searching, Roles
  <2> QED BY <2>1, <2>2
<1>5. ASSUME NEW w \in Workers, SaveFirst(w) \/ SaveLast(w)
      PROVE  BufferInv'
  BY <1>5, SaveBuffers
<1>6. ASSUME NEW w \in Workers, Commit(w)
      PROVE  BufferInv'
  BY <1>6, CommitBuffers
<1>7. ASSUME NEW w \in Workers, Reject(w) \/ DeadlockVictim(w) \/ Fail(w)
      PROVE  BufferInv'
  BY <1>7, RollbackBuffers DEF Reject, DeadlockVictim, Fail
<1>8. ASSUME NEW a \in Accounts, RegisterAuthority(a)
      PROVE  BufferInv'
  BY <1>1, <1>8 DEF RegisterAuthority, workers
<1>9. CASE UNCHANGED vars
  BY <1>1, <1>9 DEF vars, ledger, workers
<1> QED BY <1>2, <1>3, <1>4, <1>5, <1>6, <1>7, <1>8, <1>9 DEF Next, Advance

\* The tables only change in a commit, but for the authorities.
LEMMA OnlyCommits ==
  ASSUME [Next]_vars, ~(\E w \in Workers : Commit(w))
  PROVE  UNCHANGED <<players, txs, past, stale>>
  BY DEF Next, Advance, vars, ledger, Receive, FindSender, FindReceiver, Find,
         CreateSender, CreateReceiver, Create, Reject, SaveFirst, SaveLast, Save,
         DeadlockVictim, Fail, Rollback, RegisterAuthority

\* A commit spends the sender's nonce unless it pays itself, in which case the
\* receiver's copy is the one that stays.
LEMMA CommitNonces ==
  ASSUME BufferInv, NEW w \in Workers, Commit(w)
  PROVE  LET r == req[w]
         IN  /\ players'[r.sender] \in Row /\ players'[r.receiver] \in Row
             /\ r.sender # r.receiver =>
                  /\ players'[r.sender].nonce = r.nonce + 1
                  /\ players'[r.receiver].nonce = copy[w]["receiver"].nonce + 1
             /\ r.sender = r.receiver =>
                  players'[r.sender].nonce =
                    copy[w][IF r.type = "MINT" THEN "sender" ELSE "receiver"].nonce + 1
<1> DEFINE r == req[w]
<1>1. pc[w] \in HasReceiver
  BY DEF Commit, HasReceiver
<1>2. r \in Request /\ Accepts(r, copy[w]["sender"])
  BY CommitEffect
<1>3. /\ NewRow(w, "sender") \in Row /\ NewRow(w, "receiver") \in Row
      /\ NewRow(w, "sender").nonce = r.nonce + 1
      /\ NewRow(w, "sender").nonce = copy[w]["sender"].nonce + 1
      /\ NewRow(w, "receiver").nonce = copy[w]["receiver"].nonce + 1
  BY <1>1, <1>2, NewRowIsRow DEF BufferInv, Roles, Accepts
<1>4. r.type \in {"MINT", "TRANSFER"}
  BY <1>2, RequestParts
<1>5. /\ r.type = "MINT" => FirstSaved(r) = "receiver" /\ LastSaved(r) = "sender"
      /\ r.type # "MINT" => FirstSaved(r) = "sender" /\ LastSaved(r) = "receiver"
  BY DEF FirstSaved, LastSaved
<1>6. /\ players'[r[LastSaved(r)]] = NewRow(w, LastSaved(r))
      /\ r.sender # r.receiver =>
           players'[r[FirstSaved(r)]] = NewRow(w, FirstSaved(r))
  BY CommitEffect
<1>7. r.sender = r["sender"] /\ r.receiver = r["receiver"]
  OBVIOUS
<1>8. CASE r.type = "MINT"
  BY <1>3, <1>5, <1>6, <1>7, <1>8
<1>9. CASE r.type # "MINT"
  BY <1>3, <1>5, <1>6, <1>7, <1>9
<1> QED BY <1>8, <1>9

\* In every behaviour, and whatever the workers' copies were: a step that changes the
\* players table journals exactly one transaction, changes no third party's row
\* and spends the sender's nonce; an aborted submission changes nothing.
THEOREM CommitsAreWhole == Spec => WholeCommits
<1> DEFINE Whole == \/ UNCHANGED <<players, txs>>
                    \/ \E r \in Request :
                         /\ txs' = Append(txs, r)
                         /\ players'[r.receiver] # NoRow
                         /\ players'[r.sender] # NoRow
                         /\ r.sender # r.receiver =>
                              players'[r.sender].nonce = r.nonce + 1
                         /\ \A a \in Accounts \ {r.sender, r.receiver} :
                              players'[a] = players[a]
<1>1. BufferInv /\ [Next]_vars => Whole
  <2> SUFFICES ASSUME BufferInv, [Next]_vars PROVE Whole
    OBVIOUS
  <2>1. ASSUME NEW w \in Workers, Commit(w) PROVE Whole
    <3>1. /\ players'[req[w].sender] # NoRow
          /\ players'[req[w].receiver] # NoRow
          /\ req[w].sender # req[w].receiver =>
               players'[req[w].sender].nonce = req[w].nonce + 1
      BY <2>1, CommitNonces, NoRowAssumption
    <3> QED BY <2>1, <3>1, CommitEffect
  <2> QED BY <2>1, OnlyCommits
<1> QED BY <1>1, BufferInit, BufferStep, PTL DEF Spec, WholeCommits

-----------------------------------------------------------------------------
(* Reads.  What a worker holds was committed during its call: tables keep   *)
(* their place in the history, and a row it inserted stays its own.         *)

IdleOK(w) == pc[w] = "idle" => since[w] = 0

ReadInv == BufferInv /\ \A w \in Workers : ReadsOK(w) /\ IdleOK(w)

\* The tables of the past stay where they are: a commit puts the one it replaces
\* behind them.
LEMMA TablesStay ==
  ASSUME TypeInv, [Next]_vars
  PROVE  /\ Len(txs) \in Nat /\ Len(txs') \in Nat /\ Len(txs) <= Len(txs')
         /\ \A i \in 0 .. Len(txs) : Table(i)' = Table(i)
<1>1. /\ txs \in Seq(Request) /\ past \in Seq(Rows) /\ Len(past) = Len(txs)
  BY DEF TypeInv, TypeOK, TablesOK
<1>2. CASE UNCHANGED <<players, txs, past>>
  BY <1>1, <1>2 DEF Table
<1>3. ASSUME NEW w \in Workers, Commit(w)
      PROVE  /\ Len(txs') = Len(txs) + 1
             /\ \A i \in 0 .. Len(txs) : Table(i)' = Table(i)
  <2>1. txs' = Append(txs, req[w]) /\ past' = Append(past, players)
    BY <1>3 DEF Commit
  <2>2. players \in Rows /\ req[w] \in Request
    BY <1>3 DEF TypeInv, TypeOK, TablesOK, WorkerOK, Commit
  <2>3. /\ Len(txs') = Len(txs) + 1
        /\ past'[Len(txs) + 1] = players
        /\ \A i \in 1 .. Len(txs) : past'[i] = past[i]
    BY <1>1, <2>1, <2>2
  <2>4. ASSUME NEW i \in 0 .. Len(txs) PROVE Table(i)' = Table(i)
    <3>1. Table(i)' = past'[i + 1]
      BY <1>1, <2>3 DEF Table
    <3>2. CASE i < Len(txs)
      BY <1>1, <2>3, <3>1, <3>2 DEF Table
    <3>3. CASE i = Len(txs)
      BY <1>1, <2>3, <3>1, <3>3 DEF Table
    <3> QED BY <1>1, <3>2, <3>3
  <2> QED BY <2>3, <2>4
<1> QED BY <1>1, <1>2, <1>3, OnlyCommits

\* A step that leaves worker v and the rows it locked alone keeps what it has read.
LEMMA OtherReads ==
  ASSUME ReadInv, [Next]_vars, NEW v \in Workers,
         pc'[v] = pc[v], req'[v] = req[v], copy'[v] = copy[v],
         buf'[v] = buf[v], since'[v] = since[v],
         \A a \in Accounts : lock[a] = v => players'[a] = players[a]
  PROVE  ReadsOK(v)' /\ IdleOK(v)'
<1>1. ReadsOK(v) /\ IdleOK(v) /\ BufferOK(v) /\ WorkerOK(v) /\ since[v] \in Nat
  BY DEF ReadInv, BufferInv, TypeInv, TypeOK
<1>2. ASSUME NEW i \in since[v] .. Len(txs), NEW role \in Roles,
             pc[v] # "idle", ReadAt(v, role, i)
      PROVE  ReadAt(v, role, i)'
  <2>1. Table(i)' = Table(i)
    BY <1>1, TablesStay DEF ReadInv, BufferInv
  <2>2. req[v][role] \in Accounts
    BY <1>1, <1>2, RequestParts DEF WorkerOK
  <2>3. ReadAt(v, role, i)' <=>
          /\ copy'[v][role] = RowOrZero(Table(i)'[req'[v][role]])
          /\ Table(i)'[req'[v][role]] = NoRow =>
               buf'[v][req'[v][role]] # NoRow /\ players'[req'[v][role]] = NoRow
    BY DEF ReadAt
  <2> QED BY <1>1, <1>2, <2>1, <2>2, <2>3 DEF ReadAt, BufferOK
<1>3. CASE pc[v] # "idle"
  <2>1. PICK i \in since[v] .. Len(txs), j \in since[v] .. Len(txs) :
          /\ i <= j
          /\ pc[v] \in HasSender => ReadAt(v, "sender", i)
          /\ pc[v] \in HasReceiver => ReadAt(v, "receiver", j)
    BY <1>1, <1>3 DEF ReadsOK
  <2>2. i \in since'[v] .. Len(txs') /\ j \in since'[v] .. Len(txs')
    BY <1>1, TablesStay DEF ReadInv, BufferInv
  <2>3. /\ pc'[v] \in HasSender => ReadAt(v, "sender", i)'
        /\ pc'[v] \in HasReceiver => ReadAt(v, "receiver", j)'
    BY <1>2, <1>3, <2>1 DEF Roles
  <2>4. ReadsOK(v)'
    BY <2>1, <2>2, <2>3 DEF ReadsOK
  <2> QED BY <1>3, <2>4 DEF IdleOK
<1>4. CASE pc[v] = "idle"
  BY <1>1, <1>4 DEF ReadsOK, IdleOK
<1> QED BY <1>3, <1>4

\* What worker w reads now is the last table, or the row it has inserted.
LEMMA ReadNow ==
  ASSUME ReadInv, [Next]_vars, NEW w \in Workers, NEW role \in Roles,
         pc[w] \in Searching, req'[w] = req[w],
         \/ /\ View(w, req[w][role]) # NoRow
            /\ copy'[w][role] = View(w, req[w][role])
            /\ buf' = buf /\ players' = players
         \/ /\ players[req[w][role]] = NoRow /\ players' = players
            /\ copy'[w][role] = ZeroRow
            /\ buf'[w][req[w][role]] # NoRow
  PROVE  ReadAt(w, role, Len(txs))'
<1> DEFINE a == req[w][role]
<1>1. /\ req[w] \in Request /\ a \in Accounts /\ BufferOK(w)
      /\ txs \in Seq(Request) /\ Len(txs) \in Nat
  BY RequestParts DEF ReadInv, BufferInv, TypeInv, TypeOK, TablesOK, WorkerOK, Searching
<1>2. Table(Len(txs))' = Table(Len(txs)) /\ Table(Len(txs)) = players
  BY <1>1, TablesStay DEF ReadInv, BufferInv, Table
<1>3. players' = players /\ copy'[w][role] = RowOrZero(players[a])
      /\ (players[a] = NoRow => buf'[w][a] # NoRow)
  BY <1>1 DEF BufferOK, View, RowOrZero
<1> HIDE DEF a
<1>4. Table(Len(txs))'[a] = players[a]
  BY <1>2
<1>5. ReadAt(w, role, Len(txs))' <=>
        /\ copy'[w][role] = RowOrZero(Table(Len(txs))'[req'[w][role]])
        /\ Table(Len(txs))'[req'[w][role]] = NoRow =>
             buf'[w][req'[w][role]] # NoRow /\ players'[req'[w][role]] = NoRow
  BY DEF ReadAt
<1> QED BY <1>3, <1>4, <1>5 DEF a

\* A step that keeps w's copies, and at most adds to what it wrote, keeps what they
\* are read from.
LEMMA SameReads ==
  ASSUME ReadInv, [Next]_vars, NEW w \in Workers, pc[w] # "idle",
         req'[w] = req[w], since'[w] = since[w], players' = players,
         \A a \in Accounts : buf[w][a] # NoRow => buf'[w][a] # NoRow
  PROVE  \E i, j \in since[w] .. Len(txs) :
           /\ i <= j
           /\ pc[w] \in HasSender /\ copy'[w]["sender"] = copy[w]["sender"]
                => ReadAt(w, "sender", i)'
           /\ pc[w] \in HasReceiver /\ copy'[w]["receiver"] = copy[w]["receiver"]
                => ReadAt(w, "receiver", j)'
<1>1. ReadsOK(w) /\ since[w] \in Nat /\ req[w] \in Request
  BY DEF ReadInv, BufferInv, TypeInv, TypeOK, WorkerOK
<1>2. ASSUME NEW i \in since[w] .. Len(txs), NEW role \in Roles,
             ReadAt(w, role, i), copy'[w][role] = copy[w][role]
      PROVE  ReadAt(w, role, i)'
  <2>1. Table(i)' = Table(i)
    BY <1>1, TablesStay DEF ReadInv, BufferInv
  <2>2. req[w][role] \in Accounts
    BY <1>1, RequestParts
  <2>3. ReadAt(w, role, i)' <=>
          /\ copy'[w][role] = RowOrZero(Table(i)'[req'[w][role]])
          /\ Table(i)'[req'[w][role]] = NoRow =>
               buf'[w][req'[w][role]] # NoRow /\ players'[req'[w][role]] = NoRow
    BY DEF ReadAt
  <2> QED BY <1>2, <2>1, <2>2, <2>3 DEF ReadAt
<1>3. PICK i \in since[w] .. Len(txs), j \in since[w] .. Len(txs) :
        /\ i <= j
        /\ pc[w] \in HasSender => ReadAt(w, "sender", i)
        /\ pc[w] \in HasReceiver => ReadAt(w, "receiver", j)
  BY <1>1 DEF ReadsOK
<1> QED BY <1>2, <1>3 DEF Roles

\* The statements of FindOrCreate: the copy just made is of now, the one made
\* before is of no later.
LEMMA FindOrCreateReads ==
  ASSUME ReadInv, [Next]_vars, NEW w \in Workers,
         \/ FindSender(w) \/ CreateSender(w)
         \/ FindReceiver(w) \/ CreateReceiver(w),
         ~Rollback(w)
  PROVE  ReadsOK(w)'
<1>1. /\ pc[w] \in Searching /\ pc[w] # "idle" /\ since[w] \in Nat
      /\ req[w] \in Request /\ TypeInv /\ BufferInv /\ WorkerOK(w) /\ ReadsOK(w)
  BY DEF ReadInv, BufferInv, TypeInv, TypeOK, WorkerOK, Searching, FindSender,
         CreateSender, FindReceiver, CreateReceiver
<1>2. /\ req' = req /\ since' = since /\ players' = players /\ txs' = txs
      /\ \A a \in Accounts : buf[w][a] # NoRow => buf'[w][a] # NoRow
  <2>1. /\ req' = req /\ since' = since /\ players' = players /\ txs' = txs
    BY DEF FindSender, CreateSender, FindReceiver, CreateReceiver, Find, Create, ledger
  <2>2. buf' = buf \/ \E a \in Accounts : buf' = [buf EXCEPT ![w][a] = ZeroRow]
    BY <1>1, RequestParts
       DEF FindSender, CreateSender, FindReceiver, CreateReceiver, Find, Create, Put,
           Roles
  <2>3. buf \in [Workers -> [Accounts -> Row \cup {NoRow}]]
    BY DEF ReadInv, BufferInv, TypeInv, TypeOK
  <2>4. \A a \in Accounts : buf[w][a] # NoRow => buf'[w][a] # NoRow
    BY <2>2, <2>3, ZeroIsRow
  <2> QED BY <2>1, <2>4
<1>3. PICK i \in since[w] .. Len(txs), j \in since[w] .. Len(txs) :
        /\ i <= j
        /\ pc[w] \in HasSender /\ copy'[w]["sender"] = copy[w]["sender"]
             => ReadAt(w, "sender", i)'
        /\ pc[w] \in HasReceiver /\ copy'[w]["receiver"] = copy[w]["receiver"]
             => ReadAt(w, "receiver", j)'
  BY <1>1, <1>2, SameReads
<1>4. Len(txs) \in since[w] .. Len(txs) /\ i <= Len(txs) /\ since'[w] = since[w]
      /\ Len(txs)' = Len(txs)
  BY <1>1, <1>2, <1>3, TablesStay
<1>5. CASE FindSender(w) \/ CreateSender(w)
  <2>1. pc'[w] = "createSender" \/ ReadAt(w, "sender", Len(txs))'
    <3>1. CASE FindSender(w)
      <4>1. Find(w, "sender", "createSender", "findReceiver")
        BY <3>1 DEF FindSender
      <4>2. View(w, req[w]["sender"]) \in Row \cup {NoRow}
        BY <1>1, RequestParts DEF View, TypeInv, TypeOK, TablesOK, Rows, Roles
      <4>3. CASE View(w, req[w]["sender"]) = NoRow
        BY <4>1, <4>3 DEF Find, TypeInv, TypeOK, ReadInv, BufferInv
      <4>4. CASE View(w, req[w]["sender"]) # NoRow
        <5>1. copy'[w]["sender"] = View(w, req[w]["sender"]) /\ buf' = buf
          BY <1>1, <4>1, <4>2, <4>4, CopyAssigned DEF Find, Roles
        <5> QED BY <1>1, <1>2, <4>4, <5>1, ReadNow DEF Roles
      <4> QED BY <4>3, <4>4
    <3>2. CASE CreateSender(w)
      <4>1. /\ players[req[w]["sender"]] = NoRow
            /\ copy' = [copy EXCEPT ![w]["sender"] = ZeroRow]
            /\ buf' = [buf EXCEPT ![w][req[w]["sender"]] = ZeroRow]
        BY <3>2 DEF CreateSender, Create, Put
      <4>2. copy'[w]["sender"] = ZeroRow
        BY <1>1, <4>1, ZeroIsRow, CopyAssigned DEF Roles
      <4>3. buf'[w][req[w]["sender"]] # NoRow
        BY <1>1, <4>1, ZeroIsRow, RequestParts DEF TypeInv, TypeOK, Roles
      <4> QED BY <1>1, <1>2, <4>1, <4>2, <4>3, ReadNow DEF Roles
    <3> QED BY <1>5, <3>1, <3>2
  <2>2. pc'[w] \in {"createSender", "findReceiver"}
    BY <1>5 DEF FindSender, CreateSender, Find, Create, TypeInv, TypeOK, ReadInv,
                BufferInv
  <2>3. pc'[w] \in HasSender => ReadAt(w, "sender", Len(txs))'
    BY <2>1 DEF HasSender
  <2>4. pc'[w] \notin HasReceiver
    BY <2>2 DEF HasReceiver
  <2> QED BY <1>4, <2>3, <2>4 DEF ReadsOK
<1>6. CASE FindReceiver(w) \/ CreateReceiver(w)
  <2>0. pc[w] \in HasSender
    BY <1>6 DEF FindReceiver, CreateReceiver, HasSender, Labels
  <2>1. /\ copy'[w]["sender"] = copy[w]["sender"]
        /\ pc'[w] = "createReceiver" \/ ReadAt(w, "receiver", Len(txs))'
    <3>1. CASE FindReceiver(w)
      <4>1. Find(w, "receiver", "createReceiver", "saveFirst")
        BY <3>1 DEF FindReceiver
      <4>2. View(w, req[w]["receiver"]) \in Row \cup {NoRow}
        BY <1>1, RequestParts DEF View, TypeInv, TypeOK, TablesOK, Rows, Roles
      <4>3. CASE View(w, req[w]["receiver"]) = NoRow
        BY <4>1, <4>3 DEF Find, TypeInv, TypeOK, ReadInv, BufferInv
      <4>4. CASE View(w, req[w]["receiver"]) # NoRow
        <5>1. /\ copy'[w]["receiver"] = View(w, req[w]["receiver"]) /\ buf' = buf
              /\ copy'[w]["sender"] = copy[w]["sender"]
          BY <1>1, <4>1, <4>2, <4>4, CopyAssigned DEF Find, Roles
        <5>2. ReadAt(w, "receiver", Len(txs))'
          BY <1>1, <1>2, <4>4, <5>1, ReadNow DEF Roles
        <5> QED BY <5>1, <5>2
      <4> QED BY <4>3, <4>4
    <3>2. CASE CreateReceiver(w)
      <4>1. /\ players[req[w]["receiver"]] = NoRow
            /\ copy' = [copy EXCEPT ![w]["receiver"] = ZeroRow]
            /\ buf' = [buf EXCEPT ![w][req[w]["receiver"]] = ZeroRow]
        BY <3>2 DEF CreateReceiver, Create, Put
      <4>2. copy'[w]["receiver"] = ZeroRow /\ copy'[w]["sender"] = copy[w]["sender"]
        BY <1>1, <4>1, ZeroIsRow, CopyAssigned DEF Roles
      <4>3. buf'[w][req[w]["receiver"]] # NoRow
        BY <1>1, <4>1, ZeroIsRow, RequestParts DEF TypeInv, TypeOK, Roles
      <4>4. ReadAt(w, "receiver", Len(txs))'
        BY <1>1, <1>2, <4>1, <4>2, <4>3, ReadNow DEF Roles
      <4> QED BY <4>2, <4>4
    <3> QED BY <1>6, <3>1, <3>2
  <2>2. pc'[w] \in HasReceiver => ReadAt(w, "receiver", Len(txs))'
    BY <2>1 DEF HasReceiver
  <2> QED BY <1>3, <1>4, <2>0, <2>1, <2>2 DEF ReadsOK
<1> QED BY <1>5, <1>6

\* Initially no worker has read anything.
LEMMA ReadInit == Init => ReadInv
BY BufferInit DEF Init, ReadInv, ReadsOK, IdleOK

\* A worker whose transaction ends holds nothing.
LEMMA EndReads ==
  ASSUME ReadInv, NEW w \in Workers, End(w)
  PROVE  ReadsOK(w)' /\ IdleOK(w)'
BY DEF ReadInv, BufferInv, TypeInv, TypeOK, End, ReadsOK, IdleOK

\* Every step of every worker keeps what the workers have read.
LEMMA ReadStep == ReadInv /\ [Next]_vars => ReadInv'
<1> SUFFICES ASSUME ReadInv, [Next]_vars PROVE ReadInv'
  OBVIOUS
<1>0. BufferInv' /\ BufferInv /\ TypeOK
  BY BufferStep DEF ReadInv, BufferInv, TypeInv
<1>1. ASSUME UNCHANGED <<players, workers>> PROVE ReadInv'
  BY <1>0, <1>1, OtherReads DEF ReadInv, workers
<1>2. ASSUME NEW w \in Workers, NEW r \in Request, Receive(w, r) PROVE ReadInv'
  <2>1. /\ pc[w] = "idle" /\ pc' = [pc EXCEPT ![w] = "findSender"]
        /\ req' = [req EXCEPT ![w] = r] /\ since' = [since EXCEPT ![w] = Len(txs)]
        /\ UNCHANGED <<players, txs, copy, buf>>
    BY <1>2 DEF Receive, ledger
  <2>2. /\ Len(txs) \in since'[w] .. Len(txs') /\ pc'[w] = "findSender"
        /\ Len(txs) <= Len(txs)
    BY <1>0, <2>1, TablesStay DEF TypeOK, ReadInv, BufferInv
  <2>3. ReadsOK(w)' /\ IdleOK(w)'
    BY <2>2 DEF ReadsOK, IdleOK, HasSender, HasReceiver
  <2>4. ASSUME NEW v \in Workers \ {w} PROVE ReadsOK(v)' /\ IdleOK(v)'
    BY <1>0, <2>1, OtherReads DEF TypeOK
  <2> QED BY <1>0, <2>3, <2>4 DEF ReadInv
<1>3. ASSUME NEW w \in Workers, Rollback(w) \/ Commit(w) PROVE ReadInv'
  <2>1. End(w)
    BY <1>3 DEF Rollback, Commit
  <2>2. ReadsOK(w)' /\ IdleOK(w)'
    BY <2>1, EndReads
  <2>3. ASSUME NEW v \in Workers \ {w} PROVE ReadsOK(v)' /\ IdleOK(v)'
    <3>1. /\ pc'[v] = pc[v] /\ req'[v] = req[v] /\ copy'[v] = copy[v]
          /\ buf'[v] = buf[v] /\ since'[v] = since[v]
      BY <1>0, <2>1 DEF TypeOK, End
    <3>2. ASSUME NEW a \in Accounts, lock[a] = v PROVE players'[a] = players[a]
      BY <1>0, <1>3, <3>2 DEF BufferInv, BufferOK, Rollback, Commit, View, ledger
    <3> QED BY <3>1, <3>2, OtherReads
  <2> QED BY <1>0, <2>2, <2>3 DEF ReadInv
<1>4. ASSUME NEW w \in Workers, ~Rollback(w),
             \/ FindSender(w) \/ CreateSender(w)
             \/ FindReceiver(w) \/ CreateReceiver(w)
      PROVE  ReadInv'
  <2>1. ReadsOK(w)'
    BY <1>4, FindOrCreateReads
  <2>2. pc'[w] # "idle"
    BY <1>0, <1>4 DEF TypeOK, FindSender, CreateSender, FindReceiver, CreateReceiver,
       Find, Create
  <2>3. /\ players' = players /\ req' = req /\ since' = since
        /\ \A v \in Workers \ {w} :
             pc'[v] = pc[v] /\ copy'[v] = copy[v] /\ buf'[v] = buf[v]
    <3>1. CASE FindSender(w) \/ FindReceiver(w)
      BY <1>0, <3>1 DEF TypeOK, FindSender, FindReceiver, Find, ledger
    <3>2. CASE CreateSender(w) \/ CreateReceiver(w)
      BY <1>0, <1>4, <3>2 DEF TypeOK, CreateSender, CreateReceiver, Create, Put, ledger
    <3> QED BY <1>4, <3>1, <3>2
  <2>4. ASSUME NEW v \in Workers \ {w} PROVE ReadsOK(v)' /\ IdleOK(v)'
    BY <2>3, OtherReads
  <2> QED BY <1>0, <2>1, <2>2, <2>4 DEF ReadInv, IdleOK
<1>5. ASSUME NEW w \in Workers, SaveFirst(w) \/ SaveLast(w) PROVE ReadInv'
  <2>1. /\ req[w] \in Request /\ pc[w] \in {"saveFirst", "saveLast"}
        /\ Accepts(req[w], copy[w]["sender"])
    BY <1>0, <1>5 DEF BufferInv, TypeInv, WorkerOK, SaveFirst, SaveLast
  <2>2. PICK role \in Roles, next \in {"saveLast", "commit"} : Save(w, role, next)
    BY <1>5, <2>1, RequestParts DEF SaveFirst, SaveLast
  <2>3. NewRow(w, role) \in Row /\ NewRow(w, role) # NoRow /\ req[w][role] \in Accounts
    BY <1>0, <2>1, NewRowIsRow, RequestParts, NoRowAssumption DEF BufferInv, HasReceiver
  <2>4. /\ players' = players /\ txs' = txs /\ req' = req /\ since' = since
        /\ copy' = copy
        /\ pc'[w] \in {"saveLast", "commit"}
        /\ buf' = [buf EXCEPT ![w][req[w][role]] = NewRow(w, role)]
        /\ \A v \in Workers \ {w} : pc'[v] = pc[v] /\ buf'[v] = buf[v]
    BY <1>0, <2>2 DEF TypeOK, Save, Put, ledger
  <2>5. \A a \in Accounts : buf[w][a] # NoRow => buf'[w][a] # NoRow
    BY <1>0, <2>3, <2>4 DEF TypeOK
  <2>6. PICK i \in since[w] .. Len(txs), j \in since[w] .. Len(txs) :
          /\ i <= j
          /\ pc[w] \in HasSender => ReadAt(w, "sender", i)'
          /\ pc[w] \in HasReceiver => ReadAt(w, "receiver", j)'
    BY <2>1, <2>4, <2>5, SameReads
  <2>7. ReadsOK(w)' /\ IdleOK(w)'
    BY <2>1, <2>4, <2>6 DEF ReadsOK, IdleOK, HasSender, HasReceiver, Labels
  <2>8. ASSUME NEW v \in Workers \ {w} PROVE ReadsOK(v)' /\ IdleOK(v)'
    BY <2>4, OtherReads
  <2> QED BY <1>0, <2>7, <2>8 DEF ReadInv
<1>6. ASSUME NEW a \in Accounts, RegisterAuthority(a) PROVE ReadInv'
  BY <1>1, <1>6 DEF RegisterAuthority
<1>7. CASE UNCHANGED vars
  BY <1>1, <1>7 DEF vars, ledger
<1> QED BY <1>2, <1>3, <1>4, <1>5, <1>6, <1>7
        DEF Next, Advance, Reject, DeadlockVictim, Fail

\* WorkersConsistent: what an open transaction wrote is locked by it and computed
\* from its copies, and these are what the tables were at two instants of its call,
\* the sender's row first.
THEOREM StaysConsistent == Spec => []WorkersConsistent
<1>1. ReadInv => WorkersConsistent
  BY DEF ReadInv, BufferInv, TypeInv, WorkersConsistent
<1> QED BY <1>1, ReadInit, ReadStep, PTL DEF Spec

-----------------------------------------------------------------------------
(* Refinement.  A commit settles its request on rows that were committed     *)
(* during the call; every other statement leaves the tables alone.           *)

\* The rows a worker commits from are among those its call can have found.
LEMMA CommitSettles ==
  ASSUME ReadInv, NEW w \in Workers, Commit(w)
  PROVE  Settle(req[w], since[w])
<1> DEFINE r == req[w]
<1>1. /\ r \in Request /\ WithinLimits(r) /\ Authorised(r, authorities)
      /\ Accepts(r, copy[w]["sender"])
      /\ Written(players, players', r, copy[w])
      /\ copy[w] \in [Roles -> Row]
  BY CommitEffect DEF ReadInv
<1>2. PICK i \in since[w] .. Len(txs), j \in since[w] .. Len(txs) :
        i <= j /\ ReadAt(w, "sender", i) /\ ReadAt(w, "receiver", j)
  BY DEF ReadInv, ReadsOK, Commit, HasSender, HasReceiver, Labels
<1> DEFINE found == [sender |-> Table(i)[r.sender], receiver |-> Table(j)[r.receiver]]
<1>3. r["sender"] = r.sender /\ r["receiver"] = r.receiver
  OBVIOUS
<1>4. /\ copy[w]["sender"] = RowOrZero(found["sender"])
      /\ copy[w]["receiver"] = RowOrZero(found["receiver"])
      /\ Insertable(r, found)
  BY <1>2, <1>3 DEF ReadAt, Insertable, Roles
<1>5. Found(found) = copy[w]
  <2>1. Found(found) = [role \in Roles |-> RowOrZero(found[role])]
    BY DEF Found
  <2>2. \A role \in Roles : RowOrZero(found[role]) = copy[w][role]
    BY <1>4 DEF Roles
  <2> HIDE DEF found
  <2> QED BY <1>1, <2>1, <2>2
<1>6. found \in Reads(r, since[w])
  <2>1. since[w] \in Nat /\ Len(txs) \in Nat
    BY DEF ReadInv, BufferInv, TypeInv, TypeOK, TablesOK
  <2>2. j \in i .. Len(txs)
    BY <1>2, <2>1
  <2> HIDE DEF r
  <2> QED BY <1>2, <2>2 DEF Reads
<1>7. Write(r, copy[w])
  BY <1>1 DEF Write, Written, Commit
<1> HIDE DEF found
<1> QED BY <1>1, <1>4, <1>5, <1>6, <1>7 DEF Settle, SettleFrom, Admitted

\* The instance's copies of the operators are the ones of LedgerTables: the checks,
LEMMA SameChecks ==
  /\ \A row : Abstract!RowOrZero(row) = RowOrZero(row)
  /\ \A r : /\ Abstract!Admitted(r) <=> Admitted(r)
           /\ Abstract!FirstSaved(r) = FirstSaved(r)
           /\ Abstract!LastSaved(r) = LastSaved(r)
  /\ \A r, snd : Abstract!Accepts(r, snd) <=> Accepts(r, snd)
  /\ Abstract!Roles = Roles /\ Abstract!Request = Request
  BY DEF RowOrZero, ZeroRow, Admitted, WithinLimits, MaxAmount, FirstSaved, LastSaved,
         Authorised, Accepts, Funded, Roles, Request, Abstract!RowOrZero,
         Abstract!ZeroRow, Abstract!Admitted, Abstract!WithinLimits,
         Abstract!MaxAmount, Abstract!FirstSaved, Abstract!LastSaved,
         Abstract!Authorised, Abstract!Accepts, Abstract!Funded, Abstract!Roles,
         Abstract!Request

\* what a settlement computes,
LEMMA SameRows ==
  \A r, snd, rcv : Abstract!Settled(r, snd, rcv) = Settled(r, snd, rcv)
<1>1. \A r, snd, rcv : Abstract!SettledMint(r, snd, rcv) = SettledMint(r, snd, rcv)
  BY DEF SettledMint, AsPlayerState, PlayerCompleteMission, Calculation,
         ClampUint8, Uint8, Int8, Abstract!SettledMint,
         Abstract!AsPlayerState, Abstract!PlayerCompleteMission,
         Abstract!Calculation, Abstract!ClampUint8, Abstract!Uint8,
         Abstract!Int8
<1>2. \A r, snd, rcv :
        Abstract!SettledTransfer(r, snd, rcv) = SettledTransfer(r, snd, rcv)
  BY DEF SettledTransfer, AsPlayerState, PlayerTransactions, ClampUint8, Uint8,
         Abstract!SettledTransfer, Abstract!AsPlayerState,
         Abstract!PlayerTransactions, Abstract!ClampUint8, Abstract!Uint8
<1> QED BY <1>1, <1>2 DEF Settled, Abstract!Settled

\* and what a commit may have read and writes.
LEMMA SameSettle ==
  ASSUME NEW r, NEW n, Settle(r, n)
  PROVE  Abstract!Settle(r, n)
<1>1. PICK found \in Reads(r, n) : SettleFrom(r, found)
  BY DEF Settle
<1>2. \A i : Abstract!Table(i) = Table(i)
  BY DEF Table, Abstract!Table
<1>3. Abstract!Reads(r, n) = Reads(r, n)
  BY <1>2 DEF Reads, Abstract!Reads
<1>4. Abstract!Found(found) = Found(found)
  BY SameChecks DEF Found, Abstract!Found
<1>5. Abstract!Insertable(r, found)
  BY <1>1, SameChecks DEF SettleFrom, Insertable, Abstract!Insertable
<1>6. \A copied : Abstract!Overtaken(r, copied) = Overtaken(r, copied)
  BY SameChecks DEF Overtaken, Abstract!Overtaken
<1>7. \A copied : Write(r, copied) => Abstract!Write(r, copied)
  BY <1>6, SameChecks, SameRows DEF Write, Abstract!Write
<1>8. Abstract!SettleFrom(r, found)
  BY <1>1, <1>4, <1>5, <1>7, SameChecks DEF SettleFrom, Abstract!SettleFrom
<1> QED BY <1>1, <1>3, <1>8 DEF Abstract!Settle

\* What a worker has open is none exactly while it is idle.
LEMMA OpenWhenBusy ==
  ASSUME ReadInv, NEW w \in Workers
  PROVE  Open[w] = Abstract!Closed <=> pc[w] = "idle"
<1>1. WorkerOK(w) /\ IdleOK(w)
  BY DEF ReadInv, BufferInv, TypeInv
<1> QED BY <1>1, WorkersAssumption DEF Open, Abstract!Closed, WorkerOK, IdleOK

\* A transaction that ends closes what its worker had open.
LEMMA EndCloses ==
  ASSUME ReadInv, NEW w \in Workers, End(w)
  PROVE  Open' = [Open EXCEPT ![w] = Abstract!Closed]
BY DEF ReadInv, BufferInv, TypeInv, TypeOK, End, Open, Abstract!Closed

\* Every statement is a step or a stutter of the abstract ledger.
LEMMA StepRefines ==
  ASSUME ReadInv, [Next]_vars
  PROVE  [Abstract!Next]_(Abstract!vars)
<1>1. ASSUME UNCHANGED <<players, txs, authorities, past, stale, req, since>>
      PROVE  UNCHANGED Abstract!vars
  BY <1>1 DEF Abstract!vars, Abstract!ledger, Open
<1>2. ASSUME NEW w \in Workers, NEW r \in Request, Receive(w, r)
      PROVE  Abstract!Next
  <2>1. Open[w] = Abstract!Closed
    BY <1>2, OpenWhenBusy DEF Receive
  <2>2. Open' = [Open EXCEPT ![w] = [req |-> r, since |-> Len(txs)]]
    BY <1>2 DEF ReadInv, BufferInv, TypeInv, TypeOK, Receive, Open
  <2>3. Abstract!Begin(w, r)
    BY <1>2, <2>1, <2>2, SameChecks DEF Abstract!Begin, Receive, ledger, Abstract!ledger
  <2> QED BY <2>3, SameChecks DEF Abstract!Next
<1>3. ASSUME NEW w \in Workers, Rollback(w) PROVE [Abstract!Next]_(Abstract!vars)
  <2>1. /\ Open' = [Open EXCEPT ![w] = Abstract!Closed]
        /\ UNCHANGED <<players, txs, authorities, past, stale>>
    BY <1>3, EndCloses DEF Rollback, ledger
  <2>2. CASE Open[w] = Abstract!Closed
    <3>1. Open' = Open
      BY <2>1, <2>2 DEF Open
    <3> QED BY <2>1, <3>1 DEF Abstract!vars, Abstract!ledger
  <2>3. CASE Open[w] # Abstract!Closed
    BY <2>1, <2>3 DEF Abstract!Drop, Abstract!Next, Abstract!ledger
  <2> QED BY <2>2, <2>3
<1>4. ASSUME NEW w \in Workers, Commit(w) PROVE Abstract!Next
  <2>1. Open[w] # Abstract!Closed
    BY <1>4, OpenWhenBusy DEF Commit
  <2>2. Open' = [Open EXCEPT ![w] = Abstract!Closed]
    BY <1>4, EndCloses DEF Commit
  <2>3. Abstract!Settle(Open[w].req, Open[w].since)
    BY <1>4, CommitSettles, SameSettle DEF Open
  <2> QED BY <2>1, <2>2, <2>3 DEF Abstract!Commit, Abstract!Next
<1>5. ASSUME NEW w \in Workers, ~Rollback(w),
             \/ FindSender(w) \/ CreateSender(w)
             \/ FindReceiver(w) \/ CreateReceiver(w)
             \/ SaveFirst(w) \/ SaveLast(w)
      PROVE  UNCHANGED Abstract!vars
  BY <1>1, <1>5 DEF FindSender, CreateSender, FindReceiver, CreateReceiver, SaveFirst,
     SaveLast, Find, Create, Save, ledger
<1>6. ASSUME NEW a \in Accounts, RegisterAuthority(a) PROVE Abstract!Next
  <2>1. Open' = Open
    BY <1>6 DEF RegisterAuthority, workers, Open
  <2>2. Abstract!RegisterAuthority(a)
    BY <1>6, <2>1 DEF RegisterAuthority, Abstract!RegisterAuthority
  <2> QED BY <2>2 DEF Abstract!Next
<1>7. CASE UNCHANGED vars
  BY <1>1, <1>7 DEF vars, ledger, workers
<1> QED BY <1>2, <1>3, <1>4, <1>5, <1>6, <1>7
        DEF Next, Advance, Reject, DeadlockVictim, Fail

\* ImplementsAbstract: whatever statements interleave, fail or deadlock, the callers
\* see whole submissions, each computed from rows committed during its call.
THEOREM Refinement == Spec => ImplementsAbstract
<1>1. Init => Abstract!Init
  BY DEF Init, TablesInit, Open, Abstract!Init, Abstract!TablesInit, Abstract!Closed
<1>2. ReadInv /\ [Next]_vars => [Abstract!Next]_(Abstract!vars)
  BY StepRefines
<1> QED BY <1>1, <1>2, ReadInit, ReadStep, PTL
        DEF Spec, ImplementsAbstract, Abstract!Spec

-----------------------------------------------------------------------------
(* Nonces.  Unless a row is written from a copy that is behind, its nonce    *)
(* only rises, and stays above every nonce journalled for it.                *)

JournalInv == ReadInv /\ NoncesSpent /\ ReplayNeedsStaleWrite

\* A commit journals a nonce its sender had not used, unless its copy was behind.
LEMMA CommitJournal ==
  ASSUME JournalInv, NEW w \in Workers, Commit(w)
  PROVE  NoncesSpent' /\ ReplayNeedsStaleWrite'
<1> DEFINE r == req[w]
           n == Len(txs)
<1>1. /\ r \in Request /\ Accepts(r, copy[w]["sender"])
      /\ Written(players, players', r, copy[w])
      /\ copy[w] \in [Roles -> Row]
      /\ txs' = Append(txs, r)
  BY CommitEffect DEF JournalInv, ReadInv
<1>2. /\ txs \in Seq(Request) /\ players \in [Accounts -> Row \cup {NoRow}]
  BY DEF JournalInv, ReadInv, BufferInv, TypeInv, TypeOK, TablesOK, Rows
<1>3. txs \in Seq(AnyRequest) /\ r \in AnyRequest
  BY <1>1, <1>2, RequestIsAny
<1>4. stale' = stale \cup Behind(players, r, copy[w])
  BY DEF Commit, Overtaken, Behind
<1>5. SpentIn(players, txs, stale)
  BY DEF JournalInv, NoncesSpent, SpentIn, NonceIn
<1> HIDE DEF r
<1>6. /\ SpentIn(players', txs', stale')
      /\ \A i \in DOMAIN txs : txs[i].sender = r.sender /\ txs[i].nonce = r.nonce
           => r.sender \in stale'
  BY <1>1, <1>2, <1>3, <1>4, <1>5, WrittenSpends
<1>7. NoncesSpent'
  BY <1>6 DEF NoncesSpent, SpentIn, NonceIn
<1>8. /\ DOMAIN txs = 1 .. n /\ DOMAIN txs' = 1 .. (n + 1) /\ n \in Nat
      /\ txs'[n + 1] = r
      /\ \A i \in 1 .. n : txs'[i] = txs[i]
  BY <1>1, <1>2
<1>9. ReplayNeedsStaleWrite'
  <2> SUFFICES ASSUME NEW i \in 1 .. (n + 1), NEW j \in 1 .. (n + 1),
                      txs'[i].sender = txs'[j].sender,
                      txs'[i].nonce = txs'[j].nonce, i # j
               PROVE  txs'[i].sender \in stale'
    BY <1>8 DEF ReplayNeedsStaleWrite
  <2>1. CASE i \in 1 .. n /\ j \in 1 .. n
    BY <1>4, <1>8, <2>1 DEF JournalInv, ReplayNeedsStaleWrite
  <2>2. CASE i = n + 1 \/ j = n + 1
    BY <1>6, <1>8, <2>2
  <2> QED BY <1>8, <2>1, <2>2
<1> QED BY <1>7, <1>9

\* Initially the journal is empty.
LEMMA JournalInit == Init => JournalInv
<1> SUFFICES ASSUME Init PROVE JournalInv
  OBVIOUS
<1>1. DOMAIN txs = {}
  BY DEF Init, TablesInit
<1> QED BY <1>1, ReadInit DEF JournalInv, NoncesSpent, ReplayNeedsStaleWrite

\* Every other step leaves rows, journal and history alone.
LEMMA JournalStep == JournalInv /\ [Next]_vars => JournalInv'
<1> SUFFICES ASSUME JournalInv, [Next]_vars PROVE JournalInv'
  OBVIOUS
<1>1. ReadInv'
  BY ReadStep DEF JournalInv
<1>2. CASE \E w \in Workers : Commit(w)
  BY <1>1, <1>2, CommitJournal DEF JournalInv
<1>3. CASE ~ \E w \in Workers : Commit(w)
  <2>1. UNCHANGED <<players, txs, stale>>
    BY <1>3, OnlyCommits
  <2> QED BY <1>1, <2>1 DEF JournalInv, NoncesSpent, ReplayNeedsStaleWrite
<1> QED BY <1>2, <1>3

\* ReplayNeedsStaleWrite: for the senders whose rows were never written from a copy
\* that another commit had overtaken, no nonce is accepted twice.
THEOREM ReplayProtection == Spec => []ReplayNeedsStaleWrite
<1>1. JournalInv => ReplayNeedsStaleWrite
  BY DEF JournalInv
<1> QED BY <1>1, JournalInit, JournalStep, PTL DEF Spec

-----------------------------------------------------------------------------
(* Tokens.  A commit between two accounts takes from the sender all that the *)
(* receiver gets, unless it is a mint, and then the journal shows it.        *)

Balances(c) == [a \in Accounts |-> RowOrZero(players[a]).tokens[c]]
Mints(c)    == [i \in DOMAIN txs |->
                  IF txs[i].type = "MINT" THEN txs[i].amount[c] ELSE 0]

\* MapThenSumSet is the sum that can be taken apart member by member.
LEMMA SupplyIsTotal ==
  ASSUME NEW c, Addends(Balances(c), Accounts)
  PROVE  Supply(c) = Total(Balances(c), Accounts)
<1> DEFINE Iter(h) ==
      h = [s \in SUBSET Accounts |->
             IF s = {} THEN 0
             ELSE RowOrZero(players[CHOOSE x \in s : TRUE]).tokens[c]
                    + h[s \ {CHOOSE x \in s : TRUE}]]
<1>1. Supply(c) = (CHOOSE h : Iter(h))[Accounts]
  BY Zenon DEF Supply, MapThenSumSet, MapThenFoldSet
<1>2. ASSUME NEW h, NEW s \in SUBSET Accounts, s # {}
      PROVE  RowOrZero(players[CHOOSE x \in s : TRUE]).tokens[c]
               = Balances(c)[Taken(s)]
  BY <1>2, TakenIsMember DEF Balances, Taken
<1>3. ASSUME NEW h PROVE Iter(h) <=> Sums(h, Balances(c), Accounts)
  BY <1>2 DEF Sums, Part, Taken
<1>4. \E h : Sums(h, Balances(c), Accounts)
  BY SumsExist
<1> HIDE DEF Iter
<1>5. Sums(CHOOSE h : Iter(h), Balances(c), Accounts)
  BY <1>3, <1>4
<1> QED BY <1>1, <1>5, TotalIsSum

LEMMA MintedIsTotal ==
  ASSUME NEW c, Addends(Mints(c), DOMAIN txs)
  PROVE  Minted(c) = Total(Mints(c), DOMAIN txs)
<1> DEFINE Iter(h) ==
      h = [s \in SUBSET DOMAIN txs |->
             IF s = {} THEN 0
             ELSE (IF txs[CHOOSE x \in s : TRUE].type = "MINT"
                   THEN txs[CHOOSE x \in s : TRUE].amount[c] ELSE 0)
                    + h[s \ {CHOOSE x \in s : TRUE}]]
<1>1. Minted(c) = (CHOOSE h : Iter(h))[DOMAIN txs]
  BY Zenon DEF Minted, MapThenSumSet, MapThenFoldSet
<1>2. ASSUME NEW s \in SUBSET DOMAIN txs, s # {}
      PROVE  (IF txs[CHOOSE x \in s : TRUE].type = "MINT"
              THEN txs[CHOOSE x \in s : TRUE].amount[c] ELSE 0)
               = Mints(c)[Taken(s)]
  BY <1>2, TakenIsMember DEF Mints, Taken
<1>3. ASSUME NEW h PROVE Iter(h) <=> Sums(h, Mints(c), DOMAIN txs)
  BY <1>2 DEF Sums, Part, Taken
<1>4. \E h : Sums(h, Mints(c), DOMAIN txs)
  BY SumsExist
<1> HIDE DEF Iter
<1>5. Sums(CHOOSE h : Iter(h), Mints(c), DOMAIN txs)
  BY <1>3, <1>4
<1> QED BY <1>1, <1>5, TotalIsSum

\* Both sums in any state of the right type.
Books == \A c \in Channels :
           /\ Addends(Balances(c), Accounts)
           /\ Supply(c) = Total(Balances(c), Accounts)
           /\ Addends(Mints(c), DOMAIN txs)
           /\ Minted(c) = Total(Mints(c), DOMAIN txs)

LEMMA BooksKept == TypeOK => Books
<1> SUFFICES ASSUME TypeOK, NEW c \in Channels
             PROVE  /\ Addends(Balances(c), Accounts)
                    /\ Addends(Mints(c), DOMAIN txs)
  BY SupplyIsTotal, MintedIsTotal DEF Books
<1>1. ASSUME NEW a \in Accounts PROVE Balances(c)[a] \in Nat
  <2>1. RowOrZero(players[a]) \in Row
    BY RowRead DEF TypeOK, TablesOK, Rows
  <2>2. RowOrZero(players[a]).tokens[c] \in 0 .. MaxToken
    BY <2>1 DEF Row
  <2> QED BY <2>2, MaxTokenAssumption DEF Balances
<1>2. ASSUME NEW i \in DOMAIN txs PROVE Mints(c)[i] \in Nat
  <2>1. txs[i] \in Request
    BY DEF TypeOK, TablesOK
  <2>2. txs[i].amount[c] \in Nat
    BY <2>1, RequestParts
  <2> QED BY <2>2 DEF Mints
<1>3. IsFiniteSet(DOMAIN txs)
  <2>1. Len(txs) \in Nat /\ DOMAIN txs = 1 .. Len(txs)
    BY DEF TypeOK, TablesOK
  <2> QED BY <2>1, FS_Interval
<1> QED BY <1>1, <1>2, <1>3, FiniteAssumption DEF Addends

LEMMA BooksNext == TypeOK' => Books'
  BY BooksKept, PTL

\* Two addends changed, the others are as they were.
LEMMA TwoChange ==
  ASSUME NEW S, NEW f, Addends(f, S), NEW g, Addends(g, S),
         NEW x \in S, NEW y \in S, x # y,
         \A z \in S \ {x, y} : g[z] = f[z]
  PROVE  /\ f[x] \in Nat /\ f[y] \in Nat /\ g[x] \in Nat /\ g[y] \in Nat
         /\ Total(f, S) \in Nat /\ Total(g, S) \in Nat
         /\ Total(g, S) + f[x] + f[y] = Total(f, S) + g[x] + g[y]
<1> DEFINE one == S \ {x}
           two == one \ {y}
<1>1. \A h \in {f, g} : /\ h[x] \in Nat /\ Total(h, S) \in Nat
                        /\ Total(h, S) = h[x] + Total(h, one)
                        /\ Addends(h, one)
  BY TotalSplit
<1>2. y \in one
  OBVIOUS
<1> HIDE DEF one
<1>3. \A h \in {f, g} : /\ h[y] \in Nat /\ Total(h, two) \in Nat
                        /\ Total(h, one) = h[y] + Total(h, two)
                        /\ Addends(h, two)
  <2> SUFFICES ASSUME NEW h \in {f, g}
               PROVE  /\ h[y] \in Nat /\ Total(h, two) \in Nat
                      /\ Total(h, one) = h[y] + Total(h, two)
                      /\ Addends(h, two)
    OBVIOUS
  <2>1. Addends(h, one)
    BY <1>1
  <2> QED BY <1>2, <2>1, TotalSplit
<1>4. Total(f, two) = Total(g, two)
  <2>1. \A z \in two : f[z] = g[z]
    BY DEF one
  <2> HIDE DEF two
  <2> QED BY <1>3, <2>1, TotalSame
<1> HIDE DEF two
<1> QED BY <1>1, <1>3, <1>4

\* A commit from copies that are not behind adds to the balances no more than it
\* adds to what was minted.
LEMMA CommitBooks ==
  ASSUME BufferInv, BufferInv', NEW w \in Workers, Commit(w),
         Overtaken(req[w], copy[w]) = {},
         req[w].sender # req[w].receiver, NEW c \in Channels
  PROVE  Supply(c) <= Minted(c) => Supply(c)' <= Minted(c)'
<1> DEFINE r     == req[w]
           snd   == RowOrZero(players[r.sender])
           rcv   == RowOrZero(players[r.receiver])
           new   == Settled(r, snd, rcv)
           first == FirstSaved(r)
           last  == LastSaved(r)
           n     == Len(txs)
           mint  == IF r.type = "MINT" THEN r.amount[c] ELSE 0
<1>1. /\ r \in Request /\ WithinLimits(r) /\ Accepts(r, snd)
      /\ players' = [players EXCEPT ![r[first]] = new[first],
                                    ![r[last]]  = new[last]]
      /\ txs' = Append(txs, r)
  <2>1. /\ r \in Request /\ WithinLimits(r) /\ Accepts(r, copy[w]["sender"])
        /\ Written(players, players', r, copy[w]) /\ txs' = Append(txs, r)
    BY CommitEffect
  <2>2. r["sender"] = r.sender /\ r["receiver"] = r.receiver
    OBVIOUS
  <2>3. copy[w]["sender"] = snd /\ copy[w]["receiver"] = rcv
    BY <2>2 DEF Overtaken, Roles
  <2> QED BY <2>1, <2>3 DEF Written
<1>2. /\ players \in [Accounts -> Row \cup {NoRow}] /\ txs \in Seq(Request)
      /\ TypeOK /\ TypeOK'
  BY DEF BufferInv, TypeInv, TypeOK, TablesOK, Rows
<1>3. /\ first \in Roles /\ last \in Roles /\ first # last
      /\ r.sender \in Accounts /\ r.receiver \in Accounts
      /\ r.amount[c] \in Nat /\ r.type \in {"MINT", "TRANSFER"}
      /\ snd \in Row /\ rcv \in Row
  BY <1>1, <1>2, RequestParts, RowRead DEF FirstSaved, LastSaved
<1>4. /\ \A role \in Roles : new[role] \in Row
      /\ new.receiver.tokens[c] <= rcv.tokens[c] + r.amount[c]
      /\ new.sender.tokens[c] = snd.tokens[c] - (r.amount[c] - mint)
  <2>1. \A role \in Roles : new[role] \in Row
    BY <1>1, <1>3, SettledRows
  <2> DEFINE owed == rcv.tokens[c] + r.amount[c]
             paid == IF r.type = "MINT" THEN 0 ELSE r.amount[c]
  <2>2. /\ new.receiver.tokens[c] = IF owed <= MaxToken THEN owed ELSE MaxToken
        /\ new.sender.tokens[c] = snd.tokens[c] - paid
    <3> HIDE DEF r, snd, rcv
    <3> QED BY <1>1, <1>3, SettlesExactly
  <2>3. paid = r.amount[c] - mint
    BY <1>3
  <2>4. rcv.tokens[c] \in 0 .. MaxToken
    BY <1>3 DEF Row
  <2>5. owed \in Nat
    BY <1>3, <2>4, MaxTokenAssumption
  <2> HIDE DEF new, r, rcv, snd, paid, mint
  <2>6. new.receiver.tokens[c] <= owed
    <3> HIDE DEF owed
    <3> QED BY <2>2, <2>5, MaxTokenAssumption
  <2> QED BY <2>1, <2>2, <2>3, <2>6
<1>5. /\ players'[r.sender] = new.sender /\ players'[r.receiver] = new.receiver
      /\ \A a \in Accounts \ {r.sender, r.receiver} : players'[a] = players[a]
  <2>1. \/ first = "sender" /\ last = "receiver"
        \/ first = "receiver" /\ last = "sender"
    BY DEF FirstSaved, LastSaved
  <2>2. r["sender"] = r.sender /\ r["receiver"] = r.receiver
    OBVIOUS
  <2> HIDE DEF new, first, last
  <2>3. CASE first = "sender" /\ last = "receiver"
    BY <1>1, <1>2, <1>3, <2>2, <2>3
  <2>4. CASE first = "receiver" /\ last = "sender"
    BY <1>1, <1>2, <1>3, <2>2, <2>4
  <2> QED BY <2>1, <2>3, <2>4
<1> DEFINE old   == Balances(c)
           after == Balances(c)'
<1>6. /\ Addends(old, Accounts) /\ Supply(c) = Total(old, Accounts)
      /\ Addends(after, Accounts) /\ Supply(c)' = Total(after, Accounts)
      /\ Addends(Mints(c), DOMAIN txs) /\ Minted(c) = Total(Mints(c), DOMAIN txs)
      /\ Addends(Mints(c)', DOMAIN txs') /\ Minted(c)' = Total(Mints(c)', DOMAIN txs')
  BY <1>2, BooksKept, BooksNext DEF Books
<1>7. /\ old[r.sender] = snd.tokens[c] /\ old[r.receiver] = rcv.tokens[c]
      /\ after[r.sender] = new.sender.tokens[c]
      /\ after[r.receiver] = new.receiver.tokens[c]
      /\ \A a \in Accounts \ {r.sender, r.receiver} : after[a] = old[a]
  <2>1. new.sender # NoRow /\ new.receiver # NoRow
    BY <1>4, NoRowAssumption DEF Roles
  <2> HIDE DEF new
  <2> QED BY <1>3, <1>5, <2>1 DEF Balances, RowOrZero
<1>8. /\ Supply(c) \in Nat /\ Supply(c)' \in Nat
      /\ Supply(c)' <= Supply(c) + mint
  <2> HIDE DEF old, after, new, snd, rcv, mint, r
  <2>1. /\ old[r.sender] \in Nat /\ old[r.receiver] \in Nat
        /\ after[r.sender] \in Nat /\ after[r.receiver] \in Nat
        /\ Total(old, Accounts) \in Nat /\ Total(after, Accounts) \in Nat
        /\ Total(after, Accounts) + old[r.sender] + old[r.receiver]
             = Total(old, Accounts) + after[r.sender] + after[r.receiver]
    BY <1>3, <1>6, <1>7, TwoChange DEF r
  <2>2. mint \in Nat
    BY <1>3 DEF mint
  <2>3. /\ after[r.sender] = old[r.sender] - (r.amount[c] - mint)
        /\ after[r.receiver] <= old[r.receiver] + r.amount[c]
    BY <1>4, <1>7
  <2> QED BY <1>3, <1>6, <2>1, <2>2, <2>3
<1>9. Minted(c) \in Nat /\ Minted(c)' = Minted(c) + mint
  <2>1. /\ n \in Nat /\ DOMAIN txs = 1 .. n /\ DOMAIN txs' = 1 .. n + 1
        /\ txs'[n + 1] = r /\ \A i \in 1 .. n : txs'[i] = txs[i]
    BY <1>1, <1>2
  <2>2. /\ Mints(c)'[n + 1] = mint
        /\ \A i \in DOMAIN txs : Mints(c)'[i] = Mints(c)[i]
    BY <2>1 DEF Mints
  <2>3. /\ Total(Mints(c)', DOMAIN txs')
             = Mints(c)'[n + 1] + Total(Mints(c)', DOMAIN txs' \ {n + 1})
        /\ Total(Mints(c)', DOMAIN txs' \ {n + 1}) \in Nat
    <3> DEFINE mints == Mints(c)'
               all   == DOMAIN txs'
    <3>1. Addends(mints, all) /\ n + 1 \in all
      BY <1>6, <2>1
    <3> HIDE DEF mints, all, n
    <3>2. /\ Total(mints, all) = mints[n + 1] + Total(mints, all \ {n + 1})
          /\ Total(mints, all \ {n + 1}) \in Nat
      BY <3>1, TotalSplit
    <3> QED BY <3>2 DEF mints, all
  <2>4. DOMAIN txs' \ {n + 1} = DOMAIN txs
    BY <2>1
  <2>5. Total(Mints(c)', DOMAIN txs) = Total(Mints(c), DOMAIN txs)
    BY <1>6, <2>2, TotalSame
  <2>6. mint \in Nat
    BY <1>3
  <2> HIDE DEF mint, n
  <2> QED BY <1>6, <2>2, <2>3, <2>4, <2>5, <2>6
<1>10. mint \in Nat
  BY <1>3
<1> HIDE DEF mint
<1> QED BY <1>8, <1>9, <1>10

TokensInv == BufferInv /\ TokensBacked

LEMMA TokensInit == Init => TokensInv
<1> SUFFICES ASSUME Init PROVE TokensInv
  OBVIOUS
<1>1. BufferInv
  BY BufferInit
<1>2. ASSUME NEW c \in Channels PROVE Supply(c) = 0
  <2>1. Addends(Balances(c), Accounts) /\ Supply(c) = Total(Balances(c), Accounts)
    BY <1>1, BooksKept DEF BufferInv, TypeInv, Books
  <2>2. \A a \in Accounts : Balances(c)[a] = 0
    BY DEF Init, TablesInit, Balances, RowOrZero, ZeroRow
  <2> QED BY <2>1, <2>2, TotalZero
<1>3. ASSUME NEW c \in Channels PROVE Minted(c) = 0
  <2>1. Minted(c) = Total(Mints(c), DOMAIN txs) /\ txs = << >>
    BY <1>1, BooksKept DEF BufferInv, TypeInv, Books, Init, TablesInit
  <2>2. DOMAIN txs = {}
    BY <2>1
  <2> QED BY <2>1, <2>2, TotalEmpty
<1> QED BY <1>1, <1>2, <1>3 DEF TokensInv, TokensBacked

LEMMA TokensStep == TokensInv /\ [Next]_vars => TokensInv'
<1> SUFFICES ASSUME TokensInv, [Next]_vars PROVE TokensInv'
  OBVIOUS
<1>1. BufferInv /\ BufferInv'
  BY BufferStep DEF TokensInv
<1>2. CASE \E w \in Workers : Commit(w)
  <2>1. PICK w \in Workers : Commit(w)
    BY <1>2
  <2>2. /\ txs \in Seq(Request) /\ req[w] \in Request /\ txs' = Append(txs, req[w])
    BY <1>1, <2>1, CommitEffect DEF BufferInv, TypeInv, TypeOK, TablesOK
  <2>3. /\ \A i \in DOMAIN txs : i \in DOMAIN txs' /\ txs'[i] = txs[i]
        /\ Len(txs) + 1 \in DOMAIN txs' /\ txs'[Len(txs) + 1] = req[w]
    BY <2>2
  <2>4. stale' = stale \cup Overtaken(req[w], copy[w])
    BY <2>1 DEF Commit
  <2>5. ASSUME stale' = {}, \A i \in DOMAIN txs' : txs'[i].sender # txs'[i].receiver,
               NEW c \in Channels
        PROVE  Supply(c)' <= Minted(c)'
    <3>1. /\ \A i \in DOMAIN txs : txs[i].sender # txs[i].receiver
          /\ req[w].sender # req[w].receiver
          /\ stale = {} /\ Overtaken(req[w], copy[w]) = {}
      BY <2>3, <2>4, <2>5
    <3>2. Supply(c) <= Minted(c)
      BY <3>1 DEF TokensInv, TokensBacked
    <3> QED BY <1>1, <2>1, <3>1, <3>2, CommitBooks
  <2> QED BY <1>1, <2>5 DEF TokensInv, TokensBacked
<1>3. CASE ~(\E w \in Workers : Commit(w))
  <2>1. UNCHANGED <<players, txs, stale>>
    BY <1>3, OnlyCommits
  <2>2. ASSUME NEW c \in Channels
        PROVE  Supply(c)' = Supply(c) /\ Minted(c)' = Minted(c)
    <3>1. TypeOK /\ TypeOK'
      BY <1>1 DEF BufferInv, TypeInv
    <3>2. Balances(c)' = Balances(c) /\ Mints(c)' = Mints(c)
      BY <2>1 DEF Balances, Mints
    <3> QED BY <2>1, <3>1, <3>2, BooksKept, BooksNext DEF Books
  <2> QED BY <1>1, <2>1, <2>2 DEF TokensInv, TokensBacked
<1> QED BY <1>2, <1>3

\* TokensBacked: what the accounts hold of a channel never exceeds what was minted,
\* as long as no account pays itself and no row is written from a copy that another
\* commit has overtaken, for any number of accounts, workers and submissions.
THEOREM TokensAreBacked == Spec => []TokensBacked
<1>1. TokensInv => TokensBacked
  BY DEF TokensInv
<1> QED BY <1>1, TokensInit, TokensStep, PTL DEF Spec
=============================================================================
