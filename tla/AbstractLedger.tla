--------------------------- MODULE AbstractLedger ---------------------------
(***************************************************************************)
(* What the ledger guarantees its callers: a submission either has no      *)
(* effect at all, or in one step moves the tokens, advances the nonces and *)
(* is appended to the journal, all computed from rows that were committed  *)
(* at some instants of the call.                                           *)
(***************************************************************************)
EXTENDS LedgerTables

CONSTANTS Workers,   \* concurrent handler goroutines
          NoReq      \* no submission

VARIABLE open   \* the submission a worker has under way, and the length of the
                \* journal when it came in

vars == <<ledger, open>>

Closed == [req |-> NoReq, since |-> 0]

Init == TablesInit /\ open = [w \in Workers |-> Closed]

Begin(w, r) == /\ open[w] = Closed
               /\ Admitted(r)
               /\ open' = [open EXCEPT ![w] = [req |-> r, since |-> Len(txs)]]
               /\ UNCHANGED ledger

Commit(w) == /\ open[w] # Closed
             /\ Settle(open[w].req, open[w].since)
             /\ open' = [open EXCEPT ![w] = Closed]

\* It is rejected or rolled back.
Drop(w) == /\ open[w] # Closed
           /\ open' = [open EXCEPT ![w] = Closed]
           /\ UNCHANGED ledger

RegisterAuthority(a) == /\ authorities' = authorities \cup {a}
                        /\ UNCHANGED <<players, txs, past, stale, open>>

Next == \/ \E w \in Workers : \/ \E r \in Request : Begin(w, r)
                              \/ Commit(w) \/ Drop(w)
        \/ \E a \in Accounts : RegisterAuthority(a)

Spec == Init /\ [][Next]_vars
=============================================================================
