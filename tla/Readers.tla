------------------------------ MODULE Readers ------------------------------
(***************************************************************************)
(* The read requests whose answer is put together from several queries, or *)
(* is used by the client later, served beside the coordinator's requests:  *)
(* GET /txns/{id}, GET /admin/stats and GET /admin/recover/preview.  They  *)
(* hold c.mu over their queries.  That keeps transaction requests out, but *)
(* not resource requests, which write the store without c.mu.              *)
(***************************************************************************)
EXTENDS Coordinator, Sequences

CONSTANT Reader  \* the goroutine that serves the read request

ASSUME ReadersAssumption == Reader \notin Workers \cup {None}

VARIABLE view    \* the read request: what it has read so far, then its answer

readerVars == <<vars, view>>

NoView == [pc |-> "idle"]

ReadersInit == Init /\ view = NoView

Asked == up = "serving" /\ view = NoView
HoldLock == mu = None /\ mu' = Reader

\* GetTxn reads the transaction's row (ErrNotFound without one) ...
ReadTxnRow(t) ==
  /\ Asked
  /\ HoldLock
  /\ txnState[t] # Absent
  /\ view' = [pc |-> "row", txn |-> t, state |-> txnState[t], decision |-> txnDecision[t]]

\* ... and then, in a second query, its participants.
ReadTxnParts ==
  /\ view.pc = "row"
  /\ view' = [pc |-> "txn", state |-> view.state, decision |-> view.decision,
              votes |-> partVote[view.txn], finals |-> partFinal[view.txn]]
  /\ mu' = None

\* The queries of Stats, in their order.
StatsQueries == <<"PREPARING", "COMMITTING", "ABORTING", "COMMITTED", "ABORTED",
                  "resources", "ledger", "decisions">>

CountOf(q) ==
  CASE q = "resources" -> Cardinality({r \in Resources : resVote[r] # Absent})
    [] q = "ledger" -> Cardinality(ledger)
    [] q = "decisions" -> Cardinality({t \in Txns : decisions[t] # NULL})
    [] OTHER -> Cardinality({t \in Txns : txnState[t] = q})

StartStats ==
  /\ Asked
  /\ HoldLock
  /\ view' = [pc |-> "counting", counts |-> <<>>]

\* Mutant: c.mu is released after each query and not taken again.
ReadCountUnlocks ==
  /\ view.pc = "counting"
  /\ LET done == Len(view.counts) + 1
         last == done = Len(StatsQueries)
     IN /\ view' = [pc |-> IF last THEN "stats" ELSE "counting",
                    counts |-> Append(view.counts, CountOf(StatsQueries[done]))]
        /\ mu' = None

\* One query of Stats; after the last one c.mu is released.
ReadCount ==
  /\ view.pc = "counting"
  /\ LET done == Len(view.counts) + 1
         last == done = Len(StatsQueries)
     IN /\ view' = [pc |-> IF last THEN "stats" ELSE "counting",
                    counts |-> Append(view.counts, CountOf(StatsQueries[done]))]
        /\ mu' = IF last THEN None ELSE mu

\* Mutant: whatever is decided is shown as going to commit.
PreviewRowsOptimistic ==
  {[txn |-> e[1], state |-> e[2],
    target |-> IF e[2] # "PREPARING" THEN "COMMITTED" ELSE "ABORTED"] : e \in NonFinalTxns}

\* Every unfinished transaction and the terminal state it would be driven to.
PreviewRows ==
  {[txn |-> e[1], state |-> e[2],
    target |-> IF e[2] = "COMMITTING" THEN "COMMITTED" ELSE "ABORTED"] : e \in NonFinalTxns}

\* One query under c.mu; the client keeps the list.
RecoverPreview ==
  /\ Asked
  /\ mu = None
  /\ view' = [pc |-> "preview", rows |-> PreviewRows]
  /\ UNCHANGED mu

Answers == {"txn", "stats", "preview"}

\* The client is done with the answer.
Forget ==
  /\ view.pc \in Answers
  /\ view' = NoView
  /\ UNCHANGED mu

\* Mutant: the error return does not release c.mu.
ReadFailsLocked ==
  /\ "fail" \in Faults
  /\ view.pc \in {"row", "counting"}
  /\ view' = NoView
  /\ UNCHANGED mu

\* A query returns an error: the request returns it and releases c.mu.
ReadFails ==
  /\ "fail" \in Faults
  /\ view.pc \in {"row", "counting"}
  /\ view' = NoView
  /\ mu' = None

ReaderStep ==
  \/ \E t \in Txns : ReadTxnRow(t)
  \/ ReadTxnParts
  \/ StartStats
  \/ ReadCount
  \/ RecoverPreview
  \/ Forget
  \/ ReadFails

\* A reader that goes down with its process answers nothing.
ReadersNext ==
  \/ Next /\ view' = IF up' = "down" THEN NoView ELSE view
  \/ ReaderStep /\ UNCHANGED <<tables, up, handles, op, told>>

ReadersSpec == ReadersInit /\ [][ReadersNext]_readerVars

-----------------------------------------------------------------------------

\* Types: a read request is at one of its queries or has an answer, and c.mu is
\* the reader's exactly while it is between two queries.
ReadersTypeOK ==
  /\ mu \in Workers \cup {Reader, None}
  /\ view.pc \in {"idle", "row", "counting"} \cup Answers
  /\ mu = Reader <=> view.pc \in {"row", "counting"}

\* GET /txns/{id} never shows a transaction and participants that do not belong
\* together: the row and the participants come from two queries, and the answer
\* is one that a single moment could have given.
TxnAnswerConsistent ==
  view.pc = "txn" =>
    LET members == {r \in Resources : view.finals[r] # Absent}
        word == IF view.decision = "commit" THEN "committed" ELSE "aborted"
    IN /\ members # {}
       /\ view.state = "PREPARING" <=> view.decision = NULL
       /\ \A r \in members :
            /\ view.finals[r] # NULL => view.decision # NULL /\ view.finals[r] = word
            /\ view.state \in Terminal => view.finals[r] # NULL
            /\ view.decision = "commit" => view.votes[r] = "yes"

\* The eight counts of GET /admin/stats fit together although resource requests go on
\* meanwhile: every transaction past PREPARING has its decision, every committed
\* one its ledger rows, and an unfinished one its registered resources.
StatsAddUp ==
  view.pc = "stats" =>
    LET n(q) == view.counts[CHOOSE i \in DOMAIN StatsQueries : StatsQueries[i] = q]
        unfinished == n("PREPARING") + n("COMMITTING") + n("ABORTING")
    IN /\ n("decisions") = n("COMMITTING") + n("ABORTING") + n("COMMITTED") + n("ABORTED")
       /\ n("ledger") >= n("COMMITTED")
       /\ n("ledger") > 0 => n("COMMITTED") + n("COMMITTING") > 0
       /\ unfinished > 0 => n("resources") > 0

\* What the preview says of a transaction stays true until the transaction
\* moves: a decided one moves to the target it was shown with, whoever moves it,
\* and one that was PREPARING is only turned to commit by its own prepare or run
\* (handleRecoverPreview: the state each would reach if recovery ran).
PreviewKept ==
  view.pc = "preview" =>
    \A e \in view.rows :
      txnState[e.txn] = e.state =>
        \/ txnState'[e.txn] \in {e.state, e.target}
        \/ /\ e.state = "PREPARING"
           /\ \/ txnState'[e.txn] = "ABORTING"
              \/ \E p \in Workers : op[p].txn = e.txn /\ op[p].kind \in {"prepare", "run"}
PreviewComesTrue == [][PreviewKept]_readerVars
=============================================================================
