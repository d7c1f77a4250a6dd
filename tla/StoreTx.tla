------------------------------ MODULE StoreTx ------------------------------
(***************************************************************************)
(* The statements inside the SQL transactions of internal/store/store.go.  *)
(* TxnStore takes an operation as one step; here BeginTx, each write and   *)
(* Commit are steps, any statement may fail, and `defer tx.Rollback()` is  *)
(* all that keeps half an operation out of the tables.  The pool has one   *)
(* connection, so an open SQL transaction keeps every other call waiting,  *)
(* the autocommit statements included.                                     *)
(*                                                                         *)
(* The reads of an SQL transaction precede its writes and nobody writes    *)
(* in between, so they belong to the step that opens it: a call refused by *)
(* them has written nothing.                                               *)
(***************************************************************************)
EXTENDS TxnStore, Sequences, Functions

CONSTANT MaxNames  \* bound: the length of the list of names of a Begin request

ASSUME StoreTxAssumption == MaxNames \in Nat

VARIABLES
  conn,  \* the SQL transaction that holds the connection: its operation, its
         \* arguments and its next statement
  draft  \* the tables as that SQL transaction sees them

storeTxVars == <<tables, conn, draft>>

NoTx == [op |-> "none"]

\* The committed tables, as one value.
Committed ==
  [resVote |-> resVote, committedCount |-> committedCount, abortedCount |-> abortedCount,
   txnState |-> txnState, txnDecision |-> txnDecision, partVote |-> partVote,
   partFinal |-> partFinal, decisions |-> decisions, ledger |-> ledger]

StoreTxInit == StoreInit /\ conn = NoTx /\ draft = NoTx

\* BeginTx and the reads: the SQL transaction starts from what is committed.
Open(c) ==
  /\ conn = NoTx
  /\ conn' = c
  /\ draft' = Committed
  /\ UNCHANGED tables

\* A statement wrote d; s is the next one.
Execute(d, s) ==
  /\ draft' = d
  /\ conn' = [conn EXCEPT !.next = s]
  /\ UNCHANGED tables

At(o, s) == conn.op = o /\ conn.next = s

-----------------------------------------------------------------------------
(* DeleteResource. *)

\* Mutant: the in-use query forgets the COMMITTING state.
OpenDeleteResourceMissesCommitting(r) ==
  /\ resVote[r] # Absent
  /\ \A t \in ActiveTxns(r) : txnState[t] = "COMMITTING"
  /\ Open([op |-> "deleteResource", res |-> r, next |-> "row"])

\* Refused while a transaction that is not finished references r.
OpenDeleteResource(r) ==
  /\ resVote[r] # Absent
  /\ ActiveTxns(r) = {}
  /\ Open([op |-> "deleteResource", res |-> r, next |-> "row"])

DeleteResourceRow ==
  /\ At("deleteResource", "row")
  /\ Execute([draft EXCEPT !.resVote[conn.res] = Absent,
                           !.committedCount[conn.res] = 0,
                           !.abortedCount[conn.res] = 0], "commit")

(* BeginTxn: the names of the request come as a list. *)

OpenBegin(t, names) ==
  /\ \A r \in Range(names) : resVote[r] # Absent
  /\ \A r \in Range(names) : committedCount[r] + abortedCount[r] < MaxEffects
  /\ Open([op |-> "begin", txn |-> t, names |-> names, at |-> 1, next |-> "row"])

\* The INSERT fails on an id that is taken (ErrTxnExists).
InsertTxnRow ==
  /\ At("begin", "row")
  /\ draft.txnState[conn.txn] = Absent
  /\ Execute([draft EXCEPT !.txnState[conn.txn] = "PREPARING"],
             IF conn.names = <<>> THEN "commit" ELSE "participant")

\* Mutant: INSERT OR IGNORE.
InsertParticipantOrIgnore ==
  /\ At("begin", "participant")
  /\ draft' = [draft EXCEPT !.partFinal[conn.txn][conn.names[conn.at]] = NULL]
  /\ conn' = [conn EXCEPT !.at = @ + 1,
                          !.next = IF conn.at = Len(conn.names) THEN "commit" ELSE @]
  /\ UNCHANGED tables

\* One participant of the list.  The INSERT fails on a name that the list
\* already had.
InsertParticipant ==
  /\ At("begin", "participant")
  /\ draft.partFinal[conn.txn][conn.names[conn.at]] = Absent
  /\ draft' = [draft EXCEPT !.partFinal[conn.txn][conn.names[conn.at]] = NULL]
  /\ conn' = [conn EXCEPT !.at = @ + 1,
                          !.next = IF conn.at = Len(conn.names) THEN "commit" ELSE @]
  /\ UNCHANGED tables

(* RecordPrepare: votes[r] = NULL for a resource the votes map does not have. *)

OpenRecord(t, votes, d) ==
  /\ txnState[t] = "PREPARING"
  /\ Open([op |-> "record", txn |-> t, votes |-> votes, decision |-> d,
           left |-> {r \in Resources : votes[r] # NULL}, next |-> "votes"])

\* The votes in the random order of a Go map; an UPDATE may touch no row.
WriteVote(r) ==
  /\ At("record", "votes")
  /\ r \in conn.left
  /\ draft' = IF draft.partFinal[conn.txn][r] = Absent THEN draft
              ELSE [draft EXCEPT !.partVote[conn.txn][r] = conn.votes[r]]
  /\ conn' = [conn EXCEPT !.left = @ \ {r}]
  /\ UNCHANGED tables

\* The INSERT fails when the transaction already has a decision.
InsertDecision ==
  /\ At("record", "votes")
  /\ conn.left = {}
  /\ draft.decisions[conn.txn] = NULL
  /\ Execute([draft EXCEPT !.decisions[conn.txn] = conn.decision], "state")

\* Mutant: the decision column is left out of the UPDATE.
WriteTxnStateOnly ==
  /\ At("record", "state")
  /\ Execute([draft EXCEPT !.txnState[conn.txn] = IF conn.decision = "abort" THEN "ABORTING"
                                                  ELSE "COMMITTING"], "commit")

WriteTxnState ==
  /\ At("record", "state")
  /\ Execute([draft EXCEPT !.txnState[conn.txn] = IF conn.decision = "abort" THEN "ABORTING"
                                                  ELSE "COMMITTING",
                           !.txnDecision[conn.txn] = conn.decision], "commit")

(* FinalizeParticipant. *)

\* A participant that is already final is committed unchanged.
OpenFinalize(t, r, f) ==
  /\ partFinal[t][r] # Absent
  /\ Open([op |-> "finalize", txn |-> t, res |-> r, final |-> f,
           next |-> IF partFinal[t][r] = NULL THEN "final" ELSE "commit"])

WriteFinal ==
  /\ At("finalize", "final")
  /\ Execute([draft EXCEPT !.partFinal[conn.txn][conn.res] = conn.final],
             IF conn.final = "committed" THEN "ledger" ELSE "count")

\* Mutant: the counter of a committed participant is not updated.
AppendLedgerOnly ==
  /\ At("finalize", "ledger")
  /\ Execute([draft EXCEPT !.ledger = @ \cup {<<conn.res, conn.txn>>}], "commit")

\* INSERT OR IGNORE.
AppendLedger ==
  /\ At("finalize", "ledger")
  /\ Execute([draft EXCEPT !.ledger = @ \cup {<<conn.res, conn.txn>>}], "count")

\* The UPDATE touches no row when the resource was unregistered.
CountEffect ==
  /\ At("finalize", "count")
  /\ Execute(IF draft.resVote[conn.res] = Absent THEN draft
             ELSE IF conn.final = "committed"
                  THEN [draft EXCEPT !.committedCount[conn.res] = @ + 1]
                  ELSE [draft EXCEPT !.abortedCount[conn.res] = @ + 1], "commit")

(* DeleteTxn: the cascade, table by table. *)

OpenDeleteTxn(t) ==
  /\ txnState[t] \in Terminal
  /\ Open([op |-> "deleteTxn", txn |-> t, next |-> "participants"])

DeleteParticipants ==
  /\ At("deleteTxn", "participants")
  /\ Execute([draft EXCEPT !.partVote[conn.txn] = [r \in Resources |-> NULL],
                           !.partFinal[conn.txn] = [r \in Resources |-> Absent]], "decisions")

\* Mutant: the cascade has no decisions table.
DeleteNoDecision ==
  /\ At("deleteTxn", "decisions")
  /\ Execute(draft, "ledger")

DeleteDecision ==
  /\ At("deleteTxn", "decisions")
  /\ Execute([draft EXCEPT !.decisions[conn.txn] = NULL], "ledger")

\* Mutant: the key columns of commit_ledger swapped, so no row is found.
DeleteLedgerByResource ==
  /\ At("deleteTxn", "ledger")
  /\ Execute([draft EXCEPT !.ledger = {e \in @ : e[1] # conn.txn}], "row")

DeleteLedger ==
  /\ At("deleteTxn", "ledger")
  /\ Execute([draft EXCEPT !.ledger = {e \in @ : e[2] # conn.txn}], "row")

DeleteTxnRow ==
  /\ At("deleteTxn", "row")
  /\ Execute([draft EXCEPT !.txnState[conn.txn] = Absent,
                           !.txnDecision[conn.txn] = NULL], "commit")

-----------------------------------------------------------------------------
(* The end of an SQL transaction. *)

\* Mutant: what was executed before the failure reaches the tables.
RollbackKeepsWrites ==
  /\ conn # NoTx
  /\ conn' = NoTx
  /\ draft' = NoTx
  /\ resVote' = draft.resVote
  /\ committedCount' = draft.committedCount
  /\ abortedCount' = draft.abortedCount
  /\ txnState' = draft.txnState
  /\ txnDecision' = draft.txnDecision
  /\ partVote' = draft.partVote
  /\ partFinal' = draft.partFinal
  /\ decisions' = draft.decisions
  /\ ledger' = draft.ledger

Commit ==
  /\ conn # NoTx
  /\ conn.next = "commit"
  /\ conn' = NoTx
  /\ draft' = NoTx
  /\ resVote' = draft.resVote
  /\ committedCount' = draft.committedCount
  /\ abortedCount' = draft.abortedCount
  /\ txnState' = draft.txnState
  /\ txnDecision' = draft.txnDecision
  /\ partVote' = draft.partVote
  /\ partFinal' = draft.partFinal
  /\ decisions' = draft.decisions
  /\ ledger' = draft.ledger

\* A statement or the commit failed (a constraint, I/O, a request that was
\* cancelled), or the process died: nothing of it stays.
Rollback ==
  /\ conn # NoTx
  /\ conn' = NoTx
  /\ draft' = NoTx
  /\ UNCHANGED tables

\* Autocommit statements wait for the connection.
Autocommit ==
  /\ conn = NoTx
  /\ \/ \E r \in Resources, v \in Votes : RegisterResource(r, v) \/ UpdateResourceVote(r, v)
     \/ \E t \in Txns, s \in Terminal : SetTxnFinalState(t, s)
  /\ UNCHANGED <<conn, draft>>

Call ==
  \/ \E r \in Resources : OpenDeleteResource(r)
  \/ \E t \in Txns, n \in 0..MaxNames : \E names \in [1..n -> Resources] : OpenBegin(t, names)
  \/ \E t \in Txns, votes \in [Resources -> Votes \cup {NULL}], d \in Decisions :
       OpenRecord(t, votes, d)
  \/ \E t \in Txns, r \in Resources, f \in Finals : OpenFinalize(t, r, f)
  \/ \E t \in Txns : OpenDeleteTxn(t)

Statement ==
  \/ DeleteResourceRow
  \/ InsertTxnRow
  \/ InsertParticipant
  \/ \E r \in Resources : WriteVote(r)
  \/ InsertDecision
  \/ WriteTxnState
  \/ WriteFinal
  \/ AppendLedger
  \/ CountEffect
  \/ DeleteParticipants
  \/ DeleteDecision
  \/ DeleteLedger
  \/ DeleteTxnRow

StoreTxNext == Autocommit \/ Call \/ Statement \/ Commit \/ Rollback

StoreTxSpec == StoreTxInit /\ [][StoreTxNext]_storeTxVars

-----------------------------------------------------------------------------

\* Every operation is all or nothing: seen from the tables, the statements, the
\* failures between them and the rollbacks are the one-step operations of
\* TxnStore (store.go: "in one transaction").
AllOrNothing == StoreSpec

\* A transaction comes into being with one participant for every name of the
\* request's list: a list with a name twice never gets through (BeginTxn: "with
\* one participant row per resource").
BeginsAsListed ==
  [][conn # NoTx /\ conn.op = "begin" /\ txnState' # txnState =>
       /\ IsInjective(conn.names)
       /\ {r \in Resources : partFinal'[conn.txn][r] # Absent} = Range(conn.names)]_storeTxVars
=============================================================================
