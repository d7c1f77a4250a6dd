------------------------------ MODULE TxnStore ------------------------------
(***************************************************************************)
(* The SQLite tables of internal/store/store.go and the operations that    *)
(* write them.  Each operation is one SQL transaction (or one autocommit   *)
(* statement) on the only connection of the pool, so it is one step.  An   *)
(* operation that returns an error changes no table: its early returns are *)
(* the guards, and an action that is not enabled is a refused call.        *)
(*                                                                         *)
(* A table is a total function over its key; Absent marks a key without a  *)
(* row and NULL an empty column.  Timestamps are left out: they order      *)
(* listings and are read by no decision.                                   *)
(***************************************************************************)
EXTENDS Integers, FiniteSets

CONSTANTS
  Txns,        \* transaction ids
  Resources,   \* resource names
  MaxEffects   \* bound: no Begin on a resource that has counted this many effects

ASSUME StoreAssumption == MaxEffects \in Nat

VARIABLES
  resVote,        \* resources.vote, Absent when the name is not registered
  committedCount, \* resources.committed_count
  abortedCount,   \* resources.aborted_count
  txnState,       \* transactions.state, Absent when the id has no row
  txnDecision,    \* transactions.decision
  partVote,       \* participants.vote, by txn and resource
  partFinal,      \* participants.final, Absent when there is no such row
  decisions,      \* decisions.decision, NULL when there is no row
  ledger          \* commit_ledger: the set of its <<resource, txn>> keys

tables == <<resVote, committedCount, abortedCount, txnState, txnDecision,
            partVote, partFinal, decisions, ledger>>
resTable == <<resVote, committedCount, abortedCount>>
txnTables == <<txnState, txnDecision, partVote, partFinal, decisions, ledger>>

Absent == "absent"
NULL == "null"
Votes == {"yes", "no"}
Decisions == {"commit", "abort"}
Finals == {"committed", "aborted"}
NonTerminal == {"PREPARING", "COMMITTING", "ABORTING"}
Terminal == {"COMMITTED", "ABORTED"}

\* The participants of t: the resources with a (t, r) row.
Members(t) == {r \in Resources : partFinal[t][r] # Absent}

\* The non-terminal transactions that reference r.
ActiveTxns(r) == {t \in Txns : txnState[t] \in NonTerminal /\ r \in Members(t)}

StoreInit ==
  /\ resVote = [r \in Resources |-> Absent]
  /\ committedCount = [r \in Resources |-> 0]
  /\ abortedCount = [r \in Resources |-> 0]
  /\ txnState = [t \in Txns |-> Absent]
  /\ txnDecision = [t \in Txns |-> NULL]
  /\ partVote = [t \in Txns |-> [r \in Resources |-> NULL]]
  /\ partFinal = [t \in Txns |-> [r \in Resources |-> Absent]]
  /\ decisions = [t \in Txns |-> NULL]
  /\ ledger = {}

-----------------------------------------------------------------------------
(* Resources. *)

\* INSERT fails on a name that is taken (ErrResourceExists).
RegisterResource(r, v) ==
  /\ resVote[r] = Absent
  /\ resVote' = [resVote EXCEPT ![r] = v]
  /\ committedCount' = [committedCount EXCEPT ![r] = 0]
  /\ abortedCount' = [abortedCount EXCEPT ![r] = 0]
  /\ UNCHANGED txnTables

\* UPDATE that touches no row is ErrResourceNotFound.
UpdateResourceVote(r, v) ==
  /\ resVote[r] # Absent
  /\ resVote' = [resVote EXCEPT ![r] = v]
  /\ UNCHANGED <<committedCount, abortedCount, txnTables>>

\* Refused while a non-terminal transaction references r (ErrResourceInUse).
\* Participant and ledger rows of finished transactions stay behind.
DeleteResource(r) ==
  /\ resVote[r] # Absent
  /\ ActiveTxns(r) = {}
  /\ resVote' = [resVote EXCEPT ![r] = Absent]
  /\ committedCount' = [committedCount EXCEPT ![r] = 0]
  /\ abortedCount' = [abortedCount EXCEPT ![r] = 0]
  /\ UNCHANGED txnTables

-----------------------------------------------------------------------------
(* Transactions. *)

\* Mutant: INSERT OR REPLACE into transactions.
BeginTxnReplaces(t, rs) ==
  /\ \A r \in rs : resVote[r] # Absent
  /\ \A r \in rs : committedCount[r] + abortedCount[r] < MaxEffects
  /\ txnState' = [txnState EXCEPT ![t] = "PREPARING"]
  /\ partFinal' = [partFinal EXCEPT ![t] =
                     [r \in Resources |-> IF r \in rs THEN NULL ELSE Absent]]
  /\ UNCHANGED <<resTable, txnDecision, partVote, decisions, ledger>>

\* rs is the set of names of the request's list.  A list that names a resource
\* twice violates the participants' primary key and is rolled back whole.
BeginTxn(t, rs) ==
  /\ \A r \in rs : resVote[r] # Absent
  /\ \A r \in rs : committedCount[r] + abortedCount[r] < MaxEffects
  /\ txnState[t] = Absent
  /\ txnState' = [txnState EXCEPT ![t] = "PREPARING"]
  /\ partFinal' = [partFinal EXCEPT ![t] =
                     [r \in Resources |-> IF r \in rs THEN NULL ELSE Absent]]
  /\ UNCHANGED <<resTable, txnDecision, partVote, decisions, ledger>>

\* Votes, decision row and state in one SQL transaction.  votes[r] = NULL
\* stands for a resource the votes map does not mention.
RecordPrepare(t, votes, d) ==
  /\ txnState[t] = "PREPARING"
  /\ decisions[t] = NULL
  /\ partVote' = [partVote EXCEPT ![t] =
                    [r \in Resources |-> IF r \in Members(t) /\ votes[r] # NULL
                                         THEN votes[r] ELSE @[r]]]
  /\ decisions' = [decisions EXCEPT ![t] = d]
  /\ txnState' = [txnState EXCEPT ![t] = IF d = "abort" THEN "ABORTING" ELSE "COMMITTING"]
  /\ txnDecision' = [txnDecision EXCEPT ![t] = d]
  /\ UNCHANGED <<resTable, partFinal, ledger>>

\* Mutant: the counter update is not limited to r.
ApplyEffectEverywhere(t, r, f) ==
  /\ ledger' = IF f = "committed" THEN ledger \cup {<<r, t>>} ELSE ledger
  /\ committedCount' = IF f = "committed"
                       THEN [q \in Resources |-> committedCount[q] + 1] ELSE committedCount
  /\ abortedCount' = IF f = "aborted"
                     THEN [q \in Resources |-> abortedCount[q] + 1] ELSE abortedCount

\* The observable effect of finalizing r in t as f: a ledger row for a commit,
\* and the counter of r if r still has a row.
ApplyEffect(t, r, f) ==
  /\ ledger' = IF f = "committed" THEN ledger \cup {<<r, t>>} ELSE ledger
  /\ committedCount' = IF f = "committed" /\ resVote[r] # Absent
                       THEN [committedCount EXCEPT ![r] = @ + 1] ELSE committedCount
  /\ abortedCount' = IF f = "aborted" /\ resVote[r] # Absent
                     THEN [abortedCount EXCEPT ![r] = @ + 1] ELSE abortedCount

\* The final column and its effect in one SQL transaction; a row that is
\* already final is left alone and the call succeeds.
FinalizeParticipant(t, r, f) ==
  \/ /\ partFinal[t][r] \in Finals
     /\ UNCHANGED tables
  \/ /\ partFinal[t][r] = NULL
     /\ partFinal' = [partFinal EXCEPT ![t][r] = f]
     /\ ApplyEffect(t, r, f)
     /\ UNCHANGED <<resVote, txnState, txnDecision, partVote, decisions>>

\* Mutant: the word of a participant's final column for that of a state.
SetTxnFinalStateAsFinal(t, s) ==
  /\ txnState[t] # Absent
  /\ txnState' = [txnState EXCEPT ![t] = IF s = "COMMITTED" THEN "committed" ELSE "aborted"]
  /\ UNCHANGED <<resTable, txnDecision, partVote, partFinal, decisions, ledger>>

\* UPDATE without a condition on the present state.
SetTxnFinalState(t, s) ==
  /\ txnState[t] # Absent
  /\ txnState' = [txnState EXCEPT ![t] = s]
  /\ UNCHANGED <<resTable, txnDecision, partVote, partFinal, decisions, ledger>>

\* Mutant: an unfinished transaction is not refused.
DeleteTxnUnfinished(t) ==
  /\ txnState[t] # Absent
  /\ partVote' = [partVote EXCEPT ![t] = [r \in Resources |-> NULL]]
  /\ partFinal' = [partFinal EXCEPT ![t] = [r \in Resources |-> Absent]]
  /\ decisions' = [decisions EXCEPT ![t] = NULL]
  /\ ledger' = {e \in ledger : e[2] # t}
  /\ txnState' = [txnState EXCEPT ![t] = Absent]
  /\ txnDecision' = [txnDecision EXCEPT ![t] = NULL]
  /\ UNCHANGED resTable

\* Only a terminal transaction goes (ErrNotTerminal), with all its rows.
\* The resource counters keep what it contributed.
DeleteTxn(t) ==
  /\ txnState[t] \in Terminal
  /\ partVote' = [partVote EXCEPT ![t] = [r \in Resources |-> NULL]]
  /\ partFinal' = [partFinal EXCEPT ![t] = [r \in Resources |-> Absent]]
  /\ decisions' = [decisions EXCEPT ![t] = NULL]
  /\ ledger' = {e \in ledger : e[2] # t}
  /\ txnState' = [txnState EXCEPT ![t] = Absent]
  /\ txnDecision' = [txnDecision EXCEPT ![t] = NULL]
  /\ UNCHANGED resTable

-----------------------------------------------------------------------------
(* The store on its own: its exported operations called in any order with  *)
(* any arguments of their types, as internal/store's tests call them.      *)
(* Module StoreTx shows that its statements implement this.                *)

StoreNext ==
  \/ \E r \in Resources, v \in Votes : RegisterResource(r, v) \/ UpdateResourceVote(r, v)
  \/ \E r \in Resources : DeleteResource(r)
  \/ \E t \in Txns, rs \in SUBSET Resources : BeginTxn(t, rs)
  \/ \E t \in Txns, votes \in [Resources -> Votes \cup {NULL}], d \in Decisions :
       RecordPrepare(t, votes, d)
  \/ \E t \in Txns, r \in Resources, f \in Finals : FinalizeParticipant(t, r, f)
  \/ \E t \in Txns, s \in Terminal : SetTxnFinalState(t, s)
  \/ \E t \in Txns : DeleteTxn(t)

StoreSpec == StoreInit /\ [][StoreNext]_tables

-----------------------------------------------------------------------------
(* What the store promises whatever its caller does. *)

\* Types: every column holds a value of its column type.
StoreTypeOK ==
  /\ resVote \in [Resources -> Votes \cup {Absent}]
  /\ committedCount \in [Resources -> Nat]
  /\ abortedCount \in [Resources -> Nat]
  /\ txnState \in [Txns -> NonTerminal \cup Terminal \cup {Absent}]
  /\ txnDecision \in [Txns -> Decisions \cup {NULL}]
  /\ partVote \in [Txns -> [Resources -> Votes \cup {NULL}]]
  /\ partFinal \in [Txns -> [Resources -> Finals \cup {NULL, Absent}]]
  /\ decisions \in [Txns -> Decisions \cup {NULL}]
  /\ ledger \subseteq Resources \X Txns

\* The commit ledger holds exactly one row for every participant recorded as
\* committed, through finalization, repeated finalization and deletion.
LedgerMatchesFinals ==
  \A t \in Txns, r \in Resources : <<r, t>> \in ledger <=> partFinal[t][r] = "committed"

\* No row outlives its transaction: an id that was deleted starts again with
\* no participant, vote or decision.  A decision left behind would make every
\* later RecordPrepare on that id fail on the decisions key.
NoOrphanRows ==
  \A t \in Txns : txnState[t] = Absent =>
    /\ txnDecision[t] = NULL /\ decisions[t] = NULL
    /\ \A r \in Resources : partFinal[t][r] = Absent /\ partVote[t][r] = NULL

\* The decisions table and the decision column of the transaction agree, and
\* a transaction that is still PREPARING has neither.
DecisionLogAgrees ==
  \A t \in Txns :
    /\ decisions[t] = txnDecision[t]
    /\ txnState[t] = "PREPARING" => decisions[t] = NULL

\* DeleteResource and BeginTxn never cross: a transaction that is not finished
\* only has participants that are registered.
ActiveResourcesRegistered ==
  \A t \in Txns, r \in Resources : t \in ActiveTxns(r) => resVote[r] # Absent

\* A decision, once recorded, is the only one its transaction ever has: it
\* goes only when the transaction is deleted (the immutable decision record).
KeepsDecisions ==
  \A t \in Txns : decisions[t] # NULL => decisions'[t] = decisions[t] \/ txnState'[t] = Absent
DecisionImmutable == [][KeepsDecisions]_tables

\* The transactions in which r becomes final as f in this step.
BecomesFinal(r, f) == {t \in Txns : partFinal[t][r] = NULL /\ partFinal'[t][r] = f}

\* A counter moves by exactly the number of participants that become final in
\* the same step: calling FinalizeParticipant again counts nothing, and no
\* participant becomes final uncounted while its resource is registered.
CountsEffects ==
  \A r \in Resources : resVote[r] # Absent /\ resVote'[r] # Absent =>
    /\ committedCount'[r] = committedCount[r] + Cardinality(BecomesFinal(r, "committed"))
    /\ abortedCount'[r] = abortedCount[r] + Cardinality(BecomesFinal(r, "aborted"))
CountersFollowFinals == [][CountsEffects]_tables

\* A final state is never overwritten: a committed participant stays committed
\* and an aborted one aborted until the transaction is deleted.
KeepsFinals ==
  \A t \in Txns, r \in Resources : partFinal[t][r] \in Finals =>
    partFinal'[t][r] = partFinal[t][r] \/ txnState'[t] = Absent
FinalsImmutable == [][KeepsFinals]_tables
=============================================================================
