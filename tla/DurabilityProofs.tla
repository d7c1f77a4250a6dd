-------------------------- MODULE DurabilityProofs --------------------------
(***************************************************************************)
(* The coordinator on a machine that may lose power, for every set of      *)
(* goroutines, transactions and resources and every combination of faults. *)
(*                                                                         *)
(* The tables on the disk were those of an earlier moment, so they satisfy *)
(* what the coordinator's inductive invariant says of tables (DiskOK); a   *)
(* process that finds them after a power failure starts from a state of    *)
(* the invariant.                                                          *)
(***************************************************************************)
EXTENDS Durability, RefinementProofs

USE CoordinatorAssumption DEF LockedPCs, Kinds,
    Absent, NULL, Votes, Decisions, Finals, NonTerminal, Terminal

\* The store's invariants, said of the disk.
D == INSTANCE TxnStore WITH
       resVote <- disk.resVote, committedCount <- disk.committedCount,
       abortedCount <- disk.abortedCount, txnState <- disk.txnState,
       txnDecision <- disk.txnDecision, partVote <- disk.partVote,
       partFinal <- disk.partFinal, decisions <- disk.decisions, ledger <- disk.ledger

DiskStoreOK ==
  /\ D!StoreTypeOK
  /\ D!LedgerMatchesFinals
  /\ D!NoOrphanRows
  /\ D!DecisionLogAgrees
  /\ D!ActiveResourcesRegistered

\* TxnInv, said of the disk.
DiskTxnOK ==
  \A t \in Txns :
    /\ disk.decisions[t] = LogOf(disk.txnState[t])
    /\ \A r \in Resources :
         /\ disk.partFinal[t][r] = "committed" => disk.decisions[t] = "commit"
         /\ disk.partFinal[t][r] = "aborted" => disk.decisions[t] = "abort"
         /\ disk.told[t][r] \subseteq {disk.decisions[t]}
         /\ disk.decisions[t] = "commit" /\ disk.partFinal[t][r] # Absent =>
              disk.partVote[t][r] = "yes"
         /\ disk.txnState[t] \in Terminal => disk.partFinal[t][r] # NULL

DiskOK ==
  /\ DiskStoreOK
  /\ DiskTxnOK
  /\ disk.told \in [Txns -> [Resources -> SUBSET Decisions]]

DurabilityInv == IInv /\ DiskOK /\ DiskStands

-----------------------------------------------------------------------------
(* The disk and the tables. *)

\* The columns of the tables, one by one.
DiskIsTables ==
  /\ disk.resVote = resVote /\ disk.committedCount = committedCount
  /\ disk.abortedCount = abortedCount /\ disk.txnState = txnState
  /\ disk.txnDecision = txnDecision /\ disk.partVote = partVote
  /\ disk.partFinal = partFinal /\ disk.decisions = decisions
  /\ disk.ledger = ledger /\ disk.told = told

LEMMA SnapshotColumns == disk = Snapshot => DiskIsTables
BY DEF Snapshot, DiskIsTables

\* A disk that has the tables of a good state is good.
LEMMA DiskFromTables ==
  ASSUME IInv, DiskIsTables
  PROVE  DiskOK
<1>1. DiskStoreOK
  BY DEF IInv, StoreIInv, DiskIsTables, DiskStoreOK, StoreTypeOK, D!StoreTypeOK,
         LedgerMatchesFinals, D!LedgerMatchesFinals, NoOrphanRows, D!NoOrphanRows,
         DecisionLogAgrees, D!DecisionLogAgrees, ActiveResourcesRegistered,
         D!ActiveResourcesRegistered, ActiveTxns, D!ActiveTxns, Members, D!Members,
         D!Absent, D!NULL, D!Votes, D!Decisions, D!Finals, D!NonTerminal, D!Terminal
<1>2. DiskTxnOK
  BY DEF IInv, TxnInv, DiskIsTables, DiskTxnOK
<1>3. disk.told \in [Txns -> [Resources -> SUBSET Decisions]]
  BY DEF IInv, VarsOK, DiskIsTables
<1> QED BY <1>1, <1>2, <1>3 DEF DiskOK

\* Tables read from a good disk are good.
LEMMA TablesFromDisk ==
  ASSUME DiskOK, DiskIsTables
  PROVE  StoreIInv /\ TxnInv /\ told \in [Txns -> [Resources -> SUBSET Decisions]]
<1>1. StoreIInv
  BY DEF DiskOK, StoreIInv, DiskIsTables, DiskStoreOK, StoreTypeOK, D!StoreTypeOK,
         LedgerMatchesFinals, D!LedgerMatchesFinals, NoOrphanRows, D!NoOrphanRows,
         DecisionLogAgrees, D!DecisionLogAgrees, ActiveResourcesRegistered,
         D!ActiveResourcesRegistered, ActiveTxns, D!ActiveTxns, Members, D!Members,
         D!Absent, D!NULL, D!Votes, D!Decisions, D!Finals, D!NonTerminal, D!Terminal
<1>2. TxnInv
  BY DEF DiskOK, TxnInv, DiskIsTables, DiskTxnOK
<1> QED BY <1>1, <1>2 DEF DiskOK, DiskIsTables

LEMMA DiskKept ==
  ASSUME DiskOK, disk' = disk
  PROVE  DiskOK'
BY DEF DiskOK, DiskStoreOK, DiskTxnOK, D!StoreTypeOK, D!LedgerMatchesFinals, D!NoOrphanRows,
       D!DecisionLogAgrees, D!ActiveResourcesRegistered, D!ActiveTxns, D!Members

-----------------------------------------------------------------------------
(* One lemma per action: it preserves the invariant. *)

LEMMA DurabilityInitInv == DurabilityInit => DurabilityInv
<1> SUFFICES ASSUME DurabilityInit PROVE DurabilityInv
  OBVIOUS
<1>1. IInv /\ disk = Snapshot
  BY InitInv DEF DurabilityInit
<1>2. DiskOK
  BY <1>1, SnapshotColumns, DiskFromTables
<1>3. DiskStands
  BY <1>1, SnapshotColumns DEF DiskIsTables, DiskStands
<1> QED BY <1>1, <1>2, <1>3 DEF DurabilityInv

\* A transaction that loses its decision or a final column was deleted, and a
\* deletion is on record in gone.
LEMMA RunInv ==
  ASSUME DurabilityInv, Run
  PROVE  DurabilityInv'
<1>1. IInv /\ StoreIInv /\ Next /\ disk' = disk
  BY DEF DurabilityInv, IInv, Run
<1>2. IInv' /\ [StoreNext]_tables
  BY <1>1, StepInv, StoreStep
<1>3. DiskOK'
  BY <1>1, DiskKept DEF DurabilityInv
<1>4. DiskStands'
  <2> SUFFICES ASSUME NEW t \in Txns \ gone'
               PROVE  /\ disk.decisions[t] # NULL => decisions'[t] = disk.decisions[t]
                      /\ \A r \in Resources : disk.partFinal[t][r] \in Finals =>
                           partFinal'[t][r] = disk.partFinal[t][r]
    BY <1>1 DEF DiskStands
  <2>1. t \in Txns \ gone /\ ~(txnState[t] # Absent /\ txnState'[t] = Absent)
    BY DEF Run
  <2>2. decisions[t] # NULL => decisions'[t] = decisions[t]
    <3>1. decisions[t] # NULL => txnState'[t] # Absent
      BY <1>1, <2>1 DEF StoreIInv, NoOrphanRows
    <3>2. KeepsDecisions \/ UNCHANGED tables
      BY <1>1, <1>2, DecisionStep
    <3> QED BY <3>1, <3>2, <2>1 DEF KeepsDecisions, tables
  <2>3. ASSUME NEW r \in Resources, partFinal[t][r] \in Finals
        PROVE  partFinal'[t][r] = partFinal[t][r]
    <3>1. txnState'[t] # Absent
      BY <1>1, <2>1, <2>3 DEF StoreIInv, NoOrphanRows
    <3>2. KeepsFinals \/ UNCHANGED tables
      BY <1>1, <1>2, FinalsStep
    <3> QED BY <3>1, <3>2, <2>1, <2>3 DEF KeepsFinals, tables
  <2>4. /\ disk.decisions[t] # NULL => decisions[t] = disk.decisions[t]
        /\ \A r \in Resources : disk.partFinal[t][r] \in Finals =>
             partFinal[t][r] = disk.partFinal[t][r]
    BY <2>1 DEF DurabilityInv, DiskStands
  <2> QED BY <2>2, <2>3, <2>4
<1> QED BY <1>2, <1>3, <1>4 DEF DurabilityInv

LEMMA SyncInv ==
  ASSUME DurabilityInv, Sync
  PROVE  DurabilityInv'
<1>1. UNCHANGED vars /\ disk' = Snapshot
  BY DEF Sync
<1>2. IInv'
  BY <1>1, StepInv DEF DurabilityInv
<1>3. (disk = Snapshot)'
  BY <1>1 DEF Snapshot, vars, tables
<1>4. DiskIsTables'
  BY <1>3, SnapshotColumns, PTL
<1>5. DiskOK'
  BY <1>2, <1>4, DiskFromTables, PTL
<1>6. DiskStands'
  BY <1>4 DEF DiskIsTables, DiskStands
<1> QED BY <1>2, <1>5, <1>6 DEF DurabilityInv

LEMMA PowerLossInv ==
  ASSUME DurabilityInv, PowerLoss
  PROVE  DurabilityInv'
<1>1. DiskIsTables' /\ disk' = disk /\ Stop
  BY DEF PowerLoss, DiskIsTables
<1>2. DiskOK'
  BY <1>1, DiskKept DEF DurabilityInv
<1>3. (StoreIInv /\ TxnInv /\ told \in [Txns -> [Resources -> SUBSET Decisions]])'
  BY <1>1, <1>2, TablesFromDisk, PTL
<1>4. \A p \in Workers : op'[p] = Idle
  BY <1>1 DEF Stop
<1>5. VarsOK'
  BY <1>1, <1>3, IdleIsTyped DEF Stop, VarsOK, StoreIInv
<1>6. LockInv'
  BY <1>1, <1>4 DEF Stop, LockInv, Idle
<1>7. JobInv'
  BY <1>4 DEF JobInv, JobOK, Idle
<1>8. UpInv'
  BY <1>1, <1>4 DEF Stop, UpInv
<1>9. DiskStands'
  BY <1>1 DEF DiskIsTables, DiskStands
<1> QED BY <1>2, <1>3, <1>5, <1>6, <1>7, <1>8, <1>9 DEF DurabilityInv, IInv

LEMMA StutterInv ==
  ASSUME DurabilityInv, UNCHANGED durabilityVars
  PROVE  DurabilityInv'
<1>1. UNCHANGED vars /\ disk' = disk /\ gone' = gone
  BY DEF durabilityVars
<1>2. IInv'
  BY <1>1, StepInv DEF DurabilityInv
<1>3. DiskOK'
  BY <1>1, DiskKept DEF DurabilityInv
<1>4. DiskStands'
  BY <1>1 DEF DurabilityInv, DiskStands, vars, tables
<1> QED BY <1>2, <1>3, <1>4 DEF DurabilityInv

\* The coordinator's invariant holds through any number of power failures, and
\* so does what the disk has.
THEOREM DurabilityInvariant == DurabilitySpec => []DurabilityInv
<1>1. DurabilityInv /\ [DurabilityNext]_durabilityVars => DurabilityInv'
  BY RunInv, SyncInv, PowerLossInv, StutterInv DEF DurabilityNext
<1> QED BY <1>1, DurabilityInitInv, PTL DEF DurabilitySpec

\* What reached the disk is never contradicted, so a power failure takes
\* outcomes back but never turns one into the other.
THEOREM DiskNeverContradicted == DurabilitySpec => []DiskStands
<1>1. DurabilityInv => DiskStands
  BY DEF DurabilityInv
<1> QED BY <1>1, DurabilityInvariant, PTL

\* A participant is only recorded as what its transaction's decision says,
\* power failures included.
THEOREM DurableAtomicity == DurabilitySpec => []OutcomeFollowsDecision
<1>1. DurabilityInv => OutcomeFollowsDecision
  BY DEF DurabilityInv, IInv, TxnInv, OutcomeFollowsDecision
<1> QED BY <1>1, DurabilityInvariant, PTL

\* A process that finds older tables than the last one left resolves what is
\* unfinished in them before it serves, just the same.
THEOREM DurableRecoveredFirst == DurabilitySpec => ServeAfterRecovery
<1>1. DurabilityInv /\ [DurabilityNext]_durabilityVars =>
        [up # "serving" /\ up' = "serving" => \A t \in Txns : txnState[t] \notin NonTerminal]_vars
  <2> SUFFICES ASSUME DurabilityInv, [DurabilityNext]_durabilityVars,
                      up # "serving", up' = "serving", NEW t \in Txns
               PROVE  txnState[t] \notin NonTerminal
    OBVIOUS
  <2>1. IInv /\ [Next]_vars
    BY DEF DurabilityInv, DurabilityNext, Run, Sync, PowerLoss, Stop, durabilityVars, vars, process
  <2> QED BY <2>1, ServeStep
<1> QED BY <1>1, DurabilityInvariant, PTL DEF DurabilitySpec, ServeAfterRecovery

\* Older tables refuse none of the store calls that are made with c.mu held either.
THEOREM DurableNeverRefused == DurabilitySpec => []HolderGoesOn
<1>1. DurabilityInv => HolderGoesOn
  BY CallsAccepted DEF DurabilityInv
<1> QED BY <1>1, DurabilityInvariant, PTL

\* Until the process serves, recovery goes forward or is put back to what the disk
\* has; that never contradicts the disk (DiskNeverContradicted), so recovery gets
\* at least as far as the disk knows.
THEOREM DurableForward ==
  DurabilitySpec => [][up # "serving" => BackToDisk \/ \A t \in Txns : Forward(t)]_vars
<1>1. DurabilityInv /\ [DurabilityNext]_durabilityVars =>
        [up # "serving" => BackToDisk \/ \A t \in Txns : Forward(t)]_vars
  <2> SUFFICES ASSUME DurabilityInv, [DurabilityNext]_durabilityVars, up # "serving",
                      ~BackToDisk, NEW t \in Txns
               PROVE  Forward(t)
    OBVIOUS
  <2>1. IInv /\ [Next]_vars
    BY DEF DurabilityInv, DurabilityNext, Run, Sync, PowerLoss, BackToDisk, durabilityVars
  <2> QED BY <2>1, ForwardStep
<1> QED BY <1>1, DurabilityInvariant, PTL DEF DurabilitySpec

-----------------------------------------------------------------------------
(* The refinement. *)

\* The abstraction keeps every state and every final column apart.
LEMMA Seen ==
  ASSUME StoreTypeOK, StoreTypeOK', UNCHANGED AC!vars
  PROVE  UNCHANGED <<txnState, partFinal>>
<1>1. AbsStatus' = AbsStatus /\ AbsOutcome' = AbsOutcome
  BY DEF AC!vars, AbsStatus, AbsOutcome
<1>2. \A t \in Txns : txnState'[t] = txnState[t]
  <2> SUFFICES ASSUME NEW t \in Txns PROVE txnState'[t] = txnState[t]
    OBVIOUS
  <2>1. StatusOf(txnState'[t]) = StatusOf(txnState[t])
    BY <1>1 DEF AbsStatus
  <2>2. /\ txnState[t] \in NonTerminal \cup Terminal \cup {Absent}
        /\ txnState'[t] \in NonTerminal \cup Terminal \cup {Absent}
    BY DEF StoreTypeOK
  <2> QED BY <2>1, <2>2, StatusFacts
<1>3. \A t \in Txns, r \in Resources : partFinal'[t][r] = partFinal[t][r]
  <2> SUFFICES ASSUME NEW t \in Txns, NEW r \in Resources
               PROVE  partFinal'[t][r] = partFinal[t][r]
    OBVIOUS
  <2>1. OutcomeAt(partFinal'[t][r]) = OutcomeAt(partFinal[t][r])
    BY <1>1 DEF AbsOutcome
  <2>2. /\ partFinal[t][r] \in Finals \cup {NULL, Absent}
        /\ partFinal'[t][r] \in Finals \cup {NULL, Absent}
    BY DEF StoreTypeOK
  <2> QED BY <2>1, <2>2, OutcomeFacts
<1> QED BY <1>2, <1>3 DEF StoreTypeOK

LEMMA DurabilityStepRefines ==
  DurabilityInv /\ DurabilityInv' /\ [DurabilityNext]_durabilityVars =>
    [AC!Next \/ BackToDisk]_<<txnState, partFinal>>
<1> SUFFICES ASSUME DurabilityInv, DurabilityInv', [DurabilityNext]_durabilityVars
             PROVE  AC!Next \/ BackToDisk \/ UNCHANGED <<txnState, partFinal>>
  OBVIOUS
<1>1. CASE Run
  <2>1. AC!Next \/ UNCHANGED AC!vars
    BY <1>1, StepRefines DEF Run, DurabilityInv
  <2>2. StoreTypeOK /\ StoreTypeOK'
    BY DEF DurabilityInv, IInv, StoreIInv
  <2> QED BY <2>1, <2>2, Seen
<1>2. CASE PowerLoss
  BY <1>2 DEF PowerLoss, BackToDisk
<1>3. CASE Sync \/ UNCHANGED durabilityVars
  BY <1>3 DEF Sync, durabilityVars, vars, tables
<1> QED BY <1>1, <1>2, <1>3 DEF DurabilityNext

\* Between power failures the coordinator is the service clients were promised,
\* and a power failure returns it to what the disk has.
THEOREM DurableRefinement == DurabilitySpec => AtomicBetweenLosses
<1>1. DurabilityInit => AC!Init
  BY InitRefines DEF DurabilityInit
<1> QED BY <1>1, DurabilityInvariant, DurabilityStepRefines, PTL
        DEF DurabilitySpec, AtomicBetweenLosses
=============================================================================
