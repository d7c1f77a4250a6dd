----------------------------- MODULE Durability -----------------------------
(***************************************************************************)
(* The coordinator on a machine that may lose power.  store.go opens the   *)
(* database with journal_mode=WAL and synchronous=NORMAL: a commit appends *)
(* to the log and does not wait for the disk.  When the process dies the   *)
(* log is complete; when the power goes, what remains is a prefix of it.   *)
(* disk is that prefix: the tables as of the last commit that is sure to   *)
(* have reached the disk.  The operating system and SQLite's checkpoints   *)
(* move it forward whenever they like.                                     *)
(***************************************************************************)
EXTENDS Coordinator

VARIABLES
  disk,   \* what a power failure would leave: the tables, with the calls (told)
          \* that belong to their history
  heard,  \* history: every phase-2 call ever made to r on behalf of t, the ones
          \* whose decision was lost included, as long as t has a row
  gone    \* history: the transactions deleted since disk

durabilityVars == <<vars, disk, heard, gone>>

\* The tables and calls of this moment.
Snapshot ==
  [resVote |-> resVote, committedCount |-> committedCount, abortedCount |-> abortedCount,
   txnState |-> txnState, txnDecision |-> txnDecision, partVote |-> partVote,
   partFinal |-> partFinal, decisions |-> decisions, ledger |-> ledger, told |-> told]

DurabilityInit ==
  /\ Init
  /\ disk = Snapshot
  /\ heard = told
  /\ gone = {}

\* The log has reached the disk up to now.
Sync ==
  /\ disk' = Snapshot
  /\ gone' = {}
  /\ UNCHANGED <<vars, heard>>

\* Mutant: the participants' rows survive a loss of the decisions that led to
\* them, as in a log that is not replayed in order.
PowerLossTorn ==
  /\ Stop
  /\ resVote' = disk.resVote
  /\ committedCount' = disk.committedCount
  /\ abortedCount' = disk.abortedCount
  /\ txnState' = disk.txnState
  /\ txnDecision' = disk.txnDecision
  /\ decisions' = disk.decisions
  /\ ledger' = disk.ledger
  /\ told' = disk.told
  /\ gone' = {}
  /\ heard' = [t \in Txns |-> [r \in Resources |->
                 IF txnState'[t] = Absent THEN {} ELSE heard[t][r]]]
  /\ UNCHANGED <<partVote, partFinal, disk>>

\* The process is gone, and with it every commit that had not reached the disk.
PowerLoss ==
  /\ Stop
  /\ resVote' = disk.resVote
  /\ committedCount' = disk.committedCount
  /\ abortedCount' = disk.abortedCount
  /\ txnState' = disk.txnState
  /\ txnDecision' = disk.txnDecision
  /\ partVote' = disk.partVote
  /\ partFinal' = disk.partFinal
  /\ decisions' = disk.decisions
  /\ ledger' = disk.ledger
  /\ told' = disk.told
  /\ gone' = {}
  /\ heard' = [t \in Txns |-> [r \in Resources |->
                 IF txnState'[t] = Absent THEN {} ELSE heard[t][r]]]
  /\ UNCHANGED disk

\* A step of the coordinator; nothing of it is on the disk yet.
Run ==
  /\ Next
  /\ heard' = [t \in Txns |-> [r \in Resources |->
                 IF txnState'[t] = Absent THEN {} ELSE heard[t][r] \cup told'[t][r]]]
  /\ gone' = gone \cup {t \in Txns : txnState[t] # Absent /\ txnState'[t] = Absent}
  /\ UNCHANGED disk

DurabilityNext == Run \/ Sync \/ PowerLoss

DurabilitySpec == DurabilityInit /\ [][DurabilityNext]_durabilityVars

-----------------------------------------------------------------------------

\* What the disk knows is never contradicted: a decision or an outcome that
\* reached it is the transaction's until the transaction is deleted, whatever
\* the process does ahead of the disk, so a power failure takes outcomes back but
\* never turns one into the other.
DiskStands ==
  \A t \in Txns \ gone :
    /\ disk.decisions[t] # NULL => decisions[t] = disk.decisions[t]
    /\ \A r \in Resources :
         disk.partFinal[t][r] \in Finals => partFinal[t][r] = disk.partFinal[t][r]

\* The state clients can see returns to what the disk has.
BackToDisk ==
  /\ txnState' = disk.txnState
  /\ partFinal' = disk.partFinal

\* Between power failures the service is the one that clients were promised, and
\* a power failure returns it to an earlier moment of that same service, from
\* which it goes on as promised.
AtomicBetweenLosses ==
  AC!Init /\ [][AC!Next \/ BackToDisk]_<<txnState, partFinal>>

\* Recovery may abort what it finds PREPARING (coordinator.go: "because no
\* participant was ever told commit").
PreparingUntold ==
  \A t \in Txns, r \in Resources : txnState[t] = "PREPARING" => "commit" \notin heard[t][r]
=============================================================================
