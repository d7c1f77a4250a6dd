-------------------------- MODULE RefinementProofs --------------------------
(***************************************************************************)
(* The coordinator implements AtomicCommit, for every set of goroutines,   *)
(* transactions and resources and every combination of faults.             *)
(***************************************************************************)
EXTENDS CoordinatorProofs

USE DEF Absent, NULL, Votes, Decisions, Finals, NonTerminal, Terminal

\* The two variables of the abstract specification.
AbsStatus == [t \in Txns |-> StatusOf(txnState[t])]
AbsOutcome == [t \in Txns |-> [r \in Resources |-> OutcomeAt(partFinal[t][r])]]

LEMMA StatusFacts ==
  /\ StatusOf("PREPARING") = "open" /\ StatusOf("COMMITTING") = "commit"
  /\ StatusOf("ABORTING") = "abort" /\ StatusOf("COMMITTED") = "committed"
  /\ StatusOf("ABORTED") = "aborted" /\ StatusOf(Absent) = "none"
BY DEF StatusOf

LEMMA OutcomeFacts ==
  /\ OutcomeAt(Absent) = "none" /\ OutcomeAt(NULL) = "pending"
  /\ OutcomeAt("committed") = "committed" /\ OutcomeAt("aborted") = "aborted"
BY DEF OutcomeAt

\* A step that leaves the states and the final columns alone is not seen.
LEMMA Unseen ==
  ASSUME UNCHANGED <<txnState, partFinal>>
  PROVE  UNCHANGED AC!vars
BY DEF AC!vars

LEMMA BeginOpens ==
  ASSUME StoreTypeOK, NEW t \in Txns, NEW rs \in SUBSET Resources, BeginTxn(t, rs)
  PROVE  AC!Open(t, rs)
<1>1. txnState[t] = Absent /\ txnState' = [txnState EXCEPT ![t] = "PREPARING"]
  BY DEF BeginTxn
<1>2. partFinal' = [partFinal EXCEPT ![t] =
                      [r \in Resources |-> IF r \in rs THEN NULL ELSE Absent]]
  BY DEF BeginTxn
<1>3. AbsStatus[t] = "none" /\ AbsStatus' = [AbsStatus EXCEPT ![t] = "open"]
  BY <1>1, StatusFacts DEF AbsStatus, StoreTypeOK
<1>4. AbsOutcome' = [AbsOutcome EXCEPT ![t] =
                       [r \in Resources |-> IF r \in rs THEN "pending" ELSE "none"]]
  BY <1>2, OutcomeFacts DEF AbsOutcome, StoreTypeOK
<1> QED BY <1>3, <1>4 DEF AC!Open, AbsStatus, AbsOutcome

LEMMA RecordDecides ==
  ASSUME StoreTypeOK, NEW t \in Txns, NEW votes, NEW d \in Decisions,
         RecordPrepare(t, votes, d)
  PROVE  AC!Decide(t, d)
<1>1. /\ txnState[t] = "PREPARING"
      /\ txnState' = [txnState EXCEPT ![t] = IF d = "abort" THEN "ABORTING" ELSE "COMMITTING"]
      /\ UNCHANGED partFinal
  BY DEF RecordPrepare
<1>2. AbsStatus[t] = "open" /\ AbsStatus' = [AbsStatus EXCEPT ![t] = d]
  <2>1. AbsStatus[t] = "open"
    BY <1>1, StatusFacts DEF AbsStatus
  <2>2. AbsStatus' = [AbsStatus EXCEPT ![t] = d]
    BY <1>1, StatusFacts DEF AbsStatus, StoreTypeOK
  <2> QED BY <2>1, <2>2
<1>3. AbsOutcome' = AbsOutcome
  BY <1>1 DEF AbsOutcome
<1> QED BY <1>2, <1>3 DEF AC!Decide, AbsStatus, AbsOutcome

LEMMA FinalizeApplies ==
  ASSUME StoreTypeOK, NEW t \in Txns, NEW r \in Resources,
         txnState[t] \in {"COMMITTING", "ABORTING"}, partFinal[t][r] = NULL,
         FinalizeParticipant(t, r, FinalOf(txnState[t]))
  PROVE  AC!Apply(t, r)
<1>1. PICK f \in Finals : f = FinalOf(txnState[t])
  BY DEF FinalOf
<1>2. UNCHANGED txnState /\ partFinal' = [partFinal EXCEPT ![t][r] = f]
  BY <1>1 DEF FinalizeParticipant
<1>3. /\ AbsStatus[t] \in {"commit", "abort"} /\ AbsStatus' = AbsStatus
      /\ f = AC!OutcomeOf(AbsStatus[t])
  BY <1>1, <1>2, StatusFacts DEF AbsStatus, FinalOf, AC!OutcomeOf
<1>4. AbsOutcome[t][r] = "pending"
  BY OutcomeFacts DEF AbsOutcome
<1>5. AbsOutcome' = [AbsOutcome EXCEPT ![t][r] = f]
  <2>1. OutcomeAt(f) = f
    BY OutcomeFacts
  <2>2. \A u \in Txns, q \in Resources :
          partFinal'[u][q] = IF u = t /\ q = r THEN f ELSE partFinal[u][q]
    BY <1>2 DEF StoreTypeOK
  <2>3. AbsOutcome'[t] = [AbsOutcome[t] EXCEPT ![r] = f]
    <3>1. AbsOutcome'[t] = [q \in Resources |-> OutcomeAt(partFinal'[t][q])]
      BY DEF AbsOutcome
    <3>2. AbsOutcome[t] = [q \in Resources |-> OutcomeAt(partFinal[t][q])]
      BY DEF AbsOutcome
    <3>3. \A q \in Resources : OutcomeAt(partFinal'[t][q]) =
                               IF q = r THEN f ELSE OutcomeAt(partFinal[t][q])
      BY <2>1, <2>2
    <3> QED BY <3>1, <3>2, <3>3
  <2>4. \A u \in Txns \ {t} : AbsOutcome'[u] = AbsOutcome[u]
    <3> SUFFICES ASSUME NEW u \in Txns \ {t}
                 PROVE  \A q \in Resources : partFinal'[u][q] = partFinal[u][q]
      BY DEF AbsOutcome
    <3> QED BY <2>2
  <2>5. DOMAIN AbsOutcome' = Txns /\ DOMAIN AbsOutcome = Txns
    BY DEF AbsOutcome
  <2>6. AbsOutcome' = [u \in Txns |-> AbsOutcome'[u]] /\ AbsOutcome = [u \in Txns |-> AbsOutcome[u]]
    BY DEF AbsOutcome
  <2> HIDE DEF AbsOutcome
  <2> QED BY <2>3, <2>4, <2>5, <2>6
<1> QED BY <1>3, <1>4, <1>5 DEF AC!Apply, AbsStatus, AbsOutcome

LEMMA TerminalCloses ==
  ASSUME StoreTypeOK, NEW t \in Txns,
         txnState[t] \in {"COMMITTING", "ABORTING"}, OpenParts(t) = {},
         SetTxnFinalState(t, TerminalOf(txnState[t]))
  PROVE  AC!Close(t)
<1>1. txnState' = [txnState EXCEPT ![t] = TerminalOf(txnState[t])] /\ UNCHANGED partFinal
  BY DEF SetTxnFinalState
<1>2. /\ AbsStatus[t] \in {"commit", "abort"}
      /\ StatusOf(TerminalOf(txnState[t])) = AC!OutcomeOf(AbsStatus[t])
  BY StatusFacts DEF AbsStatus, TerminalOf, AC!OutcomeOf
<1>3. AbsStatus' = [AbsStatus EXCEPT ![t] = AC!OutcomeOf(@)]
  BY <1>1, <1>2 DEF AbsStatus, StoreTypeOK
<1>4. AbsOutcome' = AbsOutcome
  BY <1>1 DEF AbsOutcome
<1>5. \A r \in Resources : AbsOutcome[t][r] # "pending"
  <2> SUFFICES ASSUME NEW r \in Resources PROVE OutcomeAt(partFinal[t][r]) # "pending"
    BY DEF AbsOutcome
  <2>1. partFinal[t][r] \in Finals \cup {Absent}
    BY DEF OpenParts, StoreTypeOK
  <2> QED BY <2>1, OutcomeFacts
<1> QED BY <1>2, <1>3, <1>4, <1>5 DEF AC!Close, AbsStatus, AbsOutcome

LEMMA DeleteForgets ==
  ASSUME StoreTypeOK, NEW t \in Txns, DeleteTxn(t)
  PROVE  AC!Forget(t)
<1>1. /\ txnState[t] \in Terminal /\ txnState' = [txnState EXCEPT ![t] = Absent]
      /\ partFinal' = [partFinal EXCEPT ![t] = [r \in Resources |-> Absent]]
  BY DEF DeleteTxn
<1>2. /\ AbsStatus[t] \in {"committed", "aborted"}
      /\ AbsStatus' = [AbsStatus EXCEPT ![t] = "none"]
  BY <1>1, StatusFacts DEF AbsStatus, StoreTypeOK
<1>3. AbsOutcome' = [AbsOutcome EXCEPT ![t] = [r \in Resources |-> "none"]]
  BY <1>1, OutcomeFacts DEF AbsOutcome, StoreTypeOK
<1> QED BY <1>2, <1>3 DEF AC!Forget, AbsStatus, AbsOutcome

-----------------------------------------------------------------------------

LEMMA InitRefines == Init => AC!Init
BY StatusFacts, OutcomeFacts DEF Init, StoreInit, AC!Init

LEMMA StepRefines == IInv /\ [Next]_vars => [AC!Next]_(AC!vars)
<1> SUFFICES ASSUME IInv, [Next]_vars PROVE AC!Next \/ UNCHANGED AC!vars
  OBVIOUS
<1>0. StoreTypeOK
  BY DEF IInv, StoreIInv
<1>1. ASSUME NEW p \in Workers, ResourceRequest(p) \/ SyncHandle(p)
      PROVE  UNCHANGED AC!vars
  <2>1. UNCHANGED <<txnState, partFinal>>
    BY <1>1 DEF ResourceRequest, Register, UpdateVote, Unregister, SyncHandle,
                RegisterResource, UpdateResourceVote, DeleteResource, tables, txnTables
  <2> QED BY <2>1, Unseen
<1>2. ASSUME NEW p \in Workers, TxnRequest(p)
      PROVE  AC!Next \/ UNCHANGED AC!vars
  <2>1. ASSUME NEW t \in Txns, NEW rs \in SUBSET Resources, Begin(p, t, rs)
        PROVE  AC!Next
    BY <1>0, <2>1, BeginOpens DEF Begin, AC!Next
  <2>2. ASSUME NEW t \in Txns, Cleanup(p, t)
        PROVE  AC!Next
    BY <1>0, <2>2, DeleteForgets DEF Cleanup, AC!Next
  <2>3. ASSUME NEW t \in Txns, StartPrepare(p, t) \/ StartAbort(p, t) \/ StartFinish(p, t)
        PROVE  UNCHANGED AC!vars
    BY <2>3, Unseen DEF StartPrepare, StartAbort, StartFinish, tables
  <2>4. ASSUME StartRecover(p) PROVE UNCHANGED AC!vars
    BY <2>4, Unseen DEF StartRecover, tables
  <2> QED BY <1>2, <2>1, <2>2, <2>3, <2>4 DEF TxnRequest
<1>3. ASSUME NEW p \in Workers, Step(p)
      PROVE  AC!Next \/ UNCHANGED AC!vars
  <2>0. JobOK(op[p])
    BY DEF IInv, JobInv
  <2>1. CASE Record(p)
    <3>1. op[p].txn \in Txns
      BY <2>0, <2>1 DEF Record, JobOK, LockedPCs
    <3> DEFINE votes == IF op[p].kind \in {"prepare", "run"}
                        THEN CollectVotes(op[p].txn) ELSE NoVotes
               d == IF op[p].kind \in {"prepare", "run"} THEN DecisionFor(votes) ELSE "abort"
    <3>2. RecordPrepare(op[p].txn, votes, d)
      BY <2>1 DEF Record
    <3>3. d \in Decisions
      BY DEF DecisionFor
    <3> HIDE DEF votes, d
    <3> QED BY <1>0, <3>1, <3>2, <3>3, RecordDecides DEF AC!Next
  <2>2. CASE ListParts(p) \/ (\E r \in Resources : Tell(p, r)) \/ NextTxn(p) \/ EndRecover(p)
    BY <2>2, Unseen DEF ListParts, Tell, NextTxn, EndRecover, tables
  <2>3. CASE Finalize(p)
    <3>1. PICK t \in Txns, r \in Resources :
            /\ t = op[p].txn /\ r = op[p].res /\ txnState[t] = op[p].state
            /\ txnState[t] \in {"COMMITTING", "ABORTING"} /\ partFinal[t][r] = NULL
      BY <2>0, <2>3 DEF Finalize, JobOK, OpenParts, LockedPCs
    <3>2. FinalizeParticipant(t, r, FinalOf(txnState[t]))
      BY <2>3, <3>1 DEF Finalize
    <3> QED BY <1>0, <3>1, <3>2, FinalizeApplies DEF AC!Next
  <2>4. CASE Close(p)
    <3>1. PICK t \in Txns :
            /\ t = op[p].txn /\ txnState[t] = op[p].state
            /\ txnState[t] \in {"COMMITTING", "ABORTING"} /\ OpenParts(t) = {}
      BY <2>0, <2>4 DEF Close, JobOK, LockedPCs
    <3>2. SetTxnFinalState(t, TerminalOf(txnState[t]))
      BY <2>4, <3>1 DEF Close
    <3> QED BY <1>0, <3>1, <3>2, TerminalCloses DEF AC!Next
  <2> QED BY <1>3, <2>1, <2>2, <2>3, <2>4 DEF Step
<1>4. ASSUME Fault
      PROVE  AC!Next \/ UNCHANGED AC!vars
  <2>1. ASSUME NEW p \in Workers, LoseClose(p)
        PROVE  AC!Next
    <3>1. PICK t \in Txns :
            /\ t = op[p].txn /\ txnState[t] = op[p].state
            /\ txnState[t] \in {"COMMITTING", "ABORTING"} /\ OpenParts(t) = {}
      BY <2>1 DEF LoseClose, IInv, JobInv, JobOK, LockedPCs
    <3>2. SetTxnFinalState(t, TerminalOf(txnState[t]))
      BY <2>1, <3>1 DEF LoseClose
    <3> QED BY <1>0, <3>1, <3>2, TerminalCloses DEF AC!Next
  <2>2. ASSUME NEW p \in Workers, Fail(p) PROVE UNCHANGED AC!vars
    BY <2>2, Unseen DEF Fail, tables
  <2>3. ASSUME NEW r \in Resources, NEW v \in Votes, LoseReply(r, v) PROVE UNCHANGED AC!vars
    BY <2>3, Unseen DEF LoseReply, RegisterResource, UpdateResourceVote, txnTables
  <2>4. ASSUME Crash PROVE UNCHANGED AC!vars
    BY <2>4, Unseen DEF Crash, tables
  <2> QED BY <1>4, <2>1, <2>2, <2>3, <2>4 DEF Fault
<1>5. ASSUME Start PROVE UNCHANGED AC!vars
  BY <1>5, Unseen DEF Start, tables
<1>6. ASSUME UNCHANGED vars PROVE UNCHANGED AC!vars
  BY <1>6, Unseen DEF vars, tables
<1> QED BY <1>1, <1>2, <1>3, <1>4, <1>5, <1>6 DEF Next

\* Every behaviour of the coordinator is one the clients were promised.
THEOREM Refinement == Spec => Atomic
BY InitRefines, StepRefines, Invariant, PTL DEF Spec, Atomic, AC!Spec
=============================================================================
