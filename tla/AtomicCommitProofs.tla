------------------------- MODULE AtomicCommitProofs -------------------------
(***************************************************************************)
(* The abstract specification keeps its promises for every set of          *)
(* transactions and resources.                                             *)
(***************************************************************************)
EXTENDS AtomicCommit, TLAPS

AbstractInv == TypeOK /\ OutcomeAgrees /\ ClosedIsComplete

LEMMA AbstractInit == Init => AbstractInv
BY DEF Init, AbstractInv, TypeOK, OutcomeAgrees, ClosedIsComplete, Status, Outcomes

LEMMA AbstractStep == AbstractInv /\ [Next]_vars => AbstractInv'
<1> SUFFICES ASSUME AbstractInv, [Next]_vars PROVE AbstractInv'
  OBVIOUS
<1> USE DEF AbstractInv, TypeOK, OutcomeAgrees, ClosedIsComplete, Status, Outcomes
<1>1. ASSUME NEW t \in Txns, NEW rs \in SUBSET Resources, Open(t, rs) PROVE AbstractInv'
  BY <1>1 DEF Open
<1>2. ASSUME NEW t \in Txns, NEW d \in {"commit", "abort"}, Decide(t, d) PROVE AbstractInv'
  BY <1>2 DEF Decide
<1>3. ASSUME NEW t \in Txns, NEW r \in Resources, Apply(t, r) PROVE AbstractInv'
  BY <1>3 DEF Apply, OutcomeOf
<1>4. ASSUME NEW t \in Txns, Close(t) PROVE AbstractInv'
  BY <1>4 DEF Close, OutcomeOf
<1>5. ASSUME NEW t \in Txns, Forget(t) PROVE AbstractInv'
  BY <1>5 DEF Forget
<1>6. CASE UNCHANGED vars
  BY <1>6 DEF vars
<1> HIDE DEF AbstractInv
<1> QED BY <1>1, <1>2, <1>3, <1>4, <1>5, <1>6 DEF Next

\* A participant ends on the decision of its transaction, and a transaction
\* is closed only when every participant has ended.
THEOREM AbstractAtomicity == Spec => [](OutcomeAgrees /\ ClosedIsComplete)
<1>1. AbstractInv => OutcomeAgrees /\ ClosedIsComplete
  BY DEF AbstractInv
<1> QED BY <1>1, AbstractInit, AbstractStep, PTL DEF Spec
=============================================================================
