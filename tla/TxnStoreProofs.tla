--------------------------- MODULE TxnStoreProofs ---------------------------
(***************************************************************************)
(* Proofs about the store on its own, for every set of transactions and    *)
(* resources.  The inductive invariant is the conjunction of the types and *)
(* of the four invariants of TxnStore: the ledger clause needs NoOrphanRows*)
(* when an id is begun again, and no other clause needs a stronger one.    *)
(***************************************************************************)
EXTENDS TxnStore, FiniteSetTheorems, TLAPS

StoreIInv ==
  /\ StoreTypeOK
  /\ LedgerMatchesFinals
  /\ NoOrphanRows
  /\ DecisionLogAgrees
  /\ ActiveResourcesRegistered

\* The vocabulary of the tables, expanded in nearly every leaf.
USE DEF Absent, NULL, Votes, Decisions, Finals, NonTerminal, Terminal

\* The empty database satisfies the invariant.
LEMMA StoreInitInv == StoreInit => StoreIInv
BY DEF StoreInit, StoreIInv, StoreTypeOK, LedgerMatchesFinals, NoOrphanRows,
       DecisionLogAgrees, ActiveResourcesRegistered, ActiveTxns, Members

-----------------------------------------------------------------------------
(* One lemma per operation: it preserves the invariant. *)

LEMMA RegisterResourceInv ==
  ASSUME StoreIInv, NEW r \in Resources, NEW v \in Votes, RegisterResource(r, v)
  PROVE  StoreIInv'
BY DEF RegisterResource, txnTables, StoreIInv, StoreTypeOK, LedgerMatchesFinals,
       NoOrphanRows, DecisionLogAgrees, ActiveResourcesRegistered, ActiveTxns, Members

LEMMA UpdateResourceVoteInv ==
  ASSUME StoreIInv, NEW r \in Resources, NEW v \in Votes, UpdateResourceVote(r, v)
  PROVE  StoreIInv'
BY DEF UpdateResourceVote, txnTables, StoreIInv, StoreTypeOK, LedgerMatchesFinals,
       NoOrphanRows, DecisionLogAgrees, ActiveResourcesRegistered, ActiveTxns, Members

LEMMA DeleteResourceInv ==
  ASSUME StoreIInv, NEW r \in Resources, DeleteResource(r)
  PROVE  StoreIInv'
BY DEF DeleteResource, txnTables, StoreIInv, StoreTypeOK, LedgerMatchesFinals,
       NoOrphanRows, DecisionLogAgrees, ActiveResourcesRegistered, ActiveTxns, Members

LEMMA BeginTxnInv ==
  ASSUME StoreIInv, NEW t \in Txns, NEW rs \in SUBSET Resources, BeginTxn(t, rs)
  PROVE  StoreIInv'
<1> USE DEF StoreIInv, BeginTxn, resTable
<1>1. StoreTypeOK'
  BY DEF StoreTypeOK
<1>2. LedgerMatchesFinals'
  <2> SUFFICES ASSUME NEW u \in Txns, NEW q \in Resources
               PROVE  <<q, u>> \in ledger <=> partFinal'[u][q] = "committed"
    BY DEF LedgerMatchesFinals
  <2>1. <<q, u>> \in ledger <=> partFinal[u][q] = "committed"
    BY DEF LedgerMatchesFinals
  <2>2. CASE u = t
    <3>1. partFinal[t][q] = Absent
      BY DEF NoOrphanRows
    <3>2. partFinal'[t][q] \in {NULL, Absent}
      BY DEF StoreTypeOK
    <3> QED BY <2>1, <2>2, <3>1, <3>2
  <2>3. CASE u # t
    BY <2>1, <2>3 DEF StoreTypeOK
  <2> QED BY <2>2, <2>3
<1>3. NoOrphanRows'
  BY DEF StoreTypeOK, NoOrphanRows, Members
<1>4. DecisionLogAgrees'
  BY DEF StoreTypeOK, DecisionLogAgrees, NoOrphanRows
<1>5. ActiveResourcesRegistered'
  BY DEF StoreTypeOK, ActiveResourcesRegistered, ActiveTxns, Members
<1> QED BY <1>1, <1>2, <1>3, <1>4, <1>5

LEMMA RecordPrepareInv ==
  ASSUME StoreIInv, NEW t \in Txns, NEW votes \in [Resources -> Votes \cup {NULL}],
         NEW d \in Decisions, RecordPrepare(t, votes, d)
  PROVE  StoreIInv'
<1> USE DEF StoreIInv, RecordPrepare, resTable
<1>1. StoreTypeOK'
  BY DEF StoreTypeOK
<1>2. LedgerMatchesFinals'
  BY DEF LedgerMatchesFinals
<1>3. NoOrphanRows'
  BY DEF StoreTypeOK, NoOrphanRows, Members
<1>4. DecisionLogAgrees'
  BY DEF StoreTypeOK, DecisionLogAgrees
<1>5. ActiveResourcesRegistered'
  BY DEF StoreTypeOK, ActiveResourcesRegistered, ActiveTxns, Members
<1> QED BY <1>1, <1>2, <1>3, <1>4, <1>5

LEMMA FinalizeParticipantInv ==
  ASSUME StoreIInv, NEW t \in Txns, NEW r \in Resources, NEW f \in Finals,
         FinalizeParticipant(t, r, f)
  PROVE  StoreIInv'
<1>1. CASE UNCHANGED tables
  BY <1>1 DEF tables, StoreIInv, StoreTypeOK, LedgerMatchesFinals, NoOrphanRows,
              DecisionLogAgrees, ActiveResourcesRegistered, ActiveTxns, Members
<1>2. CASE /\ partFinal[t][r] = NULL
           /\ partFinal' = [partFinal EXCEPT ![t][r] = f]
           /\ ApplyEffect(t, r, f)
           /\ UNCHANGED <<resVote, txnState, txnDecision, partVote, decisions>>
  <2> USE <1>2 DEF StoreIInv
  <2>1. StoreTypeOK'
    BY DEF StoreTypeOK, ApplyEffect
  <2>2. LedgerMatchesFinals'
    <3> SUFFICES ASSUME NEW u \in Txns, NEW q \in Resources
                 PROVE  <<q, u>> \in ledger' <=> partFinal'[u][q] = "committed"
      BY DEF LedgerMatchesFinals
    <3>1. <<q, u>> \in ledger <=> partFinal[u][q] = "committed"
      BY DEF LedgerMatchesFinals
    <3>2. partFinal'[u][q] = IF u = t /\ q = r THEN f ELSE partFinal[u][q]
      BY DEF StoreTypeOK
    <3>3. CASE u = t /\ q = r
      <4>1. <<q, u>> \notin ledger
        BY <3>1, <3>3
      <4>2. CASE f = "committed"
        BY <3>2, <3>3, <4>2 DEF ApplyEffect
      <4>3. CASE f = "aborted"
        BY <3>2, <3>3, <4>1, <4>3 DEF ApplyEffect
      <4> QED BY <4>2, <4>3
    <3>4. CASE ~(u = t /\ q = r)
      <4>1. <<q, u>> # <<r, t>>
        BY <3>4
      <4>2. <<q, u>> \in ledger' <=> <<q, u>> \in ledger
        BY <4>1 DEF ApplyEffect
      <4> QED BY <3>1, <3>2, <3>4, <4>2
    <3> QED BY <3>3, <3>4
  <2>3. NoOrphanRows'
    BY DEF StoreTypeOK, NoOrphanRows, Members
  <2>4. DecisionLogAgrees'
    BY DEF DecisionLogAgrees
  <2>5. ActiveResourcesRegistered'
    BY DEF StoreTypeOK, ActiveResourcesRegistered, ActiveTxns, Members
  <2> QED BY <2>1, <2>2, <2>3, <2>4, <2>5
<1> QED BY <1>1, <1>2 DEF FinalizeParticipant

LEMMA SetTxnFinalStateInv ==
  ASSUME StoreIInv, NEW t \in Txns, NEW s \in Terminal, SetTxnFinalState(t, s)
  PROVE  StoreIInv'
BY DEF SetTxnFinalState, resTable, StoreIInv, StoreTypeOK, LedgerMatchesFinals,
       NoOrphanRows, DecisionLogAgrees, ActiveResourcesRegistered, ActiveTxns, Members

LEMMA DeleteTxnInv ==
  ASSUME StoreIInv, NEW t \in Txns, DeleteTxn(t)
  PROVE  StoreIInv'
<1> USE DEF StoreIInv, DeleteTxn, resTable
<1>1. StoreTypeOK'
  BY DEF StoreTypeOK
<1>2. LedgerMatchesFinals'
  <2> SUFFICES ASSUME NEW u \in Txns, NEW q \in Resources
               PROVE  (<<q, u>> \in ledger <=> partFinal[u][q] = "committed")'
    BY DEF LedgerMatchesFinals
  <2>1. CASE u = t
    <3>1. partFinal'[t][q] = Absent
      BY DEF StoreTypeOK
    <3>2. <<q, t>> \notin ledger'
      OBVIOUS
    <3> QED BY <2>1, <3>1, <3>2
  <2>2. CASE u # t
    <3>1. partFinal'[u] = partFinal[u]
      BY <2>2 DEF StoreTypeOK
    <3>2. <<q, u>> \in ledger' <=> <<q, u>> \in ledger
      BY <2>2
    <3> QED BY <3>1, <3>2 DEF LedgerMatchesFinals
  <2> QED BY <2>1, <2>2
<1>3. NoOrphanRows'
  BY DEF StoreTypeOK, NoOrphanRows, Members
<1>4. DecisionLogAgrees'
  BY DEF StoreTypeOK, DecisionLogAgrees
<1>5. ActiveResourcesRegistered'
  BY DEF StoreTypeOK, ActiveResourcesRegistered, ActiveTxns, Members
<1> QED BY <1>1, <1>2, <1>3, <1>4, <1>5

\* Every step of the store preserves the invariant.
LEMMA StoreStepInv == StoreIInv /\ [StoreNext]_tables => StoreIInv'
<1> SUFFICES ASSUME StoreIInv, [StoreNext]_tables PROVE StoreIInv'
  OBVIOUS
<1>1. CASE UNCHANGED tables
  BY <1>1 DEF tables, StoreIInv, StoreTypeOK, LedgerMatchesFinals, NoOrphanRows,
              DecisionLogAgrees, ActiveResourcesRegistered, ActiveTxns, Members
<1>2. CASE StoreNext
  BY <1>2, RegisterResourceInv, UpdateResourceVoteInv, DeleteResourceInv, BeginTxnInv,
     RecordPrepareInv, FinalizeParticipantInv, SetTxnFinalStateInv, DeleteTxnInv
     DEF StoreNext
<1> QED BY <1>1, <1>2

\* The participants of a transaction are those it was begun with as long as it
\* has a row.
LEMMA MembersKept ==
  ASSUME StoreIInv, [StoreNext]_tables, NEW t \in Txns,
         txnState[t] # Absent, txnState'[t] # Absent
  PROVE  Members(t)' = Members(t)
<1>1. ASSUME NEW r \in Resources
      PROVE  partFinal'[t][r] = Absent <=> partFinal[t][r] = Absent
  <2> USE DEF StoreIInv, StoreTypeOK
  <2>1. CASE \E q \in Resources, v \in Votes : RegisterResource(q, v) \/ UpdateResourceVote(q, v)
    BY <2>1 DEF RegisterResource, UpdateResourceVote, txnTables
  <2>2. CASE \E q \in Resources : DeleteResource(q)
    BY <2>2 DEF DeleteResource, txnTables
  <2>3. CASE \E u \in Txns, rs \in SUBSET Resources : BeginTxn(u, rs)
    BY <2>3 DEF BeginTxn
  <2>4. CASE \E u \in Txns, votes \in [Resources -> Votes \cup {NULL}], d \in Decisions :
               RecordPrepare(u, votes, d)
    BY <2>4 DEF RecordPrepare
  <2>5. CASE \E u \in Txns, q \in Resources, f \in Finals : FinalizeParticipant(u, q, f)
    <3>1. PICK u \in Txns, q \in Resources, f \in Finals : FinalizeParticipant(u, q, f)
      BY <2>5
    <3>2. CASE UNCHANGED tables
      BY <3>2 DEF tables
    <3>3. CASE partFinal[u][q] = NULL /\ partFinal' = [partFinal EXCEPT ![u][q] = f]
      BY <3>3
    <3> QED BY <3>1, <3>2, <3>3 DEF FinalizeParticipant
  <2>6. CASE \E u \in Txns, s \in Terminal : SetTxnFinalState(u, s)
    BY <2>6 DEF SetTxnFinalState
  <2>7. CASE \E u \in Txns : DeleteTxn(u)
    BY <2>7 DEF DeleteTxn
  <2>8. CASE UNCHANGED tables
    BY <2>8 DEF tables
  <2> QED BY <2>1, <2>2, <2>3, <2>4, <2>5, <2>6, <2>7, <2>8 DEF StoreNext
<1> QED BY <1>1 DEF Members

\* The keys with a row.
KnownTxns == {t \in Txns : txnState[t] # Absent}
KnownResources == {r \in Resources : resVote[r] # Absent}
KnownParts == {e \in Txns \X Resources : partFinal[e[1]][e[2]] # Absent}
FiniteRows ==
  /\ IsFiniteSet(KnownTxns) /\ IsFiniteSet(KnownResources)
  /\ IsFiniteSet(KnownParts) /\ IsFiniteSet(ledger)

\* Tables are finite, whatever the sets of ids and names: a statement adds one
\* row of a kind at most, or participants that are registered.
LEMMA FiniteRowsStep == StoreIInv /\ FiniteRows /\ [StoreNext]_tables => FiniteRows'
<1> SUFFICES ASSUME StoreIInv, FiniteRows, [StoreNext]_tables PROVE FiniteRows'
  OBVIOUS
<1> USE DEF StoreIInv, StoreTypeOK
<1>1. (\E t : KnownTxns' \subseteq KnownTxns \cup {t}) /\ (\E r : KnownResources' \subseteq KnownResources \cup {r})
      /\ (\E e : ledger' \subseteq ledger \cup {e})
  <2>1. ASSUME NEW q \in Resources, NEW v \in Votes,
               RegisterResource(q, v) \/ UpdateResourceVote(q, v)
        PROVE  KnownTxns' \subseteq KnownTxns /\ KnownResources' \subseteq KnownResources \cup {q} /\ ledger' = ledger
    BY <2>1 DEF RegisterResource, UpdateResourceVote, txnTables, KnownTxns, KnownResources
  <2>2. ASSUME NEW q \in Resources, DeleteResource(q)
        PROVE  KnownTxns' \subseteq KnownTxns /\ KnownResources' \subseteq KnownResources /\ ledger' = ledger
    BY <2>2 DEF DeleteResource, txnTables, KnownTxns, KnownResources
  <2>3. ASSUME NEW u \in Txns, NEW rs \in SUBSET Resources, BeginTxn(u, rs)
        PROVE  KnownTxns' \subseteq KnownTxns \cup {u} /\ KnownResources' = KnownResources /\ ledger' = ledger
    BY <2>3 DEF BeginTxn, resTable, KnownTxns, KnownResources
  <2>4. ASSUME NEW u \in Txns, NEW votes \in [Resources -> Votes \cup {NULL}], NEW d \in Decisions,
               RecordPrepare(u, votes, d)
        PROVE  KnownTxns' \subseteq KnownTxns /\ KnownResources' = KnownResources /\ ledger' = ledger
    BY <2>4 DEF RecordPrepare, resTable, KnownTxns, KnownResources
  <2>5. ASSUME NEW u \in Txns, NEW q \in Resources, NEW f \in Finals, FinalizeParticipant(u, q, f)
        PROVE  KnownTxns' = KnownTxns /\ KnownResources' = KnownResources /\ ledger' \subseteq ledger \cup {<<q, u>>}
    BY <2>5 DEF FinalizeParticipant, ApplyEffect, tables, KnownTxns, KnownResources
  <2>6. ASSUME NEW u \in Txns, NEW s \in Terminal, SetTxnFinalState(u, s)
        PROVE  KnownTxns' \subseteq KnownTxns /\ KnownResources' = KnownResources /\ ledger' = ledger
    BY <2>6 DEF SetTxnFinalState, resTable, KnownTxns, KnownResources
  <2>7. ASSUME NEW u \in Txns, DeleteTxn(u)
        PROVE  KnownTxns' \subseteq KnownTxns /\ KnownResources' = KnownResources /\ ledger' \subseteq ledger
    BY <2>7 DEF DeleteTxn, resTable, KnownTxns, KnownResources
  <2>8. ASSUME UNCHANGED tables
        PROVE  KnownTxns' = KnownTxns /\ KnownResources' = KnownResources /\ ledger' = ledger
    BY <2>8 DEF tables, KnownTxns, KnownResources
  <2> HIDE DEF StoreIInv, StoreTypeOK
  <2> QED BY <2>1, <2>2, <2>3, <2>4, <2>5, <2>6, <2>7, <2>8 DEF StoreNext
<1>2. ASSUME NEW S, NEW T, NEW x, IsFiniteSet(S), T \subseteq S \cup {x}
      PROVE  IsFiniteSet(T)
  <2>1. IsFiniteSet(S \cup {x})
    BY <1>2, FS_AddElement
  <2> QED BY <1>2, <2>1, FS_Subset
<1>6. \/ KnownParts' \subseteq KnownParts
      \/ \E u \in Txns, rs \in SUBSET KnownResources : KnownParts' \subseteq KnownParts \cup ({u} \X rs)
  <2>1. ASSUME NEW q \in Resources, NEW v \in Votes,
               RegisterResource(q, v) \/ UpdateResourceVote(q, v) \/ DeleteResource(q)
        PROVE  partFinal' = partFinal
    BY <2>1 DEF RegisterResource, UpdateResourceVote, DeleteResource, txnTables
  <2>2. ASSUME NEW u \in Txns, NEW rs \in SUBSET Resources, BeginTxn(u, rs)
        PROVE  rs \in SUBSET KnownResources /\ KnownParts' \subseteq KnownParts \cup ({u} \X rs)
    <3>1. rs \in SUBSET KnownResources
      BY <2>2 DEF BeginTxn, KnownResources
    <3>2. ASSUME NEW t \in Txns, NEW r \in Resources, partFinal'[t][r] # Absent
          PROVE  partFinal[t][r] # Absent \/ (t = u /\ r \in rs)
      BY <2>2, <3>2 DEF BeginTxn
    <3> QED BY <3>1, <3>2 DEF KnownParts
  <2>3. ASSUME NEW u \in Txns, NEW votes \in [Resources -> Votes \cup {NULL}], NEW d \in Decisions,
               RecordPrepare(u, votes, d)
        PROVE  partFinal' = partFinal
    BY <2>3 DEF RecordPrepare
  <2>4. ASSUME NEW u \in Txns, NEW q \in Resources, NEW f \in Finals, FinalizeParticipant(u, q, f)
        PROVE  KnownParts' \subseteq KnownParts
    <3>1. ASSUME NEW t \in Txns, NEW r \in Resources, partFinal'[t][r] # Absent
          PROVE  partFinal[t][r] # Absent
      <4>1. CASE partFinal' = partFinal
        BY <3>1, <4>1
      <4>2. CASE partFinal[u][q] = NULL /\ partFinal' = [partFinal EXCEPT ![u][q] = f]
        BY <3>1, <4>2
      <4> QED BY <2>4, <4>1, <4>2 DEF FinalizeParticipant, tables
    <3> QED BY <3>1 DEF KnownParts
  <2>5. ASSUME NEW u \in Txns, NEW s \in Terminal, SetTxnFinalState(u, s)
        PROVE  partFinal' = partFinal
    BY <2>5 DEF SetTxnFinalState
  <2>6. ASSUME NEW u \in Txns, DeleteTxn(u)
        PROVE  KnownParts' \subseteq KnownParts
    <3>1. ASSUME NEW t \in Txns, NEW r \in Resources, partFinal'[t][r] # Absent
          PROVE  partFinal[t][r] # Absent
      BY <2>6, <3>1 DEF DeleteTxn
    <3> QED BY <3>1 DEF KnownParts
  <2>7. partFinal' = partFinal => KnownParts' = KnownParts
    BY DEF KnownParts
  <2> HIDE DEF StoreIInv, StoreTypeOK
  <2> QED BY <2>1, <2>2, <2>3, <2>4, <2>5, <2>6, <2>7 DEF StoreNext, tables
<1> HIDE DEF StoreIInv, StoreTypeOK
<1>3. IsFiniteSet(KnownTxns')
  BY <1>1, <1>2 DEF FiniteRows
<1>4. IsFiniteSet(KnownResources')
  BY <1>1, <1>2 DEF FiniteRows
<1>5. IsFiniteSet(ledger')
  BY <1>1, <1>2 DEF FiniteRows
<1>7. IsFiniteSet(KnownParts')
  <2>1. CASE KnownParts' \subseteq KnownParts
    BY <2>1, FS_Subset DEF FiniteRows
  <2>2. ASSUME NEW u \in Txns, NEW rs \in SUBSET KnownResources,
               KnownParts' \subseteq KnownParts \cup ({u} \X rs)
        PROVE  IsFiniteSet(KnownParts')
    <3>1. IsFiniteSet(rs) /\ IsFiniteSet({u}) /\ IsFiniteSet(KnownParts)
      BY FS_Subset, FS_Singleton DEF FiniteRows
    <3>2. IsFiniteSet({u} \X rs)
      BY ONLY <3>1, FS_Product
    <3>3. IsFiniteSet(KnownParts \cup ({u} \X rs))
      BY ONLY <3>1, <3>2, FS_Union
    <3> QED BY <2>2, <3>3, FS_Subset
  <2> QED BY <1>6, <2>1, <2>2
<1> QED BY <1>3, <1>4, <1>5, <1>7 DEF FiniteRows

-----------------------------------------------------------------------------

\* The invariants of the store hold whatever its callers do.
THEOREM StoreInvariant == StoreSpec => []StoreIInv
BY StoreInitInv, StoreStepInv, PTL DEF StoreSpec

\* The tables stay finite.
THEOREM TablesFinite == StoreSpec => []FiniteRows
<1>1. StoreInit => FiniteRows
  <2> SUFFICES ASSUME StoreInit PROVE FiniteRows
    OBVIOUS
  <2>1. KnownTxns = {} /\ KnownResources = {} /\ KnownParts = {} /\ ledger = {}
    BY DEF StoreInit, KnownTxns, KnownResources, KnownParts
  <2> QED BY <2>1, FS_EmptySet DEF FiniteRows
<1> QED BY <1>1, StoreInvariant, FiniteRowsStep, PTL DEF StoreSpec

\* Every column keeps a value of its type.
THEOREM StoreTypes == StoreSpec => []StoreTypeOK
<1>1. StoreIInv => StoreTypeOK
  BY DEF StoreIInv
<1> QED BY <1>1, StoreInvariant, PTL

\* The decisions table and the decision column never disagree.
THEOREM LogsAgree == StoreSpec => []DecisionLogAgrees
<1>1. StoreIInv => DecisionLogAgrees
  BY DEF StoreIInv
<1> QED BY <1>1, StoreInvariant, PTL

\* The ledger holds one row for every participant recorded as committed.
THEOREM LedgerCorrect == StoreSpec => []LedgerMatchesFinals
<1>1. StoreIInv => LedgerMatchesFinals
  BY DEF StoreIInv
<1> QED BY <1>1, StoreInvariant, PTL

\* A deleted id leaves no row behind in any table.
THEOREM NoOrphans == StoreSpec => []NoOrphanRows
<1>1. StoreIInv => NoOrphanRows
  BY DEF StoreIInv
<1> QED BY <1>1, StoreInvariant, PTL

\* DeleteResource and BeginTxn never cross.
THEOREM ActiveRegistered == StoreSpec => []ActiveResourcesRegistered
<1>1. StoreIInv => ActiveResourcesRegistered
  BY DEF StoreIInv
<1> QED BY <1>1, StoreInvariant, PTL

-----------------------------------------------------------------------------
(* Action properties: one step per operation. *)

LEMMA DecisionStep == StoreIInv /\ [StoreNext]_tables => [KeepsDecisions]_tables
<1> SUFFICES ASSUME StoreIInv, StoreNext, NEW t \in Txns, decisions[t] # NULL
             PROVE  decisions'[t] = decisions[t] \/ txnState'[t] = Absent
  BY DEF KeepsDecisions
<1> USE DEF StoreIInv, StoreTypeOK
<1>1. CASE \E r \in Resources, v \in Votes : RegisterResource(r, v) \/ UpdateResourceVote(r, v)
  BY <1>1 DEF RegisterResource, UpdateResourceVote, txnTables
<1>2. CASE \E r \in Resources : DeleteResource(r)
  BY <1>2 DEF DeleteResource, txnTables
<1>3. CASE \E u \in Txns, rs \in SUBSET Resources : BeginTxn(u, rs)
  BY <1>3 DEF BeginTxn
<1>4. CASE \E u \in Txns, votes \in [Resources -> Votes \cup {NULL}], d \in Decisions :
             RecordPrepare(u, votes, d)
  BY <1>4 DEF RecordPrepare
<1>5. CASE \E u \in Txns, r \in Resources, f \in Finals : FinalizeParticipant(u, r, f)
  BY <1>5 DEF FinalizeParticipant, tables
<1>6. CASE \E u \in Txns, s \in Terminal : SetTxnFinalState(u, s)
  BY <1>6 DEF SetTxnFinalState
<1>7. CASE \E u \in Txns : DeleteTxn(u)
  BY <1>7 DEF DeleteTxn
<1> QED BY <1>1, <1>2, <1>3, <1>4, <1>5, <1>6, <1>7 DEF StoreNext

LEMMA FinalsStep == StoreIInv /\ [StoreNext]_tables => [KeepsFinals]_tables
<1> SUFFICES ASSUME StoreIInv, StoreNext,
                    NEW t \in Txns, NEW r \in Resources, partFinal[t][r] \in Finals
             PROVE  partFinal'[t][r] = partFinal[t][r] \/ txnState'[t] = Absent
  BY DEF KeepsFinals
<1> USE DEF StoreIInv, StoreTypeOK
<1>1. CASE \E q \in Resources, v \in Votes : RegisterResource(q, v) \/ UpdateResourceVote(q, v)
  BY <1>1 DEF RegisterResource, UpdateResourceVote, txnTables
<1>2. CASE \E q \in Resources : DeleteResource(q)
  BY <1>2 DEF DeleteResource, txnTables
<1>3. CASE \E u \in Txns, rs \in SUBSET Resources : BeginTxn(u, rs)
  BY <1>3 DEF BeginTxn, NoOrphanRows
<1>4. CASE \E u \in Txns, votes \in [Resources -> Votes \cup {NULL}], d \in Decisions :
             RecordPrepare(u, votes, d)
  BY <1>4 DEF RecordPrepare
<1>5. CASE \E u \in Txns, q \in Resources, f \in Finals : FinalizeParticipant(u, q, f)
  BY <1>5 DEF FinalizeParticipant, tables
<1>6. CASE \E u \in Txns, s \in Terminal : SetTxnFinalState(u, s)
  BY <1>6 DEF SetTxnFinalState
<1>7. CASE \E u \in Txns : DeleteTxn(u)
  BY <1>7 DEF DeleteTxn
<1> QED BY <1>1, <1>2, <1>3, <1>4, <1>5, <1>6, <1>7 DEF StoreNext

\* When no participant of r becomes final, the counters of r must not move.
LEMMA NothingFinal ==
  ASSUME StoreTypeOK, NEW r \in Resources,
         committedCount'[r] = committedCount[r], abortedCount'[r] = abortedCount[r],
         \A t \in Txns, f \in Finals : ~(partFinal[t][r] = NULL /\ partFinal'[t][r] = f)
  PROVE  /\ committedCount'[r] = committedCount[r] + Cardinality(BecomesFinal(r, "committed"))
         /\ abortedCount'[r] = abortedCount[r] + Cardinality(BecomesFinal(r, "aborted"))
<1>1. BecomesFinal(r, "committed") = {} /\ BecomesFinal(r, "aborted") = {}
  BY DEF BecomesFinal
<1>2. Cardinality({}) = 0
  BY FS_EmptySet
<1>3. committedCount[r] \in Nat /\ abortedCount[r] \in Nat
  BY DEF StoreTypeOK
<1> QED BY <1>1, <1>2, <1>3

LEMMA CountersStep == StoreIInv /\ [StoreNext]_tables => [CountsEffects]_tables
<1> SUFFICES ASSUME StoreIInv, StoreNext,
                    NEW r \in Resources, resVote[r] # Absent, resVote'[r] # Absent
             PROVE  /\ committedCount'[r] = committedCount[r] + Cardinality(BecomesFinal(r, "committed"))
                    /\ abortedCount'[r] = abortedCount[r] + Cardinality(BecomesFinal(r, "aborted"))
  BY DEF CountsEffects
<1>t. StoreTypeOK
  BY DEF StoreIInv
<1>1. CASE \E q \in Resources, v \in Votes : RegisterResource(q, v) \/ UpdateResourceVote(q, v)
  BY <1>1, <1>t, NothingFinal
     DEF RegisterResource, UpdateResourceVote, txnTables, StoreTypeOK
<1>2. CASE \E q \in Resources : DeleteResource(q)
  BY <1>2, <1>t, NothingFinal DEF DeleteResource, txnTables, StoreTypeOK
<1>3. CASE \E u \in Txns, rs \in SUBSET Resources : BeginTxn(u, rs)
  BY <1>3, <1>t, NothingFinal DEF BeginTxn, resTable, StoreTypeOK
<1>4. CASE \E u \in Txns, votes \in [Resources -> Votes \cup {NULL}], d \in Decisions :
             RecordPrepare(u, votes, d)
  BY <1>4, <1>t, NothingFinal DEF RecordPrepare, resTable
<1>5. CASE \E u \in Txns, q \in Resources, f \in Finals : FinalizeParticipant(u, q, f)
  <2>1. PICK u \in Txns, q \in Resources, f \in Finals : FinalizeParticipant(u, q, f)
    BY <1>5
  <2>2. CASE UNCHANGED tables
    BY <2>2, <1>t, NothingFinal DEF tables
  <2>3. CASE /\ partFinal[u][q] = NULL
             /\ partFinal' = [partFinal EXCEPT ![u][q] = f]
             /\ ApplyEffect(u, q, f)
    <3>1. CASE q # r
      BY <2>3, <3>1, <1>t, NothingFinal DEF ApplyEffect, StoreTypeOK
    <3>2. CASE q = r
      <4>1. BecomesFinal(r, f) = {u}
        BY <2>3, <3>2, <1>t DEF BecomesFinal, StoreTypeOK
      <4>2. \A g \in Finals \ {f} : BecomesFinal(r, g) = {}
        BY <2>3, <3>2, <1>t DEF BecomesFinal, StoreTypeOK
      <4>3. Cardinality({u}) = 1 /\ Cardinality({}) = 0
        BY FS_Singleton, FS_EmptySet
      <4>4. committedCount[r] \in Nat /\ abortedCount[r] \in Nat
        BY <1>t DEF StoreTypeOK
      <4>5. CASE f = "committed"
        <5>1. committedCount'[r] = committedCount[r] + 1 /\ abortedCount'[r] = abortedCount[r]
          BY <2>3, <3>2, <4>5, <1>t DEF ApplyEffect, StoreTypeOK
        <5>2. Cardinality(BecomesFinal(r, "committed")) = 1
          BY <4>1, <4>3, <4>5
        <5>3. Cardinality(BecomesFinal(r, "aborted")) = 0
          BY <4>2, <4>3, <4>5
        <5> QED BY <4>4, <5>1, <5>2, <5>3
      <4>6. CASE f = "aborted"
        <5>1. abortedCount'[r] = abortedCount[r] + 1 /\ committedCount'[r] = committedCount[r]
          BY <2>3, <3>2, <4>6, <1>t DEF ApplyEffect, StoreTypeOK
        <5>2. Cardinality(BecomesFinal(r, "aborted")) = 1
          BY <4>1, <4>3, <4>6
        <5>3. Cardinality(BecomesFinal(r, "committed")) = 0
          BY <4>2, <4>3, <4>6
        <5> QED BY <4>4, <5>1, <5>2, <5>3
      <4> QED BY <4>5, <4>6
    <3> QED BY <3>1, <3>2
  <2> QED BY <2>1, <2>2, <2>3 DEF FinalizeParticipant
<1>6. CASE \E u \in Txns, s \in Terminal : SetTxnFinalState(u, s)
  BY <1>6, <1>t, NothingFinal DEF SetTxnFinalState, resTable
<1>7. CASE \E u \in Txns : DeleteTxn(u)
  BY <1>7, <1>t, NothingFinal DEF DeleteTxn, resTable, StoreTypeOK
<1> QED BY <1>1, <1>2, <1>3, <1>4, <1>5, <1>6, <1>7 DEF StoreNext

\* A recorded decision is never replaced while its transaction exists.
THEOREM DecisionsStay == StoreSpec => DecisionImmutable
BY StoreInvariant, DecisionStep, PTL DEF StoreSpec, DecisionImmutable

\* A final state is never overwritten while its transaction exists.
THEOREM FinalsStay == StoreSpec => FinalsImmutable
BY StoreInvariant, FinalsStep, PTL DEF StoreSpec, FinalsImmutable

\* The counters count every effect once.
THEOREM CountersExact == StoreSpec => CountersFollowFinals
BY StoreInvariant, CountersStep, PTL DEF StoreSpec, CountersFollowFinals
=============================================================================
