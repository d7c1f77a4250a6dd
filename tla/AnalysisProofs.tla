--------------------------- MODULE AnalysisProofs ---------------------------
(***************************************************************************)
(* Proofs about the report, for any number of transactions, resources and  *)
(* goroutines and whatever they do between its queries: that an all-clear  *)
(* is honest, that no transaction ever looks invalid, and that a report    *)
(* made while nothing is written is exact.                                 *)
(***************************************************************************)
EXTENDS Analysis, CoordinatorProofs

USE CoordinatorAssumption DEF LockedPCs, Kinds,
    Absent, NULL, Votes, Decisions, Finals, NonTerminal, Terminal

\* The coordinator underneath: its invariant holds, and its tables are finite.
Base == IInv /\ FiniteRows

LEMMA AnalysisStep == [AnalysisNext]_analysisVars => [Next]_vars
BY DEF AnalysisNext, analysisVars

LEMMA BaseHolds == AnalysisSpec => []Base
<1>1. AnalysisInit => Init
  BY DEF AnalysisInit
<1>2. AnalysisSpec => Spec
  BY <1>1, AnalysisStep, PTL DEF AnalysisSpec, Spec
<1>3. IInv /\ FiniteRows => Base
  BY DEF Base
<1> QED BY <1>2, <1>3, Invariant, ImplementsStore, TablesFinite, PTL

\* A report has all of its fields.
WellFormed(rep) ==
  rep = [pc |-> rep.pc, todo |-> rep.todo, txns |-> rep.txns, resources |-> rep.resources,
         decisions |-> rep.decisions, ledger |-> rep.ledger, pending |-> rep.pending,
         yes |-> rep.yes, no |-> rep.no, unknown |-> rep.unknown,
         healthy |-> rep.healthy, advice |-> rep.advice]

Counted == {"votes", "answered"}

\* AllClearIsHonest speaks of the last moment of a report.  What makes it true
\* happened when the pending transactions were counted: a transaction stuck
\* until then is still unfinished (the second conjunct) and so it was counted.
HonestInv ==
  /\ WellFormed(report)
  /\ stuck \subseteq Unfinished
  /\ report.pc \in Counted => report.pending \in Nat /\ (report.pending = 0 => stuck = {})
  /\ report.pc = "answered" => (report.healthy \/ report.advice = {} => report.pending = 0)

\* The list of unfinished transactions is counted as 0 exactly if there is none.
LEMMA PendingCount ==
  ASSUME Base
  PROVE  /\ Cardinality(NonFinalTxns) \in Nat
         /\ Cardinality(NonFinalTxns) = 0 <=> Unfinished = {}
<1>1. IsFiniteSet(NonTerminal)
  <2>1. IsFiniteSet({} \cup {"PREPARING"})
    BY FS_EmptySet, FS_AddElement
  <2>2. IsFiniteSet(({} \cup {"PREPARING"}) \cup {"COMMITTING"})
    BY <2>1, FS_AddElement
  <2>3. IsFiniteSet((({} \cup {"PREPARING"}) \cup {"COMMITTING"}) \cup {"ABORTING"})
    BY <2>2, FS_AddElement
  <2>4. NonTerminal = (({} \cup {"PREPARING"}) \cup {"COMMITTING"}) \cup {"ABORTING"}
    OBVIOUS
  <2> QED
    BY <2>3, <2>4
<1>2. IsFiniteSet(KnownTxns \X NonTerminal)
  <2>1. IsFiniteSet(KnownTxns)
    BY DEF Base, FiniteRows
  <2> QED
    BY ONLY <1>1, <2>1, FS_Product
<1>3. NonFinalTxns \subseteq KnownTxns \X NonTerminal
  BY DEF NonFinalTxns, KnownTxns
<1>4. IsFiniteSet(NonFinalTxns)
  BY <1>2, <1>3, FS_Subset
<1>5. NonFinalTxns = {} <=> Unfinished = {}
  BY DEF NonFinalTxns, Unfinished
<1> QED
  BY <1>4, <1>5, FS_CardinalityType, FS_EmptySet

\* A request that is over leaves nothing to say.
LEMMA OverHonest == Over => HonestInv'
BY DEF Over, HonestInv, WellFormed, NoReport, Counted, Unfinished

\* A step of the coordinator can only take transactions out of stuck.
LEMMA WitnessHonest == HonestInv /\ Witness => HonestInv'
BY DEF Witness, HonestInv, WellFormed, Unfinished, Counted

\* The report begins with all unfinished transactions under watch.
LEMMA StartHonest == HonestInv /\ StartAnalyze /\ UNCHANGED vars => HonestInv'
BY DEF StartAnalyze, HonestInv, WellFormed, NoReport, Unfinished, Counted, vars, tables

\* The queries: only CountPending and Conclude touch what the invariant is about.
LEMMA QueryHonest ==
  ASSUME Base, HonestInv, Query, UNCHANGED <<vars, writes, stuck>>
  PROVE  HonestInv'
<1> USE DEF HonestInv, Counted
<1>0. stuck' \subseteq Unfinished'
  BY DEF vars, tables, Unfinished
<1>1. ASSUME NEW row \in report.todo, Diagnose(row) PROVE HonestInv'
  BY <1>0, <1>1 DEF Diagnose, WellFormed
<1>2. ASSUME NEW row \in report.todo, TallyVotes(row) PROVE HonestInv'
  BY <1>0, <1>2 DEF TallyVotes, WellFormed
<1>3. CASE CountResources
  BY <1>0, <1>3 DEF CountResources, WellFormed
<1>4. CASE CountDecisions
  BY <1>0, <1>4 DEF CountDecisions, WellFormed
<1>5. CASE CountLedger
  BY <1>0, <1>5 DEF CountLedger, WellFormed
<1>6. CASE CountPending
  BY <1>0, <1>6, PendingCount DEF CountPending, WellFormed
<1>7. CASE Conclude
  <2>1. report.pending # 0 => ~Healthy(report) /\ "recover" \in Recommendations(report)
    BY <1>7 DEF Conclude, Healthy, Recommendations
  <2> QED
    BY <1>0, <1>7, <2>1 DEF Conclude, WellFormed
<1> QED
  BY <1>1, <1>2, <1>3, <1>4, <1>5, <1>6, <1>7 DEF Query

-----------------------------------------------------------------------------
(* No transaction ever looks invalid. *)

\* A share of n is a percentage, and n itself is all of it.
LEMMA Percent ==
  ASSUME NEW n \in Nat, NEW f \in Nat, n # 0, f <= n
  PROVE  /\ (f * 100) \div n \in 0..100
         /\ f = n => (f * 100) \div n = 100
<1> DEFINE q == (f * 100) \div n
<1>1. q \in Int
  OBVIOUS
<1>2. n * q <= f * 100 /\ f * 100 < n * (q + 1)
  OBVIOUS
<1> HIDE DEF q
<1>3. q >= 0
  BY <1>1, <1>2
<1>4. q <= 100
  BY <1>1, <1>2
<1>5. f = n => q = 100
  BY <1>1, <1>2
<1> QED
  BY <1>1, <1>3, <1>4, <1>5 DEF q

FinalParts(t) == {r \in Resources : partFinal[t][r] \in Finals}

\* The participants of a transaction are finitely many, and its final ones are
\* among them.
LEMMA PartsFinite ==
  ASSUME Base, NEW t \in Txns
  PROVE  /\ IsFiniteSet(Members(t)) /\ Cardinality(Members(t)) \in Nat
         /\ Cardinality(FinalParts(t)) \in Nat
         /\ Cardinality(FinalParts(t)) <= Cardinality(Members(t))
<1> DEFINE row == [r \in Members(t) |-> <<t, r>>]
<1>1. row \in [Members(t) -> KnownParts]
  BY DEF Members, KnownParts
<1>2. \A q, r \in Members(t) : row[q] = row[r] => q = r
  OBVIOUS
<1> HIDE DEF row
<1>3. row \in Injection(Members(t), KnownParts)
  BY <1>1, <1>2 DEF Injection, IsInjective
<1>4. IsFiniteSet(KnownParts)
  BY DEF Base, FiniteRows
<1>5. IsFiniteSet(Members(t))
  BY <1>3, <1>4, FS_Injection
<1>6. FinalParts(t) \subseteq Members(t)
  BY DEF FinalParts, Members
<1> QED
  BY <1>5, <1>6, FS_Subset, FS_CardinalityType

\* A row read before and the participants of now never make an invalid entry.
LEMMA DiagnosticValid ==
  ASSUME Base, NEW row, row.txn \in Txns
  PROVE  ValidDiagnostic(Diagnostic(row))
<1> DEFINE n == Cardinality(Members(row.txn))
           f == Cardinality(FinalParts(row.txn))
           d == Diagnostic(row)
<1>1. n \in Nat /\ f \in Nat /\ f <= n
  BY PartsFinite
<1>2. d.participants = n /\ d.finalized = f /\ d.completion = Completion(row.state, n, f)
  BY DEF Diagnostic, FinalParts
<1> HIDE DEF n, f, d
<1>3. Completion(row.state, n, f) \in 0..100
  BY <1>1, Percent DEF Completion
<1> QED
  BY <1>1, <1>2, <1>3 DEF ValidDiagnostic, d

ReportPCs == {"idle", "diagnose", "decisions", "ledger", "pending", "votes", "answered"}
StoredRow == [txn : Txns, state : NonTerminal \cup Terminal]

\* What every report has, whatever happens between its queries.
ShapeInv ==
  /\ writes \in Nat /\ report.yes \in Nat /\ report.no \in Nat /\ report.unknown \in Nat
  /\ report.pc \in ReportPCs
  /\ report.pc = "diagnose" => report.todo \subseteq StoredRow
  /\ report.pc # "diagnose" => report.todo \subseteq report.txns
  /\ \A d \in report.txns : ValidDiagnostic(d) /\ d.txn \in Txns
  /\ report.pc = "answered" => (report.healthy <=> report.pending = 0)

LEMMA ShapeOver == Over => ShapeInv'
BY DEF Over, ShapeInv, ReportPCs, NoReport

LEMMA ShapeStart == Base /\ StartAnalyze => ShapeInv'
<1> SUFFICES ASSUME Base, StartAnalyze PROVE ShapeInv'
  OBVIOUS
<1>1. TxnRows \subseteq StoredRow
  BY DEF TxnRows, StoredRow, Base, IInv, StoreIInv, StoreTypeOK
<1> QED
  BY <1>1 DEF StartAnalyze, ShapeInv, ReportPCs, NoReport

LEMMA ShapeQuery ==
  ASSUME Base, HonestInv, ShapeInv, Query, UNCHANGED <<vars, writes, stuck>>
  PROVE  ShapeInv'
<1> USE DEF ShapeInv, ReportPCs
<1>0. WellFormed(report)
  BY DEF HonestInv
<1>1. ASSUME NEW row \in report.todo, Diagnose(row) PROVE ShapeInv'
  <2>1. row.txn \in Txns /\ report.todo \subseteq StoredRow
    BY <1>1 DEF Diagnose, StoredRow
  <2>2. ValidDiagnostic(Diagnostic(row))
    BY <2>1, DiagnosticValid
  <2>3. Diagnostic(row).txn = row.txn
    BY DEF Diagnostic
  <2> QED
    BY <1>0, <1>1, <2>1, <2>2, <2>3 DEF Diagnose, WellFormed
<1>2. ASSUME NEW d \in report.todo, TallyVotes(d) PROVE ShapeInv'
  <2>1. d.txn \in Txns
    BY <1>2 DEF TallyVotes
  <2>2. \A v : VotesAs(d.txn, v) \in Nat
    <3> SUFFICES ASSUME NEW v PROVE VotesAs(d.txn, v) \in Nat
      OBVIOUS
    <3>1. {r \in Members(d.txn) : partVote[d.txn][r] = v} \subseteq Members(d.txn)
      OBVIOUS
    <3> QED
      BY <2>1, <3>1, PartsFinite, FS_Subset, FS_CardinalityType DEF VotesAs
  <2> QED
    BY <1>0, <1>2, <2>2 DEF TallyVotes, WellFormed
<1>3. CASE CountResources
  BY <1>0, <1>3 DEF CountResources, WellFormed
<1>4. CASE CountDecisions
  BY <1>0, <1>4 DEF CountDecisions, WellFormed
<1>5. CASE CountLedger
  BY <1>0, <1>5 DEF CountLedger, WellFormed
<1>6. CASE CountPending
  BY <1>0, <1>6 DEF CountPending, WellFormed
<1>7. CASE Conclude
  BY <1>0, <1>7 DEF Conclude, WellFormed, Healthy
<1> QED
  BY <1>1, <1>2, <1>3, <1>4, <1>5, <1>6, <1>7 DEF Query

-----------------------------------------------------------------------------
(* A report made while nothing is written is exact. *)

\* The participants' rows of the transactions in ds.
PartsOf(ds) == {e \in KnownParts : \E d \in ds : d.txn = e[1]}

\* What the report has read so far, in terms of the tables of now.
AtRest ==
  /\ report.pc = "diagnose" =>
       /\ report.todo \subseteq TxnRows
       /\ report.txns = {Diagnostic(row) : row \in TxnRows \ report.todo}
  /\ report.pc # "diagnose" => report.txns = {Diagnostic(row) : row \in TxnRows}
  /\ report.pc \in {"ledger", "pending", "votes", "answered"} =>
       report.decisions = Cardinality(DecisionRows)
  /\ report.pc \in {"pending", "votes", "answered"} => report.ledger = Cardinality(ledger)
  /\ report.pc \in {"votes", "answered"} => report.pending = Cardinality(NonFinalTxns)
  /\ report.pc \in {"diagnose", "decisions", "ledger", "pending"} =>
       report.yes = 0 /\ report.no = 0 /\ report.unknown = 0
  /\ report.pc = "votes" =>
       report.yes + report.no + report.unknown = Cardinality(PartsOf(report.txns \ report.todo))
  /\ report.pc = "answered" => report.yes + report.no + report.unknown = Cardinality(KnownParts)

RestInv == report.pc # "idle" /\ writes = 0 => AtRest

\* While no table is written the report stays what it was.
LEMMA RestKept ==
  ASSUME RestInv, ShapeInv, Witness
  PROVE  RestInv'
<1> SUFFICES ASSUME writes' = 0 PROVE AtRest'
  BY DEF RestInv
<1>1. tables' = tables /\ writes = 0 /\ report' = report /\ report.pc # "idle"
  BY DEF Witness, ShapeInv
<1>2. AtRest
  BY <1>1 DEF RestInv
<1>3. /\ UNCHANGED <<txnState, partVote, partFinal, decisions, ledger>>
  BY <1>1 DEF tables
<1>4. /\ TxnRows' = TxnRows /\ DecisionRows' = DecisionRows /\ NonFinalTxns' = NonFinalTxns
      /\ KnownParts' = KnownParts /\ \A ds : PartsOf(ds)' = PartsOf(ds)
  BY <1>3 DEF TxnRows, DecisionRows, NonFinalTxns, KnownParts, PartsOf
<1>5. \A row : Diagnostic(row)' = Diagnostic(row)
  BY <1>3 DEF Diagnostic, Members, Completion
<1> QED
  BY <1>1, <1>2, <1>3, <1>4, <1>5 DEF AtRest, PartsOf

\* Entries are told apart by their transactions.
LEMMA EntryOfRow ==
  /\ \A row : Diagnostic(row).txn = row.txn /\ Diagnostic(row).state = row.state
  /\ \A row \in TxnRows : row.txn \in Txns /\ row.state = txnState[row.txn]
  /\ \A row, other \in TxnRows : row.txn = other.txn => row = other
BY DEF Diagnostic, TxnRows

\* The union of two finite sets that share nothing.
LEMMA SumOfParts ==
  ASSUME NEW S, NEW T, IsFiniteSet(S), IsFiniteSet(T), S \cap T = {}
  PROVE  Cardinality(S \cup T) = Cardinality(S) + Cardinality(T)
<1>1. Cardinality(S) \in Nat /\ Cardinality(T) \in Nat
  BY FS_CardinalityType
<1>2. Cardinality(S \cap T) = 0
  BY FS_EmptySet
<1>3. Cardinality(S \cup T) = Cardinality(S) + Cardinality(T) - Cardinality(S \cap T)
  BY ONLY IsFiniteSet(S), IsFiniteSet(T), FS_Union
<1> QED
  BY <1>1, <1>2, <1>3

\* One element for one element.
LEMMA SameSize ==
  ASSUME NEW S, NEW T, IsFiniteSet(S), NEW f \in [S -> T],
         \A x, y \in S : f[x] = f[y] => x = y, \A y \in T : \E x \in S : f[x] = y
  PROVE  Cardinality(T) = Cardinality(S)
<1>1. f \in Bijection(S, T)
  BY DEF Bijection, Injection, Surjection, IsInjective
<1> QED
  BY <1>1, FS_Bijection DEF ExistsBijection

\* Each participant of a transaction is counted under one vote.
LEMMA VotesSum ==
  ASSUME Base, NEW t \in Txns
  PROVE  /\ VotesAs(t, "yes") + VotesAs(t, "no") + VotesAs(t, NULL) = Cardinality(Members(t))
         /\ VotesAs(t, "yes") \in Nat /\ VotesAs(t, "no") \in Nat /\ VotesAs(t, NULL) \in Nat
<1> DEFINE Y == {r \in Members(t) : partVote[t][r] = "yes"}
           N == {r \in Members(t) : partVote[t][r] = "no"}
           U == {r \in Members(t) : partVote[t][r] = NULL}
<1>1. VotesAs(t, "yes") = Cardinality(Y) /\ VotesAs(t, "no") = Cardinality(N)
      /\ VotesAs(t, NULL) = Cardinality(U)
  BY DEF VotesAs
<1>2. Members(t) = (Y \cup N) \cup U
  BY DEF Base, IInv, StoreIInv, StoreTypeOK, Members
<1>3. Y \cap N = {} /\ (Y \cup N) \cap U = {}
  OBVIOUS
<1>4. Y \subseteq Members(t) /\ N \subseteq Members(t) /\ U \subseteq Members(t)
      /\ Y \cup N \subseteq Members(t)
  OBVIOUS
<1> HIDE DEF Y, N, U
<1>5. IsFiniteSet(Y) /\ IsFiniteSet(N) /\ IsFiniteSet(U) /\ IsFiniteSet(Y \cup N)
  BY <1>4, PartsFinite, FS_Subset
<1>6. Cardinality(Y) \in Nat /\ Cardinality(N) \in Nat /\ Cardinality(U) \in Nat
  BY <1>5, FS_CardinalityType
<1>7. Cardinality(Y \cup N) = Cardinality(Y) + Cardinality(N)
  BY <1>3, <1>5, SumOfParts
<1>8. Cardinality((Y \cup N) \cup U) = Cardinality(Y \cup N) + Cardinality(U)
  BY <1>3, <1>5, SumOfParts
<1> QED
  BY <1>1, <1>2, <1>6, <1>7, <1>8

\* The rows of one more transaction.
LEMMA PartsGrow ==
  ASSUME Base, NEW ds, NEW d, d.txn \in Txns, \A e \in ds : e.txn # d.txn
  PROVE  /\ Cardinality(PartsOf(ds)) \in Nat
         /\ Cardinality(PartsOf(ds \cup {d})) = Cardinality(PartsOf(ds)) + Cardinality(Members(d.txn))
<1> DEFINE M == Members(d.txn)
           P == {e \in KnownParts : e[1] = d.txn}
           row == [r \in M |-> <<d.txn, r>>]
<1>1. IsFiniteSet(KnownParts) /\ IsFiniteSet(M)
  BY PartsFinite DEF Base, FiniteRows
<1>2. PartsOf(ds) \subseteq KnownParts /\ P \subseteq KnownParts
  BY DEF PartsOf
<1>3. PartsOf(ds \cup {d}) = PartsOf(ds) \cup P /\ PartsOf(ds) \cap P = {}
  BY DEF PartsOf
<1>4. row \in [M -> P]
  BY DEF Members, KnownParts
<1>5. \A q, r \in M : row[q] = row[r] => q = r
  OBVIOUS
<1>6. \A e \in P : \E r \in M : row[r] = e
  <2> SUFFICES ASSUME NEW e \in P PROVE e[2] \in M /\ row[e[2]] = e
    OBVIOUS
  <2> QED
    BY DEF Members, KnownParts
<1> HIDE DEF M, P, row
<1>7. Cardinality(P) = Cardinality(M)
  BY <1>1, <1>4, <1>5, <1>6, SameSize
<1>8. IsFiniteSet(PartsOf(ds)) /\ IsFiniteSet(P)
  BY <1>1, <1>2, FS_Subset
<1>9. Cardinality(PartsOf(ds) \cup P) = Cardinality(PartsOf(ds)) + Cardinality(P)
  BY <1>3, <1>8, SumOfParts
<1> QED
  BY <1>3, <1>7, <1>8, <1>9, FS_CardinalityType DEF M

LEMMA RestStart == StartAnalyze /\ UNCHANGED vars => RestInv'
<1> SUFFICES ASSUME StartAnalyze, UNCHANGED vars PROVE AtRest'
  BY DEF RestInv
<1>1. /\ report'.pc = "diagnose" /\ report'.todo = TxnRows /\ report'.txns = {}
      /\ report'.yes = 0 /\ report'.no = 0 /\ report'.unknown = 0
  BY DEF StartAnalyze, NoReport
<1>2. TxnRows' = TxnRows
  BY DEF TxnRows, vars, tables
<1> QED
  BY <1>1, <1>2 DEF AtRest

LEMMA RestQuery ==
  ASSUME Base, HonestInv, ShapeInv, RestInv, Query, UNCHANGED <<vars, writes, stuck>>
  PROVE  RestInv'
<1> SUFFICES ASSUME writes = 0 PROVE AtRest'
  BY DEF RestInv
<1>0. WellFormed(report)
  BY DEF HonestInv
<1>a. /\ TxnRows' = TxnRows /\ DecisionRows' = DecisionRows /\ NonFinalTxns' = NonFinalTxns
      /\ KnownParts' = KnownParts /\ ledger' = ledger
      /\ \A ds : PartsOf(ds)' = PartsOf(ds)
      /\ \A row : Diagnostic(row)' = Diagnostic(row)
  BY DEF TxnRows, DecisionRows, NonFinalTxns, KnownParts, PartsOf, Diagnostic, Members, Completion,
         vars, tables
<1>b. report.pc # "idle" => AtRest
  BY DEF RestInv
<1>1. ASSUME NEW row \in report.todo, Diagnose(row) PROVE AtRest'
  <2>1. /\ AtRest /\ report.pc = "diagnose" /\ report'.pc = "diagnose"
        /\ report'.todo = report.todo \ {row}
        /\ report'.txns = report.txns \cup {Diagnostic(row)}
        /\ UNCHANGED <<report.yes, report.no, report.unknown>>
    BY <1>0, <1>b, <1>1 DEF Diagnose, WellFormed
  <2>2. TxnRows \ report'.todo = (TxnRows \ report.todo) \cup {row}
    BY <1>1, <2>1 DEF AtRest
  <2>3. report'.txns = {Diagnostic(r) : r \in TxnRows \ report'.todo}
    BY <2>1, <2>2 DEF AtRest
  <2> QED
    BY <1>a, <2>1, <2>3 DEF AtRest
<1>2. ASSUME NEW d \in report.todo, TallyVotes(d) PROVE AtRest'
  <2> DEFINE done == report.txns \ report.todo
  <2>1. /\ AtRest /\ report.pc = "votes" /\ report'.pc = "votes"
        /\ report'.todo = report.todo \ {d} /\ report'.txns = report.txns
        /\ UNCHANGED <<report.decisions, report.ledger, report.pending>>
        /\ report'.yes = report.yes + VotesAs(d.txn, "yes")
        /\ report'.no = report.no + VotesAs(d.txn, "no")
        /\ report'.unknown = report.unknown + VotesAs(d.txn, NULL)
    BY <1>0, <1>b, <1>2 DEF TallyVotes, WellFormed
  <2>2. d \in report.txns /\ d.txn \in Txns
    BY <1>2, <2>1 DEF ShapeInv
  <2>3. report'.txns \ report'.todo = done \cup {d}
    BY <2>1, <2>2
  <2>4. \A e \in done : e.txn # d.txn
    BY <1>2, <2>1, <2>2, EntryOfRow DEF AtRest
  <2>5. Cardinality(PartsOf(done \cup {d})) = Cardinality(PartsOf(done)) + Cardinality(Members(d.txn))
        /\ Cardinality(PartsOf(done)) \in Nat
    BY <2>2, <2>4, PartsGrow
  <2>6. report.yes + report.no + report.unknown = Cardinality(PartsOf(done))
    BY <2>1 DEF AtRest
  <2>7. report.yes \in Nat /\ report.no \in Nat /\ report.unknown \in Nat
    BY DEF ShapeInv
  <2> HIDE DEF done
  <2>v. /\ VotesAs(d.txn, "yes") + VotesAs(d.txn, "no") + VotesAs(d.txn, NULL) = Cardinality(Members(d.txn))
        /\ VotesAs(d.txn, "yes") \in Nat /\ VotesAs(d.txn, "no") \in Nat /\ VotesAs(d.txn, NULL) \in Nat
    BY <2>2, VotesSum
  <2>8. report'.yes + report'.no + report'.unknown = Cardinality(PartsOf(report'.txns \ report'.todo))
    <3>1. \A y, n, u, p, q, r \in Nat :
            (y + p) + (n + q) + (u + r) = (y + n + u) + (p + q + r)
      OBVIOUS
    <3>2. report'.yes + report'.no + report'.unknown
            = (report.yes + report.no + report.unknown)
              + (VotesAs(d.txn, "yes") + VotesAs(d.txn, "no") + VotesAs(d.txn, NULL))
      BY <2>1, <2>7, <2>v, <3>1
    <3> QED
      BY <2>3, <2>5, <2>6, <2>v, <3>2
  <2> QED
    BY <1>a, <2>1, <2>8 DEF AtRest
<1>3. CASE CountResources
  BY <1>0, <1>a, <1>b, <1>3 DEF CountResources, WellFormed, AtRest
<1>4. CASE CountDecisions
  BY <1>0, <1>a, <1>b, <1>4 DEF CountDecisions, WellFormed, AtRest
<1>5. CASE CountLedger
  BY <1>0, <1>a, <1>b, <1>5 DEF CountLedger, WellFormed, AtRest
<1>6. CASE CountPending
  <2>1. /\ AtRest /\ report.pc = "pending" /\ report'.pc = "votes"
        /\ report'.todo = report.txns /\ report'.txns = report.txns
        /\ report'.pending = Cardinality(NonFinalTxns)
        /\ UNCHANGED <<report.decisions, report.ledger, report.yes, report.no, report.unknown>>
    BY <1>0, <1>b, <1>6 DEF CountPending, WellFormed
  <2>2. PartsOf(report'.txns \ report'.todo) = {}
    BY <2>1 DEF PartsOf
  <2>3. Cardinality(PartsOf(report'.txns \ report'.todo)) = 0
    BY <2>2, FS_EmptySet
  <2> QED
    BY <1>a, <2>1, <2>3 DEF AtRest
<1>7. CASE Conclude
  <2>1. /\ AtRest /\ report.pc = "votes" /\ report'.pc = "answered"
        /\ report.todo = {} /\ report'.txns = report.txns
        /\ UNCHANGED <<report.decisions, report.ledger, report.pending,
                       report.yes, report.no, report.unknown>>
    BY <1>0, <1>b, <1>7 DEF Conclude, WellFormed
  <2>2. PartsOf(report.txns \ report.todo) = KnownParts
    <3> SUFFICES ASSUME NEW t \in Txns, NEW r \in Resources, partFinal[t][r] # Absent
                 PROVE  \E d \in report.txns : d.txn = t
      BY <2>1 DEF PartsOf, KnownParts
    <3>1. txnState[t] # Absent
      BY DEF Base, IInv, StoreIInv, NoOrphanRows
    <3>2. [txn |-> t, state |-> txnState[t]] \in TxnRows
      BY <3>1 DEF TxnRows
    <3> QED
      BY <2>1, <3>2, EntryOfRow DEF AtRest
  <2> QED
    BY <1>a, <2>1, <2>2 DEF AtRest
<1> QED
  BY <1>1, <1>2, <1>3, <1>4, <1>5, <1>6, <1>7 DEF Query

\* The decision log has one row for every transaction past PREPARING.
LEMMA DecisionsCounted ==
  ASSUME Base
  PROVE  Cardinality({d \in {Diagnostic(row) : row \in TxnRows} : d.state # "PREPARING"})
           = Cardinality(DecisionRows)
<1> DEFINE entry == [t \in DecisionRows |-> Diagnostic([txn |-> t, state |-> txnState[t]])]
           decided == {d \in {Diagnostic(row) : row \in TxnRows} : d.state # "PREPARING"}
<1>1. \A t \in Txns : decisions[t] # NULL <=> txnState[t] \notin {Absent, "PREPARING"}
  <2> SUFFICES ASSUME NEW t \in Txns
               PROVE  decisions[t] # NULL <=> txnState[t] \notin {Absent, "PREPARING"}
    OBVIOUS
  <2>1. decisions[t] = LogOf(txnState[t])
    BY DEF Base, IInv, TxnInv
  <2>2. txnState[t] \in NonTerminal \cup Terminal \cup {Absent}
    BY DEF Base, IInv, StoreIInv, StoreTypeOK
  <2> QED BY <2>1, <2>2 DEF LogOf
<1>2. IsFiniteSet(DecisionRows)
  <2>1. DecisionRows \subseteq KnownTxns
    BY <1>1 DEF DecisionRows, KnownTxns
  <2> QED
    BY <2>1, FS_Subset DEF Base, FiniteRows
<1>3. \A t \in DecisionRows :
        /\ entry[t] \in decided /\ entry[t].txn = t
        /\ [txn |-> t, state |-> txnState[t]] \in TxnRows
  BY <1>1, EntryOfRow DEF DecisionRows, TxnRows
<1>4. \A t, u \in DecisionRows : entry[t] = entry[u] => t = u
  BY <1>3
<1>5. \A d \in decided : \E t \in DecisionRows : entry[t] = d
  <2> SUFFICES ASSUME NEW t \in Txns, txnState[t] # Absent, txnState[t] # "PREPARING"
               PROVE  t \in DecisionRows
    BY EntryOfRow DEF TxnRows
  <2> QED
    BY <1>1 DEF DecisionRows
<1>6. entry \in [DecisionRows -> decided]
  BY <1>3
<1> HIDE DEF entry, decided
<1>7. Cardinality(decided) = Cardinality(DecisionRows)
  BY <1>2, <1>4, <1>5, <1>6, SameSize
<1> QED
  BY <1>7 DEF decided

\* The ledger has one row for every final participant of a commit.
LEMMA LedgerCounted ==
  ASSUME Base
  PROVE  Cardinality({e \in Txns \X Resources :
                        decisions[e[1]] = "commit" /\ partFinal[e[1]][e[2]] \in Finals})
           = Cardinality(ledger)
<1> DEFINE swap == [e \in ledger |-> <<e[2], e[1]>>]
           committed == {e \in Txns \X Resources :
                           decisions[e[1]] = "commit" /\ partFinal[e[1]][e[2]] \in Finals}
<1>1. \A t \in Txns, r \in Resources :
        <<r, t>> \in ledger <=> decisions[t] = "commit" /\ partFinal[t][r] \in Finals
  <2> SUFFICES ASSUME NEW t \in Txns, NEW r \in Resources
               PROVE  <<r, t>> \in ledger <=> decisions[t] = "commit" /\ partFinal[t][r] \in Finals
    OBVIOUS
  <2>1. <<r, t>> \in ledger <=> partFinal[t][r] = "committed"
    BY DEF Base, IInv, StoreIInv, LedgerMatchesFinals
  <2>2. /\ partFinal[t][r] = "committed" => decisions[t] = "commit"
        /\ partFinal[t][r] = "aborted" => decisions[t] = "abort"
    BY DEF Base, IInv, TxnInv
  <2> QED
    BY <2>1, <2>2
<1>2. ledger \subseteq Resources \X Txns /\ IsFiniteSet(ledger)
  BY DEF Base, FiniteRows, IInv, StoreIInv, StoreTypeOK
<1>3. \A e \in ledger : <<e[2], e[1]>> \in committed
  BY <1>1, <1>2
<1>4. swap \in [ledger -> committed]
  BY <1>3
<1>5. \A x, y \in ledger : swap[x] = swap[y] => x = y
  BY <1>2
<1>6. \A y \in committed : \E x \in ledger : swap[x] = y
  <2> SUFFICES ASSUME NEW y \in committed PROVE \E x \in ledger : swap[x] = y
    OBVIOUS
  <2>1. PICK t \in Txns, r \in Resources : y = <<t, r>>
    OBVIOUS
  <2>2. <<r, t>> \in ledger
    BY <1>1, <2>1
  <2>3. swap[<<r, t>>] = <<t, r>>
    BY <2>2
  <2> QED
    BY <2>1, <2>2, <2>3
<1> HIDE DEF swap, committed
<1>7. Cardinality(committed) = Cardinality(ledger)
  BY <1>2, <1>4, <1>5, <1>6, SameSize
<1> QED
  BY <1>7 DEF committed

\* A transaction that is reported as terminal is reported as complete.
LEMMA TerminalWhole ==
  ASSUME Base, NEW t \in Txns, txnState[t] \in Terminal
  PROVE  Diagnostic([txn |-> t, state |-> txnState[t]]).completion = 100
<1> DEFINE n == Cardinality(Members(t))
           f == Cardinality(FinalParts(t))
<1>1. FinalParts(t) = Members(t)
  BY DEF Base, IInv, TxnInv, StoreIInv, StoreTypeOK, Members, FinalParts
<1>2. n \in Nat /\ f = n
  BY <1>1, PartsFinite
<1>3. Diagnostic([txn |-> t, state |-> txnState[t]]).completion = Completion(txnState[t], n, f)
  BY DEF Diagnostic, FinalParts
<1> HIDE DEF n, f
<1> QED
  BY <1>2, <1>3, Percent DEF Completion

\* So an answer that nothing was written under is exact.
LEMMA ExactAnswer == Base /\ ShapeInv /\ RestInv => ReportExactAtRest
<1> SUFFICES ASSUME Base, ShapeInv, RestInv, report.pc = "answered", writes = 0
             PROVE  LET decided == {d \in report.txns : d.state # "PREPARING"}
                        committed == {e \in Txns \X Resources :
                                        decisions[e[1]] = "commit" /\ partFinal[e[1]][e[2]] \in Finals}
                    IN /\ {<<d.txn, d.state>> : d \in report.txns}
                            = {<<t, txnState[t]>> : t \in {u \in Txns : txnState[u] # Absent}}
                       /\ \A d \in report.txns : d.state \in Terminal => d.completion = 100
                       /\ report.decisions = Cardinality(decided)
                       /\ report.ledger = Cardinality(committed)
                       /\ report.yes + report.no + report.unknown
                            = Cardinality({e \in Txns \X Resources : e[2] \in Members(e[1])})
                       /\ report.healthy <=> Unfinished = {}
  BY DEF ReportExactAtRest
<1>1. AtRest /\ report.txns = {Diagnostic(row) : row \in TxnRows}
  BY DEF RestInv, AtRest
<1>2. {<<d.txn, d.state>> : d \in report.txns}
        = {<<t, txnState[t]>> : t \in {u \in Txns : txnState[u] # Absent}}
  <2>1. {<<d.txn, d.state>> : d \in report.txns} = {<<row.txn, row.state>> : row \in TxnRows}
    BY <1>1, EntryOfRow
  <2>2. {<<row.txn, row.state>> : row \in TxnRows}
          = {<<t, txnState[t]>> : t \in {u \in Txns : txnState[u] # Absent}}
    <3>1. \A row \in TxnRows :
            /\ row.txn \in {u \in Txns : txnState[u] # Absent}
            /\ row.state = txnState[row.txn]
      BY DEF TxnRows
    <3>2. \A t \in {u \in Txns : txnState[u] # Absent} : \E row \in TxnRows :
            row.txn = t /\ row.state = txnState[t]
      <4> SUFFICES ASSUME NEW t \in Txns, txnState[t] # Absent
                   PROVE  [txn |-> t, state |-> txnState[t]] \in TxnRows
        OBVIOUS
      <4> QED
        BY DEF TxnRows
    <3> QED
      BY <3>1, <3>2
  <2> QED
    BY <2>1, <2>2
<1>3. ASSUME NEW d \in report.txns, d.state \in Terminal
      PROVE  d.completion = 100
  <2>1. PICK t \in Txns : d = Diagnostic([txn |-> t, state |-> txnState[t]])
    BY <1>1 DEF TxnRows
  <2>2. txnState[t] \in Terminal
    BY <1>3, <2>1, EntryOfRow
  <2> QED
    BY <2>1, <2>2, TerminalWhole
<1>4. report.decisions = Cardinality({d \in report.txns : d.state # "PREPARING"})
  BY <1>1, DecisionsCounted DEF AtRest
<1>5. report.ledger = Cardinality({e \in Txns \X Resources :
                        decisions[e[1]] = "commit" /\ partFinal[e[1]][e[2]] \in Finals})
  BY <1>1, LedgerCounted DEF AtRest
<1>6. KnownParts = {e \in Txns \X Resources : e[2] \in Members(e[1])}
  BY DEF KnownParts, Members
<1>7. report.healthy <=> Unfinished = {}
  BY <1>1, PendingCount DEF AtRest, ShapeInv
<1> QED
  BY <1>1, <1>2, <1>3, <1>4, <1>5, <1>6, <1>7 DEF AtRest

\* The invariant of the report, together with HonestInv and Base.
ReportInv == HonestInv /\ ShapeInv /\ RestInv

LEMMA ReportStep == Base /\ Base' /\ ReportInv /\ [AnalysisNext]_analysisVars => ReportInv'
<1> SUFFICES ASSUME Base, ReportInv, [AnalysisNext]_analysisVars PROVE ReportInv'
  OBVIOUS
<1> USE DEF ReportInv
<1>1. CASE Witness
  <2>1. ShapeInv'
    BY <1>1 DEF Witness, ShapeInv
  <2> QED
    BY <1>1, <2>1, WitnessHonest, RestKept
<1>2. CASE Over
  <2>1. RestInv'
    BY <1>2 DEF Over, NoReport, RestInv
  <2> QED
    BY <1>2, <2>1, OverHonest, ShapeOver
<1>3. CASE StartAnalyze /\ UNCHANGED vars
  BY <1>3, StartHonest, ShapeStart, RestStart
<1>4. CASE Query /\ UNCHANGED <<vars, writes, stuck>>
  BY <1>4, QueryHonest, ShapeQuery, RestQuery
<1>5. CASE UNCHANGED analysisVars
  <2>1. HonestInv'
    BY <1>5 DEF analysisVars, vars, tables, HonestInv, WellFormed, Unfinished, Counted
  <2>2. ShapeInv'
    BY <1>5 DEF analysisVars, ShapeInv
  <2>3. RestInv'
    <3>1. TxnRows' = TxnRows /\ DecisionRows' = DecisionRows /\ NonFinalTxns' = NonFinalTxns
          /\ KnownParts' = KnownParts /\ ledger' = ledger
          /\ \A ds : PartsOf(ds)' = PartsOf(ds)
          /\ \A row : Diagnostic(row)' = Diagnostic(row)
      BY <1>5 DEF analysisVars, vars, tables, TxnRows, DecisionRows, NonFinalTxns, KnownParts,
                  PartsOf, Diagnostic, Members, Completion
    <3> QED
      BY <1>5, <3>1 DEF analysisVars, RestInv, AtRest
  <2> QED
    BY <2>1, <2>2, <2>3
<1> QED
  BY <1>1, <1>2, <1>3, <1>4, <1>5 DEF AnalysisNext, Discard, AnalyzeFails

THEOREM ReportInvariant == AnalysisSpec => [](Base /\ ReportInv)
<1>1. AnalysisInit => ReportInv
  BY DEF AnalysisInit, NoReport, ReportInv, HonestInv, WellFormed, Counted, ShapeInv, ReportPCs, RestInv
<1> QED
  BY <1>1, BaseHolds, ReportStep, PTL DEF AnalysisSpec

\* No transaction of a report ever looks invalid, so pending work is the only
\* thing that makes a report unhealthy.
THEOREM ReportTyped == AnalysisSpec => []ReportTypeOK
<1>1. ReportInv => ReportTypeOK
  BY DEF ReportInv, HonestInv, ShapeInv, ReportPCs, StoredRow, ReportTypeOK
<1> QED
  BY <1>1, ReportInvariant, PTL

\* A report made while nothing was written is exact.
THEOREM ExactAtRest == AnalysisSpec => []ReportExactAtRest
<1>1. Base /\ ReportInv => ReportExactAtRest
  BY ExactAnswer DEF ReportInv
<1> QED
  BY <1>1, ReportInvariant, PTL

\* A healthy report, or one that asks for no recovery, was not made over a
\* transaction that was unfinished all the while (Analyze, analysisHealthy and
\* Recommendations), for every interleaving with the coordinator.
THEOREM AllClear == AnalysisSpec => []AllClearIsHonest
<1>1. ReportInv => AllClearIsHonest
  BY DEF ReportInv, HonestInv, AllClearIsHonest, Counted
<1> QED
  BY <1>1, ReportInvariant, PTL
=============================================================================
