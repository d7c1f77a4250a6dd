------------------------------ MODULE Analysis ------------------------------
(***************************************************************************)
(* GET /admin/analysis: Coordinator.Analyze and the analysis*.go helpers,  *)
(* served beside the coordinator's requests.  Analyze calls one read       *)
(* operation after another, and a participants' listing for each           *)
(* transaction twice.  Each takes c.mu for itself (the listing of          *)
(* resources does not take it at all), so the report is put together from  *)
(* different moments.                                                      *)
(***************************************************************************)
EXTENDS Coordinator

CONSTANT MaxWrites  \* bound: how many writes a report sees while it is under way

ASSUME AnalysisAssumption == MaxWrites \in Nat

VARIABLES
  report,  \* the report being built, then the one that was answered
  writes,  \* history: how often a table was written since the report was begun
  stuck    \* history: the transactions unfinished ever since it was begun

analysisVars == <<vars, report, writes, stuck>>

NoReport == [pc |-> "idle", todo |-> {}, txns |-> {}, resources |-> 0, decisions |-> 0,
             ledger |-> 0, pending |-> 0, yes |-> 0, no |-> 0, unknown |-> 0,
             healthy |-> FALSE, advice |-> {}]

AnalysisInit == Init /\ report = NoReport /\ writes = 0 /\ stuck = {}

Unfinished == {t \in Txns : txnState[t] \in NonTerminal}

\* ListTxns with no filter.
TxnRows == {[txn |-> t, state |-> txnState[t]] : t \in {u \in Txns : txnState[u] # Absent}}

ResourceRows == {r \in Resources : resVote[r] # Absent}
DecisionRows == {t \in Txns : decisions[t] # NULL}

\* The loop of transactionDiagnostics goes over the rows just read.
StartAnalyze ==
  /\ up = "serving"
  /\ report.pc = "idle"
  /\ mu = None
  /\ report' = [NoReport EXCEPT !.pc = "diagnose", !.todo = TxnRows]
  /\ writes' = 0
  /\ stuck' = Unfinished

\* How much of a transaction is done, in percent.
Completion(s, participants, finalized) ==
  IF s = "PREPARING" THEN 0
  ELSE IF participants = 0 THEN 100 ELSE (finalized * 100) \div participants

\* Mutant: the participants that voted are taken for the participants.
DiagnosticOfVoters(row) ==
  LET participants == Cardinality({r \in Members(row.txn) : partVote[row.txn][r] # NULL})
      finalized == Cardinality({r \in Resources : partFinal[row.txn][r] \in Finals})
  IN [txn |-> row.txn, state |-> row.state, participants |-> participants,
      finalized |-> finalized, completion |-> Completion(row.state, participants, finalized)]

\* The row read before, with the participants as they are now.
Diagnostic(row) ==
  LET participants == Cardinality(Members(row.txn))
      finalized == Cardinality({r \in Resources : partFinal[row.txn][r] \in Finals})
  IN [txn |-> row.txn, state |-> row.state, participants |-> participants,
      finalized |-> finalized, completion |-> Completion(row.state, participants, finalized)]

Diagnose(row) ==
  /\ report.pc = "diagnose"
  /\ row \in report.todo
  /\ mu = None
  /\ report' = [report EXCEPT !.todo = @ \ {row}, !.txns = @ \cup {Diagnostic(row)}]

\* ListResources does not take c.mu.
CountResources ==
  /\ report.pc = "diagnose"
  /\ report.todo = {}
  /\ report' = [report EXCEPT !.pc = "decisions", !.resources = Cardinality(ResourceRows)]

CountDecisions ==
  /\ report.pc = "decisions"
  /\ mu = None
  /\ report' = [report EXCEPT !.pc = "ledger", !.decisions = Cardinality(DecisionRows)]

CountLedger ==
  /\ report.pc = "ledger"
  /\ mu = None
  /\ report' = [report EXCEPT !.pc = "pending", !.ledger = Cardinality(ledger)]

\* The second loop goes over the transactions of the first.
CountPending ==
  /\ report.pc = "pending"
  /\ mu = None
  /\ report' = [report EXCEPT !.pc = "votes", !.pending = Cardinality(NonFinalTxns),
                              !.todo = report.txns]

\* Mutant: only the participants that are final are listed.
VotesOfFinalized(t, v) ==
  Cardinality({r \in Members(t) : partVote[t][r] = v /\ partFinal[t][r] \in Finals})

VotesAs(t, v) == Cardinality({r \in Members(t) : partVote[t][r] = v})

TallyVotes(d) ==
  /\ report.pc = "votes"
  /\ d \in report.todo
  /\ mu = None
  /\ report' = [report EXCEPT !.todo = @ \ {d}, !.yes = @ + VotesAs(d.txn, "yes"),
                              !.no = @ + VotesAs(d.txn, "no"),
                              !.unknown = @ + VotesAs(d.txn, NULL)]

ValidDiagnostic(d) == d.finalized \in 0..d.participants /\ d.completion \in 0..100

\* Mutant: the transactions still to be recovered are not looked at.
HealthyWhateverPending(rep) == \A d \in rep.txns : ValidDiagnostic(d)

\* Names and counters of the resources cannot be wrong.
Healthy(rep) == (\A d \in rep.txns : ValidDiagnostic(d)) /\ rep.pending = 0

\* {} stands for "no recovery action required".
Recommendations(rep) ==
  {a \in {"recover", "inspect", "review"} :
     \/ a = "recover" /\ rep.pending > 0
     \/ a = "inspect" /\ rep.unknown > 0
     \/ a = "review" /\ rep.decisions > rep.ledger}

Conclude ==
  /\ report.pc = "votes"
  /\ report.todo = {}
  /\ report' = [report EXCEPT !.pc = "answered", !.healthy = Healthy(report),
                              !.advice = Recommendations(report)]

\* The request is over: the history variables are of no use any more.
Over == report' = NoReport /\ writes' = 0 /\ stuck' = {}

\* The client is done with the report.
Discard == report.pc = "answered" /\ Over

\* A query returns an error, and Analyze returns it.
AnalyzeFails ==
  /\ "fail" \in Faults
  /\ report.pc \notin {"idle", "answered"}
  /\ Over

Query ==
  \/ \E row \in report.todo : Diagnose(row) \/ TallyVotes(row)
  \/ CountResources
  \/ CountDecisions
  \/ CountLedger
  \/ CountPending
  \/ Conclude

\* A step of the coordinator, seen by a report under way.
Witness ==
  /\ report.pc # "idle" /\ up' # "down"
  /\ writes' = writes + (IF tables' = tables THEN 0 ELSE 1)
  /\ writes' <= MaxWrites
  /\ stuck' = {t \in stuck : txnState'[t] \in NonTerminal}
  /\ UNCHANGED report

\* A report goes down with its process.
AnalysisNext ==
  \/ Next /\ Witness
  \/ Next /\ (report.pc = "idle" \/ up' = "down") /\ Over
  \/ StartAnalyze /\ UNCHANGED vars
  \/ Query /\ UNCHANGED <<vars, writes, stuck>>
  \/ (Discard \/ AnalyzeFails) /\ UNCHANGED vars

AnalysisSpec == AnalysisInit /\ [][AnalysisNext]_analysisVars

-----------------------------------------------------------------------------

\* Types, and what analysisHealthy makes of them: although a row and its
\* participants come from different moments, no transaction ever looks invalid,
\* so the only thing that makes a report unhealthy is pending work.
ReportTypeOK ==
  /\ report.pc \in {"idle", "diagnose", "decisions", "ledger", "pending", "votes", "answered"}
  /\ report.todo \subseteq IF report.pc = "diagnose"
                           THEN [txn : Txns, state : NonTerminal \cup Terminal] ELSE report.txns
  /\ \A d \in report.txns : ValidDiagnostic(d)
  /\ report.pc = "answered" => (report.healthy <=> report.pending = 0)
  /\ stuck \subseteq Unfinished

\* A report made while nothing was written is exact, and its parts agree with
\* each other although each comes from a table of its own: the decision log with
\* the states, the ledger with the participants, the votes with both.
ReportExactAtRest ==
  report.pc = "answered" /\ writes = 0 =>
    LET decided == {d \in report.txns : d.state # "PREPARING"}
        committed == {e \in Txns \X Resources :
                        decisions[e[1]] = "commit" /\ partFinal[e[1]][e[2]] \in Finals}
    IN /\ {<<d.txn, d.state>> : d \in report.txns}
            = {<<t, txnState[t]>> : t \in {u \in Txns : txnState[u] # Absent}}
       /\ \A d \in report.txns : d.state \in Terminal => d.completion = 100
       /\ report.decisions = Cardinality(decided)
       /\ report.ledger = Cardinality(committed)
       /\ report.yes + report.no + report.unknown
            = Cardinality({e \in Txns \X Resources : e[2] \in Members(e[1])})
       /\ report.healthy <=> Unfinished = {}

\* Nothing that stayed unfinished all the while is missed, however the tables
\* moved between the queries: a report that says healthy, or that no recovery
\* action is required, was not made over a transaction that is stuck.
AllClearIsHonest ==
  report.pc = "answered" /\ (report.healthy \/ report.advice = {}) => stuck = {}
=============================================================================
