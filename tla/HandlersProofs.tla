--------------------------- MODULE HandlersProofs ---------------------------
(***************************************************************************)
(* The answers of the read requests and of the handlers that call the      *)
(* coordinator twice, for every set of goroutines, transactions and        *)
(* resources and every combination of faults.  The coordinator's inductive *)
(* invariant holds with the reader's goroutine beside Workers; the rest    *)
(* says what a request that is under way has read so far.                  *)
(***************************************************************************)
EXTENDS Handlers, RefinementProofs

USE CoordinatorAssumption, ReadersAssumption DEF LockedPCs, Kinds,
    Absent, NULL, Votes, Decisions, Finals, NonTerminal, Terminal, Empty

\* A transaction is begun with one participant at least.
MembersInv == \A t \in Txns : txnState[t] # Absent => Members(t) # {}

\* GET /txns/{id} between its queries: the row is still the one it read.
RowInv ==
  view.pc = "row" =>
    /\ view.txn \in Txns /\ txnState[view.txn] # Absent
    /\ view.state = txnState[view.txn] /\ view.decision = txnDecision[view.txn]

\* GET /admin/stats between its queries: a count is still right, except that of
\* the resources, which were enough for the unfinished transactions.
CountRight(i, n) ==
  IF i = 6 THEN (\E t \in Txns : txnState[t] \in NonTerminal) => n > 0
  ELSE n = CountOf(StatsQueries[i])

CountsInv ==
  view.pc = "counting" =>
    /\ view.counts \in Seq(Nat) /\ Len(view.counts) < Len(StatsQueries)
    /\ \A i \in 1..Len(view.counts) : CountRight(i, view.counts[i])

PreviewInv ==
  view.pc = "preview" => \A e \in view.rows :
    /\ e.txn \in Txns /\ e.state \in NonTerminal
    /\ e.target = IF e.state = "COMMITTING" THEN "COMMITTED" ELSE "ABORTED"

ViewInv == RowInv /\ CountsInv /\ PreviewInv /\ TxnAnswerConsistent /\ StatsAddUp

\* The fields of a request that is under way.
ResourcePCs == {"sync", "readback", "resource"}
TxnPCs == {"begun", "created", "found", "participants"}

FieldsInv ==
  /\ web # NoView => up # "down"
  /\ web.pc = "idle" => web = NoView
  /\ web.pc \in {"idle", "refused"} \cup ResourcePCs \cup TxnPCs
  /\ web.pc \in ResourcePCs =>
       /\ {"pc", "res", "asked", "touched"} \subseteq DOMAIN web
       /\ web.res \in Resources /\ web.asked \in Votes
  /\ web.pc = "resource" => {"failed", "vote"} \subseteq DOMAIN web
  /\ web.pc \in TxnPCs =>
       /\ {"pc", "txn", "asked", "touched", "deleted"} \subseteq DOMAIN web
       /\ web.txn \in Txns
  /\ web.pc = "created" => {"failed", "state", "members"} \subseteq DOMAIN web
  /\ web.pc = "participants" => "members" \in DOMAIN web

\* An untouched resource request: row, handle and everybody's pending map write
\* agree with what it asked for.
ResourceInv ==
  web.pc \in ResourcePCs /\ ~web.touched =>
    /\ resVote[web.res] = web.asked
    /\ \A p \in Workers : op[p].pc = "handle" /\ op[p].res = web.res => op[p].vote = web.asked
    /\ web.pc # "sync" => handles[web.res] = web.asked
    /\ web.pc = "resource" => web.failed \/ web.vote = web.asked

\* An untouched transaction request: nobody is at work on its transaction.
TxnWebInv ==
  /\ web.pc = "begun" /\ ~web.touched =>
       txnState[web.txn] = "PREPARING" /\ \A p \in Workers : op[p].txn # web.txn
  /\ web.pc \in {"begun", "found"} /\ ~web.deleted =>
       txnState[web.txn] # Absent /\ Members(web.txn) = web.asked
  /\ BegunAsAsked
  /\ ListsFoundTxn

HandlersInv ==
  /\ IInv /\ FiniteRows /\ MembersInv
  /\ ReadersTypeOK /\ ViewInv
  /\ FieldsInv /\ ResourceInv /\ TxnWebInv

-----------------------------------------------------------------------------
(* The tables under a step of a handler. *)

\* A handler writes one row, or one handle, or nothing.
WroteRow ==
  \E r \in Resources, v \in Votes :
    /\ RegisterResource(r, v) \/ UpdateResourceVote(r, v)
    /\ UNCHANGED <<mu, handles>>
BeganTxn ==
  \E t \in Txns, rs \in SUBSET Resources :
    /\ rs # {} /\ mu = None /\ up = "serving" /\ BeginTxn(t, rs)
    /\ UNCHANGED <<mu, handles>>
WroteHandle ==
  /\ handles' \in [Resources -> Votes \cup {Absent}]
  /\ UNCHANGED <<tables, mu>>

LEMMA HandlerWrites ==
  ASSUME IInv, FieldsInv, HandlerStep
  PROVE  WroteRow \/ BeganTxn \/ WroteHandle
<1>1. handles \in [Resources -> Votes \cup {Absent}]
  BY DEF IInv, VarsOK
<1>2. ASSUME NEW r \in Resources \cup {Empty}, NEW v \in VoteTexts, PostResource(r, v)
      PROVE  WroteRow \/ WroteHandle
  <2>1. Valid(r, VoteOrDefault(v)) => r \in Resources /\ VoteOrDefault(v) \in Votes
    BY DEF Valid
  <2> QED BY <1>1, <1>2, <2>1 DEF PostResource, Wrote, Refused, WroteRow, WroteHandle
<1>3. ASSUME NEW r \in Resources, NEW v \in VoteTexts, PutResource(r, v)
      PROVE  WroteRow \/ WroteHandle
  BY <1>1, <1>3 DEF PutResource, Wrote, Refused, WroteRow, WroteHandle
<1>4. ASSUME SyncOwnHandle
      PROVE  WroteHandle
  BY <1>1, <1>4 DEF SyncOwnHandle, FieldsInv, ResourcePCs, WroteHandle
<1>5. ASSUME NEW t \in Txns, NEW rs \in SUBSET Resources, PostTxn(t, rs)
      PROVE  BeganTxn \/ WroteHandle
  BY <1>1, <1>5 DEF PostTxn, Received, Asked, Refused, BeganTxn, WroteHandle
<1>6. ASSUME ReadBackResource \/ ReadBackTxn \/ (\E t \in Txns : FindTxn(t)) \/ ListFoundTxn \/ Done
      PROVE  WroteHandle
  BY <1>1, <1>6 DEF ReadBackResource, ReadBackTxn, FindTxn, ListFoundTxn, Done, Refused, WroteHandle
<1> QED BY <1>2, <1>3, <1>4, <1>5, <1>6 DEF HandlerStep

\* The coordinator's invariant, with finite tables and no empty transaction.
TablesInv == IInv /\ FiniteRows /\ MembersInv

LEMMA TablesInit == HandlersInit => TablesInv
<1> SUFFICES ASSUME Init PROVE TablesInv
  BY DEF HandlersInit, ReadersInit
<1>1. KnownTxns = {} /\ KnownResources = {} /\ KnownParts = {} /\ ledger = {}
  BY DEF Init, StoreInit, KnownTxns, KnownResources, KnownParts
<1>2. FiniteRows
  BY <1>1, FS_EmptySet DEF FiniteRows
<1>3. MembersInv
  BY DEF Init, StoreInit, MembersInv
<1> QED BY <1>2, <1>3, InitInv DEF TablesInv

LEMMA MembersInvKept ==
  ASSUME IInv, MembersInv, [StoreNext]_tables,
         \A t \in Txns : txnState[t] = Absent /\ txnState'[t] # Absent =>
           \E rs \in SUBSET Resources : rs # {} /\ BeginTxn(t, rs)
  PROVE  MembersInv'
<1> SUFFICES ASSUME NEW t \in Txns, txnState'[t] # Absent PROVE Members(t)' # {}
  BY DEF MembersInv
<1>1. CASE txnState[t] # Absent
  BY <1>1, MembersKept DEF IInv, MembersInv
<1>2. CASE txnState[t] = Absent
  <2>1. PICK rs \in SUBSET Resources : rs # {} /\ BeginTxn(t, rs)
    BY <1>2
  <2>2. \A r \in rs : partFinal'[t][r] = NULL
    BY <2>1 DEF BeginTxn, IInv, StoreIInv, StoreTypeOK
  <2> QED BY <2>1, <2>2 DEF Members
<1> QED BY <1>1, <1>2

LEMMA TablesRun ==
  ASSUME TablesInv, Next
  PROVE  TablesInv'
<1>1. IInv' /\ [StoreNext]_tables
  BY StepInv, StoreStep DEF TablesInv
<1>2. FiniteRows'
  BY <1>1, FiniteRowsStep DEF TablesInv, IInv
<1>3. MembersInv'
  BY <1>1, Appears, MembersInvKept DEF TablesInv
<1> QED BY <1>1, <1>2, <1>3 DEF TablesInv

LEMMA TablesHandler ==
  ASSUME TablesInv, WroteRow \/ BeganTxn \/ WroteHandle, UNCHANGED <<up, op, told>>
  PROVE  TablesInv' /\ [StoreNext]_tables
<1>1. [StoreNext]_tables
  BY DEF WroteRow, BeganTxn, WroteHandle, StoreNext
<1>2. StoreIInv'
  BY <1>1, StoreStepInv DEF TablesInv, IInv
<1>3. IInv'
  <2>1. CASE WroteRow
    <3>1. UNCHANGED <<process, told, txnTables>>
      BY <2>1 DEF WroteRow, RegisterResource, UpdateResourceVote, process
    <3> QED BY <1>2, <3>1, ResourceWriteKept DEF TablesInv
  <2>2. CASE BeganTxn
    BY <1>2, <2>2, BeginKept DEF BeganTxn, TablesInv, process
  <2>3. CASE WroteHandle
    BY <1>2, <2>3, OthersKept DEF WroteHandle, TablesInv
  <2> QED BY <2>1, <2>2, <2>3
<1>4. FiniteRows'
  BY <1>1, FiniteRowsStep DEF TablesInv, IInv
<1>5. MembersInv'
  <2>1. ASSUME NEW t \in Txns, txnState[t] = Absent, txnState'[t] # Absent
        PROVE  \E rs \in SUBSET Resources : rs # {} /\ BeginTxn(t, rs)
    <3>1. BeganTxn
      BY <2>1 DEF WroteRow, WroteHandle, RegisterResource, UpdateResourceVote, tables, txnTables
    <3>2. PICK u \in Txns, rs \in SUBSET Resources : rs # {} /\ BeginTxn(u, rs)
      BY <3>1 DEF BeganTxn
    <3>3. u = t
      BY <2>1, <3>2 DEF BeginTxn, TablesInv, IInv, StoreIInv, StoreTypeOK
    <3> QED BY <3>2, <3>3
  <2> QED BY <1>1, <2>1, MembersInvKept DEF TablesInv
<1> QED BY <1>1, <1>3, <1>4, <1>5 DEF TablesInv

\* A reader changes no table and moves c.mu between itself and nobody.
LEMMA TablesReader ==
  ASSUME TablesInv, ReadersTypeOK, ReaderStep, UNCHANGED <<tables, up, handles, op, told>>
  PROVE  TablesInv'
<1>1. mu' = mu \/ (mu \notin Workers /\ mu' \notin Workers)
  BY DEF ReaderStep, ReadTxnRow, ReadTxnParts, StartStats, ReadCount, RecoverPreview, Forget,
         ReadFails, HoldLock, ReadersTypeOK
<1>2. StoreIInv'
  BY StoreStepInv DEF TablesInv, IInv
<1>3. IInv'
  BY <1>1, <1>2, OthersKept DEF TablesInv, IInv, VarsOK
<1>4. FiniteRows' /\ MembersInv'
  BY DEF TablesInv, FiniteRows, KnownTxns, KnownResources, KnownParts, MembersInv, Members,
       tables
<1> QED BY <1>3, <1>4 DEF TablesInv
-----------------------------------------------------------------------------
(* The read requests. *)

\* What has been read stays right while no transaction moves under the lock.
LEMMA ViewStands ==
  ASSUME ReadersTypeOK, ViewInv, view' = view, mu = Reader => UNCHANGED txnTables
  PROVE  ViewInv'
<1>1. RowInv'
  BY DEF ReadersTypeOK, ViewInv, RowInv, txnTables
<1>2. CountsInv'
  <2> SUFFICES ASSUME view.pc = "counting",
                      NEW i \in 1..Len(view.counts), CountRight(i, view.counts[i])
               PROVE  CountRight(i, view.counts[i])'
    BY DEF ViewInv, CountsInv, StatsQueries
  <2>1. UNCHANGED <<txnState, decisions, ledger>>
    BY DEF ReadersTypeOK, txnTables
  <2>2. i # 6 => StatsQueries[i] # "resources"
    <3>1. Len(view.counts) \in Nat /\ Len(view.counts) < 8
      BY DEF ViewInv, CountsInv, StatsQueries
    <3>2. i \in 1..8
      BY <3>1
    <3> QED BY <3>2 DEF StatsQueries
  <2> QED BY <2>1, <2>2 DEF CountRight, CountOf
<1>3. PreviewInv' /\ TxnAnswerConsistent' /\ StatsAddUp'
  BY DEF ViewInv, PreviewInv, TxnAnswerConsistent, StatsAddUp
<1> QED BY <1>1, <1>2, <1>3 DEF ViewInv

LEMMA NothingRead ==
  ASSUME view' = NoView
  PROVE  ViewInv' /\ view'.pc = "idle"
BY DEF NoView, ViewInv, RowInv, CountsInv, PreviewInv, TxnAnswerConsistent, StatsAddUp

\* The two queries of GET /txns/{id} see one moment, and at every moment a row
\* and its participants fit together.
LEMMA RowAnswers ==
  ASSUME TablesInv, ViewInv, ReadTxnParts
  PROVE  TxnAnswerConsistent'
<1>1. PICK t \in Txns :
        /\ view.txn = t /\ txnState[t] # Absent
        /\ view.state = txnState[t] /\ view.decision = txnDecision[t]
  BY DEF ReadTxnParts, ViewInv, RowInv
<1>2. /\ view'.state = txnState[t] /\ view'.decision = txnDecision[t]
      /\ view'.votes = partVote[t] /\ view'.finals = partFinal[t]
  BY <1>1 DEF ReadTxnParts
<1>3. /\ decisions[t] = LogOf(txnState[t]) /\ decisions[t] = txnDecision[t]
      /\ txnState[t] \in NonTerminal \cup Terminal
      /\ partFinal[t] \in [Resources -> Finals \cup {NULL, Absent}]
      /\ Members(t) # {}
  BY <1>1 DEF TablesInv, IInv, StoreIInv, StoreTypeOK, DecisionLogAgrees, TxnInv, MembersInv
<1>4. \A r \in Resources :
        /\ partFinal[t][r] = "committed" => decisions[t] = "commit"
        /\ partFinal[t][r] = "aborted" => decisions[t] = "abort"
        /\ decisions[t] = "commit" /\ partFinal[t][r] # Absent => partVote[t][r] = "yes"
        /\ txnState[t] \in Terminal => partFinal[t][r] # NULL
  BY DEF TablesInv, IInv, TxnInv
<1> QED BY <1>2, <1>3, <1>4 DEF TxnAnswerConsistent, LogOf, Members

-----------------------------------------------------------------------------
(* The counts of GET /admin/stats. *)

\* The transactions in one state.
In(s) == {t \in Txns : txnState[t] = s}

Decided == {t \in Txns : decisions[t] # NULL}

LEMMA FiniteSets ==
  ASSUME TablesInv
  PROVE  /\ \A s \in NonTerminal \cup Terminal : IsFiniteSet(In(s))
         /\ IsFiniteSet(Decided) /\ IsFiniteSet(KnownResources) /\ IsFiniteSet(ledger)
<1>1. \A s \in NonTerminal \cup Terminal : In(s) \subseteq KnownTxns
  BY DEF KnownTxns, In
<1>2. Decided \subseteq KnownTxns
  BY DEF KnownTxns, Decided, TablesInv, IInv, StoreIInv, NoOrphanRows
<1> QED BY <1>1, <1>2, FS_Subset DEF TablesInv, FiniteRows

LEMMA CountsTyped ==
  ASSUME TablesInv, NEW i \in 1..8
  PROVE  CountOf(StatsQueries[i]) \in Nat
<1>1. \A s \in NonTerminal \cup Terminal : IsFiniteSet(In(s))
  BY FiniteSets
<1>2. CASE i \in 1..5
  <2>1. PICK s \in NonTerminal \cup Terminal : StatsQueries[i] = s
    BY <1>2 DEF StatsQueries
  <2>2. CountOf(s) = Cardinality(In(s))
    BY DEF CountOf, In
  <2> QED BY <1>1, <2>1, <2>2, FS_CardinalityType
<1>3. CASE i = 6
  BY <1>3, FiniteSets, FS_CardinalityType DEF StatsQueries, CountOf, KnownResources
<1>4. CASE i = 7
  BY <1>4, FiniteSets, FS_CardinalityType DEF StatsQueries, CountOf
<1>5. CASE i = 8
  BY <1>5, FiniteSets, FS_CardinalityType DEF StatsQueries, CountOf, Decided
<1> QED BY <1>2, <1>3, <1>4, <1>5

\* The decided transactions are those past PREPARING, state by state.
LEMMA DecidedSum ==
  ASSUME TablesInv
  PROVE  Cardinality(Decided) = Cardinality(In("COMMITTING")) + Cardinality(In("ABORTING"))
                              + Cardinality(In("COMMITTED")) + Cardinality(In("ABORTED"))
<1> DEFINE A == In("COMMITTING")
           B == In("ABORTING")
           C == In("COMMITTED")
           D == In("ABORTED")
<1>1. Decided = A \cup B \cup C \cup D
  <2>1. \A t \in Txns : decisions[t] = LogOf(txnState[t])
    BY DEF TablesInv, IInv, TxnInv
  <2>2. \A t \in Txns : decisions[t] # NULL <=>
           txnState[t] \in {"COMMITTING", "ABORTING", "COMMITTED", "ABORTED"}
    BY <2>1 DEF LogOf
  <2> QED BY <2>2 DEF Decided, In
<1>2. A \cap B = {} /\ (A \cup B) \cap C = {} /\ (A \cup B \cup C) \cap D = {}
  BY DEF In
<1>3. IsFiniteSet(A) /\ IsFiniteSet(B) /\ IsFiniteSet(C) /\ IsFiniteSet(D)
  BY FiniteSets
<1> HIDE DEF A, B, C, D
<1>4. ASSUME NEW S, NEW T, IsFiniteSet(S), IsFiniteSet(T), S \cap T = {}
      PROVE  IsFiniteSet(S \cup T) /\ Cardinality(S \cup T) = Cardinality(S) + Cardinality(T)
  <2>1. Cardinality(S) \in Nat /\ Cardinality(T) \in Nat
    BY <1>4, FS_CardinalityType
  <2>2. Cardinality(S \cap T) = 0
    BY <1>4, FS_EmptySet
  <2>3. /\ IsFiniteSet(S \cup T)
        /\ Cardinality(S \cup T) = Cardinality(S) + Cardinality(T) - Cardinality(S \cap T)
    BY ONLY IsFiniteSet(S), IsFiniteSet(T), FS_Union
  <2> QED BY <2>1, <2>2, <2>3
<1>5. IsFiniteSet(A \cup B) /\ Cardinality(A \cup B) = Cardinality(A) + Cardinality(B)
  BY <1>2, <1>3, <1>4
<1>6. /\ IsFiniteSet((A \cup B) \cup C)
      /\ Cardinality((A \cup B) \cup C) = Cardinality(A \cup B) + Cardinality(C)
  BY <1>2, <1>3, <1>4, <1>5
<1>7. Cardinality(((A \cup B) \cup C) \cup D) = Cardinality((A \cup B) \cup C) + Cardinality(D)
  BY <1>2, <1>3, <1>4, <1>6
<1> QED BY <1>1, <1>5, <1>6, <1>7 DEF A, B, C, D

\* Every committed transaction has a ledger row of its own.
LEMMA LedgerCovers ==
  ASSUME TablesInv
  PROVE  Cardinality(In("COMMITTED")) <= Cardinality(ledger)
<1>1. ASSUME NEW t \in In("COMMITTED")
      PROVE  \E r \in Resources : <<r, t>> \in ledger
  <2>1. t \in Txns /\ txnState[t] = "COMMITTED"
    BY DEF In
  <2>2. PICK r \in Resources : partFinal[t][r] # Absent
    BY <2>1 DEF TablesInv, MembersInv, Members
  <2>3. partFinal[t][r] = "committed"
    <3>1. decisions[t] = "commit"
      BY <2>1 DEF TablesInv, IInv, TxnInv, LogOf
    <3> QED BY <2>1, <2>2, <3>1 DEF TablesInv, IInv, TxnInv, StoreIInv, StoreTypeOK
  <2> QED BY <2>1, <2>3 DEF TablesInv, IInv, StoreIInv, LedgerMatchesFinals
<1> DEFINE rowOf == [t \in In("COMMITTED") |-> <<CHOOSE r \in Resources : <<r, t>> \in ledger, t>>]
<1>2. \A t \in In("COMMITTED") : rowOf[t] \in ledger /\ rowOf[t][2] = t
  BY <1>1
<1>3. \A t \in In("COMMITTED") : <<CHOOSE r \in Resources : <<r, t>> \in ledger, t>> \in ledger
  BY <1>1
<1>4. rowOf \in [In("COMMITTED") -> ledger]
  BY <1>3
<1> HIDE DEF rowOf
<1>5. \A t, u \in In("COMMITTED") : rowOf[t] = rowOf[u] => t = u
  BY <1>2
<1>6. rowOf \in Injection(In("COMMITTED"), ledger)
  BY <1>4, <1>5 DEF Injection, IsInjective
<1> QED BY <1>6, FiniteSets, FS_Injection

LEMMA CountsFit ==
  ASSUME TablesInv
  PROVE  /\ CountOf("decisions") = CountOf("COMMITTING") + CountOf("ABORTING")
                                  + CountOf("COMMITTED") + CountOf("ABORTED")
         /\ CountOf("ledger") >= CountOf("COMMITTED")
         /\ CountOf("ledger") > 0 => CountOf("COMMITTED") + CountOf("COMMITTING") > 0
         /\ CountOf("PREPARING") + CountOf("COMMITTING") + CountOf("ABORTING") > 0 =>
              \E t \in Txns : txnState[t] \in NonTerminal
<1>1. /\ CountOf("decisions") = Cardinality(Decided) /\ CountOf("ledger") = Cardinality(ledger)
      /\ \A s \in NonTerminal \cup Terminal : CountOf(s) = Cardinality(In(s))
  BY DEF CountOf, Decided, In
<1>2. \A s \in NonTerminal \cup Terminal :
        Cardinality(In(s)) \in Nat /\ (Cardinality(In(s)) = 0 <=> In(s) = {})
  BY FiniteSets, FS_CardinalityType, FS_EmptySet
<1>3. Cardinality(ledger) \in Nat /\ (Cardinality(ledger) = 0 <=> ledger = {})
  BY FiniteSets, FS_CardinalityType, FS_EmptySet
<1>4. ASSUME ledger # {}
      PROVE  In("COMMITTED") # {} \/ In("COMMITTING") # {}
  <2>0. PICK e \in Resources \X Txns : e \in ledger
    BY <1>4 DEF TablesInv, IInv, StoreIInv, StoreTypeOK
  <2>1. PICK r \in Resources, t \in Txns : <<r, t>> \in ledger
    BY <2>0
  <2>2. decisions[t] = "commit"
    BY <2>1 DEF TablesInv, IInv, StoreIInv, LedgerMatchesFinals, TxnInv
  <2>3. txnState[t] \in {"COMMITTING", "COMMITTED"}
    BY <2>2 DEF TablesInv, IInv, TxnInv, LogOf
  <2> QED BY <2>3 DEF In
<1>5. (\E s \in NonTerminal : In(s) # {}) => \E t \in Txns : txnState[t] \in NonTerminal
  BY DEF In
<1>6. CountOf("ledger") > 0 => CountOf("COMMITTED") + CountOf("COMMITTING") > 0
  BY <1>1, <1>2, <1>3, <1>4
<1>7. CountOf("PREPARING") + CountOf("COMMITTING") + CountOf("ABORTING") > 0 =>
        \E s \in NonTerminal : In(s) # {}
  BY <1>1, <1>2
<1>8. CountOf("ledger") >= CountOf("COMMITTED")
  BY <1>1, <1>2, <1>3, LedgerCovers
<1> QED BY <1>1, <1>5, <1>6, <1>7, <1>8, DecidedSum

\* An unfinished transaction has a participant, and that is registered.
LEMMA ResourcesEnough ==
  ASSUME TablesInv, NEW t \in Txns, txnState[t] \in NonTerminal
  PROVE  CountOf("resources") > 0
<1>1. PICK r \in Resources : partFinal[t][r] # Absent
  BY DEF TablesInv, MembersInv, Members
<1>2. r \in KnownResources
  BY <1>1 DEF KnownResources, TablesInv, IInv, StoreIInv, ActiveResourcesRegistered, ActiveTxns,
              Members
<1>3. Cardinality(KnownResources) \in Nat /\ Cardinality(KnownResources) # 0
  BY <1>2, FiniteSets, FS_CardinalityType, FS_EmptySet
<1> QED BY <1>3 DEF CountOf, KnownResources

\* Each query is at one place of the list.
LEMMA QueryIndex ==
  ASSUME NEW n \in 1..8
  PROVE  (CHOOSE i \in DOMAIN StatsQueries : StatsQueries[i] = StatsQueries[n]) = n
<1>1. DOMAIN StatsQueries = 1..8
  BY DEF StatsQueries
<1>2. \A i \in 1..8 : StatsQueries[i] = StatsQueries[n] => i = n
  BY DEF StatsQueries
<1> HIDE DEF StatsQueries
<1> QED BY <1>1, <1>2

\* A query adds a right count; the last one makes the answer.
LEMMA CountAnswers ==
  ASSUME TablesInv, ViewInv, ReadCount, UNCHANGED tables
  PROVE  CountsInv' /\ StatsAddUp'
<1> DEFINE n == Len(view.counts)
           c == CountOf(StatsQueries[n + 1])
<1>1. /\ view.counts \in Seq(Nat) /\ n \in Nat /\ n < 8
      /\ \A i \in 1..n : CountRight(i, view.counts[i])
  BY DEF ReadCount, ViewInv, CountsInv, StatsQueries
<1>2. /\ view'.counts = Append(view.counts, c)
      /\ view'.pc = IF n + 1 = 8 THEN "stats" ELSE "counting"
  BY DEF ReadCount, StatsQueries
<1>3. c \in Nat
  <2>0. \A k \in Nat : k < 8 => k + 1 \in 1..8
    OBVIOUS
  <2>1. n + 1 \in 1..8
    BY <1>1, <2>0
  <2> HIDE DEF n
  <2> QED BY <2>1, CountsTyped
<1>4. CountRight(n + 1, c)
  <2>1. CASE n + 1 = 6
    BY <2>1, ResourcesEnough DEF CountRight, StatsQueries
  <2>2. CASE n + 1 # 6
    BY <2>2 DEF CountRight
  <2> QED BY <2>1, <2>2
<1> HIDE DEF c
<1>5. /\ view'.counts \in Seq(Nat) /\ Len(view'.counts) = n + 1
      /\ \A i \in 1..n : view'.counts[i] = view.counts[i]
      /\ view'.counts[n + 1] = c
  BY <1>1, <1>2, <1>3
<1>6. \A i \in 1..(n + 1) : CountRight(i, view'.counts[i])
  <2> SUFFICES ASSUME NEW i \in 1..(n + 1) PROVE CountRight(i, view'.counts[i])
    OBVIOUS
  <2>1. CASE i \in 1..n
    BY <1>1, <1>5, <2>1
  <2>2. CASE i = n + 1
    BY <1>4, <1>5, <2>2
  <2> QED BY <1>1, <2>1, <2>2
<1>7. CountsInv'
  <2>1. \A i : CountOf(StatsQueries[i])' = CountOf(StatsQueries[i])
    BY DEF CountOf, tables, StatsQueries
  <2>2. txnState' = txnState
    BY DEF tables
  <2>3. SUFFICES ASSUME view'.pc = "counting", NEW i \in 1..(n + 1)
                 PROVE  CountRight(i, view.counts[i])'
    BY <1>1, <1>2, <1>5 DEF CountsInv, StatsQueries
  <2>4. CountRight(i, view'.counts[i])
    BY <1>6
  <2> QED BY <2>1, <2>2, <2>4 DEF CountRight
<1>8. ASSUME n + 1 = 8
      PROVE  StatsAddUp'
  <2>1. \A i \in 1..8 : CountRight(i, view'.counts[i]) /\ view'.counts[i] \in Nat
    BY <1>5, <1>6, <1>8
  <2>2. /\ view'.counts[1] = CountOf("PREPARING") /\ view'.counts[2] = CountOf("COMMITTING")
        /\ view'.counts[3] = CountOf("ABORTING") /\ view'.counts[4] = CountOf("COMMITTED")
        /\ view'.counts[5] = CountOf("ABORTED") /\ view'.counts[7] = CountOf("ledger")
        /\ view'.counts[8] = CountOf("decisions")
        /\ (\E t \in Txns : txnState[t] \in NonTerminal) => view'.counts[6] > 0
    BY <2>1 DEF CountRight, StatsQueries
  <2>3. /\ (CHOOSE i \in DOMAIN StatsQueries : StatsQueries[i] = "PREPARING") = 1
        /\ (CHOOSE i \in DOMAIN StatsQueries : StatsQueries[i] = "COMMITTING") = 2
        /\ (CHOOSE i \in DOMAIN StatsQueries : StatsQueries[i] = "ABORTING") = 3
        /\ (CHOOSE i \in DOMAIN StatsQueries : StatsQueries[i] = "COMMITTED") = 4
        /\ (CHOOSE i \in DOMAIN StatsQueries : StatsQueries[i] = "ABORTED") = 5
        /\ (CHOOSE i \in DOMAIN StatsQueries : StatsQueries[i] = "resources") = 6
        /\ (CHOOSE i \in DOMAIN StatsQueries : StatsQueries[i] = "ledger") = 7
        /\ (CHOOSE i \in DOMAIN StatsQueries : StatsQueries[i] = "decisions") = 8
    BY QueryIndex DEF StatsQueries
  <2> QED BY <2>2, <2>3, CountsFit DEF StatsAddUp
<1> QED BY <1>2, <1>7, <1>8 DEF StatsAddUp

\* A step of a read request.
LEMMA ReaderInv ==
  ASSUME TablesInv, ReadersTypeOK, ViewInv, ReaderStep, UNCHANGED <<tables, up, handles, op, told>>
  PROVE  ReadersTypeOK' /\ ViewInv'
<1> USE DEF HoldLock, Answers
<1>1. ASSUME NEW t \in Txns, ReadTxnRow(t)
      PROVE  ReadersTypeOK' /\ ViewInv'
  BY <1>1 DEF ReadTxnRow, ReadersTypeOK, ViewInv, RowInv, CountsInv, PreviewInv,
              TxnAnswerConsistent, StatsAddUp, tables
<1>2. ASSUME ReadTxnParts
      PROVE  ReadersTypeOK' /\ ViewInv'
  <2>1. view'.pc = "txn"
    BY <1>2 DEF ReadTxnParts
  <2>2. ReadersTypeOK'
    BY <1>2, <2>1 DEF ReadTxnParts, ReadersTypeOK
  <2> QED BY <1>2, <2>1, <2>2, RowAnswers DEF ViewInv, RowInv, CountsInv, PreviewInv, StatsAddUp
<1>3. ASSUME StartStats
      PROVE  ReadersTypeOK' /\ ViewInv'
  <2>1. view'.pc = "counting" /\ view'.counts = <<>> /\ mu' = Reader
    BY <1>3 DEF StartStats
  <2>2. ReadersTypeOK'
    BY <2>1 DEF ReadersTypeOK
  <2>3. Len(<<>>) = 0 /\ <<>> \in Seq(Nat) /\ Len(StatsQueries) = 8
    BY DEF StatsQueries
  <2>4. CountsInv'
    BY <2>1, <2>3 DEF CountsInv
  <2> QED BY <2>1, <2>2, <2>4 DEF ViewInv, RowInv, PreviewInv, TxnAnswerConsistent, StatsAddUp
<1>4. ASSUME ReadCount
      PROVE  ReadersTypeOK' /\ ViewInv'
  <2>1. CountsInv' /\ StatsAddUp'
    BY <1>4, CountAnswers
  <2>2. view.pc = "counting" /\ mu = Reader
    BY <1>4 DEF ReadCount, ReadersTypeOK
  <2>3. (view'.pc = "stats" /\ mu' = None) \/ (view'.pc = "counting" /\ mu' = mu)
    BY <1>4 DEF ReadCount
  <2>4. ReadersTypeOK'
    BY <2>2, <2>3 DEF ReadersTypeOK
  <2> QED BY <2>1, <2>3, <2>4 DEF ViewInv, RowInv, PreviewInv, TxnAnswerConsistent
<1>5. ASSUME RecoverPreview
      PROVE  ReadersTypeOK' /\ ViewInv'
  <2>1. view'.pc = "preview" /\ view'.rows = PreviewRows /\ mu' = mu /\ mu = None
    BY <1>5 DEF RecoverPreview
  <2>2. ReadersTypeOK'
    BY <2>1 DEF ReadersTypeOK
  <2>3. PreviewInv'
    BY <2>1 DEF PreviewInv, PreviewRows, NonFinalTxns
  <2> QED BY <2>1, <2>2, <2>3 DEF ViewInv, RowInv, CountsInv, TxnAnswerConsistent, StatsAddUp
<1>6. ASSUME Forget \/ ReadFails
      PROVE  ReadersTypeOK' /\ ViewInv'
  <2>1. view' = NoView /\ mu' # Reader /\ mu' \in {mu, None}
    BY <1>6 DEF Forget, ReadFails, ReadersTypeOK
  <2> QED BY <2>1, NothingRead DEF ReadersTypeOK
<1> QED BY <1>1, <1>2, <1>3, <1>4, <1>5, <1>6 DEF ReaderStep

\* A step of another request: while the reader is between two queries it holds
\* c.mu, and so no transaction moves.
LEMMA ReaderWaits ==
  ASSUME TablesInv, ReadersTypeOK, ViewInv, Next,
         view' = IF up' = "down" THEN NoView ELSE view
  PROVE  ReadersTypeOK' /\ ViewInv'
<1>1. CASE up' = "down"
  <2>1. mu' = None /\ view' = NoView
    BY <1>1, GoesDown DEF TablesInv, Stop
  <2> QED BY <2>1, NothingRead DEF ReadersTypeOK
<1>2. CASE up' # "down"
  <2>1. mu' = Reader <=> mu = Reader
    BY <1>2, MutexKept DEF TablesInv
  <2>2. mu' \in Workers \cup {Reader, None}
    BY MutexMoves DEF ReadersTypeOK
  <2>3. mu = Reader => UNCHANGED txnTables
    BY Frozen DEF TablesInv
  <2>4. view' = view
    BY <1>2
  <2> QED BY <2>1, <2>2, <2>3, <2>4, ViewStands DEF ReadersTypeOK
<1> QED BY <1>1, <1>2

\* A step of a handler with two calls: only its BeginTxn moves a transaction, and
\* that needs c.mu.
LEMMA ReaderStands ==
  ASSUME TablesInv, ReadersTypeOK, ViewInv, WroteRow \/ BeganTxn \/ WroteHandle, view' = view
  PROVE  ReadersTypeOK' /\ ViewInv'
<1>1. mu' = mu /\ (mu = Reader => UNCHANGED txnTables)
  BY DEF WroteRow, BeganTxn, WroteHandle, RegisterResource, UpdateResourceVote, tables, txnTables
<1>2. ReadersTypeOK'
  BY <1>1 DEF ReadersTypeOK
<1> QED BY <1>1, <1>2, ViewStands

-----------------------------------------------------------------------------
(* The requests with two calls. *)

\* The facts about web do not hold of an idle or refused request.
LEMMA NothingAsked ==
  ASSUME web' = NoView \/ (web'.pc = "refused" /\ up' # "down")
  PROVE  FieldsInv' /\ ResourceInv' /\ TxnWebInv'
<1>1. web'.pc \in {"idle", "refused"} /\ (web' # NoView => up' # "down")
  BY DEF NoView
<1> QED BY <1>1 DEF FieldsInv, ResourceInv, TxnWebInv, BegunAsAsked, ListsFoundTxn,
                ResourcePCs, TxnPCs

\* What the steps of others do to the record of a request.
LEMMA ResourceWatched ==
  ASSUME FieldsInv, web.pc \in ResourcePCs, web' = Watched
  PROVE  /\ DOMAIN web' = DOMAIN web
         /\ web'.pc = web.pc /\ web'.res = web.res /\ web'.asked = web.asked
         /\ ~web'.touched => ~web.touched /\ resVote'[web.res] = resVote[web.res]
         /\ web.pc = "resource" => web'.failed = web.failed /\ web'.vote = web.vote
<1>1. web' = [web EXCEPT !.touched = @ \/ resVote'[web.res] # resVote[web.res]]
  BY DEF Watched, ResourcePCs
<1>2. {"pc", "res", "asked", "touched"} \subseteq DOMAIN web
  BY DEF FieldsInv
<1>3. web.pc = "resource" => {"failed", "vote"} \subseteq DOMAIN web
  BY DEF FieldsInv
<1> QED BY <1>1, <1>2, <1>3

LEMMA TxnWatched ==
  ASSUME FieldsInv, web.pc \in TxnPCs, web' = Watched
  PROVE  /\ DOMAIN web' = DOMAIN web
         /\ web'.pc = web.pc /\ web'.txn = web.txn /\ web'.asked = web.asked
         /\ ~web'.touched => ~web.touched /\ \A p \in Workers : op'[p].txn # web.txn
         /\ ~web'.deleted => ~web.deleted /\ txnState'[web.txn] # Absent
         /\ web.pc = "created" => /\ web'.failed = web.failed /\ web'.state = web.state
                                  /\ web'.members = web.members
         /\ web.pc = "participants" => web'.members = web.members
<1>1. web' = [web EXCEPT !.touched = @ \/ \E p \in Workers : op'[p].txn = web.txn,
                         !.deleted = @ \/ txnState'[web.txn] = Absent]
  BY DEF Watched, TxnPCs
<1>2. {"pc", "txn", "asked", "touched", "deleted"} \subseteq DOMAIN web
  BY DEF FieldsInv
<1>3. /\ web.pc = "created" => {"failed", "state", "members"} \subseteq DOMAIN web
      /\ web.pc = "participants" => "members" \in DOMAIN web
  BY DEF FieldsInv
<1> QED BY <1>1, <1>2, <1>3

\* A step of another request.
LEMMA WebRun ==
  ASSUME TablesInv, FieldsInv, ResourceInv, TxnWebInv, Next,
         web' = IF up' = "down" THEN NoView ELSE Watched
  PROVE  FieldsInv' /\ ResourceInv' /\ TxnWebInv'
<1>1. CASE up' = "down" \/ web = NoView \/ web.pc = "refused"
  <2>1. web = NoView \/ web.pc = "refused" => Watched = web
    BY DEF Watched, NoView
  <2> QED BY <1>1, <2>1, NothingAsked
<1>2. CASE up' # "down" /\ web.pc \in ResourcePCs
  <2>0. web' = Watched /\ up # "down" /\ web # NoView
    BY <1>2 DEF FieldsInv, NoView, ResourcePCs
  <2>1. /\ DOMAIN web' = DOMAIN web
        /\ web'.pc = web.pc /\ web'.res = web.res /\ web'.asked = web.asked
        /\ ~web'.touched => ~web.touched /\ resVote'[web.res] = resVote[web.res]
        /\ web.pc = "resource" => web'.failed = web.failed /\ web'.vote = web.vote
    BY <1>2, <2>0, ResourceWatched
  <2>2. FieldsInv'
    BY <1>2, <2>1 DEF FieldsInv, ResourcePCs, TxnPCs
  <2>3. ResourceInv'
    <3> SUFFICES ASSUME ~web'.touched
                 PROVE  /\ resVote'[web.res] = web.asked
                        /\ \A p \in Workers : op'[p].pc = "handle" /\ op'[p].res = web.res =>
                             op'[p].vote = web.asked
                        /\ web.pc # "sync" => handles'[web.res] = web.asked
                        /\ web.pc = "resource" => web'.failed \/ web'.vote = web.asked
      BY <2>1 DEF ResourceInv
    <3>1. /\ resVote'[web.res] = resVote[web.res] /\ resVote[web.res] = web.asked
          /\ \A p \in Workers : op[p].pc = "handle" /\ op[p].res = web.res => op[p].vote = web.asked
          /\ web.pc # "sync" => handles[web.res] = web.asked
          /\ web.pc = "resource" => web.failed \/ web.vote = web.asked
      BY <1>2, <2>1 DEF ResourceInv
    <3>2. /\ op \in [Workers -> JobType] /\ handles \in [Resources -> Votes \cup {Absent}]
          /\ resVote \in [Resources -> Votes \cup {Absent}] /\ web.res \in Resources
      BY <1>2 DEF TablesInv, IInv, VarsOK, StoreTypeOK, FieldsInv
    <3>3. CASE ResourcesKept
      BY <2>1, <3>1, <3>3 DEF ResourcesKept
    <3>4. CASE ReplyLost
      BY <2>1, <3>1, <3>4 DEF ReplyLost
    <3>5. ASSUME NEW q \in Workers, Written(q)
          PROVE  /\ handles' = handles
                 /\ \A p \in Workers : op'[p].pc = "handle" /\ op'[p].res = web.res =>
                      op'[p].vote = web.asked
      <4>1. PICK r \in Resources, v \in Votes \cup {Absent} :
              /\ op' = [op EXCEPT ![q] = PendingHandle(r, v)]
              /\ resVote' = [resVote EXCEPT ![r] = v] /\ handles' = handles
        BY <3>5 DEF Written
      <4>2. op'[q].res = r /\ op'[q].vote = v /\ \A p \in Workers : p # q => op'[p] = op[p]
        BY <3>2, <4>1 DEF PendingHandle
      <4>3. r = web.res => v = web.asked
        BY <3>1, <3>2, <4>1
      <4> QED BY <3>1, <4>1, <4>2, <4>3
    <3>6. ASSUME NEW q \in Workers, Synced(q)
          PROVE  /\ handles'[web.res] \in {handles[web.res], web.asked}
                 /\ \A p \in Workers : op'[p].pc = "handle" /\ op'[p].res = web.res =>
                      op'[p].vote = web.asked
      <4>1. /\ op[q].pc = "handle" /\ op' = [op EXCEPT ![q] = Idle]
            /\ handles' = [handles EXCEPT ![op[q].res] = op[q].vote]
        BY <3>6 DEF Synced
      <4>2. op'[q].pc = "idle" /\ \A p \in Workers : p # q => op'[p] = op[p]
        BY <3>2, <4>1 DEF Idle
      <4>3. handles'[web.res] \in {handles[web.res], web.asked}
        BY <3>1, <3>2, <4>1
      <4> QED BY <3>1, <4>2, <4>3
    <3> QED BY <1>2, <2>0, <2>1, <3>1, <3>3, <3>4, <3>5, <3>6, ResourceStep DEF TablesInv
  <2>4. TxnWebInv'
    BY <1>2, <2>1 DEF TxnWebInv, BegunAsAsked, ListsFoundTxn, ResourcePCs
  <2> QED BY <2>2, <2>3, <2>4
<1>3. CASE up' # "down" /\ web.pc \in TxnPCs
  <2>0. web' = Watched
    BY <1>3
  <2>1. /\ DOMAIN web' = DOMAIN web
        /\ web'.pc = web.pc /\ web'.txn = web.txn /\ web'.asked = web.asked
        /\ ~web'.touched => ~web.touched /\ \A p \in Workers : op'[p].txn # web.txn
        /\ ~web'.deleted => ~web.deleted /\ txnState'[web.txn] # Absent
        /\ web.pc = "created" => /\ web'.failed = web.failed /\ web'.state = web.state
                                 /\ web'.members = web.members
        /\ web.pc = "participants" => web'.members = web.members
    BY <1>3, <2>0, TxnWatched
  <2>2. FieldsInv'
    BY <1>3, <2>1 DEF FieldsInv, ResourcePCs, TxnPCs, NoView
  <2>3. ResourceInv'
    BY <1>3, <2>1 DEF ResourceInv, ResourcePCs, TxnPCs
  <2>4. ASSUME web.pc = "begun", ~web'.touched
        PROVE  txnState'[web.txn] = "PREPARING"
    <3>1. /\ web.txn \in Txns /\ txnState[web.txn] = "PREPARING"
          /\ \A p \in Workers : op[p].txn # web.txn
      BY <1>3, <2>1, <2>4 DEF TxnWebInv, FieldsInv
    <3> QED BY <3>1, WhoMoves DEF TablesInv
  <2>5. ASSUME web.pc \in {"begun", "found"}, ~web'.deleted
        PROVE  txnState'[web.txn] # Absent /\ Members(web.txn)' = web.asked
    <3>1. PICK t \in Txns : web.txn = t /\ txnState[t] # Absent /\ Members(t) = web.asked
      BY <1>3, <2>1, <2>5 DEF TxnWebInv, FieldsInv
    <3>2. txnState'[t] # Absent
      BY <2>1, <2>5, <3>1
    <3>3. Members(t)' = Members(t)
      BY <3>1, <3>2, MembersKept, StoreStep DEF TablesInv, IInv
    <3> QED BY <2>1, <3>1, <3>2, <3>3 DEF Members
  <2>6. TxnWebInv'
    BY <1>3, <2>1, <2>4, <2>5 DEF TxnWebInv, BegunAsAsked, ListsFoundTxn, Members
  <2> QED BY <2>2, <2>3, <2>6
<1> QED BY <1>1, <1>2, <1>3 DEF FieldsInv

\* With c.mu free nobody is at work on a transaction.
LEMMA NobodyAtWork ==
  ASSUME IInv, mu = None
  PROVE  \A p \in Workers : op[p].txn = None
<1> SUFFICES ASSUME NEW p \in Workers PROVE op[p].txn = None
  OBVIOUS
<1>1. op[p].pc \in {"idle", "handle"}
  BY Outside
<1> QED BY <1>1 DEF IInv, JobInv, JobOK, Idle

\* A step of a handler with two calls.
LEMMA WebHandler ==
  ASSUME TablesInv, FieldsInv, ResourceInv, TxnWebInv, HandlerStep, UNCHANGED <<up, op, told, view>>
  PROVE  FieldsInv' /\ ResourceInv' /\ TxnWebInv'
<1>0. /\ op \in [Workers -> JobType] /\ handles \in [Resources -> Votes \cup {Absent}]
      /\ resVote \in [Resources -> Votes \cup {Absent}] /\ StoreTypeOK
  BY DEF TablesInv, IInv, VarsOK, StoreTypeOK
<1>1. ASSUME NEW e, Refused(e), up # "down"
      PROVE  FieldsInv' /\ ResourceInv' /\ TxnWebInv'
  BY <1>1, NothingAsked DEF Refused
<1>2. /\ Received => up # "down"
      /\ \A e : Refused(e) => web'.pc = "refused"
  BY DEF Received, Asked, Refused
<1>3. ASSUME NEW r \in Resources, NEW v \in Votes, Wrote(r, v), up # "down",
             RegisterResource(r, v) \/ UpdateResourceVote(r, v)
      PROVE  FieldsInv' /\ ResourceInv' /\ TxnWebInv'
  <2>1. web' = [pc |-> "sync", res |-> r, asked |-> v, touched |-> Pending(r)]
    BY <1>3 DEF Wrote
  <2>2. FieldsInv'
    BY <1>3, <2>1 DEF FieldsInv, ResourcePCs, TxnPCs, NoView
  <2>3. ResourceInv'
    BY <1>0, <1>3, <2>1 DEF ResourceInv, ResourcePCs, Pending, RegisterResource, UpdateResourceVote
  <2> QED BY <2>1, <2>2, <2>3 DEF TxnWebInv, BegunAsAsked, ListsFoundTxn
<1>4. ASSUME NEW v \in VoteTexts, \/ \E r \in Resources \cup {Empty} : PostResource(r, v)
                                  \/ \E r \in Resources : PutResource(r, v)
      PROVE  FieldsInv' /\ ResourceInv' /\ TxnWebInv'
  <2>1. ASSUME NEW r \in Resources \cup {Empty}, PostResource(r, v)
        PROVE  FieldsInv' /\ ResourceInv' /\ TxnWebInv'
    <3>1. Valid(r, VoteOrDefault(v)) => r \in Resources /\ VoteOrDefault(v) \in Votes
      BY DEF Valid
    <3> QED BY <1>1, <1>2, <1>3, <2>1, <3>1 DEF PostResource
  <2>2. ASSUME NEW r \in Resources, PutResource(r, v)
        PROVE  FieldsInv' /\ ResourceInv' /\ TxnWebInv'
    BY <1>1, <1>2, <1>3, <2>2 DEF PutResource
  <2> QED BY <1>4, <2>1, <2>2
<1>5. ASSUME SyncOwnHandle
      PROVE  FieldsInv' /\ ResourceInv' /\ TxnWebInv'
  <2>1. /\ web.pc = "sync" /\ web' = [web EXCEPT !.pc = "readback"]
        /\ handles' = [handles EXCEPT ![web.res] = web.asked] /\ UNCHANGED tables
    BY <1>5 DEF SyncOwnHandle
  <2>2. /\ {"pc", "res", "asked", "touched"} \subseteq DOMAIN web
        /\ web.res \in Resources /\ web.asked \in Votes /\ up # "down"
    BY <2>1 DEF FieldsInv, ResourcePCs, NoView
  <2>3. /\ DOMAIN web' = DOMAIN web /\ web'.pc = "readback" /\ web'.res = web.res
        /\ web'.asked = web.asked /\ web'.touched = web.touched
    BY <2>1, <2>2
  <2>4. FieldsInv'
    BY <2>2, <2>3 DEF FieldsInv, ResourcePCs, TxnPCs
  <2>5. ResourceInv'
    BY <1>0, <2>1, <2>2, <2>3 DEF ResourceInv, ResourcePCs, tables
  <2> QED BY <2>3, <2>4, <2>5 DEF TxnWebInv, BegunAsAsked, ListsFoundTxn
<1>6. ASSUME ReadBackResource
      PROVE  FieldsInv' /\ ResourceInv' /\ TxnWebInv'
  <2>1. web.pc = "readback" /\ UNCHANGED <<tables, handles>>
    BY <1>6 DEF ReadBackResource
  <2>2. PICK failed \in BOOLEAN :
          web' = [pc |-> "resource", res |-> web.res, asked |-> web.asked,
                  touched |-> web.touched, failed |-> failed,
                  vote |-> IF failed \/ resVote[web.res] = Absent THEN Empty
                           ELSE resVote[web.res]]
    BY <1>6 DEF ReadBackResource
  <2>3. web.res \in Resources /\ web.asked \in Votes /\ up # "down"
    BY <2>1 DEF FieldsInv, ResourcePCs, NoView
  <2>4. FieldsInv'
    BY <2>2, <2>3 DEF FieldsInv, ResourcePCs, TxnPCs
  <2>5. ResourceInv'
    BY <2>1, <2>2, <2>3 DEF ResourceInv, ResourcePCs, tables
  <2> QED BY <2>2, <2>4, <2>5 DEF TxnWebInv, BegunAsAsked, ListsFoundTxn
<1>7. ASSUME NEW t \in Txns, NEW rs \in SUBSET Resources, PostTxn(t, rs)
      PROVE  FieldsInv' /\ ResourceInv' /\ TxnWebInv'
  <2>1. CASE web'.pc = "begun"
    <3>1. /\ mu = None /\ BeginTxn(t, rs) /\ up # "down"
          /\ web' = [pc |-> "begun", txn |-> t, asked |-> rs, touched |-> FALSE, deleted |-> FALSE]
      BY <1>2, <1>7, <2>1 DEF PostTxn
    <3>2. FieldsInv'
      BY <3>1 DEF FieldsInv, ResourcePCs, TxnPCs
    <3>3. ResourceInv'
      BY <3>1 DEF ResourceInv, ResourcePCs
    <3>4. txnState'[t] = "PREPARING" /\ Members(t)' = rs
      BY <1>0, <3>1 DEF BeginTxn, Members, StoreTypeOK
    <3>5. \A p \in Workers : op'[p].txn # t
      BY <3>1, NobodyAtWork DEF TablesInv
    <3>6. Members(web.txn)' = Members(t)'
      BY <3>1 DEF Members
    <3>7. TxnWebInv'
      BY <3>1, <3>4, <3>5, <3>6 DEF TxnWebInv, BegunAsAsked, ListsFoundTxn
    <3> QED BY <3>2, <3>3, <3>7
  <2>2. CASE web'.pc # "begun"
    <3>1. up # "down"
      BY <1>2, <1>7 DEF PostTxn
    <3>2. web' # [pc |-> "begun", txn |-> t, asked |-> rs, touched |-> FALSE, deleted |-> FALSE]
      BY <2>2
    <3>3. \E e : Refused(e)
      BY <1>7, <3>2, Zenon DEF PostTxn
    <3> QED BY <1>1, <3>1, <3>3
  <2> QED BY <2>1, <2>2
<1>8. ASSUME ReadBackTxn
      PROVE  FieldsInv' /\ ResourceInv' /\ TxnWebInv'
  <2>1. PICK t \in Txns : web.pc = "begun" /\ web.txn = t /\ up # "down"
    BY <1>8 DEF ReadBackTxn, FieldsInv, ResourcePCs, TxnPCs, NoView
  <2>2. PICK failed \in BOOLEAN :
          LET none == failed \/ txnState[web.txn] = Absent
          IN web' = [pc |-> "created", txn |-> web.txn, asked |-> web.asked,
                     touched |-> web.touched, deleted |-> web.deleted, failed |-> failed,
                     state |-> IF none THEN Empty ELSE txnState[web.txn],
                     members |-> IF none THEN {} ELSE Members(web.txn)]
    BY <1>8 DEF ReadBackTxn
  <2>3. /\ web'.pc = "created" /\ web'.txn = t /\ web'.asked = web.asked
        /\ web'.touched = web.touched /\ web'.deleted = web.deleted /\ web'.failed = failed
        /\ {"pc", "txn", "asked", "touched", "deleted", "failed", "state", "members"}
              \subseteq DOMAIN web'
        /\ ~failed /\ txnState[t] # Absent => web'.state = txnState[t] /\ web'.members = Members(t)
        /\ ~failed /\ txnState[t] = Absent => web'.state = Empty
    BY <2>1, <2>2
  <2>4. FieldsInv'
    BY <2>1, <2>3 DEF FieldsInv, ResourcePCs, TxnPCs, NoView
  <2>5. ResourceInv'
    BY <2>3 DEF ResourceInv, ResourcePCs
  <2>6. /\ ~web.touched => txnState[t] = "PREPARING"
        /\ ~web.deleted => txnState[t] # Absent /\ Members(t) = web.asked
    BY <2>1 DEF TxnWebInv
  <2>7. TxnWebInv'
    BY <2>3, <2>6 DEF TxnWebInv, BegunAsAsked, ListsFoundTxn
  <2> QED BY <2>4, <2>5, <2>7
<1>9. ASSUME NEW t \in Txns, FindTxn(t)
      PROVE  FieldsInv' /\ ResourceInv' /\ TxnWebInv'
  <2>1. CASE web'.pc = "found"
    <3>1. /\ up # "down" /\ txnState[t] # Absent /\ UNCHANGED tables
          /\ web' = [pc |-> "found", txn |-> t, asked |-> Members(t),
                     touched |-> FALSE, deleted |-> FALSE]
      BY <1>2, <1>9, <2>1 DEF FindTxn
    <3>2. FieldsInv'
      BY <3>1 DEF FieldsInv, ResourcePCs, TxnPCs
    <3>3. ResourceInv'
      BY <3>1 DEF ResourceInv, ResourcePCs
    <3>4. txnState'[t] # Absent /\ Members(web.txn)' = Members(t)
      BY <3>1 DEF Members, tables
    <3> QED BY <3>1, <3>2, <3>3, <3>4 DEF TxnWebInv, BegunAsAsked, ListsFoundTxn
  <2>2. CASE web'.pc # "found"
    <3>1. up # "down"
      BY <1>2, <1>9 DEF FindTxn
    <3>2. web' # [pc |-> "found", txn |-> t, asked |-> Members(t), touched |-> FALSE, deleted |-> FALSE]
      BY <2>2
    <3>3. \E e : Refused(e)
      BY <1>9, <3>2, Zenon DEF FindTxn
    <3> QED BY <1>1, <3>1, <3>3
  <2> QED BY <2>1, <2>2
<1>10. ASSUME ListFoundTxn
       PROVE  FieldsInv' /\ ResourceInv' /\ TxnWebInv'
  <2>1. PICK t \in Txns : web.pc = "found" /\ web.txn = t /\ up # "down"
    BY <1>10 DEF ListFoundTxn, FieldsInv, ResourcePCs, TxnPCs, NoView
  <2>2. CASE web'.pc = "participants"
    <3>1. web' = [pc |-> "participants", txn |-> t, asked |-> web.asked,
                  touched |-> web.touched, deleted |-> web.deleted, members |-> Members(t)]
      BY <1>2, <1>10, <2>1, <2>2 DEF ListFoundTxn
    <3>2. FieldsInv'
      BY <2>1, <3>1 DEF FieldsInv, ResourcePCs, TxnPCs
    <3>3. ResourceInv'
      BY <3>1 DEF ResourceInv, ResourcePCs
    <3>4. ~web.deleted => Members(t) = web.asked
      BY <2>1 DEF TxnWebInv
    <3> QED BY <3>1, <3>2, <3>3, <3>4 DEF TxnWebInv, BegunAsAsked, ListsFoundTxn
  <2>3. CASE web'.pc # "participants"
    <3>1. up # "down"
      BY <2>1, <1>10 DEF ListFoundTxn
    <3>2. web' # [pc |-> "participants", txn |-> web.txn, asked |-> web.asked,
                   touched |-> web.touched, deleted |-> web.deleted, members |-> Members(web.txn)]
      BY <2>3
    <3>3. \E e : Refused(e)
      BY <1>10, <3>2, Zenon DEF ListFoundTxn
    <3> QED BY <1>1, <3>1, <3>3
  <2> QED BY <2>2, <2>3
<1>11. ASSUME Done
       PROVE  FieldsInv' /\ ResourceInv' /\ TxnWebInv'
  BY <1>11, NothingAsked DEF Done
<1> QED BY <1>4, <1>5, <1>6, <1>7, <1>8, <1>9, <1>10, <1>11 DEF HandlerStep

-----------------------------------------------------------------------------
(* The specification. *)

LEMMA HandlersInitInv == HandlersInit => HandlersInv
<1> SUFFICES ASSUME HandlersInit PROVE HandlersInv
  OBVIOUS
<1>1. view = NoView /\ web = NoView /\ mu = None
  BY DEF HandlersInit, ReadersInit, Init
<1>2. ReadersTypeOK /\ ViewInv
  BY <1>1 DEF NoView, Answers, ReadersTypeOK, ViewInv, RowInv, CountsInv, PreviewInv,
              TxnAnswerConsistent, StatsAddUp
<1>3. FieldsInv /\ ResourceInv /\ TxnWebInv
  BY <1>1 DEF NoView, FieldsInv, ResourceInv, TxnWebInv, BegunAsAsked, ListsFoundTxn,
              ResourcePCs, TxnPCs
<1> QED BY <1>2, <1>3, TablesInit DEF TablesInv, HandlersInv

\* The three kinds of step.
LEMMA HandlersSteps ==
  ASSUME HandlersInv, [HandlersNext]_handlersVars
  PROVE  \/ /\ Next
            /\ view' = IF up' = "down" THEN NoView ELSE view
            /\ web' = IF up' = "down" THEN NoView ELSE Watched
         \/ ReaderStep /\ web = NoView /\ UNCHANGED <<tables, up, handles, op, told, web>>
         \/ HandlerStep /\ UNCHANGED <<up, op, told, view>>
         \/ UNCHANGED <<tables, up, mu, handles, op, told, view, web>>
BY DEF HandlersNext, handlersVars, readerVars, vars, process

LEMMA HandlersStepInv == HandlersInv /\ [HandlersNext]_handlersVars => HandlersInv'
<1> SUFFICES ASSUME HandlersInv, [HandlersNext]_handlersVars PROVE HandlersInv'
  OBVIOUS
<1>0. /\ TablesInv /\ ReadersTypeOK /\ ViewInv
      /\ FieldsInv /\ ResourceInv /\ TxnWebInv
  BY DEF HandlersInv, TablesInv
<1>1. CASE /\ Next
           /\ view' = IF up' = "down" THEN NoView ELSE view
           /\ web' = IF up' = "down" THEN NoView ELSE Watched
  BY <1>0, <1>1, TablesRun, ReaderWaits, WebRun DEF HandlersInv, TablesInv
<1>2. ASSUME UNCHANGED <<tables, up, handles, op, told, web>>
      PROVE  FieldsInv' /\ ResourceInv' /\ TxnWebInv'
  <2>1. \A t : Members(t)' = Members(t)
    BY <1>2 DEF Members, tables
  <2> QED BY <1>0, <1>2, <2>1 DEF FieldsInv, ResourceInv, TxnWebInv, BegunAsAsked, ListsFoundTxn, tables
<1>3. CASE ReaderStep /\ web = NoView /\ UNCHANGED <<tables, up, handles, op, told, web>>
  BY <1>0, <1>2, <1>3, TablesReader, ReaderInv DEF HandlersInv, TablesInv
<1>4. CASE HandlerStep /\ UNCHANGED <<up, op, told, view>>
  <2>1. WroteRow \/ BeganTxn \/ WroteHandle
    BY <1>0, <1>4, HandlerWrites DEF TablesInv
  <2> QED BY <1>0, <1>4, <2>1, TablesHandler, ReaderStands, WebHandler DEF HandlersInv, TablesInv
<1>5. CASE UNCHANGED <<tables, up, mu, handles, op, told, view, web>>
  <2>1. IInv'
    BY <1>0, <1>5, StepInv DEF TablesInv, vars, process
  <2>2. FiniteRows' /\ MembersInv'
    BY <1>0, <1>5 DEF TablesInv, FiniteRows, KnownTxns, KnownResources, KnownParts, MembersInv, Members,
       tables
  <2>3. ReadersTypeOK' /\ ViewInv'
    BY <1>0, <1>5, ViewStands DEF ReadersTypeOK, tables, txnTables
  <2> QED BY <1>0, <1>2, <1>5, <2>1, <2>2, <2>3 DEF HandlersInv
<1> QED BY <1>1, <1>3, <1>4, <1>5, HandlersSteps

\* The inductive invariant holds in every reachable state.
THEOREM HandlersInvariant == HandlersSpec => []HandlersInv
BY HandlersInitInv, HandlersStepInv, PTL DEF HandlersSpec

\* The requests beside the workers' leave the coordinator as safe as it is without
\* them: what is proved of Spec about rows, calls, snapshots and refused calls
\* holds here too.
THEOREM HandlersKeepSafety ==
  HandlersSpec => [](/\ OutcomeFollowsDecision /\ CommitRequiresYes /\ ToldMatchesLog
                     /\ TerminalIsComplete /\ SnapshotsFresh /\ HolderGoesOn)
<1>1. HandlersInv => IInv
  BY DEF HandlersInv
<1> QED BY <1>1, Safety, CallsAccepted, HandlersInvariant, PTL

\* They use the store as the store allows.
THEOREM HandlersImplementStore == HandlersSpec => StoreSpec
<1>1. HandlersInit => StoreInit
  BY DEF HandlersInit, ReadersInit, Init
<1>2. HandlersInv /\ [HandlersNext]_handlersVars => [StoreNext]_tables
  <2> SUFFICES ASSUME HandlersInv, [HandlersNext]_handlersVars PROVE [StoreNext]_tables
    OBVIOUS
  <2>1. TablesInv /\ FieldsInv
    BY DEF HandlersInv, TablesInv
  <2>2. CASE Next
    BY <2>1, <2>2, StoreStep DEF TablesInv
  <2>3. CASE HandlerStep /\ UNCHANGED <<up, op, told, view>>
    <3>1. WroteRow \/ BeganTxn \/ WroteHandle
      BY <2>1, <2>3, HandlerWrites DEF TablesInv
    <3> QED BY <2>1, <2>3, <3>1, TablesHandler
  <2> QED BY <2>2, <2>3, HandlersSteps
<1> QED BY <1>1, <1>2, HandlersInvariant, PTL DEF HandlersSpec, StoreSpec

\* What clients are promised about a transaction holds whoever begins it: POST /txns
\* opens it, and no other step of a reader or a two-call handler is seen.
THEOREM HandlersImplementAtomic == HandlersSpec => Atomic
<1>1. HandlersInit => AC!Init
  BY InitRefines DEF HandlersInit, ReadersInit
<1>2. HandlersInv /\ [HandlersNext]_handlersVars => [AC!Next]_(AC!vars)
  <2> SUFFICES ASSUME HandlersInv, [HandlersNext]_handlersVars
               PROVE  AC!Next \/ UNCHANGED AC!vars
    OBVIOUS
  <2>1. IInv /\ FieldsInv /\ StoreTypeOK
    BY DEF HandlersInv, IInv, StoreIInv
  <2>2. CASE Next
    BY <2>1, <2>2, StepRefines
  <2>3. CASE HandlerStep
    <3>1. CASE WroteRow \/ WroteHandle
      <4>1. UNCHANGED <<txnState, partFinal>>
        BY <3>1 DEF WroteRow, WroteHandle, RegisterResource, UpdateResourceVote,
                    tables, txnTables
      <4> QED BY <4>1, Unseen
    <3>2. CASE BeganTxn
      BY <2>1, <3>2, BeginOpens DEF BeganTxn, AC!Next
    <3> QED BY <2>1, <2>3, <3>1, <3>2, HandlerWrites
  <2>4. CASE UNCHANGED tables
    BY <2>4, Unseen DEF tables
  <2> QED BY <2>2, <2>3, <2>4, HandlersSteps
<1> QED BY <1>1, <1>2, HandlersInvariant, PTL DEF HandlersSpec, Atomic, AC!Spec

\* c.mu is the reader's exactly while it is between two queries.
THEOREM ReaderLock == HandlersSpec => []ReadersTypeOK
<1>1. HandlersInv => ReadersTypeOK
  BY DEF HandlersInv
<1> QED BY <1>1, HandlersInvariant, PTL

\* GET /txns/{id} answers what a single moment could have answered.
THEOREM OneMoment == HandlersSpec => []TxnAnswerConsistent
<1>1. HandlersInv => TxnAnswerConsistent
  BY DEF HandlersInv, ViewInv
<1> QED BY <1>1, HandlersInvariant, PTL

\* The counts of GET /admin/stats fit together.
THEOREM StatsFit == HandlersSpec => []StatsAddUp
<1>1. HandlersInv => StatsAddUp
  BY DEF HandlersInv, ViewInv
<1> QED BY <1>1, HandlersInvariant, PTL

\* A register or a vote update is in force when it is answered, unless another
\* request for the name got in between.
THEOREM VoteInForce == HandlersSpec => []OwnVoteInForce
<1>1. HandlersInv => OwnVoteInForce
  BY DEF HandlersInv, ResourceInv, ResourcePCs, OwnVoteInForce
<1> QED BY <1>1, HandlersInvariant, PTL

\* POST /txns answers with the transaction it began.
THEOREM BegunAnswer == HandlersSpec => []BegunAsAsked
<1>1. HandlersInv => BegunAsAsked
  BY DEF HandlersInv, TxnWebInv
<1> QED BY <1>1, HandlersInvariant, PTL

\* GET /txns/{id}/participants lists the transaction it found.
THEOREM FoundAnswer == HandlersSpec => []ListsFoundTxn
<1>1. HandlersInv => ListsFoundTxn
  BY DEF HandlersInv, TxnWebInv
<1> QED BY <1>1, HandlersInvariant, PTL

\* A transaction of the preview that moves goes where the preview said.
LEMMA PreviewStep == HandlersInv /\ [HandlersNext]_handlersVars => [PreviewKept]_readerVars
<1> SUFFICES ASSUME HandlersInv, [HandlersNext]_handlersVars,
                    view.pc = "preview", NEW e \in view.rows, txnState[e.txn] = e.state,
                    txnState'[e.txn] # e.state
             PROVE  \/ txnState'[e.txn] = e.target
                    \/ /\ e.state = "PREPARING"
                       /\ \/ txnState'[e.txn] = "ABORTING"
                          \/ \E p \in Workers : op[p].txn = e.txn /\ op[p].kind \in {"prepare", "run"}
  BY DEF PreviewKept
<1>1. PICK t \in Txns :
        /\ e.txn = t /\ txnState[t] \in NonTerminal /\ txnState'[t] # txnState[t]
        /\ e.target = IF txnState[t] = "COMMITTING" THEN "COMMITTED" ELSE "ABORTED"
  BY DEF HandlersInv, ViewInv, PreviewInv
<1>2. Next
  <2>1. ASSUME HandlerStep, UNCHANGED <<up, op, told, view>> PROVE txnState'[t] = txnState[t]
    <3>1. WroteRow \/ BeganTxn \/ WroteHandle
      BY <2>1, HandlerWrites DEF HandlersInv
    <3> QED BY <1>1, <3>1 DEF WroteRow, BeganTxn, WroteHandle, RegisterResource, UpdateResourceVote,
               BeginTxn, tables, txnTables, HandlersInv, IInv, StoreIInv, StoreTypeOK
  <2> QED BY <1>1, <2>1, HandlersSteps DEF tables
<1>3. PICK p \in Workers :
        /\ op[p].txn = t
        /\ \/ /\ txnState[t] = "PREPARING" /\ txnState'[t] \in {"COMMITTING", "ABORTING"}
              /\ op[p].kind \notin {"prepare", "run"} => txnState'[t] = "ABORTING"
           \/ txnState[t] # "PREPARING" /\ txnState'[t] = TerminalOf(txnState[t])
  BY <1>1, <1>2, WhoMoves DEF HandlersInv
<1> QED BY <1>1, <1>3 DEF TerminalOf

\* What the preview says of a transaction stays true until the transaction moves.
THEOREM PreviewHolds == HandlersSpec => PreviewComesTrue
BY PreviewStep, HandlersInvariant, PTL DEF HandlersSpec, PreviewComesTrue
=============================================================================
