------------------------- MODULE CoordinatorProofs --------------------------
(***************************************************************************)
(* Safety of the coordinator for every set of goroutines, transactions and *)
(* resources and every combination of faults.                              *)
(***************************************************************************)
EXTENDS Coordinator, TxnStoreProofs

\* The types of the variables, without that of mu: a goroutine that is not in
\* Workers, as the one of Readers and Handlers, may hold c.mu as well.
VarsOK ==
  /\ StoreTypeOK
  /\ up \in {"down", "starting", "serving"}
  /\ handles \in [Resources -> Votes \cup {Absent}]
  /\ op \in [Workers -> JobType]
  /\ told \in [Txns -> [Resources -> SUBSET Decisions]]

\* c.mu is held by the goroutine that is inside a locked section, and no other.
LockInv == \A p \in Workers : op[p].pc \in LockedPCs <=> mu = p

\* The local variables of a request match the tables, step by step.
JobOK(o) ==
  /\ o.pc = "idle" => o = Idle
  /\ o.pc = "handle" => o.res \in Resources /\ o.todo = {} /\ o.txn = None
  /\ o.pc \in LockedPCs => o.kind \in Kinds
  /\ o.pc \in LockedPCs \ {"next"} => o.txn \in Txns /\ o.state = txnState[o.txn]
  /\ o.pc = "record" => o.state = "PREPARING" /\ o.kind # "finish"
  /\ o.pc = "record" /\ o.kind = "abort" => o.left = OpenParts(o.txn)
  /\ o.pc \in {"list", "drive", "finalize"} => o.state \in {"COMMITTING", "ABORTING"}
  /\ o.pc \in {"drive", "finalize"} => o.left = OpenParts(o.txn)
  /\ o.pc = "finalize" => o.res \in o.left
  /\ o.pc = "next" => o.kind = "recover"
  /\ \A e \in o.todo : txnState[e[1]] = e[2] /\ e[1] # o.txn

JobInv == \A p \in Workers : JobOK(op[p])

\* A process that is down does nothing; one that starts only recovers, and its
\* recovery has every unfinished transaction in hand or in its list.
UpInv ==
  /\ up = "down" => \A p \in Workers : op[p] = Idle
  /\ up = "starting" => \A p \in Workers :
       op[p] = Idle \/ (op[p].pc \in LockedPCs /\ op[p].kind = "recover")
  /\ up = "starting" => \A p \in Workers : mu = p =>
       \A t \in Txns : txnState[t] \in NonTerminal =>
         \/ op[p].pc # "next" /\ op[p].txn = t
         \/ \E e \in op[p].todo : e[1] = t

\* What the log says of a transaction in state s.
LogOf(s) ==
  IF s \in {"COMMITTING", "COMMITTED"} THEN "commit"
  ELSE IF s \in {"ABORTING", "ABORTED"} THEN "abort" ELSE NULL

\* State, log, votes, final columns and calls of a transaction fit together.
TxnInv ==
  \A t \in Txns :
    /\ decisions[t] = LogOf(txnState[t])
    /\ \A r \in Resources :
         /\ partFinal[t][r] = "committed" => decisions[t] = "commit"
         /\ partFinal[t][r] = "aborted" => decisions[t] = "abort"
         /\ told[t][r] \subseteq {decisions[t]}
         /\ decisions[t] = "commit" /\ partFinal[t][r] # Absent => partVote[t][r] = "yes"
         /\ txnState[t] \in Terminal => partFinal[t][r] # NULL

IInv == VarsOK /\ StoreIInv /\ LockInv /\ JobInv /\ UpInv /\ TxnInv

USE CoordinatorAssumption DEF LockedPCs, Kinds,
    Absent, NULL, Votes, Decisions, Finals, NonTerminal, Terminal

-----------------------------------------------------------------------------
(* Every step of the coordinator is a step of the store, or leaves its     *)
(* tables alone.                                                           *)

LEMMA VotesType ==
  ASSUME VarsOK, NEW t \in Txns
  PROVE  /\ CollectVotes(t) \in [Resources -> Votes \cup {NULL}]
         /\ NoVotes \in [Resources -> Votes \cup {NULL}]
BY DEF CollectVotes, NoVotes

LEMMA StoreStep == IInv /\ [Next]_vars => [StoreNext]_tables
<1> SUFFICES ASSUME IInv, Next PROVE [StoreNext]_tables
  BY DEF vars
<1>1. ASSUME NEW p \in Workers, ResourceRequest(p) PROVE StoreNext
  BY <1>1 DEF ResourceRequest, Register, UpdateVote, Unregister, StoreNext
<1>2. ASSUME NEW p \in Workers, SyncHandle(p) PROVE UNCHANGED tables
  BY <1>2 DEF SyncHandle
<1>3. ASSUME NEW p \in Workers, TxnRequest(p) PROVE [StoreNext]_tables
  BY <1>3 DEF TxnRequest, Begin, Cleanup, StartPrepare, StartAbort, StartFinish,
              StartRecover, StoreNext
<1>4. ASSUME NEW p \in Workers, Step(p) PROVE [StoreNext]_tables
  <2>0. JobOK(op[p]) /\ VarsOK
    BY DEF IInv, JobInv
  <2>1. CASE Record(p)
    <3>1. op[p].txn \in Txns
      BY <2>0, <2>1 DEF Record, JobOK
    <3>2. PICK votes \in [Resources -> Votes \cup {NULL}], d \in Decisions :
            RecordPrepare(op[p].txn, votes, d)
      <4> DEFINE votes == IF op[p].kind \in {"prepare", "run"}
                          THEN CollectVotes(op[p].txn) ELSE NoVotes
                 d == IF op[p].kind \in {"prepare", "run"}
                      THEN DecisionFor(votes) ELSE "abort"
      <4>1. RecordPrepare(op[p].txn, votes, d)
        BY <2>1 DEF Record
      <4>2. votes \in [Resources -> Votes \cup {NULL}]
        BY <2>0, <3>1, VotesType
      <4>3. d \in Decisions
        BY DEF DecisionFor
      <4> HIDE DEF votes, d
      <4> QED BY <4>1, <4>2, <4>3
    <3> QED BY <3>1, <3>2 DEF StoreNext
  <2>2. CASE ListParts(p) \/ (\E r \in Resources : Tell(p, r)) \/ NextTxn(p) \/ EndRecover(p)
    BY <2>2 DEF ListParts, Tell, NextTxn, EndRecover
  <2>3. CASE Finalize(p)
    <3>1. op[p].txn \in Txns /\ op[p].res \in Resources
      BY <2>0, <2>3 DEF Finalize, JobOK, OpenParts
    <3>2. FinalOf(op[p].state) \in Finals
      BY DEF FinalOf
    <3> QED BY <2>3, <3>1, <3>2 DEF Finalize, StoreNext
  <2>4. CASE Close(p)
    <3>1. op[p].txn \in Txns
      BY <2>0, <2>4 DEF Close, JobOK
    <3>2. TerminalOf(op[p].state) \in Terminal
      BY DEF TerminalOf
    <3> QED BY <2>4, <3>1, <3>2 DEF Close, StoreNext
  <2> QED BY <1>4, <2>1, <2>2, <2>3, <2>4 DEF Step
<1>5. ASSUME Fault PROVE [StoreNext]_tables
  <2>1. ASSUME NEW p \in Workers, LoseClose(p) PROVE StoreNext
    <3>1. op[p].txn \in Txns
      BY <2>1 DEF LoseClose, JobOK, IInv, JobInv
    <3>2. TerminalOf(op[p].state) \in Terminal
      BY DEF TerminalOf
    <3> QED BY <2>1, <3>1, <3>2 DEF LoseClose, StoreNext
  <2>2. ASSUME NEW p \in Workers, Fail(p) PROVE UNCHANGED tables
    BY <2>2 DEF Fail
  <2>3. ASSUME NEW r \in Resources, NEW v \in Votes, LoseReply(r, v) PROVE StoreNext
    BY <2>3 DEF LoseReply, StoreNext
  <2>4. ASSUME Crash PROVE UNCHANGED tables
    BY <2>4 DEF Crash
  <2> QED BY <1>5, <2>1, <2>2, <2>3, <2>4 DEF Fault
<1>6. ASSUME Start PROVE UNCHANGED tables
  BY <1>6 DEF Start
<1> QED BY <1>1, <1>2, <1>3, <1>4, <1>5, <1>6 DEF Next

-----------------------------------------------------------------------------
(* Facts used for several actions. *)

LEMMA InitInv == Init => IInv
<1> SUFFICES ASSUME Init PROVE IInv
  OBVIOUS
<1>1. StoreIInv
  BY StoreInitInv DEF Init
<1>2. \A p \in Workers : op[p] = Idle /\ Idle \in JobType
  BY DEF Init, Idle, JobType
<1>3. VarsOK
  BY <1>1, <1>2 DEF Init, VarsOK, StoreIInv
<1>4. LockInv
  BY <1>2 DEF Init, LockInv, Idle
<1>5. JobInv
  BY <1>2 DEF Init, JobInv, JobOK, Idle
<1>6. UpInv
  BY <1>2 DEF Init, UpInv
<1>7. TxnInv
  BY DEF Init, StoreInit, TxnInv, LogOf
<1> QED BY <1>1, <1>3, <1>4, <1>5, <1>6, <1>7 DEF IInv

\* A goroutine that does not hold c.mu has nothing that could become stale.
LEMMA Outside ==
  ASSUME IInv, NEW q \in Workers, mu # q
  PROVE  op[q].pc \in {"idle", "handle"} /\ op[q].todo = {}
BY DEF IInv, LockInv, JobInv, JobOK, VarsOK, JobType, Idle

\* Such a goroutine keeps its JobOK whatever the tables do.
LEMMA OutsideKept ==
  ASSUME IInv, NEW q \in Workers, mu # q, op'[q] = op[q]
  PROVE  JobOK(op[q])'
<1>1. op[q].pc \in {"idle", "handle"} /\ op[q].todo = {}
  BY Outside
<1>2. JobOK(op[q])
  BY DEF IInv, JobInv
<1> QED BY <1>1, <1>2 DEF JobOK, Idle

\* A job stays right while its locals, the states and the final columns stay.
LEMMA JobKept ==
  ASSUME IInv, NEW q \in Workers, op'[q] = op[q], UNCHANGED <<txnState, partFinal>>
  PROVE  JobOK(op[q])'
<1>1. JobOK(op[q])
  BY DEF IInv, JobInv
<1>2. \A t : OpenParts(t)' = OpenParts(t)
  BY DEF OpenParts
<1> QED BY <1>1, <1>2 DEF JobOK, Idle

\* A step that leaves the transaction tables and the calls alone keeps TxnInv.
LEMMA TxnInvKept ==
  ASSUME TxnInv, UNCHANGED <<txnTables, told>>
  PROVE  TxnInv'
BY DEF TxnInv, txnTables

\* A job made of typed parts is a job.
LEMMA JobIsTyped ==
  ASSUME NEW k \in Kinds, NEW pc \in LockedPCs, NEW t \in Txns \cup {None},
         NEW s \in NonTerminal \cup {None}, NEW left \in SUBSET Resources,
         NEW todo \in SUBSET (Txns \X NonTerminal), NEW r \in Resources \cup {None}
  PROVE  Job(k, pc, t, s, left, todo, r) \in JobType
BY DEF Job, JobType

LEMMA IdleIsTyped == Idle \in JobType
BY DEF Idle, JobType

-----------------------------------------------------------------------------
(* Resource requests. *)

LEMMA RequestInv ==
  ASSUME IInv, StoreIInv', NEW p \in Workers, ResourceRequest(p)
  PROVE  IInv'
<1>1. PICK r \in Resources, v \in Votes \cup {Absent} :
        /\ Free(p)
        /\ op' = [op EXCEPT ![p] = PendingHandle(r, v)]
        /\ UNCHANGED <<up, mu, handles, told>>
        /\ UNCHANGED txnTables
  BY DEF ResourceRequest, Register, UpdateVote, Unregister,
         RegisterResource, UpdateResourceVote, DeleteResource
<1>2. op[p] = Idle /\ mu # p
  BY <1>1 DEF Free, Idle, IInv, LockInv
<1>3. VarsOK'
  <2>1. PendingHandle(r, v) \in JobType
    BY DEF PendingHandle, JobType
  <2> QED BY <1>1, <2>1 DEF IInv, VarsOK, StoreIInv
<1>4. LockInv'
  BY <1>1, <1>2 DEF IInv, VarsOK, LockInv, PendingHandle
<1>5. JobInv'
  <2> SUFFICES ASSUME NEW q \in Workers PROVE JobOK(op[q])'
    BY DEF JobInv
  <2>1. CASE q = p
    <3>1. op'[q] = PendingHandle(r, v)
      BY <1>1, <2>1 DEF IInv, VarsOK
    <3> QED BY <3>1 DEF JobOK, PendingHandle
  <2>2. CASE q # p
    <3>1. op'[q] = op[q]
      BY <1>1, <2>2 DEF IInv, VarsOK
    <3> QED BY <3>1, <1>1, JobKept DEF txnTables
  <2> QED BY <2>1, <2>2
<1>6. UpInv'
  BY <1>1 DEF IInv, UpInv, Free
<1>7. TxnInv'
  BY <1>1, TxnInvKept DEF IInv
<1> QED BY <1>3, <1>4, <1>5, <1>6, <1>7 DEF IInv

LEMMA SyncHandleInv ==
  ASSUME IInv, StoreIInv', NEW p \in Workers, SyncHandle(p)
  PROVE  IInv'
<1> USE DEF SyncHandle
<1>1. op'[p] = Idle /\ \A q \in Workers : q # p => op'[q] = op[q]
  BY DEF IInv, VarsOK
<1>2. VarsOK'
  <2>1. op[p].res \in Resources /\ op[p].vote \in Votes \cup {Absent}
    BY DEF IInv, JobInv, JobOK, VarsOK, JobType
  <2> QED BY <2>1, IdleIsTyped DEF IInv, VarsOK, StoreIInv
<1>3. LockInv'
  BY <1>1 DEF IInv, VarsOK, LockInv, Idle
<1>4. JobInv'
  <2> SUFFICES ASSUME NEW q \in Workers PROVE JobOK(op[q])'
    BY DEF JobInv
  <2>1. CASE q = p
    BY <1>1, <2>1 DEF JobOK, Idle
  <2>2. CASE q # p
    BY <1>1, <2>2, JobKept DEF tables
  <2> QED BY <2>1, <2>2
<1>5. UpInv'
  <2>1. up # "down"
    BY DEF IInv, UpInv, Idle
  <2>2. up = "starting" => FALSE
    BY <1>1 DEF IInv, UpInv, JobInv, JobOK, Idle, VarsOK, JobType
  <2> QED BY <2>1, <2>2 DEF UpInv
<1>6. TxnInv'
  BY TxnInvKept DEF IInv, tables, txnTables
<1> QED BY <1>2, <1>3, <1>4, <1>5, <1>6 DEF IInv

\* A write to the resources alone, by a request that is not one of Workers.
LEMMA ResourceWriteKept ==
  ASSUME IInv, StoreIInv', UNCHANGED <<process, told, txnTables>>
  PROVE  IInv'
<1>2. VarsOK'
  BY DEF IInv, VarsOK, StoreIInv, process
<1>3. LockInv'
  BY DEF IInv, LockInv, process
<1>4. JobInv'
  BY JobKept DEF JobInv, process, txnTables
<1>5. UpInv'
  BY DEF IInv, UpInv, process, txnTables
<1>6. TxnInv'
  BY TxnInvKept DEF IInv
<1> QED BY <1>2, <1>3, <1>4, <1>5, <1>6 DEF IInv

LEMMA LoseReplyInv ==
  ASSUME IInv, StoreIInv', NEW r \in Resources, NEW v \in Votes, LoseReply(r, v)
  PROVE  IInv'
<1>1. UNCHANGED <<process, told, txnTables>>
  BY DEF LoseReply, RegisterResource, UpdateResourceVote
<1> QED BY <1>1, ResourceWriteKept

\* A step that only moves c.mu, not from or to a goroutine of Workers, or writes
\* the handles.
LEMMA OthersKept ==
  ASSUME IInv, StoreIInv', UNCHANGED <<tables, up, op, told>>,
         handles' \in [Resources -> Votes \cup {Absent}],
         mu' = mu \/ (mu \notin Workers /\ mu' \notin Workers)
  PROVE  IInv'
<1>1. VarsOK'
  BY DEF IInv, VarsOK, StoreIInv
<1>2. LockInv' /\ UpInv'
  BY DEF IInv, LockInv, UpInv, tables
<1>3. JobInv'
  BY JobKept DEF JobInv, tables
<1>4. TxnInv'
  BY TxnInvKept DEF IInv, tables, txnTables
<1> QED BY <1>1, <1>2, <1>3, <1>4 DEF IInv

-----------------------------------------------------------------------------
(* Begin, Cleanup and the entries of the locked sections. *)

\* While c.mu is free every goroutine is outside, so new tables cannot make
\* anything stale.
LEMMA FreeLockKept ==
  ASSUME IInv, mu = None, UNCHANGED process
  PROVE  LockInv' /\ JobInv'
<1>1. \A q \in Workers : mu # q
  OBVIOUS
<1>2. LockInv'
  BY DEF IInv, LockInv, process
<1>3. JobInv'
  BY <1>1, OutsideKept DEF JobInv, process
<1> QED BY <1>2, <1>3

LEMMA BeginKept ==
  ASSUME IInv, StoreIInv', NEW t \in Txns, NEW rs \in SUBSET Resources,
         BeginTxn(t, rs), UNCHANGED <<process, told>>, mu = None, up = "serving"
  PROVE  IInv'
<1>1. BeginTxn(t, rs) /\ UNCHANGED <<process, told>> /\ mu = None /\ up = "serving"
  OBVIOUS
<1>2. VarsOK'
  BY <1>1 DEF IInv, VarsOK, StoreIInv, process
<1>3. LockInv' /\ JobInv'
  BY <1>1, FreeLockKept
<1>4. UpInv'
  BY <1>1 DEF UpInv, process
<1>5. TxnInv'
  <2> SUFFICES ASSUME NEW u \in Txns, NEW r \in Resources
               PROVE  /\ decisions'[u] = LogOf(txnState'[u])
                      /\ partFinal'[u][r] = "committed" => decisions'[u] = "commit"
                      /\ partFinal'[u][r] = "aborted" => decisions'[u] = "abort"
                      /\ told'[u][r] \subseteq {decisions'[u]}
                      /\ decisions'[u] = "commit" /\ partFinal'[u][r] # Absent =>
                           partVote'[u][r] = "yes"
                      /\ txnState'[u] \in Terminal => partFinal'[u][r] # NULL
    <3>1. \A u \in Txns : decisions'[u] = LogOf(txnState'[u])
      BY <1>1 DEF IInv, TxnInv, BeginTxn, LogOf, StoreIInv, StoreTypeOK, NoOrphanRows
    <3> QED BY <3>1 DEF TxnInv
  <2>1. CASE u = t
    BY <1>1, <2>1 DEF IInv, TxnInv, BeginTxn, LogOf, StoreIInv, StoreTypeOK, NoOrphanRows
  <2>2. CASE u # t
    BY <1>1, <2>2 DEF IInv, TxnInv, BeginTxn, StoreIInv, StoreTypeOK
  <2> QED BY <2>1, <2>2
<1> QED BY <1>2, <1>3, <1>4, <1>5 DEF IInv

LEMMA BeginInv ==
  ASSUME IInv, StoreIInv', NEW p \in Workers, NEW t \in Txns, NEW rs \in SUBSET Resources,
         Begin(p, t, rs)
  PROVE  IInv'
BY BeginKept DEF Begin, Free

LEMMA CleanupInv ==
  ASSUME IInv, StoreIInv', NEW p \in Workers, NEW t \in Txns, Cleanup(p, t)
  PROVE  IInv'
<1>1. /\ DeleteTxn(t) /\ UNCHANGED process /\ mu = None /\ up = "serving"
      /\ told' = [told EXCEPT ![t] = [r \in Resources |-> {}]]
  BY DEF Cleanup, Free
<1>2. VarsOK'
  BY <1>1 DEF IInv, VarsOK, StoreIInv, process
<1>3. LockInv' /\ JobInv'
  BY <1>1, FreeLockKept
<1>4. UpInv'
  BY <1>1 DEF UpInv, process
<1>5. TxnInv'
  BY <1>1 DEF IInv, VarsOK, TxnInv, DeleteTxn, LogOf, StoreIInv, StoreTypeOK
<1> QED BY <1>2, <1>3, <1>4, <1>5 DEF IInv

\* Entering a locked section with a job that fits the tables.
LEMMA LockKept ==
  ASSUME IInv, StoreIInv', NEW p \in Workers, NEW j \in JobType, Lock(p, j),
         UNCHANGED <<tables, up, handles, told>>,
         j.pc \in LockedPCs, JobOK(j),
         up # "down",
         up = "starting" => /\ j.kind = "recover" /\ j.pc = "next"
                            /\ \A t \in Txns : txnState[t] \in NonTerminal =>
                                 \E e \in j.todo : e[1] = t
  PROVE  IInv'
<1>1. op'[p] = j /\ mu' = p /\ mu = None /\ \A q \in Workers : q # p => op'[q] = op[q]
  BY DEF Lock, IInv, VarsOK
<1>2. VarsOK'
  BY DEF Lock, IInv, VarsOK, StoreIInv
<1>3. LockInv'
  BY <1>1 DEF IInv, LockInv
<1>4. JobInv'
  <2> SUFFICES ASSUME NEW q \in Workers PROVE JobOK(op[q])'
    BY DEF JobInv
  <2>1. CASE q = p
    <3>1. \A t : OpenParts(t)' = OpenParts(t)
      BY DEF OpenParts, tables
    <3> QED BY <1>1, <2>1, <3>1 DEF JobOK, tables
  <2>2. CASE q # p
    BY <1>1, <2>2, JobKept DEF tables
  <2> QED BY <2>1, <2>2
<1>5. UpInv'
  BY <1>1 DEF IInv, UpInv, tables
<1>6. TxnInv'
  BY TxnInvKept DEF IInv, tables, txnTables
<1> QED BY <1>2, <1>3, <1>4, <1>5, <1>6 DEF IInv

LEMMA StartPrepareInv ==
  ASSUME IInv, StoreIInv', NEW p \in Workers, NEW t \in Txns, StartPrepare(p, t)
  PROVE  IInv'
<1>1. PICK k \in {"prepare", "run"} : Lock(p, Job(k, "record", t, "PREPARING", {}, {}, None))
  BY DEF StartPrepare
<1> DEFINE j == Job(k, "record", t, "PREPARING", {}, {}, None)
<1>2. j \in JobType
  BY JobIsTyped
<1>3. j.pc \in LockedPCs /\ JobOK(j)
  BY DEF Job, JobOK, StartPrepare
<1>4. up = "serving"
  BY DEF StartPrepare, Free
<1> HIDE DEF j
<1> QED BY <1>1, <1>2, <1>3, <1>4, LockKept DEF StartPrepare, j

LEMMA StartAbortInv ==
  ASSUME IInv, StoreIInv', NEW p \in Workers, NEW t \in Txns, StartAbort(p, t)
  PROVE  IInv'
<1> DEFINE j == Job("abort", "record", t, "PREPARING", OpenParts(t), {}, None)
<1>1. j \in JobType
  BY JobIsTyped DEF OpenParts
<1>2. j.pc \in LockedPCs /\ JobOK(j)
  BY DEF Job, JobOK, StartAbort
<1>3. up = "serving"
  BY DEF StartAbort, Free
<1>4. Lock(p, j) /\ UNCHANGED <<tables, up, handles, told>>
  BY DEF StartAbort
<1> HIDE DEF j
<1> QED BY <1>1, <1>2, <1>3, <1>4, LockKept

LEMMA StartFinishInv ==
  ASSUME IInv, StoreIInv', NEW p \in Workers, NEW t \in Txns, StartFinish(p, t)
  PROVE  IInv'
<1> DEFINE j == Job("finish", "drive", t, txnState[t], OpenParts(t), {}, None)
<1>1. j \in JobType
  BY JobIsTyped DEF OpenParts, StartFinish
<1>2. j.pc \in LockedPCs /\ JobOK(j)
  BY DEF Job, JobOK, StartFinish
<1>3. up = "serving"
  BY DEF StartFinish, Free
<1>4. Lock(p, j) /\ UNCHANGED <<tables, up, handles, told>>
  BY DEF StartFinish
<1> HIDE DEF j
<1> QED BY <1>1, <1>2, <1>3, <1>4, LockKept

LEMMA StartRecoverInv ==
  ASSUME IInv, StoreIInv', NEW p \in Workers, StartRecover(p)
  PROVE  IInv'
<1> DEFINE j == Job("recover", "next", None, None, {}, NonFinalTxns, None)
<1>1. NonFinalTxns \in SUBSET (Txns \X NonTerminal)
  BY DEF NonFinalTxns
<1>2. j \in JobType
  BY <1>1, JobIsTyped
<1>3. \A e \in NonFinalTxns : txnState[e[1]] = e[2] /\ e[1] # None
  BY DEF NonFinalTxns
<1>4. j.pc \in LockedPCs /\ j.kind = "recover" /\ j.pc = "next" /\ JobOK(j)
  BY <1>3 DEF Job, JobOK
<1>5. \A t \in Txns : txnState[t] \in NonTerminal => \E e \in j.todo : e[1] = t
  <2> SUFFICES ASSUME NEW t \in Txns, txnState[t] \in NonTerminal
               PROVE  \E e \in j.todo : e[1] = t
    OBVIOUS
  <2>1. <<t, txnState[t]>> \in j.todo
    BY DEF Job, NonFinalTxns
  <2> QED BY <2>1
<1>6. Lock(p, j) /\ up # "down" /\ UNCHANGED <<tables, up, handles, told>>
  BY DEF StartRecover
<1> HIDE DEF j
<1> QED BY <1>2, <1>4, <1>5, <1>6, LockKept

-----------------------------------------------------------------------------
(* The steps inside a locked section.  p holds c.mu, so the others are     *)
(* outside and only p's own job and the tables need an argument.           *)

LEMMA Holder ==
  ASSUME IInv, NEW p \in Workers, op[p].pc \in LockedPCs
  PROVE  /\ mu = p /\ op[p] \in JobType /\ JobOK(op[p]) /\ op[p].kind \in Kinds
         /\ op[p].left \in SUBSET Resources /\ op[p].todo \in SUBSET (Txns \X NonTerminal)
         /\ up # "down"
         /\ up = "starting" => op[p].kind = "recover"
         /\ \A q \in Workers : q # p => mu # q
<1>1. op[p] \in JobType /\ JobOK(op[p])
  BY DEF IInv, JobInv, VarsOK
<1>2. op[p].left \in SUBSET Resources /\ op[p].todo \in SUBSET (Txns \X NonTerminal)
  BY <1>1 DEF JobType
<1> QED BY <1>1, <1>2 DEF IInv, LockInv, JobOK, UpInv, Idle

\* p goes on with job j, or returns.
LEMMA HolderKept ==
  ASSUME IInv, StoreIInv', TxnInv', NEW p \in Workers, op[p].pc \in LockedPCs,
         NEW j \in JobType, Goto(p, j), j.pc \in LockedPCs, JobOK(j)',
         told' \in [Txns -> [Resources -> SUBSET Decisions]],
         UNCHANGED <<up, handles>>,
         up = "starting" => /\ j.kind = "recover"
                            /\ \A t \in Txns : txnState'[t] \in NonTerminal =>
                                 \/ j.pc # "next" /\ j.txn = t
                                 \/ \E e \in j.todo : e[1] = t
  PROVE  IInv'
<1>1. /\ op'[p] = j /\ mu' = p /\ mu = p
      /\ \A q \in Workers : q # p => op'[q] = op[q] /\ mu # q
  BY Holder DEF Goto, IInv, VarsOK
<1>2. VarsOK'
  BY DEF Goto, IInv, VarsOK, StoreIInv
<1>3. LockInv'
  BY <1>1 DEF IInv, LockInv
<1>4. JobInv'
  <2> SUFFICES ASSUME NEW q \in Workers PROVE JobOK(op[q])'
    BY DEF JobInv
  <2>1. CASE q = p
    BY <1>1, <2>1 DEF JobOK, OpenParts
  <2>2. CASE q # p
    BY <1>1, <2>2, OutsideKept
  <2> QED BY <2>1, <2>2
<1>5. UpInv'
  BY <1>1, Holder DEF IInv, UpInv
<1> QED BY <1>2, <1>3, <1>4, <1>5 DEF IInv

LEMMA ReturnKept ==
  ASSUME IInv, StoreIInv', TxnInv', NEW p \in Workers, op[p].pc \in LockedPCs,
         Return(p), told' = told, UNCHANGED handles,
         up' = "serving"
  PROVE  IInv'
<1>1. /\ op'[p] = Idle /\ mu' = None
      /\ \A q \in Workers : q # p => op'[q] = op[q] /\ mu # q
  BY Holder DEF Return, IInv, VarsOK
<1>2. VarsOK'
  BY IdleIsTyped DEF Return, IInv, VarsOK, StoreIInv
<1>3. LockInv'
  BY <1>1 DEF IInv, LockInv, Idle
<1>4. JobInv'
  <2> SUFFICES ASSUME NEW q \in Workers PROVE JobOK(op[q])'
    BY DEF JobInv
  <2>1. CASE q = p
    BY <1>1, <2>1 DEF JobOK, Idle
  <2>2. CASE q # p
    BY <1>1, <2>2, OutsideKept
  <2> QED BY <2>1, <2>2
<1>5. UpInv'
  BY DEF UpInv
<1> QED BY <1>2, <1>3, <1>4, <1>5 DEF IInv

\* Recording a decision: a commit only with every participant's yes.
LEMMA RecordTxnInv ==
  ASSUME IInv, NEW t \in Txns, NEW votes \in [Resources -> Votes \cup {NULL}],
         NEW d \in Decisions, RecordPrepare(t, votes, d), told' = told,
         d = "commit" => \A r \in Members(t) : votes[r] = "yes"
  PROVE  TxnInv'
<1> SUFFICES ASSUME NEW u \in Txns
             PROVE  /\ decisions'[u] = LogOf(txnState'[u])
                    /\ \A r \in Resources :
                         /\ partFinal'[u][r] = "committed" => decisions'[u] = "commit"
                         /\ partFinal'[u][r] = "aborted" => decisions'[u] = "abort"
                         /\ told'[u][r] \subseteq {decisions'[u]}
                         /\ decisions'[u] = "commit" /\ partFinal'[u][r] # Absent =>
                              partVote'[u][r] = "yes"
                         /\ txnState'[u] \in Terminal => partFinal'[u][r] # NULL
  BY DEF TxnInv
<1>1. CASE u # t
  BY <1>1 DEF RecordPrepare, IInv, TxnInv, StoreIInv, StoreTypeOK
<1>2. CASE u = t
  <2>1. /\ decisions'[t] = d /\ txnState'[t] = StateOf(d)
        /\ decisions[t] = NULL /\ partFinal' = partFinal
    BY DEF RecordPrepare, StateOf, IInv, StoreIInv, StoreTypeOK
  <2>2. decisions'[t] = LogOf(txnState'[t]) /\ txnState'[t] \notin Terminal
    BY <2>1 DEF StateOf, LogOf
  <2>3. ASSUME NEW r \in Resources
        PROVE  /\ partFinal[t][r] \notin Finals /\ told[t][r] = {}
               /\ d = "commit" /\ partFinal[t][r] # Absent => partVote'[t][r] = "yes"
    <3>1. partFinal[t][r] \notin Finals /\ told[t][r] \subseteq {NULL}
      BY <2>1 DEF IInv, TxnInv
    <3>2. told[t][r] \subseteq Decisions
      BY DEF IInv, VarsOK
    <3>3. told[t][r] = {}
      BY <3>1, <3>2
    <3>4. ASSUME d = "commit", partFinal[t][r] # Absent PROVE partVote'[t][r] = "yes"
      <4>1. r \in Members(t) /\ votes[r] = "yes"
        BY <3>4 DEF Members
      <4> QED BY <4>1 DEF RecordPrepare, IInv, StoreIInv, StoreTypeOK
    <3> QED BY <3>1, <3>3, <3>4
  <2> QED BY <1>2, <2>1, <2>2, <2>3
<1> QED BY <1>1, <1>2

LEMMA RecordInv ==
  ASSUME IInv, StoreIInv', NEW p \in Workers, Record(p)
  PROVE  IInv'
<1>1. op[p].pc = "record" /\ op[p].pc \in LockedPCs
  BY DEF Record
<1>2. /\ op[p].txn \in Txns /\ op[p].kind \in Kinds \ {"finish"}
      /\ op[p] \in JobType /\ JobOK(op[p])
  BY <1>1, Holder DEF JobOK
<1>3. PICK t \in Txns : t = op[p].txn
  BY <1>2
<1>4. PICK votes \in [Resources -> Votes \cup {NULL}], d \in Decisions :
        /\ RecordPrepare(t, votes, d)
        /\ AfterRecord(p, d)
        /\ d = "commit" => \A r \in Members(t) : votes[r] = "yes"
        /\ op[p].kind \in {"abort", "recover"} => d = "abort"
  <2> DEFINE votes == IF op[p].kind \in {"prepare", "run"} THEN CollectVotes(t) ELSE NoVotes
             d == IF op[p].kind \in {"prepare", "run"} THEN DecisionFor(votes) ELSE "abort"
  <2>1. RecordPrepare(t, votes, d) /\ AfterRecord(p, d)
    BY <1>3 DEF Record
  <2>2. votes \in [Resources -> Votes \cup {NULL}]
    BY VotesType DEF IInv
  <2>3. d \in Decisions
    BY DEF DecisionFor
  <2>4. d = "commit" => \A r \in Members(t) : votes[r] = "yes"
    BY DEF DecisionFor, CollectVotes, Members
  <2>5. op[p].kind \in {"abort", "recover"} => d = "abort"
    OBVIOUS
  <2> HIDE DEF votes, d
  <2> QED BY <2>1, <2>2, <2>3, <2>4, <2>5
<1>5. UNCHANGED <<up, handles, told>>
  BY DEF Record
<1>6. TxnInv'
  BY <1>4, <1>5, RecordTxnInv
<1>7. /\ txnState'[t] = StateOf(d) /\ partFinal' = partFinal
      /\ \A u \in Txns \ {t} : txnState'[u] = txnState[u]
  BY <1>4 DEF RecordPrepare, StateOf, IInv, StoreIInv, StoreTypeOK
<1>8. \A u : OpenParts(u)' = OpenParts(u)
  BY <1>7 DEF OpenParts
<1>9. StateOf(d) \in {"COMMITTING", "ABORTING"}
  BY DEF StateOf
<1>10. \A e \in op[p].todo : e[1] \in Txns \ {t} /\ txnState'[e[1]] = e[2]
  BY <1>2, <1>3, <1>7 DEF JobOK, JobType
<1>11. CASE op[p].kind = "prepare"
  <2>1. Return(p)
    BY <1>4, <1>11 DEF AfterRecord
  <2>2. up = "serving"
    BY <1>1, <1>11, Holder DEF IInv, VarsOK
  <2> QED BY <1>1, <1>5, <1>6, <2>1, <2>2, ReturnKept
<1>12. CASE op[p].kind = "abort"
  <2>1. Job("abort", "drive", t, StateOf(d), op[p].left, {}, None) \in JobType
    <3>1. StateOf(d) \in NonTerminal \cup {None} /\ t \in Txns \cup {None}
      BY <1>9
    <3> QED BY <1>1, <1>2, <3>1, Holder, JobIsTyped
  <2>2. PICK j \in JobType : j = Job("abort", "drive", t, StateOf(d), op[p].left, {}, None)
    BY <2>1
  <2>3. Goto(p, j)
    BY <1>3, <1>4, <1>12, <2>2 DEF AfterRecord
  <2>4. j.pc \in LockedPCs /\ JobOK(j)'
    BY <1>1, <1>2, <1>3, <1>7, <1>8, <1>9, <1>12, <2>2 DEF Job, JobOK
  <2>5. up # "starting"
    BY <1>1, <1>12, Holder
  <2> QED BY <1>1, <1>5, <1>6, <2>3, <2>4, <2>5, HolderKept DEF IInv, VarsOK
<1>13. CASE op[p].kind \in {"run", "recover"}
  <2>1. Job(op[p].kind, "list", t, StateOf(d), {}, op[p].todo, None) \in JobType
    <3>1. StateOf(d) \in NonTerminal \cup {None} /\ t \in Txns \cup {None}
      BY <1>9
    <3> QED BY <1>1, <1>2, <3>1, Holder, JobIsTyped
  <2>2. PICK j \in JobType : j = Job(op[p].kind, "list", t, StateOf(d), {}, op[p].todo, None)
    BY <2>1
  <2>3. Goto(p, j)
    BY <1>3, <1>4, <1>13, <2>2 DEF AfterRecord
  <2>4. j.pc \in LockedPCs /\ JobOK(j)'
    BY <1>1, <1>7, <1>9, <1>10, <1>13, <2>2 DEF Job, JobOK
  <2>5. ASSUME up = "starting", NEW u \in Txns, txnState'[u] \in NonTerminal
        PROVE  \/ j.pc # "next" /\ j.txn = u
               \/ \E e \in j.todo : e[1] = u
    <3>1. CASE u = t
      BY <2>2, <3>1 DEF Job
    <3>2. CASE u # t
      <4>1. \E e \in op[p].todo : e[1] = u
        BY <1>1, <1>3, <1>7, <2>5, <3>2, Holder DEF IInv, UpInv
      <4> QED BY <2>2, <4>1 DEF Job
    <3> QED BY <3>1, <3>2
  <2>6. up = "starting" => j.kind = "recover"
    BY <1>1, <2>2, Holder DEF Job
  <2> QED BY <1>1, <1>5, <1>6, <2>3, <2>4, <2>5, <2>6, HolderKept DEF IInv, VarsOK
<1> QED BY <1>2, <1>11, <1>12, <1>13

LEMMA ListPartsInv ==
  ASSUME IInv, StoreIInv', NEW p \in Workers, ListParts(p)
  PROVE  IInv'
<1>1. op[p].pc = "list" /\ op[p].pc \in LockedPCs /\ UNCHANGED <<tables, up, handles, told>>
  BY DEF ListParts
<1>2. /\ op[p].txn \in Txns /\ op[p].state = txnState[op[p].txn]
      /\ op[p].state \in {"COMMITTING", "ABORTING"}
  BY <1>1, Holder DEF JobOK
<1> DEFINE j0 == Job(op[p].kind, "drive", op[p].txn, op[p].state, OpenParts(op[p].txn),
                     op[p].todo, None)
<1>3. j0 \in JobType
  <2>1. OpenParts(op[p].txn) \in SUBSET Resources
    BY DEF OpenParts
  <2>2. op[p].state \in NonTerminal \cup {None} /\ op[p].txn \in Txns \cup {None}
    BY <1>2
  <2>3. op[p].kind \in Kinds /\ op[p].todo \in SUBSET (Txns \X NonTerminal)
    BY <1>1, Holder
  <2>4. "drive" \in LockedPCs /\ None \in Resources \cup {None}
    OBVIOUS
  <2> HIDE DEF LockedPCs, Kinds, NonTerminal
  <2> QED BY ONLY <2>1, <2>2, <2>3, <2>4, JobIsTyped
<1>4. PICK j \in JobType : j = j0
  BY <1>3
<1>5. Goto(p, j)
  BY <1>4 DEF ListParts
<1>6. j.pc \in LockedPCs /\ JobOK(j)'
  <2>1. \A u : OpenParts(u)' = OpenParts(u)
    BY <1>1 DEF OpenParts, tables
  <2>2. j.left = OpenParts(j.txn) /\ j.txn = op[p].txn /\ j.state = op[p].state
    BY <1>4 DEF Job
  <2>3. j.pc = "drive" /\ j.kind \in Kinds /\ j.todo = op[p].todo
    BY <1>1, <1>4, Holder DEF Job
  <2>4. \A e \in op[p].todo : txnState[e[1]] = e[2] /\ e[1] # op[p].txn
    BY <1>1, Holder DEF JobOK
  <2> QED BY <1>1, <1>2, <2>1, <2>2, <2>3, <2>4 DEF JobOK, tables
<1>7. TxnInv'
  BY <1>1, TxnInvKept DEF IInv, tables, txnTables
<1>8. up = "starting" => /\ j.kind = "recover"
                         /\ \A t \in Txns : txnState'[t] \in NonTerminal =>
                              \/ j.pc # "next" /\ j.txn = t
                              \/ \E e \in j.todo : e[1] = t
  BY <1>1, <1>4, Holder DEF IInv, UpInv, Job, tables
<1> QED BY <1>1, <1>5, <1>6, <1>7, <1>8, HolderKept DEF IInv, VarsOK

LEMMA TellInv ==
  ASSUME IInv, StoreIInv', NEW p \in Workers, NEW r \in Resources, Tell(p, r)
  PROVE  IInv'
<1>1. /\ op[p].pc = "drive" /\ op[p].pc \in LockedPCs /\ r \in op[p].left
      /\ UNCHANGED <<tables, up, handles>>
  BY DEF Tell
<1>2. /\ op[p].txn \in Txns /\ op[p].state = txnState[op[p].txn]
      /\ op[p].state \in {"COMMITTING", "ABORTING"}
      /\ op[p].left = OpenParts(op[p].txn)
  BY <1>1, Holder DEF JobOK
<1> DEFINE j0 == Job(op[p].kind, "finalize", op[p].txn, op[p].state, op[p].left, op[p].todo, r)
<1>3. j0 \in JobType
  <2>1. op[p].state \in NonTerminal \cup {None} /\ op[p].txn \in Txns \cup {None}
    BY <1>2
  <2>2. /\ op[p].kind \in Kinds /\ op[p].todo \in SUBSET (Txns \X NonTerminal)
        /\ op[p].left \in SUBSET Resources
    BY <1>1, Holder
  <2>3. "finalize" \in LockedPCs /\ r \in Resources \cup {None}
    OBVIOUS
  <2> HIDE DEF LockedPCs, Kinds, NonTerminal
  <2> QED BY ONLY <2>1, <2>2, <2>3, JobIsTyped
<1>4. PICK j \in JobType : j = j0
  BY <1>3
<1>5. Goto(p, j)
  BY <1>4 DEF Tell
<1>6. j.pc \in LockedPCs /\ JobOK(j)'
  <2>1. \A u : OpenParts(u)' = OpenParts(u)
    BY <1>1 DEF OpenParts, tables
  <2>2. j.left = OpenParts(j.txn) /\ j.txn = op[p].txn /\ j.state = op[p].state /\ j.res \in j.left
    BY <1>1, <1>2, <1>4 DEF Job
  <2>3. j.pc = "finalize" /\ j.kind \in Kinds /\ j.todo = op[p].todo
    BY <1>1, <1>4, Holder DEF Job
  <2>4. \A e \in op[p].todo : txnState[e[1]] = e[2] /\ e[1] # op[p].txn
    BY <1>1, Holder DEF JobOK
  <2> QED BY <1>1, <1>2, <2>1, <2>2, <2>3, <2>4 DEF JobOK, tables
<1>7. CallOf(op[p].state) = decisions[op[p].txn] /\ CallOf(op[p].state) \in Decisions
  BY <1>2 DEF CallOf, IInv, TxnInv, LogOf
<1>8. \A t \in Txns, q \in Resources :
        told'[t][q] = told[t][q] \/ told'[t][q] = told[t][q] \cup {decisions[t]}
  BY <1>2, <1>7 DEF Tell, IInv, VarsOK
<1>9. told' \in [Txns -> [Resources -> SUBSET Decisions]]
  BY <1>2, <1>7 DEF Tell, IInv, VarsOK
<1>10. TxnInv'
  BY <1>1, <1>8 DEF IInv, TxnInv, tables
<1>11. up = "starting" => /\ j.kind = "recover"
                          /\ \A t \in Txns : txnState'[t] \in NonTerminal =>
                               \/ j.pc # "next" /\ j.txn = t
                               \/ \E e \in j.todo : e[1] = t
  BY <1>1, <1>4, Holder DEF IInv, UpInv, Job, tables
<1> QED BY <1>1, <1>5, <1>6, <1>9, <1>10, <1>11, HolderKept

LEMMA FinalizeInv ==
  ASSUME IInv, StoreIInv', NEW p \in Workers, Finalize(p)
  PROVE  IInv'
<1>1. /\ op[p].pc = "finalize" /\ op[p].pc \in LockedPCs
      /\ UNCHANGED <<up, handles, told>>
  BY DEF Finalize
<1>2. /\ op[p].txn \in Txns /\ op[p].state = txnState[op[p].txn]
      /\ op[p].state \in {"COMMITTING", "ABORTING"}
      /\ op[p].left = OpenParts(op[p].txn) /\ op[p].res \in op[p].left
  BY <1>1, Holder DEF JobOK
<1>3. PICK t \in Txns, r \in Resources : t = op[p].txn /\ r = op[p].res /\ partFinal[t][r] = NULL
  BY <1>2 DEF OpenParts
<1>4. PICK f \in Finals : f = FinalOf(op[p].state)
  BY DEF FinalOf
<1>5. /\ partFinal' = [partFinal EXCEPT ![t][r] = f]
      /\ UNCHANGED <<resVote, txnState, txnDecision, partVote, decisions>>
  BY <1>3, <1>4 DEF Finalize, FinalizeParticipant
<1>6. OpenParts(t)' = op[p].left \ {r}
  <2>1. \A q \in Resources : partFinal'[t][q] = IF q = r THEN f ELSE partFinal[t][q]
    BY <1>5 DEF IInv, StoreIInv, StoreTypeOK
  <2> QED BY <1>2, <1>3, <2>1 DEF OpenParts
<1> DEFINE j0 == Job(op[p].kind, "drive", t, op[p].state, op[p].left \ {r}, op[p].todo, None)
<1>7. j0 \in JobType
  <2>1. op[p].state \in NonTerminal \cup {None} /\ t \in Txns \cup {None}
    BY <1>2
  <2>2. op[p].left \ {r} \in SUBSET Resources
    BY <1>1, Holder
  <2>3. op[p].kind \in Kinds /\ op[p].todo \in SUBSET (Txns \X NonTerminal)
    BY <1>1, Holder
  <2> QED BY ONLY <2>1, <2>2, <2>3, JobIsTyped
<1>8. PICK j \in JobType : j = j0
  BY <1>7
<1>9. Goto(p, j)
  BY <1>3, <1>8 DEF Finalize
<1>10. j.pc \in LockedPCs /\ JobOK(j)'
  <2>1. j.left = OpenParts(t)' /\ j.txn = t /\ j.state = op[p].state
    BY <1>6, <1>8 DEF Job
  <2>2. j.pc = "drive" /\ j.kind \in Kinds /\ j.todo = op[p].todo
    BY <1>1, <1>8, Holder DEF Job
  <2>3. \A e \in op[p].todo : txnState[e[1]] = e[2] /\ e[1] # t
    BY <1>1, <1>3, Holder DEF JobOK
  <2>4. OpenParts(j.txn)' = OpenParts(t)'
    BY <2>1 DEF OpenParts
  <2> QED BY <1>2, <1>3, <1>5, <2>1, <2>2, <2>3, <2>4 DEF JobOK
<1>11. TxnInv'
  <2>1. decisions[t] = (IF f = "committed" THEN "commit" ELSE "abort")
    BY <1>2, <1>3, <1>4 DEF FinalOf, IInv, TxnInv, LogOf
  <2>2. \A u \in Txns, q \in Resources :
          partFinal'[u][q] = IF u = t /\ q = r THEN f ELSE partFinal[u][q]
    BY <1>5 DEF IInv, StoreIInv, StoreTypeOK
  <2> QED BY <1>1, <1>3, <1>5, <2>1, <2>2 DEF IInv, TxnInv
<1>12. up = "starting" => /\ j.kind = "recover"
                          /\ \A u \in Txns : txnState'[u] \in NonTerminal =>
                               \/ j.pc # "next" /\ j.txn = u
                               \/ \E e \in j.todo : e[1] = u
  BY <1>1, <1>3, <1>5, <1>8, Holder DEF IInv, UpInv, Job
<1> QED BY <1>1, <1>9, <1>10, <1>11, <1>12, HolderKept DEF IInv, VarsOK

\* Recording the terminal state once no participant is left.
LEMMA CloseTxnInv ==
  ASSUME IInv, NEW t \in Txns, txnState[t] \in {"COMMITTING", "ABORTING"}, OpenParts(t) = {},
         SetTxnFinalState(t, TerminalOf(txnState[t])), told' = told
  PROVE  /\ TxnInv'
         /\ txnState'[t] \in Terminal /\ partFinal' = partFinal
         /\ \A u \in Txns \ {t} : txnState'[u] = txnState[u]
<1>1. /\ txnState'[t] = TerminalOf(txnState[t])
      /\ \A u \in Txns \ {t} : txnState'[u] = txnState[u]
      /\ UNCHANGED <<partVote, partFinal, decisions>>
  BY DEF SetTxnFinalState, IInv, StoreIInv, StoreTypeOK
<1>2. \A r \in Resources : partFinal[t][r] # NULL
  BY DEF OpenParts
<1>3. LogOf(txnState'[t]) = LogOf(txnState[t]) /\ txnState'[t] \in Terminal
  BY <1>1 DEF LogOf, TerminalOf
<1>4. TxnInv'
  <2> SUFFICES ASSUME NEW u \in Txns
               PROVE  /\ decisions'[u] = LogOf(txnState'[u])
                      /\ \A r \in Resources :
                           /\ partFinal'[u][r] = "committed" => decisions'[u] = "commit"
                           /\ partFinal'[u][r] = "aborted" => decisions'[u] = "abort"
                           /\ told'[u][r] \subseteq {decisions'[u]}
                           /\ decisions'[u] = "commit" /\ partFinal'[u][r] # Absent =>
                                partVote'[u][r] = "yes"
                           /\ txnState'[u] \in Terminal => partFinal'[u][r] # NULL
    BY DEF TxnInv
  <2>1. decisions'[u] = LogOf(txnState'[u])
    BY <1>1, <1>3 DEF IInv, TxnInv
  <2>2. ASSUME NEW r \in Resources
        PROVE  txnState'[u] \in Terminal => partFinal'[u][r] # NULL
    BY <1>1, <1>2 DEF IInv, TxnInv
  <2> QED BY <1>1, <2>1, <2>2 DEF IInv, TxnInv
<1> QED BY <1>1, <1>3, <1>4

LEMMA CloseInv ==
  ASSUME IInv, StoreIInv', NEW p \in Workers, Close(p)
  PROVE  IInv'
<1>1. /\ op[p].pc = "drive" /\ op[p].pc \in LockedPCs
      /\ UNCHANGED <<up, handles, told>>
  BY DEF Close
<1>2. PICK t \in Txns :
        /\ t = op[p].txn /\ txnState[t] = op[p].state
        /\ txnState[t] \in {"COMMITTING", "ABORTING"}
        /\ OpenParts(t) = {}
  BY <1>1, Holder DEF Close, JobOK
<1>3. /\ TxnInv'
      /\ txnState'[t] \in Terminal /\ partFinal' = partFinal
      /\ \A u \in Txns \ {t} : txnState'[u] = txnState[u]
  BY <1>1, <1>2, CloseTxnInv DEF Close
<1>4. CASE op[p].kind # "recover"
  <2>1. Return(p) /\ up = "serving"
    BY <1>1, <1>4, Holder DEF Close, IInv, VarsOK
  <2> QED BY <1>1, <1>3, <2>1, ReturnKept
<1>5. CASE op[p].kind = "recover"
  <2> DEFINE j0 == Job("recover", "next", None, None, {}, op[p].todo, None)
  <2>1. j0 \in JobType
    <3>1. op[p].todo \in SUBSET (Txns \X NonTerminal)
      BY <1>1, Holder
    <3> QED BY <3>1, JobIsTyped
  <2>2. PICK j \in JobType : j = j0
    BY <2>1
  <2>3. Goto(p, j)
    BY <1>5, <2>2 DEF Close
  <2>4. \A e \in op[p].todo : e[1] \in Txns \ {t} /\ txnState'[e[1]] = e[2]
    BY <1>1, <1>2, <1>3, Holder DEF JobOK
  <2>5. j.pc \in LockedPCs /\ JobOK(j)'
    BY <2>2, <2>4 DEF Job, JobOK
  <2>6. ASSUME up = "starting", NEW u \in Txns, txnState'[u] \in NonTerminal
        PROVE  \E e \in j.todo : e[1] = u
    <3>1. u # t
      BY <1>3, <2>6
    <3>2. \E e \in op[p].todo : e[1] = u
      BY <1>1, <1>2, <1>3, <2>6, <3>1, Holder DEF IInv, UpInv
    <3> QED BY <2>2, <3>2 DEF Job
  <2>7. j.kind = "recover"
    BY <2>2 DEF Job
  <2> QED BY <1>1, <1>3, <2>3, <2>5, <2>6, <2>7, HolderKept DEF IInv, VarsOK
<1> QED BY <1>4, <1>5

LEMMA LoseCloseInv ==
  ASSUME IInv, StoreIInv', NEW p \in Workers, LoseClose(p)
  PROVE  IInv'
<1>1. /\ op[p].pc = "drive" /\ op[p].pc \in LockedPCs
      /\ UNCHANGED <<up, handles, told>> /\ Return(p) /\ up = "serving"
  BY DEF LoseClose
<1>2. PICK t \in Txns :
        /\ t = op[p].txn /\ txnState[t] = op[p].state
        /\ txnState[t] \in {"COMMITTING", "ABORTING"}
        /\ OpenParts(t) = {}
  BY <1>1, Holder DEF LoseClose, JobOK
<1>3. TxnInv'
  BY <1>1, <1>2, CloseTxnInv DEF LoseClose
<1> QED BY <1>1, <1>3, ReturnKept

LEMMA NextTxnInv ==
  ASSUME IInv, StoreIInv', NEW p \in Workers, NextTxn(p)
  PROVE  IInv'
<1>1. /\ op[p].pc = "next" /\ op[p].pc \in LockedPCs
      /\ UNCHANGED <<tables, up, handles, told>>
  BY DEF NextTxn
<1>2. PICK e \in op[p].todo :
        Goto(p, Job("recover", IF e[2] = "PREPARING" THEN "record" ELSE "list",
                    e[1], e[2], {}, op[p].todo \ {e}, None))
  BY DEF NextTxn
<1>3. /\ op[p].todo \in SUBSET (Txns \X NonTerminal)
      /\ \A x \in op[p].todo : txnState[x[1]] = x[2]
  BY <1>1, Holder DEF JobOK
<1>4. PICK t \in Txns, s \in NonTerminal : e = <<t, s>> /\ txnState[t] = s
  BY <1>3
<1> DEFINE pc == IF s = "PREPARING" THEN "record" ELSE "list"
           j0 == Job("recover", pc, t, s, {}, op[p].todo \ {e}, None)
<1>5. j0 \in JobType
  <2>1. op[p].todo \ {e} \in SUBSET (Txns \X NonTerminal)
    BY <1>3
  <2>2. pc \in {"record", "list"}
    OBVIOUS
  <2> HIDE DEF pc
  <2> QED BY ONLY <2>1, <2>2, t \in Txns, s \in NonTerminal, JobIsTyped
<1>6. PICK j \in JobType : j = j0
  BY <1>5
<1>7. Goto(p, j)
  BY <1>2, <1>4, <1>6
<1>8. \A x \in op[p].todo \ {e} : txnState[x[1]] = x[2] /\ x[1] # t
  <2> SUFFICES ASSUME NEW x \in op[p].todo \ {e} PROVE x[1] # t
    BY <1>3
  <2>1. x \in Txns \X NonTerminal /\ txnState[x[1]] = x[2]
    BY <1>3
  <2> QED BY <1>4, <2>1
<1>9. j.pc \in LockedPCs /\ JobOK(j)'
  <2>1. /\ j.pc = pc /\ j.kind = "recover" /\ j.txn = t /\ j.state = s
        /\ j.todo = op[p].todo \ {e}
    BY <1>6 DEF Job
  <2>2. txnState'[t] = s /\ \A x \in op[p].todo \ {e} : txnState'[x[1]] = x[2] /\ x[1] # t
    BY <1>1, <1>4, <1>8 DEF tables
  <2> QED BY <2>1, <2>2 DEF JobOK
<1>10. TxnInv'
  BY <1>1, TxnInvKept DEF IInv, tables, txnTables
<1>11. ASSUME up = "starting", NEW u \in Txns, txnState'[u] \in NonTerminal
       PROVE  \/ j.pc # "next" /\ j.txn = u
              \/ \E x \in j.todo : x[1] = u
  <2>1. \E x \in op[p].todo : x[1] = u
    BY <1>1, <1>11, Holder DEF IInv, UpInv, tables
  <2>2. j.pc # "next" /\ j.txn = t /\ j.todo = op[p].todo \ {e}
    BY <1>6 DEF Job
  <2> QED BY <1>4, <2>1, <2>2
<1>12. j.kind = "recover"
  BY <1>6 DEF Job
<1> QED BY <1>1, <1>7, <1>9, <1>10, <1>11, <1>12, HolderKept DEF IInv, VarsOK

LEMMA EndRecoverInv ==
  ASSUME IInv, StoreIInv', NEW p \in Workers, EndRecover(p)
  PROVE  IInv'
<1>1. /\ op[p].pc \in LockedPCs /\ Return(p) /\ up' = "serving"
      /\ UNCHANGED <<tables, handles, told>>
  BY DEF EndRecover
<1>2. TxnInv'
  BY <1>1, TxnInvKept DEF IInv, tables, txnTables
<1> QED BY <1>1, <1>2, ReturnKept

-----------------------------------------------------------------------------
(* Faults and restarts. *)

LEMMA StopKept ==
  ASSUME IInv, StoreIInv', Stop, UNCHANGED <<tables, told>>
  PROVE  IInv'
<1>1. \A p \in Workers : op'[p] = Idle
  BY DEF Stop
<1>2. VarsOK'
  BY IdleIsTyped DEF Stop, IInv, VarsOK, StoreIInv
<1>3. LockInv'
  BY <1>1 DEF Stop, LockInv, Idle
<1>4. JobInv'
  BY <1>1 DEF JobInv, JobOK, Idle
<1>5. UpInv'
  BY <1>1 DEF Stop, UpInv
<1>6. TxnInv'
  BY TxnInvKept DEF IInv, tables, txnTables
<1> QED BY <1>2, <1>3, <1>4, <1>5, <1>6 DEF IInv

LEMMA FailInv ==
  ASSUME IInv, StoreIInv', NEW p \in Workers, Fail(p)
  PROVE  IInv'
<1>1. op[p].pc \in LockedPCs /\ UNCHANGED <<tables, told>>
  BY DEF Fail
<1>2. CASE up = "starting"
  BY <1>1, <1>2, StopKept DEF Fail
<1>3. CASE up # "starting"
  <2>1. up = "serving" /\ Return(p) /\ UNCHANGED <<up, handles>>
    BY <1>1, <1>3, Holder DEF Fail, IInv, VarsOK
  <2>2. TxnInv'
    BY <1>1, TxnInvKept DEF IInv, tables, txnTables
  <2> QED BY <1>1, <2>1, <2>2, ReturnKept
<1> QED BY <1>2, <1>3

LEMMA StartInv ==
  ASSUME IInv, StoreIInv', Start
  PROVE  IInv'
<1>1. UNCHANGED <<tables, mu, op, told>> /\ up = "down" /\ up' = "starting"
  BY DEF Start
<1>2. VarsOK'
  BY DEF Start, IInv, VarsOK, StoreIInv, StoreTypeOK, tables
<1>3. LockInv'
  BY <1>1 DEF IInv, LockInv
<1>4. JobInv'
  BY <1>1, JobKept DEF JobInv, tables
<1>5. UpInv'
  <2>1. up' = "starting" /\ \A p \in Workers : op[p] = Idle
    BY <1>1 DEF IInv, UpInv
  <2>2. \A p \in Workers : op'[p] = Idle
    BY <1>1, <2>1
  <2>3. \A p \in Workers : mu' # p
    BY <1>1, <2>1 DEF IInv, LockInv, Idle
  <2> QED BY ONLY <2>1, <2>2, <2>3 DEF UpInv
<1>6. TxnInv'
  BY <1>1, TxnInvKept DEF IInv, tables, txnTables
<1> QED BY <1>2, <1>3, <1>4, <1>5, <1>6 DEF IInv

-----------------------------------------------------------------------------
(* The invariant and what follows from it. *)

LEMMA StepInv == IInv /\ [Next]_vars => IInv'
<1> SUFFICES ASSUME IInv, [Next]_vars PROVE IInv'
  OBVIOUS
<1>1. StoreIInv'
  <2>1. StoreIInv
    BY DEF IInv
  <2> QED BY <2>1, StoreStep, StoreStepInv
<1>2. CASE UNCHANGED vars
  <2>1. UNCHANGED <<tables, up, mu, handles, op, told>>
    BY <1>2 DEF vars, process
  <2>2. VarsOK'
    BY <1>1, <2>1 DEF IInv, VarsOK, StoreIInv
  <2>3. JobInv'
    BY <2>1, JobKept DEF JobInv, tables
  <2>4. LockInv' /\ UpInv'
    BY <2>1 DEF IInv, LockInv, UpInv, tables
  <2>5. TxnInv'
    BY <2>1, TxnInvKept DEF IInv, tables, txnTables
  <2> QED BY <1>1, <2>2, <2>3, <2>4, <2>5 DEF IInv
<1>3. CASE Next
  <2>1. ASSUME NEW p \in Workers, TxnRequest(p) PROVE IInv'
    BY <1>1, <2>1, BeginInv, CleanupInv, StartPrepareInv, StartAbortInv, StartFinishInv,
       StartRecoverInv DEF TxnRequest
  <2>2. ASSUME NEW p \in Workers, Step(p) PROVE IInv'
    BY <1>1, <2>2, RecordInv, ListPartsInv, TellInv, FinalizeInv, CloseInv, NextTxnInv,
       EndRecoverInv DEF Step
  <2>3. ASSUME Fault PROVE IInv'
    <3>1. ASSUME Crash PROVE IInv'
      BY <1>1, <3>1, StopKept DEF Crash
    <3> QED BY <1>1, <2>3, <3>1, FailInv, LoseCloseInv, LoseReplyInv DEF Fault
  <2> QED BY <1>1, <1>3, <2>1, <2>2, <2>3, RequestInv, SyncHandleInv, StartInv DEF Next
<1> QED BY <1>2, <1>3

\* c.mu is taken by a goroutine, released, or left alone.
LEMMA MutexMoves ==
  ASSUME Next
  PROVE  \/ \E p \in Workers : mu = None /\ mu' = p
         \/ mu' \in {mu, None}
<1>1. ASSUME NEW p \in Workers, ResourceRequest(p) \/ SyncHandle(p)
      PROVE  mu' = mu
  BY <1>1 DEF ResourceRequest, Register, UpdateVote, Unregister, SyncHandle
<1>2. ASSUME NEW p \in Workers, TxnRequest(p)
      PROVE  mu' = mu \/ (mu = None /\ mu' = p)
  BY <1>2 DEF TxnRequest, Begin, Cleanup, StartPrepare, StartAbort, StartFinish, StartRecover,
              Lock, process
<1>3. ASSUME NEW p \in Workers, Step(p)
      PROVE  mu' \in {mu, None}
  BY <1>3 DEF Step, Record, AfterRecord, ListParts, Tell, Finalize, Close, NextTxn, EndRecover,
              Goto, Return
<1>4. ASSUME Fault \/ Start
      PROVE  mu' \in {mu, None}
  BY <1>4 DEF Fault, Fail, LoseClose, LoseReply, Crash, Start, Stop, Return, process
<1> QED BY <1>1, <1>2, <1>3, <1>4 DEF Next

\* The inductive invariant holds in every reachable state.
THEOREM Invariant == Spec => []IInv
BY InitInv, StepInv, PTL DEF Spec

\* The coordinator only uses the store as the store allows, so whatever is
\* proved of the store's specification holds of the running coordinator.
THEOREM ImplementsStore == Spec => StoreSpec
<1>1. Init => StoreInit
  BY DEF Init
<1> QED BY <1>1, Invariant, StoreStep, PTL DEF Spec, StoreSpec

\* Every variable keeps its type.
THEOREM TypeCorrect == Spec => []TypeOK
<1> DEFINE MuOK == mu \in Workers \cup {None}
<1>1. Init => MuOK
  BY DEF Init
<1>2. MuOK /\ [Next]_vars => MuOK'
  <2> SUFFICES ASSUME MuOK, Next PROVE MuOK'
    BY DEF vars, process
  <2>1. \/ \E p \in Workers : mu' = p
        \/ mu' \in {mu, None}
    BY MutexMoves
  <2> QED BY <2>1
<1>3. Spec => []MuOK
  BY <1>1, <1>2, PTL DEF Spec
<1>4. IInv /\ MuOK => TypeOK
  BY DEF IInv, VarsOK, TypeOK
<1> QED BY <1>3, <1>4, Invariant, PTL

\* What the invariant says to clients, participants and the requests themselves.
LEMMA Safety ==
  IInv => /\ OutcomeFollowsDecision /\ CommitRequiresYes /\ ToldMatchesLog
          /\ TerminalIsComplete /\ SnapshotsFresh
<1> SUFFICES ASSUME IInv
             PROVE  /\ OutcomeFollowsDecision /\ CommitRequiresYes /\ ToldMatchesLog
                    /\ TerminalIsComplete /\ SnapshotsFresh
  OBVIOUS
<1>1. OutcomeFollowsDecision /\ ToldMatchesLog
  BY DEF IInv, TxnInv, OutcomeFollowsDecision, ToldMatchesLog
<1>2. CommitRequiresYes
  BY DEF IInv, TxnInv, CommitRequiresYes, Members
<1>3. TerminalIsComplete
  <2> SUFFICES ASSUME NEW t \in Txns, txnState[t] \in Terminal
               PROVE  /\ OpenParts(t) = {}
                      /\ decisions[t] = (IF txnState[t] = "COMMITTED" THEN "commit" ELSE "abort")
    BY DEF TerminalIsComplete
  <2>1. OpenParts(t) = {}
    BY DEF IInv, TxnInv, OpenParts
  <2>2. decisions[t] = LogOf(txnState[t])
    BY DEF IInv, TxnInv
  <2> QED BY <2>1, <2>2 DEF LogOf
<1>4. SnapshotsFresh
  BY DEF IInv, JobInv, JobOK, SnapshotsFresh
<1> QED BY <1>1, <1>2, <1>3, <1>4

\* A participant is only recorded as what its transaction's decision says.
THEOREM Atomicity == Spec => []OutcomeFollowsDecision
BY Safety, Invariant, PTL

\* A commit decision has the yes of every participant on record.
THEOREM UnanimousCommit == Spec => []CommitRequiresYes
BY Safety, Invariant, PTL

\* A participant is only told what the decision log holds.
THEOREM WriteAhead == Spec => []ToldMatchesLog
BY Safety, Invariant, PTL

\* A terminal transaction has only final participants and the state its
\* decision calls for.
THEOREM TerminalComplete == Spec => []TerminalIsComplete
BY Safety, Invariant, PTL

\* What a request read under c.mu is still right when it uses it.
THEOREM FreshSnapshots == Spec => []SnapshotsFresh
BY Safety, Invariant, PTL

-----------------------------------------------------------------------------
(* What a step may do to what others have read. *)

\* The process goes down by stopping, and with it c.mu is gone.
LEMMA GoesDown ==
  ASSUME IInv, Next, up' = "down"
  PROVE  Stop
<1>1. ASSUME NEW p \in Workers, ResourceRequest(p) \/ SyncHandle(p) \/ TxnRequest(p)
      PROVE  FALSE
  BY <1>1 DEF ResourceRequest, Register, UpdateVote, Unregister, SyncHandle, TxnRequest,
              Begin, Cleanup, StartPrepare, StartAbort, StartFinish, StartRecover, process,
              Free, IInv, UpInv, Idle
<1>2. ASSUME NEW p \in Workers, Step(p)
      PROVE  FALSE
  <2>1. op[p].pc \in LockedPCs
    BY <1>2 DEF Step, Record, ListParts, Tell, Finalize, Close, NextTxn, EndRecover
  <2>2. up # "down"
    BY <2>1, Holder
  <2> QED BY <1>2, <2>2 DEF Step, Record, ListParts, Tell, Finalize, Close, NextTxn, EndRecover
<1>3. ASSUME Fault
      PROVE  Stop
  <2>1. ASSUME NEW p \in Workers, Fail(p) PROVE Stop
    <3>1. up # "down"
      BY <2>1, Holder DEF Fail
    <3> QED BY <2>1, <3>1 DEF Fail
  <2>2. ASSUME Crash PROVE Stop
    BY <2>2 DEF Crash
  <2> QED BY <1>3, <2>1, <2>2 DEF Fault, LoseClose, LoseReply, process
<1>4. ASSUME Start PROVE FALSE
  BY <1>4 DEF Start
<1> QED BY <1>1, <1>2, <1>3, <1>4 DEF Next

\* Inside a locked section only its own goroutine gives c.mu up, unless the
\* process goes down.
LEMMA MutexKept ==
  ASSUME IInv, Next, NEW h, h \notin Workers \cup {None}, up' # "down"
  PROVE  mu' = h <=> mu = h
<1>1. ASSUME mu # h PROVE mu' # h
  BY <1>1, MutexMoves
<1>2. ASSUME mu = h PROVE mu' = h
  <2>1. ASSUME NEW p \in Workers, ResourceRequest(p) \/ SyncHandle(p) \/ TxnRequest(p)
        PROVE  mu' = mu
    BY <1>2, <2>1 DEF ResourceRequest, Register, UpdateVote, Unregister, SyncHandle, TxnRequest,
                Begin, Cleanup, StartPrepare, StartAbort, StartFinish, StartRecover, Lock, process
  <2>2. ASSUME NEW p \in Workers, Step(p)
        PROVE  FALSE
    <3>1. op[p].pc \in LockedPCs
      BY <2>2 DEF Step, Record, ListParts, Tell, Finalize, Close, NextTxn, EndRecover
    <3> QED BY <1>2, <3>1, Holder
  <2>3. ASSUME Fault \/ Start
        PROVE  mu' = mu
    <3>1. ASSUME NEW p \in Workers, Fail(p) \/ LoseClose(p) PROVE FALSE
      <4>1. op[p].pc \in LockedPCs
        BY <3>1 DEF Fail, LoseClose
      <4> QED BY <1>2, <4>1, Holder
    <3>2. ~Crash
      BY DEF Crash, Stop
    <3> QED BY <2>3, <3>1, <3>2 DEF Fault, LoseReply, Start, process
  <2> QED BY <1>2, <2>1, <2>2, <2>3 DEF Next
<1> QED BY <1>1, <1>2

\* While a goroutine outside Workers holds c.mu, no transaction moves.
LEMMA Frozen ==
  ASSUME IInv, Next, mu \notin Workers \cup {None}
  PROVE  UNCHANGED txnTables
<1>1. ASSUME NEW p \in Workers, ResourceRequest(p) \/ SyncHandle(p) \/ TxnRequest(p)
      PROVE  UNCHANGED txnTables
  BY <1>1 DEF ResourceRequest, Register, UpdateVote, Unregister, SyncHandle, TxnRequest,
              Begin, Cleanup, StartPrepare, StartAbort, StartFinish, StartRecover, Lock, process,
              RegisterResource, UpdateResourceVote, DeleteResource, tables, txnTables
<1>2. ASSUME NEW p \in Workers, Step(p) \/ Fail(p) \/ LoseClose(p)
      PROVE  FALSE
  <2>1. op[p].pc \in LockedPCs
    BY <1>2 DEF Step, Record, ListParts, Tell, Finalize, Close, NextTxn, EndRecover,
                Fail, LoseClose
  <2> QED BY <2>1, Holder
<1>3. ASSUME NEW r \in Resources, NEW v \in Votes, LoseReply(r, v)
      PROVE  UNCHANGED txnTables
  BY <1>3 DEF LoseReply, RegisterResource, UpdateResourceVote
<1>4. ASSUME Crash \/ Start
      PROVE  UNCHANGED txnTables
  BY <1>4 DEF Crash, Start, tables, txnTables
<1> QED BY <1>1, <1>2, <1>3, <1>4 DEF Next, Fault

\* Only the request that is at work on an unfinished transaction changes its
\* state: by recording the decision or, once decided, the terminal state.
LEMMA WhoMoves ==
  ASSUME IInv, Next, NEW t \in Txns, txnState[t] \in NonTerminal, txnState'[t] # txnState[t]
  PROVE  \E p \in Workers :
           /\ op[p].txn = t
           /\ \/ /\ txnState[t] = "PREPARING" /\ txnState'[t] \in {"COMMITTING", "ABORTING"}
                 /\ op[p].kind \notin {"prepare", "run"} => txnState'[t] = "ABORTING"
              \/ txnState[t] # "PREPARING" /\ txnState'[t] = TerminalOf(txnState[t])
<1> DEFINE Moves(p) ==
      /\ op[p].txn = t
      /\ \/ /\ txnState[t] = "PREPARING" /\ txnState'[t] \in {"COMMITTING", "ABORTING"}
            /\ op[p].kind \notin {"prepare", "run"} => txnState'[t] = "ABORTING"
         \/ txnState[t] # "PREPARING" /\ txnState'[t] = TerminalOf(txnState[t])
<1>0. StoreTypeOK
  BY DEF IInv, StoreIInv
<1>1. ASSUME NEW p \in Workers, ResourceRequest(p) \/ SyncHandle(p) \/ TxnRequest(p)
      PROVE  FALSE
  BY <1>0, <1>1 DEF ResourceRequest, Register, UpdateVote, Unregister, SyncHandle, TxnRequest,
              Begin, Cleanup, StartPrepare, StartAbort, StartFinish, StartRecover,
              RegisterResource, UpdateResourceVote, DeleteResource, BeginTxn, DeleteTxn,
              tables, txnTables, StoreTypeOK
<1>2. ASSUME NEW p \in Workers, Record(p)
      PROVE  Moves(p)
  <2>1. JobOK(op[p])
    BY DEF IInv, JobInv
  <2>2. op[p].txn \in Txns
    BY <1>2, <2>1 DEF Record, JobOK
  <2> DEFINE votes == IF op[p].kind \in {"prepare", "run"} THEN CollectVotes(op[p].txn) ELSE NoVotes
             d == IF op[p].kind \in {"prepare", "run"} THEN DecisionFor(votes) ELSE "abort"
  <2>3. /\ RecordPrepare(op[p].txn, votes, d) /\ d \in Decisions
        /\ op[p].kind \notin {"prepare", "run"} => d = "abort"
    BY <1>2 DEF Record, DecisionFor
  <2> HIDE DEF votes, d
  <2> QED BY <1>0, <2>2, <2>3 DEF RecordPrepare, StoreTypeOK
<1>3. ASSUME NEW p \in Workers, Close(p) \/ LoseClose(p)
      PROVE  Moves(p)
  <2>1. JobOK(op[p])
    BY DEF IInv, JobInv
  <2>2. SetTxnFinalState(op[p].txn, TerminalOf(op[p].state)) /\ op[p].pc = "drive"
    BY <1>3 DEF Close, LoseClose
  <2>3. /\ op[p].txn \in Txns /\ op[p].state = txnState[op[p].txn]
        /\ op[p].state \in {"COMMITTING", "ABORTING"}
    BY <2>1, <2>2 DEF JobOK
  <2>4. /\ txnState' = [txnState EXCEPT ![op[p].txn] = TerminalOf(op[p].state)]
        /\ op[p].txn = t
    BY <1>0, <2>2, <2>3 DEF SetTxnFinalState, StoreTypeOK
  <2> QED BY <1>0, <2>3, <2>4 DEF StoreTypeOK
<1>4. ASSUME NEW p \in Workers, Finalize(p)
      PROVE  FALSE
  BY <1>4 DEF Finalize, FinalizeParticipant, tables
<1>5. ASSUME NEW p \in Workers,
             ListParts(p) \/ (\E r \in Resources : Tell(p, r)) \/ NextTxn(p) \/ EndRecover(p) \/ Fail(p)
      PROVE  FALSE
  BY <1>5 DEF ListParts, Tell, NextTxn, EndRecover, Fail, tables
<1>6. ASSUME Crash \/ Start \/ \E r \in Resources, v \in Votes : LoseReply(r, v)
      PROVE  FALSE
  BY <1>6 DEF Crash, Start, LoseReply, RegisterResource, UpdateResourceVote, tables, txnTables
<1>7. \E p \in Workers : Moves(p)
  <2> HIDE DEF Moves
  <2> QED BY <1>1, <1>2, <1>3, <1>4, <1>5, <1>6 DEF Next, Step, Fault
<1> QED BY <1>7

\* An id gets a row by being begun with one participant at least.
LEMMA Appears ==
  ASSUME IInv, Next, NEW t \in Txns, txnState[t] = Absent, txnState'[t] # Absent
  PROVE  \E rs \in SUBSET Resources : rs # {} /\ BeginTxn(t, rs)
<1>0. StoreTypeOK
  BY DEF IInv, StoreIInv
<1>1. ASSUME NEW p \in Workers, NEW u \in Txns, NEW rs \in SUBSET Resources, Begin(p, u, rs)
      PROVE  u = t /\ rs # {} /\ BeginTxn(u, rs)
  BY <1>0, <1>1 DEF Begin, BeginTxn, StoreTypeOK
<1>2. ASSUME NEW p \in Workers,
             ResourceRequest(p) \/ SyncHandle(p) \/ StartRecover(p)
               \/ \E u \in Txns : StartPrepare(p, u) \/ StartAbort(p, u) \/ StartFinish(p, u)
      PROVE  FALSE
  BY <1>2 DEF ResourceRequest, Register, UpdateVote, Unregister, SyncHandle,
              StartPrepare, StartAbort, StartFinish, StartRecover,
              RegisterResource, UpdateResourceVote, DeleteResource, tables, txnTables
<1>3. ASSUME NEW p \in Workers, NEW u \in Txns, Cleanup(p, u)
      PROVE  FALSE
  BY <1>0, <1>3 DEF Cleanup, DeleteTxn, StoreTypeOK
<1>4. ASSUME NEW p \in Workers, Record(p) \/ Close(p) \/ LoseClose(p)
      PROVE  FALSE
  BY <1>0, <1>4 DEF Record, RecordPrepare, Close, LoseClose, SetTxnFinalState, StoreTypeOK
<1>5. ASSUME NEW p \in Workers, Finalize(p)
      PROVE  FALSE
  BY <1>5 DEF Finalize, FinalizeParticipant, tables
<1>6. ASSUME NEW p \in Workers,
             ListParts(p) \/ (\E r \in Resources : Tell(p, r)) \/ NextTxn(p) \/ EndRecover(p) \/ Fail(p)
      PROVE  FALSE
  BY <1>6 DEF ListParts, Tell, NextTxn, EndRecover, Fail, tables
<1>7. ASSUME Crash \/ Start \/ \E r \in Resources, v \in Votes : LoseReply(r, v)
      PROVE  FALSE
  BY <1>7 DEF Crash, Start, LoseReply, RegisterResource, UpdateResourceVote, tables, txnTables
<1> QED BY <1>1, <1>2, <1>3, <1>4, <1>5, <1>6, <1>7 DEF Next, TxnRequest, Step, Fault

\* A process that is down can only be started again.
LEMMA WakesUp ==
  ASSUME IInv, Next, up = "down"
  PROVE  Start
<1>1. \A p \in Workers : op[p] = Idle
  BY DEF IInv, UpInv
<1>2. ASSUME NEW p \in Workers
      PROVE  ~ResourceRequest(p) /\ ~SyncHandle(p) /\ ~TxnRequest(p)
  BY <1>1 DEF ResourceRequest, Register, UpdateVote, Unregister, SyncHandle, TxnRequest,
              Begin, Cleanup, StartPrepare, StartAbort, StartFinish, StartRecover, Free, Idle
<1>3. ASSUME NEW p \in Workers
      PROVE  ~Step(p) /\ ~Fail(p) /\ ~LoseClose(p)
  <2>1. op[p].pc = "idle"
    BY <1>1 DEF Idle
  <2> QED BY <2>1 DEF Step, Record, ListParts, Tell, Finalize, Close, NextTxn, EndRecover,
                      Fail, LoseClose
<1> QED BY <1>2, <1>3 DEF Next, Fault, LoseReply, Crash

\* What a step means for the rows and the handles of the resources.
Written(p) ==
  \E r \in Resources, v \in Votes \cup {Absent} :
    /\ op[p] = Idle /\ op' = [op EXCEPT ![p] = PendingHandle(r, v)]
    /\ resVote' = [resVote EXCEPT ![r] = v] /\ handles' = handles
Synced(p) ==
  /\ op[p].pc = "handle" /\ op' = [op EXCEPT ![p] = Idle]
  /\ handles' = [handles EXCEPT ![op[p].res] = op[p].vote] /\ resVote' = resVote
ReplyLost ==
  \E r \in Resources, v \in Votes :
    /\ "lost_reply" \in Faults /\ resVote' = [resVote EXCEPT ![r] = v]
    /\ handles' = handles /\ op' = op
ResourcesKept ==
  /\ handles' = handles /\ resVote' = resVote
  /\ \A p \in Workers : op[p].pc = "handle" \/ op'[p].pc = "handle" => op'[p] = op[p]

LEMMA ResourceStep ==
  ASSUME IInv, Next, up # "down", up' # "down"
  PROVE  ResourcesKept \/ ReplyLost \/ \E p \in Workers : Written(p) \/ Synced(p)
<1>0. StoreTypeOK /\ op \in [Workers -> JobType]
  BY DEF IInv, VarsOK
<1>1. ASSUME NEW p \in Workers, ResourceRequest(p)
      PROVE  Written(p)
  BY <1>1 DEF ResourceRequest, Register, UpdateVote, Unregister, Free, Written,
              RegisterResource, UpdateResourceVote, DeleteResource
<1>2. ASSUME NEW p \in Workers, SyncHandle(p)
      PROVE  Synced(p)
  BY <1>2 DEF SyncHandle, Synced, tables
<1>3. ASSUME NEW p \in Workers, NEW j,
             op' = [op EXCEPT ![p] = j], op[p].pc # "handle", j.pc # "handle",
             handles' = handles, resVote' = resVote
      PROVE  ResourcesKept
  <2>1. op'[p] = j /\ \A q \in Workers : q # p => op'[q] = op[q]
    BY <1>0, <1>3
  <2> QED BY <1>3, <2>1 DEF ResourcesKept
<1>4. \A k, pc, t, s, left, todo, r : Job(k, pc, t, s, left, todo, r).pc = pc
  BY DEF Job
<1>5. ASSUME NEW p \in Workers, TxnRequest(p)
      PROVE  ResourcesKept
  <2>1. ASSUME NEW t \in Txns, NEW rs \in SUBSET Resources, Begin(p, t, rs) \/ Cleanup(p, t)
        PROVE  ResourcesKept
    BY <2>1 DEF Begin, Cleanup, BeginTxn, DeleteTxn, resTable, process, ResourcesKept
  <2>2. ASSUME NEW j, Lock(p, j), UNCHANGED <<tables, handles>>, op[p] = Idle, j.pc # "handle"
        PROVE  ResourcesKept
    <3>1. op[p].pc # "handle"
      BY <2>2 DEF Idle
    <3>2. op' = [op EXCEPT ![p] = j] /\ handles' = handles /\ resVote' = resVote
      BY <2>2 DEF Lock, tables
    <3> QED BY <1>3, <2>2, <3>1, <3>2
  <2>3. ASSUME NEW t \in Txns, StartPrepare(p, t)
        PROVE  ResourcesKept
    BY <1>4, <2>2, <2>3 DEF StartPrepare, Free
  <2>4. ASSUME NEW t \in Txns, StartAbort(p, t)
        PROVE  ResourcesKept
    BY <1>4, <2>2, <2>4 DEF StartAbort, Free
  <2>5. ASSUME NEW t \in Txns, StartFinish(p, t)
        PROVE  ResourcesKept
    BY <1>4, <2>2, <2>5 DEF StartFinish, Free
  <2>6. ASSUME StartRecover(p)
        PROVE  ResourcesKept
    BY <1>4, <2>2, <2>6 DEF StartRecover
  <2> QED BY <1>5, <2>1, <2>3, <2>4, <2>5, <2>6 DEF TxnRequest
<1>6. ASSUME NEW p \in Workers, Step(p) \/ LoseClose(p) \/ (Fail(p) /\ ~Stop)
      PROVE  ResourcesKept
  <2>1. op[p].pc # "handle"
    BY <1>6 DEF Step, Record, ListParts, Tell, Finalize, Close, NextTxn, EndRecover, Fail, LoseClose
  <2>2. handles' = handles /\ resVote' = resVote
    BY <1>6 DEF Step, Record, ListParts, Tell, Finalize, Close, NextTxn, EndRecover, Fail, LoseClose,
                RecordPrepare, FinalizeParticipant, SetTxnFinalState, resTable, tables
  <2>3. \E j : op' = [op EXCEPT ![p] = j] /\ j.pc # "handle"
    <3>1. ASSUME NEW j, Goto(p, j), j.pc # "handle"
          PROVE  \E i : op' = [op EXCEPT ![p] = i] /\ i.pc # "handle"
      BY <3>1 DEF Goto
    <3>2. ASSUME Return(p)
          PROVE  \E i : op' = [op EXCEPT ![p] = i] /\ i.pc # "handle"
      <4>1. op' = [op EXCEPT ![p] = Idle]
        BY <3>2 DEF Return
      <4>2. Idle.pc # "handle"
        BY DEF Idle
      <4> QED BY <4>1, <4>2
    <3>3. CASE Record(p)
      <4>1. PICK d : AfterRecord(p, d)
        BY <3>3 DEF Record
      <4>2. CASE op[p].kind = "prepare"
        BY <3>2, <4>1, <4>2 DEF AfterRecord
      <4>3. CASE op[p].kind = "abort"
        <5>1. Goto(p, Job("abort", "drive", op[p].txn, StateOf(d), op[p].left, {}, None))
          BY <4>1, <4>3 DEF AfterRecord
        <5> QED BY <1>4, <3>1, <5>1
      <4>4. CASE op[p].kind \notin {"prepare", "abort"}
        <5>1. Goto(p, Job(op[p].kind, "list", op[p].txn, StateOf(d), {}, op[p].todo, None))
          BY <4>1, <4>4 DEF AfterRecord
        <5> QED BY <1>4, <3>1, <5>1
      <4> QED BY <4>2, <4>3, <4>4
    <3>4. CASE ListParts(p)
      BY <1>4, <3>1, <3>4 DEF ListParts
    <3>5. CASE \E r \in Resources : Tell(p, r)
      BY <1>4, <3>1, <3>5 DEF Tell
    <3>6. CASE Finalize(p)
      BY <1>4, <3>1, <3>6 DEF Finalize
    <3>7. CASE Close(p)
      BY <1>4, <3>1, <3>2, <3>7 DEF Close
    <3>8. CASE NextTxn(p)
      <4>1. PICK pc \in {"record", "list"} :
              \E t, s, todo : Goto(p, Job("recover", pc, t, s, {}, todo, None))
        BY <3>8 DEF NextTxn
      <4> QED BY <1>4, <3>1, <4>1
    <3>9. CASE EndRecover(p) \/ LoseClose(p) \/ (Fail(p) /\ ~Stop)
      BY <3>2, <3>9 DEF EndRecover, LoseClose, Fail
    <3> QED BY <1>6, <3>3, <3>4, <3>5, <3>6, <3>7, <3>8, <3>9 DEF Step
  <2> QED BY <1>3, <2>1, <2>2, <2>3
<1>7. ASSUME NEW r \in Resources, NEW v \in Votes, LoseReply(r, v)
      PROVE  ReplyLost
  BY <1>7 DEF LoseReply, RegisterResource, UpdateResourceVote, process, ReplyLost
<1>8. ~Stop /\ ~Crash /\ ~Start
  BY DEF Stop, Crash, Start
<1> QED BY <1>1, <1>2, <1>5, <1>6, <1>7, <1>8 DEF Next, Fault

-----------------------------------------------------------------------------
(* The handles. *)

\* A handle that is not the row's is about to be set, and set to the row's vote.
HandleSetNext ==
  up # "down" =>
    /\ \A p \in Workers : op[p].pc = "handle" => op[p].vote = resVote[op[p].res]
    /\ \A r \in Resources :
         handles[r] # resVote[r] => \E p \in Workers : op[p].pc = "handle" /\ op[p].res = r

\* With requests that come one at a time and no lost reply the handles follow the
\* rows through failures and crashes.  The run handles_race shows that a
\* second goroutine is enough to break this.
THEOREM HandlesFollowAlone ==
  ASSUME NEW w, Workers = {w}, "lost_reply" \notin Faults
  PROVE  Spec => []HandlesInSync
<1>1. Init => HandleSetNext
  BY DEF Init, HandleSetNext, Idle
<1>2. IInv /\ HandleSetNext /\ [Next]_vars => HandleSetNext'
  <2> SUFFICES ASSUME IInv, HandleSetNext, Next, up' # "down" PROVE HandleSetNext'
    BY DEF vars, process, tables, HandleSetNext
  <2>0. /\ resVote \in [Resources -> Votes \cup {Absent}]
        /\ handles \in [Resources -> Votes \cup {Absent}]
        /\ op \in [Workers -> JobType]
    BY DEF IInv, StoreIInv, StoreTypeOK, VarsOK
  <2>1. CASE up = "down"
    <3>1. Start /\ \A p \in Workers : op[p] = Idle
      BY <2>1, WakesUp DEF IInv, UpInv
    <3> QED BY <3>1 DEF Start, HandleSetNext, tables, Idle
  <2>2. CASE up # "down" /\ ResourcesKept
    BY <2>2 DEF ResourcesKept, HandleSetNext
  <2>3. CASE up # "down" /\ Written(w)
    <3>1. PICK r \in Resources, v \in Votes \cup {Absent} :
            /\ op[w] = Idle /\ op' = [op EXCEPT ![w] = PendingHandle(r, v)]
            /\ resVote' = [resVote EXCEPT ![r] = v] /\ handles' = handles
      BY <2>3 DEF Written
    <3>2. \A q \in Resources : handles[q] = resVote[q]
      BY <2>3, <3>1 DEF HandleSetNext, Idle
    <3>3. op'[w].pc = "handle" /\ op'[w].res = r /\ op'[w].vote = v
      BY <2>0, <3>1 DEF PendingHandle
    <3>4. resVote'[r] = v /\ \A q \in Resources : q # r => resVote'[q] = resVote[q]
      BY <2>0, <3>1
    <3> QED BY <3>1, <3>2, <3>3, <3>4 DEF HandleSetNext
  <2>4. CASE up # "down" /\ Synced(w)
    <3>1. /\ op[w].pc = "handle" /\ resVote' = resVote
          /\ handles' = [handles EXCEPT ![op[w].res] = op[w].vote]
      BY <2>4 DEF Synced
    <3>2. ASSUME NEW r \in Resources PROVE handles'[r] = resVote[r]
      <4>1. /\ op[w].vote = resVote[op[w].res]
            /\ handles[r] = resVote[r] \/ op[w].res = r
        BY <2>4, <3>1 DEF HandleSetNext
      <4>2. handles'[r] = IF r = op[w].res THEN op[w].vote ELSE handles[r]
        BY <2>0, <3>1
      <4> QED BY <3>1, <4>1, <4>2
    <3>3. op'[w].pc = "idle"
      BY <2>0, <2>4 DEF Synced, Idle
    <3> QED BY <3>1, <3>2, <3>3 DEF HandleSetNext
  <2> QED BY <2>1, <2>2, <2>3, <2>4, ResourceStep DEF ReplyLost
<1>3. IInv /\ HandleSetNext => HandlesInSync
  BY DEF IInv, StoreIInv, StoreTypeOK, VarsOK, HandleSetNext, HandlesInSync
<1> QED BY <1>1, <1>2, <1>3, Invariant, PTL DEF Spec

-----------------------------------------------------------------------------
(* The calls of phase 2. *)

\* A commit is recorded, or about to be, only after the participant was told.
TellsFirst(p) ==
  /\ CommittedImpliesTold
  /\ op[p].pc = "finalize" /\ op[p].state = "COMMITTING" =>
       "commit" \in told[op[p].txn][op[p].res]

\* Most steps neither record an outcome nor make a call.
LEMMA TellsFirstKept ==
  ASSUME NEW p \in Workers, TellsFirst(p), UNCHANGED <<partFinal, told>>,
         op'[p] = op[p] \/ op'[p].pc # "finalize"
  PROVE  TellsFirst(p)'
BY DEF TellsFirst, CommittedImpliesTold

LEMMA TellKept ==
  ASSUME IInv, HandlesInSync, NEW p \in Workers, Workers = {p}, TellsFirst(p),
         NEW r \in Resources, Tell(p, r)
  PROVE  TellsFirst(p)'
<1>1. op[p].pc = "drive" /\ op[p].pc \in LockedPCs /\ r \in op[p].left /\ UNCHANGED partFinal
  BY DEF Tell, tables
<1>2. PICK t \in Txns, s \in {"COMMITTING", "ABORTING"} :
        /\ t = op[p].txn /\ s = op[p].state /\ txnState[t] = s /\ partFinal[t][r] = NULL
  BY <1>1, Holder DEF JobOK, OpenParts
<1>3. resVote[r] # Absent
  BY <1>2 DEF IInv, StoreIInv, ActiveResourcesRegistered, ActiveTxns, Members
<1>4. handles[r] # Absent
  BY <1>1, <1>3, Holder DEF HandlesInSync
<1>5. /\ told' = [told EXCEPT ![t][r] = @ \cup {CallOf(s)}]
      /\ op'[p] = Job(op[p].kind, "finalize", t, s, op[p].left, op[p].todo, r)
  BY <1>2, <1>4 DEF Tell, Goto, IInv, VarsOK
<1>6. op'[p].txn = t /\ op'[p].state = s /\ op'[p].res = r
  BY <1>5 DEF Job
<1>7. \A u \in Txns, q \in Resources : told[u][q] \subseteq told'[u][q]
  BY <1>5 DEF IInv, VarsOK
<1>8. s = "COMMITTING" => "commit" \in told'[t][r]
  BY <1>5 DEF CallOf, IInv, VarsOK
<1> QED BY <1>1, <1>6, <1>7, <1>8 DEF TellsFirst, CommittedImpliesTold

LEMMA FinalizeTold ==
  ASSUME IInv, NEW p \in Workers, TellsFirst(p), Finalize(p)
  PROVE  TellsFirst(p)'
<1>1. /\ op[p].pc = "finalize" /\ op[p].pc \in LockedPCs /\ told' = told
      /\ FinalizeParticipant(op[p].txn, op[p].res, FinalOf(op[p].state))
  BY DEF Finalize
<1>2. PICK t \in Txns, r \in Resources :
        t = op[p].txn /\ r = op[p].res /\ partFinal[t][r] = NULL
  BY <1>1, Holder DEF JobOK, OpenParts
<1>3. partFinal' = [partFinal EXCEPT ![t][r] = FinalOf(op[p].state)]
  BY <1>1, <1>2 DEF FinalizeParticipant
<1>4. op[p].state \in {"COMMITTING", "ABORTING"}
  BY <1>1, Holder DEF JobOK
<1>5. op'[p].pc = "drive"
  BY DEF Finalize, Goto, Job, IInv, VarsOK
<1>6. ASSUME NEW u \in Txns, NEW q \in Resources, partFinal'[u][q] = "committed"
      PROVE  "commit" \in told[u][q]
  <2>1. CASE u = t /\ q = r
    <3>1. partFinal'[t][r] = FinalOf(op[p].state)
      BY <1>3 DEF IInv, StoreIInv, StoreTypeOK
    <3>2. op[p].state = "COMMITTING"
      BY <1>4, <1>6, <2>1, <3>1 DEF FinalOf
    <3> QED BY <1>1, <1>2, <2>1, <3>2 DEF TellsFirst
  <2>2. CASE ~(u = t /\ q = r)
    <3>1. partFinal'[u][q] = partFinal[u][q]
      BY <1>3, <2>2 DEF IInv, StoreIInv, StoreTypeOK
    <3> QED BY <1>6, <3>1 DEF TellsFirst, CommittedImpliesTold
  <2> QED BY <2>1, <2>2
<1> QED BY <1>1, <1>5, <1>6 DEF TellsFirst, CommittedImpliesTold

\* With requests that come one at a time and no lost reply every participant that
\* is recorded as committed was told to commit, through failures and crashes: what
\* the package comment says of phase 2.  The run committed_untold shows that
\* a second goroutine is enough to break this.
THEOREM ToldAlone ==
  ASSUME NEW w, Workers = {w}, "lost_reply" \notin Faults
  PROVE  Spec => []CommittedImpliesTold
<1>1. Init => TellsFirst(w)
  BY DEF Init, StoreInit, TellsFirst, CommittedImpliesTold, Idle
<1>2. IInv /\ HandlesInSync /\ TellsFirst(w) /\ [Next]_vars => TellsFirst(w)'
  <2> SUFFICES ASSUME IInv, HandlesInSync, TellsFirst(w), Next PROVE TellsFirst(w)'
    BY DEF vars, process, tables, TellsFirst, CommittedImpliesTold
  <2>0. w \in Workers /\ op \in [Workers -> JobType] /\ StoreTypeOK
    BY DEF IInv, VarsOK
  <2>1. ASSUME NEW j, op' = [op EXCEPT ![w] = j], j.pc # "finalize",
               UNCHANGED <<partFinal, told>>
        PROVE  TellsFirst(w)'
    BY <2>0, <2>1, TellsFirstKept
  <2>2. ASSUME op' = op, UNCHANGED <<partFinal, told>>
        PROVE  TellsFirst(w)'
    BY <2>0, <2>2, TellsFirstKept
  <2>3. Idle.pc # "finalize" /\ \A r, v : PendingHandle(r, v).pc # "finalize"
    BY DEF Idle, PendingHandle
  <2>4. \A k, pc, t, s, left, todo, r : Job(k, pc, t, s, left, todo, r).pc = pc
    BY DEF Job
  <2>5. CASE ResourceRequest(w) \/ SyncHandle(w)
    <3>1. UNCHANGED <<partFinal, told>>
      BY <2>5 DEF ResourceRequest, Register, UpdateVote, Unregister, SyncHandle,
                  RegisterResource, UpdateResourceVote, DeleteResource, tables, txnTables
    <3>2. \E j : op' = [op EXCEPT ![w] = j] /\ j.pc # "finalize"
      BY <2>3, <2>5 DEF ResourceRequest, Register, UpdateVote, Unregister, SyncHandle
    <3> QED BY <2>1, <3>1, <3>2
  <2>6. CASE TxnRequest(w)
    <3>1. ASSUME NEW t \in Txns, NEW rs \in SUBSET Resources, Begin(w, t, rs)
          PROVE  TellsFirst(w)'
      <4>1. op' = op /\ told' = told
        BY <3>1 DEF Begin, process
      <4>2. \A u \in Txns, q \in Resources :
              partFinal'[u][q] = "committed" => partFinal[u][q] = "committed"
        BY <2>0, <3>1 DEF Begin, BeginTxn, StoreTypeOK
      <4> QED BY <4>1, <4>2 DEF TellsFirst, CommittedImpliesTold
    <3>2. ASSUME NEW t \in Txns, Cleanup(w, t)
          PROVE  TellsFirst(w)'
      <4>1. op' = op /\ op[w].pc # "finalize"
        BY <2>3, <3>2 DEF Cleanup, process, Free
      <4>2. \A u \in Txns, q \in Resources :
              partFinal'[u][q] = "committed" => u # t /\ partFinal[u][q] = "committed"
        BY <2>0, <3>2 DEF Cleanup, DeleteTxn, StoreTypeOK
      <4>3. \A u \in Txns : u # t => told'[u] = told[u]
        BY <3>2 DEF Cleanup, IInv, VarsOK
      <4> QED BY <4>1, <4>2, <4>3 DEF TellsFirst, CommittedImpliesTold
    <3>3. ASSUME NEW j, Lock(w, j), j.pc # "finalize", UNCHANGED <<tables, told>>
          PROVE  TellsFirst(w)'
      BY <2>1, <3>3 DEF Lock, tables
    <3>4. ASSUME NEW t \in Txns, StartPrepare(w, t) \/ StartAbort(w, t) \/ StartFinish(w, t)
          PROVE  TellsFirst(w)'
      BY <2>4, <3>3, <3>4 DEF StartPrepare, StartAbort, StartFinish
    <3>5. CASE StartRecover(w)
      BY <2>4, <3>3, <3>5 DEF StartRecover
    <3> QED BY <2>6, <3>1, <3>2, <3>4, <3>5 DEF TxnRequest
  <2>7. ASSUME NEW j, Goto(w, j), j.pc # "finalize", UNCHANGED <<partFinal, told>>
        PROVE  TellsFirst(w)'
    BY <2>1, <2>7 DEF Goto
  <2>8. ASSUME Return(w), UNCHANGED <<partFinal, told>>
        PROVE  TellsFirst(w)'
    BY <2>1, <2>3, <2>8 DEF Return
  <2>9. CASE Record(w)
    <3>1. PICK d : AfterRecord(w, d)
      BY <2>9 DEF Record
    <3>2. UNCHANGED <<partFinal, told>>
      BY <2>9 DEF Record, RecordPrepare
    <3>3. CASE op[w].kind = "prepare"
      BY <2>8, <3>1, <3>2, <3>3 DEF AfterRecord
    <3>4. CASE op[w].kind = "abort"
      <4>1. Goto(w, Job("abort", "drive", op[w].txn, StateOf(d), op[w].left, {}, None))
        BY <3>1, <3>4 DEF AfterRecord
      <4> QED BY <2>4, <2>7, <3>2, <4>1
    <3>5. CASE op[w].kind \notin {"prepare", "abort"}
      <4>1. Goto(w, Job(op[w].kind, "list", op[w].txn, StateOf(d), {}, op[w].todo, None))
        BY <3>1, <3>5 DEF AfterRecord
      <4> QED BY <2>4, <2>7, <3>2, <4>1
    <3> QED BY <3>3, <3>4, <3>5
  <2>10. CASE ListParts(w)
    BY <2>4, <2>7, <2>10 DEF ListParts, tables
  <2>11. CASE Close(w)
    <3>1. UNCHANGED <<partFinal, told>>
      BY <2>11 DEF Close, SetTxnFinalState
    <3> QED BY <2>4, <2>7, <2>8, <2>11, <3>1 DEF Close
  <2>12. CASE NextTxn(w)
    <3>1. PICK e \in op[w].todo, pc \in {"record", "list"} :
            Goto(w, Job("recover", pc, e[1], e[2], {}, op[w].todo \ {e}, None))
      BY <2>12 DEF NextTxn
    <3> QED BY <2>4, <2>7, <2>12, <3>1 DEF NextTxn, tables
  <2>13. CASE EndRecover(w)
    BY <2>8, <2>13 DEF EndRecover, tables
  <2>14. CASE Fail(w) \/ LoseClose(w)
    <3>1. UNCHANGED <<partFinal, told>>
      BY <2>14 DEF Fail, LoseClose, SetTxnFinalState, tables
    <3>2. op'[w] = Idle
      BY <2>0, <2>14 DEF Fail, LoseClose, Return, Stop
    <3> QED BY <2>0, <2>3, <3>1, <3>2, TellsFirstKept
  <2>15. CASE Crash \/ Start \/ \E r \in Resources, v \in Votes : LoseReply(r, v)
    <3>1. UNCHANGED <<partFinal, told>>
      BY <2>15 DEF Crash, Start, LoseReply, RegisterResource, UpdateResourceVote, tables, txnTables
    <3>2. op'[w] = Idle \/ op'[w] = op[w]
      BY <2>0, <2>15 DEF Crash, Start, LoseReply, Stop, process
    <3> QED BY <2>0, <2>3, <3>1, <3>2, TellsFirstKept
  <2> QED BY <2>0, <2>5, <2>6, <2>9, <2>10, <2>11, <2>12, <2>13, <2>14, <2>15, TellKept, FinalizeTold
          DEF Next, Step, Fault
<1>3. TellsFirst(w) => CommittedImpliesTold
  BY DEF TellsFirst
<1> QED BY <1>1, <1>2, <1>3, Invariant, HandlesFollowAlone, PTL DEF Spec

-----------------------------------------------------------------------------
(* The listener opens only when no transaction is left unfinished. *)

LEMMA ServeStep ==
  ASSUME IInv, [Next]_vars, up # "serving", up' = "serving", NEW t \in Txns
  PROVE  txnState[t] \notin NonTerminal
<1>1. Next
  BY DEF vars, process
<1>2. PICK p \in Workers : EndRecover(p)
  <2>1. ASSUME NEW p \in Workers, ResourceRequest(p) \/ SyncHandle(p) \/ TxnRequest(p)
        PROVE  up' = up
    BY <2>1 DEF ResourceRequest, Register, UpdateVote, Unregister, SyncHandle, TxnRequest,
                Begin, Cleanup, StartPrepare, StartAbort, StartFinish, StartRecover, process
  <2>2. ASSUME NEW p \in Workers, Step(p), ~EndRecover(p)
        PROVE  up' = up
    BY <2>2 DEF Step, Record, ListParts, Tell, Finalize, Close, NextTxn
  <2>3. ASSUME Fault \/ Start
        PROVE  up' = up \/ up' # "serving"
    BY <2>3 DEF Fault, Fail, LoseClose, LoseReply, Crash, Stop, Start, process
  <2> QED BY <1>1, <2>1, <2>2, <2>3 DEF Next
<1>3. /\ op[p].pc = "next" /\ op[p].pc \in LockedPCs /\ op[p].todo = {}
  BY <1>2 DEF EndRecover
<1>4. mu = p /\ up = "starting"
  BY <1>3, Holder DEF IInv, VarsOK
<1> QED BY <1>3, <1>4 DEF IInv, UpInv

THEOREM RecoveredFirst == Spec => ServeAfterRecovery
<1>1. IInv /\ [Next]_vars =>
        [up # "serving" /\ up' = "serving" => \A t \in Txns : txnState[t] \notin NonTerminal]_vars
  BY ServeStep
<1> QED BY <1>1, Invariant, PTL DEF Spec, ServeAfterRecovery

-----------------------------------------------------------------------------
(* A locked section ends: the part of that which is safety.  The rest,     *)
(* that under fair scheduling c.mu is given back, is checked by TLC.       *)

LEMMA CallsAccepted == IInv => HolderGoesOn
<1> SUFFICES ASSUME IInv, NEW p \in Workers, mu = p
             PROVE  op[p].pc \in LockedPCs /\ CallAccepted(op[p])
  BY DEF HolderGoesOn
<1>1. op[p].pc \in LockedPCs /\ JobOK(op[p])
  BY DEF IInv, LockInv, JobInv
<1>2. ASSUME op[p].pc = "record"
      PROVE  txnState[op[p].txn] = "PREPARING" /\ decisions[op[p].txn] = NULL
  BY <1>1, <1>2 DEF JobOK, IInv, TxnInv, LogOf
<1>3. ASSUME op[p].pc = "finalize"
      PROVE  partFinal[op[p].txn][op[p].res] = NULL
  BY <1>1, <1>3 DEF JobOK, OpenParts
<1>4. ASSUME op[p].pc = "drive"
      PROVE  txnState[op[p].txn] # Absent
  BY <1>1, <1>4 DEF JobOK
<1> QED BY <1>1, <1>2, <1>3, <1>4 DEF CallAccepted

\* No store call made with c.mu held is refused for what the tables contain: who
\* holds it, whatever shares the store with it, can always take its next step.
THEOREM NeverRefused == Spec => []HolderGoesOn
BY CallsAccepted, Invariant, PTL

\* How far a locked section is from its end: the transactions of Recover's list, the
\* part of the protocol it is in, and the calls left in phase 2.
Stage(o) ==
  IF o.pc = "record" THEN 3 ELSE IF o.pc = "list" THEN 2
  ELSE IF o.pc \in {"drive", "finalize"} THEN 1 ELSE 0
CallsLeft(o) == 2 * Cardinality(o.left) + (IF o.pc = "drive" THEN 1 ELSE 0)

Closer(o, n) ==
  \/ Cardinality(n.todo) < Cardinality(o.todo)
  \/ n.todo = o.todo /\ Stage(n) < Stage(o)
  \/ n.todo = o.todo /\ Stage(n) = 1 /\ Stage(o) = 1 /\ CallsLeft(n) < CallsLeft(o)

\* The lists a locked section works through are finite.
FiniteJob(o) ==
  /\ IsFiniteSet(o.todo) /\ Cardinality(o.todo) \in Nat
  /\ Stage(o) = 1 => IsFiniteSet(o.left) /\ CallsLeft(o) \in Nat

LEMMA OpenPartsFinite ==
  ASSUME FiniteRows, NEW t \in Txns
  PROVE  IsFiniteSet(OpenParts(t))
<1> DEFINE row == [r \in OpenParts(t) |-> <<t, r>>]
<1>1. row \in [OpenParts(t) -> KnownParts]
  BY DEF OpenParts, KnownParts
<1>2. \A q, r \in OpenParts(t) : row[q] = row[r] => q = r
  OBVIOUS
<1> HIDE DEF row
<1>3. row \in Injection(OpenParts(t), KnownParts)
  BY <1>1, <1>2 DEF Injection, IsInjective
<1> QED BY <1>3, FS_Injection DEF FiniteRows

LEMMA TodoFinite ==
  ASSUME IInv, FiniteRows, NEW p \in Workers, op[p].pc \in LockedPCs
  PROVE  IsFiniteSet(op[p].todo)
<1> DEFINE id == [e \in op[p].todo |-> e[1]]
<1>1. op[p].todo \in SUBSET (Txns \X NonTerminal) /\ JobOK(op[p])
  BY Holder
<1>2. \A e \in op[p].todo : e = <<e[1], txnState[e[1]]>> /\ e[1] \in KnownTxns
  BY <1>1 DEF JobOK, KnownTxns
<1>3. id \in [op[p].todo -> KnownTxns]
  BY <1>2
<1>4. \A e, f \in op[p].todo : id[e] = id[f] => e = f
  BY <1>2
<1> HIDE DEF id
<1>5. id \in Injection(op[p].todo, KnownTxns)
  BY <1>3, <1>4 DEF Injection, IsInjective
<1> QED BY <1>5, FS_Injection DEF FiniteRows

LEMMA JobFinite ==
  ASSUME IInv, FiniteRows, NEW p \in Workers, op[p].pc \in LockedPCs
  PROVE  FiniteJob(op[p])
<1>1. IsFiniteSet(op[p].todo)
  BY TodoFinite
<1>2. ASSUME Stage(op[p]) = 1
      PROVE  IsFiniteSet(op[p].left)
  <2>1. op[p].txn \in Txns /\ op[p].left = OpenParts(op[p].txn)
    BY <1>2, Holder DEF Stage, JobOK
  <2> QED BY <2>1, OpenPartsFinite
<1> QED BY <1>1, <1>2, FS_CardinalityType DEF FiniteJob, CallsLeft

\* The holder's locals are changed by its own steps and by what ends its request.
LEMMA OnlyHolder ==
  ASSUME IInv, Next, NEW p \in Workers, op[p].pc \in LockedPCs, op'[p] # op[p]
  PROVE  Step(p) \/ op'[p] = Idle
<1>0. op \in [Workers -> JobType] /\ op[p].pc # "handle" /\ op[p] # Idle
  BY DEF IInv, VarsOK, Idle
<1>1. ASSUME NEW q \in Workers, NEW j, op' = [op EXCEPT ![q] = j]
      PROVE  q = p
  BY <1>0, <1>1
<1>2. ASSUME NEW q \in Workers, ResourceRequest(q) \/ SyncHandle(q)
      PROVE  FALSE
  <2>1. PICK j : op' = [op EXCEPT ![q] = j] /\ (op[q] = Idle \/ op[q].pc = "handle")
    BY <1>2 DEF ResourceRequest, Register, UpdateVote, Unregister, SyncHandle, Free
  <2> QED BY <1>0, <1>1, <2>1
<1>3. ASSUME NEW q \in Workers, TxnRequest(q)
      PROVE  FALSE
  <2>1. ASSUME NEW t \in Txns, NEW rs \in SUBSET Resources, Begin(q, t, rs) \/ Cleanup(q, t)
        PROVE  FALSE
    BY <2>1 DEF Begin, Cleanup, process
  <2>2. ASSUME NEW j, Lock(q, j), op[q] = Idle
        PROVE  FALSE
    BY <1>0, <1>1, <2>2 DEF Lock
  <2> QED BY <1>3, <2>1, <2>2 DEF TxnRequest, StartPrepare, StartAbort, StartFinish, StartRecover, Free
<1>4. ASSUME NEW q \in Workers, Step(q)
      PROVE  q = p
  <2>1. op[q].pc \in LockedPCs
    BY <1>4 DEF Step, Record, ListParts, Tell, Finalize, Close, NextTxn, EndRecover
  <2> QED BY <2>1, Holder
<1>5. ASSUME NEW q \in Workers, Fail(q) \/ LoseClose(q)
      PROVE  op'[p] = Idle
  <2>1. op[q].pc \in LockedPCs
    BY <1>5 DEF Fail, LoseClose
  <2>2. q = p
    BY <2>1, Holder
  <2> QED BY <1>0, <1>5, <2>2 DEF Fail, LoseClose, Stop, Return
<1>6. ASSUME Crash
      PROVE  op'[p] = Idle
  BY <1>6 DEF Crash, Stop
<1>7. ASSUME Start \/ \E r \in Resources, v \in Votes : LoseReply(r, v)
      PROVE  FALSE
  BY <1>7 DEF Start, LoseReply, process
<1> QED BY <1>2, <1>3, <1>4, <1>5, <1>6, <1>7 DEF Next, Fault

LEMMA StepCloser ==
  ASSUME IInv, FiniteRows, NEW p \in Workers, Step(p)
  PROVE  op'[p] = Idle \/ Closer(op[p], op'[p])
<1>0. op[p].pc \in LockedPCs
  BY DEF Step, Record, ListParts, Tell, Finalize, Close, NextTxn, EndRecover
<1>1. FiniteJob(op[p]) /\ JobOK(op[p])
  BY <1>0, JobFinite, Holder
<1>2. ASSUME NEW j, Goto(p, j)
      PROVE  op'[p] = j
  BY <1>2 DEF Goto, IInv, VarsOK
<1>3. ASSUME Return(p)
      PROVE  op'[p] = Idle
  BY <1>3 DEF Return, IInv, VarsOK
<1>4. \A k, pc, t, s, left, todo, r :
        /\ Job(k, pc, t, s, left, todo, r).pc = pc
        /\ Job(k, pc, t, s, left, todo, r).left = left
        /\ Job(k, pc, t, s, left, todo, r).todo = todo
  BY DEF Job
<1>5. \A T : IsFiniteSet(T) /\ T # {} => Cardinality({}) < Cardinality(T)
  BY FS_EmptySet, FS_CardinalityType
<1>6. CASE Record(p)
  <2>1. PICK d : op[p].pc = "record" /\ AfterRecord(p, d)
    BY <1>6 DEF Record
  <2>2. CASE op[p].kind = "prepare"
    BY <1>3, <2>1, <2>2 DEF AfterRecord
  <2>3. CASE op[p].kind = "abort"
    <3>1. Goto(p, Job("abort", "drive", op[p].txn, StateOf(d), op[p].left, {}, None))
      BY <2>1, <2>3 DEF AfterRecord
    <3>2. op'[p].pc = "drive" /\ op'[p].todo = {}
      BY <1>2, <1>4, <3>1
    <3> QED BY <1>1, <1>5, <2>1, <3>2 DEF Closer, Stage, FiniteJob
  <2>4. CASE op[p].kind \notin {"prepare", "abort"}
    <3>1. Goto(p, Job(op[p].kind, "list", op[p].txn, StateOf(d), {}, op[p].todo, None))
      BY <2>1, <2>4 DEF AfterRecord
    <3>2. op'[p].pc = "list" /\ op'[p].todo = op[p].todo
      BY <1>2, <1>4, <3>1
    <3> QED BY <2>1, <3>2 DEF Closer, Stage
  <2> QED BY <2>2, <2>3, <2>4
<1>7. CASE ListParts(p)
  <2>1. op[p].pc = "list" /\ op'[p].pc = "drive" /\ op'[p].todo = op[p].todo
    BY <1>2, <1>4, <1>7 DEF ListParts
  <2> QED BY <2>1 DEF Closer, Stage
<1>8. ASSUME NEW r \in Resources, Tell(p, r)
      PROVE  Closer(op[p], op'[p])
  <2>1. /\ op[p].pc = "drive" /\ op'[p].pc = "finalize"
        /\ op'[p].todo = op[p].todo /\ op'[p].left = op[p].left
    BY <1>2, <1>4, <1>8 DEF Tell
  <2>2. IsFiniteSet(op[p].left)
    BY <1>1, <2>1 DEF FiniteJob, Stage
  <2>3. Cardinality(op[p].left) \in Nat
    BY <2>2, FS_CardinalityType
  <2>4. CallsLeft(op'[p]) < CallsLeft(op[p])
    BY <2>1, <2>3 DEF CallsLeft
  <2> QED BY <2>1, <2>4 DEF Closer, Stage
<1>9. CASE Finalize(p)
  <2>1. /\ op[p].pc = "finalize" /\ op'[p].pc = "drive"
        /\ op'[p].todo = op[p].todo /\ op'[p].left = op[p].left \ {op[p].res}
    BY <1>2, <1>4, <1>9 DEF Finalize
  <2>2. IsFiniteSet(op[p].left) /\ op[p].res \in op[p].left
    BY <1>1, <2>1 DEF FiniteJob, Stage, JobOK
  <2>3. /\ Cardinality(op[p].left) \in Nat
        /\ Cardinality(op'[p].left) = Cardinality(op[p].left) - 1
    BY <2>1, <2>2, FS_CardinalityType, FS_RemoveElement
  <2>4. CallsLeft(op'[p]) < CallsLeft(op[p])
    BY <2>1, <2>3 DEF CallsLeft
  <2> QED BY <2>1, <2>4 DEF Closer, Stage
<1>10. CASE Close(p)
  <2>1. CASE op[p].kind = "recover"
    <3>1. op[p].pc = "drive" /\ op'[p].pc = "next" /\ op'[p].todo = op[p].todo
      BY <1>2, <1>4, <1>10, <2>1 DEF Close
    <3> QED BY <3>1 DEF Closer, Stage
  <2>2. CASE op[p].kind # "recover"
    BY <1>3, <1>10, <2>2 DEF Close
  <2> QED BY <2>1, <2>2
<1>11. CASE NextTxn(p)
  <2>1. PICK e \in op[p].todo : op'[p].todo = op[p].todo \ {e}
    BY <1>2, <1>4, <1>11 DEF NextTxn
  <2>2. IsFiniteSet(op[p].todo) /\ Cardinality(op[p].todo) \in Nat
    BY <1>1 DEF FiniteJob
  <2>3. Cardinality(op'[p].todo) = Cardinality(op[p].todo) - 1
    BY <2>1, <2>2, FS_RemoveElement
  <2> QED BY <2>2, <2>3 DEF Closer
<1>12. CASE EndRecover(p)
  BY <1>3, <1>12 DEF EndRecover
<1> QED BY <1>6, <1>7, <1>8, <1>9, <1>10, <1>11, <1>12 DEF Step

\* Every step of the holder of c.mu ends its section or brings it closer to the end,
\* along an order of natural numbers: transactions in the list, stage, calls left.
\* Nobody else changes what it has to do, other than by ending it.  So no request
\* keeps c.mu by going round in Recover or driveSecondPhase.
SectionRunsDown(p) ==
  op[p].pc \in LockedPCs =>
    IF Step(p) THEN op'[p] = Idle \/ Closer(op[p], op'[p]) ELSE op'[p] \in {op[p], Idle}

THEOREM SectionsRunDown ==
  Spec => /\ [](\A p \in Workers : op[p].pc \in LockedPCs => FiniteJob(op[p]))
          /\ [][\A p \in Workers : SectionRunsDown(p)]_vars
<1>1. IInv /\ FiniteRows => \A p \in Workers : op[p].pc \in LockedPCs => FiniteJob(op[p])
  BY JobFinite
<1>2. IInv /\ FiniteRows /\ [Next]_vars => [\A p \in Workers : SectionRunsDown(p)]_vars
  <2> SUFFICES ASSUME IInv, FiniteRows, Next, NEW p \in Workers, op[p].pc \in LockedPCs
               PROVE  /\ Step(p) => op'[p] = Idle \/ Closer(op[p], op'[p])
                      /\ ~Step(p) => op'[p] \in {op[p], Idle}
    BY DEF SectionRunsDown
  <2> QED BY OnlyHolder, StepCloser
<1> QED BY <1>1, <1>2, Invariant, ImplementsStore, TablesFinite, PTL DEF Spec

-----------------------------------------------------------------------------
(* Start-up recovery only goes forward. *)

LEMMA ForwardStep ==
  ASSUME IInv, [Next]_vars, up # "serving", NEW t \in Txns
  PROVE  Forward(t)
<1>0. StoreTypeOK /\ up \in {"down", "starting", "serving"}
  BY DEF IInv, VarsOK
<1>1. ASSUME UNCHANGED tables
      PROVE  Forward(t)
  BY <1>1 DEF tables, txnTables, Forward
<1>2. CASE UNCHANGED vars
  BY <1>1, <1>2 DEF vars
<1>3. CASE Next /\ up = "down"
  BY <1>1, <1>3, WakesUp DEF Start
<1>4. CASE Next /\ up = "starting"
  <2>1. ASSUME NEW p \in Workers, ResourceRequest(p) \/ SyncHandle(p) \/ TxnRequest(p)
        PROVE  UNCHANGED tables
    BY <1>4, <2>1 DEF ResourceRequest, Register, UpdateVote, Unregister, SyncHandle, TxnRequest,
                Begin, Cleanup, StartPrepare, StartAbort, StartFinish, StartRecover, Free
  <2>2. ASSUME Fault \/ Start
        PROVE  UNCHANGED tables
    BY <1>4, <2>2 DEF Fault, Fail, LoseClose, LoseReply, Crash, Start
  <2>3. ASSUME NEW p \in Workers,
               ListParts(p) \/ (\E r \in Resources : Tell(p, r)) \/ NextTxn(p) \/ EndRecover(p)
        PROVE  UNCHANGED tables
    BY <2>3 DEF ListParts, Tell, NextTxn, EndRecover
  <2>4. ASSUME NEW p \in Workers, Record(p)
        PROVE  Forward(t)
    <3>1. op[p].pc = "record" /\ op[p].pc \in LockedPCs
      BY <2>4 DEF Record
    <3>2. op[p].txn \in Txns /\ op[p].kind = "recover"
      BY <1>4, <3>1, Holder DEF JobOK
    <3>3. RecordPrepare(op[p].txn, NoVotes, "abort")
      BY <2>4, <3>2 DEF Record
    <3> QED BY <1>0, <3>2, <3>3 DEF RecordPrepare, Forward, StoreTypeOK
  <2>5. ASSUME NEW p \in Workers, Finalize(p)
        PROVE  Forward(t)
    <3>1. op[p].pc = "finalize" /\ op[p].pc \in LockedPCs
      BY <2>5 DEF Finalize
    <3>2. PICK u \in Txns, q \in Resources :
            /\ u = op[p].txn /\ q = op[p].res /\ partFinal[u][q] = NULL
            /\ op[p].state = txnState[u] /\ txnState[u] \in {"COMMITTING", "ABORTING"}
      BY <3>1, Holder DEF JobOK, OpenParts
    <3>3. /\ UNCHANGED txnState
          /\ partFinal' = [partFinal EXCEPT ![u][q] = FinalOf(txnState[u])]
      BY <2>5, <3>2 DEF Finalize, FinalizeParticipant
    <3>4. ASSUME NEW r \in Resources
          PROVE  partFinal'[t][r] = IF t = u /\ r = q THEN FinalOf(txnState[u]) ELSE partFinal[t][r]
      BY <1>0, <3>3 DEF StoreTypeOK
    <3> QED BY <3>2, <3>3, <3>4 DEF Forward
  <2>6. ASSUME NEW p \in Workers, Close(p)
        PROVE  Forward(t)
    <3>1. op[p].pc = "drive" /\ op[p].pc \in LockedPCs
      BY <2>6 DEF Close
    <3>2. /\ op[p].txn \in Txns /\ op[p].state = txnState[op[p].txn]
          /\ op[p].state \in {"COMMITTING", "ABORTING"}
      BY <3>1, Holder DEF JobOK
    <3>3. SetTxnFinalState(op[p].txn, TerminalOf(op[p].state))
      BY <2>6 DEF Close
    <3> QED BY <1>0, <3>2, <3>3 DEF SetTxnFinalState, Forward, StoreTypeOK
  <2> QED BY <1>1, <1>4, <2>1, <2>2, <2>3, <2>4, <2>5, <2>6 DEF Next, Step
<1> QED BY <1>0, <1>2, <1>3, <1>4

\* Until the process serves, no call that fails, no crash and no restart takes back
\* what recovery has done, and nothing is committed that was not decided: a
\* PREPARING transaction is turned to abort (Recover: "PREPARING txns (no decision)
\* are aborted").
THEOREM RecoveryGoesForward == Spec => RecoveryOnlyForward
<1>1. IInv /\ [Next]_vars => [up # "serving" => \A t \in Txns : Forward(t)]_vars
  BY ForwardStep
<1> QED BY <1>1, Invariant, PTL DEF Spec, RecoveryOnlyForward
=============================================================================
