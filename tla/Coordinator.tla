---------------------------- MODULE Coordinator -----------------------------
(***************************************************************************)
(* The two-phase-commit coordinator of internal/coordinator/coordinator.go *)
(* and the process around it (main.go): requests served by concurrent      *)
(* goroutines, the mutex c.mu, the in-memory participant handles, recovery *)
(* at start-up and on demand, failing store calls and crashes.             *)
(*                                                                         *)
(* A handler that holds c.mu makes several store calls.  Each call is a    *)
(* step of its own, because the resource operations call the store without *)
(* c.mu and because a call may fail or the process may stop between two of *)
(* them.  Reads under c.mu belong to the step they feed.                   *)
(***************************************************************************)
EXTENDS TxnStore

CONSTANTS
  Workers,   \* goroutines serving requests
  None,      \* no goroutine, no transaction, no resource
  Faults     \* which faults happen: a subset of {"crash", "fail", "lost_reply"}

ASSUME CoordinatorAssumption == None \notin Workers \cup Txns \cup Resources

VARIABLES
  up,       \* "down", "starting" (loading and recovering) or "serving"
  mu,       \* the goroutine that holds c.mu, or None
  handles,  \* c.resources: the vote of the handle, Absent when there is none
  op,       \* what each goroutine is doing, with its local variables
  told      \* history: the phase-2 calls made to r's handle on behalf of t

process == <<up, mu, handles, op>>
vars == <<tables, process, told>>

Kinds == {"prepare", "run", "finish", "abort", "recover"}
LockedPCs == {"record", "list", "drive", "finalize", "next"}

Idle == [kind |-> None, pc |-> "idle", txn |-> None, state |-> None,
         left |-> {}, todo |-> {}, res |-> None, vote |-> Absent]

\* A resource request between its store call and its update of c.resources.
PendingHandle(r, v) ==
  [kind |-> None, pc |-> "handle", txn |-> None, state |-> None,
   left |-> {}, todo |-> {}, res |-> r, vote |-> v]

\* A transaction request holding c.mu: its copy of the transaction's state,
\* the participants left to drive, and for Recover the transactions to do.
Job(kind, pc, t, s, left, todo, r) ==
  [kind |-> kind, pc |-> pc, txn |-> t, state |-> s,
   left |-> left, todo |-> todo, res |-> r, vote |-> Absent]

\* The participants of t that have no final state yet.
OpenParts(t) == {r \in Resources : partFinal[t][r] = NULL}

\* Mutant: the word of a transaction state for that of a final column.
FinalOfAsState(s) == IF s = "COMMITTING" THEN "COMMITTED" ELSE "ABORTED"

FinalOf(s) == IF s = "COMMITTING" THEN "committed" ELSE "aborted"
TerminalOf(s) == IF s = "COMMITTING" THEN "COMMITTED" ELSE "ABORTED"
CallOf(s) == IF s = "COMMITTING" THEN "commit" ELSE "abort"
StateOf(d) == IF d = "abort" THEN "ABORTING" ELSE "COMMITTING"

\* Mutant: the scan forgets the ABORTING state.
NonFinalTxnsMissAborting ==
  {<<t, txnState[t]>> : t \in {u \in Txns : txnState[u] \in {"PREPARING", "COMMITTING"}}}

\* The snapshot Recover works from: id and state of every unfinished transaction.
NonFinalTxns == {<<t, txnState[t]>> : t \in {u \in Txns : txnState[u] \in NonTerminal}}

Init ==
  /\ StoreInit
  /\ up = "down"
  /\ mu = None
  /\ handles = [r \in Resources |-> Absent]
  /\ op = [p \in Workers |-> Idle]
  /\ told = [t \in Txns |-> [r \in Resources |-> {}]]

\* A request is picked up by a goroutine that has nothing to do.
Free(p) == up = "serving" /\ op[p] = Idle

\* Mutant: c.mu is not waited for.
LockAnyway(p, j) == mu' = p /\ op' = [op EXCEPT ![p] = j]

\* p acquires c.mu and starts on j.
Lock(p, j) == mu = None /\ mu' = p /\ op' = [op EXCEPT ![p] = j]

\* p goes on with j, still holding c.mu.
Goto(p, j) == op' = [op EXCEPT ![p] = j] /\ UNCHANGED mu

\* p returns to its caller and releases c.mu.
Return(p) == op' = [op EXCEPT ![p] = Idle] /\ mu' = None

-----------------------------------------------------------------------------
(* Resource requests: the store first, without c.mu; then, in SyncHandle,  *)
(* c.resources under c.mu.                                                 *)

Register(p, r, v) ==
  /\ Free(p)
  /\ RegisterResource(r, v)
  /\ op' = [op EXCEPT ![p] = PendingHandle(r, v)]
  /\ UNCHANGED <<up, mu, handles, told>>

UpdateVote(p, r, v) ==
  /\ Free(p)
  /\ UpdateResourceVote(r, v)
  /\ op' = [op EXCEPT ![p] = PendingHandle(r, v)]
  /\ UNCHANGED <<up, mu, handles, told>>

\* Mutant: the row goes, the handle stays.
UnregisterKeepsHandle(p, r) ==
  /\ Free(p)
  /\ DeleteResource(r)
  /\ UNCHANGED <<process, told>>

Unregister(p, r) ==
  /\ Free(p)
  /\ DeleteResource(r)
  /\ op' = [op EXCEPT ![p] = PendingHandle(r, Absent)]
  /\ UNCHANGED <<up, mu, handles, told>>

\* Register and update set the handle; unregister deletes it.
SyncHandle(p) ==
  /\ op[p].pc = "handle"
  /\ mu = None
  /\ handles' = [handles EXCEPT ![op[p].res] = op[p].vote]
  /\ op' = [op EXCEPT ![p] = Idle]
  /\ UNCHANGED <<tables, up, mu, told>>

\* The statement of a register or an update took effect but the call returned
\* an error (its context ended meanwhile), so the handler left c.resources alone.
LoseReply(r, v) ==
  /\ "lost_reply" \in Faults
  /\ up = "serving"
  /\ RegisterResource(r, v) \/ UpdateResourceVote(r, v)
  /\ UNCHANGED <<process, told>>

-----------------------------------------------------------------------------
(* Transaction requests.  Begin and Cleanup hold c.mu for one store call.  *)

Begin(p, t, rs) ==
  /\ Free(p)
  /\ mu = None
  /\ rs # {}
  /\ \A r \in rs : handles[r] # Absent
  /\ BeginTxn(t, rs)
  /\ UNCHANGED <<process, told>>

\* Mutant: the store is called without c.mu.
CleanupUnlocked(p, t) ==
  /\ Free(p)
  /\ DeleteTxn(t)
  /\ told' = [told EXCEPT ![t] = [r \in Resources |-> {}]]
  /\ UNCHANGED process

Cleanup(p, t) ==
  /\ Free(p)
  /\ mu = None
  /\ DeleteTxn(t)
  /\ told' = [told EXCEPT ![t] = [r \in Resources |-> {}]]
  /\ UNCHANGED process

StartPrepare(p, t) ==
  /\ Free(p)
  /\ txnState[t] = "PREPARING"
  /\ \E k \in {"prepare", "run"} : Lock(p, Job(k, "record", t, "PREPARING", {}, {}, None))
  /\ UNCHANGED <<tables, up, handles, told>>

\* Abort reads the participants before it records the decision.
StartAbort(p, t) ==
  /\ Free(p)
  /\ txnState[t] = "PREPARING"
  /\ Lock(p, Job("abort", "record", t, "PREPARING", OpenParts(t), {}, None))
  /\ UNCHANGED <<tables, up, handles, told>>

\* Mutant: a transaction that is still PREPARING is not refused.
StartFinishUndecided(p, t) ==
  /\ Free(p)
  /\ txnState[t] \in NonTerminal
  /\ Lock(p, Job("finish", "drive", t, txnState[t], OpenParts(t), {}, None))
  /\ UNCHANGED <<tables, up, handles, told>>

StartFinish(p, t) ==
  /\ Free(p)
  /\ txnState[t] \in {"COMMITTING", "ABORTING"}
  /\ Lock(p, Job("finish", "drive", t, txnState[t], OpenParts(t), {}, None))
  /\ UNCHANGED <<tables, up, handles, told>>

\* Start-up recovery (one goroutine, before the listener) and POST /admin/recover.
StartRecover(p) ==
  /\ up \in {"starting", "serving"}
  /\ op[p] = Idle
  /\ Lock(p, Job("recover", "next", None, None, {}, NonFinalTxns, None))
  /\ UNCHANGED <<tables, up, handles, told>>

-----------------------------------------------------------------------------
(* The steps of a request that holds c.mu. *)

\* Mutant: a participant without a handle is skipped.
VotesOfHandles(t) ==
  [r \in Resources |-> IF r \notin Members(t) \/ handles[r] = Absent THEN NULL ELSE handles[r]]

\* Phase 1: a participant without a handle votes no.
CollectVotes(t) ==
  [r \in Resources |-> IF r \notin Members(t) THEN NULL
                       ELSE IF handles[r] = "yes" THEN "yes" ELSE "no"]

NoVotes == [r \in Resources |-> NULL]

\* Commit needs a yes from every participant.
DecisionFor(votes) == IF \E r \in Resources : votes[r] = "no" THEN "abort" ELSE "commit"

\* Mutant: Run keeps the state it read before phase 1.
AfterRecordStaleRun(p, d) ==
  CASE op[p].kind = "prepare" -> Return(p)
    [] op[p].kind = "abort" ->
         Goto(p, Job("abort", "drive", op[p].txn, StateOf(d), op[p].left, {}, None))
    [] op[p].kind = "run" ->
         Goto(p, Job("run", "list", op[p].txn, op[p].state, {}, {}, None))
    [] OTHER ->
         Goto(p, Job("recover", "list", op[p].txn, StateOf(d), {}, op[p].todo, None))

\* Prepare returns; Abort drives the participants it read on entry; Run and
\* Recover read them next.
AfterRecord(p, d) ==
  CASE op[p].kind = "prepare" -> Return(p)
    [] op[p].kind = "abort" ->
         Goto(p, Job("abort", "drive", op[p].txn, StateOf(d), op[p].left, {}, None))
    [] OTHER ->
         Goto(p, Job(op[p].kind, "list", op[p].txn, StateOf(d), {}, op[p].todo, None))

\* Mutant: Recover asks the participants again.
RecordAsksAgain(p) ==
  LET o == op[p]
      votes == IF o.kind # "abort" THEN CollectVotes(o.txn) ELSE NoVotes
      d == IF o.kind # "abort" THEN DecisionFor(votes) ELSE "abort"
  IN /\ o.pc = "record"
     /\ RecordPrepare(o.txn, votes, d)
     /\ AfterRecord(p, d)
     /\ UNCHANGED <<up, handles, told>>

\* Prepare and Run decide from the votes, Abort and Recover decide abort.
Record(p) ==
  LET o == op[p]
      votes == IF o.kind \in {"prepare", "run"} THEN CollectVotes(o.txn) ELSE NoVotes
      d == IF o.kind \in {"prepare", "run"} THEN DecisionFor(votes) ELSE "abort"
  IN /\ o.pc = "record"
     /\ RecordPrepare(o.txn, votes, d)
     /\ AfterRecord(p, d)
     /\ UNCHANGED <<up, handles, told>>

\* ListParticipants, before phase 2 of Run and of Recover.
ListParts(p) ==
  /\ op[p].pc = "list"
  /\ Goto(p, Job(op[p].kind, "drive", op[p].txn, op[p].state, OpenParts(op[p].txn),
                 op[p].todo, None))
  /\ UNCHANGED <<tables, up, handles, told>>

\* driveSecondPhase calls Commit or Abort on the handle of a participant that
\* is not final; a participant without a handle is passed over.
Tell(p, r) ==
  LET o == op[p]
  IN /\ o.pc = "drive"
     /\ r \in o.left
     /\ told' = IF handles[r] = Absent THEN told
                ELSE [told EXCEPT ![o.txn][r] = @ \cup {CallOf(o.state)}]
     /\ Goto(p, Job(o.kind, "finalize", o.txn, o.state, o.left, o.todo, r))
     /\ UNCHANGED <<tables, up, handles>>

\* driveSecondPhase records the participant's final state.
Finalize(p) ==
  LET o == op[p]
  IN /\ o.pc = "finalize"
     /\ FinalizeParticipant(o.txn, o.res, FinalOf(o.state))
     /\ Goto(p, Job(o.kind, "drive", o.txn, o.state, o.left \ {o.res}, o.todo, None))
     /\ UNCHANGED <<up, handles, told>>

\* Mutant: the terminal state is written while participants are left.
CloseEarly(p) ==
  LET o == op[p]
  IN /\ o.pc = "drive"
     /\ SetTxnFinalState(o.txn, TerminalOf(o.state))
     /\ IF o.kind = "recover"
        THEN Goto(p, Job("recover", "next", None, None, {}, o.todo, None))
        ELSE Return(p)
     /\ UNCHANGED <<up, handles, told>>

\* Mutant: the terminal state does not depend on the decision.
CloseCommitted(p) ==
  LET o == op[p]
  IN /\ o.pc = "drive"
     /\ o.left = {}
     /\ SetTxnFinalState(o.txn, "COMMITTED")
     /\ IF o.kind = "recover"
        THEN Goto(p, Job("recover", "next", None, None, {}, o.todo, None))
        ELSE Return(p)
     /\ UNCHANGED <<up, handles, told>>

\* All participants are final: the terminal state is recorded.  Recover goes
\* on with the next transaction, the others return.
Close(p) ==
  LET o == op[p]
  IN /\ o.pc = "drive"
     /\ o.left = {}
     /\ SetTxnFinalState(o.txn, TerminalOf(o.state))
     /\ IF o.kind = "recover"
        THEN Goto(p, Job("recover", "next", None, None, {}, o.todo, None))
        ELSE Return(p)
     /\ UNCHANGED <<up, handles, told>>

\* Mutant: the transaction stays in the list.
NextTxnAgain(p) ==
  /\ op[p].pc = "next"
  /\ \E e \in op[p].todo :
       Goto(p, Job("recover", IF e[2] = "PREPARING" THEN "record" ELSE "list",
                   e[1], e[2], {}, op[p].todo, None))
  /\ UNCHANGED <<tables, up, handles, told>>

\* Mutant: a transaction that was already decided to abort is aborted anew.
NextTxnAbortsAnew(p) ==
  /\ op[p].pc = "next"
  /\ \E e \in op[p].todo :
       Goto(p, Job("recover", IF e[2] # "COMMITTING" THEN "record" ELSE "list",
                   e[1], e[2], {}, op[p].todo \ {e}, None))
  /\ UNCHANGED <<tables, up, handles, told>>

\* Recover takes the next transaction of its snapshot.
NextTxn(p) ==
  /\ op[p].pc = "next"
  /\ \E e \in op[p].todo :
       Goto(p, Job("recover", IF e[2] = "PREPARING" THEN "record" ELSE "list",
                   e[1], e[2], {}, op[p].todo \ {e}, None))
  /\ UNCHANGED <<tables, up, handles, told>>

\* Mutant: Recover returns without releasing c.mu.
EndRecoverKeepsLock(p) ==
  /\ op[p].pc = "next"
  /\ op[p].todo = {}
  /\ op' = [op EXCEPT ![p] = Idle]
  /\ up' = "serving"
  /\ UNCHANGED <<tables, mu, handles, told>>

\* Recover returns; after start-up recovery the listener opens.
EndRecover(p) ==
  /\ op[p].pc = "next"
  /\ op[p].todo = {}
  /\ Return(p)
  /\ up' = "serving"
  /\ UNCHANGED <<tables, handles, told>>

-----------------------------------------------------------------------------
(* Faults. *)

\* The process is gone: goroutines, mutex and handles with it.
Stop ==
  /\ up' = "down"
  /\ mu' = None
  /\ op' = [p \in Workers |-> Idle]
  /\ handles' = [r \in Resources |-> Absent]

\* A store or participant call of a request that holds c.mu returns an error
\* and had no effect.  The request returns it; main exits if recovery fails.
Fail(p) ==
  /\ "fail" \in Faults
  /\ op[p].pc \in {"record", "list", "drive", "finalize"}
  /\ IF up = "starting" THEN Stop ELSE Return(p) /\ UNCHANGED <<up, handles>>
  /\ UNCHANGED <<tables, told>>

\* The statement that records the terminal state took effect, but its call
\* returned an error: driveSecondPhase, and Recover with it, gives up.
LoseClose(p) ==
  /\ "lost_reply" \in Faults
  /\ up = "serving"
  /\ op[p].pc = "drive"
  /\ op[p].left = {}
  /\ SetTxnFinalState(op[p].txn, TerminalOf(op[p].state))
  /\ Return(p)
  /\ UNCHANGED <<up, handles, told>>

\* The process dies between two steps; committed tables survive.
Crash ==
  /\ "crash" \in Faults
  /\ up # "down"
  /\ Stop
  /\ UNCHANGED <<tables, told>>

\* A new process opens the database and loads a handle for every resource.
Start ==
  /\ up = "down"
  /\ up' = "starting"
  /\ handles' = resVote
  /\ UNCHANGED <<tables, mu, op, told>>

-----------------------------------------------------------------------------

ResourceRequest(p) ==
  \/ \E r \in Resources, v \in Votes : Register(p, r, v) \/ UpdateVote(p, r, v)
  \/ \E r \in Resources : Unregister(p, r)

TxnRequest(p) ==
  \/ \E t \in Txns, rs \in SUBSET Resources : Begin(p, t, rs)
  \/ \E t \in Txns : \/ Cleanup(p, t)
                     \/ StartPrepare(p, t)
                     \/ StartAbort(p, t)
                     \/ StartFinish(p, t)
  \/ StartRecover(p)

\* What the holder of c.mu does next.
Step(p) ==
  \/ Record(p)
  \/ ListParts(p)
  \/ \E r \in Resources : Tell(p, r)
  \/ Finalize(p)
  \/ Close(p)
  \/ NextTxn(p)
  \/ EndRecover(p)

Fault ==
  \/ \E p \in Workers : Fail(p) \/ LoseClose(p)
  \/ \E r \in Resources, v \in Votes : LoseReply(r, v)
  \/ Crash

Next ==
  \/ \E p \in Workers : ResourceRequest(p) \/ SyncHandle(p) \/ TxnRequest(p) \/ Step(p)
  \/ Fault
  \/ Start

Spec == Init /\ [][Next]_vars

\* Fairness.  A restarted process loads its handles and recovers; the holder of
\* c.mu goes on; sync.Mutex hands a contended lock to every waiter in the end;
\* an operator repeats POST /admin/recover until it gets through.
Fairness ==
  /\ WF_vars(Start)
  /\ WF_vars(up = "starting" /\ \E p \in Workers : StartRecover(p))
  /\ SF_vars(up = "serving" /\ \E p \in Workers : StartRecover(p))
  /\ \A p \in Workers : WF_vars(Step(p)) /\ SF_vars(SyncHandle(p))

\* Faults come in any number and order, but not for ever.
LiveSpec == Spec /\ Fairness /\ <>[][~Fault]_vars

-----------------------------------------------------------------------------
(* Correctness. *)

JobType == [kind : Kinds \cup {None},
            pc : LockedPCs \cup {"idle", "handle"},
            txn : Txns \cup {None},
            state : NonTerminal \cup {None},
            left : SUBSET Resources,
            todo : SUBSET (Txns \X NonTerminal),
            res : Resources \cup {None},
            vote : Votes \cup {Absent}]

TypeOK ==
  /\ StoreTypeOK
  /\ up \in {"down", "starting", "serving"}
  /\ mu \in Workers \cup {None}
  /\ handles \in [Resources -> Votes \cup {Absent}]
  /\ op \in [Workers -> JobType]
  /\ told \in [Txns -> [Resources -> SUBSET Decisions]]

\* Atomicity at the participants' rows: a participant is only ever recorded as
\* what its transaction's durable decision says, across requests, recoveries,
\* failures and crashes in any order.
OutcomeFollowsDecision ==
  \A t \in Txns, r \in Resources :
    /\ partFinal[t][r] = "committed" => decisions[t] = "commit"
    /\ partFinal[t][r] = "aborted" => decisions[t] = "abort"

\* A commit decision is only ever recorded with a yes vote of every
\* participant, the ones whose handle was missing included.
CommitRequiresYes ==
  \A t \in Txns : decisions[t] = "commit" => \A r \in Members(t) : partVote[t][r] = "yes"

\* The write-ahead rule of the package comment: a participant is only told what
\* the decision log already holds, so none is told before the decision is
\* durable and none is told both commit and abort.
ToldMatchesLog ==
  \A t \in Txns, r \in Resources : told[t][r] \subseteq {decisions[t]}

\* A transaction that is reported as COMMITTED or ABORTED has every participant
\* final and is in the state its decision calls for.
TerminalIsComplete ==
  \A t \in Txns : txnState[t] \in Terminal =>
    /\ OpenParts(t) = {}
    /\ decisions[t] = (IF txnState[t] = "COMMITTED" THEN "commit" ELSE "abort")

\* What a request read before it went on is still what the tables say when it
\* uses it: the state it copied, the participants it has left, and the whole
\* snapshot Recover works through.
SnapshotsFresh ==
  \A p \in Workers :
    /\ op[p].pc \in LockedPCs \ {"next"} => op[p].state = txnState[op[p].txn]
    /\ op[p].pc \in {"drive", "finalize"} => op[p].left = OpenParts(op[p].txn)
    /\ \A e \in op[p].todo : txnState[e[1]] = e[2]

\* No request is served before every transaction left unfinished by the last
\* process is resolved (main.go: "before serving traffic").
ServeAfterRecovery ==
  [][up # "serving" /\ up' = "serving" => \A t \in Txns : txnState[t] \notin NonTerminal]_vars

\* What the tables must not have done to the holder of c.mu before its next call:
\* ErrInvalidState or the key of decisions (RecordPrepare), a missing or final
\* participant (FinalizeParticipant), a missing transaction (SetTxnFinalState).
CallAccepted(o) ==
  /\ o.pc = "record" => txnState[o.txn] = "PREPARING" /\ decisions[o.txn] = NULL
  /\ o.pc = "finalize" => partFinal[o.txn][o.res] = NULL
  /\ o.pc = "drive" => txnState[o.txn] # Absent

\* Whoever holds c.mu is inside a locked section, and no store call it is about to
\* make is refused for what the tables contain, whatever earlier owners of the
\* transaction's id, requests that failed half-way or lost replies left in them.
\* Start-up would otherwise find the same refusal at every restart.
HolderGoesOn == \A p \in Workers : mu = p => op[p].pc \in LockedPCs /\ CallAccepted(op[p])

\* A transaction moves towards its end: to abort without a decision, or by its decision.
Forward(t) ==
  /\ \/ txnState'[t] = txnState[t]
     \/ txnState[t] = "PREPARING" /\ txnState'[t] = "ABORTING"
     \/ txnState[t] \in {"COMMITTING", "ABORTING"} /\ txnState'[t] = TerminalOf(txnState[t])
  /\ \A r \in Resources :
       \/ partFinal'[t][r] = partFinal[t][r]
       \/ /\ partFinal[t][r] = NULL
          /\ txnState[t] \in {"COMMITTING", "ABORTING"} /\ partFinal'[t][r] = FinalOf(txnState[t])

\* From a crash until the service listens again, through calls that fail, further
\* crashes and restarts, recovery takes nothing back and commits nothing that was
\* not decided before (Recover: "PREPARING txns (no decision) are aborted").
RecoveryOnlyForward == [][up # "serving" => \A t \in Txns : Forward(t)]_vars

\* When no resource request is under way, the handles are the registered
\* resources with their configured votes (resource.go: "keep the in-memory
\* handle in sync with the store").
HandlesInSync ==
  up # "down" /\ (\A p \in Workers : op[p].pc # "handle") => handles = resVote

\* A participant recorded as committed was told to commit (coordinator.go:
\* phase 2 drives each participant to Commit and records its final state).
CommittedImpliesTold ==
  \A t \in Txns, r \in Resources : partFinal[t][r] = "committed" => "commit" \in told[t][r]

\* Start-up recovery ends: a process that went down serves again, whatever
\* transactions it finds and however often it went down on the way.
StartupCompletes == up = "down" ~> up = "serving"

\* A decided transaction reaches its terminal state, although requests that
\* drive it fail and the process restarts under them.
InDoubtResolved ==
  \A t \in Txns : txnState[t] \in {"COMMITTING", "ABORTING"} ~>
                 txnState[t] \notin {"COMMITTING", "ABORTING"}

\* No request keeps c.mu: its loops end and every return releases it.
LockReleased == \A p \in Workers : mu = p ~> mu # p

\* A resource request whose store call went through gets to c.resources and
\* answers, although transaction requests compete for c.mu.
ResourceRequestEnds == \A p \in Workers : op[p].pc = "handle" ~> op[p].pc # "handle"

-----------------------------------------------------------------------------
(* The coordinator implements AtomicCommit. *)

StatusOf(s) ==
  CASE s = "PREPARING" -> "open"
    [] s = "COMMITTING" -> "commit"
    [] s = "ABORTING" -> "abort"
    [] s = "COMMITTED" -> "committed"
    [] s = "ABORTED" -> "aborted"
    [] OTHER -> "none"

OutcomeAt(f) ==
  CASE f = Absent -> "none"
    [] f = NULL -> "pending"
    [] OTHER -> f

AC == INSTANCE AtomicCommit WITH
        status <- [t \in Txns |-> StatusOf(txnState[t])],
        outcome <- [t \in Txns |-> [r \in Resources |-> OutcomeAt(partFinal[t][r])]]

\* Every step of the coordinator is a step the clients were promised, or none
\* that they see.
Atomic == AC!Spec
=============================================================================
