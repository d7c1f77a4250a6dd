# TLA+ models of the two-phase-commit coordinator

The repository is a small HTTP service in Go. Clients register *resources* (in-process
participants with a configured vote), begin transactions over them, and drive each transaction
through a two-phase commit whose state is kept in SQLite. These modules model the service's core
(the tables and the SQL statements that write them, the coordinator with its mutex and its
in-memory participants, start-up recovery, crashes and power failures, and the requests whose
answer takes more than one call), check it with TLC on small instances, and prove its safety with TLAPS for instances of
any size.

## 1. Inventory

| part | source | state | operations |
|---|---|---|---|
| store | `internal/store/store.go` | tables `resources` (vote, two counters), `transactions` (state, decision), `participants` (vote, final), `decisions`, `commit_ledger` | `RegisterResource`, `UpdateResourceVote`, `DeleteResource`, `BeginTxn`, `RecordPrepare`, `FinalizeParticipant`, `SetTxnFinalState`, `DeleteTxn`, and queries |
| coordinator | `internal/coordinator/coordinator.go` | mutex `c.mu`, map `c.resources` of handles, local variables of running calls | `New`, the three resource operations, `Begin`, `Prepare`, `Finish`, `Abort`, `Run`, `Recover`, `DeleteTxn`, and queries |
| participants | `internal/coordinator/resource.go` | the vote of a handle | `Prepare` (returns the vote), `Commit` and `Abort` (no effect of their own), `SetVote` |
| storage engine settings | `store.go` (`Open`) | the write-ahead log and the part of it on the disk | `journal_mode=WAL`, `synchronous=NORMAL`, one connection |
| process | `main.go` | running or not, listening or not | open the database, load the handles, recover, listen, stop |
| clock | `resource.go` | none | `Now`; stored, and used to order listings |
| HTTP API | `internal/httpapi/` | none | decode, call the coordinator, map errors to status codes |
| analysis | `internal/coordinator/analysis*.go` | none | `Analyze`: a report computed from many queries, with a health verdict and recommendations |
| smoke test, tests | `smoke.go`, `*_test.go` | none | drive the parts above |

How they interact. A handler calls one coordinator operation. A *transaction* operation takes
`c.mu` for its whole run and makes several store calls. A *resource* operation calls the store
first, without `c.mu`, and takes `c.mu` only to update the map. The store has one SQLite
connection, so its SQL transactions never overlap. At start the process loads a handle per
`resources` row, runs `Recover` and only then listens. Everything but the tables is lost when the
process ends.

What is hard here, and what makes each part correct:

- **store**: a participant's effect (counter, ledger row) happens once however often
  `FinalizeParticipant` is repeated; a decision is written once; the hand-made cascade of
  `DeleteTxn` (there are no foreign keys) leaves nothing behind; `DeleteResource` and `BeginTxn`
  cannot cross; and an operation of several statements that fails after any of them leaves nothing
  of itself behind.
- **coordinator**: one decision per transaction, durable before any participant hears of it,
  followed by every participant, across requests that fail half-way, repeated `Finish` and
  `Recover`, and crashes between any two store calls; what was read stays right while it is used;
  the mutex is always given back.
- **resource operations against transaction operations**: the table and the map change in two
  steps, so another request fits in between.
- **read requests**: an answer put together from several queries, or used after it was given, must
  still say something true.
- **two-call handlers**: `POST` and `PUT /resources` and `POST /txns` write, release everything, and
  read back what they wrote, ignoring the error; the answer must still be about what was asked.
- **storage engine**: a power failure may take back the last commits; what is left must be a state
  the coordinator can go on from.
- **process**: no traffic before every unfinished transaction is resolved; start-up always ends.

`PROJECT.json` lists the hazards one by one, each with its line and the properties aimed at it.

## 2. Modules

| module | what it is |
|---|---|
| `TxnStore` | the tables and one action per writing store operation; `StoreSpec` calls them in any order with any arguments |
| `StoreTx` | the statements inside the store's SQL transactions, with failure and rollback, on the one connection (EXTENDS `TxnStore`) |
| `Coordinator` | the process on top of the store: goroutines, `c.mu`, handles, recovery, faults (EXTENDS `TxnStore`) |
| `Readers` | the read requests whose answer takes several queries or is used later, beside the coordinator (EXTENDS `Coordinator`) |
| `Handlers` | the HTTP handlers that call the coordinator twice, and the status codes of their errors (EXTENDS `Readers`) |
| `Durability` | the coordinator on a machine that may lose power (EXTENDS `Coordinator`) |
| `Analysis` | `GET /admin/analysis` beside the coordinator (EXTENDS `Coordinator`) |
| `AtomicCommit` | what clients are promised about a transaction, with two variables and no mechanism |
| `TxnStoreProofs`, `StoreTxProofs`, `CoordinatorProofs`, `AtomicCommitProofs`, `RefinementProofs`, `HandlersProofs`, `DurabilityProofs`, `AnalysisProofs` | theorems |
| `MCStoreTx`, `MCCoordinator`, `MCHandlers`, `MCDurability`, `MCAnalysis` | the symmetry set for TLC; constants are given in the `.cfg` files |

Definitions marked `Mutant:` are plausible bugs of the definition that follows them. Each property
of each run is paired in `PROJECT.json` with one that violates it, to show that it can fail.

### TxnStore

A table is a total function over its key. `Absent` stands for a missing row, `NULL` for an empty
column. An operation is one SQL transaction or one autocommit statement on the only connection,
hence one step. An operation that returns an error changes nothing: its early returns are the
guards, and a disabled action is a refused call. Where the code succeeds without an effect (a
participant that is already final) the action has that disjunct. `SetTxnFinalState` is
unconditional, as in the code: only the order of the coordinator's calls keeps it honest.
Timestamps are left out because no decision reads them.

### StoreTx

| variable | code |
|---|---|
| `conn` | the open SQL transaction: operation, arguments, next statement; `NoTx` when the connection is free |
| `draft` | the tables as that SQL transaction sees them |

`Open...` is `BeginTx` with the reads that precede every write: nobody else can write while the
connection is taken, so the reads and their early returns belong to that step. Then each `INSERT`,
`UPDATE` and `DELETE` is a step that changes `draft` only; `Commit` copies it to the tables;
`Rollback` drops it, at any moment, and stands for a failed statement, a failed commit, a cancelled
request and a dead process alike. A violated key (an id that is taken, a name that the list already
had, a decision that exists) is a statement that is not enabled, so only `Rollback` is left. The
votes are written in any order because the code ranges over a Go map. The autocommit operations
wait for the connection. A call refused by its reads has written nothing and is not a step.

### Coordinator

| variable | code |
|---|---|
| `up` | no process, loading and recovering, or listening |
| `mu` | owner of `c.mu` |
| `handles` | `c.resources`, with the vote held by each handle |
| `op[p]` | the call goroutine `p` is in: where it is, and its locals (`t`, `parts` still open, the rest of `Recover`'s list, or the pending map update) |
| `told` | history of the `Commit`/`Abort` calls made on handles |

Every store call made with `c.mu` held is a step (`Record`, `ListParts`, `Finalize`, `Close`), and
so is each call of a handle (`Tell`), so resource operations, failures and crashes fall between
any two of them. `Begin` and `Cleanup` make one store call under the mutex and are one step.
`StartPrepare`, `StartAbort`, `StartFinish` and `StartRecover` take the mutex and read what the
code reads on entry. `Abort` uses the participants it read *before* it recorded the decision;
`Run` and `Recover` read them after; the model keeps the difference. Participants and recovered
transactions are taken in any order, which includes the code's. `Prepare` and the first half of
`Run` are the same step, as they are the same code twice.

Faults, each switched on by the constant `Faults`:

- `crash`: the process ends between any two steps (also during start-up). Tables survive.
- `fail`: a store or handle call under the mutex returns an error without an effect; the request
  returns it. During start-up the process exits, as `main` does.
- `lost_reply`: an autocommit statement took effect but its call returned an error because the
  request's context ended meanwhile. It can hit register, vote update and `SetTxnFinalState`. It
  cannot happen in start-up recovery, which uses `context.Background()`.

### Readers

One more goroutine, `Reader`, serves one read request at a time; `view` is what it has read so far
and then the answer the client holds. `GetTxn` (two queries) and `Stats` (eight) hold `c.mu` over
their queries, each query being a step; `RecoverPreview` is one query whose result the client
keeps. All the coordinator's steps interleave: those that need `c.mu` wait for the reader, resource
requests do not. The listings and lookups that are one query are not here: their answer is the
tables at one moment; section 6 says the same of the one listing of two queries. `Forget` and its
like in the other modules (`Done`, `Discard`) are the client's, not the service's.

### Handlers

The goroutine of `Readers` also serves the requests that take two calls; `web` is the request, what
it has read, and then its answer. A resource request is three steps (table, map, `GetResource`,
which does not take `c.mu`), `POST /txns` and `GET /txns/{id}/participants` are two, each taking
`c.mu` for itself. `failed` marks a read-back whose error the handler ignored; it leaves the fields
of the answer empty, as the zero value of the Go struct does. `touched` and `deleted` are history:
whether another request wrote the same row or handle, or moved or deleted the same transaction,
in between. A body's vote may be missing or no vote at all, and its name empty: the handler fills in
the default of `POST`, and the coordinator refuses what is left before it calls the store (`Valid`).
`MapError` is `mapError` with the substring test of `isValidationError`.

### Durability

| variable | code |
|---|---|
| `disk` | the tables after the last commit that is sure to be on the disk |
| `heard` | history of all calls made on handles, those whose decision was lost included |
| `gone` | history: the transactions deleted since `disk` |

In WAL mode with `synchronous=NORMAL` a commit appends to the log and does not sync it. If the
process dies the operating system still has the log, so a crash loses nothing and is the `crash` of
`Coordinator`. If the power goes, frames are lost from the end, and the checksums SQLite replays
the log by leave a prefix of the commits. `Run` is any step of the coordinator, `Sync` moves `disk`
to the present (a checkpoint, or the operating system writing back), `PowerLoss` stops the process
and puts the tables back to `disk`. Since `Sync` may come after any step, every prefix is reached.
`PowerLoss` also puts `told` back: it then has the calls of the history the tables remember, which
is what the coordinator's invariants speak of, while `heard` keeps all of them.

### Analysis

`report` is the state of one `Analyze` call: the transactions' rows, a participants' listing for
each, the resources, three counts, and a second listing for each transaction, every query a step
that takes `c.mu` for itself (the listing of resources does without). `stuck` and `writes` are
history: the transactions unfinished ever since the call began, and how often a table was written
meanwhile. `Healthy` and `Recommendations` are the code's verdicts; of a resource's row only its
presence is kept, because its other fields cannot make the verdict fail.

### AtomicCommit and the refinement

`AtomicCommit` has a status and a table of outcomes: a transaction opens over some participants,
is decided once, each pending participant takes the outcome of the decision, the transaction
closes when none is pending, and only a closed one is forgotten. `Coordinator` maps
`transactions.state` to the status (`StatusOf`) and `participants.final` to the outcomes
(`OutcomeAt`). `Atomic` states that every coordinator behaviour is one of `AtomicCommit`.

## 3. Runs

| run | instance | distinct states | what it shows |
|---|---|---|---|
| `store` | 2 transactions, 1 resource, lists of up to 2 names, statement by statement | 628,134 | the store's promises whatever its caller does and wherever it fails; the statements implement `StoreSpec` |
| `coordinator` | 2 goroutines, 1 transaction, 2 resources, all faults | 238,504 | atomicity, unanimity, write-ahead rule, completeness, counters of each resource on their own, no store call under `c.mu` that the tables refuse, refinement |
| `coordinator_two_txns` | 2 goroutines, 2 transactions, 1 resource, all faults | 156,638 | fresh snapshots, several transactions in one recovery before traffic, a recovery that is cut short takes nothing back, reused ids |
| `handles_race` | 2 goroutines, no fault | violation | finding 1 |
| `committed_untold` | 2 goroutines, no fault | violation | finding 2 |
| `readers` | 1 goroutine and the reading one, 1 transaction, 2 resources, crash and fail | 2,231,089 | `GET /txns/{id}` and `GET /admin/stats` are consistent; a preview stays true until its transaction moves; a two-call handler answers with what it did unless another request touched it |
| `analysis` | 1 goroutine, 2 transactions, 1 resource, crash and fail | 1,189,350 | a torn report never looks corrupt; one made at rest is exact; an all-clear never misses a transaction that stayed unfinished |
| `liveness_recovery` | 1 goroutine, 2 transactions, crash and fail | 25,452 | a restart reaches serving; decided transactions become terminal; with one request at a time the map equals the table between requests |
| `liveness_lock` | 2 goroutines, 1 transaction, crash and fail | 4,657 | nobody keeps `c.mu`; a waiting resource request ends |
| `power_loss` | 1 goroutine, 1 transaction, 2 resources, power failures | 2,236,536 | the tables stay consistent; what is unfinished in older tables is resolved before traffic; what reached the disk is never contradicted; between losses clients get what `AtomicCommit` promises |
| `power_loss_told` | 1 goroutine, 1 transaction, 1 resource, power failures | violation | finding 3 |
| `put_refused` | 1 goroutine and the handlers', failing calls | violation | finding 4 |

Bounds. Two goroutines are enough for every pair of requests to interleave; the mutex leaves only
resource requests really concurrent. Two resources give partly finalized transactions and mixed
votes; two transactions give a recovery list longer than one and competition for a resource. Ids
and names are reused without limit. The one counter is capped by `MaxEffects`: no `Begin` on a
resource that has counted that many effects. With the cap a run does not stop, because the
counters start again when a resource is removed and registered anew. One goroutine beside the
reader is enough, because requests that take `c.mu` exclude each other and a torn answer needs one
writer. A report sees at most `MaxWrites` = 3 table writes while it is under way: enough between
two queries for a decided transaction to be driven to its end (decision, final state, closing), or
for a finished one to be deleted, begun again and decided. No instance deadlocks, and deadlock is
checked in all of them. In `store`, a list of up to `MaxNames` = 2 names is enough to repeat one;
lists of three names over two resources (a repetition after a name that was inserted) were
checked once more with the same result, and the theorems hold for any length. The `power_loss`
run switches the other faults off: a crash is a power failure after a `Sync`, and a request that
fails half-way leaves the tables in a state that run reaches anyway. The theorems of
`DurabilityProofs` hold with all faults. The runs of safety properties that use symmetry
permute transactions, resources and goroutines; liveness runs use none.

### Fairness

`LiveSpec` assumes, and only for the liveness runs:

- weak fairness of `Start` and of the start-up `StartRecover`: a supervisor restarts the process,
  and `main` runs on;
- strong fairness of `StartRecover` while serving: an operator repeats `POST /admin/recover` until
  it gets through. Without it `InDoubtResolved` fails, and rightly so: nothing inside the service
  retries a transaction whose `Finish` failed half-way;
- weak fairness of `Step(p)`: the goroutine that holds `c.mu` is scheduled;
- strong fairness of `SyncHandle(p)`: `sync.Mutex` hands a contended lock to every waiter (its
  starvation mode), although others take it in between;
- faults happen in any number and order but not for ever.

No fairness is assumed of clients' requests.

## 4. Findings

1. `handles_race`. The three resource operations write the table without `c.mu` and the map with
   it. Two overlapping requests for one name can reach the table in one order and the map in the
   other; the difference stays until the next update or restart. `resource.go` says `SetVote`
   keeps "the in-memory handle in sync with the store".
2. `committed_untold`. A delete whose map update comes late removes the handle of a resource that
   was registered again meanwhile. A transaction in which it voted yes is then committed:
   `driveSecondPhase` passes over a participant without a handle and records it as committed. The
   package comment says phase 2 drives each participant to `Commit`.

3. `power_loss_told`. Under `synchronous=NORMAL` a power failure may take back the decision to
   commit after a participant was told. The transaction is `PREPARING` again, and start-up recovery
   aborts it. `coordinator.go` says that a `PREPARING` transaction may be aborted "because no
   participant was ever told commit". The participants of this repository forget with the process,
   so it would bite a participant with state of its own.
4. `put_refused`. An `UPDATE` that fails behind `PUT /resources/{name}` is reported as "update
   resource vote: ...", which `isValidationError` takes for a validation error because of the word
   "vote": the client gets 400 for a fault of the server.

Findings 1 and 2 do not break atomicity: a missing handle votes no, and the recorded outcome is
always the decision's (`coordinator` run, theorem `Atomicity`). Finding 3 does not either, as far as
the tables go (`power_loss` run, theorem `DurableAtomicity`).

## 5. Proofs

All for arbitrary sets of goroutines, transactions and resources and any set of faults. The only
assumptions are that the bounds `MaxEffects`, `MaxNames` and `MaxWrites` are natural numbers, that
`None` is not a goroutine, transaction or resource, and that `Reader` is neither a goroutine of
`Workers` nor `None`. No set of ids has to be finite.

- **Store.** `StoreIInv` (types, ledger, no orphans, logs agree, active resources registered) is
  inductive for `StoreSpec` as it stands. `StoreInvariant` proves it; `StoreTypes`,
  `LedgerCorrect`, `NoOrphans`, `LogsAgree` and `ActiveRegistered` are its parts, and
  `DecisionsStay`, `FinalsStay` and `CountersExact` are action properties proved from it.
  (`FinalsImmutable` is in no run: it holds of `StoreSpec`, which `AllOrNothing` says the statements
  implement. The proof of `DiskStands` rests on the lemma behind it.)
  `CountersExact` needs a fact about cardinality: at most one participant row becomes final in a step.
  `TablesFinite` says that the tables have finitely many rows at every moment (`FiniteRows`),
  whatever the sets of ids: a statement adds one row, or the participants of one list, whose names
  are registered. It is what lets the theorems about counts do without an assumption.
- **Statements of the store.** `Implementation` (`StoreTxSpec => AllOrNothing`, which is
  `StoreSpec`). The invariant `StoreTxInv` is `StoreIInv` and `ConnOK`, which says for each
  operation and each next statement what `draft` is in terms of the committed tables; these do not
  change while the connection is taken. One lemma per operation shows that its statements keep
  `ConnOK`, one that its `Commit` is the one-step operation. Through it every theorem about `StoreSpec`
  holds statement by statement. `BegunAsListed` is an action property from the same invariant.
- **Coordinator.** The safety properties are not inductive: that a participant is recorded with
  the decision depends on the goroutine's copy of the state, which is right because it holds
  `c.mu`. `IInv` adds what the argument needs:
  - `LockInv`: a goroutine is inside a locked section exactly when it owns `c.mu`;
  - `JobInv`: at each point its locals match the tables (state, open participants, and for
    `Recover` the state of every transaction still in its list, none of which is the one in hand);
  - `UpInv`: a stopped process does nothing, one that starts only recovers, and every unfinished
    transaction is in recovery's hand or list;
  - `TxnInv`: state, log, votes, finals and calls of a transaction fit together.

  One lemma per action shows that it keeps `IInv`. Lemmas `HolderKept`, `ReturnKept`, `LockKept`,
  `FreeLockKept` and `StopKept` carry what is common to a goroutine that goes on, returns or enters
  a locked section: the others are outside and hold nothing that could become stale
  (`OutsideKept`). From `Invariant` follow `TypeCorrect`, `Atomicity`, `UnanimousCommit`,
  `WriteAhead`, `TerminalComplete`, `FreshSnapshots` and the action property `RecoveredFirst`.
- **Handles and calls.** `HandlesFollowAlone`: with one goroutine and no lost reply, the map is the
  table's between requests. The invariant `HandleSetNext` says that a handle which differs is about
  to be set, and to the row's vote. `ToldAlone`: under the same hypotheses a participant recorded as
  committed was told so, because an active resource is registered and so has its handle
  (`TellsFirst`). Both hypotheses are needed: findings 1 and 2 are two goroutines, and a lost reply is
  a row whose map update never comes.
- **Progress under the mutex.** `NeverRefused`: the holder's next store call is never refused for
  what the tables contain (`HolderGoesOn`). `SectionsRunDown`: each of its steps ends the section or
  decreases the triple of transactions in `Recover`'s list, stage, and phase-2 calls left (`Closer`), whose
  members are natural numbers (`FiniteJob`); others leave its locals alone or stop it. Together
  they are what `LockReleased` needs besides fairness.
- **Start-up.** `RecoveryGoesForward` (`RecoveryOnlyForward`): until the process serves, a state or a final column only moves
  forward (`Forward`), whatever fails or crashes on the way, and a `PREPARING` transaction can only be
  aborted. So a recovery that is cut short leaves the next one less to do, which is what
  `StartupCompletes` needs besides fairness.
- **Store inside the coordinator.** `ImplementsStore`: the coordinator is a behaviour of
  `StoreSpec`, so the store's theorems hold of the running service.
- **Refinement.** `Refinement` (`Spec => Atomic`): each store operation, under the conditions
  `JobInv` gives, is the corresponding abstract step, and everything else leaves both mapped
  variables alone. `AbstractAtomicity` shows what `AtomicCommit` in turn guarantees.

- **Loss of power.** `DurabilityInv` adds to `IInv` that the tables on the disk satisfy what `IInv`
  says of tables (`DiskOK`; the store's part is an instance of `TxnStore` on the disk's columns) and
  `DiskStands`. A power failure then leads to a state of `IInv` with every goroutine idle. That
  `DiskStands` is kept needs `DecisionStep`, `FinalsStep` and `NoOrphanRows`: a decision or a final
  column only goes with its transaction, and that transaction is then in `gone`. From
  `DurabilityInvariant` follow `DiskNeverContradicted`, `DurableAtomicity`, `DurableRecoveredFirst`,
  `DurableNeverRefused`, `DurableForward` (forward, or back to what the disk has) and `DurableRefinement`
  (`DurabilitySpec => AtomicBetweenLosses`), whose subscript needs `Seen`: the abstraction keeps
  every state and every final column apart.
- **Readers and handlers.** `HandlersInv` is inductive for the coordinator with the reading
  goroutine beside its workers:
  - `IInv`, `FiniteRows`, and `MembersInv`: a transaction has a participant;
  - `ReadersTypeOK`, which ties `c.mu` to the reader's position between two queries;
  - `ViewInv`: what the queries have read so far is still so. While the reader holds `c.mu` no
    transaction moves, so a row and a count of states, decisions or ledger rows stay right. The count
    of resources may go stale at once; what stays is that it was positive if anything was unfinished
    (`CountRight`), because an active resource cannot be deleted;
  - `ResourceInv`, `TxnWebInv`: what an untouched two-call request may rely on: no other request
    for the name has its map update before it, and nobody is at work on its transaction.

  `StatsFit` needs cardinalities: the decided transactions are the disjoint union of four states, and
  each committed one has a row of its own in the ledger. From `HandlersInvariant` follow `OneMoment`,
  `StatsFit`, `VoteInForce`, `BegunAnswer`, `FoundAnswer`, `ReaderLock` and the action property
  `PreviewHolds`. `HandlersKeepSafety`, `HandlersImplementStore` and `HandlersImplementAtomic` carry
  the coordinator's safety and both refinements over to the system with all its handlers.
- **Analysis.** `ReportInvariant`: `ReportInv` is kept by every step of a report and of the
  coordinator beside it, whose behaviours are those of `Spec` (so `IInv` and `FiniteRows` hold).
  - `HonestInv` adds to `AllClearIsHonest` the moment that decides it: when the pending transactions
    are counted, a stuck one is among them. It gives `AllClear`.
  - `ShapeInv` says what a report has whatever falls between its queries; it gives `ReportTyped`.
  - `RestInv` says, while nothing was written, what the report has read so far in terms of the
    tables of now (`AtRest`); the votes are added up transaction by transaction (`PartsGrow`). At the end
    it gives `ExactAtRest`, where the counts meet: the decision log with the states
    (`DecisionsCounted`), the ledger with the participants (`LedgerCounted`), and for a terminal
    transaction the completion percentage, a quotient (`Percent`).

TLC confirmed `HandlersInv` and `ReportInv` as invariants of the instances of `readers` and
`analysis` before they were proved.

Model-checked only: the liveness properties `StartupCompletes`, `InDoubtResolved`, `LockReleased` and
`ResourceRequestEnds`, because liveness under fairness, and `ENABLED` with it, is out of the prover's
reach.

## 6. Not modelled, and why

- Timestamps and listing order: no decision reads them.
- The HTTP layer's decoding, encoding and routing, and the bodies of errors. (Met on the way:
  `handlers.go:13` says that the 409 of `ErrInvalidState` has the current state in its body; the body
  is the text of the error, which is a constant.)
- Listings and lookups that are one query: their answer is the tables at one moment. One listing,
  `ListLedgerForResource`, makes two: it looks the resource up and then reads its ledger rows. It
  holds `c.mu`, so no transaction moves between them; a `DELETE` of the resource, which writes the
  table without `c.mu`, may, but it leaves the ledger alone, so the answer is the one of the moment of
  the first query. `Fingerprint`
  and `Summary` of a report repackage it.
- The pragma `busy_timeout`: one connection never meets a busy database. A second process on the same
  file is not something the program is built for.
- The handles' `Prepare`, `Commit` and `Abort` returning errors: `InMemoryResource` returns none; the
  fault `fail` covers an error of a phase-2 call in the position of the store call.
- The smoke test and the tests: their scenarios are behaviours of `Coordinator`.

## 7. Plan

Done: all modules of section 2, their runs, and the proofs of section 5. Every invariant and action
property of a passing run is stated by a theorem.

Open, should the code change: participants with state of their own, which would turn findings 2
and 3 into losses of atomicity, and store calls outside `c.mu`, which `SnapshotsFresh` and `JobInv`
depend on.
