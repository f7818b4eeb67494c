# mempill: verification project

TLA+ models of mempill, a bi-temporal memory engine for agents: what is modelled, what TLC
checks on small instances, what TLAPS proves for every instance, and what is left out.

## 1. Inventory

mempill stores *claims* about subject lines (`(agent, subject, predicate)`) in append-only
tables and recomputes what is believed on every read. Nothing is updated in place except the
`status` of a row of `pending_adjudications`.

| Part | State | Operations | Talks to |
|---|---|---|---|
| `EngineHandle` (`mempill-core/src/engine_handle.rs`) | `store_write_lock`, `write_locks`, the ports | `ingest_claim`, `assert_validity`, `reconcile`, `submit_adjudication`, `sweep_expired_adjudications`, `query_*`, `list_pending_adjudications` | runs each use-case in `spawn_blocking` under the locks |
| Use-cases (`application/`) | none: they read the store, decide, and append in one transaction | one `execute` each | `PersistencePort`, pending store, oracle |
| Decision core (`engine/`): truth engine, valid-time helpers, reconciler, gate, firewall, gateway, projection, audit | none (pure) | `fold`, `narrow_live_claims_for_valid_at`, `compute_history_windows`, `classify_conflict`, `adjudicate`, `stamp`, `project` | called by the use-cases |
| `AgentWriteLockMap` (`concurrency/agent_lock.rs`) | map agent to mutex | `acquire` (look up, get or insert, lock) | `EngineHandle` |
| SQLite adapter (`mempill-sqlite`) | one connection in a slot, moved into the open transaction; five tables; a schema version | open and migrate, `begin_atomic`, `append_*`, `commit`, `rollback`, `load_*`, pending store | use-cases, other processes that open the file |
| Postgres adapter (`mempill-postgres`) | a pool; an advisory lock per agent held by the transaction | the same ports | use-cases of several processes |
| Oracle (host) | handles it has given out | `request`, later an answer through `submit_adjudication` | ingest, host |
| Facade (`mempill-facade`) | none | `remember`, `recall`, `history`, `end_fact`; dates and their precision | `EngineHandle` |
| Python binding (`mempill-python`) | the GIL, one runtime per engine | the engine's and the facade's operations, the oracle as a Python object | `EngineHandle` |
| MCP server (`mempill-mcp`) | none | six tools | Python binding |

What is hard here: a call reads the clock *before* it waits for its locks, so entries are not
appended in timestamp order; the pending row of a queued challenger is written *outside* the
transaction that queues it; the sweep lists *without* a lock; a verdict, a lazy expiry, a
sweep's expiry and an orphan sweep compete for the same challenger; the host may drop the
future of a running call; any store call may fail, and the process may die, between the
steps; queries read several tables without a lock; `end_fact` finds a claim in one call and
bounds it in the next; several processes share a Postgres database, or open one SQLite file at
once; an oracle written in Python needs the interpreter's lock in the middle of an ingest, and
`reconcile` queues claims behind the back of both the oracle and the pending table.

What makes each part correct:

* lifecycle: a challenger is settled once and only once; an answer and an expiry exclude each
  other; the pending table never says more than the ledger; what lost stays out of the fold;
  calls return and queued challengers are settled;
* locks: writes of one agent do not overlap, no deadlock, neither in the engine nor with the
  pool or the GIL;
* decision core: a belief about the past does not change when something is appended now; a
  denied claim is never an answer; belief depends on the facts, not on the order they came in;
  what a model derived displaces nothing that holds; history, recall and receipts tell the same
  story; reconciling twice decides nothing new;
* stores: a transaction is visible as a whole or not at all; a write decides on what is current;
  ledger numbers have no gap; what is stored is read back, and cutoffs select by instant;
* facade and bindings: what was ended stays ended; no live claim is hidden; dates are shown no
  finer than they were told; an error tells the caller what became of its claim.

## 2. Modules

| Module | Models | Builds on |
|---|---|---|
| `Adjudication` | ingest, submit and sweep as concurrent tasks of one `EngineHandle`, both locks, the clock, the ledger, the `Bound` assertions, the pending table, the oracle, failures, crashes, dropped futures | |
| `AdjudicationOutcome` | what the lifecycle promises of each claim: accepted or queued once, settled once | refined by `Adjudication` |
| `Belief` | the decision core: fold, bounds, point-in-time reads, history windows, conflict classification, gate | |
| `SubjectLine` | the life of one line under every writing call, each call one step, with the decisions of `Belief` | `Belief` |
| `Facade` | `end_fact` in its two calls beside everybody else's, and the two `recall`s | `SubjectLine` |
| `SqliteStore` | the SQLite connection slot, transactions, and the statements of writers and queries between each other | |
| `PostgresStore` | several processes on one database: pools, the map of agent mutexes, the advisory lock, ledger numbers, commits whose acknowledgement is lost | |
| `StorePort` | what `PersistencePort` promises, whichever adapter | refined by `SqliteStore` and `PostgresStore` |
| `Rows` | the text or timestamp each column holds for a value in both adapters, and what is read back | |
| `Storage` | processes that open one database, retry, migrate it, fail and die; then store and query rows | `Rows` |
| `Dates` | dates as written, the instants they stand for, and how they are shown | |
| `Admission` | how a fact enters: request, gateway, firewall, reconciler, gate, append; `query_subject` | `Belief`, `Dates` |
| `Timeline` | `end_fact` as a whole, `query_history`, `query_memory` with currency, staleness and markers | `Admission` |
| `Trail` | `query_audit`, edges, lineage | `Timeline` |
| `PyBridge` | Python threads, the GIL, engines with and without an oracle, the oracle that calls back | |
| `MC*` | instances for TLC, one for each module a run checks | |
| `*Proofs` | section 8 | the module they are named after, `TLAPS`; `FacadeProofs` also on `SubjectLineProofs` |

The modules meet where one takes for a step what another takes apart:

* `Adjudication` takes a call apart into its steps and leaves open *what* the gate decides;
  `SubjectLine` decides it exactly and takes the whole call as one step, which `Exclusion`
  justifies. The clock read before the critical section, which does not fit in, is in both.
* `SqliteStore` and `PostgresStore` open the critical section once more, down to single
  statements: `DecidesOnCurrent` is why the other modules may take the reads and the
  transaction of a write call for one step, and `KeepsPort` why they need not say which adapter.
  In PostgreSQL it holds among the calls of one process only.
* `Admission`, `Timeline` and `Trail` have what a host can ask and what it is told; the line
  they write to is the one of `SubjectLine`, without verdicts.
* `PyBridge` has the engine's calls as far as they wait for something or decide who hears of a
  claim: which locks they take, which of them asks the oracle, which queue or settle a claim, and
  what each one tells its caller. *Which* claims a reconcile believes and finds in conflict is
  `SubjectLine`'s; here it may be any.

## 3. The adjudication lifecycle

`task[p]` is a running call: `pc` is the next statement group of the handler, the other fields
are its local variables. `ledger` and `bounds` are the rows of `ledger_entries` and
`validity_assertions`; `pending` is the table of the same name; `asked` is the oracle's memory.

| Actions | Code |
|---|---|
| `BeginIngest`, `BeginSubmit`, `BeginSweep` | the async boundary of `EngineHandle`, where `Utc::now()` is read |
| `AcquireStore`, `AcquireAgent`, `Release` | `store_write_lock`, `AgentWriteLockMap::acquire`, the drop of the guards |
| `IngestRead`, `IngestCommit`, `IngestAsk`, `IngestInsert` | `ingest_claim.rs`: reads and gate, transaction, `oracle.request`, `insert_pending` |
| `SubmitResolve`, `SubmitCheck`, `SubmitApply`, `SubmitMark` | `submit_adjudication.rs`: lock-free look-up, state guard and lazy expiry, transaction, `mark_resolved` |
| `SweepList`, `SweepPick`, `SweepCheck`, `Revert`, `MarkExpired`, `SweepPhaseEnd` | `sweep_adjudications.rs` and the loops of `engine_handle.rs` |
| `Fail`, `Crash`, `Cancel` | an error of a port, the death of the process, a caller that drops the future |

A transaction is one step: nothing inside it is visible before its commit, and an error in it
rolls back. A claim stands for its handle as well, since each `oracle.request` returns a fresh
handle that the pending row ties to its challenger (`PyBridge` has oracles that do not). The
engine holds no state across a crash other than the store, so `Crash` empties `task` and the
locks and keeps the rest.

| Run | Instance | Shows |
|---|---|---|
| `sqlite` | store-wide lock, an incumbent and two challengers, two tasks | a verdict is applied once, an affirmed challenger displaces its incumbent, and the lifecycle refines `AdjudicationOutcome` |
| `faults` | no store-wide lock, one challenger, one failing call and one crash at any step | critical sections do not overlap, an answer and an expiry exclude each other, a row never says more than the ledger, a verdict that is written takes effect |
| `live` | a failing call, a dropped future, fairness | calls return; queued challengers with a deadline are settled |
| `cancel` | dropped futures, nothing fails | a verdict is applied twice (section 7) |

**Bounds.** Two tasks, because every race of this code is between a call and one other: a
submit and a submit, a submit and a sweep, an ingest and a sweep, a sweep and a sweep. Two
challengers of one incumbent, because the incumbent of one adjudication can be the challenger
of another: `AffirmDisplaces` and `Outcomes` need that, the others do not. The clock takes two
or three values, enough for "before, at and after the deadline" with `TTL = 1`, and for entries
with equal instants, which it makes common. One failure and one crash suffice to leave a row and
a ledger that disagree; the proved theorems hold for any number. Tasks are symmetric, and so are
the two challengers where no property tells them apart; no liveness property is checked under
symmetry.

**Fairness.** `WF(Step(p))`: tokio polls a ready task, and `spawn_blocking` runs to its end.
`SF` on the two acquisitions: tokio's mutexes are FIFO, so a waiter gets its turn although the
lock is taken again and again in between. `SF` on some task beginning a sweep: the
documentation of `sweep_expired_adjudications` asks hosts to run it on a schedule. No fairness is
assumed of ingests, submits, failures, crashes or dropped futures. `live` bounds the clock, so
`Settled` exempts a row whose deadline lies beyond it.

A sweep that read its clock before an orphan was committed appends an entry older than the
claim's own first one. That entry settles nothing; the claim stays an orphan until a later
sweep. `Reverted` in the refinement mapping leaves such entries out, and `Settled` holds in spite
of them.

## 4. One subject line

`Belief` translates the pure functions of `engine/` and the two builders they share with the
use-cases. A line is a record of the rows of three tables; a claim is identified with its
transaction time, which no two calls of the model share. What the functions do with values is
equality, so a value is a model value or a letter. Confidence enters as `timed`: whether it
reaches the threshold that makes a stated start trusted.

`SubjectLine` has one action per writing call: `Ingest`, `Submit`, `Expire`, `RevertOrphan`,
`AssertBound`, `Reopen`, `Reconcile`. Each call but `Reconcile` carries the instant it has read:
`Fresh` when its locks were free, else one of `waiting`, filled by `ReadClock`. `Reconcile`
reads the clock inside the lock (`engine_handle.rs`), and always runs with the newest
instant. `Facade` adds hosts that call `end_fact`: `Resolve` is `resolve_live_claim_for_line`,
without a lock, `Close` the `assert_validity` that follows, with every answer its gates give.

| Run | Instance | Shows |
|---|---|---|
| `line_dated` | three dated claims, an oracle, two hosts that end facts in the past while others write, no waiting call | a fact a host was told ended stays ended, for now and for every instant after its end; of hosts that race one closes; neither `recall` hides a live claim; history tells of the past what point-in-time reads answer; a denied claim leaves no trace; nothing dated is committed silently over an ended fact; reconcile decides the same twice; an affirmed challenger takes over at its start |
| `line_stale` | dated, undated, derived and quarantined claims, no oracle, bounds in the past and in the future, two waiting calls | an answer about an instant before every waiting call never changes |

**Bounds.** Three claims are an incumbent, a challenger of it, and one more that meets the
outcome. The instants 1 to 8 hold the offered windows (1, 2, and 4, which lies ahead), the
bounds, and up to six calls after the engine is opened: enough for ingest, ingest, verdict,
reopen or bound, reconcile, and one after. Two hosts, because the race is between two. Two
waiting calls are enough for two of them to run in the order opposite to that of their clocks.
The clock is bounded, so the model stops: deadlock checking is off in these runs.

**What these properties do not say.** `NothingCommittedSilently`, `EndedStaysEnded`, `OneCloses`
and `AffirmedHandsOver` are checked, and proved, for calls that run in clock order: a call that
waited does not see bounds stamped after its own clock, and closes a fact, or commits a claim, in
spite of them. The first three exempt facts that were ended at an instant to come
(`EndedAhead`): such a claim is hidden from the fold at once while its window stays, so that a
later claim overlaps it, and a second end is not refused. They also exempt what a reopen or
an affirm brought back afterwards, and `NothingCommittedSilently` what an abstention did
(section 7). `ReconcileIdempotent` exempts a line where a quarantined claim is live again, since
reconcile quarantines it once more and a second pass finds another line than the first.
`AffirmedHandsOver` speaks of a line that holds nothing but the two claims.

## 5. The stores

`StorePort` is what the use-cases rely on: rows are never changed or taken back, the rows one
call appended become visible together and with a ledger entry, and a pending row comes after its
claim. Both adapters are shown to refine it (`KeepsPort`), through failures and crashes.

**`SqliteStore`** takes one line apart into statements. `slot` is the `Option<Box<Connection>>`
of `SqlitePersistenceStore`: in, out with a transaction, or lost. `file` holds the committed
rows, `open` those of the open transaction, `storeLock` is `store_write_lock`. A row keeps its
table, its claim and the call that wrote it; what the use-cases compute from rows is left open.

| Actions | Code |
|---|---|
| `Start`, `Lock`, `Return` | the async boundary: clock, then `store_write_lock`; a query takes no lock |
| `LoadClaims`, `LoadLedger`, `LoadAssertions` | `load_subject_line` or `load_claim`, `load_ledger_for_claims`, `load_validity_assertions_for`, in the order of `query_memory`, `ingest_claim` and the two arms of `assert_validity` |
| `Refused`, `MissAssertions` | `TxnAlreadyOpen`, returned as an error, or taken for an empty list in the fold |
| `Decline` | the firewall and the gates that write nothing |
| `Begin`, `Append`, `Commit`, `Rollback`, `InsertPending` | `begin_atomic`, the appends of `append_within_txn` and `write_validity_and_ledger`, the ends of `SqliteTxn`, the pending row outside the transaction |
| `Fail`, `Crash` | a failing statement; a failing BEGIN, COMMIT or ROLLBACK, which drops the connection; the death of the process, after which the host opens the file again |

**`PostgresStore`** has several processes. `locks` is each process's `AgentWriteLockMap`, which
names a mutex after the task that inserted it; `advisory` the advisory lock of each
`hashtext(agent_id)`; `call[p].conn` the pooled connection a call holds; `dirty` the connections
that went back to the pool with a transaction nobody ends.

| Actions | Code |
|---|---|
| `LookUp`, `Create`, `AcquireMutex`, `Return` | the three steps of `AgentWriteLockMap::acquire`, the guard's drop |
| `Borrow`, `Timeout`, `Recycle`, `Refused` | `pool.get`, its time-out, the age limit of a connection, a statement on an aborted one |
| `LoadClaims`, `LoadLedger`, `Decline` | autocommitted loads, each on a connection of its own |
| `Begin`, `TakeLock`, `Append`, `Number`, `Insert`, `Commit`, `Rollback` | `begin_atomic`, `pg_advisory_xact_lock`, `append_claim`, the two statements of `append_ledger_entry`, the ends of `PostgresTxn` |
| `InsertPending` | `PostgresPendingStore::insert_pending` |
| `Fail`, `Crash` | a statement, BEGIN, the lock or COMMIT fails, or COMMIT succeeds and its answer is lost; a process dies with its connections |

**`Storage`** opens a database: a SQLite file of any schema version, or a Postgres database,
which is migrated already. `schema` is `user_version` with the columns `ALTER TABLE` added,
`writer` the process that holds the write lock, `proc` what each process is doing, with its
attempts. `Rows` gives each record the cells its columns hold in either adapter and reads them
back, positions, NULLs, unknown texts and refusals included. An instant is a number whose last
two binary digits are its fraction of a second, standing for the groups of digits `to_rfc3339`
prints as many of as it needs.

| Run | Instance | Shows |
|---|---|---|
| `store` | SQLite: three tasks, four calls, one failing statement, one crash | no write call meets another's transaction; what it loaded is still all there is when it writes, rows of calls that started after it included; a query folds whole writes only; the port's contract |
| `postgres` | two processes, one with two tasks, a connection each, agents whose hashes collide, three calls, one failure, one crash | ledger numbers are 1, 2, 3 without a gap, in spite of rollbacks and two writers; a writer decides on all its own process has committed; a query sees no claim without its entry; some call can always go on; the port's contract |
| `file` | two processes, two attempts, every old version, rows that between them reach every column and variant, one failure, one crash | nobody meets a half-migrated file; every row is read back as it was given, and cutoffs select by instant |

**Bounds.** `store`: three tasks are the holder of the lock, one that waits with an older clock,
and a query. Four calls give a claim, a bound on it, one more write, and a query. `postgres`: two
tasks of one process race for its map and its mutex, the third is the other process; one
connection for each pool makes every pool run empty; two entries for each transaction make the
numbers of one transaction interleave with another's if they can. `file`: two processes, because
the conversion to WAL, the migration and the retry are between an opener and one other. Rows are
compared in pairs, so two are stored. Clocks, calls and rows are bounded: deadlock checking is off
in these runs. TLC also finds the invariant `IInv` of section 8 true in the instance of `store`, and
`SettleInv` in those of `sqlite` and `faults`.

**Assumptions.** Callers keep their futures (`cancel` shows what happens otherwise). No two
calls of `SqliteStore` and `PostgresStore` read the same instant. One line of one agent: other
lines share the lock and the slot, and a writer of another line is one that declines or writes
rows nobody here loads. `reconcile`, `submit_adjudication` and `sweep_expired_adjudications` use
the stores like the calls modelled: loads under the lock, one transaction, then the pending
store; their lock-free look-ups (`get_pending`, `list_expired`) are refused like a query's first
load. PostgreSQL's own part (READ COMMITTED, when an advisory lock is free, what an aborted
transaction refuses) and SQLite's (one writer, `SQLITE_BUSY`) are taken from their documentation
as the code relies on them.

`AnswersWhole` of `SqliteStore` exempts a claim whose assertions the query was refused
(`query_memory.rs:83-88` reads a refused load as an empty list). `DecidesOnCurrent` exempts the
same on the write path of ingest, where only a failing statement causes it (`NeverRefused`). In
`PostgresStore` it speaks of rows of the writer's own process: the advisory lock is taken at
BEGIN, after the loads, so that two processes of one agent do decide on stale loads, which the
deployment rule of one process per agent excludes.

## 6. What hosts see

### Remembering, ending, reading

In `Admission` a host calls `remember`, or the MCP tool, with an `Offer`: a value, two dates as
texts, an origin, a cardinality, the binding it comes through. The call is one step: the request
is refused (`Refuse`), or stamped by the gateway and then found an echo of what was recalled
(`Corroborate`), rolled back because its lineage names no claim or one twice (`RollBack`), or
committed with the disposition of the gate (`Commit`). `Timeline` adds `EndFact` with the two
calls of `end_fact` at one instant, the entries of `query_history`, and the projection of
`query_memory`. `Trail` has the pages of `query_audit`, the edges of a claim and its lineage.
`Dates` has a year of two months of two days of two times: enough for every way in which a period
may begin, end or be shown too finely.

| Run | Instance | Shows |
|---|---|---|
| `admission` | two lines, fourteen offers, two ends, three lineages, four calls | history and recall agree on what holds now; belief does not depend on the order facts were told in; a derived fact displaces none told from outside that holds, and where ends and overlaps make a read fall back, none that is live and holds then; a receipt agrees with the next read; dates are shown as written and no finer; beliefs, ledger pages and lineages that were read stay so |
| `restated` | the same, two calls | a value told twice is contested (section 7) |

**Bounds.** Two lines, so that two orders of the same facts stand side by side in one state, which
is how `ArrivalIndependent` can be an invariant; it compares lines of two facts each. Four calls
are two on each line, or a succession of four on one, or three and an end. The offers have
each origin, cardinality, precision and binding, each way of being undated, open, closed, empty,
reversed or yet to come; five of them are refused. A refused request changes nothing, and is
offered in the initial state only. Everything is told by calls that run in clock order and one at
a time: `SubjectLine` and `Facade` have what comes between.

**What these properties do not say.** `DerivedNeverDisplaces` says that with the derived claims
nothing that holds now is missing that is believed without them. Of a read of another instant it
says so only where nothing was ended on the line, or where the windows of its live and ended
claims are a succession (`FallsBack`). Elsewhere the code may answer without what was ended, and
without live claims that do not hold at that instant, but not without a live one that does;
section 7 has a case of it, and the instance of `admission` reaches such states.
`HistoryAgreesWithRecall` exempts a believed fact whose window runs into one that is not believed.
`ArrivalIndependent` exempts facts told before they began, lines where something was ended, and
set-valued facts of several values: which of those is told Contested depends on the order, and so
does the status of the line (section 7 has all three; one set-valued value is on offer, so the run
meets only the first two). Of a set-valued line history may show a single member as Current while
recall gives no primary; nothing is claimed of that.

### Python

`PyBridge` has contexts that run Python code, one for each thread of the host and one for the
blocking thread on which that thread's ingest asks its oracle. Only the holder of `gil` runs;
every method gives the GIL away before it blocks on the engine. `lock` is the write lock of an
engine, `call` what each context is doing and what it is going to raise, `row` the pending table.
The oracle may call engines, return a handle it has returned before, or raise.

Four calls queue or settle a claim. An ingest queues the one it stores (`Store`), asks the oracle
and inserts the row. `Settle` is a verdict, which may settle a queued incumbent along with the
challenger, or the sweep's reversion of an orphan. `Reconcile` gives any set of stored claims a
disposition anew, and where the engine has an oracle queues any of them: `adjudicate` decides from
`oracle.is_some()` alone, no `request` is made and no row written. `Write` is `assert_validity`,
whose reopen may bring back a claim that a reconcile queued. A claim remembers who queued it last:
`"queued"` is its ingest, `"requeued"` a reconcile, and `status` is that of its row.

`OrphansAreTold` therefore promises something about ingests only. A queued claim without a row is
one whose ingest raised, or one that a reconcile queued; the sweep finds both (`Orphans`). It does
not say that whoever told a claim hears of its being queued: a reconcile lists it in its outcomes,
to its own caller, and an ingest that was answered long ago is not called back.

| Run | Instance | Shows |
|---|---|---|
| `bridge` | two threads, an engine that asks and one that does not, two handles, two ingests, every other call any number of times | every call returns, and the bridge never deadlocks (checked); a claim is left queued without a handle only if its caller got an exception or a reconcile queued it, and a handle leads to a claim only if its caller was answered |

**Bounds.** Two threads, with a context each for their oracles, suffice for each wait of one
context for another, with an engine on either side, and for a call that waits for the lock while
another queues or settles the claim it is about; two handles and two ingests for a handle that is
returned twice. Nothing but ingests is bounded.

**Fairness.** `SF` for each thread on the engine's steps and on getting the GIL: tokio's mutexes
are FIFO, and the interpreter hands the GIL over when asked. `SF` on the oracle's return, which
its contract ("non-blocking") asks for. `WF` on the switch between contexts. Nothing makes a host
call. The rule that an oracle calls no write of an engine that has an oracle is an assumption:
the ingest that asks holds its own engine's lock, so a write to that engine would wait for
itself. Rows do not expire, since the bindings set no TTL.

### The MCP server

Its tools go through the package. `Admission` and `Timeline` have what they do differently: what
they refuse, the precision they hand over instead of reading it off the text, the confidence they
pass, which provenance `end_fact` takes, and the reason they add to a belief that is no
commitment (`ReceiptTellsRead`, `WhatWasReadStays`). Its reconcile is `SubjectLine`'s.

## 7. Findings

Each of the first two is a run that TLC ends with a counterexample of what the repository says.

| Run | The repository says | The code does |
|---|---|---|
| `cancel` | `submit_adjudication.rs:172-176`: a duplicate finds the challenger resolved | the guards live in the future, the use-case in `spawn_blocking`: dropping the future frees the locks of a running submit, and a second one applies the verdict again |
| `restated` | `reconciler.rs:86`: a value-identical re-statement is not a contradiction | the second claim is committed as a live row, and `fold` counts two live functional claims as a conflict whatever their values (`truth_engine.rs:350`) |

Met while modelling, and not kept as runs:

*Lifecycle.* The orphan phase may revert a challenger between its commit and `insert_pending`,
whose row then exists (`sweep_adjudications.rs:12` against `:154`); it does revert orphans without
an incumbent, which `pending_adjudication.rs` says it skips. A sweep whose clock is older than the
orphan's entry reports it reverted although it stays queued until the next sweep. An affirm of
another challenger of a denied claim hides the denial, since only the latest entry is read
(`truth_engine.rs:468-473`). So does an Unknown verdict on it, whose entry for the incumbent says
Contested though it was denied (`submit_adjudication.rs:375-388`): the denied claim is an answer
and a rival again, and overlaps what was committed in between. After an Unknown verdict reconcile
may queue the challenger again, and since the row's `resolved` status is not read, its handle can
be answered twice (`reconcile.rs:222`). With an oracle, reconcile queues every live claim that
conflicts with another, a committed incumbent included (`submit_adjudication.rs:175-176`: the
incumbent "was never moved to QueuedForAdjudication"): A is told and committed, B contests it and
is queued under a handle, reconcile queues A, and no oracle is asked and no row written. Only a
later reconcile, a verdict on B, or the sweep, which reverts it as an orphan, settles it. An empty
list of subject lines is a no-op (`reconcile.rs:63-67`), where `dto.rs:94` and `_mempill.pyi:153`
say it reconciles all of them; `oracle_escalations` counts claims (`reconcile.rs:226-229`), where
`dto.rs:103` and `_mempill.pyi:158` say subject lines. An affirm moves the end a host had set.

*Bounds.* A bound at an instant to come takes the claim out of the fold at once
(`assert_validity.rs:242` against `dto.rs:170-171` and `truth_engine.rs:204-207`), and, not being active, lets a second bound at
another instant through (`assert_validity.rs:173` against `error.rs:113-115`). A call that waited
does not see bounds stamped after its own clock (`assert_validity.rs:387` says that cannot be). A
host's `Bound` on a quarantined claim replaces `Quarantined` as its latest disposition, and the
claim becomes an answer for its window (`truth_engine.rs:434-441`); once reopened it is live until
reconcile quarantines it anew. `end_fact` can be told
`AlreadyBound` when two hosts race, which `ergonomic.rs:921-924` does not expect.

*Reads.* History and recall: `compute_history_windows` takes the next entry by key whether it is
believed or not, and its stored window rather than the bounded one. A believed fact that runs into
a quarantined, ended or later-dated one is shown Contested and `current()` is none, while recall
is Resolved (`engine_handle.rs:365`: `history.current()` equals what recall answers). After an
undated fact was ended, the next fact is Contested with it in history, and its receipt may say
Contested where the next read finds no belief. A point-in-time read before the first window of an
overlapping line, or where a derived claim overlaps an ended external one, falls back to the
unnarrowed live set (`truth_engine.rs:527` against `CHANGELOG.md:124`). So a derived claim can
take the place of an external one in an answer about the past, where `gate.rs:111` says it never
overturns: A told from outside holds from 1 and was ended at 5, B was derived and holds from 3; a
read at 2 answers A if B is not there, and B, which does not hold at 2, if it is. The staleness of
a contested belief is never decayed although its currency is Decayed. `claim.rs:28` lets
set-valued claims coexist, `classify_conflict` ignores the cardinality and marks the second
Contested, so that x, x, y and x, y, x, of one window each, leave one line Contested and the other
not; Rust's recall of such a line gives neither a value nor candidates. A `RecallReEntry` without
lineage is committed and may contest a line silently; with lineage it is answered with the first
reference unchecked. `recorded_at` is not monotone in append order (`engine_handle.rs:282` against
`time.rs:24`). `query_audit`: the comments of `audit_ledger.rs` take `load_ledger` for
newest-first and reverse it, both adapters order by `recorded_at` ascending; the answers come
newest-first, the limit keeps the oldest and is applied before the filter by claim, and paging
with an inclusive `from` stalls where more entries than the limit share an instant.

*Stores.* A query that finds another's transaction open when it folds takes the refused load of
assertions for none (`query_memory.rs:83-88` against `README.md:150-151`). A failing BEGIN, COMMIT
or ROLLBACK leaves SQLite's slot empty for good (`txn.rs:48-77` against `store.rs:26-27`). The
lock refused after BEGIN leaves an open transaction on a pooled Postgres connection. The advisory
lock spans BEGIN to COMMIT, not the decision (`README.md:65-67`), and is `pg_advisory_xact_lock`,
not the function `agent_lock.rs:12` names. Cutoffs on TEXT columns in Postgres depend on the
collation. `valid_time_confidence` has no column; JSONB respells numbers. `derive_agent_db_path`
is not injective on case-insensitive file systems.

*Bindings.* Python's `remember` accepts an empty window that Rust's builder refuses, the MCP tool
also a reversed one, which is then quarantined. Python's `RecallResult` says the value is always
none for Contested, which a lone contested claim has; Rust's says so for TimingUncertain, which
has one. The MCP server's reason for Quarantined speaks of provenance and amplification where the
gate quarantines for temporal incoherence. Two MCP servers with one agent and directory are two
processes on one file, which only SQLite's own locks serialise. `oracle.rs` does not say that an
oracle must not write to its own engine. `open_default_for_agent` keeps the GIL while it opens.

Nothing writes `ServedAsInjected` or `DependentFlaggedPendingReview`, `supersession::execute` has
no caller, and every `derivation_depth` is 0.

## 8. Proofs

All theorems are proved by TLAPS for every value of the constants.

* `TypeCorrect` (`Spec => []TypeOK`). The sweep's `cur` is a claim whenever the call works on
  one, and that needs `ClaimInv` along with the types. No assumption but
  `AdjudicationAssumption`.
* `Exclusion` (`Spec => []MutualExclusion`), for callers that do not drop a running call
  (`~Cancellable`; with `Cancel`, the run `cancel` refutes what rests on it). Mutual exclusion alone
  is not inductive: `LockInv` ties every program counter between the first acquisition and the
  return to the locks it holds, and `StepInv` says which operation owns which step.
* `VerdictAppliedOnce` (`Spec => []VerdictOnce`), also for `~Cancellable`. The invariant is
  `IInv`. A verdict is written only by a call whose guard saw the challenger queued (`GuardInv`);
  the guard still holds at the write because no other task is inside (`LockInv`); a queued
  claim's only entry that counts is its first (`LedgerInv`), so a queued claim has no verdict,
  provided that no verdict is older than that first entry, which is the point of `TaskInv`: calls that
  adjudicate a claim read their clock after it was committed. Under Postgres the
  lock is the agent's, and `IncumbentInv` keeps the incumbent on the challenger's line, hence
  under the same agent.
* `PastImmutable` (`Spec => PastIsImmutable`). Every step appends rows stamped with its own
  instant (`Appended`), views as of an earlier instant keep their claims, ledger and effective
  assertions (`SameView`), and the reads depend on nothing else (`FoldDepends`,
  `NarrowedDepends`).
* `DeniedIsTraceless` (`Spec => []DeniedLeavesNoTrace`). It rests on an invariant: a claim with
  entries has a latest one, and a Deny's entry says Superseded.
* `SuccessionHoldsOnce`: at most one claim of a succession holds an instant. The code returns the
  first it meets; it is the only one.
* `TypesKept` and `ReconcileSettles` of `SubjectLine` (`TypeOK`, `ReconcileIdempotent`), for any
  offers, bounds and number of waiting calls. `LineInv` adds to the types that no two calls run
  with one instant, so that an instant names the call whose rows it is stamped on; it keeps
  under every action and under a tick of the clock, which is why `Facade` needs no invariant of
  its own for the line. A reconcile writes at most one entry for a claim, newer than all others, so the
  latest entry of a claim is that one or the one before (`LatestBecomes`), and either way the line
  reads as it did (`SameBelief`). That reads are well typed needs the incumbent `First` picks
  to exist: the least key of a claim is a least number (`LeastNat`, from the well-foundedness of
  the naturals), so `First` of a set that is not empty is in it and least (`FirstIsFirst`).
* `HistoryIsTold` (`Spec => []HistoryTellsThePast`), with any waiting calls. `BackwardInv`: a claim
  that ends before it starts was quarantined and nothing brings it back, so every window that is
  read is forward, and ends where the history says (`UntilOwnEnd`).
* `HandOverIsExact`, `NothingIsSilent` (`AffirmedHandsOver`, `NothingCommittedSilently`), for
  `MaxWaiting = 0`: calls take effect in the order of their clocks, which with waiting calls both
  properties fail for. `PromptInv` says what the four tables then tell of each other: a
  challenger is younger than its incumbent and coherent (`RowsInv`), as is every claim ever
  queued (`QueuedInv`); bounds and entries come in pairs (`ToldInv`); an incumbent that a verdict
  ended was ended at its challenger's start (`HandedInv`); a claim that was bounded last is told
  superseded (`EndsInv`). `SilentInv` is the silent pair without the window of the elder, which
  an ingest establishes because it measures itself against every claim that may re-enter, and
  every other call keeps because a bound it writes only narrows (`BoundKept`).
* `FacadeTypesKept`, `NothingHidden` (`FacadeTypeOK`, `NoneHidden`), for any hosts and
  waiting calls, from `FacadeInv`. `Close` is an `AssertBound` or writes nothing (`CloseIsACall`), so every
  invariant of the line carries over (`FacadeLineStep`). What recall hides is decided by how many
  claims it folds: where it gives a value, that is all there is (`UncontestedIsOne`).
* `OneHostCloses`, `EndedForGood` (`OneCloses`, `EndedStaysEnded`), for `MaxWaiting = 0`.
  `ClosedInv`: a host that was told it closed the fact wrote the end, at its own instant, hence
  the second of two such hosts found the first one's end taken back. `EndedInv`: unless
  something brought it back, that end is the last word on the claim, so its window stops there,
  or the claim is out of the fold.
* `NeverRefused`, `CurrentDecisions`, `WholeAnswers`, `StoreTypes` of `SqliteStore`, all from
  `IInv`, and that from `SqliteStoreAssumption` only. `StepInv` ties a write call past its
  acquisition to the lock, hence there is one (`OneWriter`), and the file changes only by its
  steps; `TxnInv` says that the connection is out only for a transaction, and what that
  transaction holds; so `LoadInv`, what the call has loaded so far, stays equal to what the file
  says. `FileInv`, that the file holds whole transactions, makes `QueryInv` inductive: a query
  that loads the ledger after the claims finds the entry of each claim.
* `SettledOneWay`, `RowsFollowLedger`, `AffirmedDisplaces`, `VerdictSettles`
  (`ExpiryExcludesVerdict`, `RowTellsOutcome`, `AffirmDisplaces`, `VerdictTakesEffect`), for
  `~Cancellable`, from `SettleInv`. To `IInv` it adds what an expiry knows: a row is due no
  earlier than its challenger was queued, and an expiry works on rows due at the instant it has
  read (`DueInv`), so that its entry outranks the first one as a verdict's does (`ExpiryInv`).
  Hence a challenger that is still queued has neither, and whatever settles it has found it
  queued (`GuardInv`). `MarkInv` carries what a call has written to the row it marks next;
  `AffirmInv` keeps the incumbent of an affirmed challenger bounded and its row unchanged.
* `ImplementsOutcome` (`Spec => Outcomes`), for `~Cancellable`: the step simulation of
  `AdjudicationOutcome`. Only the three steps that append to the ledger can change an outcome.
  Such a step is about one claim (`OwnOutcome`), and only an answer touches another, its
  incumbent, which is displaced if it was queued (`OtherOutcome`). `FirstInv`, that the first
  entry of a claim is its ingest's, is all it needs beyond `IInv`.
* `MutexedDecisions`, `WholeReads`, `GaplessNumbers`, `NeverAllWaiting` of `PostgresStore`
  (`DecidesOnCurrent`, `AnswersWhole`, `Numbered`, `SomeoneGoesOn`), from `IInv` and
  `PostgresStoreAssumption`. An entry of the map is never replaced, so equal agents of one
  process have equal mutexes (`MutexInv`) and what a writer has loaded of its process' rows stays
  all there is (`LoadInv`). Whoever is inside a transaction holds the advisory lock
  (`AdvisoryInv`), so the largest number it read stays the largest (`NumberInv`). A mutex
  is held by a call that goes on or waits for an advisory lock, whose holder waits for nothing.
* `ImplementsPort` of `SqliteStore` and of `PostgresStore` (`Spec => KeepsPort`): the file
  changes by a commit, which adds the rows of one call with an entry and at an instant no row
  has, or by a pending row, whose claim is there.
* `OpenedFilesAreCurrent` (`Spec => []OpenedIsCurrent`) of `Storage`: the schema is that of
  some version at every step, because a migration reads the version it starts from after it has
  the write lock (`Migrating`).
* `OrphansAreAlwaysTold` (`Spec => []OrphansAreTold`) of `PyBridge`, from `IInv` and
  `BridgeAssumption`, with reconciles, reopens, verdicts and sweeps in any order. An ingest owns the
  claim it works on until its caller is told (`IngestInv`), and only while its worker runs does its
  thread ask (`BridgeInv`). What an ingest knows of its claim (`Knows`), that the handle it has
  inserted leads to it (`Reached`), or that there is none, stays true while others run: no step of
  another call makes a claim queued by its ingest, gives it a handle or tells its caller, since
  what a reconcile queues bears its mark, and a row, once inserted, stands for its claim for good
  (`Grows`, `RowInv`). What was known when the call returned is what its caller was told
  (`Truly`, `ToldInv`).

* `RowsReadBack` (`Spec => []ReadsBack`) of `Storage`, from `NullAssumption` (no number and no
  spelling is Null) and `OfferAssumption` (records fit their tables; an older release has nothing
  in columns that `ALTER TABLE` added). The texts of instants are ordered as the instants
  (`TextOrder`), so a cutoff in a query selects what it would among the values; spellings of one
  column differ (`SpelledApart`); and what is stored is what was given, in the columns
  the schema then had (`ColumnsOf`, `StoredInv`).

The remaining theorems are about `Admission`, `Timeline` and `Trail` together (`TimelineSpec`):
whatever hosts offer and end, of any dates, on any lines, in any number of calls. The assumptions on
the constants say their types and that the dates on offer stand for instants before `Never`.
`MemoryInv` carries most of them: a claim is a stamped offer; a call writes at most one entry, so an instant names an entry; and the
first entry of a claim is the one it came with.

* `DerivedDisplacesNothing` (`DerivedNeverDisplaces`), with the exemption of section 6. Of a line
  that is no succession everything live is believed, and of one that is, what holds; fewer facts are
  a succession if more are (`FewerSucceed`). So what holds and is live is kept in each of the four
  cases of the two lines, with and without the derived claims (`NothingDisplaced`); and a read
  of an instant loses anything only from a succession to a line that falls back.
* `HistoryAndRecallAgree` (`HistoryAgreesWithRecall`), from the same facts. The next
  entry of a history is the first by key of those that follow (`FirstOfClaims`).
* `ReceiptsTellReads` (`ReceiptTellsRead`). `ReceiptInv`: until the next call, a receipt tells what
  the gate decided of the line without the claim. That is how a decision of one call can be
  compared with a read after it.
* `DatesAsWritten` (`DatesShownAsWritten`). A part of a date is found again by division with
  remainder (`PartFound`, `DayOfDate`), which is the only arithmetic here that is not linear. `EndsInv`
  says in which text an end was told that a claim now has.
* `ReadsStay` (`TimelineSpec => WhatWasReadStays`). A call stamps all that it adds with its own
  instant (`Grown`), and what was read was read before that. Lineage is a recursive function over
  levels: that its levels exist, and are the same before and after a call, is shown by a least
  counterexample (`LevelsExist`, `SameLineage`, from `LeastNat`). It needs `TrailInv`: an edge
  joins claims that are there, and the ledger is finite.
* `OrderDoesNotMatter` (`ArrivalIndependent`). Two lines are compared that were never in the same
  state, so it takes an invariant that forgets the order. `OrderInv`: an entry that says Contested
  was told against another value, among facts that are no succession; facts that are no
  succession never become one. So a line with such an entry is Contested by what it holds, not by
  what came first. The rest compares sets of claims: what one line was told once or twice the
  other was (`Embeds`), and every read looks at two claims at a time (`EmbedsTells`). The proof
  failed at first for set-valued facts, which have such an entry without being a conflict; TLC
  found the two orders on an instance with two set-valued values, hence the exemption.

Only model-checked is liveness (`CallsReturn`, `Settled`, `HostCallsReturn`), which is out of the
prover's reach. Every other property of a run that passes is a theorem, some of them under the
restrictions named above (`~Cancellable`, `MaxWaiting = 0`).

## 9. Not modelled

* the conformance and unit tests, which were read as documentation;
* `supersession::execute` and the cascade over `DependsOn` edges, which nothing calls;
* confidence decay and corroboration arithmetic, of which only the trust threshold matters here;
* the wording, order and layout of answers, the order of `query_audit`'s entries among them;
* configuration and start-up of the MCP server, and Postgres' migrations, which are refinery's;
* assumptions about time: the clock never goes back, and no two calls of `SubjectLine`, `Admission`
  and the stores read the same instant (`Adjudication` allows that).

## 10. Plan

1. `Facade` with waiting calls, for which `OneCloses` needs the code's answer to the race first.
2. Verdicts and waiting calls in `Admission`, so that `ReceiptTellsRead` covers receipts whose
   line changed between the call's clock and its lock.
3. A refinement from `Admission` to `SubjectLine`, which now share `Belief` but no theorem.
