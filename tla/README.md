# VeritasQuant in TLA+

This directory models the parts of VeritasQuant that are hard to test: the
stores of a partition under overlapping database transactions, the order state
machine under execution reports that come late, twice and out of order, the
commits that touch several stores at once, job runs and commands under racing
callers, the state stream, the delivery of events and messages, broker orders
whose answers are lost, and files that are written while processes die. TLC
checks the models on small instances, TLAPS proves the main invariants for every
value of the constants. Paths below are relative to
`VeritasQuant/src/veritasquant`.

## The system

VeritasQuant replays market data through strategies and risk rules into orders,
books what brokers report, and persists what happened as facts of a partition
(an account group of one run). The repository also holds an HTTP server, a
graphical client, batch jobs and a small quote server in Go.

| Component | State | Operations | What is hard | Correct when |
|---|---|---|---|---|
| Lease (`infrastructure/persistence/LeaseStore.py`) | a row per account group: holder, fencing token, expiry | acquire, renew, release, guard | expiry between check and write, takeover, reuse of tokens | only the process granted the lease last starts a write |
| Inbox, events, outbox, checkpoint (`infrastructure/persistence`) | `inbox_records`, `inbox_conflicts`, `fact_events`, `outbox_records`, `partition_checkpoints` | accept, append, latestDeliverySequence, enqueue, publishPending, save | READ COMMITTED overlap of two writers, crash between callback and mark, two publishers | an input counts once and whole; sequences are dense; messages go out at least once, in order |
| Planning and recovery (`core/Fanout.py`, `core/Recovery.py`, `core/Checkpoint.py`) | none of their own | plan, recover, rebuild | which writes share a transaction | a restart can replay up to its checkpoint |
| Order state machine (`execution/OrderStateMachine.py`) | latest snapshot of each order | createIntent, transition, reconcile | crossing cancel and fill, late fills, what is stored | terminal orders stay, quantities are kept |
| Report processor (`execution/ReportProcessor.py`) | applied ids, executions, last sequence, gap buffer, pauses, isolation | process, applyVerifiedSnapshot | duplicates under other ids, gaps, nested application, errors half way | each execution counts once, the sequence never skips |
| Atomic boundaries (`risk/AtomicRisk.py`, `execution/AtomicExecution.py`) | the shared order machine, `accounts/Reservation.py`, `accounts/Ledger.py`, `core/Transaction.py` | commitApproval, commitRejection, commitExecutionReport | a write that fails after others, and the retry | order, reservation, ledger and facts agree |
| Settlement book (`accounts/Securities.py`) | positions, pending lots, applied splits | recordBuy, settleThrough, recordSell, applySplit | late fills, repeated settlements, splits between | nothing is sold before it settled, nothing twice |
| In-memory transactions, Redis transport, inbox (`core/Transaction.py`, `infrastructure/messaging`, `core/Inbox.py`) | outbox, stream, pending entries, inbox | commit, publishPending, consume, acknowledge, accept | a handler that fails, readers that stop and share a name | no message is lost or applied twice, the order is kept |
| Event bus (`core/EventBus.py`) | subscriptions, isolation, delivered ids | subscribe, deliver | a consumer failing half way | a delivered event was seen as its policies say |
| Group workers (`application/AccountGroupWorker.py`) | state of each group | processEvent, fanOut, stop | threads over groups, one account failing | a failure stays in its group |
| Broker gateway and session (`broker/BrokerOrderGateway.py`, `BrokerSession.py`, `LiveBroker.py`) | mappings, outcomes, sessions, submissions of the last second | submit, authenticate, revoke, submitOrder | lost answers, resubmission, sessions that end between | an order is not sent twice, nor without a session |
| Job scheduling (`application/Scheduling.py`) | job runs with status and fencing token | scheduleRun, claimNext, start, succeed, fail, retry, cancel | reads and writes that interleave, dead workers | one worker runs a job, terminal runs stay |
| Command resources (`application/CommandResource.py`, `CommandStore.py`) | commands by idempotency scope | submit, transition | two submissions of one key, two transitions of one read | one command a key, answers that stand |
| State stream (`application/StateStream.py`, `apps/server/StateStreamRoutes.py`) | retained events, subscriptions and their backlog | open, deliver, poll, revoke, close | replay against live events, three limits, disconnects | a client sees every event after its cursor once |
| Request limits (`application/Security.py`) | a token bucket for each route and principal | consume, retryAfterSeconds | rounding, two readings of the clock | a bounded rate, and a wait that suffices |
| Files and migrations (`data/RawObjectStore.py`, `data/ParquetFile.py`, `infrastructure/persistence/Migrator.py`) | content-addressed files, column pages, `schema_version` | storeBytes, storeBars, write, read, applyPending | a process that dies half way, racing writers, byte counts | complete files, columns read back, versions in order |
| Alerts (`risk/AlertCorrelator.py`) | lifecycle of each alert, waiting versions | process, applyVerifiedSnapshot | versions out of order, snapshots | versions in turn, ended alerts stay |
| Liquidity (`execution/Liquidity.py`) | the pool of a bar | allocate | one rounding among caps, lots and the pool's end | the order of keys is kept, nothing is given twice |
| Risk rules and controls, funds, signals, strategies, reporting, approvals, applications, Go server | see `PROJECT.json` | | sequential or pure I/O | unit tests reach them |

Who calls whom: an event is planned for its partitions (`Fanout.plan`); a writer
that holds the lease records it (inbox, fact, outbox, checkpoint) in one
transaction; a publisher hands pending messages to a callback. Reports go through
`ReportProcessorV1` to the order state machine; risk decisions and fills go
through the atomic boundaries, which share the order machine, the reservation
book, the ledger and the transaction store by reference. In this repository no
program puts stores, processor and boundaries together. `Recovery._applyWork` puts
the facts and the outgoing message of one input into one in-memory transaction and
the checkpoint after them; the database stores are each tested alone, and that
inbox, fact, outbox and checkpoint of an input share one database transaction is
what the technical specification (section 6.1) asks for, so `PartitionWriter`
composes them that way. Processor and boundaries are modelled apart, each over the
order machine it is given. The server's parts (jobs, commands, stream, limits,
files, migrations) share no state with each other.

`PROJECT.json` lists every hazard at its line.

## Modules

| Module | Models | Variables |
|---|---|---|
| `LeaseStore` | the lease row and `LeaseStoreV1`'s statements | `now`, `lease`, `held` (the `LeaseV1` a process keeps), `owner` (history) |
| `PartitionWriter` | EXTENDS `LeaseStore`: writers' transactions statement by statement, publishers | `tx` (the open transaction of each writer), one variable per table, `batch`, `marked`, `handed` of each publisher, `delivered` |
| `PartitionLog` | what those stores promise together, abstractly: an append-only log, its checkpoint, in-order first delivery | `log`, `checkpoint`, `delivered` |
| `OrderStateMachine` | `OrderStateMachineV1`: the transition table and what a transition stores | `orders` |
| `ReportProcessor` | EXTENDS `OrderStateMachine`: `ReportProcessorV1` | the processor's dictionaries under their names; `chained` and `drain` are the position inside a running call; `filled`, `times` (history) |
| `AtomicCommit` | EXTENDS `OrderStateMachine`: both boundaries over machine, reservations, journals, facts | `orders`, `reservations`, `consumption`, `journals`, `cash`, `facts`, `failed` (history) |
| `JobScheduling` | `ScheduleService` over `InMemoryJobStore` | the stored runs, each actor's call between its read and its write, `executing`, `starts` (history) |
| `Commands` | `CommandService` over `PostgresCommandStore` and the V2 trigger | the rows, the clock, each caller's call, the answers (history) |
| `SubmissionRegister` | abstractly, what `submit` promises: one command and one answer a scope | `written`, `receipts` |
| `StateStream` | `StreamService`, its event source and the route's generator | `produced`; of each client `stream`, `pending`, `batch`, `received`; `since`, `resumed`, `missed`, `barred` (history) |
| `RequestLimits` | `TokenBucketRateLimiter` as `authorize` calls it, tokens in parts and time in ticks | `clock`, `tokensLeft`, `lastRefill`, `refused`; `retryAt`, `window`, `admitted` (history) |
| `ObjectStore` | `RawObjectStoreV1`, and `ParquetStoreV1`'s reuse of it | the files, the storers' positions, the references returned |
| `SchemaMigration` | `Migrator` with its advisory lock and scripts that commit themselves | the lock, each migrator's position, scripts run and versions recorded |
| `BrokerOrders` | gateway, sessions, credentials and the live adapter | mappings, outcomes, records, credentials, sessions; the credentials revoked by the manager, what was sent and answered (history) |
| `EventBus` | `DeterministicEventBusV1` | subscriptions, the consumers still due, isolation, calls that returned (history) |
| `GroupWorkers` | worker pool and groups | state, rank and failures of each group; what was handled (history) |
| `MessageDelivery` | transaction store, its publisher, the Redis stream and its readers, the inbox | outbox, stream, delivered and unacknowledged entries, each reader's batch, inbox, `applied` (history) |
| `Alerts` | `AlertCorrelatorV1` | lifecycle, content hashes, waiting versions |
| `Liquidity` | the shared pool and the allocator | consumed quantity, the orders yet to serve, the plan |
| `Settlement` | `SecuritiesSettlementBookV1`; a split by n/d leaves a fraction exact, as `Decimal` does, since positions are counted in parts of a share | `parts` of a share, positions, pending lots (in shares), applied splits; bought and sold (history) |
| `ColumnPages` | the pages of `writeParquetBytes` and their decoding in `readParquetSummary`, byte by byte | the written columns, the bytes, the reader's cursor and result |
| `MCPartition`, `MCReports`, `MCCommit`, `MCStream`, `MCLiquidity`, `MCPages`, `MCServer`, `MCTrading` | constants for TLC; `MCServer` EXTENDS `MCCommit` and `MCStream`, `MCTrading` EXTENDS `MCLiquidity` and `MCPages`, and both choose one of several parts that share no state | `part` |
| `FunctionLemmas` | lemmas about functions defined by recursion: the community modules' `SumFunctionOnSet`, for the proofs of `AtomicCommit`, `Liquidity` and `Settlement`; recursion on a measure, for those of `ColumnPages` | |
| `PartitionWriter_proofs`, `OrderStateMachine_proofs`, `ReportProcessor_proofs`, `AtomicCommit_proofs`, `Server_proofs` (the parts of `MCServer` but the commits), `Trading_proofs` (the parts of `MCTrading` but the pages), `ColumnPages_proofs` | theorems and proofs | |

How code and model correspond:

- **Partition.** `Accept`, `InsertInbox`, `PlanSequence`, `AppendFact`, `Enqueue`
  and `Commit` are the statements of one work unit, in the order of
  `core/Recovery.py`'s `_applyWork`. A statement is one step, since another
  connection may run between two of them. Uncommitted writes are in `tx[p].own`
  and seen by their writer only; what PostgreSQL does where two transactions
  meet (an INSERT waits for the other's row; a unique constraint fails) is a
  guard (`Waits`, `SequenceFree`). `now()` inside a transaction is its start
  time, so `Passes` reads the lease as it is but the clock as it was. `Abort`
  and `Crash` may happen at every statement. `save` is part of `Commit`: it has
  no guard, and its effect shows only then. A duplicate delivery changes nothing
  and is no step. Conflicts are recorded outside the guard, as in the code; in
  the model that transaction too may abort, which covers a caller whose own
  transaction is rolled back by the `InboxError`.
- **Publishers.** `Fetch`, `HandOver`, `Mark`, `CommitMarks` are the loop of
  `publishPending`; `HandOver` is the callback returning, the point of no return.
- **Orders.** A transition that raises changes nothing and is no step. `Store`
  keeps the code's rule that a snapshot of the same state is not stored.
  Versions are in the state, but the callers modelled read the current version
  just before the call, so a version conflict cannot happen here.
- **Reports.** One `_apply` is one step. Python runs `process` alone, so while
  `chained` or `drain` says that a call is under way nothing else is enabled.
  Duplicates, stale sequences and conflicts are only audited and are no steps.
- **Boundaries.** One commit is one step with the outcome its first failing
  write leaves. Orders get here through risk, which names them `order-...`, so
  the sale branch of `_buildJournal` (prefix `SELL`) cannot be taken. Quantities
  and amounts are naturals; prices enter as the amount of a report.
- **Jobs.** `start`, `succeed`, `fail` and `cancel` are a read (`StartRead`,
  `ReportRead`, `CancelRead`) that prepares the new run, and a write
  (`JobWrite`) that the store checks; anything may happen between. `claim` is
  atomic in the store and one step.
- **Commands.** `submit` and `transition` likewise read and then write; the
  unique scope, the compare-and-set on `updated_ts` and the trigger that wants
  it to grow are the guards of the write. `Abandon` is a server that dies between.
- **Stream.** Each call under `StreamService`'s lock is one step; the generator
  sends event by event and polls when it has sent all. A client that was told
  its cursor is too old starts afresh, without a cursor. `Open` does not ask who was
  revoked, since `open` does not: `revokePrincipal` closes what is active, and that a
  revoked principal cannot come back is left to the route's `principalProvider`.
  `StreamRevoked` therefore speaks of the time until a client opens again.
- **Delivery.** `Publish` adds the entry and marks it, `PublishFails` adds it
  and does not; Redis is modelled as the code uses it: one consumer name for all
  readers, new entries and pending ones read alike.
- **Bus, workers.** One handler's return or failure is one step. The bus is
  driven by one caller; the groups of a pool run side by side and may be stopped.
- **Broker.** `GatewaySubmit` is one call with its outcome chosen by the
  simulation flags; `Lost` is the answer without a broker id that the gateway
  gives when the broker does not, and the adapter's `simulateUnknown` branch, which
  never reaches the gateway. Orders either go to the gateway directly or by the
  adapter, as in the code. `RevokeCredential` is the manager's `revokeCredential`;
  `WithdrawCredential` is a credential that only the resolver loses, by its own
  `revoke` or in a key service: sessions made with it stay live, and the manager can
  no longer revoke it. `BrokerSendsAuthorised` excepts those.
- **Liquidity.** `Serve` is one turn of `allocate`'s loop, `Share` its minimum of the
  order's cap, what remains of the order and what remains of the pool. An order's
  participation rate is any number: `OrderAllocationInputV1` does not check it. The
  key (`AllocationKey`) is the tuple of the code: the lower limit first for buys too,
  and group and account before the ordering key, where a test and the module's header
  say otherwise (two findings); `LiquidityShared` holds the code to its own key.
- **Alerts.** An event is one that `AlertEventV1` builds (`Buildable`): version 1 is
  not terminal. The first event of an alert may have any version, as in `process`.
- **Files.** The open, each half of the write and the check of an existing file
  are steps of their own, and a process may die between.
- **Pages.** `WriteColumn` is one column's `_encodeColumnPage` and
  `_pageHeaderBytes`, guarded by what `struct.pack`, `_encodeDecimal128` and
  `bytes` raise for; `ReadColumn` is the next column of `readParquetSummary`, from
  the cursor it keeps. Both work on bytes, with every varint, sign and level bit.
  The loops of the code are recursive functions. A decimal has digits and places;
  `_encodeDecimal128` scales it, which rounds to the digits of Python's decimal
  context, refuses what is then no whole number, and `_decodeDecimal128` scales
  back, which rounds again (`Scalable`, `Scaled`, `Restored`). A column has a kind (how
  its values are encoded) and a scale; column names, the precision of timestamps and
  UTF-8 are left out, and so is the footer, but for the row count, `numRows`.

## What TLC checks

| Run | Instance | Shows |
|---|---|---|
| `partition` | 2 writers with own holder names, 2 keys (one with two contents), 1 publisher with batch 2, TTL 1, clock to 1, tokens to 2 | the gate; an input whole or absent; dense sequences; covered checkpoint; marked was handed over; accepted content stays; refinement of `PartitionLog` |
| `outbox` | 1 writer, 2 publishers, 2 keys | every committed message is at last marked |
| `lease_reissue` | 2 processes of one host name | violated: the gate admits a process that lost the lease |
| `checkpoint_back` | 2 writers, clock to 2, tokens to 3 | violated: the checkpoint goes back |
| `reports` | 1 order of 2 units, 2 accounts, 7 reports | buffered reports lie beyond a gap; fills accounted; the machine never ahead; one application per execution; the sequence never skips; terminal orders stay |
| `full_order` | 1 order of 3, three partial fills | violated: all filled, still PARTIALLY_FILLED |
| `snapshot` | 3 silent reports, two of them consecutive | violated: the verified snapshot stops half way |
| `rollback` | orders of 2 and 1, 5 fill reports, a resent execution, a shared report id, cash 4 | violated: a failed commit leaves its first writes |
| `server` | 2 workers, 2 cancellers and 2 runs of one execution key; 2 callers, 2 payloads of one scope; 3 storers, 2 contents; 2 migrators, 3 versions; a bucket of 2 tokens of 4 parts; a stream client of one account of two, 6 events, a backlog of 2, window and retention 4; the commits of `rollback` | exclusive execution, bounded starts, moves along the table or a named race; the submission register, moves along the flow, answers that stand; complete files; migrations in order; bounded rate; the stream exact but for what a cut replay leaves out, silent after a revocation, delivered; decided and reserved, journals backed, reservations kept |
| `stream_replay` | 2 clients (one account, all accounts), 4 events, a backlog of 1, window and retention 2 | violated: a client that resumes inside the window misses a retained event |
| `trading` | 2 orders, 2 sessions, 3 sends; 4 consumers of all policies, 3 events; 2 groups with 3 accounts, 3 fan-outs; 3 messages, 2 readers; 1 alert to version 4; 6 orders on a pool of 5; 2 securities, 2 trade ids, 2 dates, quantities 1 and 2, a split and a reverse split, no buy beyond 3 parts bought; columns of 1, 8 and 9 rows of every kind | sent once and authorised, answers agree; calls exact; groups see every event; nothing lost, in commit order; alerts in turn; liquidity shared; settled before sold; columns read back |
| `alert_revived` | 1 alert to version 4 | violated: a snapshot revives a resolved alert |

**Bounds.** `MaxTime` and `MaxToken` stop clock and takeovers; every other set is
finite because inputs are. Two writers are enough for each lock, constraint and
race here, all between two transactions on one row or one sequence; one expiry and
one takeover give a stale writer inside the partition together with the new owner.
Two keys give a sequence to collide on, and a batch of two gives a second message
that can fail. For reports, seven contents in any order and number give a gap, a
buffered duplicate under another id, a crossing cancellation, an overfill and two
accounts that share an order. `SwapWriters` permutes writers together with their
own names: no definition tells them apart. In `server`, two actors of each kind
race for one run, scope, file or lock, three attempts pass the limit of a run,
nine ticks refill the bucket and wait out a Retry-After. Its stream
has the default proportions, a window of twice the backlog: six events overflow the
backlog and fall out of window and retention, and are enough for a client that saw
the first to be replayed two of the next four and to be sent the last. No other
client matters to a property of one client: what a client is sent depends on
nothing of another's. The fills of the commits come again, under a new report id
and under one that was used. In `trading`, three events give
one before, at and after an isolation or a stop; entries may be repeated once;
versions to four give a gap of two, a redelivery behind it and a version beyond;
two quantities and three parts bought (`MaxBought`) give lots of unlike size, an
id bought again after its settlement, and splits before, between and after them;
nine rows are a second group of definition levels and, as 16-byte values, a page
size of two bytes; a context of three digits stands for the 28 of Python's, with
decimals of up to five digits that round down, up, from a tie and over a power of
ten; the six orders have rates below, at and above one. The proofs below remove
the bounds for what they cover. Deadlock checking is off because each instance
runs out of inputs, time or tokens.

**Parts.** `MCServer` and `MCTrading` put parts side by side that share no
state. Their interleavings would only multiply states, so a behaviour runs one
part, chosen at the start; each property reads the variables of one part.

**Assumptions on the configuration.** Nothing is assumed of how the stream's
backlog, window and retention compare, of an order's participation rate, or of the
digits a decimal has: the properties say what holds in each case. `RequestLimits`
takes clock readings in order: the middleware calls `authorize` on the event loop,
one call at a time.

**Fairness.** `outbox`: `publishPending` is called for ever (weak fairness of
`Fetch`) and a callback, UPDATE or COMMIT retried without end succeeds at last,
for each message (strong fairness, since a failing batch disables them in
between). Fairness of a publisher's steps alone is too weak: a batch whose second
message always fails rolls back the first for ever, and the code has no
dead-letter path. `server`, of the stream: weak fairness of `Send` and `Poll`, since the
generator of a connected client polls every 0.2 s; a client that disconnects
takes what it was owed with it. Nothing is assumed of writers, leases, workers,
readers or time.

**Disagreements** between code and its own documentation or tests met on the way
are `findings` in `PROJECT.json`; seven of them are shown by the violation runs.

## What is proved

`tlapm` checks every proof to the last leaf. Assumptions are the named ASSUMEs of
the modules (`LeaseConstants`, `WriterConstants`, `OrderConstants`, ...); beside
types they ask that executions, candidates of a bar and securities are finitely
many, as the code's dictionaries and lists are, and (`ColumnConstants`) that a
file has rows and only an optional column lacks values in some.

- `PartitionWriter_proofs`. `TypeCorrect`. `GateExclusive`: the row always names
  the last grantee with its own token; it takes injective holder names as a
  hypothesis, which is what `lease_reissue` lacks. `InputsAreAtomic`: an open
  transaction that owns one of the three rows owns all it has passed and no
  other transaction owns a row of that key, so COMMIT adds all three rows of a
  key or none (`WriterInv`). `SequencesAreDense` and `CheckpointIsCovered`: a
  written, uncommitted fact holds MAX + 1 and is the only one (`PlannedSequences`),
  though the plan may be stale. `AtLeastOnce`: what a publisher holds is
  committed, what it marked was handed over. `FirstContentStays`.
  `StoresImplementLog`: the refinement of `PartitionLog`. Under the mapping, the
  log lists the keys by their delivery sequence; COMMIT of a new input is
  `Record`, one that found its rows there already may move the checkpoint inside the log
  (`Rewind`), the first hand-over of a message is `Deliver`, all else stutters.
  That messages are first delivered in the order of the log needs `OrderInv`:
  outbox sequences are drawn in the order in which facts commit, because the
  unique `delivery_sequence` lets only one open transaction hold a new fact, and
  whatever is older than a fetched message was handed over or precedes it in its
  batch.
- `OrderStateMachine_proofs`: lemmas on what each kind of transition stores, used
  by the two modules that extend the machine.
- `ReportProcessor_proofs`. `ReportsTypeCorrect`, `FillsStayAccounted`,
  `MachineNeverAhead`, `ExecutionsCountOnce` come from one invariant on the
  books (`BooksInv`): every execution applied is known by the cumulative
  quantity of its order, so one that is applied again from the buffer would miss
  its increment and is quarantined. `BufferStaysAhead` and `SequenceAdvances`
  come from an invariant on the gap buffer and the running call (`GapInv`).
  `TerminalOrdersStay`.
- `AtomicCommit_proofs`. `CommitTypeCorrect`, `NoneUndecidedOrUnreserved`,
  `JournalsAreBacked` from `IInv`: the types, the machine's `OrdersInv` and the
  two properties together. `ReservationsAreKept`: an execution counts when
  nothing is recorded for it yet, so its order's total and the sum over the
  order's executions grow by the same amount, or neither does.
- `FunctionLemmas`. The sum of a function over a finite set loses what an element
  taken out had, splits over two parts, scales, and does not depend on the order
  in which the library's recursive function takes elements out. There is no
  induction here: a set for which a claim fails would have a smallest subset for
  which it fails, and set inclusion below a finite set is well founded. The same
  argument, on the intervals up to a measure, gives induction over naturals and that
  a recursive definition whose every step goes to a smaller measure has exactly one
  solution (`RecursionExists`, `RecursionUnique`). The library's own theorems on this
  take operators as parameters, which these provers cannot instantiate; these lemmas
  take sets and functions.
- `Server_proofs`, jobs. `JobExclusiveHolds`, `JobMovesAlongTableHolds` from
  `JobInv`: a write under way carries the token its read saw, tokens are never
  reused, and a worker executes only under the token of its run or a superseded
  one whose writes the store refuses. `JobStartsBoundedHolds` from `StartsInv`:
  a start is paid for by a claim, a claim by a failure that counted.
- `Server_proofs`, commands and stream. `CommandAnswersStandHolds`, `CommandMovesAlongFlowHolds`
  from `CommandInv`: a prepared write names an earlier state of its row, and a
  row that changed has a later `updated_ts`. `SubmissionsRegisteredHolds`: the
  refinement of `SubmissionRegister`, step by step. `StreamExactHolds` and
  `StreamRevokedHolds` from `StreamInv`: what a client was sent, what its generator
  holds and what is pending for it continue one another without a gap but for what
  its replays left out (`missed`), and nothing else that it follows lies behind the
  last of them while its subscription is active. A replay leaves out nothing when the
  window fits into backlog and retention, and when it fits into the retention alone,
  only events behind a whole backlog of replayed ones: `eventsSince` answers the
  oldest, which a counting argument bounds.
- `Server_proofs`, files and limits. `ObjectStoredHolds`; `MigrationsInOrderHolds` from
  `MigrationInv` (who holds the lock is the only one between its script and its
  record); `RateBoundedHolds` from `LimitInv`: what was admitted and what is left
  is paid for by a full bucket and the time up to the last refill, in parts, for
  any capacity and rate.
- `Trading_proofs`. `BrokerSendsOnceHolds`, `BrokerAnswersAgreeHolds`,
  `BrokerSendsAuthorisedHolds` (`BrokerInv`: mapping, outcome, record and
  answers of an order name the same broker id, and no live session has a credential
  that `revokeCredential` revoked); `AlertInTurnHolds`;
  `DeliveryInCommitOrderHolds`, `DeliveryLosesNothingHolds` (`DeliveryInv`: marks
  are a prefix, so an entry is only added when all before it have one; what the
  group was given waits for its acknowledgement or is in the inbox);
  `BusCallsExactHolds` (`BusInv`: the calls that returned are those owed but for the
  consumers still due, and every one of them comes before those);
  `GroupsSeeEveryEventHolds` (`GroupInv`: a group at work on an event has handled
  exactly the ranks below the running one; one that is done with it handled all
  ranks, or those below a failed one, or was turned away);
  `LiquidityIsShared` (`LiquidityInv`: the keys order the candidates strictly, all
  in the plan come before all yet to serve, and one that got less than both its cap
  and what remains of it emptied the pool for those behind it); `SoldWasSettled`
  (`SettlementInv`: the pending lots of a security hold at least all that was bought on or after the
  latest settlement date, in parts, so that what is sellable or sold was bought
  before it; a late fill adds to both sides, and a settlement for an earlier
  date takes no lot of those).
- `ColumnPages_proofs`. `PagesReadBack`: reading inverts writing, for any columns,
  rows and values that fit their width, so for pages of any size and headers of any
  length; a decimal comes back as the number it was, rounded to the digits of the
  context. Each recursive definition of the module is first shown to define a function
  (`VarintDef`, `ReadVarintDef`, `ReadHeaderDef`, `LittleDef`, `SignedDef`; the
  readers' measure is what the file has left). Then each layer is read back from
  any place of a file that holds it (`HoldsAt`): varints (`VarintReadBack`), headers
  (`HeaderReadBack`), level bits (`LevelsReadBack`), numbers (`SignedLittle`) and
  strings, and the rows of a page, whose places follow from the lengths found on
  the way (`DecodedReadBack`). `PagesInv` puts the pages one after the other:
  somewhere there are starts, each a page behind the one before, the file holds each
  column's page at its start, and the reader is at the start of the column it
  reads next. Decimals: what the context rounds to has few digits and then zeros
  (`RoundedIsFew`), such a number is kept by rounding (`RoundedKeeps`), and the units
  stored of an accepted decimal are again such a number (`ScaledFew`), so that scaling
  back changes nothing more (`DecimalReadBack`).

Only model-checked: `PendingEventuallyPublished` and `StreamDelivered`, which are
liveness, and the violations. Types are proved where a theorem says so and are not
run on their own.

## Not modelled

`PROJECT.json` gives the reason for each part. Cut on purpose: other account
groups (their rows never meet), `receipt_sequence`, payloads and hash
computation, currencies and prices, order history and audit trails (nothing
reads them back), `releaseRemaining` (unreachable from the boundary), PostgreSQL
deadlocks between writers (each work unit writes one key). Of the broker package,
the report guards, reconciliation, paging and the emergency stop: sequential
records whose divergences from their documentation are among the findings. Of the
risk package, rules (pure functions of a snapshot) and the control book. Funds,
signals, strategies, optimisation, monitoring, reporting, reliability drills and
applications: numbers, tables and wiring of one call at a time. The Go server: one
database transaction an import, and queries.
