# mcpobs: models, checks and proofs

TLA+ specifications of the parts of mcpobs whose correctness depends on order,
concurrency and failure, the TLC runs that check them on small instances, and
the theorems TLAPS proves about them for every instance.

    tlc -config NormalizerGroup.cfg MCNormalizer.tla     # one run
    tlapm NormalizerProofs.tla                           # the proofs

`PROJECT.json` lists components, runs, mutants, the source lines of every
definition, findings, hazards and theorems.

## The system

mcpobs observes MCP servers. An SDK in the customer's process turns calls into
OpenTelemetry spans; a gateway authenticates and stamps them; a Collector puts
them into Kafka; a consumer normalises them into ClickHouse; a query API and a
console read them back.

    SDK (mcpobs, mcpobs-js) --OTLP--> ingest gateway --> Collector --> Kafka otlp.spans.raw
                                        |                                |          |
                                        | lite mode                 normalizer   archiver
                                        v                                v          v
                                   DirectIntake ------------------> ClickHouse   object store
                                                                         ^
                                                           query API, console, scripts

### Inventory

| Component | State | Operations | What is hard | What makes it correct |
|---|---|---|---|---|
| Normalizer consumer (`normalizer/consumer.py`, `clickhouse_sink.py`) | `SpanBatch` (rows, offset ranges, clock), consumer position, `_running`, DLQ producer queue; the group's committed offsets; `spans_raw`, `ingest_dead_letter` | poll/handle, dead_letter, flush (insert, commit), stop, shutdown, restart | crash between insert and commit; ambiguous results; rebalances with no callback; tokens that drop inserts; offsets without rows | an offset is committed only when its rows are stored; no poison message is passed unrecorded; nothing stalls |
| Span normalisation (`otlp_decode.py`, `normalize.py`, `taxonomy.py`, `redact.py`, `models.py`) | none | one span in, one row out | order of the taxonomy's tests, marks set by two SDKs | a cancelled or waiting call is never an error; the category is the one the call deserves |
| Migrations (`migrations.py`, `schema*/`) | ledger table, schema | discover, execute statements, record | two starters, crash between statements and ledger row | a recorded migration was executed completely and in order; a runner that died goes on |
| Rollups (`012`, `013`, `recompute_rollups.py`) | rollup tables, staging table | insert through views, rebuild a day, replace partition | inserts during a rebuild, two rebuilds | a rollup equals its definition over `spans_raw`, or is known to count too much |
| Archiver (`archiver/archiver.py`) | `ArchiveBatch` groups, position, objects | add, flush (put each group, commit) | crash or failed put between puts and commit; key depends on the hour and on batch bounds | nothing is committed unarchived; re-archiving overwrites |
| Gateway (`ingest/app.py`) | none of its own; quota counters | create_session, traces | count before decision, failure after count, stamping | every span carries the tenant of its credential; nothing acknowledged is dropped |
| Lite intake (`ingest/direct_intake.py`) | `spans_raw`, `ingest_dead_letter` | ingest | retry of a request that timed out | a retry stores nothing twice |
| Quota (`control/quota.py`) | shared counters, in-process fallback, `degraded` | incr, check | degraded counters per replica, two counters per request, window turn | the limit is enforced, and a rejection is visible in the counter |
| Sessions and keys (`control/session.py`, `keys.py`, `resolve.py`, `local.py`) | signing key, cached authenticator | mint, verify, authenticate | expiry and leeway across two clocks' uses, key replacement | a token in use is refused as expired only if its way took longer than the leeway |
| SDK session and exporter, Python (`mcpobs/session.py`, `exporter.py`) | session, failures, next attempt; held spans, dropped count | current, invalidate, export, force_flush | stale clock around a fetch, invalidating a newer token, losing held spans | no span is lost without being counted; no expired token is sent |
| SDK sampling (`mcpobs/sampling.py`) | buffer per trace | on_end, evict | eviction, late children, remote parents | errors are always kept; a kept trace is whole; memory is bounded |
| SDK progress (`mcpobs/streaming.py`) | count per span | take | cap, clearing | a flood is cut off and says so; no gap before the cut |
| SDK instrumentation (`middleware.py`, `classifier.py`, `payload.py`, `http.py`, ...) | patch flags, the transport and who named it | instrument, run, wrap a call | any order of instrumenting and starting; annotation that raises halfway | what is stored says truly whether and how the call failed |
| SDK session and exporter, JavaScript (`mcpobs-js/src/session.ts`, `exporter.ts`) | session, failures, pending spans, delegate | current, export, forceFlush | interleavings at every await, no single flight | a span in one place; a rejected token stays away; working credentials are used |
| SDK dispatch, JavaScript | patch flag | runWithSpan | instrumenting after the handlers were registered | as the Python instrumentation |
| Query API and console (`query/`) | none | traces, trace, tools, ... | keyset paging over a moving key, replays, caps, partial traces, several queries for one answer | no trace shown twice or skipped; a tree that holds every span; lists, filters and tables agree on what failed |
| Scripts (`scripts/`) | none | replay, recompute, verify | replay while live, early stop | a replay reads everything and changes what it should |
| Kafka, ClickHouse, Collector | external | | | |

Interaction: the SDK calls the gateway over HTTP with a session token it fetched
from the customer's backend; the gateway forwards synchronously to the Collector
and returns its answer; the Collector produces to Kafka; normalizer and archiver
are two consumer groups over the same topic; the normalizer inserts into
`spans_raw`, from which ClickHouse's views feed the rollups; the query API reads
both. Replay is the normalizer's class run with a group of its own.

## Modules

| Module | What it is |
|---|---|
| `SpanDelivery` | What the pipeline behind Kafka promises: messages are published, delivered, and acknowledged only once delivered |
| `Normalizer`, `MCNormalizer` | The consumer group: processes, batches, coordinator, ClickHouse, DLQ; instances for TLC |
| `NormalizerProofs` | Theorems about `Normalizer`, the refinement of `SpanDelivery` among them |
| `SessionExport` | The Python SDK's session provider and exporter, its exporting and its flushing thread |
| `Archiver`, `MCArchiver`, `ArchiverProofs` | The archiver: batches per tenant and partition, objects, commits |
| `Sampling`, `MCSampling`, `SamplingProofs` | The Python SDK's tail sampling |
| `Intake`, `MCIntake`, `IntakeProofs` | Gateway processes, quota counters, lite intake and a retrying exporter |
| `Streaming` | The Python SDK's progress counter and subscription bus |
| `Annotation` | What each SDK writes on a call's span: classifier, captures, marks |
| `SpanRow` | The normalizer's row of a span: taxonomy, columns, fallbacks |
| `Capture`, `MCCapture` | A server process with an SDK: startup, concurrent calls, their spans and rows. Composes `Streaming`, `Annotation` and `SpanRow` |
| `SdkProofs` | Theorems about such a process: `SessionExport`, `Streaming` and `Capture` |
| `SessionTokens` | Session tokens and the gateway's use of them: operators without state |
| `JsSession`, `MCJsSession`, `JsSessionProofs` | The JavaScript SDK's provider and exporter, up to the gateway's verdict (`SessionTokens`) |
| `Filters` | What the query API makes of a request's filters: operators without state |
| `TraceQuery`, `MCTraceQuery`, `TraceQueryProofs` | The query API over a store that is being written. Composes `SpanRow` and `Filters` |
| `Rollups` | What a rollup table says and what the console reads from it: operators without state |
| `Warehouse`, `MCWarehouse`, `WarehouseProofs` | Migrations, views, inserts and recomputations. Uses `Rollups` |

### Normalizer

A message is reduced to how many of its spans normalise (`rows`) and how many do
not (`rejects`); one that does not decode is `[rows |-> 0, rejects |-> 1]`. A row
is named by the message it came from, `<<partition, offset>>`.

| State | Code |
|---|---|
| `log`, `committed` | the topic and the group's committed offsets |
| `members`, `owner`, `current` | the coordinator: who is in the group, who owns which partition, who has taken over the latest assignment |
| `assigned`, `position` | a process's consumer: what it reads and from where |
| `pc` | where `Normalizer.run` is: `poll`; `insert`/`commit` in the loop's flush; `finalInsert`/`finalCommit` in shutdown's flush; `closing`; `down` |
| `running` | `_running` |
| `rows`, `offsets` | `SpanBatch.rows`, `SpanBatch.offsets` (a partition that is no key has `NoBounds`) |
| `dlqQueue`, `dlqTopic`, `deadTable` | the producer's queue, the DLQ topic, `ingest_dead_letter` |
| `spansRaw` | the blocks of `spans_raw`, each with its deduplication token |

| Action | Code |
|---|---|
| `Start` | process start: `main`, `run` up to `subscribe` |
| `Poll` | a turn of the loop with a message: `handle`, `dead_letter`, `track`, `should_flush` |
| `PollIdle` | a turn without a message in which the batch has become old |
| `PollError`, `Stop`, `LeaveLoop` | an error message raises; a signal or the idle stop of a replay; the loop ends and `shutdown` flushes |
| `Insert`, `InsertError` | `insert_spans` returns; raises, having applied the block or not |
| `Commit`, `CommitRejected`, `CommitError` | `commit` returns and the batch is reset; raises because the assignment is gone; raises although it may have taken effect |
| `Close`, `Crash` | `shutdown` after its flush; the process dies anywhere |
| `Publish`, `Adopt`, `Expire`, `Rejoin`, `DlqReport` | external: Collector, group coordinator, librdkafka |

Decisions worth knowing:

* Elapsed time is left open: any turn that reads the clock may find the batch old.
* No rebalance callback is registered, so a batch outlives its assignment. That
  is modelled as it is: `Adopt` touches `assigned` and `position` only, in any
  phase, since librdkafka takes over assignments on its own thread.
* `commit` without arguments sends the positions of the current assignment. The
  coordinator accepts only the latest generation; the client raises when it has
  nothing to send (`CanCommit`). An exception in the loop's flush reaches
  `shutdown`, which flushes the same batch again; one in there ends the process.
* ClickHouse's deduplication window is unbounded, and the log has no retention.
* A restarted process waits for its previous membership to expire (`Join`).

### SessionExport

Spans are numbered in the order in which they are handed to `export`; a token is
the index at which the session endpoint minted it, 0 standing for none.

| State | Code |
|---|---|
| `now` | `time.monotonic()` |
| `session`, `failures`, `nextAttempt` | `SessionProvider._session`, `_failures`, `_next_attempt` |
| `pending`, `dropped` | `SessionSpanExporter._pending`, `_dropped` |
| `header` | `x-api-key` of the `requests.Session` that all exports share |
| `pc`, `batch`, `started`, `got` | what each thread has in hand: spans, the clock as `current` read it, what `current` returned |
| `said` | spans whose loss went to stderr |
| `handed`, `delivered`, `failed`, `carried`, `refused`, `minted`, `revoked` | history and the two servers |

| Action | Code |
|---|---|
| `CurrentServes`, `CurrentFetches`, `FetchSucceeds`, `FetchFails` | `current` without a fetch; with one, split at the request, the lock being held |
| `ExportCalled`, `Hold`, `Drain` | `export` up to its request: without and with a session |
| `FlushCalled`, `FlushSets`, `FlushGivesUp` | `force_flush` up to its request |
| `Accepted`, `Refused`, `RequestFails` | `super().export`; a failed one has perhaps been applied |
| `Invalidate` | `invalidate`, called by a failed `export` only |
| `Tick`, `Revoke` | external |

Decisions: the header assignment and `_drain` are one step, since nothing between
them touches the other's state. Every token lives `Ttl`; the jitter picks the age
at which it is due for refresh. The gateway judges expiry by the same clock. A
lock that a fetching thread holds blocks `current` and `invalidate`. The flushing
thread stands for whoever calls `force_flush`: OpenTelemetry's batch processor
need not, so `flushes`, chosen at the start, says whether it does: the properties that
only hold without it say so, and `flush_loses` shows what it breaks.

### Archiver

A message is the set of tenants whose spans it carries; a part is named by tenant,
partition and offset. `groups` and `count` are `ArchiveBatch.groups` and `.count`,
`NoGroup` standing for an absent key; `when` is the clock `flush` read before its
puts; `store` holds the bucket's objects, named by tenant, partition, hour, first
and last offset; `todo` is what `flush` has still to put.

`Poll` and `PollIdle` are turns of the loop with and without a message, `Put` is
one `store.put`, `Commit` the commit and the reset. `LeaveLoop`, `PutError` and
`CommitError` lead to the `finally` clause, whose own flush re-puts everything that
is still in the batch; an error in there, or `Crash`, ends the process. A failed
put may have been applied, a failed commit may have taken effect. `flush` visits
groups in dictionary order, the model in any order. Bytes and age are left open:
any non-empty batch may be full. One process is modelled; what a rebalance does to
a batch is the subject of `Normalizer`.

### Sampling

`buffer`, with `since` for the order of its keys, is `_buffers`; `forwarding` holds
the spans of the loop behind `on_end`'s critical section; `exported` is what the
wrapped processor took. `EndUnsampled`, `EndInner` and `EndRoot` are `on_end` in
mode `all`, of a span with a parent, and of one without; `Forward` is a turn of the
loop. `Ends`, external, says which spans may end: a child before its root, except in
a trace of `Late`. A call that carries a `traceparent` in its `_meta` has a root with
a remote parent (`Remote`): `span.parent is None` is false of it, so nothing ever
closes its trace and it is only ever evicted.

### Intake

One tenant and several gateway processes. A body is reduced to whether it parses and
how many of its spans normalise (`good`) and do not (`bad`).

| State | Code |
|---|---|
| `lite` | `MCPOBS_LITE` |
| `now` | the wall clock, as the minute and the day that name the counters' keys |
| `call` | the locals of the handler a process is in: `Post` has counted nothing yet (`minute`), has counted the minute (`day`), has been let through (`store`, `collector`) |
| `used` | the counters in Redis and each process's `_local` |
| `copies`, `dead` | `spans_raw` per stamped body (ClickHouse's deduplication applied), `ingest_dead_letter` |
| `forwarded`, `acked`, `checked`, `allowed`, `crashes` | what the Collector took; history |
| `bodies`, `settled`, `posts` | the exporter: what it has to send, what it sends no more |

| Action | Code |
|---|---|
| `Post` | `traces` up to `quotas.check`; 400 for what does not parse |
| `CountMinute`, `CountDay` | the two calls of `incr`, the second with the ruling and the stamp, or 429 |
| `Store`, `StoreError` | `DirectIntake.ingest` and 200; an insert that raises, applied or not, and 503 |
| `Forward`, `ForwardError` | the Collector's answer passed on; a refusal or a failed request |
| `Crash` | a process dies and is restarted without its own counters |
| `NewBody`, `MinuteTurns` | external |

Decisions: `traces` contains no `await` behind the body it reads, so a process
handles one request at a time; interleaving is between processes. Either counter may
be used by each `incr`, whatever the one before it used, and a shared one that failed
may have counted. Any answer may be lost. The exporter may post a body again as long
as it has no final answer, also while an earlier post is being handled. A dead letter
that is refused is only logged. Authentication and `create_session` change nothing in
this state; the stamp is reduced to the soft-quota attribute, which is all of it that
can differ between two posts of one body.

### Streaming, Annotation, SpanRow, Capture

One server process with one of the two SDKs (`sdk`), from its startup to the rows its
calls become. `Annotation` and `SpanRow` are pure: what is stamped on a span, and the
row `normalize.py` makes of one. A text is a sequence of the phrases the classifiers
look for; a payload is small, over the preview's limit, or too deep to render.

| State | Code |
|---|---|
| `attached` | whether the middleware, or the patched `setRequestHandler`, sees the calls |
| `transport` | `transport.py` `_current`, `_explicit` |
| `options` | `capture_error_detail`, `capture_payloads` |
| `calls` | per call: the span's attributes while it runs; its span and the outcome afterwards |
| `counts`, `emitted`, `resets` | `_ProgressCounter._counts`; the progress spans of each parent; how often it was cleared |
| `publishing`, `published`, `eventSpans` | `ObservedSubscriptionBus`: events inside the real bus, its counter, its spans |
| `told`; `served`, `byRun` | history: who named the transport; external: what the server runs on, and whether `run` started it |

| Action | Code |
|---|---|
| `PyInstrument`, `InstrumentAsgi`, `PyRun` | `instrument`, `instrument_asgi`, the wrapper of `observe_run` |
| `ServeApp` | external: the customer drives an app, of either HTTP transport, without `run` |
| `JsInstrument`, `JsRun` | `instrument`; the server registers its handlers, before or after, and runs on any transport |
| `Begin`, `SetCustom` | a call's span opens; `set_custom_attribute` |
| `PyEnds`, `JsEnds` | the middleware's three ways out, `_annotate` up to the step that returns or raises, and the SDK's own closing of the span; `runWithSpan` and `finish` |
| `Progress` | a report of a call, or of a task that outlives it: `take`, and the span or the marker |
| `Publish` | `publish` up to its await, its delivery, its failure |

Decisions: a step of `_annotate` that returns or raises is the last whose stamps count
(`Written`), so a payload that is too deep, and content that is no list, end it where
they do in the code. `take`'s caller holds the lock, so a report is one step.
`truth` is part of an outcome and read by properties only.

### SessionTokens and JsSession

`SessionTokens` is `control/session.py` and the gateway's two uses of it: minting for
`POST /v1/sessions`, verifying on an export. `JsSession` runs it under the JavaScript
exporter. A job is one asynchronous call, the export of a batch or a `forceFlush`;
its stages are the awaits. Nothing else happens while a job is `resumed`, since the
event loop runs a continuation to its next await.

| State | Code |
|---|---|
| `session`, `failures`, `nextAttempt` | `SessionProvider` |
| `pending`, `droppedWhileHeld` | `SessionSpanExporter` |
| `jobs` | each call's locals: its spans, the session `doExport` was given, the one `current` saw before its await, the one it found |
| `signing` | external: the gateway's signing key |
| `answers`, `stored`, `lost`, `dropped`, `rejected` | what each export's callback was called with; where spans ended; the tokens refused to an export |

| Action | Code |
|---|---|
| `Export`, `ForceFlush` | up to `current`'s await |
| `Minted` | external: the customer's backend asks the gateway |
| `Responds` | the response's headers arrive, and `tryFetch` clears its timer |
| `Fetched`, `FetchFails` | the body is read; or the fetch is refused, aborted for want of headers, or breaks off; `current` goes on |
| `Hold`, `Drain` | `hold`; `drain`, and the delegate's header factory calls `current` again |
| `Send`, `Stored`, `Fails` | the request, and the gateway's answer with what `doExport` does then |
| `Tick`, `RotateKey` | external |

Decisions: several fetches may be in flight, as the provider has no single flight. An
endpoint changes nothing in what becomes of a span, so the delegate an endpoint's
change replaces is left out. `knows` and `rejected` are history.

### Filters and TraceQuery

`rows` is `spans_raw`, `locator` is `trace_locator` before its merges, `now` the clock
of every host, `reader` one client that pages through a list. The normalizer inserts
spans late, in any order, under an older taxonomy and again under the present one.
The reads without a continuation (detail, capabilities, options) are operators on the
current rows, and the properties ask them in every state.

| Action or operator | Code |
|---|---|
| `Insert`, `InsertOld` | a row, and what the locator's view makes of it |
| `MergeLocator` | ReplacingMergeTree |
| `OpenList`, `ReadPage`, `CloseList` | the request is authenticated and parsed; one page with its cursor |
| `TraceLists`, `PageOf`, `BelowCursor` | `traces`: the grouped subquery, the filters, the keyset |
| `Located`, `DetailSpans`, `OrderTree`, `TraceDetail` | `trace`, `_resolve_root`, `_order_tree`, `_headline` |
| `SpanDetail`, `DetailMap` | `_span_detail`; the spans' details in a trace's, left out above `TRACE_DETAIL_CAP` |
| `Capabilities`, `ToolRow`, `FilterOptions` | `capabilities`, `tools`, `filter_options` |
| `Parse`, `Refused`, `Keeps` | `filters.py` |

Decisions: where SQL may answer with any of several rows (`anyLastIf`, `argMax` over a
tie), every answer is modelled: `TraceLists` is the set of possible lists. Where only an
ORDER BY leaves a tie open (spans of one instant, capabilities with as many calls), it is
broken by id or name, in some order that is a constant. An SQL fragment is the predicate
it expresses. The refusal of a filter text of more than 200 characters is left out.

### Rollups and Warehouse

An aggregating table is a function from rows to how often each was aggregated into it:
the stored states are sums, maxima and samples, and this is all they depend on.
`Rollups` defines what `/overview` and `/servers` compute from such a function.
`Warehouse` changes it: by the views, by 013's backfill, by a recomputation.

| State | Code |
|---|---|
| `raw`, `content`, `staging` | `spans_raw`, the rollup tables, `<table>_recompute` |
| `objects`, `ledger` | the tables and views there are, `schema_migrations` |
| `runners`, `jobs` | `MigrationRunner.run` and `recompute_table`, by statement |
| `trust`, `together` | history: whether a table is exact for a day, counts too much, or neither is known; whether two runners overlapped |

`Run`, `Execute`, `Record` are the runner: the ledger is read once, then statement by
statement, then the ledger row. `Start`, `Create`, `Fill`, `Replace`, `End` are the
recomputation's statements. `Insert` is a normalizer's block and the views. `Dies` and
`Killed` end a runner or a recomputation between two statements. Every statement is a
step of its own and anything may come between two of them.

Decisions: an insert and what its views add are one step, as a retry of one that was
interrupted carries its token into the views. Every installation starts with its tables
empty. Of the statements' errors those of a missing table are modelled; a replicated
table that 013 creates again before its plain `DROP` has ended is refused too
(`REPLICA_ALREADY_EXISTS`), which ends the process and delays `Migrated`, no more.

### Runs

A property with several parts is a conjunction of named ones (`SpansAccounted` is
`TypeOK`, `NeverSentTwice`, `LossIsCounted` and `OldestDropped`); the modules say which.

| Run | Instance | Checks |
|---|---|---|
| `group` | 2 processes, 1 partition, 3 messages of one row, batches of 2, 1 fault of any kind, processes symmetric | `StoreInv`, `CommitNeverRegresses`, `DeliversAtLeastOnce` |
| `single` | 1 process, 2 partitions of 1 message each, undecodable, half-bad and good messages, batches of 2, a DLQ topic that may refuse, 2 faults of any kind, under fairness | `PoisonIsKept`, `CommitEndsReplay`, `EventuallyCommitted` |
| `export` | with and without flushes, buffer of 2, batches of 1 to 2, 4 spans, 3 tokens, 2 faults, clock to 4 | `SpansAccounted`, `RefusedNotRetried`, `DropsWhatFailed`, `HoldsOnlyWithoutToken` |
| `flush_loses` (violation) | with flushes | `EveryLossCounted` |
| `archive` | 2 tenants, 1 partition of 3 messages (of one tenant, of both, of none), batches of 2, 1 turn of the hour, 2 faults, under fairness | `ArchiveInv`, `OverwritesAreIdentical`, `EventuallyArchived` |
| `sampling` | 3 traces (one with late children, one with a remote root) of 3 spans, a buffer of 2, all modes, both coins | `BufferBounded`, `ErrorsKept`, `TracesAreWhole` |
| `intake` | 2 gateways, 2 bodies, 3 posts, limits of 4 a minute and 5 a day, 1 turn of the minute, 1 fault, with and without lite mode | `AckedStored`, `CountersHold`, `TwiceOnlyAcrossSoft` |
| `capture` | 3 calls, both SDKs, every order of startup on any of 3 transports, 5 progress reports under a cap of 1 with 1 parent tracked, 2 events, calls symmetric | `FailuresAreTrue`, `SamplesAreWholeCalls`, `OnlyGuessesAreWrong`, `StreamsAreTrue` |
| `js` | 2 exports and a flush, 2 at once, a buffer of 1, lifetimes 2 and 3, leeway 1, headers and requests within 1 and bodies without a bound, clock to 3, 2 replacements of the key, under fairness | `NothingVanishes`, `NeverLateToken`, `NotPresentedAgain`, `KeylessOnlyIfLost`, `ExportsAnswered` |
| `query` | tenant a: 3 traces of 2 spans in any order beside each other (a root with a child, an orphan with a child after midnight, a cycle) and, alone, one of 5 spans of a day (a root, 2 siblings, a grandchild, an orphan); tenant b: 1 span of a trace of a's; 2 old rows and any replays, 5 list requests with pages of 1 or 2 and windows of 1 to 3, caps of 4 spans, 3 details, 1 capability, clock to 4 | `WaterfallIsATree`, `NoDeadEnds`, `DetailMatchesList`, `FailuresAddUp`, `PagingIsExact`, `PagesGoDown` |
| `detail_differs` (violation) | the same spans, no reader | `DetailRepeatsTheList` |
| `warehouse` | 3 rows of 2 spans on 2 days, 4 starting states (fresh database with 2 runners, a release with 013, 2 recomputations, an edited file), 1 death | `RollupsExact`, `DriftIsUpward`, `OverviewMatchesRaw`, `SchemaInOrder`, `EditedStopsAll`, `Migrated` |

The variables' types are part of a run's property, or proved (`TypeCorrect` of each
proof module), or both.

Bounds of `Normalizer`. `MaxLog` bounds the messages of a partition: three suffice for a batch
that was inserted, one that extends it and one behind both, which is what tokens
and replays need to differ. `MaxRows` is 2, so that batches end by size and by
age. `MaxFaults` bounds how often something goes wrong, of any kind, at any point;
two processes and one fault give every rebalance (a start of the second process
rebalances without a fault), one process and two faults give a failure during the
recovery from another. `FaultKinds` and `FailingStores` choose what may fail.
Deadlock is not checked: with the log full and all of it committed, the system is
at rest.

Bounds of the others. The session runs hand over enough spans to overflow the
buffer and still drain it, mint three tokens (a refused one, one fetched meanwhile,
one after both) and let the clock pass the expiry of the first. The archive runs
need one message before a crash, one that extends the batch behind it and one with
two tenants, and one turn of the hour to change the name of an object; partitions
do not interact in it except through the common batch, and one is checked. The
sampling run has one trace more than the buffer holds, and two children, so that an
eviction can come between them. The intake run's bodies carry 1 to 3 spans: one fits
every limit, two pass the soft fraction or a limit, three are refused, by the minute or,
once it has turned, by the day; two processes make the total one remembers differ from
what the counter says by then; one fault gives each ambiguous answer and each switch to
a process's own counters.

The capture run needs a parent that is refused, others that make the counter forget, and
the first one again: three parents and five reports under a cap of one. Calls share
the transport and the counter only, and neither reads an outcome, so at most one call
at a time has an unusual request or outcome, and none while something is streamed
(`Bounded` in `MCCapture`); all of startup is open. In the js run two jobs overlap,
the flush being one of them when it comes; time 3 is a token's whole life and a step
behind it, so that with a leeway of 1 live tokens are accepted after their expiry and,
after a slow body, refused. The query
run's clock makes one trace straddle midnight and lets late spans and the moving
window move a trace between two pages: with windows of 1 and 2 a trace leaves the list
between two pages, unseen, and another loses its first span and moves up. A reader pages
only over the first versions of four spans (`PagedRows`), while every other read is asked
with all of them. The trace of 5 spans gives the waterfall siblings, a depth of 2 and an
orphan beside the root; it exceeds both of the detail's caps by one or two spans, and its
details are mapped up to 3. It comes alone (`DeepAlone`), as no property relates two
traces of different ids but in the lists and tables, for which the other three serve. Two
tools under a cap of 1 make a table that is cut. Two of tenant a's spans (`MaxOld`) may be
there under the older taxonomy. The warehouse
run bounds second copies, deaths and recomputations for each starting state, so that
each has what is hard for it and no more.

Fairness (`js`): every job that can take a step takes one, as the event loop runs what
is ready, and every request ends: by the SDK's timer until headers arrive, and after that
only by the timeouts of the runtime's `fetch`, which `session.ts` does not set.

Fairness (`warehouse`): a runner that can execute its next statement does; a service that
died is restarted. Neither assumes anything of inserts, recomputations, time or deaths.

Fairness (`archive`): `FairSpec` asks that the archiver keeps running its loop
and is restarted when it exits; faults and messages are bounded.

Fairness (`single`): each process keeps taking its own steps and is restarted
when it exits, by whatever supervises it, and the coordinator
expires members whose process is gone. Nothing is assumed of publishers, of
faults or of the DLQ producer. Liveness is checked with one process. With two it
does not follow: a rejected commit ends a process (`consumer.py:181`), and its
exit and restart rebalance the group, which can catch the other process between
insert and commit, and so on; only timing rules that out.

### What the violations show

* `flush_loses`: `force_flush` empties the buffer before it asks for a session and
  drops what it took when there is none (`exporter.py:147`).
* `detail_differs`: a trace of one request answered 401 has no error in the list and one
  in its detail, as has one with a cancelled call: the detail counts every category that
  is not `''`, `ok` or `pending_input` (`repository.py:1054`), although the list and the
  filters share one definition. `DetailMatchesList` therefore claims one direction, that
  the detail counts at least what the list does, and `FailuresAddUp` leaves the detail
  page out.

### Limits of the code

What the models show, or what was met on the way, and no run states as a property.

Delivery and storage:

* `consumer.py:8`, `:78`: the replay of an uncommitted batch is no no-op when the batch
  ends elsewhere than the first one: its token differs and rows are stored again.
  `CommitEndsReplay` bounds it: once an offset is committed its rows get no further copy.
* A poison message is lost when the table refuses it and the process dies before the
  producer's queue is sent; `PoisonIsKept` says what remains true, `PoisonSurvives`
  proves it where the table takes every dead letter.
* `replay.py:31`: the idle stop counts from the first empty poll, also while a new group
  is still joining.
* `archiver.py:257`: put, the hour turns, crash, put again: the name differs; so does a
  batch with other bounds. What is archived twice is never lost (`ArchiveInv`).
* `direct_intake.py:96`, `:122`: a retry that passes the soft fraction carries another
  stamp, hence another token, and is stored again; `TwiceOnlyAcrossSoft` says that
  nothing else does that. A retry dead-letters its bad spans again (`:117`).
* `quota.py:97`: each process that counts on its own enforces the limit once more, in
  addition to what the shared counter has let through (`FleetLimit`, in `CountersHold`).

Migrations and rollups:

* `migrations.py:54` says files are applied "exactly once": a runner that dies between a
  file's statements and its ledger row executes it again, and two runners that start
  together both do. One runner at a time bears it, as 013 drops what it fills; two may
  fill it twice. `SchemaInOrder` and `RollupsExact` say what holds.
* `recompute_rollups.py:199` says readers see "the old numbers or the new ones, never a
  gap": not when two recomputations of one table share its staging table. Rows inserted
  between its `SELECT` and `REPLACE` are missing until the next one; rows inserted
  between 013's views and its backfill count twice; 012 has no backfill.

Query API:

* `repository.py:735`: a select can offer a value that no row of the list shows, when a
  trace has two values in that column; `OfferedValuesFound` is about the others.
* A trace over midnight shows one day's spans; list and detail may differ on whether it
  is complete. They also do within a day, if the parents of all its spans are among them:
  such a trace has no root, which the detail calls complete at any age (`:1016`) and the
  list, "same rule as the detail" (`:847`), only after `TRACE_SETTLE_SECONDS`.
  `ListAndDetailAgree` excepts it. It met the exception in its proof: the step for
  completeness needs a root. `trace_locator` is sorted without the tenant, so two tenants that share
  a trace id replace each other's entry; `ListedTraceOpens` leaves such traces out.
* `tools` (502-541) does not filter its breakdown by server and method; `capabilities`,
  whose comment (612-617) tells of the same mistake, does. `CapabilitiesAddUp` compares
  the two for all servers.
* An attribute filter and the freshness query read every version of a span. A bound of 0
  (`max_duration_ms=0`) is ignored. A list's window moves on with each page, and a
  cursor's time is bound at less than its precision: a trace in between is skipped
  (`Hidden`).

Python SDK:

* `exporter.py:151`: the header is shared and written without a lock. With `force_flush`
  beside `export`, a refused token can be sent again, another token than the refused one
  be dropped, and spans be held although there is one: `RefusedNotRetried`,
  `DropsWhatFailed` and `HoldsOnlyWithoutToken` are stated for `~flushes`.
* `session.py:180`: a token that is alive when `current` reads the clock and has expired
  when the fetch has failed is served once more. The gateway refuses it and `export`
  invalidates it.
* `sampling.py:131`: a trace whose root has a remote parent is never handed on in the
  modes that sample, errors included; `ErrorsKept` and `NoOrphans` leave it out.
* `sampling.py:162`: a trace whose children were evicted and whose root then ends and is
  kept is handed on in part; a child that ends after its root stays in the buffer
  until it is evicted. `LacksOnlyEvicted` says that nothing else can be missing.
* `transport.py:28-30` says "A guess would be worse than a blank", and an attribute
  people group by "must not be occasionally wrong". `asgi.py:67` guesses `streamable-http`
  for any ASGI app, that of `sse_app()` included, and `index.ts:90` stamps `stdio` in every
  Node server that is not told otherwise. `OnlyGuessesAreWrong` says these are the only
  wrong ones, and that naming the transport, or `run`, prevents them.
* `middleware.py`: a call that raises, other than by cancellation, gets no annotation and
  so no transport; a payload that cannot be rendered (`:139`) ends `_annotate`, and the
  call keeps the MCP SDK's flat `tool_error`. Sizes are documented as bytes and are
  characters.

JavaScript SDK:

* `dispatch.ts:62-67` lists `mcpobs.cancelled` and `mcpobs.result.type` among what is
  stamped: neither is, and an exception is a `tool_error` like any error result. `CategoryIsTrue`
  leaves out cancelled calls, exceptions and protocol errors of this SDK. It takes the
  first text block even when it is empty, the Python helper the first with text.
  A handler that throws `undefined` counts as ok (`classifier.ts:142`); those of the model
  throw something.
* `exporter.ts:80-83` says held spans "are not lost": they are when the export they were
  drained into fails. `forceFlush` ignores the export's result, so nothing is
  invalidated, and `NotPresentedAgain` is about rejected exports only.
* `exporter.ts:131`: the delegate asks for a session again, and sends without a key when
  it is gone by then; that is the only case (`KeylessOnlyIfLost`).
* A fetch that fails falls back on the session it saw before, and the SDK counts a
  lifetime from the answer's arrival: the gateway's leeway is needed in ordinary
  operation (`control/session.py:68-72` says it "never has to cover a legitimate case").
  What it must cover has no bound in the SDK: `session.ts:120-130` stops the timer of 10 s
  once headers arrive, and `await response.json()` runs without one, both before a token is
  there and before a fallback is used. `NeverLateToken` therefore says what the 60 s are
  spent on, and not that they suffice.
* `control/session.py:126-133`: a token names its key, but one key verifies: replacing it
  ends every session. `NeverLateToken` is about tokens of the present key.

### Proofs

`NormalizerProofs` proves, for any sets of processes and partitions, any payloads,
any batch limit and any number of faults:

| Theorem | Statement |
|---|---|
| `TypeCorrect` | `Spec => []TypeOK` |
| `StoreInvariant` | `Spec => []StoreInv` |
| `NothingLost` | `Spec => []CommittedStored` |
| `OnlyOwnersRead` | `Spec => []CurrentOwns` |
| `OffsetsOnlyAdvance` | `Spec => CommitNeverRegresses` |
| `ImplementsDelivery` | `Spec => DeliversAtLeastOnce`, the refinement of `SpanDelivery` |
| `PoisonSurvives` | if the table takes every dead letter, `Spec => []PoisonIsKept` |
| `ReplayEnds` | if there is one process, `Spec => CommitEndsReplay` |

`CommittedStored` is not inductive: what keeps it true is spread over the
batches, the positions and the tokens. The invariant `StoreInv` says that all
three are closed downwards. Every due message below a read position is stored or
in that process's batch (`ReadIsKept`); every one up to the upper end of a
batch's range is stored or in that batch, the ones between two assignments
included (`TrackedIsKept`); every one up to the upper end of a token's range is
stored (`TokenIsStored`). The last part is why an insert that ClickHouse drops
loses nothing: the rows of a batch lie inside its own ranges (`RowsAreTracked`),
the token that was seen names the same ranges, and all of them are stored. At the
commit the batch is stored (`InsertedBeforeCommit`), so everything below the
positions it sends is. `Adopt` re-establishes the closure because reading resumes
at a committed offset.

`CurrentOwns` is inductive by itself and gives `CommitNeverRegresses`: whoever is
allowed to commit owns the partition and has read on from its committed offset.
The refinement follows from the two invariants, one lemma for inserts and one for
commits. `PoisonSurvives` needs `PoisonRecorded`, the same closure for the table.

`ReplayEnds` is about the group's only process: another one could insert a batch whose
partitions it has lost. It needs `OneReplays`: reading is never behind a commit, and a
batch holds rows from the committed offsets on, unless it was inserted under its token
and only shutdown flushes it again (a commit that raised after it was applied). Such a
batch is dropped by its token; any other adds no copy of what is committed past.

`SdkProofs` proves of `SessionExport` `TypeCorrect`, `SentOnce` (`NeverSentTwice`, inductive
given the types), `LossCounted` (`LossIsCounted`), `OldestGoFirst` (`OldestDropped`),
and from them `AllAccounted` (`SpansAccounted`). The arithmetic is in lemmas on what a
buffer at its limit keeps. `OldestGoFirst` needs `OldestFirst`: what vanished or waits
in a flush is older than what is held, and that is older than what is still coming, so
that appending and trimming keep the order. `RefusedIsDropped` (`RefusedNotRetried`),
`InvalidatesItsOwn` (`DropsWhatFailed`) and `HeldForWant` (`HoldsOnlyWithoutToken`) rest
on `OneToken`: without a flush the exporting thread's token is the session's from
`current` to `invalidate`, and none that was refused before.

`ArchiverProofs` proves `TypeCorrect`, `ArchiveInvariant`,
`NothingUnarchived` (`CommittedArchived`) and `OverwritesKeep`. `ArchiveInv` is the
closure argument again: every part below the read position is in an object or in
the batch (`ReadIsKept`), every group that was put is in an object
(`PutIsArchived`), and both objects and groups hold all parts between their bounds,
which is why two of the same name are equal.

`SamplingProofs` proves `TypeCorrect`, `BufferBound` (`BufferBounded`),
`ErrorsAlwaysKept` (`ErrorsKept`), `NothingOrphaned` (`NoOrphans`), `KeptAreWhole`
(`LacksOnlyEvicted`), `WholeTraces` (`TracesAreWhole`) and `OldestEvicted`
(`EvictsOldest`, from `Ordered`: no two keys of the buffer were inserted at once). The
bound is about cardinalities: a step adds at most one trace, and then takes away the
oldest, whose existence is the well-foundedness of the naturals. The other three need
that the spans of a trace are handed on together: a root is handed on last, so as long
as it waits the others may, and an evicted trace has no root yet.

`IntakeProofs` proves `TypeCorrect`, `AckedIsStored` (`AckedStored`) and
`RetryStoresOnce` (`TwiceOnlyAcrossSoft`), for any number of gateway processes. The
first rests on the fact that no step takes a stored row, a forwarded body or a body
back, and that a handler is in the branch of its mode. The last needs
`SoftIsCounted`: between the two counts a handler remembers a total that may be
outdated, yet some counter covers it, since counters only grow unless a process
crashes; so a soft flag tells of a counter that passed the fraction.

It also proves `CountersAlways` (`CountersHold`): no crash, and the counters together have
seen every span that was ruled upon; and the fleet lets through at most what every counter
stands at below the limit, plus the limit for each crash. Neither is inductive, as a
handler charges before it rules. `QuotaInv` adds what is in the handlers' hands: what was
ruled upon or is about to be (`Undecided`) is in the counters (`AllSeen`); what was let
through or still may be (`Passing`) is within them, each capped at the limit (`Capped`,
`AllWithin`). Its steps compare sums over processes: a sum is the number of units it
counts (`SumCounts`), so that one charge raises one by a body's size (`SumRise`), and
a sum of less is less (`SumMonotone`, `SumBound`).

Of `Streaming` alone, `SdkProofs` proves each part of `StreamsAreTrue`, and it
(`StreamsTold`), for any parents, caps and events. `CountsFollow` ties what the counter
remembers of a parent to what was last emitted under it, which gives `CutMarked` and
`NoGap`. The cap on a flood is `WithinBudget`: what a parent has emitted is at most a full
budget for every time the counter forgot, and what it counted since; and
`ResetsNeedParents`: before the first reset the counter remembers everyone who reported. Then
`CaptureStreams`, `CaptureSpec => StreamSpec`: a server with concurrent calls implements
the streams alone, so that `CaptureStreamsSafe` carries `StreamsAreTrue` over.

Of the calls, in `Capture`, it proves, for any requests, outcomes and texts:

* `TransportNamed` (`OnlyGuessesAreWrong`), `SamplesWhole` (`SamplesAreWholeCalls`) and
  `FailuresTrue` (`FailuresAreTrue`), from two invariants. `SetupInv` (`SetupAlways`): a
  transport somebody named is the one in use, else the one `run` was called with, and a
  guess is in use where there is neither; the JavaScript SDK is told nothing before it
  attaches. `CallsInv`
  (`CallsAlways`): an open span carries no verdict yet, and a closed one is what its SDK
  makes of an open one. So a property of the rows is one of the functions of `Annotation`
  and `SpanRow`, for any open span (`SpansCarryTheTransport`, `SpansSampleWholeCalls`,
  `SpansTellFailures`, `SpansKeepDetails`).
* Those functions are taken apart by lemmas: what a list of stamps sets, keeps and skips
  (`Stamped...`), which rule of a classifier is the first to match (`FirstRuleAt` and
  its uses), and what the row's category is for each verdict (`KindOfCases`,
  `ResultTypeCases`, `KindIsTrue`).

`JsSessionProofs` proves, for any batches, lifetimes, timeouts and replacements of the
key:

* `TypeCorrect`, from `Typed`, which types the jobs by their stage.
* `NeverLate`, for any leeway and however long a body takes, from `AllTimely`: what a job
  found was alive when its lookup began, also when it is the fallback of a fetch that
  failed since. A session's expiry lies behind its token's by what the token took to
  arrive (`Lag`), so that the gateway sees the token later than its expiry by less than
  that and the time since the lookup together.
* `RejectedStaysDropped` (`NotPresentedAgain`), from `AllFresh` and `Dropped`. A token's
  `jti` names the lookup that waited for it, so a fetch brings one that is not in use
  and was never rejected; the provider's session has not been rejected, as a rejection
  drops whatever it holds; hence neither is what a lookup sees or falls back on.
* `SpansStay` (`NothingVanishes`), for any buffer limit, from `Homed`: the new batches,
  the buffer, the hands of the jobs and the ends are apart and together hold every span.
  One lemma (`Shift`) says a step preserves it if what it takes from one place it puts in
  one other; each action is shown to do so. `ExportsOwn` is needed for `hold`: an export
  carries its own batch until it drains the buffer, so that at most one span overflows.
* `WorkingIsUsed` (`KeylessOnlyIfLost`), from `Used`: until the session a delegate was
  given is replaced, dropped or over, its lookup finds it. A session that is gone never
  comes back, again because a fetched one is fresh.

`WarehouseProofs` proves, for any rows, files, installations, runners, recomputations and
time windows:

* `TypeCorrect`; `LedgerIsTrue` (`SchemaInOrder`) and `EditsStopAll` (`EditedStopsAll`),
  from `SchemaInv`: nobody applies files while a recorded one is edited (`NotEdited`), the
  ledger has no gap (`InOrder`), what a runner does not still have to do is recorded
  (`NoneSkipped`), and as long as no two runners overlapped, there is one, its files are
  not recorded yet, and what it dropped it will create (`TakingTurns`). The last part
  follows an object from its drop to its creation, through deaths and repetitions.
* `RollupsAreExact` (`RollupsExact`) and `DriftOnlyAdds` (`DriftIsUpward`), from
  `RollupsInv`: whoever believes to be alone is (`AloneIsAlone`); a backfill that nothing
  ran into starts from an empty table, as its view is gone from the drop to the backfill
  (`RebuiltFromNothing`); a staging table holds nothing before it is filled and the latest
  spans of its day after it (`StagedFromNothing`); and each table says row by row what its
  history promises (`TablesTold`).
* `OverviewIsTrue` (`OverviewMatchesRaw`): when the table is exact for every day,
  `/overview` shows of any window what `spans_raw` holds, and `/servers` the calls and the
  last minute of each server; its errors, tools, breakdown and latency are not compared.
  `RollupsExact` makes a table count each row that is due once. Each number of the console
  is a sum over rollup rows of sums over the table's rows; the rollup rows' keys partition
  the table's rows (`Partition`), and a sum over a set is the number of what its elements
  stand for (`SumOfParts`), so both sums count the same calls. The fold behind a sum is
  unique and exists for every finite set (`OnlySum` and the lemma before it, by the
  smallest set for which it would not).

`TraceQueryProofs` proves, for any spans, keys, requests, page sizes and caps:

* `ReadersMissNothing` (`PagingIsExact`) and `PagesDescend` (`PagesGoDown`). A page is the
  first rows of a list: `Ordered` puts a row where its rank says, as many places down as
  there are rows before it, and every place is some row's (`RanksAre`, by counting). So a
  page descends and has each row that was found, or all of them above its last one
  (`PageIs`), and each of its rows is below the cursor (`BelowCursorIsBelow`), which is
  the last row of the page before it: that is what `PagesGoDown` says of every page, the
  final one included. Every
  list the query may return has one row for each trace, which starts when its earliest
  span does (`ListsTell`, `TraceRowsTell`), whatever ties pick of the other columns.
* Neither part is inductive. Between two pages the cursor splits the reader's history
  (`CursorSplits`): a trace that is still kept was shown or is below the cursor, and one
  that is steady and was shown is not below it. The page that follows finds the first
  kind, as the time the driver binds cuts off only what is no longer kept, and does not
  find the second, as that time is never later than the cursor (`BelowCursorIsBelow`).
  The steps of everybody else change what is stored, and no history (`StoresKeep`); what
  is stored has times that have passed (`Stored`).
* `NothingLeadsNowhere` (`NoDeadEnds`) has two parts. `ListedOpens`: the locator has a row
  of every day on which a trace has spans, of some tenant's (`DaysAreLocated`), and each of
  its rows is of a day on which that tenant has some (`DaysAreStored`): merges keep both.
  So one that knows the trace is its tenant's, if nobody else has spans of it, and the
  newest such row gives a day with spans (`TraceIsLocated`, `LocatedIsShown`).
  `OfferedFound`: a value a select offers is in a newest version of a span, so in the
  values its trace's row may show (`OptionsAre`, `AnyOfIs`); while the trace has no other
  value there, some row shows it, for a category because nothing else in the trace is
  worse (`WorstIs`). The filter that is parsed for it keeps that row (`SelectShows`).
* `WaterfallDrawn` (`WaterfallIsATree`). `WalkFrom` is defined by a recursion over a stack.
  That the recursion has a solution is proved from the loop's runs (`RunFrom`): a state
  and the one after its turn have the same ends (`EndsNow`, `EndsLater`), so the function
  from a state to an end of its runs solves the equation (`DrawingIs`). What it returns is
  proved from an invariant of the loop (`DrawingInv`): no row is drawn twice; a row that is
  drawn, and one that is on the stack, hangs from its parent (`Hangs`); the stack is in the
  order in which its rows may follow; a child of a drawn row is drawn or on the stack
  (`NoneForgotten`). `DrawKeeps` and `SkipKeeps` are its steps. Each turn draws a span or
  shortens the stack, so of the states that break the conclusion there is one with the
  fewest turns left, which refutes itself (`WalkTells`).
* `DetailAgrees` (`DetailMatchesList`). Once the rows of the tree are the spans that were
  read (`TreeRows`), and these are the spans the list has of a trace of one day
  (`SameSpans`), both pages are told by the extremes of one set (`DetailTold`, `RowTold`).
  A span that is drawn opens as itself, since of one day and one span id only the newest
  version is read, by both queries (`OpensAlone`); in the bulk map an id leads to the one
  row of the tree that has it (`MapIs`). A span the list counts as failed is one the
  detail counts, so its number of errors is at least the list's; and a bar lies in the
  trace because the trace ends with its last span (`BarsFit`).
* `FailuresCounted` (`FailuresAddUp`). For the lists: a row's category is a failure exactly
  when one of its spans is one, whichever version is read (`RowFails`), and each page's
  filter says the same of the category (`OneFailure`). For the tables: what is stored is a
  version of a span, of two versions of one span the newer is read, and all of them name
  the same call (`NewestIsOne`); so the calls of a table's rows, and of the four tables,
  are a partition of the spans that are named (`TableCounts`, `KindsCount`, `NamedOnce`),
  the categories of a row a partition of its calls (`RowAddsUp`), and a sum over a
  partition is the cardinality of its union (`SumOfParts`). That last lemma is where
  induction would be due: it is proved from the smallest set on which two solutions of the
  fold's equation would differ. A table that is cut is the first page of all its rows
  (`TablesTell`, by `PageTakesFirst` once more), so what it leaves out has no more calls.

Assumed of the constants, by name in the modules that declare them:

* payloads are pairs of naturals, the batch limit is positive, times, lifetimes, leeways
  and bounds are naturals; gateways, tracked parents and rows are finitely many;
* `RequestsAssumption`, `OutcomesAssumption` (`Capture`): a method has a name, a custom key
  is none of the SDKs' own, and a handler's outcome is what the MCP SDKs make of one: how
  a failure is marked, and which words stand for one they answer themselves;
* `SpansAssumption`, `OrderAssumption`, `ListsAssumption`, `CapAssumption`,
  `ClockAssumption` (`TraceQuery`): times and page limits are numbers, a page and a
  detail have room for a row, a tenant's spans are told by their ids, no two traces, no
  two spans and no two items have one text, and the two lists are the ones that are paged;
* `KindsAssumption` (`TraceQuery`): what the SDKs stamp as a failure kind is one of
  `CATEGORIES` (`repository.py:249`), and of the spans that get a category only those of
  `tools/call` bear a tool's name. `_breakdown` (`repository.py:283`) drops any other
  category without a word, so a kind nobody listed would be an error of no breakdown;
* `RowsAssumption`, `WarehouseAssumption` (`Warehouse`): a name stands for one row, and a
  replay of a span keeps its time; `FilesAssumption`: a version is one file's, a file that
  drops an object creates it again, a backfill comes directly behind the drops and the
  creations of its view and its table, as in 013; `InstallationsAssumption`: a database
  that is found has in it what its ledger says.

Model-checked only:

* liveness: `EventuallyCommitted`, `EventuallyArchived`, `ExportsAnswered`, `Migrated`;
* the runs that find violations.

## Not modelled

* Pipeline telemetry (`metrics`, freshness): counters for operators that nothing reads
  back.
* Protobuf decoding, redaction and the columns that are only shown (`otlp_decode.py`,
  `redact.py`, `payload.py`'s text): pure functions of one span, for unit tests.
* Authenticator resolution, API key hashing, the local key file, the control plane's
  tables: they decide who a caller is and keep no state the models depend on; what they
  answer is the external part of `SessionTokens`. The service that owns those tables is
  not in the repository.
* Several archivers: a group of them rebalances as in `Normalizer`.
* `verify.py`, `dump_observed_attrs.py`, the demo server and the console's scripts:
  checks, reports, traffic and rendering run by hand; they keep no state. What
  `verify.py` says the system must do is what several properties state.
* HTTP bodies and downstream clients in the Python SDK, the patching of third-party
  libraries in both: they add spans and attributes to calls that are modelled without.
* The JavaScript exporter's delegates: which endpoint a span goes to, `createDelegate`
  failing for a bad one (the callback is then never called), the second provider
  `buildExporter` creates, `shutdown`.
* Migrations that only add columns; a retention or merge that removes rows of
  `spans_raw`.
