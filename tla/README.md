# A TLA+ model of the New API risk platform

The platform (`cmd/riskd`, `internal/platform`) is an HTTP gateway in front of
model providers. It admits a request, audits its text with rules and audit
models, forwards it when the audit allows it, relays the answer, and records a
trace of everything in PostgreSQL and Kafka. Several replicas share PostgreSQL,
Redis and Kafka and nothing else.

This directory models the parts whose correctness depends on interleavings,
failures and time: goroutines and channels, cancellation, slots and leases,
caches, queues and their shutdown, and the SQL statements that replicas and
administrators interleave. String recognition (what a prompt means) is
data here: where a decision depends on it, the model takes every outcome.

## 1. Inventory

| Component | State it keeps | Operations | Hard because |
|---|---|---|---|
| Gateway lifecycle (`gateway.go`, `ServeHTTP`) | two counting channels, a route slot, a trace per request, deferred calls | admit, read, audit, acquire, call, relay, return | some twenty returns, each of which must give back what was taken; the caller, the upstream and a timer end a request concurrently |
| SSE relay (`gateway.go`, `proxySSE`; `upstream_usage.go`) | a channel of capacity 1, pending events, commit flag, completion flag | read, send, select over five sources, commit, fail | two goroutines watch one context; an error must be an HTTP status before the commit and an event after it |
| Route concurrency (`redis.go`, `Acquire`) | sorted set of tokens with expiry in Redis, a counter per process | acquire, release, expire | replies are lost after the script ran; leases end while work goes on |
| Rate limiter (`redis.go`, `Allow`) | token buckets in Redis and in the process | allow | callers bring their own clocks; an error hides an executed script; idle buckets are forgotten |
| Trace writer (`trace_writer.go`, `store_traces.go`) | bounded queue, a batch per worker, `dropped` | submit, take, flush, drain | shutdown with and without waiting for handlers; ambiguous commits |
| Event sink and outbox (`kafka.go`, `store_traces.go`) | bounded queue, batch, outbox rows with locks and back-off | publish, write, spill, claim, send, mark | partial writes, 30 s locks against writes of up to 10 s for each of 100 rows |
| Long-context audit (`audit_long_context.go`, `audit_chunk_checkpoint.go`) | jobs and results channels, collector's findings, checkpoint | feed, answer, collect, return, retry | a block, an error and a cancellation race |
| Audit pipeline and failover (`audit.go`, `audit_failover.go`) | stage, profile chain, attempt counters | extract, scope, match, gate, look up, try, wait | two nested loops share a budget; the context may end anywhere |
| Configuration caches (`gateway.go`, `audit_cache.go`, `admin.go`) | map with expiry per replica | look up, save, invalidate | read before a change, fill after it |
| Model slots and budgets (`audit_full_request.go`, `audit_request_budget.go`, `audit_semantic_review.go`) | a counting channel, counters per request | acquire, reserve | shared by all requests and by the parts of one |
| Semantic review (`audit_operation_grounding.go`, `audit_v25_structured_adjudication.go`, `audit_v28_…`, `audit_v29_…`) | the votes of one call | ask, repair, verify, decide | several models in turn, each of which may fail; a verdict passes four gates |
| Model output contract (`audit_output_decode.go`, `audit_output_contract.go`, `audit_diagnostics.go`) | none | decode, classify | wrapped, repeated and broken answers |
| Rule snapshots (`audit.go`, `ReloadRules`) | an atomic snapshot and a failure flag | reload, match | two stores that are not one step |
| Adaptive learning (`adaptive_rules.go`, `adaptive_admin.go`) | candidates in PostgreSQL, a bounded channel, a cached policy | observe, classify, upsert, promote, reject | several workers and administrators decide on rows that change under them |
| Configuration store (`store.go`, `admin.go`, `main.go`) | `schema_migrations`, `audit_profiles`, `routes`, `tracking_clients` | migrate, bootstrap, save, delete | several statements per operation; replicas start together and die |
| Tracking API (`http.go`, `security.go`) | nonces in Redis or PostgreSQL | verify, use nonce, submit | redelivery, failover between stores, rotation of secrets |

How they interact: `ServeHTTP` calls the caches (route), `Allow`, `Audit`,
`Acquire`, the upstream and `TraceWriter.Submit`; `Audit` calls the profile
cache and `callModelWithFailover`, which calls `callModelChunks` once per
attempt; trace workers call `InsertTraceBatch`, the Redis dead letter stream
and `EventSink.PublishTrace`; the outbox workers of all replicas meet in one
table. `main` migrates and bootstraps the store before it serves, and stops the
server, then the trace workers, then the event sink. A failed upstream call goes
to the adaptive learner, whose workers write candidates and rules; workers,
administrators and a ticker reload the rules that `Audit` matches. Every model
call of every request (chunks, repairs, verifiers) goes through one pool of
slots.

What makes them correct: a slot taken is given back, and the upstream call it
covers is over by then; the trace tells what the caller got; an error surfaces
once and names whoever caused it; an allow is never based on part of a request;
a submitted trace is stored, dead-lettered or counted; published means
published; configuration is never staler than its TTL; a model's block is proved
and a panel heard out; a learned rule has earned its action; a migration takes
effect once, the default profile and stored secrets survive concurrent saves;
limits bound what they limit and a signed request counts once; everything that
was started ends.

## 2. Modules

| Module | Models | State and actions |
|---|---|---|
| `Gateway` | `ServeHTTP`, `proxyBuffered` | `pc` is the place in the handler, `defers` its deferred calls, `used` the slots. `Check`, `TakeGlobal`, `CheckLength`, `ReadBody`, `Audit`, `CheckClient`, `Acquire`, `Build`, `DoFails`/`DoReturns`, `Stream`, `ReadPrefix`, `Send` are its stretches between blocking points; `Unwind` runs one deferred call |
| `SSEProxy` | `proxySSE` and its reader goroutine | one action per ready case of the two `select` statements (`ContextDone`, `ResultsClosed`, `ResultErr`, `ResultEnd`, `ResultEvent`, `FirstHeartbeat`, `HeartbeatFails`); `ReaderRead`/`ReaderSend`/`ReaderQuit` for the goroutine |
| `RouteSlots` | `RedisGuard.Acquire` | `score` and `keyDies` are the sorted set and its `PEXPIRE`, `asked` the clock and TTL a call has read before Redis runs its script (`Acquire`), `local` the counters of the processes; `AcquireLost` is a script whose reply is lost and whose call is repeated |
| `TraceWriter` | `TraceWriter`, `InsertTraceBatch`, shutdown in `main` | `queue`, `batch`, `pending` (the slice `flush` works on), `rows`, `dlq`, `dropped` |
| `EventSink` | `EventSink`, the outbox functions of `Store` | the writer's queue and batch; `row` (state of an outbox row), `claimed` and `current` per replica, `topic` |
| `TraceEvents` | the trace events of a process | only the constant that the two modules above share |
| `TracePipeline` | how `main` connects the two and shuts them down | conjoins them: `PublishTrace` is `Publish` of a trace worker and `Offer` of the sink in one step, `StopSink` is `eventCancel` after `traceWriter.Wait` |
| `ChunkedAudit` | `callModelChunks` with checkpoint and retries | `unfed`/`closed` (feeder), `job` (workers), `results` (channel), the collector's variables |
| `CompleteAudit` | what an audit in chunks promises | abstract; `ChunkedAudit` implements it (`ImplementsCompleteAudit`) |
| `AuditRequest` | `Audit`, `callModelWithFailover`, `waitAuditRetry` | `stage` is the place in the code, `profiles`/`pos`/`attempt` the two loops, `tries` the calls made |
| `ConfigCache` | `getRoute`/`InvalidateRoute` and `getAuditProfile`/`InvalidateProfiles` | one record, its versions, a cache entry per replica, lookups step by step |
| `RuleLearning` | `ObserveUpstreamFailure`, the learning workers, candidates and promotion, the administrators' candidate and rule edits, `ReloadRules`, the policy | `queue`, `cands`, `rules` (tables), `snapshot` and `loadFailed` (the engine), `worker` and `reload` (where each goroutine stands) |
| `ModelOutput` | decoding of a model's answer, error classes, location of quotes | operators only; `PoliciesInText` is the reference it is compared with; `MCModelReview` gives `RawOutcome` to `ModelReview` |
| `ModelReview` | `callModelOnceWithEvidenceSource` with repair, gates, verifier and panel; slots and budgets | `call` (place, votes, result), `slots`, `plan`, `budget` (`auditSemanticState`), `ctx`; what a raw call returns is the constant `Outcome` |
| `ConfigStore` | `Migrate`, `Bootstrap`, `SaveAuditProfile`, `DeleteAuditProfile`, `SaveRoute`, `DeleteRoute`, `SaveTrackingClient` | one action per SQL statement or commit; `session` holds what a transaction has written and not committed, and other statements wait for it |
| `RedisGuard` | `Allow`/`allowLocal`, `ingestTrackingEvents` up to the accepted nonce, `UseNonce`, `UseNonceFallback` | `bucket` per store, `nonces` and `stored`, `client`, `call` with the clock its handler read; when a store last took a message (`lastUse`) and which edit withdrew its secret (`revoked`, `call.read`) are kept for the properties only |
| `SSEProxyProofs`, `GatewayProofs`, `AuditRequestProofs`, `ChunkedAuditProofs`, `TracePipelineProofs`, `ConfigStoreProofs`, `ModelReviewProofs`, `RedisGuardProofs` | theorems | see section 5; `TracePipelineProofs` holds those of `TraceWriter`, `EventSink` and `TracePipeline`, `AuditRequestProofs` those of `RuleLearning` too, `ConfigStoreProofs` those of `ConfigCache`, `RedisGuardProofs` those of `RouteSlots`. Names that two modules would share carry a prefix in the second (`SinkSpec`, `CacheSpec`, `RouteSpec`, `LearnSpec`), so that one proof module can extend both |

`MC*` modules give constants for TLC where a cfg cannot write them. An operator whose comment says "Mutant
of" is a plausible bug of the definition that follows it; nothing uses it in the
specification, and each shows that the property it is paired with in
`PROJECT.json` can fail.

`Gateway` treats `Audit` and `proxySSE` as single steps with the results that
`AuditRequest` and `SSEProxy` allow: `FailureSurfacesOnce` (which includes
`DisconnectBlamesTheClient`) is what `Gateway!Stream` assumes, `AuditEnds` is what its
fairness assumes. The route slot in `Gateway` is the process-local one;
`RouteSlots` has both. A call that `ChunkedAudit` answers with one step, and
`AuditRequest` with `CallDecides` or `CallFails`, is followed step by step in
`ModelReview`: `CallsEnd` is what their fairness assumes. The rule reload of
`AuditRequest` is the one of `RuleLearning`, the change of `ConfigCache` a save
of `ConfigStore`. What `EventSink` assumes of its caller, that no event
comes after `eventCancel`, is proved of `TracePipeline` (section 5).

## 3. Runs

One run per component asks for its safety and, under fairness, its liveness. A
module's `TypeOK` and its smaller invariants are conjuncts of the properties
named in the cfg.

| Run | Config | Checks | Bounds |
|---|---|---|---|
| `sse_relay` | `SSEProxy.cfg` | order and completeness of the relay, one form of failure, blame; handler and reader end once the caller has left, or once the stream has if the caller reads | 3 events of 5 kinds, 2 pending events force a commit: every commit path, and an event after the commit, happen |
| `trace_writer` | `TraceWriter.cfg` | nothing lost silently but what is submitted after the last worker has left, one owner, deduplication, drain; shutdown ends, events leave memory | 3 events (two with one external id), 2 workers, queue 1, batch 2, so that overflow, two batches at once, a batch that never fills and both shutdowns happen |
| `event_sink` | `EventSink.cfg` | at least once, published is true and final; rows are published in the end | 2 events and a queue of 1, so that one can overflow; 2 replicas, so that claims overlap |
| `chunked_audit` | `ChunkedAudit.cfg` | complete verdicts, one place per chunk; the call returns, no goroutine is left, `CompleteAudit` is implemented | 3 chunks, 2 workers, 2 attempts: a chunk in every place at once |
| `config_cache` | `ConfigCache.cfg` | bounded staleness | 2 replicas, 2 lookups, 3 changes, TTL 1, clock to 3 |
| `audit_request` | `AuditRequest.cfg` | budget, order, finality, coverage, error classes, end | 3 profiles, a chain that repeats one and the root, budget 4 of 7 possible calls |
| `gateway` | `Gateway.cfg` | slots, cover of the upstream call, orphans, traces, blame; requests end, leaving frees slots | 2 requests, 2 global, 1 large, 1 route slot |
| `route_slots` | `RouteSlots.cfg` | live tokens, exact local counters, leaks expire | 4 requests on 2 replicas, limit 1, tokens of 2 ticks, clock to 4, scripts that run any time after their call has read the clock; the requests of one replica are interchangeable (`MCSymmetry`) |
| `rule_learning` | `RuleLearning.cfg` | a learned block is earned, a rejection holds, the snapshot converges | 2 workers, queue 1, 2 samples of one identified or an unidentified user, one edit, one fault; six answers, of which two make the same candidate and the others are refused for one reason each; a policy that promotes at once and one that is out of range |
| `model_review` | `ModelReview.cfg` | a block rests on one located harmful quote, no member of a panel is skipped or its failure forgotten but by a denial, budgets suffice, every call ends | 2 chunks of one request over 1 slot, panels of 0 to 2, 2 plans, 25 answers: one or more for each class that the decoder and the gates tell apart. The base budgets are 0, so that only what `configureChunkBudget` reserves is there |
| `config_store` | `ConfigStore.cfg` | migrations once and in order, one default, secrets kept, every replica serves | 2 replicas, 2 migrations, 4 profile ids, 2 requests that overlap, one crash or failed statement; an empty database and one that an earlier release served from |
| `redis_guard` | `RedisGuard.cfg` | admitted calls against the rate, one acceptance per life of a nonce and store, end of a withdrawn secret | 3 handlers on 2 replicas, clocks one second apart, delays of a second, 3 errors; either 4 calls in 4 seconds or 3 deliveries and an edit in 8; the nonce lives for twice the skew (4 seconds), as with the shipped values, so that a second acceptance at the other end of the window happens |

Two requests are enough for the slot arithmetic of `Gateway` because every slot
is taken or refused in one step and none is waited for; what matters is a holder
and a competitor. Three events and two workers give every pair of owners of an
event, and a third event in the queue. The clocks of `ConfigCache` and
`RouteSlots` run to twice the lifetime of an entry or token, or further, so that
one can be filled, expire and be filled again. Two overlapping requests suffice
for `ConfigStore`: every lost update and every wait has one transaction and one
competitor, and the bootstrap of the other replica is a third. In `RedisGuard`
two handlers of one replica overtake each other between the clock and the
bucket and a third brings another clock.

`MCTracePipeline` with `TracePipeline.cfg` checks the writer and the sink
together (`EveryTraceIsAccountedFor` and the invariants of both; half a minute).
It is not one of the runs: its theorem holds for all constants, and the liveness of the two
parts is that of `trace_writer` and `event_sink`. With 2 workers, 3 events and no
replica it has 1,003,099 states; with 1 worker, 2 events and 2 replicas 285,906.

### Observations

The properties say what holds. The following does not hold, and the models show
why; each property that comes near one of these names the exception.

Relay, gateway and slots:

- the idle timeout of an unfinished stream can be recorded as a success with
  HTTP 200: the reader goroutine sees the cancelled context first and closes the
  channel, and the handler's `select` may take the closed channel rather than
  `Done` (`gateway.go:968`, `:1039`; `README.md:84` promises a 555 for an error
  before the first event);
- after a terminal event, an idle timeout still appends a logical 555
  (`gateway.go:1028`; `docs/upstream-stream-and-token-usage.md:17` says a
  completed stream gets none);
- any error of `io.Copy` in `proxyBuffered`, also of the read side or by the
  request timer, is recorded as `CLIENT_DISCONNECT` with status 200
  (`gateway.go:838`), which `docs/upstream-stream-and-token-usage.md:101-103`
  reserves for a caller that left. It is the exception of `TraceTellsTheAnswer`:
  a body beyond `ResponseInspectMaxBytes` is being copied. Conversely a prefix
  read that fails because the caller left is recorded as `UPSTREAM_READ_ERROR`;
- the server has no write timeout (`main.go:119-120`) and neither `writeLines`
  nor `proxyBuffered` sets a deadline: a caller that stays connected and stops
  reading holds its handler, its slots and the upstream call for ever.
  `StreamEnds` and `RequestsReturn` are about callers that leave or go on reading;
- a stream that lives longer than timeout + 30 s loses its token and the route
  exceeds its limit (`gateway.go:523`, `:598-613`; `README.md:324`), and so does
  a buffered answer whose caller takes it slowly (`gateway.go:827-830`).
  `SlotBound` is therefore about live tokens;
- the client of Redis repeats a call whose reply it has lost, with the same
  token: the script then meets the token of the first attempt, and at the limit
  refuses the request because of it (`redis.go:38-50`; `RefusalIsJustified` counts
  that token);
- after a route's timeout is shortened, `PEXPIRE` (`redis.go:48`) removes
  longer-lived tokens with the key, so `SlotBound` needs a constant timeout
  (give `RouteSlots` two `TTLs` to see it);
- a caller that disconnects before the commit of a stream is recorded with
  status 555 (`gateway.go:962-967`), one that disconnects before the response
  headers with 499.

Caches, traces and the audit pipeline:

- a change is not always visible at once on the replica that made it
  (`audit_cache.go:54`, `gateway.go:126`; `docs/operations.md:325` says 立即失效):
  a slow lookup fills the cache with what it read before the change;
- after a forced stop of the server a handler that `Close` has abandoned can
  still `Submit` (`trace_writer.go:62-71`); once the last worker has found the
  queue empty, the event stays in it and is lost with the process, without a dead
  letter and without a count in `trace_dropped`. It is the exception of
  `NoSilentLoss`, which says that only such an event is stranded, by its own
  `Submit`;
- events skipped as duplicates by `InsertTraceBatch` are still published to
  Kafka, and an event that cannot be encoded or whose outbox insert fails remains
  only as a log line;
- a deadline inside the failover loop leaves `ErrorClass` empty
  (`audit_failover.go:68`), so the trace is not marked
  `audit_timeout_fail_open`;
- `README.md:213` still describes the fail-closed behaviour for model errors;
  the code is fail-open.

Rules and model reviews:

- a blank `contains` or `exact` pattern passes `ValidateCyberRule`
  (`audit.go:189-213`), and once enabled makes every `ReloadRules` fail
  (`audit.go:170-172`): new rules are not loaded until it is removed.
  `RulesConverge` then demands that the flag says so;
- an automatic promotion overwrites, and enables again, a rule that an operator
  has edited or switched off under the same code (`adaptive_rules.go:335-353`);
  only the manual one checks (`adaptive_admin.go:85`, "A candidate may never
  replace an existing operator-managed rule"). An operator's block so comes back
  with the pattern of a candidate that need not have earned a block ("kept", the
  exception of `HardBlockIsEarned`);
- a rejection that falls between a worker's upsert and its promotion is
  overwritten (the exception of `RejectionHolds`);
- a model's block whose quote is only an active scan passes the v28 gate, but
  `confirmedCyberBlockV29` asks for a harmful one, so it becomes an allow; the
  "doubt" of an earlier member of a panel counts as an allow, and only the last
  vote tells a clean allow from a doubt;
- the first denial ends a panel at once, and if v28 or v29 does not confirm it, the
  call returns an allow without an error: the failure of an earlier member is
  dropped and later members are not asked (`audit_v25_structured_adjudication.go:567-572`,
  `audit_cyber_deny.go:198-200`), although the panel is to "never conceal
  failed/missing assessments". It is the exception of `PanelIsHeard`.

Configuration store:

- saving the default profile with `is_default` unset leaves none, and
  `Bootstrap` makes none while a row has its profile's name; the bootstrap
  profile comes back at the next start after it was renamed or deleted;
- `DeleteAuditProfile` of the default is refused, yet the references to it have
  been removed from the fallback chains by then (`store.go:421-425`); a delete
  and a save that overlap can leave a fallback id without a row;
- of two overlapping saves the one without a secret undoes the other's rotation
  (`store.go:366-380`, the exception of `SecretsAreKept`), for routes and
  tracking clients too; a generated client secret can replace one just given;
- the slug of a deleted route stays taken.

Redis guard:

- `tokenBucketScript` takes its caller's clock and writes an earlier time stamp
  back, after which the same seconds are earned again; `RateIsBounded` counts
  this as `setBack`;
- the sweep of `allowLocal` forgets a bucket after ten minutes, which refills it
  early when `Burst / Rate` is larger (`KeptLocally`);
- `docs/newapi-integration.md:157` says a nonce is used once.
  `TRACKING_NONCE_TTL` defaults to exactly twice `TRACKING_CLOCK_SKEW`
  (`config.go:140-141`) and nothing relates them: a request that was taken at one
  end of its window can be taken again at the other, more easily where the clock
  of a replica is behind or a handler waits between the check and the nonce. `AcceptedOncePerTTL`
  says what does hold for every TTL: never twice in one life of the nonce, and as
  many lives as fit into the window;
- a nonce that Redis has taken is taken once more by PostgreSQL after a failover
  (and conversely), so `AcceptedOncePerTTL` is about each store. A nonce is used
  up even if the payload is refused afterwards;
- a handler that had read a tracking client before it was switched off or its
  secret rotated still accepts what the old secret has signed, however long that
  takes (`http.go:318-332`, the exception of `RevokedSecretDies`).

## 4. Fairness

Safety properties hold without fairness (TLC checks them in the same run).
Liveness needs `FairSpec` (`FairSinkSpec` in `EventSink`; in `RuleLearning`, `ModelReview` and `ConfigStore`
fairness is part of `Spec` or `LearnSpec`):

- goroutines that can move do (weak fairness of each goroutine's own steps), but
  the handler of `SSEProxy` only once its caller has left: a step of it may be a
  write that waits for the caller. What holds for a caller that reads on is said
  in the property, under `CallerReads`;
- timers fire (`IdleTimeout`, `RequestTimeout`, `LockExpires`, `BackoffEnds`);
- a model call ends, because its HTTP client has a timeout;
- the ticker of the rules runs for ever, and faults of the database are finitely
  many (`MaxFaults`), so that some reload after the last edit succeeds;
- in `ConfigStore`, a container that ends is started again (`restart:
  unless-stopped` in `docker-compose.yml`), and a statement that need not wait
  ends; nobody has to edit anything. Crashes are finitely many, without which no
  replica need ever serve;
- in `EventSink`, PostgreSQL and Kafka succeed infinitely often when they are
  tried infinitely often (strong fairness of a successful claim, send and mark):
  without it no row need ever be published;
- nothing is assumed of upstreams and callers: an upstream may stay silent until
  its context is cancelled, and a caller who stays may hold up the read of its
  body and the write of its answer for ever, because the server sets no
  `ReadTimeout` or `WriteTimeout`.

`CHECK_DEADLOCK FALSE` is set where the modelled activity is finite (a request,
a stream, a process that stops).

## 5. Proofs

TLAPS proves the following for every value of the constants that satisfies the
named assumptions of the modules. Each `*Proofs` module states an inductive
invariant (`IInv`, for the rules `RuleInv`, for the sink `SinkInv`, for both
ends of the trace pipeline `PipelineInv`, for the caches `CacheInv`, for the slots
of a route `RouteInv`), one lemma
for the initial states, one for the steps with a case per action, and derives
the theorems from it. Each of these invariants was checked by TLC on its
component's run first.

| Theorem | States | What the invariant adds, and why the property is not inductive without it |
|---|---|---|
| `ConfigStoreProofs!MigrationsAreAppliedOnce` | `MigrationsApplyOnce` | whoever looks at migrations holds the advisory lock, and all before the one it looks at are applied (`MigrationInv`): so the file it commits is the next one and nobody else can be committing it |
| `ConfigStoreProofs!TheDefaultIsKept` | `DefaultIsKept` | one that is about to commit as the default has taken it from every other default, and it is the only one that is about to (`DefaultInv`); this is what the partial unique index and the waits for its open entries give. Only a save of a default takes it from others (`SessionInv`), the sequence is ahead of every row (`Fresh`), the route's profile exists |
| `ConfigStoreProofs!StoredSecretsAreKept` | `SecretsAreKept` | what a save without a new secret read is still stored, or the row was written since (`SecretInv`); each step changes a secret only in a row whose revision it raises, or the row goes (`Marked`) |
| `ConfigStoreProofs!CachesHoldOnlyAnswers`, `StalenessIsBounded` | `CacheTypeOK`, `BoundedStaleness` | an entry expires at most a TTL after what it holds was replaced (`EntryDated`), and what a lookup has read was current when it took its time or later (`ReadDated`): the property says nothing of an entry that no lookup has returned yet. The essential step is that `expiresAt` is computed from the time taken *before* the read |
| `ChunkedAuditProofs!TypeCorrect`, `ChunksStayInPlace`, `AuditIsComplete` | `TypeOK`, `OnePlacePerChunk`, `VerdictIsComplete` | every answer in the channel, every collected chunk and every checkpoint was judged accordingly (`Accounted`). The collector's counter is the number of collected chunks, so that `completed = len(chunks)` means all of them |
| `ChunkedAuditProofs!Refinement` | `ImplementsCompleteAudit` | a block of the model is in the channel or collected until the call returns (`BlockInv`); then each step is one of `CompleteAudit` or leaves what it speaks of alone |
| `SSEProxyProofs!ClientReadsAPrefix`, `FailuresSurfaceOnce`, `OutcomesFollowTheStream` | `RelaysAPrefix`, `FailureSurfacesOnce`, `OutcomeFollowsTheStream` | where each event of the upstream is (`Flow`: handler, channel, reader, body, in this order), that a reader under a live context leaves only with the end of the body, that nothing meaningful is held back before the commit (`Uncommitted`), and that the end in the channel is the end of the body, behind every event (`EndInv`) |
| `GatewayProofs!EverySlotIsHeld`, `NoUpstreamIsOrphaned`, `TracesTellTheAnswer` | `SlotsAreHeld`, `NoOrphanedUpstream`, `TraceTellsTheAnswer` | what is deferred at which stage, and no release twice (`Deferrals`); the call that ends an open upstream call is on top of the stack (`Covered`), so that it runs before the slots are released; nothing is written or recorded before the end (`Recorded`). Blame is a fact about the step that records the trace (`BlameStep`): what it says of the caller and of the context has to be read in the state it is taken from |
| `AuditRequestProofs!CallsAreBudgeted`, `DecisionsAreFinal`, `AllowsAreExplained` | `CallBudget`, `FirstDecisionIsFinal`, `AllowIsExplained` | the last `Made` calls were made on the current profile and may be repeated, those before on earlier ones (`WalkInv`); the chain names nobody twice (`ChainInv`); the two loops' own bounds (`BudgetInv`) |
| `AuditRequestProofs!LearnedBlocksAreEarned`, `RejectionsHold` | `HardBlockIsEarned`, `RejectionHolds` | tables that were read and not yet stored rest on earned candidates too (`Tables`), and so does a worker between its transaction and its promotion (`Promotes`). Evidence, users and confidence of a candidate only grow (`UpsertedGrows`, `EarnedStays`), so that a delayed promotion or reload cannot become wrong |
| `ModelReviewProofs!BlocksAreProved`, `PanelsAreHeard` | `BlockIsProved`, `PanelIsHeard` | where a call can be with how many votes (`Placed`): a verifier is asked only while one is left, a repaired answer is not repaired again, and nothing has a result before it is done |
| `ModelReviewProofs!BudgetsAreEnough` | `BudgetsSuffice` | what a request has reserved and not used is at least what its calls may still need together (`Reserved`): one unit for each HTTP call and review that a call may still make in its place (`HTTPNeed`, `ReviewNeed`), counted as a set over the calls of the request. The property says only that one unit is left, which the next call could use up |
| `TracePipelineProofs!NothingIsSilentlyLost`, `RedeliveryLeavesOneRow` | `NoSilentLoss`, `OneRowPerExternalId` | batch and pending slice are not full at once (`HeldWhere`); the order of the shutdown (`ShutdownOrder`: workers drain only after `traceCancel`, which comes after the server; one that leaves found the queue empty, so that only a later `Submit`, of a handler that a forced stop has abandoned, can put an event where nobody looks); the external id of every row is in `request_dedupe` (`RowsAreKnown`). That a stored event is also handed on needs that each is with one holder at a time (`OneHolder`) |
| `TracePipelineProofs!SinkLosesNothing` | `NothingLost` | the pending slice is only full in a flush, what a replica is about to mark as published was sent (`Acknowledged`) although its lock may have expired, and the writer leaves only after `eventCancel` and with an empty queue (`SinkOrder`) |
| `TracePipelineProofs!PipelineIsATraceWriter`, `PipelineIsAnEventSink` | `PipelineSpec` implies `Spec` of `TraceWriter` and `SinkSpec` of `EventSink` | the first holds step by step. The second needs the invariant: `EventSink` lets nobody publish after `eventCancel` and takes an event once, which follows from the order of the shutdown and from `OneHolder` on the writer's side (`Handover`) |
| `TracePipelineProofs!TracesAreAccountedFor` | `EveryTraceIsAccountedFor` of `TracePipeline` | the two invariants and `Handover`: the sink knows exactly what was handed over (`OnlyOffered`), and only stored events were |
| `RedisGuardProofs!SlotsAreBounded`, `RefusalsAreJustified` | `SlotBound`, `RefusalIsJustified` | while the timeout of the route is constant, every `PEXPIRE` sets a later time than the one before, so the key outlives its tokens (`KeyOutlives`); no call has read a clock that is ahead (`AskedBefore`), so a script that runs late removes no token that is still live, and the tokens in the set are those that were taken (`TokensAreAsked`, `TokensBound`) |
| `RedisGuardProofs!RequestsAreAcceptedOncePerTTL` | `AcceptedOncePerTTL` | a nonce that is stored lives at least as long as the last acceptance says (`Remembered`); a handler whose message is in use found it in its window at most `MaxDelay` ago (`InFlight`); the first of n acceptances lies n - 1 lives before the last (`Lives`, `Paced`), and both within the window. Nothing is assumed of the TTL, the skew or the delay |
| `RedisGuardProofs!RevokedSecretsDie` | `RevokedSecretDies` | what has been withdrawn is authorised by the stored client no more (`Withdrawn`), and a handler on its way to the nonce has read the client at an edit that authorised its message (`Reader`) |
| `RedisGuardProofs!CallsAreRated` | `RateIsBounded` | what a store admitted from any second on, with the tokens it has left, does not exceed the burst and what the rate has earned since (`Paid`), the script's set-backs added in Redis. An overtaken call takes tokens back in a process: a bucket may owe as much as a delay earns and no more than it has earned since its time stamp (`LocalRate`), so that one forgotten after `IdleLimit` would have been full (`KeptLocally`); in Redis the expiry remembers the clock of the last call (`RedisRate`, `KeptInRedis`) |
| `AuditRequestProofs!AuditsAreBounded`, `GatewayProofs!RequestsAreBounded`, `ModelReviewProofs!CallsAreBounded` | `StepsAreSpent` of each module: `StepsLeft` is a number that every own step makes smaller and that no step makes larger, but for a further plan of the request in `ModelReview` | an audit has five steps for each call that is left of the total, besides the stages before the models (`BudgetInv`: a call is made only while one is left); a request has two for each stage of `ServeHTTP` that is ahead, one of them for the call it may defer, and its deferred calls; a model call has six for each model it may still ask (`Placed`), and only a further plan of its request renews them, at most `MaxAuditChunkPlans` times |

What the proofs assume beyond the assumptions of the modules, where they are
named:

- `SlotsAreBounded` assumes that `TTLs` has one value; without it the property is
  false (section 3, Observations).
- `RateIsBounded` has its hypotheses in itself: an idle bucket lives at
  least until it would have been full (`KeptInRedis`, `KeptLocally`). Redis may
  not be the name of a replica, and the bounds (`Mixes`) are finitely many.
- `TraceWriterAssumption` asks for a worker: without one every event would be
  stranded. The code starts four (`trace_writer.go:43`).
- `ModelReview` takes the decoder as a constant (`Outcome`) and assumes of it that
  a verdict which is no allow is the only policy of its response (`SolePolicy`).
  `MCModelReview` gives it `ModelOutput!RawOutcome`, so that TLC checks this
  assumption for the answers of its run.
- `TracesAreAccountedFor` has Kafka enabled and a process that is not killed; the
  dead letter stream keeps what it took (section 6).
- The bounds of the runs (`MaxSamples`, `MaxFaults`, ...) are arbitrary numbers in
  every theorem.

The facts about sizes of finite sets come from `FiniteSetTheorems`. `Gateway`
writes the stack of deferred calls with `SubSeq`, and empty codes have names
(`NoCode`, `Unset`, `NoRisk`), because the provers reason better about these.
`RedisGuard` counts the admitted calls as running totals over the seconds, so
that the calls of a span are a difference: the laws of a sum over a span would
need an induction over data. `ConfigStore` removes an id from a fallback chain
where it stands (`ArrayRemove`): `SelectSeq` is recursive.

Only model-checked:

- liveness under fairness (`StreamEnds`, `EventsSettle`, `RowsArePublished`,
  `CallEnds`, `AuditEnds`, `RequestsReturn`, `RulesConverge`, `CallsEnd`,
  `ReplicasServe`): out of the prover's reach. Half of the argument for
  `AuditEnds`, `RequestsReturn` and `CallsEnd` is proved: nobody takes steps for
  ever (`StepsAreSpent`), so that one who never ends would have to stop. That the
  steps it waits for are enabled and taken is the half TLC checks;
- what `ModelOutput` decodes (`SolePolicy`): it walks nested answers with
  `RECURSIVE` operators, next to which tlapm cannot use its SMT backend, and a
  proof would be an induction over data.

Every other property of the runs is proved.

## 6. Abstractions

- An SSE event is its kind; a trace event is its identity and external id; a
  configuration record is the number of its last change; a chunk is its index.
- `BatchSize`, `QueueSize`, `PendingMax`, `MaxTotal` and the like are constants,
  small in the runs.
- Queues of `TraceWriter` and `EventSink` are sets: several consumers take from
  them and no property is about their order.
- The Redis dead letter stream is not trimmed; `request_dedupe` rows do not
  expire (the code keeps them for 48 hours); clocks of replicas agree, except in
  `RedisGuard`.
- The single-chunk path of `callModelChunks` is a single model call and part of
  `AuditRequest!CallDecides`/`CallFails`.
- `go-redis` repeats a call whose connection fails. `RouteSlots` has the repeated
  script (`AcquireLost`); in `RedisGuard` a repeated `Allow` or `SETNX` is the
  error path (a hidden execution, then the fallback), so a nonce that a repeated
  `SETNX` finds taken by its own first attempt, a refusal, is left out.
- In `RuleLearning` a confidence is the band between two thresholds it falls in, a
  candidate is its fingerprint, and patterns match nothing: rules are compared,
  not applied. The upsert of a candidate and the re-read of the policy that
  follows are one step.
- In `ModelOutput` an answer is a tree of objects, arrays, strings and policies;
  in `ModelReview` a quote is what the recognisers make of it (`harm`, `active`,
  `topic`, `inert`, `invented`, ...) and one request stands for all, since
  others only hold slots for a while. `fuseAuditIntent`, `verifyAuditIntent` and
  the branch of `callModelOnce` without the cyber-deny context are not
  modelled: `Audit` always sets that context.
- `ConfigStore` has one route and one tracking client, PostgreSQL's READ
  COMMITTED with row locks, and an environment with an audit endpoint. An id that
  `Bootstrap` uses up without a row is left out; accounts (insert-only) are too.
  An `UPDATE` of several rows locks them in one step: two statements that lock the
  rows in opposite orders, of which PostgreSQL aborts one as a deadlock, are a
  statement that fails (`RequestFails`), not one that waits.
- `RedisGuard` counts in whole seconds and tokens; parsing and submitting an
  accepted payload is left to `TraceWriter`.
- `route.MaxConcurrency <= 0` (no limit) is left out of `RouteSlots` and
  `Gateway`.

## 7. Plan

Done, in this order: `SSEProxy`, `TraceWriter`, `EventSink`, `ChunkedAudit` with
`CompleteAudit`, `ConfigCache`, `AuditRequest`, `Gateway`, `RouteSlots`; proofs
for `ConfigCache` and `ChunkedAudit`; `RuleLearning`, `ModelOutput` with
`ModelReview`, `ConfigStore`, `RedisGuard`; proofs for `TraceWriter`,
`EventSink`, `RouteSlots`, `Gateway`, `AuditRequest`, `SSEProxy`, `RedisGuard`,
`RuleLearning`, `ConfigStore`, `ModelReview` and the refinement of
`CompleteAudit`; `TracePipeline`, the composition of `TraceWriter` and
`EventSink`, with its proofs.

Next:

1. pure algorithms against reference definitions: `splitAuditTextWithOffsets`,
   chunk size selection, `resolveRequestBodyLimit`;
2. partitions and retention (`MaintainPartitions`).

### Not modelled

The heuristics over prompt text (their outcome is a nondeterministic field), the
extraction of text from request bodies beyond its outcome, sessions and accounts
of the console, settings, SQL searches, the reading of the environment, and the
mock provider. They are string processing or I/O without
the behaviours this project is about.
