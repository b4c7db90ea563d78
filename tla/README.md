# A TLA+ model of the NVIDIA API gateway

The gateway (Go, `src/main.go` and `src/pkg`) sits between clients that speak
the OpenAI, Claude or Gemini protocol and NVIDIA's OpenAI-compatible upstream.
It owns a roster of upstream keys, spreads requests over them, reacts to rate
limits and rejections, translates protocols while streams are running, and
keeps its state in five JSON files.  This directory holds TLA+ modules that
model that behaviour, TLC configurations that check small instances, and proofs
that TLAPS checks for every instance.

Definitions keep the names of the Go functions they translate; `PROJECT.json`
maps each one to its lines, lists the hazards of the code by line, and pairs
every checked property with a plausible bug that breaks it (the *mutants*,
operators that stand before the definition they replace).

1. [Inventory](#1-inventory)
2. [Plan](#2-plan)
3. [Modules and the code](#3-modules-and-the-code)
4. [Runs, bounds, fairness](#4-runs-bounds-fairness)
5. [Proofs](#5-proofs)
6. [Where the code and its texts disagree](#6-where-the-code-and-its-texts-disagree)
7. [What is not modelled](#7-what-is-not-modelled)

## 1. Inventory

| Component | State it keeps | Operations | Talks to | Correct when |
|---|---|---|---|---|
| Scheduler, `scheduler/redis.go` | slice of weighted keys, dead set, cooling deadlines per key and per (key, model), slot counters; in memory under one mutex, or in Redis | AcquireKey, TryAcquireSpecificKey, ReleaseKey, MarkCooling, MarkModelCooling, MarkDead, AddKey, SetHealthMultiplier, Reset | every request, the loader, the health scorer | a key is handed out only while eligible, slots are not leaked, coolings are kept, weights do not compound, nobody starves |
| Store, `db/db.go` | one cached `Store` behind an RW mutex, five JSON files | ReadStore, UpdateStore, layout migration, legacy import | everything that reads or writes keys, configuration and health state | updates are atomic and survive a crash |
| Loader, recovery, prober, refresher: `gateway/loader.go`, `status.go`, `recover.go`, `prober/` | none of their own | read the store, Reset and refill the pool; probe Cooling and Dead keys, write their status | store, scheduler, upstream | pool and store agree in the end, statuses are not overwritten with old knowledge |
| Request execution: `gateway/proxy.go`, `responses.go`, `embeddings.go`, `stream_live_compat.go` | the attempt loop of one request | acquire, call, classify, retry, relay, release, charge, fall back | scheduler, breaker, scorer, affinity, quota | one answer, one charge, one key at a time, none left behind |
| Conversation affinity, `gateway/upstream_affinity.go` | conversation -> key, for 2 hours | get, set, clear | request execution | stale bindings do no harm |
| Model circuit breaker, `gateway/model_breaker.go` | per model the times of recent 429s and 5xxs, and until when it is open | recordFailure, isOpen, status | request execution | it opens on an outage and closes after it |
| Health scorer, `gateway/health_scorer.go` | per key a window of 100 samples, consecutive 5xx, consecutive low scores | record, evaluateScores, reset | scheduler | bad keys are out, good keys come back |
| OpenAI streaming: `gateway/stream_drain.go`, `proxy.go` | reader goroutine, keep-alive goroutine, response buffer | drain, interrupt, cache | upstream body, client connection | bytes arrive once and in order, no goroutine is left |
| Translated streaming: `gateway/stream_live_compat.go`, `stream_guard.go` | reader goroutine, collected event, open content blocks | relay, consume, finish, keep-alive, retry | upstream body, client connection | a legal event sequence with the upstream's data |
| Responses API: `gateway/responses.go`, `responses_store.go` | responses and their conversation, for 30 minutes | create, get, delete, stream | request execution | a response is visible to its owner only, until it expires |
| Protocol translation: `gateway/translator.go`, `responses_translate.go`, `embeddings_translate.go`, `stream_compat.go` | none | conversion of requests and answers | request execution | |
| Health report, `gateway/health.go` | latest report, full sweep, model catalogue, history; persisted through the store | RunHealthReport and its worker pools, GetUpstreamModels, hydration | store, upstream | every model is reported, a finished sweep is not lost |
| Administration: `gateway/admin*.go`, `system.go` | none | create, edit, delete and import keys and master keys, rotate, configuration | store, loader | decisions of the administrator stand, values of keys stay unique |
| Quota, rate limits, authentication: `middleware/` | per-minute counters in Redis, used quota in the store | Check, Record, authenticate | request execution | overruns are bounded, charges reach their key |
| Semantic cache, `cache/semantic.go` | answers in Redis for 24 hours | Get, Set | request execution | only complete answers are stored |
| Diagnostics: `gateway/upstream_diagnostics.go`, `upstream_runtime.go` | recent events | record, list | admin page | |
| Wiring, utilities, front end | | start-up order, AES, paths, HTTP pages | | |

What makes it hard: requests, the prober, the refresher, the health scorer and
administrators run at once and meet only in short critical sections (one
scheduler mutex, one store lock, one scorer lock); between them they work from
snapshots.  A reload of the pool is a Reset followed by one AddKey per key with
no lock around them.  Streams add goroutine hand-offs with cancellation and
timers.  One store update is five file writes.  With Redis the pool outlives the
process, its commands fail one by one, and counters expire under their holders.

## 2. Plan

Done, in this order: KeyPool and its proofs, KeyScheduler with the refinement and its
proof, SchedulerFairness, KeyLifecycle (composes the pool with store and requests),
StreamDrain, LiveTranslators with ClaudeProtocol and CompatStream, RequestContract
with RequestExecution (composes the pool with requests), UpstreamHealth; then
StoreContract with StoreFiles, StoreLayout, MasterKeys with its proofs,
ResponsesProtocol with the third translator in LiveTranslators, RedisScheduler,
HealthRuns.

Proofs, in this order: the pool, the weighted scheduler and the ledger of master
keys; then StoreFiles implements StoreContract, RequestExecution implements
RequestContract, StreamDrain, StoreLayout, KeyLifecycle's capacity, the bounds of
overruns, the fairness of the round robin, UpstreamHealth's LowKeysAreOut; then
CompatStream: its invariants and its implementation of the two protocols, for which
the translators were written in steps of one event each; the
sweeps of HealthRuns, and the counters of RedisScheduler.  Left is what the provers do
not reach (section 5).

## 3. Modules and the code

**KeyPool** is what the scheduler promises: an acquisition takes *some*
eligible key, or none if there is none.  One action per operation, because
each holds `Scheduler.mu` throughout.  `holds` is a history variable: which
caller holds which key, against which the counters in `concurrency` are judged.
An expired cooling is an entry whose deadline the clock has passed; purges set
it to 0, the absence of an entry.

**KeyScheduler** is `redis.go` without Redis: the ordered slice of slots with
`currentWeight`, smooth weighted round robin with the first maximum winning,
weights as base * multiplier.  Multipliers are counted in halves so that
weights are integers.  Operations that do not touch the slice *are* the pool's.
`Pool!PoolSpec` with `active` read off the slice is the refinement.
**SchedulerFairness** extends it with the number of rounds a key has lost in a
row, counted beside every operation.

**RedisScheduler** is `redis.go` with Redis.  A script is one action; AddKey,
Reset and SetHealthMultiplier are one action per command, with scripts and other
commands between them.  `score[k] = Gone` is a key that is not in the sorted set.
`lease` is what is left of a counter's expiry.  A fault is a lost reply of an
acquisition, a release that does not arrive, or any failing command of a job;
a crash empties the process and leaves Redis as it is.

**KeyLifecycle** (extends KeyPool) puts three things side by side that are never updated
together: the records of keys in the store, the registrations in the pool, and the
requests that hold a key. A record has an id, and statuses are written by id, but pool
and requests know a key by its plaintext: a request's verdict goes to the first record
with it (`First`), an administrator may enter a key twice or replace it. Threads
(requests, the prober, the refresher, administrators) run *jobs*: `LoadActiveKeys` is
one read of the store, one Reset and one AddKey per key (`loader.go` 28-69);
`restoreAPIKeyStatuses` reads, probes over the network, then writes (`status.go` 47-72),
and a load follows. A request acquires; its first miss restores, later ones wait and
poll (`proxy.go` 113-168). A 429 or 401/403 marks the key in the pool and writes the
status (822-839), without a reload: that is left to the next miss, the prober, the
refresher and administrators, who edit the store, then reload (`admin.go`,
`admin_api_key_import.go`).

**StreamDrain** is an OpenAI stream passed through: reader goroutine, select
loop, keep-alive goroutine, and the end of `executeOpenAIStream` with its
interruption frame and the cache.  An answer is a sequence of half events,
because a Read may end anywhere.  The hand-over of a chunk through the
unbuffered channel is one action (`Rendezvous`), the copy made before it is
why the reader may go on reading.

**LiveTranslators** are the three streaming translators in steps, each of which
writes one event or none: a *todo* is the method a translator is in and what is
left of it, so that block numbering, tool call fragments and the last frame are
decided where the code decides them, and a write may fail at each frame.
**CompatStream** runs them (`Translate`, `WriteFailed`, `Closed`): attempts, the
relay with its reader goroutine and one-place channel, idle timer, keep-alive,
and cancellation.  **ClaudeProtocol** and **ResponsesProtocol** are the grammars of
events that clients of the two protocols accept; CompatStream implements them
through `view`, what such a client makes of the frames written so far.  `stored` is
the answer that a Responses stream leaves for `previous_response_id`.

**RequestExecution** (extends KeyPool) is one request on its way through the
keys.  The six executors differ in a few decisions only, so they are one set of
actions, with the kinds that take each decision named at the top of the module.
Requests in `Requests` are followed step by step; the others appear by what they
do to the shared state: take, return and lose keys, rebind the conversation.
Its history `got` is what there is of an answer for the client: nothing, part, the
whole.  `header` is less: a keep-alive of a translated stream sends a status line and a
comment before there is any answer (`RelayKeepsAlive`), and an empty stream behind it
is retried with another key.  A translated stream that breaks off behind its first
event ends in an error, which is free, or in a nil verdict (`"cut"`: idle timeout,
reset, lost client), which is charged.
**RequestContract** is what every executor owes its client; its phase "greeted" is a
status line with comments.

**UpstreamHealth** is what the gateway concludes from answers: breaker, scorer,
and their effect on the scheduler.  An evaluation takes its decisions under the
scorer's lock (`evaluateScores`) and carries them out after it, one call of the
scheduler at a time (`plans`).  Time is relative, one tick being the 30 seconds
between evaluations, so that liveness can be asked.

**StoreContract** is the atomic document that KeyLifecycle, MasterKeys and HealthRuns
take the store for.  **StoreFiles** is `UpdateStore` as the code does it: copy the
cached document under the lock, change it, then per file write a temporary one, flush
it, rename it, and set the cache at the end.  Any step may be the last one of the
process, and a loss of power drops what was not flushed. The fallback for a refused
rename (remove, then rename again) is there too; it is why the contract has `Lost`.
**StoreParts** numbers the files of a document, as both modules of the store have
them.  **StoreLayout** is a start: `gateway.db` put aside, files of former layouts
moved, a `gateway.json` imported, defaults written, each file operation an action that
a crash may follow.

**MasterKeys** follows requests from authentication to the charge: a copy of the
key (or none, when anonymous access is on or no key is active), three checks against
it and against Redis, the answer, then two counters,
two deadlines and the quota, one after the other.  Administrators create, edit,
rotate, disable and delete keys between any two of these steps.  A *serial*
tells the keys apart that have had the same id or value.

**HealthRuns** is a check from the administration page: hydrate, copy what is
shown into the report, probe with a pool of workers under a deadline, put the
report into the store in memory, write that to the database after the unlock.
Of a report the full sweep is kept, as its number.

## 4. Runs, bounds, fairness

| Run | Shows | Bounds |
|---|---|---|
| MCKeyScheduler | the slice implements the pool; weights consistent; coolings outlive reloads; each acquisition gets what it asked for; no key starves | 2 keys, 2 callers, limit 1, weights 2 and 4, 1 model, clock from 1 to 3 |
| MCRedisScheduler | leaked slots come back, scores written late go away | 1 key, 2 callers, limit 2, lease of 2, 1 change, 1 fault or crash |
| MCKeyLifecycle | slots return after every interleaving of reloads and releases; stale registrations vanish, servable keys return, waiting requests end | 1 key, at most 1 record at first, 1 caller with 2 attempts, prober, refresher, 1 operation of an administrator, clock from 1 to 3 |
| MCStoreFiles | updates are atomic for readers and survive crashes; the cache is on disk | 5 files, 2 writers, 3 updates, 2 crashes, renames may be refused |
| MCStoreLayout | starts that are cut off lose nothing, imports are renamed when whole, stores in use start | 3 files, 4 old places, 3 documents, 1 SQLite place, every initial mix |
| MCMasterKeys | values unique, charges reach their key, overruns bounded | 2 requests, 2 values, 2 keys ever, 3 answers, limits of 1 and 2, quota 3 |
| MCStreamDrain | bytes once and in order, reader gone, one [DONE], cache complete, return | 3 events in halves, reads of up to 2 halves, 2 keep-alives |
| MCCompatStream | legal Claude and Responses events, data in order, last frame once, the stored response is the one shown, return | 3 protocols, 3 kinds of chunks, 2 tool calls, 2 chunks a stream, 2 attempts, 1 keep-alive |
| MCRequestExecution | the contract, the bill, cancellation, slots, termination | six kinds, 2 keys, 1 request followed and 1 other, 2 attempts for every kind, 1 same-key retry |
| MCUpstreamHealth | low keys are out, an outage ends | 1 key, 1 model, 1 request, window of 2 samples, threshold 2 |
| MCHealthRuns | pools end with an entry for every model; checks one after the other keep the stored sweep | 2 runs, 3 models, 2 workers, 1 crash |
| LowKeysRecover | violated; see section 6 | as MCUpstreamHealth |

Why the bounds suffice for what is asked: two callers and a limit of one slot give a
full key, a wiped counter and, with the limit of two of MCRedisScheduler, a shared key
(that the limit may change between two acquisitions is left to the proof, which takes
any limits); two keys give a choice, a tie and a remaining candidate, and a key that can
be passed over for another. A weight that is clamped covers the band. A cooling of one
tick that starts at 1 blocks at 2 and no longer at 3, purged or not. A reload of one key
already has its three steps between which another reload, a release or a status write
falls, and an administrator who enters the key again gives it a second record. A
replaced plaintext is the same to the pool as a key deleted and another one added; with
two keys and one attempt the properties of MCKeyLifecycle hold as well (469,685 states).
In Redis the lease needs two seconds: with one it could not be renewed before it runs
out, and traffic could not keep a leaked slot alive; one base weight does not tell old
weights from new ones, so StaleScoresGoAway is there about membership. With two updates
of one store a third shows what the failure of the second left behind; parts 4 and 5
change together, as the health report's do. In StoreLayout two places of the same root
compete for one part. A master key's quota of 3 is passed with two charges of 2, a
second key is the least for a value or an id to be taken again, and a minute may turn
between any two steps. Three models and two workers give one model that waits for a free
worker. Three events in halves give a read inside an event, at its border and across it.
Two attempts are the least with a retry, and every decision of the executors looks one
attempt ahead at most. Two chunks with text, one or two tools, with and without
arguments cover every transition between open blocks; a third repeats them. A window of
two samples and a breaker threshold of two have the states below and at their limits
that the code's window of 100 samples (10 needed for a score) and 50 failures have.
`MaxTime`, `MaxBeats`, `MaxOps`, `MaxFaults`, `MaxChunks`, `MaxComments`, `MaxUpdates`,
`MaxCrashes`, `MaxKeys`, `MaxAnswers` cap counters and appear in guards only; the time
of UpstreamHealth is not capped.

Several runs ask a weaker question than one might first think of:

- *ServableKeysReturn* is about each key, not about the whole pool at once: two
  reloads may keep emptying the pool under each other, and what returns for
  ever again and again is each key.
- *StoredSweepIsKept* is about checks that do not overlap; overlapping ones can
  undo each other (section 6).
- *LeakedSlotsComeBack* says that a count falls back to the holders' at some
  time, not that it stays there.
- *OverrunIsBounded* allows the excess of every other open request.

Of the type invariants only KeyScheduler's, the one with arithmetic, is among a run's
properties; the others hold when they are added to their runs, and those that a proof
rests on are proved with it.  CountedSlotsAreHeld and CountersAreBounded of
RedisScheduler and CreditBounded of SchedulerFairness hold when they are added to the
runs of their modules, and are proved.

Two numbers are simplified: `crossKeyAttemptBudget + 5` attempts appear
as `MaxRetries + ExtraAttempts`, and coolings of different causes as a small set
of durations.

Fairness, per specification:

- *KeyLifecycle*: a goroutine or handler that can take a step takes one (WF on what
  each does next, its job or its request); the tickers of prober and refresher fire;
  the 45 second timer of the queue, once it has fired, stays ready in a select that Go
  resolves at random, hence SF on `GiveUp`.  Nothing makes a client leave or an
  administrator act.
- *StreamDrain*: the main goroutine moves on, at the latest by the idle timer; a Read
  on a closed body fails and a closed `abort` channel is seen.  No fairness for data
  from the upstream, which may stay silent.
- *CompatStream*: the same; readers of closed bodies end.
- *RequestExecution*: WF on the request's steps; calls, backoffs, streams and the
  queue have time limits.
- *UpstreamHealth*: WF on requests, the evaluation and time, SF on leaving the queue
  as above.
- *RedisScheduler*: the threads' commands and the scorer go on, the refresher's ticker
  fires and seconds pass.  Nothing makes a request end or traffic stop.
- *HealthRuns*: handlers and workers go on, every probe has a time limit.  The overall
  deadline need not come.
- All others are safety only.

Assumptions about the environment: single writes to the ResponseWriter are
atomic (two goroutines share it without a lock); without Redis the usage tracker
records nothing and does not fail; stored keys can be decrypted; an upstream
stream has nothing behind its [DONE]; a rename that was done outlasts a loss of
power although directories are not flushed; one gateway process uses a Redis.

## 5. Proofs

Every theorem holds for all values of the constants under the named assumptions
of the modules, which TLC evaluates in the runs:

| Assumption | says |
|---|---|
| `PoolAssumption` | finitely many callers; limits and durations positive; `NoKey`, `NoModel` outside their sets |
| `SchedulerAssumption` | base weights positive, multipliers natural numbers before clamping |
| `FairnessAssumption` | finitely many keys and a heaviest base weight |
| `LifecycleAssumption`, `ExecutionAssumption` | there is a limit; budgets of attempts are natural numbers; the requests followed are callers |
| `DrainAssumption` | an answer has an event, a read can return something, the gateway's frames are no data and differ |
| `PartsAssumption`, `StoreAssumption`, `LayoutAssumption` | there is a file; the markers are no content |
| `MasterKeysAssumption` | finitely many requests, costs positive with a largest one, limits natural numbers |
| `ToolsAssumption`, `CompatAssumption` | tool calls are numbered; chunks are text and sequences of fragments of any length; there is a chunk and an attempt |
| `RedisAssumption` | finitely many callers, limit and lease positive, `NoSlot` no key |
| `HealthRunsAssumption` | there is a model and a worker, stored sweeps have numbers |
| `HealthAssumption` | thresholds positive, planned coolings at least two periods of evaluation (60 s against 30 s), the window holds the samples a score needs |

One theorem has a hypothesis more: `CrashSafeWhereRenameReplaces` assumes
`~RenameMayFail`, which is what POSIX promises of rename; without it the property
is false (section 6).

Each module of proofs has one inductive invariant per argument, a lemma per action
of the code that says the action keeps it, and theorems that read the
properties of the runs off it.

**KeyPoolProofs**: `PoolTypeCorrect`; `SlotsAreHeld` (NoPhantomSlot), whose
inductive invariant is the type and NoPhantomSlot itself: the type is needed
because the release subtracts, and its guard is what keeps the count natural.
The argument is how the set of holders of one key grows and shrinks by one
element (`HoldersGrow`, `HoldersShrink`); `Reset` and `MarkDead` only lower
counters.  `CoolingsSurvive`: with the clock started, no step turns a deadline
that has not passed into 0.

Users of the pool, in the same module. KeyLifecycle: `CapacityComesBack`
(CapacityRestored: with all requests over, no slot is taken) and `ReloadsKeepCoolings`.
`LifecycleInv` says where in its program a caller may hold a key; the rest is
`SlotsAreHeld` used for a user of the pool. RequestExecution: `BillMatchesDelivery`,
`CancellationIsFinal`, `RequestsLeakNoSlot` and `ExecutorsKeepContract`, the refinement
of RequestContract. `ExecInv` is the pool's invariant and, for each request, `Sound`: a
key is held exactly within an attempt, a classified result fits what the upstream did,
with something of an answer for the client there is no further attempt, the bill is
written at the end only and fits what there is of an answer (`BillFits`), a cancelled
request winds up. The refinement reduces every action to the fields it may change
(`Moves`), and shows once that any such change is a step of the contract or a stutter
(`MoveIsContractStep`).

**KeySchedulerProofs**, refinement: `SchedulerImplementsPool`, with
`SchedulerTypeCorrect`, `WeightsStayConsistent`, `SchedulerGrantsWhatWasAsked`
and `SchedulerKeepsCoolings`.  The inductive invariant is TypeOK and
WeightsConsistent together.  The one deep point is that a round with candidates
has a winner among them (`SelectedIsCandidate`): the candidate beaten by a
minimal set of others is beaten by none, by the well-founded order of finite
sets.  Credits must be integers for that, which needs a sum over the slice to be
one (`TotalWeightIsSum`).  Each operation then has one lemma about the slice
(`RoundSlice`, `AddSlice`, `MultiplierSlice`, `DeadSlice`) and one step in
`StepSimulates`.

Fairness: `RoundRobinNeverDrifts` (CreditBounded) and `NobodyStarves` (NoStarvation:
the number of rounds a key can lose in a row is bounded by the number of keys and the
ratio of weights).  A bound on a single credit is not inductive.  `FairInv` bounds
every *set* of live positions: of `n` positions, any set `S` together is owed at most
`|S| (n - |S|) W`, `W` the largest weight. A round keeps that by an exchange: the
winner has the largest raised credit, so a set over its bound without the winner would
already have been over the bound of the set with the winner added, before the round.
Beside it, credits of live positions sum to zero, a dead key owes nothing, and a key
that was passed over `p` times has at least `p` times the least weight in credit above
the lowest one possible.  Sums are running totals, and facts about them are proved by
the smallest counterexample, because the library's induction theorems take an operator
as a parameter.

**StoreProofs**, StoreFiles: `CacheAlwaysOnDisk`, `CrashSafeWhereRenameReplaces` and
`StoreImplementsContract`.  `StoreInv`: a writer past its first step holds the
lock; every document in memory or on disk is one that some update produced; files
are replaced in the order of the loop, so that a prefix of them is new; a file is
flushed before it is renamed; what a crash leaves is a document the contract can
name.

StoreLayout: `NoStartLosesData` (StartsLoseNothing), `ImportsAreWhole` and
`ServedStoresAreAccepted`, from `LayoutInv`: an import only fills what was missing,
`gateway.db` is out of the way before anything is served, what is served is complete,
and a document is put aside only after all of its parts are on disk.

**StreamDrainProofs**: `EveryByteOnce`, `NoReaderLeftBehind`, `ExactlyOneEnd`,
`CachedAnswersAreComplete`.  `DrainInv` ties five places together: what was read,
what is in the hand of the reader, the chunk handed over, the response buffer and
the wire join to a prefix of the answer (`PiecesJoin`, `WireIsBuffer`); while the
drain selects there is a reader, and nobody goes on past the join while there is
one; an end frame is written once, and only into an answer without its `[DONE]`.

**TranslatorProofs**, **CompatStreamProofs**: `AnswersAreRelayed` (AnswerRelayed),
`AnsweredStreamsAreEnded`, `StoredResponsesWereShown`, and the refinements
`ClaudeStreamsAreLegal` and `ResponsesStreamsAreLegal`, for any chunks, tool calls and
numbers of attempts, from `CompatInv` (`CompatInvariant`), whose parts are

- the control: where the relay, its reader and the translator stand together
  (`FlowOK`, `ReaderOK`), and which outcome goes with what has been written
  (`EndingOK`, `EndsOK`, `BrokenOK`);
- what has been shown: the pieces of data before the place in the upstream's stream
  where the relay or the translator's method stands, in order (`PlaceOK`, `ShownOK`;
  Gemini shows its calls at the end);
- the tie between a translator's fields and the blocks or items of the client's view:
  which of them exist, which are open, what they contain (`ClaudeOK`, `ResponsesOK`),
  and the stored response against the items (`StoredOK`).

A failed write ends the view for good while the translator's method still unwinds, so
the ties hold on a connection that is not broken, and what is owed to the client
afterwards is only that nothing is taken back.  Each step of a translator has a lemma
about the view after its event and one that says it keeps the invariant and is a step
of the protocol or a stutter; each action of the relay has one too.  The first module
has the invariant, Claude and Gemini, the second Responses, the relay and the theorems.

**LedgerProofs**, MasterKeys: `MasterKeyTokensUnique` and
`MasterKeyChargesReachTheirKey`, from `LedgerInv`.  That a charge reaches its key
needs to know that the id a request remembers still means the same key or none
(`IdsNeverReturn`, because `NextMKID` only grows), that two keys never have one
serial, and that a new serial has not been charged yet. Uniqueness of values is
inductive next to the types; enabling a disabled key keeps it because the value of a
disabled key stays taken.  `LimitsAreNearlyKept` (OverrunIsBounded): with `n` requests
a limit is exceeded by at most `n - 1` largest charges.  `OverrunInv` says it of the
requests that are between check and charge, for each of the three limits (`RpmWithin`,
`TpmWithin`, `QuotaWithin`): a counter is below its limit plus what those let through
before may still add.  The argument looks at the last request let through, which saw
room, so that no sum over requests is needed.

RedisScheduler: `RedisSlotsAreHeld` (CountedSlotsAreHeld) and
`RedisCountersStayBounded` (CountersAreBounded), from `SlotsInv`.  Besides the two
acquisitions and the release all that happens to a counter is that it falls, before
its deadline (`CountersFall`): a reload deletes it, or its lease ends.  A release that
finds nothing to give back leaves the count below the holders.  After a fault nothing
ties counts to holders any more; what is left is the limit and the deadline, which
each acquisition renews in the script that counts it.

**HealthProofs**, UpstreamHealth: `LowKeysStayOut` (LowKeysAreOut: between
evaluations, a key marked low is not handed out unless it has come back to a weight
that may serve). `MarksInv`: a marked key has been scored, and its cooling is planned,
or it is out for longer than the time to the next evaluation, or a later score found
it fit.  It rests on planned coolings lasting two periods (`CooldownsAreLong`, by the
smallest counterexample) and on a window that is not low giving a weight above neutral
(`NotLowIsFit`).

HealthRuns: `SweepsNeverGoBack` (StoredSweepIsKept) and `RunsAreComplete`, from
`RunsInv`.  A check that runs alone carries nothing older than the database has, and
memory shows nothing older once it is not empty (`NothingOlder`); that nobody knows a
sweep that is not finished (`SweepsAreFinished`) makes the next number the latest.
A model that was handed out has its result or is in the hands of a worker, and before
the workers have ended there is nobody at the collection (`CrewOK`).

Since KeyScheduler implements KeyPool, what is proved of the pool holds of the
scheduler, and KeyLifecycle and RequestExecution use a contract the code fulfils.

Only model-checked:

- everything about liveness and the fairness it needs (LiveSpec properties of all
  modules), which the provers do not reach: of the runs' properties these are
  StaleKeysGoAway, ServableKeysReturn, RequestsFinish, DrainReturns,
  LeakedSlotsComeBack, StaleScoresGoAway, RequestReturns, RequestsEnd, OutageEnds and
  RunsReportEveryModel, whose safety half is `RunsAreComplete`;
- the action properties the theorems above do not name, and the bounds themselves
  (`Max...`), which only limit how far TLC counts.

## 6. Where the code and its texts disagree

Shown by a run that violates what the text says:

- *LowKeysRecover*: a key with a low score is cooled again at every evaluation
  from the samples that made it low; cooled, it gets no new ones, and stays out
  although the upstream is well (`health_scorer.go` 17 says its cooling
  expires by itself and its score rises).

Stated in the modules, and refuted by TLC when added to the run of the module:

- KeyLifecycle `ConcurrencyLimitHolds` (`frontend/src/app/admin/system/page.tsx` 192):
  a reload (`redis.go` 527) resets the slot counters while requests are in flight, so
  a key can serve more requests at once than its limit (needs two callers).
- KeyLifecycle `DisabledStaysDisabled` (`proxy.go` 139): a late status write (a 429 of
  a request in flight, a probe's verdict) re-enables a key the administrator has
  disabled (`status.go` 38, 66).
- CompatStream `InterruptedIsReported` (`stream_live_compat.go` 199, 504): a
  translated stream that breaks or goes idle after content is recorded, and charged,
  as a success.  RequestExecution `BrokenIsFree` is the same about the bill, for both
  executors that translate (verdicts at 444, 457, 504; charges at 204 and at
  `responses.go` 286).
- StoreFiles `CrashSafe` (`db.go` 602): the fallback for a refused rename removes the
  file before it installs the new one (637); a crash between the two leaves neither,
  and the next start takes the default for the data.
- HealthRuns `FullSweepIsLatest` (`frontend/src/app/admin/health/page.tsx` 445): a
  report carries a copy of the sweep that was shown when it was built (`health.go`
  377) and puts it back up to ten minutes later, over a sweep finished meanwhile.
- CompatStream `RetryUnseen` (`stream_live_compat.go` 190-191): a keep-alive may
  already have been written before a retry (384, 432).  RequestContract promises no
  more than that nothing of an answer has been.
- CompatStream `StreamErrorMeansFinished` (200): a malformed payload returns without
  Finish (475, 487).
- CompatStream `FallbackIsAStream` (`models.go` 72-73): Finish of a fresh translator
  writes no frame (616-619, 845-848), so the fallback is an empty 200.
- CompatStream `IdleStopsRetries` (`models.go` 63-64): an idle timeout before content
  is retried (442, 192-197).
- CompatStream `ToolCallIsContent` (53-55): the Gemini translator does not count tool
  calls without arguments as content (829-832; needs a chunk with such a call, which
  is not among the run's).
- StreamDrain `KeepAliveBetweenEvents` (`proxy.go` 621) and `HeartbeatStopsWithStream`
  (638): keep-alives are written by a goroutine of its own, between any two chunks,
  and one may follow the end.
- UpstreamHealth `NoCallWhileOpen` (`model_breaker.go` 18): the breaker is asked once,
  when a request comes in; its later attempts call on.

Met while reading, of no consequence to a property:

- a client that leaves during the last attempt still gets the silent fallback
  (`proxy.go` 425-427, 546-547); failed streams keep the conversation bound to the key
  that failed;
- `models.go` 68 says 0 disables the heartbeat, normalisation turns 0 into 15;
- `health_scorer.go` 27 and 93 count 5xx per key and model, the code per key; the
  steps of line 28 are 15, 30, 45, 60 seconds; a transport error resets the count;
  `reset` is called on 401/403 only (201 names deletion and replacement);
- a key that answers fast with nothing but 5xx or 429 scores 40, which is not low; a
  longer Retry-After can be replaced by a shorter cooling (`proxy.go` 897-899,
  `redis.go` 465); an evaluation's plan may be carried out on a key that was reset or
  reloaded meanwhile;
- with Redis, SetHealthMultiplier's lookup (`redis.go` 252) does not keep a score in
  flight from reviving a key that a reload has just removed, until the next reload
  (StaleScoresGoAway); a request longer than the 60 s of the counter's expiry (71) is
  no longer counted;
- a crash between Incr and Expire (`usage.go` 64) leaves a counter of the minute
  without a deadline: at its limit it blocks the key for good;
- Claude drops a chunk whose fragments of tool calls are blank, even one with white
  space that belongs to the arguments (`stream_live_compat.go` 577-601);
- a JSON answer whose body breaks off is delivered, charged and cached as 200
  (`proxy.go` 798, 474); a call that fails because the client left counts against the
  key (775); the message of a Responses stream always has output index 0
  (`responses.go` 505).

## 7. What is not modelled

- *System configuration*: normalisation clamps each value by itself; the other
  modules take the normalised ranges as constants.
- *Request and answer translators, diagnostics, utilities, wiring*: they convert
  data without state of their own, or record what nothing reads back.
- *Front end and build*: no gateway state.
- *Responses store*: what is put into it is modelled; the map itself, its expiry
  and cleanup are one mutex around one access.
- *Key import*: the update and the reload are modelled, the line formats are not.
- *Hydration that fails* (`health.go` 1302): requests are served from the cached store
  only, and the health state in it is the gateway's own JSON.
- *Session of the administration page*: a comparison with a configured password.
- *Health checks before the models*, their wording, history and score: a report
  is followed as far as its full sweep.

Scores are abstracted to classes of outcomes and latencies to fast and slow; the
exact arithmetic of a score is not modelled.  The semantic cache's Redis and the
upstream are external.
