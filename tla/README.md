# TLA+ models of pipeline-kit

This directory holds a formal model of pipeline-kit: TLA+ modules translated
from the TypeScript under `packages/*/src`, the TLC configurations that
model-check them on small instances, and theorems that TLAPS proves for every
value of the constants. Four design probes of `research/spikes` are modelled as
well. Paths below are relative to `packages/` unless they start with
`research/`, `docs/` or `examples/`. Every definition that models code is
listed with its source lines in `PROJECT.json` under `map`.

## 1. The system

A *pipeline* is a source followed by process, review, store and serve stages.
`run()` hands the stages to the **Composer**, which pulls atoms from the source
and takes each through every stage. Everything else is an adapter for one of
the stage kinds, a resource the adapters share, or a host that starts runs.

| Component | State it keeps | Operations | Talks to |
|---|---|---|---|
| Composer `core/src/composer` | per run: position in the loops, attempt, last outcome, shared retry budget, token buckets, usage, result | run (sequential, streaming, windowed), retry, rate limit, budgets, dispose | every stage (await), the source's iterator, the host's AbortSignal, the disposable registry |
| Disposable registry `core/src/disposable.ts` | list of teardowns | register, disposeAll (LIFO, timeout per entry) | adapters, Composer |
| Local trigger `core/src/triggers` | registered triggers, server handle, tick timer, last fired minute | register, start, stop, fire, HTTP request, scheduler tick | host handlers, `node:http` |
| Rate-limit stores `core/src/rate-limit`, `rate-limit-redis` | sliding log of hits per key, LRU of keys; a Redis sorted set | consume | serve adapters, Redis |
| Webhook source `source-webhook` | AsyncQueue: buffered atoms, pending resolvers | POST handler, iter, fetch | HTTP clients, runs |
| Pull sources `source-api`, `source-apify`, `source-mcp` | cursor, page count, run status | iter, fetch, connect | remote services |
| Stores `store-postgres`, `store-sqlite`, `store-pgvector` | rows, idempotency cache | put, get, query, delete, purge | databases, Composer |
| Memory `memory-map`, `memory-sqlite`, `memory-orchestr8` | entries per key and namespace | read, write, delete, list, close | stages |
| Secrets `secrets`, `secrets-env`, `secrets-sops`, `secrets-oidc` | cached versions with expiry | resolve, invalidate | adapters |
| Serve `serve-webhook`, `serve-slack`, `serve-email`, `serve-mcp` | per key cache of what was sent | emit | remote services, Composer |
| Review `process-reviewable`, `core/src/reviewable-to-process.ts` | pending decision, poll deadline | review | Gatewerk, a console |
| Processes `process-extract`, `-classify`, `-validate`, `-route` | none | run | model providers |
| Inngest host `adapter-inngest` | memoised steps of a replayed function | createKitFunction, kitStep, kitFanOut, HRP bridge | Inngest |
| Wire `core/src/wire`, `core/src/webhooks` | bytes not decoded yet | decode, encode, sign, verify | child processes, HTTP peers |
| Python processes `adapter-python-process*` | request in flight | read, dispatch, write | the host over stdio |
| CLI `cli` | files on disk, an import cache, the dev server's triggers | dev, run, inspect, trace, gen-py-schema | the file system, child processes |
| Pipeline definition `core/src/pipeline.ts`, `define-pipeline.ts` | an immutable list of steps | from, through, store, review, to, run, describe | Composer |
| Contexts `core/src/context.ts`, `serializable-context.ts` | run id, key, metadata shared by views | createContext, derive, inject over a wire | every stage |
| Observability `observe`, `observe-vercel` | batched spans, file names | redact, export, record usage | OpenTelemetry, files |
| Eval `eval*`, cost `cost` | cases in flight, price table | runEval, compute | processes |
| Design probes `research/spikes` | what each tries out | one program each | nothing |

### What is hard about it

* *Interleaving.* A run suspends at every await; the host's AbortSignal, timers,
  requests and other runs act in between. The webhook queue, the caches of
  secrets and the local trigger are shared by several callers.
* *Retry and timeouts.* Three layers retry: the Composer, the serve adapters and
  Inngest. Each has its own idea of what is charged and what is remembered.
* *Idempotency.* Keys are made by the Composer and used by stores and serve
  adapters across retries, atoms and replays.
* *Partial failure.* A put is a check, an insert and a cache write, in three
  awaits; a run may fail while it closes its source.
* *Boundaries.* Budgets at equality, empty sources, a full bucket, an evicted
  key, a frame split between two chunks.

### What makes each component correct

* Composer: work is done in order and exactly once per unit; success means all
  of it was done; after the signal nothing starts and success is not reported;
  retries stay within the shared budget; resources are released once, last; a
  run ends.
* Webhook source: an accepted request is handed to exactly one consumer, in
  order, and a waiting consumer is always woken.
* Stores: one row per idempotency key and per atom, whatever is retried.
* Rate limits: never more hits in a window than the limit; a refused caller is
  told a time after which it is let in.
* Local trigger: a handler fires once per matching minute; start and stop can
  be called in any order and leave no server behind.
* Secrets and memory: a read never returns a value older than the version asked
  for, and a write is not undone by an older one.
* Serve, review: what is sent is sent once per key; a decision is taken once
  and a timeout does not race it.
* Inngest: a replayed function repeats no finished step.
* Wire: what is decoded does not depend on how the bytes were chunked, nor on
  which of the two runtimes decodes it.
* Pull sources: every item once and in order whatever the paging, a failure told
  from an end, and a connection closed on every path.
* Extract: the Python process decides as the TypeScript one does.
* Pipeline definition: what was chained is what runs, and continuing a pipeline
  does not change the one it was continued from.
* Observability: what is marked for redaction is never exported, and a span is
  written to one file once.
* CLI: the triggers that run are those of the files last read; a check fails when
  what is on disk differs from what would be generated.

## 2. Modules

| Part | Modules | Run |
|---|---|---|
| One call of `runComposer` | `Composer`, `RunContract` (what a caller may rely on), `ComposerProofs` | `composer_runs`, `composer_budgets` |
| Stores | `StorePut`, `StoreReads`, `MCStore`, `StorePutProofs` | `store_put`, `store_forgets_atoms` |
| What a run depends on | `RateLimiter` (abstract), `RateLimitLog`, `RateLimitRedis`, `DependencyProofs`, `Secrets`, `SharedMemory`, `Disposal`, `MCDependencies` | `dependencies` |
| What crosses a process boundary | `WireFrames`, `WireValues`, `Telemetry`, `MCWire` | `wire` |
| What stages compute, and who builds and starts them | `ExtractRun`, `RuleStages`, `EvalAndCost`, `PipelineBuild`, `PkCommands`, `MCStages`, `StageProofs` | `stages` |
| Local triggers | `LocalTrigger` (register, start, stop, requests), `TriggerAdapters` (cron fields, ticks, dispatch), `MCLocalTrigger`, `LocalTriggerProofs` | `local_trigger` |
| Inngest host | `InngestRun` (inside a run), `KitFunction` (which runs there are), `MCInngest`, `InngestProofs` | `inngest_run` |
| What a run sends and asks | `ServeOnce`, `ServeAnswers`, `PipelineServes`, `Reviews`, `MCOutbound`, `OutboundProofs` | `outbound` |
| What comes in | `AsyncQueue`, `PagedSource`, `RemoteReads`, `SignedDelivery`, `MCInbound`, `InboundProofs` | `inbound`, `queue_loses` |

Which modules compose others: `Composer` refines
`RunContract`; `StorePut` is the store stages of several runs over one database,
with the Composer's loops over atoms, stages and attempts; `ServeOnce` is the
same for serve stages and their receivers; `PipelineServes` is a webhook serve
with the webhook source of another pipeline, and a pipeline offered as an MCP
tool; `SignedDelivery` is both ends of a signature; `WireValues`, `ExtractRun`
have the TypeScript and the Python runtime side by side; `InngestRun` and
`KitFunction` compose the adapter with the service that replays it; `Secrets` is
two resolvers of `secrets` over an inner one; `Telemetry` is two redacting
processors, the exporter and the file sink in a row; `RateLimitLog` refines
`RateLimiter`. `Disposal` is what `Composer` takes for one step, its `disposing`.

The `MC` modules put components that do *not* interact into one run: a variable
(`part`) is chosen in the initial state, and only the component it names takes
steps. Each behaviour is thus one of one component, and each property is asked
of all its behaviours. A component that is not the subject stays in one idle
state.

In every module an action is what the code does between two awaits, *history*
variables are marked as such and read by no action, and a definition marked
`mutant` is a plausible bug in the definition that follows it; nothing but the
list `mutants` of `PROJECT.json` refers to it.

### Composer

`pc` says at which await the run is suspended: `pull` (the source's `next()`),
`attempt` (top of an attempt of a step), `waiting` (a rate-limit sleep), `acquired`
(a token was there, and `acquire` is awaited all the same),
`running` (`step.run`), `backoff` (the sleeps of `retry.ts` and pRetry),
`closing` (the iterator's `return()`), `disposing` (`registry.disposeAll()`).
`StartRejected`, `StartSequential` and `OpenSource` are `runComposer` up to its
loops; `SourceYields`, `SourceEnds` and `SourceThrows` are the source's answers;
`BeginAttempt`, `TokenArrives`, `WaitAborted`, `EnterStep` lead into `step.run`, whose
settlement is one of `StepSucceeds`, `StepFailsTransiently`, `StepFailsForGood`,
`StepThrows`. The outcome of a step is a nondeterministic choice; an error is
one of three classes because `classifyError` only tells retryable from the rest
and `toRunError` only `cancelled` from the rest. A *unit* is one pass over the
steps: an atom of a streaming run, the whole run otherwise. Fractional tokens of
the bucket are abstracted to whole ones, since a request takes one. `Refill` and
`BackoffEnds` may happen at any moment.

### Stores: StorePut, StoreReads

`StorePut`: `pc` is where the put of each run is suspended: before the lookup,
before the INSERT, before the cache write. For sqlite the three are one step, for
pgvector there is only the INSERT. Every attempt has an id of its own (`Ids`), as
`wrapAsAtom` makes one per attempt, while the key is the run's. A statement may
fail before or after it took effect; a run may die anywhere and be started again
with the key it had; `purgeExpiredIdempotencyEntries` may empty the cache.

`StoreReads`: `put` turns an atom into a row and upserts it column by column;
`get` and `list` parse the row with the schema again, so that a schema that
transforms or coerces parses its own output; sqlite orders dates as the text they
were written as; `search` orders by distance. A put whose answer is lost has
stored its row.

### What a run depends on

`RateLimiter` promises: at most `limit` admissions in any span of `Window`, a
refusal only while that many are in it, and a hint after which the next call is
let in. The limit is any of `Limits`; with 0 the store in process refuses every
call, and the script of Redis fails, as it adds the window to the score of no
member. `RateLimitLog` keeps each key's log and the order of the `Map`; its
refinement maps to one abstract limiter per key, and eviction is a restart of
that key's limiter, which only a key unused for `MaxKeys` others may suffer
(`ForgetsOnlyUnused`). `RateLimitRedis` separates the caller's reading of
`Date.now()` from the script, so that a later call's script may run first; a
flush empties the script cache, and a command may fail.

`Secrets` numbers values by rotation. A resolve is suspended in the inner
resolver: at the token endpoint or at the `sops` process; the latter is shared by
the calls that wait for it, and outlives an `invalidate`. Its second half is the
names: five backends, scopes and names that share parts, what each answers of a
missing module, a refused request or an unreadable file, and two secrets that are
rotated together.

`SharedMemory` follows one key through `retrieve`, `delete` and `store` of
`memory-orchestr8`, whose backend returns the oldest row, and through the other
two adapters; then the lists of three adapters while keys come and go; then the
probe of memory across processes (`research/spikes/memory-feedback`), whose runs
may die between any two writes and find the file as it was left.

`Disposal` runs the teardowns against their timeouts; one that missed it goes on
beside the others. Its second half has the eight designs that the lifetime probes
hold against each other, of which the registry was chosen.

### What crosses a process boundary

`WireFrames` reads a stream of symbols in chunks, cut anywhere, and holds it
against the decoder of a whole stream and the Python decoder of one frame; a limit
on headers is exceeded by one symbol. It also has the NDJSON decoder, whose
iterators share one `TextDecoder`. `WireValues` is what is inside a frame:
canonical JSON, timestamps, results and trace contexts, each in both runtimes.
`Telemetry` is redaction over every schema three levels deep, the export of spans
in batches with failing writes, and what `pk trace` reads back.

### What stages compute, and who builds and starts them

`ExtractRun` is the loop of attempts in TypeScript and in Python, both hearing the
same answers of three providers (what a provider answers or throws is a record of
what the two `catch` blocks look at), and the walk that makes a schema strict. A
schema is here, and in `PkCommands`, a function from the paths that lead to its
parts, so that a walk that recurses is one map over the paths, and how deep and how
wide schemas are is a constant. `RuleStages` chains validate, classify and route,
and has the probes of aggregate and gate: an item that cannot be pulled (`broken`)
and what of it was reported (`errors`) are between the items. `EvalAndCost` is
`runEval` over the scorers, with as many cases at once as its `concurrency` lets, and a
calculator with the history of what it billed. `deepEqual` is there with objects,
arrays, dates, maps and sets, nested two deep: `Compared` is one level of the code's
recursion, given what compares the parts. A map stands in the order the code sorts its
entries to, and a set's members that are objects are never those of another set, as
`Set.has` goes by identity. `PipelineBuild` is the builder, whose
every call makes a new pipeline, and what a run hands to the composer; `stepOf` is
where a review becomes a process. Its second half is how a context is made, viewed
for one emit and injected at the other end of a wire; views share metadata, and
the key of an emit is the text of three ids joined by colons, of which that of the
serve may itself have colons. `PkCommands` has `pk gen-py-schema` (three child
processes and a comparison; `given` is what could be converted, `skipped` that
something else was left out with a warning), `pk dev` (a watcher, or none where
`watch()` throws, an import cache, and discoveries that overlap; a pipeline that is
exported under two names is scheduled twice), and `pk run`, `inspect`, `trace`.

### Local triggers

`LocalTrigger`: `call[c]` is the await at which a caller's `register`, `start` or
`stop` is suspended. Servers and intervals are numbered as they are made, so that
one that was lost (no field refers to it any more) can still be seen listening or
ticking. `Closes` waits, as `server.close` does, for the requests in progress.

`TriggerAdapters`: the scheduler's time is in minutes; several ticks may be
suspended at once, each keeping the minute it was started in, because the code
starts a tick per second and awaits each handler. `prompt` separates hosts whose
handlers settle within the minute from those whose handlers do not. The fields of
cron expressions are compared with the sets of minutes they mean, and each request
and event with the registrations it should reach.

### Inngest host

`InngestRun`: `memo`, `source`, `child`, `request` and `review` are what Inngest
remembers; a `Call` runs the function from the top, and what is remembered is
passed at once. A kitStep's function *returns* an error result, so Inngest
remembers it (`RunStep`), and the throw comes after (`Rethrow`). The review request
may throw in its step, or there is none to send. `KitFunction` has the events over
time: what a `RunGuard` becomes in Inngest's configuration, which events start a run,
and which runs overlap. A run is *paused* between two calls of the function: then it
is under way for a singleton, and holds no slot of a limit.

### What a run sends and asks

`ServeOnce`: `Hit`, `Miss`, `Refused`, `TurnedAway`, `Arrives`, `Answered`,
`AnswerLost`, `CacheWritten`, `CacheFails` and `Dies` are the ways through
`emit`; which of them the attempt's end lets `withRetry` repeat follows each
adapter's error codes. The receiver and the provider are modelled from what the
adapter sends them: the key, if any, and whether the receiver drops repetitions.
`ServeAnswers` is one emit against every sequence of answers, with the class each
adapter makes of one and what `withRetry` does with the class. `PipelineServes`
signs at the time of the attempt, and the route verifies at the time of arrival.
`Reviews` has discrete time: a request takes at most `Latency`, is read by
Gatewerk at some moment of it, and a timer fires when it is due; its second half
is the review at a terminal, where several questions read the same lines.

### What comes in

`AsyncQueue`: `resolvers` holds, for each pushed resolver, the iterator whose
promise it settles; `phase[i]` is where the generator of run `i` is suspended.
`Abort` is the handler as the code has it: it looks up `resolve`, finds only
wrappers, and leaves the wrapper behind. `Accept` and `Reject` are the two ways
the POST handler ends. `PagedSource` reads a collection that changes by offset, by
cursor and by page, in the API source, the Apify dataset and the stores' list,
whose limit nothing checks (`postgres-store.ts:198`): `ValidConfig` lets it be 0.
`RemoteReads` is an actor's run that is polled against a deadline and an abort,
an MCP client that is left at any point, the class each source makes of each
failure, and the schema derived from a tool's.
`SignedDelivery` has two clocks, in milliseconds, apart by a skew; requests are
delayed, damaged, and signed with secrets that rotate.

## 3. What is checked

| Run | What it shows | Bounds, and why they are enough |
|---|---|---|
| `composer_runs` | the four forms of run with every outcome of a step and an abort at any moment: work is in order, the result tells the truth, retries are charged, at most the call at hand begins after the signal, resources are released once and last; `RunContract` is implemented; a run ends | 2 steps, the second rate limited, and 2 atoms: the least with an earlier and a later one; 2 attempts: a first that is also not last; a shared budget of 2 that can run out in either step or atom |
| `composer_budgets` | a stage begins only below every budget and the ceiling | 3 metered steps and 2 atoms, so that a boundary lies before, at and after the limit, in the first pass and the second; usage of 0 or 1 and a cost of nothing, 2 or 3 per step, under a budget of 2 and a ceiling of 4 |
| `store_put` | `KeysNameRows`: a remembered key stands for a stored row, and sqlite has one row per key. `PutsAreStored`: the first put is stored, pgvector acknowledges only what is stored. `KeysStand`: what a key stands for does not change. `ReadsAreTrue`: get, list and search give back what was put, or say why not | 2 runs that may share a key, 2 atoms, 2 attempts, one purge; 3 puts of 2 atoms in pages of 1: an overwrite and a second page |
| `dependencies` | Redis: the limit in any span shorter than the window by the latency, the hint of a refusal, flushes unseen but with a limit of 0, which fails. In process: the limiter's promise, and only unused keys forgotten. Secrets: with no resolve in flight at an invalidate, or at the expiry of the TTL, those begun after return the value of then or newer; a name never gives another's value. Memory: the last write of a namespace that does not overlap another is what is read; lists have what can be read; a later process finds what an earlier one wrote. Disposal: teardowns run in reverse, none passed over, and `disposeAll` returns, as do the designs it was chosen from but one | limits of 0 and of 2 in a window of 3 over 5 instants: a full log, a refusal, expiry and another admission; 3 keys for 2 places; one rotation, 3 calls by 2 callers, 2 invalidates, 4 instants; 4 writes by 2 writers; 3 writes while lists are made; 4 launches of 2 runs: each may die once; 3 teardowns |
| `wire` | chunks give what the whole stream gives, but at the header limit; both runtimes agree, with the differences named in the properties; values, dates and traces arrive; what is marked is not exported, a span is written once | streams of two frames or pieces of junk and every cut; schemas three levels deep; three spans of two runs in batches of two |
| `stages` | both extract processes take the same decisions but where the property names an exception; a value takes the branch of the rule that wins; an eval's summary counts what passed and cost adds up; a run does what was chained; two tries have one key iff they are of one emit, views of one run share what is attached, a context arrives with its trace and key; `pk dev` schedules no export twice, and what is on disk if the discovery begun last ends last, and `pk gen-py-schema --check` fails when it should | 3 answers: first, middle, last attempt; 3 rules: a tie and a loser; 2 cases one at a time and both at once, and 2 scorers; outputs of every kind, with a list in a list, an object in a map and an object in a set; 4 pipelines continued from one another, run twice; 3 contexts, of which two may be of one run or cross a wire; 2 serves whose ids, joined to an atom's, could be taken for each other; 2 files changed twice; 4 items in windows of at most 3: a full one and a rest |
| `local_trigger` | with calls in any order: what is registered is served and stop leaves nothing; a prompt handler fires once per matching minute, and no minute is missed while the adapter runs; stop returns; a cron field means its set of minutes; each request and event reaches its own registrations | 3 servers and timers: one replaced twice; 3 registrations, of which the second skips a minute; 3 minutes; 2 overlapping ticks; fields of at most two parts over 3 values |
| `inngest_run` | done means every step, child and checkpoint was well; steps in order, none repeated; what is final is not retried; the run ends; runs start for their events, spaced and apart as the guard says, and what is dropped is dropped for a reason | 2 kitSteps, 2 children, 2 retries; 2 events over 4 instants, 2 keys, 2 pipelines, 2 calls of each run, 9 guards: an idempotency window of 2, with dedup periods of none, 1 and 3, so that an event comes within the one and beyond the other |
| `outbound` | an acknowledged emit was delivered if no other emit has its key; a repetition has a lost answer, a failed cache, a crash or an overlap to blame; every sequence of answers is classed and repeated as the class says; a relayed emit is verified or refused as configured, never as too old; an MCP call is answered once; the decision a reviewer made is the stage's outcome, and is read unless it comes in the last round; an abort ends the review within an interval and a latency | 2 runs of 2 serves, 2 attempts, 2 faults; 3 attempts of one emit; an interval of 1 and a timeout of 3: first, middle and last round, and both bounds are tight: one less is violated; 2 reviews and 3 lines at a terminal |
| `inbound` | every accepted request is handed out at most once and in order, and a consumer that waits can be woken; each item of a collection is read once and in order, with the exceptions a moving offset forces; a wait for an actor's run is decided; a client is closed on every path; what was signed in time is accepted and nothing else; what is not lost is handed over while a run pulls, and reading ends, but for a store asked for pages of no rows | 3 requests and 2 iterators: one item buffered, one handed over, one lost; 5 rows, pages of 2, in a store also of 0, 2 changes: a shift inside a page and across pages; 2 secrets, of which one is retired |

`smtp` and `postal` take the same steps as `webhook` in `ServeOnce`, so that this
part leaves them out; `ServeAnswers` has all six. All runs but `composer_runs`,
`composer_budgets` and `inngest_run` set `CHECK_DEADLOCK FALSE`: those systems may
have nothing left to do (everything delivered, all calls made, the input used up,
the bound on time reached).

*Fairness* is only what the host gives. `Composer`: a promise that is awaited
settles, timers fire, time passes (`WF_vars(Run)`, `WF_vars(Refill)`); aborts are
never forced. `AsyncQueue`: a run that holds an iterator keeps pulling.
`PagedSource`: a reader goes on and its requests are answered.
`LocalTrigger`: a server that was told to listen or close does so, and a request
is answered (the code sets no limit to a handler; without this `stop` need not
return). `TriggerAdapters`: the interval fires in each minute, a handler settles,
time passes. `InngestRun`: the service goes on and its timeouts fire.
`Disposal`: the timeout of an entry fires; a teardown need never settle.

*Assumptions about what is outside.* Redis runs a script atomically and its
clock does not run backwards; a database statement is atomic; a serve's request
is carried out at most once, at some moment before its answer; Gatewerk shows a
decision from the moment it is made; Inngest drops an event whose idempotency
expression it has seen within its window (24 hours by
`docs/research-notes-v1-cat-IV.md:18`, `285`), skips one whose singleton key is taken
by a run that has not ended, delays the begin of a run by its throttle, and counts for
`concurrency` the calls that execute; HMAC is an
injective function; a file that is written is found by a later process. These are
written where they are used.

## 4. What is proved

TLAPS proves the following for every value of the constants, from the named
assumption of each module (types and nonzero bounds, and what is said below). The
theorems about an `MC` module are about the specification its run checks,
`MCSpec`; since its parts share no variable, each is proved for its part, and
another part's step leaves it as it is. The bounds that the guards of a model
carry (requests, rotations, ticks) are constants, and so are arbitrary.

`ComposerProofs` (`ComposerAssumption`): `TypeOK`, `RetriesAreCharged`,
`AbortStopsCalls`, `WorkIsInOrder`, `ResultIsTruthful`, `ReleasedOnce`,
`StageBeginsWithinBudget` (the budgets over the run, the ceiling over the pass at hand),
and the refinement `ImplementsContract`. None is
inductive alone. The strengthenings are

* `Typed`: `TypeOK` with the result's shape and the history;
* `Charged`: the recalls are counted at the moment a backoff is entered;
* `AbortKept`: after a signal inside a stage the result is not `ok` and the
  signal still stands, so that the check after the stage sees it;
* `CauseKept`: while no outcome was returned, every earlier attempt threw;
* `CallInHand`: a call that begins after the signal was past the check when it came,
  and is the only one;
* `Work`: which pairs of unit and step have succeeded at each `pc`, which is what
  makes order, completeness and release inductive;
* `Counted`: an error's counters were taken when `Work` described them;
* `WithinBudget`: where the first attempt of a stage may still begin, the
  boundary before it was passed with the usage of now.

The refinement is proved step by step: every action of `Composer` is a step of
`RunContract` or leaves its variables unchanged.

`StorePutProofs` (`StoreAssumption`, and `ReadsAssumption`, by which the missing
value is apart from rows and atoms): `KeysNameRows`, `KeysStand`, `PutsAreStored`
and `ReadsAreTrue`. The argument of the first three is one about where a put is:
before its INSERT its id is not stored, after it it is, and a cache entry is only
written there; a row whose put failed is accounted for in `broken`; ids later than
the one at hand have not been used. For what is read, `RowsArePut` says that each
row has the columns of the atom put last under its id. Where rows have instants
apart there is one sequence in the order of `created_at` and no second (`OneOrder`:
at the first place where two sequences differ each of the two rows would have to be
the earlier one), so that the pages read so far are a first part of it (`PagedSoFar`) and,
when there is no further page, all of it (`PagedToTheEnd`).

`InboundProofs` (`QueueAssumption`, `InboundAssumption`): `QueueIsSound` and
`SourcesAreSound`. For the queue, `Apart` says that the
places an item can be in exclude each other, `Sorted` that each place, and what
lies before it, is in the order of acceptance, and `Reachable` that a resolver
belongs to an iterator that waits or to one aborted while it waited, and that
nothing is buffered beside one. The last is `Paid`: as long as the queue is open,
at most one item is lost for each abandoned iterator whose resolver is used up.
The resolver a dead iterator left in the list is what it hangs on: its loss is
still to come, so that it has to be excluded from those who have paid.
The sources are four arguments of their own:

* `PagesInv`. Rows are counted (`Place`): a page is the rows behind the first so
  many (`IsPage`), whichever way they are numbered. What is behind has been read,
  and what has been read is before what is to come (`Ongoing`). An insertion moves
  rows on and a deletion moves them back, so that where rows are counted the first
  half holds as long as none is deleted and the second as long as none is put in;
  with a cursor, which is a row, both hold whatever changes. The last page has the
  last row (`LastPageIsLast`).
* `SignedInv`. A request carries one signature, of the body and the second it was
  sent at; two clocks that count whole seconds are apart by the time between them,
  but for less than one second (`DriftIsAge`), which is the slack of the property.
* `ActorInv` and `ToolInv` say at each point of the loop what the clock may be, and
  which of the client, its one call and its close have been; `AnswersInv` goes
  through what the other side may say.

`DependencyProofs` (`RedisAssumption`, `DependencyAssumption`), in five parts:

* `RedisIsSound`. A call's time is at most `Latency` behind the clock, the members
  and the admissions carry the same numbers and times, and every admission young
  enough to matter is still held: a script expels by its caller's time, which is
  why the span is shorter than the window by the latency; the same in a whole
  window, `LimitHolds`, is violated.
* `LimitersKeepTheirWord`. For Redis (`HintInv`) a promise names the time at which
  some member that is still held leaves the window. For the store in process, the
  log of a key is the end of its admissions, and those before it have left the
  window (`LogInv`); so `Consume` is a step of the abstract `RateLimiter` of its
  key, the other keys' limiters stutter or, when evicted, start anew. The order of
  the `Map` is an order of last use (`OrderInv`: whoever stands behind a key was
  used since), so the key evicted from a full one had `MaxKeys` others after it.
* `ResolvedIsFresh`. With no resolve in flight at the last invalidation, what is
  cached, decoded or in flight is from after it (`HeldIsFresh`), and each call's
  value, or the one its process is going to give it, is fresh (`CallsAreSound`);
  what is kept for a name is its own, and the decoded file is no older than what
  anyone was told (`NamesInv`).
* `DisposedInOrder`. `Loop`: entries later than the one at hand are past, the
  earlier untouched; for the eight designs, what was closed and what is still to
  be are lists without repetition that share nothing and together hold what must
  be closed (`Lists`), and every close before the one at hand is reported
  (`Reports`).
* `LastWriteIsRead`. For one key (`KeyInv`): every row and every write under way has
  a number of its own, so that the row a write found is deleted and no other; while
  no two writes of a namespace have overlapped and none has failed, it has the row
  acknowledged last, except between the delete and the store of a write, when it has
  none (`BackendIsCurrent`). The one row of `memory-sqlite` is newer than what any
  other namespace was told (`FileIsCurrent`). For the lists (`ListInv`), what was
  acknowledged and is not lost has a row or a write that carries it (`Accounted`).
  Across processes (`CrossInv`), what a run-2 has read and has still to read is all
  that was acknowledged before it began (`ReaderIsSound`, `Position`).

`InngestProofs` (`InngestAssumption`, `GuardsAssumption`: a guard's limit and period
and the window are numbers): `RunIsSound`, `FunctionIsGuarded`, and the safety parts of
`ReplayIsSafe`, `StepsInOrder` and `FinalIsNotRetried`. A step is remembered only
behind those that are ok, and the request after every child (`Remembers`); a step
with no memory was run at most once per attempt (`Tried`). `RunIsSound` has a
hypothesis, `Injected`: that the request carries the run's id, which the run
compares and its caller has to put there. Its first half, `DoneMeansAllOk`, is
proved without. `FunctionIsGuarded` has an invariant for each kind of guard
(`PipelineAlone`, `WindowApart`, `PeriodApart`) and one for the reasons of each drop:
that an earlier event that was kept still stood in its way, which an end at or after
the drop does not take back (`Times`: nothing ends before what was sent by then). A
run that is paused was called (`Called`), so that its begin is not moved again.

`LocalTriggerProofs` (`TriggerAssumption`, `SchedulerAssumption`,
`FieldAssumption`): `TriggersFireAsMeant`, and `AdapterIsSound`, the latter under
the hypothesis that there is one caller, so that calls do not overlap; with two,
`OneServer` and `StoppedHasNoAddress` of section 5 are violated. `Pending` says what
is set up while the call is suspended at each of its awaits, and `Handled` that
requests are left only at a server that listens or is being closed. For the ticks,
which do overlap, `Marked` says that what has fired in this minute is marked with
it, and `InItsMinute` that no tick of a prompt host outlives its minute. A field
means the union of what its parts cover, for any number of parts and any bounds
(`FieldsMean`, from what each form of a part yields); what a request or event
reached is a sequence of registrations that stood when it was made (`Within`), of
which it is to be all those meant and no others.

`OutboundProofs` (`OutboundAssumption`):

* `ReviewIsHeeded`. `ReadInTime`: until a decision is read, the request that missed
  it was sent before it was made, and the sleep after it ends within `Latency` and
  `Interval` of it; `SignalInTime` says the same of the abort. At the terminal,
  lines are read in the order they were typed (`InOrder`, `HeardInOrder`), so that
  none is heard twice.
* `DeliveredWithCause`. `Paid`: what was posted at a place and what is on its way
  there is, in sum, at most the faults and races there were, and one more if the
  cache knows the place or a run is past it. `SeenOnce` and `Answerable` say the
  same of a receiver that drops repetitions. The sums over emits are cardinalities
  of sets of pairs, so that they need no induction. A relayed emit owes one copy to
  the answer it was given or may still be given (`Excused`).
* `AnswersAreUnderstood`. All causes before the last may pass, attempts are left to
  whoever makes another one (`Retried`), and the result is of the last cause
  (`Replied`), for each adapter's table of classes; `ToolInv` is the call of a tool.

`StageProofs` (`StagesAssumption`, `RulesAssumption`, `SummaryAssumption`,
`CommandsAssumption`, `ContextsAssumption`): the five properties of `stages`, for
schemas of any depth and width, any number of answers, cases, calls, items,
pipelines, runs and contexts.

* `RunsWhatWasBuilt`. `Built`: a definition holds the steps of the calls that led to
  it, in order, whatever was continued from where; a run has those of its pipeline,
  and what its bucket has and what it has sent are the limit together. `Carried`: a
  context that emits has the key of the emit, one that came over a wire has what
  went onto it, and two share a metadata object iff they are views of one run, so
  that what is attached through one is in the object of no other run. Keys are apart
  because of `TextsApart`: where the first and the last of three texts have one part
  each, the joined text tells the three, although the middle one may have any number
  of parts. That the ids of runs and atoms have no colon is assumed
  (`ContextsAssumption`): `ids.ts` makes them, or Inngest, and every source of the
  packages takes its atoms' ids from there.
* `ExtractionFollows`. `Follows`: while a run asks, every answer so far was one it
  complains of and there were at most `retries` of them; when it has ended, all but
  the last were, and its outcome and its code are of the last. This holds of each
  runtime for its own reading of the answers (`Raws`); where the two read them alike
  they end alike (`Twins`). A schema that was made strict is what was sent (`Sent`),
  and strict wherever the walk goes (`SentIsStrict`).
* `RightBranch`. Rules are taken in one of the six orders there are of three
  (`SortedThree`), sorted by priority and, of equals, by place; the first that
  matches in that order is the one that wins (`FirstWins`).
* `SummaryIsTrue`. `Marking` says what is known of a case by how far it is, so that
  the cases that pass are those the summary counts; `deepEqual` is equality but where
  the property names an exception (`Blurred`): first for values whose parts hold none
  (`PartsAlike`), then for those that hold such values (`DeepIsSame`). `Billing`: what was billed is the sum of what
  each call costs. `Buffered`: the buffer is what came after the windows that were
  flushed, each of which was of the next `Size` items.
* `CommandsAreTrue`. `Watched`: once every change has been noticed, the discovery
  begun last will end with what is on disk (`Fresh`), or it was applied last and
  nothing has changed since; `Numbered` tells discoveries that overlap apart. `Generating` says
  how far `pk gen-py-schema` has come and what is on disk by then, and `Told` what ran
  and what the exit code is to be.

*Model-checked only.* Liveness (`Terminates`, `HandedOverAndRead`,
`StopsAndFires`, the last part of `ReplayIsSafe`, `DisposeReturns`) is out of the
prover's reach, like ENABLED. So are the four properties of `wire`: `FramesArrive`,
`RuntimesAgree` and `ValuesArrive` say what decoding a stream, or writing and reading
a value, gives for every input, and `TelemetryIsTrue` what a processor makes of every
tree: each is a fold or a recursion over its input, and would need induction over it.
`WireValues` and `Telemetry` have RECURSIVE operators, which walk values of a bounded
depth, and `MCWire` reaches them.

## 5. Where the code and what is said of it disagree

Two runs are expected to find a violation and are listed as findings:

| Run | The code | Says otherwise |
|---|---|---|
| `queue_loses` | an aborted waiter swallows the next item (`async-queue.ts:57`) | `async-queue.ts:3` |
| `store_forgets_atoms` | a store stage is handed the run's key for every atom, so that from the second on its put stores nothing and returns ok (`pipeline.ts:174`) | `docs/spec-build-plan.md:49-54`, `docs/spec.md:324` |

Each property below is defined in its module, says what a document, a comment, a
test or the code beside it says, and is violated. To see how, put it as the one
INVARIANT (or PROPERTY, where it begins with `[]`) of a copy of the run's
configuration; where the MC module does not repeat it, define it there from the
instance (`X == Part!X`), guarded by the part it is about.

**Composer (`composer_runs`, `composer_budgets`)**

| Property | The code | Says otherwise |
|---|---|---|
| `AggregateRetriesBounded` | an exception is retried without charging the shared budget (`retry.ts:88`) | `docs/spec.md:780` |
| `CancelledOnlyIfAborted` | a step that always throws ends the run as cancelled (`retry.ts:121`) | `docs/spec.md:1354` |
| `AbortInBackoffReportsCancelled` | a signal during a backoff is reported as the stage's failure (`retry.ts:118`) | `cancellation.property.test.ts:5` |
| `NoCallAfterAbort` | a signal that comes while `rateLimit.acquire` is awaited is not looked at again before `step.run` (`composer.ts:397-413`) | `docs/spec-v1-core.md:111` ("stop processing new work") |
| `CeilingIsCumulative` | the ceiling is compared with the cost of one pass, begun anew for each atom (`composer.ts:272`) | `budget.ts:28`, `composer.ts:70` |
| `DisposalAlwaysRuns` | a refused buffer window skips disposal (`composer.ts:126`) | `docs/spec-v1-core.md:115` |
| `AbortBudgetEndsRun` | a warn budget hides an abort budget (`budget.ts:16`) | `docs/spec-v1-cross-cutting.md:352` |
| `MaxRequestsCountsRetries` | retried steps do not count (`composer.ts:272`) | `budget.ts:45` |

**Stores (`store_put`)**

| Property | The code | Says otherwise |
|---|---|---|
| `OneRowPerKey` | two puts that both miss insert two rows (`postgres-store.ts:140`) | `store-postgres/README.md:3`, `docs/spec-adapters.md:75` |
| `ListedByInstant` | sqlite orders `created_at` as text, so that offsets of time zones mix | `store-sqlite/src/atom-table.ts:24` |
| `OutageIsTransient` | pgvector takes a refused connection for a final error (`pgvector-store.ts:57-69`) | the other two stores |

**What a run depends on (`dependencies`)**

| Property | The code | Says otherwise |
|---|---|---|
| `LimitHolds` | scripts run in another order than their callers read the time, so that more than the limit fall into one window | "maximum allowed requests within windowMs" (`rate-limit-redis` `store.ts:56`) |
| `ZeroIsRefused` | with a limit of 0 the script adds the window to nil, and `consume` throws (`lua.ts:36-37`) | the store in process, which refuses (`in-process-store.ts:71-74`) |
| `InvalidateIsHeeded` | a resolve in flight fills the cache after `invalidate` (`version-aware.ts:71`, `secrets-sops` `index.ts:158`) | `docs/spec-v1-cross-cutting.md` VIII-2 |
| `TokensAreRefetched` | the TTL counts from the last resolve, not the last fetch, so that a secret in use is never fetched again (`ttl.ts:16`) | the same, VIII-3 |
| `UnavailableIsAskedAgain` | one failed or slow sops process is the answer until invalidate (`secrets-sops` `index.ts:158`) | the error's name, `secret_unavailable` |
| `PairsAreOfOneRotation` | two secrets rotated together are resolved apart | what a pair is for |
| `ScopesAreApart` | scopes and names are joined by a dash, which both may hold (`scope.ts:9`) | what a scope is for |
| `LatestWriteWins` | two writes that overlap leave two rows, and the older is read (`memory-orchestr8` `adapter.ts:105`) | `memory/src/types.ts:9-13` |
| `NamespacesAreApart` | the table's key is the key alone (`memory-sqlite` `adapter.ts:80`) | its README |
| `ReadableIsListed` | rows without a namespace are read in every one and listed in none (`memory-sqlite` `adapter.ts:61`, `97`) | the same |
| `OwnCloseOnly` | `close` closes the backend that adapters share (`memory-orchestr8` `adapter.ts:157`) | the adapter's own lifetime |
| `RewriteIsRead` | a key that a later process writes again reads as the old value | `cell-alpha-minimum-verbs.ts:281-300` |
| `NeverStale`, `WritesAreDone`, `WarnedIfLate`, `GivenUpStays`, `HeedingCloses` | designs the lifetime probes reject or leave open; in the probe of an aborted cleanup a timer is not cleared and warns of who was in time (`probe-abort-during-cleanup.ts:57-61`) | the probes' reports |

**What crosses a process boundary (`wire`)**

| Property | The code | Says otherwise |
|---|---|---|
| `ChunksNeverShow` | a header that ends one byte past the limit is found in one chunk and refused in two | `lsp-frame-decode.ts` |
| `StreamsAreApart` | iterators of one process share a decoder of text, and half a character of one ends up in another (`ndjson.ts:22`) | `ndjson.ts:103-111` |
| `PyRejectsNaN`, `PyOrdersAlike` | Python serialises NaN, and orders keys by code point where TypeScript orders by code unit | `canonical_json.py:48-49`, `canonical-json.ts:6` |
| `PyWritesNumbersAlike` | fractions from 10^-9 up to 10^-4 differ: 0.00001 by `String(value)` (`canonical-json.ts:80`), 1e-05 by `json.dumps` | `canonical_json.py:1`, `core/src/wire/README.md:50-55` (RFC 8785) |
| `ExtractInvertsAttach` | a frame whose body names another tracestate keeps it, and the decoded frame answers with that | `trace-wire.ts:73` |
| `RedactCoversSubtree` | `markRedact` on an object does not reach what is below it | `core/src/pii.ts:5` |
| `SafePasses` | what is marked safe is redacted all the same in some compositions | `observe/src/redacting-processor.ts:29-30` |
| `FirstWriteNames`, `RunIsOneTrace`, `FileIsOfItsTrace` | without a run id, a file is named anew after each batch, and holds other traces' spans | `observe/src/file-sink.ts:8` |

**What stages compute (`stages`)**

| Property | The code | Says otherwise |
|---|---|---|
| `TwinsAlways` | the two end with different codes: for Gemini without a key; for "api key" in small letters, which only Python finds (`extract-process.ts:105`, `extract_process.py:222`); for "Could not resolve" in any message, which only TypeScript takes for a missing package (`extract-process.ts:66-70`); for a thrown value that is no `Error` (`:47-53`); and for Node's own "Cannot find package", which is none of the phrases looked for | `extract_process.py:338` |
| `StrictEverywhere` | the walk recurses into some keywords only | `strict-mode.ts:22` ("any depth") |
| `MissingMatchesNothing` | a missing field is matched as the text `undefined` | `classify-process.ts` |
| `EqualBothWays` | `deepEqual` depends on which side has a field that is undefined | `exact-match.ts:45-50` |
| `EqualToItsCopy` | a set of objects is not equal to the same set built anew: members are looked for by identity (`exact-match.ts:34`) | `eval-scorers/README.md:13` ("Recursive structural deep-equal. Handles ... `Set`") |
| `EqualsAreOfAKind` | a map or a set of anything is equal to an empty object, and to each other: neither has keys of its own (`exact-match.ts:45-50`) | `eval-scorers/README.md:13` |
| `DefinedCanPass` | a judge alone is accepted as a scorer, but none is made of it | `define-eval.ts` |
| `OptionsArrive` | `deps` and a defined pipeline's `costBudget` do not reach the run (`define-pipeline.ts:62-67`) | `pipeline.ts:85-97` |
| `ServeKeepsRate` | each run makes a bucket of its own for a serve (`pipeline.ts:145-151`) | the rate the serve declares |
| `WireNamesItsRun` | the run id on the wire is not looked at by `injectWireContext` | `serializable-context.ts` |
| `ReviewsAreDescribed` | a built pipeline's review is a process by the time it is described | `define-pipeline.ts:93-94` and its test, which describes a hand-made pipeline |
| `EditsAreSeen` | a file that has been imported is not read again | `dev.ts:12` |
| `StoppedIsSilent` | a reload in flight registers triggers after `stop()` | `dev.ts:15` |
| `LatestIsApplied` | two reloads overlap, and the older may finish last | `dev.ts` |
| `StrictRejectsGaps` | what has no JSON Schema equivalent inside some schemas is not looked over | `gen-py-schema.ts:37-39` |
| `NothingIsLeftOut` | a schema that cannot be converted is skipped with a warning, and the command exits with 0 (`gen-py-schema.ts:94-96`) | `gen-py-schema.ts:363` |
| `OnePerPipeline` | a pipeline exported under two names is found, and run by `pk dev`, twice (`discover.ts:77`) | one trigger per pipeline |
| `StaticIsCurrent` | where `watch()` throws `pk dev` goes on with what it found first (`dev.ts:71-74`) | `dev.ts:12` |
| `NothingIsLeft`, `WindowIsNamed` | an aggregate drops what does not fill its window, and its summary need not name the window | the shapes the probe compares |

**Local triggers (`local_trigger`)**

| Property | The code | Says otherwise |
|---|---|---|
| `OneServer` | a registration during a start sees no server yet and makes a second one (`local-trigger-adapter.ts:201`) | its comment at 184 |
| `StoppedHasNoAddress` | a stop during a start closes nothing, and the server then listens (`229-247`) | its comment at 178 |
| `AtMostOncePerMinute` | a tick held up by a handler marks later registrations with its old minute, and the next tick fires them again (`349-351`) | `core/tests/triggers/local-trigger-adapter.test.ts:330` |
| `AcceptedCanMatch` | a field may be out of bounds or a range reversed (`54`, `67`) | it is accepted |
| `HandlersCannotKill` | `fire()` awaits no listener, so that an exception of one is nobody's | its comment at 362 |

**Inngest host (`inngest_run`)**

| Property | The code | Says otherwise |
|---|---|---|
| `TransientIsRetried` | a stage's error is remembered as the step's value; a retry throws it again without running the stage (`kit-step.ts:10`) | `docs/research-notes-v1-cat-I.md:148` |
| `DeclaredIsNotRetried` | `retryable: false` is not looked at | `docs/research-notes-v1-cat-I.md:205` |
| `AnswerIsReceived`, and `AnswerResumes` with `Injected = FALSE` | the answer is matched by a run id the request may not carry; it may come before `waitForEvent` | `adapter-inngest/README.md:58` |
| `RunsAreSequential` | a limit of one counts executing calls, so that a second run begins while the first sleeps, waits for its review or for its next attempt (`create-kit-function.ts:138`) | `adapter-inngest/README.md:127` ("never skips. Second trigger waits") |
| `PeriodIsWindow`, `DedupHoldsForPeriod` | the dedup period becomes a throttle, which delays; what is dropped is dropped for Inngest's own window, also when the period is shorter, and no more when it is longer (`create-kit-function.ts:142-151`) | `adapter-inngest/README.md:129` ("Dedup window. Period is forwarded"), `docs/spec-v1-runtime.md:226` |
| `SingletonIsSingle` | the key of a singleton is the event's, and two events may differ in it | `create-kit-function.ts:114` |
| `ChildSeesItem` | the context unwraps the envelope for the trace only; the handler is given the event as it came | `context-mapping.ts:56-57` |
| `RunKeepsItsId` | the run id is made anew by each call (`create-kit-function.ts:61`) | what a run id is for |
| `EventsAreApart` | a function is started by events of other triggers | each function's trigger |

**What a run sends and asks (`outbound`)**

| Property | The code | Says otherwise |
|---|---|---|
| `OkIsDelivered` | in a sequential run all serves get the run's own key (`composer.ts:412`), and the second one's cache or receiver takes it for a repetition | `docs/spec.md:514` |
| `RefusalsAreFinalEverywhere` | what they do not know, Slack and smtp take for transient (`slack-serve.ts:73`, `smtp.ts:38`) | the other serves |
| `RequiredKeyIsSent` | a serve that declares its key required sends without one | `email-serve.ts:88` |
| `EmitIsOneItem` | the key of a relayed emit is not looked at (`webhook-source.ts:118-131`) | the header the serve sends |
| `LeavingStops`, `CancelledIsSaid`, `AnswersAreOfSchema` | a client that leaves does not stop the run it began (`mcp-tool-serve.ts:139`), an aborted emit is an unknown error (`108-119`), and an answer may be no JSON (`151-156`) | the tool's declared schema |
| `TimeoutMeansUndecided` | a decision made during the last sleep is not read (`gatewerk-reviewable.ts:103`) | the message at 128 |
| `LinesAreTheirOwn`, `StopIsHeeded`, `OnlyAllowed` | at a terminal a line answers another's question, the signal is not looked at, and any decision is taken (`console-reviewable.ts:50`, `60`, `96`) | `docs/research-notes-cat-IV.md:250` |

**What comes in (`inbound`)**

| Property | The code | Says otherwise |
|---|---|---|
| `OnePageOnly`, `IterTellsFailure` | with a cursor and the default shape one page is all that is read; a failed request ends `iter` as the last page does (`api-source.ts:239`) | `source-api/README.md` |
| `TiesAreKept` (with `CreatedAt` the same for two rows) | rows of one time come in any order in each query, so that an offset skips some | `list` with a cursor |
| `CursorMoves` | `list` with a limit of 0 has more, and gives back the cursor it was given (`postgres-store.ts:198-222`, and the other two), so that a caller who follows it never ends; `ReadingEnds` leaves this case out | `docs/spec.md:978-981` (cursor-based pagination) |
| `DeclaredSchemaRefuses` | what the derived schema would refuse is yielded (`mcp-source.ts:242-248`) | `source-mcp/README.md:3` |
| `OptionalMayBeMissing` | a property that is not required is required by the derived schema | `schema-derive.ts` |
| `DeniedIsFinal` | refused credentials are classed as an error that is retried (`mcp-source.ts`) | `source-api/src/errors.ts` |

Seen while reading, and not the subject of a property:

* no check rejects a retried serve whose adapter declares no idempotency
  (`docs/spec.md:519`); the deduplication across runs that `serve-slack/README.md`
  describes does not apply to streaming runs, whose keys hold the run id;
* a source's `retryPolicy` and `rateLimit` are not used by the composer; what
  `definePipeline` describes of retries and concurrency, runs do not use; no serve
  fills `retry_after_ms`; a gate's refusal with `retryable: true` is not retried
  by `classifyError`;
* `list` and `search` ignore their `StoreFilters`; atoms of the webhook source
  carry no `run_id`; a `Retry-After` that is negative passes unchecked;
* `onCoerce` of `validate` fires for every object (`validate-process.ts:33`); the
  usage `runEval` sums is never handed to the task;
* in `adapter-inngest` the registry is out of the handler's reach
  (`create-kit-function.ts:40-41`, `60`), `ctx.signal` is never aborted, the usage
  of a call is lost when it is replayed, `runGuard.rateLimit` is ignored, the
  trigger adapter's `stop()` does nothing, and a rejecting limit of two or more
  becomes a singleton;
* the bin `pk` of the CLI names `dist/cli.js`, which defines `main()` and does not
  call it.

## 6. Plan

Done: every component of section 1 whose behaviour goes beyond types and text. Of the
30 invariants that the passing runs check 26 are theorems, and of the ten action and
temporal properties five, with the safety parts of `ReplayIsSafe` (section 4).

Next are the four properties of `wire`. `TelemetryIsTrue` is the nearest: with trees
as functions from paths, as the schemas of `ExtractRun` are, redaction is one map over
the paths, and what is left to prove is about the spans, whose batches are sequences.
The decoders need a statement of how a stream that was read in chunks and one that was
read whole stand to each other after each symbol, which is an invariant of
`WireFrames` and not of one decoder's folds.

## 7. Not modelled

* The HTTP client and its resources: every method answers `not_implemented`.
* Types, identifiers and exports; the error classes are inside the models that
  use them.
* Text: prompts, messages, the bodies of requests, what the CLI prints, logging,
  the parsing of durations and of `traceparent`, authentication headers, escapes
  inside JSON strings.
* Scorers other than `exactMatch` and a judge: one comparison each.
* `StoreFilters`, which no store looks at.
* The design probes of `research/spikes` other than the four: throw-away programs
  that try a type, a library or an ergonomic question with inputs fixed in the
  file. The decisions they led to are modelled where the packages carry them out.

`PROJECT.json` lists every component with its status and the reason.
