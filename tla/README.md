# Finance-OS: TLA+ models, checks and proofs

Finance-OS is a personal finance cockpit for one user. A web application talks
to an HTTP API; a worker synchronises bank and broker accounts and triggers
daily jobs; both share a PostgreSQL database and a Redis server; a Python
service keeps a knowledge graph for the advisor. Each runs as one container
(`infra/docker`, deployed by Dokploy: a deployment or a crash kills the process
and starts it again). This directory models the parts of it that are hard to
test: what runs concurrently, what is cut off half way, what is lost or comes
late.

| File | Role |
| --- | --- |
| `Lease.tla` | abstract specification of the Redis lock of `packages/redis` |
| `PowensSync.tla` | bank synchronisation: Powens API routes, job queue, worker |
| `StepLedger.tla` | abstract specification of the rows of an operation and its steps |
| `ManualOperation.tla` | the "refresh everything and run the advisor" operation, its cancel and its recovery sweep |
| `DerivedRecompute.tla` | recompute of derived data under a PostgreSQL advisory lock |
| `OnceOnly.tla` | abstract specification of what is done once, by who came first |
| `ExternalSync.tla` | synchronisation of the external investments (IBKR, Binance) |
| `JobGraph.tla` | abstract specification of a run of jobs that depend on each other |
| `DailyRefresh.tla` | the daily scheduler, over `Lease`, and the refresh registry it triggers |
| `InvestmentPlan.tla` | action plans of the advisor, their hypotheses and the review of outcomes |
| `KnowledgeStore.tla` | the store of the knowledge service: memory, `graph.json`, Neo4j, Qdrant |
| `MC*.tla`, `*.cfg` | values of the constants and bounds for TLC |
| `*_proofs.tla` | theorems that TLAPS checks, one module for each of the above |
| `PROJECT.json` | runs, mutants, the source lines of each definition, hazards, findings |

Run a configuration with `tlc -workers 2 -config X.cfg MCModule.tla` and a proof
with `tlapm Module_proofs.tla`.

## 1. Inventory

### Components, state, operations, interaction

| Component (source) | State | Operations | Talks to |
| --- | --- | --- | --- |
| Redis lock (`packages/redis/src/lock.ts`) | a key with an owner token and a time to live | acquire (`SET NX EX`), release (compare and delete), `withRedisLock` | used by the worker's syncs and schedulers; the API's orchestration repeats its script |
| Powens API (`apps/api/src/routes/integrations/powens`) | `powens_connection`, `financial_account`, `asset`; Redis job list and cooldown key | OAuth callback, disconnect, manual sync, status | pushes jobs to the worker through Redis |
| Powens worker (`apps/worker/src/index.ts`) | the job in hand; run records and metrics in Redis | `consumeJobs`, `handleJob`, `syncAllConnections`, `syncConnection`, interval timer | Redis list, Redis locks, database, Powens |
| External investments worker (`apps/worker/src/external-investments-sync.ts`) | request claims and connection locks in Redis, run rows, connection status | `handleJob`, `syncProvider`, `syncCredentialRecord` | same job loop, database, IBKR and Binance |
| Worker schedulers (`apps/worker/src/*-scheduler.ts`) | last triggered day, in memory; Redis locks | a timer that calls an internal API route once per window | API over HTTP |
| Ops refresh registry (`routes/ops/refresh-registry.ts`, `refresh.ts`) | results in memory | preflight, run one job with a hard timeout, run all in dependency order | every refresh use case |
| Manual orchestration (`create-manual-refresh-and-run-use-case.ts`) | `ai_manual_operation` and its steps, one Redis lock, a task in memory | start, background pipeline of seven steps | enqueues syncs, polls them, imports news and markets, runs the advisor |
| Cancel and recovery (`dashboard-advisor-repository.ts`, `routes/ops/recover-*.ts`) | the same tables | cancel, close orphaned steps, expire stale operations | before every `/ops/refresh` run |
| Derived recompute (`derived-recompute.ts` and its repository) | `derived_recompute_run`, an advisory lock | status, run | database sessions of a pool |
| Investment strategy (`investment-strategy-*.ts`) | strategy, plan, hypothesis, outcome, post-mortem and lesson rows | generate a plan, review due outcomes, seed the default strategy | the registry's jobs, the advisor's routes |
| Knowledge service (`apps/knowledge-service`) | a graph in memory, `graph.json`, Neo4j, Qdrant, flags of the backends | start, ingest, rebuild, dry run, queries, stats | the API sends it facts and asks for context |
| Provider policy (`packages/provider-runtime/src/policy.ts`) | none | one call with timeout, transient retries, cancellation | all provider clients |
| Authentication (`apps/api/src/auth`) | signed cookies, a rate-limit counter in Redis | login, guard, rate limit | every route |
| Advisor, signals, news, markets, trading lab, valuation | rows per run | data transformation, language model calls | started by the above |
| Pure helpers (sync window, gap detection, integrity checks, finance engine) | none | functions | the worker and the API |
| Web, quant service, contracts, UI, deployment | none durable | | API |

### What is hard in it, and what makes each component correct

* **Redis lock.** A lease is renewed by nobody and can end under its holder; a
  reply can be lost; the release comes after somebody else took the key.
  Correct: a client keeps its key until it releases it or its lease ends, and
  two clients work under one key only after a lease has ended.
* **Powens sync.** Many awaits on shared rows without a transaction: an account
  is taken over from an older connection by three statements; a crash loses the
  job and leaves the status, the lock and the run record; jobs are dropped when
  the lock is held; a token is replaced while the previous one is in use.
  Correct: one bank account is never enabled under two connections; the sync
  keeps the lock's promises; nothing is left behind when nothing fails; a valid
  consent is synchronised in the end and no connection says syncing for ever.
* **Manual operation.** A background task, a cancel and a sweep write the same
  two tables with statements of their own; the task dies with the process.
  Correct: the status of an operation tells what its steps did, in order; a
  verdict is final once the task is over; one pipeline at a time; nothing looks
  active for ever.
* **Derived recompute.** A lock that belongs to a database session, used through
  a pool; a flag that should be set on one row and has no constraint; a commit
  whose reply is lost. Correct: one current snapshot, and never none once there
  has been one.
* **External investments.** A claim in Redis and a look in the database decide
  together whether a request is a duplicate; the claim outlives its worker; a
  call that fails after the status was written goes through the catch block.
  Correct: one run per request and connection; a request is refused only if it
  has its run; no status says syncing for ever; a provider that fails does not
  cost the next one its turn.
* **Daily scheduler and refresh registry.** The lock is the worker's, the run is
  the API's: the wait can end before the run does. What has been triggered is in
  memory only. A job that hits its hard timeout goes on. Correct: runs of the
  schedule do not overlap while leases hold; a job runs only after all it needs
  is done; an answer "ok" means that no work is left; no trigger waits for ever.
* **Investment strategy.** Five tables written statement by statement, without
  a transaction and without a lock, by requests that a person and a scheduler
  may send at once. Correct: one active plan; a hypothesis is closed when all
  its outcomes are reviewed; a verdict is not taken back; each review takes place.
* **Knowledge service.** One graph in four places, written one after the other;
  each backend may go and come back in between. Correct: what was acknowledged
  is where it should be or the service says that it is degraded; what the
  durable store took is served again after any crash.
* **Rate limit.** A counter and its expiry are two calls (a hazard without a
  property: one row of one key, and no other state to relate it to).

The full list, each at its line, is under `hazards` in `PROJECT.json`.

## 2. Plan

Modules in order of importance.

1. `Lease`: abstract lock. **Done**, with proofs.
2. `PowensSync`, composed with `Lease` by a refinement. **Done**; every safety
   property is proved.
3. `ManualOperation`, composed with `Lease` and with `StepLedger` by refinements.
   **Done**; every safety property is proved.
4. `DerivedRecompute`. **Done**; every safety property is proved.
5. `ExternalSync`, composed with `Lease` and with `OnceOnly` by refinements.
   **Done**; every safety property is proved.
6. `DailyRefresh`, which extends `Lease` with the scheduler, composes it with
   the refresh registry and implements `JobGraph`. **Done**; every safety
   property is proved.
7. `InvestmentPlan`, whose seeding implements `OnceOnly`. **Done**; every safety
   property is proved.
8. `KnowledgeStore`. **Done**; every safety property is proved.

What could follow: the other schedulers of the worker (the same tick and trigger
as in `DailyRefresh`, over other routes); the retry and timeout of one provider
call (`policy.ts`) and the login counter (`rate-limit.ts`), which are short and
sequential. The pure functions on dates and amounts
(sync window, gap detection, integrity checks) have unit tests over the inputs
that a bounded check would enumerate.

## 3. The modules

### Lease

`holder` is the token under each key, `inside` the key whose protected work a
client does, `lapsed` those whose lease ended while they were inside (history).
`Acquire` is a successful `SET NX EX`, `AcquireUnknown` one whose reply is lost,
`Release` the compare-and-delete script, `Leave` a crash or an error that skips
it (of several clients at once, when they live in one process), `Expire` the end
of the lease. The detailed modules instantiate it.

### PowensSync

Tables are `conn` (status, archived, token), `accOn` and `assetOn` (the rows with
`enabled = true`); Redis is `lock`, `queue`, `cooldown`; `grant` is the consent
generation that Powens accepts, so a token is the number of the consent it came
from. `callback` is the API's callback between its calls. `wk[w]` is a worker:
the job's remaining connections, the program counter in `syncConnection` and the
locals that later steps use. `stuck` are connections with a run record that says
running and that nobody will end.

Every await of `syncConnection` that touches shared state is one action named
after what it does (`Select`, `Mark`, `Fetch`, `Supersede`, `DisableAccounts`,
... `Release`); `Fail` is an exception at any of them, `Caught` the transfer to
the catch block; `StartRunFails` is the one call between the lock and the try
block. `Crash` loses the job in hand and keeps what Redis and the database hold.
`Environment` has the user, Powens, the API handlers, the timer and the clocks.
`reconnect_due` stands for `reconnect_required` once the attempt and the failure
are a day old (`reconnect-recovery.ts`); recency is looked at when the
connections are listed.

Assumptions: the owner connection and the normalised IBAN of an account do not
change; a connection has one callback in flight; a worker's name stands for its
lock token; safe mode and `DISABLED_SYNC_PROVIDERS` are off. Balances,
transactions, integrity checks, gaps and metrics are left out.

Properties: `IbanCountedOnce` (no bank account enabled under two connections) and
`DisconnectKept` (no enabled account under an archived connection), each up to
what two workers or a disconnect can do to it, which three history variables
remember: `met`, the pairs of workers of which one enabled accounts while the
other was between its look and its own enabling; `crossed`, the enabled accounts
that share an IBAN because of it; `overtaken`, the connections that were archived
after a sync had selected them or given accounts by one that had looked before.
With one worker, as in production, only a disconnect is left of this.
`AssetFollowsAccount` (an asset is enabled exactly if its account is) has the
exceptions that two statements outside a transaction make: a sync that stands
between them (`HalfWay`), and the accounts in a fourth history variable, `apart`,
where a sync was cut off there or the account was written again meanwhile. What
was cut off while superseding stays apart for good: later syncs look for enabled
accounts, and the account no longer is.
`NothingLeftBehind`, `FreshTokenSynced` and `SyncingEnds` say what a sync leaves
and what it reaches. `LeaseKept` is the refinement of `Lease`.

### StepLedger and ManualOperation

`StepLedger` has neither the lock nor the tasks: an operation is live from its row
on until its pipeline is over, and while it is live its steps are worked on in
order, each until it has a good outcome, and the verdict follows from the outcomes
when all are good. Anybody may fail an operation that is live or looks active, or
close steps that look active; a live operation takes no notice. What it forbids: a
step begun before those in front of it are done or again after it is done, a verdict
that its steps do not bear out, an operation that is over and changes though it does
not look active. `ManualOperation` implements it (`LedgerKept`).

`op` and `step` are the two tables, `lock` the Redis key, `task[o]` the start
request of an operation and then its pipeline, `cancel` the cancels between
their two statements, `sweep` the recovery sweep with what it has read. The
actions follow the code statement by statement: an update of the operation and
the closing of its steps are separate actions, because they are separate
statements; the guarded updates (`WHERE status IN ('queued','running')`) are
`FailActive` and `CloseWhere`; the pipeline's own updates have no guard. A step
of the pipeline is its outcome; what a step does to other components is not
connected to their modules. `CheckActive` skips an operation whose advisor run
is over, as `getLatestActiveManualOperation` does. A sweep takes any part of the
active operations as old: its caller may ask for a threshold of a minute, which
a running pipeline exceeds. The branch of the sweep that closes the active steps
of a completed operation as skipped has no action: by `FinishedHonestly` there
are no such steps. A linked advisor run is taken to be over, since
`runAdvisorDaily` returned it.

### DerivedRecompute

`task[r]` is a request, `run` the table, `lock` the advisory lock with its
session and count. Each call picks any session that no transaction has reserved.
The transaction is `Begin`, `Demote` (the rows its UPDATE sees), `LockRows`
(their locks, after which rows that are not current any more are left alone, as
READ COMMITTED does), `Commit`. `overlapped` remembers that two requests have
been past the lock at a time.

### OnceOnly and ExternalSync

`OnceOnly` has no keys, no rows and no clock: a thing is taken by one doer, who
does it or stops and spoils it, and what is spoilt may be taken again only when it
has been cleared (`SpoiltForGood` is for a user that never clears). `ExternalSync` and
`InvestmentPlan` implement it. In `ExternalSync` a thing is a request's
synchronisation of a connection; it is taken from a granted claim on, done when its
run row is inserted, spoilt when the worker stops in between (or the reply of the
claim is lost), cleared when the claim runs out.

`status` is the connection's status, of which "settled" stands for configured,
connected, degraded and error; `runs` counts the run rows of a request and a
connection, `claimed` and `lock` are keys in Redis, `queue` is the job list. A
request in `Requests` has an id that may come more than once (a push that is
repeated, a job pushed to two workers); `None` stands for the unique id that the
scheduled refresh makes. An action is one call; `Fault` bounds the calls that
throw or whose reply is lost and the workers that die. `Caught` and
`CatchThrows` are the catch block and a catch block that fails itself, which
skips the providers that are left. `LockExpires` and `ClaimExpires` are the
times to live; a claim does not run out while its worker is between the claim
and the run row (six hours against seconds). Assumed: a worker's name stands for
its lock token; both providers are enabled and have credentials. What is
imported, health counters and the advisor's bundle are left out.

### JobGraph and DailyRefresh

`JobGraph` is a run of jobs without a plan: any pending job may be taken whose
needs, direct and indirect, allow it; it works when it is enabled and they are all
done, and is barred when it is disabled or one of them has failed or is barred. The
run closes when every job has its result. `DailyRefresh` implements it with the
loop of `runAll`, which goes through a depth-first order and looks at direct
dependencies only.

`DailyRefresh` extends `Lease`: the clients are workers, `inside` is a worker whose
trigger holds the key. `now` counts minutes that matter: odd values are minutes
the cron names. `Tick`, `Enter` and `Busy` are the scheduler's tick and
`withRedisLock`; `Post` to `Done` the HTTP request under the lock's signal, with
an answer, without one, and with an error. In the API `runs` are the runs of
`POST /ops/refresh/all`, begun by a trigger or by an admin (`Manual`, no lock).
`Plan` is `getExecutionPlan`, depth first, as a recursive function; `PlanAssumption`
says that the registry has no cycle (the code throws at one). `Bar`, `Run` and `HardTimeout` are
what `runAll` does with the next job: preflight, the runner, the race with the
hard timeout, which leaves the job's work running (`drains`). What a job does is
left out; so are single-job runs, dry runs and the recovery sweep before a run
(`ManualOperation` has it). `calm` and `fired` are history: whether a lease
has ended under a trigger or anything has failed, and how often a day has fired.

### InvestmentPlan

`plan`, `hypothesis` and `outcome` are status columns, `postMortems` and
`lessons` count rows of an outcome, `seeded` how many of the four inserts of the
default strategy are done. A task is a request and its locals. An action is one
statement; `Stop` is an exception or the death of the process at any of them and
`cut` remembers in which window it came. `OutcomeDue` is the passing of a review
date. `Scores` is what `scoreOutcome` can make of an outcome: reviewed, or due
still when no fresh price is found. Both kinds of request begin with
`seedDefaultStrategyIfMissing`: the seeding of the one strategy implements
`OnceOnly`, where it is taken by the request whose `createStrategy` gets past the
unique index, done with its last part, and spoilt for good by a stop in between
(`StrategyOnce`). Left out: prices, allocation, memory events and
the context bundle (written, not read, by these requests), reviews that are a
dry run.

### KnowledgeStore

`memory`, `file`, `neo` and `points` are the four copies of the graph,
`available` and `reasons` what `degraded` is computed from, `request` what the
process is serving. Handlers are synchronous in one event loop, so requests do
not interleave; what interleaves is failure. Each action is one call to the disk
or a backend, which may fail before or after its effect; `Crash` may come between
any two and within a write, which leaves `graph.json` torn. `Probe` is a query
that finds a backend gone, `EnsureStorage` a health check that connects it
again. A fact is an entity or a relation, with versions of its content. The
history variables say what the outside was told: `acked` (since the process
started), `promised` (the versions of an entity that Neo4j may hold after it took
one), `shaken` and `blind` (the two events that void them: a rebuild, and a start
that could not read the file). Left out: scores, superseded versions,
observations, metrics.

## 4. Runs, and what they show

| Run | Bounds | Shows |
| --- | --- | --- |
| `sync_one_worker` | 1 worker, 2 connections, 3 accounts (two are one bank account), no fault, 1 crash | `IbanCountedOnce`, `DisconnectKept`, `AssetFollowsAccount` |
| `sync_liveness` | 1 worker, 1 connection, a queue of 2, 2 consents, 1 fault, 1 crash | `NothingLeftBehind`, `FreshTokenSynced`, `SyncingEnds` |
| `manual_operation` | 1 operation, 3 steps, 1 fault, 1 crash | `LedgerKept` (implements `StepLedger`), `FinishedHonestly`, `StepsInOrder`, `VerdictKept`, `EventuallySettled` |
| `manual_two` | 2 operations, 1 step, 1 crash | `LeaseKept`, `NothingLeftBehind` |
| `derived_recompute` | 3 requests, 2 sessions, 1 fault, 1 lost reply, 1 crash | `OneSnapshotUnlessOverlap`, `SnapshotKept` |
| `external_sync` | 2 workers, 2 providers, a request whose job may come again, a queue of 1, 1 fault | `RequestKept` (implements `OnceOnly`), `OncePerRequest`, `ClaimedMeansRun`, `NothingLeftBehind`, `EveryProviderTried`, `LeaseKept`, `SyncingEnds` |
| `daily_refresh` | 2 workers, 2 runs at a time, 3 jobs, 1 day, 1 fault | `RegistryKept` (implements `JobGraph`), `HeldUnlessLapsed`, `OneScheduledRunAtATime`, `OneRunPerWorkerAndDay`, `DependenciesHold`, `OkMeansDone`, `WaitEnds` |
| `investment_plan` | 2 plans, 2 reviewers, 1 hypothesis, 2 reviews, 1 stop | `StrategyOnce` (the seeding implements `OnceOnly`), `OneSeeder`, `OneActivePlan`, `PlanKept`, `ClosedMeansReviewed`, `LearnedOnce`, `ReviewKept`, `FirstReview` |
| `knowledge_store` | 2 entities, one with 2 versions, 1 relation; no bound on faults and crashes | `AckedOrDegraded`, `PromiseKept`, `WipedOnlyBlind` |
| `manual_cancelled_runs_on`, `derived_refused`, `hypothesis_never_reviewed` | see Findings | a disagreement each |

Why the bounds are enough.

* `PowensSync`: supersession relates two connections, and the third account,
  which has no IBAN, decides whether the emptied connection is archived or kept.
  One fault reaches every catch block and a crash after it every state that is
  left behind. Two consents let a sync meet a token that was replaced under it.
  What several workers do to each other is not run on this module: two workers
  with two connections and two accounts of one IBAN, without faults and crashes,
  are beyond the time of a run. They were explored breadth first, to a depth of 57
  and 54 million states, without a violation, and every safety property is
  proved for any number of workers.
* `ManualOperation`: operations share nothing but the lock and the active check,
  so their rows are checked on one operation and the lock on two; three steps
  give a first, a middle and a last one.
* `DerivedRecompute`: three requests and two sessions are needed for a third
  recompute to be let in, or refused, by what two others did.
* `ExternalSync`: two workers are what claims and locks are about; two providers
  let one fail before the other's turn; the same job twice in a row needs a queue
  of one only, since it may be pushed again once it is popped.
* `DailyRefresh`: three of the registry's jobs with the dependencies they have on
  each other, a chain whose last job needs the first through the second only, and may
  be disabled; larger registries are covered by the proofs. Two runs at a time show
  a manual one beside a scheduled one and two scheduled ones after a lease ended.
  One day is enough for a day fired twice; the next one differs in nothing.
* `InvestmentPlan`: two generations and two reviewers are the overlaps; two
  reviews of a hypothesis let one close it early, the third differs in nothing.
* `KnowledgeStore`: the state space is finite as it stands. The seed's entity, an
  entity of the API's in two versions and a relation between them tell apart all
  the code does (a superseded version, a relation without its ends, a rebuild).

Fairness. Workers and pipelines keep taking their steps (an async function goes
on while its process lives), the interval timer fires, Redis ends leases, days
pass. Nothing is assumed of users, of Powens, of failures or of crashes.

* `ManualOperation` assumes strong fairness of a sweep that considers every
  active operation old: the daily intelligence scheduler posts
  `/ops/refresh/all` each day, which sweeps first, with a threshold of 30
  minutes. When that scheduler is disabled, recovery is up to the user, and
  `EventuallySettled` is not promised.
* `ExternalSync` assumes that scheduled jobs are pushed again and again (strong
  fairness, since the queue may be full at times) and that an import ends (the
  provider's pages are finitely many). The jobs of users are not fair.
* `DailyRefresh` assumes that Redis ends a lease and that a worker goes on once
  its wait is cut off. Nothing is assumed of the jobs: most have no timeout.
* `InvestmentPlan` assumes that reviews are asked for again and again (the
  registry has a job for them) and go on once begun.
* `KnowledgeStore` and the lock need no fairness: only safety is stated.

### Findings

Three runs show that the code does not do what it says:

* `manual_cancelled_runs_on`: cancelling does not stop the pipeline, and its next
  update puts the cancelled operation back to running, while the web application
  says that the run was cancelled.
* `derived_refused`: the advisory unlock may go to another session of the pool
  than the lock did; later requests are then told that a recompute is in
  progress while none is running.
* `hypothesis_never_reviewed`: each hypothesis has reviews after 1, 7 and 30
  days, as its tests expect. The first review makes the hypothesis
  `partially_reviewed`, and the query for due outcomes asks for `open` ones:
  the later reviews never take place. `FirstReview` is what holds.

### Observations

What the models show besides, stated in a property's qualification or a comment:

* Powens: `disconnect` during a sync of the same connection is overwritten by
  that sync, which enables its accounts again. Two workers that synchronise two
  connections with one IBAN at the same time can enable it twice (`IbanCountedOnce`
  says that nothing else does so), and one may archive the connection that the
  other has given accounts to; production runs one worker.
* Manual operation: a process that dies between closing an operation and closing
  its steps leaves active steps, which the next sweep closes
  (`EventuallySettled`).
* Derived recompute: the session that has the advisory lock gets it again, so two
  recomputes can overlap; a commit whose reply is lost is marked failed, which
  removes the only current snapshot although the error message says that it
  remains unchanged.
* External investments: a worker that dies leaves its run row `running` for good,
  and a claim that keeps the request from being retried for six hours;
  `ensureConnection` turns `connected` back to `configured`, even for a job
  that is then found to be a duplicate.
* Daily refresh: any HTTP 200 counts as triggered, also when jobs have failed; a
  runner that throws is `partial`, which does not block its dependents; a trigger
  that throws has no catch and ends the worker; a cron minute that the process
  spends down is lost; `POST /ops/refresh/all` by hand takes no lock.
* Investment plan: the link from a plan item to its hypothesis uses a row id as an
  index of an array (`investment-strategy-use-cases.ts:1548`); nothing reads it
  back. A memory event whose delivery is cut stays `pending`.
* Knowledge service: a crash while `graph.json` is written makes the next start
  rebuild from the seed, which empties Neo4j, although `production_store.py:4`
  calls it durable; `WipedOnlyBlind` shows that it is the only way a start does so.
  A dry run of a rebuild overwrites `graph.json` with the seed. A requested rebuild
  that fails restores memory but not Neo4j and Qdrant, and notes no reason
  (`shaken`). Facts that come while Neo4j is down are reported as degraded and are
  gone with the next start that loads Neo4j; nothing sends them again. `fetch_all`
  catches its errors itself, so the reason `neo4j_hydrate_failed` is never given.
  A relation whose ends are not in Neo4j is passed over without an error.

## 5. What is proved

For every value of the constants that the modules' named assumptions allow, by
TLAPS. The assumptions say that `None` is not a member of the sets it is added to,
that sets are finite where elements are counted, and that bounds are numbers; the
theorems that need more say so.

* `Lease_proofs`: `LeaseHolds` and `LeaseExclusion`. The type invariant and
  `HeldUnlessLapsed` are inductive together: a key is deleted by its owner's
  compare-and-delete or by expiry, and expiry marks the owner as lapsed.
  Exclusion follows, since a key has one owner. Assumption: `None` is neither a
  key nor a client.
* `PowensSync_proofs`:
  * `TypeCorrect`. `TypeOK` alone is not inductive: a step inside the sync
    reads `wk[w].cur` as a connection, so the proof carries `InHand`, that a
    worker inside has one.
  * `SyncImplementsLease`: `Spec => LeaseKept`. The inductive invariant adds
    that a worker inside a connection and not lapsed owns its lock, and that
    lapsed workers are inside. Steps within the sync leave the lock's variables
    alone; the others map to one step of `Lease`.
  * `AccountCountedOnce`: `[]IbanCountedOnce`, for any number of workers. The
    invariant needed is about the interval between reading the superseded
    accounts and enabling the new ones: from `disableAccounts` on, no enabled
    account of another connection has an IBAN that is about to be enabled, and
    until then every such account is in the set to be disabled; except for
    accounts enabled by a worker this one has met in that interval. What
    exceptions leave behind is in `crossed`, and goes with the next sync of either
    connection that meets nobody.
  * `DisconnectStays`: `[]DisconnectKept`, for any number of workers. The invariant
    adds to the previous one that a connection about to enable accounts is not
    archived unless it was overtaken (`Selected`), that a sync does not supersede
    accounts of its own (`NotItself`), and that the connections it is about to
    archive have no enabled account left, or were overtaken (`Emptied`).
  * `CountedOnceByOneWorker` and `ArchivedWhenEmpty`: with a single worker nobody is
    ever met, so an IBAN is enabled under one connection without exception, and no
    sync archives a connection that another has selected or filled.
  * `AssetsFollow`: `[]AssetFollowsAccount`, for any number of workers. The
    invariant (`PairInv`): an account that is not in `apart` is half-way in one sync
    at most, and that sync wrote its row last, so the asset it is about to write
    will agree with it.
  * `ApartByOneWorker`: with a single worker, only a failure, a crash or a
    disconnect between the two statements takes an account and its asset apart.
  * `NothingIsLeft`: `[]NothingLeftBehind`, for any number of workers. While
    nothing has failed, open run records, locks and the status syncing belong to
    workers inside their connections (`OpenRecord`, `HolderInside`, `MarkedInside`).

* `ManualOperation_proofs`: `TypeCorrect`, `OrderHolds` (`StepsInOrder`),
  `VerdictIsHonest` (`FinishedHonestly`), `VerdictStays` (`VerdictKept`),
  `ManualImplementsLease` (`LeaseKept`), `NothingIsLeft`. The invariants are stated
  for one operation (`OrderInv`: where its rows are as against its pipeline;
  `HonestInv`: what the pipeline remembers of the steps agrees with the rows unless
  somebody else closed them; `CleanInv`: how far it has cleaned up). `Quiet` is all
  that cancels, sweeps and other pipelines can do to its rows; one lemma shows that
  `Quiet` keeps the invariants, so each action is examined for its own operation
  only.
  `ManualKeepsLedger` (`LedgerKept`) is the refinement of `StepLedger`. `TurnInv`: the
  steps ahead of a pipeline are as planned or have been closed; those behind it are
  good, which comes from `HonestInv`. So the pipeline's own statements are `Work`,
  `Result` and `Conclude` at their turn, and what the others write is one `Fail`,
  `Close` or `End`, or nothing.

* `DerivedRecompute_proofs`:
  * `TypeCorrect`. That the count of the advisory lock is bounded needs
    `RoomLeft`: each request takes the lock once, so the count leaves room for
    the requests that have not tried yet.
  * `OneCurrentSnapshot`: `[]OneSnapshotUnlessOverlap`. Unless two recomputes
    have overlapped, one request at most is past the lock, and the rows its
    transaction has found and locked are all the current ones; so the row it
    makes current is alone. Assumption: the requests are finitely many.
  * `SnapshotStays`: `SnapshotKept`. While no reply is lost, the request of a current row is
    past its catch block (`PastCatch`), so the failed mark hits no current row; the
    rows that a commit takes away are replaced by the one it brings.

* `ExternalSync_proofs`: `TypeCorrect`, `RunsOnce` (`OncePerRequest`),
  `ClaimIsHonoured` (`ClaimedMeansRun`), `ExternalImplementsLease` (`LeaseKept`),
  `NothingIsLeft`, `NoneIsSkipped` (`EveryProviderTried`). `ClaimInv` is the heart: of
  the workers that may still write the run row of a request there is one, its claim
  stands, and there is no row yet. `Shape` and `Hold` sum up what any step does to claims and to locks.
  `NoneIsSkipped` follows each worker through its job (`PlaceInv`): the providers
  before the one in hand have their run or a worker about to make it (`Settled`).
  It assumes that the job of a request for several providers is its only one
  (`OneJobPerRequest`: the sync route pushes it so; a manual operation pushes a job
  for each provider).
  `RequestsOnceOnly` (`RequestKept`) is the refinement of `OnceOnly`. A step does one
  of three things to a request's claim, its run and its worker (`Deal`), each a step
  of `OnceOnly` or none; that only a request without a run is taken comes from
  `ClaimInv`, and that the spoilt ones are still claimed from `CutInv`.

* `DailyRefresh_proofs`:
  * `DailyImplementsLease` and `TriggerHolds` (`HeldUnlessLapsed`): the workers' own
    steps are those of `Lease`, the API's leave the lock alone. `TypeCorrect`.
  * `OneAtATime` (`OneScheduledRunAtATime`). `SchedInv`: while all is calm a
    scheduled run that is on is the one some trigger waits for, and that trigger is
    inside; the lock does the rest.
  * `OncePerWorker` (`OneRunPerWorkerAndDay`). `FiredInv`: while all is calm, a day has
    not fired more often than there are workers that remember it as triggered or
    wait for its answer; a worker's day never goes back (`DayInv`).
  * `DependenciesFirst` (`DependenciesHold`) and `OkIsDone` (`OkMeansDone`). `Sound`
    says where a run is in its plan: the jobs before its place have been dealt with,
    those from it on have not, and a job that was run is enabled and had its
    dependencies ok. Those that are ok are therefore closed under dependency, and so contain all that
    each of them needs, however far back. `PlanAssumption`, that the plan lists
    each job once and after its dependencies, is what TLC evaluates on the
    registry's jobs: what a recursive function yields for every registry is beyond
    the prover.
  * `RegistryImplementsGraph` (`RegistryKept`): `runAll` implements `JobGraph`. By
    `Sound`, the job in hand has no result yet, and what it needs, near or far, comes
    before it in the plan and has one. If all direct dependencies are ok, so is all
    the rest, and the job is `Ready`; if one is not, the job may be barred. At the end
    of the plan every job has a result, since the plan has as many entries as there
    are jobs and none twice (`PlanHasAll`).

* `InvestmentPlan_proofs`: `TypeCorrect`, `SeededByOne` (`OneSeeder`),
  `OnePlanActive` (`OneActivePlan`), `PlanStays` (`PlanKept`), `ClosedIsReviewed`
  (`ClosedMeansReviewed`), `VerdictStays` (`ReviewKept`), `LessonLearnt`
  (`LearnedOnce`), `StrategySeededOnce` (`StrategyOnce`). For the last, `SeedingSteps`
  sums up what any step does to the seeding: nothing, or begin it, go on, or stop; by
  `SeedInv`, who finds no strategy finds nobody seeding. `PlanInv`: while
  generations have not overlapped, the one that is about to insert has no active
  plan beside it. `FreshInv`: the rows a generation is still to insert do not exist. `ReviewInv` and `LearnInv`: while reviews have
  not overlapped, what the only review remembers of its outcomes is still so, and
  each outcome has the post-mortem and the lesson that its review has come to.

* `KnowledgeStore_proofs`: `TypeCorrect`, `AckedIsServed` (`AckedOrDegraded`),
  `PromiseHolds` (`PromiseKept`), `StartSpares` (`WipedOnlyBlind`). The properties
  speak of the time between requests; `AckInv` and `PromiseInv` say what is true
  of the four copies at each point inside a request, a rebuild or a start.

Some theorems state what no run checks, because the proof covers every instance:
`LeaseExclusion`, `SyncImplementsLease`, `DailyImplementsLease`,
`CountedOnceByOneWorker`, `ArchivedWhenEmpty`, `ApartByOneWorker`, and the type
correctness of every module.

Only model-checked: liveness (`FreshTokenSynced`, both `SyncingEnds`,
`EventuallySettled`, `FirstReview`, `WaitEnds`: fairness and `ENABLED` are out of
the prover's reach). Nor can the prover do induction over data: what a recursive
definition computes for every input is not proved anywhere.

## 6. What is not modelled

The map of definitions to source lines covers over 4,000 of the 146,000 lines of
the implementation: nearly all of the code that coordinates processes, locks,
queues and tables in several steps. The rest is of these kinds, for which a model
would repeat the code without a behaviour to explore:

* user interface and design: the web application, the UI packages, `.design`;
* data transformation and language model calls of one request: advisor, signals,
  news, markets, trading lab, valuation, the enrichment routes, the quant service;
  where they run concurrently with something, it is through the operation, the
  registry or the plan tables, which are modelled;
* decimal arithmetic over portfolios (finance engine), functions on dates and
  amounts (sync window, gaps, integrity);
* declarations: schemas, contracts, environment, prelude, generated code;
* sequential code of one call: provider policy, authentication, the login counter
  (a key whose `EXPIRE` is lost never runs out, see the hazards), the recovery
  of background runs (one guarded update per kind);
* single-row updates of one request, which the database makes atomic;
* the other schedulers of the worker, which have the tick and the trigger of the
  daily one.

Within the modelled components, what a step imports, computes or displays is left
out, as section 3 says for each.
