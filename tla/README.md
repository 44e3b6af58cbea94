# vwray in TLA+

Formal models of the vwray control plane (`src/server`) and of its node agent
(`vwray-node`), the TLC runs that check them on small instances, and theorems about them
checked by TLAPS for every value of the constants. `PROJECT.json` maps every definition to
the lines it models and lists components, runs, mutants, hazards and theorems. Paths below
are relative to `src/server` unless they begin otherwise.

vwray administers a fleet of WireGuard/Xray gateways: a Next.js process (one or several
replicas) with a PostgreSQL database behind it, browsers in front of it, and one agent per
gateway that registers, sends heartbeats, pulls policy, and reports traffic, sessions and
DNS counts. Handlers are `async` functions that read a row, check it, and write it in a
later statement; few of them use a transaction and hardly any a conditional update. What
goes wrong in this code therefore goes wrong between two statements, between two replicas,
or between a decision in the database and what a gateway or a browser has heard of it. That
is what the models are about.

## Inventory

| Component (source) | State | Operations | Talks to | Hard behaviour | Correct means |
|---|---|---|---|---|---|
| Node lifecycle (`nodes`, `gateway/auth.ts`) | `vpn_node`: status, approval, stored health, heartbeat time, token hash, draining, maintenance | register, create, approve, reject, rotate, revoke, remove, drain, maintenance, heartbeat, health check, stale sweep | agents, console, policies, scheduler, routing | a read and a write in two statements; the sweep works on rows read at its start | revocation is final; ONLINE is earned; a silent node becomes OFFLINE and one that returns recovers |
| Automation scheduler (`automation`) | `automation_job`: lease, next run, enabled | tick, run now, update, release | all jobs | check-then-act lease shared by replicas; a crash with a lease held | overlaps only where the lease was defeated; a job runs again after any failure |
| Devices (`devices`) | `device`: approval, status, blocked, over quota, node | register, approve, reject, block, disconnect, assign | quotas, policy rows, configurations | approval reads outside its transaction | a release releases, a refusal refuses |
| Quota engine (`quota`) | `quota`: used, limit, exceeded | record usage, enforce, set, reset, unblock | devices, sessions, policy rows | concurrent batches; usage committed and enforcement failing | bounded overshoot; a breach is enforced in the end |
| Policy pull (`gateway/policy.ts`, `api/gateway`) | `gateway_policy_state`: state, revision, appliedAt | pull, acknowledge, drift flag | agents | two concurrent queries; one revision for many rows; late acknowledgements | no drift means the newest decision is there |
| Traffic buffer (`traffic/buffer.ts`) | queue in memory; raw, aggregate and optimization tables | queue, flush, requeue | ingest, pages, billing | queueing during a flush; partial failure and retry; replicas; crash | no sample vanishes or counts twice without cause; derived tables follow the raw one |
| Policy engine (`policy`) | policies, execution rows, a guard per process | evaluate, act, edit, override, simulate | devices, nodes, notifications, anomalies | overlapping runs; lost rows; edits during a run | no action before its cooldown; no stuck guard; a simulation tells what a run does |
| Configurations and adapters (`configs`, `vpn`) | configurations, credentials, peers on gateways | generate, revoke, expire, clean up | devices, nodes, gateways | a peer, a transaction and a file that are made one after the other | a file that was handed out works; a revoked one does not |
| Console access (`auth`, `security/api-keys.ts`) | users, sessions, access codes, API keys, failed attempts | bootstrap, log in, touch, change password, create, rotate, revoke | console | limits counted before they are written; sessions touched while they are ended | sessions and guesses are bounded by what is granted |
| Billing, budget, receipts (`billing`, `receipts`) | pricing, budget, cost records, receipts | evaluate, roll over, issue, void, recompute | traffic, events, jobs | prices and periods that change between reads; overlapping evaluations | what is stored is reproducible; a flag is true |
| Events, webhooks, notifications, timeline, anomalies | rows; endpoints; listeners | publish, upsert, deliver, detect, review | everything | writes that nobody awaits | a repetition is counted; an anomaly is announced once |
| Node agent (`vwray-node/src/agent.ts`) | credentials file, status | start, enrol, beat, give up | control plane | lost answers, crashes, 401 for several reasons | a credential is given up only when it was refused; an agent that may serve returns |
| Realtime (`realtime`, `lib/realtime/use-stream.ts`) | rate, ring buffer, streams, hook | observe, tick, stream, pause, retry | gateways, browsers | silence and zero look alike; restarts | what is shown was reported; a browser reconnects |
| DNS filtering, settings (`dns`, `settings`) | counts, lists, rules; settings and their cache | report, edit, clean up; read, save, seed | gateways, console | find-then-create; a read crossing a write | counts add up; settings settle |
| Routing (`routing`) | weights | score, choose | nodes | missing measurements | a worse node never wins |
| Analytics, forecasts, reports, optimization (`analytics`, `forecast`, `reports`, `optimization`, `lib/time.ts`) | none | buckets, periods, projections, breakdowns, comparisons | traffic tables | several granularities, sources and hubs in one table | figures that claim to be sums, shares or measurements are |
| Audit, network discovery, search, export, HTTP shell, libraries, console pages, deployment | append-only, or none | - | - | I/O, rendering | - |

## Modules

A component has a module with its state, one action per statement (or transaction) of its
handlers, and its properties at the end; `MC<Component>` has what TLC's instances need. The
theorems are in eight modules `...Proofs`, of which four are about two components each; where
two modules are extended together, the names of one carry its component's name (`LiveSpec`,
`PolicyNext`, `AlertsTypeOK`). Definitions named `...Mutant` beside a definition are the
same code with a plausible bug; the corresponding property fails with it. What is
reckoned without state is a module of operators, checked by `ASSUME`s in its MC module
against what the figures mean.

Composition is by EXTENDS and INSTANCE: `MCNodeLifecycle` extends `MCRouting` (scores of
the nodes); `DnsFiltering` extends `Settings` (a report reads a setting through the cache);
`Analytics` extends `Forecasts`, which extends `Ledger` (periods, projections and pages over
the rows that are billed); `NodeAgent` implements `Enrolment` by a refinement mapping.

### NodeLifecycle, Routing

`row[n]` is the `vpn_node` row of an installation identity; `id` is the database key, so
that a row removed and created again is told apart. A request in flight (`req`) carries
what its handler read before its last `await`; `UPDATE ... WHERE id` of a row that is gone
is an error (`Finds`). The heartbeat time is an *age* in ticks, saturating once the node
counts as OFFLINE, which keeps the model finite with unbounded time. `DeriveHealth` is
`deriveHealth`; `todo` and `seen` are the sweep's list and the rows it read; `past` is a
history variable: whether the row was ever approved, or marked OFFLINE by the sweep. Tokens
are numbers, 0 the unusable `revoked:` hash. Names, addresses, capacities, audit entries
and notifications are left out. `Eligible` is what route selection asks of a node.

`Routing` is `routing/score.ts`: normalisation of six metrics, the score as their weighted
mean, eligibility, choice, and the weights that an operator saves. A goodness is a whole
number of parts that all divisions of the code divide. `MCRouting` checks that a score is a
mean of what was measured, that an unmeasured metric changes nothing, that only the
proportions of weights matter, that a node which reports a worse figure never wins by it,
and that a choice is never an excluded node.

### AutomationLease

A `runner` is a scheduler tick of some replica or a console request. `runAutomationJob`
is cut into its statements: read and check (`CheckLease`), `WriteLease`, `CreateRun`,
`FinishRun` (the handler), `ReleaseJob`, which clears the lease whoever holds it.
`createAutomationJob` and `ensureDefaultAutomationJobs` stand in `Init`. Times are counted
down to zero. `excuse` is a history variable: the ways in which the lease of a job was
defeated since nobody worked on it. Run rows are abstracted to the step of a runner,
failure counts to the last status. What the handlers do is in the modules of the
components they work on.

### DeviceEnforcement

Ingest, operators, the quota engine, the policy engine's device actions, sessions,
configurations and gateway agents over the `device`, `quota` and `gateway_policy_state`
rows (`row`, by device and node; `NoNode` is a null `nodeId`). A transaction is one step:
each of them updates the device row first, so that row's lock orders the transactions of
a device. What is outside a transaction (`recordUsage`'s reads and increment,
`approveDevice`'s read, `disconnectDevice`'s two statements, the two queries of a pull)
is a step of its own. Bytes are counted in reports. A batch is one report of one device;
larger batches are sequences of these. `SetConfig` summarises what the configuration
service does to a device. The agent (`agent`) that programs a gateway is not in this
repository; it is modelled from the routes: it programs what it pulled. The 80% and 90%
warnings are left out, and so is the session count that `PolicyDisconnect` reads.
`QuotaOvershoot` extends it with the history variable `waived`, the quotas that an operator
has let be overrun, and states how far the others can be.

### TrafficBuffer

Replicas (`Processes`) with a queue each. A flush moves the queue to `batch` and goes
through `createMany` (`StoreRaw`), one transaction of upserts per chunk (`ApplyChunk`),
and for each row with a measured sample a `findFirst` (`FindRecord`) and an absolute
write (`WriteRecord`). A failure requeues the whole batch, `Requeued` being the code's
expression with its overflow branch. Bytes are abstracted to *how often a sample is
counted*, which is what loss and double counting are about; a record keeps for which
aggregate row it counted a sample (`measured[d][r][s]`), so that rows which share a
record, and updates lost between replicas, can be seen. `RowsOf` says in which aggregate
rows `rollup` counts a sample, `RecordOf` which record a row goes to, given the sample it
begins with: the code takes device, owner and node of the record from that sample. The
order of rows is left open. Packet and connection columns, the change of a device's
profile between two flushes, `stopFlusher` (never called) and the test helpers are left
out.

### PolicyEngine

`evaluatePolicies` step by step: the guard of the process, the list of enabled policies,
the targets of each, and for a target that matches the condition the look for a row within
the cooldown, the handler's action and the row that records it. `Measure` sets what an observer
(`metrics.ts`) reads: tables behind it are abstracted to the value they give, including the
absence of one. Operators edit, override, delete and simulate policies and review
anomalies in between. `acted` is a history variable: when a kept decision last acted on a
target. A process dies with its runs and its guard (`ProcessDies`). A handler's own conditions (`AlreadyDone`) and the simulation's table
(`SimulatePolicy`) are translated separately, since the code has both. What the actions do
to sessions and policy rows is in DeviceEnforcement and NodeLifecycle.

### ConfigIssuance

`generateConfig` in three steps (checks and address; the peer on the gateway; the
transaction), revocation, expiry, clean-up, against devices that are blocked or approved,
nodes that go online and offline, and a deployment that has a management interface for a protocol or
has not (`env`). A credential row and its configuration are indexed by `Configs`; addresses
are hosts of the pool, `peers` what a gateway has been told. Rendering and keys are left
out, and so is the rollback, which needs a second version that nothing in the code writes.

### ConsoleAccess

Bootstrap of the owner, logins by password and access code against the ledger of failed
attempts, guarded requests that may touch or expire a session, password changes, access
codes and API keys, each request stopping where the code awaits. Expiry times are counted
down, other times are ages that saturate; the ledger has, for each age, how many attempts
are of that age or less. `used` is a history variable: when a session was
last used, which the row shows to the minute only. `since` and `overtaken` are history too, of a
login and of the session it makes: the number of password changes when the secret was verified,
and the change that came while the login was in flight. Logging out needs no session that is
still admitted. Roles, `enforceRateLimit` (a counter in
memory) and the functions of `auth` that no route calls are left out.

### Ledger, Forecasts, Analytics

`Ledger` has pricing, traffic rows by granularity, cost records, receipts and the budget;
tasks stop at every await of `evaluateBudgets`, the rollover job, `createReceipt` and
`persistCostRecord`. Bytes are whole GB, prices whole units, the clock counts periods; a hash
stands for the payload it is taken of. `announced` counts published warnings.

`Forecasts` has the calendar: buckets, ranges and presets, billing periods, then the cost
projection and the quota forecast, with the rounding of the code. `Analytics` starts at the
rollup of samples into rows for each hub of a sample and reckons the traffic page,
consumers, heatmap, insights, optimization page, profile comparison and reports from the
rows. Neither has state. `MCForecasts` and `MCAnalytics` check over bounded inputs that
buckets and billing periods tile time, that no bucket is billed in two periods, that
projections settle and shares add up, that a cell opens what it shows, and, where a page's
figure differs from what happened, by exactly how much it does (see the disagreements).

### Alerts

Events are published (`Facts`) and handed to subscribers; what these write is not awaited
and is a `task` that is carried out in any order, or fails. Timeline rows are upserted by
key, notifications created unless muted, webhooks posted to every endpoint that was there
when the list was read. Two detection runs read measurements (`DeviceReadings` and others),
look for an open anomaly of the key, create, publish and notify. `told` and `missed` are
history variables: what was asked to be written, and what failed or was lost with the process
(`ServerDies`). An anomaly that the policy engine raises is an event of `Facts`; its key is
another than those of the detection (`AnomalyId`). Audit rows, and frames
that are bridged to browsers, keep no state and are left out.

### NodeAgent, Enrolment

The agent's loop (`step`), its memory and its file, one request at a time, and requests on
the wire that are handled, lost, or answered with the answer lost; a process dies at any
point and a request of a dead process may still be handled. Handlers of the control plane
and of its operators are one step each here; NodeLifecycle has their halves. Of devices a node
knows only whether any are assigned to it (`serves`), in which case it cannot be removed. `Enrolment` is the abstract
specification: an installation holds a credential that was issued to it, and gives it up
only after that one was refused. `NodeAgent` implements it with its file as what is held
(`Promise == INSTANCE Enrolment WITH held <- file`).

### Realtime

Seconds, the bytes since the last tick, the ring buffer, the status that `resolveStatus`
gives, the open streams, and the hook of a browser: its source, its held tick, pause, retry
timer and session. `reported` and `observed` are history variables: when the last report came,
and the bytes of each second. A mock gateway counts only in a development installation (`mockEnabled`),
where frames may say idle without a report until a real feed was seen. `Widest` is the widest
chart window, which the first frame of a stream looks back over; `MaxWindow` is what the buffer
keeps, at least a minute and a margin. Upload and download are one number.

### Settings, DnsFiltering

`Settings` has rows, defaults and the cache of a process, with the operators for its
statements; `DnsFiltering` extends it and lets its tasks stop at each await of the report
route (which reads the assumed size through the cache), of saving and seeding settings, and
of edits of lists and rules. `written`, `healed` and `chosen` are history variables.

## Runs

All end within five minutes with two workers.

| Run | Shows | Bounds, and why they are enough |
|---|---|---|
| `node_life` | `TypeOK`, `OnlineIsEarned`, `RevocationIsFinal`, `RejectionSilences`, `MaintenanceSilences`, `SilentNodeGoesOffline`, `LiveNodeRecovers` | one node (so that no node comes after one whose update throws and ends the sweep), one request in flight against a sweep that never stops, two tokens: each handler's read and write can have a sweep between them. Several requests at a time are covered by the proofs of `OnlineIsEarned` and `RevocationIsFinal` |
| `lease` | `TypeOK`, `LeaseIsShown`, `LeaseExcludes`, `JobKeepsRunning` | one job, two runners, two crashes or errors, two operator changes, a lease and intervals of up to two ticks, so that a lease expires under a run. With two jobs, requests of the console could occupy the two runners for ever, which is the model's limit and not the code's; the theorems cover any number |
| `device_enforcement` | `TypeOK`, `NoForgottenRow`, `RevisionNamesDecision`, `QuietTopIsCurrent`, `BoundedOvershoot`, `HardLimitIsReached` | one device with two places for policy rows (its node and none), its own quota and one of everyone, two batches in flight, an agent, two acts among all operations, one failed enforcement, usage counted to four with limit one, so that an overshoot beyond what is promised would fit |
| `buffer_history` | `TypeOK`, `NoSampleVanishes`, `DerivedNeverAhead`, `CountedOnce`, `SampleSettles` | two replicas, three samples, of which one is unmeasured; a ceiling of two, so that it is reached inside and outside a flush; chunks of one row, so that a flush can fail between two; one failure or crash, besides the collisions that replicas cause themselves. The replica that the first sample is reported to is fixed, as replicas differ in name only |
| `console_access` | `SessionsAreEntitled`, `GuessesBounded`, `LockoutEnds` | one user, two requests, sessions and codes, two password changes, an attempt limit of one in a window of two; idle (one tick) well below absolute expiry (three), so that either can come first. A change can
come between a login's verification and its session. Operators' uses are bounded, which is the sense in which attempts stop |
| `policy_cooldown` | `CooldownHolds`, `GuardIsReleased`, `SimulationAgrees` | two calls in one process, one policy, a device, a node and the system, drafts that between them have every action and operator; the clock may move between any two statements; an edit and a fault |
| `config_issue` | `IssuedIsUsable`, `RevocationCuts` | two requests, two devices, three configurations and two addresses, so that the pool is exhausted and an address comes up again; three edits, one fault |
| `ledger_costs` | `StoredIsReproducible`, `FlagIsTrue`, and the checks of `MCForecasts` and `MCAnalytics` | two tasks, two receipts, two periods, two prices, two currencies, one edit and one crash. Budget and receipts share only the traffic rows and are explored in behaviours of their own |
| `alerts_announce` | `RepetitionIsCounted`, `AnomalyAnnouncedOnce` | two detection runs over one device and one node, two events, an endpoint, two acts or failures: a repetition needs two events, a double announcement two runs |
| `agent_enrol` | `KeepsItsPromise`, `ReturnsOnline` | one agent with and without `NODE_ID`, two acts of operators, two crashes or losses: a lost answer and a crash while enrolling again |
| `realtime_live` | `ShownIsReported`, `Reconnects` | two gateways that can fall silent in turns, one browser, a buffer of two points, so that it overflows within four seconds, and a widest window of one; freshness of two seconds, so that a second without a report can be fresh (its frame says 0 bps and idle) as well as stale; two reports, two acts, a fault |
| `dns_counts` | `CountsAddUp`, `SettingsSettle` | two tasks over two rows and two list names: a blocked and an allowed count, the list that rules make themselves and another; three acts on lists, four on reports, as these need two to collide and one to be retried |

Deadlock is checked, except where the bounds on acts, faults and inputs end a behaviour: the
configurations with `CHECK_DEADLOCK FALSE`. The type invariants of ConfigIssuance,
ConsoleAccess, Ledger, NodeAgent, PolicyEngine and Alerts are proved and no run lists them;
those of Realtime and DnsFiltering are conjuncts of the invariants of their proofs
(`LiveTyped`, `ReportsInv`, `ListsTyped`). The bound on the credentials that NodeAgent draws is above what its other
bounds let a behaviour draw.

## Fairness

- *NodeLifecycle*: weak fairness of starting the sweep and of its next node. The
  scheduler's interval timer keeps starting it (`automation/scheduler.ts`); an update that
  throws ends a sweep, which is a step too. Nothing is assumed of agents, operators or
  time. `LiveNodeRecovers` is conditional on sweeps reaching a node before what they read
  of it has gone stale, as a sweep longer than two staleness windows could mark it OFFLINE
  each time.
- *AutomationLease*: weak fairness of time and of every runner's next statement: the timer
  fires and handlers return. A handler that never returns would be outlived by its lease.
- *DeviceEnforcement*: weak fairness of a batch in progress, strong fairness of a device's
  reports: a device that may send again and again does. Without the latter nothing
  enforces a failed breach, which is the code's design, as only a later report retries it.
- *TrafficBuffer*: weak fairness of the timer's flush and of a flush's next statement: the
  interval timer is installed once and errors are swallowed for its sake, and a statement
  sent to the database returns or fails.
- *ConsoleAccess*: weak fairness of time and of a request's next statement. *PolicyEngine*:
  of a call's next statement. *DnsFiltering*: of a task's next statement, and of the expiry
  of a cache entry, which is a comparison with the clock.
- *NodeAgent*: weak fairness of the agent's next step (its loop has a pause that ends, and
  its supervisor starts it again) and of the handling of requests. Losses are bounded.
- *Realtime*: weak fairness of the retry timer and of the answer to a connection.
- *Ledger*, *ConfigIssuance* and *Alerts* have safety properties only and no fairness.

## Proofs

In eight modules, the type invariants of the components and the properties below, for every
value of the constants: all invariants and action properties that the runs check, and the
refinement. A property is seldom inductive: each proof strengthens it to an
invariant that is, with a lemma or a step for each action, and lemmas of the form "which
steps write this variable" keep the cases few.

- *GatewayProofs*, NodeLifecycle. `OnlineEarned`: `OnlineIsEarned` is not inductive, because a
  status is decided on a row read earlier. The invariant `Earned` says the same of the rows
  (`RowEarned`), of the heartbeats about to write a status (`RequestEarned`) and of the
  sweep's snapshot (`SeenEarned`), each for the row id that was read, so that removal and
  recreation do not carry it over. `RevokedForGood` proves `RevocationIsFinal` by a step
  for each action. `RejectedIsSilent` and `MaintainedIsSilent` are about the steps that
  restart a heartbeat clock: every other step lets it age (`ClockKept`), and a report that
  restarts it was in flight before the step, past its authentication (`ReportOrigin`).
  DnsFiltering, with Settings. `CountsKept`: the invariant (`CountsInv`) has a part for reports
  (`ReportsInv`: a row holds what was written into it, whatever a report that collides or is retried
  still carries) and one for lists (`EditsInv`: an edit that nothing ran beside is the only one,
  and what it has counted is what it will leave, `Due`; a list whose count is claimed to have
  healed is edited by nobody). Edits that overlap do leave a wrong count, which the
  property admits and the next edit repairs.
- *AutomationProofs*, AutomationLease. `LeaseExclusion` and `LeaseShown` prove one invariant: exclusion
  needs that the row shows the lease of whoever runs, and that needs exclusion, since the
  release of another run would clear it.
  PolicyEngine. `CooldownKept` is about a control plane of one process, its hypothesis
  `OneProcess`: the guard of `evaluatePolicies` is a variable of a process, and two replicas
  do act twice. The invariant (`CooldownInv`) says that one run is under way at a time
  (`Guarded`), that a decision to act that was kept has its row, no later than now
  (`ActedHasRow`), and that a run decides at a moment no earlier than any decision that was kept
  and goes on to act only after the cooldown of the last (`Decided`). The row is what the
  cooldown's query finds; another run cannot keep a decision between that query and the
  action, which is what the guard is for. `SimulationAgreed` relates two tables of the code:
  only the handler's first read leads to its write, and what the simulation counts as satisfied
  the handler finds done (but for the drain). `GuardOwned`, for any number of processes: the
  guard is set exactly while one run of its process is under way (`GuardIsOwned`), so that no
  error path leaves it set. It is the safety half of `GuardIsReleased`. `PolicyTypeCorrect` comes
  from the same invariant (`EngineInv`), since a run must be known to be about a target of its
  policy for its writes to keep the rows of the tables.
- *DeviceEnforcementProofs*. `NoRowForgotten` is inductive by itself. `RevisionNames` needs
  that copies come from rows that were decided (`RowsBegun`) and that every step only
  advances the rows: a changed row has a higher revision. `QuietMeansTopCurrent` follows.
  `OvershootBounded`, a theorem of `WatchedSpec`, counts batches. Until a quota is marked
  exceeded, each report at or over its limit belongs to a batch that has the enforcement
  pending (`Pending`) or to one whose enforcement failed. Once it is marked, its device is
  out of quota and no new batch can start to count, so that usage and the batches still
  `Coming` together stay under the bound (`Held`). The turn from the one to the other needs
  that no batch is in both sets (`Batch`), and the cardinality theorems of the library.
- *TrafficProofs*, TrafficBuffer. `NoneVanishes`: the invariant adds what a flush has written so far
  (`ProgressMade`), since its end forgets the batch. `NeverAhead`: the rows a flush has left
  to count are strictly behind the raw table, and the records it has left to write strictly
  behind the rows, also for every record that another replica has read and will write back
  (`Ordered`); this needs that two replicas never hold the same sample (`Apart`).
  `OnlyRetriesRepeat`: a stored sample that no failed batch held is neither queued nor about
  to be stored (`Once`).
  Alerts. `OccurrencesCounted`: the invariant (`OccurrencesInv`) counts what was written under
  a key as what was told, less what is missed and less the marks of the tasks that are under
  way; no two tasks have the same mark (`TasksMarked`), so that only the upsert of a task changes the
  count, and by one, as the row does (`RowsCount`). An event gives at most one row (`OneRowPerEvent`).
  `AnomaliesAnnounced`: whoever is about to announce an anomaly made its row and nobody has
  told of it (`OneAnnouncer`), what was told has its row and was told once (`Announced`); the
  unique key decides between two runs. The policy engine publishes anomalies too, under subjects
  of its own (`ForeignAssumption`). `AlertsTypeCorrect` gives the types, but for the severity
  of a timeline row: that of an anomaly comes out of a concatenation of what the detectors
  found, a recursion over data.
- *ConfigIssuanceProofs*. `IssuedUsable` and `RevokedIsCut` come from one invariant:
  identifiers are drawn in order, each by one request (`Drawn`), so that a store never meets
  the rows of another; a configuration, its credential and the device it is assigned to tell
  of the same device (`Paired`), which is what lets one revocation find all three; and in
  production the gateway of a WireGuard node has been told of the peer that a request is
  about to store (`Told`).
- *ConsoleProofs*, ConsoleAccess. `Entitled`: a session is made in a later statement than the password
  was verified, so the invariant says for whom each request acts (`ActsFor`), that live
  sessions and codes belong to accounts that exist (`Owned`), and that no change of a password
  is later than the password (`Accounts`). A live session is then of a login that was verified after the last
  change or in flight at it, since the transaction of a change ends the other sessions of the user
  (`ChangedMoves`) and the logins in flight carry the number of the change that overtook them
  (`InFlight`). That the
  idle limit is measured from the last use follows from the touch a use leaves behind staying
  until it is written (`TouchStays`). `GuessesLimited`: who guesses has passed the limiter, when
  there were fewer failures than the limit, and a failure that is recorded takes one from those
  who guess (`GuessingNext`, `BadNext`). Time only lowers the count of the window, which needs
  that no more attempts are of an age or less than of the next (`Growing`).
  Realtime. `ShownReported`: the invariant (`LiveInv`) carries freshness along every hand a
  frame goes through (`FreshInv`: no rate is younger than the last report, the feed of the
  last tick had a report behind it, and so had each frame of this moment that a browser shows
  or keeps aside while paused), and describes the ring buffer completely (`ChartInv`: its
  points are the last seconds without a gap, each with the bytes that were reported in it,
  and a second before the first point was shifted out of a full buffer or had no bytes).
- *LedgerProofs*. `StoredReproducible`: what a task carries to its write is already one
  calculation (`Reproducible`), whatever the tables hold by then. `FlagsTrue` (`Founded`):
  budgets are numbered as they are edited, so that a task whose budget was deleted meanwhile
  never takes a later one for it; an event is stored before its flag, and for a period that
  is not before the time of the flag.
- *NodeAgentProofs*. `Keeps` proves `KeepsItsPromise`, that NodeAgent implements `Enrolment`:
  initial states map to initial states (`PromiseInit`) and every step to a step or a stutter
  (`PromiseStep`). The abstract steps are decided by answers given earlier, so the invariant ties
  the agent's memory to its file (`Remembered`), the one request of the running process to
  what it waits for, so that answers to a dead process are never taken for its own (`Asked`),
  an answer to what the control plane has done (`Answered`), and tokens to the order in which
  they are drawn (`Numbered`).

The assumptions are the `ASSUME`s of the modules: bounds are natural numbers, the constants
have their types, the null values are no members of the sets they stand beside, the shared
quota is not a device, inputs have the shape that the validation of the routes gives them
(`DraftsAssumption`, `ReportsAssumption`, `FactsAssumption`, `SwitchesAssumption`), and the
requests that may be in flight are finitely many where they are counted (`IngestsAssumption`,
`RequestsAssumption`). All are evaluated by the runs. Besides them, `CooldownKept` assumes
`OneProcess`. No theorem assumes a bound on the number of nodes, requests, runners, devices,
batches, replicas, samples, users, sessions, configurations, credentials, tasks, receipts,
policies, events, detection runs, gateways, browsers or lists.

Only model-checked, and why:

- every liveness property, `SilentNodeGoesOffline`, `LiveNodeRecovers`, `JobKeepsRunning`,
  `HardLimitIsReached`, `SampleSettles`, `LockoutEnds`, `GuardIsReleased`, `ReturnsOnline`,
  `Reconnects` and `SettingsSettle`: fairness and ENABLED are out of the prover's reach;
- Routing, Forecasts and Analytics: no state, and operators that fold over their data, checked
  over bounded inputs.

## Known disagreements

Where the code does other than a comment, a document or a page says, met while modelling. The
models have the behaviour of the code, and the properties that hold are stated so that they
are true of it; no run reports them as failures.

*Nodes.* A registration or heartbeat that read the row before a revocation overwrites REVOKED
(`nodes/service.ts:235-250`); `RevocationIsFinal` is about what starts afterwards. The sweep
makes a PENDING node ONLINE, and routable, after one outage, against `:553-554`. A second
outage between two sweeps is announced to nobody (`:632`). The console's health check restarts
the heartbeat clock with no agent behind it (`src/app/api/nodes/[id]/route.ts:220`). The health
history's preset "1d" shows seven days and says "1d" (`nodes/health.ts:60`).

*Routing.* The coverage of a score is divided by 100 and not by the sum of the weights, though
it is commented "0-1"; a change of some weights sets the others to their defaults;
`selectNodeForNewSession` has no caller.

*Automation.* `automation/jobs.ts:18-20` says that no job runs twice at once: two runners can
read the lease free before either writes it (`service.ts:219-229`), and a run longer than its
lease is overlapped, where `:208` says that it delays its successor. A failed job waits a whole
interval, where `jobs.ts:21` says that it retries on the next tick.

*Devices, quotas, policy pull.* A node's revision is the maximum over rows with counters of
their own, so a decision below it raises no drift, against `policy/route.ts:17` and
`ARCHITECTURE.md:157`. A rejection writes no policy row (`devices/service.ts:300`); a late
acknowledgement marks a newer decision as applied (`policy/ack/route.ts:52`). An approval writes
back the status it read, QUOTA_EXCEEDED included (`devices/service.ts:235`); two approvals can
exceed `devices.maxApproved` (`:219`). A device disconnected with reconnect blocked is served
when it has no policy row (`policy/actions.ts:133`); unblocking leaves the approval BLOCKED
(`quota/engine.ts:605`); a quota reset flips the row of an operator's block to ACTIVE (`:565`).
A breached shared quota stops the device that crossed it, and no other (`:174`). A quota is
breached from 99.95% on, since percentages are rounded (`src/lib/format/units.ts:160`).

*Traffic.* Unmeasured samples reach the table of measured savings with every row that has one
measured sample, against `traffic/buffer.ts:351-352`. A failed flush with a full buffer drops
what was queued meanwhile (`:333`); the system row and the row of a device without an owner
share a record (`:167-184`, `:373`); an upsert overwrites the connection count that the rollup
takes the maximum of (`:316`).

*Policies.* The guard against overlapping runs is a variable of one process (`engine.ts:543`).
NO_OP and APPLIED share a minute's dedupe key, and the upsert never updates `result` (`:141`).
A row whose write is swallowed has no cooldown. Policies that are disabled or deleted during a
run still act in it. Once an anomaly has been reviewed, CREATE_ANOMALY fails for its target. A
drain's `safeToRestart` comes from a count read before it (`actions.ts:395`), and a drain is
satisfied for the simulation when its handler would still act (`simulate.ts:19`, `actions.ts:557`).
Byte metrics sum the rows of the hour and of the day. Actions lock sessions before the device
row, other writers the other way round (`actions.ts:127`): PostgreSQL aborts one of the two.

*Configurations.* An address of a revoked credential is picked again and refused by the unique
index, so that later WireGuard configurations fail (`configs/service.ts:136`, `:146`). A rollback
needs a second version that nothing writes, though the page says that the previous one is
retained (`configurations/page.tsx:300`) and calls a `/regenerate` route that does not exist. Expiry
overwrites REVOKED. Revoking one configuration takes all credentials of its device. A device
blocked between the check and the transaction still gets a file. No peer is ever removed from
a gateway (`revokeClient` has no caller).

*Console access.* A login that verified its secret before a change of the password creates its session
after it (`auth/service.ts:186`, `:235`), and this session outlives the change, against `:381`, "every live
session of the user is revoked". Attempts are limited by the typed name or code only: every wrong access
code is an identifier of its own (`:266`), and no failed attempt is counted by IP, against `auth/service.ts:32` and
`SECURITY.md:54`. Attempts that are turned away count as failures and prolong the lockout. Two
rotations of one access code leave two live codes (`access-codes.ts:122`), and a revoked code can be
rotated. `setPassword` ends no session. `rate-limit.ts:116` speaks of a sliding window in the ledger
where the limiter is a fixed window in memory. Several functions of `auth` have no route.

*Billing, budget, receipts.* Costs sum the rows of the hour and of the day (`billing/service.ts:187`,
`:193`). "At most once per period" (`budget.ts`) does not hold when evaluations overlap or the period
turns over beside one; `budget.ts:212` names a sweep that does not exist. A cost record that is computed
anew keeps its old currency while its hash covers the new one (`RecordReproducible` says so).
Traffic that was partly measured counts as carried with its measured bytes only. A receipt and the
cost record of its period may differ; a void receipt does not verify. Two edits of the pricing
can lose one (`billing/service.ts:481`).

*Forecasts and analytics.* `etaSeconds` of a quota is a number of hours (`forecast/quota.ts:184`), and
its rate sums hours and days (`:154`). Today's cost has the free quota deducted afresh
(`forecast/cost.ts:56`). Heatmap, breakdowns, consumers, comparison and reports ask for no granularity:
midnight's cell holds the whole day, and a breakdown is twice its series, though `heatmap.ts:74` computes
a granularity and `traffic.ts:150` speaks of hours only. Totals of insights and reports sum every hub
(`insights.ts:115`, `reports/service.ts:139`). "All figures above come from REAL gateway data" is said when
simulated rows are included (`insights.ts:222`). The average can exceed the peak when the last bucket
reaches beyond the range; a heatmap of fewer than five cells has no peak. The comparison of profiles
takes the devices that have the profile now (`benchmark.ts:66`), and with one device both sides are that
device. A report shows nothing saved where the page shows a loss. The overview shows a stored health
that is as old as the last sweep (`analytics/overview.ts:223`).

*Alerts.* Quota warnings and breaches notify twice (`quota/engine.ts:225`, `:237`, `:364`, `:379` and the
subscriber). Seven event names have subscribers and no publisher (`timeline/service.ts:10`). Timeline keys of
quota breaches, node health and drains carry no period, so that a new occurrence joins the old row
(`:46-48`), and a row keeps its first severity. `webhookDeliveredAt` is set whatever was answered; an
endpoint that is disabled during a fan-out is still posted to. The traffic spike compares one hour's
bytes with a day's. The key of a rapid quota never renews after a review.

*Agent.* Without `NODE_ID`, a 401 for any reason deletes the credential and enrols a new identity beside
the old row. NODE_REVOKED at registration is retried for ever. `/ready` fails during each heartbeat; a
request has no timeout; an identity with a dot makes every token malformed (`gateway/auth.ts:44`).

*Realtime.* A tick counts the bytes that arrived in its own second (`aggregator.ts:119-121`, `:137`, `:186`), and
reports can be further apart: between two reports of a busy gateway the frames therefore
say 0 bps and idle, against `aggregator.ts:18`, "only reported when a gateway reported a zero delta", and
`bus.ts:35`, "nobody is transferring"; and a report's bytes are one second's point, against `bus.ts:26`,
"smoothed over the ingest interval", and `ARCHITECTURE.md:109`, which derives the rate from the time
that passed. `ShownIsReported` states what holds instead: the age of the report behind a frame, and the bytes
of each second. A tick repeats the last rate of a gateway that fell silent; `hello` sends the last point only,
against `aggregator.ts:11-12`, and a reconnection charts a second twice. `subscriberCount` counts five
listeners for a stream (`bus.ts:122`). Resuming does not apply the held tick. A session that is dropped keeps its
open stream (`stream/route.ts:19-21`). No page uses the hook.

*Settings, DNS.* A read that crosses a write caches the old value for up to five seconds, against
`settings/service.ts:19`; `getSettings` can give `undefined` for a key that is invalidated meanwhile. The
estimate of bytes saved is written at creation only. A rule without a scope is never found again and is
duplicated; the kind of a rule is lost when the list "custom" was made by the other kind; two first
rules can make two such lists; overlapping edits leave an entry count wrong until the next; two
reports that create one row fail together, and a retried batch counts twice. No gateway is sent a list.

## Not modelled

- The retention jobs of the scheduler, audit rows, listings, search and export: rows that nothing
  decides on.
- Network discovery, the HTTP shell, logging, environment, database client, deployment: I/O and plumbing.
- The console's pages: rendering, but for the realtime hook and the figures of Analytics.
- Rendering of client files and the wire formats of the adapters.
- Explanations of the timeline, which print stored rows with quota before other causes; the
  overview and the node health history.
- Row locks below a transaction, so neither the deadlock between `policy/actions.ts:127` and
  `devices/service.ts`; the exact rounding of percentages in quotas; counters of sessions.

## Plan

1. *Done*: the four core modules with their proofs; the modules of the other components that decide
   something, with their runs; routing, forecasts and analytics as checked operators.
2. *Done*: theorems for every component with state, the refinement of `Enrolment` included: each
   invariant and action property of the runs, and the type invariants.
3. Lemmas about operators without recursion over data: `Normalize`, `BucketStart`, `Eligible`.
4. Abstract specifications: what a lease promises, implemented by AutomationLease where the race is a
   conditional update; a history of samples, each counted or lost, implemented by TrafficBuffer.
5. Counters of sessions and drain; the retention jobs beside the readers of what they delete.
