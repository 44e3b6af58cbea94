---------------------------- MODULE PolicyEngine ----------------------------
(***************************************************************************)
(* The policy engine: policies that pair a condition on a measured metric  *)
(* with one of a closed set of actions, evaluated over their targets by    *)
(* the automation job and by operators, with cooldown, override, dry run   *)
(* and simulation (src/server/policy, the policy routes).                  *)
(*                                                                         *)
(* Each step of an evaluation is one database access; the clock moves      *)
(* between any two of them.  A policy is identified by its priority.       *)
(***************************************************************************)
EXTENDS Integers, FiniteSets, FiniteSetsExt

CONSTANTS
  Evaluators,   \* calls of evaluatePolicies
  Processes,    \* replicas of the control plane
  Home,         \* [Evaluators -> Processes]
  Policies,     \* rows of policy
  Devices, Nodes, System,
  Drafts,       \* what an operator may write into a policy
  Delta,        \* weightDelta of LOWER_NODE_ROUTING_PRIORITY
  Minute,       \* ticks in a bucket of the dedupe key
  None,
  MaxClock,     \* bound: time
  MaxRuns,      \* bound: runs of the engine
  MaxEdits,     \* bound: what operators and traffic do
  MaxFailures     \* bound: failed statements and dead processes

ASSUME HomeAssumption == Home \in [Evaluators -> Processes]
ASSUME PoliciesAssumption == IsFiniteSet(Policies) /\ Policies \subseteq Nat
ASSUME ApartAssumption == Devices \cap Nodes = {} /\ System \notin Devices \cup Nodes
ASSUME PolicyBounds ==
  /\ {Delta, Minute} \subseteq Nat \ {0}
  /\ {MaxClock, MaxRuns, MaxEdits, MaxFailures} \subseteq Nat

VARIABLES
  clock,
  policy,     \* [Policies -> Policy or None]
  rows,       \* policy_execution
  target,     \* [Devices \cup Nodes -> the columns the handlers read and write]
  anomaly,    \* [Policies \X Targets -> None, "OPEN" or "CLOSED"]: rows of their dedupe key
  source,     \* [Targets -> [Metrics -> what the tables hold for a metric of a target]]
  running,    \* [Processes -> BOOLEAN]: the guard of evaluatePolicies
  ev,         \* [Evaluators -> where the call is]
  acted,      \* [Policies \X Targets -> start of the last evaluation that acted and was kept]
  runs, edits, failures

policyVars == <<clock, policy, rows, target, anomaly, source, running, ev, acted, runs, edits, failures>>

Targets == Devices \cup Nodes \cup {System}
Times == 0 .. MaxClock

\* POLICY_METRICS by what they read; the ones left out read as one of these does.
TrafficRates == {"DEVICE_UPLOAD_BYTES_PER_HOUR", "DEVICE_DOWNLOAD_BYTES_PER_HOUR"}
NodeColumns == {"NODE_CPU_PERCENT", "NODE_RAM_PERCENT"}
NodeSamples == {"NODE_PACKET_LOSS_PCT", "NODE_LATENCY_MS"}
DeviceMetrics == TrafficRates \cup {"DEVICE_CONNECTIONS", "DEVICE_RECONNECTS", "DEVICE_BLOCKED"}
NodeMetrics == NodeColumns \cup NodeSamples \cup {"NODE_ACTIVE_SESSIONS"}
Metrics == DeviceMetrics \cup NodeMetrics
           \cup {"QUOTA_PERCENT", "TRAFFIC_SPIKE_FACTOR", "AUTH_FAILURES", "BUDGET_PERCENT"}

\* METRIC_TARGETS.
MetricKinds(metric) ==
  IF metric \in DeviceMetrics THEN {"DEVICE"}
  ELSE IF metric \in NodeMetrics THEN {"NODE"}
  ELSE IF metric = "TRAFFIC_SPIKE_FACTOR" THEN {"DEVICE", "NODE"}
  ELSE IF metric = "AUTH_FAILURES" THEN {"SYSTEM"}
  ELSE {"DEVICE", "NODE", "SYSTEM"}

\* ACTION_CATALOG.
DeviceActions == {"DISCONNECT_SESSION", "BLOCK_DEVICE_RECONNECT",
                  "APPLY_OPTIMIZATION_PROFILE", "SET_DEVICE_SECURITY_REVIEW"}
NodeActions == {"MARK_NODE_DEGRADED", "LOWER_NODE_ROUTING_PRIORITY",
                "STOP_NEW_ASSIGNMENTS", "DRAIN_NODE"}
Notices == {"NOTIFY", "QUOTA_WARNING", "REQUEST_REPORT"}
ActionKinds(action) ==
  IF action \in DeviceActions THEN {"DEVICE"}
  ELSE IF action \in NodeActions THEN {"NODE"}
  ELSE IF action = "CREATE_ANOMALY_EVENT" THEN {"DEVICE", "NODE"}
  ELSE {"DEVICE", "NODE", "SYSTEM"}

DeviceRow == [blocked: BOOLEAN, sessions: 0 .. 1, profile: BOOLEAN, review: BOOLEAN]
NodeRow == [degraded: BOOLEAN, weight: Nat, draining: BOOLEAN, assigning: BOOLEAN, sessions: 0 .. 1]
Draft == [kind: {"DEVICE", "NODE", "SYSTEM"}, metric: Metrics, operator: {"GTE", "GT", "LTE", "LT", "EQ", "NEQ"},
          value: Nat, action: DeviceActions \cup NodeActions \cup Notices \cup {"CREATE_ANOMALY_EVENT"},
          disconnect: BOOLEAN, cooldown: Nat, dryRun: BOOLEAN]
ASSUME DraftsAssumption == Drafts \subseteq Draft

Results == {"UNMEASURABLE", "COOLDOWN", "SUPPRESSED", "FAILED", "APPLIED", "NO_OP"}
Tags == {"UNMEASURABLE", "COOLDOWN", "OVERRIDE", "DRYRUN", "FAILED", "ACTION"}
Execution == [policy: Policies, target: Targets, tag: Tags, bucket: Nat, result: Results, at: Times]
EvaluationSteps == {"idle", "list", "observe", "cooldown", "check", "write", "persist"}

-----------------------------------------------------------------------------
(* Metrics: an observer's number, or None when nothing was measured. *)

\* What a table without a row for the target is to an observer.
Silent == [rows |-> 0]

ObserveQuota(quota) ==
  IF quota = Silent \/ ~quota.enabled \/ quota.limit = 0 THEN None
  ELSE (quota.used * 100) \div quota.limit

\* minSamples is 1.
ObserveRatePerHour(window) == IF window.buckets = 0 THEN None ELSE window.bytes

ObserveSpikeFactor(recent, baseline) ==
  IF recent.buckets = 0 \/ baseline.buckets = 0 \/ baseline.bytes = 0 THEN None
  ELSE recent.bytes \div baseline.bytes

ObserveConnections(reported) == IF reported = {} THEN None ELSE Max(reported)

ObserveReconnects(window) ==
  IF window.sessions = 0 /\ window.activity = 0 THEN None ELSE window.sessions

ObserveAuthFailures(failed) == failed

\* The columns of the node's row; what has never been reported is null.
ObserveNodeColumn(column) == column
\* The latest sample in the window.
ObserveNodeSample(sample) == IF sample = Silent THEN None ELSE sample.figure

ObserveDeviceState(row) == IF row.blocked THEN 100 ELSE 0

ObserveBudget(consumption) == IF consumption = Silent THEN None ELSE consumption.percent

ObserveMetric(metric, t) ==
  LET held == source[t][metric] IN
  CASE metric = "QUOTA_PERCENT" -> ObserveQuota(held)
    [] metric \in TrafficRates -> ObserveRatePerHour(held)
    [] metric = "TRAFFIC_SPIKE_FACTOR" -> ObserveSpikeFactor(held.recent, held.baseline)
    [] metric = "DEVICE_CONNECTIONS" -> ObserveConnections(held)
    [] metric = "DEVICE_RECONNECTS" -> ObserveReconnects(held)
    [] metric = "AUTH_FAILURES" -> ObserveAuthFailures(held)
    [] metric \in NodeColumns -> ObserveNodeColumn(held)
    [] metric \in NodeSamples -> ObserveNodeSample(held)
    [] metric = "NODE_ACTIVE_SESSIONS" -> ObserveNodeColumn(held)
    [] metric = "DEVICE_BLOCKED" -> ObserveDeviceState(target[t])
    [] metric = "BUDGET_PERCENT" -> ObserveBudget(held)

Compare(observed, operator, threshold) ==
  CASE operator = "GTE" -> observed >= threshold
    [] operator = "GT" -> observed > threshold
    [] operator = "LTE" -> observed <= threshold
    [] operator = "LT" -> observed < threshold
    [] operator = "EQ" -> observed = threshold
    [] operator = "NEQ" -> observed # threshold

TargetsForPolicy(kind) ==
  CASE kind = "DEVICE" -> Devices [] kind = "NODE" -> Nodes [] kind = "SYSTEM" -> {System}

\* What the tables may hold for a metric: nothing, a null, or a figure on either side of
\* the threshold.  For the metrics that are read off the targets' own rows, nothing.
Window == [buckets: 0 .. 1, bytes: 0 .. 1]
Sources(metric) ==
  CASE metric = "QUOTA_PERCENT" -> {Silent} \cup [enabled: BOOLEAN, used: {1, 2}, limit: {0, 2}]
    [] metric \in TrafficRates -> Window
    [] metric = "TRAFFIC_SPIKE_FACTOR" -> [recent: Window, baseline: Window]
    [] metric = "DEVICE_CONNECTIONS" -> SUBSET {1, 2}
    [] metric = "DEVICE_RECONNECTS" -> [sessions: 0 .. 1, activity: 0 .. 1]
    [] metric = "AUTH_FAILURES" -> 0 .. 1
    [] metric \in NodeColumns -> {None, 0, 1}
    [] metric = "NODE_ACTIVE_SESSIONS" -> 0 .. 1
    [] metric \in NodeSamples -> {Silent} \cup [figure: {None, 0, 1}]
    [] metric = "BUDGET_PERCENT" -> {Silent} \cup [percent: {None, 100}]
    [] OTHER -> {Silent}

-----------------------------------------------------------------------------
(* Actions: what makes a handler a no-op, and what it writes. *)

Lowered(weight) == IF weight > Delta THEN weight - Delta ELSE 0

\* Mutant: a blocked device counts as blocked only once its sessions are closed.
AlreadyDoneMutant(p, action, t) ==
  CASE action = "DISCONNECT_SESSION" -> target[t].sessions = 0
    [] action = "BLOCK_DEVICE_RECONNECT" -> target[t].blocked /\ target[t].sessions = 0
    [] action = "DRAIN_NODE" -> target[t].draining /\ target[t].sessions = 0
    [] action = "CREATE_ANOMALY_EVENT" -> anomaly[p, t] = "OPEN"
    [] OTHER -> FALSE
\* The first read of each handler finds its work done.
AlreadyDone(p, action, t) ==
  CASE action = "DISCONNECT_SESSION" -> target[t].sessions = 0
    [] action = "BLOCK_DEVICE_RECONNECT" -> target[t].blocked
    [] action = "APPLY_OPTIMIZATION_PROFILE" -> target[t].profile
    [] action = "SET_DEVICE_SECURITY_REVIEW" -> target[t].review
    [] action = "MARK_NODE_DEGRADED" -> target[t].degraded
    [] action = "LOWER_NODE_ROUTING_PRIORITY" -> Lowered(target[t].weight) = target[t].weight
    [] action = "STOP_NEW_ASSIGNMENTS" -> ~target[t].assigning
    [] action = "DRAIN_NODE" -> target[t].draining /\ target[t].sessions = 0
    [] action = "CREATE_ANOMALY_EVENT" -> anomaly[p, t] = "OPEN"
    [] OTHER -> FALSE

DisconnectSession(row) == [row EXCEPT !.sessions = 0]
BlockReconnect(row) == [row EXCEPT !.blocked = TRUE, !.sessions = 0]
ApplyOptimization(row) == [row EXCEPT !.profile = TRUE]
SecurityReview(row) == [row EXCEPT !.review = TRUE]
MarkNodeDegraded(row) == [row EXCEPT !.degraded = TRUE]
\* The weight is written as computed from the one read.
LowerRoutingPriority(row, read) == [row EXCEPT !.weight = Lowered(read.weight)]
StopNewAssignments(row) == [row EXCEPT !.assigning = FALSE]
DrainNode(row, read, disconnect) ==
  [row EXCEPT !.draining = TRUE, !.assigning = FALSE,
              !.sessions = IF disconnect /\ read.sessions > 0 THEN 0 ELSE @]

Written(action, row, read, disconnect) ==
  CASE action = "DISCONNECT_SESSION" -> DisconnectSession(row)
    [] action = "BLOCK_DEVICE_RECONNECT" -> BlockReconnect(row)
    [] action = "APPLY_OPTIMIZATION_PROFILE" -> ApplyOptimization(row)
    [] action = "SET_DEVICE_SECURITY_REVIEW" -> SecurityReview(row)
    [] action = "MARK_NODE_DEGRADED" -> MarkNodeDegraded(row)
    [] action = "LOWER_NODE_ROUTING_PRIORITY" -> LowerRoutingPriority(row, read)
    [] action = "STOP_NEW_ASSIGNMENTS" -> StopNewAssignments(row)
    [] action = "DRAIN_NODE" -> DrainNode(row, read, disconnect)
    [] OTHER -> row

\* isAlreadySatisfied, for the simulation.  It looks for the anomaly of a draft, which
\* no handler writes.
IsAlreadySatisfied(action, t) ==
  CASE action = "DISCONNECT_SESSION" -> target[t].sessions = 0
    [] action = "BLOCK_DEVICE_RECONNECT" -> target[t].blocked
    [] action = "APPLY_OPTIMIZATION_PROFILE" -> target[t].profile
    [] action = "SET_DEVICE_SECURITY_REVIEW" -> target[t].review
    [] action = "MARK_NODE_DEGRADED" -> target[t].degraded
    [] action = "STOP_NEW_ASSIGNMENTS" -> ~target[t].assigning
    [] action = "DRAIN_NODE" -> target[t].draining
    [] OTHER -> FALSE

\* The matched targets of a simulation that it reports as already satisfied.
SimulatePolicy(row) ==
  {t \in TargetsForPolicy(row.kind) :
     LET observed == ObserveMetric(row.metric, t) IN
     /\ observed # None
     /\ Compare(observed, row.operator, row.value)
     /\ IsAlreadySatisfied(row.action, t)}

-----------------------------------------------------------------------------

Idle == [step |-> "idle"]

Validate(draft) ==
  draft.kind \in MetricKinds(draft.metric) \cap ActionKinds(draft.action)

NewPolicy(draft) == [draft |-> draft, enabled |-> TRUE, override |-> None]

PolicyInit ==
  /\ clock = 0
  /\ policy \in [Policies -> {NewPolicy(draft) : draft \in {d \in Drafts : Validate(d)}}]
  /\ rows = {}
  /\ target = [t \in Devices \cup Nodes |->
                 IF t \in Devices
                 THEN [blocked |-> FALSE, sessions |-> 1, profile |-> FALSE, review |-> FALSE]
                 ELSE [degraded |-> FALSE, weight |-> Delta, draining |-> FALSE, assigning |-> TRUE, sessions |-> 1]]
  /\ anomaly = [k \in Policies \X Targets |-> None]
  /\ \E p \in Policies : \E held \in Sources(policy[p].draft.metric) :
       source = [t \in Targets |-> [m \in Metrics |->
                   IF m = policy[p].draft.metric THEN held ELSE CHOOSE s \in Sources(m) : TRUE]]
  /\ running = [h \in Processes |-> FALSE]
  /\ ev = [e \in Evaluators |-> Idle]
  /\ acted = [k \in Policies \X Targets |-> None]
  /\ runs = 0 /\ edits = 0 /\ failures = 0

ClockTick ==
  /\ clock < MaxClock
  /\ clock' = clock + 1
  /\ UNCHANGED <<policy, rows, target, anomaly, source, running, ev, acted, runs, edits, failures>>

Edit == edits < MaxEdits /\ edits' = edits + 1
Fault == failures < MaxFailures /\ failures' = failures + 1

\* Measurements of the metrics that some policy asks for.
Measure(t, metric, held) ==
  /\ Edit
  /\ \E p \in Policies : /\ policy[p] # None
                         /\ policy[p].draft.metric = metric
                         /\ t \in TargetsForPolicy(policy[p].draft.kind)
  /\ source' = [source EXCEPT ![t] = [@ EXCEPT ![metric] = held]]
  /\ UNCHANGED <<clock, policy, rows, target, anomaly, running, ev, acted, runs, failures>>

\* Sessions open and close, and operators and heartbeats undo what a policy did.
ChangeTarget(t) ==
  /\ Edit
  /\ \E row \in IF t \in Devices
                THEN {[target[t] EXCEPT !.sessions = 1 - @], [target[t] EXCEPT !.blocked = ~@]}
                ELSE {[target[t] EXCEPT !.sessions = 1 - @],
                      [target[t] EXCEPT !.draining = FALSE, !.assigning = TRUE],
                      [target[t] EXCEPT !.degraded = FALSE], [target[t] EXCEPT !.weight = Delta]} :
       target' = [target EXCEPT ![t] = row]
  /\ UNCHANGED <<clock, policy, rows, anomaly, source, running, ev, acted, runs, failures>>

ReviewAnomaly(k) ==
  /\ Edit
  /\ anomaly[k] # None
  /\ anomaly' = [anomaly EXCEPT ![k] = "CLOSED"]
  /\ UNCHANGED <<clock, policy, rows, target, source, running, ev, acted, runs, failures>>

\* Bound: an update keeps the metric and the kind of target.
UpdatePolicy(p, draft, enabled) ==
  /\ Edit
  /\ policy[p] # None
  /\ draft.kind = policy[p].draft.kind /\ draft.metric = policy[p].draft.metric
  /\ Validate(draft)
  /\ policy' = [policy EXCEPT ![p] = [@ EXCEPT !.draft = draft, !.enabled = enabled]]
  /\ UNCHANGED <<clock, rows, target, anomaly, source, running, ev, acted, runs, failures>>

SetPolicyOverride(p, until) ==
  /\ Edit
  /\ policy[p] # None
  /\ policy' = [policy EXCEPT ![p] = [@ EXCEPT !.override = until]]
  /\ UNCHANGED <<clock, rows, target, anomaly, source, running, ev, acted, runs, failures>>

\* Its executions go with it.
DeletePolicy(p) ==
  /\ Edit
  /\ policy[p] # None
  /\ policy' = [policy EXCEPT ![p] = None]
  /\ rows' = {x \in rows : x.policy # p}
  /\ acted' = [k \in DOMAIN acted |-> IF k[1] = p THEN None ELSE acted[k]]
  /\ UNCHANGED <<clock, target, anomaly, source, running, ev, runs, failures>>

-----------------------------------------------------------------------------
(* A run of the engine. *)

Move(e, state) == ev' = [ev EXCEPT ![e] = state]

\* Mutant: a run that ends at its listing leaves the guard set.
ReleaseMutant(e) ==
  /\ Move(e, Idle)
  /\ running' = [running EXCEPT ![Home[e]] = ev[e].step = "list"]
\* The finally clause.
Release(e) ==
  /\ Move(e, Idle)
  /\ running' = [running EXCEPT ![Home[e]] = FALSE]

\* Mutant: nothing keeps runs apart.
StartRunMutant(e) ==
  /\ ev[e] = Idle
  /\ runs < MaxRuns
  /\ runs' = runs + 1
  /\ running' = [running EXCEPT ![Home[e]] = TRUE]
  /\ Move(e, [step |-> "list"])
  /\ UNCHANGED <<clock, policy, rows, target, anomaly, source, acted, edits, failures>>
\* A second run in the process is refused.
StartRun(e) ==
  /\ ev[e] = Idle
  /\ runs < MaxRuns
  /\ ~running[Home[e]]
  /\ runs' = runs + 1
  /\ running' = [running EXCEPT ![Home[e]] = TRUE]
  /\ Move(e, [step |-> "list"])
  /\ UNCHANGED <<clock, policy, rows, target, anomaly, source, acted, edits, failures>>

\* The pairs of a policy's row and a target that a run has before it, by priority.
Work(listed) == UNION {{<<p, t>> : t \in TargetsForPolicy(listed[p].draft.kind)} : p \in DOMAIN listed}
First(todo) == {k \in todo : \A other \in todo : k[1] <= other[1]}

\* Goes on with a pair of the first policy that has one left, or ends the run.
Continue(e, listed, todo) ==
  IF todo = {}
  THEN Release(e)
  ELSE /\ \E k \in First(todo) :
            Move(e, [step |-> "observe", listed |-> listed, todo |-> todo, at |-> k,
                     now |-> None, read |-> None, result |-> None])
       /\ UNCHANGED running

\* The enabled policies, as they are now.
ListPolicies(e) ==
  LET listed == [p \in {q \in Policies : policy[q] # None /\ policy[q].enabled} |-> policy[p]] IN
  /\ ev[e].step = "list"
  /\ Continue(e, listed, Work(listed))
  /\ UNCHANGED <<clock, policy, rows, target, anomaly, source, acted, runs, edits, failures>>

\* evaluatePolicy goes on with the next target, whatever became of this one.
NextTarget(e) == Continue(e, ev[e].listed, ev[e].todo \ {ev[e].at})

MinuteBucket(now) == now \div Minute

\* persistExecution: the row of the key is kept with its result, but for the time; a
\* policy that is gone has no row.
PersistExecution(e, tag, bucket, result, now) ==
  LET p == ev[e].at[1]
      t == ev[e].at[2]
      old == {x \in rows : x.policy = p /\ x.target = t /\ x.tag = tag /\ x.bucket = bucket}
      kept == IF old = {} THEN result ELSE (CHOOSE x \in old : TRUE).result
  IN rows' = IF policy[p] = None THEN rows
             ELSE (rows \ old) \cup {[policy |-> p, target |-> t, tag |-> tag,
                                      bucket |-> bucket, result |-> kept, at |-> now]}

\* What an evaluation is about: the policy as it was listed.
Row(e) == ev[e].listed[ev[e].at[1]]

\* evaluatePolicyTarget up to the cooldown, which neither an override nor a dry run asks for.
EvaluateTarget(e) ==
  LET row == Row(e)
      observed == ObserveMetric(row.draft.metric, ev[e].at[2])
      Keep(tag, bucket, result) == PersistExecution(e, tag, bucket, result, clock) /\ NextTarget(e)
  IN
  /\ ev[e].step = "observe"
  /\ \/ observed = None /\ Keep("UNMEASURABLE", 0, "UNMEASURABLE")
     \/ /\ observed # None
        /\ ~Compare(observed, row.draft.operator, row.draft.value)
        /\ NextTarget(e) /\ UNCHANGED rows
     \/ /\ observed # None
        /\ Compare(observed, row.draft.operator, row.draft.value)
        /\ IF row.override # None /\ row.override > clock
           THEN Keep("OVERRIDE", MinuteBucket(clock), "SUPPRESSED")
           ELSE IF row.draft.dryRun
           THEN Keep("DRYRUN", MinuteBucket(clock), "SUPPRESSED")
           ELSE /\ Move(e, [ev[e] EXCEPT !.step = "cooldown", !.now = clock])
                /\ UNCHANGED <<rows, running>>
  /\ UNCHANGED <<clock, policy, target, anomaly, source, acted, runs, edits, failures>>

\* The latest row of an action within the window.  Rows of this tick were written before
\* the evaluation began.
Recent(e) ==
  {x \in rows : /\ <<x.policy, x.target>> = ev[e].at
                /\ x.result \in {"APPLIED", "NO_OP"}
                /\ x.at <= ev[e].now
                /\ ev[e].now - x.at < Row(e).draft.cooldown}

CooldownActive(e) == Recent(e) # {}

CheckCooldown(e) ==
  /\ ev[e].step = "cooldown"
  /\ IF CooldownActive(e)
     THEN /\ PersistExecution(e, "COOLDOWN", MinuteBucket(ev[e].now), "COOLDOWN", ev[e].now)
          /\ NextTarget(e)
     ELSE Move(e, [ev[e] EXCEPT !.step = "check"]) /\ UNCHANGED <<rows, running>>
  /\ UNCHANGED <<clock, policy, target, anomaly, source, acted, runs, edits, failures>>

\* What the handler reads first.
CheckAction(e) ==
  LET t == ev[e].at[2] IN
  /\ ev[e].step = "check"
  /\ Move(e, IF AlreadyDone(ev[e].at[1], Row(e).draft.action, t)
             THEN [ev[e] EXCEPT !.step = "persist", !.result = "NO_OP"]
             ELSE [ev[e] EXCEPT !.step = "write", !.read = IF t = System THEN None ELSE target[t]])
  /\ UNCHANGED <<clock, policy, rows, target, anomaly, source, running, acted, runs, edits, failures>>

Refuse(e) ==
  /\ PersistExecution(e, "FAILED", MinuteBucket(ev[e].now), "FAILED", ev[e].now)
  /\ NextTarget(e)
  /\ UNCHANGED <<target, anomaly>>

\* What it writes.  An anomaly's key is unique whether or not the row is open.
WriteAction(e) ==
  LET k == ev[e].at
      draft == Row(e).draft IN
  /\ ev[e].step = "write"
  /\ IF draft.action = "CREATE_ANOMALY_EVENT" /\ anomaly[k] # None
     THEN Refuse(e)
     ELSE /\ Move(e, [ev[e] EXCEPT !.step = "persist", !.result = "APPLIED"])
          /\ target' = IF k[2] = System THEN target
                       ELSE [target EXCEPT ![k[2]] = Written(draft.action, @, ev[e].read, draft.disconnect)]
          /\ anomaly' = IF draft.action = "CREATE_ANOMALY_EVENT"
                        THEN [anomaly EXCEPT ![k] = "OPEN"] ELSE anomaly
          /\ UNCHANGED <<rows, running>>
  /\ UNCHANGED <<clock, policy, source, acted, runs, edits, failures>>

\* The decision's row.  The policy's own row is updated after it: gone, that fails, and the
\* next target is taken up all the same.
Persist(e) ==
  /\ ev[e].step = "persist"
  /\ PersistExecution(e, "ACTION", MinuteBucket(ev[e].now), ev[e].result, ev[e].now)
  /\ acted' = IF policy[ev[e].at[1]] = None THEN acted
              ELSE [acted EXCEPT ![ev[e].at] = ev[e].now]
  /\ NextTarget(e)
  /\ UNCHANGED <<clock, policy, target, anomaly, source, runs, edits, failures>>

\* A failed statement: of the listing, of a policy's targets, of an observation or the
\* cooldown's, of the handler, of the row, which is only logged.
FailRun(e) ==
  /\ Fault
  /\ ev[e].step \in {"list", "observe"}
  /\ Release(e)
  /\ UNCHANGED <<clock, policy, rows, target, anomaly, source, acted, runs, edits>>

FailTarget(e) ==
  /\ Fault
  /\ ev[e].step \in {"observe", "cooldown"}
  /\ NextTarget(e)
  /\ UNCHANGED <<clock, policy, rows, target, anomaly, source, acted, runs, edits>>

FailAction(e) ==
  /\ Fault
  /\ ev[e].step \in {"check", "write"}
  /\ Refuse(e)
  /\ UNCHANGED <<clock, policy, source, acted, runs, edits>>

LoseRow(e) ==
  /\ Fault
  /\ ev[e].step = "persist"
  /\ NextTarget(e)
  /\ UNCHANGED <<clock, policy, rows, target, anomaly, source, acted, runs, edits>>

\* The process dies with its runs and its guard.
ProcessDies(h) ==
  /\ Fault
  /\ ev' = [e \in Evaluators |-> IF Home[e] = h THEN Idle ELSE ev[e]]
  /\ running' = [running EXCEPT ![h] = FALSE]
  /\ UNCHANGED <<clock, policy, rows, target, anomaly, source, acted, runs, edits>>

Proceed(e) ==
  \/ ListPolicies(e) \/ EvaluateTarget(e) \/ CheckCooldown(e)
  \/ CheckAction(e) \/ WriteAction(e) \/ Persist(e)

PolicyNext ==
  \/ ClockTick
  \/ \E t \in Targets, metric \in Metrics : \E held \in Sources(metric) : Measure(t, metric, held)
  \/ \E t \in Devices \cup Nodes : ChangeTarget(t)
  \/ \E k \in Policies \X Targets : ReviewAnomaly(k)
  \/ \E p \in Policies :
       \/ \E draft \in Drafts, enabled \in BOOLEAN : UpdatePolicy(p, draft, enabled)
       \/ \E until \in {None} \cup (clock + 1 .. MaxClock) : SetPolicyOverride(p, until)
       \/ DeletePolicy(p)
  \/ \E e \in Evaluators :
       StartRun(e) \/ Proceed(e) \/ FailRun(e) \/ FailTarget(e) \/ FailAction(e) \/ LoseRow(e)
  \/ \E h \in Processes : ProcessDies(h)

\* A call that is under way goes on: the statements it awaits are answered.
Fairness == \A e \in Evaluators : WF_policyVars(Proceed(e))

PolicySpec == PolicyInit /\ [][PolicyNext]_policyVars /\ Fairness

-----------------------------------------------------------------------------
(* Properties. *)

\* The kinds of state the engine keeps and works on.
PolicyTypeOK ==
  /\ clock \in Times
  /\ policy \in [Policies -> {None} \cup [draft: Draft, enabled: BOOLEAN, override: Times \cup {None}]]
  /\ rows \subseteq Execution
  /\ DOMAIN target = Devices \cup Nodes
  /\ \A t \in Devices : target[t] \in DeviceRow
  /\ \A t \in Nodes : target[t] \in NodeRow
  /\ anomaly \in [Policies \X Targets -> {None, "OPEN", "CLOSED"}]
  /\ DOMAIN source = Targets
  /\ \A t \in Targets : DOMAIN source[t] = Metrics /\ \A metric \in Metrics : source[t][metric] \in Sources(metric)
  /\ running \in [Processes -> BOOLEAN]
  /\ DOMAIN ev = Evaluators /\ \A e \in Evaluators : ev[e].step \in EvaluationSteps
  /\ acted \in [Policies \X Targets -> Times \cup {None}]
  /\ <<runs, edits, failures>> \in (0 .. MaxRuns) \X (0 .. MaxEdits) \X (0 .. MaxFailures)

\* "An operator-triggered evaluate now could otherwise double-apply an action before the
\* cooldown row exists" (evaluatePolicies): of one policy on one target, a decision to act
\* that was kept is followed by no other before the cooldown has run out, whatever becomes
\* of the policy, the clock, the runs and the process in between.
CooldownHolds ==
  [][\A e \in Evaluators :
       LET k == ev[e].at IN
       ev[e].step = "check" /\ ev'[e].step \in {"write", "persist"} /\ acted[k] # None
         => ev[e].now - acted[k] >= Row(e).draft.cooldown]_policyVars

\* The guard of a process is never left set: a run that throws, loses a statement or finds
\* its policy gone still ends, and the next one may start.
GuardIsReleased == \A h \in Processes : running[h] ~> ~running[h]

\* "The live engine reports the same thing as a NO_OP" (simulate.ts:19): the engine goes on
\* to write to no target that a simulation of the same policy would, at that moment, count
\* as already satisfied.  Two tables of the code decide this, one beside the handlers and
\* one in them.  They disagree on a drain (IsAlreadySatisfied asks for the flag alone, the
\* handler for no open session as well), which the property leaves out.
SimulationAgrees ==
  [][\A e \in Evaluators :
       ev[e].step = "check" /\ ev'[e].step = "write" /\ Row(e).draft.action # "DRAIN_NODE"
         => ev[e].at[2] \notin SimulatePolicy(Row(e).draft)]_policyVars
=============================================================================
