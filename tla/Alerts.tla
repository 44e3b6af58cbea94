------------------------------ MODULE Alerts ------------------------------
(***************************************************************************)
(* What the control plane tells its operators: domain events and their     *)
(* subscribers, the timeline, notifications and their webhooks, and the    *)
(* anomaly detector (src/server/events, timeline/service.ts,               *)
(* notifications/service.ts, security/detector.ts, webhooks.ts).           *)
(*                                                                         *)
(* An event is handed to its subscribers synchronously; what they write is *)
(* not awaited and happens in any order, or not at all.  Left out are the  *)
(* audit rows of policies and automation, and the frames that are bridged  *)
(* to the browsers, which keep no state.                                   *)
(***************************************************************************)
EXTENDS Integers, FiniteSets, FiniteSetsExt, Sequences, SequencesExt, TLC

CONSTANTS
  Facts,          \* what other components publish: [name, subject, level, amount]
  Devices, Nodes,
  DeviceReadings, NodeReadings, LoginReadings,  \* what a detection run can find measured
  Endpoints,      \* webhook endpoints
  Switches,       \* bound: notification types that operators switch on and off
  Runs,           \* detection runs: the scheduled job's and operators'
  None,
  MaxFacts,       \* bound: events and detection runs after which nothing new begins
  MaxActs         \* bound: what operators do, what goes wrong, what is measured anew, hours that pass

ASSUME AlertBounds == {MaxFacts, MaxActs} \subseteq Nat

VARIABLES
  wired,      \* the process has registered its subscribers
  muted,      \* notification types that operators have switched off
  webhooks,   \* notifications.webhookEnabled
  detecting,  \* security.anomalyDetectionEnabled
  endpoint,   \* [Endpoints -> None or [enabled, events, failures]]
  task,       \* writes that subscribers have begun and nobody waits for
  timeline,   \* connection events by dedupe key: [severity, count]
  notice,     \* notification rows
  anomaly,    \* anomaly rows by dedupe key: [severity, status]
  reading,    \* what the database holds for the detector
  run,        \* [Runs -> what the run is doing]
  hour,       \* the hour of the wall clock
  told,       \* history: timeline writes that subscribers were asked for
  missed,     \* history: those of them that failed or died with the process
  drawn,      \* how many events have been published and detection runs begun
  acts

stored == <<timeline, notice, anomaly>>
settings == <<muted, webhooks, detecting, endpoint>>
alertVars == <<wired, settings, task, stored, reading, run, hour, told, missed, drawn, acts>>

Severities == {"INFO", "MEDIUM", "WARNING", "HIGH", "CRITICAL"}
Types == {"quota.warning", "quota.exceeded", "node.degraded", "node.drain", "budget.threshold", "policy.triggered",
          "anomaly.detected"}

ASSUME SwitchesAssumption == Switches \subseteq Types

\* Events that some component publishes.  The subscribers of seven more never hear one.
Names == {"quota.warning", "quota.exceeded", "node.degraded", "node.draining", "policy.triggered", "receipt.created",
          "budget.threshold", "automation.run", "optimization.completed", "traffic.anomaly"}

\* The payloads: whom an event is about, its severity or threshold, and the amount its key carries.
IsEvent(fact) == fact.name \in Names /\ DOMAIN fact = {"name", "subject", "level", "amount"}

ASSUME FactsAssumption == \A fact \in Facts : IsEvent(fact)

\* Anomalies are announced under their rows' identities.  The policy engine raises some too,
\* with keys of its own.
AnomalyId(key) == <<"detector", key>>
ASSUME ForeignAssumption == \A fact \in Facts : fact.name = "traffic.anomaly" => fact.subject[1] = "policy"

-----------------------------------------------------------------------------
(* Subscribers: what an event becomes in the timeline. *)

Entry(key, severity) == [kind |-> "timeline", key |-> key, severity |-> severity]
Only(e, name, what) == IF e.name = name THEN {what} ELSE {}

QuotaEntries(e) ==
  Only(e, "quota.warning", Entry(<<"QUOTA_WARNING", e.subject, e.level, e.amount>>,
                                 IF e.level = "90" THEN "HIGH" ELSE "MEDIUM"))
  \cup Only(e, "quota.exceeded", Entry(<<"QUOTA_EXCEEDED", e.subject>>, "CRITICAL"))

NodeEntries(e) ==
  Only(e, "node.degraded", Entry(<<"NODE_HEALTH_CHANGED", e.subject>>, "MEDIUM"))
  \cup Only(e, "node.draining",
            IF e.level = "safe" THEN Entry(<<"NODE_DRAIN_COMPLETED", e.subject>>, "INFO")
            ELSE Entry(<<"NODE_DRAIN_STARTED", e.subject>>, "MEDIUM"))

\* The key does not tell a dry run from a suppressed and an applied decision.
PolicyEntries(e) ==
  Only(e, "policy.triggered", Entry(<<"POLICY_TRIGGERED", e.subject, e.amount>>,
                                    IF e.level = "applied" THEN "MEDIUM" ELSE "INFO"))

LedgerEntries(e) ==
  Only(e, "receipt.created", Entry(<<"RECEIPT_CREATED", e.subject>>, "INFO"))
  \cup Only(e, "budget.threshold",
            Entry(<<"BUDGET_THRESHOLD", e.subject, e.level>>,
                  CASE e.level = "100" -> "CRITICAL" [] e.level = "90" -> "HIGH" [] OTHER -> "MEDIUM"))

AutomationEntries(e) ==
  Only(e, "automation.run", Entry(<<"AUTOMATION_RUN", e.subject, e.level>>, IF e.level = "FAILED" THEN "HIGH" ELSE "INFO"))

OptimizationEntries(e) ==
  Only(e, "optimization.completed", Entry(<<"OPTIMIZATION_CHANGED", e.subject, e.level>>, "INFO"))

AnomalyEntries(e) == Only(e, "traffic.anomaly", Entry(<<"ANOMALY_DETECTED", e.subject>>, e.level))

(* Subscribers: the notifications that an event becomes. *)

Notice(type, severity) == [kind |-> "notice", type |-> type, severity |-> severity]

QuotaNotices(e) ==
  Only(e, "quota.warning", Notice("quota.warning", IF e.level = "90" THEN "HIGH" ELSE "WARNING"))
  \cup Only(e, "quota.exceeded", Notice("quota.exceeded", "CRITICAL"))

NodeNotices(e) ==
  Only(e, "node.degraded", Notice("node.degraded", "MEDIUM"))
  \cup Only(e, "node.draining", Notice("node.drain", IF e.level = "safe" THEN "INFO" ELSE "MEDIUM"))

BudgetNotices(e) ==
  Only(e, "budget.threshold",
       Notice("budget.threshold", CASE e.level = "100" -> "CRITICAL" [] e.level = "90" -> "HIGH" [] OTHER -> "WARNING"))

PolicyNotices(e) == IF e.level = "applied" THEN Only(e, "policy.triggered", Notice("policy.triggered", "MEDIUM")) ELSE {}

Reactions(e) ==
  UNION {QuotaEntries(e), NodeEntries(e), PolicyEntries(e), LedgerEntries(e), AutomationEntries(e), OptimizationEntries(e),
         AnomalyEntries(e), QuotaNotices(e), NodeNotices(e), BudgetNotices(e), PolicyNotices(e)}

-----------------------------------------------------------------------------

Idle == [step |-> "idle"]

AlertsInit ==
  /\ wired = FALSE /\ muted = {} /\ webhooks = FALSE /\ detecting = TRUE
  /\ endpoint = [h \in Endpoints |-> [enabled |-> TRUE, events |-> {"*"}, failures |-> 0]]
  /\ task = {} /\ timeline = <<>> /\ notice = {} /\ anomaly = <<>>
  /\ reading \in [device: [Devices -> DeviceReadings \cup {None}], node: [Nodes -> {None}], logins: {0}]
  /\ run = [r \in Runs |-> Idle]
  /\ hour = 0 /\ told = {} /\ missed = {} /\ drawn = 0 /\ acts = 0

Act == acts < MaxActs /\ acts' = acts + 1
Fault == Act

\* The process hands an event to its subscribers.  The first event registers them: where
\* that fails the event has none, and the next one tries again.
Publish(e, own) ==
  LET id == drawn + 1
      begun == {[id |-> <<id, "subscriber">>, work |-> work] : work \in Reactions(e)}
      alone == {[id |-> <<id, "publisher">>, work |-> work] : work \in own} IN
  /\ drawn' = id
  /\ \/ /\ wired' = TRUE
        /\ task' = task \cup begun \cup alone
        /\ told' = told \cup {[id |-> id, key |-> t.work.key] : t \in {b \in begun : b.work.kind = "timeline"}}
        /\ UNCHANGED acts
     \/ /\ ~wired /\ Fault
        /\ task' = task \cup alone
        /\ UNCHANGED <<wired, told>>

\* The quota engine notifies by itself too, after the event.
EngineNotices(e) ==
  Only(e, "quota.warning", Notice("quota.warning", IF e.level = "90" THEN "WARNING" ELSE "INFO"))
  \cup Only(e, "quota.exceeded", Notice("quota.exceeded", "WARNING"))

\* A component publishes what it has done.
Happen(e) ==
  /\ drawn < MaxFacts
  /\ Publish(e, EngineNotices(e))
  /\ UNCHANGED <<settings, stored, reading, run, hour, missed>>

-----------------------------------------------------------------------------
(* What the subscribers write. *)

Done(t) == task' = task \ {t}

\* Mutant: a repetition replaces the row.
UpsertedMutant(entry) == 
  [key \in DOMAIN timeline \cup {entry.key} |->
     IF key = entry.key THEN [severity |-> entry.severity, count |-> 1] ELSE timeline[key]]
\* A repetition counts up and keeps the severity of the first occurrence.
Upserted(entry) ==
  IF entry.key \in DOMAIN timeline
  THEN [timeline EXCEPT ![entry.key].count = @ + 1]
  ELSE [key \in DOMAIN timeline \cup {entry.key} |->
          IF key = entry.key THEN [severity |-> entry.severity, count |-> 1] ELSE timeline[key]]

RecordTimelineEvent(t) ==
  /\ t.work.kind = "timeline"
  /\ Done(t)
  /\ \/ timeline' = Upserted(t.work) /\ UNCHANGED <<missed, acts>>
     \/ Fault /\ missed' = missed \cup {[id |-> t.id[1], key |-> t.work.key]} /\ UNCHANGED timeline
  /\ UNCHANGED <<wired, settings, notice, anomaly, reading, run, hour, told, drawn>>

\* A notification is stored unless its type is muted, and handed on to the webhooks where
\* they are switched on.
Notified(id, work) ==
  notice' = notice \cup {[id |-> id, type |-> work.type, severity |-> work.severity, read |-> FALSE, sent |-> FALSE]}
FanOut(id, work) == IF webhooks THEN {[id |-> id, work |-> [kind |-> "webhook", type |-> work.type, todo |-> None]]} ELSE {}

Notify(t) ==
  /\ t.work.kind = "notice"
  /\ \/ t.work.type \in muted /\ Done(t) /\ UNCHANGED <<notice, acts>>
     \/ /\ t.work.type \notin muted
        /\ Notified(t.id, t.work)
        /\ task' = (task \ {t}) \cup FanOut(t.id, t.work)
        /\ UNCHANGED acts
     \/ Fault /\ Done(t) /\ UNCHANGED notice
  /\ UNCHANGED <<wired, settings, timeline, anomaly, reading, run, hour, told, missed, drawn>>

-----------------------------------------------------------------------------
(* Webhooks. *)

Subscribed(type) ==
  {h \in Endpoints : endpoint[h] # None /\ endpoint[h].enabled /\ (endpoint[h].events = {} \/ endpoint[h].events \cap {type, "*"} # {})}

\* The endpoints are read once, and posted to one after the other.
DispatchWebhooks(t) ==
  /\ t.work.kind = "webhook" /\ t.work.todo = None
  /\ task' = (task \ {t}) \cup {[t EXCEPT !.work.todo = SetToSeq(Subscribed(t.work.type))]}
  /\ UNCHANGED <<wired, settings, stored, reading, run, hour, told, missed, drawn, acts>>

\* The endpoint's row after a delivery; one deleted meanwhile has none.
Delivered(h, ok) ==
  IF endpoint[h] = None THEN endpoint
  ELSE [endpoint EXCEPT ![h].failures = IF ok THEN 0 ELSE @ + 1]

DeliverOne(t) ==
  /\ t.work.kind = "webhook" /\ t.work.todo \notin {None, <<>>}
  /\ task' = (task \ {t}) \cup {[t EXCEPT !.work.todo = Tail(@)]}
  /\ \/ endpoint' = Delivered(Head(t.work.todo), TRUE) /\ UNCHANGED acts
     \/ Fault /\ endpoint' = Delivered(Head(t.work.todo), FALSE)
  /\ UNCHANGED <<wired, muted, webhooks, detecting, stored, reading, run, hour, told, missed, drawn>>

\* Marked as delivered whatever the endpoints answered, and where there is none.
FinishDelivery(t) ==
  /\ t.work.kind = "webhook" /\ t.work.todo = <<>>
  /\ Done(t)
  /\ notice' = {IF row.id = t.id THEN [row EXCEPT !.sent = TRUE] ELSE row : row \in notice}
  /\ UNCHANGED <<wired, settings, timeline, anomaly, reading, run, hour, told, missed, drawn, acts>>

-----------------------------------------------------------------------------
(* Operators. *)

CreateWebhook(h, events) ==
  /\ Act /\ endpoint[h] = None
  /\ endpoint' = [endpoint EXCEPT ![h] = [enabled |-> TRUE, events |-> IF events = {} THEN {"*"} ELSE events, failures |-> 0]]
  /\ UNCHANGED <<muted, webhooks, detecting, notice, anomaly>>
UpdateWebhook(h, events) ==
  /\ Act /\ endpoint[h] # None
  /\ \/ endpoint' = [endpoint EXCEPT ![h].enabled = ~@]
     \/ endpoint' = [endpoint EXCEPT ![h].events = events]
  /\ UNCHANGED <<muted, webhooks, detecting, notice, anomaly>>
DeleteWebhook(h) ==
  /\ Act /\ endpoint[h] # None
  /\ endpoint' = [endpoint EXCEPT ![h] = None]
  /\ UNCHANGED <<muted, webhooks, detecting, notice, anomaly>>
SendTestDelivery(h) ==
  /\ Act /\ endpoint[h] # None
  /\ \E ok \in BOOLEAN : endpoint' = Delivered(h, ok)
  /\ UNCHANGED <<muted, webhooks, detecting, notice, anomaly>>
UpdateSettings ==
  /\ Act
  /\ \/ \E type \in Switches : muted' = (muted \ {type}) \cup ({type} \ muted) /\ UNCHANGED <<webhooks, detecting>>
     \/ webhooks' = ~webhooks /\ UNCHANGED <<muted, detecting>>
     \/ detecting' = ~detecting /\ UNCHANGED <<muted, webhooks>>
  /\ UNCHANGED <<endpoint, notice, anomaly>>
MarkAllRead ==
  /\ Act
  /\ notice' = {[row EXCEPT !.read = TRUE] : row \in notice}
  /\ UNCHANGED <<settings, anomaly>>
ReviewAnomaly(key) ==
  /\ Act
  /\ anomaly' = [anomaly EXCEPT ![key].status = "REVIEWED"]
  /\ UNCHANGED <<settings, notice>>

Operator ==
  /\ \/ \E h \in Endpoints :
          \/ \E events \in {{}, {"anomaly.detected"}} : CreateWebhook(h, events) \/ UpdateWebhook(h, events)
          \/ DeleteWebhook(h) \/ SendTestDelivery(h)
     \/ UpdateSettings \/ MarkAllRead
     \/ \E key \in DOMAIN anomaly : ReviewAnomaly(key)
  /\ UNCHANGED <<wired, task, timeline, reading, run, hour, told, missed, drawn>>

-----------------------------------------------------------------------------
(* The anomaly detector.  Every check yields a candidate or none. *)

\* The settings' defaults, and the volume in megabytes below which a share means nothing.
SpikeFactor == 4
UploadRatioPct == 85
ReconnectCount == 20
MaterialVolume == 50

Candidate(key, severity) == {[key |-> key, severity |-> severity]}

CheckDeviceSpike(d, m) ==
  IF m.recentBuckets < 2 \/ m.baselineBuckets < 2 \/ m.baselineBytes = 0 \/ m.recentBytes < SpikeFactor * m.baselineBytes
  THEN {}
  ELSE Candidate(<<"spike", d, hour>>, IF m.recentBytes >= 2 * SpikeFactor * m.baselineBytes THEN "HIGH" ELSE "MEDIUM")

CheckUploadShare(d, m) ==
  IF m.recentBuckets < 2 \/ m.recentBytes < MaterialVolume \/ 100 * m.upload < UploadRatioPct * m.recentBytes
  THEN {} ELSE Candidate(<<"upload", d, hour>>, "MEDIUM")

CheckReconnects(d, m) ==
  IF m.starts <= ReconnectCount \/ m.recentBytes = 0 THEN {}
  ELSE Candidate(<<"reconnect", d, hour>>, IF m.starts >= 2 * ReconnectCount THEN "HIGH" ELSE "MEDIUM")

\* The newest five reports are not part of the baseline.
CheckConnectionStorm(d, m) ==
  LET rows == m.connections
      older == SubSeq(rows, 6, Len(rows))
      total == FoldSeq(LAMBDA x, y : x + y, 0, older)
      peak == IF rows = <<>> THEN 0 ELSE Max(ToSet(rows))
  IN IF Len(rows) < 3 \/ total = 0 \/ peak < 200 \/ peak * Len(older) < 10 * total THEN {}
     ELSE Candidate(<<"storm", d, hour>>, "HIGH")

CheckRapidQuota(d, m) ==
  LET q == m.quota IN
  IF q = None \/ (q # None /\ (q.elapsed < 1 \/ 2 * q.used <= q.limit \/ q.used * q.period <= 3 * q.limit * q.elapsed))
  THEN {} ELSE Candidate(<<"rapidquota", d>>, IF q.used >= q.limit THEN "HIGH" ELSE "MEDIUM")

CheckNodeBehaviour(n, sample) ==
  IF sample = None \/ (sample # None /\ sample.cpu < 95 /\ sample.ram < 95 /\ sample.loss < 10)
  THEN {} ELSE Candidate(<<"node", n, sample.id>>, "MEDIUM")

CheckAuthFailures(failed) ==
  IF failed < 20 THEN {} ELSE Candidate(<<"auth", hour>>, IF failed >= 100 THEN "HIGH" ELSE "MEDIUM")

\* One after the other in this order; within a kind of subject in any.
DeviceCandidates(d) ==
  LET m == reading.device[d] IN
  IF m = None THEN <<>>
  ELSE FlattenSeq(<<SetToSeq(CheckDeviceSpike(d, m)), SetToSeq(CheckUploadShare(d, m)), SetToSeq(CheckReconnects(d, m)),
                    SetToSeq(CheckConnectionStorm(d, m)), SetToSeq(CheckRapidQuota(d, m))>>)
Candidates ==
  FlattenSeq([i \in 1 .. Cardinality(Devices) |-> DeviceCandidates(SetToSeq(Devices)[i])])
  \o FlattenSeq([i \in 1 .. Cardinality(Nodes) |-> SetToSeq(CheckNodeBehaviour(SetToSeq(Nodes)[i], reading.node[SetToSeq(Nodes)[i]]))])
  \o SetToSeq(CheckAuthFailures(reading.logins))

Turn(r, state) == run' = [run EXCEPT ![r] = state]
NextCandidate(r) == IF Len(run[r].todo) = 1 THEN Idle ELSE [step |-> "look", todo |-> Tail(run[r].todo)]

\* A run measures everything first.
StartDetection(r) ==
  /\ drawn < MaxFacts /\ drawn' = drawn + 1
  /\ detecting /\ run[r] = Idle /\ Candidates # <<>>
  /\ Turn(r, [step |-> "look", todo |-> Candidates])
  /\ UNCHANGED <<wired, settings, task, stored, reading, hour, told, missed, acts>>

LookForAnomaly(r) ==
  LET key == Head(run[r].todo).key IN
  /\ run[r].step = "look"
  /\ Turn(r, IF key \in DOMAIN anomaly /\ anomaly[key].status = "OPEN" THEN NextCandidate(r) ELSE [run[r] EXCEPT !.step = "create"])
  /\ UNCHANGED <<wired, settings, task, stored, reading, hour, told, missed, drawn, acts>>

\* Mutant: the key is not unique.
TakenMutant(key) == FALSE
\* The unique index on the key: it covers the reviewed anomalies, which the look does not.
Taken(key) == key \in DOMAIN anomaly

\* A refused row ends the candidate, not the run.
CreateAnomaly(r) ==
  LET candidate == Head(run[r].todo) IN
  /\ run[r].step = "create"
  /\ \/ /\ ~Taken(candidate.key)
        /\ anomaly' = [key \in DOMAIN anomaly \cup {candidate.key} |->
                       IF key = candidate.key THEN [severity |-> candidate.severity, status |-> "OPEN"] ELSE anomaly[key]]
        /\ Turn(r, [run[r] EXCEPT !.step = "publish"])
        /\ UNCHANGED acts
     \/ /\ Taken(candidate.key) /\ Turn(r, NextCandidate(r)) /\ UNCHANGED <<anomaly, acts>>
     \/ /\ ~Taken(candidate.key) /\ Fault /\ Turn(r, NextCandidate(r)) /\ UNCHANGED anomaly
  /\ UNCHANGED <<wired, settings, task, timeline, notice, reading, hour, told, missed, drawn>>

PublishAnomaly(r) ==
  LET candidate == Head(run[r].todo) IN
  /\ run[r].step = "publish"
  /\ Publish([name |-> "traffic.anomaly", subject |-> AnomalyId(candidate.key), level |-> candidate.severity, amount |-> 0], {})
  /\ Turn(r, [run[r] EXCEPT !.step = "notify"])
  /\ UNCHANGED <<settings, stored, reading, hour, missed>>

\* The run waits for its notification; a failure of it is swallowed.
NotifyAnomaly(r) ==
  LET candidate == Head(run[r].todo)
      id == <<0, candidate.key>>
      work == Notice("anomaly.detected", IF candidate.severity = "HIGH" THEN "CRITICAL" ELSE "WARNING") IN
  /\ run[r].step = "notify"
  /\ Turn(r, NextCandidate(r))
  /\ \/ work.type \in muted /\ UNCHANGED <<notice, task, acts>>
     \/ work.type \notin muted /\ Notified(id, work) /\ task' = task \cup FanOut(id, work) /\ UNCHANGED acts
     \/ Fault /\ UNCHANGED <<notice, task>>
  /\ UNCHANGED <<wired, settings, timeline, anomaly, reading, hour, told, missed, drawn>>

-----------------------------------------------------------------------------
(* Time, what is measured, and a process that dies with all it had begun. *)

Measure ==
  /\ Act
  /\ \/ \E d \in Devices, m \in DeviceReadings \cup {None} : reading' = [reading EXCEPT !.device[d] = m]
     \/ \E n \in Nodes, m \in NodeReadings \cup {None} : reading' = [reading EXCEPT !.node[n] = m]
     \/ \E m \in LoginReadings : reading' = [reading EXCEPT !.logins = m]
  /\ UNCHANGED <<wired, settings, task, stored, run, hour, told, missed, drawn>>

Tick ==
  /\ Act /\ hour' = hour + 1
  /\ UNCHANGED <<wired, settings, task, stored, reading, run, told, missed, drawn>>

ServerDies ==
  /\ Fault
  /\ wired' = FALSE /\ task' = {} /\ run' = [r \in Runs |-> Idle]
  /\ missed' = missed \cup {[id |-> t.id[1], key |-> t.work.key] : t \in {b \in task : b.work.kind = "timeline"}}
  /\ UNCHANGED <<settings, stored, reading, hour, told, drawn>>

Work == \E t \in task :
  RecordTimelineEvent(t) \/ Notify(t) \/ DispatchWebhooks(t) \/ DeliverOne(t) \/ FinishDelivery(t)

AlertsNext ==
  \/ \E e \in Facts : Happen(e)
  \/ Work \/ Operator \/ Measure \/ Tick \/ ServerDies
  \/ \E r \in Runs : StartDetection(r) \/ LookForAnomaly(r) \/ CreateAnomaly(r) \/ PublishAnomaly(r) \/ NotifyAnomaly(r)

AlertsSpec == AlertsInit /\ [][AlertsNext]_alertVars

-----------------------------------------------------------------------------
(* Properties. *)

\* The kinds of state that alerting keeps.  An endpoint has failed no more often than something went wrong.
AlertsTypeOK ==
  /\ {wired, webhooks, detecting} \subseteq BOOLEAN /\ muted \subseteq Types
  /\ endpoint \in [Endpoints -> {None} \cup [enabled : BOOLEAN, events : SUBSET (Types \cup {"*"}), failures : 0 .. acts]]
  /\ \A t \in task :
       \/ t.work.kind \in {"timeline", "webhook"}
       \/ t.work \in [kind : {"notice"}, type : Types, severity : Severities]
  /\ \A key \in DOMAIN timeline : timeline[key].count \in Nat \ {0}
  /\ \A row \in notice :
       /\ DOMAIN row = {"id", "type", "severity", "read", "sent"}
       /\ row.type \in Types /\ row.severity \in Severities /\ {row.read, row.sent} \subseteq BOOLEAN
  /\ \A r \in Runs : run[r].step \in {"idle", "look", "create", "publish", "notify"}
  /\ hour \in 0 .. acts /\ acts \in 0 .. MaxActs

Asked(key) == {w \in told \ missed : w.key = key}
Begun(key) == {t \in task : t.work.kind = "timeline" /\ t.work.key = key}

\* "Repetition is collapsed, not hidden" (timeline/service.ts): however the writes of
\* several events overtake one another, a row counts every occurrence whose write was asked
\* for, but for those still under way and those that failed.
RepetitionIsCounted ==
  \A key \in DOMAIN timeline \cup {w.key : w \in told} :
    Cardinality(Asked(key)) = Cardinality(Begun(key)) + IF key \in DOMAIN timeline THEN timeline[key].count ELSE 0

\* "One flapping subject produces repeated-row suppression" (runAnomalyDetection): two runs
\* at once, or one after the other, announce an anomaly once.
AnomalyAnnouncedOnce ==
  \A key \in DOMAIN anomaly : Cardinality({w \in told : w.key = <<"ANOMALY_DETECTED", AnomalyId(key)>>}) <= 1
=============================================================================
