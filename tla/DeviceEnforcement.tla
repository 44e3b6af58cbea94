-------------------------- MODULE DeviceEnforcement --------------------------
(***************************************************************************)
(* Who may use the VPN, decided and carried to the gateway: traffic ingest *)
(* counts bytes against quotas and enforces the hard limit, operators and  *)
(* the policy engine approve, block, release and move devices, and gateway *)
(* agents pull the verdicts and acknowledge them (src/server/quota/        *)
(* engine.ts, devices/service.ts, policy/actions.ts, traffic/collector.ts, *)
(* gateway/policy.ts, app/api/gateway/policy).                             *)
(*                                                                         *)
(* A transaction is one step: each one that decides about a device updates *)
(* the device row before it reads the policy rows, so the lock on that row *)
(* orders them.  Statements outside a transaction are steps of their own.  *)
(* Bytes are counted in units of one report, which carries one device.     *)
(***************************************************************************)
EXTENDS Integers, FiniteSets

CONSTANTS
  Devices, Nodes,
  NoDevice, NoNode,   \* a null reference
  Shared,             \* a quota that covers every device (scope SYSTEM, NODE, ...)
  Quotas,             \* the quotas that may exist: a device's own, or Shared
  Limits,             \* limits an operator may set, in reports; 0 never breaches
  Ingests,            \* traffic batches the process handles at once
  Operators,          \* console requests the process handles at once
  Agents,             \* nodes whose gateway agent pulls policy
  Operations,         \* the operations this instance lets happen
  PrivateMode,        \* auth.privateMode: new devices wait for approval
  MaxApproved,        \* devices.maxApproved
  MaxUsed,            \* bound: a quota's usage is counted up to this
  MaxActs,            \* bound: operations of operators and of the policy engine
  MaxFaults           \* bound: database errors during ingest

ASSUME QuotasAssumption == Quotas \subseteq Devices \cup {Shared}
ASSUME AgentsAssumption == Agents \subseteq Nodes
ASSUME LimitsAssumption == Limits \subseteq Nat
ASSUME MaxUsedAssumption == MaxUsed \in Nat
ASSUME NullAssumption == NoNode \notin Nodes
ASSUME SharedAssumption == Shared \notin Devices
ASSUME IngestsAssumption == IsFiniteSet(Ingests)

VARIABLES
  device,     \* [Devices -> Device]
  quota,      \* [Quotas -> Quota]
  row,        \* [Places -> Row]: gateway_policy_state by (deviceId, nodeId)
  open,       \* devices with an open session
  enforcing,  \* quota.enforcementEnabled
  ingest,     \* [Ingests -> Ingest]: traffic batches in progress
  operator,   \* [Operators -> Request]: console requests in progress
  pull,       \* [Nodes -> Pull]: policy pulls in progress
  agent,      \* [Nodes -> Agent]: what each gateway agent has programmed
  acts, faults

vars == <<device, quota, row, open, enforcing, ingest, operator, pull, agent, acts, faults>>

Keys   == Nodes \cup {NoNode}
Places == Devices \X Keys

Approvals == {"PENDING", "APPROVED", "REJECTED", "BLOCKED"}
Statuses  == {"OFFLINE", "ONLINE", "QUOTA_EXCEEDED", "REVOKED"}
Verdicts  == {"ACTIVE", "BLOCKED", "QUOTA_EXCEEDED", "REVOKED", "ABSENT"}
RowStates == {"NONE", "ACTIVE", "BLOCKED", "QUOTA_EXCEEDED"}

Usages == 0 .. MaxUsed

Device  == [approval: Approvals, status: Statuses, blocked: BOOLEAN, over: BOOLEAN,
            node: Keys, config: {"NONE", "ACTIVE", "EXPIRED"}]
Quota   == [exists: BOOLEAN, enabled: BOOLEAN, limit: Limits \cup {0}, used: Usages,
            exceeded: BOOLEAN]
Row     == [state: RowStates, revision: Nat, acked: BOOLEAN]
Ingest  == [step: {"idle", "online", "find", "count", "enforce"},
            device: Devices \cup {NoDevice}, node: Keys, on: BOOLEAN,
            left: SUBSET Quotas, breached: SUBSET Quotas]
Request == [step: {"idle", "approve", "counted", "block", "disconnect"},
            device: Devices \cup {NoDevice}, status: Statuses, node: Keys]
Copy    == [key: Keys, state: RowStates, revision: Nat]
Pull    == [devices: BOOLEAN, verdict: [Devices -> Verdicts],
            rows: BOOLEAN, copy: [Devices -> Copy], top: Nat]
Agent   == [revision: Nat, copy: [Devices -> Copy], peer: [Devices -> Verdicts],
            unacked: SUBSET Devices]

NoIngest  == [step |-> "idle", device |-> NoDevice, node |-> NoNode, on |-> FALSE,
              left |-> {}, breached |-> {}]
NoRequest == [step |-> "idle", device |-> NoDevice, status |-> "OFFLINE", node |-> NoNode]
NoCopy    == [key |-> NoNode, state |-> "NONE", revision |-> 0]
NoPull    == [devices |-> FALSE, verdict |-> [d \in Devices |-> "ABSENT"],
              rows |-> FALSE, copy |-> [d \in Devices |-> NoCopy], top |-> 0]
NoAgent   == [revision |-> 0, copy |-> [d \in Devices |-> NoCopy],
              peer |-> [d \in Devices |-> "ABSENT"], unacked |-> {}]

\* A device as registerDevice creates it.
Registered == [approval |-> IF PrivateMode THEN "PENDING" ELSE "APPROVED",
               status |-> "OFFLINE", blocked |-> FALSE, over |-> FALSE,
               node |-> NoNode, config |-> "NONE"]

Init ==
  /\ device = [d \in Devices |-> Registered]
  /\ quota = [q \in Quotas |-> [exists |-> FALSE, enabled |-> FALSE, limit |-> 0,
                                used |-> 0, exceeded |-> FALSE]]
  /\ row = [p \in Places |-> [state |-> "NONE", revision |-> 0, acked |-> FALSE]]
  /\ open = {}
  /\ enforcing = TRUE
  /\ ingest = [h \in Ingests |-> NoIngest]
  /\ operator = [o \in Operators |-> NoRequest]
  /\ pull = [n \in Nodes |-> NoPull]
  /\ agent = [n \in Nodes |-> NoAgent]
  /\ acts = 0
  /\ faults = 0

-----------------------------------------------------------------------------
(* Verdicts and decisions. *)

\* Mutant: an unapproved device is answered with its approval state.
DeviceVerdictMutant(v) ==
  IF v.approval # "APPROVED" \/ v.blocked THEN v.approval
  ELSE IF v.status = "QUOTA_EXCEEDED" \/ v.over THEN "QUOTA_EXCEEDED" ELSE "ACTIVE"

\* resolvePolicy over the device's own columns.
DeviceVerdict(v) ==
  IF v.approval # "APPROVED" \/ v.blocked THEN "BLOCKED"
  ELSE IF v.status = "QUOTA_EXCEEDED" \/ v.over THEN "QUOTA_EXCEEDED"
  ELSE IF v.config = "EXPIRED" THEN "REVOKED"
  ELSE "ACTIVE"

\* resolvePolicy: the policy row decides only where the device does not.
Resolve(verdict, state) ==
  IF verdict = "ACTIVE" /\ state # "NONE" THEN state ELSE verdict

\* Mutant: only the creation of a row sets its revision.
DecideMutant(r, state) ==
  [state |-> state, revision |-> IF r.state = "NONE" THEN 1 ELSE r.revision, acked |-> FALSE]

\* A decision written to a policy row, created by its first one.
Decide(r, state) == [state |-> state, revision |-> r.revision + 1, acked |-> FALSE]

WriteRows(places, state) ==
  row' = [p \in Places |-> IF p \in places THEN Decide(row[p], state) ELSE row[p]]

RowsOf(d, states) == {p \in {d} \X Keys : row[p].state \in states}

Act(operation) ==
  /\ operation \in Operations
  /\ acts < MaxActs
  /\ acts' = acts + 1

-----------------------------------------------------------------------------
(* Traffic ingest. *)

\* The enabled quotas that count the bytes of a device.
Covering(d) == {q \in {d, Shared} \cap Quotas : quota[q].enabled}

\* Mutant: bytes of a device over its quota still count and re-open it.
CountableMutant(v) == ~v.blocked

\* A node reports bytes of a device: what `ingest` reads of the device.  A report
\* for a device seen blocked or over is not counted against any quota.
Countable(v) == ~v.over /\ ~v.blocked

Report(h, d, n) ==
  /\ "traffic" \in Operations
  /\ ingest[h].step = "idle"
  /\ Countable(device[d])
  /\ ingest' = [ingest EXCEPT ![h] = [NoIngest EXCEPT !.step = "online", !.device = d, !.node = n]]
  /\ UNCHANGED <<device, quota, row, open, enforcing, operator, pull, agent, acts, faults>>

MarkOnline(h) ==
  /\ ingest[h].step = "online"
  /\ device' = [device EXCEPT ![ingest[h].device] = [@ EXCEPT !.status = "ONLINE"]]
  /\ ingest' = [ingest EXCEPT ![h] = [@ EXCEPT !.step = "find"]]
  /\ UNCHANGED <<quota, row, open, enforcing, operator, pull, agent, acts, faults>>

\* The rest of the batch once these quotas are left to count.
Counting(i, left) ==
  IF left = {} THEN NoIngest ELSE [i EXCEPT !.step = "count", !.left = left, !.breached = {}]

\* recordUsage reads the settings and the enabled quotas of the device.
FindQuotas(h) ==
  /\ ingest[h].step = "find"
  /\ ingest' = [ingest EXCEPT ![h] =
                  Counting([@ EXCEPT !.on = enforcing], Covering(ingest[h].device))]
  /\ UNCHANGED <<device, quota, row, open, enforcing, operator, pull, agent, acts, faults>>

\* evaluateQuota says QUOTA_EXCEEDED.
Breached(q) == q.enabled /\ (q.exceeded \/ (q.limit > 0 /\ q.used >= q.limit))

Added(q) == [q EXCEPT !.used = IF @ < MaxUsed THEN @ + 1 ELSE @]

\* Mutant: the test of exceededAt has lost its negation.
MustEnforceMutant(q) == Breached(q) /\ q.exceeded

\* Whether the row that the increment returned calls for enforcement.
MustEnforce(q) == Breached(q) /\ ~q.exceeded

CountUsage(h, q) ==
  /\ ingest[h].step = "count"
  /\ q \in ingest[h].left
  /\ quota' = [quota EXCEPT ![q] = Added(@)]
  /\ ingest' =
       [ingest EXCEPT ![h] =
          IF MustEnforce(Added(quota[q])) /\ ingest[h].on
          THEN [@ EXCEPT !.step = "enforce", !.left = ingest[h].left \ {q}, !.breached = {q}]
          ELSE Counting(ingest[h], ingest[h].left \ {q})]
  /\ UNCHANGED <<device, row, open, enforcing, operator, pull, agent, acts, faults>>

\* enforceHardLimit: the quota, the device, its sessions and the policy row at the
\* node that reported the traffic, in one transaction.
Enforce(h, q) ==
  LET d == ingest[h].device IN
  /\ ingest[h].step = "enforce"
  /\ q \in ingest[h].breached
  /\ quota' = [quota EXCEPT ![q] = [@ EXCEPT !.exceeded = TRUE]]
  /\ device' = [device EXCEPT ![d] = [@ EXCEPT !.status = "QUOTA_EXCEEDED", !.over = TRUE]]
  /\ open' = open \ {d}
  /\ WriteRows({<<d, ingest[h].node>>}, "QUOTA_EXCEEDED")
  /\ ingest' = [ingest EXCEPT ![h] = Counting(ingest[h], ingest[h].left)]
  /\ UNCHANGED <<enforcing, operator, pull, agent, acts, faults>>

\* A statement throws, and the rest of the batch is dropped.
DatabaseError(h) ==
  /\ ingest[h].step # "idle"
  /\ faults < MaxFaults
  /\ faults' = faults + 1
  /\ ingest' = [ingest EXCEPT ![h] = NoIngest]
  /\ UNCHANGED <<device, quota, row, open, enforcing, operator, pull, agent, acts>>

-----------------------------------------------------------------------------
(* Operators.  A request that reads the device first and decides in a later *)
(* transaction carries what it read.                                        *)

ReadDevice(o, step, d, node) ==
  /\ operator[o].step = "idle"
  /\ operator' = [operator EXCEPT ![o] = [step |-> step, device |-> d,
                                          status |-> device[d].status, node |-> node]]
  /\ UNCHANGED <<device, quota, row, open, enforcing, ingest, pull, agent, faults>>

Done(o) == operator' = [operator EXCEPT ![o] = NoRequest]

StartApprove(o, d, n) ==
  /\ Act("approve")
  /\ device[d].approval # "APPROVED"
  /\ ReadDevice(o, "approve", d, IF n = NoNode THEN device[d].node ELSE n)

Approved == {d \in Devices : device[d].approval = "APPROVED"}

\* The transaction of approveDevice: it counts, then writes what the request read.
CountApproved(o) ==
  /\ operator[o].step = "approve"
  /\ operator' = [operator EXCEPT ![o] =
                    IF Cardinality(Approved) >= MaxApproved THEN NoRequest
                    ELSE [@ EXCEPT !.step = "counted"]]
  /\ UNCHANGED <<device, quota, row, open, enforcing, ingest, pull, agent, acts, faults>>

Approve(o, limit) ==
  LET d == operator[o].device IN
  /\ operator[o].step = "counted"
  /\ device' = [device EXCEPT ![d] = [@ EXCEPT !.approval = "APPROVED",
                                               !.status = operator[o].status,
                                               !.node = operator[o].node]]
  /\ quota' = [q \in Quotas |->
                 IF q = d /\ limit > 0 /\ ~quota[q].exists
                 THEN [exists |-> TRUE, enabled |-> TRUE, limit |-> limit, used |-> 0,
                       exceeded |-> FALSE]
                 ELSE quota[q]]
  /\ Done(o)
  /\ UNCHANGED <<row, open, enforcing, ingest, pull, agent, acts, faults>>

Reject(d) ==
  /\ Act("reject")
  /\ device' = [device EXCEPT ![d] = [@ EXCEPT !.approval = "REJECTED"]]
  /\ UNCHANGED <<quota, row, open, enforcing, ingest, operator, pull, agent, faults>>

StartBlock(o, d) ==
  /\ Act("block")
  /\ ReadDevice(o, "block", d, device[d].node)

Block(o) ==
  LET d == operator[o].device IN
  /\ operator[o].step = "block"
  /\ device' = [device EXCEPT ![d] = [@ EXCEPT !.approval = "BLOCKED", !.blocked = TRUE]]
  /\ open' = open \ {d}
  /\ WriteRows({<<d, operator[o].node>>}, "BLOCKED")
  /\ Done(o)
  /\ UNCHANGED <<quota, enforcing, ingest, pull, agent, acts, faults>>

\* unblockDevice leaves the approval and the quota alone.
Unblocked(v) == [v EXCEPT !.status = "OFFLINE", !.blocked = FALSE, !.over = FALSE]

Unblock(d) ==
  /\ Act("unblock")
  /\ device' = [device EXCEPT ![d] = Unblocked(@)]
  /\ WriteRows(RowsOf(d, {"QUOTA_EXCEEDED", "BLOCKED"}), "ACTIVE")
  /\ UNCHANGED <<quota, open, enforcing, ingest, operator, pull, agent, faults>>

\* disconnectDevice: two statements, the sessions and then the device.
StartDisconnect(o, d) ==
  /\ Act("disconnect")
  /\ operator[o].step = "idle"
  /\ operator' = [operator EXCEPT ![o] = [NoRequest EXCEPT !.step = "disconnect", !.device = d]]
  /\ open' = open \ {d}
  /\ UNCHANGED <<device, quota, row, enforcing, ingest, pull, agent, faults>>

Disconnect(o) ==
  /\ operator[o].step = "disconnect"
  /\ device' = [device EXCEPT ![operator[o].device] = [@ EXCEPT !.status = "OFFLINE"]]
  /\ Done(o)
  /\ UNCHANGED <<quota, row, open, enforcing, ingest, pull, agent, acts, faults>>

AssignNode(d, n) ==
  /\ Act("assign")
  /\ device' = [device EXCEPT ![d] = [@ EXCEPT !.node = n]]
  /\ UNCHANGED <<quota, row, open, enforcing, ingest, operator, pull, agent, faults>>

\* An upsert: usage and the breach are kept.
SetQuota(q, limit, enabled) ==
  /\ Act("setQuota")
  /\ quota' = [quota EXCEPT ![q] = [@ EXCEPT !.exists = TRUE, !.enabled = enabled, !.limit = limit]]
  /\ UNCHANGED <<device, row, open, enforcing, ingest, operator, pull, agent, faults>>

\* A reset quota that belongs to a device releases the device.
Released(v) == [v EXCEPT !.status = "OFFLINE", !.over = FALSE]

\* Mutant: the reset forgets the policy rows.
RowsReleasedMutant(q) == {}

RowsReleased(q) == IF q \in Devices THEN RowsOf(q, {"QUOTA_EXCEEDED", "BLOCKED"}) ELSE {}

Reset(q) ==
  /\ quota[q].exists
  /\ quota' = [quota EXCEPT ![q] = [@ EXCEPT !.used = 0, !.exceeded = FALSE]]
  /\ device' = [d \in Devices |-> IF d = q THEN Released(device[d]) ELSE device[d]]
  /\ WriteRows(RowsReleased(q), "ACTIVE")
  /\ UNCHANGED <<open, enforcing, ingest, operator, pull, agent, faults>>

ResetQuota(q) == Act("resetQuota") /\ Reset(q)

\* The automation job, over the enabled quotas whose period is over.
QuotaPeriodReset(q) == Act("periodReset") /\ quota[q].enabled /\ Reset(q)

UpdateSetting ==
  /\ Act("updateSetting")
  /\ enforcing' = ~enforcing
  /\ UNCHANGED <<device, quota, row, open, ingest, operator, pull, agent, faults>>

-----------------------------------------------------------------------------
(* Actions of the policy engine. *)

PolicyDisconnect(d, allowReconnect) ==
  /\ Act("policyDisconnect")
  /\ d \in open
  /\ open' = open \ {d}
  /\ device' = [device EXCEPT ![d] = [@ EXCEPT !.status = IF allowReconnect THEN "OFFLINE" ELSE "REVOKED"]]
  /\ WriteRows(RowsOf(d, RowStates \ {"NONE"}), IF allowReconnect THEN "ACTIVE" ELSE "BLOCKED")
  /\ UNCHANGED <<quota, enforcing, ingest, operator, pull, agent, faults>>

PolicyBlock(d) ==
  /\ Act("policyBlock")
  /\ ~device[d].blocked
  /\ open' = open \ {d}
  /\ device' = [device EXCEPT ![d] = [@ EXCEPT !.blocked = TRUE, !.status = "OFFLINE"]]
  /\ WriteRows(RowsOf(d, RowStates \ {"NONE"}), "BLOCKED")
  /\ UNCHANGED <<quota, enforcing, ingest, operator, pull, agent, faults>>

-----------------------------------------------------------------------------
(* Sessions, as the gateway reports them, and configurations. *)

\* A report opens a session whatever the state of the device.
ReportSession(d) ==
  /\ Act("session")
  /\ open' \in {open \cup {d}, open \ {d}}
  /\ UNCHANGED <<device, quota, row, enforcing, ingest, operator, pull, agent, faults>>

SetConfig(d, config, n) ==
  /\ Act("config")
  /\ device' = [device EXCEPT ![d] = [@ EXCEPT !.config = config, !.node = n]]
  /\ UNCHANGED <<quota, row, open, enforcing, ingest, operator, pull, agent, faults>>

GenerateConfig(d, n) == device[d].approval = "APPROVED" /\ SetConfig(d, "ACTIVE", n)

\* A revoked configuration is unassigned, so the gateway never hears REVOKED of it.
RevokeConfig(d) == device[d].config # "NONE" /\ SetConfig(d, "NONE", device[d].node)

ExpireConfig(d) == device[d].config = "ACTIVE" /\ SetConfig(d, "EXPIRED", device[d].node)

-----------------------------------------------------------------------------
(* Gateway agents. *)

\* The rows a node is told about.
InScope(n, p) == p[2] = n \/ (p[2] = NoNode /\ device[p[1]].node = n)
RowsFor(n) == {p \in Places : row[p].state # "NONE" /\ InScope(n, p)}

\* The first row of a device in descending order of revision.
IsLatest(p, rows) == p \in rows /\ \A r \in rows : r[1] = p[1] => row[r].revision <= row[p].revision

LatestRow(d, rows, copy) ==
  IF \A p \in rows : p[1] # d THEN copy = NoCopy
  ELSE \E k \in Keys : /\ IsLatest(<<d, k>>, rows)
                       /\ copy = [key |-> k, state |-> row[<<d, k>>].state,
                                  revision |-> row[<<d, k>>].revision]

\* The revisions a node is told about, and whether none exceeds a number.
Revisions(n) == {row[p].revision : p \in RowsFor(n)}
IsTop(n, top) == \A r \in Revisions(n) : r <= top

\* The policy pull asks for the devices and for the rows by two concurrent queries.
ReadDevices(n) ==
  /\ n \in Agents
  /\ ~pull[n].devices
  /\ pull' = [pull EXCEPT ![n] = [@ EXCEPT !.devices = TRUE, !.verdict =
                [d \in Devices |-> IF device[d].node = n THEN DeviceVerdict(device[d]) ELSE "ABSENT"]]]
  /\ UNCHANGED <<device, quota, row, open, enforcing, ingest, operator, agent, acts, faults>>

Copies == {NoCopy} \cup {[key |-> p[2], state |-> row[p].state, revision |-> row[p].revision] : p \in Places}

ReadRows(n) ==
  /\ n \in Agents
  /\ ~pull[n].rows
  /\ \E copy \in [Devices -> Copies], top \in {0} \cup Revisions(n) :
       /\ \A d \in Devices : LatestRow(d, RowsFor(n), copy[d])
       /\ IsTop(n, top)
       /\ pull' = [pull EXCEPT ![n] = [@ EXCEPT !.rows = TRUE, !.copy = copy, !.top = top]]
  /\ UNCHANGED <<device, quota, row, open, enforcing, ingest, operator, agent, acts, faults>>

\* The agent programs the reply, and has it to acknowledge.
Reply(n) ==
  /\ pull[n].devices
  /\ pull[n].rows
  /\ agent' = [agent EXCEPT ![n] =
       [revision |-> pull[n].top, copy |-> pull[n].copy,
        peer |-> [d \in Devices |-> Resolve(pull[n].verdict[d], pull[n].copy[d].state)],
        unacked |-> {d \in Devices : pull[n].verdict[d] # "ABSENT"}]]
  /\ pull' = [pull EXCEPT ![n] = NoPull]
  /\ UNCHANGED <<device, quota, row, open, enforcing, ingest, operator, acts, faults>>

\* The acknowledgement marks the newest row of the device at this node or at none,
\* whatever revision it names.
AckRows(n) == {p \in Places : row[p].state # "NONE" /\ p[2] \in {n, NoNode}}

Ack(n, d) ==
  /\ d \in agent[n].unacked
  /\ agent' = [agent EXCEPT ![n] = [@ EXCEPT !.unacked = agent[n].unacked \ {d}]]
  /\ IF \A p \in AckRows(n) : p[1] # d THEN row' = row
     ELSE \E p \in Places : /\ p[1] = d
                            /\ IsLatest(p, AckRows(n))
                            /\ row' = [row EXCEPT ![p] = [@ EXCEPT !.acked = TRUE]]
  /\ UNCHANGED <<device, quota, open, enforcing, ingest, operator, pull, acts, faults>>

-----------------------------------------------------------------------------
IngestStep(h) ==
  \/ MarkOnline(h)
  \/ FindQuotas(h)
  \/ \E q \in Quotas : CountUsage(h, q) \/ Enforce(h, q)

Traffic(h) ==
  \/ \E d \in Devices, n \in Nodes : Report(h, d, n)
  \/ IngestStep(h)
  \/ DatabaseError(h)

OperatorStep(o) ==
  \/ \E d \in Devices, n \in Keys : StartApprove(o, d, n)
  \/ CountApproved(o)
  \/ \E limit \in Limits \cup {0} : Approve(o, limit)
  \/ \E d \in Devices : StartBlock(o, d) \/ StartDisconnect(o, d)
  \/ Block(o)
  \/ Disconnect(o)

DeviceStep(d) ==
  \/ Reject(d) \/ Unblock(d) \/ PolicyBlock(d) \/ ReportSession(d)
  \/ RevokeConfig(d) \/ ExpireConfig(d)
  \/ \E allowReconnect \in BOOLEAN : PolicyDisconnect(d, allowReconnect)
  \/ \E n \in Keys : AssignNode(d, n)
  \/ \E n \in Nodes : GenerateConfig(d, n)

QuotaStep(q) ==
  \/ ResetQuota(q) \/ QuotaPeriodReset(q)
  \/ \E limit \in Limits, enabled \in BOOLEAN : SetQuota(q, limit, enabled)

AgentStep(n) ==
  \/ ReadDevices(n) \/ ReadRows(n) \/ Reply(n)
  \/ \E d \in Devices : Ack(n, d)

Next ==
  \/ \E h \in Ingests : Traffic(h)
  \/ \E o \in Operators : OperatorStep(o)
  \/ \E d \in Devices : DeviceStep(d)
  \/ \E q \in Quotas : QuotaStep(q)
  \/ \E n \in Nodes : AgentStep(n)
  \/ UpdateSetting

Spec == Init /\ [][Next]_vars

\* A batch being handled runs to its end, and a device that may send keeps sending.
Fairness ==
  /\ \A h \in Ingests : WF_vars(IngestStep(h))
  /\ \A d \in Devices : SF_vars(\E h \in Ingests, n \in Nodes : Report(h, d, n))

FairSpec == Spec /\ Fairness

-----------------------------------------------------------------------------
(* Properties. *)

\* Every variable keeps its type.
TypeOK ==
  /\ device \in [Devices -> Device]
  /\ quota \in [Quotas -> Quota]
  /\ row \in [Places -> Row]
  /\ open \subseteq Devices
  /\ enforcing \in BOOLEAN
  /\ ingest \in [Ingests -> Ingest]
  /\ operator \in [Operators -> Request]
  /\ pull \in [Nodes -> Pull]
  /\ agent \in [Nodes -> Agent]
  /\ acts \in Nat
  /\ faults \in Nat

\* Whoever releases a device from its quota, in whatever order with enforcement,
\* blocks and the policy engine, no policy row is forgotten that still refuses the
\* device for its quota (enforceHardLimit, resetQuota, unblockDevice, actions.ts).
NoForgottenRow ==
  \A p \in Places : row[p].state = "QUOTA_EXCEEDED" => device[p[1]].over

\* What a copy of a policy row says of the row it was read from: it is not newer, and
\* a revision names one decision.
Faithful(d, c) ==
  c.revision > 0 => /\ c.revision <= row[<<d, c.key>>].revision
                    /\ c.revision = row[<<d, c.key>>].revision => c.state = row[<<d, c.key>>].state

\* A revision names one decision: every copy of a row that a pull or an agent holds
\* is as old as its revision says, however many writers came between.
RevisionNamesDecision ==
  \A n \in Nodes, d \in Devices :
    Faithful(d, pull[n].copy[d]) /\ Faithful(d, agent[n].copy[d])

\* The heartbeat's drift flag.
Drift(n) == ~IsTop(n, agent[n].revision)

\* What the absence of drift does promise an agent: the rows that carried the highest
\* revision of its last pull have not been decided again (heartbeat/route.ts).
QuietTopIsCurrent ==
  \A n \in Agents, d \in Devices :
    LET c == agent[n].copy[d] IN
    c.revision > 0 /\ c.revision = agent[n].revision /\ ~Drift(n) /\ InScope(n, <<d, c.key>>)
      => row[<<d, c.key>>].state = c.state

\* A breach whose enforcement failed or was lost is enforced by later traffic, unless
\* it is settled otherwise or the covered devices may send no more (recordUsage).
OpenBreach(q) == Breached(quota[q]) /\ ~quota[q].exceeded /\ enforcing
Silent(q) == \A d \in Devices : q \in {d, Shared} => ~Countable(device[d])
HardLimitIsReached == \A q \in Quotas : OpenBreach(q) ~> ~OpenBreach(q) \/ Silent(q)
=============================================================================
