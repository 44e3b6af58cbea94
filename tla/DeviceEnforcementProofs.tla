----------------------- MODULE DeviceEnforcementProofs -----------------------
(***************************************************************************)
(* Theorems about DeviceEnforcement, for every set of devices, nodes,      *)
(* quotas, concurrent batches and requests, and every bound.               *)
(***************************************************************************)
EXTENDS QuotaOvershoot, FiniteSetTheorems, TLAPS

USE QuotasAssumption, AgentsAssumption, LimitsAssumption, MaxUsedAssumption, NullAssumption

-----------------------------------------------------------------------------
(* Lemmas about the operators. *)

\* Every write of policy rows is a decision, at the places it names and no others.
LEMMA WriteRowsType ==
  ASSUME NEW places, NEW state \in RowStates, row \in [Places -> Row], WriteRows(places, state)
  PROVE  row' \in [Places -> Row]
BY DEF WriteRows, Decide, Row

LEMMA CountingType ==
  ASSUME NEW i \in Ingest, NEW left \in SUBSET Quotas
  PROVE  Counting(i, left) \in Ingest
BY DEF Counting, NoIngest, Ingest, Keys

LEMMA IdleType == NoIngest \in Ingest /\ NoRequest \in Request /\ NoCopy \in Copy
BY DEF NoIngest, Ingest, NoRequest, Request, NoCopy, Copy, Keys, Statuses, RowStates

LEMMA NothingReadType == NoPull \in Pull /\ NoAgent \in Agent
<1>1. /\ [d \in Devices |-> "ABSENT"] \in [Devices -> Verdicts]
      /\ [d \in Devices |-> NoCopy] \in [Devices -> Copy]
      /\ {} \in SUBSET Devices
  BY IdleType DEF Verdicts
<1> QED
  BY <1>1 DEF NoPull, Pull, NoAgent, Agent

LEMMA AddedType == ASSUME NEW q \in Quota PROVE Added(q) \in Quota
<1>1. (IF q.used < MaxUsed THEN q.used + 1 ELSE q.used) \in Usages
  BY DEF Quota, Usages
<1> QED
  BY <1>1 DEF Added, Quota

LEMMA VerdictType == \A v \in Device : DeviceVerdict(v) \in Verdicts
BY DEF DeviceVerdict, Verdicts

LEMMA ResolveType ==
  ASSUME NEW verdict \in Verdicts, NEW state \in RowStates
  PROVE  Resolve(verdict, state) \in Verdicts
BY DEF Resolve, Verdicts, RowStates

\* The writes of a device row.
LEMMA DeviceWriteType ==
  ASSUME NEW old \in Device, NEW status \in Statuses, NEW approval \in Approvals, NEW node \in Keys,
         NEW config \in {"NONE", "ACTIVE", "EXPIRED"}
  PROVE  /\ [old EXCEPT !.status = status] \in Device
         /\ [old EXCEPT !.status = status, !.over = TRUE] \in Device
         /\ [old EXCEPT !.status = status, !.over = FALSE] \in Device
         /\ [old EXCEPT !.approval = approval] \in Device
         /\ [old EXCEPT !.approval = approval, !.blocked = TRUE] \in Device
         /\ [old EXCEPT !.approval = approval, !.status = status, !.node = node] \in Device
         /\ [old EXCEPT !.status = status, !.blocked = FALSE, !.over = FALSE] \in Device
         /\ [old EXCEPT !.blocked = TRUE, !.status = status] \in Device
         /\ [old EXCEPT !.node = node] \in Device
         /\ [old EXCEPT !.config = config, !.node = node] \in Device
BY DEF Device

LEMMA StatusMembers == {"OFFLINE", "ONLINE", "QUOTA_EXCEEDED", "REVOKED"} \subseteq Statuses
BY DEF Statuses

LEMMA ApprovalMembers == {"APPROVED", "REJECTED", "BLOCKED"} \subseteq Approvals
BY DEF Approvals

\* One device row is written.
LEMMA DeviceUpdate ==
  ASSUME device \in [Devices -> Device], NEW d, NEW v, d \in Devices => v \in Device,
         device' = [device EXCEPT ![d] = v]
  PROVE  device' \in [Devices -> Device]
OBVIOUS

-----------------------------------------------------------------------------
(* Type correctness. *)

LEMMA TypeInit == Init => TypeOK
<1> SUFFICES ASSUME Init PROVE TypeOK
  OBVIOUS
<1>1. device \in [Devices -> Device]
  BY DEF Init, Registered, Device, Approvals, Statuses, Keys
<1>2. quota \in [Quotas -> Quota]
  BY DEF Init, Quota, Usages
<1>3. row \in [Places -> Row]
  BY DEF Init, Row, RowStates
<1>4. /\ ingest \in [Ingests -> Ingest] /\ operator \in [Operators -> Request]
      /\ pull \in [Nodes -> Pull] /\ agent \in [Nodes -> Agent]
  BY IdleType, NothingReadType DEF Init
<1> QED
  BY <1>1, <1>2, <1>3, <1>4 DEF Init, TypeOK

LEMMA TypeTraffic == ASSUME TypeOK, NEW h \in Ingests, Traffic(h) PROVE TypeOK'
<1>1. ASSUME NEW d \in Devices, NEW n \in Nodes, Report(h, d, n) PROVE TypeOK'
  <2>1. [NoIngest EXCEPT !.step = "online", !.device = d, !.node = n] \in Ingest
    BY DEF NoIngest, Ingest, Keys
  <2> QED
    BY <1>1, <2>1 DEF Report, TypeOK
<1>2. CASE MarkOnline(h)
  <2>1. device' \in [Devices -> Device]
    BY <1>2, DeviceWriteType, DeviceUpdate, StatusMembers, ApprovalMembers DEF MarkOnline, TypeOK, Keys, Approvals
  <2>2. ingest' \in [Ingests -> Ingest]
    BY ZenonT(60), <1>2 DEF MarkOnline, TypeOK, Ingest
  <2> QED
    BY <1>2, <2>1, <2>2 DEF MarkOnline, TypeOK
<1>3. CASE FindQuotas(h)
  <2>1. [ingest[h] EXCEPT !.on = enforcing] \in Ingest
    BY ZenonT(60) DEF TypeOK, Ingest
  <2>2. Covering(ingest[h].device) \in SUBSET Quotas
    BY DEF Covering
  <2>3. ingest' \in [Ingests -> Ingest]
    BY <1>3, <2>1, <2>2, CountingType DEF FindQuotas, TypeOK
  <2> QED
    BY <1>3, <2>3 DEF FindQuotas, TypeOK
<1>4. ASSUME NEW q \in Quotas, CountUsage(h, q) PROVE TypeOK'
  <2>1. quota' \in [Quotas -> Quota]
    BY <1>4, AddedType DEF CountUsage, TypeOK
  <2>2. ingest[h].left \ {q} \in SUBSET Quotas /\ {q} \in SUBSET Quotas
    BY DEF TypeOK, Ingest
  <2>3. [ingest[h] EXCEPT !.step = "enforce", !.left = ingest[h].left \ {q}, !.breached = {q}] \in Ingest
    BY ZenonT(60), <2>2 DEF TypeOK, Ingest
  <2>4. ingest' \in [Ingests -> Ingest]
    BY <1>4, <2>2, <2>3, CountingType DEF CountUsage, TypeOK
  <2> QED
    BY <1>4, <2>1, <2>4 DEF CountUsage, TypeOK
<1>5. ASSUME NEW q \in Quotas, Enforce(h, q) PROVE TypeOK'
  <2>1. quota' \in [Quotas -> Quota]
    BY ZenonT(60), <1>5 DEF Enforce, TypeOK, Quota
  <2>2. device' \in [Devices -> Device]
    BY <1>5, DeviceWriteType, DeviceUpdate, StatusMembers DEF Enforce, TypeOK, Keys, Approvals
  <2>3. row' \in [Places -> Row]
    BY <1>5, WriteRowsType DEF Enforce, TypeOK, RowStates
  <2>4. ingest' \in [Ingests -> Ingest]
    BY <1>5, CountingType DEF Enforce, TypeOK, Ingest
  <2> QED
    BY <1>5, <2>1, <2>2, <2>3, <2>4 DEF Enforce, TypeOK
<1>6. CASE DatabaseError(h)
  BY <1>6, IdleType DEF DatabaseError, TypeOK
<1> QED
  BY <1>1, <1>2, <1>3, <1>4, <1>5, <1>6 DEF Traffic, IngestStep

LEMMA TypeOperator == ASSUME TypeOK, NEW o \in Operators, OperatorStep(o) PROVE TypeOK'
<1>1. ASSUME NEW step \in {"approve", "block"}, NEW d \in Devices, NEW node \in Keys,
             ReadDevice(o, step, d, node)
      PROVE  operator' \in [Operators -> Request]
  <2>1. device[d].status \in Statuses
    BY DEF TypeOK, Device
  <2>2. [step |-> step, device |-> d, status |-> device[d].status, node |-> node] \in Request
    BY <2>1 DEF Request
  <2> QED
    BY <1>1, <2>2 DEF ReadDevice, TypeOK
<1>2. ASSUME Done(o) PROVE operator' \in [Operators -> Request]
  BY <1>2, IdleType DEF Done, TypeOK
<1>3. \A d \in Devices : device[d].node \in Keys
  BY DEF TypeOK, Device
<1>4. operator[o].status \in Statuses /\ operator[o].node \in Keys
  BY DEF TypeOK, Request
<1>5. ASSUME NEW d \in Devices, NEW n \in Keys, StartApprove(o, d, n) PROVE TypeOK'
  <2>1. (IF n = NoNode THEN device[d].node ELSE n) \in Keys
    BY <1>3
  <2>2. operator' \in [Operators -> Request]
    BY <1>1, <1>5, <2>1 DEF StartApprove
  <2> QED
    BY <1>5, <2>2 DEF StartApprove, ReadDevice, Act, TypeOK
<1>6. CASE CountApproved(o)
  <2>1. operator' \in [Operators -> Request]
    BY <1>6, IdleType DEF CountApproved, TypeOK, Request
  <2> QED
    BY <1>6, <2>1 DEF CountApproved, TypeOK
<1>7. ASSUME NEW limit \in Limits \cup {0}, Approve(o, limit) PROVE TypeOK'
  <2>1. device' \in [Devices -> Device]
    BY <1>4, <1>7, DeviceWriteType, DeviceUpdate, ApprovalMembers DEF Approve, TypeOK
  <2>2. [exists |-> TRUE, enabled |-> TRUE, limit |-> limit, used |-> 0, exceeded |-> FALSE] \in Quota
    BY DEF Quota, Usages
  <2>3. quota' \in [Quotas -> Quota]
    BY <1>7, <2>2 DEF Approve, TypeOK
  <2> QED
    BY <1>2, <1>7, <2>1, <2>3 DEF Approve, TypeOK
<1>8. ASSUME NEW d \in Devices, StartBlock(o, d) PROVE TypeOK'
  <2>1. operator' \in [Operators -> Request]
    BY <1>1, <1>3, <1>8 DEF StartBlock
  <2> QED
    BY <1>8, <2>1 DEF StartBlock, ReadDevice, Act, TypeOK
<1>9. CASE Block(o)
  <2>1. device' \in [Devices -> Device]
    BY <1>9, <1>4, DeviceWriteType, DeviceUpdate, ApprovalMembers, StatusMembers DEF Block, TypeOK
  <2>2. row' \in [Places -> Row]
    BY <1>9, WriteRowsType DEF Block, TypeOK, RowStates
  <2> QED
    BY <1>2, <1>9, <2>1, <2>2 DEF Block, TypeOK
<1>10. ASSUME NEW d \in Devices, StartDisconnect(o, d) PROVE TypeOK'
  <2>1. [NoRequest EXCEPT !.step = "disconnect", !.device = d] \in Request
    BY DEF NoRequest, Request, Keys, Statuses
  <2> QED
    BY <1>10, <2>1 DEF StartDisconnect, Act, TypeOK
<1>11. CASE Disconnect(o)
  <2>1. device' \in [Devices -> Device]
    BY <1>11, <1>4, DeviceWriteType, DeviceUpdate, ApprovalMembers, StatusMembers DEF Disconnect, TypeOK
  <2> QED
    BY <1>2, <1>11, <2>1 DEF Disconnect, TypeOK
<1> QED
  BY <1>5, <1>6, <1>7, <1>8, <1>9, <1>10, <1>11 DEF OperatorStep

LEMMA TypeDevice == ASSUME TypeOK, NEW d \in Devices, DeviceStep(d) PROVE TypeOK'
<1>1. device[d] \in Device /\ device[d].node \in Keys /\ Nodes \subseteq Keys
  BY DEF TypeOK, Device, Keys
<1>2. ASSUME NEW v \in Device, device' = [device EXCEPT ![d] = v] PROVE device' \in [Devices -> Device]
  BY <1>2 DEF TypeOK
<1>3. ASSUME NEW places, NEW state \in {"ACTIVE", "BLOCKED"}, WriteRows(places, state)
      PROVE  row' \in [Places -> Row]
  BY <1>3, WriteRowsType DEF TypeOK, RowStates
<1>4. CASE Reject(d)
  <2>1. device' \in [Devices -> Device]
    BY <1>1, <1>2, <1>4, DeviceWriteType, ApprovalMembers, StatusMembers DEF Reject
  <2> QED
    BY <1>4, <2>1 DEF Reject, Act, TypeOK
<1>5. CASE Unblock(d)
  <2>1. Unblocked(device[d]) \in Device
    BY <1>1, DeviceWriteType, ApprovalMembers, StatusMembers DEF Unblocked
  <2> QED
    BY <1>2, <1>3, <1>5, <2>1 DEF Unblock, Act, TypeOK
<1>6. CASE PolicyBlock(d)
  <2>1. device' \in [Devices -> Device]
    BY <1>1, <1>2, <1>6, DeviceWriteType, ApprovalMembers, StatusMembers DEF PolicyBlock
  <2> QED
    BY <1>3, <1>6, <2>1 DEF PolicyBlock, Act, TypeOK
<1>7. CASE ReportSession(d)
  BY <1>7 DEF ReportSession, Act, TypeOK
<1>8. ASSUME NEW config \in {"NONE", "ACTIVE", "EXPIRED"}, NEW n \in Keys, SetConfig(d, config, n)
      PROVE  TypeOK'
  <2>1. device' \in [Devices -> Device]
    BY <1>1, <1>2, <1>8, DeviceWriteType, ApprovalMembers, StatusMembers DEF SetConfig
  <2> QED
    BY <1>8, <2>1 DEF SetConfig, Act, TypeOK
<1>9. ASSUME NEW allow \in BOOLEAN, PolicyDisconnect(d, allow) PROVE TypeOK'
  <2>1. (IF allow THEN "OFFLINE" ELSE "REVOKED") \in Statuses
    BY DEF Statuses
  <2>2. device' \in [Devices -> Device]
    BY <1>1, <1>2, <1>9, <2>1, DeviceWriteType, ApprovalMembers DEF PolicyDisconnect
  <2>3. row' \in [Places -> Row]
    BY <1>3, <1>9 DEF PolicyDisconnect
  <2> QED
    BY <1>9, <2>2, <2>3 DEF PolicyDisconnect, Act, TypeOK
<1>10. ASSUME NEW n \in Keys, AssignNode(d, n) PROVE TypeOK'
  <2>1. device' \in [Devices -> Device]
    BY <1>1, <1>2, <1>10, DeviceWriteType, ApprovalMembers, StatusMembers DEF AssignNode
  <2> QED
    BY <1>10, <2>1 DEF AssignNode, Act, TypeOK
<1> QED
  BY <1>1, <1>4, <1>5, <1>6, <1>7, <1>8, <1>9, <1>10
     DEF DeviceStep, GenerateConfig, RevokeConfig, ExpireConfig

LEMMA TypeQuota == ASSUME TypeOK, NEW q \in Quotas, QuotaStep(q) PROVE TypeOK'
<1>1. ASSUME Reset(q), Act("resetQuota") \/ Act("periodReset") PROVE TypeOK'
  <2>1. quota' \in [Quotas -> Quota]
    <3>1. \A old \in Quota : [old EXCEPT !.used = 0, !.exceeded = FALSE] \in Quota
      <4>1. 0 \in Usages
        BY DEF Usages
      <4> QED
        BY <4>1 DEF Quota
    <3> QED
      BY <1>1, <3>1 DEF Reset, TypeOK
  <2>2. \A d \in Devices : Released(device[d]) \in Device
    BY DeviceWriteType, ApprovalMembers, StatusMembers DEF Released, TypeOK, Keys
  <2>3. device' \in [Devices -> Device]
    BY <1>1, <2>2 DEF Reset, TypeOK
  <2>4. row' \in [Places -> Row]
    BY <1>1, WriteRowsType DEF Reset, TypeOK, RowStates
  <2> QED
    BY <1>1, <2>1, <2>3, <2>4 DEF Reset, Act, TypeOK
<1>2. ASSUME NEW limit \in Limits, NEW enabled \in BOOLEAN, SetQuota(q, limit, enabled) PROVE TypeOK'
  <2>1. quota' \in [Quotas -> Quota]
    BY ZenonT(60), <1>2 DEF SetQuota, TypeOK, Quota
  <2> QED
    BY <1>2, <2>1 DEF SetQuota, Act, TypeOK
<1> QED
  BY <1>1, <1>2 DEF QuotaStep, ResetQuota, QuotaPeriodReset

LEMMA TypeAgent == ASSUME TypeOK, NEW n \in Nodes, AgentStep(n) PROVE TypeOK'
<1>1. CASE ReadDevices(n)
  <2>1. [d \in Devices |-> IF device[d].node = n THEN DeviceVerdict(device[d]) ELSE "ABSENT"]
          \in [Devices -> Verdicts]
    BY VerdictType DEF TypeOK, Verdicts
  <2>2. pull' \in [Nodes -> Pull]
    BY ZenonT(60), <1>1, <2>1 DEF ReadDevices, TypeOK, Pull
  <2> QED
    BY <1>1, <2>2 DEF ReadDevices, TypeOK
<1>2. CASE ReadRows(n)
  <2>1. Copies \subseteq Copy
    BY IdleType DEF Copies, Copy, TypeOK, Row, Places
  <2>2. {0} \cup Revisions(n) \subseteq Nat
    BY DEF Revisions, RowsFor, TypeOK, Row
  <2>3. PICK copy \in [Devices -> Copies], top \in {0} \cup Revisions(n) :
          pull' = [pull EXCEPT ![n] = [@ EXCEPT !.rows = TRUE, !.copy = copy, !.top = top]]
    BY <1>2 DEF ReadRows
  <2>4. copy \in [Devices -> Copy] /\ top \in Nat
    BY <2>1, <2>2
  <2>5. pull' \in [Nodes -> Pull]
    BY ZenonT(60), <2>3, <2>4 DEF TypeOK, Pull
  <2> QED
    BY <1>2, <2>5 DEF ReadRows, TypeOK
<1>3. CASE Reply(n)
  <2>1. pull[n] \in Pull /\ pull[n].top \in Nat /\ pull[n].copy \in [Devices -> Copy]
        /\ pull[n].verdict \in [Devices -> Verdicts]
    BY DEF TypeOK, Pull
  <2>2. [d \in Devices |-> Resolve(pull[n].verdict[d], pull[n].copy[d].state)] \in [Devices -> Verdicts]
    BY <2>1, ResolveType DEF Copy
  <2>3. {d \in Devices : pull[n].verdict[d] # "ABSENT"} \in SUBSET Devices
    OBVIOUS
  <2>4. agent' \in [Nodes -> Agent]
    BY <1>3, <2>1, <2>2, <2>3 DEF Reply, TypeOK, Agent
  <2> QED
    BY <1>3, <2>4, NothingReadType DEF Reply, TypeOK
<1>4. ASSUME NEW d \in Devices, Ack(n, d) PROVE TypeOK'
  <2>1. agent' \in [Nodes -> Agent]
    BY ZenonT(60), <1>4 DEF Ack, TypeOK, Agent
  <2>2. row' \in [Places -> Row]
    <3>1. \A old \in Row : [old EXCEPT !.acked = TRUE] \in Row
      BY DEF Row
    <3>2. row \in [Places -> Row]
      BY DEF TypeOK
    <3> QED
      BY <1>4, <3>1, <3>2 DEF Ack
  <2> QED
    BY <1>4, <2>1, <2>2 DEF Ack, TypeOK
<1> QED
  BY <1>1, <1>2, <1>3, <1>4 DEF AgentStep

LEMMA TypeNext == TypeOK /\ [Next]_vars => TypeOK'
<1> SUFFICES ASSUME TypeOK, [Next]_vars PROVE TypeOK'
  OBVIOUS
<1>1. CASE UpdateSetting
  BY <1>1 DEF UpdateSetting, Act, TypeOK
<1>2. CASE UNCHANGED vars
  BY <1>2 DEF vars, TypeOK
<1> QED
  BY <1>1, <1>2, TypeTraffic, TypeOperator, TypeDevice, TypeQuota, TypeAgent DEF Next

\* Every reachable state is well typed, for all constants.
THEOREM TypeCorrect == Spec => []TypeOK
BY TypeInit, TypeNext, PTL DEF Spec

-----------------------------------------------------------------------------
(* No policy row is forgotten. *)

\* What a decision does to each row.
LEMMA WriteRowsEffect ==
  ASSUME NEW places, NEW state, row \in [Places -> Row], WriteRows(places, state), NEW p \in Places
  PROVE  /\ p \in places => row'[p].state = state /\ row'[p].revision = row[p].revision + 1
         /\ p \notin places => row'[p] = row[p]
BY DEF WriteRows, Decide

\* An acknowledgement touches neither the state nor the revision of a row.
LEMMA AckEffect ==
  ASSUME TypeOK, NEW n \in Nodes, NEW d \in Devices, Ack(n, d), NEW p \in Places
  PROVE  row'[p].state = row[p].state /\ row'[p].revision = row[p].revision
<1>1. row[p] \in Row /\ row \in [Places -> Row]
  BY DEF TypeOK
<1>2. CASE row' = row
  BY <1>2
<1>3. ASSUME NEW r \in Places, row' = [row EXCEPT ![r] = [@ EXCEPT !.acked = TRUE]]
      PROVE  row'[p].state = row[p].state /\ row'[p].revision = row[p].revision
  BY <1>1, <1>3 DEF Row
<1> QED
  BY <1>2, <1>3 DEF Ack

\* Released or not, a device that stays over its quota keeps its rows as they are.
LEMMA NoForgottenStay ==
  ASSUME NoForgottenRow, \A d \in Devices : device[d].over => device'[d].over,
         \A p \in Places : row'[p].state = "QUOTA_EXCEEDED" => row[p].state = "QUOTA_EXCEEDED"
  PROVE  NoForgottenRow'
BY DEF NoForgottenRow, Places

\* A release takes every row along that refused the device for its quota.
LEMMA NoForgottenRelease ==
  ASSUME TypeOK, NoForgottenRow, NEW d,
         WriteRows(RowsOf(d, {"QUOTA_EXCEEDED", "BLOCKED"}), "ACTIVE"),
         \A e \in Devices \ {d} : device'[e] = device[e]
  PROVE  NoForgottenRow'
<1> SUFFICES ASSUME NEW p \in Places, row'[p].state = "QUOTA_EXCEEDED" PROVE device'[p[1]].over
  BY DEF NoForgottenRow
<1>1. p \notin RowsOf(d, {"QUOTA_EXCEEDED", "BLOCKED"}) /\ row'[p] = row[p]
  BY WriteRowsEffect DEF TypeOK
<1>2. p[1] \in Devices /\ p \in {p[1]} \X Keys
  BY DEF Places
<1>3. p[1] # d
  BY <1>1, <1>2 DEF RowsOf
<1> QED
  BY <1>1, <1>2, <1>3 DEF NoForgottenRow

LEMMA NoForgottenNext == TypeOK /\ NoForgottenRow /\ [Next]_vars => NoForgottenRow'
<1> SUFFICES ASSUME TypeOK, NoForgottenRow, [Next]_vars PROVE NoForgottenRow'
  OBVIOUS
<1>1. device \in [Devices -> Device] /\ row \in [Places -> Row]
  BY DEF TypeOK
<1>2. ASSUME NEW h \in Ingests, Traffic(h) PROVE NoForgottenRow'
  <2>1. ASSUME NEW q \in Quotas, Enforce(h, q) PROVE NoForgottenRow'
    <3> DEFINE d == ingest[h].device
    <3>1. /\ WriteRows({<<d, ingest[h].node>>}, "QUOTA_EXCEEDED")
          /\ device' = [device EXCEPT ![d] = [@ EXCEPT !.status = "QUOTA_EXCEEDED", !.over = TRUE]]
      BY <2>1 DEF Enforce
    <3>2. \A e \in Devices : (device[e].over \/ e = d) => device'[e].over
      BY <1>1, <3>1 DEF Device
    <3> SUFFICES ASSUME NEW p \in Places, row'[p].state = "QUOTA_EXCEEDED" PROVE device'[p[1]].over
      BY DEF NoForgottenRow
    <3>3. p[1] \in Devices
      BY DEF Places
    <3>4. p = <<d, ingest[h].node>> \/ row'[p] = row[p]
      BY <1>1, <3>1, WriteRowsEffect
    <3> QED
      BY <3>2, <3>3, <3>4 DEF NoForgottenRow
  <2>2. CASE MarkOnline(h)
    <3>1. \A d \in Devices : device'[d].over = device[d].over
      BY <1>1, <2>2 DEF MarkOnline, Device
    <3> QED
      BY <2>2, <3>1, NoForgottenStay DEF MarkOnline
  <2>3. CASE UNCHANGED <<device, row>>
    BY <2>3 DEF NoForgottenRow
  <2> QED
    BY <1>2, <2>1, <2>2, <2>3 DEF Traffic, IngestStep, Report, FindQuotas, CountUsage, DatabaseError
<1>3. ASSUME NEW o \in Operators, OperatorStep(o) PROVE NoForgottenRow'
  <2>1. ASSUME NEW limit \in Limits \cup {0}, Approve(o, limit) PROVE NoForgottenRow'
    <3>1. \A d \in Devices : device'[d].over = device[d].over
      BY <1>1, <2>1 DEF Approve, Device
    <3> QED
      BY <2>1, <3>1, NoForgottenStay DEF Approve
  <2>2. CASE Block(o)
    <3>1. \A d \in Devices : device'[d].over = device[d].over
      BY <1>1, <2>2 DEF Block, Device
    <3>2. \A p \in Places : row'[p].state = "QUOTA_EXCEEDED" => row[p].state = "QUOTA_EXCEEDED"
      BY <1>1, <2>2, WriteRowsEffect DEF Block
    <3> QED
      BY <3>1, <3>2, NoForgottenStay
  <2>3. CASE Disconnect(o)
    <3>1. \A d \in Devices : device'[d].over = device[d].over
      BY <1>1, <2>3 DEF Disconnect, Device
    <3> QED
      BY <2>3, <3>1, NoForgottenStay DEF Disconnect
  <2>4. CASE UNCHANGED <<device, row>>
    BY <2>4 DEF NoForgottenRow
  <2> QED
    BY <1>3, <2>1, <2>2, <2>3, <2>4
       DEF OperatorStep, StartApprove, StartBlock, StartDisconnect, ReadDevice, CountApproved
<1>4. ASSUME NEW d \in Devices, DeviceStep(d) PROVE NoForgottenRow'
  <2>1. CASE Unblock(d)
    BY <1>1, <2>1, NoForgottenRelease DEF Unblock
  <2>2. CASE PolicyBlock(d)
    <3>1. \A e \in Devices : device'[e].over = device[e].over
      BY <1>1, <2>2 DEF PolicyBlock, Device
    <3>2. \A p \in Places : row'[p].state = "QUOTA_EXCEEDED" => row[p].state = "QUOTA_EXCEEDED"
      BY <1>1, <2>2, WriteRowsEffect DEF PolicyBlock
    <3> QED
      BY <3>1, <3>2, NoForgottenStay
  <2>3. ASSUME NEW allow \in BOOLEAN, PolicyDisconnect(d, allow) PROVE NoForgottenRow'
    <3>1. \A e \in Devices : device'[e].over = device[e].over
      BY <1>1, <2>3 DEF PolicyDisconnect, Device
    <3>2. \A p \in Places : row'[p].state = "QUOTA_EXCEEDED" => row[p].state = "QUOTA_EXCEEDED"
      BY <1>1, <2>3, WriteRowsEffect DEF PolicyDisconnect
    <3> QED
      BY <3>1, <3>2, NoForgottenStay
  <2>4. ASSUME NEW config, NEW n, SetConfig(d, config, n) \/ AssignNode(d, n) \/ Reject(d)
        PROVE  NoForgottenRow'
    <3>1. \A e \in Devices : device'[e].over = device[e].over
      <4>1. CASE SetConfig(d, config, n)
        BY <1>1, <4>1 DEF SetConfig, Device
      <4>2. CASE AssignNode(d, n)
        BY <1>1, <4>2 DEF AssignNode, Device
      <4>3. CASE Reject(d)
        BY <1>1, <4>3 DEF Reject, Device
      <4> QED
        BY <2>4, <4>1, <4>2, <4>3
    <3> QED
      BY <2>4, <3>1, NoForgottenStay DEF SetConfig, AssignNode, Reject
  <2>5. CASE UNCHANGED <<device, row>>
    BY <2>5 DEF NoForgottenRow
  <2> QED
    BY <1>4, <2>1, <2>2, <2>3, <2>4, <2>5
       DEF DeviceStep, GenerateConfig, RevokeConfig, ExpireConfig, ReportSession
<1>5. ASSUME NEW q \in Quotas, QuotaStep(q) PROVE NoForgottenRow'
  <2>1. CASE Reset(q)
    <3>1. CASE q \in Devices
      BY <1>1, <2>1, <3>1, NoForgottenRelease DEF Reset, RowsReleased
    <3>2. CASE q \notin Devices
      <4>1. \A d \in Devices : device'[d] = device[d]
        BY <1>1, <2>1, <3>2 DEF Reset
      <4>2. \A p \in Places : row'[p] = row[p]
        BY <1>1, <2>1, <3>2, WriteRowsEffect DEF Reset, RowsReleased
      <4> QED
        BY <4>1, <4>2, NoForgottenStay
    <3> QED
      BY <3>1, <3>2
  <2> QED
    BY <1>5, <2>1 DEF QuotaStep, ResetQuota, QuotaPeriodReset, SetQuota, NoForgottenRow
<1>6. ASSUME NEW n \in Nodes, AgentStep(n) PROVE NoForgottenRow'
  <2>1. ASSUME NEW d \in Devices, Ack(n, d) PROVE NoForgottenRow'
    BY <2>1, AckEffect, NoForgottenStay DEF Ack
  <2> QED
    BY <1>6, <2>1 DEF AgentStep, ReadDevices, ReadRows, Reply, NoForgottenRow
<1>7. CASE UpdateSetting
  BY <1>7 DEF UpdateSetting, NoForgottenRow
<1>8. CASE UNCHANGED vars
  BY <1>8 DEF vars, NoForgottenRow
<1> QED
  BY <1>2, <1>3, <1>4, <1>5, <1>6, <1>7, <1>8 DEF Next

\* Whoever releases a device from its quota forgets none of its policy rows.
THEOREM NoRowForgotten == Spec => []NoForgottenRow
<1>1. Init => NoForgottenRow
  BY DEF Init, NoForgottenRow
<1> QED
  BY <1>1, TypeCorrect, NoForgottenNext, PTL DEF Spec

-----------------------------------------------------------------------------
(* A revision names one decision. *)

\* A place without a decision has no revision yet.
RowsBegun == \A p \in Places : row[p].state = "NONE" => row[p].revision = 0

RevisionInv == RowsBegun /\ RevisionNamesDecision

\* What every step does to the rows: none is taken back, and a row decided again moves
\* to a higher revision.
Advance(p) ==
  /\ row'[p].revision >= row[p].revision
  /\ row'[p].state # row[p].state => row'[p].revision > row[p].revision
  /\ row'[p].state = "NONE" => row[p].state = "NONE" /\ row'[p].revision = row[p].revision

LEMMA DecisionAdvances ==
  ASSUME TypeOK, NEW places, NEW state \in RowStates \ {"NONE"}, WriteRows(places, state),
         NEW p \in Places
  PROVE  Advance(p)
<1>1. row[p] \in Row /\ row[p].revision \in Nat /\ row \in [Places -> Row]
  BY DEF TypeOK, Row
<1>2. CASE p \in places
  BY <1>1, <1>2, WriteRowsEffect DEF Advance, RowStates
<1>3. CASE p \notin places
  BY <1>1, <1>3, WriteRowsEffect DEF Advance
<1> QED
  BY <1>2, <1>3

LEMMA RowsAdvance == ASSUME TypeOK, [Next]_vars, NEW p \in Places PROVE Advance(p)
<1>1. ASSUME row'[p].state = row[p].state, row'[p].revision = row[p].revision PROVE Advance(p)
  BY <1>1 DEF Advance, TypeOK, Row
<1>2. CASE row' = row
  BY <1>1, <1>2
<1>3. ASSUME NEW places, NEW state \in {"ACTIVE", "BLOCKED", "QUOTA_EXCEEDED"}, WriteRows(places, state)
      PROVE  Advance(p)
  BY <1>3, DecisionAdvances DEF RowStates
<1>4. ASSUME NEW n \in Nodes, NEW d \in Devices, Ack(n, d) PROVE Advance(p)
  BY <1>1, <1>4, AckEffect
<1>5. ASSUME NEW h \in Ingests, Traffic(h) PROVE Advance(p)
  BY <1>2, <1>3, <1>5
     DEF Traffic, IngestStep, Report, MarkOnline, FindQuotas, CountUsage, Enforce, DatabaseError
<1>6. ASSUME NEW o \in Operators, OperatorStep(o) PROVE Advance(p)
  BY <1>2, <1>3, <1>6 DEF OperatorStep, StartApprove, CountApproved, Approve, StartBlock, Block,
                          StartDisconnect, Disconnect, ReadDevice
<1>7. ASSUME NEW d \in Devices, DeviceStep(d) PROVE Advance(p)
  <2>1. ASSUME NEW allow \in BOOLEAN, PolicyDisconnect(d, allow) PROVE Advance(p)
    BY <1>3, <2>1 DEF PolicyDisconnect
  <2>2. CASE Unblock(d) \/ PolicyBlock(d)
    BY <1>3, <2>2 DEF Unblock, PolicyBlock
  <2> QED
    BY <1>2, <1>7, <2>1, <2>2
       DEF DeviceStep, Reject, ReportSession, GenerateConfig, RevokeConfig, ExpireConfig,
           SetConfig, AssignNode
<1>8. ASSUME NEW q \in Quotas, QuotaStep(q) PROVE Advance(p)
  BY <1>2, <1>3, <1>8 DEF QuotaStep, ResetQuota, QuotaPeriodReset, Reset, SetQuota
<1>9. ASSUME NEW n \in Nodes, AgentStep(n) PROVE Advance(p)
  BY <1>2, <1>4, <1>9 DEF AgentStep, ReadDevices, ReadRows, Reply
<1> QED
  BY <1>2, <1>5, <1>6, <1>7, <1>8, <1>9 DEF Next, UpdateSetting, vars

\* Faithful to the rows after the step.
StillFaithful(d, c) ==
  c.revision > 0 => /\ c.revision <= row'[<<d, c.key>>].revision
                    /\ c.revision = row'[<<d, c.key>>].revision => c.state = row'[<<d, c.key>>].state

\* A faithful copy stays faithful.
LEMMA FaithfulStays ==
  ASSUME TypeOK, TypeOK', [Next]_vars, NEW d \in Devices, NEW c \in Copy, Faithful(d, c)
  PROVE  StillFaithful(d, c)
<1> DEFINE p == <<d, c.key>>
<1>1. p \in Places /\ c.revision \in Nat
  BY DEF Places, Copy
<1>2. row[p].revision \in Nat /\ row'[p].revision \in Nat
  BY <1>1 DEF TypeOK, Row
<1>3. Advance(p)
  BY <1>1, RowsAdvance
<1> QED
  BY <1>1, <1>2, <1>3 DEF Faithful, StillFaithful, Advance

\* A copy is faithful when it is read.
LEMMA FreshIsFaithful ==
  ASSUME TypeOK, NEW d \in Devices, NEW rows \in SUBSET Places, NEW c, LatestRow(d, rows, c)
  PROVE  Faithful(d, c)
<1>1. CASE c = NoCopy
  BY <1>1 DEF NoCopy, Faithful
<1>2. ASSUME NEW k \in Keys,
             c = [key |-> k, state |-> row[<<d, k>>].state, revision |-> row[<<d, k>>].revision]
      PROVE  Faithful(d, c)
  <2>1. row[<<d, k>>].revision \in Nat
    BY DEF TypeOK, Row, Places
  <2> QED
    BY <1>2, <2>1 DEF Faithful
<1> QED
  BY <1>1, <1>2 DEF LatestRow

LEMMA RevisionNext == TypeOK /\ TypeOK' /\ RevisionInv /\ [Next]_vars => RevisionInv'
<1> SUFFICES ASSUME TypeOK, TypeOK', RevisionInv, [Next]_vars PROVE RevisionInv'
  OBVIOUS
<1>1. RowsBegun'
  BY RowsAdvance DEF Advance, RowsBegun, RevisionInv
<1> SUFFICES RevisionNamesDecision'
  BY <1>1 DEF RevisionInv
<1>2. \A n \in Nodes, d \in Devices :
        pull[n].copy[d] \in Copy /\ agent[n].copy[d] \in Copy
  BY DEF TypeOK, Pull, Agent
<1>3. \A n \in Nodes, d \in Devices :
        Faithful(d, pull[n].copy[d]) /\ Faithful(d, agent[n].copy[d])
  BY DEF RevisionInv, RevisionNamesDecision
<1>4. ASSUME NEW d \in Devices, NEW c, (c \in Copy /\ Faithful(d, c)) \/ c = NoCopy
      PROVE  StillFaithful(d, c)
  <2>1. NoCopy.revision = 0
    BY DEF NoCopy
  <2>2. CASE c = NoCopy
    BY <2>1, <2>2 DEF StillFaithful
  <2>3. CASE c \in Copy /\ Faithful(d, c)
    BY <2>3, FaithfulStays
  <2> QED
    BY <1>4, <2>2, <2>3
<1>5. ASSUME \A n \in Nodes, d \in Devices :
               /\ \/ pull'[n].copy[d] \in {pull[n].copy[d], NoCopy}
                  \/ row' = row /\ Faithful(d, pull'[n].copy[d])
               /\ agent'[n].copy[d] \in {pull[n].copy[d], agent[n].copy[d]}
      PROVE  RevisionNamesDecision'
  <2>1. ASSUME NEW n \in Nodes, NEW d \in Devices
        PROVE  StillFaithful(d, pull'[n].copy[d]) /\ StillFaithful(d, agent'[n].copy[d])
    <3>1. StillFaithful(d, pull[n].copy[d]) /\ StillFaithful(d, agent[n].copy[d])
          /\ StillFaithful(d, NoCopy)
      BY <1>2, <1>3, <1>4
    <3>2. row' = row /\ Faithful(d, pull'[n].copy[d]) => StillFaithful(d, pull'[n].copy[d])
      BY DEF Faithful, StillFaithful
    <3> QED
      BY <1>5, <3>1, <3>2
  <2> QED
    BY <2>1 DEF RevisionNamesDecision, Faithful, StillFaithful
<1>6. CASE UNCHANGED <<pull, agent>>
  BY <1>5, <1>6
<1>7. ASSUME NEW n \in Nodes, AgentStep(n) PROVE RevisionNamesDecision'
  <2>1. CASE ReadDevices(n)
    <3>1. \A m \in Nodes : pull'[m].copy = pull[m].copy
      <4>1. \A old \in Pull : \A verdict : [old EXCEPT !.devices = TRUE, !.verdict = verdict].copy = old.copy
        BY DEF Pull
      <4>2. pull \in [Nodes -> Pull]
        BY DEF TypeOK
      <4> QED
        BY <2>1, <4>1, <4>2 DEF ReadDevices
    <3> QED
      BY <1>5, <2>1, <3>1 DEF ReadDevices
  <2>2. CASE ReadRows(n)
    <3>1. PICK copy \in [Devices -> Copies], top \in {0} \cup Revisions(n) :
            /\ \A d \in Devices : LatestRow(d, RowsFor(n), copy[d])
            /\ pull' = [pull EXCEPT ![n] = [@ EXCEPT !.rows = TRUE, !.copy = copy, !.top = top]]
      BY <2>2 DEF ReadRows
    <3>2. \A d \in Devices : Faithful(d, copy[d])
      <4>1. RowsFor(n) \in SUBSET Places
        BY DEF RowsFor
      <4> QED
        BY <3>1, <4>1, FreshIsFaithful
    <3>3. \A m \in Nodes : pull'[m].copy = IF m = n THEN copy ELSE pull[m].copy
      BY <3>1 DEF TypeOK, Pull
    <3> QED
      BY <1>5, <2>2, <3>2, <3>3 DEF ReadRows
  <2>3. CASE Reply(n)
    <3>1. \A m \in Nodes, d \in Devices :
            /\ pull'[m].copy[d] = IF m = n THEN NoCopy ELSE pull[m].copy[d]
            /\ agent'[m].copy[d] = IF m = n THEN pull[m].copy[d] ELSE agent[m].copy[d]
      BY <2>3 DEF Reply, TypeOK, NoPull
    <3> QED
      BY <1>5, <3>1
  <2>4. ASSUME NEW d \in Devices, Ack(n, d) PROVE RevisionNamesDecision'
    <3>1. \A m \in Nodes : agent'[m].copy = agent[m].copy
      BY <2>4 DEF Ack, TypeOK, Agent
    <3> QED
      BY <1>5, <2>4, <3>1 DEF Ack
  <2> QED
    BY <1>7, <2>1, <2>2, <2>3, <2>4 DEF AgentStep
<1>8. CASE \E h \in Ingests : Traffic(h)
  BY <1>6, <1>8 DEF Traffic, IngestStep, Report, MarkOnline, FindQuotas, CountUsage, Enforce, DatabaseError
<1>9. CASE \E o \in Operators : OperatorStep(o)
  BY <1>6, <1>9 DEF OperatorStep, StartApprove, CountApproved, Approve, StartBlock, Block,
                    StartDisconnect, Disconnect, ReadDevice
<1>10. CASE \E d \in Devices : DeviceStep(d)
  BY <1>6, <1>10 DEF DeviceStep, Reject, Unblock, PolicyBlock, PolicyDisconnect, ReportSession,
                     GenerateConfig, RevokeConfig, ExpireConfig, SetConfig, AssignNode
<1>11. CASE \E q \in Quotas : QuotaStep(q)
  BY <1>6, <1>11 DEF QuotaStep, ResetQuota, QuotaPeriodReset, Reset, SetQuota
<1> QED
  BY <1>6, <1>7, <1>8, <1>9, <1>10, <1>11 DEF Next, UpdateSetting, vars

LEMMA RevisionInit == Init => RevisionInv
<1> SUFFICES ASSUME Init PROVE RevisionInv
  OBVIOUS
<1>1. RowsBegun
  BY DEF Init, RowsBegun
<1>2. \A n \in Nodes, d \in Devices : pull[n].copy[d] = NoCopy /\ agent[n].copy[d] = NoCopy
  BY DEF Init, NoPull, NoAgent
<1> QED
  BY <1>1, <1>2 DEF RevisionInv, RevisionNamesDecision, Faithful, NoCopy

\* However many writers decide between a pull and its use, a revision names one decision.
THEOREM RevisionNames == Spec => []RevisionNamesDecision
<1>1. RevisionInv => RevisionNamesDecision
  BY DEF RevisionInv
<1> QED
  BY <1>1, TypeCorrect, RevisionInit, RevisionNext, PTL DEF Spec

\* An agent that sees no drift holds the current state of every row that carried the
\* highest revision of its last pull.
THEOREM QuietMeansTopCurrent == Spec => []QuietTopIsCurrent
<1>1. TypeOK /\ RevisionInv => QuietTopIsCurrent
  <2> SUFFICES ASSUME TypeOK, RevisionInv, NEW n \in Agents, NEW d \in Devices,
                      agent[n].copy[d].revision > 0, ~Drift(n),
                      agent[n].copy[d].revision = agent[n].revision,
                      InScope(n, <<d, agent[n].copy[d].key>>)
               PROVE  row[<<d, agent[n].copy[d].key>>].state = agent[n].copy[d].state
    BY DEF QuietTopIsCurrent
  <2> DEFINE c == agent[n].copy[d]
             p == <<d, c.key>>
  <2>1. n \in Nodes /\ c \in Copy /\ p \in Places
    BY DEF TypeOK, Agent, Copy, Places
  <2>2. c.revision \in Nat /\ row[p].revision \in Nat
    BY <2>1 DEF TypeOK, Copy, Row
  <2>3. c.revision <= row[p].revision /\ (c.revision = row[p].revision => c.state = row[p].state)
    BY <2>1 DEF RevisionInv, RevisionNamesDecision, Faithful
  <2>4. row[p].state # "NONE"
    BY <2>1, <2>2, <2>3 DEF RevisionInv, RowsBegun
  <2>5. row[p].revision <= agent[n].revision
    BY <2>1, <2>4 DEF Drift, IsTop, Revisions, RowsFor
  <2> QED
    BY <2>2, <2>3, <2>5
<1> QED
  BY <1>1, TypeCorrect, RevisionInit, RevisionNext, PTL DEF Spec

-----------------------------------------------------------------------------
(* How far a quota of a device is overrun.  Until it is marked as          *)
(* exceeded, each report beyond the limit has its enforcement pending, or  *)
(* it failed.  Once it is marked its device is over, so that no batch is   *)
(* started on it, and no batch has both a report to count against it and   *)
(* its enforcement pending.                                                *)

\* The batches that may still count a report against a quota, and those about to
\* enforce it.
Coming(q) ==
  {h \in Ingests : \/ ingest[h].step \in {"online", "find"} /\ ingest[h].device = q
                   \/ q \in ingest[h].left}
Pending(q) == {h \in Ingests : q \in ingest[h].breached}

\* A batch counts each quota that covers its device once, and enforces one at a time.
Batch(i) ==
  /\ i.step # "idle" => i.device \in Devices
  /\ i.left \cup i.breached \subseteq {i.device, Shared}
  /\ \A p \in i.breached : p \notin i.left /\ i.breached = {p}
  /\ \A p \in i.left \cup i.breached : quota[p].exists
  /\ i.step # "enforce" => i.breached = {}
  /\ i.step \in {"idle", "online", "find"} => i.left = {}
  /\ i.step \in {"count", "enforce"} => i.on \/ Quotas \subseteq waived
Batches == \A h \in Ingests : Batch(ingest[h])

Unmade ==
  \A q \in Quotas :
    ~quota[q].exists => quota[q].used = 0 /\ ~quota[q].exceeded /\ ~quota[q].enabled
Switched == enforcing \/ Quotas \subseteq waived

Held(q) ==
  /\ quota[q].exceeded => device[q].over
  /\ quota[q].enabled /\ quota[q].limit > 0 =>
       IF quota[q].exceeded
       THEN quota[q].used + Cardinality(Coming(q)) < quota[q].limit + Cardinality(Ingests) + faults
       ELSE quota[q].used < quota[q].limit + Cardinality(Pending(q)) + faults
Watched == (Quotas \cap Devices) \ waived
Tight == TypeOK /\ Batches /\ Unmade /\ Switched /\ \A q \in Watched : Held(q)

LEMMA Counts ==
  ASSUME NEW S \in SUBSET Ingests
  PROVE  /\ IsFiniteSet(S) /\ Cardinality(S) \in Nat /\ Cardinality(Ingests) \in Nat
         /\ Cardinality(S) <= Cardinality(Ingests)
BY IngestsAssumption, FS_Subset, FS_CardinalityType

LEMMA Fewer ==
  ASSUME NEW T \in SUBSET Ingests, NEW S \in SUBSET T
  PROVE  Cardinality(S) <= Cardinality(T)
BY Counts, FS_Subset

LEMMA OneFewer ==
  ASSUME NEW T \in SUBSET Ingests, NEW S \in SUBSET Ingests, NEW h \in T, S \subseteq T \ {h}
  PROVE  Cardinality(S) + 1 <= Cardinality(T)
<1>1. IsFiniteSet(T) /\ Cardinality(T) \in Nat /\ Cardinality(S) \in Nat
  BY Counts
<1>2. IsFiniteSet(T \ {h}) /\ Cardinality(T \ {h}) = Cardinality(T) - 1
  BY <1>1, FS_RemoveElement
<1>3. Cardinality(S) <= Cardinality(T \ {h})
  BY <1>2, FS_Subset
<1> QED
  BY <1>1, <1>2, <1>3

LEMMA AtMostOneFewer ==
  ASSUME NEW T \in SUBSET Ingests, NEW S \in SUBSET Ingests, NEW h, T \subseteq S \cup {h}
  PROVE  Cardinality(T) <= Cardinality(S) + 1
<1>1. IsFiniteSet(S) /\ Cardinality(T) \in Nat /\ Cardinality(S) \in Nat
  BY Counts
<1>2. IsFiniteSet(S \cup {h}) /\ Cardinality(S \cup {h}) \in {Cardinality(S), Cardinality(S) + 1}
  BY <1>1, FS_AddElement
<1>3. Cardinality(T) <= Cardinality(S \cup {h})
  BY <1>2, FS_Subset
<1> QED
  BY <1>1, <1>2, <1>3

LEMMA Separate ==
  ASSUME NEW T \in SUBSET Ingests, NEW S \in SUBSET Ingests, S \cap T = {}
  PROVE  Cardinality(S) + Cardinality(T) <= Cardinality(Ingests)
<1>1. /\ IsFiniteSet(S) /\ IsFiniteSet(T) /\ S \cup T \in SUBSET Ingests
      /\ Cardinality(S) \in Nat /\ Cardinality(T) \in Nat
  BY Counts
<1>2. Cardinality(S \cup T) = Cardinality(S) + Cardinality(T) - Cardinality(S \cap T)
  BY <1>1, FS_Union
<1>3. Cardinality(S \cap T) = 0 /\ Cardinality(S \cup T) <= Cardinality(Ingests)
  BY <1>1, FS_EmptySet, Counts
<1> QED
  BY <1>1, <1>2, <1>3

LEMMA TightInit == WatchedInit => Tight
<1> SUFFICES ASSUME WatchedInit PROVE Tight
  OBVIOUS
<1>1. TypeOK
  BY TypeInit DEF WatchedInit
<1>2. Batches
  BY DEF WatchedInit, Init, Batches, Batch, NoIngest
<1>3. \A q \in Watched : Held(q)
  <2>1. ASSUME NEW q \in Watched PROVE ~quota[q].exceeded /\ ~quota[q].enabled
    BY <2>1 DEF WatchedInit, Init, Watched
  <2> QED
    BY <2>1 DEF Held
<1> QED
  BY <1>1, <1>2, <1>3 DEF Tight, WatchedInit, Init, Unmade, Switched

\* The steps that write to a quota, and those of a batch.
LEMMA QuotaMoves ==
  ASSUME [Next]_vars
  PROVE  \/ UNCHANGED quota
         \/ \E h \in Ingests, q \in Quotas : CountUsage(h, q) \/ Enforce(h, q)
         \/ \E o \in Operators, limit \in Limits \cup {0} : Approve(o, limit)
         \/ \E q \in Quotas, limit \in Limits, enabled \in BOOLEAN : SetQuota(q, limit, enabled)
         \/ \E q \in Quotas : Reset(q)
<1>1. ASSUME NEW h \in Ingests, Traffic(h)
      PROVE  UNCHANGED quota \/ \E q \in Quotas : CountUsage(h, q) \/ Enforce(h, q)
  BY <1>1 DEF Traffic, IngestStep, Report, MarkOnline, FindQuotas, DatabaseError
<1>2. ASSUME NEW o \in Operators, OperatorStep(o)
      PROVE  UNCHANGED quota \/ \E limit \in Limits \cup {0} : Approve(o, limit)
  BY <1>2 DEF OperatorStep, StartApprove, ReadDevice, CountApproved, StartBlock, StartDisconnect, Block, Disconnect
<1>3. ASSUME NEW d \in Devices, DeviceStep(d) PROVE UNCHANGED quota
  BY <1>3 DEF DeviceStep, Reject, Unblock, PolicyBlock, ReportSession, RevokeConfig, ExpireConfig,
     SetConfig, PolicyDisconnect, AssignNode, GenerateConfig
<1>4. ASSUME NEW q \in Quotas, QuotaStep(q)
      PROVE  \/ \E limit \in Limits, enabled \in BOOLEAN : SetQuota(q, limit, enabled)
             \/ Reset(q)
  BY <1>4 DEF QuotaStep, ResetQuota, QuotaPeriodReset
<1>5. ASSUME NEW n \in Nodes, AgentStep(n) PROVE UNCHANGED quota
  BY <1>5 DEF AgentStep, ReadDevices, ReadRows, Reply, Ack
<1> QED
  BY <1>1, <1>2, <1>3, <1>4, <1>5 DEF Next, UpdateSetting, vars

LEMMA BatchMoves ==
  ASSUME [Next]_vars
  PROVE  UNCHANGED <<ingest, faults>> \/ \E h \in Ingests : Traffic(h)
<1>2. ASSUME NEW o \in Operators, OperatorStep(o) PROVE UNCHANGED <<ingest, faults>>
  BY <1>2 DEF OperatorStep, StartApprove, ReadDevice, CountApproved, Approve, StartBlock, StartDisconnect, Block, Disconnect
<1>3. ASSUME NEW d \in Devices, DeviceStep(d) PROVE UNCHANGED <<ingest, faults>>
  BY <1>3 DEF DeviceStep, Reject, Unblock, PolicyBlock, ReportSession, RevokeConfig, ExpireConfig,
     SetConfig, PolicyDisconnect, AssignNode, GenerateConfig
<1>4. ASSUME NEW q \in Quotas, QuotaStep(q) PROVE UNCHANGED <<ingest, faults>>
  BY <1>4 DEF QuotaStep, ResetQuota, QuotaPeriodReset, Reset, SetQuota
<1>5. ASSUME NEW n \in Nodes, AgentStep(n) PROVE UNCHANGED <<ingest, faults>>
  BY <1>5 DEF AgentStep, ReadDevices, ReadRows, Reply, Ack
<1> QED
  BY <1>2, <1>3, <1>4, <1>5 DEF Next, UpdateSetting, vars

\* What the rest of a batch is left with.
LEMMA CountingIs ==
  ASSUME NEW i \in Ingest, NEW left \in SUBSET Quotas
  PROVE  LET j == Counting(i, left)
         IN  /\ j \in Ingest /\ j.left = left /\ j.breached = {} /\ j.step \in {"idle", "count"}
             /\ j.step = "idle" => left = {}
             /\ j.step = "count" => j.device = i.device /\ j.on = i.on
BY DEF Counting, NoIngest, Ingest, Keys

\* What may become of a quota: nothing, a report, an enforcement, new columns beside the
\* usage, or a fresh start.
Quiet(q) ==
  \/ quota'[q] = quota[q]
  \/ /\ quota[q].exists /\ quota'[q].exists
     /\ quota'[q].used = quota[q].used /\ quota'[q].exceeded = quota[q].exceeded
  \/ quota'[q].exists /\ quota'[q].used = 0 /\ ~quota'[q].exceeded

LEMMA QuotaChange ==
  ASSUME TypeOK, Unmade, [Next]_vars, NEW q \in Quotas
  PROVE  Quiet(q) \/ \E h \in Ingests : CountUsage(h, q) \/ Enforce(h, q)
<1>0. quota \in [Quotas -> Quota] /\ quota[q] \in Quota
  BY DEF TypeOK
<1>1. ASSUME NEW h \in Ingests, NEW p \in Quotas, CountUsage(h, p) \/ Enforce(h, p), p # q
      PROVE  quota'[q] = quota[q]
  BY <1>0, <1>1 DEF CountUsage, Enforce
<1>2. ASSUME NEW o \in Operators, NEW limit \in Limits \cup {0}, Approve(o, limit) PROVE Quiet(q)
  BY <1>0, <1>2 DEF Approve, Quiet
<1>3. ASSUME NEW p \in Quotas, NEW limit \in Limits, NEW enabled \in BOOLEAN,
             SetQuota(p, limit, enabled)
      PROVE  Quiet(q)
  <2>1. CASE p # q
    BY <1>0, <1>3, <2>1 DEF SetQuota, Quiet
  <2>2. CASE p = q
    <3>1. quota'[q] = [quota[q] EXCEPT !.exists = TRUE, !.enabled = enabled, !.limit = limit]
      BY <1>0, <1>3, <2>2 DEF SetQuota
    <3>2. quota'[q].exists /\ quota'[q].used = quota[q].used /\ quota'[q].exceeded = quota[q].exceeded
      BY <1>0, <3>1 DEF Quota
    <3> QED
      BY <3>2 DEF Quiet, Unmade
  <2> QED
    BY <2>1, <2>2
<1>4. ASSUME NEW p \in Quotas, Reset(p) PROVE Quiet(q)
  <2>1. CASE p # q
    BY <1>0, <1>4, <2>1 DEF Reset, Quiet
  <2>2. CASE p = q
    <3>1. quota'[q] = [quota[q] EXCEPT !.used = 0, !.exceeded = FALSE] /\ quota[q].exists
      BY <1>0, <1>4, <2>2 DEF Reset
    <3>2. quota'[q].exists /\ quota'[q].used = 0 /\ ~quota'[q].exceeded
      BY <1>0, <3>1 DEF Quota
    <3> QED
      BY <3>2 DEF Quiet
  <2> QED
    BY <2>1, <2>2
<1> QED
  BY <1>1, <1>2, <1>3, <1>4, QuotaMoves DEF Quiet

\* A quota that was made stays, and one that was not has counted nothing.
LEMMA MadeStays ==
  ASSUME TypeOK, Unmade, Batches, [Next]_vars
  PROVE  Unmade' /\ \A q \in Quotas : quota[q].exists => quota'[q].exists
<1> SUFFICES ASSUME NEW q \in Quotas
             PROVE  /\ quota[q].exists => quota'[q].exists
                    /\ ~quota'[q].exists =>
                         quota'[q].used = 0 /\ ~quota'[q].exceeded /\ ~quota'[q].enabled
  BY DEF Unmade
<1>0. quota \in [Quotas -> Quota] /\ quota[q] \in Quota
  BY DEF TypeOK
<1>1. CASE Quiet(q)
  BY <1>1 DEF Quiet, Unmade
<1>2. ASSUME NEW h \in Ingests, CountUsage(h, q) \/ Enforce(h, q)
      PROVE  quota[q].exists /\ quota'[q].exists
  <2>1. q \in ingest[h].left \cup ingest[h].breached /\ quota[q].exists
    BY <1>2 DEF CountUsage, Enforce, Batches, Batch
  <2>2. quota'[q] \in {Added(quota[q]), [quota[q] EXCEPT !.exceeded = TRUE]}
    BY <1>0, <1>2 DEF CountUsage, Enforce
  <2>3. \A a \in Quota : Added(a).exists = a.exists /\ [a EXCEPT !.exceeded = TRUE].exists = a.exists
    BY DEF Quota, Added
  <2> QED
    BY <1>0, <2>1, <2>2, <2>3
<1> QED
  BY <1>1, <1>2, QuotaChange

LEMMA BatchStays ==
  ASSUME TypeOK, NEW g \in Ingests, Batch(ingest[g]), ingest'[g] = ingest[g], waived \subseteq waived',
         \A q \in Quotas : quota[q].exists => quota'[q].exists
  PROVE  Batch(ingest[g])'
<1>1. ingest[g].left \cup ingest[g].breached \subseteq Quotas
  BY DEF TypeOK, Ingest
<1> QED
  BY <1>1 DEF Batch

\* A batch goes on as the code cuts it into statements.
LEMMA BatchesNext ==
  ASSUME TypeOK, Batches, Unmade, Switched, [Next]_vars, waived \subseteq waived'
  PROVE  Batches'
<1>0. /\ \A q \in Quotas : quota[q].exists => quota'[q].exists
      /\ ingest \in [Ingests -> Ingest] /\ \A g \in Ingests : ingest[g] \in Ingest /\ Batch(ingest[g])
  BY MadeStays DEF TypeOK, Batches
<1>1. CASE UNCHANGED ingest
  BY <1>0, <1>1, BatchStays DEF Batches
<1>2. ASSUME NEW h \in Ingests, NEW i, ingest' = [ingest EXCEPT ![h] = i], Batch(ingest[h])'
      PROVE  Batches'
  <2>1. ASSUME NEW g \in Ingests, g # h PROVE Batch(ingest[g])'
    BY <1>0, <1>2, <2>1, BatchStays
  <2> QED
    BY <1>2, <2>1 DEF Batches
<1>3. ASSUME NEW h \in Ingests, NEW i, ingest' = [ingest EXCEPT ![h] = i],
             i.left = {}, i.breached = {}, i.step # "idle" => i.device \in Devices,
             i.step \notin {"count", "enforce"}
      PROVE  Batches'
  <2>1. ingest'[h] = i
    BY <1>0, <1>3
  <2>2. Batch(ingest[h])'
    BY <1>3, <2>1 DEF Batch
  <2> QED
    BY <1>2, <1>3, <2>2
<1>4. ASSUME NEW h \in Ingests, NEW d \in Devices, NEW n \in Nodes, Report(h, d, n)
      PROVE  Batches'
  <2> DEFINE i == [NoIngest EXCEPT !.step = "online", !.device = d, !.node = n]
  <2>1. ingest' = [ingest EXCEPT ![h] = i]
    BY <1>4 DEF Report
  <2>2. i.left = {} /\ i.breached = {} /\ i.device = d /\ i.step = "online"
    BY DEF NoIngest
  <2> HIDE DEF i
  <2> QED
    BY <1>3, <2>1, <2>2
<1>5. ASSUME NEW h \in Ingests, MarkOnline(h) PROVE Batches'
  <2> DEFINE i == [ingest[h] EXCEPT !.step = "find"]
  <2>1. ingest' = [ingest EXCEPT ![h] = i] /\ ingest[h].step = "online"
    BY <1>5 DEF MarkOnline
  <2>2. /\ i.left = ingest[h].left /\ i.breached = ingest[h].breached
        /\ i.device = ingest[h].device /\ i.step = "find"
    BY <1>0 DEF Ingest
  <2>3. ingest[h].left = {} /\ ingest[h].breached = {} /\ ingest[h].device \in Devices
    BY <1>0, <2>1 DEF Batch
  <2> HIDE DEF i
  <2> QED
    BY <1>3, <2>1, <2>2, <2>3
<1>6. ASSUME NEW h \in Ingests, NEW base \in Ingest, NEW left \in SUBSET Quotas,
             ingest' = [ingest EXCEPT ![h] = Counting(base, left)],
             base.device \in Devices, left \subseteq {base.device, Shared},
             \A p \in left : quota[p].exists, base.on \/ Quotas \subseteq waived
      PROVE  Batches'
  <2> DEFINE i == Counting(base, left)
  <2>1. /\ i.left = left /\ i.breached = {} /\ i.step \in {"idle", "count"}
        /\ i.step = "idle" => left = {}
        /\ i.step = "count" => i.device = base.device /\ i.on = base.on
    BY <1>6, CountingIs
  <2>2. ingest' = [ingest EXCEPT ![h] = i]
    BY <1>6
  <2> HIDE DEF i
  <2>3. CASE i.step = "idle"
    BY <1>3, <2>1, <2>2, <2>3
  <2>4. CASE i.step = "count"
    <3>1. ingest'[h] = i /\ \A p \in left : quota'[p].exists
      BY <1>0, <1>6, <2>2
    <3>2. Batch(ingest[h])'
      BY <1>6, <2>1, <2>4, <3>1 DEF Batch
    <3> QED
      BY <1>2, <2>2, <3>2
  <2> QED
    BY <2>1, <2>3, <2>4
<1>7. ASSUME NEW h \in Ingests, FindQuotas(h) PROVE Batches'
  <2> DEFINE base == [ingest[h] EXCEPT !.on = enforcing]
             left == Covering(ingest[h].device)
  <2>1. ingest' = [ingest EXCEPT ![h] = Counting(base, left)] /\ ingest[h].step = "find"
    BY <1>7 DEF FindQuotas
  <2>2. base \in Ingest /\ base.device = ingest[h].device /\ base.on = enforcing
    BY <1>0 DEF TypeOK, Ingest
  <2>3. /\ left \in SUBSET Quotas /\ left \subseteq {ingest[h].device, Shared}
        /\ \A p \in left : quota[p].exists
    BY DEF Covering, Unmade
  <2>4. ingest[h].device \in Devices
    BY <1>0, <2>1 DEF Batch
  <2> HIDE DEF base, left
  <2> QED
    BY <1>6, <2>1, <2>2, <2>3, <2>4 DEF Switched
<1>8. ASSUME NEW h \in Ingests, NEW q \in Quotas, CountUsage(h, q) PROVE Batches'
  <2> DEFINE left == ingest[h].left \ {q}
  <2>1. /\ q \in ingest[h].left /\ ingest[h].device \in Devices /\ left \in SUBSET Quotas
        /\ ingest[h].left \subseteq {ingest[h].device, Shared}
        /\ \A p \in ingest[h].left : quota[p].exists
        /\ ingest[h].on \/ Quotas \subseteq waived
    BY <1>0, <1>8 DEF CountUsage, Batch, Ingest
  <2>2. CASE MustEnforce(Added(quota[q])) /\ ingest[h].on
    <3> DEFINE i == [ingest[h] EXCEPT !.step = "enforce", !.left = ingest[h].left \ {q}, !.breached = {q}]
    <3>1. ingest' = [ingest EXCEPT ![h] = i]
      BY <1>8, <2>2 DEF CountUsage
    <3>2. /\ i.step = "enforce" /\ i.left = left /\ i.breached = {q} /\ i.device = ingest[h].device
          /\ i.on = ingest[h].on
      BY <1>0 DEF Ingest
    <3> HIDE DEF i
    <3>3. ingest'[h] = i /\ \A p \in left \cup {q} : quota'[p].exists
      BY <1>0, <2>1, <3>1
    <3>4. Batch(ingest[h])'
      BY <2>1, <2>2, <3>2, <3>3 DEF Batch
    <3> QED
      BY <1>2, <3>1, <3>4
  <2>3. CASE ~(MustEnforce(Added(quota[q])) /\ ingest[h].on)
    <3>1. ingest' = [ingest EXCEPT ![h] = Counting(ingest[h], left)]
      BY <1>8, <2>3 DEF CountUsage
    <3> HIDE DEF left
    <3>2. left \subseteq ingest[h].left
      BY DEF left
    <3> QED
      BY <1>0, <1>6, <2>1, <3>1, <3>2
  <2> QED
    BY <2>2, <2>3
<1>9. ASSUME NEW h \in Ingests, NEW q \in Quotas, Enforce(h, q) PROVE Batches'
  <2>1. /\ ingest' = [ingest EXCEPT ![h] = Counting(ingest[h], ingest[h].left)]
        /\ ingest[h].step = "enforce"
    BY <1>9 DEF Enforce
  <2>2. /\ ingest[h].device \in Devices /\ ingest[h].left \in SUBSET Quotas
        /\ ingest[h].left \subseteq {ingest[h].device, Shared}
        /\ \A p \in ingest[h].left : quota[p].exists
        /\ ingest[h].on \/ Quotas \subseteq waived
    BY <1>0, <2>1 DEF Batch, Ingest
  <2> QED
    BY <1>0, <1>6, <2>1, <2>2
<1>10. ASSUME NEW h \in Ingests, DatabaseError(h) PROVE Batches'
  <2>1. ingest' = [ingest EXCEPT ![h] = NoIngest]
    BY <1>10 DEF DatabaseError
  <2>2. NoIngest.left = {} /\ NoIngest.breached = {} /\ NoIngest.step = "idle"
    BY DEF NoIngest
  <2> QED
    BY <1>3, <2>1, <2>2
<1> QED
  BY <1>1, <1>4, <1>5, <1>7, <1>8, <1>9, <1>10, BatchMoves DEF Traffic, IngestStep

LEMMA QuotaNumbers ==
  ASSUME NEW a \in Quota
  PROVE  /\ a.used \in Nat /\ a.limit \in Nat
         /\ a.exceeded \in BOOLEAN /\ a.enabled \in BOOLEAN /\ a.exists \in BOOLEAN
<1>1. a.used \in Usages /\ a.limit \in Limits \cup {0}
  BY DEF Quota
<1>2. a.exceeded \in BOOLEAN /\ a.enabled \in BOOLEAN /\ a.exists \in BOOLEAN
  BY DEF Quota
<1>3. Usages \subseteq Nat
  BY DEF Usages
<1>4. Limits \cup {0} \subseteq Nat
  OBVIOUS
<1> QED
  BY <1>1, <1>2, <1>3, <1>4

\* A step that counts nothing against a quota leaves it as little overrun as it was,
\* if it starts no batch on it and forgets no enforcement but by a fault.
LEMMA HeldStays ==
  ASSUME TypeOK, TypeOK', NEW q \in Quotas \cap Devices, Held(q), Quiet(q), ~Waives(q),
         Cardinality(Coming(q)') <= Cardinality(Coming(q)), faults <= faults',
         Cardinality(Pending(q)) + faults <= Cardinality(Pending(q)') + faults'
  PROVE  Held(q)'
<1>1. /\ Coming(q) \in SUBSET Ingests /\ Coming(q)' \in SUBSET Ingests
      /\ Pending(q) \in SUBSET Ingests /\ Pending(q)' \in SUBSET Ingests
  BY DEF Coming, Pending
<1>2. /\ Cardinality(Coming(q)) \in Nat /\ Cardinality(Coming(q)') \in Nat
      /\ Cardinality(Pending(q)) \in Nat /\ Cardinality(Pending(q)') \in Nat
      /\ Cardinality(Ingests) \in Nat
  BY <1>1, Counts
<1>3. /\ quota[q].used \in Nat /\ quota'[q].used \in Nat /\ faults \in Nat /\ faults' \in Nat
      /\ quota[q].limit \in Nat /\ quota'[q].limit \in Nat
      /\ quota[q].exceeded \in BOOLEAN /\ quota'[q].exceeded \in BOOLEAN
  <2>2. quota[q] \in Quota /\ quota'[q] \in Quota /\ faults \in Nat /\ faults' \in Nat
    BY DEF TypeOK
  <2> QED
    BY <2>2, QuotaNumbers
<1>4. CASE quota'[q].used = 0 /\ ~quota'[q].exceeded
  BY <1>2, <1>3, <1>4 DEF Held
<1>5. CASE /\ quota'[q].used = quota[q].used /\ quota'[q].exceeded = quota[q].exceeded
           /\ quota'[q].limit = quota[q].limit /\ quota'[q].enabled = quota[q].enabled
  <2>1. quota'[q].exceeded => device'[q].over
    BY <1>5 DEF Held, Waives
  <2>2. CASE quota[q].exceeded
    BY <1>2, <1>3, <1>5, <2>1, <2>2 DEF Held
  <2>3. CASE ~quota[q].exceeded
    BY <1>2, <1>3, <1>5, <2>1, <2>3 DEF Held
  <2> QED
    BY <2>2, <2>3
<1> QED
  BY <1>4, <1>5 DEF Quiet, Waives

\* One batch goes on, and what that is to the sets of a quota.
LEMMA OneBatch ==
  ASSUME NEW h \in Ingests, \A g \in Ingests \ {h} : ingest'[g] = ingest[g], NEW q
  PROVE  /\ (h \in Coming(q)' => h \in Coming(q)) => Coming(q)' \subseteq Coming(q)
         /\ (h \in Pending(q) => h \in Pending(q)') => Pending(q) \subseteq Pending(q)'
         /\ Pending(q) \subseteq Pending(q)' \cup {h}
BY DEF Coming, Pending

LEMMA HeldByOthers ==
  ASSUME TypeOK, TypeOK', NEW h \in Ingests, NEW i, ingest' = [ingest EXCEPT ![h] = i], faults' = faults,
         NEW q \in Quotas \cap Devices, Held(q), Quiet(q), ~Waives(q),
         h \in Coming(q)' => h \in Coming(q), h \in Pending(q) => h \in Pending(q)'
  PROVE  Held(q)'
<1>1. \A g \in Ingests \ {h} : ingest'[g] = ingest[g]
  BY DEF TypeOK
<1>2. /\ Coming(q) \in SUBSET Ingests /\ Pending(q)' \in SUBSET Ingests
      /\ Coming(q)' \subseteq Coming(q) /\ Pending(q) \subseteq Pending(q)'
  BY <1>1, OneBatch DEF Coming, Pending
<1>3. Cardinality(Coming(q)') <= Cardinality(Coming(q)) /\ Cardinality(Pending(q)) <= Cardinality(Pending(q)')
  BY <1>2, Fewer
<1>4. Cardinality(Pending(q)) \in Nat /\ Cardinality(Pending(q)') \in Nat /\ faults \in Nat
  BY <1>2, Counts DEF TypeOK
<1> QED
  BY <1>3, <1>4, HeldStays

\* The report that takes a quota over its limit has its enforcement pending at once.
LEMMA HeldByCount ==
  ASSUME TypeOK, TypeOK', Batches, NEW h \in Ingests, NEW q \in Watched, CountUsage(h, q), Held(q), ~Waives(q)
  PROVE  Held(q)'
<1> DEFINE a == quota[q]
           b == Added(quota[q])
           left == ingest[h].left \ {q}
<1>0. /\ q \in Quotas /\ q \in Devices /\ a \in Quota /\ ingest[h] \in Ingest /\ Batch(ingest[h])
      /\ quota'[q] = b /\ faults' = faults /\ faults \in Nat /\ device' = device
      /\ \A g \in Ingests \ {h} : ingest'[g] = ingest[g]
      /\ ingest[h].step = "count" /\ q \in ingest[h].left /\ ingest[h].on
      /\ left \in SUBSET Quotas
  BY DEF TypeOK, Batches, Batch, CountUsage, Watched, Ingest
<1>1. /\ b.used \in {a.used, a.used + 1} /\ b.exceeded = a.exceeded /\ b.enabled = a.enabled
      /\ b.limit = a.limit /\ a.used \in Nat /\ a.limit \in Nat /\ a.exceeded \in BOOLEAN
      /\ a.enabled \in BOOLEAN
  BY <1>0 DEF Added, Quota, Usages
<1>2. /\ Coming(q) \in SUBSET Ingests /\ Coming(q)' \in SUBSET Ingests
      /\ Pending(q) \in SUBSET Ingests /\ Pending(q)' \in SUBSET Ingests
      /\ h \in Coming(q) /\ h \notin Pending(q)
  BY <1>0 DEF Coming, Pending, Batch
<1>3. /\ Cardinality(Coming(q)) \in Nat /\ Cardinality(Coming(q)') \in Nat
      /\ Cardinality(Pending(q)) \in Nat /\ Cardinality(Pending(q)') \in Nat
      /\ Cardinality(Ingests) \in Nat
  BY <1>2, Counts
<1>4. CASE a.exceeded
  <2>1. ingest'[h] = Counting(ingest[h], left)
    BY <1>0, <1>1, <1>4 DEF CountUsage, MustEnforce, TypeOK
  <2>2. ingest'[h].left = left /\ ingest'[h].step \in {"idle", "count"}
    BY <1>0, <2>1, CountingIs
  <2>3. h \notin Coming(q)'
    BY <2>2 DEF Coming
  <2>4. Coming(q)' \subseteq Coming(q) \ {h}
    BY <1>0, <2>3, OneBatch
  <2>5. Cardinality(Coming(q)') + 1 <= Cardinality(Coming(q))
    BY <1>2, <2>4, OneFewer
  <2> HIDE DEF a, b
  <2> QED
    BY <1>0, <1>1, <1>3, <1>4, <2>5 DEF Held, a
<1>5. CASE ~a.exceeded /\ a.enabled /\ a.limit > 0 /\ b.used >= a.limit
  <2>1. MustEnforce(b)
    BY <1>1, <1>5 DEF MustEnforce, Breached
  <2>2. ingest'[h] = [ingest[h] EXCEPT !.step = "enforce", !.left = ingest[h].left \ {q}, !.breached = {q}]
    BY <1>0, <2>1 DEF CountUsage, TypeOK
  <2>3. h \in Pending(q)'
    BY <1>0, <2>2 DEF Pending, Ingest
  <2>4. Pending(q) \subseteq Pending(q)' \ {h}
    BY <1>0, <1>2, <2>3, OneBatch
  <2>5. Cardinality(Pending(q)) + 1 <= Cardinality(Pending(q)')
    BY <1>2, <2>3, <2>4, OneFewer
  <2> HIDE DEF b
  <2> QED
    BY <1>0, <1>1, <1>3, <1>5, <2>5 DEF Held
<1>6. CASE ~a.exceeded /\ ~(a.enabled /\ a.limit > 0 /\ b.used >= a.limit)
  <2> HIDE DEF a, b
  <2> QED
    BY <1>0, <1>1, <1>3, <1>6 DEF Held
<1> QED
  BY <1>4, <1>5, <1>6

\* A batch with an enforcement pending counts no more against that quota.
LEMMA HeldByEnforcement ==
  ASSUME TypeOK, TypeOK', Batches, NEW h \in Ingests, NEW q \in Watched, Enforce(h, q), Held(q)
  PROVE  Held(q)'
<1> DEFINE a == quota[q]
           b == [quota[q] EXCEPT !.exceeded = TRUE]
<1>0. /\ q \in Quotas /\ q \in Devices /\ a \in Quota /\ ingest[h] \in Ingest
      /\ \A g \in Ingests : Batch(ingest[g])
      /\ quota'[q] = b /\ faults' = faults /\ faults \in Nat
      /\ \A g \in Ingests \ {h} : ingest'[g] = ingest[g]
      /\ q \in ingest[h].breached /\ ingest[h].left \in SUBSET Quotas
  BY DEF TypeOK, Batches, Enforce, Watched, Ingest
<1>1. /\ b.used = a.used /\ b.exceeded /\ b.enabled = a.enabled /\ b.limit = a.limit
      /\ a.used \in Nat /\ a.limit \in Nat /\ a.exceeded \in BOOLEAN
  BY <1>0 DEF Quota, Usages
<1>2. device'[q].over
  <2>1. ingest[h].device = q
    BY <1>0, SharedAssumption DEF Batch
  <2>2. device'[q] = [device[q] EXCEPT !.status = "QUOTA_EXCEEDED", !.over = TRUE] /\ device[q] \in Device
    BY <1>0, <2>1 DEF Enforce, TypeOK
  <2> QED
    BY <2>2 DEF Device
<1>3. ingest'[h].left = ingest[h].left /\ ingest'[h].step \in {"idle", "count"}
  BY <1>0, CountingIs DEF Enforce, TypeOK
<1>4. h \notin Coming(q)' /\ Coming(q)' \subseteq Coming(q)
  <2>1. h \notin Coming(q)'
    BY <1>0, <1>3 DEF Coming, Batch
  <2> QED
    BY <1>0, <2>1, OneBatch
<1>5. Coming(q) \cap Pending(q) = {}
  BY <1>0 DEF Coming, Pending, Batch
<1>6. /\ Coming(q) \in SUBSET Ingests /\ Coming(q)' \in SUBSET Ingests /\ Pending(q) \in SUBSET Ingests
      /\ Coming(q)' \cap Pending(q) = {}
  BY <1>4, <1>5 DEF Coming, Pending
<1>7. /\ Cardinality(Coming(q)') <= Cardinality(Coming(q))
      /\ Cardinality(Coming(q)') + Cardinality(Pending(q)) <= Cardinality(Ingests)
      /\ Cardinality(Coming(q)) \in Nat /\ Cardinality(Coming(q)') \in Nat
      /\ Cardinality(Pending(q)) \in Nat /\ Cardinality(Ingests) \in Nat
  BY <1>4, <1>6, Fewer, Separate, Counts
<1> HIDE DEF b
<1>8. CASE a.exceeded
  BY <1>0, <1>1, <1>2, <1>7, <1>8 DEF Held
<1>9. CASE ~a.exceeded
  BY <1>0, <1>1, <1>2, <1>7, <1>9 DEF Held
<1> QED
  BY <1>8, <1>9

LEMMA HeldNext ==
  ASSUME TypeOK, TypeOK', Batches, Unmade, [Next]_vars, NEW q \in Watched, Held(q), ~Waives(q)
  PROVE  Held(q)'
<1>0. /\ q \in Quotas \cap Devices /\ q \in Quotas /\ q \in Devices
      /\ ingest \in [Ingests -> Ingest] /\ \A g \in Ingests : ingest[g] \in Ingest /\ Batch(ingest[g])
  BY DEF TypeOK, Batches, Watched
<1>1. ASSUME NEW h \in Ingests, CountUsage(h, q) \/ Enforce(h, q) PROVE Held(q)'
  BY <1>1, HeldByCount, HeldByEnforcement
<1>2. ASSUME UNCHANGED <<ingest, faults>>, Quiet(q) PROVE Held(q)'
  <2>1. Coming(q)' = Coming(q) /\ Pending(q)' = Pending(q)
    BY <1>2 DEF Coming, Pending
  <2>2. /\ Coming(q) \in SUBSET Ingests /\ Pending(q) \in SUBSET Ingests
        /\ faults \in Nat
    BY DEF Coming, Pending, TypeOK
  <2>3. Cardinality(Coming(q)) \in Nat /\ Cardinality(Pending(q)) \in Nat
    BY <2>2, Counts
  <2> QED
    BY <1>0, <1>2, <2>1, <2>2, <2>3, HeldStays
<1>3. ASSUME NEW h \in Ingests, NEW d \in Devices, NEW n \in Nodes, Report(h, d, n) PROVE Held(q)'
  <2> DEFINE i == [NoIngest EXCEPT !.step = "online", !.device = d, !.node = n]
  <2>1. /\ ingest' = [ingest EXCEPT ![h] = i] /\ ingest[h].step = "idle" /\ ~device[d].over
        /\ quota' = quota /\ faults' = faults /\ device' = device
    BY <1>3 DEF Report, Countable
  <2>2. i.left = {} /\ i.breached = {} /\ i.device = d
    BY DEF NoIngest
  <2> HIDE DEF i
  <2>3. h \notin Pending(q) /\ (q # d => h \notin Coming(q)') /\ Quiet(q)
    BY <1>0, <2>1, <2>2 DEF Pending, Coming, Batch, Quiet
  <2>4. CASE q # d
    BY <1>0, <2>1, <2>3, <2>4, HeldByOthers
  <2>5. CASE q = d
    <3>1. ~quota[q].exceeded
      BY <2>1, <2>5 DEF Held
    <3>2. Pending(q)' \in SUBSET Ingests /\ Pending(q) \subseteq Pending(q)'
      BY <1>0, <2>1, <2>3, OneBatch DEF Pending
    <3>3. /\ Cardinality(Pending(q)) <= Cardinality(Pending(q)')
          /\ Cardinality(Pending(q)) \in Nat /\ Cardinality(Pending(q)') \in Nat
      BY <3>2, Fewer, Counts
    <3>4. quota[q].used \in Nat /\ quota[q].limit \in Nat /\ faults \in Nat
      BY <1>0, QuotaNumbers DEF TypeOK
    <3> QED
      BY <2>1, <3>1, <3>3, <3>4 DEF Held
  <2> QED
    BY <2>4, <2>5
<1>4. ASSUME NEW h \in Ingests, MarkOnline(h) PROVE Held(q)'
  <2> DEFINE i == [ingest[h] EXCEPT !.step = "find"]
  <2>1. /\ ingest' = [ingest EXCEPT ![h] = i] /\ ingest'[h] = i /\ ingest[h].step = "online"
        /\ quota' = quota /\ faults' = faults
    BY <1>0, <1>4 DEF MarkOnline
  <2>2. i.left = ingest[h].left /\ i.breached = ingest[h].breached /\ i.device = ingest[h].device
    BY <1>0 DEF Ingest
  <2> HIDE DEF i
  <2>3. /\ h \in Coming(q)' => h \in Coming(q)
        /\ h \in Pending(q) => h \in Pending(q)'
        /\ Quiet(q)
    BY <2>1, <2>2 DEF Coming, Pending, Quiet
  <2> QED
    BY <1>0, <2>1, <2>3, HeldByOthers
<1>5. ASSUME NEW h \in Ingests, NEW base \in Ingest, NEW left \in SUBSET Quotas,
             ingest' = [ingest EXCEPT ![h] = Counting(base, left)], faults' = faults, Quiet(q),
             q \notin ingest[h].breached, q \in left => h \in Coming(q)
      PROVE  Held(q)'
  <2> DEFINE i == Counting(base, left)
  <2>1. i.left = left /\ i.step \in {"idle", "count"}
    BY CountingIs
  <2>2. ingest' = [ingest EXCEPT ![h] = i] /\ ingest'[h] = i
    BY <1>0, <1>5
  <2> HIDE DEF i
  <2>3. /\ h \in Coming(q)' => h \in Coming(q)
        /\ h \in Pending(q) => h \in Pending(q)'
    BY <1>5, <2>1, <2>2 DEF Coming, Pending
  <2> QED
    BY <1>0, <1>5, <2>2, <2>3, HeldByOthers
<1>6. ASSUME NEW h \in Ingests, FindQuotas(h) PROVE Held(q)'
  <2> DEFINE base == [ingest[h] EXCEPT !.on = enforcing]
             left == Covering(ingest[h].device)
  <2>1. /\ ingest' = [ingest EXCEPT ![h] = Counting(base, left)] /\ ingest[h].step = "find"
        /\ quota' = quota /\ faults' = faults
    BY <1>6 DEF FindQuotas
  <2>2. base \in Ingest
    BY ZenonT(60), <1>0 DEF TypeOK, Ingest
  <2>3. left \in SUBSET Quotas /\ (q \in left => ingest[h].device = q)
    BY <1>0, SharedAssumption DEF Covering
  <2> HIDE DEF base, left
  <2>4. q \notin ingest[h].breached /\ (q \in left => h \in Coming(q)) /\ Quiet(q)
    BY <1>0, <2>1, <2>3 DEF Batch, Coming, Quiet
  <2> QED
    BY <1>5, <2>1, <2>2, <2>3, <2>4
<1>7. ASSUME NEW h \in Ingests, NEW p \in Quotas, p # q, CountUsage(h, p) PROVE Held(q)'
  <2>1. /\ faults' = faults /\ Quiet(q) /\ ingest[h].left \ {p} \in SUBSET Quotas
        /\ q \notin ingest[h].breached
    <3>1. faults' = faults /\ ingest[h].step = "count" /\ quota' = [quota EXCEPT ![p] = Added(@)]
      BY <1>7 DEF CountUsage
    <3>2. Quiet(q)
      BY <1>0, <1>7, <3>1 DEF TypeOK, Quiet
    <3>3. ingest[h].left \in SUBSET Quotas
      BY <1>0 DEF Ingest
    <3>4. ingest[h].breached = {}
      BY <1>0, <3>1 DEF Batch
    <3> QED
      BY <3>1, <3>2, <3>3, <3>4
  <2>2. CASE MustEnforce(Added(quota[p])) /\ ingest[h].on
    <3> DEFINE i == [ingest[h] EXCEPT !.step = "enforce", !.left = ingest[h].left \ {p}, !.breached = {p}]
    <3>1. ingest' = [ingest EXCEPT ![h] = i] /\ ingest'[h] = i
      BY <1>0, <1>7, <2>2 DEF CountUsage
    <3>2. i.left = ingest[h].left \ {p} /\ i.step = "enforce"
      BY <1>0 DEF Ingest
    <3> HIDE DEF i
    <3>3. /\ h \in Coming(q)' => h \in Coming(q)
          /\ h \in Pending(q) => h \in Pending(q)'
      BY <2>1, <3>1, <3>2 DEF Coming, Pending
    <3> QED
      BY <1>0, <2>1, <3>1, <3>3, HeldByOthers
  <2>3. CASE ~(MustEnforce(Added(quota[p])) /\ ingest[h].on)
    <3>1. ingest' = [ingest EXCEPT ![h] = Counting(ingest[h], ingest[h].left \ {p})]
      BY <1>7, <2>3 DEF CountUsage
    <3>2. q \in ingest[h].left \ {p} => h \in Coming(q)
      BY DEF Coming
    <3> QED
      BY <1>0, <1>5, <2>1, <3>1, <3>2
  <2> QED
    BY <2>2, <2>3
<1>8. ASSUME NEW h \in Ingests, NEW p \in Quotas, p # q, Enforce(h, p) PROVE Held(q)'
  <2>1. /\ ingest' = [ingest EXCEPT ![h] = Counting(ingest[h], ingest[h].left)]
        /\ faults' = faults /\ Quiet(q) /\ ingest[h].left \in SUBSET Quotas
        /\ q \notin ingest[h].breached
    <3>1. /\ ingest' = [ingest EXCEPT ![h] = Counting(ingest[h], ingest[h].left)]
          /\ faults' = faults /\ p \in ingest[h].breached
          /\ quota' = [quota EXCEPT ![p] = [@ EXCEPT !.exceeded = TRUE]]
      BY <1>8 DEF Enforce
    <3>2. Quiet(q)
      BY <1>0, <1>8, <3>1 DEF TypeOK, Quiet
    <3>3. ingest[h].left \in SUBSET Quotas
      BY <1>0 DEF Ingest
    <3>4. ingest[h].breached = {p}
      BY <1>0, <3>1 DEF Batch
    <3> QED
      BY <1>8, <3>1, <3>2, <3>3, <3>4
  <2>2. q \in ingest[h].left => h \in Coming(q)
    BY DEF Coming
  <2> QED
    BY <1>0, <1>5, <2>1, <2>2
<1>9. ASSUME NEW h \in Ingests, DatabaseError(h) PROVE Held(q)'
  <2>1. ingest' = [ingest EXCEPT ![h] = NoIngest] /\ faults' = faults + 1 /\ quota' = quota
    BY <1>9 DEF DatabaseError
  <2>2. /\ \A g \in Ingests \ {h} : ingest'[g] = ingest[g]
        /\ h \notin Coming(q)' /\ Quiet(q)
    BY <1>0, <2>1 DEF Coming, NoIngest, Quiet
  <2>3. Coming(q)' \subseteq Coming(q) /\ Pending(q) \subseteq Pending(q)' \cup {h}
    BY <2>2, OneBatch
  <2>4. /\ Coming(q) \in SUBSET Ingests /\ Pending(q) \in SUBSET Ingests
        /\ Pending(q)' \in SUBSET Ingests
    BY DEF Coming, Pending
  <2>5. /\ Cardinality(Coming(q)') <= Cardinality(Coming(q))
        /\ Cardinality(Pending(q)) <= Cardinality(Pending(q)') + 1
    BY <2>3, <2>4, Fewer, AtMostOneFewer
  <2>6. Cardinality(Pending(q)) \in Nat /\ Cardinality(Pending(q)') \in Nat /\ faults \in Nat
    BY <2>4, Counts DEF TypeOK
  <2>7. faults <= faults' /\ Cardinality(Pending(q)) + faults <= Cardinality(Pending(q)') + faults'
    BY <2>1, <2>5, <2>6
  <2> QED
    BY <1>0, <2>2, <2>5, <2>7, HeldStays
<1>10. ASSUME NEW h \in Ingests, Traffic(h) PROVE Held(q)'
  BY <1>1, <1>3, <1>4, <1>6, <1>7, <1>8, <1>9, <1>10 DEF Traffic, IngestStep
<1>11. CASE ~\E h \in Ingests : Traffic(h)
  <2>1. UNCHANGED <<ingest, faults>>
    BY <1>11, BatchMoves
  <2>2. Quiet(q)
    BY <1>0, <1>11, QuotaChange DEF Traffic, IngestStep
  <2> QED
    BY <1>2, <2>1, <2>2
<1> QED
  BY <1>10, <1>11

LEMMA TightNext == Tight /\ [WatchedNext]_<<vars, waived>> => Tight'
<1> SUFFICES ASSUME Tight, [WatchedNext]_<<vars, waived>> PROVE Tight'
  OBVIOUS
<1>1. [Next]_vars /\ waived \subseteq waived'
  BY DEF WatchedNext
<1>2. ASSUME NEW q \in Quotas, q \notin waived' PROVE ~Waives(q)
  BY <1>2 DEF WatchedNext, Waives, vars
<1>3. TypeOK' /\ Batches' /\ Unmade'
  BY <1>1, TypeNext, BatchesNext, MadeStays DEF Tight
<1>4. Switched'
  BY <1>1, <1>2 DEF Tight, Switched, Waives
<1>5. ASSUME NEW q \in Watched' PROVE Held(q)'
  <2>1. q \in Watched /\ ~Waives(q)
    BY <1>1, <1>2, <1>5 DEF Watched
  <2> QED
    BY <1>1, <1>3, <2>1, HeldNext DEF Tight
<1> QED
  BY <1>3, <1>4, <1>5 DEF Tight

\* However many batches count the reports of a device at once, and whatever fails, its
\* quota is overrun by those in flight and those that failed only, until an operator
\* changes the limit, unblocks the device or switches enforcement.
THEOREM OvershootBounded == WatchedSpec => []BoundedOvershoot
<1>1. Tight => BoundedOvershoot
  <2> SUFFICES ASSUME Tight, NEW q \in (Quotas \cap Devices) \ waived PROVE Overshoot(q)
    BY DEF BoundedOvershoot
  <2>1. Coming(q) \in SUBSET Ingests /\ Pending(q) \in SUBSET Ingests /\ Held(q)
    BY DEF Coming, Pending, Tight, Watched
  <2>2. /\ Cardinality(Coming(q)) \in Nat /\ Cardinality(Pending(q)) \in Nat
        /\ Cardinality(Ingests) \in Nat /\ Cardinality(Pending(q)) <= Cardinality(Ingests)
    BY <2>1, Counts
  <2>3. quota[q].used \in Nat /\ quota[q].limit \in Nat /\ faults \in Nat
    BY QuotaNumbers DEF Tight, TypeOK
  <2>4. CASE quota[q].exceeded
    BY <2>1, <2>2, <2>3, <2>4 DEF Held, Overshoot
  <2>5. CASE ~quota[q].exceeded
    BY <2>1, <2>2, <2>3, <2>5 DEF Held, Overshoot
  <2> QED
    BY <2>4, <2>5
<1> QED
  BY TightInit, TightNext, <1>1, PTL DEF WatchedSpec
=============================================================================
