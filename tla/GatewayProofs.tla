---------------------------- MODULE GatewayProofs -----------------------------
(***************************************************************************)
(* What gateways are, and what they report.                                *)
(*                                                                         *)
(* NodeLifecycle, for every set of nodes and of requests, every staleness  *)
(* window and every bound: who a node is and whether it is alive.          *)
(* DnsFiltering, for any reports, lists and edits: the counts add up.      *)
(***************************************************************************)
EXTENDS NodeLifecycle, DnsFiltering, TLAPS

USE DEF Never, RevokedHash

-----------------------------------------------------------------------------
(* Lemmas about the operators on rows. *)

\* Ageing keeps an age in range.
LEMMA OlderType == ASSUME NEW age \in Ages PROVE Older(age) \in Ages
BY StaleAssumption DEF Older, Ages

\* The age of a heartbeat just written is in range.
LEMMA FreshAges == 0 \in Ages /\ -1 \in Ages
BY StaleAssumption DEF Ages

\* The derived health is one the schema can store.
LEMMA DeriveHealthType ==
  ASSUME NEW r PROVE DeriveHealth(r) \in Healths
BY DEF DeriveHealth, HeartbeatState, Healths

\* A new row is a row.
LEMMA NewRowType == ASSUME NEW id \in Nat, NEW token \in Nat
                    PROVE NewRow(id, token) \in Row
BY FreshAges DEF NewRow, Row, Statuses, Approvals, Healths

\* A column write keeps a row a row, and touches neither its id nor its heartbeat.
LEMMA WrittenType ==
  ASSUME NEW op, NEW r \in Row
  PROVE  /\ Written(op, r) \in Row
         /\ Written(op, r).id = r.id
         /\ Written(op, r).age = r.age
BY ZenonT(60) DEF Written, Row, Statuses, Approvals, Healths

\* No column write promotes a node, or marks it OFFLINE; only "approve" approves it.
LEMMA WrittenPromotes ==
  ASSUME NEW op, NEW r \in Row
  PROVE  /\ Written(op, r).status \in {r.status, "REVOKED"}
         /\ Written(op, r).health \in {r.health, "DEGRADED"}
         /\ op # "approve" => Written(op, r).approval \in {r.approval, "REJECTED"}
BY DEF Written, Row

\* The other writes of a row, by the columns they set.
LEMMA TokenWrite == ASSUME NEW r \in Row, NEW token \in Nat
                    PROVE [r EXCEPT !.token = token] \in Row
BY DEF Row

LEMMA StatusWrite == ASSUME NEW r \in Row, NEW status \in Statuses
                     PROVE [r EXCEPT !.status = status] \in Row
BY DEF Row

LEMMA HeartbeatWrite == ASSUME NEW r \in Row, NEW status \in Statuses
                        PROVE [r EXCEPT !.status = status, !.age = 0] \in Row
BY FreshAges DEF Row

LEMMA HealthWrite == ASSUME NEW r \in Row, NEW status \in Statuses, NEW health \in Healths
                     PROVE [r EXCEPT !.health = health, !.status = status] \in Row
BY DEF Row

\* The sweep's snapshot of a row.
LEMMA SnapshotType == ASSUME NEW r \in Row PROVE SnapshotOf(r) \in Snapshot
BY DEF SnapshotOf, Snapshot, Row

-----------------------------------------------------------------------------
(* Type correctness. *)

LEMMA TypeInit == Init => TypeOK
<1>1. NoRow \in Row
  BY NewRowType DEF NoRow
<1>2. SnapshotOf(NoRow) \in Snapshot
  BY <1>1, SnapshotType
<1> QED
  BY <1>1, <1>2 DEF Init, TypeOK

LEMMA TypeNext == TypeOK /\ [Next]_vars => TypeOK'
<1> SUFFICES ASSUME TypeOK, [Next]_vars PROVE TypeOK'
  OBVIOUS
<1> USE DEF TypeOK
<1>0. NoRow \in Row /\ SnapshotOf(NoRow) \in Snapshot
  BY NewRowType, SnapshotType DEF NoRow
<1>1. CASE Tick
  <2>1. \A n \in Nodes : [row[n] EXCEPT !.age = Older(@)] \in Row
    BY OlderType DEF Row
  <2>2. \A n \in Nodes : [seen[n] EXCEPT !.age = Older(@)] \in Snapshot
    BY OlderType DEF Snapshot
  <2> QED
    BY <1>1, <2>1, <2>2 DEF Tick
<1>2. ASSUME NEW r \in Requests, NEW n \in Nodes, NEW op \in AllOperations,
             ReadRow(r, n, op)
      PROVE  TypeOK'
  <2>1. Hold("write", op, n) \in Request
    BY DEF Hold, Request, Steps, Statuses, Row
  <2> QED
    BY <1>2, <2>1 DEF ReadRow
<1>3. ASSUME NEW r \in Requests, NEW n \in Nodes, RegisterNode(r, n)
      PROVE  TypeOK'
  <2>1. \A step \in Steps : Hold(step, "register", n) \in Request
    BY DEF Hold, Request, Statuses, Row, AllOperations
  <2> QED
    BY <1>3, <2>1 DEF RegisterNode, Steps
<1>4. ASSUME NEW r \in Requests, NEW n \in Nodes, NEW token,
             AuthenticateAgent(r, n, token)
      PROVE  TypeOK'
  <2>1. Hold("authenticated", "heartbeat", n) \in Request
    BY DEF Hold, Request, Steps, Statuses, Row, AllOperations
  <2> QED
    BY <1>4, <2>1 DEF AuthenticateAgent, Authentic
<1>5. ASSUME NEW r \in Requests, NEW n \in Nodes, HealthCheck(r, n)
      PROVE  TypeOK'
  <2>1. Hold("authenticated", "healthcheck", n) \in Request
    BY DEF Hold, Request, Steps, Statuses, Row, AllOperations
  <2> QED
    BY <1>5, <2>1 DEF HealthCheck
<1>6. ASSUME NEW r \in Requests, req[r].step # "idle" PROVE req[r] \in Request
  BY <1>6 DEF Idle
<1>7. ASSUME NEW r \in Requests, WriteColumns(r) PROVE TypeOK'
  <2>1. req[r].node \in Nodes
    BY <1>6, <1>7 DEF WriteColumns, Request
  <2>2. row' \in [Nodes -> Row]
    BY <1>7, <2>1, WrittenType DEF WriteColumns
  <2> QED
    BY <1>7, <2>1, <2>2 DEF WriteColumns, Release
<1>8. ASSUME NEW r \in Requests, WriteToken(r) PROVE TypeOK'
  <2>1. req[r].node \in Nodes /\ req[r] \in Request
    BY <1>6, <1>8 DEF WriteToken, Request
  <2>2. /\ issued' \in [Nodes -> Nat]
        /\ issued[req[r].node] + 1 \in Nat
    BY <1>8, <2>1 DEF WriteToken
  <2>5. [row[req[r].node] EXCEPT !.token = issued[req[r].node] + 1] \in Row
    BY <2>1, <2>2, TokenWrite
  <2>6. row' \in [Nodes -> Row]
    BY <1>8, <2>1, <2>5 DEF WriteToken
  <2>3. [req[r] EXCEPT !.step = "write"] \in Request
    BY <2>1 DEF Request, Steps
  <2>4. req' \in [Requests -> Request \cup {Idle}]
    BY <1>8, <2>3 DEF WriteToken, Release
  <2> QED
    BY <1>8, <2>2, <2>4, <2>6 DEF WriteToken
<1>9. ASSUME NEW r \in Requests, WriteRegistration(r) PROVE TypeOK'
  <2>1. row' \in [Nodes -> Row]
    BY <1>6, <1>9, StatusWrite DEF WriteRegistration, Statuses, Request
  <2> QED
    BY <1>9, <2>1 DEF WriteRegistration, Release
<1>10. ASSUME NEW r \in Requests, CreateNode(r) PROVE TypeOK'
  <2>1. req[r].node \in Nodes
    BY <1>6, <1>10 DEF CreateNode, Request
  <2>2. NewRow(created[req[r].node] + 1, issued[req[r].node] + 1) \in Row
    BY <2>1, NewRowType
  <2>3. CASE Exists(req[r].node)
    BY <1>10, <2>3 DEF CreateNode, Release
  <2>4. CASE ~Exists(req[r].node)
    <3>1. row' \in [Nodes -> Row]
      BY <1>10, <2>1, <2>2, <2>4 DEF CreateNode
    <3>2. issued' \in [Nodes -> Nat] /\ created' \in [Nodes -> Nat]
      BY <1>10, <2>1, <2>4 DEF CreateNode
    <3>3. past' \in [Nodes -> SUBSET {"approved", "offline"}]
      BY <1>10, <2>1, <2>4 DEF CreateNode
    <3> QED
      BY <1>10, <3>1, <3>2, <3>3 DEF CreateNode, Release
  <2> QED
    BY <2>3, <2>4
<1>11. ASSUME NEW r \in Requests, RemoveNode(r) PROVE TypeOK'
  BY <1>0, <1>11 DEF RemoveNode, Release
<1>12. ASSUME NEW r \in Requests, ReadPrevious(r) PROVE TypeOK'
  <2>1. req[r] \in Request /\ req[r].node \in Nodes
    BY <1>6, <1>12 DEF ReadPrevious, Request
  <2>2. \A s \in Statuses : [req[r] EXCEPT !.step = "write", !.status = s] \in Request
    BY <2>1 DEF Request, Steps
  <2>3. row[req[r].node].status \in Statuses /\ "ONLINE" \in Statuses
    BY <2>1 DEF Row, Statuses
  <2>4. req' \in [Requests -> Request \cup {Idle}]
    BY <1>12, <2>2, <2>3 DEF ReadPrevious, HeartbeatStatus, Release
  <2> QED
    BY <1>12, <2>4 DEF ReadPrevious
<1>13. ASSUME NEW r \in Requests, WriteHeartbeat(r) PROVE TypeOK'
  <2>1. req[r] \in Request
    BY <1>6, <1>13 DEF WriteHeartbeat
  <2>3. req[r].node \in Nodes /\ req[r].status \in Statuses
    BY <2>1 DEF Request
  <2>4. [row[req[r].node] EXCEPT !.status = req[r].status, !.age = 0] \in Row
    BY <2>3, HeartbeatWrite
  <2>5. row' \in [Nodes -> Row]
    BY <1>13, <2>3, <2>4 DEF WriteHeartbeat
  <2> QED
    BY <1>13, <2>5 DEF WriteHeartbeat, Release
<1>14. CASE SweepStart
  BY <1>14, SnapshotType DEF SweepStart
<1>15. ASSUME NEW n \in Nodes, SweepNode(n) PROVE TypeOK'
  <2>1. todo' \subseteq Nodes
    BY <1>15 DEF SweepNode
  <2>2. seen' \in [Nodes -> Snapshot]
    BY <1>0, <1>15 DEF SweepNode
  <2>3. CASE UNCHANGED <<row, past>>
    BY <1>15, <2>1, <2>2, <2>3 DEF SweepNode
  <2>4. CASE MarkOffline(n)
    <3>1. row' \in [Nodes -> Row]
      BY <2>4, HealthWrite DEF MarkOffline, Statuses, Healths
    <3> QED
      BY <1>15, <2>1, <2>2, <2>4, <3>1 DEF SweepNode, MarkOffline
  <2>5. CASE MarkRecovered(n)
    <3>1. DeriveHealth(seen[n]) \in Healths
      BY DeriveHealthType
    <3>2. row' \in [Nodes -> Row]
      BY <2>5, <3>1, HealthWrite DEF MarkRecovered, Statuses, Snapshot
    <3> QED
      BY <1>15, <2>1, <2>2, <2>5, <3>2 DEF SweepNode, MarkRecovered
  <2> QED
    BY <1>15, <2>3, <2>4, <2>5 DEF SweepNode
<1>16. CASE UNCHANGED vars
  BY <1>16 DEF vars
<1> QED
  BY <1>1, <1>2, <1>3, <1>4, <1>5, <1>7, <1>8, <1>9, <1>10, <1>11, <1>12, <1>13,
     <1>14, <1>15, <1>16 DEF Next

\* Every reachable state is well typed.
THEOREM TypeCorrect == Spec => []TypeOK
BY TypeInit, TypeNext, PTL DEF Spec

-----------------------------------------------------------------------------
(* OnlineIsEarned.  The status of a row comes from what a heartbeat or the  *)
(* sweep read earlier, so the inductive invariant says of everything in     *)
(* flight what OnlineIsEarned says of the row, as long as it is still about *)
(* the same row; a row created later has an id nothing in flight holds.     *)

RowEarned(n) ==
  /\ row[n].id <= created[n]
  /\ row[n].status \in {"ONLINE", "DEGRADED"} => past[n] # {}
  /\ row[n].approval = "APPROVED" => past[n] # {}
  /\ row[n].health = "OFFLINE" => past[n] # {}

RequestEarned(r) ==
  /\ req[r].id <= created[req[r].node]
  /\ req[r].status \in {"ONLINE", "DEGRADED"} /\ Finds(r) => past[req[r].node] # {}

SeenEarned(n) ==
  /\ seen[n].id # 0
  /\ seen[n].id <= created[n]
  /\ seen[n].health = "OFFLINE" /\ seen[n].id = row[n].id => past[n] # {}

Earned ==
  /\ \A n \in Nodes : RowEarned(n)
  /\ \A r \in Requests : req[r].step # "idle" => RequestEarned(r)
  /\ \A n \in todo : SeenEarned(n)

\* Nothing has happened to any row at the start.
LEMMA EarnedInit == Init => Earned
BY DEF Init, Earned, RowEarned, NoRow, NewRow, Idle

\* Steps that write no row keep it: what a request or a snapshot now holds is about
\* rows that have earned their state.
LEMMA EarnedRead ==
  ASSUME TypeOK, TypeOK', Earned,
         UNCHANGED <<row, created, past, todo, seen>>,
         NEW r \in Requests, NEW x, req' = [req EXCEPT ![r] = x],
         \/ x = Idle
         \/ /\ x.node \in Nodes
            /\ x.id <= created[x.node]
            /\ x.status \in {"ONLINE", "DEGRADED"} /\ row[x.node].id = x.id /\ x.id # 0
                 => past[x.node] # {}
  PROVE  Earned'
<1>1. \A n \in Nodes : RowEarned(n)'
  BY DEF Earned, RowEarned
<1>2. \A n \in todo' : SeenEarned(n)'
  BY DEF Earned, SeenEarned
<1>3. ASSUME NEW q \in Requests, req'[q].step # "idle" PROVE RequestEarned(q)'
  <2>1. CASE q = r
    BY <1>3, <2>1 DEF TypeOK, RequestEarned, Finds, Idle
  <2>2. CASE q # r
    BY <1>3, <2>2 DEF TypeOK, Earned, RequestEarned, Finds
  <2> QED
    BY <2>1, <2>2
<1> QED
  BY <1>1, <1>2, <1>3 DEF Earned

\* A write of node n's row that keeps its id and promotes it no further than its
\* history, while requests and snapshots are only dropped or kept.
LEMMA EarnedWrite ==
  ASSUME TypeOK, TypeOK', Earned, created' = created,
         NEW n \in Nodes,
         \A m \in Nodes \ {n} : row'[m] = row[m] /\ past'[m] = past[m],
         past[n] \subseteq past'[n],
         row'[n].id = row[n].id,
         \/ past'[n] # {}
         \/ /\ row'[n].status \notin {"ONLINE", "DEGRADED"} \/ row'[n].status = row[n].status
            /\ row'[n].approval # "APPROVED" \/ row'[n].approval = row[n].approval
            /\ row'[n].health # "OFFLINE" \/ row'[n].health = row[n].health,
         \A q \in Requests : \/ req'[q] = req[q]
                             \/ req'[q] = Idle
                             \/ req'[q] = [req[q] EXCEPT !.step = "write"]
                                /\ req[q].step # "idle",
         todo' \subseteq todo,
         \A m \in todo' : seen'[m] = seen[m]
  PROVE  Earned'
<1>1. \A m \in Nodes : RowEarned(m)'
  BY DEF TypeOK, Earned, RowEarned
<1>2. \A m \in Nodes : row'[m].id = row[m].id /\ (past[m] # {} => past'[m] # {})
  BY DEF TypeOK
<1>3. ASSUME NEW m \in todo' PROVE SeenEarned(m)'
  BY <1>2, <1>3 DEF TypeOK, Earned, SeenEarned
<1>4. ASSUME NEW q \in Requests, req'[q].step # "idle" PROVE RequestEarned(q)'
  <2>1. /\ req[q].step # "idle"
        /\ req'[q].node = req[q].node
        /\ req'[q].id = req[q].id
        /\ req'[q].status = req[q].status
    BY <1>4 DEF TypeOK, Idle, Request
  <2>2. req[q].node \in Nodes /\ RequestEarned(q)
    BY <2>1 DEF TypeOK, Earned, Request, Idle
  <2> QED
    BY <1>2, <2>1, <2>2 DEF RequestEarned, Finds
<1> QED
  BY <1>1, <1>3, <1>4 DEF Earned

LEMMA EarnedNext == TypeOK /\ TypeOK' /\ Earned /\ [Next]_vars => Earned'
<1> SUFFICES ASSUME TypeOK, TypeOK', Earned, [Next]_vars PROVE Earned'
  OBVIOUS
<1>0. ASSUME NEW r \in Requests, req[r].step # "idle"
      PROVE  req[r] \in Request /\ req[r].node \in Nodes /\ RequestEarned(r)
  BY <1>0 DEF TypeOK, Earned, Idle, Request
<1>1. CASE Tick
  <2>1. \A n \in Nodes : /\ row'[n].id = row[n].id
                         /\ row'[n].status = row[n].status
                         /\ row'[n].approval = row[n].approval
                         /\ row'[n].health = row[n].health
                         /\ seen'[n].id = seen[n].id
                         /\ seen'[n].health = seen[n].health
    BY <1>1 DEF Tick, TypeOK, Row, Snapshot
  <2>2. \A n \in Nodes : RowEarned(n)'
    BY <1>1, <2>1 DEF Tick, Earned, RowEarned
  <2>3. \A n \in todo' : SeenEarned(n)'
    BY <1>1, <2>1 DEF Tick, Earned, SeenEarned, TypeOK
  <2>4. \A r \in Requests : req[r].step # "idle" => RequestEarned(r)'
    BY <1>0, <1>1, <2>1 DEF Tick, RequestEarned, Finds
  <2> QED
    BY <1>1, <2>2, <2>3, <2>4 DEF Tick, Earned
<1>2. ASSUME NEW r \in Requests, NEW n \in Nodes, NEW step, NEW op,
             req' = [req EXCEPT ![r] = Hold(step, op, n)],
             UNCHANGED <<row, created, past, todo, seen>>
      PROVE  Earned'
  BY <1>2, EarnedRead DEF Hold, Earned, RowEarned
<1>3. ASSUME NEW r \in Requests, NEW n \in Nodes, NEW op \in AllOperations,
             ReadRow(r, n, op)
      PROVE  Earned'
  BY <1>2, <1>3 DEF ReadRow
<1>4. ASSUME NEW r \in Requests, NEW n \in Nodes, RegisterNode(r, n)
      PROVE  Earned'
  BY <1>2, <1>4 DEF RegisterNode
<1>5. ASSUME NEW r \in Requests, NEW n \in Nodes, NEW token,
             AuthenticateAgent(r, n, token)
      PROVE  Earned'
  BY <1>2, <1>5 DEF AuthenticateAgent, Authentic
<1>6. ASSUME NEW r \in Requests, NEW n \in Nodes, HealthCheck(r, n)
      PROVE  Earned'
  BY <1>2, <1>6 DEF HealthCheck
<1>7. ASSUME NEW r \in Requests, WriteColumns(r) PROVE Earned'
  <2> DEFINE n == req[r].node
  <2>1. n \in Nodes
    BY <1>0, <1>7 DEF WriteColumns
  <2>2. /\ row'[n].id = row[n].id
        /\ row'[n].status \notin {"ONLINE", "DEGRADED"} \/ row'[n].status = row[n].status
        /\ row'[n].health # "OFFLINE" \/ row'[n].health = row[n].health
        /\ past'[n] # {} \/ row'[n].approval # "APPROVED"
             \/ row'[n].approval = row[n].approval
    <3>1. row[n] \in Row
      BY <2>1 DEF TypeOK
    <3>2. CASE Finds(r)
      <4>1. row'[n] = Written(req[r].op, row[n])
        BY <1>7, <2>1, <3>2 DEF WriteColumns, TypeOK
      <4>2. req[r].op = "approve" => past'[n] # {}
        BY <1>7, <2>1, <3>2 DEF WriteColumns, TypeOK
      <4> QED
        BY <3>1, <4>1, <4>2, WrittenType, WrittenPromotes
    <3>3. CASE ~Finds(r)
      BY <1>7, <3>3 DEF WriteColumns
    <3> QED
      BY <3>2, <3>3
  <2>3. past[n] \subseteq past'[n]
    BY <1>7, <2>1 DEF WriteColumns, TypeOK
  <2>4. \A m \in Nodes \ {n} : row'[m] = row[m] /\ past'[m] = past[m]
    BY <1>7, <2>1 DEF WriteColumns, TypeOK
  <2> QED
    BY <1>7, <2>1, <2>2, <2>3, <2>4, EarnedWrite DEF WriteColumns, Release, TypeOK
<1>8. ASSUME NEW r \in Requests, WriteToken(r) PROVE Earned'
  <2> DEFINE n == req[r].node
  <2>1. n \in Nodes /\ req[r].step # "idle"
    BY <1>0, <1>8 DEF WriteToken
  <2>2. /\ row'[n].id = row[n].id
        /\ row'[n].status = row[n].status
        /\ row'[n].health = row[n].health
        /\ row'[n].approval = row[n].approval
        /\ \A m \in Nodes \ {n} : row'[m] = row[m]
    BY <1>8, <2>1 DEF WriteToken, TypeOK, Row
  <2>3. \A q \in Requests : \/ req'[q] = req[q]
                            \/ req'[q] = Idle
                            \/ req'[q] = [req[q] EXCEPT !.step = "write"]
                               /\ req[q].step # "idle"
    BY <1>8, <2>1 DEF WriteToken, Release, TypeOK
  <2> QED
    BY <1>8, <2>1, <2>2, <2>3, EarnedWrite DEF WriteToken
<1>9. ASSUME NEW r \in Requests, WriteRegistration(r) PROVE Earned'
  <2> DEFINE n == req[r].node
  <2>1. n \in Nodes
    BY <1>0, <1>9 DEF WriteRegistration
  <2>2. /\ row'[n].id = row[n].id
        /\ row'[n].status \notin {"ONLINE", "DEGRADED"} \/ row'[n].status = row[n].status
        /\ row'[n].health = row[n].health
        /\ row'[n].approval = row[n].approval
        /\ \A m \in Nodes \ {n} : row'[m] = row[m]
    BY <1>9, <2>1 DEF WriteRegistration, TypeOK, Row
  <2> QED
    BY <1>9, <2>1, <2>2, EarnedWrite DEF WriteRegistration, Release, TypeOK
<1>10. ASSUME NEW r \in Requests, CreateNode(r) PROVE Earned'
  <2> DEFINE n == req[r].node
  <2>1. n \in Nodes
    BY <1>0, <1>10 DEF CreateNode
  <2>2. CASE Exists(n)
    BY <1>10, <2>2, EarnedRead DEF CreateNode, Release
  <2>3. CASE ~Exists(n)
    <3>1. /\ created[n] \in Nat
          /\ created' = [created EXCEPT ![n] = @ + 1]
          /\ row' = [row EXCEPT ![n] = NewRow(created[n] + 1, issued[n] + 1)]
          /\ past' = [past EXCEPT ![n] = {}]
          /\ req' = [req EXCEPT ![r] = Idle]
          /\ UNCHANGED <<todo, seen>>
      BY <1>10, <2>1, <2>3 DEF CreateNode, Release, TypeOK
    <3>2. /\ row'[n].id = created[n] + 1
          /\ row'[n].status = "REGISTERING"
          /\ row'[n].approval = "PENDING"
          /\ row'[n].health = "UNKNOWN"
          /\ created'[n] = created[n] + 1
          /\ \A m \in Nodes \ {n} : /\ row'[m] = row[m]
                                    /\ past'[m] = past[m]
                                    /\ created'[m] = created[m]
      BY <2>1, <3>1 DEF NewRow, TypeOK
    <3>3. \A m \in Nodes : RowEarned(m)'
      BY <2>1, <3>1, <3>2 DEF Earned, RowEarned
    <3>4. ASSUME NEW m \in todo' PROVE SeenEarned(m)'
      BY <2>1, <3>1, <3>2, <3>4 DEF Earned, SeenEarned, TypeOK, Snapshot
    <3>5. ASSUME NEW q \in Requests, req'[q].step # "idle" PROVE RequestEarned(q)'
      <4>1. req[q].step # "idle" /\ req'[q] = req[q]
        BY <3>1, <3>5 DEF TypeOK, Idle
      <4>2. req[q].node \in Nodes /\ req[q].id \in Nat /\ RequestEarned(q)
        BY <1>0, <4>1 DEF Request
      <4> QED
        BY <2>1, <3>1, <3>2, <4>1, <4>2 DEF RequestEarned, Finds
    <3> QED
      BY <3>3, <3>4, <3>5 DEF Earned
  <2> QED
    BY <2>2, <2>3
<1>11. ASSUME NEW r \in Requests, RemoveNode(r) PROVE Earned'
  <2> DEFINE n == req[r].node
  <2>1. n \in Nodes
    BY <1>0, <1>11 DEF RemoveNode
  <2>2. CASE ~Finds(r)
    BY <1>11, <2>2, EarnedRead DEF RemoveNode, Release
  <2>3. CASE Finds(r)
    <3>1. /\ row'[n].id = 0
          /\ row'[n].status = "REGISTERING"
          /\ row'[n].approval = "PENDING"
          /\ row'[n].health = "UNKNOWN"
          /\ \A m \in Nodes \ {n} : row'[m] = row[m]
          /\ req' = [req EXCEPT ![r] = Idle]
          /\ UNCHANGED <<created, todo, seen, past>>
      BY <1>11, <2>1, <2>3 DEF RemoveNode, Release, NoRow, NewRow, TypeOK
    <3>2. \A m \in Nodes : RowEarned(m)'
      BY <2>1, <3>1 DEF Earned, RowEarned, TypeOK
    <3>3. ASSUME NEW m \in todo' PROVE SeenEarned(m)'
      BY <2>1, <3>1, <3>3 DEF Earned, SeenEarned, TypeOK
    <3>4. ASSUME NEW q \in Requests, req'[q].step # "idle" PROVE RequestEarned(q)'
      <4>1. req[q].step # "idle" /\ req'[q] = req[q]
        BY <3>1, <3>4 DEF TypeOK, Idle
      <4> QED
        BY <1>0, <2>1, <3>1, <4>1 DEF RequestEarned, Finds
    <3> QED
      BY <3>2, <3>3, <3>4 DEF Earned
  <2> QED
    BY <2>2, <2>3
<1>12. ASSUME NEW r \in Requests, ReadPrevious(r) PROVE Earned'
  <2> DEFINE n == req[r].node
             x(s) == [req[r] EXCEPT !.step = "write", !.status = s]
  <2>1. n \in Nodes /\ req[r] \in Request /\ RequestEarned(r) /\ RowEarned(n)
    BY <1>0, <1>12 DEF ReadPrevious, Earned
  <2>2. CASE req' = [req EXCEPT ![r] = Idle]
    BY <1>12, <2>2, EarnedRead DEF ReadPrevious
  <2>3. ASSUME NEW s \in Statuses, s \in {"ONLINE", "DEGRADED"} => past[n] # {},
               req' = [req EXCEPT ![r] = x(s)]
        PROVE  Earned'
    <3>1. x(s).node = n /\ x(s).id = req[r].id /\ x(s).status = s
      BY <2>1 DEF Request
    <3> HIDE DEF x
    <3> QED
      BY <1>12, <2>1, <2>3, <3>1, EarnedRead DEF ReadPrevious, RequestEarned
  <2>4. CASE req' = [req EXCEPT ![r] = x("ONLINE")] /\ row[n].approval = "APPROVED"
    BY <2>1, <2>3, <2>4 DEF RowEarned, Statuses
  <2>5. CASE req' = [req EXCEPT ![r] = x(row[n].status)]
    BY <2>1, <2>3, <2>5 DEF RowEarned, TypeOK, Row
  <2> QED
    BY <1>12, <2>2, <2>4, <2>5 DEF ReadPrevious, HeartbeatStatus, Release
<1>13. ASSUME NEW r \in Requests, WriteHeartbeat(r) PROVE Earned'
  <2> DEFINE n == req[r].node
  <2>1. n \in Nodes /\ RequestEarned(r)
    BY <1>0, <1>13 DEF WriteHeartbeat
  <2>2. CASE ~Finds(r)
    BY <1>13, <2>2, EarnedRead DEF WriteHeartbeat, Release
  <2>3. CASE Finds(r)
    <3>1. /\ row'[n].id = row[n].id
          /\ row'[n].status = req[r].status
          /\ row'[n].health = row[n].health
          /\ row'[n].approval = row[n].approval
          /\ \A m \in Nodes \ {n} : row'[m] = row[m]
      <4>1. row[n] \in Row /\ req[r].status \in Statuses
        BY <1>0, <1>13, <2>1 DEF WriteHeartbeat, TypeOK, Request
      <4>2. row' = [row EXCEPT ![n] = [row[n] EXCEPT !.status = req[r].status, !.age = 0]]
        BY <1>13, <2>3 DEF WriteHeartbeat
      <4>3. row'[n] = [row[n] EXCEPT !.status = req[r].status, !.age = 0]
        BY <2>1, <4>2 DEF TypeOK
      <4>4. \A m \in Nodes \ {n} : row'[m] = row[m]
        BY <2>1, <4>2 DEF TypeOK
      <4>5. ASSUME NEW old \in Row, NEW s \in Statuses,
                   row'[n] = [old EXCEPT !.status = s, !.age = 0]
            PROVE  /\ row'[n].id = old.id
                   /\ row'[n].status = s
                   /\ row'[n].health = old.health
                   /\ row'[n].approval = old.approval
        BY <4>5 DEF Row
      <4> QED
        BY <4>1, <4>3, <4>4, <4>5, Zenon
    <3> QED
      BY <1>13, <2>1, <2>3, <3>1, EarnedWrite DEF WriteHeartbeat, Release, RequestEarned, TypeOK
  <2> QED
    BY <2>2, <2>3
<1>14. CASE SweepStart
  <2>1. \A n \in todo' : SeenEarned(n)'
    BY <1>14 DEF SweepStart, Exists, SnapshotOf, Earned, RowEarned, SeenEarned
  <2>2. \A n \in Nodes : RowEarned(n)'
    BY <1>14 DEF SweepStart, Earned, RowEarned
  <2>3. \A r \in Requests : req[r].step # "idle" => RequestEarned(r)'
    BY <1>0, <1>14 DEF SweepStart, RequestEarned, Finds
  <2> QED
    BY <1>14, <2>1, <2>2, <2>3 DEF SweepStart, Earned
<1>15. ASSUME NEW n \in Nodes, SweepNode(n) PROVE Earned'
  <2>1. /\ todo' \subseteq todo
        /\ \A m \in todo' : seen'[m] = seen[m]
        /\ UNCHANGED <<created, req>>
        /\ n \in todo
    BY <1>15 DEF SweepNode, TypeOK
  <2>2. CASE UNCHANGED <<row, past>>
    BY <2>1, <2>2, EarnedWrite
  <2>3. CASE MarkOffline(n)
    <3>1. past'[n] # {} /\ past[n] \subseteq past'[n] /\ row'[n].id = row[n].id
      BY <2>3 DEF MarkOffline, TypeOK, Row
    <3>2. \A m \in Nodes \ {n} : row'[m] = row[m] /\ past'[m] = past[m]
      BY <2>3 DEF MarkOffline, TypeOK
    <3> QED
      BY <2>1, <3>1, <3>2, EarnedWrite
  <2>4. CASE SweepRecovered(n) /\ MarkRecovered(n) /\ row[n].id = seen[n].id
    <3>1. past[n] # {} /\ past' = past
      BY <2>1, <2>4 DEF SweepRecovered, MarkRecovered, Earned, SeenEarned
    <3>2. row'[n].id = row[n].id /\ \A m \in Nodes \ {n} : row'[m] = row[m]
      BY <2>4 DEF MarkRecovered, TypeOK, Row
    <3> QED
      BY <2>1, <3>1, <3>2, EarnedWrite
  <2> QED
    BY <1>15, <2>2, <2>3, <2>4 DEF SweepNode
<1>16. CASE UNCHANGED vars
  BY <1>16, <1>0 DEF vars, Earned, RowEarned, SeenEarned, RequestEarned, Finds
<1> QED
  BY <1>1, <1>3, <1>4, <1>5, <1>6, <1>7, <1>8, <1>9, <1>10, <1>11, <1>12, <1>13,
     <1>14, <1>15, <1>16 DEF Next

\* A node is ONLINE only if an operator approved its row, or the sweep saw it fail
\* and come back.
THEOREM OnlineEarned == Spec => []OnlineIsEarned
<1>1. Earned => OnlineIsEarned
  BY DEF Earned, RowEarned, OnlineIsEarned
<1> QED
  BY <1>1, TypeCorrect, EarnedInit, EarnedNext, PTL DEF Spec

-----------------------------------------------------------------------------
(* RevocationIsFinal, an action property: it follows from TypeOK, by the    *)
(* place where each operation checks REVOKED.                               *)

LEMMA RevocationNext ==
  ASSUME TypeOK, TypeOK', [Next]_vars, NEW n \in Nodes, Revoked(n),
         row'[n].id = row[n].id
  PROVE  Revoked(n)'
<1>1. ASSUME NEW r \in Requests, req[r].step # "idle"
      PROVE  req[r] \in Request /\ req[r].node \in Nodes
  BY <1>1 DEF TypeOK, Idle, Request
<1>2. Exists(n)'
  BY DEF Revoked, Exists
<1>3. ASSUME UNCHANGED <<row, todo, seen>>, NEW r \in Requests, NEW x,
             req' = [req EXCEPT ![r] = x],
             \/ x.step \notin {"token", "write"}
             \/ x.step = "write" /\ x.op \notin {"heartbeat", "healthcheck", "register", "rotate"}
             \/ x.node # n
             \/ x.id # row[n].id
      PROVE  Revoked(n)'
  BY <1>3 DEF Revoked, Reviving, Exists, TypeOK
<1>4. ASSUME \/ row'[n] = row[n]
             \/ row'[n].status = "REVOKED" /\ row'[n].token = RevokedHash,
             UNCHANGED <<todo, seen>>, NEW r \in Requests, req' = [req EXCEPT ![r] = Idle]
      PROVE  Revoked(n)'
  BY <1>2, <1>4 DEF Revoked, Reviving, Idle, TypeOK
<1>5. CASE Tick
  <2>1. /\ row'[n].status = row[n].status
        /\ row'[n].token = row[n].token
    BY <1>5 DEF Tick, TypeOK, Row
  <2>2. n \in todo => seen'[n].status = seen[n].status /\ seen'[n].id = seen[n].id
    BY <1>5 DEF Tick, TypeOK, Snapshot
  <2> QED
    BY <1>2, <1>5, <2>1, <2>2 DEF Tick, Revoked, Reviving
<1>6. ASSUME NEW r \in Requests, NEW m \in Nodes, NEW op \in AllOperations,
             ReadRow(r, m, op)
      PROVE  Revoked(n)'
  BY <1>3, <1>6 DEF ReadRow, Hold, Allowed, ColumnWrites, Revoked
<1>7. ASSUME NEW r \in Requests, NEW m \in Nodes, RegisterNode(r, m)
      PROVE  Revoked(n)'
  BY <1>3, <1>7 DEF RegisterNode, Hold, Revoked, AllOperations
<1>8. ASSUME NEW r \in Requests, NEW m \in Nodes, NEW token,
             AuthenticateAgent(r, m, token)
      PROVE  Revoked(n)'
  BY <1>3, <1>8 DEF AuthenticateAgent, Authentic, Hold, AllOperations
<1>9. ASSUME NEW r \in Requests, NEW m \in Nodes, HealthCheck(r, m)
      PROVE  Revoked(n)'
  BY <1>3, <1>9 DEF HealthCheck, Hold, AllOperations
<1>10. ASSUME NEW r \in Requests, WriteColumns(r) PROVE Revoked(n)'
  <2>1. CASE req[r].node = n /\ Finds(r)
    <3>1. row[n] \in Row /\ row'[n] = Written(req[r].op, row[n])
      BY <1>10, <2>1 DEF WriteColumns, TypeOK
    <3>2. /\ Written(req[r].op, row[n]).status \in {row[n].status, "REVOKED"}
          /\ Written(req[r].op, row[n]).token \in {row[n].token, RevokedHash}
      BY <3>1 DEF Written, Row
    <3> QED
      BY <1>4, <1>10, <3>1, <3>2 DEF WriteColumns, Release, Revoked
  <2>2. CASE ~(req[r].node = n /\ Finds(r))
    BY <1>4, <1>10, <2>2 DEF WriteColumns, Release, TypeOK
  <2> QED
    BY <2>1, <2>2
<1>11. ASSUME NEW r \in Requests, WriteToken(r) PROVE Revoked(n)'
  <2>1. /\ req[r].step \in {"token", "write"}
        /\ req[r] \in Request
        /\ req[r].node # n \/ req[r].id # row[n].id
    BY <1>1, <1>11 DEF WriteToken, Revoked, Reviving
  <2>2. row'[n] = row[n]
    BY <1>1, <1>11, <2>1 DEF WriteToken, Finds, TypeOK
  <2>3. CASE req' = [req EXCEPT ![r] = Idle]
    BY <1>4, <1>11, <2>2, <2>3 DEF WriteToken
  <2>4. CASE req' = [req EXCEPT ![r] = [req[r] EXCEPT !.step = "write"]]
    <3>1. /\ req'[r].node = req[r].node /\ req'[r].id = req[r].id
          /\ \A q \in Requests \ {r} : req'[q] = req[q]
      BY <2>1, <2>4 DEF TypeOK, Request
    <3> QED
      BY ZenonT(60), <1>2, <1>11, <2>1, <2>2, <3>1 DEF WriteToken, Revoked, Reviving
  <2> QED
    BY <1>11, <2>3, <2>4 DEF WriteToken, Release
<1>12. ASSUME NEW r \in Requests, WriteRegistration(r) PROVE Revoked(n)'
  <2>1. req[r].node # n \/ ~Finds(r)
    BY <1>12 DEF WriteRegistration, Revoked, Reviving, Finds
  <2>2. row'[n] = row[n]
    BY <1>12, <2>1 DEF WriteRegistration, TypeOK
  <2> QED
    BY <1>4, <1>12, <2>2 DEF WriteRegistration, Release
<1>13. ASSUME NEW r \in Requests, CreateNode(r) PROVE Revoked(n)'
  <2>1. row'[n] = row[n]
    BY <1>13 DEF CreateNode, Revoked, TypeOK
  <2> QED
    BY <1>4, <1>13, <2>1 DEF CreateNode, Release
<1>14. ASSUME NEW r \in Requests, RemoveNode(r) PROVE Revoked(n)'
  <2>1. row'[n] = row[n]
    BY <1>2, <1>14 DEF RemoveNode, NoRow, NewRow, Exists, TypeOK
  <2> QED
    BY <1>4, <1>14, <2>1 DEF RemoveNode, Release
<1>15. ASSUME NEW r \in Requests, ReadPrevious(r) PROVE Revoked(n)'
  <2>1. req[r] \in Request
    BY <1>1, <1>15 DEF ReadPrevious
  <2>2. CASE Finds(r) /\ row[req[r].node].status # "REVOKED"
    <3>1. req[r].node # n
      BY <2>2 DEF Revoked
    <3>2. \A s : [req[r] EXCEPT !.step = "write", !.status = s].node # n
      BY <2>1, <3>1 DEF Request
    <3> QED
      BY <1>3, <1>15, <3>2 DEF ReadPrevious, Release, Idle
  <2>3. CASE ~(Finds(r) /\ row[req[r].node].status # "REVOKED")
    BY <1>4, <1>15, <2>3 DEF ReadPrevious, MayReport, Release
  <2> QED
    BY <2>2, <2>3
<1>16. ASSUME NEW r \in Requests, WriteHeartbeat(r) PROVE Revoked(n)'
  <2>1. req[r].node # n \/ ~Finds(r)
    BY <1>16 DEF WriteHeartbeat, Revoked, Reviving, Finds
  <2>2. row'[n] = row[n]
    BY <1>16, <2>1 DEF WriteHeartbeat, TypeOK
  <2> QED
    BY <1>4, <1>16, <2>2 DEF WriteHeartbeat, Release
<1>17. CASE SweepStart
  BY <1>2, <1>17 DEF SweepStart, Revoked, Reviving, SnapshotOf
<1>18. ASSUME NEW m \in Nodes, SweepNode(m) PROVE Revoked(n)'
  <2>1. todo' \subseteq todo /\ req' = req /\ \A k \in todo' : seen'[k] = seen[k]
    BY <1>18 DEF SweepNode, TypeOK
  <2>2. row'[n].status = "REVOKED" /\ row'[n].token = RevokedHash
    <3>1. CASE row'[n] = row[n]
      BY <3>1 DEF Revoked
    <3>2. CASE MarkOffline(m) /\ m = n /\ n \in todo /\ row[n].id = seen[n].id
      BY <3>2 DEF MarkOffline, Revoked, TypeOK, Row
    <3>3. CASE SweepRecovered(m) /\ m = n /\ n \in todo /\ row[n].id = seen[n].id
      BY <3>3 DEF SweepRecovered, Revoked
    <3>4. CASE (MarkOffline(m) \/ MarkRecovered(m)) /\ m # n
      BY <3>1, <3>4 DEF MarkOffline, MarkRecovered, TypeOK
    <3> QED
      BY <1>18, <3>1, <3>2, <3>3, <3>4 DEF SweepNode
  <2> QED
    BY <1>2, <2>1, <2>2 DEF Revoked, Reviving
<1>19. CASE UNCHANGED vars
  BY <1>2, <1>19 DEF vars, Revoked, Reviving
<1> QED
  BY <1>5, <1>6, <1>7, <1>8, <1>9, <1>10, <1>11, <1>12, <1>13, <1>14, <1>15, <1>16,
     <1>17, <1>18, <1>19 DEF Next

\* Nothing that starts after a revocation undoes it, short of removing the row.
THEOREM RevokedForGood == Spec => RevocationIsFinal
<1>1. TypeOK /\ TypeOK' /\ [Next]_vars
        => \A n \in Nodes : Revoked(n) => Revoked(n)' \/ row'[n].id # row[n].id
  BY RevocationNext
<1> QED
  BY <1>1, TypeCorrect, PTL DEF Spec, RevocationIsFinal

-----------------------------------------------------------------------------
(* RejectionSilences and MaintenanceSilences.  Both rest on two facts about *)
(* a step: what may restart the heartbeat clock of a row, and where a       *)
(* report in flight comes from.                                             *)

Beats == {"heartbeat", "healthcheck"}

\* Only a re-enrolment is ever about to write a token in the middle of a request.
TokenSteps == \A r \in Requests : req[r].step = "token" => req[r].op = "register"

LEMMA TokenStepsInit == Init => TokenSteps
BY DEF Init, TokenSteps, Idle

LEMMA TokenStepsNext == TypeOK /\ TokenSteps /\ [Next]_vars => TokenSteps'
<1> SUFFICES ASSUME TypeOK, TokenSteps, [Next]_vars, NEW q \in Requests,
                    req'[q].step = "token"
             PROVE  req'[q].op = "register"
  BY DEF TokenSteps
<1>1. ASSUME NEW r \in Requests, NEW x, req' = [req EXCEPT ![r] = x],
             x.step # "token" \/ x.op = "register"
      PROVE  req'[q].op = "register"
  BY <1>1 DEF TokenSteps, TypeOK
<1>2. Idle.step # "token"
  BY DEF Idle
<1>3. ASSUME NEW r \in Requests, NEW n \in Nodes,
             \/ \E op \in AllOperations : ReadRow(r, n, op)
             \/ RegisterNode(r, n)
             \/ \E token \in 1 .. issued[n] : AuthenticateAgent(r, n, token)
             \/ HealthCheck(r, n)
      PROVE  req'[q].op = "register"
  BY <1>1, <1>3 DEF ReadRow, RegisterNode, AuthenticateAgent, HealthCheck, Hold
<1>4. ASSUME NEW r \in Requests,
             WriteColumns(r) \/ WriteRegistration(r) \/ CreateNode(r)
               \/ RemoveNode(r) \/ WriteHeartbeat(r)
      PROVE  req'[q].op = "register"
  BY <1>1, <1>2, <1>4
     DEF WriteColumns, WriteRegistration, CreateNode, RemoveNode, WriteHeartbeat, Release
<1>5. ASSUME NEW r \in Requests, WriteToken(r) \/ ReadPrevious(r)
      PROVE  req'[q].op = "register"
  <2>1. req[r] \in Request
    BY <1>5 DEF WriteToken, ReadPrevious, TypeOK, Idle
  <2>2. /\ [req[r] EXCEPT !.step = "write"].step # "token"
        /\ \A s : [req[r] EXCEPT !.step = "write", !.status = s].step # "token"
    BY <2>1 DEF Request
  <2> QED
    BY <1>1, <1>2, <1>5, <2>2 DEF WriteToken, ReadPrevious, Release
<1>6. ASSUME req' = req PROVE req'[q].op = "register"
  BY <1>6 DEF TokenSteps
<1> QED
  BY <1>3, <1>4, <1>5, <1>6 DEF Next, Tick, SweepStart, SweepNode, vars

\* No step but the second half of a report restarts the heartbeat clock of a row.
LEMMA ClockKept ==
  ASSUME TypeOK, [Next]_vars, NEW n \in Nodes, Exists(n), row'[n].id = row[n].id,
         \A r \in Requests :
           req[r].step = "write" /\ req[r].op \in Beats
             => ~(req[r].node = n /\ req[r].id = row[n].id)
  PROVE  row'[n].age \in {row[n].age, Older(row[n].age)}
<1>1. row[n] \in Row
  BY DEF TypeOK
<1>2. CASE row'[n] = row[n]
  BY <1>2
<1>3. CASE Tick
  BY <1>1, <1>3 DEF Tick, TypeOK, Row
<1>4. ASSUME NEW r \in Requests, WriteColumns(r) PROVE row'[n].age = row[n].age
  BY <1>1, <1>4, WrittenType DEF WriteColumns, TypeOK
<1>5. ASSUME NEW r \in Requests, WriteToken(r) \/ WriteRegistration(r)
      PROVE  row'[n].age = row[n].age
  <2>1. CASE ~(req[r].node = n /\ Finds(r))
    BY <1>5, <2>1 DEF WriteToken, WriteRegistration, TypeOK
  <2>2. CASE req[r].node = n /\ Finds(r)
    <3>1. \/ row'[n] = [row[n] EXCEPT !.token = issued[n] + 1]
          \/ row'[n] = [row[n] EXCEPT !.status = "REGISTERING"]
      BY <1>5, <2>2 DEF WriteToken, WriteRegistration, TypeOK
    <3> QED
      BY <1>1, <3>1 DEF Row
  <2> QED
    BY <2>1, <2>2
<1>6. ASSUME NEW r \in Requests, CreateNode(r) \/ RemoveNode(r)
      PROVE  row'[n].age = row[n].age
  BY <1>6 DEF CreateNode, RemoveNode, Exists, NoRow, NewRow, TypeOK
<1>7. ASSUME NEW r \in Requests, WriteHeartbeat(r) PROVE row'[n] = row[n]
  BY <1>7 DEF WriteHeartbeat, Finds, Beats, TypeOK
<1>8. ASSUME NEW m \in Nodes, SweepNode(m) PROVE row'[n].age = row[n].age
  <2>1. CASE row' = row
    BY <2>1
  <2>2. CASE MarkOffline(m) \/ MarkRecovered(m)
    <3>1. CASE m # n
      BY <2>2, <3>1 DEF MarkOffline, MarkRecovered, TypeOK
    <3>2. CASE m = n
      <4>1. PICK status :
              \/ row'[n] = [row[n] EXCEPT !.health = "OFFLINE", !.status = status]
              \/ row'[n] = [row[n] EXCEPT !.health = DeriveHealth(seen[n]), !.status = status]
        BY ZenonT(60), <2>2, <3>2 DEF MarkOffline, MarkRecovered, TypeOK
      <4> QED
        BY <1>1, <4>1 DEF Row
    <3> QED
      BY <3>1, <3>2
  <2> QED
    BY <1>8, <2>1, <2>2 DEF SweepNode
<1>9. ASSUME NEW r \in Requests, NEW m \in Nodes,
             \/ \E op \in AllOperations : ReadRow(r, m, op)
             \/ RegisterNode(r, m)
             \/ \E token \in 1 .. issued[m] : AuthenticateAgent(r, m, token)
             \/ HealthCheck(r, m)
             \/ ReadPrevious(r)
      PROVE  row' = row
  BY <1>9 DEF ReadRow, RegisterNode, AuthenticateAgent, HealthCheck, ReadPrevious
<1> QED
  BY <1>2, <1>3, <1>4, <1>5, <1>6, <1>7, <1>8, <1>9 DEF Next, SweepStart, vars

\* A report in flight on a row after a step was there before it, has just passed the
\* checks of applyHeartbeat, or has just been accepted: from an agent, which no row in
\* maintenance accepts, or from the console.
LEMMA ReportOrigin ==
  ASSUME TypeOK, TokenSteps, [Next]_vars, NEW n \in Nodes, row'[n].id = row[n].id,
         NEW q \in Requests, req'[q].step \in {"authenticated", "write"},
         req'[q].op \in Beats, req'[q].node = n, req'[q].id = row[n].id
  PROVE  \/ req'[q] = req[q]
         \/ /\ req[q].step = "authenticated" /\ req'[q].step = "write"
            /\ req[q].op = req'[q].op /\ req[q].node = n /\ req[q].id = row[n].id
            /\ MayReport(n)
         \/ /\ req'[q].step = "authenticated"
            /\ req'[q].op = "healthcheck" \/ ~row[n].maintenance
<1> DEFINE Goal == \/ req'[q] = req[q]
                   \/ /\ req[q].step = "authenticated" /\ req'[q].step = "write"
                      /\ req[q].op = req'[q].op /\ req[q].node = n /\ req[q].id = row[n].id
                      /\ MayReport(n)
                   \/ /\ req'[q].step = "authenticated"
                      /\ req'[q].op = "healthcheck" \/ ~row[n].maintenance
<1>0. Idle.step \notin {"authenticated", "write"}
  BY DEF Idle
<1>1. ASSUME NEW r \in Requests, r # q, NEW x, req' = [req EXCEPT ![r] = x]
      PROVE  req'[q] = req[q]
  BY <1>1 DEF TypeOK
<1>2. ASSUME NEW x, req' = [req EXCEPT ![q] = x] PROVE req'[q] = x
  BY <1>2 DEF TypeOK
<1>3. ASSUME NEW r \in Requests, NEW m \in Nodes, NEW op \in AllOperations,
             ReadRow(r, m, op)
      PROVE  Goal
  BY <1>1, <1>2, <1>3 DEF ReadRow, Hold, ColumnWrites, Beats
<1>4. ASSUME NEW r \in Requests, NEW m \in Nodes, RegisterNode(r, m) PROVE Goal
  BY <1>1, <1>2, <1>4 DEF RegisterNode, Hold, Beats
<1>5. ASSUME NEW r \in Requests, NEW m \in Nodes, NEW token,
             AuthenticateAgent(r, m, token)
      PROVE  Goal
  BY <1>1, <1>2, <1>5 DEF AuthenticateAgent, Authentic, Hold
<1>6. ASSUME NEW r \in Requests, NEW m \in Nodes, HealthCheck(r, m) PROVE Goal
  BY <1>1, <1>2, <1>6 DEF HealthCheck, Hold
<1>7. ASSUME NEW r \in Requests, req' = [req EXCEPT ![r] = Idle] PROVE Goal
  BY <1>0, <1>1, <1>2, <1>7
<1>8. ASSUME NEW r \in Requests,
             WriteColumns(r) \/ WriteRegistration(r) \/ CreateNode(r)
               \/ RemoveNode(r) \/ WriteHeartbeat(r)
      PROVE  Goal
  BY <1>7, <1>8
     DEF WriteColumns, WriteRegistration, CreateNode, RemoveNode, WriteHeartbeat, Release
<1>9. ASSUME NEW r \in Requests, WriteToken(r) PROVE Goal
  <2>1. CASE req' = [req EXCEPT ![r] = Idle]
    BY <1>7, <2>1
  <2>2. CASE req[r].step = "token" /\ req' = [req EXCEPT ![r] = [req[r] EXCEPT !.step = "write"]]
    <3>1. req[r] \in Request /\ req[r].op = "register"
      BY <2>2 DEF TokenSteps, TypeOK, Idle
    <3>2. [req[r] EXCEPT !.step = "write"].op \notin Beats
      BY <3>1 DEF Request, Beats
    <3> QED
      BY <1>1, <1>2, <2>2, <3>2
  <2> QED
    BY <1>9, <2>1, <2>2 DEF WriteToken, Release
<1>10. ASSUME NEW r \in Requests, ReadPrevious(r) PROVE Goal
  <2>1. CASE req' = [req EXCEPT ![r] = Idle]
    BY <1>7, <2>1
  <2>2. ASSUME NEW s, MayReport(req[r].node), req[r].step = "authenticated",
               req' = [req EXCEPT ![r] = [req[r] EXCEPT !.step = "write", !.status = s]]
        PROVE  Goal
    <3>1. req[r] \in Request
      BY <2>2 DEF TypeOK, Idle
    <3>2. ASSUME NEW x \in Request, x = req[r]
          PROVE  LET y == [x EXCEPT !.step = "write", !.status = s]
                 IN  y.step = "write" /\ y.op = x.op /\ y.node = x.node /\ y.id = x.id
      BY <3>2 DEF Request
    <3> QED
      BY <1>1, <1>2, <2>2, <3>1, <3>2
  <2> QED
    BY <1>10, <2>1, <2>2 DEF ReadPrevious, Release
<1>11. CASE req' = req
  BY <1>11
<1> QED
  BY <1>3, <1>4, <1>5, <1>6, <1>8, <1>9, <1>10, <1>11
     DEF Next, Tick, SweepStart, SweepNode, vars

\* A rejected node reports nothing more, whatever token its agent holds or re-enrols
\* for, until an operator approves it.
THEOREM RejectedIsSilent == Spec => RejectionSilences
<1>1. ASSUME TypeOK, TokenSteps, [Next]_vars, NEW n \in Nodes, Silenced(n),
             row'[n].id = row[n].id, row'[n].approval = "REJECTED"
      PROVE  Silenced(n)' /\ row'[n].age \in {row[n].age, Older(row[n].age)}
  <2>1. row'[n].age \in {row[n].age, Older(row[n].age)}
    BY <1>1, ClockKept DEF Silenced, Beats
  <2>2. ASSUME NEW q \in Requests, req'[q].step = "write", req'[q].op \in Beats,
               req'[q].node = n, req'[q].id = row[n].id
        PROVE  FALSE
    <3>1. ~MayReport(n)
      BY <1>1 DEF Silenced, MayReport
    <3>2. req'[q] = req[q]
      BY <1>1, <2>2, <3>1, ReportOrigin
    <3> QED
      BY <1>1, <2>2, <3>2 DEF Silenced, Beats
  <2> QED
    BY <1>1, <2>1, <2>2 DEF Silenced, Exists, Beats
<1>2. TypeOK /\ TokenSteps /\ [Next]_vars
        => \A n \in Nodes :
             Silenced(n) /\ row'[n].id = row[n].id /\ row'[n].approval = "REJECTED"
               => /\ Silenced(n)'
                  /\ row'[n].age \in {row[n].age, Older(row[n].age)}
  BY <1>1
<1> QED
  BY <1>2, TypeCorrect, TokenStepsInit, TokenStepsNext, PTL DEF Spec, RejectionSilences

\* No agent reports through maintenance: once its last accepted heartbeat is over, the
\* clock of its row restarts only after maintenance, or for a console health check.
THEOREM MaintainedIsSilent == Spec => MaintenanceSilences
<1>1. ASSUME TypeOK, TokenSteps, [Next]_vars, NEW n \in Nodes, Parked(n),
             row'[n].id = row[n].id, row'[n].maintenance
      PROVE  /\ row'[n].age \in {row[n].age, Older(row[n].age)}
             /\ \/ Parked(n)'
                \/ \E r \in Requests :
                     req'[r].step = "authenticated" /\ req'[r].op = "healthcheck"
  <2>1. row'[n].age \in {row[n].age, Older(row[n].age)}
    BY <1>1, ClockKept DEF Parked, Beats
  <2>2. ASSUME NEW q \in Requests, req'[q].step \in {"authenticated", "write"},
               req'[q].op \in Beats, req'[q].node = n, req'[q].id = row[n].id
        PROVE  req'[q].step = "authenticated" /\ req'[q].op = "healthcheck"
    <3>1. row[n].maintenance
      BY <1>1 DEF Parked
    <3>2. ASSUME req[q].step \in {"authenticated", "write"}, req[q].op \in Beats,
                 req[q].node = n, req[q].id = row[n].id
          PROVE  FALSE
      BY <1>1, <3>2 DEF Parked, Beats
    <3> QED
      BY <1>1, <2>2, <3>1, <3>2, ReportOrigin
  <2> QED
    BY <1>1, <2>1, <2>2 DEF Parked, Exists, Beats
<1>2. TypeOK /\ TokenSteps /\ [Next]_vars
        => \A n \in Nodes :
             Parked(n) /\ row'[n].id = row[n].id /\ row'[n].maintenance
               => /\ row'[n].age \in {row[n].age, Older(row[n].age)}
                  /\ \/ Parked(n)'
                     \/ \E r \in Requests :
                          /\ req'[r].step = "authenticated"
                          /\ req'[r].op = "healthcheck"
  BY <1>1
<1> QED
  BY <1>2, TypeCorrect, TokenStepsInit, TokenStepsNext, PTL DEF Spec, MaintenanceSilences

-----------------------------------------------------------------------------
(* DNS filtering: the counts of reports, and the entry counts of lists.     *)

Cells == Nat \cup {None}

\* What a request for a report, or a page that reads settings, has in hand.
ReportState(s) ==
  /\ DOMAIN s = {"op", "step", "report", "next", "seen", "read", "value"}
  /\ s.report \in Seq([row: Rows, count: Nat]) /\ s.next \in Nat \ {0}
  /\ s.read \in [Keys -> Cells] /\ s.value \in [Keys -> Cells]
  /\ \A k \in Keys : s.read[k] = None => s.value[k] \in Nat
  /\ s.step \in {"settings", "look", "write"}
  /\ s.step # "settings" => s.read = Unread
  /\ s.step = "write" => s.next <= Len(s.report)
Fits(s) == /\ s.op = "report" => ReportState(s)
           /\ s.op = "view" => s.read \in [Keys -> Cells]

\* A row holds what reports have written into it.
RowsHold ==
  /\ DOMAIN stat = Rows /\ written \in [Rows -> Nat]
  /\ \A r \in Rows : IF stat[r] = None THEN written[r] = 0 ELSE stat[r] \in Stat /\ stat[r].count = written[r]

SettingsTyped == stored \in [Keys -> Cells] /\ cache \in [Keys -> Cells]

ReportsInv == /\ SettingsTyped /\ RowsHold
              /\ DOMAIN task = Tasks /\ \A t \in Tasks : Fits(task[t])

EditFields == {"op", "step", "id", "name", "entry", "add", "remove", "removed", "count", "alone"}

\* What an edit that is alone has counted is what it will leave.
Due(s) ==
  s.alone /\ There(s.id) =>
    /\ s.op \in {"create", "rule"} /\ s.step = "store" => s.count = Size(entries[s.id])
    /\ s.op = "update" /\ s.step = "commit" => s.count = Size(Without(Add(entries[s.id], Global(s.add)), s.removed))

EditState(s) ==
  /\ DOMAIN s = EditFields
  /\ s.step \notin {"find", "make"} => s.id \in ListIds

ListsTyped ==
  /\ DOMAIN list = ListIds /\ DOMAIN entries = ListIds
  /\ \A l \in ListIds : There(l) => DOMAIN list[l] = {"name", "entryCount"}

\* An edit that is alone is the only one; a list that has healed is edited by nobody.
EditsInv ==
  /\ ListsTyped /\ DOMAIN task = Tasks
  /\ \A t \in Tasks : Editing(t) => EditState(task[t]) /\ Due(task[t])
  /\ \A t, u \in Tasks : Editing(t) /\ Editing(u) /\ task[t].alone => t = u
  /\ healed # None => healed \in ListIds /\ \A t \in Tasks : ~Editing(t)
  /\ CountHeals

CountsInv == ReportsInv /\ EditsInv

-----------------------------------------------------------------------------
(* Reports. *)

LEMMA OpOfIdle == IdleTask.op = "idle"
BY DEF IdleTask

\* A request that goes on, and whatever else becomes of the others.
LEMMA ReportsGoOn ==
  ASSUME ReportsInv, SettingsTyped', RowsHold', NEW t \in Tasks, NEW s, Become(t, s), Fits(s)
  PROVE  ReportsInv'
BY DEF ReportsInv, Become

LEMMA ReportsElsewhere ==
  ASSUME ReportsInv, SettingsTyped', RowsHold', DOMAIN task' = Tasks,
         \A t \in Tasks : task'[t].op \in {"report", "view"} => task'[t] = task[t]
  PROVE  ReportsInv'
BY DEF ReportsInv, Fits

LEMMA SameSettings == ASSUME ReportsInv, UNCHANGED settings PROVE SettingsTyped'
BY DEF ReportsInv, SettingsTyped, settings

LEMMA SameStats == ASSUME ReportsInv, UNCHANGED <<stat, written>> PROVE RowsHold'
BY DEF ReportsInv, RowsHold

LEMMA DefaultTyped == ASSUME NEW k \in Keys PROVE Default[k] \in Nat
BY DefaultAssumption, DnsBounds

LEMMA AnsweredTyped == ASSUME SettingsTyped, NEW k \in Keys PROVE OrDefault(k, stored[k]) \in Nat
BY DefaultTyped DEF SettingsTyped, OrDefault, Cells

LEMMA RememberTyped ==
  ASSUME SettingsTyped, NEW read \in [Keys -> Cells], Remember(read), UNCHANGED stored PROVE SettingsTyped'
BY DEF SettingsTyped, Remember

\* The rows and the settings that a request of an operator or of a page changes.
LEMMA ReportsSettings ==
  ASSUME ReportsInv, NEW t \in Tasks,
         \/ \E k \in Keys, value \in Values : Save(t, k, value)
         \/ StartSeed(t) \/ Seed(t) \/ FinishSave(t)
         \/ \E keys \in SUBSET Keys : View(t, keys)
         \/ FinishView(t)
  PROVE  ReportsInv'
<1> USE DEF ReportsInv
<1>1. CASE \E k \in Keys, value \in Values : Save(t, k, value)
  <2>1. PICK k \in Keys, value \in Values : Save(t, k, value)
    BY <1>1
  <2>2. value \in Nat
    BY DnsBounds
  <2>3. SettingsTyped'
    BY <2>1, <2>2 DEF SettingsTyped, Save, StoreValue, Cells
  <2> DEFINE s == [op |-> "save", step |-> "invalidate", keys |-> {k}]
  <2>4. Become(t, s) /\ UNCHANGED <<stat, written>>
    BY <2>1 DEF Save, Begin
  <2>5. Fits(s)
    BY DEF Fits
  <2> HIDE DEF s
  <2> QED
    BY <2>3, <2>4, <2>5, SameStats, ReportsGoOn
<1>2. CASE StartSeed(t)
  <2> DEFINE s == [op |-> "seed", step |-> "create", missing |-> MissingRows]
  <2>1. Become(t, s) /\ UNCHANGED <<settings, stat, written>>
    BY <1>2 DEF StartSeed, Begin
  <2>2. Fits(s)
    BY DEF Fits
  <2> HIDE DEF s
  <2> QED
    BY <2>1, <2>2, SameStats, SameSettings, ReportsGoOn
<1>3. CASE Seed(t)
  <2>1. SettingsTyped'
    BY <1>3, DefaultTyped DEF SettingsTyped, Seed, Seeded, Cells
  <2>2. End(t) \/ Become(t, [op |-> "save", step |-> "invalidate", keys |-> Keys])
    BY <1>3 DEF Seed
  <2>3. Fits(IdleTask) /\ Fits([op |-> "save", step |-> "invalidate", keys |-> Keys])
    BY OpOfIdle DEF Fits
  <2>4. UNCHANGED <<stat, written>>
    BY <1>3 DEF Seed
  <2> QED
    BY <2>1, <2>2, <2>3, <2>4, SameStats, ReportsGoOn DEF End
<1>4. CASE FinishSave(t)
  <2>1. SettingsTyped'
    BY <1>4 DEF SettingsTyped, FinishSave, Invalidate, Cells
  <2>2. Become(t, IdleTask) /\ UNCHANGED <<stat, written>>
    BY <1>4 DEF FinishSave, End
  <2>3. Fits(IdleTask)
    BY OpOfIdle DEF Fits
  <2> QED
    BY <2>1, <2>2, <2>3, SameStats, ReportsGoOn
<1>5. ASSUME NEW keys \in SUBSET Keys, View(t, keys) PROVE ReportsInv'
  <2> DEFINE missed == {k \in keys : ~Hit(k)}
             read == [k \in Keys |-> IF k \in missed THEN OrDefault(k, stored[k]) ELSE None]
             s == [op |-> "view", step |-> "rows", read |-> read]
  <2>1. Become(t, s) /\ UNCHANGED <<settings, stat, written>>
    BY <1>5 DEF View
  <2>2. read \in [Keys -> Cells]
    BY AnsweredTyped DEF Cells
  <2>3. s.op = "view" /\ s.read = read
    OBVIOUS
  <2> HIDE DEF s, read
  <2>4. Fits(s)
    BY <2>2, <2>3 DEF Fits
  <2> QED
    BY <2>1, <2>4, SameStats, SameSettings, ReportsGoOn
<1>6. CASE FinishView(t)
  <2>1. task[t].read \in [Keys -> Cells]
    BY <1>6 DEF FinishView, At, Fits
  <2>2. SettingsTyped'
    BY <1>6, <2>1, RememberTyped DEF FinishView
  <2>3. Become(t, IdleTask) /\ UNCHANGED <<stat, written>>
    BY <1>6 DEF FinishView, End
  <2>4. Fits(IdleTask)
    BY OpOfIdle DEF Fits
  <2> QED
    BY <2>2, <2>3, <2>4, SameStats, ReportsGoOn
<1> QED
  BY <1>1, <1>2, <1>3, <1>4, <1>5, <1>6

LEMMA ReportsReceive ==
  ASSUME ReportsInv, NEW t \in Tasks, NEW report \in Reports, Receive(t, report) PROVE ReportsInv'
<1> DEFINE read == [k \in Keys |-> IF Hit(k) THEN None ELSE OrDefault(k, stored[k])]
           value == [k \in Keys |-> IF Hit(k) THEN cache[k] ELSE None]
           s == [op |-> "report", step |-> "settings", report |-> report, next |-> 1, seen |-> None,
                 read |-> read, value |-> value]
<1>1. Become(t, s) /\ UNCHANGED <<settings, stat, written>>
  BY DEF Receive, Begin
<1>2. read \in [Keys -> Cells]
  BY AnsweredTyped DEF Cells, ReportsInv
<1>3. value \in [Keys -> Cells]
  BY DEF Cells, ReportsInv, SettingsTyped
<1>4. ASSUME NEW k \in Keys, read[k] = None PROVE value[k] \in Nat
  <2>1. CASE Hit(k)
    BY <2>1 DEF Hit, ReportsInv, SettingsTyped, Cells
  <2>2. CASE ~Hit(k)
    <3>1. read[k] \in Nat /\ value[k] = None
      BY <2>2, AnsweredTyped DEF ReportsInv
    <3> QED
      BY <1>4, <3>1
  <2> QED
    BY <2>1, <2>2
<1>5. report \in Seq([row: Rows, count: Nat])
  BY ReportsAssumption
<1> HIDE DEF read, value
<1>6. /\ DOMAIN s = {"op", "step", "report", "next", "seen", "read", "value"}
      /\ s.report = report /\ s.next = 1 /\ s.read = read /\ s.value = value /\ s.step = "settings" /\ s.op = "report"
  OBVIOUS
<1> HIDE DEF s
<1>7. Fits(s)
  BY <1>2, <1>3, <1>4, <1>5, <1>6 DEF Fits, ReportState
<1> QED
  BY <1>1, <1>7, SameStats, SameSettings, ReportsGoOn

LEMMA ReportsReadSetting ==
  ASSUME ReportsInv, NEW t \in Tasks, NEW k \in Keys, ReadSetting(t, k) PROVE ReportsInv'
<1>1. ReportState(task[t]) /\ task[t].step = "settings" /\ task[t].op = "report" /\ task[t].read[k] # None
  BY DEF ReportsInv, ReadSetting, At, Fits
<1>2. task[t].read[k] \in Nat
  BY <1>1 DEF ReportState, Cells
<1>3. ASSUME NEW x \in Nat, NEW s, s = [task[t] EXCEPT !.read[k] = None, !.value[k] = x]
      PROVE  Fits(s)
  <2> DEFINE w == [task[t] EXCEPT !.read[k] = None]
  <2>1. /\ DOMAIN w = DOMAIN task[t] /\ w.read = [task[t].read EXCEPT ![k] = None] /\ w.value = task[t].value
        /\ w.op = "report" /\ w.step = "settings" /\ w.report = task[t].report /\ w.next = task[t].next
    BY <1>1 DEF ReportState
  <2>2. s = [w EXCEPT !.value[k] = x]
    BY <1>3, Zenon
  <2> HIDE DEF w
  <2>3. /\ DOMAIN s = DOMAIN task[t] /\ s.read = [task[t].read EXCEPT ![k] = None]
        /\ s.value = [task[t].value EXCEPT ![k] = x]
        /\ s.op = "report" /\ s.step = "settings" /\ s.report = task[t].report /\ s.next = task[t].next
    BY <1>1, <2>1, <2>2 DEF ReportState
  <2>4. s.read \in [Keys -> Cells] /\ s.value \in [Keys -> Cells]
    BY <1>1, <2>3 DEF ReportState, Cells
  <2>5. \A j \in Keys : s.read[j] = None => s.value[j] \in Nat
    BY <1>1, <2>3 DEF ReportState
  <2> QED
    BY <1>1, <2>3, <2>4, <2>5 DEF Fits, ReportState
<1>4. UNCHANGED <<stored, stat, written>>
  BY DEF ReadSetting
<1>5. CASE /\ Remember([Unread EXCEPT ![k] = task[t].read[k]])
           /\ Become(t, [task[t] EXCEPT !.read[k] = None, !.value[k] = task[t].read[k]])
  <2>1. [Unread EXCEPT ![k] = task[t].read[k]] \in [Keys -> Cells]
    BY <1>2 DEF Unread, Cells
  <2>2. SettingsTyped'
    BY <1>4, <1>5, <2>1, RememberTyped DEF ReportsInv
  <2> QED
    BY <1>2, <1>3, <1>4, <1>5, <2>2, SameStats, ReportsGoOn
<1>6. CASE UNCHANGED cache /\ Become(t, [task[t] EXCEPT !.read[k] = None, !.value[k] = 0])
  <2>1. SettingsTyped'
    BY <1>4, <1>6 DEF ReportsInv, SettingsTyped
  <2> QED
    BY <1>3, <1>4, <1>6, <2>1, SameStats, ReportsGoOn
<1> QED
  BY <1>5, <1>6 DEF ReadSetting

LEMMA ReportsLook == ASSUME ReportsInv, NEW t \in Tasks, Look(t) PROVE ReportsInv'
<1>1. ReportState(task[t]) /\ task[t].op = "report" /\ task[t].read = Unread
  BY DEF ReportsInv, Look, At, Fits, ReportState
<1>2. UNCHANGED <<settings, stat, written>>
  BY DEF Look
<1>3. CASE task[t].next > Len(task[t].report)
  <2>1. Become(t, IdleTask)
    BY <1>3 DEF Look, End
  <2>2. Fits(IdleTask)
    BY OpOfIdle DEF Fits
  <2> QED
    BY <1>2, <2>1, <2>2, SameStats, SameSettings, ReportsGoOn
<1>4. CASE ~(task[t].next > Len(task[t].report))
  <2> DEFINE w == [task[t] EXCEPT !.step = "write"]
             s == [w EXCEPT !.seen = stat[task[t].report[task[t].next].row]]
  <2>1. Become(t, s)
    BY <1>4 DEF Look
  <2>2. /\ DOMAIN w = DOMAIN task[t] /\ w.op = "report" /\ w.step = "write" /\ w.report = task[t].report
        /\ w.next = task[t].next /\ w.read = task[t].read /\ w.value = task[t].value
    BY <1>1 DEF ReportState
  <2> HIDE DEF w
  <2>3. /\ DOMAIN s = DOMAIN task[t] /\ s.op = "report" /\ s.step = "write" /\ s.report = task[t].report
        /\ s.next = task[t].next /\ s.read = task[t].read /\ s.value = task[t].value
    BY <1>1, <2>2 DEF ReportState
  <2> HIDE DEF s
  <2>4. Len(task[t].report) \in Nat
    BY <1>1 DEF ReportState
  <2>5. Fits(s)
    BY <1>1, <1>4, <2>3, <2>4 DEF Fits, ReportState
  <2> QED
    BY <1>2, <2>1, <2>5, SameStats, SameSettings, ReportsGoOn
<1> QED
  BY <1>3, <1>4

LEMMA EntryOf == ASSUME NEW S, NEW q \in Seq(S), NEW i \in 1 .. Len(q) PROVE q[i] \in S
OBVIOUS

\* One statement adds what the entry counts, or makes the row with it.
LEMMA ReportsWrite == ASSUME ReportsInv, NEW t \in Tasks, Write(t) PROVE ReportsInv'
<1> DEFINE s == task[t]
           entry == s.report[s.next]
           found == stat[entry.row]
<1>1. ReportState(s) /\ s.op = "report" /\ s.step = "write"
  BY DEF ReportsInv, Write, At, Fits
<1>2. SettingsTyped'
  BY SameSettings DEF Write
<1>3. entry \in [row: Rows, count: Nat] /\ entry.row \in Rows /\ entry.count \in Nat
  <2>1. s.report \in Seq([row: Rows, count: Nat]) /\ s.next \in 1 .. Len(s.report)
    BY <1>1 DEF ReportState
  <2> HIDE DEF s
  <2>2. entry \in [row: Rows, count: Nat]
    BY <2>1, EntryOf
  <2> QED
    BY <2>2
<1>4. s.value[Assumed] \in Nat
  BY <1>1, DnsBounds DEF ReportState, Unread
<1>5. CASE (s.seen = None) # (found = None)
  <2>1. Become(t, IdleTask) /\ UNCHANGED <<stat, written>>
    BY <1>5 DEF Write, End
  <2>2. Fits(IdleTask)
    BY OpOfIdle DEF Fits
  <2> QED
    BY <1>2, <2>1, <2>2, SameStats, ReportsGoOn
<1>6. CASE ~((s.seen = None) # (found = None))
  <2> DEFINE new == IF found = None THEN Made(entry, s.value[Assumed]) ELSE Incremented(found, s.seen, entry.count)
             w == [s EXCEPT !.step = "look"]
             x == [w EXCEPT !.next = @ + 1]
             y == [x EXCEPT !.seen = None]
  <2>1. /\ stat' = [stat EXCEPT ![entry.row] = new] /\ written' = [written EXCEPT ![entry.row] = @ + entry.count]
    BY <1>6 DEF Write
  <2>2. Become(t, y)
    BY <1>6 DEF Write
  <2>3. written[entry.row] \in Nat /\ IF found = None THEN written[entry.row] = 0
                                      ELSE found \in Stat /\ found.count = written[entry.row]
    BY <1>3 DEF ReportsInv, RowsHold
  <2>4. new \in Stat /\ new.count = written[entry.row] + entry.count
    <3>1. CASE found = None
      <4>1. new = Made(entry, s.value[Assumed])
        BY <3>1
      <4>2. s.value[Assumed] * entry.count \in Nat
        BY <1>3, <1>4
      <4> HIDE DEF s, entry, found, new
      <4> QED
        BY <1>3, <2>3, <3>1, <4>1, <4>2 DEF Made, Stat
    <3>2. CASE found # None
      <4>1. new = [found EXCEPT !.count = @ + entry.count]
        BY <3>2 DEF Incremented
      <4> HIDE DEF s, entry, found, new
      <4> QED
        BY <1>3, <2>3, <3>2, <4>1 DEF Stat
    <3> QED
      BY <3>1, <3>2
  <2>5. new # None
    BY <2>4, NoStatAssumption
  <2> HIDE DEF new, found
  <2>6. RowsHold'
    <3> HIDE DEF entry
    <3>1. DOMAIN stat' = Rows /\ written' \in [Rows -> Nat]
      BY <1>3, <2>1, <2>3 DEF ReportsInv, RowsHold
    <3>2. ASSUME NEW r \in Rows
          PROVE IF stat'[r] = None THEN written'[r] = 0 ELSE stat'[r] \in Stat /\ stat'[r].count = written'[r]
      <4>1. CASE r = entry.row
        <5>1. stat'[r] = new /\ written'[r] = written[entry.row] + entry.count
          BY <1>3, <2>1, <4>1 DEF ReportsInv, RowsHold
        <5> QED
          BY <2>4, <2>5, <5>1
      <4>2. CASE r # entry.row
        BY <1>3, <2>1, <4>2 DEF ReportsInv, RowsHold
      <4> QED
        BY <4>1, <4>2
    <3> QED
      BY <3>1, <3>2 DEF RowsHold
  <2>7. Fits(y)
    <3> HIDE DEF entry
    <3>1. /\ DOMAIN w = DOMAIN s /\ w.op = "report" /\ w.step = "look" /\ w.report = s.report
          /\ w.next = s.next /\ w.read = s.read /\ w.value = s.value
      BY <1>1 DEF ReportState
    <3> HIDE DEF w
    <3>2. /\ DOMAIN x = DOMAIN s /\ x.op = "report" /\ x.step = "look" /\ x.report = s.report
          /\ x.next = s.next + 1 /\ x.read = s.read /\ x.value = s.value
      BY <1>1, <3>1 DEF ReportState
    <3> HIDE DEF x
    <3>3. /\ DOMAIN y = DOMAIN s /\ y.op = "report" /\ y.step = "look" /\ y.report = s.report
          /\ y.next = s.next + 1 /\ y.read = s.read /\ y.value = s.value
      BY <1>1, <3>2 DEF ReportState
    <3> HIDE DEF y, s
    <3> QED
      BY <1>1, <3>3 DEF Fits, ReportState
  <2> QED
    BY <1>2, <2>2, <2>6, <2>7, ReportsGoOn
<1> QED
  BY <1>5, <1>6

-----------------------------------------------------------------------------
(* Edits of lists. *)

LEMMA ReportsAside ==
  ASSUME ReportsInv, UNCHANGED <<settings, stat, written>>, DOMAIN task' = Tasks,
         \A u \in Tasks : task'[u].op \in {"report", "view"} => task'[u] = task[u]
  PROVE  ReportsInv'
BY SameSettings, SameStats, ReportsElsewhere

\* Requests that edit no list.
LEMMA EditsAside ==
  ASSUME EditsInv, UNCHANGED <<list, entries, healed>>, DOMAIN task' = Tasks,
         \A u \in Tasks : task'[u].op \in Edits => task'[u] = task[u]
  PROVE  EditsInv'
<1>1. ListsTyped' /\ CountHeals'
  BY DEF EditsInv, ListsTyped, CountHeals, There
<1>2. \A u \in Tasks : Editing(u)' => Editing(u) /\ task'[u] = task[u]
  BY DEF Editing
<1>3. ASSUME NEW u \in Tasks, Editing(u)' PROVE EditState(task'[u]) /\ Due(task[u])' /\ task'[u] = task[u]
  BY <1>2, <1>3 DEF EditsInv, EditState, Due, There
<1> QED
  BY <1>1, <1>2, <1>3 DEF EditsInv, Due, There

\* A request that was no edit, or ends, is none.
LEMMA NoEdit ==
  ASSUME EditsInv, UNCHANGED <<list, entries, healed>>, NEW t \in Tasks, NEW s, Become(t, s), s.op \notin Edits
  PROVE  EditsInv'
<1>1. DOMAIN task' = Tasks /\ \A u \in Tasks : task'[u] = IF u = t THEN s ELSE task[u]
  BY DEF EditsInv, Become
<1> QED
  BY <1>1, EditsAside

\* An edit is alone, or nobody else is.
LEMMA OthersNotAlone ==
  ASSUME EditsInv, NEW t \in Tasks, Editing(t), NEW u \in Tasks, u # t, Editing(u)
  PROVE  ~task[u].alone /\ ~task[t].alone
BY DEF EditsInv

\* An edit that goes on.
LEMMA EditGoesOn ==
  ASSUME EditsInv, NEW t \in Tasks, Editing(t), NEW s, Become(t, s), s.op \in Edits, s.alone = task[t].alone,
         EditState(s), Due(s)', ListsTyped', UNCHANGED healed
  PROVE  EditsInv'
<1>1. DOMAIN task' = Tasks /\ \A u \in Tasks : task'[u] = IF u = t THEN s ELSE task[u]
  BY DEF EditsInv, Become
<1>2. healed' = None /\ CountHeals'
  BY DEF EditsInv, CountHeals
<1>3. ASSUME NEW u \in Tasks, Editing(u)' PROVE Editing(u) /\ EditState(task'[u]) /\ Due(task[u])'
  <2>1. CASE u = t
    BY <1>1, <2>1 DEF Due, There
  <2>2. CASE u # t
    <3>1. Editing(u) /\ task'[u] = task[u]
      BY <1>1, <1>3, <2>2 DEF Editing
    <3>2. ~task'[u].alone
      BY <2>2, <3>1, OthersNotAlone
    <3> QED
      BY <3>1, <3>2 DEF EditsInv, Due, EditState
  <2> QED
    BY <2>1, <2>2
<1>4. ASSUME NEW u \in Tasks, NEW v \in Tasks, Editing(u)', Editing(v)', task'[u].alone PROVE u = v
  <2>1. Editing(u) /\ Editing(v)
    BY <1>3, <1>4
  <2>2. task[u].alone
    BY <1>1, <1>4
  <2> QED
    BY <2>1, <2>2 DEF EditsInv
<1> QED
  BY <1>1, <1>2, <1>3, <1>4 DEF EditsInv

\* An edit that ends with its count stored.
LEMMA EditFinishes ==
  ASSUME EditsInv, NEW t \in Tasks, Editing(t), NEW l \in ListIds, FinishEdit(t, l), ListsTyped',
         task[t].alone /\ There(l)' => list'[l].entryCount = Size(entries'[l])
  PROVE  EditsInv'
<1>1. DOMAIN task' = Tasks /\ \A u \in Tasks : task'[u] = IF u = t THEN IdleTask ELSE task[u]
  BY DEF EditsInv, FinishEdit, End, Become
<1>2. ASSUME NEW u \in Tasks, Editing(u)' PROVE u # t /\ Editing(u) /\ task'[u] = task[u]
  BY <1>1, <1>2 DEF Editing, Edits, IdleTask
<1>3. ASSUME NEW u \in Tasks, Editing(u)' PROVE ~task[t].alone /\ ~task'[u].alone /\ EditState(task'[u])
  BY <1>2, <1>3, OthersNotAlone DEF EditsInv, EditState
<1>4. healed' # None => healed' = l /\ task[t].alone
  BY DEF FinishEdit
<1>5. CountHeals'
  BY <1>4 DEF CountHeals
<1> QED
  BY <1>1, <1>3, <1>4, <1>5 DEF EditsInv, Due

LEMMA EditOfState ==
  ASSUME NEW op, NEW step, NEW l
  PROVE  /\ DOMAIN EditOf(op, step, l) = EditFields /\ EditOf(op, step, l).op = op
         /\ EditOf(op, step, l).step = step /\ EditOf(op, step, l).id = l
BY DEF EditOf, EditFields

\* An edit that begins makes the ones beside it no longer alone.
LEMMA EditBegins ==
  ASSUME EditsInv, NEW t \in Tasks, NEW s, BeginEdit(t, s), DOMAIN s = EditFields, s.op \in Edits,
         s.step \notin {"store", "commit"}, s.step \notin {"find", "make"} => s.id \in ListIds, ListsTyped'
  PROVE  EditsInv'
<1> DEFINE beside == {u \in Tasks : Editing(u)}
           w == [s EXCEPT !.alone = beside = {}]
<1>1. /\ healed' = None /\ task[t] = IdleTask
      /\ task' = [u \in Tasks |-> IF u = t THEN w
                                  ELSE IF u \in beside THEN [task[u] EXCEPT !.alone = FALSE] ELSE task[u]]
  BY DEF BeginEdit
<1>2. DOMAIN w = EditFields /\ w.op = s.op /\ w.step = s.step /\ w.id = s.id /\ (w.alone <=> beside = {})
  BY DEF EditFields
<1> HIDE DEF w
<1>3. task'[t] = w
  BY <1>1
<1>4. ASSUME NEW u \in Tasks, u # t, Editing(u)' PROVE u \in beside /\ ~task'[u].alone /\ EditState(task'[u])
  <2>1. u \in beside
    BY <1>1, <1>4 DEF Editing
  <2>2. task'[u] = [task[u] EXCEPT !.alone = FALSE]
    BY <1>1, <1>4, <2>1
  <2>3. EditState(task[u])
    BY <2>1 DEF EditsInv
  <2> QED
    BY <2>1, <2>2, <2>3 DEF EditState, EditFields
<1>5. EditState(w)
  BY <1>2 DEF EditState
<1>6. ASSUME NEW u \in Tasks, Editing(u)' PROVE EditState(task'[u]) /\ Due(task[u])'
  <2>1. CASE u = t
    BY <1>2, <1>3, <1>5, <2>1 DEF Due
  <2>2. CASE u # t
    BY <1>4, <1>6, <2>2 DEF Due
  <2> QED
    BY <2>1, <2>2
<1>7. ASSUME NEW u \in Tasks, NEW v \in Tasks, Editing(u)', Editing(v)', task'[u].alone PROVE u = v
  <2>1. u = t
    BY <1>4, <1>7
  <2>2. beside = {}
    BY <1>2, <1>3, <1>7, <2>1
  <2> QED
    BY <1>4, <1>7, <2>1, <2>2
<1>8. DOMAIN task' = Tasks /\ CountHeals'
  BY <1>1 DEF CountHeals
<1> QED
  BY <1>1, <1>6, <1>7, <1>8 DEF EditsInv

LEMMA StepSettings ==
  ASSUME CountsInv, NEW t \in Tasks,
         \/ \E k \in Keys, value \in Values : Save(t, k, value)
         \/ StartSeed(t) \/ Seed(t) \/ FinishSave(t)
         \/ \E keys \in SUBSET Keys : View(t, keys)
         \/ FinishView(t)
  PROVE  CountsInv'
<1>1. UNCHANGED <<list, entries, healed>>
  BY DEF Save, StartSeed, Seed, FinishSave, View, FinishView
<1>2. \E s : Become(t, s) /\ s.op \notin Edits
  <2>1. ASSUME NEW x, \/ Become(t, [op |-> "save", step |-> "invalidate", keys |-> x])
                      \/ Become(t, [op |-> "seed", step |-> "create", missing |-> x])
                      \/ Become(t, [op |-> "view", step |-> "rows", read |-> x])
        PROVE  \E s : Become(t, s) /\ s.op \notin Edits
    BY <2>1 DEF Edits
  <2>2. ASSUME End(t) PROVE \E s : Become(t, s) /\ s.op \notin Edits
    BY <2>2, OpOfIdle DEF End, Edits
  <2> QED
    BY <2>1, <2>2 DEF Save, StartSeed, Seed, FinishSave, View, FinishView, Begin
<1> QED
  BY <1>1, <1>2, NoEdit, ReportsSettings DEF CountsInv

LEMMA StepReports ==
  ASSUME CountsInv, NEW t \in Tasks,
         \/ \E report \in Reports : Receive(t, report)
         \/ \E k \in Keys : ReadSetting(t, k)
         \/ Look(t) \/ Write(t)
  PROVE  CountsInv'
<1>1. UNCHANGED <<list, entries, healed>>
  BY DEF Receive, ReadSetting, Look, Write
<1>2. ReportsInv'
  BY ReportsReceive, ReportsReadSetting, ReportsLook, ReportsWrite DEF CountsInv
<1>3. ASSUME End(t) PROVE EditsInv'
  BY <1>1, <1>3, OpOfIdle, NoEdit DEF End, Edits, CountsInv
<1>4. ASSUME NEW report, Receive(t, report) PROVE EditsInv'
  <2>1. PICK s : s = [op |-> "report", step |-> "settings", report |-> report, next |-> 1, seen |-> None,
                      read |-> [k \in Keys |-> IF Hit(k) THEN None ELSE OrDefault(k, stored[k])],
                      value |-> [k \in Keys |-> IF Hit(k) THEN cache[k] ELSE None]]
    OBVIOUS
  <2>2. Become(t, s)
    BY <1>4, <2>1 DEF Receive, Begin
  <2>3. s.op \notin Edits
    BY <2>1 DEF Edits
  <2> QED
    BY <1>1, <2>2, <2>3, NoEdit DEF CountsInv
<1>5. ASSUME task[t].op = "report",
             NEW s, Become(t, s), s.op = task[t].op
      PROVE  EditsInv'
  BY <1>1, <1>5, NoEdit DEF Edits, CountsInv
<1>6. task[t].op = "report" => "op" \in DOMAIN task[t]
  BY DEF CountsInv, ReportsInv, Fits, ReportState
<1>7. ASSUME NEW k, ReadSetting(t, k) PROVE EditsInv'
  <2>1. PICK x : Become(t, [task[t] EXCEPT !.read[k] = None, !.value[k] = x])
    BY <1>7 DEF ReadSetting
  <2>2. task[t].op = "report"
    BY <1>7 DEF ReadSetting, At
  <2>3. PICK w : w = [task[t] EXCEPT !.read[k] = None]
    OBVIOUS
  <2>4. PICK s : s = [w EXCEPT !.value[k] = x]
    OBVIOUS
  <2>5. Become(t, s)
    BY <2>1, <2>3, <2>4, Zenon
  <2>6. w.op = task[t].op /\ "op" \in DOMAIN w
    BY <1>6, <2>2, <2>3
  <2>7. s.op = task[t].op
    BY <2>4, <2>6
  <2> QED
    BY <1>5, <2>2, <2>5, <2>7
<1>8. ASSUME Look(t) PROVE EditsInv'
  <2>1. task[t].op = "report"
    BY <1>8 DEF Look, At
  <2>2. CASE ~End(t)
    <3>1. PICK x : Become(t, [task[t] EXCEPT !.step = "write", !.seen = x])
      BY <1>8, <2>2 DEF Look
    <3>2. PICK w : w = [task[t] EXCEPT !.step = "write"]
      OBVIOUS
    <3>3. PICK s : s = [w EXCEPT !.seen = x]
      OBVIOUS
    <3>4. Become(t, s)
      BY <3>1, <3>2, <3>3, Zenon
    <3>5. w.op = task[t].op /\ "op" \in DOMAIN w
      BY <1>6, <2>1, <3>2
    <3>6. s.op = task[t].op
      BY <3>3, <3>5
    <3> QED
      BY <1>5, <2>1, <3>4, <3>6
  <2> QED
    BY <1>3, <2>2
<1>9. ASSUME Write(t) PROVE EditsInv'
  <2>1. task[t].op = "report"
    BY <1>9 DEF Write, At
  <2>2. CASE ~End(t)
    <3>1. Become(t, [task[t] EXCEPT !.step = "look", !.next = @ + 1, !.seen = None])
      BY <1>9, <2>2 DEF Write
    <3>2. PICK w : w = [task[t] EXCEPT !.step = "look"]
      OBVIOUS
    <3>3. PICK x : x = [w EXCEPT !.next = @ + 1]
      OBVIOUS
    <3>4. PICK s : s = [x EXCEPT !.seen = None]
      OBVIOUS
    <3>5. Become(t, s)
      BY <3>1, <3>2, <3>3, <3>4, Zenon
    <3>6. w.op = task[t].op /\ "op" \in DOMAIN w
      BY <1>6, <2>1, <3>2
    <3>7. x.op = task[t].op /\ "op" \in DOMAIN x
      BY <3>3, <3>6
    <3>8. s.op = task[t].op
      BY <3>4, <3>7
    <3> QED
      BY <1>5, <2>1, <3>5, <3>8
  <2> QED
    BY <1>3, <2>2
<1> QED
  BY <1>2, <1>4, <1>7, <1>8, <1>9 DEF CountsInv

\* An edit touches neither the reports nor the settings.
LEMMA EditAside ==
  ASSUME CountsInv, UNCHANGED <<settings, stat, written>>, NEW t \in Tasks, NEW s, Become(t, s),
         s.op \in Edits \cup {"idle"}
  PROVE  ReportsInv'
<1>1. DOMAIN task' = Tasks /\ \A u \in Tasks : task'[u] = IF u = t THEN s ELSE task[u]
  BY DEF CountsInv, ReportsInv, Become
<1>2. s.op \notin {"report", "view"}
  BY DEF Edits
<1> QED
  BY <1>1, <1>2, ReportsAside DEF CountsInv

\* A statement of a request fails, or what it asks for has gone.
LEMMA StepEnds ==
  ASSUME CountsInv, UNCHANGED <<settings, stat, list, entries, written, healed>>, NEW t \in Tasks, End(t)
  PROVE  CountsInv'
<1>1. ReportsInv'
  BY OpOfIdle, EditAside DEF End
<1>2. EditsInv'
  BY OpOfIdle, NoEdit DEF End, Edits, CountsInv
<1> QED
  BY <1>1, <1>2 DEF CountsInv

LEMMA BeginAside ==
  ASSUME CountsInv, UNCHANGED <<settings, stat, written>>, NEW t \in Tasks, NEW s, BeginEdit(t, s),
         DOMAIN s = EditFields, s.op \in Edits
  PROVE  ReportsInv'
<1> DEFINE beside == {u \in Tasks : Editing(u)}
           w == [s EXCEPT !.alone = beside = {}]
<1>1. task' = [u \in Tasks |-> IF u = t THEN w
                               ELSE IF u \in beside THEN [task[u] EXCEPT !.alone = FALSE] ELSE task[u]]
  BY DEF BeginEdit
<1>2. w.op \in Edits
  BY DEF EditFields
<1> HIDE DEF w
<1>3. ASSUME NEW u \in Tasks, task'[u].op \in {"report", "view"} PROVE task'[u] = task[u]
  <2>1. u # t
    BY <1>1, <1>2, <1>3 DEF Edits
  <2>2. CASE u \in beside
    <3>1. task'[u] = [task[u] EXCEPT !.alone = FALSE]
      BY <1>1, <2>1, <2>2
    <3>2. task'[u].op = task[u].op
      BY <2>2, <3>1 DEF CountsInv, EditsInv, EditState, EditFields
    <3> QED
      BY <1>3, <2>2, <3>2 DEF Editing, Edits
  <2> QED
    BY <1>1, <2>1, <2>2
<1> QED
  BY <1>1, <1>3, ReportsAside DEF CountsInv

LEMMA EditingFacts ==
  ASSUME CountsInv, NEW t \in Tasks, task[t].op \in Edits
  PROVE  Editing(t) /\ EditState(task[t]) /\ Due(task[t]) /\ DOMAIN task[t] = EditFields
BY DEF CountsInv, EditsInv, EditState, Editing

\* An edit goes on to a step that has not counted, or that has counted what is there.
LEMMA StepEdit ==
  ASSUME CountsInv, NEW t \in Tasks, Editing(t), NEW s, Become(t, s), s.op = task[t].op, s.alone = task[t].alone,
         EditState(s), Due(s)', ListsTyped', UNCHANGED <<settings, stat, written, healed>>
  PROVE  CountsInv'
<1>1. s.op \in Edits
  BY DEF Editing
<1> QED
  BY <1>1, EditAside, EditGoesOn DEF CountsInv

LEMMA SameLists == ASSUME ListsTyped, UNCHANGED list, DOMAIN entries' = ListIds PROVE ListsTyped'
BY DEF ListsTyped, There

\* A request that begins with a step of its own.
LEMMA StepBegin ==
  ASSUME CountsInv, NEW t \in Tasks, NEW s, BeginEdit(t, s), DOMAIN s = EditFields, s.op \in Edits,
         s.step \notin {"store", "commit"}, s.step \notin {"find", "make"} => s.id \in ListIds, ListsTyped',
         UNCHANGED <<settings, stat, written>>
  PROVE  CountsInv'
BY BeginAside, EditBegins DEF CountsInv

LEMMA NewListTyped ==
  ASSUME ListsTyped, NEW l \in ListIds, NEW name, list' = [list EXCEPT ![l] = NewList(name)], UNCHANGED entries
  PROVE  ListsTyped'
BY DEF ListsTyped, NewList, There

LEMMA StepBegins ==
  ASSUME CountsInv, NEW t \in Tasks, PostList(t) \/ PatchList(t) \/ PostRule(t) PROVE CountsInv'
<1>0. ListsTyped
  BY DEF CountsInv, EditsInv
<1>1. ASSUME NEW name, NEW domains, CreateDnsList(t, name, domains) PROVE CountsInv'
  <2>1. PICK l \in FreeIds :
          /\ BeginEdit(t, [EditOf("create", IF domains = {} THEN "count" ELSE "fill", l) EXCEPT !.add = domains])
          /\ list' = [list EXCEPT ![l] = NewList(name)]
          /\ UNCHANGED <<settings, work, stat, entries, written>>
    BY <1>1 DEF CreateDnsList
  <2>2. PICK w : w = EditOf("create", IF domains = {} THEN "count" ELSE "fill", l)
    OBVIOUS
  <2>3. PICK s : s = [w EXCEPT !.add = domains]
    OBVIOUS
  <2>4. DOMAIN w = EditFields /\ w.op = "create" /\ w.step \in {"count", "fill"} /\ w.id = l
    BY <2>2, EditOfState
  <2>5. DOMAIN s = EditFields /\ s.op = "create" /\ s.step \in {"count", "fill"} /\ s.id = l
    BY <2>3, <2>4 DEF EditFields
  <2>6. l \in ListIds
    BY DEF FreeIds
  <2>7. BeginEdit(t, s)
    BY <2>1, <2>2, <2>3
  <2>8. ListsTyped'
    BY <1>0, <2>1, <2>6, NewListTyped
  <2> QED
    BY <2>1, <2>5, <2>6, <2>7, <2>8, StepBegin DEF Edits
<1>2. ASSUME NEW l \in ListIds, NEW name, NEW add, NEW remove, UpdateDnsList(t, l, name, add, remove) PROVE CountsInv'
  <2>1. PICK w : w = EditOf("update", "change", l)
    OBVIOUS
  <2>2. PICK x : x = [w EXCEPT !.name = name]
    OBVIOUS
  <2>3. PICK y : y = [x EXCEPT !.add = add]
    OBVIOUS
  <2>4. PICK s : s = [y EXCEPT !.remove = remove]
    OBVIOUS
  <2>5. BeginEdit(t, s)
    BY <1>2, <2>1, <2>2, <2>3, <2>4, Zenon DEF UpdateDnsList
  <2>6. DOMAIN w = EditFields /\ w.op = "update" /\ w.step = "change" /\ w.id = l
    BY <2>1, EditOfState
  <2>7. DOMAIN x = EditFields /\ x.op = "update" /\ x.step = "change" /\ x.id = l
    BY <2>2, <2>6 DEF EditFields
  <2>8. DOMAIN y = EditFields /\ y.op = "update" /\ y.step = "change" /\ y.id = l
    BY <2>3, <2>7 DEF EditFields
  <2>9. DOMAIN s = EditFields /\ s.op = "update" /\ s.step = "change" /\ s.id = l
    BY <2>4, <2>8 DEF EditFields
  <2>10. UNCHANGED <<settings, stat, list, entries, written>>
    BY <1>2 DEF UpdateDnsList
  <2>11. ListsTyped'
    BY <1>0, <2>10, SameLists DEF ListsTyped
  <2> QED
    BY <2>5, <2>9, <2>10, <2>11, StepBegin DEF Edits
<1>3. ASSUME NEW entry, UpsertDnsRule(t, entry) PROVE CountsInv'
  <2>1. PICK w : w = EditOf("rule", "find", None)
    OBVIOUS
  <2>2. PICK s : s = [w EXCEPT !.entry = entry]
    OBVIOUS
  <2>3. BeginEdit(t, s)
    BY <1>3, <2>1, <2>2, Zenon DEF UpsertDnsRule
  <2>4. DOMAIN w = EditFields /\ w.op = "rule" /\ w.step = "find"
    BY <2>1, EditOfState
  <2>5. DOMAIN s = EditFields /\ s.op = "rule" /\ s.step = "find"
    BY <2>2, <2>4 DEF EditFields
  <2>6. UNCHANGED <<settings, stat, list, entries, written>>
    BY <1>3 DEF UpsertDnsRule
  <2>7. ListsTyped'
    BY <1>0, <2>6, SameLists DEF ListsTyped
  <2> QED
    BY <2>3, <2>5, <2>6, <2>7, StepBegin DEF Edits
<1> QED
  BY <1>1, <1>2, <1>3 DEF PostList, PatchList, PostRule

LEMMA StepFillList == ASSUME CountsInv, NEW t \in Tasks, FillList(t) PROVE CountsInv'
<1>1. task[t].op = "create" /\ task[t].step = "fill" /\ UNCHANGED <<settings, stat, list, written, healed>>
  BY DEF FillList, At
<1>2. Editing(t) /\ EditState(task[t]) /\ DOMAIN task[t] = EditFields
  BY <1>1, EditingFacts DEF Edits
<1>3. CASE ~There(task[t].id)
  BY <1>1, <1>3, StepEnds DEF FillList
<1>4. CASE There(task[t].id)
  <2>1. PICK s : s = [task[t] EXCEPT !.step = "count"]
    OBVIOUS
  <2>2. Become(t, s) /\ DOMAIN entries' = DOMAIN entries
    BY <1>4, <2>1 DEF FillList, Go
  <2>3. /\ DOMAIN s = EditFields /\ s.op = "create" /\ s.step = "count" /\ s.id = task[t].id
        /\ s.alone = task[t].alone
    BY <1>1, <1>2, <2>1 DEF EditFields
  <2>4. EditState(s) /\ Due(s)'
    BY <1>1, <1>2, <2>3 DEF EditState, Due
  <2>5. ListsTyped'
    BY <1>1, <2>2, SameLists DEF CountsInv, EditsInv, ListsTyped
  <2> QED
    BY <1>1, <1>2, <2>2, <2>3, <2>4, <2>5, StepEdit
<1> QED
  BY <1>3, <1>4

LEMMA StepCountEntries == ASSUME CountsInv, NEW t \in Tasks, CountEntries(t) PROVE CountsInv'
<1>1. /\ task[t].op \in {"create", "rule"} /\ task[t].step = "count"
      /\ UNCHANGED <<settings, stat, list, entries, written, healed>>
  BY DEF CountEntries, At
<1>2. Editing(t) /\ EditState(task[t]) /\ DOMAIN task[t] = EditFields
  BY <1>1, EditingFacts DEF Edits
<1>3. CASE ~There(task[t].id)
  BY <1>1, <1>3, StepEnds DEF CountEntries
<1>4. CASE There(task[t].id)
  <2>1. PICK n : n = Size(entries[task[t].id])
    OBVIOUS
  <2>2. PICK w : w = [task[t] EXCEPT !.step = "store"]
    OBVIOUS
  <2>3. PICK s : s = [w EXCEPT !.count = n]
    OBVIOUS
  <2>4. Become(t, s)
    BY <1>4, <2>1, <2>2, <2>3 DEF CountEntries, Counted
  <2>5. /\ DOMAIN w = EditFields /\ w.op = task[t].op /\ w.step = "store" /\ w.id = task[t].id
        /\ w.alone = task[t].alone
    BY <1>2, <2>2 DEF EditFields
  <2>6. /\ DOMAIN s = EditFields /\ s.op = task[t].op /\ s.step = "store" /\ s.id = task[t].id
        /\ s.alone = task[t].alone /\ s.count = n
    BY <2>3, <2>5 DEF EditFields
  <2>7. EditState(s) /\ Due(s)'
    BY <1>1, <1>2, <2>1, <2>6 DEF EditState, Due
  <2>8. ListsTyped'
    BY <1>1, SameLists DEF CountsInv, EditsInv, ListsTyped
  <2> QED
    BY <1>1, <1>2, <2>4, <2>6, <2>7, <2>8, StepEdit
<1> QED
  BY <1>3, <1>4

LEMMA StepFinish ==
  ASSUME CountsInv, UNCHANGED <<settings, stat, written>>, NEW t \in Tasks, Editing(t), NEW l \in ListIds,
         FinishEdit(t, l), ListsTyped',
         task[t].alone /\ There(l)' => list'[l].entryCount = Size(entries'[l])
  PROVE  CountsInv'
<1>1. ReportsInv'
  BY OpOfIdle, EditAside DEF FinishEdit, End
<1>2. EditsInv'
  BY EditFinishes DEF CountsInv
<1> QED
  BY <1>1, <1>2 DEF CountsInv

LEMMA StepStoreCount == ASSUME CountsInv, NEW t \in Tasks, StoreCount(t) PROVE CountsInv'
<1>1. /\ task[t].op \in {"create", "rule"} /\ task[t].step = "store"
      /\ UNCHANGED <<settings, stat, entries, written>>
  BY DEF StoreCount, At
<1>2. Editing(t) /\ EditState(task[t]) /\ Due(task[t])
  BY <1>1, EditingFacts DEF Edits
<1>3. PICK l \in ListIds : l = task[t].id
  BY <1>1, <1>2 DEF EditState
<1>4. CASE ~There(l)
  BY <1>1, <1>3, <1>4, StepEnds DEF StoreCount
<1>5. CASE There(l)
  <2>1. list' = [list EXCEPT ![l].entryCount = task[t].count] /\ FinishEdit(t, l)
    BY <1>3, <1>5 DEF StoreCount
  <2>2. DOMAIN list = ListIds /\ DOMAIN entries = ListIds /\ DOMAIN list[l] = {"name", "entryCount"}
    BY <1>5 DEF CountsInv, EditsInv, ListsTyped
  <2>3. list'[l].entryCount = task[t].count /\ DOMAIN list'[l] = {"name", "entryCount"}
    BY <2>1, <2>2
  <2>4. DOMAIN list' = ListIds /\ \A m \in ListIds : m # l => list'[m] = list[m]
    BY <2>1, <2>2
  <2>5. ListsTyped'
    BY <1>1, <2>2, <2>3, <2>4 DEF CountsInv, EditsInv, ListsTyped, There
  <2>6. task[t].alone => task[t].count = Size(entries[l])
    BY <1>1, <1>2, <1>3, <1>5 DEF Due
  <2> QED
    BY <1>1, <1>2, <2>1, <2>3, <2>5, <2>6, StepFinish
<1> QED
  BY <1>4, <1>5

\* What the transaction has counted is what it will leave, where nobody else edits.
LEMMA StepChangeList == ASSUME CountsInv, NEW t \in Tasks, ChangeList(t) PROVE CountsInv'
<1>1. /\ task[t].op = "update" /\ task[t].step = "change"
      /\ UNCHANGED <<settings, stat, list, entries, written, healed>>
  BY DEF ChangeList, At
<1>2. Editing(t) /\ EditState(task[t]) /\ DOMAIN task[t] = EditFields
  BY <1>1, EditingFacts DEF Edits
<1>3. CASE ~There(task[t].id)
  BY <1>1, <1>3, StepEnds DEF ChangeList
<1>4. CASE There(task[t].id)
  <2>1. PICK taken : taken = Of(Add(entries[task[t].id], Global(task[t].add)), task[t].remove)
    OBVIOUS
  <2>2. PICK n : n = Size(Without(Add(entries[task[t].id], Global(task[t].add)), taken))
    OBVIOUS
  <2>3. PICK w : w = [task[t] EXCEPT !.step = "commit"]
    OBVIOUS
  <2>4. PICK x : x = [w EXCEPT !.removed = taken]
    OBVIOUS
  <2>5. PICK s : s = [x EXCEPT !.count = n]
    OBVIOUS
  <2>6. Become(t, [task[t] EXCEPT !.step = "commit", !.removed = taken, !.count = n])
    BY <1>4, <2>1, <2>2 DEF ChangeList, Counted
  <2>7. Become(t, s)
    BY <2>3, <2>4, <2>5, <2>6, Zenon
  <2>8. /\ DOMAIN w = EditFields /\ w.op = task[t].op /\ w.step = "commit" /\ w.id = task[t].id
        /\ w.alone = task[t].alone /\ w.add = task[t].add
    BY <1>2, <2>3 DEF EditFields
  <2>9. /\ DOMAIN x = EditFields /\ x.op = task[t].op /\ x.step = "commit" /\ x.id = task[t].id
        /\ x.alone = task[t].alone /\ x.add = task[t].add /\ x.removed = taken
    BY <2>4, <2>8 DEF EditFields
  <2>10. /\ DOMAIN s = EditFields /\ s.op = task[t].op /\ s.step = "commit" /\ s.id = task[t].id
         /\ s.alone = task[t].alone /\ s.add = task[t].add /\ s.removed = taken /\ s.count = n
    BY <2>5, <2>9 DEF EditFields
  <2>11. Due(s)'
    <3>1. s.count = Size(Without(Add(entries'[s.id], Global(s.add)), s.removed))
      BY <1>1, <2>2, <2>10
    <3> QED
      BY <1>1, <2>10, <3>1 DEF Due
  <2>12. EditState(s)
    BY <1>1, <1>2, <2>10 DEF EditState
  <2>13. ListsTyped'
    BY <1>1, SameLists DEF CountsInv, EditsInv, ListsTyped
  <2> QED
    BY <1>1, <1>2, <2>7, <2>10, <2>11, <2>12, <2>13, StepEdit
<1> QED
  BY <1>3, <1>4

LEMMA StepCommitList == ASSUME CountsInv, NEW t \in Tasks, CommitList(t) PROVE CountsInv'
<1>1. /\ task[t].op = "update" /\ task[t].step = "commit" /\ UNCHANGED <<settings, stat, written>>
  BY DEF CommitList, At
<1>2. Editing(t) /\ EditState(task[t]) /\ Due(task[t])
  BY <1>1, EditingFacts DEF Edits
<1>3. PICK l \in ListIds : l = task[t].id
  BY <1>1, <1>2 DEF EditState
<1>4. CASE ~There(l)
  BY <1>1, <1>3, <1>4, StepEnds DEF CommitList
<1>5. CASE There(l)
  <2>1. /\ entries' = [entries EXCEPT ![l] = Without(Add(@, Global(task[t].add)), task[t].removed)]
        /\ list' = [list EXCEPT ![l] = [name |-> task[t].name, entryCount |-> task[t].count]]
        /\ FinishEdit(t, l)
    BY <1>3, <1>5 DEF CommitList
  <2>2. DOMAIN list = ListIds /\ DOMAIN entries = ListIds
    BY DEF CountsInv, EditsInv, ListsTyped
  <2>3. /\ list'[l].entryCount = task[t].count /\ DOMAIN list'[l] = {"name", "entryCount"}
        /\ entries'[l] = Without(Add(entries[l], Global(task[t].add)), task[t].removed)
    BY <2>1, <2>2
  <2>4. DOMAIN list' = ListIds /\ DOMAIN entries' = ListIds /\ \A m \in ListIds : m # l => list'[m] = list[m]
    BY <2>1, <2>2
  <2>5. ListsTyped'
    BY <2>3, <2>4 DEF CountsInv, EditsInv, ListsTyped, There
  <2>6. task[t].alone => task[t].count = Size(entries'[l])
    BY <1>1, <1>2, <1>3, <1>5, <2>3 DEF Due
  <2> QED
    BY <1>1, <1>2, <2>1, <2>3, <2>5, <2>6, StepFinish
<1> QED
  BY <1>4, <1>5

LEMMA StepRule ==
  ASSUME CountsInv, NEW t \in Tasks, FindCustom(t) \/ MakeCustom(t) \/ EnterRule(t) PROVE CountsInv'
<1>1. /\ task[t].op = "rule" /\ UNCHANGED <<settings, stat, written, healed>>
  BY DEF FindCustom, MakeCustom, EnterRule, At
<1>2. Editing(t) /\ EditState(task[t]) /\ DOMAIN task[t] = EditFields /\ ListsTyped
  BY <1>1, EditingFacts DEF Edits, CountsInv, EditsInv
<1>3. ASSUME NEW l \in ListIds, Become(t, [task[t] EXCEPT !.step = "enter", !.id = l]), ListsTyped'
      PROVE  CountsInv'
  <2>1. PICK w : w = [task[t] EXCEPT !.step = "enter"]
    OBVIOUS
  <2>2. PICK s : s = [w EXCEPT !.id = l]
    OBVIOUS
  <2>3. Become(t, s)
    BY <1>3, <2>1, <2>2, Zenon
  <2>4. DOMAIN w = EditFields /\ w.op = task[t].op /\ w.step = "enter" /\ w.alone = task[t].alone
    BY <1>2, <2>1 DEF EditFields
  <2>5. DOMAIN s = EditFields /\ s.op = task[t].op /\ s.step = "enter" /\ s.alone = task[t].alone /\ s.id = l
    BY <2>2, <2>4 DEF EditFields
  <2>6. EditState(s) /\ Due(s)'
    BY <2>5 DEF EditState, Due
  <2> QED
    BY <1>1, <1>2, <1>3, <2>3, <2>5, <2>6, StepEdit
<1>4. ASSUME NEW step \in {"make", "count"}, Go(t, step), step = "count" => task[t].id \in ListIds, ListsTyped'
      PROVE  CountsInv'
  <2>1. PICK s : s = [task[t] EXCEPT !.step = step]
    OBVIOUS
  <2>2. Become(t, s)
    BY <1>4, <2>1 DEF Go
  <2>3. DOMAIN s = EditFields /\ s.op = task[t].op /\ s.step = step /\ s.alone = task[t].alone /\ s.id = task[t].id
    BY <1>2, <2>1 DEF EditFields
  <2>4. EditState(s) /\ Due(s)'
    BY <1>4, <2>3 DEF EditState, Due
  <2> QED
    BY <1>1, <1>2, <1>4, <2>2, <2>3, <2>4, StepEdit
<1>5. CASE FindCustom(t)
  <2>1. UNCHANGED <<list, entries>>
    BY <1>5 DEF FindCustom
  <2>2. ListsTyped'
    BY <1>2, <2>1, SameLists DEF ListsTyped
  <2> QED
    BY <1>3, <1>4, <1>5, <2>2 DEF FindCustom
<1>6. CASE MakeCustom(t)
  <2>1. PICK l \in FreeIds : /\ list' = [list EXCEPT ![l] = NewList("custom")]
                             /\ Become(t, [task[t] EXCEPT !.step = "enter", !.id = l])
    BY <1>6 DEF MakeCustom
  <2>2. l \in ListIds /\ UNCHANGED entries
    BY <1>6 DEF FreeIds, MakeCustom
  <2>3. ListsTyped'
    BY <1>2, <2>1, <2>2, NewListTyped
  <2> QED
    BY <1>3, <2>1, <2>2, <2>3
<1>7. CASE EnterRule(t)
  <2>1. task[t].step = "enter" /\ UNCHANGED list
    BY <1>7 DEF EnterRule, At
  <2>2. task[t].id \in ListIds
    BY <1>2, <2>1 DEF EditState
  <2>3. CASE ~There(task[t].id)
    BY <1>1, <1>7, <2>1, <2>3, StepEnds DEF EnterRule
  <2>4. CASE There(task[t].id)
    <3>1. Go(t, "count") /\ DOMAIN entries' = DOMAIN entries
      BY <1>7, <2>4 DEF EnterRule
    <3>2. ListsTyped'
      BY <1>2, <2>1, <3>1, SameLists DEF ListsTyped
    <3> QED
      BY <1>4, <2>2, <3>1, <3>2
  <2> QED
    BY <2>3, <2>4
<1> QED
  BY <1>5, <1>6, <1>7

LEMMA StepDeleteDnsList == ASSUME CountsInv, NEW l \in ListIds, DeleteDnsList(l) PROVE CountsInv'
<1>1. /\ list' = [list EXCEPT ![l] = Gone] /\ entries' = [entries EXCEPT ![l] = Nothing]
      /\ UNCHANGED <<settings, stat, task, written, healed>>
  BY DEF DeleteDnsList
<1>2. ReportsInv'
  BY <1>1, SameSettings, SameStats DEF CountsInv, ReportsInv
<1>3. /\ DOMAIN list' = ListIds /\ DOMAIN entries' = ListIds
      /\ \A m \in ListIds : There(m)' => There(m) /\ list'[m] = list[m] /\ entries'[m] = entries[m]
  BY <1>1 DEF CountsInv, EditsInv, ListsTyped, There
<1>4. ListsTyped' /\ CountHeals'
  BY <1>1, <1>3 DEF CountsInv, EditsInv, ListsTyped, CountHeals
<1>5. ASSUME NEW u \in Tasks, Editing(u)' PROVE Editing(u) /\ EditState(task[u]) /\ Due(task[u])'
  <2>1. Editing(u) /\ EditState(task[u]) /\ Due(task[u])
    BY <1>1, <1>5 DEF Editing, CountsInv, EditsInv
  <2>2. CASE task[u].step \in {"store", "commit"}
    BY <1>1, <1>3, <2>1, <2>2 DEF Due, EditState
  <2>3. CASE task[u].step \notin {"store", "commit"}
    BY <1>1, <2>1, <2>3 DEF Due
  <2> QED
    BY <2>1, <2>2, <2>3
<1> QED
  BY <1>1, <1>2, <1>4, <1>5 DEF CountsInv, EditsInv, Editing

LEMMA StepOutside ==
  ASSUME CountsInv, Crash \/ (\E r \in Rows : Purge(r)) \/ (\E k \in Keys : Expire(k)) PROVE CountsInv'
<1>1. CASE Crash
  <2>1. /\ task' = [t \in Tasks |-> IdleTask] /\ cache' = [k \in Keys |-> None]
        /\ UNCHANGED <<stored, stat, list, entries, written, healed>>
    BY <1>1 DEF Crash
  <2>2. \A u \in Tasks : task'[u].op = "idle"
    BY <2>1, OpOfIdle
  <2>3. SettingsTyped' /\ RowsHold'
    BY <2>1, SameStats DEF CountsInv, ReportsInv, SettingsTyped, Cells
  <2>4. ReportsInv'
    BY <2>1, <2>2, <2>3, ReportsElsewhere DEF CountsInv
  <2>5. EditsInv'
    BY <2>1, <2>2, EditsAside DEF CountsInv, Edits
  <2> QED
    BY <2>4, <2>5 DEF CountsInv
<1>2. ASSUME NEW r \in Rows, Purge(r) PROVE CountsInv'
  <2>1. /\ stat' = [stat EXCEPT ![r] = None] /\ written' = [written EXCEPT ![r] = 0]
        /\ UNCHANGED <<settings, list, entries, task, healed>>
    BY <1>2 DEF Purge
  <2>2. RowsHold'
    BY <2>1 DEF CountsInv, ReportsInv, RowsHold
  <2>3. ReportsInv'
    BY <2>1, <2>2, SameSettings DEF CountsInv, ReportsInv
  <2>4. EditsInv'
    BY <2>1, EditsAside DEF CountsInv, EditsInv
  <2> QED
    BY <2>3, <2>4 DEF CountsInv
<1>3. ASSUME NEW k \in Keys, Expire(k) PROVE CountsInv'
  <2>1. /\ cache' = [cache EXCEPT ![k] = None] /\ UNCHANGED <<stored, stat, written, list, entries, task, healed>>
    BY <1>3 DEF Expire, Lapse
  <2>2. SettingsTyped' /\ RowsHold'
    BY <2>1, SameStats DEF CountsInv, ReportsInv, SettingsTyped, Cells
  <2>3. ReportsInv'
    BY <2>1, <2>2 DEF CountsInv, ReportsInv
  <2>4. EditsInv'
    BY <2>1, EditsAside DEF CountsInv, EditsInv
  <2> QED
    BY <2>3, <2>4 DEF CountsInv
<1> QED
  BY <1>1, <1>2, <1>3

LEMMA CountsStep == ASSUME CountsInv, [DnsNext]_dnsVars PROVE CountsInv'
<1>1. CASE UNCHANGED dnsVars
  <2>1. UNCHANGED <<stored, cache, stat, list, entries, task, written, healed>>
    BY <1>1 DEF dnsVars, settings
  <2>2. ReportsInv'
    BY <2>1 DEF CountsInv, ReportsInv, SettingsTyped, RowsHold
  <2>3. EditsInv'
    BY <2>1, EditsAside DEF CountsInv, EditsInv
  <2> QED
    BY <2>2, <2>3 DEF CountsInv
<1>2. ASSUME NEW t \in Tasks, NewRequest(t) PROVE CountsInv'
  BY <1>2, StepSettings, StepReports, StepBegins DEF NewRequest, PatchSetting, PostReport
<1>3. ASSUME NEW t \in Tasks, Step(t) PROVE CountsInv'
  BY <1>3, StepSettings, StepReports, StepFillList, StepCountEntries, StepStoreCount, StepChangeList, StepCommitList,
     StepRule DEF Step
<1>4. ASSUME NEW t \in Tasks, Fail(t) PROVE CountsInv'
  BY <1>4, StepEnds DEF Fail
<1> QED
  BY <1>1, <1>2, <1>3, <1>4, StepDeleteDnsList, StepOutside DEF DnsNext

LEMMA CountsStart == ASSUME DnsInit PROVE CountsInv
<1>1. /\ stat = [r \in Rows |-> None] /\ list = [l \in ListIds |-> None] /\ entries = [l \in ListIds |-> Nothing]
      /\ task = [t \in Tasks |-> IdleTask] /\ written = [r \in Rows |-> 0] /\ healed = None
  BY DEF DnsInit
<1>2. SettingsTyped
  BY DefaultTyped, DefaultAssumption DEF DnsInit, SettingsInit, SettingsTyped, Cells
<1>3. \A t \in Tasks : task[t].op = "idle"
  BY <1>1, OpOfIdle
<1>4. ReportsInv
  BY <1>1, <1>2, <1>3 DEF ReportsInv, RowsHold, Fits
<1>5. EditsInv
  BY <1>1, <1>3 DEF EditsInv, ListsTyped, There, Editing, Edits, CountHeals
<1> QED
  BY <1>4, <1>5 DEF CountsInv

\* What the console shows of the counts follows: the sum of the rows is the sum of what was
\* written into them.
LEMMA CountsShown == ASSUME CountsInv PROVE CountsAddUp
<1>1. [r \in Rows |-> IF stat[r] = None THEN 0 ELSE stat[r].count] = written
  BY DEF CountsInv, ReportsInv, RowsHold
<1>2. \A rows : DnsStatsFor(rows) = SumFunctionOnSet(written, rows)
  BY <1>1 DEF DnsStatsFor
<1>3. ReportsAddUp
  BY <1>2 DEF CountsInv, ReportsInv, RowsHold, ReportsAddUp, DnsOverview
<1> QED
  BY <1>3 DEF CountsInv, EditsInv, CountsAddUp

\* The counts of the DNS page: a row holds what reports have written into it, and a list's
\* entry count is right after an edit that nothing ran beside (dnsStatsFor, dnsOverview,
\* createDnsList, updateDnsList, upsertDnsRule).
THEOREM CountsKept == FairDnsSpec => []CountsAddUp
<1>1. DnsInit => CountsInv
  BY CountsStart
<1>2. CountsInv /\ [DnsNext]_dnsVars => CountsInv'
  BY CountsStep
<1>3. CountsInv => CountsAddUp
  BY CountsShown
<1> QED
  BY <1>1, <1>2, <1>3, PTL DEF FairDnsSpec, DnsSpec
=============================================================================
