---------------------------- MODULE NodeLifecycle ----------------------------
(***************************************************************************)
(* The life of a VPN node in the control plane: enrolment by its agent,    *)
(* approval, heartbeats, token rotation, draining, maintenance, revocation *)
(* and removal by operators, and the stale-node sweep of the automation    *)
(* scheduler (src/server/nodes/service.ts, gateway/auth.ts,                *)
(* nodes/health.ts).                                                       *)
(*                                                                         *)
(* Every handler reads the node row, checks it, and writes it with a later *)
(* statement, in no transaction; so each is two steps here, and what the   *)
(* first one read travels in the request.  Time is the age of a heartbeat  *)
(* in ticks, which saturates once the node is OFFLINE.                     *)
(***************************************************************************)
EXTENDS Integers

CONSTANTS
  Nodes,        \* stable installation identities (VpnNode.nodeId)
  Requests,     \* API requests the process can have in flight at once
  Operations,   \* operator and agent operations that requests may carry
  Stale,        \* nodes.heartbeatStaleSeconds, in ticks
  MaxTokens,    \* bound: agent tokens issued per node identity
  MaxRows       \* bound: database rows created per node identity

ASSUME StaleAssumption == Stale \in Nat \ {0}
ASSUME BoundsAssumption == MaxTokens \in Nat /\ MaxRows \in Nat

VARIABLES
  row,          \* [Nodes -> Row]: the vpn_node row of an identity, id 0 if none
  issued,       \* [Nodes -> Nat]: agent tokens issued so far
  created,      \* [Nodes -> Nat]: rows created so far
  req,          \* [Requests -> Request]: what each request in flight has read
  todo,         \* nodes the running sweep has not visited yet
  seen,         \* [Nodes -> Snapshot]: what the sweep reads from the table
  past          \* [Nodes -> SUBSET {"approved", "offline"}]: history of the row

vars == <<row, issued, created, req, todo, seen, past>>

Statuses  == {"REGISTERING", "ONLINE", "OFFLINE", "DEGRADED", "REVOKED"}
Approvals == {"PENDING", "APPROVED", "REJECTED"}
Healths   == {"ONLINE", "DEGRADED", "OFFLINE", "UNKNOWN", "DRAINING", "MAINTENANCE"}
AllOperations ==
  {"register", "heartbeat", "healthcheck", "approve", "reject", "rotate", "revoke",
   "remove", "drain", "undrain", "startDrain", "abortDrain", "maintenanceOn",
   "maintenanceOff", "markDegraded", "stopAssignments", "policyDrain"}

Never == -1                              \* lastHeartbeatAt is null
Ages  == {Never} \cup 0 .. (2 * Stale + 1)
RevokedHash == 0                         \* agentTokenHash = `revoked:<random>`

Row == [id: Nat, status: Statuses, approval: Approvals, health: Healths,
        draining: BOOLEAN, maintenance: BOOLEAN, pool: BOOLEAN,
        age: Ages, token: Nat]

NewRow(id, token) ==
  [id |-> id, status |-> "REGISTERING", approval |-> "PENDING", health |-> "UNKNOWN",
   draining |-> FALSE, maintenance |-> FALSE, pool |-> TRUE,
   age |-> Never, token |-> token]

NoRow == NewRow(0, RevokedHash)

\* The columns the sweep looks at.
Snapshot == [id: Nat, status: Statuses, health: Healths, age: Ages,
             draining: BOOLEAN, maintenance: BOOLEAN]
SnapshotOf(r) == [id |-> r.id, status |-> r.status, health |-> r.health, age |-> r.age,
                  draining |-> r.draining, maintenance |-> r.maintenance]
Exists(n) == row[n].id # 0

Older(age) == IF age = Never \/ age > 2 * Stale THEN age ELSE age + 1

HeartbeatState(age) ==
  IF age = Never THEN "UNKNOWN"
  ELSE IF age > 2 * Stale THEN "OFFLINE"
  ELSE IF age > Stale THEN "DEGRADED"
  ELSE "ONLINE"

\* An outage is never hidden behind an operator's intent.
DeriveHealth(r) ==
  LET beat == HeartbeatState(r.age)
  IN  IF beat = "OFFLINE" THEN "OFFLINE"
      ELSE IF r.maintenance THEN "MAINTENANCE"
      ELSE IF r.draining THEN "DRAINING"
      ELSE beat

-----------------------------------------------------------------------------
(* Requests.  A request holds its operation, the row it works on, and for a *)
(* heartbeat the status it is about to write.                              *)

Steps == {"authenticated", "create", "token", "write"}
Request == [step: Steps, op: AllOperations, node: Nodes, id: Nat, status: Statuses]
Idle == [step |-> "idle"]

Hold(step, op, n) ==
  [step |-> step, op |-> op, node |-> n, id |-> row[n].id, status |-> "REGISTERING"]

\* An UPDATE ... WHERE id finds the row the request read, or fails.
Finds(r) == row[req[r].node].id = req[r].id /\ req[r].id # 0

Release(r) == req' = [req EXCEPT ![r] = Idle]

\* The check an operation makes on the row it has read.
Allowed(op, r) ==
  /\ op \in {"approve", "rotate", "drain", "undrain", "maintenanceOn", "maintenanceOff",
             "revoke"} => r.status # "REVOKED"
  /\ op = "startDrain" => ~r.draining /\ ~r.maintenance
  /\ op = "markDegraded" => r.health \notin {"DEGRADED", "OFFLINE"}
  /\ op = "stopAssignments" => r.pool

\* The columns an operation then writes.
Written(op, r) ==
  [r EXCEPT
    !.approval = IF op = "approve" THEN "APPROVED"
                 ELSE IF op = "reject" THEN "REJECTED" ELSE @,
    !.status = IF op = "revoke" THEN "REVOKED" ELSE @,
    !.token = IF op = "revoke" THEN RevokedHash ELSE @,
    !.draining = IF op \in {"drain", "startDrain", "policyDrain"} THEN TRUE
                 ELSE IF op \in {"undrain", "abortDrain"} THEN FALSE ELSE @,
    !.pool = IF op \in {"startDrain", "policyDrain", "stopAssignments"} THEN FALSE
             ELSE IF op = "abortDrain" THEN TRUE ELSE @,
    !.maintenance = IF op = "maintenanceOn" THEN TRUE
                    ELSE IF op = "maintenanceOff" THEN FALSE ELSE @,
    !.health = IF op = "markDegraded" THEN "DEGRADED" ELSE @]

ColumnWrites == {"approve", "reject", "revoke", "drain", "undrain", "startDrain",
                 "abortDrain", "maintenanceOn", "maintenanceOff", "markDegraded",
                 "stopAssignments", "policyDrain"}

-----------------------------------------------------------------------------
Init ==
  /\ row = [n \in Nodes |-> NoRow]
  /\ issued = [n \in Nodes |-> 0]
  /\ created = [n \in Nodes |-> 0]
  /\ req = [r \in Requests |-> Idle]
  /\ todo = {}
  /\ seen = [n \in Nodes |-> SnapshotOf(NoRow)]
  /\ past = [n \in Nodes |-> {}]

Tick ==
  /\ row' = [n \in Nodes |-> [row[n] EXCEPT !.age = Older(@)]]
  /\ seen' = [n \in Nodes |-> [seen[n] EXCEPT !.age = Older(@)]]
  /\ UNCHANGED <<issued, created, req, todo, past>>

\* An operator's request (or a policy action) reads the row and checks it.
ReadRow(r, n, op) ==
  /\ op \in Operations \cap (ColumnWrites \cup {"rotate", "remove"})
  /\ req[r].step = "idle"
  /\ Exists(n)
  /\ Allowed(op, row[n])
  /\ req' = [req EXCEPT ![r] = Hold("write", op, n)]
  /\ UNCHANGED <<row, issued, created, todo, seen, past>>

\* approveNode, rejectNode, revokeNode, updateNode, startNodeDrain, abortNodeDrain
\* and MARK_NODE_DEGRADED write their columns; a row removed meanwhile is an error.
WriteColumns(r) ==
  LET n == req[r].node IN
  /\ req[r].step = "write"
  /\ req[r].op \in ColumnWrites
  /\ row' = IF Finds(r) THEN [row EXCEPT ![n] = Written(req[r].op, @)] ELSE row
  /\ past' = IF Finds(r) /\ req[r].op = "approve"
             THEN [past EXCEPT ![n] = @ \cup {"approved"}] ELSE past
  /\ Release(r)
  /\ UNCHANGED <<issued, created, todo, seen>>

\* rotateNodeToken, and the token half of registerNodeAgent.
WriteToken(r) ==
  LET n == req[r].node IN
  /\ \/ req[r].step = "write" /\ req[r].op = "rotate" /\ Release(r)
     \/ /\ req[r].step = "token"
        /\ req' = [req EXCEPT ![r] = IF Finds(r) THEN [@ EXCEPT !.step = "write"] ELSE Idle]
  /\ issued[n] < MaxTokens
  /\ issued' = [issued EXCEPT ![n] = @ + 1]
  /\ row' = IF Finds(r) THEN [row EXCEPT ![n] = [@ EXCEPT !.token = issued[n] + 1]] ELSE row
  /\ UNCHANGED <<created, todo, seen, past>>

\* registerNodeAgent: an unknown identity is created, a known one re-enrols.
RegisterNode(r, n) ==
  /\ "register" \in Operations
  /\ req[r].step = "idle"
  /\ row[n].status # "REVOKED"
  /\ req' = [req EXCEPT ![r] = Hold(IF Exists(n) THEN "token" ELSE "create", "register", n)]
  /\ UNCHANGED <<row, issued, created, todo, seen, past>>

\* The second half of a re-enrolment resets the status of the row.
WriteRegistration(r) ==
  LET n == req[r].node IN
  /\ req[r].step = "write"
  /\ req[r].op = "register"
  /\ row' = IF Finds(r) THEN [row EXCEPT ![n] = [@ EXCEPT !.status = "REGISTERING"]]
            ELSE row
  /\ Release(r)
  /\ UNCHANGED <<issued, created, todo, seen, past>>

\* createNode: the unique nodeId makes the second of two concurrent inserts fail.
CreateNode(r) ==
  LET n == req[r].node IN
  /\ req[r].step = "create"
  /\ issued[n] < MaxTokens /\ created[n] < MaxRows
  /\ IF Exists(n)
     THEN UNCHANGED <<row, issued, created, past>>
     ELSE /\ row' = [row EXCEPT ![n] = NewRow(created[n] + 1, issued[n] + 1)]
          /\ issued' = [issued EXCEPT ![n] = @ + 1]
          /\ created' = [created EXCEPT ![n] = @ + 1]
          /\ past' = [past EXCEPT ![n] = {}]
  /\ Release(r)
  /\ UNCHANGED <<todo, seen>>

\* removeNode: the delete is refused while devices are attached (not modelled),
\* so any row may go.
RemoveNode(r) ==
  LET n == req[r].node IN
  /\ req[r].step = "write"
  /\ req[r].op = "remove"
  /\ row' = IF Finds(r) THEN [row EXCEPT ![n] = NoRow] ELSE row
  /\ Release(r)
  /\ UNCHANGED <<issued, created, todo, seen, past>>

-----------------------------------------------------------------------------
(* Heartbeats. *)

AuthenticMutant(n, token) ==
  /\ Exists(n)
  /\ row[n].status # "REVOKED"
  /\ row[n].approval # "REJECTED"
  /\ row[n].token = token

\* The checks of authenticateAgent, in their order.
Authentic(n, token) ==
  /\ Exists(n)
  /\ row[n].status # "REVOKED"
  /\ row[n].approval # "REJECTED"
  /\ row[n].token = token
  /\ ~row[n].maintenance

\* An agent's request passes them; a refusal changes nothing.
AuthenticateAgent(r, n, token) ==
  /\ "heartbeat" \in Operations
  /\ req[r].step = "idle"
  /\ Authentic(n, token)
  /\ req' = [req EXCEPT ![r] = Hold("authenticated", "heartbeat", n)]
  /\ UNCHANGED <<row, issued, created, todo, seen, past>>

\* The console's health check enters applyHeartbeat with no agent behind it.
HealthCheck(r, n) ==
  /\ "healthcheck" \in Operations
  /\ req[r].step = "idle"
  /\ Exists(n)
  /\ req' = [req EXCEPT ![r] = Hold("authenticated", "healthcheck", n)]
  /\ UNCHANGED <<row, issued, created, todo, seen, past>>

\* applyHeartbeat checks the row once more,
MayReportMutant(n) == row[n].status # "REVOKED"
MayReport(n) == row[n].status # "REVOKED" /\ row[n].approval # "REJECTED"

\* and decides from it the status it will write.
HeartbeatStatusMutant(n) == "ONLINE"
HeartbeatStatus(n) == IF row[n].approval = "APPROVED" THEN "ONLINE" ELSE row[n].status

ReadPrevious(r) ==
  LET n == req[r].node IN
  /\ req[r].step = "authenticated"
  /\ IF Finds(r) /\ MayReport(n)
     THEN req' = [req EXCEPT ![r] =
                    [@ EXCEPT !.step = "write", !.status = HeartbeatStatus(n)]]
     ELSE Release(r)
  /\ UNCHANGED <<row, issued, created, todo, seen, past>>

\* ... and writes it, with the heartbeat clock.  The stored health is not touched.
WriteHeartbeat(r) ==
  LET n == req[r].node IN
  /\ req[r].step = "write"
  /\ req[r].op \in {"heartbeat", "healthcheck"}
  /\ row' = IF Finds(r)
            THEN [row EXCEPT ![n] = [@ EXCEPT !.status = req[r].status, !.age = 0]]
            ELSE row
  /\ Release(r)
  /\ UNCHANGED <<issued, created, todo, seen, past>>

-----------------------------------------------------------------------------
(* The sweep: one findMany, then one update per node that needs it. *)

SweepStart ==
  /\ todo = {}
  /\ todo' = {n \in Nodes : Exists(n)}
  /\ todo' # {}
  /\ seen' = [n \in Nodes |-> SnapshotOf(row[n])]
  /\ UNCHANGED <<row, issued, created, req, past>>

SweepOfflineMutant(n) ==
  /\ DeriveHealth(seen[n]) = "OFFLINE"
  /\ seen[n].status # "OFFLINE"

SweepOffline(n) ==
  /\ DeriveHealth(seen[n]) = "OFFLINE"
  /\ seen[n].health # "OFFLINE"

SweepRecoveredMutantStatus(n) ==
  /\ DeriveHealth(seen[n]) # "OFFLINE"
  /\ seen[n].health = "OFFLINE"

SweepRecoveredMutantHealth(n) ==
  /\ DeriveHealth(seen[n]) = "ONLINE"
  /\ seen[n].health = "OFFLINE"
  /\ seen[n].status # "REVOKED"

SweepRecovered(n) ==
  /\ DeriveHealth(seen[n]) # "OFFLINE"
  /\ seen[n].health = "OFFLINE"
  /\ seen[n].status # "REVOKED"

\* A silent node is marked OFFLINE.
MarkOffline(n) ==
  /\ row' = [row EXCEPT ![n] =
               [@ EXCEPT !.health = "OFFLINE",
                         !.status = IF seen[n].status = "REVOKED"
                                    THEN "REVOKED" ELSE "OFFLINE"]]
  /\ past' = [past EXCEPT ![n] = @ \cup {"offline"}]

MarkRecoveredMutant(n) ==
  /\ row' = [row EXCEPT ![n] =
               [@ EXCEPT !.health = DeriveHealth(seen[n]), !.status = DeriveHealth(seen[n])]]
  /\ UNCHANGED past

\* A node marked OFFLINE that reports again.
MarkRecovered(n) ==
  LET health == DeriveHealth(seen[n]) IN
  /\ row' = [row EXCEPT ![n] =
               [@ EXCEPT !.health = health,
                         !.status = IF health \in {"ONLINE", "DEGRADED"}
                                    THEN health ELSE seen[n].status]]
  /\ UNCHANGED past

\* An update of a row that was removed meanwhile throws and ends the sweep.
SweepNode(n) ==
  /\ n \in todo
  /\ IF ~SweepOffline(n) /\ ~SweepRecovered(n)
     THEN todo' = todo \ {n} /\ UNCHANGED <<row, past>>
     ELSE IF row[n].id # seen[n].id
     THEN todo' = {} /\ UNCHANGED <<row, past>>
     ELSE /\ todo' = todo \ {n}
          /\ IF SweepOffline(n) THEN MarkOffline(n) ELSE MarkRecovered(n)
  /\ seen' = [m \in Nodes |-> IF m \in todo' THEN seen[m] ELSE SnapshotOf(NoRow)]
  /\ UNCHANGED <<issued, created, req>>

-----------------------------------------------------------------------------
Next ==
  \/ Tick
  \/ \E r \in Requests, n \in Nodes :
       \/ \E op \in AllOperations : ReadRow(r, n, op)
       \/ RegisterNode(r, n)
       \/ \E token \in 1 .. issued[n] : AuthenticateAgent(r, n, token)
       \/ HealthCheck(r, n)
  \/ \E r \in Requests :
       \/ WriteColumns(r)
       \/ WriteToken(r)
       \/ WriteRegistration(r)
       \/ CreateNode(r)
       \/ RemoveNode(r)
       \/ ReadPrevious(r)
       \/ WriteHeartbeat(r)
  \/ SweepStart
  \/ \E n \in Nodes : SweepNode(n)

Spec == Init /\ [][Next]_vars

\* The scheduler keeps calling the sweep, and a sweep that has begun goes on.
SweepFairness ==
  /\ WF_vars(SweepStart)
  /\ WF_vars(\E n \in Nodes : SweepNode(n))

FairSpec == Spec /\ SweepFairness

-----------------------------------------------------------------------------
(* Properties. *)

\* Every variable has its type; a request in flight holds a well-formed record.
TypeOK ==
  /\ row \in [Nodes -> Row]
  /\ issued \in [Nodes -> Nat]
  /\ created \in [Nodes -> Nat]
  /\ req \in [Requests -> Request \cup {Idle}]
  /\ todo \subseteq Nodes
  /\ seen \in [Nodes -> Snapshot]
  /\ past \in [Nodes -> SUBSET {"approved", "offline"}]

\* A request in flight that can still give node n's row a live status or token.
Reviving(r, n) ==
  /\ \/ req[r].step = "token"
     \/ /\ req[r].step = "write"
        /\ req[r].op \in {"heartbeat", "healthcheck", "register", "rotate"}
  /\ req[r].node = n
  /\ req[r].id = row[n].id

\* The node is revoked and whatever read its row before the revocation is over.
Revoked(n) ==
  /\ Exists(n)
  /\ row[n].status = "REVOKED"
  /\ row[n].token = RevokedHash
  /\ \A r \in Requests : ~Reviving(r, n)
  /\ n \in todo /\ seen[n].id = row[n].id => seen[n].status = "REVOKED"

\* Revocation is final for every operation that starts after it: no enrolment,
\* rotation, heartbeat or sweep that reads the revoked row gives the node a live
\* status or a working token again (registerNodeAgent, rotateNodeToken,
\* applyHeartbeat and sweepStaleNodes each check REVOKED in a place of their own).
RevocationIsFinal ==
  [][\A n \in Nodes : Revoked(n) => Revoked(n)' \/ row'[n].id # row[n].id]_vars

\* A rejected node with no heartbeat past its check.
Silenced(n) ==
  /\ Exists(n)
  /\ row[n].approval = "REJECTED"
  /\ \A r \in Requests :
       req[r].step = "write" /\ req[r].op \in {"heartbeat", "healthcheck"}
         => ~(req[r].node = n /\ req[r].id = row[n].id)

\* A rejected node reports nothing more: its heartbeat clock never restarts until an
\* operator approves it, whatever token its agent holds or re-enrols for
\* (gateway/auth.ts and applyHeartbeat).
RejectionSilences ==
  [][\A n \in Nodes :
       Silenced(n) /\ row'[n].id = row[n].id /\ row'[n].approval = "REJECTED"
         => /\ Silenced(n)'
            /\ row'[n].age \in {row[n].age, Older(row[n].age)}]_vars

\* A node in maintenance with no heartbeat past its authentication.
Parked(n) ==
  /\ Exists(n)
  /\ row[n].maintenance
  /\ \A r \in Requests :
       req[r].step \in {"authenticated", "write"}
         /\ req[r].op \in {"heartbeat", "healthcheck"}
         => ~(req[r].node = n /\ req[r].id = row[n].id)

\* An agent cannot report through maintenance: once its last accepted heartbeat is
\* over, the clock of the node restarts only after maintenance ends or an operator
\* asks for a health check (gateway/auth.ts; the order of its checks against
\* maintenance-on and re-enrolment).
MaintenanceSilences ==
  [][\A n \in Nodes :
       Parked(n) /\ row'[n].id = row[n].id /\ row'[n].maintenance
         => /\ row'[n].age \in {row[n].age, Older(row[n].age)}
            /\ \/ Parked(n)'
               \/ \E r \in Requests :
                    /\ req'[r].step = "authenticated"
                    /\ req'[r].op = "healthcheck"]_vars

\* A node is ONLINE only if an operator approved this row once, or the sweep once
\* marked it OFFLINE and saw it come back: heartbeats and enrolments alone, in any
\* interleaving and across removal, never promote it.
OnlineIsEarned ==
  \A n \in Nodes : row[n].status \in {"ONLINE", "DEGRADED"} => past[n] # {}

\* A node that stays silent is, again and again, stored as OFFLINE, whatever the
\* policy engine writes into its health meanwhile.
SilentNodeGoesOffline ==
  \A n \in Nodes :
    <>[](Exists(n) /\ HeartbeatState(row[n].age) = "OFFLINE")
      => []<>(row[n].health = "OFFLINE")

\* A node that reports again stops being stored as OFFLINE, even when a sweep that
\* read the table before its heartbeat marked it so afterwards; provided sweeps reach
\* the node before what they read of it has itself gone stale.
LiveNodeRecovers ==
  \A n \in Nodes :
    <>[](/\ Exists(n) /\ row[n].status # "REVOKED"
         /\ HeartbeatState(row[n].age) # "OFFLINE"
         /\ n \in todo => HeartbeatState(seen[n].age) # "OFFLINE")
      => <>[](row[n].health # "OFFLINE")
=============================================================================
