----------------------------- MODULE NodeAgent -----------------------------
(***************************************************************************)
(* The node agent process (vwray-node/src/agent.ts) and what it meets in   *)
(* the control plane: it enrols, keeps its credential in a file, and sends *)
(* heartbeats until it is told that its node is revoked.                   *)
(*                                                                         *)
(* A request is answered, or its answer is lost with or without the        *)
(* handler having run; a request of a process that has died may still be   *)
(* handled.  Here a handler is one step: NodeLifecycle has its halves.     *)
(* The length of the pauses is left out.  NODE_ID, where it is set, has no *)
(* dot: with one every token would be malformed (gateway/auth.ts:44).      *)
(***************************************************************************)
EXTENDS Integers, FiniteSets

CONSTANTS
  None,
  MaxDrawn,     \* bound: identities and tokens made
  MaxActs,      \* bound: operations of the operators
  MaxFaults     \* bound: crashes, lost requests and answers, refused writes, clock jumps

ASSUME BoundsAssumption == {MaxDrawn, MaxActs, MaxFaults} \subseteq Nat

VARIABLES
  pinned,     \* NODE_ID is set
  endpoint,   \* PUBLIC_ENDPOINT or a platform domain is set
  status,     \* runtime.status
  step,       \* what the heartbeat loop is doing
  memory,     \* runtime.nodeId and runtime.nodeToken, None without a token
  file,       \* the credentials file: None while there is none that can be read
  answer,     \* the answer the process waits for or has got
  wire,       \* requests that have been sent and not been handled
  node,       \* vpn_node rows by nodeId
  drawn,      \* identities and tokens made so far
  life,       \* which process of the installation runs
  issued,     \* history: credentials that the control plane has issued
  refused,    \* history: credentials that were answered with 401
  acts, faults

configured == <<pinned, endpoint>>
agent == <<status, step, memory, answer, life>>
history == <<issued, refused>>
vars == <<configured, agent, file, wire, node, drawn, history, acts, faults>>

PinnedId == 0
Identities == 0 .. MaxDrawn
Credentials == [id: Identities, token: 1 .. MaxDrawn]
Statuses == {"STARTING", "REGISTERING", "AUTHENTICATING", "HEARTBEAT", "ONLINE", "OFFLINE", "REVOKED"}
Steps == {"down", "loop", "register", "save", "heartbeat", "wait", "pause", "stopped"}
Answers == {"none", "ok", "revoked", "unauthenticated", "forbidden", "lost"}
Asks == [kind: {"register"}, id: Identities] \cup [kind: {"heartbeat"}, credential: Credentials, skewed: BOOLEAN]
Requests == [life: Nat, ask: Asks]

ASSUME NoneAssumption == None \notin Credentials

NoAnswer == [verdict |-> "none"]
NewNode(token) == [state |-> "REGISTERING", approval |-> "PENDING", token |-> token, maintenance |-> FALSE, serves |-> FALSE]

Init ==
  /\ pinned \in BOOLEAN /\ endpoint \in BOOLEAN
  /\ status = "STARTING" /\ step = "down" /\ memory = None /\ file = None /\ answer = NoAnswer
  /\ wire = {} /\ node = [i \in {} |-> None]
  /\ drawn = 0 /\ life = 0 /\ issued = {} /\ refused = {} /\ acts = 0 /\ faults = 0

Fault == faults < MaxFaults /\ faults' = faults + 1
Act == acts < MaxActs /\ acts' = acts + 1

-----------------------------------------------------------------------------
(* The process starts with what the file holds. *)

Start ==
  /\ step = "down" /\ step' = "loop"
  /\ memory' = file
  /\ status' = IF file = None THEN "REGISTERING" ELSE "AUTHENTICATING"
  /\ UNCHANGED <<configured, answer, life, file, wire, node, drawn, history, acts, faults>>

\* What fails in the loop ends its round.
Fail == status' = "OFFLINE" /\ step' = "pause"

\* A round begins: with a credential, from memory or from the file, it goes on to the
\* heartbeat; without one it enrols under NODE_ID or a name made for the occasion.
StableNodeId == IF pinned THEN PinnedId ELSE drawn + 1

Ask(request) == wire' = wire \cup {[life |-> life, ask |-> request]} /\ answer' = NoAnswer

UseCredential ==
  /\ step = "loop" /\ (memory # None \/ file # None)
  /\ step' = "heartbeat"
  /\ memory' = IF memory # None THEN memory ELSE file
  /\ status' = IF memory # None THEN status ELSE "AUTHENTICATING"
  /\ UNCHANGED <<configured, answer, life, file, wire, node, drawn, history, acts, faults>>

RegisterIfNeeded ==
  /\ step = "loop" /\ memory = None /\ file = None
  /\ \/ /\ endpoint
        /\ step' = "register" /\ UNCHANGED status
        /\ Ask([kind |-> "register", id |-> StableNodeId])
        /\ pinned \/ drawn < MaxDrawn
        /\ drawn' = IF pinned THEN drawn ELSE drawn + 1
     \/ ~endpoint /\ Fail /\ UNCHANGED <<wire, answer, drawn>>
  /\ UNCHANGED <<configured, memory, life, file, node, history, acts, faults>>

\* The answer to an enrolment.  A refusal, also that the node is revoked, is retried.
Registered ==
  /\ step = "register" /\ answer # NoAnswer
  /\ IF answer.verdict = "ok" THEN step' = "save" /\ UNCHANGED <<status, answer>> ELSE Fail /\ answer' = NoAnswer
  /\ UNCHANGED <<configured, memory, life, file, wire, node, drawn, history, acts, faults>>

\* The file first, then the memory; a crash inside the write leaves no file that can be read.
SaveCredentials ==
  /\ step = "save" /\ answer' = NoAnswer
  /\ \/ /\ file' = answer.credential /\ memory' = answer.credential
        /\ status' = "AUTHENTICATING" /\ step' = "heartbeat"
        /\ UNCHANGED faults
     \/ Fault /\ Fail /\ UNCHANGED <<file, memory>>
  /\ UNCHANGED <<configured, life, wire, node, drawn, history, acts>>

\* The clock of the host may be outside the skew that the control plane accepts.
SendHeartbeat ==
  /\ step = "heartbeat"
  /\ status' = "HEARTBEAT" /\ step' = "wait"
  /\ \/ Ask([kind |-> "heartbeat", credential |-> memory, skewed |-> FALSE]) /\ UNCHANGED faults
     \/ Fault /\ Ask([kind |-> "heartbeat", credential |-> memory, skewed |-> TRUE])
  /\ UNCHANGED <<configured, memory, life, file, node, drawn, history, acts>>

\* Mutant: a node in maintenance is told to enrol anew.
DisownsMutant == {"unauthenticated", "forbidden"}
\* Mutant: a refused credential is kept.
DisownsMutantNever == {}
\* The answers on which the agent deletes its credential.
Disowns == {"unauthenticated"}

\* The answer to a heartbeat.  A file that cannot be deleted is found again by the next round.
HeartbeatAnswered ==
  /\ step = "wait" /\ answer # NoAnswer
  /\ answer' = NoAnswer
  /\ \/ answer.verdict = "ok" /\ status' = "ONLINE" /\ step' = "pause" /\ UNCHANGED <<memory, file, faults>>
     \/ answer.verdict = "revoked" /\ status' = "REVOKED" /\ step' = "stopped" /\ UNCHANGED <<memory, file, faults>>
     \/ /\ answer.verdict \notin {"ok", "revoked"} /\ Fail
        /\ IF answer.verdict \in Disowns
           THEN /\ memory' = None
                /\ \/ file' = None /\ UNCHANGED faults
                   \/ Fault /\ UNCHANGED file
           ELSE UNCHANGED <<memory, file, faults>>
  /\ UNCHANGED <<configured, life, wire, node, drawn, history, acts>>

\* The timer of the next round.
Wake ==
  /\ step = "pause" /\ step' = "loop"
  /\ UNCHANGED <<configured, status, memory, answer, life, file, wire, node, drawn, history, acts, faults>>

Crash ==
  /\ step # "down" /\ Fault
  /\ step' = "down" /\ status' = "STARTING" /\ memory' = None /\ answer' = NoAnswer /\ life' = life + 1
  /\ UNCHANGED <<configured, file, wire, node, drawn, history, acts>>

-----------------------------------------------------------------------------
(* The control plane handles a request, whoever still waits for it. *)

Awaited(request) == request.life = life /\ step \in {"register", "wait"}

\* The process whose request it is gets the answer, or a broken connection.
Reply(request, reply) ==
  /\ wire' = wire \ {request}
  /\ \/ answer' = (IF Awaited(request) THEN reply ELSE answer) /\ UNCHANGED faults
     \/ Awaited(request) /\ Fault /\ answer' = [verdict |-> "lost"]

HandleRegister(request) ==
  LET id == request.ask.id
      token == drawn + 1 IN
  /\ request.ask.kind = "register"
  /\ \/ /\ id \in DOMAIN node /\ node[id].state = "REVOKED"
        /\ Reply(request, [verdict |-> "revoked"])
        /\ UNCHANGED <<node, drawn, issued>>
     \/ /\ id \in DOMAIN node => node[id].state # "REVOKED"
        /\ drawn < MaxDrawn
        /\ drawn' = token /\ issued' = issued \cup {[id |-> id, token |-> token]}
        /\ node' = [i \in DOMAIN node \cup {id} |->
                      IF i # id THEN node[i]
                      ELSE IF id \in DOMAIN node THEN [node[id] EXCEPT !.token = token, !.state = "REGISTERING"]
                      ELSE NewNode(token)]
        /\ Reply(request, [verdict |-> "ok", credential |-> [id |-> id, token |-> token]])
  /\ UNCHANGED <<configured, status, step, memory, life, file, refused, acts>>

\* authenticateAgent: the checks in their order.
Verdict(request) ==
  LET c == request.credential
      row == node[c.id] IN
  IF request.skewed \/ c.id \notin DOMAIN node THEN "unauthenticated"
  ELSE IF row.state = "REVOKED" THEN "revoked"
  ELSE IF row.approval = "REJECTED" THEN "forbidden"
  ELSE IF row.token # c.token THEN "unauthenticated"
  ELSE IF row.maintenance THEN "forbidden"
  ELSE "ok"

HandleHeartbeat(request) ==
  LET c == request.ask.credential
      verdict == Verdict(request.ask) IN
  /\ request.ask.kind = "heartbeat"
  /\ Reply(request, [verdict |-> verdict])
  /\ node' = IF verdict = "ok" /\ node[c.id].approval = "APPROVED" THEN [node EXCEPT ![c.id].state = "ONLINE"] ELSE node
  /\ refused' = IF verdict = "unauthenticated" THEN refused \cup {c} ELSE refused
  /\ UNCHANGED <<configured, status, step, memory, life, file, drawn, issued, acts>>

\* A request that never arrives: the agent has nothing but the broken connection.
Lose(request) ==
  /\ Fault
  /\ wire' = wire \ {request}
  /\ answer' = IF Awaited(request) THEN [verdict |-> "lost"] ELSE answer
  /\ UNCHANGED <<configured, status, step, memory, life, file, node, drawn, history, acts>>

Handle == \E request \in wire : HandleRegister(request) \/ HandleHeartbeat(request)

\* What operators do to a node.  One that serves devices cannot be removed; here devices are
\* assigned to any node, and leave it.
Operate(id) ==
  /\ Act
  /\ \/ /\ node[id].state # "REVOKED"
        /\ \/ node' = [node EXCEPT ![id].approval = "APPROVED"] /\ UNCHANGED drawn
           \/ node' = [node EXCEPT ![id].state = "REVOKED"] /\ UNCHANGED drawn
           \/ node' = [node EXCEPT ![id].maintenance = ~@] /\ UNCHANGED drawn
           \/ drawn < MaxDrawn /\ drawn' = drawn + 1 /\ node' = [node EXCEPT ![id].token = drawn + 1]
     \/ node' = [node EXCEPT ![id].approval = "REJECTED"] /\ UNCHANGED drawn
     \/ ~node[id].serves /\ node' = [i \in DOMAIN node \ {id} |-> node[i]] /\ UNCHANGED drawn
     \/ node' = [node EXCEPT ![id].serves = ~@] /\ UNCHANGED drawn
  /\ UNCHANGED <<configured, agent, file, wire, history, faults>>

Agent == Start \/ UseCredential \/ RegisterIfNeeded \/ Registered \/ SaveCredentials \/ SendHeartbeat \/ HeartbeatAnswered \/ Wake

Next ==
  \/ Agent \/ Crash \/ Handle
  \/ \E request \in wire : Lose(request)
  \/ \E id \in DOMAIN node : Operate(id)

Spec == Init /\ [][Next]_vars

\* Timers fire, a process that died is started again, and requests are handled.
FairSpec == Spec /\ WF_vars(Agent) /\ WF_vars(Handle)

-----------------------------------------------------------------------------
(* Properties. *)

\* The kinds of state the agent and its requests have.
TypeOK ==
  /\ pinned \in BOOLEAN /\ endpoint \in BOOLEAN
  /\ status \in Statuses /\ step \in Steps
  /\ memory \in Credentials \cup {None} /\ file \in Credentials \cup {None}
  /\ answer \in [verdict: Answers] \cup [verdict: {"ok"}, credential: Credentials]
  /\ wire \subseteq Requests
  /\ DOMAIN node \subseteq Identities
  /\ issued \subseteq Credentials /\ refused \subseteq Credentials
  /\ drawn \in 0 .. MaxDrawn /\ acts \in 0 .. MaxActs /\ faults \in 0 .. MaxFaults
  /\ life \in Nat

\* The agent implements Enrolment, with its file as what the installation holds: whatever is
\* lost, restarted or refused, it gives up a credential only where the control plane has
\* refused that very one, and never because a request failed or its node is in maintenance.
Promise == INSTANCE Enrolment WITH
  held <- file
KeepsItsPromise == Promise!Spec

\* With NODE_ID set, an agent whose node is not revoked, rejected or in maintenance is online
\* again and again, whatever was lost or restarted and whoever rotated or removed what.
Blocked ==
  /\ PinnedId \in DOMAIN node
  /\ node[PinnedId].state = "REVOKED" \/ node[PinnedId].approval = "REJECTED" \/ node[PinnedId].maintenance
ReturnsOnline == pinned /\ endpoint => []<>(status = "ONLINE" \/ step = "stopped" \/ Blocked)
=============================================================================
