--------------------------- MODULE ConfigIssuance ---------------------------
(***************************************************************************)
(* Client configurations: generating one (credential, tunnel address,      *)
(* rendered file, assignment), its revocation and expiry, and the peers    *)
(* that the gateways' management interfaces are told of                    *)
(* (src/server/configs/service.ts, src/server/vpn, the config routes).     *)
(*                                                                         *)
(* A configuration has one version: only a rollback writes another, and a  *)
(* rollback needs two to start from.  Approval is required, as by default. *)
(* A transaction is one step, and so is a call of a gateway; what other    *)
(* calls, operators and jobs do comes in between.                          *)
(***************************************************************************)
EXTENDS Integers, FiniteSets, FiniteSetsExt

CONSTANTS
  Calls,        \* console requests under way
  Devices, Nodes,
  Configs,      \* identifiers of generated configurations, in the order of their creation
  Hosts,        \* allocatable hosts of the tunnel pool
  None,
  MaxEdits,     \* bound: what operators, heartbeats and expiry do
  MaxFaults     \* bound: failed calls and dead processes

ASSUME OrderAssumption == Configs \subseteq Nat /\ Hosts \subseteq Nat /\ IsFiniteSet(Configs) /\ IsFiniteSet(Hosts)
ASSUME BoundsAssumption == {MaxEdits, MaxFaults} \subseteq Nat

VARIABLES
  env,       \* the deployment: production or not, which management interfaces are configured
  device,    \* [Devices -> [approved, config, node]]
  node,      \* [Nodes -> [protocol, real, online, endpoint]]
  cred,      \* [Configs -> None or the credential that was stored with the configuration]
  config,    \* [Configs -> None or [device, status]]
  peers,     \* [Nodes -> keys the gateway was told of]
  call,      \* [Calls -> what the request is about to do]
  used,      \* how many identifiers have been drawn
  edits, faults

vars == <<env, device, node, cred, config, peers, call, used, edits, faults>>

Protocols == {"WIREGUARD", "XRAY", "MOCK"}
Statuses == {"ACTIVE", "EXPIRED", "REVOKED"}
Deployment == [production: BOOLEAN, wireguardUrl: BOOLEAN, xrayUrl: BOOLEAN, serverKey: BOOLEAN]
NodeRow == [protocol: Protocols, real: BOOLEAN, online: BOOLEAN, endpoint: BOOLEAN]
Credential == [device: Devices, kind: {"WIREGUARD_KEYPAIR", "XRAY_UUID"}, host: Hosts \cup {None}, revoked: BOOLEAN]
Config == [device: Devices, status: Statuses]
Request == [step: {"create", "store"}, config: Configs, device: Devices, node: Nodes]

\* None is no identifier and no row.
ASSUME NoneAssumption == None \notin Configs \cup Hosts \cup Credential \cup Config

-----------------------------------------------------------------------------
(* Adapters. *)

AdapterKeyFor(n) == IF ~node[n].real THEN "mock" ELSE IF node[n].protocol = "WIREGUARD" THEN "wireguard" ELSE "xray"

\* The mock refuses to be constructed in production.
GetAdapter(key) == key # "mock" \/ ~env.production

GeneratesConfig(key) == key # "mock"

\* The adapters that call a management interface: WireGuard in its agent mode, whether or
\* not it knows the address of one, Xray where it knows one.
CallsAgent(key) == CASE key = "wireguard" -> env.production [] key = "xray" -> env.xrayUrl [] OTHER -> FALSE
AgentReachable(key) == key = "xray" \/ env.wireguardUrl

\* createClient: fails with the agent's call, which may also be made and not answered.
CreateClientOutcomes(key) ==
  IF ~CallsAgent(key) THEN {[told |-> FALSE, ok |-> TRUE]}
  ELSE IF ~AgentReachable(key) THEN {[told |-> FALSE, ok |-> FALSE]}
  ELSE {[told |-> TRUE, ok |-> TRUE]}
       \cup (IF faults < MaxFaults THEN {[told |-> TRUE, ok |-> FALSE], [told |-> FALSE, ok |-> FALSE]} ELSE {})

-----------------------------------------------------------------------------

Idle == [step |-> "idle"]

Init ==
  /\ env \in Deployment
  /\ device = [d \in Devices |-> [approved |-> TRUE, config |-> None, node |-> None]]
  /\ node \in [Nodes -> {row \in NodeRow : (row.protocol = "MOCK" => ~row.real) /\ row.endpoint /\ row.online}]
  /\ cred = [c \in Configs |-> None]
  /\ config = [c \in Configs |-> None]
  /\ peers = [n \in Nodes |-> {}]
  /\ call = [r \in Calls |-> Idle]
  /\ used = 0 /\ edits = 0 /\ faults = 0

\* Approvals, blocks, heartbeats and edits of a node.
Surroundings ==
  /\ edits < MaxEdits /\ edits' = edits + 1
  /\ \/ /\ \E d \in Devices : device' = [device EXCEPT ![d].approved = ~@]
        /\ UNCHANGED node
     \/ /\ \E n \in Nodes : \/ node' = [node EXCEPT ![n].online = ~@]
                            \/ node' = [node EXCEPT ![n].endpoint = ~@]
        /\ UNCHANGED device
  /\ UNCHANGED <<env, cred, config, peers, call, used, faults>>

-----------------------------------------------------------------------------
(* Generating a configuration. *)

Become(r, state) == call' = [call EXCEPT ![r] = state]

\* The checks.  The capability of the adapter is asked for a WireGuard profile only.
Servable(d, n) ==
  /\ device[d].approved
  /\ node[n].online
  /\ node[n].protocol # "MOCK"
  /\ GetAdapter(AdapterKeyFor(n))
  /\ node[n].endpoint
  /\ node[n].protocol = "WIREGUARD" => env.serverKey

StartGenerate(r, d, n) ==
  /\ call[r] = Idle
  /\ \E c \in Configs : c > used /\ \A other \in Configs : other > used => c <= other
                        /\ used' = c
                        /\ Become(r, [step |-> "create", config |-> c, device |-> d, node |-> n])
  /\ Servable(d, n)
  /\ UNCHANGED <<env, device, node, cred, config, peers, edits, faults>>

CreateClient(r) ==
  LET n == call[r].node
      key == AdapterKeyFor(n) IN
  /\ call[r].step = "create"
  /\ \E outcome \in CreateClientOutcomes(key) :
       /\ peers' = IF outcome.told THEN [peers EXCEPT ![n] = @ \cup {call[r].config}] ELSE peers
       /\ faults' = IF CallsAgent(key) /\ AgentReachable(key) /\ ~outcome.ok THEN faults + 1 ELSE faults
       /\ Become(r, IF outcome.ok /\ (node[n].protocol = "WIREGUARD" => GeneratesConfig(key))
                    THEN [call[r] EXCEPT !.step = "store"] ELSE Idle)
  /\ UNCHANGED <<env, device, node, cred, config, used, edits>>

Issued == {c \in Configs : cred[c] # None}

\* allocateTunnelAddress: the lowest host that no live credential holds.
Taken == {cred[c].host : c \in {i \in Issued : ~cred[i].revoked}}
FreeHosts == Hosts \ Taken
AllocateTunnelAddress == IF FreeHosts = {} THEN None ELSE Min(FreeHosts)

\* Mutant: the index covers the live credentials.
HeldMutant(host) == \E c \in Issued : cred[c].host = host /\ ~cred[c].revoked
\* The unique index on tunnelAddress.
Held(host) == \E c \in Issued : cred[c].host = host

\* The transaction.  It fails where the pool is exhausted and on the index.
StoreConfig(r) ==
  LET c == call[r].config
      d == call[r].device
      wireguard == node[call[r].node].protocol = "WIREGUARD"
      host == IF wireguard THEN AllocateTunnelAddress ELSE None
  IN
  /\ call[r].step = "store"
  /\ Become(r, Idle)
  /\ IF wireguard /\ (host = None \/ Held(host))
     THEN UNCHANGED <<device, cred, config>>
     ELSE /\ cred' = [cred EXCEPT ![c] =
                        [device |-> d, kind |-> IF wireguard THEN "WIREGUARD_KEYPAIR" ELSE "XRAY_UUID",
                         host |-> host, revoked |-> FALSE]]
          /\ config' = [config EXCEPT ![c] = [device |-> d, status |-> "ACTIVE"]]
          /\ device' = [device EXCEPT ![d] = [@ EXCEPT !.config = c, !.node = call[r].node]]
  /\ UNCHANGED <<env, node, peers, used, edits, faults>>

-----------------------------------------------------------------------------
(* The end of a configuration. *)

\* Mutant: the device keeps its assignment.
UnassignMutant(d) == device
Unassign(d) == [device EXCEPT ![d].config = None]

\* Takes all credentials of the device, and its assignment, whatever they belong to.
RevokeConfig(c) ==
  /\ edits < MaxEdits /\ edits' = edits + 1
  /\ config[c] # None
  /\ config' = [config EXCEPT ![c].status = "REVOKED"]
  /\ cred' = [i \in Configs |-> IF cred[i] # None /\ cred[i].device = config[c].device
                                THEN [cred[i] EXCEPT !.revoked = TRUE] ELSE cred[i]]
  /\ device' = Unassign(config[c].device)
  /\ UNCHANGED <<env, node, peers, call, used, faults>>

\* The operator's action takes a configuration of any status, a revoked one as well.
ExpireConfig(c) ==
  /\ edits < MaxEdits /\ edits' = edits + 1
  /\ config[c] # None
  /\ config' = [config EXCEPT ![c].status = "EXPIRED"]
  /\ UNCHANGED <<env, device, node, cred, peers, call, used, faults>>

\* The job takes an active one that has run out, and leaves its credential to the other job.
ExpiredConfigCleanup(c) ==
  /\ edits < MaxEdits /\ edits' = edits + 1
  /\ config[c] # None /\ config[c].status = "ACTIVE"
  /\ config' = [config EXCEPT ![c].status = "EXPIRED"]
  /\ UNCHANGED <<env, device, node, cred, peers, call, used, faults>>

\* expiredCredentialCleanup.
ExpireCredential(c) ==
  /\ edits < MaxEdits /\ edits' = edits + 1
  /\ c \in Issued /\ ~cred[c].revoked
  /\ cred' = [cred EXCEPT ![c].revoked = TRUE]
  /\ UNCHANGED <<env, device, node, config, peers, call, used, faults>>

\* The process dies with its requests.
Crash ==
  /\ faults < MaxFaults /\ faults' = faults + 1
  /\ call' = [r \in Calls |-> Idle]
  /\ UNCHANGED <<env, device, node, cred, config, peers, used, edits>>

Next ==
  \/ Surroundings \/ Crash
  \/ \E r \in Calls :
       \/ \E d \in Devices, n \in Nodes : StartGenerate(r, d, n)
       \/ CreateClient(r) \/ StoreConfig(r)
  \/ \E c \in Configs : RevokeConfig(c) \/ ExpireConfig(c) \/ ExpiredConfigCleanup(c) \/ ExpireCredential(c)

Spec == Init /\ [][Next]_vars

-----------------------------------------------------------------------------
(* Properties. *)

\* The kinds of state that issuance keeps.
TypeOK ==
  /\ env \in Deployment
  /\ node \in [Nodes -> NodeRow]
  /\ device \in [Devices -> [approved: BOOLEAN, config: Configs \cup {None}, node: Nodes \cup {None}]]
  /\ cred \in [Configs -> Credential \cup {None}]
  /\ config \in [Configs -> Config \cup {None}]
  /\ peers \in [Nodes -> SUBSET Configs]
  /\ call \in [Calls -> Request \cup {Idle}]
  /\ used \in Nat
  /\ <<edits, faults>> \in (0 .. MaxEdits) \X (0 .. MaxFaults)

\* "Two devices can never be handed the same address" (allocateTunnelAddress): no two files
\* that were ever rendered carry one address, however the credentials were revoked since.
AddressesApart ==
  \A a, b \in Issued : a # b /\ cred[a].host # None => cred[a].host # cred[b].host

\* "Devices using it cannot reconnect" (revokeConfig): a configuration that is shown as
\* revoked has no live credential and is nobody's assignment, whatever was being generated
\* for the device when it was revoked.
RevocationCuts ==
  \A c \in Configs : config[c] # None /\ config[c].status = "REVOKED" =>
    cred[c].revoked /\ \A d \in Devices : device[d].config # c

\* No file is handed out for a WireGuard peer that a managed gateway was never told of.
PeerBeforeCredential ==
  \A c \in Issued : cred[c].kind = "WIREGUARD_KEYPAIR" /\ env.production => \E n \in Nodes : c \in peers[n]

\* A file that was handed out can be used: whatever calls failed, crossed or were repeated,
\* its address is nobody else's and its gateway knows the peer.
IssuedIsUsable == AddressesApart /\ PeerBeforeCredential

=============================================================================
