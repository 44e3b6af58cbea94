------------------------ MODULE ConfigIssuanceProofs ------------------------
(***************************************************************************)
(* Theorems about ConfigIssuance, for every set of requests, devices,      *)
(* nodes, identifiers and hosts, every deployment and every bound.         *)
(***************************************************************************)
EXTENDS ConfigIssuance, WellFoundedInduction, TLAPS

-----------------------------------------------------------------------------
(* Lemmas about the operators. *)

\* A nonempty set of natural numbers has its minimum as an element.
LEMMA MinOfNats ==
  ASSUME NEW S \in SUBSET Nat, S # {}
  PROVE  Min(S) \in S
<1>1. PICK x \in S : \A y \in S : <<y, x>> \notin OpToRel(<, Nat)
  BY NatLessThanWellFounded, WFMin
<1>2. ASSUME NEW y \in S PROVE x <= y
  <2>1. <<y, x>> \in Nat \X Nat /\ ~(<<y, x>>[1] < <<y, x>>[2])
    BY <1>1, Zenon DEF OpToRel
  <2> QED
    BY <2>1
<1> QED
  BY <1>2 DEF Min

\* An address that is allocated is a host of the pool.
LEMMA AllocatedType == AllocateTunnelAddress \in Hosts \cup {None}
<1>1. FreeHosts \in SUBSET Nat /\ FreeHosts \subseteq Hosts
  BY OrderAssumption DEF FreeHosts
<1>2. FreeHosts # {} => Min(FreeHosts) \in FreeHosts
  BY <1>1, MinOfNats
<1> QED
  BY <1>1, <1>2 DEF AllocateTunnelAddress

\* A gateway call that was answered was made, where the adapter makes one.
LEMMA AnsweredIsTold ==
  ASSUME NEW key, NEW outcome \in CreateClientOutcomes(key), outcome.ok, CallsAgent(key)
  PROVE  outcome.told
BY DEF CreateClientOutcomes

\* A failure of a reachable gateway is within the bound.
LEMMA FailureInBound ==
  ASSUME NEW key, NEW outcome \in CreateClientOutcomes(key),
         CallsAgent(key), AgentReachable(key), ~outcome.ok
  PROVE  faults < MaxFaults
BY DEF CreateClientOutcomes

\* A flag of a row is turned over.
LEMMA NegationType == ASSUME NEW b \in BOOLEAN PROVE (~b) \in BOOLEAN
OBVIOUS

DeviceRow == [approved: BOOLEAN, config: Configs \cup {None}, node: Nodes \cup {None}]

LEMMA ApprovalType == ASSUME NEW x \in DeviceRow, NEW b \in BOOLEAN
                      PROVE [x EXCEPT !.approved = b] \in DeviceRow
BY DEF DeviceRow

LEMMA NodeFlagType ==
  ASSUME NEW x \in NodeRow, NEW b \in BOOLEAN
  PROVE  /\ [x EXCEPT !.online = b] \in NodeRow /\ [x EXCEPT !.endpoint = b] \in NodeRow
         /\ [x EXCEPT !.online = b].protocol = x.protocol
         /\ [x EXCEPT !.endpoint = b].protocol = x.protocol
BY DEF NodeRow

-----------------------------------------------------------------------------
(* Type correctness. *)

LEMMA TypeInit == Init => TypeOK
BY BoundsAssumption DEF Init, TypeOK

\* The request in flight, and what becomes of it.
LEMMA BecomeType ==
  ASSUME TypeOK, NEW r \in Calls, NEW state \in Request \cup {Idle}, Become(r, state)
  PROVE  /\ call' \in [Calls -> Request \cup {Idle}]
         /\ call'[r] = state
         /\ \A q \in Calls \ {r} : call'[q] = call[q]
BY DEF TypeOK, Become

LEMMA RequestType ==
  ASSUME TypeOK, NEW r \in Calls, call[r].step \in {"create", "store"}
  PROVE  /\ call[r] \in Request /\ call[r] # Idle
         /\ call[r].config \in Configs /\ call[r].device \in Devices /\ call[r].node \in Nodes
BY DEF TypeOK, Idle, Request

\* The request goes on to its transaction with the rest of its state.
LEMMA StoreNext ==
  ASSUME NEW state \in Request
  PROVE  LET next == [state EXCEPT !.step = "store"]
         IN  /\ next \in Request /\ next.step = "store" /\ next.config = state.config
             /\ next.device = state.device /\ next.node = state.node
BY DEF Request

LEMMA TypeNext == TypeOK /\ [Next]_vars => TypeOK'
<1> SUFFICES ASSUME TypeOK, [Next]_vars PROVE TypeOK'
  OBVIOUS
<1> USE DEF TypeOK
<1>0. MaxEdits \in Nat /\ MaxFaults \in Nat
  BY BoundsAssumption
<1>1. CASE Surroundings
  <2>1. edits' \in 0 .. MaxEdits
    BY <1>0, <1>1 DEF Surroundings
  <2>2. CASE \E d \in Devices : device' = [device EXCEPT ![d].approved = ~@] /\ UNCHANGED node
    <3>1. PICK d \in Devices : device' = [device EXCEPT ![d] = [@ EXCEPT !.approved = ~device[d].approved]]
      BY <2>2
    <3>2. (~device[d].approved) \in BOOLEAN
      <4>1. device[d].approved \in BOOLEAN
        OBVIOUS
      <4> QED
        BY <4>1, NegationType
    <3>3. device[d] \in DeviceRow
      BY DEF DeviceRow
    <3>4. [device[d] EXCEPT !.approved = ~device[d].approved] \in DeviceRow
      BY <3>2, <3>3, ApprovalType
    <3>5. device' \in [Devices -> DeviceRow]
      BY <3>1, <3>4 DEF DeviceRow
    <3> QED
      BY <1>1, <2>1, <2>2, <3>5 DEF Surroundings, DeviceRow
  <2>3. CASE /\ \E n \in Nodes : \/ node' = [node EXCEPT ![n].online = ~@]
                                 \/ node' = [node EXCEPT ![n].endpoint = ~@]
             /\ UNCHANGED device
    <3>1. PICK n \in Nodes :
             \/ node' = [node EXCEPT ![n] = [node[n] EXCEPT !.online = ~node[n].online]]
             \/ node' = [node EXCEPT ![n] = [node[n] EXCEPT !.endpoint = ~node[n].endpoint]]
      BY <2>3
    <3>3. /\ [node[n] EXCEPT !.online = ~node[n].online] \in NodeRow
          /\ [node[n] EXCEPT !.endpoint = ~node[n].endpoint] \in NodeRow
      <4>1. node[n].online \in BOOLEAN /\ node[n].endpoint \in BOOLEAN
        BY DEF NodeRow
      <4>2. (~node[n].online) \in BOOLEAN /\ (~node[n].endpoint) \in BOOLEAN
        BY <4>1, NegationType
      <4> QED
        BY <4>2, NodeFlagType
    <3>2. node' \in [Nodes -> NodeRow]
      BY <3>1, <3>3
    <3> QED
      BY <1>1, <2>1, <2>3, <3>2 DEF Surroundings
  <2> QED
    BY <1>1, <2>2, <2>3 DEF Surroundings
<1>2. CASE Crash
  BY <1>0, <1>2 DEF Crash
<1>3. ASSUME NEW r \in Calls, NEW d \in Devices, NEW n \in Nodes, StartGenerate(r, d, n)
      PROVE  TypeOK'
  <2>1. PICK c \in Configs :
           used' = c /\ Become(r, [step |-> "create", config |-> c, device |-> d, node |-> n])
    BY <1>3 DEF StartGenerate
  <2>2. [step |-> "create", config |-> c, device |-> d, node |-> n] \in Request
    BY DEF Request
  <2>3. call' \in [Calls -> Request \cup {Idle}]
    BY <2>1, <2>2, BecomeType
  <2> QED
    BY <1>3, <2>1, <2>3, OrderAssumption DEF StartGenerate
<1>4. ASSUME NEW r \in Calls, CreateClient(r) PROVE TypeOK'
  <2> DEFINE key == AdapterKeyFor(call[r].node)
  <2>1. call[r].config \in Configs /\ [call[r] EXCEPT !.step = "store"] \in Request
    BY <1>4, RequestType, StoreNext DEF CreateClient
  <2>2. PICK outcome \in CreateClientOutcomes(key) :
           /\ peers' = IF outcome.told THEN [peers EXCEPT ![call[r].node] = @ \cup {call[r].config}]
                       ELSE peers
           /\ faults' = IF CallsAgent(key) /\ AgentReachable(key) /\ ~outcome.ok
                        THEN faults + 1 ELSE faults
           /\ \/ Become(r, [call[r] EXCEPT !.step = "store"])
              \/ Become(r, Idle)
    BY <1>4 DEF CreateClient
  <2>3. peers' \in [Nodes -> SUBSET Configs]
    BY <2>1, <2>2
  <2>4. faults' \in 0 .. MaxFaults
    BY <1>0, <2>2, FailureInBound
  <2>5. call' \in [Calls -> Request \cup {Idle}]
    BY <2>1, <2>2, BecomeType
  <2> QED
    BY <1>4, <2>3, <2>4, <2>5 DEF CreateClient
<1>5. ASSUME NEW r \in Calls, StoreConfig(r) PROVE TypeOK'
  <2> DEFINE wireguard == node[call[r].node].protocol = "WIREGUARD"
             host == IF wireguard THEN AllocateTunnelAddress ELSE None
             kind == IF wireguard THEN "WIREGUARD_KEYPAIR" ELSE "XRAY_UUID"
             d == call[r].device
             c == call[r].config
  <2>1. c \in Configs /\ d \in Devices /\ call[r].node \in Nodes
    BY <1>5, RequestType DEF StoreConfig
  <2>2. call' \in [Calls -> Request \cup {Idle}]
    BY <1>5, BecomeType DEF StoreConfig
  <2>3. CASE UNCHANGED <<device, cred, config>>
    BY <1>5, <2>2, <2>3 DEF StoreConfig
  <2>4. CASE /\ cred' = [cred EXCEPT ![c] = [device |-> d, kind |-> kind, host |-> host, revoked |-> FALSE]]
             /\ config' = [config EXCEPT ![c] = [device |-> d, status |-> "ACTIVE"]]
             /\ device' = [device EXCEPT ![d] = [@ EXCEPT !.config = c, !.node = call[r].node]]
    <3>1. [device |-> d, kind |-> kind, host |-> host, revoked |-> FALSE] \in Credential
      BY <2>1, AllocatedType DEF Credential
    <3>2. [device |-> d, status |-> "ACTIVE"] \in Config
      BY <2>1 DEF Config, Statuses
    <3>3. cred' \in [Configs -> Credential \cup {None}]
      <4> HIDE DEF c, d, host, kind
      <4> QED
        BY <2>1, <2>4, <3>1
    <3>4. config' \in [Configs -> Config \cup {None}]
      BY <2>1, <2>4, <3>2
    <3>5. device' \in [Devices -> [approved: BOOLEAN, config: Configs \cup {None}, node: Nodes \cup {None}]]
      BY ZenonT(60), <2>1, <2>4
    <3> QED
      BY <1>5, <2>2, <3>3, <3>4, <3>5 DEF StoreConfig
  <2> QED
    BY <1>5, <2>3, <2>4 DEF StoreConfig
<1>6. ASSUME NEW c \in Configs, NEW status \in Statuses, config[c] # None,
             config' = [config EXCEPT ![c].status = status]
      PROVE  config' \in [Configs -> Config \cup {None}]
  BY <1>6 DEF Config
<1>7. ASSUME NEW c \in Configs, cred[c] # None
      PROVE  [cred[c] EXCEPT !.revoked = TRUE] \in Credential
  BY ZenonT(60), <1>7 DEF Credential
<1>8. ASSUME NEW c \in Configs, RevokeConfig(c) PROVE TypeOK'
  <2>1. config' \in [Configs -> Config \cup {None}]
    BY <1>6, <1>8 DEF RevokeConfig, Statuses
  <2>2. cred' \in [Configs -> Credential \cup {None}]
    BY <1>7, <1>8 DEF RevokeConfig
  <2>3. config[c].device \in Devices
    BY <1>8 DEF RevokeConfig, Config
  <2>4. device' \in [Devices -> [approved: BOOLEAN, config: Configs \cup {None}, node: Nodes \cup {None}]]
    BY ZenonT(60), <1>8, <2>3 DEF RevokeConfig, Unassign
  <2>5. edits' \in 0 .. MaxEdits
    BY <1>0, <1>8 DEF RevokeConfig
  <2> QED
    BY <1>8, <2>1, <2>2, <2>4, <2>5 DEF RevokeConfig
<1>9. ASSUME NEW c \in Configs, ExpireConfig(c) PROVE TypeOK'
  <2>1. config[c] # None /\ config' = [config EXCEPT ![c].status = "EXPIRED"]
    BY <1>9 DEF ExpireConfig
  <2>2. "EXPIRED" \in Statuses
    BY DEF Statuses
  <2>3. config' \in [Configs -> Config \cup {None}]
    BY <1>6, <2>1, <2>2
  <2>4. edits' \in 0 .. MaxEdits
    BY <1>0, <1>9 DEF ExpireConfig
  <2> QED
    BY <1>9, <2>3, <2>4 DEF ExpireConfig
<1>10. ASSUME NEW c \in Configs, ExpiredConfigCleanup(c) PROVE TypeOK'
  <2>1. config[c] # None /\ config' = [config EXCEPT ![c].status = "EXPIRED"]
    BY <1>10 DEF ExpiredConfigCleanup
  <2>2. "EXPIRED" \in Statuses
    BY DEF Statuses
  <2>3. config' \in [Configs -> Config \cup {None}]
    BY <1>6, <2>1, <2>2
  <2>4. edits' \in 0 .. MaxEdits
    BY <1>0, <1>10 DEF ExpiredConfigCleanup
  <2> QED
    BY <1>10, <2>3, <2>4 DEF ExpiredConfigCleanup
<1>11. ASSUME NEW c \in Configs, ExpireCredential(c) PROVE TypeOK'
  <2>1. cred' \in [Configs -> Credential \cup {None}]
    BY <1>7, <1>11 DEF ExpireCredential, Issued
  <2> QED
    BY <1>0, <1>11, <2>1 DEF ExpireCredential
<1>12. CASE UNCHANGED vars
  BY <1>12 DEF vars
<1> QED
  BY <1>1, <1>2, <1>3, <1>4, <1>5, <1>8, <1>9, <1>10, <1>11, <1>12 DEF Next

\* Every reachable state is well typed.
THEOREM TypeCorrect == Spec => []TypeOK
BY TypeInit, TypeNext, PTL DEF Spec

-----------------------------------------------------------------------------
(* The inductive invariant.  A transaction stores what its request drew and *)
(* asked for before, so the invariant says of a request in flight that its  *)
(* identifier is its own and still unused, and that the gateway it is about *)
(* to store a peer of knows the peer; and of what is stored, that the three *)
(* tables tell of the same device.                                          *)

\* Identifiers are drawn in order, and each by one request.
Drawn ==
  /\ \A c \in Issued : c <= used
  /\ \A r \in Calls : call[r] # Idle => call[r].config <= used /\ call[r].config \notin Issued
  /\ \A q, r \in Calls : q # r /\ call[q] # Idle /\ call[r] # Idle => call[q].config # call[r].config

\* A configuration has its credential, and the device it is assigned to is its device.
Paired ==
  /\ \A c \in Configs : config[c] = None <=> cred[c] = None
  /\ \A c \in Issued : cred[c].device = config[c].device
  /\ \A d \in Devices : device[d].config # None =>
       device[d].config \in Issued /\ config[device[d].config].device = d

\* The gateway of a WireGuard profile about to be stored was told of its peer.
Told ==
  \A r \in Calls :
    call[r].step = "store" /\ node[call[r].node].protocol = "WIREGUARD" /\ env.production
      => call[r].config \in peers[call[r].node]

Sound == Drawn /\ Paired /\ Told /\ IssuedIsUsable /\ RevocationCuts

LEMMA SoundInit == Init => Sound
BY DEF Init, Sound, Drawn, Paired, Told, IssuedIsUsable, AddressesApart, PeerBeforeCredential,
       RevocationCuts, Issued, Idle

\* What a configuration keeps through every step but the one that stores it.
CredentialKept(i) ==
  /\ cred'[i] = None <=> cred[i] = None
  /\ cred[i] # None =>
       /\ cred'[i].device = cred[i].device
       /\ cred'[i].kind = cred[i].kind
       /\ cred'[i].host = cred[i].host
       /\ cred[i].revoked => cred'[i].revoked

ConfigKept(i) ==
  /\ config'[i] = None <=> config[i] = None
  /\ config[i] # None => config'[i].device = config[i].device

Kept ==
  /\ \A i \in Configs : CredentialKept(i) /\ ConfigKept(i)
  /\ \A d \in Devices : device'[d].config \in {device[d].config, None}
  /\ \A n \in Nodes : node'[n].protocol = node[n].protocol /\ peers[n] \subseteq peers'[n]
  /\ env' = env

\* Revoking a credential keeps everything else of it.
LEMMA RevokedType ==
  ASSUME NEW x \in Credential
  PROVE  LET y == [x EXCEPT !.revoked = TRUE]
         IN  /\ y # None /\ y.device = x.device /\ y.kind = x.kind
             /\ y.host = x.host /\ y.revoked
<1>1. [x EXCEPT !.revoked = TRUE] \in Credential
  BY DEF Credential
<1> QED
  BY <1>1, NoneAssumption DEF Credential

\* A change of status keeps everything else of a configuration.
LEMMA StatusType ==
  ASSUME NEW x \in Config, NEW status \in Statuses
  PROVE  LET y == [x EXCEPT !.status = status]
         IN  y # None /\ y.device = x.device /\ y.status = status
<1>1. [x EXCEPT !.status = status] \in Config
  BY DEF Config
<1> QED
  BY <1>1, NoneAssumption DEF Config

LEMMA KeptNext ==
  ASSUME TypeOK, [Next]_vars, \A r \in Calls : ~StoreConfig(r)
  PROVE  Kept
<1> USE DEF TypeOK
<1>1. ASSUME UNCHANGED <<cred, config, device, node, env>>,
             \A n \in Nodes : peers[n] \subseteq peers'[n]
      PROVE  Kept
  BY <1>1 DEF Kept, CredentialKept, ConfigKept
<1>2. ASSUME NEW c \in Configs, NEW status \in Statuses, config[c] # None,
             config' = [config EXCEPT ![c].status = status]
      PROVE  \A i \in Configs : ConfigKept(i)
  BY <1>2, StatusType DEF ConfigKept
<1>3. CASE Surroundings
  <2>1. \A d \in Devices : device'[d].config = device[d].config
    BY <1>3 DEF Surroundings
  <2>2. \A n \in Nodes : node'[n].protocol = node[n].protocol
    <3>1. CASE node' = node
      BY <3>1
    <3>2. CASE \E n \in Nodes : \/ node' = [node EXCEPT ![n] = [node[n] EXCEPT !.online = ~node[n].online]]
                                \/ node' = [node EXCEPT ![n] = [node[n] EXCEPT !.endpoint = ~node[n].endpoint]]
      <4>1. PICK n \in Nodes :
               \/ node' = [node EXCEPT ![n] = [node[n] EXCEPT !.online = ~node[n].online]]
               \/ node' = [node EXCEPT ![n] = [node[n] EXCEPT !.endpoint = ~node[n].endpoint]]
        BY <3>2
      <4>2. node'[n].protocol = node[n].protocol
        BY <4>1 DEF NodeRow
      <4> QED
        BY <4>1, <4>2
    <3> QED
      BY <1>3, <3>1, <3>2 DEF Surroundings
  <2> QED
    BY <1>3, <2>1, <2>2 DEF Surroundings, Kept, CredentialKept, ConfigKept
<1>4. ASSUME NEW r \in Calls, CreateClient(r) PROVE Kept
  BY <1>1, <1>4 DEF CreateClient
<1>5. ASSUME NEW c \in Configs, RevokeConfig(c) PROVE Kept
  <2>1. \A i \in Configs : ConfigKept(i)
    BY <1>2, <1>5 DEF RevokeConfig, Statuses
  <2>2. \A i \in Configs : CredentialKept(i)
    BY <1>5, RevokedType DEF RevokeConfig, CredentialKept
  <2>3. \A d \in Devices : device'[d].config \in {device[d].config, None}
    BY <1>5 DEF RevokeConfig, Unassign
  <2> QED
    BY <1>5, <2>1, <2>2, <2>3 DEF RevokeConfig, Kept, CredentialKept, ConfigKept
<1>6. ASSUME NEW c \in Configs, ExpireConfig(c) \/ ExpiredConfigCleanup(c) PROVE Kept
  <2>1. \A i \in Configs : ConfigKept(i)
    BY <1>2, <1>6 DEF ExpireConfig, ExpiredConfigCleanup, Statuses
  <2> QED
    BY <1>6, <2>1 DEF ExpireConfig, ExpiredConfigCleanup, Kept, CredentialKept, ConfigKept
<1>7. ASSUME NEW c \in Configs, ExpireCredential(c) PROVE Kept
  <2>1. \A i \in Configs : CredentialKept(i)
    BY <1>7, RevokedType DEF ExpireCredential, Issued, CredentialKept
  <2> QED
    BY <1>7, <2>1 DEF ExpireCredential, Kept, CredentialKept, ConfigKept
<1>8. CASE Crash \/ UNCHANGED vars
  BY <1>1, <1>8 DEF Crash, vars
<1>9. ASSUME NEW r \in Calls, NEW d \in Devices, NEW n \in Nodes, StartGenerate(r, d, n)
      PROVE  Kept
  BY <1>1, <1>9 DEF StartGenerate
<1> QED
  BY <1>3, <1>4, <1>5, <1>6, <1>7, <1>8, <1>9 DEF Next

\* What the transaction stores; where it fails, nothing.
LEMMA StoreStep ==
  ASSUME TypeOK, NEW r \in Calls, StoreConfig(r)
  PROVE  LET c == call[r].config
             d == call[r].device
             wireguard == node[call[r].node].protocol = "WIREGUARD"
         IN  /\ call' = [call EXCEPT ![r] = Idle]
             /\ UNCHANGED <<env, node, peers, used>>
             /\ \/ UNCHANGED <<device, cred, config>>
                \/ /\ \A i \in Configs \ {c} : cred'[i] = cred[i] /\ config'[i] = config[i]
                   /\ \A e \in Devices \ {d} : device'[e] = device[e]
                   /\ device'[d].config = c
                   /\ config'[c] = [device |-> d, status |-> "ACTIVE"] /\ config'[c] # None
                   /\ cred'[c] # None /\ cred'[c].device = d
                   /\ cred'[c].kind = "WIREGUARD_KEYPAIR" <=> wireguard
                   /\ cred'[c].host # None => ~Held(cred'[c].host)
<1> DEFINE c == call[r].config
           d == call[r].device
           wireguard == node[call[r].node].protocol = "WIREGUARD"
           host == IF wireguard THEN AllocateTunnelAddress ELSE None
           kind == IF wireguard THEN "WIREGUARD_KEYPAIR" ELSE "XRAY_UUID"
<1>1. c \in Configs /\ d \in Devices /\ call[r].node \in Nodes
  BY RequestType DEF StoreConfig
<1>2. call' = [call EXCEPT ![r] = Idle] /\ UNCHANGED <<env, node, peers, used>>
  BY DEF StoreConfig, Become
<1>3. CASE UNCHANGED <<device, cred, config>>
  BY <1>2, <1>3
<1>4. CASE /\ ~(wireguard /\ (host = None \/ Held(host)))
           /\ cred' = [cred EXCEPT ![c] = [device |-> d, kind |-> kind, host |-> host, revoked |-> FALSE]]
           /\ config' = [config EXCEPT ![c] = [device |-> d, status |-> "ACTIVE"]]
           /\ device' = [device EXCEPT ![d] = [@ EXCEPT !.config = c, !.node = call[r].node]]
  <2>1. [device |-> d, kind |-> kind, host |-> host, revoked |-> FALSE] \in Credential
    BY <1>1, AllocatedType DEF Credential
  <2>2. [device |-> d, status |-> "ACTIVE"] \in Config
    BY <1>1 DEF Config, Statuses
  <2>3. cred'[c] = [device |-> d, kind |-> kind, host |-> host, revoked |-> FALSE]
    <3> HIDE DEF c, d, host, kind
    <3> QED
      BY <1>1, <1>4 DEF TypeOK
  <2>4. \A i \in Configs \ {c} : cred'[i] = cred[i] /\ config'[i] = config[i]
    BY <1>4 DEF TypeOK
  <2>5. config'[c] = [device |-> d, status |-> "ACTIVE"]
    BY <1>1, <1>4 DEF TypeOK
  <2>6. device'[d].config = c /\ \A e \in Devices \ {d} : device'[e] = device[e]
    BY <1>1, <1>4 DEF TypeOK
  <2>7. cred'[c] # None /\ config'[c] # None
    BY <2>1, <2>2, <2>3, <2>5, NoneAssumption
  <2>8. cred'[c].kind = "WIREGUARD_KEYPAIR" <=> wireguard
    BY <2>3
  <2>9. host # None => ~Held(host)
    BY <1>4
  <2>10. cred'[c].host = host /\ cred'[c].device = d
    BY <2>3
  <2> QED
    BY <1>2, <2>4, <2>5, <2>6, <2>7, <2>8, <2>9, <2>10
<1> QED
  BY <1>3, <1>4 DEF StoreConfig

\* A request in flight after a step has begun in it, or was there with its identifier;
\* and it is about to store only what its gateway has answered for.
LEMMA CallOrigin ==
  ASSUME TypeOK, [Next]_vars, NEW q \in Calls, call'[q] # Idle
  PROVE  \/ /\ used' > used /\ call'[q].config = used' /\ call'[q].step = "create"
            /\ \A r \in Calls \ {q} : call'[r] = call[r]
         \/ /\ used' = used /\ call'[q] = call[q]
         \/ /\ used' = used /\ CreateClient(q)
            /\ call[q].step = "create" /\ call'[q] = [call[q] EXCEPT !.step = "store"]
         \/ /\ used' > used /\ call'[q] = call[q]
<1> USE DEF TypeOK
<1>1. ASSUME NEW r \in Calls, NEW d \in Devices, NEW n \in Nodes, StartGenerate(r, d, n)
      PROVE  \/ /\ used' > used /\ call'[q].config = used' /\ call'[q].step = "create"
                /\ \A p \in Calls \ {q} : call'[p] = call[p]
             \/ /\ used' > used /\ call'[q] = call[q]
  <2>1. PICK c \in Configs :
           /\ c > used /\ used' = c
           /\ Become(r, [step |-> "create", config |-> c, device |-> d, node |-> n])
    BY <1>1 DEF StartGenerate
  <2> QED
    BY <2>1 DEF Become
<1>2. ASSUME NEW r \in Calls, CreateClient(r)
      PROVE  \/ used' = used /\ call'[q] = call[q]
             \/ /\ used' = used /\ CreateClient(q)
                /\ call[q].step = "create" /\ call'[q] = [call[q] EXCEPT !.step = "store"]
  <2>1. used' = used /\ call[r].step = "create"
    BY <1>2 DEF CreateClient
  <2>2. PICK state \in {[call[r] EXCEPT !.step = "store"], Idle} : Become(r, state)
    BY <1>2 DEF CreateClient
  <2>3. call'[q] = IF q = r THEN state ELSE call[q]
    BY <2>2 DEF Become
  <2> QED
    BY <1>2, <2>1, <2>2, <2>3
<1>3. ASSUME NEW r \in Calls, StoreConfig(r) PROVE used' = used /\ call'[q] = call[q]
  BY <1>3 DEF StoreConfig, Become
<1>4. CASE Surroundings \/ UNCHANGED vars
  BY <1>4 DEF Surroundings, vars
<1>5. CASE Crash
  BY <1>5 DEF Crash
<1>6. ASSUME NEW c \in Configs,
             RevokeConfig(c) \/ ExpireConfig(c) \/ ExpiredConfigCleanup(c) \/ ExpireCredential(c)
      PROVE  used' = used /\ call'[q] = call[q]
  BY <1>6 DEF RevokeConfig, ExpireConfig, ExpiredConfigCleanup, ExpireCredential
<1> QED
  BY <1>1, <1>2, <1>3, <1>4, <1>5, <1>6 DEF Next

\* Identifiers only grow.
LEMMA UsedGrows == ASSUME TypeOK, [Next]_vars PROVE used' >= used
<1> USE DEF TypeOK
<1>1. ASSUME NEW r \in Calls, NEW d \in Devices, NEW n \in Nodes, StartGenerate(r, d, n)
      PROVE  used' >= used
  BY <1>1, OrderAssumption DEF StartGenerate
<1>2. ASSUME NEW r \in Calls, CreateClient(r) \/ StoreConfig(r) PROVE used' = used
  BY <1>2 DEF CreateClient, StoreConfig
<1>3. ASSUME NEW c \in Configs,
             RevokeConfig(c) \/ ExpireConfig(c) \/ ExpiredConfigCleanup(c) \/ ExpireCredential(c)
      PROVE  used' = used
  BY <1>3 DEF RevokeConfig, ExpireConfig, ExpiredConfigCleanup, ExpireCredential
<1>4. CASE Surroundings \/ Crash \/ UNCHANGED vars
  BY <1>4 DEF Surroundings, Crash, vars
<1> QED
  BY <1>1, <1>2, <1>3, <1>4 DEF Next

LEMMA DrawnNext == TypeOK /\ TypeOK' /\ Drawn /\ [Next]_vars => Drawn'
<1> SUFFICES ASSUME TypeOK, TypeOK', Drawn, [Next]_vars PROVE Drawn'
  OBVIOUS
<1>1. \A q \in Calls : call[q] # Idle => call[q] \in Request /\ call[q].config \in Configs
  BY DEF TypeOK, Request
<1>2. Configs \subseteq Nat /\ used \in Nat /\ used' \in Nat /\ used' >= used
  BY UsedGrows, OrderAssumption DEF TypeOK
<1>3. ASSUME NEW q \in Calls, call'[q] # Idle
      PROVE  \/ call[q] # Idle /\ call'[q].config = call[q].config
             \/ /\ used' > used /\ call'[q].config = used'
                /\ \A r \in Calls \ {q} : call'[r] = call[r]
  <2>1. CASE call[q].step = "create" /\ call'[q] = [call[q] EXCEPT !.step = "store"]
    BY <2>1, StoreNext, RequestType
  <2> QED
    BY <1>3, <2>1, CallOrigin
<1>4. ASSUME NEW q \in Calls, call'[q] # Idle PROVE call'[q].config <= used'
  <2>1. CASE call[q] # Idle /\ call'[q].config = call[q].config
    <3>1. call[q].config \in Nat /\ call[q].config <= used
      BY <1>1, <1>2, <2>1 DEF Drawn
    <3> QED
      BY <1>2, <2>1, <3>1
  <2>2. CASE call'[q].config = used'
    BY <1>2, <2>2
  <2> QED
    BY <1>3, <1>4, <2>1, <2>2
<1>5. ASSUME NEW q \in Calls, NEW r \in Calls, q # r, call'[q] # Idle, call'[r] # Idle
      PROVE  call'[q].config # call'[r].config
  <2>1. CASE call[q] # Idle /\ call'[q].config = call[q].config
             /\ call[r] # Idle /\ call'[r].config = call[r].config
    BY <1>5, <2>1 DEF Drawn
  <2>2. ASSUME NEW x \in Calls, NEW y \in Calls, x # y, call'[y] # Idle,
               used' > used, call'[x].config = used',
               \A z \in Calls \ {x} : call'[z] = call[z]
        PROVE  call'[x].config # call'[y].config
    BY <1>1, <1>2, <2>2 DEF Drawn
  <2> QED
    BY <1>3, <1>5, <2>1, <2>2
<1>6. CASE \A r \in Calls : ~StoreConfig(r)
  <2>1. \A c \in Configs : c \in Issued' <=> c \in Issued
    BY <1>6, KeptNext DEF Kept, CredentialKept, Issued
  <2>2. \A c \in Issued' : c <= used'
    BY <1>2, <2>1 DEF Drawn, Issued
  <2>3. ASSUME NEW q \in Calls, call'[q] # Idle PROVE call'[q].config \notin Issued'
    <3>1. CASE call[q] # Idle /\ call'[q].config = call[q].config
      BY <1>1, <2>1, <3>1 DEF Drawn
    <3>2. CASE used' > used /\ call'[q].config = used'
      <4>1. used' \notin Issued
        BY <1>2, <3>2 DEF Drawn
      <4> QED
        BY <2>1, <3>2, <4>1 DEF Issued
    <3> QED
      BY <1>3, <2>3, <3>1, <3>2
  <2> QED
    BY <1>4, <1>5, <2>2, <2>3 DEF Drawn
<1>7. ASSUME NEW r \in Calls, StoreConfig(r) PROVE Drawn'
  <2> DEFINE c == call[r].config
  <2>1. call[r] # Idle /\ c \in Configs
    BY <1>7, RequestType DEF StoreConfig
  <2>2. /\ call' = [call EXCEPT ![r] = Idle]
        /\ used' = used
        /\ \A i \in Configs \ {c} : cred'[i] = cred[i]
    BY <1>7, StoreStep
  <2>3. \A i \in Issued' : i \in Issued \cup {c}
    BY <2>2 DEF Issued
  <2>4. \A i \in Issued' : i <= used'
    BY <2>1, <2>2, <2>3 DEF Drawn
  <2>5. \A q \in Calls : call'[q] # Idle => q # r /\ call'[q] = call[q]
    BY <2>2 DEF TypeOK
  <2>6. \A q \in Calls : call'[q] # Idle => call'[q].config \notin Issued'
    BY <2>1, <2>3, <2>5 DEF Drawn
  <2> QED
    BY <1>4, <1>5, <2>4, <2>6 DEF Drawn
<1> QED
  BY <1>6, <1>7

LEMMA PairedNext == TypeOK /\ TypeOK' /\ Drawn /\ Paired /\ [Next]_vars => Paired'
<1> SUFFICES ASSUME TypeOK, TypeOK', Drawn, Paired, [Next]_vars PROVE Paired'
  OBVIOUS
<1>1. CASE \A r \in Calls : ~StoreConfig(r)
  BY <1>1, KeptNext DEF Kept, CredentialKept, ConfigKept, Paired, Issued
<1>2. ASSUME NEW r \in Calls, StoreConfig(r) PROVE Paired'
  <2> DEFINE c == call[r].config
             d == call[r].device
  <2>1. c \in Configs /\ d \in Devices /\ c \notin Issued /\ c # None
    BY <1>2, RequestType, NoneAssumption DEF StoreConfig, Drawn
  <2>2. CASE UNCHANGED <<device, cred, config>>
    BY <2>2 DEF Paired, Issued
  <2>3. CASE /\ \A i \in Configs \ {c} : cred'[i] = cred[i] /\ config'[i] = config[i]
             /\ \A e \in Devices \ {d} : device'[e] = device[e]
             /\ device'[d].config = c
             /\ config'[c] = [device |-> d, status |-> "ACTIVE"] /\ config'[c] # None
             /\ cred'[c] # None /\ cred'[c].device = d
    <3>1. config'[c].device = d
      BY <2>3
    <3>2. \A i \in Configs : config'[i] = None <=> cred'[i] = None
      BY <2>3 DEF Paired
    <3>3. \A i \in Issued' : cred'[i].device = config'[i].device
      BY <2>3, <3>1 DEF Paired, Issued
    <3>4. \A e \in Devices \ {d} : device'[e].config # None =>
            device'[e].config \in Issued' /\ config'[device'[e].config].device = e
      BY <2>1, <2>3 DEF Paired, Issued
    <3>5. c \in Issued'
      BY <2>1, <2>3 DEF Issued
    <3> HIDE DEF c, d
    <3> QED
      BY <2>3, <3>1, <3>2, <3>3, <3>4, <3>5 DEF Paired
  <2> QED
    BY <1>2, <2>2, <2>3, StoreStep
<1> QED
  BY <1>1, <1>2

\* The call of the gateway came first: the adapter of a WireGuard node that renders a
\* profile calls the gateway in production.
LEMMA ToldNext == TypeOK /\ Told /\ [Next]_vars => Told'
<1> SUFFICES ASSUME TypeOK, Told, [Next]_vars, NEW q \in Calls,
                    call'[q].step = "store", node'[call'[q].node].protocol = "WIREGUARD",
                    env'.production
             PROVE  call'[q].config \in peers'[call'[q].node]
  BY DEF Told
<1>1. call'[q] # Idle
  BY DEF Idle
<1>2. /\ env' = env
      /\ \A n \in Nodes : node'[n].protocol = node[n].protocol /\ peers[n] \subseteq peers'[n]
  <2>1. CASE \E r \in Calls : StoreConfig(r)
    BY <2>1 DEF StoreConfig
  <2>2. CASE \A r \in Calls : ~StoreConfig(r)
    BY <2>2, KeptNext DEF Kept
  <2> QED
    BY <2>1, <2>2
<1>3. CASE call'[q] = call[q]
  <2>1. call[q].node \in Nodes
    BY <1>3, RequestType
  <2> QED
    BY <1>2, <1>3, <2>1 DEF Told
<1>4. CASE CreateClient(q) /\ call[q].step = "create" /\ call'[q] = [call[q] EXCEPT !.step = "store"]
  <2> DEFINE n == call[q].node
             key == AdapterKeyFor(n)
  <2>1. /\ call[q].config \in Configs /\ n \in Nodes
        /\ call'[q].node = n /\ call'[q].config = call[q].config
    BY <1>4, RequestType, StoreNext
  <2>2. env.production /\ node[n].protocol = "WIREGUARD"
    BY <1>2, <2>1
  <2>3. PICK outcome \in CreateClientOutcomes(key) :
           /\ peers' = IF outcome.told THEN [peers EXCEPT ![n] = @ \cup {call[q].config}] ELSE peers
           /\ Become(q, IF outcome.ok /\ (node[n].protocol = "WIREGUARD" => GeneratesConfig(key))
                        THEN [call[q] EXCEPT !.step = "store"] ELSE Idle)
    BY <1>4 DEF CreateClient
  <2>4. outcome.ok /\ GeneratesConfig(key)
    BY <1>1, <2>2, <2>3 DEF Become, TypeOK
  <2>5. CallsAgent(key)
    BY <2>2, <2>4 DEF GeneratesConfig, CallsAgent, AdapterKeyFor
  <2>6. outcome.told
    BY <2>4, <2>5, AnsweredIsTold
  <2> QED
    BY <2>1, <2>3, <2>6 DEF TypeOK
<1> QED
  BY <1>1, <1>3, <1>4, CallOrigin

LEMMA UsableNext ==
  TypeOK /\ TypeOK' /\ Drawn /\ Paired /\ Told /\ IssuedIsUsable /\ [Next]_vars => IssuedIsUsable'
<1> SUFFICES ASSUME TypeOK, TypeOK', Drawn, Paired, Told, IssuedIsUsable, [Next]_vars
             PROVE  IssuedIsUsable'
  OBVIOUS
<1> USE DEF IssuedIsUsable
<1>1. CASE \A r \in Calls : ~StoreConfig(r)
  <2>1. Kept
    BY <1>1, KeptNext
  <2>2. \A c \in Configs : /\ c \in Issued' <=> c \in Issued
                           /\ c \in Issued => /\ cred'[c].host = cred[c].host
                                              /\ cred'[c].kind = cred[c].kind
    BY <2>1 DEF Kept, CredentialKept, Issued
  <2>3. AddressesApart'
    BY <2>2 DEF AddressesApart, Issued
  <2>4. PeerBeforeCredential'
    BY <2>1, <2>2 DEF Kept, PeerBeforeCredential, Issued
  <2> QED
    BY <2>3, <2>4
<1>2. ASSUME NEW r \in Calls, StoreConfig(r) PROVE IssuedIsUsable'
  <2> DEFINE c == call[r].config
             d == call[r].device
             n == call[r].node
  <2>1. c \in Configs /\ d \in Devices /\ n \in Nodes /\ c \notin Issued /\ call[r].step = "store"
    BY <1>2, RequestType DEF StoreConfig, Drawn
  <2>2. UNCHANGED <<env, node, peers>>
    BY <1>2 DEF StoreConfig
  <2>3. CASE UNCHANGED <<device, cred, config>>
    BY <2>2, <2>3 DEF AddressesApart, PeerBeforeCredential, Issued
  <2>4. CASE /\ \A i \in Configs \ {c} : cred'[i] = cred[i]
             /\ cred'[c] # None
             /\ cred'[c].kind = "WIREGUARD_KEYPAIR" <=> node[n].protocol = "WIREGUARD"
             /\ cred'[c].host # None => ~Held(cred'[c].host)
    <3>1. \A i \in Issued' : i = c \/ (i \in Issued /\ cred'[i] = cred[i])
      BY <2>4 DEF Issued
    <3>2. \A i \in Issued : cred'[c].host # None => cred[i].host # cred'[c].host
      BY <2>4 DEF Held
    <3>3. AddressesApart'
      <4> HIDE DEF c
      <4> QED
        BY <3>1, <3>2 DEF AddressesApart
    <3>4. cred'[c].kind = "WIREGUARD_KEYPAIR" /\ env.production => c \in peers[n]
      BY <2>1, <2>4 DEF Told
    <3>5. PeerBeforeCredential'
      <4> HIDE DEF c, n
      <4> QED
        BY <2>1, <2>2, <3>1, <3>4 DEF PeerBeforeCredential
    <3> QED
      BY <3>3, <3>5
  <2> QED
    BY <1>2, <2>3, <2>4, StoreStep
<1> QED
  BY <1>1, <1>2

LEMMA CutsNext ==
  TypeOK /\ TypeOK' /\ Drawn /\ Paired /\ RevocationCuts /\ [Next]_vars => RevocationCuts'
<1> SUFFICES ASSUME TypeOK, TypeOK', Drawn, Paired, RevocationCuts, [Next]_vars,
                    NEW c \in Configs, config'[c] # None, config'[c].status = "REVOKED"
             PROVE  cred'[c].revoked /\ \A d \in Devices : device'[d].config # c
  BY DEF RevocationCuts
<1>0. c # None
  BY NoneAssumption
<1>1. ASSUME config[c] # None, config[c].status = "REVOKED", \A r \in Calls : ~StoreConfig(r)
      PROVE  cred'[c].revoked /\ \A d \in Devices : device'[d].config # c
  <2>1. cred[c].revoked /\ cred[c] # None /\ \A d \in Devices : device[d].config # c
    BY <1>1 DEF RevocationCuts, Paired
  <2> QED
    BY <1>0, <1>1, <2>1, KeptNext DEF Kept, CredentialKept
<1>2. ASSUME NEW r \in Calls, StoreConfig(r)
      PROVE  cred'[c].revoked /\ \A d \in Devices : device'[d].config # c
  <2>1. CASE UNCHANGED <<device, cred, config>>
    BY <2>1 DEF RevocationCuts
  <2>2. CASE /\ \A i \in Configs \ {call[r].config} : cred'[i] = cred[i] /\ config'[i] = config[i]
             /\ \A e \in Devices \ {call[r].device} : device'[e] = device[e]
             /\ device'[call[r].device].config = call[r].config
             /\ config'[call[r].config] = [device |-> call[r].device, status |-> "ACTIVE"]
    <3>1. c # call[r].config
      BY <2>2
    <3> QED
      BY <2>2, <3>1 DEF RevocationCuts
  <2> QED
    BY <1>2, <2>1, <2>2, StoreStep
<1>3. ASSUME NEW i \in Configs, NEW status \in Statuses \ {"REVOKED"}, config[i] # None,
             config' = [config EXCEPT ![i].status = status]
      PROVE  config[c] # None /\ config[c].status = "REVOKED"
  BY <1>3, StatusType DEF TypeOK
<1>4. ASSUME NEW i \in Configs, ExpireConfig(i) \/ ExpiredConfigCleanup(i)
      PROVE  config[c] # None /\ config[c].status = "REVOKED"
  BY <1>3, <1>4 DEF ExpireConfig, ExpiredConfigCleanup, Statuses
<1>5. ASSUME NEW i \in Configs, RevokeConfig(i), config[c] = None \/ config[c].status # "REVOKED"
      PROVE  cred'[c].revoked /\ \A d \in Devices : device'[d].config # c
  <2>1. c = i /\ config[c] # None
    BY <1>5 DEF RevokeConfig, TypeOK
  <2>2. cred[c] \in Credential /\ cred[c].device = config[c].device
    BY <2>1 DEF Paired, Issued, TypeOK
  <2>3. cred'[c].revoked
    BY <1>5, <2>1, <2>2, RevokedType, NoneAssumption DEF RevokeConfig
  <2>4. \A d \in Devices : device[d].config = c => d = config[c].device
    BY <1>0 DEF Paired
  <2>5. device' = [device EXCEPT ![config[c].device].config = None]
    BY <1>5, <2>1 DEF RevokeConfig, Unassign
  <2> QED
    BY <1>0, <2>3, <2>4, <2>5 DEF TypeOK
<1>6. ASSUME NEW r \in Calls,
             CreateClient(r) \/ \E d \in Devices, n \in Nodes : StartGenerate(r, d, n)
      PROVE  config' = config
  BY <1>6 DEF CreateClient, StartGenerate
<1>7. ASSUME config' = config PROVE config[c] # None /\ config[c].status = "REVOKED"
  BY <1>7
<1> QED
  BY <1>1, <1>2, <1>4, <1>5, <1>6, <1>7 DEF Next, Surroundings, Crash, ExpireCredential, vars

LEMMA SoundNext == TypeOK /\ TypeOK' /\ Sound /\ [Next]_vars => Sound'
BY DrawnNext, PairedNext, ToldNext, UsableNext, CutsNext DEF Sound

\* Whatever calls failed, crossed or were repeated, a file that was handed out can be used:
\* no other file carries its address, and in production its gateway was told of its peer.
THEOREM IssuedUsable == Spec => []IssuedIsUsable
<1>1. Sound => IssuedIsUsable
  BY DEF Sound
<1> QED
  BY <1>1, TypeCorrect, SoundInit, SoundNext, PTL DEF Spec

\* A configuration shown as revoked has no live credential and is nobody's assignment,
\* whatever was being generated when it was revoked.
THEOREM RevokedIsCut == Spec => []RevocationCuts
<1>1. Sound => RevocationCuts
  BY DEF Sound
<1> QED
  BY <1>1, TypeCorrect, SoundInit, SoundNext, PTL DEF Spec
=============================================================================
