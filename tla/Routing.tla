------------------------------ MODULE Routing ------------------------------
(***************************************************************************)
(* The routing score of a node and the recommendation for a new session    *)
(* (src/server/routing/score.ts).  Nothing here has state: the operators   *)
(* are functions of the rows that getRoutingState reads.                   *)
(*                                                                         *)
(* A number is a whole number of the unit that the agent reports it in.    *)
(* The goodness of a metric is a whole number of parts of Full, which all  *)
(* the divisions of the code divide, so that scores compare as the         *)
(* fractions they stand for; what floating point makes of a tie is not     *)
(* modelled.                                                               *)
(***************************************************************************)
EXTENDS Integers, FiniteSets, TLC

CONSTANT Unmeasured   \* what null is to a figure, a score and a choice

Metrics == {"latency", "jitter", "packetLoss", "load", "stability", "capacity"}

DefaultRoutingWeights ==
  [latency |-> 30, jitter |-> 10, packetLoss |-> 25, load |-> 20, stability |-> 10, capacity |-> 5]

\* PATCH /api/routing: what is not given falls back to its default, whatever was stored.
SetRoutingWeights(given) == given @@ DefaultRoutingWeights

-----------------------------------------------------------------------------
(* What is measured.  A node has the samples of its last day, newest first, *)
(* and its row: the load and the sessions that its last heartbeat reported. *)

Reported(samples, column) == {i \in DOMAIN samples : samples[i][column] # Unmeasured}

\* The newest sample that carries the figure.
Newest(samples, column) ==
  LET reported == Reported(samples, column) IN
  IF reported = {} THEN Unmeasured
  ELSE samples[CHOOSE i \in reported : \A j \in reported : i <= j][column]

OrElse(value, fallback) == IF value # Unmeasured THEN value ELSE fallback

\* In halves of a percent: the mean of CPU and memory, or the one there is.
Load(node) ==
  LET cpu == OrElse(Newest(node.samples, "cpu"), node.cpu)
      ram == OrElse(Newest(node.samples, "ram"), node.ram) IN
  IF cpu # Unmeasured /\ ram # Unmeasured THEN cpu + ram
  ELSE IF cpu # Unmeasured THEN 2 * cpu
  ELSE IF ram # Unmeasured THEN 2 * ram
  ELSE Unmeasured

HasCapacity(node) == node.maxSessions # Unmeasured /\ node.maxSessions > 0

\* metricInputs: stability in samples, capacity in free sessions.
MetricInputs(node) ==
  [latency |-> Newest(node.samples, "latency"),
   jitter |-> Newest(node.samples, "jitter"),
   packetLoss |-> Newest(node.samples, "loss"),
   load |-> Load(node),
   stability |-> IF node.samples = << >> THEN Unmeasured ELSE Cardinality(DOMAIN node.samples),
   capacity |-> IF HasCapacity(node) THEN node.maxSessions - node.activeSessions ELSE Unmeasured]

-----------------------------------------------------------------------------
(* The score. *)

\* A hundred points.
Full(node) == 2400 * IF HasCapacity(node) THEN node.maxSessions ELSE 1

Clamp(parts, full) == IF parts < 0 THEN 0 ELSE IF parts > full THEN full ELSE parts

LowerIsBetter(value, unusableAt, full) == Clamp((full \div unusableAt) * (unusableAt - value), full)

\* An agent is expected to leave 96 samples a day.
Normalize(key, value, node) ==
  LET full == Full(node) IN
  CASE key = "latency" -> LowerIsBetter(value, 150, full)
    [] key = "jitter" -> LowerIsBetter(value, 30, full)
    [] key = "packetLoss" -> LowerIsBetter(value, 5, full)
    [] key = "load" -> LowerIsBetter(value, 200, full)
    [] key = "stability" -> Clamp((full \div 96) * value, full)
    [] key = "capacity" -> Clamp((full \div node.maxSessions) * value, full)

Available(inputs) == {key \in Metrics : inputs[key] # Unmeasured}

SumOver(value) ==
  value["latency"] + value["jitter"] + value["packetLoss"] + value["load"] + value["stability"] + value["capacity"]

\* Only the weight that could be measured is in the denominator.
AvailableWeight(inputs, weights) ==
  SumOver([key \in Metrics |-> IF key \in Available(inputs) THEN weights[key] ELSE 0])

RawContribution(node, inputs, weights) ==
  SumOver([key \in Metrics |-> IF key \in Available(inputs)
                                THEN weights[key] * Normalize(key, inputs[key], node) ELSE 0])

\* In tenths of a point, rounded half up.
RouteScore(node, weights) ==
  LET inputs == MetricInputs(node)
      available == Full(node) * AvailableWeight(inputs, weights) IN
  IF available = 0 THEN Unmeasured
  ELSE (2000 * RawContribution(node, inputs, weights) + available) \div (2 * available)

\* Below half of a hundred, whatever the weights add up to.
LowConfidence(node, weights) ==
  LET measured == AvailableWeight(MetricInputs(node), weights) IN measured > 0 /\ 2 * measured < 100

-----------------------------------------------------------------------------
(* The choice.  Nodes come in the order of their names. *)

\* The health is the one derived from the last heartbeat, not the stored one.
Eligible(node, weights) ==
  /\ node.status = "ONLINE"
  /\ node.health \notin {"OFFLINE", "UNKNOWN"}
  /\ ~node.maintenance /\ ~node.draining
  /\ node.poolEnabled
  /\ RouteScore(node, weights) # Unmeasured

Candidates(nodes, weights, excluded) ==
  {i \in DOMAIN nodes : Eligible(nodes[i], weights) /\ nodes[i].id \notin excluded}

\* The first of the highest scores; the sort is stable.
Best(nodes, candidates, weights) ==
  CHOOSE i \in candidates : \A j \in candidates :
    LET left == RouteScore(nodes[i], weights)
        right == RouteScore(nodes[j], weights) IN
    left > right \/ (left = right /\ i <= j)

\* The recommendation of getRoutingState excludes nothing.
SelectNodeForNewSession(nodes, weights, autoSelectionEnabled, excluded) ==
  LET candidates == Candidates(nodes, weights, excluded) IN
  IF ~autoSelectionEnabled \/ candidates = {} THEN Unmeasured
  ELSE nodes[Best(nodes, candidates, weights)].id
=============================================================================
