----------------------------- MODULE MCRouting -----------------------------
(* Routing's operators, against what the code says of them, on small inputs. *)
EXTENDS Routing, Sequences

Sample(a, b, c, d) == [latency |-> a, jitter |-> Unmeasured, loss |-> b, cpu |-> c, ram |-> d]
Samples == {Sample(a, b, c, 10) : a \in {Unmeasured, 40}, b \in {Unmeasured, 0, 3}, c \in {Unmeasured, 70}}
Histories == {<< >>} \cup {<<x>> : x \in Samples} \cup {<<Sample(Unmeasured, 0, Unmeasured, Unmeasured), x>> : x \in Samples}

NodeOf(history, cpu, sessions) ==
  [samples |-> history, cpu |-> cpu, ram |-> Unmeasured, activeSessions |-> sessions[1], maxSessions |-> sessions[2],
   id |-> "node", status |-> "ONLINE", health |-> "ONLINE", maintenance |-> FALSE, draining |-> FALSE, poolEnabled |-> TRUE]
SampleNodes == {NodeOf(history, cpu, sessions) : history \in Histories, cpu \in {Unmeasured, 20},
                                                 sessions \in {<<1, Unmeasured>>, <<1, 2>>, <<3, 2>>, <<0, 0>>}}

Even == [key \in Metrics |-> 1]
SampleWeights == {Even, [Even EXCEPT !["packetLoss"] = 0, !["load"] = 7], [key \in Metrics |-> IF key = "jitter" THEN 2 ELSE 0]}

\* A score is a mean of the metrics that were measured and have a weight: it lies between
\* the worst and the best of them, to the rounding (rule 1 of score.ts).
ASSUME ScoreIsMean ==
  \A node \in SampleNodes, weights \in SampleWeights :
    LET score == RouteScore(node, weights)
        counted == {key \in Available(MetricInputs(node)) : weights[key] > 0}
        Parts(key) == Normalize(key, MetricInputs(node)[key], node) IN
    IF counted = {} THEN score = Unmeasured
    ELSE /\ \E key \in counted : Full(node) * (score - 1) <= 1000 * Parts(key)
         /\ \E key \in counted : Full(node) * (score + 1) >= 1000 * Parts(key)

\* The goodness of a figure goes from all points to none between the best and the unusable.
ASSUME GoodnessFalls ==
  \A node \in SampleNodes :
    /\ \A key \in {"latency", "jitter", "packetLoss"} :
         /\ Normalize(key, 0, node) = Full(node) /\ Normalize(key, 150, node) = 0
         /\ \A value \in 0 .. 4 : Normalize(key, value, node) > Normalize(key, value + 1, node)
    /\ Normalize("stability", 96, node) = Full(node) /\ Normalize("stability", 0, node) = 0

\* "An unavailable metric neither inflates nor deflates the result": the score is the one
\* that a weight of zero would give.
ASSUME UnmeasuredIsNeutral ==
  \A node \in SampleNodes, weights \in SampleWeights : \A key \in Metrics \ Available(MetricInputs(node)) :
    RouteScore(node, weights) = RouteScore(node, [weights EXCEPT ![key] = 0])

\* The score knows only the proportions of the weights; what it is out of is always 100.
ASSUME WeightsAreProportions ==
  \A node \in SampleNodes, weights \in SampleWeights :
    RouteScore(node, weights) = RouteScore(node, [key \in Metrics |-> 3 * weights[key]])

\* A node that reports a worse figure than it did, where it goes on reporting one, never
\* takes a new session that it would not have got before.
ASSUME WorseNeverWins ==
  \A node, other \in {n \in SampleNodes : Len(n.samples) = 1 /\ n.cpu = 20 /\ n.maxSessions # 0} :
    \A column \in {c \in {"latency", "loss"} : node.samples[1][c] # Unmeasured} :
      LET Choice(a) == SelectNodeForNewSession(<<[a EXCEPT !.id = "a"], [other EXCEPT !.id = "b"]>>, Even, TRUE, {})
          worse == [node EXCEPT !.samples = <<[@[1] EXCEPT ![column] = @ + 1]>>] IN
      Choice(worse) = "a" => Choice(node) = "a"

\* What an operator saves is what the next score uses, for the weights that were given; a
\* choice never falls on a node that is excluded, and there is none in MANUAL mode.
ASSUME ChoiceIsAllowed ==
  \A node \in SampleNodes, auto \in BOOLEAN, excluded \in SUBSET {"node", "late"} :
    LET late == [node EXCEPT !.id = "late", !.samples = << >>]
        weights == SetRoutingWeights([load |-> 0]) IN
    /\ weights["load"] = 0 /\ weights["latency"] = 30
    /\ SelectNodeForNewSession(<<node, late>>, Even, auto, excluded)
         \in {Unmeasured} \cup (IF auto THEN {"node", "late"} \ excluded ELSE {})
    /\ SelectNodeForNewSession(<<[node EXCEPT !.health = "OFFLINE"]>>, Even, auto, excluded) = Unmeasured
=============================================================================
