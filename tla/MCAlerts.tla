----------------------------- MODULE MCAlerts -----------------------------
EXTENDS Alerts

CONSTANTS q1, n1

Fact(name, subject, level, amount) == [name |-> name, subject |-> subject, level |-> level, amount |-> amount]

MCFacts == {Fact("quota.warning", q1, "80", 8), Fact("policy.triggered", n1, "dry", 5), Fact("policy.triggered", n1, "applied", 5)}

Quiet == [recentBuckets |-> 2, recentBytes |-> 10, upload |-> 5, baselineBuckets |-> 2, baselineBytes |-> 10, starts |-> 1,
          connections |-> <<>>, quota |-> None]
MCDeviceReadings == {
  [Quiet EXCEPT !.recentBytes = 80, !.upload = 80],
  [Quiet EXCEPT !.connections = <<9, 9, 400, 9, 9, 9, 9>>]}
MCNodeReadings == {[id |-> 1, cpu |-> 99, ram |-> 10, loss |-> 0]}
MCLoginReadings == {20}

RunSymmetry == Permutations(Runs)
===========================================================================
