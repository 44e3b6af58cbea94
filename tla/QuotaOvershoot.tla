--------------------------- MODULE QuotaOvershoot ---------------------------
(***************************************************************************)
(* DeviceEnforcement with a history of the quotas that an operator has let *)
(* be overrun, and how far the others can be.                              *)
(***************************************************************************)
EXTENDS DeviceEnforcement

VARIABLE waived   \* quotas whose limit was changed, whose device was unblocked, or all

\* A limit replaced, a device released without its quota, enforcement switched.
Waives(q) ==
  \/ quota[q].exists /\ <<quota[q].limit, quota[q].enabled>> # <<quota'[q].limit, quota'[q].enabled>>
  \/ q \in Devices /\ device[q].over /\ ~device'[q].over /\ quota'[q].exceeded
  \/ enforcing # enforcing'

WatchedInit == Init /\ waived = {}
WatchedNext == Next /\ waived' = waived \cup {q \in Quotas : Waives(q)}

WatchedSpec == WatchedInit /\ [][WatchedNext]_<<vars, waived>>

\* A quota is overrun only by batches that were in flight when the limit was reached,
\* one report each, and by those whose enforcement failed, until an operator lets it be
\* (recordUsage, ingest).
Overshoot(q) ==
  quota[q].enabled /\ quota[q].limit > 0
    => quota[q].used < quota[q].limit + Cardinality(Ingests) + faults
BoundedOvershoot == \A q \in (Quotas \cap Devices) \ waived : Overshoot(q)
=============================================================================
