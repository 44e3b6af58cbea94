--------------------------- MODULE MCTrafficBuffer ---------------------------
(* Small instances of TrafficBuffer for TLC. *)
EXTENDS TrafficBuffer, TLC

CONSTANTS s1, s2, s3, system, device, systemRecord, deviceRecord

\* Two samples of a device and one that no device claims; the system row has all.
SampleRows == s1 :> {system, device} @@ s2 :> {system} @@ s3 :> {system, device}

\* The device has no owner: a system row that begins with one of its samples goes to the
\* record of the device, where the device's own row goes as well.
SharedRecords ==
  [r \in Rows |-> [s \in Samples |-> IF s = s2 THEN systemRecord ELSE deviceRecord]]

\* Replicas differ in name only: the one that s1 is reported to may as well be this one.
First == CHOOSE p \in Processes : TRUE
ReplicasAreNamed == s1 \in arrived' \ arrived => pending'[First] # pending[First]

MCSpec ==
  /\ Init /\ [][Next /\ ReplicasAreNamed]_vars
  /\ \A p \in Processes : WF_vars(Flush(p)) /\ WF_vars(FlushStep(p))
=============================================================================
