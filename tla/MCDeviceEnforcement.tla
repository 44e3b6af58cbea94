-------------------------- MODULE MCDeviceEnforcement --------------------------
(* A small instance of DeviceEnforcement for TLC, watched for quotas that are overrun. *)
EXTENDS QuotaOvershoot

MCSpec == WatchedSpec /\ Fairness
=============================================================================
