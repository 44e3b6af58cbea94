-------------------------- MODULE MCAutomationLease --------------------------
(* The instance of AutomationLease for TLC is all in its configuration. *)
EXTENDS AutomationLease
=============================================================================
