--------------------------- MODULE MCNodeLifecycle ---------------------------
(* A small instance of NodeLifecycle for TLC, with the checks of the score that *)
(* places new sessions on the nodes. *)
EXTENDS NodeLifecycle, MCRouting

\* Everything that decides who a node is, whether it may report, and whether it is taken
\* for alive; the other drains write the columns of startDrain.
LifeOperations ==
  {"register", "heartbeat", "healthcheck", "approve", "reject", "rotate", "revoke", "remove",
   "startDrain", "maintenanceOn", "markDegraded"}
=============================================================================
