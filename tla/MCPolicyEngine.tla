-------------------------- MODULE MCPolicyEngine --------------------------
EXTENDS PolicyEngine

MCHome == [e \in Evaluators |-> CHOOSE h \in Processes : TRUE]

Policy(kind, metric, action, cooldown) ==
  [kind |-> kind, metric |-> metric, operator |-> "GTE", value |-> 1, action |-> action,
   disconnect |-> FALSE, cooldown |-> cooldown, dryRun |-> FALSE]

\* A notice on each metric, each action on one metric, and the flags and operators once.
MCDrafts ==
  {Policy("DEVICE", metric, "NOTIFY", 2) : metric \in {"QUOTA_PERCENT", "TRAFFIC_SPIKE_FACTOR"}}
  \cup {Policy("DEVICE", "DEVICE_CONNECTIONS", action, 2) : action \in DeviceActions}
  \cup {Policy("NODE", "NODE_ACTIVE_SESSIONS", action, 0) : action \in NodeActions}
  \cup {Policy("SYSTEM", "AUTH_FAILURES", "REQUEST_REPORT", 2),
        Policy("NODE", "NODE_LATENCY_MS", "CREATE_ANOMALY_EVENT", 2),
        Policy("DEVICE", "DEVICE_RECONNECTS", "CREATE_ANOMALY_EVENT", 0),
        [Policy("DEVICE", "DEVICE_UPLOAD_BYTES_PER_HOUR", "NOTIFY", 2) EXCEPT !.operator = "LT"],
        [Policy("NODE", "NODE_CPU_PERCENT", "DRAIN_NODE", 2) EXCEPT !.operator = "NEQ", !.disconnect = TRUE],
        [Policy("NODE", "NODE_PACKET_LOSS_PCT", "QUOTA_WARNING", 2) EXCEPT !.operator = "LTE", !.value = 0],
        [Policy("DEVICE", "DEVICE_BLOCKED", "NOTIFY", 2) EXCEPT !.operator = "GT", !.dryRun = TRUE],
        [Policy("SYSTEM", "BUDGET_PERCENT", "NOTIFY", 2) EXCEPT !.operator = "EQ", !.value = 100]}
============================================================================
