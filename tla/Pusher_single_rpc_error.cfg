\* Push2User under zookeeper discovery with gateway RPCs that may fail: offline coverage.
CONSTANTS
    u1 = u1  u2 = u2  u3 = u3  g1 = g1  g2 = g2  g3 = g3
    Users <- MC_Users
    Gateways <- MC_TwoGateways
    Sender = u1
    SessionTypes = {"single"}
    Discoveries = {"zookeeper"}
    ContentTypes = {"Text"}
    NotificationConf <- MC_NotificationConf
    MaxConcurrentWorkers = 2
    GatewayFailures = TRUE
SPECIFICATION Spec
SYMMETRY MC_Symmetry
INVARIANT OfflineCoverage
\* One call of Push2User / Push2SuperGroup returns: its end state is final.
CHECK_DEADLOCK FALSE
