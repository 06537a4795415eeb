\* Group push under k8s discovery, every gateway RPC answering: offline coverage.
CONSTANTS
    u1 = u1  u2 = u2  u3 = u3  g1 = g1  g2 = g2  g3 = g3
    Users <- MC_Users
    Gateways <- MC_TwoGateways
    Sender = u1
    SessionTypes = {"group"}
    Discoveries = {"k8s"}
    ContentTypes = {"Text"}
    NotificationConf <- MC_NotificationConf
    MaxConcurrentWorkers = 2
    GatewayFailures = FALSE
SPECIFICATION Spec
SYMMETRY MC_Symmetry
INVARIANT OfflineCoverage
\* One call of Push2User / Push2SuperGroup returns: its end state is final.
CHECK_DEADLOCK FALSE
