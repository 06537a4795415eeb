\* Push2User and Push2SuperGroup under both discovery modes, three gateways and a limit of two RPC goroutines.
CONSTANTS
    u1 = u1  u2 = u2  u3 = u3  g1 = g1  g2 = g2  g3 = g3
    Users <- MC_TwoUsers
    Gateways <- MC_ThreeGateways
    Sender = u1
    SessionTypes = {"single", "group"}
    Discoveries = {"k8s", "zookeeper"}
    ContentTypes = {"Text", "Typing", "Signaling", "MemberKicked", "GroupDismissed"}
    NotificationConf <- MC_NotificationConf
    MaxConcurrentWorkers = 2
    GatewayFailures = TRUE
SPECIFICATION Spec
INVARIANT TypeOK
INVARIANT NoOfflineForDelivered
INVARIANT OfflineCoverageGroupZk
PROPERTY Termination
\* One call of Push2User / Push2SuperGroup returns: its end state is final.
CHECK_DEADLOCK FALSE
