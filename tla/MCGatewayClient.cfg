CONSTANTS
    Gateways = {g1, g2}
    Ports = {19288, 50001}
    PreferredPort = 19288
    Stops = {s1}
    None = None
    MaxRestarts = 1
    SlowStart = FALSE
    Chats = {c1}
    MaxText = 1
SPECIFICATION ClientSpec
INVARIANTS
    ClientTypeOK
    ConnectionIsWatched
    StoppedStaysStopped
    ClientFollowsTheGateway
    StreamsAreWhole
PROPERTIES
    EveryExitIsActedOn
    EveryChatEnds
CHECK_DEADLOCK FALSE
