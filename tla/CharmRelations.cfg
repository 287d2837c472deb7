SPECIFICATION FairSpec
CONSTANTS
    Units = {u1}
    Gateways = {g1, g2}
    DefaultGateway = DefaultGateway
    NoData = NoData
    NoPlan = NoPlan
    NoEvent = NoEvent
    Limit <- RelationLimit
INVARIANTS PlanNeverMixed SettledModeAgrees
PROPERTIES Converges TrustImplemented
CHECK_DEADLOCK FALSE
