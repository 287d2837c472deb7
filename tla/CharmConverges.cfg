SPECIFICATION FairSpec
CONSTANTS
    Units = {u1, u2}
    Gateways = {g1}
    DefaultGateway = DefaultGateway
    NoData = NoData
    NoPlan = NoPlan
    NoEvent = NoEvent
    Limit <- SharedLimit
PROPERTIES Converges
CHECK_DEADLOCK FALSE
