SPECIFICATION Spec
CONSTANTS
    Units = {u1, u2}
    Gateways = {g1}
    DefaultGateway = DefaultGateway
    NoData = NoData
    NoPlan = NoPlan
    NoEvent = NoEvent
    Limit <- RemovalLimit
SYMMETRY Symmetry
PROPERTIES PoliciesRemovedWithCharm
CHECK_DEADLOCK FALSE
