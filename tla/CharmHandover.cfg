SPECIFICATION Spec
CONSTANTS
    Units = {u1, u2}
    Gateways = {g1}
    DefaultGateway = DefaultGateway
    NoData = NoData
    NoPlan = NoPlan
    NoEvent = NoEvent
    Limit <- HandoverLimit
SYMMETRY Symmetry
INVARIANTS TypeOK TrustAtActive CertificatesOwn
PROPERTIES LeaderOnlyWrites
CHECK_DEADLOCK FALSE
