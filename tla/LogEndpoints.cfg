SPECIFICATION FairSpec
CONSTANTS
    a0 = a0
    a1 = a1
    b0 = b0
    ra = ra
    rb = rb
    Units = {u1}
    Lokis = {a0, a1, b0}
    Relations = {ra, rb}
    RelationOf <- MCRelationOf
    Urls = {url1, url2}
    NoUrl = NoUrl
    Removed = Removed
    Unset = Unset
    NoEvent = NoEvent
    NoLeader = NoLeader
    Limit <- EndpointsLimit
INVARIANTS TypeOK ForwardingCurrent AlertRulesSent
PROPERTIES EventuallyForwards
CHECK_DEADLOCK FALSE
