CONSTANTS
    n1 = n1
    n2 = n2
    n3 = n3
    k1 = k1
    k2 = k2
    NoId = NoId
    Nodes = {n1, n2, n3}
    DefaultRead <- Home
    DefaultWrite <- Home
    Requested <- SomeTargets
    Limits = {1, 10}
    Lists <- UpToTwo
    K = 60
    Scale = 238266
    Requests = {r1, r2, r3}
    Credentials = {c1, c2}
    Sids = {s1, s2, s3}
    MaxInFlight = 2
    MaxSessions = 1
    MaxChanges = 1
SPECIFICATION Spec
INVARIANTS SlotsAndSessions ToldMeansKept FusedIsReference
PROPERTIES RightsHoldWhenUsed
SYMMETRY Interchangeable
CHECK_DEADLOCK FALSE
