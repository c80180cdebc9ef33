SPECIFICATION Spec
CONSTANTS
    g1 = g1
    g2 = g2
    Gateways = {g1, g2}
    Shared = redis
    Payloads <- Bodies
    LimitMinute = 4
    LimitDay = 5
    Lites = {TRUE, FALSE}
    MaxBodies = 2
    MaxPosts = 3
    MaxMinute = 1
    MaxFaults = 1
SYMMETRY GatewaySymmetry
INVARIANT AckedStored CountersHold TwiceOnlyAcrossSoft
CHECK_DEADLOCK FALSE
