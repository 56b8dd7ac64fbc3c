SPECIFICATION Spec
CONSTANTS
    Msgs = {m1}
    Sims = {s1, s2, s3}
    Gateways <- MCGateways
    GatewayOf <- MCGatewayOf
    Recipients <- MCRecipients
    RecipientOf <- MCRecipientOf
    RecipientLimit = 1
    MaxAttempts = 2
    Workers = {w1, w2}
    Subscribed = {}
    Cancels = {m1}
    Deadlined = {m1}
    Faults = {"restart", "socket_gone"}
    MaxFaults = 2
    SamePhone = {s1, s2}
    NoSim = NoSim
    NoMsg = NoMsg
SYMMETRY MCWorkerSymmetry
INVARIANTS
    TypeOK
    HeldByItsAttempt
    OneHandOffPerSim
    CopiesWithinBudget
    InFlightHasBody
PROPERTIES
    LeaseRespected
CHECK_DEADLOCK FALSE
