SPECIFICATION Spec
CONSTANTS
    Msgs = {m1, m2}
    Sims = {s1, s2}
    Gateways <- MCGateways
    GatewayOf <- MCGatewayOf
    Recipients <- MCRecipients
    RecipientOf <- MCRecipientOf
    RecipientLimit = 1
    MaxAttempts = 2
    Workers = {w1}
    Subscribed = {}
    Cancels = {}
    Deadlined = {}
    Faults = {}
    MaxFaults = 0
    SamePhone = {}
    NoSim = NoSim
    NoMsg = NoMsg
SYMMETRY MCSymmetry
INVARIANTS
    LateSuccessKept
    SendsCountedOnce
    CountedWhereSent
    UnusedSlotReturned
PROPERTIES
    RevivedOnlyByProof
CHECK_DEADLOCK FALSE
