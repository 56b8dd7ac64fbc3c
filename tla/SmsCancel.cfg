SPECIFICATION Spec
CONSTANTS
    Msgs = {m1}
    Sims = {s1, s2, s3}
    Gateways <- MCGateways
    GatewayOf <- MCGatewayOf
    Recipients <- MCRecipients
    RecipientOf <- MCRecipientOf
    RecipientLimit = 1
    MaxAttempts = 2
    Workers = {w1}
    Subscribed = {}
    Cancels = {m1}
    Deadlined = {}
    Faults = {}
    MaxFaults = 0
    SamePhone = {}
    NoSim = NoSim
    NoMsg = NoMsg
INVARIANTS
    CancelledNeverSent
CHECK_DEADLOCK FALSE
