SPECIFICATION FairSpec
CONSTANTS
    Msgs = {m1}
    Sims = {s1, s2, s3}
    Gateways <- MCGateways
    GatewayOf <- MCGatewayOf
    Recipients <- MCRecipients
    RecipientOf <- MCRecipientOf
    RecipientLimit = 1
    MaxAttempts = 2
    Workers = {w1,w2}
    Subscribed = {"sent", "delivered", "failed"}
    Cancels = {}
    Deadlined = {}
    Faults = {"restart"}
    MaxFaults = 2
    SamePhone = {s1, s2}
    NoSim = NoSim
    NoMsg = NoMsg
INVARIANTS
    OutcomePublished
PROPERTIES
    KeepsContract
CHECK_DEADLOCK FALSE
