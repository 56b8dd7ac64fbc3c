SPECIFICATION FairSpec
CONSTANTS
    Msgs = {m1}
    Sims = {s1, s2}
    Gateways <- MCGateways
    GatewayOf <- MCGatewayOf
    Recipients <- MCRecipients
    RecipientOf <- MCRecipientOf
    RecipientLimit = 1
    MaxAttempts = 2
    Workers = {w1}
    Subscribed = {}
    Cancels = {m1}
    Deadlined = {m1}
    Faults = {"restart", "socket_gone"}
    MaxFaults = 1
    SamePhone = {}
    NoSim = NoSim
    NoMsg = NoMsg
PROPERTIES
    Settles
CHECK_DEADLOCK FALSE
