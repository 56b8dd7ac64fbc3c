SPECIFICATION Spec
CONSTANTS
    m1 = m1
    m2 = m2
    m3 = m3
    m4 = m4
    r1 = r1
    r2 = r2
    s1 = s1
    s2 = s2
    phone = phone
    Msgs = {m1, m2, m3, m4}
    Sims = {s1, s2}
    Gateways = {phone}
    GatewayOf <- MCGatewayOf
    Rated = {phone}
    FleetOrder <- MCFleetOrder
    Priority <- MCPriority
    Recipients = {r1, r2}
    RecipientOf <- MCRecipientOf
    Permits <- MCPermits
    Limited = {s1}
    RecipientLimit = 1
    MaxInFlight <- MCMaxInFlight
    MaxAttempts = 1
    Strategies = {"sequential", "spread"}
    Workers = {w1, w2}
    Flaky = {s2}
    MaxUpsets = 1
    NoMsg = NoMsg
    NoSim = NoSim
SYMMETRY MCSymmetry
INVARIANTS TypeOK ClaimsExact InFlightBounded OnePerWindow
 
CHECK_DEADLOCK FALSE
