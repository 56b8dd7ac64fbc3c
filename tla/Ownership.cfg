SPECIFICATION Spec
CONSTANTS
    t1 = t1
    Devices = {d1}
    Tenants = {t1, t2}
    Msgs = {m1}
    TenantOf <- MCTenantOf
    Nodes = {n1, n2}
    Requests = {r1, r2}
    MaxChanges = 3
    MaxUpsets = 1
    NoDevice = NoDevice
    NoTenant = NoTenant
    NoNode = NoNode
SYMMETRY MCSymmetry
INVARIANTS TypeOK NoneStranded TenantExact ShownTrue
CHECK_DEADLOCK FALSE
