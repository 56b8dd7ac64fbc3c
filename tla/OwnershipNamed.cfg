SPECIFICATION Spec
CONSTANTS
    t1 = t1
    Devices = {d1, d2}
    Tenants = {t1}
    Msgs = {m1}
    TenantOf <- MCTenantOf
    Nodes = {n1}
    Requests = {r1}
    MaxChanges = 3
    MaxUpsets = 0
    NoDevice = NoDevice
    NoTenant = NoTenant
    NoNode = NoNode
INVARIANTS OnlyWhereNamed
CHECK_DEADLOCK FALSE
