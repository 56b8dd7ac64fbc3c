SPECIFICATION Spec
CONSTANTS
    Sims = {s1}
    Reqs = {q1}
    Kinds = {balance}
    BalanceKinds = {balance}
    Scheduler = scheduler
    Admins = {admin}
    Answerers = {a1}
    Sweepers = {w1}
    GiveUp = 2
    MaxChanges = 1
    MaxUpsets = 1
    NoReq = NoReq
    NoSim = NoSim
    NoKind = NoKind
INVARIANTS TypeOK
PROPERTIES Concludes GivesUp
CHECK_DEADLOCK FALSE
