\* One phone, two nodes, two sockets, a fault, an operator who may disable it.
SPECIFICATION FairSpec
CONSTANTS
    Nodes = {n1, n2}
    Conns = {c1, c2}
    NoNode = NoNode
    NoConn = NoConn
    Faults = {"crash", "stop", "early_loss"}
    MaxUpsets = 1
 
PROPERTIES OfflineHeals GoneGoesOffline SessionsEnd
CHECK_DEADLOCK FALSE
