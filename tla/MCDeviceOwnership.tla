------------------------- MODULE MCDeviceOwnership -------------------------
(* Instances of DeviceOwnership for TLC: every message is the first tenant's. *)
EXTENDS DeviceOwnership, TLC
CONSTANTS t1

MCTenantOf == [m \in Msgs |-> t1]
MCSymmetry == Permutations(Requests) \union Permutations(Nodes)
=============================================================================
