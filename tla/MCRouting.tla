------------------------------ MODULE MCRouting ------------------------------
(* Two SIMs; m1 and m2 go to one number, m3 and m4 to another. *)
EXTENDS Routing, TLC
CONSTANTS m1, m2, m3, m4, s1, s2, phone, r1, r2

MCGatewayOf == [s \in Sims |-> phone]
MCMaxInFlight == [g \in Gateways |-> 2]
MCFleetOrder == [s \in Sims |-> IF s = s1 THEN 1 ELSE 2]
MCPriority == [s \in Sims |-> 1]
MCRecipientOf == [m \in Msgs |-> IF m \in {m1, m2} THEN r1 ELSE r2]
MCPermits == [m \in Msgs |-> IF m \in {m1, m3} THEN {s2} ELSE Sims]
MCSwap == (r1 :> r2) @@ (r2 :> r1) @@ (m1 :> m3) @@ (m3 :> m1) @@ (m2 :> m4) @@ (m4 :> m2)
MCSymmetry == Permutations(Workers) \union {MCSwap}
=============================================================================
