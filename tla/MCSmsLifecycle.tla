--------------------------- MODULE MCSmsLifecycle ---------------------------
(***************************************************************************)
(* Instances of SmsLifecycle for TLC.  A phone is named after one of its   *)
(* SIMs; the SIMs in SamePhone share one.  All messages go to one number.  *)
(***************************************************************************)
EXTENDS SmsRefinement, TLC

CONSTANT SamePhone

MCGateways == Sims
MCGatewayOf == [s \in Sims |-> IF s \in SamePhone THEN CHOOSE d \in SamePhone : TRUE ELSE s]

MCRecipients == {"number"}
MCRecipientOf == [m \in Msgs |-> "number"]

MCSymmetry == Permutations(Sims) \union Permutations(Workers)
MCWorkerSymmetry == Permutations(Workers)
=============================================================================
