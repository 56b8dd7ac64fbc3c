------------------------------ MODULE MCIntake ------------------------------
(* Instances of Intake for TLC. *)
EXTENDS Intake, TLC
CONSTANTS a, b

\* A single message, a list of two, and a list that repeats itself.
MCBodies == {<<a>>, <<a, b>>, <<b, b>>}
MCSymmetry == Permutations(Callers)
=============================================================================
