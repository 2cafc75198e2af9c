-------------------------- MODULE MC_Capabilities --------------------------
(* Constants of the model of Capabilities.                                 *)
EXTENDS Capabilities, TLC

CONSTANTS u1, u2, a1, a2, v1, h1, h2, c1, c2

MC_To == [t \in Tokens |-> IF t = a2 THEN u2 ELSE u1]
MC_FirstChat == [u \in Users |-> c1]
MC_LocalDay == [u \in Users |-> "today"]
MC_Symmetry == Permutations({h1, h2})
=============================================================================
