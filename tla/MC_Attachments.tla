--------------------------- MODULE MC_Attachments ---------------------------
(* Constants for TLC.                                                       *)
EXTENDS Attachments

CONSTANTS h1, h2
Alike == Permutations({h1, h2})
=============================================================================
