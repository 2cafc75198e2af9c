---------------------------- MODULE MC_ApiWrites ----------------------------
(* Constants for TLC.                                                       *)
EXTENDS ApiWrites, TLC

CONSTANTS c1, c2, k1
Alike == Permutations({c1, c2})

First == [title |-> "old", due |-> 0]

MC_Bodies ==
  {[op |-> "create"], [op |-> "deliver"],
   [op |-> "update", from |-> First, title |-> "new"],
   [op |-> "complete", due |-> 0], [op |-> "complete", due |-> 1],
   [op |-> "delete", from |-> First]}
=============================================================================
