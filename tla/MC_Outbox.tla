----------------------------- MODULE MC_Outbox ------------------------------
(* Instances of Outbox for TLC: keys and enqueuers are interchangeable. *)
EXTENDS OutboxDelivery, TLC

CONSTANTS k1, k2, k3, k4, k5, u1, r1, r2

OneOwner == [k \in Keys |-> u1]

Symmetry ==
  Permutations(Keys) \cup Permutations(Enqueuers)
=============================================================================
