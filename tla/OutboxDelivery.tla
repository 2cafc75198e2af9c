--------------------------- MODULE OutboxDelivery ---------------------------
(* The outbox implements Delivery.                                          *)
EXTENDS Outbox

PhaseOf(s) ==
  CASE s = "unborn"                 -> "none"
    [] s \in Live                   -> "owed"
    [] s = "sent"                   -> "delivered"
    [] s \in {"failed", "abandoned"} -> "givenUp"
    [] s = "deleted"                -> "forgotten"

D == INSTANCE Delivery WITH
       Rows <- Ids,
       MaxAttempts <- MAX_ATTEMPTS,
       phase <- [id \in Ids |-> PhaseOf(status[id])],
       spent <- attempts,
       accepted <- accepted

(* Every behaviour of the workers, their crashes and the network is one of  *)
(* the abstract delivery: an attempt is spent exactly when the row is       *)
(* charged, delivered needs an acceptance, and settled rows stay settled.   *)
ImplementsDelivery == D!Spec
=============================================================================
