------------------------------ MODULE Delivery ------------------------------
(***************************************************************************)
(* What the outbox promises of every notification it accepts, with no      *)
(* worker, lease or queue in sight: it is owed until an attempt settles    *)
(* it; it is called delivered only once a provider accepted it; and every  *)
(* acceptance is paid for by an attempt of its own, of which there are at  *)
(* most MaxAttempts.  That is at-least-once delivery with bounded          *)
(* duplicates and bounded patience (docs/notifications.md, "At-least-once, *)
(* never exactly-once" and "And it can drop").                             *)
(***************************************************************************)
EXTENDS Integers

CONSTANTS Rows, MaxAttempts

VARIABLES phase, spent, accepted

vars == <<phase, spent, accepted>>

Phases == {"none", "owed", "delivered", "givenUp", "forgotten"}

Init ==
  /\ phase = [r \in Rows |-> "none"]
  /\ spent = [r \in Rows |-> 0]
  /\ accepted = [r \in Rows |-> {}]

(* The steps of one notification.  Accept may come after the settlement: a  *)
(* request nobody waits for any more can still arrive, and one that was in  *)
(* progress at a withdrawal was not charged.                                *)
Promise(r) ==
  /\ phase[r] = "none"
  /\ phase'[r] = "owed"
  /\ spent'[r] = 0
  /\ accepted'[r] = accepted[r]

Accept(r) ==
  /\ \E n \in 1..MaxAttempts \ accepted[r] :
       /\ n <= spent[r] + (IF phase[r] = "delivered" THEN 0 ELSE 1)
       /\ accepted'[r] = accepted[r] \cup {n}
  /\ phase'[r] = phase[r]
  /\ spent'[r] = spent[r]

Spend(r) ==
  /\ phase[r] = "owed"
  /\ spent'[r] = spent[r] + 1
  /\ accepted'[r] = accepted[r]
  /\ \/ phase'[r] = "owed" /\ spent'[r] < MaxAttempts
     \/ phase'[r] = "delivered" /\ accepted[r] # {} /\ spent'[r] <= MaxAttempts
     \/ phase'[r] = "givenUp" /\ spent'[r] <= MaxAttempts

(* The recipient left the workspace: nothing is owed any more.              *)
Withdraw(r) ==
  /\ phase[r] = "owed" /\ phase'[r] = "givenUp"
  /\ spent'[r] = spent[r]
  /\ accepted'[r] = accepted[r]

Forget(r) ==
  /\ phase[r] \in {"delivered", "givenUp"} /\ phase'[r] = "forgotten"
  /\ spent'[r] = spent[r]
  /\ accepted'[r] = accepted[r]

Stay(r) ==
  /\ phase'[r] = phase[r]
  /\ spent'[r] = spent[r]
  /\ accepted'[r] = accepted[r]

RowStep(r) ==
  Promise(r) \/ Accept(r) \/ Spend(r) \/ Withdraw(r) \/ Forget(r) \/ Stay(r)

(* One statement of a worker may move several rows at once.                 *)
Next == \A r \in Rows : RowStep(r)

Spec == Init /\ [][Next]_vars
=============================================================================
