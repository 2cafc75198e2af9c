---------------------------- MODULE MC_Reminders ----------------------------
(* Instances of Reminders for TLC: a is assigned, b is the fallback of a.    *)
EXTENDS Reminders, TLC

CONSTANTS a, b

Unset == [repeats |-> FALSE, max |-> Inherit, fallback |-> NoUser]
RepeatOnce == [repeats |-> TRUE, max |-> 1, fallback |-> NoUser]
HandTo(u) == [repeats |-> TRUE, max |-> Inherit, fallback |-> u]

NoDefaults == [u \in Users |-> Unset]
EachOther == [u \in Users |-> IF u = a THEN HandTo(b) ELSE HandTo(a)]
SomeDefaults == {RepeatOnce, HandTo(a)}

TaskPolicy(repeats, max, fallback, urgent) ==
  [repeats |-> repeats, max |-> max, fallback |-> fallback, urgent |-> urgent]

NoPolicy == TaskPolicy(FALSE, Inherit, NoUser, FALSE)
HandToB == TaskPolicy(TRUE, Inherit, b, FALSE)
SomePolicies ==
  {NoPolicy, HandToB,
   TaskPolicy(TRUE, 1, b, FALSE), TaskPolicy(FALSE, Inherit, b, TRUE),
   TaskPolicy(TRUE, 0, a, FALSE)}
=============================================================================
