---------------------------- MODULE Idempotency -----------------------------
(***************************************************************************)
(* What an idempotency key promises to the clients of the public API, with *)
(* no transaction, lock, receipt or credential in sight: what is asked for *)
(* under a key is done at most once, ever; success is reported of what was *)
(* done; and a client is asked to plan anew, or to take another key, only  *)
(* if its request was not done.  Any other answer leaves that open.        *)
(***************************************************************************)
CONSTANTS Calls, Keys, Bodies

VARIABLES
  done,     \* what was done under each key, in its order
  talk      \* what each client asks and is told

vars == <<done, talk>>

Silent == [state |-> "silent"]
Asking(k, b) == [state |-> "asking", key |-> k, body |-> b]

Init ==
  /\ done = [k \in Keys |-> <<>>]
  /\ talk = [c \in Calls |-> Silent]

Ask(c) ==
  /\ talk[c] = Silent
  /\ \E k \in Keys, b \in Bodies : talk' = [talk EXCEPT ![c] = Asking(k, b)]
  /\ UNCHANGED done

Pending(c) == talk[c].state = "asking"
Tell(c, answer) == talk' = [talk EXCEPT ![c].state = answer]
WasDone(c) == done[talk[c].key] = <<talk[c].body>>

(* The client may not hear of it, and asks again then.                      *)
Do(c) ==
  /\ Pending(c)
  /\ done[talk[c].key] = <<>>
  /\ done' = [done EXCEPT ![talk[c].key] = <<talk[c].body>>]
  /\ Tell(c, "success") \/ Tell(c, "open")

Confirm(c) ==
  /\ Pending(c)
  /\ WasDone(c)
  /\ Tell(c, "success")
  /\ UNCHANGED done

Refuse(c) ==
  /\ Pending(c)
  /\ ~WasDone(c)
  /\ Tell(c, "refused")
  /\ UNCHANGED done

LeaveOpen(c) ==
  /\ Pending(c)
  /\ Tell(c, "open")
  /\ UNCHANGED done

Hear(c) ==
  /\ talk[c] # Silent /\ ~Pending(c)
  /\ talk' = [talk EXCEPT ![c] = Silent]
  /\ UNCHANGED done

(* A client asks, or is told, something.                                    *)
Next ==
  /\ talk' # talk
  /\ \E c \in Calls : Ask(c) \/ Do(c) \/ Confirm(c) \/ Refuse(c) \/ LeaveOpen(c) \/ Hear(c)

Spec == Init /\ [][Next]_vars
=============================================================================
