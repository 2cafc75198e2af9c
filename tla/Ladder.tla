------------------------------- MODULE Ladder --------------------------------
(***************************************************************************)
(* What the scheduler promises of one occurrence of a task, with no scan,  *)
(* lock, timer or queue in sight: each recipient climbs the ladder once.   *)
(* Nobody is tried once more who was tried as often as the limit of the    *)
(* time allows, none but members, and only while the task is open; who has *)
(* reached the limit passes the reminder on or gives it up; whoever has    *)
(* left the ladder, or the workspace, does not come back to it; and who    *)
(* acknowledges takes everybody off it at once.                            *)
(***************************************************************************)
EXTENDS Naturals

CONSTANT Users

VARIABLES
  members,        \* the members of the workspace
  closed,         \* the task is done
  limit,          \* how often each user is to be tried, as things are now
  stage,          \* where each user's reminder stands
  tries           \* how often each user was tried

vars == <<members, closed, limit, stage, tries>>

OnLadder == {"waiting", "passed"}

Init ==
  /\ members = Users
  /\ closed = FALSE
  /\ limit \in [Users -> Nat]
  /\ stage = [u \in Users |-> "none"]
  /\ tries = [u \in Users |-> 0]

Open(u) == u \in members /\ ~closed

(* All channels may refuse what is sent, which ends the reminder.           *)
Remind(u) ==
  /\ Open(u)
  /\ stage[u] \in {"none", "waiting"}
  /\ tries[u] < limit[u]
  /\ tries' = [tries EXCEPT ![u] = @ + 1]
  /\ \E s \in {"waiting", "ended"} : stage' = [stage EXCEPT ![u] = s]
  /\ UNCHANGED <<members, closed, limit>>

(* Quiet hours: the first notification has to wait.                         *)
Postpone(u) ==
  /\ Open(u)
  /\ stage[u] = "none"
  /\ stage' = [stage EXCEPT ![u] = "waiting"]
  /\ UNCHANGED <<members, closed, limit, tries>>

Spent(u) == Open(u) /\ stage[u] = "waiting" /\ tries[u] = limit[u]

(* The limit may have come down since.                                      *)
GiveUp(u) ==
  /\ Open(u) /\ stage[u] = "waiting" /\ tries[u] >= limit[u]
  /\ stage' = [stage EXCEPT ![u] = "ended"]
  /\ UNCHANGED <<members, closed, limit, tries>>

(* The other user begins the ladder, unless it has begun it before.         *)
PassOn(u, f) ==
  /\ Spent(u) /\ Open(f) /\ f # u
  /\ \/ /\ stage[f] # "none"
        /\ stage' = [stage EXCEPT ![u] = "passed"]
        /\ UNCHANGED tries
     \/ /\ stage[f] = "none"
        /\ \E s \in {"waiting", "ended"}, n \in 0..1 :
             /\ s = "ended" => n = 1
             /\ stage' = [stage EXCEPT ![u] = "passed", ![f] = s]
             /\ tries' = [tries EXCEPT ![f] = n]
  /\ UNCHANGED <<members, closed, limit>>

(* A viewer may acknowledge, but not complete the task.                     *)
Acknowledge(u) ==
  /\ u \in members
  /\ stage[u] # "none"
  /\ stage' = [v \in Users |->
                 IF v = u \/ stage[v] \in OnLadder THEN "acked" ELSE stage[v]]
  /\ closed' \in {closed, TRUE}
  /\ UNCHANGED <<members, limit, tries>>

Leave(u) ==
  /\ u \in members
  /\ members' = members \ {u}
  /\ stage' = [stage EXCEPT ![u] = IF @ \in OnLadder THEN "ended" ELSE @]
  /\ UNCHANGED <<closed, limit, tries>>

Return(u) ==
  /\ members' = members \cup {u}
  /\ UNCHANGED <<closed, limit, stage, tries>>

SetDone ==
  /\ closed' = ~closed
  /\ UNCHANGED <<members, limit, stage, tries>>

SetLimits ==
  /\ limit' \in [Users -> Nat]
  /\ UNCHANGED <<members, closed, stage, tries>>

Next ==
  \/ SetDone
  \/ SetLimits
  \/ \E u \in Users :
       \/ Remind(u) \/ Postpone(u) \/ GiveUp(u)
       \/ Acknowledge(u) \/ Leave(u) \/ Return(u)
       \/ \E f \in Users : PassOn(u, f)

Spec == Init /\ [][Next]_vars
=============================================================================
