------------------------------ MODULE Reminders ------------------------------
(***************************************************************************)
(* The reminder scheduler (server/notifications/scheduler.ts) for one      *)
(* occurrence of one task: a row of reminder_state per recipient, driven   *)
(* up a ladder of repeats, handed to a fallback user when the repeats are  *)
(* spent, and stopped by an acknowledgement.                               *)
(*                                                                         *)
(* Each tick the replica that holds the advisory lock reads candidates     *)
(* into memory (the variable scan) and runs a transaction for each of      *)
(* them; between the two, and between the two transactions of a handoff,   *)
(* anybody may acknowledge, complete, reassign or leave.  The guard of a   *)
(* transaction is what withProducerAuthority re-checks under its locks.    *)
(*                                                                         *)
(* Every transaction reads the policy anew: the columns of the task over   *)
(* the defaults of the recipient, both of which users edit at any time.    *)
(*                                                                         *)
(* A timestamp column is null, ahead of the clock or past it.  The task    *)
(* does not recur.                                                         *)
(***************************************************************************)
EXTENDS Integers, FiniteSets

CONSTANTS
  Users,
  NoUser,              \* the null of a user column
  Inherit,             \* the null of a max_repeats column
  Creator,             \* the list owner at the start
  FirstAssignees,      \* task_assignee at the start
  FirstPolicy,         \* the policy columns of the task at the start
  FirstDefaults,       \* escalation_defaults of each user at the start
  TaskPolicies,        \* what the policy columns may be set to
  UserDefaults,        \* what a user's defaults may be set to
  DEFAULT_MAX_REPEATS,
  MAX_REPEATS_CAP,
  Reachable,           \* the users with a channel
  Viewers,             \* members who may not complete the task
  Edits,               \* bound: the kinds of edits that occur
  MaxEdits             \* bound on the number of edits

EditKinds == {"done", "assign", "policy", "defaults", "schedule", "member"}

(* repeatEveryMin is set or null, maxRepeats a number or null.              *)
Defaults == [repeats : BOOLEAN, max : Nat \cup {Inherit}, fallback : Users \cup {NoUser}]
Policies == [repeats : BOOLEAN, max : Nat \cup {Inherit}, fallback : Users \cup {NoUser},
             urgent : BOOLEAN]

ASSUME RemindersAssumption ==
  /\ NoUser \notin Users
  /\ Inherit \notin Nat
  /\ Creator \in Users
  /\ FirstAssignees \subseteq Users
  /\ FirstPolicy \in Policies
  /\ FirstDefaults \in [Users -> Defaults]
  /\ TaskPolicies \subseteq Policies
  /\ UserDefaults \subseteq Defaults
  /\ DEFAULT_MAX_REPEATS \in Nat
  /\ MAX_REPEATS_CAP \in Nat
  /\ Reachable \subseteq Users
  /\ Viewers \subseteq Users
  /\ Edits \subseteq EditKinds
  /\ MaxEdits \in Nat

VARIABLES
  \* membership, list.owner_id, task_assignee, task.done
  members, owner, assigned, done,
  \* the policy columns of the task, and each user's escalation_defaults
  policy, defaults,
  \* the occurrence is one that the expansion of the task now yields, or the
  \* task's time was moved away from it, or its grace period is over
  occurrence,
  \* reminder_state, by recipient
  row,
  \* fire counts of the recipient's rows in notification_outbox, and of all
  \* that were ever inserted
  outbox, queued,
  \* the running tick of the leader: its phase, the candidates it has read,
  \* and the handoff between its two transactions
  scan,
  edits

taskVars == <<members, owner, assigned, done, policy, defaults, occurrence, edits>>
rowVars == <<row, outbox, queued>>
vars == <<taskVars, rowVars, scan>>

-----------------------------------------------------------------------------
Live == {"pending", "deferred"}
Settled == {"acked", "failed", "expired", "escalated"}
AckTerminal == {"acked", "failed", "expired"}
Timers == {"null", "ahead", "past"}

Rows == [status : {"absent"} \cup Live \cup Settled,
         fireCount : Nat, nextAt : Timers, deferredUntil : Timers]

NoRow == [status |-> "absent", fireCount |-> 0,
          nextAt |-> "null", deferredUntil |-> "null"]

Idle == [phase |-> "idle", todo |-> {}, from |-> NoUser, to |-> NoUser]
Branches == {"create", "wake", "escalate"}

-----------------------------------------------------------------------------
(* Policy *)

(* Without assignees the reminder goes to the list owner.                   *)
Base == IF assigned = {} THEN {owner} ELSE assigned

(* resolveEscalationPolicy: the task over the user over the floor.          *)
Repeats(u) == policy.repeats \/ defaults[u].repeats

Smaller(x, y) == IF x <= y THEN x ELSE y

MaxRepeats(u) ==
  Smaller(MAX_REPEATS_CAP,
          IF policy.max # Inherit THEN policy.max
          ELSE IF defaults[u].max # Inherit THEN defaults[u].max
          ELSE DEFAULT_MAX_REPEATS)

FallbackOf(u) ==
  IF policy.fallback # NoUser THEN policy.fallback ELSE defaults[u].fallback

(* nextEscalation: fireCount counts sends, the first one included.          *)
NextEscalationUncapped(u) ==
  IF Repeats(u) /\ row[u].fireCount <= MaxRepeats(u) THEN "repeat" ELSE "terminal"

NextEscalation(u) ==
  CASE ~Repeats(u)                               -> "terminal"
    [] Repeats(u) /\ row[u].fireCount < MaxRepeats(u) -> "repeat"
    [] Repeats(u) /\ row[u].fireCount = MaxRepeats(u)
       /\ FallbackOf(u) # NoUser                 -> "escalate"
    [] OTHER                                     -> "terminal"

WakeReady(u) ==
  \/ row[u].status = "deferred" /\ row[u].deferredUntil = "past"
  \/ /\ row[u].status = "pending"
     /\ row[u].fireCount = 0
     /\ row[u].deferredUntil = "null"
     /\ row[u].nextAt \in {"null", "past"}

EscalateReady(u) ==
  /\ row[u].status = "pending"
  /\ row[u].fireCount > 0
  /\ row[u].nextAt = "past"

-----------------------------------------------------------------------------
Larger(a, b) == IF a >= b THEN a ELSE b

(* How often a recipient is notified at most, as the policy stands, and     *)
(* whatever becomes of it.                                                  *)
MaxSends(u) == IF Repeats(u) THEN Larger(1, MaxRepeats(u)) ELSE 1
MostSends == Larger(1, MAX_REPEATS_CAP)

TypeOK ==
  /\ members \subseteq Users
  /\ owner \in Users
  /\ assigned \subseteq Users
  /\ done \in BOOLEAN
  /\ policy \in Policies
  /\ defaults \in [Users -> Defaults]
  /\ occurrence \in {"due", "moved", "over"}
  /\ row \in [Users -> Rows]
  /\ \A u \in Users : row[u].fireCount <= MostSends
  /\ outbox \in [Users -> SUBSET Nat]
  /\ queued \in [Users -> SUBSET Nat]
  /\ scan \in [phase : {"idle", "create", "sweep", "handoff"},
               todo : SUBSET (Users \X Branches),
               from : Users \cup {NoUser}, to : Users \cup {NoUser}]
  /\ edits \in 0..MaxEdits

Init ==
  /\ members = Users
  /\ owner = Creator
  /\ assigned = FirstAssignees
  /\ done = FALSE
  /\ policy = FirstPolicy
  /\ defaults = FirstDefaults
  /\ occurrence = "due"
  /\ row = [u \in Users |-> NoRow]
  /\ outbox = [u \in Users |-> {}]
  /\ queued = [u \in Users |-> {}]
  /\ scan = Idle
  /\ edits = 0

-----------------------------------------------------------------------------
(* fire and enqueue.  What becomes of a recipient's row, as a record of the *)
(* row and of the fire count that was put into the outbox, 0 for none.      *)

(* On each channel the insert succeeds, meets its idempotency key, or is    *)
(* refused at the user's cap; enqueue acts on whether any succeeded.        *)
Enqueued(u, n) ==
  IF u \notin Reachable THEN {"none"}
  ELSE {"refused", IF n \in outbox[u] THEN "duplicate" ELSE "inserted"}

LostDespiteRows(u, outcome) == outcome = "refused"
Lost(u, outcome) == outcome = "refused" /\ outbox[u] = {}

FiredRowByTask(u, n, outcome) ==
  [status |-> IF Lost(u, outcome) THEN "failed" ELSE "pending",
   fireCount |-> n,
   nextAt |-> IF ~Lost(u, outcome) /\ policy.repeats THEN "ahead" ELSE "null",
   deferredUntil |-> "null"]

FiredRow(u, n, outcome) ==
  [status |-> IF Lost(u, outcome) THEN "failed" ELSE "pending",
   fireCount |-> n,
   nextAt |-> IF ~Lost(u, outcome) /\ Repeats(u) THEN "ahead" ELSE "null",
   deferredUntil |-> "null"]

(* Quiet hours, of which only urgent tasks are exempt.                      *)
Deferrals(u) ==
  IF policy.urgent THEN {}
  ELSE {[row |-> [row[u] EXCEPT !.status = "deferred", !.nextAt = "null",
                                !.deferredUntil = "ahead"],
         queued |-> {}]}

FiringsInQuietHours(u, n) ==
  Deferrals(u) \cup
  {[row |-> FiredRow(u, n, outcome),
    queued |-> IF outcome = "inserted" THEN {n} ELSE {}] :
     outcome \in Enqueued(u, n)}

Firings(u, n) ==
  {[row |-> FiredRow(u, n, outcome),
    queued |-> IF outcome = "inserted" THEN {n} ELSE {}] :
     outcome \in Enqueued(u, n)}

(* The first notification of a recipient: now, or after the quiet hours.    *)
FirstFirings(u) == Firings(u, 1) \cup Deferrals(u)

Put(u, outcome) ==
  /\ outbox' = [outbox EXCEPT ![u] = @ \cup outcome.queued]
  /\ queued' = [queued EXCEPT ![u] = @ \cup outcome.queued]

KeepRows == UNCHANGED rowVars

SettleForgetsTimers(r, status) == [r EXCEPT !.status = status]
Settle(r, status) ==
  [r EXCEPT !.status = status, !.nextAt = "null", !.deferredUntil = "null"]

-----------------------------------------------------------------------------
(* scanTick *)

(* loadTasks, and the assignees of the batch.                               *)
BeginScan ==
  /\ scan.phase = "idle"
  /\ scan' = [Idle EXCEPT !.phase = "create",
       !.todo = IF done \/ occurrence # "due" THEN {} ELSE Base \X {"create"}]
  /\ UNCHANGED taskVars
  /\ KeepRows

Candidate(u, branch) ==
  /\ <<u, branch>> \in scan.todo
  /\ scan.phase = IF branch = "create" THEN "create" ELSE "sweep"

Processed(u, branch) == [scan EXCEPT !.todo = @ \ {<<u, branch>>}]

MayCreate(u) ==
  /\ u \in members
  /\ u \in Base
  /\ ~done
  /\ occurrence = "due"
  /\ row[u].status = "absent"

CreateReminder(u) ==
  /\ Candidate(u, "create")
  /\ scan' = Processed(u, "create")
  /\ \/ /\ MayCreate(u)
        /\ \E outcome \in FirstFirings(u) :
             /\ row' = [row EXCEPT ![u] = outcome.row]
             /\ Put(u, outcome)
     \/ ~MayCreate(u) /\ KeepRows
  /\ UNCHANGED taskVars

LoadSweepRows ==
  /\ scan.phase = "create"
  /\ scan.todo = {}
  /\ scan' = [scan EXCEPT !.phase = "sweep",
       !.todo = {u \in Users : WakeReady(u)} \X {"wake"} \cup
                {u \in Users : EscalateReady(u)} \X {"escalate"}]
  /\ UNCHANGED taskVars
  /\ KeepRows

MayWakeUnlocked(u) == u \in members /\ ~done
MayWake(u) == u \in members /\ WakeReady(u) /\ ~done

SweepWake(u) ==
  /\ Candidate(u, "wake")
  /\ scan' = Processed(u, "wake")
  /\ \/ /\ MayWake(u)
        /\ \E outcome \in FirstFirings(u) :
             /\ row' = [row EXCEPT ![u] = outcome.row]
             /\ Put(u, outcome)
     \/ ~MayWake(u) /\ KeepRows
  /\ UNCHANGED taskVars

MayEscalateUnlocked(u) == u \in members /\ EscalateReady(u)
MayEscalate(u) == u \in members /\ EscalateReady(u) /\ ~done

(* The user an escalation goes to, if it can go to one.                     *)
HandoffTo(u) ==
  IF NextEscalation(u) = "escalate" /\ FallbackOf(u) \in members \ {u}
  THEN FallbackOf(u) ELSE NoUser

SweepEscalate(u) ==
  /\ Candidate(u, "escalate")
  /\ \/ /\ MayEscalate(u)
        /\ NextEscalation(u) = "repeat"
        /\ scan' = Processed(u, "escalate")
        /\ \E outcome \in Firings(u, row[u].fireCount + 1) :
             /\ row' = [row EXCEPT ![u] = outcome.row]
             /\ Put(u, outcome)
     \/ /\ MayEscalate(u)
        /\ HandoffTo(u) # NoUser
        /\ scan' = [Processed(u, "escalate") EXCEPT
             !.phase = "handoff", !.from = u, !.to = HandoffTo(u)]
        /\ KeepRows
     \/ /\ MayEscalate(u)
        /\ NextEscalation(u) # "repeat"
        /\ HandoffTo(u) = NoUser
        /\ scan' = Processed(u, "escalate")
        /\ row' = [row EXCEPT ![u] = Settle(@, "expired")]
        /\ UNCHANGED <<outbox, queued>>
     \/ /\ ~MayEscalate(u)
        /\ scan' = Processed(u, "escalate")
        /\ KeepRows
  /\ UNCHANGED taskVars

MayHandOffOnFirstRead(u, f) ==
  /\ {u, f} \subseteq members
  /\ ~done

MayHandOffFromAnyone(u, f) ==
  /\ {u, f} \subseteq members
  /\ EscalateReady(u)
  /\ NextEscalation(u) = "escalate"
  /\ FallbackOf(u) = f
  /\ ~done

(* The second transaction of a handoff, from u to f: only a base recipient  *)
(* may hand on, and only as its policy says now.                            *)
MayHandOff(u, f) ==
  /\ {u, f} \subseteq members
  /\ u \in Base
  /\ EscalateReady(u)
  /\ NextEscalation(u) = "escalate"
  /\ FallbackOf(u) = f
  /\ ~done

EscalateToFallback ==
  /\ scan.phase = "handoff"
  /\ scan' = [scan EXCEPT !.phase = "sweep", !.from = NoUser, !.to = NoUser]
  /\ LET u == scan.from
         f == scan.to
         Escalated == [row EXCEPT ![u] = Settle(@, "escalated")]
     IN  \/ /\ MayHandOff(u, f)
            /\ row[f].status = "absent"
            /\ \E outcome \in FirstFirings(f) :
                 /\ row' = [Escalated EXCEPT ![f] = outcome.row]
                 /\ Put(f, outcome)
         \/ /\ MayHandOff(u, f)
            /\ row[f].status # "absent"
            /\ row' = Escalated
            /\ UNCHANGED <<outbox, queued>>
         \/ ~MayHandOff(u, f) /\ KeepRows
  /\ UNCHANGED taskVars

(* A candidate's transaction throws, is logged and skipped.                 *)
SkipCandidate ==
  /\ \/ \E candidate \in scan.todo :
          scan' = [scan EXCEPT !.todo = @ \ {candidate}]
     \/ /\ scan.phase = "handoff"
        /\ scan' = [scan EXCEPT !.phase = "sweep", !.from = NoUser, !.to = NoUser]
  /\ UNCHANGED taskVars
  /\ KeepRows

EndScan ==
  /\ scan.phase = "sweep"
  /\ scan.todo = {}
  /\ scan' = Idle
  /\ UNCHANGED taskVars
  /\ KeepRows

(* The leader dies or loses the connection that holds the lock, or the      *)
(* whole tick throws.                                                       *)
LeaderLost ==
  /\ scan.phase # "idle"
  /\ scan' = Idle
  /\ UNCHANGED taskVars
  /\ KeepRows

-----------------------------------------------------------------------------
(* The rest of the system *)

TimerExpires(u) ==
  /\ \/ /\ row[u].nextAt = "ahead"
        /\ row' = [row EXCEPT ![u].nextAt = "past"]
     \/ /\ row[u].deferredUntil = "ahead"
        /\ row' = [row EXCEPT ![u].deferredUntil = "past"]
  /\ UNCHANGED <<taskVars, outbox, queued, scan>>

WindowCloses ==
  /\ occurrence # "over"
  /\ occurrence' = "over"
  /\ UNCHANGED <<members, owner, assigned, done, policy, defaults, edits, rowVars, scan>>

(* reminder.ack and the redeem of a capability: the completion, the row     *)
(* itself whatever it is, and the siblings that have not ended.             *)
SiblingsThatFired(u) ==
  {v \in Users \ {u} : row[v].status = "pending"}
Siblings(u) ==
  {v \in Users \ {u} : row[v].status \notin AckTerminal \cup {"absent"}}

Ack(u) ==
  /\ u \in members
  /\ row[u].status # "absent"
  /\ row' = [v \in Users |->
       IF v = u \/ v \in Siblings(u) THEN Settle(row[v], "acked") ELSE row[v]]
  /\ done' = IF u \in Viewers THEN done ELSE TRUE
  /\ UNCHANGED <<members, owner, assigned, policy, defaults, occurrence, edits,
                 outbox, queued, scan>>

(* pruneTerminal deletes old rows of the outbox.                            *)
PruneOutbox(u) ==
  /\ \E n \in outbox[u] : outbox' = [outbox EXCEPT ![u] = @ \ {n}]
  /\ UNCHANGED <<taskVars, row, queued, scan>>

Edit(kind) ==
  /\ kind \in Edits
  /\ edits < MaxEdits
  /\ edits' = edits + 1

(* task.complete, and task.update of done                                   *)
SetDone ==
  /\ Edit("done")
  /\ done' = ~done
  /\ UNCHANGED <<members, owner, assigned, policy, defaults, occurrence, rowVars, scan>>

(* task.assign, of members, and task.unassign                               *)
Reassign(u) ==
  /\ Edit("assign")
  /\ \/ u \in members \ assigned /\ assigned' = assigned \cup {u}
     \/ u \in assigned /\ assigned' = assigned \ {u}
  /\ UNCHANGED <<members, owner, done, policy, defaults, occurrence, rowVars, scan>>

(* task.update of repeatEveryMin, maxRepeats, urgent and fallbackUserId; a  *)
(* fallback that is given must be a member.                                 *)
SetPolicy(p) ==
  /\ Edit("policy")
  /\ p # policy
  /\ p.fallback \in members \cup {NoUser, policy.fallback}
  /\ policy' = p
  /\ UNCHANGED <<members, owner, assigned, done, defaults, occurrence, rowVars, scan>>

(* userPref.set of escalationDefaults.  The fallback must share a workspace *)
(* with the user, not this one.                                             *)
SetDefaults(u, d) ==
  /\ Edit("defaults")
  /\ d # defaults[u]
  /\ defaults' = [defaults EXCEPT ![u] = d]
  /\ UNCHANGED <<members, owner, assigned, done, policy, occurrence, rowVars, scan>>

(* task.update of dueAt, or of reminderTime, and back                       *)
Reschedule ==
  /\ Edit("schedule")
  /\ occurrence # "over"
  /\ occurrence' = IF occurrence = "due" THEN "moved" ELSE "due"
  /\ UNCHANGED <<members, owner, assigned, done, policy, defaults, rowVars, scan>>

(* removeMember, in one transaction: the rows end, the assignment and the   *)
(* task's fallback go, and a replacement owns the list.                     *)
RemoveMember(u) ==
  /\ Edit("member")
  /\ u \in members
  /\ members' = members \ {u}
  /\ row' = [row EXCEPT ![u] =
       IF @.status \in Live \cup {"escalated"} THEN Settle(@, "expired") ELSE @]
  /\ assigned' = assigned \ {u}
  /\ policy' = IF policy.fallback = u THEN [policy EXCEPT !.fallback = NoUser] ELSE policy
  /\ \E v \in IF owner = u THEN members \ {u} ELSE {owner} : owner' = v
  /\ UNCHANGED <<done, defaults, occurrence, outbox, queued, scan>>

(* An invitation is accepted, perhaps one that assigns the task.            *)
AddMember(u) ==
  /\ Edit("member")
  /\ u \notin members
  /\ members' = members \cup {u}
  /\ assigned' \in {assigned, assigned \cup {u}}
  /\ UNCHANGED <<owner, done, policy, defaults, occurrence, rowVars, scan>>

Next ==
  \/ BeginScan
  \/ \E u \in Users : CreateReminder(u)
  \/ LoadSweepRows
  \/ \E u \in Users : SweepWake(u)
  \/ \E u \in Users : SweepEscalate(u)
  \/ EscalateToFallback
  \/ SkipCandidate
  \/ EndScan
  \/ LeaderLost
  \/ \E u \in Users : TimerExpires(u)
  \/ WindowCloses
  \/ \E u \in Users : Ack(u)
  \/ \E u \in Users : PruneOutbox(u)
  \/ SetDone
  \/ \E u \in Users : Reassign(u)
  \/ \E p \in TaskPolicies : SetPolicy(p)
  \/ \E u \in Users, d \in UserDefaults : SetDefaults(u, d)
  \/ Reschedule
  \/ \E u \in Users : RemoveMember(u)
  \/ \E u \in Users : AddMember(u)

Spec == Init /\ [][Next]_vars

(* The clock runs and croner starts ticks; a transaction or a scan that is  *)
(* tried again and again succeeds sometime.  Nothing is assumed of users,   *)
(* or of how often the leader is lost.                                      *)
Fairness ==
  /\ WF_vars(BeginScan)
  /\ SF_vars(LoadSweepRows)
  /\ SF_vars(EscalateToFallback)
  /\ SF_vars(EndScan)
  /\ \A u \in Users :
       /\ WF_vars(TimerExpires(u))
       /\ SF_vars(CreateReminder(u))
       /\ SF_vars(SweepWake(u))
       /\ SF_vars(SweepEscalate(u))

FairSpec == Spec /\ Fairness

-----------------------------------------------------------------------------
(* Properties *)

(* The timers of a row fit its status: a deferred row has its wake time and *)
(* no other; a pending one has been fired, and has no wake time left; a     *)
(* settled one has no timer that could select it again (scheduler.ts:       *)
(* 681-685, 706-708).  A pending row without a next attempt is selected by  *)
(* no branch of the sweep, and waits for an acknowledgement alone.          *)
TimersFitStatus ==
  \A u \in Users :
    /\ row[u].status = "deferred" =>
         row[u].deferredUntil # "null" /\ row[u].nextAt = "null"
    /\ row[u].status = "pending" =>
         row[u].fireCount > 0 /\ row[u].deferredUntil = "null"
    /\ row[u].status \in Settled =>
         row[u].nextAt = "null" /\ row[u].deferredUntil = "null"

(* The status tells whether anything was queued.  A failed reminder has     *)
(* nothing in the outbox; one that fired and waits, of a user with a        *)
(* channel, had something put there, if not by this firing then by an       *)
(* earlier one, under a fire count the row has reached; and one that waits  *)
(* for the end of the quiet hours had nothing put there yet                 *)
(* (scheduler.ts:224-233, 681-685).                                         *)
StatusTellsQueue ==
  \A u \in Users :
    /\ row[u].status = "failed" => outbox[u] = {}
    /\ row[u].status = "pending" /\ u \in Reachable => queued[u] # {}
    /\ queued[u] \subseteq 1..row[u].fireCount
    /\ row[u].status = "deferred" => queued[u] = {}

(* The recipient is sent a notification, on whatever channels it has.       *)
Fires(u) ==
  /\ row'[u].fireCount > 0
  /\ row'[u].fireCount # row[u].fireCount \/
       (row[u].status \notin {"pending"} /\ row'[u].status = "pending")

(* Whether a waiting reminder goes on is decided when it is sent, by the    *)
(* policy of its recipient at that time, the defaults of the user included; *)
(* no edit of the policy, and nothing else, gives it a next attempt later   *)
(* or takes it away (scheduler.ts:286-290, 597-617, 855-863).               *)
TimerFollowsPolicy ==
  [][\A u \in Users : row'[u].status = "pending" =>
       (row'[u].nextAt # "null" <=>
          IF Fires(u) THEN Repeats(u) ELSE row[u].nextAt # "null")]_vars

(* No repeat is swallowed by the idempotency key of an earlier one          *)
(* (scheduler.ts:218-220).                                                  *)
NoRepeatSwallowed ==
  [][\A u \in Users : Fires(u) => row'[u].fireCount \notin queued[u]]_vars

(* Whatever the scan read before it took its locks, only a reminder that is *)
(* still waiting fires, of a task still open, to a user still a member; in  *)
(* particular never one that was acknowledged meanwhile.                    *)
OnlyWaitingRemindersFire ==
  [][\A u \in Users : Fires(u) =>
       /\ row[u].status \in Live \cup {"absent"}
       /\ ~done
       /\ u \in members]_vars

(* A settled reminder is never waiting again; what may still happen to it   *)
(* is an acknowledgement, or its recipient's removal.                       *)
SettledIsFinal ==
  [][\A u \in Users : row[u].status \in Settled =>
       \/ row'[u] = row[u]
       \/ row'[u] = Settle(row[u], "acked")
       \/ row'[u] = Settle(row[u], "expired") /\ u \notin members']_vars

(* The chain has one link: only a recipient by assignment or ownership      *)
(* hands on, to a member, so fallbacks cannot pass a reminder round in a    *)
(* circle (escalation.ts:22-24).                                            *)
ChainHasOneLink ==
  [][\A u \in Users : row[u].status # "escalated" /\ row'[u].status = "escalated" =>
       /\ u \in Base
       /\ \E f \in members \ {u} : FallbackOf(u) = f /\ row'[f].status # "absent"]_vars

(* An acknowledgement stops everybody's reminder for the occurrence         *)
(* (docs/notifications.md:175-178): no row that existed is waiting after.   *)
AckStopsEverybody ==
  [][(\E u \in Users : row[u].status # "acked" /\ row'[u].status = "acked") =>
       \A v \in Users : row'[v].status \notin Live]_vars

(* A reminder whose repeats are spent ends, handed on or expired, as long   *)
(* as its task is open and its recipient a member: the status table of      *)
(* docs/notifications.md:263 has it expired when there is no fallback, or   *)
(* when the fallback is unusable.                                           *)
SpentRemindersEnd ==
  \A u \in Users :
    EscalateReady(u) /\ NextEscalation(u) # "repeat"
      ~> row[u].status \in Settled \/ done \/ u \notin members

(* Where a reminder stands for those who do not know the scheduler.         *)
Stage(r) ==
  CASE r.status = "absent"              -> "none"
    [] r.status \in Live                -> "waiting"
    [] r.status = "escalated"           -> "passed"
    [] r.status \in {"failed", "expired"} -> "ended"
    [] r.status = "acked"               -> "acked"

L == INSTANCE Ladder WITH
       limit  <- [u \in Users |-> MaxSends(u)],
       closed <- done,
       stage  <- [u \in Users |-> Stage(row[u])],
       tries  <- [u \in Users |-> row[u].fireCount]

(* The scheduler climbs the ladder as promised: however stale what a scan   *)
(* has read, however often its leader is lost, and whatever the others do   *)
(* between its transactions, each transaction is one step of the promise,   *)
(* and what is left out of it changes nothing it speaks of.                 *)
ImplementsLadder == L!Spec
=============================================================================
