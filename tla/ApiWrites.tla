----------------------------- MODULE ApiWrites ------------------------------
(***************************************************************************)
(* Writes through the public API (server/public-api/tokens.ts, write.ts,   *)
(* update.ts, complete.ts, delete.ts, webhooks.ts): tasks created with a   *)
(* personal access token or a webhook, and one task that is updated,       *)
(* completed or deleted as its caller has observed it.                     *)
(*                                                                         *)
(* A call carries an Idempotency-Key.  Its transaction discovers what it   *)
(* has to lock, locks it, checks the credential again, looks for the       *)
(* receipt of an earlier call with that key, and otherwise makes the       *)
(* change and inserts a receipt.  A client whose call fails, or whose      *)
(* answer is lost, calls again with the same key, perhaps while the first  *)
(* call is still running.  All calls are of one account; other members     *)
(* edit the task meanwhile, change the account's role, and the account     *)
(* revokes its credentials.                                                *)
(***************************************************************************)
EXTENDS Integers, FiniteSets, Sequences

CONSTANTS
  Calls,          \* calls in progress at once
  Keys,           \* idempotency keys
  Titles,         \* what the observation of a task covers, beside its due date
  LastDue,        \* the due date after which the series of the task is done
  Bodies,         \* requests: an operation, and for a task its observation
  MaxCalls        \* bound on calls

Snapshots == [title : Titles, due : 0..LastDue]
Deleted == [title |-> "deleted", due |-> 0]
NoReceipt == [op |-> "none"]

ASSUME ApiWritesAssumption ==
  /\ LastDue \in Nat /\ MaxCalls \in Nat
  /\ "deleted" \notin Titles
  /\ Bodies \subseteq [op : {"create", "deliver"}]
       \cup [op : {"update"}, from : Snapshots, title : Titles]
       \cup [op : {"complete"}, due : 0..LastDue]
       \cup [op : {"delete"}, from : Snapshots]

VARIABLES
  task,           \* the task that is updated, completed and deleted
  role,           \* the account's role in the workspace of the task
  account,        \* whether the account is live
  live,           \* its credentials that are neither revoked nor expired
  receipt,        \* public_api_request
  executed,       \* what was done under each key
  call,           \* calls in progress
  calls

vars == <<task, role, account, live, receipt, executed, call, calls>>

-----------------------------------------------------------------------------
Idle == [step |-> "idle"]

Steps == {"receipt", "discover", "locking", "actor", "deciding", "committing", "answered"}
Verdicts == {"pending", "done", "replayed", "gone", "conflict", "changed", "notFound",
             "forbidden", "unauthorized", "unavailable"}

InProgress ==
  [step : Steps, key : Keys, body : Bodies, saw : BOOLEAN,
   locks : SUBSET {"user", "seat", "task"}, held : BOOLEAN, answer : Verdicts]

TypeOK ==
  /\ task \in Snapshots \cup {Deleted}
  /\ role \in {"writer", "viewer", "none"}
  /\ account \in BOOLEAN
  /\ live \subseteq {"token", "hook"}
  /\ receipt \in [Keys -> Bodies \cup {NoReceipt}]
  /\ executed \in [Keys -> Seq(Bodies)]
  /\ call \in [Calls -> {Idle} \cup InProgress]
  /\ calls \in 0..MaxCalls

Init ==
  /\ task \in Snapshots
  /\ role = "writer"
  /\ account = TRUE
  /\ live = {"token", "hook"}
  /\ receipt = [k \in Keys |-> NoReceipt]
  /\ executed = [k \in Keys |-> <<>>]
  /\ call = [c \in Calls |-> Idle]
  /\ calls = 0

-----------------------------------------------------------------------------
(* Helpers *)

Op(c) == call[c].body.op
Credential(op) == IF op = "deliver" THEN "hook" ELSE "token"

Visible == task # Deleted /\ role # "none"

Locked(what) == \E c \in Calls : call[c] # Idle /\ what \in call[c].locks

(* Whether a row lock can be had, which other calls may hold.               *)
Free(c, what) == \A d \in Calls \ {c} : call[d] # Idle => what \notin call[d].locks

Goto(c, step) == call' = [call EXCEPT ![c] = [@ EXCEPT !.step = step]]

(* The transaction ends, and with it its locks.                             *)
Answer(c, answer) ==
  call' = [call EXCEPT ![c] =
    [@ EXCEPT !.step = "answered", !.answer = answer, !.locks = {}, !.held = FALSE]]

AtStep(c, step) == call[c] # Idle /\ call[c].step = step

-----------------------------------------------------------------------------
(* A call up to its locks *)

Begin(c, k, b) ==
  /\ call[c] = Idle
  /\ Credential(b.op) \in live
  /\ calls < MaxCalls
  /\ calls' = calls + 1
  /\ call' = [call EXCEPT ![c] =
       [step |-> IF b.op = "deliver" THEN "discover" ELSE "receipt",
        key |-> k, body |-> b, saw |-> FALSE, locks |-> {}, held |-> FALSE,
        answer |-> "pending"]]
  /\ UNCHANGED <<task, role, account, live, receipt, executed>>

(* beforeActorLock, with nothing locked: what is there to be locked?        *)
LookForReceipt(c) ==
  /\ AtStep(c, "receipt")
  /\ call' = [call EXCEPT ![c] =
       [@ EXCEPT !.step = "discover", !.saw = receipt[call[c].key] # NoReceipt]]
  /\ UNCHANGED <<task, role, account, live, receipt, executed, calls>>

(* Whether there is; the others go on without authority to change anything. *)
Lockable(c) ==
  CASE Op(c) = "create"   -> ~call[c].saw /\ role # "none"
    [] Op(c) = "deliver"  -> role # "none"
    [] Op(c) = "complete" -> ~call[c].saw /\ Visible /\ account
    [] Op(c) = "update"   -> Visible /\ role = "writer" /\ account
    [] Op(c) = "delete"   -> IF call[c].saw THEN role = "writer"
                             ELSE Visible /\ role = "writer" /\ account

Discover(c) ==
  /\ AtStep(c, "discover")
  /\ IF Lockable(c) THEN Goto(c, "locking")
     ELSE IF Op(c) = "deliver" THEN Answer(c, "notFound")
     ELSE Goto(c, "actor")
  /\ UNCHANGED <<task, role, account, live, receipt, executed, calls>>

(* The locks of each operation, in the order user, membership, task.        *)
LocksButTheTask(c) == {"user", "seat"}

LocksOf(c) ==
  {"user"}
    \cup (IF role = "none" THEN {} ELSE {"seat"})
    \cup (IF Op(c) \in {"update", "complete"} \/ (Op(c) = "delete" /\ ~call[c].saw)
          THEN {"task"} ELSE {})

GoOn(c, locks, held) ==
  call' = [call EXCEPT ![c] =
    [@ EXCEPT !.step = IF Op(c) = "deliver" THEN "deciding" ELSE "actor",
              !.locks = locks, !.held = held]]

(* What was discovered is still there, once it is locked.                   *)
Authority(c) ==
  CASE Op(c) = "create"                 -> TRUE
    [] Op(c) = "deliver"                -> role = "writer" /\ "hook" \in live
    [] Op(c) \in {"update", "complete"} -> Visible
    [] Op(c) = "delete"                 -> role = "writer" /\ (call[c].saw \/ task # Deleted)

(* A deletion that finds the task gone looks once more for a receipt: that  *)
(* of a matching one that committed while it waited.                        *)
Overtaken(c) ==
  Op(c) = "delete" /\ (call[c].saw \/ task # Deleted \/ receipt[call[c].key] # NoReceipt)

Lock(c) ==
  /\ AtStep(c, "locking")
  /\ Free(c, "user")
  /\ \/ account /\ Authority(c) /\ GoOn(c, LocksOf(c), TRUE)
     \/ account /\ ~Authority(c) /\ Overtaken(c) /\ GoOn(c, {"user", "seat"}, role = "writer")
     \/ /\ account /\ ~Authority(c) /\ ~Overtaken(c)
        /\ Answer(c, CASE Op(c) # "deliver"    -> "unavailable"
                       [] role = "none"        -> "notFound"
                       [] "hook" \notin live   -> "unauthorized"
                       [] OTHER                -> "forbidden")
     \/ /\ ~account
        /\ Answer(c, IF Op(c) \in {"update", "complete"} THEN "unavailable" ELSE "unauthorized")
  /\ UNCHANGED <<task, role, account, live, receipt, executed, calls>>

(* withPersonalAccessToken: the user is locked, by now at the latest, and   *)
(* the token is read again.                                                 *)
AuthenticAtFirst(c) == account
Authentic(c) == account /\ "token" \in live

LockActor(c) ==
  /\ AtStep(c, "actor")
  /\ Free(c, "user")
  /\ IF Authentic(c)
     THEN call' = [call EXCEPT ![c] =
            [@ EXCEPT !.step = "deciding", !.locks = call[c].locks \cup {"user"}]]
     ELSE Answer(c, "unauthorized")
  /\ UNCHANGED <<task, role, account, live, receipt, executed, calls>>

-----------------------------------------------------------------------------
(* The decision *)

SameOperation(r, b) == r.op = b.op
SameRequest(r, b) == r = b

(* What a call is told whose request was executed before.  What became of   *)
(* a task that was created is not modelled.                                 *)
Replay(c) ==
  CASE Op(c) \in {"create", "deliver", "delete"} -> "replayed"
    [] Op(c) = "update" /\ role = "viewer"       -> "forbidden"
    [] OTHER -> IF Visible THEN "replayed" ELSE IF role = "none" THEN "notFound" ELSE "gone"

(* Whether the task is as the caller observed it.                           *)
AsObserved(b) ==
  CASE b.op \in {"create", "deliver"} -> TRUE
    [] b.op = "complete"              -> task.due = b.due
    [] b.op \in {"update", "delete"}  -> task = b.from

(* ... and what one is told for which there is no receipt.                  *)
Fresh(c) ==
  LET found == role # "none" /\ (Op(c) \in {"create", "deliver"} \/ Visible)
  IN  IF found /\ role = "viewer" /\ (call[c].held \/ Op(c) = "update") THEN "forbidden"
      ELSE IF ~found \/ ~call[c].held THEN "notFound"
      ELSE IF AsObserved(call[c].body) THEN "done" ELSE "changed"

VerdictOnStateFirst(c) ==
  LET r == receipt[call[c].key]
  IN  IF Fresh(c) # "done" THEN Fresh(c)
      ELSE IF r = NoReceipt THEN "done"
      ELSE IF SameRequest(r, call[c].body) THEN Replay(c)
      ELSE "conflict"

(* A deletion asks for its authority before it looks for a receipt.         *)
Verdict(c) ==
  LET r == receipt[call[c].key]
  IN  IF Op(c) = "delete" /\ role = "none" THEN "notFound"
      ELSE IF Op(c) = "delete" /\ role = "viewer" THEN "forbidden"
      ELSE IF Op(c) = "delete" /\ ~call[c].held THEN "notFound"
      ELSE IF r = NoReceipt THEN Fresh(c)
      ELSE IF SameRequest(r, call[c].body) THEN Replay(c)
      ELSE "conflict"

Decide(c) ==
  /\ AtStep(c, "deciding")
  /\ IF Verdict(c) = "done"
     THEN call' = [call EXCEPT ![c] =
            [@ EXCEPT !.step = "committing", !.locks = call[c].locks \cup {"seat"}]]
     ELSE Answer(c, Verdict(c))
  /\ UNCHANGED <<task, role, account, live, receipt, executed, calls>>

-----------------------------------------------------------------------------
(* The change, its receipt, and the end *)

Changed(b) ==
  CASE b.op = "update"                          -> [task EXCEPT !.title = b.title]
    [] b.op = "complete" /\ task.due < LastDue  -> [task EXCEPT !.due = @ + 1]
    [] b.op = "delete"                          -> Deleted
    [] OTHER                                    -> task

RecordedForTokens(c) ==
  IF Op(c) = "deliver" THEN receipt ELSE [receipt EXCEPT ![call[c].key] = call[c].body]
Recorded(c) == [receipt EXCEPT ![call[c].key] = call[c].body]

(* The mutation checks role and task again; the receipt's key is unique.    *)
Commit(c) ==
  LET k == call[c].key
      b == call[c].body
  IN  /\ AtStep(c, "committing")
      /\ role = "writer"
      /\ b.op \in {"create", "deliver"} \/ task # Deleted
      /\ receipt[k] = NoReceipt
      /\ task' = Changed(b)
      /\ receipt' = Recorded(c)
      /\ executed' = [executed EXCEPT ![k] = Append(@, b)]
      /\ Answer(c, "done") \/ Answer(c, "unavailable")
      /\ UNCHANGED <<role, account, live, calls>>

(* A lock or a statement times out, the process or the connection dies.     *)
Fail(c) ==
  /\ call[c] # Idle
  /\ call[c].step # "answered"
  /\ Answer(c, "unavailable")
  /\ UNCHANGED <<task, role, account, live, receipt, executed, calls>>

Return(c) ==
  /\ AtStep(c, "answered")
  /\ call' = [call EXCEPT ![c] = Idle]
  /\ UNCHANGED <<task, role, account, live, receipt, executed, calls>>

-----------------------------------------------------------------------------
(* The others.  Each takes the lock of the row that it changes.             *)

(* Another member edits the task, deletes it, or creates one with its id.   *)
Edit ==
  /\ ~Locked("task")
  /\ task' \in (Snapshots \cup {Deleted}) \ {task}
  /\ UNCHANGED <<role, account, live, receipt, executed, call, calls>>

ChangeRole ==
  /\ account
  /\ ~Locked("seat")
  /\ role' \in {"writer", "viewer", "none"} \ {role}
  /\ UNCHANGED <<task, account, live, receipt, executed, call, calls>>

Revoke(credential) ==
  /\ account
  /\ ~Locked("user")
  /\ credential \in live
  /\ live' = live \ {credential}
  /\ UNCHANGED <<task, role, account, receipt, executed, call, calls>>

DeleteAccount ==
  /\ account
  /\ ~Locked("user")
  /\ account' = FALSE
  /\ role' = "none"
  /\ live' = {}
  /\ receipt' = [k \in Keys |-> NoReceipt]
  /\ UNCHANGED <<task, executed, call, calls>>

-----------------------------------------------------------------------------
Next ==
  \/ \E c \in Calls :
       \/ \E k \in Keys, b \in Bodies : Begin(c, k, b)
       \/ LookForReceipt(c) \/ Discover(c) \/ Lock(c) \/ LockActor(c)
       \/ Decide(c) \/ Commit(c) \/ Fail(c) \/ Return(c)
  \/ Edit \/ ChangeRole \/ DeleteAccount
  \/ \E credential \in {"token", "hook"} : Revoke(credential)

Spec == Init /\ [][Next]_vars

-----------------------------------------------------------------------------
(* Properties *)

(* However often a request is repeated, and however its calls overlap, fail *)
(* or lose their answers, what was done under a key was done once, and its  *)
(* receipt says what it was.                                                *)
OncePerKey ==
  account => \A k \in Keys :
    executed[k] = IF receipt[k] = NoReceipt THEN <<>> ELSE <<receipt[k]>>

(* A call that is told of success asked for what was done under its key,    *)
(* however the task has changed since (docs/runbooks/public-api.md:359-361).*)
SuccessIsTrue ==
  account => \A c \in Calls :
    AtStep(c, "answered") /\ call[c].answer \in {"done", "replayed", "gone"} =>
      executed[call[c].key] = <<call[c].body>>

(* A call that is told to observe the task anew, or that its key is taken,  *)
(* was not executed: who plans again, as the answer asks him to, does       *)
(* nothing twice.                                                           *)
RefusedWasNotDone ==
  [][\A c \in Calls :
       ~AtStep(c, "answered") /\ AtStep(c, "answered")'
         /\ call'[c].answer \in {"changed", "conflict"} =>
         \A i \in 1..Len(executed[call[c].key]) :
           executed[call[c].key][i] # call[c].body]_vars

(* A task is updated, completed or deleted only as it was observed,         *)
(* whoever edits it between the check and the commit.                       *)
OnlyAsObserved ==
  [][\A k \in Keys : executed'[k] # executed[k] =>
       AsObserved(executed'[k][Len(executed'[k])])]_vars

(* Nothing is done with a credential whose revocation has committed, nor    *)
(* for a role or an account that are gone by then.                          *)
OnlyWithRights ==
  [][\A k \in Keys : executed'[k] # executed[k] =>
       /\ account /\ role = "writer"
       /\ Credential(executed'[k][Len(executed'[k])].op) \in live]_vars

(* What an answer tells the client, and what a client asks and is told.     *)
Meaning(answer) ==
  CASE answer \in {"done", "replayed", "gone"} -> "success"
    [] answer \in {"changed", "conflict"}      -> "refused"
    [] OTHER                                   -> "open"

Talk(m) ==
  IF m = Idle THEN [state |-> "silent"]
  ELSE [state |-> IF m.step = "answered" THEN Meaning(m.answer) ELSE "asking",
        key |-> m.key, body |-> m.body]

Promised ==
  INSTANCE Idempotency WITH done <- executed, talk <- [c \in Calls |-> Talk(call[c])]

(* The API keeps the promise of an idempotency key: every call, however it  *)
(* overlaps with others, waits, fails or is repeated, is at one moment one  *)
(* step of it, and no other step of a call does anything that it shows.     *)
ImplementsIdempotency == Promised!Spec
=============================================================================
