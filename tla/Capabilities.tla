---------------------------- MODULE Capabilities ----------------------------
(***************************************************************************)
(* Acknowledgement capabilities (server/notifications/capability.ts): the  *)
(* token behind the Done button of a notification, and the one in a test   *)
(* message that proves a channel.                                          *)
(*                                                                         *)
(* One occurrence of one task that does not recur, with a reminder per     *)
(* recipient, and one channel per user, the Telegram chat its messages go  *)
(* to.  A redemption reads the token and the place of the task without     *)
(* locks (Observe) and decides later under them.  It consumes before it    *)
(* validates: a binding that turns out wrong keeps the consumption, a      *)
(* denial rolls it back with the transaction.                              *)
(*                                                                         *)
(* Beside the tokens the task is completed, reopened and moved in the app, *)
(* a habit is logged and unlogged there, and a reminder acknowledged.      *)
(*                                                                         *)
(* A random token is never drawn again; what it will be minted for is      *)
(* therefore a constant of the token.                                      *)
(***************************************************************************)
EXTENDS Integers, FiniteSets

CONSTANTS
  Users,
  Tokens,
  NoToken,
  To,             \* the recipient each token is minted for
  VerifyTokens,   \* minted by a test send, with the action "verify"
  Handlers,       \* connections that redeem
  Chats,
  NoChat,         \* the chat of a user without a channel
  FirstChat,      \* the chat of each user's channel at the start
  Viewers,        \* members who may not write
  HabitKinds,     \* whether the task may be in a habits list
  LocalDay,       \* the local day of the occurrence, by user
  MaxMinted,      \* bound on minted tokens
  MaxEdits        \* bound on edits of the task, memberships and channels

Days == {LocalDay[u] : u \in Users}

ASSUME CapabilitiesAssumption ==
  /\ NoToken \notin Tokens
  /\ To \in [Tokens -> Users]
  /\ VerifyTokens \subseteq Tokens
  /\ NoChat \notin Chats
  /\ FirstChat \in [Users -> Chats \cup {NoChat}]
  /\ Viewers \subseteq Users
  /\ HabitKinds \subseteq BOOLEAN
  /\ "task" \notin Days
  /\ MaxMinted \in Nat
  /\ MaxEdits \in Nat

VARIABLES
  cap,        \* ack_capability, and what became of the row
  sentTo,     \* the chat that shows the token's message
  reminder,   \* reminder_state.status, by recipient
  task,       \* its list and the list's kind, done, and its activation guard
  logged,     \* the local days whose habit_log is done
  members, accounts,
  channel,    \* notification_channel: its chat, verified_at, ack_verified_at
  testing,    \* the chat a test send of the user is on its way to
  redeeming,  \* the redemption of each handler
  \* history: karma awards; how often a completion was taken back, a reopened
  \* task or an undone day; redemptions by token; tokens presented where they
  \* are not bound; whether a test of the channel as it is now was sent or acked
  awards, undone, redeemed, misdirected, proof,
  edits

taskVars == <<reminder, task, logged, awards, undone, members>>
channelVars == <<channel, testing, proof>>
tokenVars == <<cap, sentTo, redeemed, misdirected>>
vars == <<tokenVars, taskVars, accounts, channelVars, redeeming, edits>>

-----------------------------------------------------------------------------
CapStates == {"unminted", "live", "consumed", "gone"}
Results == {"none", "redeemed", "rejected", "failed"}
Places == {"here", "elsewhere"}

\* The kinds of listener: the public link, this channel's own, another one's.
Vias == {"link", "telegram", "slack"}

NoRedemption == [step |-> "idle", token |-> NoToken, binding |-> "fits",
                 place |-> "here", result |-> "none"]
Unverified(c) == [chat |-> c, verified |-> FALSE, ackVerified |-> FALSE]
NoChannel == Unverified(NoChat)

TokenTypes ==
  /\ cap \in [Tokens -> CapStates]
  /\ sentTo \in [Tokens -> Chats \cup {NoChat}]
  /\ redeemed \in [Tokens -> Nat]
  /\ misdirected \subseteq Tokens

TaskTypes ==
  /\ reminder \in [Users -> {"none", "pending", "expired", "acked"}]
  /\ task \in [habit : BOOLEAN, done : BOOLEAN, place : Places, active : BOOLEAN]
  /\ logged \subseteq Days
  /\ awards \in [Days \cup {"task"} -> Nat]
  /\ undone \in [Days \cup {"task"} -> Nat]

PeopleTypes ==
  /\ members \subseteq accounts
  /\ accounts \subseteq Users
  /\ edits \in 0..MaxEdits

ChannelTypes ==
  /\ channel \in [Users -> [chat : Chats \cup {NoChat},
                            verified : BOOLEAN, ackVerified : BOOLEAN]]
  /\ testing \in [Users -> Chats \cup {NoChat}]
  /\ proof \in [Users -> SUBSET {"sent", "acked"}]

RedeemingTypes ==
  redeeming \in [Handlers ->
    [step : {"idle", "observed", "answered"}, token : Tokens \cup {NoToken},
     binding : {"fits", "unbound", "foreign"}, place : Places, result : Results]]

(* What an account leaves no row of, and the order of the two stamps.       *)
RowsRelated ==
  /\ \A t \in Tokens : cap[t] = "live" => To[t] \in accounts
  /\ \A u \in Users : reminder[u] # "none" => u \in accounts
  /\ \A u \in Users : channel[u].ackVerified => channel[u].verified

TypeOK ==
  /\ TokenTypes /\ TaskTypes /\ PeopleTypes /\ ChannelTypes /\ RedeemingTypes
  /\ RowsRelated

Init ==
  /\ cap = [t \in Tokens |-> "unminted"]
  /\ sentTo = [t \in Tokens |-> NoChat]
  /\ reminder = [u \in Users |-> "pending"]
  /\ \E habit \in HabitKinds :
       task = [habit |-> habit, done |-> FALSE, place |-> "here", active |-> TRUE]
  /\ logged = {}
  /\ members = Users
  /\ accounts = Users
  /\ channel = [u \in Users |-> Unverified(FirstChat[u])]
  /\ testing = [u \in Users |-> NoChat]
  /\ redeeming = [h \in Handlers |-> NoRedemption]
  /\ awards = [d \in Days \cup {"task"} |-> 0]
  /\ undone = [d \in Days \cup {"task"} |-> 0]
  /\ redeemed = [t \in Tokens |-> 0]
  /\ misdirected = {}
  /\ proof = [u \in Users |-> {}]
  /\ edits = 0

-----------------------------------------------------------------------------
(* Minting *)

Mintable(t) ==
  /\ cap[t] = "unminted"
  /\ Cardinality({s \in Tokens : cap[s] # "unminted"}) < MaxMinted

(* mintAckUrl: each attempt to deliver a reminder carries a token of its    *)
(* own, also when the reminder has been settled since it was queued.        *)
MintAck(t) ==
  /\ t \notin VerifyTokens
  /\ Mintable(t)
  /\ reminder[To[t]] # "none"
  /\ channel[To[t]].chat # NoChat
  /\ cap' = [cap EXCEPT ![t] = "live"]
  /\ sentTo' = [sentTo EXCEPT ![t] = channel[To[t]].chat]
  /\ UNCHANGED <<redeemed, misdirected, taskVars, accounts, channelVars,
                 redeeming, edits>>

(* Unconsumed test tokens of u, which a changed configuration invalidates.  *)
Outstanding(u) ==
  {t \in VerifyTokens : To[t] = u /\ cap[t] = "live"}

(* upsertChannel: the row and the tokens after u saves the chat c.          *)
SavedChannel(u, c) ==
  IF channel[u].chat = c THEN channel
  ELSE [channel EXCEPT ![u] = Unverified(c)]

CapsAfterSaveForgetful(u, c) == cap

CapsAfterSave(u, c) ==
  [t \in Tokens |->
     IF channel[u].chat # c /\ t \in Outstanding(u) THEN "gone" ELSE cap[t]]

SaveChannel(u, c) ==
  /\ edits < MaxEdits
  /\ edits' = edits + 1
  /\ u \in accounts
  /\ channel[u].chat # c
  /\ channel' = SavedChannel(u, c)
  /\ proof' = [proof EXCEPT ![u] = {}]
  /\ cap' = CapsAfterSave(u, c)
  /\ UNCHANGED <<sentTo, redeemed, misdirected, taskVars, accounts, testing,
                 redeeming>>

DeleteChannel(u) ==
  /\ edits < MaxEdits
  /\ edits' = edits + 1
  /\ channel[u].chat # NoChat
  /\ channel' = [channel EXCEPT ![u] = NoChannel]
  /\ proof' = [proof EXCEPT ![u] = {}]
  /\ UNCHANGED <<tokenVars, taskVars, accounts, testing, redeeming>>

(* testChannel: it saves and mints in one transaction, and then sends.      *)
TestChannel(u, c, t) ==
  /\ u \in accounts
  /\ testing[u] = NoChat
  /\ t \in VerifyTokens
  /\ To[t] = u
  /\ Mintable(t)
  /\ channel' = SavedChannel(u, c)
  /\ cap' = [CapsAfterSave(u, c) EXCEPT ![t] = "live"]
  /\ sentTo' = [sentTo EXCEPT ![t] = c]
  /\ testing' = [testing EXCEPT ![u] = c]
  /\ proof' = [proof EXCEPT ![u] = IF channel[u].chat = c THEN @ ELSE {}]
  /\ UNCHANGED <<redeemed, misdirected, taskVars, accounts, redeeming, edits>>

(* The send is accepted, and verified_at is set on whatever the row holds   *)
(* by then; or it is not.                                                   *)
TestAccepted(u) ==
  /\ testing[u] # NoChat
  /\ testing' = [testing EXCEPT ![u] = NoChat]
  /\ proof' = [proof EXCEPT ![u] = IF channel[u].chat = testing[u] THEN @ \cup {"sent"} ELSE @]
  /\ channel' = IF channel[u].chat = NoChat THEN channel
                ELSE [channel EXCEPT ![u].verified = TRUE]
  /\ UNCHANGED <<tokenVars, taskVars, accounts, redeeming, edits>>

TestRefused(u) ==
  /\ testing[u] # NoChat
  /\ testing' = [testing EXCEPT ![u] = NoChat]
  /\ UNCHANGED <<tokenVars, taskVars, accounts, channel, proof, redeeming, edits>>

-----------------------------------------------------------------------------
(* Redemption *)

(* The users a listener may act for: those whose channel is the chat that   *)
(* the button was pressed in.  The public link asks for none.               *)
BoundTo(c) == {u \in Users : channel[u].chat = c}

Allowed(via, c) == IF via = "telegram" THEN BoundTo(c) ELSE Users

(* What the listener found the token presented as.  A test that comes back  *)
(* through another provider's listener proves nothing of this channel.      *)
Binding(t, via) ==
  CASE To[t] \notin Allowed(via, sentTo[t])  -> "unbound"
    [] /\ To[t] \in Allowed(via, sentTo[t])
       /\ t \in VerifyTokens
       /\ via = "slack"                      -> "foreign"
    [] OTHER                                 -> "fits"

(* The unlocked reads.                                                      *)
Observe(h, t, via) ==
  /\ redeeming[h].step = "idle"
  /\ sentTo[t] # NoChat
  /\ redeeming' = [redeeming EXCEPT ![h] =
       [step |-> "observed", token |-> t, binding |-> Binding(t, via),
        place |-> task.place, result |-> "none"]]
  /\ UNCHANGED <<tokenVars, taskVars, accounts, channelVars, edits>>

ConsumableAgain(t) == cap[t] \in {"live", "consumed"}
Consumable(t) == cap[t] = "live"

(* A binding that does not fit keeps the consumption.                       *)
Misbound(h) == redeeming[h].binding # "fits"

(* A denial rolls back: the task moved or is not active, or the recipient   *)
(* may not act any more.                                                    *)
Denied(h) ==
  LET r == redeeming[h]
      u == To[r.token]
  IN  \/ u \notin accounts
      \/ /\ r.token \notin VerifyTokens
         /\ \/ task.place # r.place
            \/ ~task.active
            \/ u \notin members

AfterDenialConsumed(t) == [cap EXCEPT ![t] = "consumed"]
AfterDenial(t) == cap

(* completeForAck, by u: what is done and not yet awarded.                  *)
OwedDespiteLog(u) ==
  CASE u \in Viewers             -> {}
    [] u \notin Viewers /\ task.habit -> {LocalDay[u]}
    [] OTHER                     -> IF task.done THEN {} ELSE {"task"}

Owed(u) ==
  CASE u \in Viewers             -> {}
    [] u \notin Viewers /\ task.habit -> {LocalDay[u]} \ logged
    [] OTHER                     -> IF task.done THEN {} ELSE {"task"}

Award(owed) ==
  /\ task' = [task EXCEPT !.done = IF "task" \in owed THEN TRUE ELSE @]
  /\ logged' = logged \cup (owed \ {"task"})
  /\ awards' = [d \in DOMAIN awards |-> IF d \in owed THEN awards[d] + 1 ELSE awards[d]]
  /\ UNCHANGED undone

(* Its own reminder whatever its state, and every sibling that is not over. *)
Acked(u) ==
  [v \in Users |-> IF v = u \/ reminder[v] = "pending" THEN "acked" ELSE reminder[v]]

Complete(t) ==
  /\ Award(Owed(To[t]))
  /\ reminder' = Acked(To[t])
  /\ UNCHANGED <<channelVars, members>>

Verify(t) ==
  LET u == To[t]
  IN  /\ channel' = IF channel[u].chat = NoChat THEN channel
                    ELSE [channel EXCEPT ![u] =
                            [chat |-> channel[u].chat, verified |-> TRUE, ackVerified |-> TRUE]]
      /\ proof' = [proof EXCEPT ![u] = IF channel[u].chat = sentTo[t] THEN @ \cup {"acked"} ELSE @]
      /\ UNCHANGED <<testing, taskVars>>

(* The connection may be lost at the commit: then the caller sees a failure *)
(* of what was done.                                                        *)
Answer(h, result) ==
  \E told \in {result, "failed"} :
    redeeming' = [redeeming EXCEPT ![h] =
      [step |-> "answered", token |-> redeeming[h].token, binding |-> "fits",
       place |-> "here", result |-> told]]

Redeem(h) ==
  LET t == redeeming[h].token
  IN  /\ redeeming[h].step = "observed"
      /\ Consumable(t)
      /\ ~Misbound(h)
      /\ ~Denied(h)
      /\ cap' = [cap EXCEPT ![t] = "consumed"]
      /\ redeemed' = [redeemed EXCEPT ![t] = @ + 1]
      /\ IF t \in VerifyTokens THEN Verify(t) ELSE Complete(t)
      /\ Answer(h, "redeemed")
      /\ UNCHANGED <<sentTo, misdirected, accounts, edits>>

Burn(h) ==
  LET t == redeeming[h].token
  IN  /\ redeeming[h].step = "observed"
      /\ Consumable(t)
      /\ Misbound(h)
      /\ cap' = [cap EXCEPT ![t] = "consumed"]
      /\ misdirected' = misdirected \cup {t}
      /\ Answer(h, "rejected")
      /\ UNCHANGED <<sentTo, redeemed, taskVars, accounts, channelVars, edits>>

Deny(h) ==
  LET t == redeeming[h].token
  IN  /\ redeeming[h].step = "observed"
      /\ Consumable(t)
      /\ ~Misbound(h)
      /\ Denied(h)
      /\ cap' = AfterDenial(t)
      /\ Answer(h, "rejected")
      /\ UNCHANGED <<sentTo, redeemed, misdirected, taskVars, accounts,
                     channelVars, edits>>

Refuse(h) ==
  /\ redeeming[h].step = "observed"
  /\ ~Consumable(redeeming[h].token)
  /\ Answer(h, "rejected")
  /\ UNCHANGED <<tokenVars, taskVars, accounts, channelVars, edits>>

(* Anything else that throws rolls the transaction back.                    *)
Fail(h) ==
  /\ redeeming[h].step = "observed"
  /\ Answer(h, "failed")
  /\ UNCHANGED <<tokenVars, taskVars, accounts, channelVars, edits>>

(* The listener takes the answer, or its process dies.                      *)
Forget(h) ==
  /\ redeeming[h].step # "idle"
  /\ redeeming' = [redeeming EXCEPT ![h] = NoRedemption]
  /\ UNCHANGED <<tokenVars, taskVars, accounts, channelVars, edits>>

-----------------------------------------------------------------------------
(* What runs beside it *)

(* Its time is over; pruneAckCapabilities deletes the row sometime.         *)
Expire(t) ==
  /\ cap[t] = "live"
  /\ cap' = [cap EXCEPT ![t] = "gone"]
  /\ UNCHANGED <<sentTo, redeemed, misdirected, taskVars, accounts, channelVars,
                 redeeming, edits>>

ReminderExpires(u) ==
  /\ reminder[u] = "pending"
  /\ reminder' = [reminder EXCEPT ![u] = "expired"]
  /\ UNCHANGED <<tokenVars, task, logged, awards, undone, members, accounts,
                 channelVars, redeeming, edits>>

Edit ==
  /\ edits < MaxEdits
  /\ edits' = edits + 1
  /\ UNCHANGED <<accounts, channelVars, redeeming, sentTo, redeemed,
                 misdirected>>

(* What a member writes to the task in the app, under its locks, while no   *)
(* import blocks it.                                                        *)
InApp ==
  /\ Edit
  /\ task.active
  /\ UNCHANGED <<cap, members>>

(* task.complete, which rejects habits.                                     *)
CompleteInApp ==
  /\ InApp
  /\ ~task.habit
  /\ ~task.done
  /\ Award({"task"})
  /\ UNCHANGED reminder

(* task.update writes done as it is told, and knows no karma: what it marks *)
(* done earns none, and what it reopens keeps its own.                      *)
SetDone(done) ==
  /\ InApp
  /\ task.done # done
  /\ task' = [task EXCEPT !.done = done]
  /\ undone' = [undone EXCEPT !["task"] = IF done THEN @ ELSE @ + 1]
  /\ UNCHANGED <<reminder, logged, awards>>

(* habit.log of a day as done; a day that is done already is left alone.    *)
(* It asks for no list of habits.                                           *)
LogHabit(d) ==
  /\ InApp
  /\ d \notin logged
  /\ Award({d})
  /\ UNCHANGED reminder

(* habit.log of a done day as skipped, or habit.unlog, which deletes its    *)
(* row: the karma that the row records is revoked.                          *)
UndoHabit(d) ==
  /\ InApp
  /\ d \in logged
  /\ logged' = logged \ {d}
  /\ undone' = [undone EXCEPT ![d] = @ + 1]
  /\ UNCHANGED <<reminder, task, awards>>

(* reminder.ack: no token, the row is the caller's own.                     *)
AckInApp(u) ==
  /\ InApp
  /\ u \in members
  /\ reminder[u] # "none"
  /\ Award(Owed(u))
  /\ reminder' = Acked(u)

(* Any list of the workspace, one of habits or not.                         *)
MoveTask ==
  /\ InApp
  /\ \E habit \in HabitKinds :
       task' = [task EXCEPT !.place = CHOOSE p \in Places : p # @, !.habit = habit]
  /\ UNCHANGED <<reminder, logged, awards, undone>>

(* An import blocks the task, or its activation frees it.                   *)
SetActivation ==
  /\ Edit
  /\ task' = [task EXCEPT !.active = ~@]
  /\ UNCHANGED <<cap, reminder, logged, awards, undone, members>>

ChangeMembership(u) ==
  /\ Edit
  /\ u \in accounts
  /\ IF u \in members
     THEN /\ members' = members \ {u}
          /\ reminder' = [reminder EXCEPT ![u] = IF @ = "pending" THEN "expired" ELSE @]
     ELSE /\ members' = members \cup {u}
          /\ UNCHANGED reminder
  /\ UNCHANGED <<cap, task, logged, awards, undone>>

(* The account's reminders and capabilities go with it.                     *)
CapsAfterDeletionForgetful(u) == cap

CapsAfterDeletion(u) ==
  [t \in Tokens |-> IF To[t] = u /\ cap[t] # "unminted" THEN "gone" ELSE cap[t]]

DeleteAccount(u) ==
  /\ edits < MaxEdits
  /\ edits' = edits + 1
  /\ u \in accounts
  /\ accounts' = accounts \ {u}
  /\ members' = members \ {u}
  /\ reminder' = [reminder EXCEPT ![u] = "none"]
  /\ cap' = CapsAfterDeletion(u)
  /\ channel' = [channel EXCEPT ![u] = NoChannel]
  /\ proof' = [proof EXCEPT ![u] = {}]
  /\ UNCHANGED <<sentTo, redeemed, misdirected, task, logged, awards, undone,
                 testing, redeeming>>

-----------------------------------------------------------------------------
Next ==
  \/ \E h \in Handlers :
       \/ \E t \in Tokens, via \in Vias : Observe(h, t, via)
       \/ Redeem(h) \/ Burn(h) \/ Deny(h) \/ Refuse(h) \/ Fail(h) \/ Forget(h)
  \/ \E t \in Tokens : MintAck(t) \/ Expire(t)
  \/ \E u \in Users, c \in Chats : SaveChannel(u, c)
  \/ \E u \in Users, c \in Chats, t \in Tokens : TestChannel(u, c, t)
  \/ \E u \in Users : \/ DeleteChannel(u) \/ TestAccepted(u) \/ TestRefused(u)
                      \/ ReminderExpires(u) \/ ChangeMembership(u)
                      \/ DeleteAccount(u) \/ AckInApp(u)
  \/ \E d \in Days : LogHabit(d) \/ UndoHabit(d)
  \/ CompleteInApp
  \/ SetDone(TRUE) \/ SetDone(FALSE)
  \/ MoveTask
  \/ SetActivation

Spec == Init /\ [][Next]_vars

-----------------------------------------------------------------------------
(* Properties *)

(* Whatever handlers race, retry, fail or die with the same token in hand,  *)
(* it is redeemed at most once: the update that consumes it is the only     *)
(* judge (capability.ts, redeemAckCapability).                              *)
SingleUse == \A t \in Tokens : redeemed[t] <= 1

(* Several recipients hold tokens for one occurrence, every attempt carries *)
(* a new one, and the app completes it as well.  Each completion is awarded *)
(* once: a task that is completed again was reopened in between, as often   *)
(* as it was awarded, and the awards of a local day less the revocations    *)
(* agree with its habit log, also when a tap and an undo overtake each      *)
(* other (completeForAck, task.complete, habit.log, habit.unlog).           *)
AwardedOnce ==
  /\ awards["task"] <= undone["task"] + (IF task.done THEN 1 ELSE 0)
  /\ \A d \in Days : awards[d] = undone[d] + (IF d \in logged THEN 1 ELSE 0)

(* A token is used up without effect only if it was presented where it is   *)
(* not bound.  A denial, which may be put right, costs nobody a token.      *)
BurnedOnlyWhereUnbound ==
  \A t \in Tokens : cap[t] = "consumed" => redeemed[t] = 1 \/ t \in misdirected

(* The claim that the buttons of a channel work is about its present        *)
(* configuration: a test message sent to an earlier one proves nothing,     *)
(* however late its button is pressed.                                      *)
AckVerifiedIsCurrent ==
  \A u \in Users : channel[u].ackVerified => "acked" \in proof[u]

(* The redemptions keep the promise that listeners rely on.                 *)
TokenState(t) ==
  CASE cap[t] = "unminted"                              -> "unminted"
    [] cap[t] = "live"                                  -> "valid"
    [] cap[t] \in {"consumed", "gone"} /\ redeemed[t] > 0 -> "redeemed"
    [] OTHER                                            -> "void"

Promised ==
  INSTANCE Redemption WITH
    token <- [t \in Tokens |-> TokenState(t)],
    call <- [h \in Handlers |-> [token  |-> redeeming[h].token,
                                 result |-> redeeming[h].result]]

(* Every redemption is a call of the abstract promise: one effect a token,  *)
(* and none reported that did not take place.                               *)
ImplementsRedemption == Promised!Promise

(* What the comment on testChannel says: a channel shown as verified had    *)
(* the configuration that it has now tested.                                *)
VerifiedWasReached ==
  \A u \in Users : channel[u].verified => proof[u] # {}

=============================================================================
