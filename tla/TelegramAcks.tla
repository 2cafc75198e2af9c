---------------------------- MODULE TelegramAcks ----------------------------
(***************************************************************************)
(* The way a press of Telegram's Done button takes to its capability:      *)
(* server/notifications/telegram-poll.ts (getUpdates by an elected leader) *)
(* and telegram-webhook.ts (the provider posts), which share the handler   *)
(* of telegram-update.ts.  It drives the redemptions of Capabilities.      *)
(*                                                                         *)
(* The provider keeps an update until it is confirmed: by a getUpdates     *)
(* with a higher offset, or by a 200 to its post.  Offsets live in memory  *)
(* only.  Which of the two transports is in use is a setting that may      *)
(* change when the replicas are restarted.                                 *)
(***************************************************************************)
EXTENDS Redemption, FiniteSets, Sequences, SequencesExt

CONSTANTS
  NoReplica,
  MaxTaps,       \* bound on presses of a button
  MaxFaults,     \* bound on failures of any kind
  Batch          \* the limit of one getUpdates

Replicas == Handlers

ASSUME TelegramAssumption ==
  /\ NoToken \notin Tokens
  /\ NoReplica \notin Handlers
  /\ MaxTaps \in Nat
  /\ MaxFaults \in Nat
  /\ Batch \in Nat \ {0}

VARIABLES
  mode,          \* DITERO_TELEGRAM_MODE
  hook,          \* a webhook is registered at the provider
  updates,       \* the tokens of all presses; an update's id is its position
  waiting,       \* the updates the provider has not seen confirmed
  leader,        \* holder of the advisory lock
  reconciled,    \* replicas that have set or cleared the webhook
  poller,        \* memory of each replica's poller: offset and batch
  post,          \* the update a replica was posted, 0 for none
  outcome,       \* history: what the handlings of an update came to
  faults

providerVars == <<hook, updates, waiting>>
replicaVars == <<leader, reconciled, poller, post>>
telegramVars == <<mode, providerVars, replicaVars, outcome, faults>>
vars == <<promiseVars, telegramVars>>

Ids == 1..MaxTaps
Outcomes == {"none", "ignored", "redeemed", "rejected", "failed", "dropped"}
NoBatch == [offset |-> 0, batch |-> {}, highest |-> 0]

TypeOK ==
  /\ PromiseTypeOK
  /\ mode \in {"poll", "webhook"}
  /\ hook \in BOOLEAN
  /\ updates \in BoundedSeq(Tokens, MaxTaps)
  /\ waiting \subseteq 1..Len(updates)
  /\ leader \in Replicas \cup {NoReplica}
  /\ reconciled \subseteq Replicas
  /\ poller \in [Replicas -> [offset : 0..MaxTaps + 1, batch : SUBSET Ids,
                              highest : 0..MaxTaps]]
  /\ post \in [Replicas -> 0..MaxTaps]
  /\ outcome \in [Ids -> Outcomes]
  /\ faults \in 0..MaxFaults
  \* a replica redeems for a post or for its batch, and only then
  /\ \A r \in Replicas : call[r] # NoCall =>
       post[r] # 0 \/ poller[r].batch # {}

Init ==
  /\ PromiseInit
  /\ mode \in {"poll", "webhook"}
  /\ hook \in BOOLEAN
  /\ updates = <<>>
  /\ waiting = {}
  /\ leader = NoReplica
  /\ reconciled = {}
  /\ poller = [r \in Replicas |-> NoBatch]
  /\ post = [r \in Replicas |-> 0]
  /\ outcome = [i \in Ids |-> "none"]
  /\ faults = 0

-----------------------------------------------------------------------------
Lowest(ids) == CHOOSE i \in ids : \A j \in ids : i <= j
Highest(ids) == CHOOSE i \in ids : \A j \in ids : i >= j
FirstOf(n, ids) == {i \in ids : Cardinality({j \in ids : j <= i}) <= n}

(* Somebody presses the button of a message that was sent.                  *)
Tap(t) ==
  /\ Len(updates) < MaxTaps
  /\ token[t] # "unminted"
  /\ updates' = Append(updates, t)
  /\ waiting' = waiting \cup {Len(updates) + 1}
  /\ UNCHANGED <<promiseVars, mode, hook, replicaVars, outcome, faults>>

Fault == faults < MaxFaults /\ faults' = faults + 1

-----------------------------------------------------------------------------
(* The leader *)

Elect(r) ==
  /\ leader = NoReplica
  /\ poller[r].batch = {}
  /\ leader' = r
  /\ UNCHANGED <<promiseVars, mode, providerVars, reconciled, poller, post,
                 outcome, faults>>

(* The connection that holds the lock breaks; the replica notices later.    *)
LeaderLost ==
  /\ leader # NoReplica
  /\ Fault
  /\ leader' = NoReplica
  /\ UNCHANGED <<promiseVars, mode, providerVars, reconciled, poller, post, outcome>>

(* deleteWebhook or setWebhook, once for each bot and process.              *)
HookUntouched == hook
HookWanted == (mode = "webhook")

Reconcile(r) ==
  /\ leader = r
  /\ r \notin reconciled
  /\ poller[r].batch = {}
  /\ reconciled' = reconciled \cup {r}
  /\ hook' = HookWanted
  /\ UNCHANGED <<promiseVars, mode, updates, waiting, leader, poller, post,
                 outcome, faults>>

(* getUpdates: the offset confirms what is below it, and the answer is a    *)
(* batch of the rest.  It is refused while a webhook is set.                *)
GetUpdates(r) ==
  LET kept == {i \in waiting : i >= poller[r].offset}
      got  == FirstOf(Batch, kept)
  IN  /\ leader = r
      /\ mode = "poll"
      /\ ~hook
      /\ poller[r].batch = {}
      /\ waiting # {}
      /\ waiting' = kept
      /\ poller' = [poller EXCEPT ![r].batch = got,
                                  ![r].highest = IF got = {} THEN 0 ELSE Highest(got)]
      /\ UNCHANGED <<promiseVars, mode, hook, updates, leader, reconciled, post,
                     outcome, faults>>

-----------------------------------------------------------------------------
(* Handling an update *)

Busy(r) == post[r] # 0 \/ poller[r].batch # {}
Current(r) == IF post[r] # 0 THEN post[r] ELSE Lowest(poller[r].batch)

(* The offset moves only when all of a batch was handled: it is what        *)
(* confirms the batch, with the next getUpdates.                            *)
OffsetAfterFirst(p, i) == [p EXCEPT !.batch = @ \ {i}, !.offset = p.highest + 1]

OffsetAfter(p, i) ==
  IF p.batch = {i}
  THEN [offset |-> p.highest + 1, batch |-> {}, highest |-> 0]
  ELSE [p EXCEPT !.batch = @ \ {i}]

(* A post is answered with a 500 if the redemption threw, which makes the   *)
(* provider post it again.                                                  *)
AnsweredAlways(result) == TRUE
AnsweredOk(result) == result # "failed"

(* What is known of an update after one more handling.  A failure is        *)
(* forgotten beside a decision; one in the hands of the poller drops the    *)
(* update, which will be confirmed with its batch.                          *)
Settled(o) == o \notin {"none", "failed"}

Known(r, result) ==
  CASE result # "failed"                -> result
    [] /\ result = "failed"
       /\ Settled(outcome[Current(r)])  -> outcome[Current(r)]
    [] OTHER -> IF post[r] # 0 THEN "failed" ELSE "dropped"

(* How a replica is done with its update.  The poller goes on with its      *)
(* batch whatever the outcome.                                              *)
Done(r, result) ==
  LET i == Current(r)
  IN  /\ outcome' = [outcome EXCEPT ![i] = Known(r, result)]
      /\ IF post[r] # 0
         THEN /\ post' = [post EXCEPT ![r] = 0]
              /\ waiting' = IF AnsweredOk(result) THEN waiting \ {i} ELSE waiting
              /\ UNCHANGED poller
         ELSE /\ poller' = [poller EXCEPT ![r] = OffsetAfter(@, i)]
              /\ UNCHANGED <<waiting, post>>
      /\ UNCHANGED <<mode, hook, updates, leader, reconciled>>

(* handleCallback: the channels bound to the chat are looked up, and        *)
(* without any there is nothing to redeem.                                  *)
Ignore(r) ==
  /\ Busy(r)
  /\ call[r] = NoCall
  /\ Done(r, "ignored")
  /\ UNCHANGED <<promiseVars, faults>>

StartRedeem(r) ==
  /\ Busy(r)
  /\ Call(r, updates[Current(r)])
  /\ UNCHANGED telegramVars

(* A redemption that throws is one of the faults that are bounded.          *)
Decide(r) ==
  /\ Effect(r) \/ NoEffect(r)
  /\ IF call'[r].result = "failed" THEN Fault ELSE UNCHANGED faults
  /\ UNCHANGED <<mode, providerVars, replicaVars, outcome>>

FinishUpdate(r) ==
  /\ Answered(r)
  /\ Done(r, call[r].result)
  /\ Forget(r)
  /\ UNCHANGED faults

(* A poller that has noticed the loss of its lock drops the rest, but looks *)
(* for that between two updates only.                                       *)
BetweenOrNot(r) == TRUE
BetweenUpdates(r) == call[r] = NoCall

Abandon(r) ==
  /\ leader # r
  /\ post[r] = 0
  /\ poller[r].batch # {}
  /\ BetweenUpdates(r)
  /\ poller' = [poller EXCEPT ![r] = [@ EXCEPT !.batch = {}, !.highest = 0]]
  /\ UNCHANGED <<promiseVars, mode, providerVars, leader, reconciled, post,
                 outcome, faults>>

(* The provider posts an update; it may post one again before it has the    *)
(* answer to the first.                                                     *)
Deliver(r, i) ==
  /\ hook
  /\ i \in waiting
  /\ ~Busy(r)
  /\ post' = [post EXCEPT ![r] = i]
  /\ UNCHANGED <<promiseVars, mode, providerVars, leader, reconciled, poller,
                 outcome, faults>>

-----------------------------------------------------------------------------
(* Replicas die, and all are restarted when the transport is changed.       *)

Dead(R) ==
  /\ call' = [r \in Replicas |-> IF r \in R THEN NoCall ELSE call[r]]
  /\ poller' = [r \in Replicas |-> IF r \in R THEN NoBatch ELSE poller[r]]
  /\ post' = [r \in Replicas |-> IF r \in R THEN 0 ELSE post[r]]
  /\ leader' = IF leader \in R THEN NoReplica ELSE leader
  /\ reconciled' = reconciled \ R

Crash(r) ==
  /\ Fault
  /\ Dead({r})
  /\ UNCHANGED <<token, mode, providerVars, outcome>>

SwitchMode ==
  /\ Fault
  /\ mode' = IF mode = "poll" THEN "webhook" ELSE "poll"
  /\ Dead(Replicas)
  /\ UNCHANGED <<token, providerVars, outcome>>

-----------------------------------------------------------------------------
Next ==
  \/ Change /\ UNCHANGED telegramVars
  \/ \E t \in Tokens : Tap(t)
  \/ LeaderLost
  \/ SwitchMode
  \/ \E r \in Replicas :
       \/ Elect(r) \/ Reconcile(r) \/ GetUpdates(r) \/ Ignore(r) \/ StartRedeem(r)
       \/ Decide(r) \/ FinishUpdate(r) \/ Abandon(r) \/ Crash(r)
       \/ \E i \in Ids : Deliver(r, i)

(* Replicas go on and Telegram repeats its posts.  Nothing is assumed of    *)
(* the people who press, nor of the redemptions.                            *)
Fairness ==
  \A r \in Replicas :
    /\ SF_vars(Elect(r))
    /\ WF_vars(Reconcile(r)) /\ WF_vars(GetUpdates(r)) /\ WF_vars(Abandon(r))
    /\ WF_vars(Ignore(r) \/ StartRedeem(r) \/ Decide(r) \/ FinishUpdate(r))
    /\ \A i \in Ids : WF_vars(mode = "webhook" /\ Deliver(r, i))

Spec == Init /\ [][Next]_vars /\ Fairness

-----------------------------------------------------------------------------
(* Properties *)

(* Whatever offset or answer confirms a press to the provider, which then   *)
(* forgets it, a replica had decided it or its poller had dropped it after  *)
(* a redemption that failed: no press is confirmed away that nobody had     *)
(* tried, although leaders lose their lock and die in the middle of a       *)
(* batch, and none because a post of it failed.                             *)
OnlyThePollerDrops ==
  \A i \in 1..Len(updates) : i \notin waiting => Settled(outcome[i])

(* What the comments of handleCallback say, that a redemption which threw   *)
(* is recovered by a redelivery: no press is confirmed away undecided while *)
(* its token could still be redeemed.                                       *)
FailedTapIsRecovered ==
  \A i \in 1..Len(updates) :
    i \notin waiting /\ outcome[i] = "dropped" => token[updates[i]] # "valid"

(* Every press of a button is dealt with in the end, through restarts, a    *)
(* change of leader and a change of the transport.                          *)
EveryTapIsConfirmed ==
  \A i \in Ids : i \in waiting ~> i \notin waiting
=============================================================================
