# Verification of ditero

TLA+ specifications of the parts of ditero (a self-hosted task manager with
reminders, written in TypeScript on PostgreSQL) whose correctness depends on
the order in which several processes act. Paths are relative to the repository.

## The system

| Component | State | Operations | What makes it hard | What makes it correct |
| --- | --- | --- | --- | --- |
| Reminder scheduler (`src/server/notifications/scheduler.ts`, `producer-authority.ts`; `src/domain/escalation*.ts`) | `reminder_state`, a row per (task, occurrence, recipient); an advisory lock | per tick: create, wake, repeat, hand off, expire | candidates are read long before their transactions; a handoff is two transactions; the leader dies | no reminder is stranded, repeated without end, sent after its acknowledgement, or passed round |
| Outbox and delivery worker (`outbox.ts`, `worker.ts`, `src/domain/notification-retry.ts`) | `notification_outbox`, `delivery_attempt`, `notification_channel` | enqueue; per tick: reclaim, prune, claim, send, complete | every replica runs one; crashes, hangs, late answers | at-least-once with bounded duplicates, a complete history, an end for every row |
| Acknowledgement (`capability.ts`, `src/zero/mutators.ts` `reminder.ack`, `src/domain/ack-complete.ts`) | `ack_capability`, `rate_bucket` | mint, redeem, prune | a public route; two redeemers; consumed before it is validated; several tokens an occurrence | single use, bound to its recipient, each completion awarded once, nothing lost by a denial |
| Mutations and memberships (`src/zero/`) | tasks, lists, memberships | edits, completion, removal | they race with both loops | the authority is checked under the same locks as the write |
| Adapters and listeners (`dispatch.ts`, `channels.ts`, Slack, Discord, Telegram, mail) | `notification_channel`, Telegram's offset in memory and updates at the provider, mail budget | save, test, verify; poll or be posted, redeem | the offset confirms what is below it; a leader is replaced in the middle of a batch; a test is awaited while the channel is edited | no press is confirmed away untried, each result has one retry class, a channel is marked as proved only if it was |
| Attachments (`src/server/attachments/`) | `attachment`, the blob store | reserve, transfer, finalize, abort, delete, sweep | two stores without a common transaction; transfers and the sweep hold no lock meanwhile | no row without its blob, no blob for ever |
| End-to-end keys (`src/server/e2e/`, `src/web/lib/e2e/`) | `workspace_key`, `membership_key`, `key_grant_request`, `user_key`; a keyring per device | provision, request, grant, refuse, rotate, replace an identity | wraps are sealed to keys read earlier; rotation races enrolment and removal | one active version, no fork, no wrap on a dead identity, no file under a key that left with a member |
| Import and export (`src/server/portability/`) | `import_run`, plan, ledger, activation guard | plan, freeze, apply, activate, recover | long transactions over many tables, resumed later | an import is applied once, and notifies nobody of the past |
| Public API (`src/server/public-api/`) | tokens, webhooks, idempotency receipts | create, deliver, update, complete, delete | retries that overlap the first call; observations that go stale | a retried write happens once, as it was observed and with rights; the answer is true |
| Native push and relay (`src/server/native-push/`, `apps/push-relay/`) | registrations, proofs | register, renew, recover, send | two servers | only a proven instance may send |
| Pure domain (`src/domain/`) | none | recurrence, quiet hours, reminder window, karma | calendar arithmetic | agreement with a reference definition |
| Authentication, clients, deployment | sessions; caches | sign in, synchronise, render | offline queues | out of scope so far |

The scheduler puts rows into the outbox in the transaction that moves the
reminder; the worker never reads a reminder. An acknowledgement settles
reminders and completes the task; what the outbox already holds is still sent.
The worker mints a capability for each delivery; the listeners, the Telegram poller
and the public link redeem it. A removal of a member settles both in one transaction; the same transaction takes
the member's key wraps and obliges the workspace to rotate its key, and until it has
no attachment is reserved or committed.

## Modules

| Module | Models |
| --- | --- |
| `Outbox` | `enqueueOutbox` and `workerTick`, statement by statement |
| `Delivery` | the promise of the outbox: what a notification is owed |
| `OutboxDelivery` | the refinement mapping from `Outbox` to `Delivery` |
| `OutboxProofs` | theorems about `Outbox` and the refinement |
| `Reminders`, `RemindersProofs` | the scheduler's tick for one occurrence, and what races with it |
| `Ladder` | the promise of the scheduler: each recipient climbs its ladder once |
| `Capabilities`, `CapabilitiesProofs` | the tokens behind Done buttons and in test messages: minted, redeemed, denied; the channels they prove |
| `Redemption` | the promise of a redemption: one effect a token, and a success that is true |
| `TelegramAcks`, `TelegramAcksProofs` | both Telegram transports, composed with `Redemption` |
| `Attachments`, `AttachmentsProofs`, `AttachmentsOrphanProofs` | the rows of files, the blob store, and the sweep between them |
| `ApiWrites`, `ApiWritesProofs` | the idempotency protocol of the public API's writes of tasks |
| `Idempotency` | the promise of an idempotency key: done once, and the answers true |
| `WorkspaceKeys`, `WorkspaceKeysProofs` | the data keys of one shared workspace: server transactions and the clients that call them |
| `MC_Outbox`, `MC_Reminders`, `MC_Capabilities`, `MC_TelegramAcks`, `MC_Attachments`, `MC_ApiWrites`, `MC_WorkspaceKeys` | constants for TLC; the `.cfg` files name the bounds |

Four abstract specifications are refined: `Outbox` implements `Delivery`, `Reminders`
implements `Ladder`, `ApiWrites` implements `Idempotency`, and `Capabilities` implements
`Redemption`, upon which `TelegramAcks` is built. What
`TelegramAcks` shows of its redemptions therefore needs no more of them than what
`Capabilities` keeps.

Some definitions are followed by a variant of them that no action uses
(`FenceById`, `UnchargedLease`, `LostNever`, ...): each is a plausible mistake in
the code the definition models. `PROJECT.json` pairs each with the property it
breaks, so that a property that nothing can break does not stay.

### Outbox

A table column is a variable, a function of the row. A SQL statement or
transaction is one action. `lane[r]` is what replica `r` holds in memory during
its tick: the claimed rows with the attempts the claim returned, and for each of
them whether it waits for a lane, is being sent, or has a result that is not
recorded yet. `pc[r]` is the position in the tick. A crash loses both.

- `EnqueueReadsCap`, `EnqueueInserts`, `EnqueueInsertsNothing`: the one statement
  of `enqueueOutbox`, split where its snapshot is taken, because under READ
  COMMITTED other transactions commit between the count and the insert.
  `EnqueueCommits`, `EnqueueAborts`: the end of the caller's transaction, which
  inserts up to `RowsPerTransaction` rows: one for each channel of a reminder, one for
  each device of native push, and, for the requests of a key, those of several
  recipients. Its own rows count at the cap at once, those of others when they commit;
  callers share no lock.
- `ReclaimExpired`, `PruneTerminal`, `ClaimBatch`: the statements of a tick. The
  choice of rows under a batch limit, and the jitter, are nondeterministic.
- `StartSend`, `AdapterAnswers`, `DeadlineExceeded`: a lane of `dispatchBatch` and
  the race of `sendWithDeadline`. `accepted` and `late` are the provider's side:
  the attempt numbers of requests it accepted, and of requests nobody waits for.
  `LateAcceptance` lets one of those arrive at any later time, or never.
- `CompleteDelivery`: the update behind the fence, the attempt history, and the
  channel's health in one transaction. `CompletionFails`: it throws.
- `TickFails`, `Crash`, `Restart`: an exception before dispatch; a process that
  dies anywhere; a restart under the same replica id.
- `MemberRemoved`: the part of a member's removal that gives up live rows.

Time is relative. A stored instant is the number of ticks until it or since it,
counted only as far as a guard can tell it apart; `Tick` moves all of them. This
keeps the state space finite with no bound on the number of ticks.

Provider results are the retry classes that `classifyRetry` tells apart; 5xx,
unknown statuses and transport failures share one class because the worker does
the same for all three. A row of native push is an ordinary row here, but for one
thing: the code keeps no channel health for it (`worker.ts:279`), so that
`HealthFollowsVerdict` speaks of the other kinds.

### Reminders

One occurrence of one task that does not recur. `row[u]` is the `reminder_state`
row of recipient `u`; a timestamp is null, ahead of the clock or past it. `policy` are
the policy columns of the task (an interval or none, `maxRepeats`, the fallback, urgent),
`defaults` each user's own; every transaction resolves one over the other anew, as
`resolveEscalationPolicy` does. `occurrence` is whether the task's schedule still yields
the occurrence and its window is open. `scan` is the leader's memory: its phase, the candidates it has read, and the handoff
between its two transactions. `queued` is a history variable: every fire count
under which something was ever queued for a recipient.

- `BeginScan`, `CreateReminder`, `LoadSweepRows`, `SweepWake`, `SweepEscalate`,
  `EscalateToFallback`, `SkipCandidate`, `EndScan`: the tick. A transaction reads
  `scan.todo` and re-checks under its locks; the guards `MayCreate`, `MayWake`,
  `MayEscalate`, `MayHandOff` are those re-checks.
- `LeaderLost`: the process or its session lock goes; the next tick starts anew.
- `Ack`: the in-app mutation and the redeemed capability, one transaction each
  that locks the task against the scan's transactions.
- `SetDone`, `Reassign`, `SetPolicy`, `SetDefaults`, `Reschedule`, `RemoveMember`,
  `AddMember`: the edits that change what the scan reads of the task and of its people.
  `task.update` writes several columns at once; the model sets the policy columns in one
  edit and `done` or the schedule in others.
- `WindowCloses`, `TimerExpires`, `PruneOutbox`: time, and the worker.

A policy that is edited reaches a waiting row only when its timer is due. A row that was fired
without an interval has no next attempt, and setting `repeatEveryMin` later gives it none:
no branch of the sweep selects it again, and it waits for an acknowledgement alone.
`TimersFitStatus` therefore does not say that a waiting row has a timer;
`TimerFollowsPolicy` says what decides whether it has. A `maxRepeats` that is lowered below the
fire count makes a row expire without a handoff, since `nextEscalation` compares the two
for equality; `Ladder` has this as `GiveUp` above the limit.

Edits are bounded by `MaxEdits` for TLC, and the theorems hold for any
bound; scans, losses of the leader, timers and acknowledgements are not bounded. A user with several channels is abstracted to
whether any of the inserts succeeded, which is all that `enqueue` acts on.

`ImplementsLadder` shows of a row where its reminder stands (`Stage`) and how often its
recipient was tried, of the task whether it is done, and who is a member; nothing of the
scan, the timers or the queue. A try whose inserts were all refused counts as one. The
limit of a user is a variable of `Ladder`: it changes with every edit of a policy, and what
is promised refers to the limit at the time of a try.

### Capabilities

One occurrence of one task, and a channel per user. `cap[t]` is the `ack_capability`
row of token `t`. A token is never drawn twice, so what it is for is a constant.

- `MintAck`: the worker mints for each delivery, so recipients and repeats have tokens
  of their own for one occurrence. `TestChannel` saves and mints in one transaction and
  sends after it; `TestAccepted`, `TestRefused` are the end of that send.
- `Observe`, then `Redeem`, `Burn`, `Deny`, `Refuse` or `Fail`: a redemption reads the
  token, its binding and the place of the task without locks and decides under locks
  later. The transaction consumes the token first and validates after: a wrong binding
  commits the consumption (`Burn`), a denial rolls it back (`Deny`). `Answer` may tell
  of a failure although the commit took place: the connection was lost at it.
- `Complete` and `Verify` are what `completeForAck` and a test's token do.
- `CompleteInApp`, `SetDone`, `LogHabit`, `UndoHabit`, `AckInApp`, `MoveTask`: what members
  write in the app meanwhile, under the task's locks and while no import blocks it
  (`InApp`). A task may be moved to a list of habits and back.
- `SaveChannel`, `DeleteChannel`, `SetActivation`, `ChangeMembership`, `DeleteAccount`,
  `Expire`, `ReminderExpires`: the rest that runs beside a redemption.

`ImplementsRedemption` maps the state of a row, and what became of it, to the token of
`Redemption`.

Reopening a task revokes no karma (`task.update` knows none), and a token that is still
out, or the app, then completes it again and earns another award: the code awards
completions, not occurrences. Undoing a habit does revoke (`habit.log`, `habit.unlog`).
`undone` counts both, and `AwardedOnce` says that no completion is awarded twice: a task
has at most one award more than it was reopened, and the awards of a day, less what was
revoked, agree with its log, whichever taps, logs and undos overtake each other. The task
does not recur here. A recurring one is advanced instead of closed, and then a second
recipient's token for the same occurrence advances it again, since `completeForAck` does
not compare the occurrence with the due date; `AwardedOnce` does not speak of this.

### TelegramAcks

`updates` are the presses, an update's id its position; `waiting` are those the provider
has not seen confirmed. `poller[r]` is the memory of the poll loop: its offset and the
rest of its batch. Which transport is in use is `mode`, a setting; `hook` is whether the
provider has a webhook registered.

- `Elect`, `LeaderLost`: the advisory lock; its connection can break while the replica
  goes on. `Reconcile` sets or clears the webhook, once a process and bot.
- `GetUpdates` confirms below its offset and reads a batch. `Deliver` posts an update, to
  any replica and again before the first post is answered.
- `Ignore`, `StartRedeem`, `Decide`, `FinishUpdate`: one update, handled. `Decide` is the
  promise's `Effect` or `NoEffect`. A post whose redemption threw is answered with a 500
  and repeated; the poller goes on with its batch whatever the outcome, and its offset
  will confirm the update. `outcome` remembers what is known of an update (`Known`):
  one whose redemption failed in the hands of the poller, and that nobody decided, is
  `dropped`. `OnlyThePollerDrops` says that nothing else is confirmed away undecided;
  that a dropped press is one that comments promise to recover is a finding below.
- `Abandon`: a poller notices between two updates that it is not the leader any more.
  `Crash`, `SwitchMode`: memory is lost; a changed setting restarts all.

### Attachments

A file has a content and perhaps a thumbnail. `row[f]` is the `attachment` row, `blob[k]`
the object under key `k` and whether its length is the declared one. `handler[h]` is a
request between its transactions, `sweep` the candidates the sweep has read, `retryQueue`
the order in which failed deletions are retried.

- `Reserve`; `ClaimTransfer`, `Put`, `RecordTransfer`: a transfer claims the row under a
  token and a lease and draws a key of its own, puts the object with no lock held, and
  records it if the row is still its own. `RecordFails` and `ReleaseClaim`: the reply to
  the commit was lost, and another transaction finds out what happened. `CleanUp` are the
  deletions a request ends with; the store may fail any of them.
- `Finalize`, `AbortUpload`, `DeleteFile`; `ClaimInvalid`, `FinalizeInvalid`: what a
  request finds expired or forbidden it aborts.
- `RetireParent`, `DeleteParent`: the deletion of a task or comment retires its committed
  files in a statement that a finalization may still follow; `LoseAccess`, `DeleteAccount`.
- `LoadCandidates`, `SweepSkips` and the actions after it: candidates are read in an
  order and a batch, and each is decided again when its turn comes; blobs go before the
  row. Instants are relative, as in `Outbox`.

### ApiWrites

One account, its token and its webhook, and one task. `call[c]` is a request in progress;
`locks` are the row locks its transaction holds. A call goes through `LookForReceipt`,
`Discover`, `Lock`, `LockActor`, `Decide` and `Commit`, in this order, as `tokens.ts` and
the operations in `write.ts`, `update.ts`, `complete.ts`, `delete.ts`, `webhooks.ts` do;
what it has read before `Lock` may be stale, and what `Lock` holds cannot change before
the end of the transaction. `Fail` is any statement that throws; `Commit` may succeed
and be answered with a failure. `Edit`, `ChangeRole`, `Revoke`, `DeleteAccount` are the
others, who wait for the lock of the row they change.

A body is an operation with the state of the task that its caller observed; equal bodies
have equal fingerprints. The observation of a deletion also covers the children of a
task, which the model folds into the observed title.

`ImplementsIdempotency` shows of a call only what its client asks and is told, and of the
tables only what was executed under each key. An answer means that the request was done
(`Meaning`: success, first or replayed, and the 410 of a replay whose task is gone since), that it was not (a changed task, a key already taken), or says nothing of it.

### WorkspaceKeys

The tables of one shared workspace. `wrap[u][v]` is the `membership_key` row of user
`u` for version `v`: which key it wraps and to which identity. A commitment determines
its key, so both are the number of the draw that made the key; a public key is the
number of its user's identity. `call[u]` is what a client of `u` computed from what it
read and has not posted yet; `session[u]` is the identity whose private key that client
holds. `knows[u]` is a history variable, what `u` could ever open.

- `StartProvision`/`Provision`, `StartGrant`/`Grant`, `StartReport`/`Report`,
  `StartRotate`/`Rotate`, `StartReplace`/`ReplaceIdentity`, `StartUpload`/`Upload`: a
  client reads and seals, and later one transaction decides. The guards `MayProvision`,
  `MayGrant`, ... are what that transaction checks; `Refuse` is every other answer, all
  of which leave the tables alone.
- `StartRequest`/`Request` is a single statement, split between its snapshot and its
  unique-index check, because nothing serialises it with a grant or a rotation.
- `Join`, `Leave`, `Enroll`, `Unlock`: an accepted invitation, a removal, a first
  identity, and a client that takes notice of the present identity.

The other transactions are atomic in the model because the code serialises them:
provisioning, rotation and removal lock the workspace row (accepting an invitation
and both ends of an upload share it), and whatever writes or deletes a wrap holds its
recipient's identity lock, which the replacement of an identity takes exclusively. A
grant does not lock the workspace row; its `for key share` of the version does not wait
for the update that retires it. A grant that overlaps a rotation can thus still give a
*member* the version that is being retired. No property here depends on it.

A client seals anew for each post, so a grant that is posted twice meets a different
wrap (`conflict`); the answer `already` for an identical wrap does not occur. Users
have one client each in the model; that a second device replaced the identity is the
disjunct of `ReplaceIdentity` that leaves `session` alone. Roles are fixed. The invite
fast path, which stores the newcomer's wrap itself, and account deletion are left out.
No client of the repository calls the replacement of an identity yet; `StartReplace`
does what its route asks for.

## What TLC checks

| Run | Instance | Shows |
| --- | --- | --- |
| `outbox_fence` | 1 row, 2 replicas, 2 attempts, all retry classes that matter | types, history, one request per attempt, terminal rows final, channel health; that `Outbox` implements `Delivery`; and that every queued row ends |
| `outbox_cap` | 5 rows, 2 transactions of 2 rows each, cap 2, no worker (rows go by removals) | the race at the cap costs at most the rows that the other transaction can insert |
| `reminders_ladder` | 2 users, caps of 2 sends and less, 5 policies, 2 edits of any kind | the safety of the ladder, the handoff and the acknowledgement; a status tells what was queued, and timers what was decided; and that `Reminders` implements `Ladder` |
| `reminders_chain` | 2 users, each the default fallback of the other; no edits | a disagreement between documentation and code, see below |
| `capabilities` | 2 recipients, 2 handlers, 2 chats; 2 of 3 tokens (two acks and a test); 1 edit; task and habit | one effect a token, one award a completion, a denial costs nothing, a proved channel was proved; and that `Capabilities` implements `Redemption` |
| `capabilities_verified` | the same | a disagreement between comments and code, see below |
| `telegram` | 2 replicas, 2 presses of one button, 1 fault, batches of 2 | no press is confirmed away that nobody decided, but one that the poller tried; each is confirmed in the end |
| `telegram_dropped` | 1 press, 1 fault | a disagreement between comments and code, see below |
| `attachments` | 1 file of two parts, 2 requests, 3 transfers, 2 faults | what is committed can be downloaded; an object that nobody collects was left by a fault; nothing comes back |
| `attachments_sweep` | 1 file beside one the store cannot delete, 1 request, 1 fault, batches of 1 | what is not committed is swept in the end |
| `api_writes` | 2 calls at once, 3 in all, under one key | retries are idempotent, answers true, observations and rights are those of the commit; and that `ApiWrites` implements `Idempotency` |
| `keys` | 2 owners, one of whom leaves and returns; 2 versions, 2 identities each, 3 keys drawn | keys do not fork or get lost on a retired identity; one active version; no file is committed under a key that left with a member |

Why the bounds are enough. A row of the outbox interacts with another one only
through the batch, the lanes and the cap. A row that waits for a lane behind another
one is also a row whose lane has not started yet, which one row shows; the theorems
cover any number of rows. Two replicas suffice for a claim, its expiry and a second claim; a
third one could only repeat the second. Two attempts have a first and a last one, and the
theorems cover any number. At the cap, two transactions of two rows show the overshoot of
several rows at once; a third one adds the same again. In the ladder two users are the
recipient and the fallback (and the siblings of an acknowledgement); three are needed only
for a longer chain of personal fallbacks, of which the theorems speak.

Two recipients and two handlers have every race of `Capabilities`: for one token, and for
two tokens of one occurrence. A test's token and an acknowledgement never meet in one
transaction. One edit lies between any two steps of a redemption; a second one only
repeats what a redemption that starts later sees. For Telegram, two presses are a batch
with a rest, and one fault is a leader replaced in the middle of it, a crash, a change of
the transport or a redemption that throws. Liveness is checked for one fault; safety is a
theorem for any number of faults, replicas and presses.
Attachments interact through the sweep's batch only, which is the second run; three
transfers are one that is overtaken, the one that overtakes it, and the thumbnail.
Under one idempotency key two calls at once are the call and its retry, and a third one
comes after both; other keys touch neither the receipt nor the executions of this one,
which the theorems confirm for any number.

For the keys, two owners are the two that race to mint or to rotate, the granter and
the recipient, and the one who is removed and the one who stays; three draws allow a
lost race and still a rotation. A seat asks for a version twice, because a wrap that was
refused and granted again is another row than the one a device may have rewrapped.

Deadlock is checked in the runs of `Outbox`, `Reminders` and `ApiWrites`: the clock and the
scan go on, and others edit the task. The other systems may stop: nobody has to call, to
press or to upload.

### Fairness

`Outbox`: the clock is weakly fair; the steps of a lane are, because an `await`
settles at the latest at its deadline; a dead replica is restarted; the statements
of a tick are strongly fair: croner starts ticks for ever and a statement that is
run again and again succeeds sometime. Nothing is assumed of the provider's answers, nor
of the number of crashes, with one exception: a mail whose budget is used up is deferred
without a charge, and nothing in the code bounds how often (`notification-retry.ts:131`).
`MaxDefers` does: `DeliveredOrGivenUp` assumes that the mail budget leaves room in the end,
and would fail without this.

`Reminders` (only for `reminders_chain`, so that its counterexample is no scan that just
stops): timers and the start of a scan are weakly fair, and a transaction or
a step of the scan that is enabled again and again succeeds sometime, although the
leader may be lost between any two of them. Nothing is assumed of users.

`TelegramAcks`: replicas are strongly fair in taking the free lock, for which all of them
keep asking, and weakly fair in everything a loop does after it; Telegram repeats a post
that was not answered with a 200, as long as the webhook mode is on. Faults are bounded:
a leader that dies after every batch would never confirm one. Nothing is assumed of
those who press, nor that a redemption succeeds.

`Attachments`: the clocks go on, the deletion of a parent that was begun ends, and the
sweep's loop does. Nothing is assumed of requests, which may stop anywhere, nor of the
objects the store cannot delete.

## Where the documentation and the code differ

*A channel is verified by a test of another configuration* (`capabilities_verified`).
`testChannel` awaits the send outside any transaction and then sets `verified_at` on
whatever the row holds (`channels.ts:628`). If the channel is saved with another target
meanwhile, which clears both stamps as the comments at `:409-411` and `:529-531` ask for,
the success of the old test marks the new target as verified. `ack_verified_at` does not
have this fault (`AckVerifiedIsCurrent`, also a theorem): the save deletes the
outstanding token.

*A fallback with a fallback of its own* (`reminders_chain`). When the repeats of a fallback
recipient are exhausted and its own defaults name another member, the sweep decides on a
handoff that the second transaction always refuses, because the origin is no base recipient
(`producer-authority.ts:547`). The row stays pending and due and is picked up by every tick.
The documented end (`docs/notifications.md:263`) is `expired`, and the comment at
`escalation.ts:19-24` says that the sibling of a handoff has no fallback at all. The same
holds for a recipient who was unassigned after the notification.

*A poller does not repeat* (`telegram_dropped`). The poller ignores the outcome of an update
(`telegram-poll.ts:241-250`), so one whose redemption threw is confirmed with its batch while
its token could still be redeemed. `telegram-update.ts:200-201` and `:235-236` rely on a
redelivery, which only a webhook has.

Seen while modelling, with no run of their own:

1. *Exhausted rows.* `docs/notifications.md:283-286` and `:327-328` say a row is
   `abandoned` after its last attempt. A failed last attempt makes it `failed`
   (`notification-retry.ts:139`); `abandoned` is written only by the lease reclaim and by
   a member's removal.
2. *Repeats.* `maxRepeats` counts sends, the first included; the documentation says
   repeats. Without an interval a reminder is "left to expire", and never does.
3. *Nobody to tell.* A recipient without any channel has nothing queued and its reminder
   stays pending, because the check for a missing outbox row runs only after a refusal;
   `StatusTellsQueue` therefore speaks of `Reachable` users, who are fixed: a user who adds
   or deletes channels meanwhile is such a case again.
4. *Pending without need.* A comment (`grants.ts:496-498`) calls a pending request of a
   member who holds the key unreachable. A request whose snapshot precedes a grant is
   inserted after it. Nothing completes it (a further grant is a `conflict`) until the
   version is retired: the member's list shows it as waiting.
5. *A refusal of a right key.* A recipient refuses a wrap that fails its commitment, a
   comment says. The client also refuses one addressed to another identity than its own,
   which is what every wrap looks like to a device that has not noticed the replacement of
   the identity, and the refusal deletes the wrap. It can be requested again only while
   another member holds that version.
6. *An overlapping retry of a deletion.* If a second call with the same key looks for the
   receipt before the first one commits and reads the task after it (`delete.ts:113`,
   `:174-190`), it is answered 404. `docs/runbooks/public-api.md:406` promises the original
   result to a matching replay, and `tests/integration/public-api-deletion.test.ts:363-369` wants
   200 twice. No property here is violated: a 404 does not claim that nothing was done.

## What is proved

`OutboxProofs` holds for every number of rows, keys, users, replicas, enqueuers and
attempts, for every lease, retention and delay, under `OutboxAssumption` only. It asks
that there are finitely many enqueuers, which only `CapOvershootIsBounded` needs.

| Theorem | States |
| --- | --- |
| `TypeCorrect` | `Spec => []TypeOK` |
| `LogIsComplete` | `Spec => []LogMatchesAttempts` |
| `AttemptsAreBounded` | `Spec => []AttemptsBounded` |
| `NoSilentLoss` | `Spec => []SentWasAccepted` |
| `DuplicatesAreBounded` | `Spec => []OneRequestPerAttempt` |
| `FenceHolds` | `Spec => TerminalIsFinal` |
| `HealthIsAVerdict` | `Spec => HealthFollowsVerdict` |
| `CapOvershootIsBounded` | `Spec => []CapOvershootBounded` |
| `OutboxRefinesDelivery` | `Spec => ImplementsDelivery` |

The argument. None of these is inductive alone, because a replica acts on what it
remembers of a row that may have moved on. The invariant relates memory and table:
a lane's snapshot never exceeds the row's attempts; while the replica still holds
the row (the fence would let it pass) the two are equal; every request that was
ever made has an attempt number at most one above the row's attempts, and one above
only while its owner still holds the row; two lanes with the same snapshot are
therefore the same lane. A reclaim raises the attempts, which puts all older
memories strictly behind it: that is why charging the reclaim is what bounds the
duplicates. The fence then makes a completion equivalent to "nothing has moved since
the claim", which gives the history, the finality of terminal rows and the
refinement. `OutboxProofs` has a lemma per action.

The bound at the cap is the cap and `RowsPerTransaction` rows for each other transaction
(`Overshoot`). It has an invariant of its own (`CapInv`), about the queued rows of a user
and the claims of transactions on further ones: the rows a transaction has inserted and not
committed, and the one its statement has found room for. A statement that finds room counts
the rows and the claims of its own transaction, which are below the cap; the others have at
most `RowsPerTransaction` claims each. A commit turns claims into rows, one for one; nothing
else adds a queued row, since a row that is queued again after an attempt or a reclaim never
left the count.

`WorkspaceKeysProofs` holds for any users, versions, identities, keys drawn and files,
under `WorkspaceKeysAssumption` (the founder is one of the minters, who are users).

| Theorem | States |
| --- | --- |
| `TypeCorrect` | `Spec => []TypeOK` |
| `OneActive` | `Spec => []OneActiveVersion` |
| `KeysNeverFork` | `Spec => []NoFork` |
| `WrapsStayCurrent` | `Spec => []NoWrapStranded` |
| `UploadsStayPrivate` | `Spec => FilesStayPrivate` |

The argument. A grant writes what the granter's client sealed from an earlier state, so
the invariant speaks of calls in flight: what is in a pending grant is the committed key
of its version (`GrantsInFlight`). That stays true because a commitment never changes
(`KeysStep`); the other calls are compared with the tables when they commit, and need no
invariant. A replaced identity leaves no wrap behind because the submitted rows are
exactly the held ones, and a user without an identity has no wraps. For the uploads:
while somebody outside knows the active version, a rotation is owed
(`LeaversObligeRotation`), and a rotation pays by minting a version nobody can know yet
(`KnownKeys`); `MayWrite` asks for both at the commit.

`RemindersProofs` holds for any users, defaults, caps and kinds of edits, under
`RemindersAssumption`.

| Theorem | States |
| --- | --- |
| `TypeCorrect`, `TimersFit`, `StatusIsTold` | `Spec => []TypeOK`, `[]TimersFitStatus`, `[]StatusTellsQueue` |
| `TimerIsDecidedOnce` | `Spec => TimerFollowsPolicy` |
| `RepeatsAreNew`, `OnlyWaitingFire` | `Spec => NoRepeatSwallowed`, `OnlyWaitingRemindersFire` |
| `SettledStays`, `OneLink`, `AckStopsAll` | `Spec => SettledIsFinal`, `ChainHasOneLink`, `AckStopsEverybody` |
| `SchedulerKeepsThePromise` | `Spec => ImplementsLadder` |

The argument. What a scan remembers is not to be relied on, so the invariant does not
speak of it, but for a handoff to somebody else. Each step does one of a few things to a
row (`Change`: a timer moved, it fired, was settled in one of four ways, was handed on);
each of them keeps what a row and the queue of its recipient look like (`RowInv`), which
mentions no policy, so that edits of it need no argument, and the action properties follow from the same case distinction. A repeat is new because the
fire counts that were ever queued are at most the row's, and firing raises it. The
refinement needs two more facts: a deferred row was never fired, so that waking it is a
first try; and a due row whose next step is not a repeat has had all its tries
(`RepeatsSpent`). `SettledIsFinal` is part of what the refinement says, and no run checks
it separately.

`CapabilitiesProofs` holds for any users, tokens, chats and handlers, under
`CapabilitiesAssumption`.

| Theorem | States |
| --- | --- |
| `TypeCorrect`, `EachTokenOnce`, `EachAwardOnce` | `Spec => []TypeOK`, `[]SingleUse`, `[]AwardedOnce` |
| `DenialsCostNothing`, `ProvedAsConfigured` | `Spec => []BurnedOnlyWhereUnbound`, `[]AckVerifiedIsCurrent` |
| `CapabilitiesKeepThePromise` | `Spec => ImplementsRedemption` |

The argument. A token that can be consumed was not redeemed (`TokensAccounted`); what was
awarded is recorded where the next completion looks, and an undo counts where it erases
that record, which makes `AwardedOnce` inductive as it stands; and a live test
token belongs to the present chat of its channel (`ProofsAccounted`). For the refinement,
each step of a redemption is one of the promise and everything else is `Change` or a
stutter.

`TelegramAcksProofs` holds for any replicas, tokens, presses, faults and batch, under
`TelegramAssumption`: `TypeCorrect` and `LostOnlyByThePoller`
(`Spec => []OnlyThePollerDrops`). A poller has dealt with all below its offset, and with all up to the highest id of its
batch that is not in the batch any more (`ReplicaOK`). That makes the offset it will send
a true confirmation; a batch must therefore be the *lower* part of what the provider
keeps (`FirstOfDownward`), and a replica that dies forgets the offset with the batch.

`AttachmentsProofs` holds for any files, requests, transfers and faults, under
`AttachmentsAssumption`: `TypeCorrect`, `KeptIsThere` (`Spec => []KeptHasBlob`),
`NothingComesBack` (`Spec => NoWayBack`). Every claim draws a key of its own, so an object
is put under a key once (`Distinct`). Whatever a request is going to delete is dead: no
row will be read through that key again; and dead keys stay dead (`HandlerOK`). What a
transfer does in its last transaction depends on what may have become of its claim since,
which is the other half of `HandlerOK`.

`AttachmentsOrphanProofs`, under the same assumption: `OrphansAreCounted`
(`Spec => []OrphansNeedAFault`). A fault ends a request or one of its deletions, and a
request may hold several keys by then. It abandons at most one object all the same
(`HoldsOK`): of the keys it holds, all but one are named by a row that the sweep will read,
or have no object and no request that is going to put one (`Threat`). No other step lets
go of an object (`Calm`), so there are never more orphans than faults.

`ApiWritesProofs` holds for any calls, keys, bodies and titles, under
`ApiWritesAssumption`.

| Theorem | States |
| --- | --- |
| `TypeCorrect`, `LocksAreExclusive` | types; no two calls hold one lock |
| `DoneOnce`, `SuccessIsSound` | `Spec => []OncePerKey`, `[]SuccessIsTrue` |
| `RefusalsAreSound`, `DoneAsObserved`, `DoneWithRights` | `Spec => RefusedWasNotDone`, `OnlyAsObserved`, `OnlyWithRights` |
| `ApiKeepsThePromise` | `Spec => ImplementsIdempotency` |

The argument. All calls of an account lock its row before they look for a receipt, and
locks are exclusive (`Exclusive`), so what a call has read under its locks is true until
it ends (`Sound`): the absence of a receipt, the role, the observed task. For the
refinement, a call takes effect at its commit, and is told otherwise where it is decided;
the receipt it reads there is what was done under its key, and `NoReceipt` means that
nothing was. Every other step shows nothing, or leaves open what became of the request.
`RefusedWasNotDone` is what this says of refusals alone; no run checks it separately.

Only model-checked: liveness (`DeliveredOrGivenUp`, `SweptInTheEnd`,
`EveryTapIsConfirmed`), which is beyond the proof system. Every other property of the
passing runs is a theorem.

## Not modelled, and the plan

Left out of the modelled components:

- `Reminders`: tasks under an imported activation guard, the expansion of recurring
  occurrences (the model has one occurrence), the batching of the scan.
- `Capabilities`: tasks that recur, the audit event of a completion, the rate bucket of the
  public route (a pure function inside one locked row).
- `Outbox`: the lease budget of `src/config/worker.ts`, arithmetic over the configured
  times. The worker is modelled for every lease, also for one that is too short.
- Listeners: Slack and Discord, which answer one request at a time and hold no state; the
  mail budget, whose result is an input of `Outbox`. `mintAckUrl` runs inside the budget's
  transaction for mail, so a mail whose transaction fails after the send carries a token
  that was never stored; in the model every token that was sent was minted.
- `Attachments`: the sums of the quota, downloads, rows of a migration. Requests
  and the sweep are assumed to agree on the time, as processes with synchronised clocks do
  (`new Date()` in `routes.ts` and `sweep.ts`).
- `WorkspaceKeys`: the invite fast path, changes of role, a second device that stays.
- `ApiWrites`: lists, folders, comments and placements, which have receipts of their own
  kinds on the same protocol; expiry of credentials; the rate limits; the reads.

Not modelled at all, in the order they are worth it:

1. The plan, freeze, apply and activation of an import, composed with `Reminders` through
   the activation guard.
2. Registration, proofs and recovery between an instance and the push relay.
3. Account deletion as a whole; it appears in each module as what it does there.
4. The offline queue of the desktop client.
5. Quiet hours, recurrence, karma as functions against a reference; event notifications,
   whose deduplication is the unique key of one insert.

Authentication is mostly that of a library; clients, deployment files, migrations
and provider protocols are input and output and are left out.
