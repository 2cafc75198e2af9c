------------------------------- MODULE Outbox -------------------------------
(***************************************************************************)
(* The transactional outbox of the notification pipeline: enqueueOutbox    *)
(* (outbox.ts) fills the table notification_outbox, and one worker per     *)
(* replica (worker.ts) drains it: every tick reclaims expired leases,      *)
(* prunes old terminal rows, claims a batch, dispatches it over a bounded  *)
(* number of lanes and records each result behind a fence.                 *)
(*                                                                         *)
(* A SQL statement or transaction is one action.  What a replica holds in  *)
(* memory between two statements (the claimed rows and the sends in        *)
(* progress) is in the variable lane, and is lost when it crashes.         *)
(*                                                                         *)
(* Timestamps are relative: a column that stores an instant is modelled by *)
(* the ticks until it (dueIn) or since it (heldFor, age), so a comparison  *)
(* with now() is a comparison with a constant, and the state space is      *)
(* finite without a bound on time.                                         *)
(***************************************************************************)
EXTENDS Integers, Sequences, FiniteSets, Functions

CONSTANTS
  Ids,                \* primary keys; an id is never used twice (randomUUID)
  Keys,               \* idempotency keys
  Users,              \* recipients, each with one channel
  Owner,              \* [Keys -> Users]
  Replicas,           \* worker processes, by claimed_by value
  Enqueuers,          \* transactions that run enqueueOutbox concurrently
  RowsPerTransaction, \* the most rows one of them inserts: its channels,
                      \* and the devices of a nativepush row
  NoReplica,          \* the null of claimed_by
  NoKey,              \* no statement in progress; a row that does not exist
  Results,            \* the provider results that occur, by retry class
  MAX_ATTEMPTS,
  MaxQueuedPerUser,
  BatchSize,
  SendConcurrency,
  Lease,              \* leaseMs, in ticks
  Retention,          \* retentionMs, in ticks
  MaxDelay,           \* MAX_DELAY_MS, in ticks
  DeferDelay,         \* the 60 s of an email_budget deferral, in ticks
  MaxLag,             \* bound: how long a due row's lateness is told apart
  MaxDefers           \* bound on email_budget deferrals

AllResults ==
  {"ok", "email_budget", "policy", "client", "throttled", "transport"}

MaxWait == MaxDelay + MaxDelay \div 4

ASSUME OutboxAssumption ==
  /\ Owner \in [Keys -> Users]
  /\ NoReplica \notin Replicas
  /\ NoKey \notin Keys
  /\ Results \subseteq AllResults
  /\ RowsPerTransaction \in Nat \ {0}
  /\ MAX_ATTEMPTS \in Nat \ {0}
  /\ MaxQueuedPerUser \in Nat \ {0}
  /\ BatchSize \in Nat \ {0}
  /\ SendConcurrency \in Nat \ {0}
  /\ Lease \in Nat
  /\ Retention \in Nat
  /\ MaxDelay \in Nat \ {0}
  /\ DeferDelay \in 0..MaxWait
  /\ MaxLag \in Nat
  /\ MaxDefers \in Nat
  /\ IsFiniteSet(Enqueuers) /\ Enqueuers # {}

VARIABLES
  \* notification_outbox, a column each
  status, key, attempts, dueIn, heldFor, claimedBy, age,
  \* delivery_attempt: the set of (attempt_no, retry_class) of each row
  log,
  \* notification_channel.last_error_code of each recipient's channel
  health,
  \* the transactions of the enqueuers: the enqueueOutbox statement in
  \* progress, with what it has read of the cap, and the rows inserted so far
  enq,
  \* the position of each replica's workerTick, and its batch
  pc, lane,
  \* the provider's side: attempts it accepted, requests nobody waits for
  accepted, late,
  defers

dbVars == <<status, key, attempts, dueIn, heldFor, claimedBy, age, log, health>>
netVars == <<accepted, late>>
vars == <<dbVars, enq, pc, lane, netVars, defers>>

-----------------------------------------------------------------------------
(* outbox_status, with a ghost value before the insert and after the delete *)
Live == {"queued", "sending"}
Terminal == {"sent", "abandoned", "failed"}
Statuses == {"unborn", "deleted"} \cup Live \cup Terminal

(* A row of a claimed batch: waiting for a lane, with its send in progress, *)
(* or with a result that is not recorded yet.  attempts is the snapshot     *)
(* that claimBatch returned.                                                *)
NoLane == [phase |-> "none", attempts |-> 0, result |-> "none"]
Waiting(n) == [phase |-> "waiting", attempts |-> n, result |-> "none"]
Lanes == [phase : {"none", "waiting", "calling", "answered"},
          attempts : 0..MAX_ATTEMPTS,
          result : {"none"} \cup AllResults]

(* A transaction that enqueues: the key of its statement in progress, and   *)
(* the keys of its rows.                                                    *)
Transactions ==
  {t \in [key : Keys \cup {NoKey}, room : BOOLEAN, rows : Seq(Keys)] :
     Len(t.rows) + (IF t.key = NoKey THEN 0 ELSE 1) <= RowsPerTransaction}
NoEnqueue == [key |-> NoKey, room |-> FALSE, rows |-> <<>>]

AttemptNos == 1..MAX_ATTEMPTS
Least(a, b) == IF a <= b THEN a ELSE b
SomeOf(S, n) == {T \in SUBSET S : Cardinality(T) = Least(n, Cardinality(S))}

OwnerOf(id) == Owner[key[id]]
QueuedFor(u) == {id \in Ids : status[id] \in Live /\ OwnerOf(id) = u}
Busy(r) == {id \in Ids : lane[r][id].phase # "none"}
InLanes(r) == {id \in Ids : lane[r][id].phase \in {"calling", "answered"}}

-----------------------------------------------------------------------------
(* domain/notification-retry.ts *)

(* The waits after attempt n: the doubling ladder with its cap and up to    *)
(* 25% of jitter.                                                           *)
Backoff(n) ==
  LET raw == Least(2^(n - 1), MaxDelay)
  IN  {d \in 0..MaxWait : raw <= d /\ 4 * d <= 5 * raw}

(* A 429 may carry any Retry-After, which the code clamps to MAX_DELAY_MS.  *)
RetryDelays(result, n) ==
  CASE result = "throttled"    -> 0..MaxDelay \cup Backoff(n)
    [] result = "email_budget" -> {DeferDelay}
    [] OTHER                   -> Backoff(n)

Retryable == {"throttled", "transport"}

GenerousDecision(result, n) ==
  CASE result = "ok"                                 -> "done"
    [] result = "email_budget"                       -> "defer"
    [] result \in {"policy", "client"}               -> "permanent"
    [] result \in Retryable /\ n > MAX_ATTEMPTS      -> "permanent"
    [] result \in Retryable /\ n <= MAX_ATTEMPTS     -> "retry"

Decision(result, n) ==
  CASE result = "ok"                                 -> "done"
    [] result = "email_budget"                       -> "defer"
    [] result \in {"policy", "client"}               -> "permanent"
    [] result \in Retryable /\ n >= MAX_ATTEMPTS     -> "permanent"
    [] result \in Retryable /\ n < MAX_ATTEMPTS      -> "retry"

RetryClass(result, n) ==
  IF result \in Retryable /\ n >= MAX_ATTEMPTS THEN "exhausted" ELSE result

RetryClasses == AllResults \cup {"exhausted", "lease-expired"}

-----------------------------------------------------------------------------
TypeOK ==
  /\ status \in [Ids -> Statuses]
  /\ key \in [Ids -> Keys \cup {NoKey}]
  /\ attempts \in [Ids -> 0..MAX_ATTEMPTS]
  /\ dueIn \in [Ids -> -MaxLag..MaxWait]
  /\ heldFor \in [Ids -> 0..Lease + 1]
  /\ claimedBy \in [Ids -> Replicas \cup {NoReplica}]
  /\ age \in [Ids -> 0..Retention + 1]
  /\ log \in [Ids -> SUBSET (AttemptNos \X RetryClasses)]
  /\ health \in [Users -> {"healthy", "broken"}]
  /\ enq \in [Enqueuers -> Transactions]
  /\ pc \in [Replicas -> {"idle", "reclaimed", "pruned", "dispatching", "down"}]
  /\ lane \in [Replicas -> [Ids -> Lanes]]
  /\ accepted \in [Ids -> SUBSET AttemptNos]
  /\ late \in [Ids -> SUBSET AttemptNos]
  /\ defers \in 0..MaxDefers

Init ==
  /\ status = [id \in Ids |-> "unborn"]
  /\ key = [id \in Ids |-> NoKey]
  /\ attempts = [id \in Ids |-> 0]
  /\ dueIn = [id \in Ids |-> 0]
  /\ heldFor = [id \in Ids |-> 0]
  /\ claimedBy = [id \in Ids |-> NoReplica]
  /\ age = [id \in Ids |-> 0]
  /\ log = [id \in Ids |-> {}]
  /\ health = [u \in Users |-> "healthy"]
  /\ enq = [e \in Enqueuers |-> NoEnqueue]
  /\ pc = [r \in Replicas |-> "idle"]
  /\ lane = [r \in Replicas |-> [id \in Ids |-> NoLane]]
  /\ accepted = [id \in Ids |-> {}]
  /\ late = [id \in Ids |-> {}]
  /\ defers = 0

-----------------------------------------------------------------------------
(* enqueueOutbox, in a transaction of its caller: the scheduler enqueues a  *)
(* row for each channel of a reminder, a grant one for each channel of each *)
(* recipient, and a nativepush row becomes one for each registered device.  *)
(* The count and the insert are one statement, but under READ COMMITTED the *)
(* count is read from the statement's snapshot: it sees the rows of its own *)
(* transaction and the committed ones of others.  No lock is shared by all  *)
(* callers.                                                                 *)

RowsFor(e, u) == {i \in DOMAIN enq[e].rows : Owner[enq[e].rows[i]] = u}
Counted(e, u) == Cardinality(QueuedFor(u)) + Cardinality(RowsFor(e, u))

HasRoomForOneMore(e, u) == Counted(e, u) <= MaxQueuedPerUser
HasRoom(e, u) == Counted(e, u) < MaxQueuedPerUser

EnqueueReadsCap(e, k) ==
  /\ enq[e].key = NoKey
  /\ Len(enq[e].rows) < RowsPerTransaction
  /\ enq' = [enq EXCEPT ![e] =
       [key |-> k, room |-> HasRoom(e, Owner[k]), rows |-> enq[e].rows]]
  /\ UNCHANGED <<dbVars, pc, lane, netVars, defers>>

(* The unique index: a committed row or one of the own transaction makes a  *)
(* duplicate; for one that another transaction has not committed yet, the   *)
(* insert waits.                                                            *)
Stored(k) ==
  \E id \in Ids : status[id] \notin {"unborn", "deleted"} /\ key[id] = k
Uncommitted(e, k) == \E i \in DOMAIN enq[e].rows : enq[e].rows[i] = k

EnqueueInserts(e) ==
  /\ enq[e].key # NoKey
  /\ enq[e].room
  /\ ~Stored(enq[e].key)
  /\ \A other \in Enqueuers : ~Uncommitted(other, enq[e].key)
  /\ enq' = [enq EXCEPT ![e] =
       [key |-> NoKey, room |-> FALSE, rows |-> Append(enq[e].rows, enq[e].key)]]
  /\ UNCHANGED <<dbVars, pc, lane, netVars, defers>>

(* Refused at the cap, or a duplicate key: the transaction goes on.         *)
EnqueueInsertsNothing(e) ==
  /\ enq[e].key # NoKey
  /\ \/ ~enq[e].room
     \/ Stored(enq[e].key)
     \/ Uncommitted(e, enq[e].key)
  /\ enq' = [enq EXCEPT ![e] =
       [key |-> NoKey, room |-> FALSE, rows |-> enq[e].rows]]
  /\ UNCHANGED <<dbVars, pc, lane, netVars, defers>>

(* All rows of a transaction appear together.                               *)
EnqueueCommits(e) ==
  LET rows == enq[e].rows
  IN  /\ enq[e].key = NoKey
      /\ rows # <<>>
      /\ \E new \in SUBSET {id \in Ids : status[id] = "unborn"} :
           \E row \in Bijection(new, DOMAIN rows) :
             /\ status' = [id \in Ids |->
                  IF id \in new THEN "queued" ELSE status[id]]
             /\ key' = [id \in Ids |->
                  IF id \in new THEN rows[row[id]] ELSE key[id]]
      /\ enq' = [enq EXCEPT ![e] = NoEnqueue]
      /\ UNCHANGED <<attempts, dueIn, heldFor, claimedBy, age, log, health,
                     pc, lane, netVars, defers>>

(* The caller fails, or the database breaks a deadlock of two inserts that  *)
(* wait for each other: no row of the transaction remains.                  *)
EnqueueAborts(e) ==
  /\ enq[e] # NoEnqueue
  /\ enq' = [enq EXCEPT ![e] = NoEnqueue]
  /\ UNCHANGED <<dbVars, pc, lane, netVars, defers>>

-----------------------------------------------------------------------------
(* workerTick, one action per statement.  croner's protect: a tick starts   *)
(* only when the replica's previous tick has ended.                         *)

Expired == {id \in Ids : status[id] = "sending" /\ heldFor[id] > Lease}

(* The attempts of a reclaimed row: hanging past the lease costs one.       *)
UnchargedLease(id) == attempts[id]
AfterLease(id) == attempts[id] + 1

ReclaimExpired(r) ==
  /\ pc[r] = "idle"
  /\ \E S \in SomeOf(Expired, BatchSize) :
       \E wait \in [S -> 0..MaxWait] :
         /\ \A id \in S : wait[id] \in Backoff(attempts[id] + 1)
         /\ status' = [id \in Ids |->
              IF id \notin S THEN status[id]
              ELSE IF AfterLease(id) >= MAX_ATTEMPTS THEN "abandoned"
              ELSE "queued"]
         /\ attempts' = [id \in Ids |->
              IF id \in S THEN AfterLease(id) ELSE attempts[id]]
         /\ dueIn' = [id \in Ids |-> IF id \in S THEN wait[id] ELSE dueIn[id]]
         /\ heldFor' = [id \in Ids |-> IF id \in S THEN 0 ELSE heldFor[id]]
         /\ claimedBy' = [id \in Ids |->
              IF id \in S THEN NoReplica ELSE claimedBy[id]]
         /\ log' = [id \in Ids |->
              IF id \in S
              THEN log[id] \cup {<<AfterLease(id), "lease-expired">>}
              ELSE log[id]]
  /\ pc' = [pc EXCEPT ![r] = "reclaimed"]
  /\ UNCHANGED <<key, age, health, enq, lane, netVars, defers>>

Prunable == {id \in Ids : status[id] \in Terminal /\ age[id] > Retention}

(* Runs every pruneCadenceTicks-th tick: S = {} is a tick without it.  The  *)
(* prune batch is larger than the table of a model.                         *)
PruneTerminal(r) ==
  /\ pc[r] = "reclaimed"
  /\ \E S \in {{}, Prunable} :
       /\ status' = [id \in Ids |-> IF id \in S THEN "deleted" ELSE status[id]]
       /\ log' = [id \in Ids |-> IF id \in S THEN {} ELSE log[id]]
  /\ pc' = [pc EXCEPT ![r] = "pruned"]
  /\ UNCHANGED <<key, attempts, dueIn, heldFor, claimedBy, age, health,
                 enq, lane, netVars, defers>>

Due == {id \in Ids : status[id] = "queued" /\ dueIn[id] <= 0}
OldestFirst(S) == \A id \in S, other \in Due \ S : dueIn[id] <= dueIn[other]

ClaimBatch(r) ==
  /\ pc[r] = "pruned"
  /\ \E S \in SomeOf(Due, BatchSize) :
       /\ OldestFirst(S)
       /\ status' = [id \in Ids |-> IF id \in S THEN "sending" ELSE status[id]]
       /\ heldFor' = [id \in Ids |-> IF id \in S THEN 0 ELSE heldFor[id]]
       /\ claimedBy' = [id \in Ids |-> IF id \in S THEN r ELSE claimedBy[id]]
       /\ lane' = [lane EXCEPT ![r] = [id \in Ids |->
            IF id \in S THEN Waiting(attempts[id]) ELSE NoLane]]
  /\ pc' = [pc EXCEPT ![r] = "dispatching"]
  /\ UNCHANGED <<key, attempts, dueIn, age, log, health, enq,
                 netVars, defers>>

(* A free lane of dispatchBatch takes the row and calls the adapter.        *)
StartSend(r, id) ==
  /\ lane[r][id].phase = "waiting"
  /\ Cardinality(InLanes(r)) < SendConcurrency
  /\ lane' = [lane EXCEPT ![r][id].phase = "calling"]
  /\ UNCHANGED <<dbVars, enq, pc, netVars, defers>>

(* sendWithDeadline: the adapter settles first ...                          *)
AdapterAnswers(r, id, result) ==
  /\ lane[r][id].phase = "calling"
  /\ result = "email_budget" => defers < MaxDefers
  /\ defers' = IF result = "email_budget" THEN defers + 1 ELSE defers
  /\ lane' = [lane EXCEPT ![r][id].phase = "answered",
                          ![r][id].result = result]
  /\ accepted' = IF result = "ok"
                 THEN [accepted EXCEPT ![id] = @ \cup {lane[r][id].attempts + 1}]
                 ELSE accepted
  /\ UNCHANGED <<dbVars, enq, pc, late>>

DeadlineResult == "transport"

(* ... or the deadline does: the lane goes on with a transport failure, and *)
(* the aborted request may still reach the provider.                        *)
DeadlineExceeded(r, id) ==
  /\ lane[r][id].phase = "calling"
  /\ lane' = [lane EXCEPT ![r][id].phase = "answered",
                          ![r][id].result = DeadlineResult]
  /\ late' = [late EXCEPT ![id] = @ \cup {lane[r][id].attempts + 1}]
  /\ UNCHANGED <<dbVars, enq, pc, accepted, defers>>

FenceById(r, id) == TRUE
FenceByStatus(r, id) == status[id] = "sending"
Fence(r, id) == status[id] = "sending" /\ claimedBy[id] = r

(* recordChannelHealth, in the transaction of completeDelivery: only a      *)
(* decision the worker never retries says anything of the channel.  (Rows   *)
(* are those of a notification_channel; completeDelivery skips this for a   *)
(* nativepush row, which has none.)                                         *)
JumpyHealthAfter(decision, u) ==
  [health EXCEPT ![u] = IF decision = "done" THEN "healthy" ELSE "broken"]

HealthAfter(decision, u) ==
  CASE decision = "done"      -> [health EXCEPT ![u] = "healthy"]
    [] decision = "permanent" -> [health EXCEPT ![u] = "broken"]
    [] OTHER                  -> health

CompleteDelivery(r, id) ==
  LET attemptNo == lane[r][id].attempts + 1
      result    == lane[r][id].result
      decision  == Decision(result, attemptNo)
  IN  /\ lane[r][id].phase = "answered"
      /\ lane' = [lane EXCEPT ![r][id] = NoLane]
      /\ \/ /\ Fence(r, id)
            /\ status' = [status EXCEPT ![id] =
                 CASE decision = "done"      -> "sent"
                   [] decision = "permanent" -> "failed"
                   [] OTHER                  -> "queued"]
            /\ attempts' = [attempts EXCEPT ![id] =
                 IF decision = "defer" THEN lane[r][id].attempts ELSE attemptNo]
            /\ IF decision \in {"retry", "defer"}
               THEN \E wait \in RetryDelays(result, attemptNo) :
                      dueIn' = [dueIn EXCEPT ![id] = wait]
               ELSE UNCHANGED dueIn
            /\ heldFor' = [heldFor EXCEPT ![id] = 0]
            /\ claimedBy' = [claimedBy EXCEPT ![id] = NoReplica]
            /\ log' = IF decision = "defer" THEN log
                      ELSE [log EXCEPT ![id] =
                              @ \cup {<<attemptNo, RetryClass(result, attemptNo)>>}]
            /\ health' = HealthAfter(decision, OwnerOf(id))
         \/ /\ ~Fence(r, id)
            /\ UNCHANGED <<status, attempts, dueIn, heldFor, claimedBy, log, health>>
      /\ UNCHANGED <<key, age, enq, pc, netVars, defers>>

(* completeDelivery throws: the row stays sending, for a later reclaim.     *)
CompletionFails(r, id) ==
  /\ lane[r][id].phase = "answered"
  /\ lane' = [lane EXCEPT ![r][id] = NoLane]
  /\ UNCHANGED <<dbVars, enq, pc, netVars, defers>>

EndTick(r) ==
  /\ pc[r] = "dispatching"
  /\ Busy(r) = {}
  /\ pc' = [pc EXCEPT ![r] = "idle"]
  /\ UNCHANGED <<dbVars, enq, lane, netVars, defers>>

(* A statement before the dispatch throws: startWorker logs it and the tick  *)
(* ends.                                                                    *)
TickFails(r) ==
  /\ pc[r] \in {"reclaimed", "pruned"}
  /\ pc' = [pc EXCEPT ![r] = "idle"]
  /\ UNCHANGED <<dbVars, enq, lane, netVars, defers>>

-----------------------------------------------------------------------------
(* The rest of the system, and the environment *)

(* removeMember gives up every live row of the removed user that belongs to  *)
(* the workspace: any of them, as seen from here, and also one in a lane.   *)
MemberRemoved(u) ==
  \E S \in SUBSET QueuedFor(u) :
    /\ S # {}
    /\ status' = [id \in Ids |-> IF id \in S THEN "abandoned" ELSE status[id]]
    /\ heldFor' = [id \in Ids |-> IF id \in S THEN 0 ELSE heldFor[id]]
    /\ claimedBy' = [id \in Ids |-> IF id \in S THEN NoReplica ELSE claimedBy[id]]
    /\ UNCHANGED <<key, attempts, dueIn, age, log, health, enq, pc, lane,
                   netVars, defers>>

LateAcceptance(id, n) ==
  /\ n \in late[id]
  /\ late' = [late EXCEPT ![id] = @ \ {n}]
  /\ accepted' = [accepted EXCEPT ![id] = @ \cup {n}]
  /\ UNCHANGED <<dbVars, enq, pc, lane, defers>>

(* The process dies at any point of its tick, with its batch in memory;     *)
(* requests on the wire stay there.                                         *)
Crash(r) ==
  /\ pc[r] # "down"
  /\ pc' = [pc EXCEPT ![r] = "down"]
  /\ lane' = [lane EXCEPT ![r] = [id \in Ids |-> NoLane]]
  /\ late' = [id \in Ids |->
       IF lane[r][id].phase = "calling"
       THEN late[id] \cup {lane[r][id].attempts + 1} ELSE late[id]]
  /\ UNCHANGED <<dbVars, enq, accepted, defers>>

(* A restart keeps a configured DITERO_REPLICA_ID.                          *)
Restart(r) ==
  /\ pc[r] = "down"
  /\ pc' = [pc EXCEPT ![r] = "idle"]
  /\ UNCHANGED <<dbVars, enq, lane, netVars, defers>>

(* Time passes.  Only the timers a guard reads move: dueIn of a queued row, *)
(* heldFor of a claimed one, age of an existing one.                        *)
Tick ==
  /\ dueIn' = [id \in Ids |->
       IF status[id] = "queued" /\ dueIn[id] > -MaxLag
       THEN dueIn[id] - 1 ELSE dueIn[id]]
  /\ heldFor' = [id \in Ids |->
       IF status[id] = "sending" /\ heldFor[id] <= Lease
       THEN heldFor[id] + 1 ELSE heldFor[id]]
  /\ age' = [id \in Ids |->
       IF status[id] \in Live \cup Terminal /\ age[id] <= Retention
       THEN age[id] + 1 ELSE age[id]]
  /\ UNCHANGED <<status, key, attempts, claimedBy, log, health,
                 enq, pc, lane, netVars, defers>>

Next ==
  \/ \E e \in Enqueuers, k \in Keys : EnqueueReadsCap(e, k)
  \/ \E e \in Enqueuers : EnqueueInserts(e)
  \/ \E e \in Enqueuers : EnqueueInsertsNothing(e)
  \/ \E e \in Enqueuers : EnqueueCommits(e)
  \/ \E e \in Enqueuers : EnqueueAborts(e)
  \/ \E r \in Replicas : ReclaimExpired(r)
  \/ \E r \in Replicas : PruneTerminal(r)
  \/ \E r \in Replicas : ClaimBatch(r)
  \/ \E r \in Replicas, id \in Ids : StartSend(r, id)
  \/ \E r \in Replicas, id \in Ids, result \in Results :
       AdapterAnswers(r, id, result)
  \/ \E r \in Replicas, id \in Ids : DeadlineExceeded(r, id)
  \/ \E r \in Replicas, id \in Ids : CompleteDelivery(r, id)
  \/ \E r \in Replicas, id \in Ids : CompletionFails(r, id)
  \/ \E r \in Replicas : EndTick(r)
  \/ \E r \in Replicas : TickFails(r)
  \/ \E u \in Users : MemberRemoved(u)
  \/ \E id \in Ids, n \in AttemptNos : LateAcceptance(id, n)
  \/ \E r \in Replicas : Crash(r)
  \/ \E r \in Replicas : Restart(r)
  \/ Tick

Spec == Init /\ [][Next]_vars

(* The clock runs, an await settles at the latest at its deadline, a dead    *)
(* replica is restarted, and croner starts ticks, of which each statement   *)
(* succeeds sometime if it is run again and again.  Nothing is assumed of   *)
(* the provider, of enqueuers, or of the number of crashes; only a mail     *)
(* budget that stays spent for ever is ruled out: an email_budget deferral  *)
(* is not charged and the code does not count it, MaxDefers does.           *)
Fairness ==
  /\ WF_vars(Tick)
  /\ \A r \in Replicas :
       /\ SF_vars(ReclaimExpired(r))
       /\ SF_vars(PruneTerminal(r))
       /\ SF_vars(ClaimBatch(r))
       /\ WF_vars(EndTick(r))
       /\ WF_vars(Restart(r))
       /\ \A id \in Ids :
            /\ WF_vars(StartSend(r, id))
            /\ WF_vars(DeadlineExceeded(r, id))
            /\ WF_vars(CompleteDelivery(r, id))

FairSpec == Spec /\ Fairness

-----------------------------------------------------------------------------
(* Properties *)

(* The table delivery_attempt answers "why did my reminder never arrive":   *)
(* an existing row has exactly one entry for every attempt it was charged,  *)
(* whether a result or an expired lease charged it (worker.ts:183-192).     *)
LogMatchesAttempts ==
  \A id \in Ids : status[id] # "deleted" =>
    /\ \A n \in AttemptNos :
         n <= attempts[id] <=> \E c \in RetryClasses : <<n, c>> \in log[id]
    /\ \A n \in AttemptNos, c, d \in RetryClasses :
         <<n, c>> \in log[id] /\ <<n, d>> \in log[id] => c = d

(* A row waiting for another try has a try left: no path through results,   *)
(* deferrals, expired leases and crashes resets or skips the bound.         *)
AttemptsBounded ==
  \A id \in Ids : status[id] \in Live => attempts[id] < MAX_ATTEMPTS

(* The requests of a row that can still reach, or have reached, a provider. *)
OnTheWire(r, id) == lane[r][id].phase = "calling"

(* At-least-once is bounded by the attempts: two requests for the same row  *)
(* never carry the same attempt number, so a user sees a row's notification *)
(* at most MAX_ATTEMPTS times, however often its worker hangs past the      *)
(* lease or dies (worker.ts:183-186).                                       *)
OneRequestPerAttempt ==
  \A id \in Ids :
    /\ accepted[id] \cap late[id] = {}
    /\ \A r \in Replicas : OnTheWire(r, id) =>
         /\ lane[r][id].attempts + 1 \notin accepted[id] \cup late[id]
         /\ \A q \in Replicas \ {r} : OnTheWire(q, id) =>
              lane[q][id].attempts # lane[r][id].attempts

(* No silent loss: a row is marked sent only when a provider accepted it.   *)
SentWasAccepted == \A id \in Ids : status[id] = "sent" => accepted[id] # {}

(* The cap of enqueueOutbox narrows a race without closing it (outbox.ts:   *)
(* 38-44, "a few rows"): the overshoot is at most what the other concurrent *)
(* transactions can insert, all their channels and devices included.        *)
CapOvershootBounded ==
  \A u \in Users :
    Cardinality(QueuedFor(u))
      <= MaxQueuedPerUser + (Cardinality(Enqueuers) - 1) * RowsPerTransaction

(* The fence: a terminal row is never sent again, changed or resurrected by *)
(* a late result; it can only be pruned (worker.ts:303-306).                *)
TerminalIsFinal ==
  [][\A id \in Ids : status[id] \in Terminal =>
       /\ status'[id] \in {status[id], "deleted"}
       /\ attempts'[id] = attempts[id]]_vars

(* A channel's health changes only with the verdict on one of its rows, in  *)
(* the same transaction: a result the fence discards never reaches it       *)
(* (worker.ts:267-271).                                                     *)
HealthFollowsVerdict ==
  [][\A u \in Users : health'[u] # health[u] =>
       \E id \in Ids :
         /\ status[id] = "sending"
         /\ OwnerOf(id) = u
         /\ status'[id] = IF health'[u] = "healthy" THEN "sent" ELSE "failed"]_vars

(* Every queued notification is eventually delivered or given up, whatever  *)
(* crashes, lost results and hung providers do to its worker.               *)
DeliveredOrGivenUp ==
  \A id \in Ids : status[id] = "queued" ~> status[id] \in Terminal \cup {"deleted"}
=============================================================================
