---------------------------- MODULE OutboxProofs ----------------------------
(***************************************************************************)
(* Proofs about Outbox, for any rows, replicas, limits and timing.         *)
(*                                                                         *)
(* None of the safety properties is inductive.  What makes them so is      *)
(* LaneInv: a result in memory carries the row's present attempt number    *)
(* exactly when the fence would let it in, although the fence compares     *)
(* only the replica; it holds because protect keeps a replica from         *)
(* claiming while it still has results of an earlier claim.  WireInv then  *)
(* keeps every request that may still be accepted apart from the others.   *)
(***************************************************************************)
EXTENDS OutboxDelivery, FiniteSetTheorems, TLAPS

Used(id) == accepted[id] \cup late[id]

(* The attempt number of this lane has not been put on the wire yet, or is  *)
(* given back by a deferral.                                                *)
Unspent(r, id) ==
  \/ lane[r][id].phase \in {"waiting", "calling"}
  \/ lane[r][id].phase = "answered" /\ lane[r][id].result = "email_budget"

(* A row that may have been given up while its attempt was in progress.     *)
Withdrawn(id) == status[id] \in {"abandoned", "deleted"}

(* The row may have one attempt beyond those it was charged.                *)
Open(id) == status[id] = "sending" \/ Withdrawn(id)

LaneInv ==
  \A r \in Replicas, id \in Ids : lane[r][id].phase # "none" =>
    /\ pc[r] = "dispatching"
    /\ status[id] # "unborn"
    /\ lane[r][id].attempts < MAX_ATTEMPTS
    /\ lane[r][id].attempts <= attempts[id]
    /\ Fence(r, id) => lane[r][id].attempts = attempts[id]
    /\ lane[r][id].attempts = attempts[id] => Fence(r, id) \/ Withdrawn(id)
    /\ lane[r][id].phase = "answered" => lane[r][id].result # "none"
    /\ lane[r][id].phase = "answered" /\ lane[r][id].result = "ok"
         => lane[r][id].attempts + 1 \in accepted[id]

WireInv ==
  /\ \A id \in Ids : \A n \in Used(id) :
       \/ n <= attempts[id]
       \/ n = attempts[id] + 1 /\ Open(id)
  /\ \A id \in Ids : accepted[id] \cap late[id] = {}
  /\ \A r \in Replicas, id \in Ids :
       Unspent(r, id) => lane[r][id].attempts + 1 \notin Used(id)
  /\ \A r, q \in Replicas, id \in Ids :
       r # q /\ Unspent(r, id) /\ Unspent(q, id) =>
         lane[r][id].attempts # lane[q][id].attempts

FreshRows == \A id \in Ids : status[id] = "unborn" => attempts[id] = 0

IInv ==
  /\ TypeOK
  /\ FreshRows
  /\ AttemptsBounded
  /\ LogMatchesAttempts
  /\ SentWasAccepted
  /\ LaneInv
  /\ WireInv

-----------------------------------------------------------------------------
(* The decision table of classifyRetry, for a result that is one.           *)
LEMMA DecisionCases ==
  ASSUME NEW result \in AllResults, NEW n \in Nat
  PROVE  /\ Decision(result, n) \in {"done", "defer", "permanent", "retry"}
         /\ Decision(result, n) = "done" <=> result = "ok"
         /\ Decision(result, n) = "defer" <=> result = "email_budget"
         /\ Decision(result, n) = "retry" => n < MAX_ATTEMPTS
         /\ RetryClass(result, n) \in RetryClasses
BY OutboxAssumption DEF Decision, RetryClass, RetryClasses, AllResults, Retryable

(* Every wait fits the range of dueIn.                                      *)
LEMMA Waits ==
  /\ MaxWait \in Nat
  /\ MaxDelay <= MaxWait
  /\ \A n : Backoff(n) \subseteq 0..MaxWait
  /\ \A result, n : RetryDelays(result, n) \subseteq 0..MaxWait
<1>1. MaxWait \in Nat /\ MaxDelay <= MaxWait
  BY OutboxAssumption DEF MaxWait
<1>2. \A n : Backoff(n) \subseteq 0..MaxWait
  BY DEF Backoff
<1>3. 0..MaxDelay \subseteq 0..MaxWait
  BY <1>1, OutboxAssumption
<1>4. \A result, n : RetryDelays(result, n) \subseteq 0..MaxWait
  BY <1>2, <1>3, OutboxAssumption DEF RetryDelays
<1>5. QED
  BY <1>1, <1>2, <1>4

LEMMA LaneTypes ==
  ASSUME TypeOK, NEW r \in Replicas, NEW id \in Ids
  PROVE  /\ lane[r][id] \in Lanes
         /\ lane[r][id].phase \in {"none", "waiting", "calling", "answered"}
         /\ lane[r][id].attempts \in 0..MAX_ATTEMPTS
         /\ lane[r][id].attempts \in Nat
         /\ lane[r][id].result \in {"none"} \cup AllResults
         /\ attempts[id] \in Nat
<1>1. lane[r][id] \in Lanes /\ attempts[id] \in 0..MAX_ATTEMPTS
  BY DEF TypeOK
<1>2. QED
  BY <1>1, OutboxAssumption DEF Lanes

LEMMA InitInvariant == Init => IInv
<1> SUFFICES ASSUME Init PROVE IInv
  OBVIOUS
<1> USE OutboxAssumption
<1>1. TypeOK
  <2>1. NoEnqueue \in Transactions
    BY DEF NoEnqueue, Transactions
  <2>2. QED
    BY <2>1, Waits DEF Init, TypeOK, Statuses, NoLane, Lanes
<1>2. AttemptsBounded /\ SentWasAccepted
  BY DEF Init, AttemptsBounded, SentWasAccepted, Live
<1>3. LogMatchesAttempts
  BY DEF Init, LogMatchesAttempts, AttemptNos
<1>4. LaneInv
  BY DEF Init, LaneInv, Withdrawn, Open, NoLane
<1>5. WireInv /\ FreshRows
  BY DEF Init, FreshRows, WireInv, Withdrawn, Open, Unspent, Used, NoLane
<1>6. QED
  BY <1>1, <1>2, <1>3, <1>4, <1>5 DEF IInv

(* A step that leaves the rows, the lanes and the wire alone only has to    *)
(* keep the types.                                                          *)
LEMMA QuietStep ==
  ASSUME IInv, TypeOK',
         UNCHANGED <<status, attempts, claimedBy, log, pc, lane, accepted, late>>
  PROVE  IInv'
<1> USE DEF IInv
<1>1. /\ AttemptsBounded' /\ FreshRows'
      /\ SentWasAccepted' /\ LogMatchesAttempts'
  BY DEF FreshRows, AttemptsBounded, LogMatchesAttempts, SentWasAccepted
<1>2. LaneInv'
  BY DEF LaneInv, Withdrawn, Fence
<1>3. WireInv'
  BY DEF WireInv, Withdrawn, Open, Unspent, Used
<1>4. QED
  BY <1>1, <1>2, <1>3

LEMMA EnqTypes ==
  ASSUME TypeOK, NEW e \in Enqueuers
  PROVE  /\ enq \in [Enqueuers -> Transactions]
         /\ enq[e].key \in Keys \cup {NoKey}
         /\ enq[e].room \in BOOLEAN
         /\ enq[e].rows \in Seq(Keys)
         /\ Len(enq[e].rows) + (IF enq[e].key = NoKey THEN 0 ELSE 1)
              <= RowsPerTransaction
         /\ NoEnqueue \in Transactions
<1>1. enq \in [Enqueuers -> Transactions]
  BY DEF TypeOK
<1>2. enq[e] \in Transactions
  BY <1>1
<1>3. NoEnqueue \in Transactions
  BY OutboxAssumption DEF NoEnqueue, Transactions
<1>4. QED
  BY <1>1, <1>2, <1>3 DEF Transactions

(* A step of a transaction before its commit.                               *)
LEMMA TransactionStep ==
  ASSUME IInv, NEW e \in Enqueuers, NEW t \in Transactions,
         enq' = [enq EXCEPT ![e] = t],
         UNCHANGED <<dbVars, pc, lane, netVars, defers>>
  PROVE  IInv'
<1>1. TypeOK'
  BY DEF IInv, TypeOK, dbVars, netVars
<1>2. QED
  BY <1>1, QuietStep DEF dbVars, netVars

LEMMA EnqueueReadsCapStep ==
  ASSUME IInv, NEW e \in Enqueuers, NEW k \in Keys, EnqueueReadsCap(e, k)
  PROVE  IInv'
<1> DEFINE t == [key |-> k, room |-> HasRoom(e, Owner[k]), rows |-> enq[e].rows]
<1>1. HasRoom(e, Owner[k]) \in BOOLEAN
  BY DEF HasRoom
<1>2. /\ enq \in [Enqueuers -> Transactions] /\ enq[e].rows \in Seq(Keys)
      /\ Len(enq[e].rows) < RowsPerTransaction
  BY EnqTypes DEF IInv, EnqueueReadsCap
<1>3. t \in Transactions
  <2>1. Len(t.rows) + 1 <= RowsPerTransaction
    BY <1>2, OutboxAssumption
  <2>2. QED
    BY <1>1, <1>2, <2>1, OutboxAssumption DEF Transactions
<1>4. enq' = [enq EXCEPT ![e] = t]
  BY DEF EnqueueReadsCap
<1>5. QED
  BY <1>3, <1>4, TransactionStep DEF EnqueueReadsCap

LEMMA EnqueueInsertsStep ==
  ASSUME IInv, NEW e \in Enqueuers, EnqueueInserts(e)
  PROVE  IInv'
<1> DEFINE t == [key |-> NoKey, room |-> FALSE,
                 rows |-> Append(enq[e].rows, enq[e].key)]
<1>1. enq[e].key \in Keys /\ enq[e].rows \in Seq(Keys) /\ Len(enq[e].rows) + 1 <= RowsPerTransaction
  BY EnqTypes DEF IInv, EnqueueInserts
<1>2. t \in Transactions
  <2>1. Append(enq[e].rows, enq[e].key) \in Seq(Keys)
        /\ Len(Append(enq[e].rows, enq[e].key)) = Len(enq[e].rows) + 1
    BY <1>1
  <2>2. QED
    BY <1>1, <2>1, OutboxAssumption DEF Transactions
<1>3. enq' = [enq EXCEPT ![e] = t]
  BY DEF EnqueueInserts
<1>4. QED
  BY <1>2, <1>3, TransactionStep DEF EnqueueInserts

LEMMA EnqueueInsertsNothingStep ==
  ASSUME IInv, NEW e \in Enqueuers, EnqueueInsertsNothing(e)
  PROVE  IInv'
<1> DEFINE t == [key |-> NoKey, room |-> FALSE, rows |-> enq[e].rows]
<1>1. /\ enq \in [Enqueuers -> Transactions]
      /\ enq[e].rows \in Seq(Keys)
      /\ Len(enq[e].rows) + 1 <= RowsPerTransaction
  BY EnqTypes DEF IInv, EnqueueInsertsNothing
<1>2. t \in Transactions
  <2>1. Len(enq[e].rows) \in Nat /\ Len(enq[e].rows) <= RowsPerTransaction
    BY <1>1, OutboxAssumption
  <2>2. QED
    BY <1>1, <2>1, OutboxAssumption DEF Transactions
<1>3. enq' = [enq EXCEPT ![e] = t]
  BY DEF EnqueueInsertsNothing
<1>4. QED
  BY <1>2, <1>3, TransactionStep DEF EnqueueInsertsNothing

LEMMA EnqueueAbortsStep ==
  ASSUME IInv, NEW e \in Enqueuers, EnqueueAborts(e)
  PROVE  IInv'
BY EnqTypes, TransactionStep DEF IInv, EnqueueAborts

LEMMA EnqueueCommitsStep ==
  ASSUME IInv, NEW e \in Enqueuers, EnqueueCommits(e)
  PROVE  IInv'
<1> USE OutboxAssumption DEF IInv
<1> DEFINE rows == enq[e].rows
<1>0. PICK new \in SUBSET {id \in Ids : status[id] = "unborn"} :
        \E row \in Bijection(new, DOMAIN rows) :
          /\ status' = [id \in Ids |->
               IF id \in new THEN "queued" ELSE status[id]]
          /\ key' = [id \in Ids |->
               IF id \in new THEN rows[row[id]] ELSE key[id]]
  BY DEF EnqueueCommits
<1>1. PICK row \in [new -> DOMAIN rows] :
        /\ status' = [id \in Ids |->
             IF id \in new THEN "queued" ELSE status[id]]
        /\ key' = [id \in Ids |->
             IF id \in new THEN rows[row[id]] ELSE key[id]]
  BY <1>0 DEF Bijection, Injection, Surjection
<1>2. /\ UNCHANGED <<attempts, dueIn, heldFor, claimedBy, age, log, health,
                     pc, lane, accepted, late, defers>>
      /\ enq' = [enq EXCEPT ![e] = NoEnqueue]
  BY DEF EnqueueCommits, netVars
<1>3. rows \in Seq(Keys)
  BY EnqTypes
<1>4. key' \in [Ids -> Keys \cup {NoKey}]
  <2>1. \A id \in new : rows[row[id]] \in Keys
    BY <1>3
  <2>2. QED
    BY <1>1, <2>1 DEF TypeOK
<1>5. status' \in [Ids -> Statuses]
  BY <1>1 DEF TypeOK, Statuses, Live
<1>6. enq' \in [Enqueuers -> Transactions]
  BY <1>2, EnqTypes
<1>7. TypeOK'
  BY <1>2, <1>4, <1>5, <1>6 DEF TypeOK
<1>8. \A id \in Ids : \/ status'[id] = status[id]
                      \/ status[id] = "unborn" /\ status'[id] = "queued"
  BY <1>1
<1>9. AttemptsBounded' /\ SentWasAccepted' /\ FreshRows'
  BY <1>2, <1>8 DEF AttemptsBounded, SentWasAccepted, FreshRows, Live
<1>10. LogMatchesAttempts'
  BY <1>2, <1>8 DEF LogMatchesAttempts
<1>11. LaneInv'
  BY <1>2, <1>8 DEF LaneInv, Withdrawn, Fence
<1>12. WireInv'
  BY <1>2, <1>8 DEF WireInv, Withdrawn, Open, Used, Unspent
<1>13. QED
  BY <1>7, <1>9, <1>10, <1>11, <1>12

(* Charging an attempt and logging it keeps the log in step.                *)
LogOf(id) ==
  /\ \A n \in AttemptNos :
       n <= attempts[id] <=> \E c \in RetryClasses : <<n, c>> \in log[id]
  /\ \A n \in AttemptNos, c, d \in RetryClasses :
       <<n, c>> \in log[id] /\ <<n, d>> \in log[id] => c = d

LEMMA LogExtended ==
  ASSUME TypeOK, LogMatchesAttempts, NEW id \in Ids, NEW new \in RetryClasses,
         status[id] # "deleted",
         attempts[id] < MAX_ATTEMPTS,
         attempts'[id] = attempts[id] + 1,
         log'[id] = log[id] \cup {<<attempts[id] + 1, new>>}
  PROVE  LogOf(id)'
<1> USE OutboxAssumption
<1>1. attempts[id] \in Nat
  BY DEF TypeOK
<1>2. \A n, c : <<n, c>> \in log'[id] <=>
        <<n, c>> \in log[id] \/ (n = attempts[id] + 1 /\ c = new)
  OBVIOUS
<1>3. LogOf(id)
  BY DEF LogMatchesAttempts, LogOf
<1>4. ASSUME NEW n \in AttemptNos
      PROVE  n <= attempts'[id] <=> \E c \in RetryClasses : <<n, c>> \in log'[id]
  <2>1. CASE n = attempts[id] + 1
    BY <1>1, <1>2, <2>1
  <2>2. CASE n # attempts[id] + 1
    <3>1. n <= attempts'[id] <=> n <= attempts[id]
      BY <1>1, <2>2 DEF AttemptNos
    <3>2. QED
      BY <1>2, <1>3, <2>2, <3>1 DEF LogOf
  <2>3. QED
    BY <2>1, <2>2
<1>5. ASSUME NEW n \in AttemptNos, NEW c \in RetryClasses, NEW d \in RetryClasses,
             <<n, c>> \in log'[id], <<n, d>> \in log'[id]
      PROVE  c = d
  <2>1. CASE n = attempts[id] + 1
    <3>1. ~(n <= attempts[id])
      BY <1>1, <2>1
    <3>2. <<n, c>> \notin log[id] /\ <<n, d>> \notin log[id]
      BY <1>3, <3>1 DEF LogOf
    <3>3. QED
      BY <1>2, <1>5, <3>2
  <2>2. CASE n # attempts[id] + 1
    BY <1>2, <1>3, <1>5, <2>2 DEF LogOf
  <2>3. QED
    BY <2>1, <2>2
<1>6. QED
  BY <1>4, <1>5 DEF LogOf

LEMMA ReclaimExpiredStep ==
  ASSUME IInv, NEW r \in Replicas, ReclaimExpired(r)
  PROVE  IInv'
<1> USE OutboxAssumption DEF IInv
<1> DEFINE Reclaims(S, wait) ==
      /\ status' = [id \in Ids |->
           IF id \notin S THEN status[id]
           ELSE IF AfterLease(id) >= MAX_ATTEMPTS THEN "abandoned"
           ELSE "queued"]
      /\ attempts' = [id \in Ids |->
           IF id \in S THEN AfterLease(id) ELSE attempts[id]]
      /\ dueIn' = [id \in Ids |-> IF id \in S THEN wait[id] ELSE dueIn[id]]
      /\ heldFor' = [id \in Ids |-> IF id \in S THEN 0 ELSE heldFor[id]]
      /\ claimedBy' = [id \in Ids |->
           IF id \in S THEN NoReplica ELSE claimedBy[id]]
      /\ log' = [id \in Ids |->
           IF id \in S
           THEN log[id] \cup {<<AfterLease(id), "lease-expired">>}
           ELSE log[id]]
<1>0. PICK S \in SUBSET Expired : \E wait \in [S -> 0..MaxWait] : Reclaims(S, wait)
  BY DEF ReclaimExpired, SomeOf
<1>1. PICK wait \in [S -> 0..MaxWait] : Reclaims(S, wait)
  BY <1>0
<1>2. UNCHANGED <<key, age, health, enq, lane, accepted, late, defers>>
  BY DEF ReclaimExpired, netVars
<1>3. pc[r] = "idle" /\ pc' = [pc EXCEPT ![r] = "reclaimed"]
  BY DEF ReclaimExpired
<1>4. \A id \in S :
        /\ id \in Ids
        /\ status[id] = "sending"
        /\ attempts[id] < MAX_ATTEMPTS
        /\ AfterLease(id) = attempts[id] + 1
        /\ AfterLease(id) \in AttemptNos
  BY <1>1 DEF Expired, AfterLease, AttemptsBounded, Live, AttemptNos, TypeOK
<1>5. \A id \in S : lane[r][id].phase = "none"
  BY <1>3, <1>4 DEF LaneInv, Withdrawn, Open
<1>6. TypeOK'
  BY <1>1, <1>2, <1>3, <1>4, Waits
     DEF TypeOK, Statuses, Live, Terminal, RetryClasses, AttemptNos
<1>7. AttemptsBounded' /\ FreshRows' /\ SentWasAccepted'
  BY <1>1, <1>2, <1>4
     DEF AttemptsBounded, FreshRows, SentWasAccepted, Live, TypeOK, AttemptNos
<1>8. LogMatchesAttempts'
  <2>1. \A id \in S :
          /\ status[id] # "deleted"
          /\ attempts[id] < MAX_ATTEMPTS
          /\ attempts'[id] = attempts[id] + 1
          /\ log'[id] = log[id] \cup {<<attempts[id] + 1, "lease-expired">>}
    BY <1>1, <1>4
  <2>2. \A id \in S : LogOf(id)'
    BY <2>1, <1>4, LogExtended DEF RetryClasses
  <2>3. \A id \in Ids \ S : status'[id] # "deleted" => LogOf(id)'
    BY <1>1 DEF LogMatchesAttempts, LogOf
  <2>4. QED
    BY <2>2, <2>3 DEF LogMatchesAttempts, LogOf
<1>9. LaneInv'
  BY <1>1, <1>2, <1>3, <1>4, <1>5 DEF LaneInv, Withdrawn, Open, Fence, TypeOK, Lanes
<1>10. WireInv'
  <2>1. \A id \in Ids : \A n \in Used(id) : n \in Nat
    BY DEF Used, TypeOK, AttemptNos
  <2>2. ASSUME NEW id \in Ids, NEW n \in Used(id)'
        PROVE  n <= attempts'[id] \/ (n = attempts'[id] + 1 /\ Open(id)')
    <3>1. n \in Used(id) /\ n \in Nat
      BY <1>2, <2>1 DEF Used
    <3>2. n <= attempts[id] \/ (n = attempts[id] + 1 /\ Open(id))
      BY <3>1 DEF WireInv, Withdrawn, Open
    <3>3. CASE id \in S
      BY <1>1, <1>4, <3>1, <3>2, <3>3 DEF TypeOK
    <3>4. CASE id \notin S
      BY <1>1, <3>2, <3>4 DEF Open, Withdrawn
    <3>5. QED
      BY <3>3, <3>4
  <2>3. QED
    BY <1>2, <2>2 DEF WireInv, Withdrawn, Open, Used, Unspent
<1>11. QED
  BY <1>6, <1>7, <1>8, <1>9, <1>10

LEMMA PruneTerminalStep ==
  ASSUME IInv, NEW r \in Replicas, PruneTerminal(r)
  PROVE  IInv'
<1> USE OutboxAssumption DEF IInv
<1>1. PICK S \in SUBSET Prunable :
        /\ status' = [id \in Ids |-> IF id \in S THEN "deleted" ELSE status[id]]
        /\ log' = [id \in Ids |-> IF id \in S THEN {} ELSE log[id]]
  BY DEF PruneTerminal
<1>2. UNCHANGED <<key, attempts, dueIn, heldFor, claimedBy, age, health, enq,
                  lane, accepted, late, defers>>
  BY DEF PruneTerminal, netVars
<1>3. pc[r] = "reclaimed" /\ pc' = [pc EXCEPT ![r] = "pruned"]
  BY DEF PruneTerminal
<1>4. \A id \in S : id \in Ids /\ status[id] \in Terminal
  BY DEF Prunable
<1>5. TypeOK'
  BY <1>1, <1>2, <1>3 DEF TypeOK, Statuses
<1>6. AttemptsBounded' /\ FreshRows' /\ SentWasAccepted' /\ LogMatchesAttempts'
  BY <1>1, <1>2 DEF AttemptsBounded, FreshRows, SentWasAccepted,
     LogMatchesAttempts, Live
<1>7. LaneInv'
  <2>1. \A q \in Replicas, id \in Ids : Fence(q, id)' <=> Fence(q, id)
    BY <1>1, <1>2, <1>4 DEF Fence, Terminal
  <2>2. \A id \in Ids : status[id] # "unborn" => status'[id] # "unborn"
    BY <1>1
  <2>3. \A q \in Replicas, id \in Ids : lane[q][id].phase # "none" => pc'[q] = pc[q]
    BY <1>3 DEF LaneInv, Withdrawn, Open, TypeOK
  <2>4. \A id \in Ids : Withdrawn(id) => Withdrawn(id)'
    BY <1>1 DEF Withdrawn
  <2>5. QED
    BY <1>2, <2>1, <2>2, <2>3, <2>4 DEF LaneInv
<1>8. WireInv'
  BY <1>1, <1>2, <1>4 DEF WireInv, Withdrawn, Open, Used, Unspent, Terminal
<1>9. QED
  BY <1>5, <1>6, <1>7, <1>8

LEMMA MemberRemovedStep ==
  ASSUME IInv, NEW u \in Users, MemberRemoved(u)
  PROVE  IInv'
<1> USE OutboxAssumption DEF IInv
<1>1. PICK S \in SUBSET QueuedFor(u) :
        /\ status' = [id \in Ids |-> IF id \in S THEN "abandoned" ELSE status[id]]
        /\ heldFor' = [id \in Ids |-> IF id \in S THEN 0 ELSE heldFor[id]]
        /\ claimedBy' = [id \in Ids |-> IF id \in S THEN NoReplica ELSE claimedBy[id]]
  BY DEF MemberRemoved
<1>2. UNCHANGED <<key, attempts, dueIn, age, log, health, enq, pc, lane,
                  accepted, late, defers>>
  BY DEF MemberRemoved, netVars
<1>3. \A id \in S : id \in Ids /\ status[id] \in Live
  BY DEF QueuedFor
<1>4. TypeOK'
  BY <1>1, <1>2 DEF TypeOK, Statuses, Terminal
<1>5. AttemptsBounded' /\ FreshRows' /\ SentWasAccepted' /\ LogMatchesAttempts'
  BY <1>1, <1>2, <1>3 DEF AttemptsBounded, FreshRows, SentWasAccepted,
     LogMatchesAttempts, Live
<1>6. LaneInv'
  <2>1. ASSUME NEW r \in Replicas, NEW id \in Ids, lane[r][id].phase # "none"
        PROVE  /\ status'[id] # "unborn"
               /\ Fence(r, id)' => Fence(r, id)
               /\ Fence(r, id) => Fence(r, id)' \/ Withdrawn(id)'
               /\ Withdrawn(id) => Withdrawn(id)'
    BY <1>1, <1>3, <2>1 DEF Fence, Withdrawn, LaneInv, Live
  <2>2. QED
    BY <1>2, <2>1 DEF LaneInv
<1>7. WireInv'
  <2>1. \A id \in Ids : Open(id) => Open(id)'
    BY <1>1 DEF Open, Withdrawn
  <2>2. QED
    BY <1>2, <2>1 DEF WireInv, Used, Unspent
<1>8. QED
  BY <1>4, <1>5, <1>6, <1>7

LEMMA ClaimBatchStep ==
  ASSUME IInv, NEW r \in Replicas, ClaimBatch(r)
  PROVE  IInv'
<1> USE OutboxAssumption DEF IInv
<1>1. PICK S \in SUBSET Due :
        /\ status' = [id \in Ids |-> IF id \in S THEN "sending" ELSE status[id]]
        /\ heldFor' = [id \in Ids |-> IF id \in S THEN 0 ELSE heldFor[id]]
        /\ claimedBy' = [id \in Ids |-> IF id \in S THEN r ELSE claimedBy[id]]
        /\ lane' = [lane EXCEPT ![r] = [id \in Ids |->
             IF id \in S THEN Waiting(attempts[id]) ELSE NoLane]]
  BY DEF ClaimBatch, SomeOf
<1>2. UNCHANGED <<key, attempts, dueIn, age, log, health, enq, accepted, late, defers>>
  BY DEF ClaimBatch, netVars
<1>3. pc[r] = "pruned" /\ pc' = [pc EXCEPT ![r] = "dispatching"]
  BY DEF ClaimBatch
<1>4. \A id \in S :
        /\ id \in Ids
        /\ status[id] = "queued"
        /\ attempts[id] \in 0..MAX_ATTEMPTS
        /\ attempts[id] < MAX_ATTEMPTS
  BY DEF Due, AttemptsBounded, Live, TypeOK
<1>5. \A id \in Ids : lane[r][id].phase = "none"
  BY <1>3 DEF LaneInv, Withdrawn, Open
<1>6. \A id \in Ids : lane'[r][id] = IF id \in S THEN Waiting(attempts[id]) ELSE NoLane
  BY <1>1 DEF TypeOK
<1>7. \A q \in Replicas \ {r} : lane'[q] = lane[q]
  BY <1>1 DEF TypeOK
<1>8. \A q \in Replicas, id \in S :
        lane[q][id].phase # "none" => lane[q][id].attempts < attempts[id]
  <2>1. \A q \in Replicas, id \in S : ~Fence(q, id)
    BY <1>4 DEF Fence
  <2>2. QED
    BY <2>1, <1>4, LaneTypes DEF LaneInv, Withdrawn, Open
<1>9. TypeOK'
  <2>1. \A id \in S : Waiting(attempts[id]) \in Lanes
    BY <1>4 DEF Waiting, Lanes
  <2>2. NoLane \in Lanes
    BY DEF NoLane, Lanes
  <2>3. lane' \in [Replicas -> [Ids -> Lanes]]
    BY <1>1, <2>1, <2>2 DEF TypeOK
  <2>4. QED
    BY <1>1, <1>2, <1>3, <2>3 DEF TypeOK, Statuses, Live
<1>10. AttemptsBounded' /\ FreshRows' /\ SentWasAccepted' /\ LogMatchesAttempts'
  BY <1>1, <1>2, <1>4 DEF AttemptsBounded, FreshRows, SentWasAccepted,
     LogMatchesAttempts, Live
<1>11. LaneInv'
  <2> SUFFICES ASSUME NEW q \in Replicas, NEW id \in Ids, lane'[q][id].phase # "none"
               PROVE  /\ pc'[q] = "dispatching"
                      /\ status'[id] # "unborn"
                      /\ lane'[q][id].attempts < MAX_ATTEMPTS
                      /\ lane'[q][id].attempts <= attempts'[id]
                      /\ Fence(q, id)' => lane'[q][id].attempts = attempts'[id]
                      /\ lane'[q][id].attempts = attempts'[id] =>
                           Fence(q, id)' \/ Withdrawn(id)'
                      /\ lane'[q][id].phase = "answered" => lane'[q][id].result # "none"
                      /\ lane'[q][id].phase = "answered" /\ lane'[q][id].result = "ok"
                           => lane'[q][id].attempts + 1 \in accepted'[id]
    BY DEF LaneInv, Withdrawn, Open
  <2>1. CASE q = r
    <3>1. id \in S /\ lane'[r][id] = Waiting(attempts[id])
      BY <2>1, <1>6 DEF NoLane
    <3>2. QED
      BY <2>1, <3>1, <1>1, <1>2, <1>3, <1>4 DEF Waiting, Fence, TypeOK
  <2>2. CASE q # r
    <3>1. lane'[q][id] = lane[q][id] /\ pc'[q] = pc[q]
      BY <2>2, <1>3, <1>7 DEF TypeOK
    <3>2. CASE id \in S
      <4>1. ~Fence(q, id)' /\ lane[q][id].attempts # attempts[id]
        BY <2>2, <3>1, <3>2, <1>1, <1>4, <1>8 DEF Fence, TypeOK, Lanes
      <4>2. QED
        BY <3>1, <3>2, <4>1, <1>1, <1>2, <1>4 DEF LaneInv, Withdrawn, Open
    <3>3. CASE id \notin S
      <4>1. Fence(q, id)' <=> Fence(q, id)
        BY <3>3, <1>1 DEF Fence
      <4>2. QED
        BY <3>1, <3>3, <4>1, <1>1, <1>2 DEF LaneInv, Withdrawn, Open
    <3>4. QED
      BY <3>2, <3>3
  <2>3. QED
    BY <2>1, <2>2
<1>12. WireInv'
  <2>1. \A id \in Ids : Used(id)' = Used(id)
    BY <1>2 DEF Used
  <2>2. \A id \in S : attempts[id] + 1 \notin Used(id)
    BY <1>4 DEF WireInv, Withdrawn, Open
  <2>3. \A q \in Replicas, id \in Ids : Unspent(q, id)' =>
          \/ q # r /\ Unspent(q, id) /\ lane'[q][id] = lane[q][id]
          \/ q = r /\ id \in S /\ lane'[q][id].attempts = attempts[id]
    <3>1. \A q \in Replicas \ {r}, id \in Ids : Unspent(q, id)' => Unspent(q, id)
      BY <1>7 DEF Unspent
    <3>2. \A id \in Ids : Unspent(r, id)' =>
            id \in S /\ lane'[r][id].attempts = attempts[id]
      <4>1. NoLane.phase = "none"
        BY DEF NoLane
      <4>2. \A k : Waiting(k).attempts = k
        BY DEF Waiting
      <4>3. QED
        BY <1>6, <4>1, <4>2 DEF Unspent
    <3>3. QED
      BY <3>1, <3>2, <1>7
  <2>4. \A id \in Ids : \A n \in Used(id)' :
          n <= attempts'[id] \/ (n = attempts'[id] + 1 /\ Open(id)')
    BY <2>1, <1>1, <1>2 DEF WireInv, Withdrawn, Open
  <2>5. \A q \in Replicas, id \in Ids :
          Unspent(q, id)' => lane'[q][id].attempts + 1 \notin Used(id)'
    BY <2>1, <2>2, <2>3 DEF WireInv, Withdrawn, Open
  <2>6. \A p, q \in Replicas, id \in Ids :
          p # q /\ Unspent(p, id)' /\ Unspent(q, id)' =>
            lane'[p][id].attempts # lane'[q][id].attempts
    <3>1. \A q \in Replicas, id \in S : Unspent(q, id) => lane[q][id].attempts # attempts[id]
      BY <1>4, <1>8, LaneTypes DEF Unspent
    <3>2. QED
      BY <2>3, <3>1 DEF WireInv, Withdrawn, Open
  <2>7. QED
    BY <2>1, <2>4, <2>5, <2>6, <1>2 DEF WireInv, Withdrawn, Open
<1>13. QED
  BY <1>9, <1>10, <1>11, <1>12

(* The invariants of the rows, when a step leaves the rows alone and the    *)
(* acceptances only grow.                                                   *)
LEMMA RowsUntouched ==
  ASSUME IInv, UNCHANGED <<status, attempts, log>>,
         \A id \in Ids : accepted[id] \subseteq accepted'[id]
  PROVE  AttemptsBounded' /\ FreshRows' /\ SentWasAccepted' /\ LogMatchesAttempts'
BY DEF IInv, AttemptsBounded, FreshRows, SentWasAccepted, LogMatchesAttempts

LEMMA StartSendStep ==
  ASSUME IInv, NEW r \in Replicas, NEW id \in Ids, StartSend(r, id)
  PROVE  IInv'
<1> USE OutboxAssumption DEF IInv, StartSend, dbVars, netVars
<1>1. lane[r][id] \in Lanes
  BY LaneTypes
<1>2. TypeOK'
  BY <1>1 DEF TypeOK, Lanes
<1>3. AttemptsBounded' /\ FreshRows' /\ SentWasAccepted' /\ LogMatchesAttempts'
  BY RowsUntouched
<1>4. \A q \in Replicas, i \in Ids :
        /\ lane'[q][i].attempts = lane[q][i].attempts
        /\ lane'[q][i].result = lane[q][i].result
        /\ lane'[q][i].phase = IF q = r /\ i = id THEN "calling" ELSE lane[q][i].phase
  BY <1>1 DEF TypeOK, Lanes
<1>5. LaneInv'
  BY <1>4 DEF LaneInv, Withdrawn, Open, Fence
<1>6. WireInv'
  BY <1>4 DEF WireInv, Withdrawn, Open, Unspent, Used
<1>7. QED
  BY <1>2, <1>3, <1>5, <1>6

LEMMA CompletionFailsStep ==
  ASSUME IInv, NEW r \in Replicas, NEW id \in Ids, CompletionFails(r, id)
  PROVE  IInv'
<1> USE OutboxAssumption DEF IInv, CompletionFails, dbVars, netVars
<1>1. NoLane \in Lanes
  BY DEF NoLane, Lanes
<1>2. TypeOK'
  BY <1>1 DEF TypeOK
<1>3. AttemptsBounded' /\ FreshRows' /\ SentWasAccepted' /\ LogMatchesAttempts'
  BY RowsUntouched
<1>4. \A q \in Replicas, i \in Ids :
        lane'[q][i] = IF q = r /\ i = id THEN NoLane ELSE lane[q][i]
  BY DEF TypeOK
<1>5. LaneInv'
  BY <1>4 DEF LaneInv, Withdrawn, Open, Fence, NoLane
<1>6. WireInv'
  BY <1>4 DEF WireInv, Withdrawn, Open, Unspent, Used, NoLane
<1>7. QED
  BY <1>2, <1>3, <1>5, <1>6

(* The attempt of a call goes on the wire under a number of its own.        *)
LEMMA NewOnTheWire ==
  ASSUME IInv, NEW r \in Replicas, NEW id \in Ids, lane[r][id].phase = "calling"
  PROVE  /\ lane[r][id].attempts + 1 \in AttemptNos
         /\ lane[r][id].attempts + 1 \notin Used(id)
         /\ \/ lane[r][id].attempts + 1 <= attempts[id]
            \/ lane[r][id].attempts + 1 = attempts[id] + 1 /\ Open(id)
         /\ \A q \in Replicas \ {r} :
              Unspent(q, id) => lane[q][id].attempts + 1 # lane[r][id].attempts + 1
<1> USE OutboxAssumption DEF IInv
<1>1. /\ lane[r][id].attempts \in Nat
      /\ attempts[id] \in Nat
      /\ lane[r][id].attempts < MAX_ATTEMPTS
      /\ lane[r][id].attempts <= attempts[id]
      /\ lane[r][id].attempts = attempts[id] => Open(id)
  BY LaneTypes DEF LaneInv, Withdrawn, Open, Fence
<1>2. Unspent(r, id)
  BY DEF Unspent
<1>3. \A q \in Replicas \ {r} :
        Unspent(q, id) => lane[q][id].attempts # lane[r][id].attempts
  BY <1>2 DEF WireInv, Withdrawn, Open
<1>4. QED
  BY <1>1, <1>2, <1>3, LaneTypes DEF WireInv, Withdrawn, Open, AttemptNos

LEMMA AdapterAnswersStep ==
  ASSUME IInv, NEW r \in Replicas, NEW id \in Ids, NEW result \in Results,
         AdapterAnswers(r, id, result)
  PROVE  IInv'
<1> USE OutboxAssumption DEF IInv
<1> DEFINE n == lane[r][id].attempts + 1
<1>1. lane[r][id] \in Lanes /\ lane[r][id].phase = "calling" /\ result \in AllResults
  BY LaneTypes DEF AdapterAnswers
<1>2. UNCHANGED <<dbVars, enq, pc, late>>
  BY DEF AdapterAnswers
<1>3. /\ result = "ok" => accepted' = [accepted EXCEPT ![id] = @ \cup {n}]
      /\ result # "ok" => accepted' = accepted
  BY DEF AdapterAnswers
<1>4. lane' = [lane EXCEPT ![r][id].phase = "answered", ![r][id].result = result]
  BY DEF AdapterAnswers
<1>5. \A q \in Replicas, i \in Ids :
        /\ q # r \/ i # id => lane'[q][i] = lane[q][i]
        /\ lane'[q][i].attempts = lane[q][i].attempts
  BY <1>1, <1>4 DEF TypeOK, Lanes
<1>6. lane'[r][id].phase = "answered" /\ lane'[r][id].result = result
  BY <1>1, <1>4 DEF TypeOK, Lanes
<1>7. n \in AttemptNos
  BY <1>1, NewOnTheWire
<1>8. TypeOK'
  <2>1. lane' \in [Replicas -> [Ids -> Lanes]]
    BY <1>1, <1>4 DEF TypeOK, Lanes
  <2>2. accepted' \in [Ids -> SUBSET AttemptNos]
    <3>1. accepted \in [Ids -> SUBSET AttemptNos]
      BY DEF TypeOK
    <3>2. accepted[id] \cup {n} \in SUBSET AttemptNos
      BY <1>7, <3>1
    <3>3. QED
      BY <1>3, <3>1, <3>2
  <2>3. defers' \in 0..MaxDefers
    <3>1. defers \in 0..MaxDefers
      BY DEF TypeOK
    <3>2. /\ result = "email_budget" => defers < MaxDefers
          /\ defers' = IF result = "email_budget" THEN defers + 1 ELSE defers
      BY DEF AdapterAnswers
    <3>3. QED
      BY <3>1, <3>2
  <2>4. QED
    BY <1>2, <2>1, <2>2, <2>3 DEF TypeOK, dbVars
<1>9. \A i \in Ids : accepted[i] \subseteq accepted'[i]
  BY <1>3 DEF TypeOK
<1>10. AttemptsBounded' /\ FreshRows' /\ SentWasAccepted' /\ LogMatchesAttempts'
  BY <1>2, <1>9, RowsUntouched DEF dbVars
<1>11. LaneInv'
  <2>1. result = "ok" => n \in accepted'[id]
    BY <1>3 DEF TypeOK
  <2>2. result # "none"
    BY <1>1 DEF AllResults
  <2>3. \A q \in Replicas, i \in Ids : q # r \/ i # id =>
          (lane'[q][i].phase # "none" =>
             /\ pc'[q] = "dispatching"
             /\ status'[i] # "unborn"
             /\ lane'[q][i].attempts < MAX_ATTEMPTS
             /\ lane'[q][i].attempts <= attempts'[i]
             /\ Fence(q, i)' => lane'[q][i].attempts = attempts'[i]
             /\ lane'[q][i].attempts = attempts'[i] =>
                  Fence(q, i)' \/ Withdrawn(i)'
             /\ lane'[q][i].phase = "answered" => lane'[q][i].result # "none"
             /\ lane'[q][i].phase = "answered" /\ lane'[q][i].result = "ok"
                  => lane'[q][i].attempts + 1 \in accepted'[i])
    BY <1>2, <1>5, <1>9 DEF LaneInv, Withdrawn, Open, Fence, dbVars
  <2>4. /\ pc'[r] = "dispatching"
        /\ status'[id] # "unborn"
        /\ lane'[r][id].attempts < MAX_ATTEMPTS
        /\ lane'[r][id].attempts <= attempts'[id]
        /\ Fence(r, id)' => lane'[r][id].attempts = attempts'[id]
        /\ lane'[r][id].attempts = attempts'[id] =>
             Fence(r, id)' \/ Withdrawn(id)'
    BY <1>1, <1>2, <1>5 DEF LaneInv, Withdrawn, Open, Fence, dbVars
  <2>5. QED
    BY <1>5, <1>6, <2>1, <2>2, <2>3, <2>4 DEF LaneInv, Withdrawn, Open
<1>12. WireInv'
  <2>1. \A q \in Replicas, i \in Ids : Unspent(q, i)' =>
          Unspent(q, i) /\ (q = r /\ i = id => result # "ok")
    BY <1>1, <1>5, <1>6 DEF Unspent
  <2>2. /\ \A i \in Ids : i # id \/ result # "ok" => Used(i)' = Used(i)
        /\ result = "ok" => Used(id)' = Used(id) \cup {n}
    BY <1>2, <1>3 DEF Used, TypeOK
  <2>3. \A i \in Ids : \A k \in Used(i)' :
          k <= attempts'[i] \/ (k = attempts'[i] + 1 /\ Open(i)')
    BY <1>1, <1>2, <2>2, NewOnTheWire DEF WireInv, Withdrawn, Open, dbVars
  <2>4. \A i \in Ids : accepted'[i] \cap late'[i] = {}
    <3>1. n \notin late[id]
      BY <1>1, NewOnTheWire DEF Used
    <3>2. \A i \in Ids : accepted'[i] \subseteq accepted[i] \cup (IF i = id THEN {n} ELSE {})
      BY <1>3 DEF TypeOK
    <3>3. QED
      BY <1>2, <3>1, <3>2 DEF WireInv, Withdrawn, Open
  <2>5. \A q \in Replicas, i \in Ids :
          Unspent(q, i)' => lane'[q][i].attempts + 1 \notin Used(i)'
    BY <1>1, <1>5, <2>1, <2>2, NewOnTheWire DEF WireInv, Withdrawn, Open
  <2>6. \A p, q \in Replicas, i \in Ids :
          p # q /\ Unspent(p, i)' /\ Unspent(q, i)' =>
            lane'[p][i].attempts # lane'[q][i].attempts
    BY <1>5, <2>1 DEF WireInv, Withdrawn, Open
  <2>7. QED
    BY <2>3, <2>4, <2>5, <2>6 DEF WireInv, Withdrawn, Open
<1>13. QED
  BY <1>8, <1>10, <1>11, <1>12

LEMMA DeadlineExceededStep ==
  ASSUME IInv, NEW r \in Replicas, NEW id \in Ids, DeadlineExceeded(r, id)
  PROVE  IInv'
<1> USE OutboxAssumption DEF IInv
<1> DEFINE n == lane[r][id].attempts + 1
<1>1. lane[r][id] \in Lanes /\ lane[r][id].phase = "calling"
  BY LaneTypes DEF DeadlineExceeded
<1>2. UNCHANGED <<dbVars, enq, pc, accepted, defers>>
  BY DEF DeadlineExceeded
<1>3. late' = [late EXCEPT ![id] = @ \cup {n}]
  BY DEF DeadlineExceeded
<1>4. lane' = [lane EXCEPT ![r][id].phase = "answered", ![r][id].result = "transport"]
  BY DEF DeadlineExceeded, DeadlineResult
<1>5. \A q \in Replicas, i \in Ids :
        /\ q # r \/ i # id => lane'[q][i] = lane[q][i]
        /\ lane'[q][i].attempts = lane[q][i].attempts
  BY <1>1, <1>4 DEF TypeOK, Lanes
<1>6. lane'[r][id].phase = "answered" /\ lane'[r][id].result = "transport"
  BY <1>1, <1>4 DEF TypeOK, Lanes
<1>7. n \in AttemptNos
  BY <1>1, NewOnTheWire
<1>8. TypeOK'
  <2>1. lane' \in [Replicas -> [Ids -> Lanes]]
    BY <1>1, <1>4 DEF TypeOK, Lanes, AllResults
  <2>2. late' \in [Ids -> SUBSET AttemptNos]
    BY <1>3, <1>7 DEF TypeOK
  <2>3. QED
    BY <1>2, <2>1, <2>2 DEF TypeOK, dbVars
<1>9. AttemptsBounded' /\ FreshRows' /\ SentWasAccepted' /\ LogMatchesAttempts'
  BY <1>2, RowsUntouched DEF dbVars
<1>10. LaneInv'
  <2>1. /\ pc'[r] = "dispatching"
        /\ status'[id] # "unborn"
        /\ lane'[r][id].attempts < MAX_ATTEMPTS
        /\ lane'[r][id].attempts <= attempts'[id]
        /\ Fence(r, id)' => lane'[r][id].attempts = attempts'[id]
        /\ lane'[r][id].attempts = attempts'[id] =>
             Fence(r, id)' \/ Withdrawn(id)'
    BY <1>1, <1>2, <1>5 DEF LaneInv, Withdrawn, Open, Fence, dbVars
  <2>2. QED
    BY <1>2, <1>5, <1>6, <2>1 DEF LaneInv, Withdrawn, Open, Fence, dbVars
<1>11. WireInv'
  <2>1. \A q \in Replicas, i \in Ids : Unspent(q, i)' =>
          Unspent(q, i) /\ (q # r \/ i # id)
    BY <1>5, <1>6 DEF Unspent
  <2>2. /\ \A i \in Ids : i # id => Used(i)' = Used(i)
        /\ Used(id)' = Used(id) \cup {n}
    BY <1>2, <1>3 DEF Used, TypeOK
  <2>3. \A i \in Ids : \A k \in Used(i)' :
          k <= attempts'[i] \/ (k = attempts'[i] + 1 /\ Open(i)')
    BY <1>1, <1>2, <2>2, NewOnTheWire DEF WireInv, Withdrawn, Open, dbVars
  <2>4. \A i \in Ids : accepted'[i] \cap late'[i] = {}
    <3>1. n \notin accepted[id]
      BY <1>1, NewOnTheWire DEF Used
    <3>2. \A i \in Ids : late'[i] \subseteq late[i] \cup (IF i = id THEN {n} ELSE {})
      BY <1>3 DEF TypeOK
    <3>3. QED
      BY <1>2, <3>1, <3>2 DEF WireInv, Withdrawn, Open
  <2>5. \A q \in Replicas, i \in Ids :
          Unspent(q, i)' => lane'[q][i].attempts + 1 \notin Used(i)'
    BY <1>1, <1>5, <2>1, <2>2, NewOnTheWire DEF WireInv, Withdrawn, Open
  <2>6. \A p, q \in Replicas, i \in Ids :
          p # q /\ Unspent(p, i)' /\ Unspent(q, i)' =>
            lane'[p][i].attempts # lane'[q][i].attempts
    BY <1>5, <2>1 DEF WireInv, Withdrawn, Open
  <2>7. QED
    BY <2>3, <2>4, <2>5, <2>6 DEF WireInv, Withdrawn, Open
<1>12. QED
  BY <1>8, <1>9, <1>10, <1>11

LEMMA LateAcceptanceStep ==
  ASSUME IInv, NEW id \in Ids, NEW n \in AttemptNos, LateAcceptance(id, n)
  PROVE  IInv'
<1> USE OutboxAssumption DEF IInv
<1>1. UNCHANGED <<dbVars, enq, pc, lane, defers>>
  BY DEF LateAcceptance
<1>2. /\ n \in late[id]
      /\ late' = [late EXCEPT ![id] = @ \ {n}]
      /\ accepted' = [accepted EXCEPT ![id] = @ \cup {n}]
  BY DEF LateAcceptance
<1>3. TypeOK'
  BY <1>1, <1>2 DEF TypeOK, dbVars
<1>4. \A i \in Ids : accepted[i] \subseteq accepted'[i]
  BY <1>2 DEF TypeOK
<1>5. AttemptsBounded' /\ FreshRows' /\ SentWasAccepted' /\ LogMatchesAttempts'
  BY <1>1, <1>4, RowsUntouched DEF dbVars
<1>6. LaneInv'
  BY <1>1, <1>4 DEF LaneInv, Withdrawn, Open, Fence, dbVars
<1>7. WireInv'
  <2>1. \A i \in Ids : Used(i)' = Used(i)
    BY <1>2 DEF Used, TypeOK
  <2>2. \A i \in Ids : accepted'[i] \cap late'[i] = {}
    BY <1>2 DEF WireInv, Withdrawn, Open, TypeOK
  <2>3. \A q \in Replicas, i \in Ids : Unspent(q, i)' <=> Unspent(q, i)
    BY <1>1 DEF Unspent
  <2>4. QED
    BY <1>1, <2>1, <2>2, <2>3 DEF WireInv, Withdrawn, Open, dbVars
<1>8. QED
  BY <1>3, <1>5, <1>6, <1>7

LEMMA CrashStep ==
  ASSUME IInv, NEW r \in Replicas, Crash(r)
  PROVE  IInv'
<1> USE OutboxAssumption DEF IInv
<1>1. UNCHANGED <<dbVars, enq, accepted, defers>>
  BY DEF Crash
<1>2. pc' = [pc EXCEPT ![r] = "down"]
  BY DEF Crash
<1>3. \A id \in Ids : lane'[r][id] = NoLane
  BY DEF Crash, TypeOK
<1>4. \A q \in Replicas \ {r} : lane'[q] = lane[q]
  BY DEF Crash, TypeOK
<1>5. late' = [id \in Ids |->
        IF lane[r][id].phase = "calling"
        THEN late[id] \cup {lane[r][id].attempts + 1} ELSE late[id]]
  BY DEF Crash
<1>6. TypeOK'
  <2>1. NoLane \in Lanes
    BY DEF NoLane, Lanes
  <2>2. lane' \in [Replicas -> [Ids -> Lanes]]
    BY <2>1 DEF Crash, TypeOK
  <2>3. late' \in [Ids -> SUBSET AttemptNos]
    <3>1. \A id \in Ids : lane[r][id].phase = "calling" =>
            lane[r][id].attempts + 1 \in AttemptNos
      BY NewOnTheWire
    <3>2. QED
      BY <1>5, <3>1 DEF TypeOK
  <2>4. QED
    BY <1>1, <1>2, <2>2, <2>3 DEF TypeOK, dbVars
<1>7. AttemptsBounded' /\ FreshRows' /\ SentWasAccepted' /\ LogMatchesAttempts'
  BY <1>1, RowsUntouched DEF dbVars
<1>8. LaneInv'
  <2>1. NoLane.phase = "none"
    BY DEF NoLane
  <2>2. QED
    BY <1>1, <1>2, <1>3, <1>4, <2>1 DEF LaneInv, Withdrawn, Open, Fence, TypeOK, dbVars
<1>9. WireInv'
  <2>1. \A q \in Replicas, id \in Ids : Unspent(q, id)' =>
          q # r /\ Unspent(q, id) /\ lane'[q][id] = lane[q][id]
    BY <1>3, <1>4 DEF Unspent, NoLane
  <2>2. \A id \in Ids :
          Used(id)' = Used(id) \cup
            (IF lane[r][id].phase = "calling" THEN {lane[r][id].attempts + 1} ELSE {})
    BY <1>1, <1>5 DEF Used
  <2>3. \A id \in Ids : \A k \in Used(id)' :
          k <= attempts'[id] \/ (k = attempts'[id] + 1 /\ Open(id)')
    BY <1>1, <2>2, NewOnTheWire DEF WireInv, Withdrawn, Open, dbVars
  <2>4. \A id \in Ids : accepted'[id] \cap late'[id] = {}
    <3>1. \A id \in Ids : lane[r][id].phase = "calling" =>
            lane[r][id].attempts + 1 \notin accepted[id]
      BY NewOnTheWire DEF Used
    <3>2. QED
      BY <1>1, <1>5, <3>1 DEF WireInv, Withdrawn, Open
  <2>5. \A q \in Replicas, id \in Ids :
          Unspent(q, id)' => lane'[q][id].attempts + 1 \notin Used(id)'
    BY <2>1, <2>2, NewOnTheWire DEF WireInv, Withdrawn, Open
  <2>6. \A p, q \in Replicas, id \in Ids :
          p # q /\ Unspent(p, id)' /\ Unspent(q, id)' =>
            lane'[p][id].attempts # lane'[q][id].attempts
    BY <2>1 DEF WireInv, Withdrawn, Open
  <2>7. QED
    BY <2>3, <2>4, <2>5, <2>6 DEF WireInv, Withdrawn, Open
<1>10. QED
  BY <1>6, <1>7, <1>8, <1>9

(* A step that only moves the position of a replica with no batch.          *)
LEMMA PositionStep ==
  ASSUME IInv, NEW r \in Replicas, NEW p \in {"idle", "down"},
         \A id \in Ids : lane[r][id].phase = "none",
         pc' = [pc EXCEPT ![r] = p],
         UNCHANGED <<dbVars, enq, lane, netVars, defers>>
  PROVE  IInv'
<1> USE DEF IInv, dbVars, netVars
<1>1. TypeOK'
  BY DEF TypeOK
<1>2. AttemptsBounded' /\ FreshRows' /\ SentWasAccepted' /\ LogMatchesAttempts'
  BY RowsUntouched
<1>3. LaneInv'
  BY DEF LaneInv, Withdrawn, Open, Fence, TypeOK
<1>4. WireInv'
  BY DEF WireInv, Withdrawn, Open, Unspent, Used
<1>5. QED
  BY <1>1, <1>2, <1>3, <1>4

LEMMA PositionSteps ==
  ASSUME IInv, NEW r \in Replicas, EndTick(r) \/ TickFails(r) \/ Restart(r)
  PROVE  IInv'
<1>1. \A id \in Ids : lane[r][id].phase = "none"
  BY DEF IInv, LaneInv, Withdrawn, Open, EndTick, TickFails, Restart, Busy
<1>2. QED
  BY <1>1, PositionStep DEF EndTick, TickFails, Restart

LEMMA TickStep ==
  ASSUME IInv, Tick
  PROVE  IInv'
<1> USE OutboxAssumption
<1>1. TypeOK
  BY DEF IInv
<1>2. dueIn' \in [Ids -> -MaxLag..MaxWait]
  BY <1>1, Waits DEF Tick, TypeOK
<1>3. heldFor' \in [Ids -> 0..Lease + 1]
  BY <1>1 DEF Tick, TypeOK
<1>4. age' \in [Ids -> 0..Retention + 1]
  BY <1>1 DEF Tick, TypeOK
<1>5. TypeOK'
  BY <1>1, <1>2, <1>3, <1>4 DEF Tick, TypeOK, netVars
<1>6. QED
  BY <1>5, QuietStep DEF Tick, netVars

(* A result that the fence lets in is the result of the row's present       *)
(* attempt.                                                                 *)
LEMMA CompleteDeliveryStep ==
  ASSUME IInv, NEW r \in Replicas, NEW id \in Ids, CompleteDelivery(r, id)
  PROVE  IInv'
<1> USE OutboxAssumption DEF IInv
<1> DEFINE result == lane[r][id].result
           n == lane[r][id].attempts + 1
           decision == Decision(result, n)
<1>1. /\ lane[r][id].phase = "answered"
      /\ lane' = [lane EXCEPT ![r][id] = NoLane]
      /\ UNCHANGED <<key, age, enq, pc, accepted, late, defers>>
  BY DEF CompleteDelivery, netVars
<1>2. /\ result \in AllResults
      /\ n \in AttemptNos
      /\ n \in Nat
      /\ result = "ok" => n \in accepted[id]
      /\ Fence(r, id) => lane[r][id].attempts = attempts[id]
  BY <1>1, LaneTypes DEF LaneInv, Withdrawn, Open, AttemptNos
<1>3. /\ decision \in {"done", "defer", "permanent", "retry"}
      /\ decision = "done" => result = "ok"
      /\ decision = "defer" <=> result = "email_budget"
      /\ decision = "retry" => n < MAX_ATTEMPTS
      /\ RetryClass(result, n) \in RetryClasses
  BY <1>2, DecisionCases
<1>4. \A q \in Replicas, i \in Ids :
        lane'[q][i] = IF q = r /\ i = id THEN NoLane ELSE lane[q][i]
  BY <1>1 DEF TypeOK
<1>5. NoLane \in Lanes /\ NoLane.phase = "none"
  BY DEF NoLane, Lanes
<1>6. lane' \in [Replicas -> [Ids -> Lanes]]
  BY <1>1, <1>5 DEF TypeOK
<1>7. \A q \in Replicas, i \in Ids : Unspent(q, i)' =>
        Unspent(q, i) /\ lane'[q][i] = lane[q][i] /\ (q # r \/ i # id)
  BY <1>4, <1>5 DEF Unspent
<1>8. CASE ~Fence(r, id)
  <2>1. UNCHANGED <<status, attempts, dueIn, heldFor, claimedBy, log, health>>
    BY <1>8 DEF CompleteDelivery
  <2>2. TypeOK'
    BY <1>1, <1>6, <2>1 DEF TypeOK
  <2>3. AttemptsBounded' /\ FreshRows' /\ SentWasAccepted' /\ LogMatchesAttempts'
    BY <1>1, <2>1, RowsUntouched
  <2>4. LaneInv'
    BY <1>1, <1>4, <1>5, <2>1 DEF LaneInv, Withdrawn, Open, Fence
  <2>5. WireInv'
    BY <1>1, <1>7, <2>1 DEF WireInv, Withdrawn, Open, Used
  <2>6. QED
    BY <2>2, <2>3, <2>4, <2>5
<1>9. CASE Fence(r, id)
  <2>1. /\ status' = [status EXCEPT ![id] =
             CASE decision = "done"      -> "sent"
               [] decision = "permanent" -> "failed"
               [] OTHER                  -> "queued"]
        /\ attempts' = [attempts EXCEPT ![id] =
             IF decision = "defer" THEN lane[r][id].attempts ELSE n]
        /\ heldFor' = [heldFor EXCEPT ![id] = 0]
        /\ claimedBy' = [claimedBy EXCEPT ![id] = NoReplica]
        /\ log' = IF decision = "defer" THEN log
                  ELSE [log EXCEPT ![id] = @ \cup {<<n, RetryClass(result, n)>>}]
        /\ health' = HealthAfter(decision, OwnerOf(id))
    BY <1>9 DEF CompleteDelivery
  <2>2. dueIn' \in [Ids -> -MaxLag..MaxWait]
    <3>1. \/ UNCHANGED dueIn
          \/ \E wait \in RetryDelays(result, n) : dueIn' = [dueIn EXCEPT ![id] = wait]
      BY <1>9 DEF CompleteDelivery
    <3>2. RetryDelays(result, n) \subseteq -MaxLag..MaxWait
      BY Waits
    <3>3. QED
      BY <3>1, <3>2 DEF TypeOK
  <2>3. /\ status'[id] = IF decision = "done" THEN "sent"
                         ELSE IF decision = "permanent" THEN "failed" ELSE "queued"
        /\ attempts'[id] = IF decision = "defer" THEN attempts[id] ELSE attempts[id] + 1
        /\ attempts'[id] \in 0..MAX_ATTEMPTS
        /\ claimedBy'[id] = NoReplica
        /\ status[id] = "sending"
        /\ attempts[id] < MAX_ATTEMPTS
        /\ attempts[id] \in Nat
        /\ n = attempts[id] + 1
    <3>1. status[id] = "sending" /\ attempts[id] < MAX_ATTEMPTS
      BY <1>9 DEF Fence, AttemptsBounded, Live
    <3>2. n = attempts[id] + 1 /\ attempts[id] \in Nat
      BY <1>2, <1>9 DEF TypeOK
    <3>3. status'[id] = IF decision = "done" THEN "sent"
                        ELSE IF decision = "permanent" THEN "failed" ELSE "queued"
      BY <2>1, <1>3 DEF TypeOK
    <3>4. attempts'[id] = IF decision = "defer" THEN attempts[id] ELSE attempts[id] + 1
      BY <2>1, <3>2, <1>2, <1>9 DEF TypeOK
    <3>5. claimedBy'[id] = NoReplica
      BY <2>1 DEF TypeOK
    <3>6. attempts'[id] \in 0..MAX_ATTEMPTS
      BY <3>1, <3>2, <3>4
    <3>7. QED
      BY <3>1, <3>2, <3>3, <3>4, <3>5, <3>6
  <2>4. \A i \in Ids \ {id} :
          /\ status'[i] = status[i]
          /\ attempts'[i] = attempts[i]
          /\ claimedBy'[i] = claimedBy[i]
          /\ log'[i] = log[i]
    BY <2>1 DEF TypeOK
  <2>5. TypeOK'
    <3>1. status' \in [Ids -> Statuses]
      BY <2>1, <1>3 DEF TypeOK, Statuses, Live, Terminal
    <3>2. attempts' \in [Ids -> 0..MAX_ATTEMPTS]
      BY <2>1, <1>2, <1>9, <2>3 DEF TypeOK
    <3>3. log' \in [Ids -> SUBSET (AttemptNos \X RetryClasses)]
      BY <2>1, <1>2, <1>3 DEF TypeOK
    <3>4. health' \in [Users -> {"healthy", "broken"}]
      BY <2>1 DEF HealthAfter, TypeOK
    <3>5. heldFor' \in [Ids -> 0..Lease + 1] /\ claimedBy' \in [Ids -> Replicas \cup {NoReplica}]
      BY <2>1 DEF TypeOK
    <3>6. QED
      BY <1>1, <1>6, <2>2, <3>1, <3>2, <3>3, <3>4, <3>5 DEF TypeOK
  <2>6. AttemptsBounded' /\ FreshRows'
    <3>1. status'[id] # "unborn" /\ status'[id] # "abandoned"
      BY <2>3
    <3>2. status'[id] \in Live => attempts'[id] < MAX_ATTEMPTS
      BY <1>3, <2>3 DEF Live
    <3>3. QED
      BY <2>4, <3>1, <3>2 DEF AttemptsBounded, FreshRows
  <2>7. SentWasAccepted'
    BY <1>1, <1>2, <1>3, <2>3, <2>4 DEF SentWasAccepted
  <2>8. LogMatchesAttempts'
    <3>1. CASE decision = "defer"
      BY <2>1, <2>3, <2>4, <3>1 DEF LogMatchesAttempts
    <3>2. CASE decision # "defer"
      <4>1. attempts'[id] = attempts[id] + 1
        BY <2>3, <3>2
      <4>2. log'[id] = log[id] \cup {<<attempts[id] + 1, RetryClass(result, n)>>}
        BY <2>1, <2>3, <3>2 DEF TypeOK
      <4>3. LogOf(id)'
        BY <1>3, <2>3, <4>1, <4>2, LogExtended
      <4>4. \A i \in Ids \ {id} : status'[i] # "deleted" => LogOf(i)'
        BY <2>4 DEF LogMatchesAttempts, LogOf
      <4>5. QED
        BY <4>3, <4>4 DEF LogMatchesAttempts, LogOf
    <3>3. QED
      BY <3>1, <3>2
  <2>9. LaneInv'
    <3> SUFFICES ASSUME NEW q \in Replicas, NEW i \in Ids, lane'[q][i].phase # "none"
                 PROVE  /\ pc'[q] = "dispatching"
                        /\ status'[i] # "unborn"
                        /\ lane'[q][i].attempts < MAX_ATTEMPTS
                        /\ lane'[q][i].attempts <= attempts'[i]
                        /\ Fence(q, i)' => lane'[q][i].attempts = attempts'[i]
                        /\ lane'[q][i].attempts = attempts'[i] =>
                             Fence(q, i)' \/ Withdrawn(i)'
                        /\ lane'[q][i].phase = "answered" => lane'[q][i].result # "none"
                        /\ lane'[q][i].phase = "answered" /\ lane'[q][i].result = "ok"
                             => lane'[q][i].attempts + 1 \in accepted'[i]
      BY DEF LaneInv, Withdrawn, Open
    <3>1. lane'[q][i] = lane[q][i] /\ (q # r \/ i # id)
      BY <1>4, <1>5
    <3>2. CASE i # id
      <4>1. Fence(q, i)' <=> Fence(q, i)
        BY <2>4, <3>2 DEF Fence
      <4>2. QED
        BY <1>1, <2>4, <3>1, <3>2, <4>1 DEF LaneInv, Withdrawn, Open
    <3>3. CASE i = id
      <4>1. ~Fence(q, id)
        BY <1>9, <3>1, <3>3 DEF Fence
      <4>2. ~Fence(q, id)'
        BY <2>3 DEF Fence
      <4>3. lane[q][id].attempts < attempts[id]
        BY <1>9, <3>1, <3>3, <4>1, LaneTypes DEF LaneInv, Withdrawn, Fence
      <4>4. lane[q][id].attempts < attempts'[id]
        BY <2>3, <4>3, LaneTypes
      <4>5. lane[q][id].attempts <= attempts'[id] /\ lane[q][id].attempts # attempts'[id]
        BY <4>4, <2>3, LaneTypes
      <4>6. status'[id] # "unborn"
        BY <2>3
      <4>7. QED
        BY <1>1, <3>1, <3>3, <4>2, <4>5, <4>6 DEF LaneInv, Withdrawn, Open
    <3>4. QED
      BY <3>2, <3>3
  <2>10. WireInv'
    <3>1. \A i \in Ids : Used(i)' = Used(i)
      BY <1>1 DEF Used
    <3>2. ASSUME NEW i \in Ids, NEW k \in Used(i)
          PROVE  k <= attempts'[i] \/ (k = attempts'[i] + 1 /\ Open(i)')
      <4>1. k \in Nat /\ (k <= attempts[i] \/ (k = attempts[i] + 1 /\ Open(i)))
        BY DEF WireInv, Withdrawn, Open, Used, TypeOK, AttemptNos
      <4>2. CASE i # id
        BY <2>4, <4>1, <4>2 DEF Open, Withdrawn
      <4>3. CASE i = id /\ decision # "defer"
        BY <2>3, <4>1, <4>3
      <4>4. CASE i = id /\ decision = "defer"
        <5>1. Unspent(r, id)
          BY <1>1, <1>3, <4>4 DEF Unspent
        <5>2. attempts[id] + 1 \notin Used(id)
          BY <2>3, <5>1 DEF WireInv, Withdrawn, Open
        <5>3. QED
          BY <2>3, <4>1, <4>4, <5>2
      <4>5. QED
        BY <4>2, <4>3, <4>4
    <3>3. QED
      BY <1>1, <1>7, <3>1, <3>2 DEF WireInv, Withdrawn, Open
  <2>11. QED
    BY <2>5, <2>6, <2>7, <2>8, <2>9, <2>10
<1>10. QED
  BY <1>8, <1>9

-----------------------------------------------------------------------------
(* Which actions move a row's status, its key or a channel's health.        *)
LEMMA Movers ==
  ASSUME [Next]_vars
  PROVE  \/ UNCHANGED <<status, key, attempts, health>>
         \/ \E e \in Enqueuers : EnqueueCommits(e)
         \/ \E r \in Replicas :
              ReclaimExpired(r) \/ PruneTerminal(r) \/ ClaimBatch(r)
         \/ \E r \in Replicas, id \in Ids : CompleteDelivery(r, id)
         \/ \E u \in Users : MemberRemoved(u)
<1> DEFINE Still == UNCHANGED <<status, key, attempts, health>>
<1>1. ASSUME NEW e \in Enqueuers, NEW k \in Keys, EnqueueReadsCap(e, k)
      PROVE  Still
  BY <1>1 DEF EnqueueReadsCap, dbVars
<1>2. ASSUME NEW e \in Enqueuers,
             EnqueueInserts(e) \/ EnqueueInsertsNothing(e) \/ EnqueueAborts(e)
      PROVE  Still
  BY <1>2 DEF EnqueueInserts, EnqueueInsertsNothing, EnqueueAborts, dbVars
<1>3. ASSUME NEW r \in Replicas, NEW id \in Ids, StartSend(r, id)
      PROVE  Still
  BY <1>3 DEF StartSend, dbVars
<1>4. ASSUME NEW r \in Replicas, NEW id \in Ids, NEW result \in Results,
             AdapterAnswers(r, id, result)
      PROVE  Still
  BY <1>4 DEF AdapterAnswers, dbVars
<1>5. ASSUME NEW r \in Replicas, NEW id \in Ids, DeadlineExceeded(r, id)
      PROVE  Still
  BY <1>5 DEF DeadlineExceeded, dbVars
<1>6. ASSUME NEW r \in Replicas, NEW id \in Ids, CompletionFails(r, id)
      PROVE  Still
  BY <1>6 DEF CompletionFails, dbVars
<1>7. ASSUME NEW r \in Replicas, EndTick(r) \/ TickFails(r) \/ Restart(r)
      PROVE  Still
  BY <1>7 DEF EndTick, TickFails, Restart, dbVars
<1>8. ASSUME NEW id \in Ids, NEW n \in AttemptNos, LateAcceptance(id, n)
      PROVE  Still
  BY <1>8 DEF LateAcceptance, dbVars
<1>9. ASSUME NEW r \in Replicas, Crash(r)
      PROVE  Still
  BY <1>9 DEF Crash, dbVars
<1>10. ASSUME Tick
       PROVE  Still
  BY <1>10 DEF Tick
<1>11. ASSUME UNCHANGED vars
       PROVE  Still
  BY <1>11 DEF vars, dbVars
<1> HIDE DEF Still
<1>12. \/ Still
       \/ \E e \in Enqueuers : EnqueueCommits(e)
       \/ \E r \in Replicas :
            ReclaimExpired(r) \/ PruneTerminal(r) \/ ClaimBatch(r)
       \/ \E r \in Replicas, id \in Ids : CompleteDelivery(r, id)
       \/ \E u \in Users : MemberRemoved(u)
  BY <1>1, <1>2, <1>3, <1>4, <1>5, <1>6, <1>7, <1>8, <1>9, <1>10, <1>11 DEF Next
<1>13. QED
  BY <1>12 DEF Still

(* ... and which of them move the statements of enqueueOutbox.              *)
LEMMA EnqueueMovers ==
  ASSUME [Next]_vars
  PROVE  \/ UNCHANGED enq
         \/ \E e \in Enqueuers, k \in Keys : EnqueueReadsCap(e, k)
         \/ \E e \in Enqueuers :
              \/ EnqueueInserts(e) \/ EnqueueInsertsNothing(e)
              \/ EnqueueCommits(e) \/ EnqueueAborts(e)
<1>1. ASSUME NEW r \in Replicas, ReclaimExpired(r) \/ PruneTerminal(r)
      PROVE  UNCHANGED enq
  BY <1>1 DEF ReclaimExpired, PruneTerminal
<1>2. ASSUME NEW r \in Replicas, ClaimBatch(r)
      PROVE  UNCHANGED enq
  BY <1>2 DEF ClaimBatch
<1>3. ASSUME NEW r \in Replicas, NEW id \in Ids,
             StartSend(r, id) \/ DeadlineExceeded(r, id) \/ CompletionFails(r, id)
      PROVE  UNCHANGED enq
  BY <1>3 DEF StartSend, DeadlineExceeded, CompletionFails
<1>4. ASSUME NEW r \in Replicas, NEW id \in Ids, NEW result \in Results,
             AdapterAnswers(r, id, result)
      PROVE  UNCHANGED enq
  BY <1>4 DEF AdapterAnswers
<1>5. ASSUME NEW r \in Replicas, NEW id \in Ids, CompleteDelivery(r, id)
      PROVE  UNCHANGED enq
  BY <1>5 DEF CompleteDelivery
<1>6. ASSUME NEW r \in Replicas,
             EndTick(r) \/ TickFails(r) \/ Restart(r) \/ Crash(r)
      PROVE  UNCHANGED enq
  BY <1>6 DEF EndTick, TickFails, Restart, Crash
<1>7. ASSUME NEW u \in Users, MemberRemoved(u)
      PROVE  UNCHANGED enq
  BY <1>7 DEF MemberRemoved
<1>8. ASSUME NEW id \in Ids, NEW n \in AttemptNos, LateAcceptance(id, n)
      PROVE  UNCHANGED enq
  BY <1>8 DEF LateAcceptance
<1>9. ASSUME Tick
      PROVE  UNCHANGED enq
  BY <1>9 DEF Tick
<1>10. ASSUME UNCHANGED vars
       PROVE  UNCHANGED enq
  BY <1>10 DEF vars
<1> DEFINE Still == UNCHANGED enq
<1> HIDE DEF Still
<1>11. ASSUME Next
       PROVE  \/ Still
              \/ \E e \in Enqueuers, k \in Keys : EnqueueReadsCap(e, k)
              \/ \E e \in Enqueuers :
                   \/ EnqueueInserts(e) \/ EnqueueInsertsNothing(e)
                   \/ EnqueueCommits(e) \/ EnqueueAborts(e)
  BY <1>11, <1>1, <1>2, <1>3, <1>4, <1>5, <1>6, <1>7, <1>8, <1>9 DEF Next, Still
<1>12. QED
  BY <1>10, <1>11 DEF Still

-----------------------------------------------------------------------------
LEMMA NextInvariant == IInv /\ [Next]_vars => IInv'
<1> SUFFICES ASSUME IInv, [Next]_vars
             PROVE  IInv'
  OBVIOUS
<1>1. CASE Next
  BY <1>1, EnqueueReadsCapStep, EnqueueInsertsStep, EnqueueInsertsNothingStep,
     EnqueueCommitsStep, EnqueueAbortsStep,
     ReclaimExpiredStep, PruneTerminalStep, ClaimBatchStep, StartSendStep,
     AdapterAnswersStep, DeadlineExceededStep, CompleteDeliveryStep,
     CompletionFailsStep, PositionSteps, MemberRemovedStep, LateAcceptanceStep,
     CrashStep, TickStep
     DEF Next
<1>2. CASE UNCHANGED vars
  <2>1. TypeOK'
    BY <1>2 DEF IInv, TypeOK, vars, dbVars, netVars
  <2>2. QED
    BY <1>2, <2>1, QuietStep DEF vars, dbVars, netVars
<1>3. QED
  BY <1>1, <1>2

(* The inductive invariant holds in every reachable state.                  *)
THEOREM Invariant == Spec => []IInv
<1>1. Init => IInv
  BY InitInvariant
<1>2. IInv /\ [Next]_vars => IInv'
  BY NextInvariant
<1>3. QED
  BY <1>1, <1>2, PTL DEF Spec

(* Every variable keeps its type; in particular no attempt count passes     *)
(* MAX_ATTEMPTS.                                                            *)
THEOREM TypeCorrect == Spec => []TypeOK
BY Invariant, PTL DEF IInv

(* delivery_attempt has exactly one entry per attempt a row was charged.    *)
THEOREM LogIsComplete == Spec => []LogMatchesAttempts
BY Invariant, PTL DEF IInv

(* Only a row with an attempt left waits for one; abandoned rows have spent *)
(* them all.                                                                *)
THEOREM AttemptsAreBounded == Spec => []AttemptsBounded
BY Invariant, PTL DEF IInv

(* A row is sent only if a provider accepted it.                            *)
THEOREM NoSilentLoss == Spec => []SentWasAccepted
BY Invariant, PTL DEF IInv

(* Two requests of a row never share an attempt number, hence its           *)
(* notification is accepted at most MAX_ATTEMPTS times.                     *)
THEOREM DuplicatesAreBounded == Spec => []OneRequestPerAttempt
<1>1. IInv => OneRequestPerAttempt
  BY DEF IInv, WireInv, Withdrawn, Open, Used, Unspent, OneRequestPerAttempt, OnTheWire
<1>2. QED
  BY <1>1, Invariant, PTL

(* The fence keeps terminal rows terminal.                                  *)
THEOREM FenceHolds == Spec => TerminalIsFinal
<1>1. ASSUME IInv, [Next]_vars, NEW id \in Ids, status[id] \in Terminal
      PROVE  status'[id] \in {status[id], "deleted"} /\ attempts'[id] = attempts[id]
  <2> USE <1>1 DEF IInv
  <2>1. status[id] \notin {"unborn", "queued", "sending"}
    BY DEF Terminal
  <2>2. CASE UNCHANGED <<status, attempts>>
    BY <2>2
  <2>3. ASSUME NEW e \in Enqueuers, EnqueueCommits(e)
        PROVE  status'[id] = status[id] /\ attempts'[id] = attempts[id]
    BY <2>1, <2>3 DEF EnqueueCommits
  <2>4. ASSUME NEW r \in Replicas, ReclaimExpired(r)
        PROVE  status'[id] = status[id] /\ attempts'[id] = attempts[id]
    BY <2>1, <2>4 DEF ReclaimExpired, SomeOf, Expired
  <2>5. ASSUME NEW r \in Replicas, PruneTerminal(r)
        PROVE  status'[id] \in {status[id], "deleted"} /\ attempts'[id] = attempts[id]
    BY <2>5 DEF PruneTerminal
  <2>6. ASSUME NEW r \in Replicas, ClaimBatch(r)
        PROVE  status'[id] = status[id] /\ attempts'[id] = attempts[id]
    BY <2>1, <2>6 DEF ClaimBatch, SomeOf, Due
  <2>7. ASSUME NEW r \in Replicas, NEW i \in Ids, CompleteDelivery(r, i)
        PROVE  status'[id] = status[id] /\ attempts'[id] = attempts[id]
    BY <2>1, <2>7 DEF CompleteDelivery, Fence, TypeOK
  <2>8. ASSUME NEW u \in Users, MemberRemoved(u)
        PROVE  status'[id] = status[id] /\ attempts'[id] = attempts[id]
    BY <2>1, <2>8 DEF MemberRemoved, QueuedFor, Live
  <2>9. QED
    BY <2>2, <2>3, <2>4, <2>5, <2>6, <2>7, <2>8, Movers
<1>2. IInv /\ [Next]_vars =>
        [\A id \in Ids : status[id] \in Terminal =>
           /\ status'[id] \in {status[id], "deleted"}
           /\ attempts'[id] = attempts[id]]_vars
  BY <1>1
<1>3. QED
  BY <1>2, Invariant, PTL DEF Spec, TerminalIsFinal

(* Only the transaction that records a verdict of a claimed row touches the *)
(* health of its recipient's channel, and it says what the verdict was.     *)
THEOREM HealthIsAVerdict == Spec => HealthFollowsVerdict
<1>1. ASSUME IInv, [Next]_vars, NEW u \in Users, health'[u] # health[u]
      PROVE  \E id \in Ids :
               /\ status[id] = "sending"
               /\ OwnerOf(id) = u
               /\ status'[id] = IF health'[u] = "healthy" THEN "sent" ELSE "failed"
  <2>1. TypeOK
    BY <1>1 DEF IInv
  <2>2. ASSUME NEW r \in Replicas,
               ReclaimExpired(r) \/ PruneTerminal(r) \/ ClaimBatch(r)
        PROVE  UNCHANGED health
    BY <2>2 DEF ReclaimExpired, PruneTerminal, ClaimBatch
  <2>3. \A e \in Enqueuers : EnqueueCommits(e) => UNCHANGED health
    BY DEF EnqueueCommits
  <2>4. \A w \in Users : MemberRemoved(w) => UNCHANGED health
    BY DEF MemberRemoved
  <2>5. PICK r \in Replicas, id \in Ids : CompleteDelivery(r, id)
    BY <1>1, <2>2, <2>3, <2>4, Movers
  <2> DEFINE n == lane[r][id].attempts + 1
             result == lane[r][id].result
             decision == Decision(result, n)
  <2>6. /\ Fence(r, id)
        /\ status' = [status EXCEPT ![id] =
             CASE decision = "done"      -> "sent"
               [] decision = "permanent" -> "failed"
               [] OTHER                  -> "queued"]
        /\ health' = HealthAfter(decision, OwnerOf(id))
    BY <1>1, <2>5 DEF CompleteDelivery
  <2>7. status[id] = "sending" /\ status \in [Ids -> Statuses]
    BY <2>1, <2>6 DEF Fence, TypeOK
  <2> HIDE DEF decision
  <2>8. health \in [Users -> {"healthy", "broken"}]
    BY <2>1 DEF TypeOK
  <2>9. CASE decision = "done"
    <3>1. health' = [health EXCEPT ![OwnerOf(id)] = "healthy"]
      BY <2>6, <2>9 DEF HealthAfter
    <3>2. OwnerOf(id) = u /\ health'[u] = "healthy"
      BY <1>1, <2>8, <3>1
    <3>3. status'[id] = "sent"
      BY <2>6, <2>7, <2>9
    <3>4. QED
      BY <2>7, <3>2, <3>3
  <2>10. CASE decision = "permanent"
    <3>1. health' = [health EXCEPT ![OwnerOf(id)] = "broken"]
      BY <2>6, <2>10 DEF HealthAfter
    <3>2. OwnerOf(id) = u /\ health'[u] = "broken"
      BY <1>1, <2>8, <3>1
    <3>3. status'[id] = "failed"
      BY <2>6, <2>7, <2>10
    <3>4. QED
      BY <2>7, <3>2, <3>3
  <2>11. CASE decision \notin {"done", "permanent"}
    BY <1>1, <2>6, <2>11 DEF HealthAfter
  <2>12. QED
    BY <2>9, <2>10, <2>11
<1>2. IInv /\ [Next]_vars =>
        [\A u \in Users : health'[u] # health[u] =>
           \E id \in Ids :
             /\ status[id] = "sending"
             /\ OwnerOf(id) = u
             /\ status'[id] = IF health'[u] = "healthy" THEN "sent" ELSE "failed"]_vars
  BY <1>1
<1>3. QED
  BY <1>2, Invariant, PTL DEF Spec, HealthFollowsVerdict

-----------------------------------------------------------------------------
(* The cap.  A transaction claims a slot for each row it has inserted and   *)
(* not committed, and for a statement that found room; the slots are pairs  *)
(* of a transaction and a position in it, so there are only so many.        *)
Slots == Enqueuers \X (1..RowsPerTransaction)

Claims(u) ==
  {s \in Slots :
     LET t == enq[s[1]]
     IN  \/ s[2] \in RowsFor(s[1], u)
         \/ s[2] = Len(t.rows) + 1 /\ t.key # NoKey /\ t.room /\ Owner[t.key] = u}

Overshoot == (Cardinality(Enqueuers) - 1) * RowsPerTransaction

CapHolds(u) ==
  /\ IsFiniteSet(QueuedFor(u))
  /\ Cardinality(QueuedFor(u)) + Cardinality(Claims(u))
       <= MaxQueuedPerUser + Overshoot

CapInv == \A u \in Users : CapHolds(u)

LEMMA SlotsCounted ==
  /\ MaxQueuedPerUser \in Nat \ {0} /\ RowsPerTransaction \in Nat \ {0}
  /\ Overshoot \in Nat
  /\ \A S \in SUBSET Slots : IsFiniteSet(S) /\ Cardinality(S) \in Nat
  /\ \A e \in Enqueuers :
       LET others == (Enqueuers \ {e}) \X (1..RowsPerTransaction)
       IN  IsFiniteSet(others) /\ Cardinality(others) = Overshoot
<1>1. /\ IsFiniteSet(Enqueuers) /\ Enqueuers # {}
      /\ MaxQueuedPerUser \in Nat \ {0} /\ RowsPerTransaction \in Nat \ {0}
  BY OutboxAssumption
<1>2. Cardinality(Enqueuers) \in Nat /\ Cardinality(Enqueuers) # 0
  BY <1>1, FS_CardinalityType, FS_EmptySet
<1>3. IsFiniteSet(1..RowsPerTransaction)
      /\ Cardinality(1..RowsPerTransaction) = RowsPerTransaction
  <2>1. PICK one \in Int : one = 1
    OBVIOUS
  <2>2. RowsPerTransaction \in Int /\ ~(one > RowsPerTransaction)
    BY <1>1, <2>1
  <2>3. IsFiniteSet(one..RowsPerTransaction)
        /\ Cardinality(one..RowsPerTransaction) = RowsPerTransaction - one + 1
    BY <2>2, FS_Interval
  <2>4. QED
    BY <1>1, <2>1, <2>3
<1>4. Overshoot \in Nat
  <2>1. PICK n \in Nat : n = Cardinality(Enqueuers) - 1
    BY <1>2
  <2>2. n * RowsPerTransaction \in Nat
    BY <1>1
  <2>3. QED
    BY <2>1, <2>2 DEF Overshoot
<1>5. ASSUME NEW S \in SUBSET Slots
      PROVE  IsFiniteSet(S) /\ Cardinality(S) \in Nat
  <2>1. IsFiniteSet(Slots)
    BY <1>1, <1>3, FS_Product DEF Slots
  <2>2. IsFiniteSet(S)
    BY <2>1, FS_Subset
  <2>3. QED
    BY <2>2, FS_CardinalityType
<1>6. ASSUME NEW e \in Enqueuers
      PROVE  LET others == (Enqueuers \ {e}) \X (1..RowsPerTransaction)
             IN  IsFiniteSet(others) /\ Cardinality(others) = Overshoot
  <2> DEFINE rest == Enqueuers \ {e}
  <2>1. IsFiniteSet(rest) /\ Cardinality(rest) = Cardinality(Enqueuers) - 1
    BY <1>1, FS_RemoveElement
  <2> HIDE DEF rest
  <2>2. /\ IsFiniteSet(rest \X (1..RowsPerTransaction))
        /\ Cardinality(rest \X (1..RowsPerTransaction))
             = Cardinality(rest) * Cardinality(1..RowsPerTransaction)
    BY <1>3, <2>1, FS_Product
  <2>3. Cardinality(rest \X (1..RowsPerTransaction)) = Overshoot
    BY <1>3, <2>1, <2>2 DEF Overshoot
  <2>4. QED
    BY <2>2, <2>3 DEF rest
<1>7. QED
  BY <1>1, <1>4, <1>5, <1>6

LEMMA SubsetCounts ==
  ASSUME NEW S, NEW T, IsFiniteSet(S), T \subseteq S
  PROVE  /\ IsFiniteSet(T)
         /\ Cardinality(T) \in Nat /\ Cardinality(S) \in Nat
         /\ Cardinality(T) <= Cardinality(S)
<1>1. IsFiniteSet(T) /\ Cardinality(T) <= Cardinality(S)
  BY FS_Subset
<1>2. QED
  BY <1>1, FS_CardinalityType

LEMMA UnionCounts ==
  ASSUME NEW S, NEW T, IsFiniteSet(S), IsFiniteSet(T)
  PROVE  /\ IsFiniteSet(S \cup T)
         /\ Cardinality(S \cup T) \in Nat
         /\ Cardinality(S) \in Nat /\ Cardinality(T) \in Nat
         /\ Cardinality(S \cup T) <= Cardinality(S) + Cardinality(T)
<1>1. /\ IsFiniteSet(S \cup T)
      /\ Cardinality(S \cup T) =
           Cardinality(S) + Cardinality(T) - Cardinality(S \cap T)
  BY FS_Union
<1>2. IsFiniteSet(S \cap T)
  BY FS_Intersection
<1>3. /\ Cardinality(S \cup T) \in Nat /\ Cardinality(S \cap T) \in Nat
      /\ Cardinality(S) \in Nat /\ Cardinality(T) \in Nat
  BY <1>1, <1>2, FS_CardinalityType
<1>4. QED
  BY <1>1, <1>3

LEMMA InitCap == Init => CapInv
<1> SUFFICES ASSUME Init, NEW u \in Users
             PROVE  CapHolds(u)
  BY DEF CapInv
<1>1. QueuedFor(u) = {}
  BY DEF Init, QueuedFor, Live
<1>2. Claims(u) = {}
  BY DEF Init, Claims, Slots, RowsFor, NoEnqueue
<1>3. QED
  BY <1>1, <1>2, FS_EmptySet, SlotsCounted DEF CapHolds

(* Neither a queue nor the claims grow.                                     *)
LEMMA CapKept ==
  ASSUME CapInv, NEW u \in Users,
         QueuedFor(u)' \subseteq QueuedFor(u), Claims(u)' \subseteq Claims(u)
  PROVE  CapHolds(u)'
<1>1. /\ IsFiniteSet(QueuedFor(u))
      /\ Cardinality(QueuedFor(u)) + Cardinality(Claims(u))
           <= MaxQueuedPerUser + Overshoot
  BY DEF CapInv, CapHolds
<1>2. IsFiniteSet(Claims(u))
  BY SlotsCounted DEF Claims
<1>3. /\ IsFiniteSet(QueuedFor(u)')
      /\ Cardinality(QueuedFor(u)') \in Nat /\ Cardinality(QueuedFor(u)) \in Nat
      /\ Cardinality(QueuedFor(u)') <= Cardinality(QueuedFor(u))
  BY <1>1, SubsetCounts
<1>4. /\ Cardinality(Claims(u)') \in Nat /\ Cardinality(Claims(u)) \in Nat
      /\ Cardinality(Claims(u)') <= Cardinality(Claims(u))
  BY <1>2, SubsetCounts
<1>5. QED
  BY <1>1, <1>3, <1>4, SlotsCounted DEF CapHolds, Overshoot

(* A statement reads the cap: only if it finds room does its transaction    *)
(* get one more claim, and then the others have all they can have at most.  *)
LEMMA ReadKeepsCap ==
  ASSUME IInv, CapInv, NEW u \in Users,
         NEW e \in Enqueuers, NEW k \in Keys, EnqueueReadsCap(e, k)
  PROVE  CapHolds(u)'
<1> DEFINE next == Len(enq[e].rows) + 1
<1>1. /\ enq \in [Enqueuers -> Transactions]
      /\ enq[e] \in Transactions
      /\ enq[e].rows \in Seq(Keys)
      /\ IsFiniteSet(QueuedFor(u))
  BY EnqTypes DEF IInv, CapInv, CapHolds
<1>2. /\ QueuedFor(u)' = QueuedFor(u)
      /\ enq' = [enq EXCEPT ![e] =
           [key |-> k, room |-> HasRoom(e, Owner[k]), rows |-> enq[e].rows]]
      /\ enq[e].key = NoKey
  BY <1>1 DEF EnqueueReadsCap, QueuedFor, OwnerOf, dbVars
<1>3. \A f \in Enqueuers : RowsFor(f, u)' = RowsFor(f, u)
  BY <1>1, <1>2 DEF RowsFor
<1>4. CASE Owner[k] = u /\ HasRoom(e, u)
  <2> DEFINE mine == RowsFor(e, u)
             all == mine \cup {next}
             others == (Enqueuers \ {e}) \X (1..RowsPerTransaction)
  <2>1. Cardinality(QueuedFor(u)) + Cardinality(mine) < MaxQueuedPerUser
    BY <1>4 DEF HasRoom, Counted
  <2>2. IsFiniteSet(mine)
    <3>1. PICK one \in Int : one = 1
      OBVIOUS
    <3>2. Len(enq[e].rows) \in Int /\ DOMAIN enq[e].rows = one..Len(enq[e].rows)
      BY <1>1, <3>1
    <3>3. IsFiniteSet(DOMAIN enq[e].rows)
      BY <3>1, <3>2, FS_Interval
    <3>4. QED
      BY <3>3, FS_Subset DEF RowsFor
  <2>3. Claims(u)' \subseteq ({e} \X all) \cup others
    <3>1. ASSUME NEW s \in Slots, s[1] = e, s \in Claims(u)'
          PROVE  s \in {e} \X all
      <4>1. enq'[e].rows = enq[e].rows
        BY <1>1, <1>2
      <4>2. s[2] \in RowsFor(e, u)' \/ s[2] = Len(enq[e].rows) + 1
        BY <3>1, <4>1 DEF Claims
      <4>3. QED
        BY <1>3, <3>1, <4>2 DEF Slots
    <3>2. QED
      BY <3>1 DEF Claims, Slots
  <2> HIDE DEF others
  <2>4. IsFiniteSet(all) /\ Cardinality(all) <= Cardinality(mine) + 1
        /\ Cardinality(mine) \in Nat
    <3> HIDE DEF mine, next
    <3>1. IsFiniteSet(mine \cup {next})
          /\ Cardinality(mine \cup {next}) =
               IF next \in mine THEN Cardinality(mine) ELSE Cardinality(mine) + 1
      BY <2>2, FS_AddElement
    <3>2. Cardinality(mine) \in Nat
      BY <2>2, FS_CardinalityType
    <3>3. QED
      BY <3>1, <3>2
  <2> HIDE DEF mine, all
  <2>5. IsFiniteSet({e} \X all) /\ Cardinality({e} \X all) = Cardinality(all)
    <3>1. IsFiniteSet({e}) /\ Cardinality({e}) = 1
      BY FS_Singleton
    <3>2. IsFiniteSet({e} \X all)
          /\ Cardinality({e} \X all) = Cardinality({e}) * Cardinality(all)
      BY <2>4, <3>1, FS_Product
    <3>3. Cardinality(all) \in Nat
      BY <2>4, FS_CardinalityType
    <3>4. QED
      BY <3>1, <3>2, <3>3
  <2>6. IsFiniteSet(others) /\ Cardinality(others) = Overshoot
    BY SlotsCounted DEF others
  <2>7. Cardinality(Claims(u)') \in Nat
        /\ Cardinality(Claims(u)') <= Cardinality(all) + Overshoot
    <3>1. /\ IsFiniteSet(({e} \X all) \cup others)
          /\ Cardinality(({e} \X all) \cup others) \in Nat
          /\ Cardinality(({e} \X all) \cup others)
               <= Cardinality({e} \X all) + Cardinality(others)
      BY <2>5, <2>6, UnionCounts
    <3>2. /\ Cardinality(Claims(u)') \in Nat
          /\ Cardinality(Claims(u)') <= Cardinality(({e} \X all) \cup others)
      BY <2>3, <3>1, SubsetCounts
    <3>3. Cardinality(all) \in Nat
      BY <2>4, FS_CardinalityType
    <3>4. QED
      BY <2>5, <2>6, <3>1, <3>2, <3>3, SlotsCounted
  <2>8. Cardinality(QueuedFor(u)) \in Nat /\ Cardinality(all) \in Nat
    BY <1>1, <2>4, FS_CardinalityType
  <2>9. Cardinality(QueuedFor(u)) + Cardinality(Claims(u)')
          <= MaxQueuedPerUser + Overshoot
    BY <2>1, <2>4, <2>7, <2>8, SlotsCounted
  <2>10. QED
    BY <1>1, <1>2, <2>9 DEF CapHolds, Overshoot
<1>5. CASE ~(Owner[k] = u /\ HasRoom(e, u))
  <2>1. Claims(u)' \subseteq Claims(u)
    BY <1>1, <1>2, <1>3, <1>5 DEF Claims, Slots
  <2>2. QED
    BY <1>2, <2>1, CapKept
<1>6. QED
  BY <1>4, <1>5

(* A commit turns the claims of a transaction into rows, one for one.       *)
LEMMA CommitKeepsCap ==
  ASSUME IInv, CapInv, NEW u \in Users, NEW e \in Enqueuers, EnqueueCommits(e)
  PROVE  CapHolds(u)'
<1> DEFINE rows == enq[e].rows
<1>1. PICK new \in SUBSET {id \in Ids : status[id] = "unborn"} :
        \E row \in Bijection(new, DOMAIN rows) :
          /\ status' = [id \in Ids |->
               IF id \in new THEN "queued" ELSE status[id]]
          /\ key' = [id \in Ids |->
               IF id \in new THEN rows[row[id]] ELSE key[id]]
  BY DEF EnqueueCommits
<1>2. PICK row \in [new -> DOMAIN rows] :
        /\ \A a, b \in new : row[a] = row[b] => a = b
        /\ status' = [id \in Ids |->
             IF id \in new THEN "queued" ELSE status[id]]
        /\ key' = [id \in Ids |->
             IF id \in new THEN rows[row[id]] ELSE key[id]]
  BY <1>1 DEF Bijection, Injection, IsInjective
<1> DEFINE gained == {id \in new : Owner[rows[row[id]]] = u}
           spent == {e} \X RowsFor(e, u)
<1>3. /\ enq' = [enq EXCEPT ![e] = NoEnqueue]
      /\ enq \in [Enqueuers -> Transactions]
      /\ rows \in Seq(Keys) /\ Len(rows) <= RowsPerTransaction
      /\ enq[e].key = NoKey
  <2>1. /\ enq \in [Enqueuers -> Transactions] /\ rows \in Seq(Keys)
        /\ Len(rows) + (IF enq[e].key = NoKey THEN 0 ELSE 1) <= RowsPerTransaction
    BY EnqTypes DEF IInv
  <2>2. enq' = [enq EXCEPT ![e] = NoEnqueue] /\ enq[e].key = NoKey
    BY DEF EnqueueCommits
  <2>3. Len(rows) \in Nat
    BY <2>1
  <2>4. QED
    BY <2>1, <2>2, <2>3
<1>4. QueuedFor(u)' = QueuedFor(u) \cup gained
  BY <1>2 DEF QueuedFor, OwnerOf, Live
<1>5. Claims(u)' = Claims(u) \ spent
  <2>1. \A f \in Enqueuers \ {e} : RowsFor(f, u)' = RowsFor(f, u)
    BY <1>3 DEF RowsFor
  <2>2. RowsFor(e, u)' = {} /\ enq'[e] = NoEnqueue
    BY <1>3 DEF RowsFor, NoEnqueue
  <2>3. \A f \in Enqueuers \ {e} : enq'[f] = enq[f]
    BY <1>3
  <2>4. \A s \in Slots : s[1] = e => s \notin Claims(u)' /\ (s \in Claims(u) => s \in spent)
    BY <1>3, <2>2 DEF Claims, Slots, NoEnqueue
  <2>5. \A s \in Slots : s[1] # e => (s \in Claims(u)' <=> s \in Claims(u)) /\ s \notin spent
    BY <2>1, <2>3 DEF Claims, Slots
  <2>6. Claims(u)' \subseteq Slots /\ Claims(u) \subseteq Slots
    BY DEF Claims
  <2>7. QED
    BY <2>4, <2>5, <2>6
<1>6. spent \subseteq Claims(u)
  <2>1. \A i \in RowsFor(e, u) : i \in 1..RowsPerTransaction
    BY <1>3, SlotsCounted DEF RowsFor
  <2>2. QED
    BY <2>1 DEF Claims, Slots
<1>7. [id \in gained |-> <<e, row[id]>>] \in Injection(gained, spent)
  BY <1>2 DEF Injection, IsInjective, RowsFor
<1>8. IsFiniteSet(Claims(u)) /\ Cardinality(Claims(u)) \in Nat
  BY SlotsCounted DEF Claims
<1> HIDE DEF gained, spent
<1>9. /\ IsFiniteSet(spent) /\ Cardinality(spent) \in Nat
      /\ Cardinality(Claims(u)') = Cardinality(Claims(u)) - Cardinality(spent)
  <2>1. IsFiniteSet(spent) /\ Cardinality(spent) \in Nat
    BY <1>6, <1>8, SubsetCounts
  <2>2. Cardinality(Claims(u) \ spent) =
          Cardinality(Claims(u)) - Cardinality(Claims(u) \cap spent)
    BY <1>8, FS_Difference
  <2>3. Claims(u) \cap spent = spent
    BY <1>6
  <2>4. QED
    BY <1>5, <2>1, <2>2, <2>3
<1>10. IsFiniteSet(gained) /\ Cardinality(gained) <= Cardinality(spent)
  BY <1>7, <1>9, FS_Injection
<1>11. /\ IsFiniteSet(QueuedFor(u))
       /\ Cardinality(QueuedFor(u)) + Cardinality(Claims(u))
            <= MaxQueuedPerUser + Overshoot
  BY DEF CapInv, CapHolds
<1>12. /\ IsFiniteSet(QueuedFor(u)')
       /\ Cardinality(QueuedFor(u)') \in Nat
       /\ Cardinality(QueuedFor(u)) \in Nat /\ Cardinality(gained) \in Nat
       /\ Cardinality(QueuedFor(u)') <= Cardinality(QueuedFor(u)) + Cardinality(gained)
  BY <1>4, <1>10, <1>11, UnionCounts
<1>13. Cardinality(QueuedFor(u)') + Cardinality(Claims(u)')
         <= MaxQueuedPerUser + Overshoot
  BY <1>8, <1>9, <1>10, <1>11, <1>12, SlotsCounted
<1>14. QED
  BY <1>12, <1>13 DEF CapHolds, Overshoot

(* A step of a transaction that neither reads the cap nor commits.          *)
LEMMA ClaimsKept ==
  ASSUME IInv, NEW u \in Users, NEW e \in Enqueuers,
         EnqueueInserts(e) \/ EnqueueInsertsNothing(e) \/ EnqueueAborts(e)
  PROVE  Claims(u)' \subseteq Claims(u)
<1>1. /\ enq \in [Enqueuers -> Transactions]
      /\ enq[e].rows \in Seq(Keys) /\ enq[e].key \in Keys \cup {NoKey}
  BY EnqTypes DEF IInv
<1>2. \A f \in Enqueuers \ {e} : enq'[f] = enq[f]
  BY <1>1 DEF EnqueueInserts, EnqueueInsertsNothing, EnqueueAborts
<1>3. \A s \in Slots : s[1] # e /\ s \in Claims(u)' => s \in Claims(u)
  BY <1>2 DEF Claims, Slots, RowsFor
<1>4. ASSUME NEW s \in Slots, s[1] = e, s \in Claims(u)'
      PROVE  s \in Claims(u)
  <2>1. CASE EnqueueInserts(e)
    <3>1. enq'[e] = [key |-> NoKey, room |-> FALSE,
                     rows |-> Append(enq[e].rows, enq[e].key)]
      BY <1>1, <2>1 DEF EnqueueInserts
    <3>2. s[2] \in DOMAIN Append(enq[e].rows, enq[e].key)
          /\ Owner[Append(enq[e].rows, enq[e].key)[s[2]]] = u
      <4>1. s[2] \in RowsFor(e, u)'
        BY <1>4, <3>1 DEF Claims
      <4>2. QED
        BY <3>1, <4>1 DEF RowsFor
    <3>3. CASE s[2] = Len(enq[e].rows) + 1
      BY <1>1, <1>4, <2>1, <3>2, <3>3 DEF Claims, EnqueueInserts
    <3>4. CASE s[2] # Len(enq[e].rows) + 1
      <4>1. s[2] \in DOMAIN enq[e].rows /\ Owner[enq[e].rows[s[2]]] = u
        BY <1>1, <3>2, <3>4
      <4>2. QED
        BY <1>4, <4>1 DEF Claims, RowsFor
    <3>5. QED
      BY <3>3, <3>4
  <2>2. CASE EnqueueInsertsNothing(e)
    <3>1. enq'[e].rows = enq[e].rows /\ enq'[e].key = NoKey
      BY <1>1, <2>2 DEF EnqueueInsertsNothing
    <3>2. QED
      BY <1>4, <3>1 DEF Claims, RowsFor
  <2>3. CASE EnqueueAborts(e)
    <3>1. enq'[e].rows = <<>> /\ enq'[e].key = NoKey
      BY <1>1, <2>3 DEF EnqueueAborts, NoEnqueue
    <3>2. QED
      BY <1>4, <3>1 DEF Claims, RowsFor
  <2>4. QED
    BY <2>1, <2>2, <2>3
<1>5. QED
  BY <1>3, <1>4 DEF Claims

LEMMA CapStep == IInv /\ CapInv /\ [Next]_vars => CapInv'
<1> SUFFICES ASSUME IInv, CapInv, [Next]_vars, NEW u \in Users
             PROVE  CapHolds(u)'
  BY DEF CapInv
<1>0. TypeOK
  BY DEF IInv
<1>2. CASE \E e \in Enqueuers, k \in Keys : EnqueueReadsCap(e, k)
  BY <1>2, ReadKeepsCap
<1>3. CASE \E e \in Enqueuers : EnqueueCommits(e)
  BY <1>3, CommitKeepsCap
<1>4. CASE /\ ~ \E e \in Enqueuers, k \in Keys : EnqueueReadsCap(e, k)
           /\ ~ \E e \in Enqueuers : EnqueueCommits(e)
  <2>1. Claims(u)' \subseteq Claims(u)
    <3>1. CASE UNCHANGED enq
      BY <3>1 DEF Claims, RowsFor
    <3>2. QED
      BY <1>4, <3>1, ClaimsKept, EnqueueMovers
  <2>2. QueuedFor(u)' \subseteq QueuedFor(u)
    <3> SUFFICES ASSUME UNCHANGED key,
                        NEW id \in Ids, status'[id] \in Live
                 PROVE  status[id] \in Live
      <4>1. ASSUME NEW r \in Replicas,
                   ReclaimExpired(r) \/ PruneTerminal(r) \/ ClaimBatch(r)
            PROVE  UNCHANGED key
        BY <4>1 DEF ReclaimExpired, PruneTerminal, ClaimBatch
      <4>2. \A r \in Replicas, id \in Ids : CompleteDelivery(r, id) => UNCHANGED key
        BY DEF CompleteDelivery
      <4>3. \A w \in Users : MemberRemoved(w) => UNCHANGED key
        BY DEF MemberRemoved
      <4>4. UNCHANGED key
        BY <1>4, <4>1, <4>2, <4>3, Movers
      <4>5. QED
        BY <4>4 DEF QueuedFor, OwnerOf
    <3>1. CASE UNCHANGED status
      BY <3>1
    <3>2. ASSUME NEW r \in Replicas, ReclaimExpired(r)
          PROVE  status[id] \in Live
      BY <3>2 DEF ReclaimExpired, SomeOf, Expired, Live
    <3>3. ASSUME NEW r \in Replicas, PruneTerminal(r)
          PROVE  status[id] \in Live
      BY <3>3 DEF PruneTerminal, Live
    <3>4. ASSUME NEW r \in Replicas, ClaimBatch(r)
          PROVE  status[id] \in Live
      BY <3>4 DEF ClaimBatch, SomeOf, Due, Live
    <3>5. ASSUME NEW r \in Replicas, NEW i \in Ids, CompleteDelivery(r, i)
          PROVE  status[id] \in Live
      BY <1>0, <3>5 DEF CompleteDelivery, Fence, TypeOK, Live
    <3>6. ASSUME NEW w \in Users, MemberRemoved(w)
          PROVE  status[id] \in Live
      BY <3>6 DEF MemberRemoved, Live
    <3>7. QED
      BY <1>4, <3>1, <3>2, <3>3, <3>4, <3>5, <3>6, Movers
  <2>3. QED
    BY <2>1, <2>2, CapKept
<1>5. QED
  BY <1>2, <1>3, <1>4

(* Concurrent transactions overshoot the cap by at most the rows that the   *)
(* others of them can insert.                                               *)
THEOREM CapOvershootIsBounded == Spec => []CapOvershootBounded
<1>1. Init => CapInv
  BY InitCap
<1>2. IInv /\ CapInv /\ [Next]_vars => CapInv'
  BY CapStep
<1>3. CapInv => CapOvershootBounded
  <2> SUFFICES ASSUME CapInv, NEW u \in Users
               PROVE  Cardinality(QueuedFor(u)) <= MaxQueuedPerUser + Overshoot
    BY DEF CapOvershootBounded, Overshoot
  <2>1. /\ IsFiniteSet(QueuedFor(u))
        /\ Cardinality(QueuedFor(u)) + Cardinality(Claims(u))
             <= MaxQueuedPerUser + Overshoot
    BY DEF CapInv, CapHolds
  <2>2. Cardinality(QueuedFor(u)) \in Nat
    BY <2>1, FS_CardinalityType
  <2>3. Cardinality(Claims(u)) \in Nat
    BY SlotsCounted DEF Claims
  <2>4. QED
    BY <2>1, <2>2, <2>3, SlotsCounted
<1>4. QED
  BY <1>1, <1>2, <1>3, Invariant, PTL DEF Spec

-----------------------------------------------------------------------------
(* The refinement: each action moves each row by a step of Delivery.        *)

LEMMA InitRefines == Init => D!Init
BY DEF Init, D!Init, PhaseOf, Live

LEMMA RowStays ==
  ASSUME NEW id \in Ids, PhaseOf(status'[id]) = PhaseOf(status[id]),
         attempts'[id] = attempts[id], accepted'[id] = accepted[id]
  PROVE  D!RowStep(id)
BY DEF D!RowStep, D!Stay

LEMMA NextRefines == IInv /\ [Next]_vars => [D!Next]_(D!vars)
<1> SUFFICES ASSUME IInv, [Next]_vars, NEW id \in Ids
             PROVE  D!RowStep(id)
  BY DEF D!Next
<1> USE OutboxAssumption DEF IInv, dbVars, netVars
<1>1. CASE UNCHANGED <<status, attempts, accepted>>
  BY <1>1, RowStays
<1>2. ASSUME NEW e \in Enqueuers, EnqueueCommits(e)
      PROVE  D!RowStep(id)
  <2>1. UNCHANGED <<attempts, accepted>>
    BY <1>2 DEF EnqueueCommits
  <2>2. \/ status'[id] = status[id]
        \/ status[id] = "unborn" /\ status'[id] = "queued"
    BY <1>2 DEF EnqueueCommits
  <2>3. CASE status'[id] = status[id]
    BY <2>1, <2>3, RowStays
  <2>4. CASE status[id] = "unborn" /\ status'[id] = "queued"
    BY <2>1, <2>4 DEF FreshRows, D!RowStep, D!Promise, PhaseOf, Live
  <2>5. QED
    BY <2>2, <2>3, <2>4
<1>3. ASSUME NEW r \in Replicas, ReclaimExpired(r)
      PROVE  D!RowStep(id)
  <2>1. PICK S \in SUBSET Expired :
          /\ status' = [i \in Ids |->
               IF i \notin S THEN status[i]
               ELSE IF AfterLease(i) >= MAX_ATTEMPTS THEN "abandoned"
               ELSE "queued"]
          /\ attempts' = [i \in Ids |->
               IF i \in S THEN AfterLease(i) ELSE attempts[i]]
          /\ accepted' = accepted
    BY <1>3 DEF ReclaimExpired, SomeOf
  <2>2. CASE id \notin S
    BY <2>1, <2>2, RowStays
  <2>3. CASE id \in S
    <3>1. status[id] = "sending" /\ attempts[id] < MAX_ATTEMPTS /\ attempts[id] \in Nat
      BY <2>3 DEF Expired, AttemptsBounded, Live, TypeOK
    <3>2. /\ attempts'[id] = attempts[id] + 1
          /\ status'[id] = IF attempts[id] + 1 >= MAX_ATTEMPTS THEN "abandoned" ELSE "queued"
      BY <2>1, <2>3 DEF AfterLease
    <3>3. QED
      BY <2>1, <3>1, <3>2 DEF D!RowStep, D!Spend, PhaseOf, Live
  <2>4. QED
    BY <2>2, <2>3
<1>4. ASSUME NEW r \in Replicas, PruneTerminal(r)
      PROVE  D!RowStep(id)
  <2>1. PICK S \in SUBSET Prunable :
          status' = [i \in Ids |-> IF i \in S THEN "deleted" ELSE status[i]]
    BY <1>4 DEF PruneTerminal
  <2>2. UNCHANGED <<attempts, accepted>>
    BY <1>4 DEF PruneTerminal
  <2>3. CASE id \in S
    <3>1. PhaseOf(status[id]) \in {"delivered", "givenUp"}
      BY <2>3 DEF Prunable, Terminal, PhaseOf, Live
    <3>2. PhaseOf(status'[id]) = "forgotten"
      BY <2>1, <2>3 DEF PhaseOf, Live
    <3>3. QED
      BY <2>2, <3>1, <3>2 DEF D!RowStep, D!Forget
  <2>4. CASE id \notin S
    BY <2>1, <2>2, <2>4, RowStays
  <2>5. QED
    BY <2>3, <2>4
<1>5. ASSUME NEW r \in Replicas, ClaimBatch(r)
      PROVE  D!RowStep(id)
  <2>1. UNCHANGED <<attempts, accepted>>
    BY <1>5 DEF ClaimBatch
  <2>2. status'[id] = status[id] \/ (status[id] = "queued" /\ status'[id] = "sending")
    BY <1>5 DEF ClaimBatch, SomeOf, Due
  <2>3. PhaseOf(status'[id]) = PhaseOf(status[id])
    BY <2>2 DEF PhaseOf, Live
  <2>4. QED
    BY <2>1, <2>3, RowStays
<1>6. ASSUME NEW r \in Replicas, NEW i \in Ids, CompleteDelivery(r, i)
      PROVE  D!RowStep(id)
  <2> DEFINE result == lane[r][i].result
             n == lane[r][i].attempts + 1
             decision == Decision(result, n)
  <2>1. CASE ~Fence(r, i) \/ i # id
    <3>1. status'[id] = status[id] /\ attempts'[id] = attempts[id] /\ accepted' = accepted
      BY <1>6, <2>1 DEF CompleteDelivery, TypeOK
    <3>2. QED
      BY <3>1, RowStays
  <2>2. CASE Fence(r, i) /\ i = id
    <3>1. /\ lane[r][id].phase = "answered"
          /\ accepted' = accepted
          /\ status' = [status EXCEPT ![id] =
               CASE decision = "done"      -> "sent"
                 [] decision = "permanent" -> "failed"
                 [] OTHER                  -> "queued"]
          /\ attempts' = [attempts EXCEPT ![id] =
               IF decision = "defer" THEN lane[r][id].attempts ELSE n]
      BY <1>6, <2>2 DEF CompleteDelivery
    <3>2. /\ result \in AllResults
          /\ n \in Nat
          /\ result = "ok" => n \in accepted[id]
          /\ lane[r][id].attempts = attempts[id]
          /\ attempts[id] \in Nat
          /\ status[id] = "sending"
          /\ attempts[id] < MAX_ATTEMPTS
      BY <2>2, <3>1, LaneTypes DEF LaneInv, Withdrawn, Open, Fence, AttemptsBounded, Live
    <3>3. /\ decision \in {"done", "defer", "permanent", "retry"}
          /\ decision = "done" => result = "ok"
          /\ decision = "retry" => n < MAX_ATTEMPTS
      BY <3>2, DecisionCases
    <3>4. CASE decision = "defer"
      <4>1. status'[id] = "queued" /\ attempts'[id] = attempts[id]
        BY <3>1, <3>2, <3>4, <2>2 DEF TypeOK
      <4>2. PhaseOf(status'[id]) = PhaseOf(status[id])
        BY <3>2, <4>1 DEF PhaseOf, Live
      <4>3. QED
        BY <3>1, <4>1, <4>2, RowStays
    <3>5. CASE decision # "defer"
      <4>1. attempts'[id] = attempts[id] + 1 /\ attempts'[id] <= MAX_ATTEMPTS
        BY <3>1, <3>2, <3>5, <2>2 DEF TypeOK
      <4>2. status'[id] = IF decision = "done" THEN "sent"
                          ELSE IF decision = "permanent" THEN "failed" ELSE "queued"
        BY <3>1, <3>3, <3>5 DEF TypeOK
      <4>3. /\ PhaseOf(status[id]) = "owed"
            /\ PhaseOf(status'[id]) = IF decision = "done" THEN "delivered"
                 ELSE IF decision = "permanent" THEN "givenUp" ELSE "owed"
        BY <3>2, <4>2 DEF PhaseOf, Live
      <4>4. decision = "done" => accepted[id] # {}
        BY <3>2, <3>3
      <4>5. decision = "retry" => attempts'[id] < MAX_ATTEMPTS
        BY <3>2, <3>3, <4>1, <2>2
      <4>6. D!Spend(id)
        BY <3>1, <3>3, <3>5, <4>1, <4>3, <4>4, <4>5 DEF D!Spend
      <4>7. QED
        BY <4>6 DEF D!RowStep
    <3>6. QED
      BY <3>4, <3>5
  <2>3. QED
    BY <2>1, <2>2
<1>7. ASSUME NEW n \in AttemptNos, UNCHANGED <<status, attempts>>,
             accepted'[id] = accepted[id] \cup {n}, n \notin accepted[id],
             \/ n <= attempts[id]
             \/ n = attempts[id] + 1 /\ Open(id)
      PROVE  D!RowStep(id)
  <2>1. Open(id) => PhaseOf(status[id]) # "delivered"
    BY DEF PhaseOf, Live, Open, Withdrawn, Open
  <2>2. n <= attempts[id] + (IF PhaseOf(status[id]) = "delivered" THEN 0 ELSE 1)
    BY <1>7, <2>1 DEF TypeOK, AttemptNos
  <2>3. D!Accept(id)
    BY <1>7, <2>2 DEF D!Accept, AttemptNos
  <2>4. QED
    BY <2>3 DEF D!RowStep
<1>8. ASSUME NEW r \in Replicas, NEW i \in Ids, NEW result \in Results,
             AdapterAnswers(r, i, result)
      PROVE  D!RowStep(id)
  <2>1. UNCHANGED <<status, attempts>> /\ lane[r][i].phase = "calling"
    BY <1>8 DEF AdapterAnswers
  <2>2. CASE result = "ok" /\ i = id
    <3>1. accepted'[id] = accepted[id] \cup {lane[r][id].attempts + 1}
      BY <1>8, <2>2 DEF AdapterAnswers, TypeOK
    <3>2. QED
      BY <2>1, <2>2, <3>1, <1>7, NewOnTheWire DEF Used
  <2>3. CASE result # "ok" \/ i # id
    <3>1. accepted'[id] = accepted[id]
      BY <1>8, <2>3 DEF AdapterAnswers, TypeOK
    <3>2. QED
      BY <2>1, <3>1, RowStays
  <2>4. QED
    BY <2>2, <2>3
<1>9. ASSUME NEW i \in Ids, NEW n \in AttemptNos, LateAcceptance(i, n)
      PROVE  D!RowStep(id)
  <2>1. UNCHANGED <<status, attempts>> /\ n \in late[i]
    BY <1>9 DEF LateAcceptance
  <2>2. CASE i = id
    <3>1. accepted'[id] = accepted[id] \cup {n}
      BY <1>9, <2>2 DEF LateAcceptance, TypeOK
    <3>2. /\ n \notin accepted[id]
          /\ n <= attempts[id] \/ (n = attempts[id] + 1 /\ Open(id))
      BY <2>1, <2>2 DEF WireInv, Withdrawn, Open, Used
    <3>3. QED
      BY <2>1, <3>1, <3>2, <1>7
  <2>3. CASE i # id
    <3>1. accepted'[id] = accepted[id]
      BY <1>9, <2>3 DEF LateAcceptance, TypeOK
    <3>2. QED
      BY <2>1, <3>1, RowStays
  <2>4. QED
    BY <2>2, <2>3
<1>10. ASSUME NEW u \in Users, MemberRemoved(u)
      PROVE  D!RowStep(id)
  <2>1. PICK S \in SUBSET QueuedFor(u) :
          status' = [i \in Ids |-> IF i \in S THEN "abandoned" ELSE status[i]]
    BY <1>10 DEF MemberRemoved
  <2>2. UNCHANGED <<attempts, accepted>>
    BY <1>10 DEF MemberRemoved
  <2>3. CASE id \in S
    BY <2>1, <2>2, <2>3 DEF QueuedFor, PhaseOf, Live, D!RowStep, D!Withdraw
  <2>4. CASE id \notin S
    BY <2>1, <2>2, <2>4, RowStays
  <2>5. QED
    BY <2>3, <2>4
<1>11. QED
  BY <1>1, <1>2, <1>3, <1>4, <1>5, <1>6, <1>8, <1>9, <1>10
     DEF Next, vars, EnqueueReadsCap, EnqueueInserts, EnqueueInsertsNothing,
         EnqueueAborts, StartSend,
         DeadlineExceeded, CompletionFails, EndTick, TickFails, Crash, Restart, Tick

(* The workers, with their leases, crashes and stale results, implement the *)
(* abstract promise of Delivery.                                            *)
THEOREM OutboxRefinesDelivery == Spec => ImplementsDelivery
<1>1. Spec => [][D!Next]_(D!vars)
  BY NextRefines, Invariant, PTL DEF Spec
<1>2. QED
  BY <1>1, InitRefines, PTL DEF Spec, ImplementsDelivery, D!Spec
=============================================================================
