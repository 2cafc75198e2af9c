------------------------- MODULE TelegramAcksProofs -------------------------
(***************************************************************************)
(* What is confirmed to Telegram was decided, or dropped by the poller:    *)
(* theorems about the two transports, for any replicas, tokens, presses,   *)
(* faults and size of the batches.                                         *)
(*                                                                         *)
(* An offset confirms what is below it, so the invariant says of each      *)
(* poller that it was through with everything below its offset, and with   *)
(* everything up to the highest of its batch that is not in it any more.   *)
(***************************************************************************)
EXTENDS TelegramAcks, FiniteSetTheorems, TLAPS

Handled(i) == Settled(outcome[i])

ReplicaOK(r) ==
  /\ poller[r].batch \subseteq 1..Len(updates) /\ post[r] \in 0..Len(updates)
  /\ \A i \in Ids : i < poller[r].offset => Handled(i)
  /\ \A i \in Ids : i <= poller[r].highest => i \in poller[r].batch \/ Handled(i)

IInv ==
  /\ TypeOK
  /\ OnlyThePollerDrops
  /\ \A r \in Replicas : ReplicaOK(r)

-----------------------------------------------------------------------------
(* Facts about the data *)

(* A set of numbers below a bound has a lowest one.  Counting, for each      *)
(* element, those below it is an injection into 0..n-1, thus a surjection.  *)
LEMMA LowestIn ==
  ASSUME NEW m \in Nat, NEW T \in SUBSET (0..m), T # {}
  PROVE  Lowest(T) \in T /\ \A j \in T : Lowest(T) <= j
<1> DEFINE below(i) == {j \in T : j < i}
           n == Cardinality(T)
           count == [i \in T |-> Cardinality(below(i))]
<1>1. IsFiniteSet(T) /\ n \in Nat /\ n # 0
  <2>1. IsFiniteSet(0..m)
    BY FS_Interval
  <2>2. IsFiniteSet(T)
    BY <2>1, FS_Subset
  <2> QED BY <2>2, FS_CardinalityType, FS_EmptySet
<1>2. ASSUME NEW i \in T
      PROVE  /\ IsFiniteSet(below(i)) /\ Cardinality(below(i)) \in 0..n-1
             /\ \A j \in T : j < i => Cardinality(below(j)) < Cardinality(below(i))
  <2>1. /\ IsFiniteSet(below(i)) /\ Cardinality(below(i)) \in Nat
        /\ Cardinality(below(i)) <= n
        /\ Cardinality(below(i)) # n
    <3>1. below(i) \in SUBSET T /\ below(i) # T
      OBVIOUS
    <3> HIDE DEF below
    <3>2. IsFiniteSet(below(i)) /\ Cardinality(below(i)) <= n /\ (n = Cardinality(below(i)) => T = below(i))
      BY <1>1, <3>1, FS_Subset
    <3> QED BY <3>1, <3>2, FS_CardinalityType
  <2>2. ASSUME NEW j \in T, j < i
        PROVE  Cardinality(below(j)) < Cardinality(below(i))
    <3>1. below(j) \in SUBSET below(i) /\ j \in below(i) /\ j \notin below(j)
      <4>1. \A k \in T : k \in Nat
        OBVIOUS
      <4>2. \A k \in T : k < j => k < i
        BY <4>1, <2>2
      <4>3. ~(j < j)
        BY <4>1
      <4> QED BY <2>2, <4>2, <4>3
    <3> HIDE DEF below
    <3>2. /\ IsFiniteSet(below(j)) /\ Cardinality(below(j)) <= Cardinality(below(i))
          /\ (Cardinality(below(i)) = Cardinality(below(j)) => below(i) = below(j))
      BY <2>1, <3>1, FS_Subset
    <3> QED BY <2>1, <3>1, <3>2, FS_CardinalityType
  <2> HIDE DEF below, n
  <2> QED BY <1>1, <2>1, <2>2
<1>3. count \in Injection(T, 0..n-1)
  <2>1. ASSUME NEW i \in T, NEW j \in T, count[i] = count[j]
        PROVE  i = j
    <3>1. i < j \/ j < i \/ i = j
      OBVIOUS
    <3> HIDE DEF below, n
    <3> QED BY <1>2, <2>1, <3>1
  <2> HIDE DEF below, n
  <2>2. count \in [T -> 0..n-1]
    BY <1>2
  <2> HIDE DEF count
  <2> QED BY <2>1, <2>2 DEF Injection, IsInjective
<1>4. IsFiniteSet(0..n-1) /\ Cardinality(0..n-1) = n
  <2> HIDE DEF n
  <2> QED BY <1>1, FS_Interval
<1>5. count \in Surjection(T, 0..n-1)
  <2> HIDE DEF count
  <2> QED BY <1>3, <1>4, FS_Injection
<1>6. PICK i \in T : count[i] = 0
  <2>1. 0 \in 0..n-1
    <3> HIDE DEF n
    <3> QED BY <1>1
  <2> HIDE DEF count, n
  <2> QED BY <1>5, <2>1 DEF Surjection
<1>7. below(i) = {}
  <2> HIDE DEF below, n
  <2> QED BY <1>2, <1>6, FS_EmptySet
<1>8. \A j \in T : i <= j
  BY <1>7
<1> HIDE DEF below, count, n
<1> QED BY <1>8 DEF Lowest

LEMMA HighestIn ==
  ASSUME NEW n \in Nat, NEW T \in SUBSET (1..n), T # {}
  PROVE  Highest(T) \in T /\ \A j \in T : Highest(T) >= j
<1> DEFINE S == {k \in 0..n : n - k \in T}
<1>1. S # {}
  <2>1. PICK i \in T : TRUE
    OBVIOUS
  <2>2. n - i \in 0..n /\ n - (n - i) = i
    BY <2>1
  <2> QED BY <2>1, <2>2
<1>2. Lowest(S) \in S /\ \A j \in S : Lowest(S) <= j
  <2> HIDE DEF S
  <2> S \in SUBSET (0..n)
    BY DEF S
  <2> QED BY <1>1, LowestIn
<1>3. PICK k \in S : \A j \in S : k <= j
  BY <1>2
<1>4. ASSUME NEW j \in T
      PROVE  n - k >= j
  <2>1. n - j \in 0..n /\ n - (n - j) = j
    OBVIOUS
  <2>2. n - j \in S
    BY <2>1
  <2>3. k <= n - j
    BY <1>3, <2>2
  <2> QED BY <1>3, <2>3
<1>5. n - k \in T
  BY <1>3
<1>6. \E i \in T : \A j \in T : i >= j
  BY <1>4, <1>5
<1> QED BY <1>6 DEF Highest

LEMMA FirstOfDownward ==
  ASSUME NEW m \in Nat, NEW n \in Nat, NEW ids \in SUBSET (1..n),
         NEW i \in ids, NEW j \in FirstOf(m, ids), i <= j
  PROVE  i \in FirstOf(m, ids)
<1> DEFINE below(k) == {l \in ids : l <= k}
<1>1. IsFiniteSet(below(j)) /\ below(i) \subseteq below(j)
  <2>1. IsFiniteSet(1..n)
    BY FS_Interval
  <2>2. below(j) \subseteq 1..n /\ below(i) \subseteq below(j)
    <3>1. j \in ids /\ \A k \in ids : k \in Nat
      BY DEF FirstOf
    <3>2. \A k \in ids : k <= i => k <= j
      BY <3>1
    <3> QED BY <3>2
  <2> QED BY <2>1, <2>2, FS_Subset
<1>2. Cardinality(below(i)) <= Cardinality(below(j)) /\ IsFiniteSet(below(i))
  BY <1>1, FS_Subset
<1>3. Cardinality(below(i)) \in Nat /\ Cardinality(below(j)) \in Nat
  BY <1>1, <1>2, FS_CardinalityType
<1>4. Cardinality(below(j)) <= m
  BY DEF FirstOf
<1>5. Cardinality(below(i)) <= m
  BY <1>2, <1>3, <1>4
<1> QED BY <1>5 DEF FirstOf

LEMMA UpdatesTyped ==
  ASSUME TypeOK
  PROVE  /\ Len(updates) \in 0..MaxTaps /\ updates \in Seq(Tokens)
         /\ DOMAIN updates = 1..Len(updates)
         /\ \A i \in 1..Len(updates) : updates[i] \in Tokens /\ i \in Ids
<1>1. PICK n \in 0..MaxTaps : updates \in [1..n -> Tokens]
  BY DEF TypeOK, BoundedSeq, SeqOf
<1>2. updates \in Seq(Tokens) /\ Len(updates) = n
  BY <1>1, TelegramAssumption
<1> QED BY <1>1, <1>2, TelegramAssumption DEF Ids

LEMMA CurrentIn ==
  ASSUME IInv, NEW r \in Replicas, Busy(r)
  PROVE  /\ Current(r) \in 1..Len(updates) /\ Current(r) \in Ids
         /\ post[r] = 0 => Current(r) \in poller[r].batch
<1>1. ReplicaOK(r)
  BY DEF IInv
<1>2. Len(updates) \in Nat /\ \A i \in 1..Len(updates) : i \in Ids
  BY UpdatesTyped, TelegramAssumption DEF IInv
<1>3. CASE post[r] # 0
  BY <1>1, <1>2, <1>3 DEF Current, ReplicaOK
<1>4. CASE post[r] = 0
  <2>1. poller[r].batch \in SUBSET (0..Len(updates)) /\ poller[r].batch # {}
    BY <1>1, <1>2, <1>4 DEF Busy, ReplicaOK
  <2>2. Lowest(poller[r].batch) \in poller[r].batch
    BY <1>2, <2>1, LowestIn
  <2> QED BY <1>1, <1>2, <1>4, <2>2 DEF Current, ReplicaOK
<1> QED BY <1>3, <1>4

-----------------------------------------------------------------------------
(* The parts of the invariant that a step can disturb *)

BusyOK == \A r \in Replicas : call[r] # NoCall => Busy(r)

(* Steps of the redemptions and of the settings leave the transports alone. *)
LEMMA RedemptionSteps ==
  ASSUME IInv, UNCHANGED <<providerVars, replicaVars, outcome>>,
         mode' \in {"poll", "webhook"}, faults' \in 0..MaxFaults,
         PromiseTypeOK', BusyOK'
  PROVE  IInv'
<1> USE DEF providerVars, replicaVars, IInv
<1>1. TypeOK'
  BY DEF TypeOK, BusyOK, Busy, Ids
<1>2. OnlyThePollerDrops'
  BY DEF OnlyThePollerDrops
<1>3. \A r \in Replicas : ReplicaOK(r)'
  BY DEF ReplicaOK, Handled
<1> QED BY <1>1, <1>2, <1>3

LEMMA InitHolds == Init => IInv
<1> SUFFICES ASSUME Init PROVE IInv
  OBVIOUS
<1> USE TelegramAssumption
<1>1. PromiseTypeOK
  BY DEF Init, PromiseInit, PromiseTypeOK, TokenStates, Results, NoCall
<1>2. updates = <<>> /\ updates \in [1..0 -> Tokens] /\ Len(updates) = 0
  BY DEF Init
<1>3. updates \in BoundedSeq(Tokens, MaxTaps)
  BY <1>2 DEF BoundedSeq, SeqOf
<1>4. poller \in [Replicas -> [offset : 0..MaxTaps + 1, batch : SUBSET Ids,
                              highest : 0..MaxTaps]]
  BY DEF Init, NoBatch
<1>5. TypeOK
  <2>1. /\ waiting \subseteq 1..Len(updates) /\ leader \in Replicas \cup {NoReplica}
        /\ reconciled \subseteq Replicas /\ faults \in 0..MaxFaults
        /\ mode \in {"poll", "webhook"} /\ hook \in BOOLEAN
    BY DEF Init
  <2>2. /\ post \in [Replicas -> 0..MaxTaps]
        /\ outcome \in [Ids -> Outcomes]
    BY DEF Init, Outcomes
  <2>3. \A r \in Replicas : call[r] = NoCall
    BY DEF Init, PromiseInit, Replicas
  <2> QED BY <1>1, <1>3, <1>4, <2>1, <2>2, <2>3 DEF TypeOK
<1>6. OnlyThePollerDrops
  BY <1>2 DEF OnlyThePollerDrops
<1>7. \A r \in Replicas : ReplicaOK(r)
  BY <1>2 DEF ReplicaOK, Init, NoBatch, Ids
<1> QED BY <1>5, <1>6, <1>7 DEF IInv

LEMMA TapStep ==
  ASSUME IInv, NEW t \in Tokens, Tap(t)
  PROVE  IInv'
<1> USE TelegramAssumption DEF IInv
<1>1. /\ Len(updates) \in 0..MaxTaps /\ updates \in Seq(Tokens) /\ Len(updates) < MaxTaps
      /\ updates' = Append(updates, t)
  BY UpdatesTyped DEF Tap
<1>2. Len(updates') = Len(updates) + 1 /\ updates' \in Seq(Tokens)
  BY <1>1
<1>3. updates' \in BoundedSeq(Tokens, MaxTaps)
  <2>1. updates' \in [1..Len(updates') -> Tokens]
    BY <1>2
  <2>2. Len(updates') \in 0..MaxTaps
    BY <1>1, <1>2
  <2> QED BY <2>1, <2>2 DEF BoundedSeq, SeqOf
<1>4. /\ waiting' = waiting \cup {Len(updates) + 1} /\ waiting' \subseteq 1..Len(updates')
  <2>1. waiting' = waiting \cup {Len(updates) + 1} /\ waiting \subseteq 1..Len(updates)
    BY DEF Tap, TypeOK
  <2>2. /\ Len(updates) + 1 \in 1..Len(updates')
        /\ \A i \in 1..Len(updates) : i \in 1..Len(updates')
    BY <1>1, <1>2
  <2> QED BY <2>1, <2>2
<1>5. UNCHANGED <<token, call, mode, hook, replicaVars, outcome, faults>>
  BY DEF Tap, promiseVars
<1>6. TypeOK'
  BY <1>3, <1>4, <1>5 DEF TypeOK, replicaVars, PromiseTypeOK
<1>7. OnlyThePollerDrops'
  BY <1>1, <1>2, <1>4, <1>5 DEF OnlyThePollerDrops
<1>8. \A r \in Replicas : ReplicaOK(r)'
  BY <1>1, <1>2, <1>5 DEF ReplicaOK, Handled, replicaVars
<1> QED BY <1>6, <1>7, <1>8

(* What does not concern updates at all.                                    *)
LEMMA ElectStep ==
  ASSUME IInv, NEW r \in Replicas, Elect(r) \/ LeaderLost \/ Reconcile(r)
  PROVE  IInv'
<1> USE TelegramAssumption DEF IInv
<1>1. /\ UNCHANGED <<token, call, mode, updates, waiting, poller, post, outcome>>
      /\ hook' \in BOOLEAN /\ leader' \in Replicas \cup {NoReplica}
      /\ reconciled' \subseteq Replicas /\ faults' \in 0..MaxFaults
  <2>1. CASE Elect(r)
    BY <2>1 DEF Elect, promiseVars, providerVars, TypeOK
  <2>2. CASE LeaderLost
    BY <2>2 DEF LeaderLost, Fault, promiseVars, providerVars, TypeOK
  <2>3. CASE Reconcile(r)
    BY <2>3 DEF Reconcile, promiseVars, TypeOK, HookWanted
  <2> QED BY <2>1, <2>2, <2>3
<1>2. TypeOK'
  BY <1>1 DEF TypeOK, PromiseTypeOK
<1>3. OnlyThePollerDrops' /\ \A q \in Replicas : ReplicaOK(q)'
  BY <1>1 DEF OnlyThePollerDrops, ReplicaOK, Handled
<1> QED BY <1>2, <1>3

(* What an offset confirms was handled; and the batch that comes for it is  *)
(* the lower part of what the provider keeps.                               *)
LEMMA GetUpdatesStep ==
  ASSUME IInv, NEW r \in Replicas, GetUpdates(r)
  PROVE  IInv'
<1> USE TelegramAssumption DEF IInv
<1> DEFINE kept == {i \in waiting : i >= poller[r].offset}
           got  == FirstOf(Batch, kept)
           high == IF got = {} THEN 0 ELSE Highest(got)
<1>1. /\ waiting' = kept /\ poller' = [poller EXCEPT ![r].batch = got, ![r].highest = high]
      /\ poller[r].batch = {}
      /\ UNCHANGED <<token, call, mode, hook, updates, leader, reconciled, post, outcome, faults>>
  BY DEF GetUpdates, promiseVars
<1>2. /\ Len(updates) \in 0..MaxTaps /\ \A i \in 1..Len(updates) : i \in Ids
      /\ waiting \subseteq 1..Len(updates) /\ ReplicaOK(r)
      /\ poller[r] \in [offset : 0..MaxTaps + 1, batch : SUBSET Ids, highest : 0..MaxTaps]
  BY UpdatesTyped DEF TypeOK
<1>3. kept \in SUBSET (1..Len(updates)) /\ got \subseteq kept
  BY <1>2 DEF FirstOf
<1>4. /\ high \in 0..Len(updates)
      /\ \A i \in kept : i <= high => i \in got
  <2>1. CASE got = {}
    BY <1>2, <1>3, <2>1
  <2>2. CASE got # {}
    <3>1. high \in got
      <4>1. got \in SUBSET (1..Len(updates)) /\ Len(updates) \in Nat
        BY <1>2, <1>3
      <4> HIDE DEF got
      <4> QED BY <2>2, <4>1, HighestIn
    <3>2. ASSUME NEW i \in kept, i <= high
          PROVE  i \in got
      <4>1. /\ Batch \in Nat /\ Len(updates) \in Nat /\ kept \in SUBSET (1..Len(updates))
            /\ high \in FirstOf(Batch, kept)
        BY <1>2, <1>3, <3>1
      <4> HIDE DEF kept, high, got
      <4>2. i \in FirstOf(Batch, kept)
        BY ONLY <3>2, <4>1, FirstOfDownward
      <4> QED BY <4>2 DEF got
    <3> QED BY <1>2, <1>3, <3>1, <3>2
  <2> QED BY <2>1, <2>2
<1>5. \A i \in 1..Len(updates) : i \notin kept => Handled(i)
  BY <1>2 DEF OnlyThePollerDrops, ReplicaOK, Handled
<1> HIDE DEF got, high
<1>6. /\ poller' \in [Replicas -> [offset : 0..MaxTaps + 1, batch : SUBSET Ids, highest : 0..MaxTaps]]
      /\ poller'[r] = [offset |-> poller[r].offset, batch |-> got, highest |-> high]
      /\ \A q \in Replicas \ {r} : poller'[q] = poller[q]
  <2>1. poller \in [Replicas -> [offset : 0..MaxTaps + 1, batch : SUBSET Ids, highest : 0..MaxTaps]]
    BY DEF TypeOK
  <2>2. /\ poller'[r] = [poller[r] EXCEPT !.batch = got, !.highest = high]
        /\ \A q \in Replicas \ {r} : poller'[q] = poller[q]
        /\ poller' = [q \in Replicas |-> poller'[q]]
    BY <1>1, <2>1
  <2>3. poller'[r] = [offset |-> poller[r].offset, batch |-> got, highest |-> high]
    BY <1>2, <2>2
  <2>4. got \in SUBSET Ids /\ high \in 0..MaxTaps
    BY <1>2, <1>3, <1>4
  <2>5. poller'[r] \in [offset : 0..MaxTaps + 1, batch : SUBSET Ids, highest : 0..MaxTaps]
    BY <1>2, <2>3, <2>4
  <2> QED BY <2>1, <2>2, <2>3, <2>5
<1>7. TypeOK'
  <2>1. waiting' \subseteq 1..Len(updates')
    BY <1>1, <1>3
  <2>2. \A q \in Replicas : call'[q] # NoCall => post'[q] # 0 \/ poller'[q].batch # {}
    BY <1>1, <1>6 DEF TypeOK
  <2> HIDE DEF kept
  <2> QED BY <1>1, <1>6, <2>1, <2>2 DEF TypeOK, PromiseTypeOK
<1>8. OnlyThePollerDrops'
  BY <1>1, <1>5 DEF OnlyThePollerDrops, Handled
<1>9. ASSUME NEW q \in Replicas
      PROVE  ReplicaOK(q)'
  <2>1. CASE q = r
    <3>1. \A i \in Ids : i <= high => i \in got \/ Handled(i)
      BY <1>2, <1>4, <1>5 DEF Ids
    <3> HIDE DEF kept
    <3> QED BY <1>1, <1>2, <1>3, <1>6, <2>1, <3>1 DEF ReplicaOK, Handled
  <2>2. CASE q # r
    BY <1>1, <1>6, <2>2 DEF ReplicaOK, Handled
  <2> QED BY <2>1, <2>2
<1> QED BY <1>7, <1>8, <1>9

(* A replica is done with one update.                                       *)
LEMMA DoneStep ==
  ASSUME IInv, NEW r \in Replicas, Busy(r), PromiseTypeOK',
         NEW result \in {"ignored", "redeemed", "rejected", "failed"}, Done(r, result),
         call'[r] = NoCall, \A q \in Replicas \ {r} : call'[q] = call[q],
         UNCHANGED faults
  PROVE  IInv'
<1> USE TelegramAssumption DEF IInv
<1>0. PICK i : i = Current(r)
  OBVIOUS
<1>1. /\ i \in 1..Len(updates) /\ i \in Ids
      /\ post[r] = 0 => i \in poller[r].batch
  BY <1>0, CurrentIn
<1>2. /\ Len(updates) \in 0..MaxTaps /\ waiting \subseteq 1..Len(updates)
      /\ \A q \in Replicas : ReplicaOK(q)
      /\ poller \in [Replicas -> [offset : 0..MaxTaps + 1, batch : SUBSET Ids, highest : 0..MaxTaps]]
      /\ post \in [Replicas -> 0..MaxTaps]
  BY UpdatesTyped DEF TypeOK
<1>3. /\ outcome' = [outcome EXCEPT ![i] = Known(r, result)]
      /\ UNCHANGED <<mode, hook, updates, leader, reconciled>>
  BY <1>0 DEF Done
<1>4. /\ outcome' \in [Ids -> Outcomes]
      /\ \A k \in Ids : Handled(k) => Handled(k)'
      /\ post[r] = 0 \/ AnsweredOk(result) => Handled(i)'
  <2>1. /\ Known(r, result) \in Outcomes
        /\ Settled(outcome[i]) => Settled(Known(r, result))
        /\ post[r] = 0 \/ AnsweredOk(result) => Settled(Known(r, result))
    BY <1>0, <1>1 DEF TypeOK, Known, Settled, Outcomes, AnsweredOk
  <2>2. outcome \in [Ids -> Outcomes]
    BY DEF TypeOK
  <2>3. \A k \in Ids : outcome'[k] = IF k = i THEN Known(r, result) ELSE outcome[k]
    BY <1>3, <2>2
  <2> QED BY <1>1, <1>3, <2>1, <2>2, <2>3 DEF Handled
<1>5. /\ waiting' \in {waiting, waiting \ {i}}
      /\ waiting' # waiting => AnsweredOk(result)
      /\ post' \in {post, [post EXCEPT ![r] = 0]}
      /\ poller' \in {poller, [poller EXCEPT ![r] = OffsetAfter(@, i)]}
      /\ poller' # poller => post[r] = 0
  BY <1>0 DEF Done
<1>6. /\ post' \in [Replicas -> 0..MaxTaps]
      /\ \A q \in Replicas : post'[q] = post[q] \/ (q = r /\ post'[q] = 0)
  BY <1>2, <1>5
<1>7. ASSUME poller' = [poller EXCEPT ![r] = OffsetAfter(@, i)], post[r] = 0
      PROVE  /\ poller'[r] \in [offset : 0..MaxTaps + 1, batch : SUBSET Ids, highest : 0..MaxTaps]
             /\ poller'[r].batch \subseteq poller[r].batch
             /\ \A k \in Ids : k < poller'[r].offset => Handled(k)'
             /\ \A k \in Ids : k <= poller'[r].highest => k \in poller'[r].batch \/ Handled(k)'
  <2>1. poller'[r] = OffsetAfter(poller[r], i) /\ Handled(i)'
    BY <1>2, <1>4, <1>7
  <2>2. ReplicaOK(r) /\ poller[r] \in [offset : 0..MaxTaps + 1, batch : SUBSET Ids, highest : 0..MaxTaps]
    BY <1>2
  <2>3. CASE poller[r].batch = {i}
    <3>1. poller'[r] = [offset |-> poller[r].highest + 1, batch |-> {}, highest |-> 0]
      BY <2>1, <2>3 DEF OffsetAfter
    <3>2. \A k \in Ids : k < poller[r].highest + 1 => k <= poller[r].highest
      BY <2>2 DEF Ids
    <3>3. \A k \in Ids : k < poller'[r].offset => Handled(k)'
      BY <1>4, <2>1, <2>2, <2>3, <3>1, <3>2 DEF ReplicaOK
    <3> QED BY <2>2, <3>1, <3>3 DEF Ids
  <2>4. CASE poller[r].batch # {i}
    <3>1. /\ poller'[r].batch = poller[r].batch \ {i} /\ poller'[r].offset = poller[r].offset
          /\ poller'[r].highest = poller[r].highest
          /\ poller'[r] \in [offset : 0..MaxTaps + 1, batch : SUBSET Ids, highest : 0..MaxTaps]
      BY <2>1, <2>2, <2>4 DEF OffsetAfter
    <3> QED BY <1>4, <2>1, <2>2, <3>1 DEF ReplicaOK
  <2> QED BY <2>3, <2>4
<1>8. /\ poller' \in [Replicas -> [offset : 0..MaxTaps + 1, batch : SUBSET Ids, highest : 0..MaxTaps]]
      /\ \A q \in Replicas \ {r} : poller'[q] = poller[q]
  BY <1>2, <1>5, <1>7
<1>9. TypeOK'
  <2>1. waiting' \subseteq 1..Len(updates')
    BY <1>2, <1>3, <1>5
  <2>2. \A q \in Replicas : call'[q] # NoCall => post'[q] # 0 \/ poller'[q].batch # {}
    BY <1>6, <1>8 DEF TypeOK
  <2> QED BY <1>3, <1>4, <1>6, <1>8, <2>1, <2>2 DEF TypeOK
<1>10. OnlyThePollerDrops'
  <2>1. \A k \in 1..Len(updates) : k \in Ids
    BY <1>2 DEF Ids
  <2> QED BY <1>3, <1>4, <1>5, <2>1 DEF OnlyThePollerDrops, Handled
<1>11. ASSUME NEW q \in Replicas
       PROVE  ReplicaOK(q)'
  <2>1. post'[q] \in 0..Len(updates')
    BY <1>2, <1>3, <1>6 DEF ReplicaOK
  <2>2. CASE poller'[q] = poller[q]
    BY <1>2, <1>3, <1>4, <2>1, <2>2 DEF ReplicaOK
  <2>3. CASE q = r /\ poller' # poller
    BY <1>2, <1>3, <1>5, <1>7, <2>1, <2>3 DEF ReplicaOK
  <2> QED BY <1>8, <2>2, <2>3
<1> QED BY <1>9, <1>10, <1>11

LEMMA IgnoreStep ==
  ASSUME IInv, NEW r \in Replicas, Ignore(r)
  PROVE  IInv'
<1>1. /\ Busy(r) /\ call[r] = NoCall /\ Done(r, "ignored") /\ UNCHANGED <<token, call, faults>>
  BY DEF Ignore, promiseVars
<1>2. PromiseTypeOK'
  BY <1>1 DEF IInv, TypeOK, PromiseTypeOK
<1> QED BY <1>1, <1>2, DoneStep

LEMMA FinishStep ==
  ASSUME IInv, NEW r \in Replicas, FinishUpdate(r)
  PROVE  IInv'
<1> USE TelegramAssumption
<1>1. /\ call[r].result # "none" /\ Done(r, call[r].result) /\ UNCHANGED <<token, faults>>
      /\ call[r] # NoCall /\ call' = [call EXCEPT ![r] = NoCall]
  BY DEF FinishUpdate, Answered, Forget
<1>2. /\ PromiseTypeOK /\ call \in [Handlers -> [token : Tokens \cup {NoToken}, result : Results]]
      /\ Busy(r)
  BY <1>1 DEF IInv, TypeOK, PromiseTypeOK, Busy
<1>3. call[r].result \in {"ignored", "redeemed", "rejected", "failed"}
  BY <1>1, <1>2 DEF Results, Replicas
<1>4. /\ PromiseTypeOK' /\ call'[r] = NoCall /\ \A q \in Replicas \ {r} : call'[q] = call[q]
  BY <1>1, <1>2 DEF PromiseTypeOK, NoCall, Results, Replicas
<1> QED BY <1>1, <1>2, <1>3, <1>4, DoneStep

LEMMA ChangeStep ==
  ASSUME IInv, Change, UNCHANGED telegramVars
  PROVE  IInv'
<1>1. PromiseTypeOK'
  BY DEF IInv, TypeOK, PromiseTypeOK, Change, TokenStates
<1>2. BusyOK' /\ UNCHANGED <<mode, providerVars, replicaVars, outcome, faults>>
  BY DEF IInv, TypeOK, BusyOK, Busy, Change, telegramVars, replicaVars
<1>3. mode' \in {"poll", "webhook"} /\ faults' \in 0..MaxFaults
  BY <1>2 DEF IInv, TypeOK
<1> QED BY <1>1, <1>2, <1>3, RedemptionSteps

LEMMA RedeemStep ==
  ASSUME IInv, NEW r \in Replicas, StartRedeem(r) \/ Decide(r)
  PROVE  IInv'
<1> USE TelegramAssumption DEF Replicas
<1>1. UNCHANGED <<mode, providerVars, replicaVars, outcome>> /\ faults' \in 0..MaxFaults
  BY DEF StartRedeem, Decide, telegramVars, Fault, IInv, TypeOK
<1>2. /\ call \in [Handlers -> [token : Tokens \cup {NoToken}, result : Results]]
      /\ token \in [Tokens -> TokenStates]
  BY DEF IInv, TypeOK, PromiseTypeOK
<1>3. /\ PromiseTypeOK' /\ Busy(r) /\ \A q \in Replicas \ {r} : call'[q] = call[q]
  <2>1. CASE StartRedeem(r)
    <3>1. /\ Busy(r) /\ call' = [call EXCEPT ![r].token = updates[Current(r)]] /\ UNCHANGED token
      BY <2>1 DEF StartRedeem, Call
    <3>2. updates[Current(r)] \in Tokens
      BY <3>1, CurrentIn, UpdatesTyped DEF IInv
    <3> QED BY <1>2, <3>1, <3>2 DEF PromiseTypeOK
  <2>2. CASE Decide(r)
    <3>1. /\ Pending(r)
          /\ \E result \in {"redeemed", "rejected", "failed"} : call' = [call EXCEPT ![r].result = result]
          /\ \E s \in TokenStates : token' = token \/ token' = [token EXCEPT ![call[r].token] = s]
      BY <2>2, <1>2 DEF Decide, Effect, NoEffect, TokenStates
    <3>2. call[r] # NoCall
      BY <3>1 DEF Pending, NoCall
    <3>3. Busy(r)
      BY <3>2 DEF IInv, TypeOK, Busy
    <3>4. call' \in [Handlers -> [token : Tokens \cup {NoToken}, result : Results]]
      BY <1>2, <3>1 DEF Results
    <3>5. token' \in [Tokens -> TokenStates]
      BY <1>2, <3>1
    <3> QED BY <1>2, <3>1, <3>3, <3>4, <3>5 DEF PromiseTypeOK
  <2> QED BY <2>1, <2>2
<1>4. BusyOK'
  BY <1>1, <1>3 DEF BusyOK, Busy, IInv, TypeOK, replicaVars
<1>5. mode' \in {"poll", "webhook"}
  BY <1>1 DEF IInv, TypeOK
<1> QED BY <1>1, <1>3, <1>4, <1>5, RedemptionSteps

LEMMA AbandonStep ==
  ASSUME IInv, NEW r \in Replicas, Abandon(r)
  PROVE  IInv'
<1> USE TelegramAssumption DEF IInv
<1>1. /\ call[r] = NoCall
      /\ poller' = [poller EXCEPT ![r] = [@ EXCEPT !.batch = {}, !.highest = 0]]
      /\ UNCHANGED <<token, call, mode, providerVars, leader, reconciled, post, outcome, faults>>
  BY DEF Abandon, BetweenUpdates, promiseVars
<1>2. /\ poller' \in [Replicas -> [offset : 0..MaxTaps + 1, batch : SUBSET Ids, highest : 0..MaxTaps]]
      /\ poller'[r] = [offset |-> poller[r].offset, batch |-> {}, highest |-> 0]
      /\ \A q \in Replicas \ {r} : poller'[q] = poller[q]
  <2>1. poller \in [Replicas -> [offset : 0..MaxTaps + 1, batch : SUBSET Ids, highest : 0..MaxTaps]]
    BY DEF TypeOK
  <2>2. /\ poller'[r] = [poller[r] EXCEPT !.batch = {}, !.highest = 0]
        /\ \A q \in Replicas \ {r} : poller'[q] = poller[q]
        /\ poller' = [q \in Replicas |-> poller'[q]]
    BY <1>1, <2>1
  <2>3. poller'[r] = [offset |-> poller[r].offset, batch |-> {}, highest |-> 0]
    BY <2>1, <2>2
  <2>4. poller'[r] \in [offset : 0..MaxTaps + 1, batch : SUBSET Ids, highest : 0..MaxTaps]
    BY <2>1, <2>3
  <2> QED BY <2>1, <2>2, <2>3, <2>4
<1>3. TypeOK'
  <2>1. \A q \in Replicas : call'[q] # NoCall => post'[q] # 0 \/ poller'[q].batch # {}
    BY <1>1, <1>2 DEF TypeOK
  <2> QED BY <1>1, <1>2, <2>1 DEF TypeOK, PromiseTypeOK, providerVars
<1>4. OnlyThePollerDrops'
  BY <1>1 DEF OnlyThePollerDrops, providerVars
<1>5. \A q \in Replicas : ReplicaOK(q)'
  BY <1>1, <1>2 DEF ReplicaOK, Handled, providerVars, Ids
<1> QED BY <1>3, <1>4, <1>5

LEMMA DeliverStep ==
  ASSUME IInv, NEW r \in Replicas, NEW i \in Ids, Deliver(r, i)
  PROVE  IInv'
<1> USE TelegramAssumption DEF IInv
<1>1. /\ i \in 1..Len(updates) /\ i \in 0..MaxTaps /\ post' = [post EXCEPT ![r] = i]
      /\ UNCHANGED <<token, call, mode, providerVars, leader, reconciled, poller, outcome, faults>>
  BY DEF Deliver, promiseVars, TypeOK, Ids
<1>2. post' \in [Replicas -> 0..MaxTaps] /\ \A q \in Replicas : post'[q] \in {post[q], i}
  BY <1>1 DEF TypeOK
<1>3. TypeOK'
  <2>1. \A q \in Replicas : call'[q] # NoCall => post'[q] # 0 \/ poller'[q].batch # {}
    BY <1>1, <1>2 DEF TypeOK
  <2> QED BY <1>1, <1>2, <2>1 DEF TypeOK, PromiseTypeOK, providerVars
<1>4. OnlyThePollerDrops'
  BY <1>1 DEF OnlyThePollerDrops, providerVars
<1>5. \A q \in Replicas : ReplicaOK(q)'
  BY <1>1, <1>2 DEF ReplicaOK, Handled, providerVars
<1> QED BY <1>3, <1>4, <1>5

(* What dies forgets its batch and its offset, and confirms nothing.        *)
LEMMA DeadStep ==
  ASSUME IInv, NEW R \in SUBSET Replicas, Dead(R), UNCHANGED <<token, providerVars, outcome>>,
         mode' \in {"poll", "webhook"}, faults' \in 0..MaxFaults
  PROVE  IInv'
<1> USE TelegramAssumption DEF IInv
<1>1. call' \in [Handlers -> [token : Tokens \cup {NoToken}, result : Results]]
  BY DEF Dead, Replicas, TypeOK, PromiseTypeOK, NoCall, Results
<1>2. poller' \in [Replicas -> [offset : 0..MaxTaps + 1, batch : SUBSET Ids, highest : 0..MaxTaps]]
  BY DEF Dead, TypeOK, NoBatch
<1>3. /\ post' \in [Replicas -> 0..MaxTaps] /\ leader' \in Replicas \cup {NoReplica}
      /\ reconciled' \subseteq Replicas
  BY DEF Dead, TypeOK
<1>4. \A q \in Replicas :
        \/ call'[q] = NoCall /\ poller'[q] = NoBatch /\ post'[q] = 0
        \/ call'[q] = call[q] /\ poller'[q] = poller[q] /\ post'[q] = post[q]
  BY DEF Dead
<1>5. TypeOK'
  BY <1>1, <1>2, <1>3, <1>4 DEF TypeOK, PromiseTypeOK, providerVars
<1>6. OnlyThePollerDrops'
  BY DEF OnlyThePollerDrops, providerVars
<1>7. ASSUME NEW q \in Replicas
      PROVE  ReplicaOK(q)'
  <2>1. CASE poller'[q] = NoBatch /\ post'[q] = 0
    BY <2>1, UpdatesTyped DEF ReplicaOK, NoBatch, Ids, providerVars
  <2>2. CASE poller'[q] = poller[q] /\ post'[q] = post[q]
    BY <2>2 DEF ReplicaOK, Handled, providerVars
  <2> QED BY <1>4, <2>1, <2>2
<1> QED BY <1>5, <1>6, <1>7

LEMMA Inductive == IInv /\ [Next]_vars => IInv'
<1> SUFFICES ASSUME IInv, [Next]_vars
             PROVE  IInv'
  OBVIOUS
<1>1. CASE Change /\ UNCHANGED telegramVars
  BY <1>1, ChangeStep
<1>2. CASE \E t \in Tokens : Tap(t)
  BY <1>2, TapStep
<1>3. CASE LeaderLost
  <2>1. PICK r \in Replicas : r = leader
    BY <1>3 DEF LeaderLost, IInv, TypeOK
  <2> QED BY <1>3, <2>1, ElectStep
<1>4. CASE SwitchMode
  <2>1. /\ Dead(Replicas) /\ UNCHANGED <<token, providerVars, outcome>>
        /\ mode' \in {"poll", "webhook"} /\ faults' \in 0..MaxFaults
    BY <1>4, TelegramAssumption DEF SwitchMode, Fault, IInv, TypeOK
  <2> QED BY <2>1, DeadStep
<1>5. ASSUME NEW r \in Replicas, Crash(r)
      PROVE  IInv'
  <2>1. /\ Dead({r}) /\ UNCHANGED <<token, providerVars, outcome>>
        /\ mode' \in {"poll", "webhook"} /\ faults' \in 0..MaxFaults
    BY <1>5, TelegramAssumption DEF Crash, Fault, IInv, TypeOK
  <2> QED BY <2>1, DeadStep
<1>6. ASSUME NEW r \in Replicas,
             \/ Elect(r) \/ Reconcile(r) \/ GetUpdates(r) \/ Ignore(r) \/ StartRedeem(r)
             \/ Decide(r) \/ FinishUpdate(r) \/ Abandon(r)
             \/ \E i \in Ids : Deliver(r, i)
      PROVE  IInv'
  BY <1>6, ElectStep, GetUpdatesStep, IgnoreStep, RedeemStep, FinishStep, AbandonStep, DeliverStep
<1>7. CASE UNCHANGED vars
  <2>1. /\ UNCHANGED <<token, call, providerVars, replicaVars, outcome, mode, faults>>
    BY <1>7 DEF vars, promiseVars, telegramVars
  <2>2. PromiseTypeOK' /\ BusyOK' /\ mode' \in {"poll", "webhook"} /\ faults' \in 0..MaxFaults
    BY <2>1 DEF IInv, TypeOK, PromiseTypeOK, BusyOK, Busy, replicaVars
  <2> QED BY <2>1, <2>2, RedemptionSteps
<1> QED BY <1>1, <1>2, <1>3, <1>4, <1>5, <1>6, <1>7 DEF Next

LEMMA Invariance == Spec => []IInv
BY InitHolds, Inductive, PTL DEF Spec

-----------------------------------------------------------------------------
(* Every variable keeps its type, and a replica redeems only for an update  *)
(* that it holds.                                                           *)
THEOREM TypeCorrect == Spec => []TypeOK
<1>1. IInv => TypeOK
  BY DEF IInv
<1> QED BY <1>1, Invariance, PTL

(* A press that is confirmed was decided, or dropped by the poller after    *)
(* its redemption failed, whatever leaders die or lose their lock, and      *)
(* whatever the size of a batch: for any replicas and presses.              *)
THEOREM LostOnlyByThePoller == Spec => []OnlyThePollerDrops
<1>1. IInv => OnlyThePollerDrops
  BY DEF IInv
<1> QED BY <1>1, Invariance, PTL
=============================================================================
