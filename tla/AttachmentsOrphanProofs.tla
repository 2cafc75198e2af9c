----------------------- MODULE AttachmentsOrphanProofs ------------------------
(***************************************************************************)
(* Orphans are counted: objects that nobody will ever delete are left by   *)
(* faults, and a fault leaves one of them at most.                         *)
(*                                                                         *)
(* A request often holds several keys.  It can abandon but one object all  *)
(* the same, since the others are named by a row which the sweep will read *)
(* later, or have no object and nobody who puts one.  That is what OInv    *)
(* says, on top of the invariant of AttachmentsProofs.                     *)
(***************************************************************************)
EXTENDS AttachmentsProofs, FiniteSetTheorems

Named(k) == row[k[1]].state \notin {"none", "gone"} /\ k \in StorageKeys(k[1])

Putting(k) == \E g \in Handlers : handler[g].step = "putting" /\ Own(handler[g]) = k

(* There is, or may yet be, an object under the key that no row names.      *)
Threat(k) == (blob[k] # "none" /\ ~Named(k)) \/ Putting(k)

OneAtMost(S) == \A k, l \in S : k = l

(* A thumbnail is transferred after the content.                            *)
ThumbnailLast(r) ==
  r.key["thumbnail"] # 0 \/ r.seen["thumbnail"] # "null" => r.seen["content"] # "null"

(* The keys a request holds: all but one are safe without it.               *)
HoldsOK(t) ==
  /\ t.step \in {"idle", "stored", "unsure"} => t.todo = {}
  /\ t.step = "putting" => blob[Own(t)] = "none"
  /\ Busy(t) => t.file \notin Stuck
  /\ Busy(t) /\ t.recorded /\ row[t.file].token = t.key =>
       t.part = "thumbnail" /\ row[t.file].seen["thumbnail"] # "null"
  /\ \A k \in t.todo : k[1] \notin Stuck
  /\ \/ OneAtMost(t.todo)
     \/ /\ t.step = "cleaning"
        /\ \A k \in t.todo : row[k[1]].state \in {"aborted", "gone"}
        /\ \A k, l \in t.todo : Threat(k) /\ Threat(l) => k = l

OInv ==
  /\ \A k \in Keys : k[3] > transfers => blob[k] = "none"
  /\ \A f \in Stuck : context[f] = "closed" /\ row[f].state = "aborted"
  /\ \A f \in Files : ThumbnailLast(row[f])
  /\ \A h \in Handlers : HoldsOK(handler[h])

-----------------------------------------------------------------------------
(* Steps of the rows and of the store                                       *)

Quiet(s, r) ==
  /\ r.key = s.key /\ r.seen = s.seen /\ r.token \in {s.token, 0}
  /\ r.state \in {"none", "gone"} => r.state = s.state
  /\ s.state \in {"aborted", "gone"} => r.state \in {"aborted", "gone"}

(* No object gets loose but under the key of a put in progress.             *)
Calm ==
  /\ \A k \in Keys : Named(k) => Named(k)' \/ blob'[k] = "none"
  /\ \A k \in Keys : blob'[k] \in {blob[k], "none"} \/ Putting(k)
  /\ \A f \in Files :
       /\ row[f].state \in {"aborted", "gone"} => row'[f].state \in {"aborted", "gone"}
       /\ ThumbnailLast(row'[f])
       /\ row'[f].token # 0 =>
            /\ row'[f].token = row[f].token
            /\ row[f].seen["thumbnail"] # "null" => row'[f].seen["thumbnail"] # "null"
  /\ transfers' = transfers
  /\ \A f \in Stuck : context'[f] = "closed" /\ row'[f].state = "aborted"

LEMMA QuietCalm ==
  ASSUME IInv, OInv, transfers' = transfers,
         \A f \in Files : row'[f] = row[f] \/ Quiet(row[f], row'[f]),
         \A k \in Keys : blob'[k] \in {blob[k], "none"} \/ Putting(k),
         \A f \in Stuck : context'[f] = "closed"
  PROVE  Calm
<1>1. ASSUME NEW k \in Keys, Named(k)
      PROVE  Named(k)'
  <2> PICK f \in Files : f = k[1]
    BY DEF Keys
  <2>1. row'[f].key = row[f].key /\ row'[f].state \notin {"none", "gone"}
    BY <1>1 DEF Named, Quiet
  <2>2. k \in StorageKeys(f)
    BY <1>1 DEF Named
  <2>3. PICK p \in Parts(f) : k = <<f, p, row[f].key[p]>>
    BY <2>2 DEF StorageKeys
  <2>4. k \in StorageKeys(f)'
    BY <2>1, <2>3 DEF StorageKeys
  <2> QED BY <2>1, <2>4 DEF Named
<1>2. ASSUME NEW f \in Files
      PROVE  /\ row[f].state \in {"aborted", "gone"} => row'[f].state \in {"aborted", "gone"}
             /\ ThumbnailLast(row'[f])
             /\ row'[f].token # 0 =>
                  /\ row'[f].token = row[f].token
                  /\ row[f].seen["thumbnail"] # "null" =>
                       row'[f].seen["thumbnail"] # "null"
  <2>1. ThumbnailLast(row[f])
    BY DEF OInv
  <2> QED BY <2>1 DEF Quiet, ThumbnailLast
<1>3. ASSUME NEW f \in Stuck
      PROVE  row'[f].state = "aborted"
  <2>1. f \in Files /\ row[f].state = "aborted"
    BY AttachmentsAssumption DEF OInv
  <2> QED BY <2>1 DEF Quiet
<1> QED BY <1>1, <1>2, <1>3 DEF Calm

LEMMA ThreatsStay ==
  ASSUME Calm, \A k \in Keys : Putting(k)' => Putting(k)
  PROVE  \A k \in Keys : Threat(k)' => Threat(k)
BY DEF Calm, Threat

LEMMA OwnTyped ==
  ASSUME IInv, NEW t \in Requests, HandlerOK(t), Busy(t)
  PROVE  /\ Own(t) \in Keys /\ Own(t)[1] = t.file /\ Own(t)[3] = t.key
         /\ t.file \in Files /\ t.part \in PartNames
         /\ t.key \in 1..transfers /\ transfers \in Nat
BY PartsNamed DEF HandlerOK, Own, Keys, Requests, IInv, TypeOK, PartNames

LEMMA HoldsStay ==
  ASSUME IInv, Calm, \A k \in Keys : Putting(k)' => Putting(k),
         NEW t \in Requests, HandlerOK(t), HoldsOK(t),
         t.step = "putting" => blob'[Own(t)] = "none"
  PROVE  HoldsOK(t)'
<1>1. ASSUME Busy(t), t.recorded, row'[t.file].token = t.key
      PROVE  t.part = "thumbnail" /\ row'[t.file].seen["thumbnail"] # "null"
  <2>1. t.file \in Files /\ t.key # 0
    BY <1>1, OwnTyped
  <2>2. /\ row[t.file].token = t.key
        /\ row[t.file].seen["thumbnail"] # "null" =>
             row'[t.file].seen["thumbnail"] # "null"
    BY <1>1, <2>1 DEF Calm
  <2> QED BY <1>1, <2>2 DEF HoldsOK
<1>2. ASSUME \A k \in t.todo : row[k[1]].state \in {"aborted", "gone"}
      PROVE  \A k \in t.todo : row'[k[1]].state \in {"aborted", "gone"}
  BY <1>2 DEF Calm, Requests, Keys
<1>3. \A k \in t.todo : Threat(k)' => Threat(k)
  BY ThreatsStay DEF Requests
<1> QED BY <1>1, <1>2, <1>3 DEF HoldsOK

LEMMA CalmFacts ==
  ASSUME IInv, OInv, Calm
  PROVE  /\ \A k \in Keys : k[3] > transfers' => blob'[k] = "none"
         /\ \A f \in Stuck : context'[f] = "closed" /\ row'[f].state = "aborted"
         /\ \A f \in Files : ThumbnailLast(row'[f])
<1>1. ASSUME NEW k \in Keys, k[3] > transfers
      PROVE  blob'[k] = "none"
  <2>1. ~Putting(k)
    <3> SUFFICES ASSUME NEW g \in Handlers, handler[g].step = "putting",
                        Own(handler[g]) = k
                 PROVE  FALSE
      BY DEF Putting
    <3>1. handler[g] \in Requests /\ HandlerOK(handler[g]) /\ Busy(handler[g])
      BY DEF IInv, TypeOK, Busy
    <3> QED BY <1>1, <3>1, OwnTyped
  <2> QED BY <1>1, <2>1 DEF Calm, OInv
<1> QED BY <1>1 DEF Calm

-----------------------------------------------------------------------------
(* Steps that leave requests alone                                          *)

Holds(t) == t.todo \cup IF Busy(t) THEN {Own(t)} ELSE {}

LEMMA HeldIsHolds == \A h : HeldBy(h) = Holds(handler[h])
BY DEF HeldBy, Holds, Busy, KeyOf, Own

LEMMA PutsAreHeld ==
  ASSUME NEW k, Putting(k)
  PROVE  \E h \in Handlers : k \in HeldBy(h)
BY DEF Putting, HeldBy, KeyOf, Own

(* What an object needs to become an orphan.                                *)
LEMMA OrphansStay ==
  ASSUME Calm, NEW X,
         \A k \in Keys \ X : blob'[k] # "none" /\ ~Named(k)' =>
           \A h \in Handlers : k \in HeldBy(h) => \E g \in Handlers : k \in HeldBy(g)'
  PROVE  Orphans' \subseteq Orphans \cup X
<1> SUFFICES ASSUME NEW k \in Keys, k \in Orphans', k \notin X
             PROVE  k \in Orphans
  BY DEF Orphans
<1>1. blob'[k] # "none" /\ ~Named(k)' /\ \A g \in Handlers : k \notin HeldBy(g)'
  BY DEF Orphans, Named
<1>2. \A h \in Handlers : k \notin HeldBy(h)
  BY <1>1
<1>3. ~Putting(k)
  BY <1>2, PutsAreHeld
<1>4. blob[k] # "none" /\ ~Named(k)
  BY <1>1, <1>3 DEF Calm
<1> QED BY <1>2, <1>4 DEF Orphans, Named

(* One orphan for a fault.                                                  *)
Counted ==
  \/ faults' = faults /\ Orphans' \subseteq Orphans
  \/ faults' = faults + 1 /\ \E k : Orphans' \subseteq Orphans \cup {k}

LEMMA NoRequest ==
  ASSUME IInv, OInv, Calm, handler' = handler,
         \A k \in Keys : blob'[k] \in {blob[k], "none"},
         faults' \in {faults, faults + 1}
  PROVE  OInv' /\ Counted
<1>1. \A k \in Keys : Putting(k)' => Putting(k)
  BY DEF Putting
<1>2. ASSUME NEW h \in Handlers
      PROVE  HoldsOK(handler[h])'
  <2> PICK t \in Requests : t = handler[h]
    BY DEF IInv, TypeOK
  <2>1. HandlerOK(t) /\ HoldsOK(t)
    BY DEF IInv, OInv
  <2>2. t.step = "putting" => blob'[Own(t)] = "none"
    BY <2>1, OwnTyped DEF HoldsOK, Busy
  <2>3. HoldsOK(t)'
    BY <1>1, <2>1, <2>2, HoldsStay
  <2> QED BY <2>3
<1>3. OInv'
  BY <1>2, CalmFacts DEF OInv
<1>4. \A h : HeldBy(h)' = HeldBy(h)
  BY DEF HeldBy, KeyOf
<1>5. Orphans' \subseteq Orphans \cup {}
  BY <1>4, OrphansStay
<1> QED BY <1>3, <1>5 DEF Counted

(* Transactions on one row that no request waits for.                       *)
LEMMA FileStep ==
  ASSUME IInv, OInv, NEW f \in Files,
         \/ Reserve(f) \/ Finalize(f) \/ DeleteFile(f)
         \/ RetireParent(f) \/ DeleteParent(f) \/ LoseAccess(f) \/ DeleteAccount(f)
         \/ Expire(f) \/ LeaseEnds(f) \/ RetentionEnds(f) \/ RetryComes(f)
  PROVE  OInv' /\ Counted
<1>1. /\ row \in [Files -> Rows] /\ row[f] \in Rows
      /\ context \in [Files -> {"whole", "denied", "closed", "going", "gone"}]
  BY RowTyped DEF IInv, TypeOK
<1>2. UNCHANGED <<blob, handler, transfers, faults>>
  BY DEF Reserve, Finalize, DeleteFile, RetireParent, DeleteParent, LoseAccess,
         DeleteAccount, Expire, LeaseEnds, RetentionEnds, RetryComes
<1>3. /\ \A g \in Files : g # f => row'[g] = row[g]
      /\ row'[f] = row[f] \/ Quiet(row[f], row'[f])
  <2>1. CASE Reserve(f)
    <3>1. /\ row[f].state = "none" /\ row[f].token = 0
          /\ \A p \in PartNames : row[f].key[p] = 0 /\ row[f].seen[p] = "null"
          /\ row[f].key \in [PartNames -> 0..MaxTransfers]
          /\ row[f].seen \in [PartNames -> Lengths \cup {"null"}]
      BY <1>1, <2>1 DEF IInv, RowOK, Reserve, Rows, PartNames
    <3>2. row[f].key = [p \in PartNames |-> 0] /\ row[f].seen = [p \in PartNames |-> "null"]
      BY <3>1
    <3> QED BY <1>1, <2>1, <3>1, <3>2 DEF Quiet, Reserve, Reserved, Row, PartNames
  <2>2. CASE Finalize(f)
    BY <1>1, <2>2 DEF Quiet, Finalize, Rows
  <2>3. CASE DeleteFile(f)
    BY <1>1, <2>3 DEF Quiet, DeleteFile, Deleting, Rows
  <2>4. CASE RetireParent(f)
    BY <1>1, <2>4 DEF Quiet, RetireParent, Deleting, Rows
  <2>5. CASE DeleteParent(f) \/ LoseAccess(f)
    BY <2>5 DEF DeleteParent, LoseAccess
  <2>6. CASE DeleteAccount(f)
    BY <1>1, <2>6 DEF Quiet, DeleteAccount, Deleting, Unfinished, Rows
  <2>7. CASE Expire(f)
    BY <1>1, <2>7 DEF Quiet, Expire, Rows
  <2>8. CASE LeaseEnds(f)
    BY <1>1, <2>8 DEF Quiet, LeaseEnds, Rows
  <2>9. CASE RetentionEnds(f)
    BY <1>1, <2>9 DEF Quiet, RetentionEnds, Rows
  <2>10. CASE RetryComes(f)
    BY <1>1, <2>10 DEF Quiet, RetryComes, Rows
  <2> QED BY <2>1, <2>2, <2>3, <2>4, <2>5, <2>6, <2>7, <2>8, <2>9, <2>10
<1>4. \A g \in Files : context[g] = "closed" => context'[g] = "closed"
  <2>1. CASE RetireParent(f) \/ DeleteParent(f) \/ LoseAccess(f)
    BY <1>1, <2>1 DEF RetireParent, DeleteParent, LoseAccess
  <2>2. CASE DeleteAccount(f)
    BY <1>1, <2>2 DEF DeleteAccount
  <2>3. CASE UNCHANGED context
    BY <2>3
  <2> QED BY <2>1, <2>2, <2>3
             DEF Reserve, Finalize, DeleteFile, Expire, LeaseEnds, RetentionEnds, RetryComes
<1>5. Calm
  <2>1. \A g \in Files : row'[g] = row[g] \/ Quiet(row[g], row'[g])
    BY <1>3
  <2>2. \A g \in Stuck : context'[g] = "closed"
    BY <1>4, AttachmentsAssumption DEF OInv
  <2> QED BY <1>2, <2>1, <2>2, QuietCalm
<1> QED BY <1>2, <1>5, NoRequest

-----------------------------------------------------------------------------
(* The sweep                                                                *)

LEMMA FaultCounts == ASSUME Fault PROVE faults' = faults + 1
BY DEF Fault

LEMMA SweepStep ==
  ASSUME IInv, OInv,
         LoadCandidates \/ SweepSkips \/ SweepFails \/ SweepCrashes \/ UNCHANGED vars
  PROVE  OInv' /\ Counted
<1>1. row \in [Files -> Rows] /\ faults \in Nat
  BY AttachmentsAssumption DEF IInv, TypeOK
<1>2. UNCHANGED <<handler, transfers, context>> /\ faults' \in {faults, faults + 1}
  BY FaultCounts DEF LoadCandidates, SweepSkips, SweepFails, SweepCrashes, vars
<1>3. \A k \in Keys : blob'[k] \in {blob[k], "none"}
  <2>1. \A keys : \A k \in Keys : Without(keys)[k] \in {blob[k], "none"}
    BY DEF Without
  <2>2. CASE UNCHANGED blob
    BY <2>2
  <2>3. CASE \E keys : blob' = Without(keys)
    BY <2>1, <2>3
  <2> QED BY <2>2, <2>3 DEF LoadCandidates, SweepSkips, SweepFails, SweepCrashes, vars
<1>4. ASSUME NEW g \in Files
      PROVE  row'[g] = row[g] \/ Quiet(row[g], row'[g])
  <2>1. CASE UNCHANGED row
    BY <2>1
  <2>2. CASE SweepSkips \/ SweepFails
    <3> PICK f \in Files : f = Head(sweep)
      BY <2>2, SweepTyped DEF SweepSkips, SweepFails, IInv
    <3>1. CASE SweepSkips
      BY <1>1, <3>1 DEF Quiet, SweepSkips, Parentless, Deleting, Rows
    <3>2. CASE SweepFails
      BY <1>1, <3>2 DEF Quiet, SweepFails, InFiveMinutes, Rows
    <3> QED BY <2>2, <3>1, <3>2
  <2> QED BY <2>1, <2>2 DEF LoadCandidates, SweepCrashes, vars
<1>5. \A g \in Stuck : context'[g] = "closed"
  BY <1>2 DEF OInv
<1>6. Calm
  BY <1>2, <1>3, <1>4, <1>5, QuietCalm
<1> QED BY <1>2, <1>3, <1>6, NoRequest

(* The sweep takes the objects of a row before the row.                     *)
LEMMA SweepDeletesStep ==
  ASSUME IInv, OInv, SweepDeletes
  PROVE  OInv' /\ Counted
<1> PICK f \in Files : f = Head(sweep)
  BY SweepTyped DEF SweepDeletes, IInv
<1>1. /\ row \in [Files -> Rows]
      /\ row' = [row EXCEPT ![f] = Gone] /\ blob' = Without(StorageKeys(f))
      /\ UNCHANGED <<handler, transfers, context, faults>>
      /\ StorageKeys(f) = Deletable(StorageKeys(f))
  BY DEF SweepDeletes, IInv, TypeOK
<1>2. f \notin Stuck
  <2>1. <<f, "content", row[f].key["content"]>> \in StorageKeys(f)
    BY DEF StorageKeys, Parts
  <2> QED BY <1>1, <2>1 DEF Deletable
<1>3. \A g \in Files : g # f => row'[g] = row[g]
  BY <1>1
<1>4. row'[f] = Gone /\ Gone.state = "gone" /\ Gone.token = 0 /\ ThumbnailLast(Gone)
  BY <1>1 DEF Gone, Row, ThumbnailLast
<1>5. ASSUME NEW k \in Keys, Named(k)
      PROVE  Named(k)' \/ blob'[k] = "none"
  <2>1. CASE k[1] = f
    BY <1>1, <1>5, <2>1 DEF Named, Without
  <2>2. CASE k[1] # f
    <3> PICK g \in Files : g = k[1]
      BY DEF Keys
    <3>1. StorageKeys(g)' = StorageKeys(g)
      BY <1>3, <2>2 DEF StorageKeys
    <3> QED BY <1>3, <1>5, <2>2, <3>1 DEF Named
  <2> QED BY <2>1, <2>2
<1>6. \A k \in Keys : blob'[k] \in {blob[k], "none"}
  BY <1>1 DEF Without
<1>7. ASSUME NEW g \in Files
      PROVE  /\ row[g].state \in {"aborted", "gone"} => row'[g].state \in {"aborted", "gone"}
             /\ ThumbnailLast(row'[g])
             /\ row'[g].token # 0 =>
                  /\ row'[g].token = row[g].token
                  /\ row[g].seen["thumbnail"] # "null" =>
                       row'[g].seen["thumbnail"] # "null"
  BY <1>3, <1>4 DEF OInv
<1>8. \A g \in Stuck : context'[g] = "closed" /\ row'[g].state = "aborted"
  BY <1>1, <1>2, <1>3, AttachmentsAssumption DEF OInv
<1>9. Calm
  BY <1>1, <1>5, <1>6, <1>7, <1>8 DEF Calm
<1> QED BY <1>1, <1>6, <1>9, NoRequest

-----------------------------------------------------------------------------
(* Requests                                                                 *)

(* The invariant after a step of one request that puts nothing from now on. *)
LEMMA OneRequest ==
  ASSUME IInv, OInv, Calm, NEW h \in Handlers, NEW m \in Requests,
         handler' = [handler EXCEPT ![h] = m], m.step # "putting", HoldsOK(m)',
         \A g \in Handlers \ {h} : handler[g].step = "putting" =>
           blob'[Own(handler[g])] = "none"
  PROVE  OInv'
<1>1. handler'[h] = m /\ \A g \in Handlers : g # h => handler'[g] = handler[g]
  BY DEF IInv, TypeOK
<1>2. \A k \in Keys : Putting(k)' => Putting(k)
  BY <1>1 DEF Putting
<1>3. ASSUME NEW g \in Handlers
      PROVE  HoldsOK(handler[g])'
  <2>1. CASE g = h
    BY <1>1, <2>1
  <2>2. CASE g # h
    <3> PICK t \in Requests : t = handler[g]
      BY DEF IInv, TypeOK
    <3>1. HandlerOK(t) /\ HoldsOK(t)
      BY DEF IInv, OInv
    <3>2. t.step = "putting" => blob'[Own(t)] = "none"
      BY <2>2
    <3>3. HoldsOK(t)'
      BY <1>2, <3>1, <3>2, HoldsStay
    <3> QED BY <1>1, <2>2, <3>3
  <2> QED BY <2>1, <2>2
<1> QED BY <1>3, CalmFacts DEF OInv

(* What the request stops holding may become an orphan.                     *)
LEMMA Drops ==
  ASSUME IInv, Calm, NEW h \in Handlers, NEW t \in Requests, t = handler[h],
         NEW m \in Requests, handler' = [handler EXCEPT ![h] = m], NEW X,
         \A k \in Keys : k \in Holds(t) =>
           k \in Holds(m) \/ k \in X \/ blob'[k] = "none" \/ Named(k)'
  PROVE  Orphans' \subseteq Orphans \cup X
<1>1. handler'[h] = m /\ \A g \in Handlers : g # h => handler'[g] = handler[g]
  BY DEF IInv, TypeOK
<1>2. HeldBy(h)' = Holds(m) /\ \A g \in Handlers : g # h => HeldBy(g)' = HeldBy(g)
  BY <1>1 DEF HeldBy, KeyOf, Holds, Busy, Own
<1>3. ASSUME NEW k \in Keys \ X, blob'[k] # "none", ~Named(k)',
             NEW g \in Handlers, k \in HeldBy(g)
      PROVE  \E i \in Handlers : k \in HeldBy(i)'
  <2>1. CASE g = h
    <3>1. k \in Holds(t)
      BY <1>3, <2>1, HeldIsHolds
    <3>2. k \in Holds(m)
      BY <1>3, <3>1
    <3> QED BY <1>2, <3>2
  <2>2. CASE g # h
    BY <1>2, <1>3, <2>2
  <2> QED BY <2>1, <2>2
<1> QED BY <1>3, OrphansStay

LEMMA DropsNothing ==
  ASSUME IInv, Calm, NEW h \in Handlers, NEW t \in Requests, t = handler[h],
         NEW m \in Requests, handler' = [handler EXCEPT ![h] = m],
         \A k \in Keys : k \in Holds(t) =>
           k \in Holds(m) \/ blob'[k] = "none" \/ Named(k)'
  PROVE  Orphans' \subseteq Orphans
<1>1. Orphans' \subseteq Orphans \cup {}
  BY Drops
<1> QED BY <1>1

LEMMA CleaningHolds ==
  ASSUME NEW keys \in SUBSET Keys, \A k \in keys : k[1] \notin Stuck,
         \/ OneAtMost(keys)
         \/ /\ \A k \in keys : row'[k[1]].state \in {"aborted", "gone"}
            /\ \A k, l \in keys : Threat(k)' /\ Threat(l)' => k = l
  PROVE  /\ CleaningUp(keys) \in Requests /\ CleaningUp(keys).step # "putting"
         /\ HoldsOK(CleaningUp(keys))' /\ Holds(CleaningUp(keys)) = keys
<1>1. CleaningUp(keys) \in Requests
  BY AttachmentsAssumption DEF CleaningUp, Idle, Request, Requests
<1>2. /\ CleaningUp(keys).todo = keys /\ ~Busy(CleaningUp(keys))
      /\ CleaningUp(keys).step \in {"idle", "cleaning"}
      /\ CleaningUp(keys).step = "idle" => keys = {}
  BY DEF CleaningUp, Idle, Request, Busy
<1>3. Holds(CleaningUp(keys)) = keys
  BY <1>2 DEF Holds
<1> HIDE DEF CleaningUp
<1>4. HoldsOK(CleaningUp(keys))'
  BY <1>2 DEF HoldsOK, Busy, OneAtMost
<1> QED BY <1>1, <1>2, <1>3, <1>4

(* No two keys of a row are being put.                                      *)
LEMMA PutOnce ==
  ASSUME IInv, OInv, NEW f \in Files, NEW k \in StorageKeys(f), NEW l \in StorageKeys(f),
         Putting(k), Putting(l)
  PROVE  k = l
<1>1. PICK p \in Parts(f) : k = <<f, p, row[f].key[p]>>
  BY DEF StorageKeys
<1>2. PICK q \in Parts(f) : l = <<f, q, row[f].key[q]>>
  BY DEF StorageKeys
<1>3. ASSUME NEW x \in PartNames, Putting(<<f, x, row[f].key[x]>>)
      PROVE  row[f].seen[x] = "null" /\ row[f].key[x] # 0
  <2>1. PICK g \in Handlers : /\ handler[g].step = "putting"
                              /\ Own(handler[g]) = <<f, x, row[f].key[x]>>
    BY <1>3 DEF Putting
  <2> PICK t \in Requests : t = handler[g]
    BY DEF IInv, TypeOK
  <2>2. HandlerOK(t) /\ Busy(t) /\ t.file = f /\ t.part = x /\ t.key = row[f].key[x]
    BY <2>1 DEF IInv, Busy, Own
  <2>3. t.key # 0
    BY <2>2, OwnTyped
  <2> QED BY <2>1, <2>2, <2>3 DEF HandlerOK, ClaimOK
<1>4. p \in PartNames /\ q \in PartNames
  BY PartsNamed
<1>5. /\ row[f].seen[p] = "null" /\ row[f].key[p] # 0
      /\ row[f].seen[q] = "null" /\ row[f].key[q] # 0
  BY <1>1, <1>2, <1>3, <1>4
<1>6. p = q
  BY <1>4, <1>5 DEF OInv, ThumbnailLast, PartNames
<1> QED BY <1>1, <1>2, <1>6

LEMMA AbortedQuiet ==
  ASSUME NEW r \in Rows, r.state \notin {"none", "gone"}
  PROVE  Quiet(r, Aborted(r)) /\ Aborted(r).state = "aborted"
BY DEF Quiet, Aborted, Rows

LEMMA ReleasedQuiet ==
  ASSUME NEW r \in Rows
  PROVE  Quiet(r, Released(r))
BY DEF Quiet, Released, Rows

LEMMA OtherRequests ==
  ASSUME IInv, OInv, NEW g \in Handlers, handler[g].step = "putting"
  PROVE  Own(handler[g]) \in Keys /\ blob[Own(handler[g])] = "none"
<1> PICK t \in Requests : t = handler[g]
  BY DEF IInv, TypeOK
<1>1. HandlerOK(t) /\ HoldsOK(t) /\ Busy(t)
  BY DEF IInv, OInv, Busy
<1>2. Own(t) \in Keys
  BY <1>1, OwnTyped
<1> QED BY <1>1, <1>2 DEF HoldsOK

(* What an aborted row names is named until the sweep has deleted it.       *)
LEMMA AbortedThreats ==
  ASSUME NEW f \in Files, row'[f].state = "aborted", row'[f].key = row[f].key,
         \A k \in Keys : Putting(k)' => Putting(k),
         NEW k \in Keys, k \in StorageKeys(f), Threat(k)'
  PROVE  Putting(k)
<1>1. k[1] = f /\ k \in StorageKeys(f)'
  BY DEF StorageKeys
<1>2. Named(k)'
  BY <1>1 DEF Named
<1> QED BY <1>2 DEF Threat

(* Idle holds nothing.                                                      *)
LEMMA IdleHolds ==
  Idle \in Requests /\ Idle.step # "putting" /\ HoldsOK(Idle)' /\ Holds(Idle) = {}
<1>1. /\ Idle.step = "idle" /\ Idle.todo = {} /\ ~Busy(Idle)
  BY DEF Idle, Request, Busy
<1>2. Idle \in Requests
  BY AttachmentsAssumption DEF Idle, Request, Requests
<1> HIDE DEF Idle
<1> QED BY <1>1, <1>2 DEF HoldsOK, Holds, Busy, OneAtMost

(* Requests that find the row not worth going on with.                      *)
LEMMA GiveUpStep ==
  ASSUME IInv, OInv, NEW h \in Handlers, NEW f \in Files,
         \/ FinalizeInvalid(h, f) \/ AbortUpload(h, f)
         \/ \E p \in PartNames : ClaimInvalid(h, f, p)
  PROVE  OInv' /\ Counted
<1>1. /\ row \in [Files -> Rows] /\ row[f] \in Rows
      /\ row[f].state \in Unfinished
      /\ row' = [row EXCEPT ![f] = Aborted(row[f])]
      /\ handler[h] = Idle
      /\ handler' = [handler EXCEPT ![h] = CleaningUp(StorageKeys(f))]
      /\ context[f] # "closed"
      /\ UNCHANGED <<context, blob, transfers, faults>>
  BY RowTyped DEF FinalizeInvalid, AbortUpload, ClaimInvalid, HasUploader, Claimable,
                  Unfinished, IInv, TypeOK
<1>2. f \notin Stuck
  BY <1>1 DEF OInv
<1>3. /\ \A g \in Files : g # f => row'[g] = row[g]
      /\ row'[f] = Aborted(row[f])
  BY <1>1
<1>4. Quiet(row[f], row'[f]) /\ row'[f].state = "aborted" /\ row'[f].key = row[f].key
  BY <1>1, <1>3, AbortedQuiet DEF Unfinished, Quiet
<1>5. Calm
  <2>1. \A g \in Files : row'[g] = row[g] \/ Quiet(row[g], row'[g])
    BY <1>3, <1>4
  <2>2. \A g \in Stuck : context'[g] = "closed"
    BY <1>1 DEF OInv
  <2> QED BY <1>1, <2>1, <2>2, QuietCalm
<1>6. PICK keys \in SUBSET Keys : keys = StorageKeys(f)
  BY KeysTyped DEF IInv
<1>7. \A k \in Keys : Putting(k)' => Putting(k)
  <2>1. CleaningUp(StorageKeys(f)).step # "putting"
    BY DEF CleaningUp, Idle, Request
  <2>2. /\ handler'[h] = CleaningUp(StorageKeys(f))
        /\ \A g \in Handlers : g # h => handler'[g] = handler[g]
    BY <1>1 DEF IInv, TypeOK
  <2> QED BY <2>1, <2>2 DEF Putting
<1>8. \A k \in keys : k[1] = f
  BY <1>6 DEF StorageKeys
<1>9. \A k, l \in keys : Threat(k)' /\ Threat(l)' => k = l
  BY <1>4, <1>6, <1>7, AbortedThreats, PutOnce
<1> DEFINE m == CleaningUp(keys)
<1>10. /\ m \in Requests /\ m.step # "putting" /\ HoldsOK(m)' /\ Holds(m) = keys
  BY <1>2, <1>4, <1>8, <1>9, CleaningHolds
<1>11. handler' = [handler EXCEPT ![h] = m]
  BY <1>1, <1>6
<1> HIDE DEF m
<1>12. OInv'
  BY <1>1, <1>5, <1>10, <1>11, OneRequest, OtherRequests
<1>13. PICK t \in Requests : t = handler[h] /\ Holds(t) = {}
  BY <1>1, IdleHolds
<1>14. Orphans' \subseteq Orphans
  BY <1>5, <1>10, <1>11, <1>13, DropsNothing
<1> QED BY <1>1, <1>12, <1>14 DEF Counted

LEMMA StoreOnly ==
  ASSUME IInv, OInv, UNCHANGED <<row, context, transfers>>,
         \A k \in Keys : blob'[k] \in {blob[k], "none"} \/ Putting(k)
  PROVE  Calm
BY QuietCalm DEF OInv

(* A request stops at once: what it put, or was going to delete, stays.     *)
LEMMA CrashStep ==
  ASSUME IInv, OInv, NEW h \in Handlers, Crash(h)
  PROVE  OInv' /\ Counted
<1>1. /\ handler' = [handler EXCEPT ![h] = Idle]
      /\ UNCHANGED <<row, context, blob, sweep, retryQueue, transfers>>
      /\ faults' = faults + 1
  BY FaultCounts DEF Crash
<1>2. Calm
  BY <1>1, StoreOnly
<1>3. OInv'
  BY <1>1, <1>2, IdleHolds, OneRequest, OtherRequests
<1> PICK t \in Requests : t = handler[h]
  BY DEF IInv, TypeOK
<1>4. HandlerOK(t) /\ HoldsOK(t)
  BY DEF IInv, OInv
<1>5. t.todo \subseteq Keys
  BY DEF Requests
<1>6. PICK X : /\ OneAtMost(X)
               /\ \A k \in Keys : k \in Holds(t) =>
                    k \in X \/ blob[k] = "none" \/ Named(k)
  <2>1. CASE Busy(t) /\ t.step # "putting"
    <3>1. Holds(t) = {Own(t)}
      BY <1>4, <2>1 DEF Holds, HoldsOK, Busy
    <3>2. OneAtMost({Own(t)})
      BY DEF OneAtMost
    <3> QED BY <3>1, <3>2
  <2>2. CASE t.step = "putting"
    BY <1>4, <2>2 DEF Holds, HoldsOK
  <2>3. CASE ~Busy(t) /\ OneAtMost(t.todo)
    BY <2>3 DEF Holds
  <2>4. CASE ~Busy(t) /\ ~OneAtMost(t.todo)
    <3>1. \A k, l \in t.todo : Threat(k) /\ Threat(l) => k = l
      BY <1>4, <2>4 DEF HoldsOK
    <3>2. OneAtMost({k \in t.todo : Threat(k)})
      BY <3>1 DEF OneAtMost
    <3>3. \A k \in Holds(t) : k \in {j \in t.todo : Threat(j)} \/ blob[k] = "none" \/ Named(k)
      BY <2>4 DEF Holds, Threat
    <3> QED BY <3>2, <3>3
  <2> QED BY <2>1, <2>2, <2>3, <2>4
<1>7. \A k \in Keys : Named(k)' = Named(k)
  BY <1>1 DEF Named, StorageKeys
<1>8. Orphans' \subseteq Orphans \cup X
  BY <1>1, <1>2, <1>6, <1>7, IdleHolds, Drops
<1>9. \E k : X \subseteq {k}
  BY <1>6 DEF OneAtMost
<1> QED BY <1>1, <1>3, <1>8, <1>9 DEF Counted

(* What a failed deletion leaves is one object at most.                     *)
LEMMA CleanUpStep ==
  ASSUME IInv, OInv, NEW h \in Handlers, CleanUp(h)
  PROVE  OInv' /\ Counted
<1> PICK t \in Requests : t = handler[h]
  BY DEF IInv, TypeOK
<1>1. /\ t.step = "cleaning"
      /\ handler' = [handler EXCEPT ![h] = Idle]
      /\ UNCHANGED <<row, context, transfers>>
  BY DEF CleanUp
<1>2. PICK deleted \in SUBSET t.todo : Deletes(t.todo, deleted) /\ blob' = Without(deleted)
  BY DEF CleanUp
<1>3. HoldsOK(t) /\ ~Busy(t) /\ Holds(t) = t.todo
  BY <1>1 DEF OInv, Busy, Holds
<1>4. Deletable(t.todo) = t.todo
  BY <1>3 DEF HoldsOK, Deletable
<1>5. \A k \in Keys : blob'[k] = IF k \in deleted THEN "none" ELSE blob[k]
  BY <1>2 DEF Without
<1>6. Calm
  BY <1>1, <1>5, StoreOnly
<1>7. ASSUME NEW g \in Handlers, handler[g].step = "putting"
      PROVE  blob'[Own(handler[g])] = "none"
  BY <1>5, <1>7, OtherRequests
<1>8. OInv'
  BY <1>1, <1>6, <1>7, IdleHolds, OneRequest
<1>9. CASE deleted = t.todo
  <2>1. \A k \in Keys : k \in Holds(t) => blob'[k] = "none"
    BY <1>3, <1>5, <1>9
  <2>2. Orphans' \subseteq Orphans
    BY <1>1, <1>6, <2>1, IdleHolds, DropsNothing
  <2>3. faults' = faults
    BY <1>2, <1>4, <1>9 DEF Deletes
  <2> QED BY <1>8, <2>2, <2>3 DEF Counted
<1>10. CASE deleted # t.todo
  <2>1. faults' = faults + 1
    BY <1>2, <1>4, <1>10, FaultCounts DEF Deletes
  <2>2. \A k \in Keys : Named(k)' = Named(k)
    BY <1>1 DEF Named, StorageKeys
  <2>3. PICK X : /\ OneAtMost(X)
                 /\ \A k \in t.todo : k \in X \/ blob[k] = "none" \/ Named(k)
    <3>1. CASE OneAtMost(t.todo)
      BY <3>1
    <3>2. CASE ~OneAtMost(t.todo)
      <4>1. OneAtMost({k \in t.todo : Threat(k)})
        BY <1>3, <3>2 DEF HoldsOK, OneAtMost
      <4>2. \A k \in t.todo :
              k \in {j \in t.todo : Threat(j)} \/ blob[k] = "none" \/ Named(k)
        BY DEF Threat
      <4> QED BY <4>1, <4>2
    <3> QED BY <3>1, <3>2
  <2>4. \A k \in Keys : k \in Holds(t) =>
          k \in X \/ blob'[k] = "none" \/ Named(k)'
    BY <1>3, <1>5, <2>2, <2>3
  <2>5. Orphans' \subseteq Orphans \cup X
    BY <1>1, <1>6, <2>4, IdleHolds, Drops
  <2>6. \E k : X \subseteq {k}
    BY <2>3 DEF OneAtMost
  <2> QED BY <1>8, <2>1, <2>5, <2>6 DEF Counted
<1> QED BY <1>9, <1>10

(* A transfer that does not learn whether its commit went through keeps its *)
(* key.                                                                     *)
LEMMA UnsureStep ==
  ASSUME IInv, OInv, Calm, NEW h \in Handlers, handler[h].step = "stored",
         handler' = [handler EXCEPT ![h].step = "unsure"],
         UNCHANGED blob, faults' = faults + 1
  PROVE  OInv' /\ Counted
<1> PICK t \in Requests : t = handler[h]
  BY DEF IInv, TypeOK
<1>1. HandlerOK(t) /\ HoldsOK(t) /\ t.step = "stored"
  BY DEF IInv, OInv
<1>2. PICK m \in Requests :
         /\ m = [t EXCEPT !.step = "unsure"] /\ m.step = "unsure" /\ m.todo = t.todo
         /\ m.file = t.file /\ m.part = t.part /\ m.key = t.key /\ m.recorded = t.recorded
  <2> DEFINE e == [t EXCEPT !.step = "unsure"]
  <2>1. e \in Requests
    BY DEF Requests
  <2>2. /\ e.step = "unsure" /\ e.todo = t.todo
        /\ e.file = t.file /\ e.part = t.part /\ e.key = t.key /\ e.recorded = t.recorded
    BY DEF Requests
  <2> QED BY <2>1, <2>2
<1>3. handler' = [handler EXCEPT ![h] = m]
  BY <1>2 DEF IInv, TypeOK
<1>4. \A k \in Keys : Putting(k)' => Putting(k)
  BY <1>2, <1>3 DEF Putting, IInv, TypeOK
<1>5. HoldsOK(t)'
  BY <1>1, <1>4, HoldsStay
<1>6. HoldsOK(m)' /\ Holds(m) = Holds(t)
  BY <1>1, <1>2, <1>5 DEF HoldsOK, Holds, Busy, Own, OneAtMost
<1>7. OInv'
  BY <1>2, <1>3, <1>6, OneRequest, OtherRequests
<1>8. Orphans' \subseteq Orphans
  BY <1>3, <1>6, DropsNothing
<1> QED BY <1>7, <1>8 DEF Counted

LEMMA RecordFailsStep ==
  ASSUME IInv, OInv, NEW h \in Handlers, RecordFails(h)
  PROVE  OInv' /\ Counted
<1>1. /\ handler[h].step = "stored"
      /\ handler' = [handler EXCEPT ![h].step = "unsure"]
      /\ UNCHANGED <<row, context, blob, transfers>>
      /\ faults' = faults + 1
  BY FaultCounts DEF RecordFails
<1>2. Calm
  BY <1>1, StoreOnly
<1> QED BY <1>1, <1>2, UnsureStep

(* A transfer that goes on to delete, or leaves its object to the row.      *)
LEMMA TransferEnds ==
  ASSUME IInv, OInv, Calm, NEW h \in Handlers, NEW t \in Requests, t = handler[h],
         t.step \in {"stored", "unsure"}, NEW keys \in SUBSET Keys,
         handler' = [handler EXCEPT ![h] = CleaningUp(keys)],
         UNCHANGED <<blob, faults>>,
         \A k \in keys : k[1] \notin Stuck,
         \/ OneAtMost(keys)
         \/ /\ \A k \in keys : row'[k[1]].state \in {"aborted", "gone"}
            /\ \A k, l \in keys : Threat(k)' /\ Threat(l)' => k = l,
         Own(t) \in keys \/ Named(Own(t))'
  PROVE  OInv' /\ Counted
<1>1. HoldsOK(t)
  BY DEF OInv
<1>2. Holds(t) = {Own(t)}
  BY <1>1 DEF Holds, HoldsOK, Busy
<1> DEFINE m == CleaningUp(keys)
<1>3. m \in Requests /\ m.step # "putting" /\ HoldsOK(m)' /\ Holds(m) = keys
  BY CleaningHolds
<1>4. handler' = [handler EXCEPT ![h] = m]
  OBVIOUS
<1> HIDE DEF m
<1>5. OInv'
  BY <1>3, <1>4, OneRequest, OtherRequests
<1>6. \A k \in Keys : k \in Holds(t) => k \in Holds(m) \/ Named(k)'
  BY <1>2, <1>3
<1>7. Orphans' \subseteq Orphans
  BY <1>3, <1>4, <1>6, DropsNothing
<1> QED BY <1>5, <1>7 DEF Counted

LEMMA ReleaseClaimStep ==
  ASSUME IInv, OInv, NEW h \in Handlers, ReleaseClaim(h)
  PROVE  OInv' /\ Counted
<1> PICK t \in Requests : t = handler[h]
  BY DEF IInv, TypeOK
<1>1. HandlerOK(t) /\ HoldsOK(t) /\ Busy(t) /\ t.step = "unsure"
  BY DEF IInv, OInv, ReleaseClaim, Busy
<1>2. /\ Own(t) \in Keys /\ Own(t)[1] = t.file /\ t.file \in Files /\ t.key # 0
      /\ t.part \in Parts(t.file) /\ t.file \notin Stuck
  BY <1>1, OwnTyped DEF HandlerOK, HoldsOK
<1> DEFINE f == t.file
           release == MineByToken(h) \/ ~Published(h)
<1>3. /\ row' = [row EXCEPT ![f] = IF MineByToken(h) THEN Released(row[f]) ELSE row[f]]
      /\ handler' = [handler EXCEPT ![h] =
           CleaningUp(IF release THEN {Own(t)} ELSE {})]
      /\ UNCHANGED <<context, blob, transfers, faults>>
  BY DEF ReleaseClaim, KeyOf, Own
<1>4. row \in [Files -> Rows] /\ row[f] \in Rows
  BY <1>2 DEF IInv, TypeOK
<1>5. Calm
  <2>1. \A g \in Files : row'[g] = row[g] \/ Quiet(row[g], row'[g])
    BY <1>2, <1>3, <1>4, ReleasedQuiet
  <2> QED BY <1>3, <2>1, QuietCalm DEF OInv
<1>6. CASE release
  <2>1. PICK keys \in SUBSET Keys : keys = {Own(t)}
    BY <1>2
  <2>2. handler' = [handler EXCEPT ![h] = CleaningUp(keys)]
    BY <1>3, <1>6, <2>1
  <2>3. OneAtMost(keys) /\ Own(t) \in keys /\ \A k \in keys : k[1] \notin Stuck
    BY <1>2, <2>1 DEF OneAtMost
  <2> QED BY <1>1, <1>3, <1>5, <2>2, <2>3, TransferEnds
<1>7. CASE ~release
  <2>1. row' = row
    BY <1>3, <1>4, <1>7
  <2>2. row[f].state # "gone" /\ row[f].key[t.part] = t.key
    BY <1>7 DEF Published
  <2>3. row[f].state # "none"
    BY <1>2, <2>2, PartsNamed DEF IInv, RowOK
  <2>4. Own(t) \in StorageKeys(f)
    BY <1>2, <2>2 DEF Own, StorageKeys
  <2>5. Named(Own(t))'
    BY <1>2, <2>1, <2>2, <2>3, <2>4 DEF Named, StorageKeys
  <2>6. OneAtMost({}) /\ {} \in SUBSET Keys
    BY DEF OneAtMost
  <2>7. handler' = [handler EXCEPT ![h] = CleaningUp({})]
    BY <1>3, <1>7
  <2> QED BY <1>1, <1>3, <1>5, <2>5, <2>6, <2>7, TransferEnds
<1> QED BY <1>6, <1>7

(* The put itself: the retired key goes, the new one is still in hand.      *)
LEMMA PutStep ==
  ASSUME IInv, OInv, NEW h \in Handlers, Put(h)
  PROVE  OInv' /\ Counted
<1> PICK t \in Requests : t = handler[h]
  BY DEF IInv, TypeOK
<1>1. HandlerOK(t) /\ HoldsOK(t) /\ Busy(t) /\ t.step = "putting"
  BY DEF IInv, OInv, Put, Busy
<1>2. Own(t) \in Keys /\ KeyOf(h) = Own(t) /\ Putting(Own(t))
  BY <1>1, OwnTyped DEF KeyOf, Own, Putting
<1>3. PICK outcome \in Outcomes, deleted \in SUBSET t.todo :
        /\ Deletes(t.todo, deleted)
        /\ blob' = IF outcome[2] = "none" THEN Without(deleted)
                   ELSE [Without(deleted) EXCEPT ![Own(t)] = outcome[2]]
        /\ handler' = [handler EXCEPT ![h] =
             [t EXCEPT !.step = "stored", !.result = outcome[1], !.todo = {}]]
  BY <1>2 DEF Put
<1>4. PICK m \in Requests :
        /\ handler' = [handler EXCEPT ![h] = m]
        /\ m.step = "stored" /\ m.todo = {} /\ m.file = t.file /\ m.part = t.part
        /\ m.key = t.key /\ m.recorded = t.recorded
  <2> DEFINE e == [t EXCEPT !.step = "stored", !.result = outcome[1], !.todo = {}]
  <2>1. outcome[1] \in Lengths \cup {"none", "tooLarge", "failed"}
    BY DEF Outcomes
  <2>2. e \in Requests
    BY <2>1 DEF Requests
  <2>3. /\ e.step = "stored" /\ e.todo = {} /\ e.file = t.file /\ e.part = t.part
        /\ e.key = t.key /\ e.recorded = t.recorded
    BY DEF Requests
  <2> QED BY <1>3, <2>2, <2>3
<1>5. UNCHANGED <<row, context, transfers>>
  BY DEF Put
<1>6. \A k \in Keys : k # Own(t) =>
        blob'[k] = IF k \in deleted THEN "none" ELSE blob[k]
  BY <1>3 DEF Without
<1>7. Calm
  BY <1>2, <1>5, <1>6, StoreOnly
<1>8. ASSUME NEW g \in Handlers \ {h}, handler[g].step = "putting"
      PROVE  blob'[Own(handler[g])] = "none"
  <2>1. Own(handler[g]) \in Keys /\ blob[Own(handler[g])] = "none"
    BY <1>8, OtherRequests
  <2>2. handler[g].key # t.key
    BY <1>1, <1>8 DEF IInv, Distinct, Busy
  <2>3. Own(handler[g]) # Own(t)
    BY <2>2 DEF Own
  <2> QED BY <1>6, <2>1, <2>3
<1>9. HoldsOK(m)' /\ Holds(m) = {Own(t)}
  BY <1>1, <1>4, <1>5 DEF HoldsOK, Holds, Busy, Own, OneAtMost
<1>10. OInv'
  BY <1>4, <1>7, <1>8, <1>9, OneRequest
<1>11. Holds(t) = t.todo \cup {Own(t)} /\ OneAtMost(t.todo)
  BY <1>1 DEF Holds, HoldsOK
<1>12. Deletable(t.todo) = t.todo
  BY <1>1 DEF HoldsOK, Deletable
<1>13. CASE deleted = t.todo
  <2>1. \A k \in Keys : k \in Holds(t) => k \in Holds(m) \/ blob'[k] = "none"
    BY <1>6, <1>9, <1>11, <1>13
  <2>2. Orphans' \subseteq Orphans
    BY <1>4, <1>7, <2>1, DropsNothing
  <2>3. faults' = faults
    BY <1>3, <1>12, <1>13 DEF Deletes
  <2> QED BY <1>10, <2>2, <2>3 DEF Counted
<1>14. CASE deleted # t.todo
  <2>1. faults' = faults + 1
    BY <1>3, <1>12, <1>14, FaultCounts DEF Deletes
  <2>2. PICK X : X = t.todo
    OBVIOUS
  <2>3. \A k \in Keys : k \in Holds(t) => k \in Holds(m) \/ k \in X
    BY <1>9, <1>11, <2>2
  <2>4. Orphans' \subseteq Orphans \cup X
    BY <1>4, <1>7, <2>3, Drops
  <2>5. \E k : X \subseteq {k}
    BY <1>11, <2>2 DEF OneAtMost
  <2> QED BY <1>10, <2>1, <2>4, <2>5 DEF Counted
<1> QED BY <1>13, <1>14

-----------------------------------------------------------------------------
(* The second transaction of a transfer                                     *)

LEMMA CommittedPuts ==
  ASSUME IInv, NEW h \in Handlers, NEW keys, Committed(h, keys)
  PROVE  \A k \in Keys : Putting(k)' => Putting(k)
<1>1. \A g \in Handlers : g # h => handler'[g] = handler[g]
  BY DEF Committed, IInv, TypeOK
<1>2. handler'[h].step # "putting"
  <2>1. CleaningUp(keys).step # "putting"
    BY DEF CleaningUp, Idle, Request
  <2>2. CASE handler' = [handler EXCEPT ![h] = CleaningUp(keys)]
    BY <2>1, <2>2 DEF IInv, TypeOK
  <2>3. CASE handler' = [handler EXCEPT ![h].step = "unsure"]
    <3>1. handler'[h] = [handler[h] EXCEPT !.step = "unsure"] /\ handler[h] \in Requests
      BY <2>3 DEF IInv, TypeOK
    <3> QED BY <3>1 DEF Requests
  <2> QED BY <2>2, <2>3 DEF Committed
<1> QED BY <1>1, <1>2 DEF Putting

LEMMA CommittedStep ==
  ASSUME IInv, OInv, Calm, NEW h \in Handlers, NEW t \in Requests, t = handler[h],
         t.step = "stored", NEW keys \in SUBSET Keys, Committed(h, keys),
         UNCHANGED blob,
         \A k \in keys : k[1] \notin Stuck,
         \/ OneAtMost(keys)
         \/ /\ \A k \in keys : row'[k[1]].state \in {"aborted", "gone"}
            /\ \A k, l \in keys : Threat(k)' /\ Threat(l)' => k = l,
         Own(t) \in keys \/ Named(Own(t))'
  PROVE  OInv' /\ Counted
<1>1. CASE handler' = [handler EXCEPT ![h] = CleaningUp(keys)] /\ UNCHANGED faults
  BY <1>1, TransferEnds
<1>2. CASE Fault /\ handler' = [handler EXCEPT ![h].step = "unsure"]
  BY <1>2, FaultCounts, UnsureStep
<1> QED BY <1>1, <1>2 DEF Committed

(* A transfer that is cancelled deletes all that the row names, and what it *)
(* put itself.                                                              *)
LEMMA CancelledThreats ==
  ASSUME IInv, OInv, NEW t \in Requests, HandlerOK(t), HoldsOK(t), Busy(t),
         row[t.file].token = t.key,
         row'[t.file].state = "aborted", row'[t.file].key = row[t.file].key,
         \A k \in Keys : Putting(k)' => Putting(k),
         NEW k \in StorageKeys(t.file) \cup {Own(t)}, Threat(k)',
         NEW l \in StorageKeys(t.file) \cup {Own(t)}, Threat(l)'
  PROVE  k = l
<1> PICK f \in Files : f = t.file
  BY OwnTyped
<1>1. /\ t.part \in Parts(f) /\ t.part \in PartNames /\ ClaimOK(t, row[f])
      /\ Own(t) \in Keys /\ StorageKeys(f) \in SUBSET Keys /\ t.key # 0
  BY OwnTyped, KeysTyped DEF HandlerOK, IInv
<1>2. ASSUME NEW x \in StorageKeys(f), Threat(x)'
      PROVE  Putting(x)
  BY <1>1, <1>2, AbortedThreats
<1>3. CASE ~t.recorded
  <2>1. row[f].key[t.part] = t.key
    BY <1>1, <1>3 DEF ClaimOK
  <2>2. Own(t) \in StorageKeys(f)
    BY <1>1, <2>1 DEF Own, StorageKeys
  <2> QED BY <1>2, <2>2, PutOnce
<1>4. CASE t.recorded
  <2>1. row[f].seen["thumbnail"] # "null"
    BY <1>4 DEF HoldsOK
  <2>2. row[f].seen["content"] # "null"
    BY <2>1 DEF OInv, ThumbnailLast
  <2>3. ASSUME NEW x \in StorageKeys(f), Putting(x)
        PROVE  FALSE
    <3>1. PICK p \in Parts(f) : x = <<f, p, row[f].key[p]>>
      BY DEF StorageKeys
    <3>2. PICK g \in Handlers : handler[g].step = "putting" /\ Own(handler[g]) = x
      BY <2>3 DEF Putting
    <3> PICK u \in Requests : u = handler[g]
      BY DEF IInv, TypeOK
    <3>3. /\ HandlerOK(u) /\ Busy(u) /\ u.file = f /\ u.part = p /\ u.key = row[f].key[p]
      BY <3>1, <3>2 DEF IInv, Busy, Own
    <3>4. row[f].seen[p] = "null" /\ p \in PartNames
      BY <3>2, <3>3, PartsNamed DEF HandlerOK, ClaimOK
    <3> QED BY <2>1, <2>2, <3>4 DEF PartNames
  <2>4. k = Own(t) /\ l = Own(t)
    BY <1>2, <2>3
  <2> QED BY <2>4
<1> QED BY <1>3, <1>4

(* What was put is the row's from now on.                                   *)
LEMMA RecordedCalm ==
  ASSUME IInv, OInv, NEW t \in Requests, HandlerOK(t), HoldsOK(t), Busy(t),
         row[t.file].token = t.key, ~t.recorded, t.result \in Lengths,
         row[t.file].state \in {"reserved", "uploading"},
         row' = [row EXCEPT ![t.file] = Recorded(row[t.file], t.part, t.result)],
         UNCHANGED <<blob, context, transfers>>
  PROVE  Calm /\ Named(Own(t))'
<1> PICK f \in Files : f = t.file
  BY OwnTyped
<1>1. /\ t.part \in Parts(f) /\ t.part \in PartNames /\ ClaimOK(t, row[f])
      /\ Own(t) = <<f, t.part, t.key>> /\ t.key # 0 /\ t.file \notin Stuck
      /\ row \in [Files -> Rows] /\ row[f] \in Rows
  BY OwnTyped, RowTyped DEF HandlerOK, HoldsOK, Own, IInv, TypeOK
<1> DEFINE r == Recorded(row[f], t.part, t.result)
<1>2. /\ r.key = row[f].key /\ r.state = "uploading" /\ r.token = 0
      /\ r.seen[t.part] = t.result
      /\ \A p \in PartNames : p # t.part => r.seen[p] = row[f].seen[p]
  <2>1. /\ Released(row[f]).key = row[f].key /\ Released(row[f]).seen = row[f].seen
        /\ Released(row[f]).token = 0
        /\ Released(row[f]) = [row[f] EXCEPT !.token = 0, !.leased = FALSE]
    BY <1>1 DEF Released, Rows
  <2>2. Released(row[f]) \in Rows
    BY ReleasedMoves
  <2> HIDE DEF Released
  <2> DEFINE e == Released(row[f])
  <2>3. r = [e EXCEPT !.state = "uploading", !.seen = [e.seen EXCEPT ![t.part] = t.result]]
    BY DEF Recorded
  <2>4. e \in Rows /\ e.key = row[f].key /\ e.seen = row[f].seen /\ e.token = 0
    BY <2>1, <2>2
  <2> HIDE DEF e, r
  <2>5. /\ r.key = row[f].key /\ r.state = "uploading" /\ r.token = 0
        /\ r.seen = [row[f].seen EXCEPT ![t.part] = t.result]
    BY <2>3, <2>4 DEF Rows
  <2>6. row[f].seen \in [PartNames -> Lengths \cup {"null"}]
    BY <1>1 DEF Rows, PartNames
  <2> QED BY <1>1, <2>5, <2>6
<1> HIDE DEF r
<1>3. /\ row'[f] = r /\ \A g \in Files : g # f => row'[g] = row[g]
  BY <1>1 DEF r
<1>4. row[f].key[t.part] = t.key
  BY <1>1 DEF ClaimOK
<1>5. ThumbnailLast(r)
  <2>1. ThumbnailLast(row[f])
    BY DEF OInv
  <2>2. CASE t.part = "content"
    BY <1>2, <2>2 DEF ThumbnailLast, Lengths
  <2>3. CASE t.part = "thumbnail"
    <3>1. row[f].seen["content"] # "null"
      BY <1>1, <1>4, <2>1, <2>3 DEF ThumbnailLast
    <3> QED BY <1>2, <2>3, <3>1 DEF ThumbnailLast, PartNames
  <2> QED BY <1>1, <2>2, <2>3 DEF PartNames
<1>6. \A g \in Files : StorageKeys(g)' = StorageKeys(g)
  BY <1>2, <1>3 DEF StorageKeys
<1>7. ASSUME NEW k \in Keys, Named(k)
      PROVE  Named(k)'
  <2> PICK g \in Files : g = k[1]
    BY DEF Keys
  <2> QED BY <1>2, <1>3, <1>6, <1>7 DEF Named
<1>8. Own(t) \in StorageKeys(f)
  BY <1>1, <1>4 DEF StorageKeys
<1>9. Named(Own(t))'
  BY <1>1, <1>2, <1>3, <1>6, <1>8 DEF Named
<1>10. ASSUME NEW g \in Files
       PROVE  /\ row[g].state \in {"aborted", "gone"} => row'[g].state \in {"aborted", "gone"}
              /\ ThumbnailLast(row'[g])
              /\ row'[g].token # 0 =>
                   /\ row'[g].token = row[g].token
                   /\ row[g].seen["thumbnail"] # "null" =>
                        row'[g].seen["thumbnail"] # "null"
  BY <1>2, <1>3, <1>5 DEF OInv
<1>11. \A g \in Stuck : context'[g] = "closed" /\ row'[g].state = "aborted"
  BY <1>1, <1>3, AttachmentsAssumption DEF OInv
<1> QED BY <1>7, <1>9, <1>10, <1>11 DEF Calm

LEMMA RecordTransferStep ==
  ASSUME IInv, OInv, NEW h \in Handlers, RecordTransfer(h)
  PROVE  OInv' /\ Counted
<1> PICK t \in Requests : t = handler[h]
  BY DEF IInv, TypeOK
<1>1. HandlerOK(t) /\ HoldsOK(t) /\ Busy(t) /\ t.step = "stored"
  BY DEF IInv, OInv, RecordTransfer, Busy
<1> PICK f \in Files : f = t.file
  BY <1>1, OwnTyped
<1>2. /\ Own(t) \in Keys /\ Own(t)[1] = f /\ t.key # 0 /\ t.token = t.key
      /\ t.part \in Parts(f) /\ f \notin Stuck /\ KeyOf(h) = Own(t)
  BY <1>1, OwnTyped DEF HandlerOK, HoldsOK, KeyOf, Own
<1>3. /\ UNCHANGED <<context, blob, transfers>>
      /\ row \in [Files -> Rows] /\ row[f] \in Rows
  BY DEF RecordTransfer, IInv, TypeOK
<1>4. PICK own \in SUBSET Keys : own = {Own(t)}
  BY <1>2
<1>5. OneAtMost(own) /\ Own(t) \in own /\ \A k \in own : k[1] \notin Stuck
  BY <1>2, <1>4 DEF OneAtMost
<1>6. Mine(h) => row[f].token = t.key /\ row[f].state \in {"reserved", "uploading"}
  BY <1>2 DEF Mine
<1>7. CASE row' = row /\ Committed(h, own)
  <2>1. Calm
    BY <1>3, <1>7, StoreOnly
  <2> QED BY <1>1, <1>3, <1>5, <1>7, <2>1, CommittedStep
<1>8. CASE row' = [row EXCEPT ![f] = Released(row[f])] /\ Committed(h, own)
  <2>1. \A g \in Files : row'[g] = row[g] \/ Quiet(row[g], row'[g])
    BY <1>3, <1>8, ReleasedQuiet
  <2>2. Calm
    BY <1>3, <2>1, QuietCalm DEF OInv
  <2> QED BY <1>1, <1>3, <1>5, <1>8, <2>2, CommittedStep
<1>9. CASE /\ Mine(h)
           /\ row' = [row EXCEPT ![f] = Aborted(row[f])]
           /\ Committed(h, StorageKeys(f) \cup own)
  <2>1. Quiet(row[f], Aborted(row[f])) /\ Aborted(row[f]).state = "aborted"
    BY <1>3, <1>6, <1>9, AbortedQuiet
  <2>2. /\ row'[f] = Aborted(row[f]) /\ \A g \in Files : g # f => row'[g] = row[g]
    BY <1>3, <1>9
  <2>3. row'[f].state = "aborted" /\ row'[f].key = row[f].key
    BY <2>1, <2>2 DEF Quiet
  <2>4. \A g \in Files : row'[g] = row[g] \/ Quiet(row[g], row'[g])
    BY <2>1, <2>2
  <2>5. Calm
    BY <1>3, <2>4, QuietCalm DEF OInv
  <2>6. PICK keys \in SUBSET Keys : keys = StorageKeys(f) \cup own
    BY KeysTyped DEF IInv
  <2>7. Committed(h, keys)
    BY <1>9, <2>6
  <2>8. \A k \in Keys : Putting(k)' => Putting(k)
    BY <2>7, CommittedPuts
  <2>9. \A k \in keys : k[1] = f
    BY <1>2, <1>4, <2>6 DEF StorageKeys
  <2>10. \A k, l \in keys : Threat(k)' /\ Threat(l)' => k = l
    BY <1>1, <1>4, <1>6, <1>9, <2>3, <2>6, <2>8, CancelledThreats
  <2>11. Own(t) \in keys
    BY <1>5, <2>6
  <2> QED BY <1>1, <1>2, <1>3, <2>3, <2>5, <2>7, <2>9, <2>10, <2>11, CommittedStep
<1>10. CASE /\ Mine(h) /\ ~t.recorded /\ t.result \in Lengths
            /\ row' = [row EXCEPT ![f] = Recorded(row[f], t.part, t.result)]
            /\ Committed(h, {})
  <2>1. Calm /\ Named(Own(t))'
    BY <1>1, <1>3, <1>6, <1>10, RecordedCalm
  <2>2. PICK keys \in SUBSET Keys : keys = {}
    OBVIOUS
  <2>3. Committed(h, keys) /\ OneAtMost(keys)
    BY <1>10, <2>2 DEF OneAtMost
  <2> QED BY <1>1, <1>3, <2>1, <2>2, <2>3, CommittedStep
<1> QED BY <1>2, <1>4, <1>7, <1>8, <1>9, <1>10 DEF RecordTransfer, LeftBehind

-----------------------------------------------------------------------------
(* The claim draws a key that nobody holds and retires one that it holds.   *)
LEMMA ClaimTransferStep ==
  ASSUME IInv, OInv, NEW h \in Handlers, NEW f \in Files, NEW p \in PartNames,
         ClaimTransfer(h, f, p)
  PROVE  OInv' /\ Counted
<1> PICK r \in Rows : r = row[f]
  BY RowTyped DEF IInv
<1> PICK n \in Nat : n = transfers + 1
  BY DEF IInv, TypeOK
<1> PICK recorded \in BOOLEAN : recorded = (p = "thumbnail" /\ r.seen[p] # "null")
  OBVIOUS
<1> PICK retired : retired = IF recorded THEN {} ELSE {<<f, p, r.key[p]>>}
  OBVIOUS
<1>1. /\ handler[h] = Idle /\ Claimable(f, p) /\ Valid(f)
      /\ transfers' = n /\ n \in 1..MaxTransfers
      /\ row' = [row EXCEPT ![f] =
           [r EXCEPT !.token = n, !.leased = TRUE,
                     !.key = IF recorded THEN @ ELSE [@ EXCEPT ![p] = n]]]
      /\ handler' = [handler EXCEPT ![h] =
           [step |-> "putting", file |-> f, part |-> p, token |-> n,
            key |-> n, recorded |-> recorded, result |-> "none", todo |-> retired]]
      /\ UNCHANGED <<context, blob, faults>>
  <2>1. n \in 1..MaxTransfers /\ transfers' = n
    BY AttachmentsAssumption DEF ClaimTransfer, IInv, TypeOK
  <2>2. row' = [row EXCEPT ![f] =
           [r EXCEPT !.token = n, !.leased = TRUE,
                     !.key = IF recorded THEN @ ELSE [@ EXCEPT ![p] = n]]]
    BY DEF ClaimTransfer, DrawnKey
  <2>3. handler' = [handler EXCEPT ![h] =
           [step |-> "putting", file |-> f, part |-> p, token |-> n,
            key |-> n, recorded |-> recorded, result |-> "none", todo |-> retired]]
    BY DEF ClaimTransfer, DrawnKey
  <2>4. /\ handler[h] = Idle /\ Claimable(f, p) /\ Valid(f)
        /\ UNCHANGED <<context, blob, faults>>
    BY DEF ClaimTransfer
  <2> QED BY <2>1, <2>2, <2>3, <2>4
<1>2. /\ r.state \in {"reserved", "uploading"} /\ f \notin Stuck /\ p \in Parts(f)
      /\ p = "content" => r.state = "reserved"
      /\ p = "thumbnail" => r.seen["content"] # "null"
  BY <1>1 DEF Claimable, Valid, MayWrite, OInv, PartNames
<1> PICK s \in Rows : s = row'[f]
  <2>1. row'[f] = [r EXCEPT !.token = n, !.leased = TRUE,
                     !.key = IF recorded THEN @ ELSE [@ EXCEPT ![p] = n]]
    BY <1>1 DEF IInv, TypeOK
  <2>2. r.key \in [PartNames -> 0..MaxTransfers]
    BY DEF Rows, PartNames
  <2>3. (IF recorded THEN r.key ELSE [r.key EXCEPT ![p] = n])
          \in [PartNames -> 0..MaxTransfers]
    BY <1>1, <2>2
  <2>4. n \in 0..MaxTransfers
    BY <1>1
  <2> QED BY <2>1, <2>3, <2>4 DEF Rows, PartNames
<1>3. /\ \A g \in Files : g # f => row'[g] = row[g]
      /\ s.state = r.state /\ s.token = n /\ s.seen = r.seen
      /\ \A q \in PartNames : s.key[q] = IF q = p /\ ~recorded THEN n ELSE r.key[q]
  <2>1. /\ \A g \in Files : g # f => row'[g] = row[g]
        /\ s = [r EXCEPT !.token = n, !.leased = TRUE,
                  !.key = IF recorded THEN @ ELSE [@ EXCEPT ![p] = n]]
    BY <1>1 DEF IInv, TypeOK
  <2>2. /\ s.state = r.state /\ s.token = n /\ s.seen = r.seen
        /\ s.key = IF recorded THEN r.key ELSE [r.key EXCEPT ![p] = n]
    BY <2>1 DEF Rows
  <2>3. r.key \in [PartNames -> 0..MaxTransfers]
    BY DEF Rows, PartNames
  <2> QED BY <2>1, <2>2, <2>3
<1> PICK m : m = [step |-> "putting", file |-> f, part |-> p, token |-> n,
                  key |-> n, recorded |-> recorded, result |-> "none", todo |-> retired]
  OBVIOUS
<1>4. /\ m.step = "putting" /\ m.file = f /\ m.part = p /\ m.key = n
      /\ m.recorded = recorded /\ m.todo = retired /\ Busy(m) /\ Own(m) = <<f, p, n>>
  BY DEF Busy, Own
<1>5. handler'[h] = m /\ \A g \in Handlers : g # h => handler'[g] = handler[g]
  BY <1>1 DEF IInv, TypeOK
<1>6. \A k \in Keys : k[3] > n => blob'[k] = "none"
  BY <1>1 DEF OInv, IInv, TypeOK, Keys
<1>7. \A g \in Stuck : context'[g] = "closed" /\ row'[g].state = "aborted"
  BY <1>1, <1>2, <1>3, AttachmentsAssumption DEF OInv
<1>8. ThumbnailLast(s)
  <2>1. ThumbnailLast(r) /\ RowOK(f, r)
    BY DEF OInv, IInv
  <2>2. CASE p = "content"
    <3>1. r.seen["content"] = "null" /\ r.seen["thumbnail"] = "null"
      BY <1>2, <2>1, <2>2 DEF RowOK, PartNames
    <3>2. r.key["thumbnail"] = 0
      BY <2>1, <3>1 DEF ThumbnailLast
    <3>3. s.key["thumbnail"] = 0 /\ s.seen["thumbnail"] = "null"
      BY <1>3, <2>2, <3>1, <3>2 DEF PartNames
    <3> QED BY <3>3 DEF ThumbnailLast
  <2>3. CASE p = "thumbnail"
    BY <1>2, <1>3, <2>3 DEF ThumbnailLast
  <2> QED BY <2>2, <2>3 DEF PartNames
<1>9. HoldsOK(m)'
  <2>1. Own(m) \in Keys /\ blob[Own(m)] = "none"
    <3>1. Own(m) \in Keys
      BY <1>1, <1>4 DEF Keys, PartNames
    <3> QED BY <1>1, <1>4, <3>1 DEF OInv, IInv, TypeOK
  <2>2. OneAtMost(retired) /\ \A k \in retired : k[1] \notin Stuck
    BY <1>2 DEF OneAtMost
  <2>3. recorded => p = "thumbnail" /\ s.seen["thumbnail"] # "null"
    BY <1>3
  <2> QED BY <1>1, <1>2, <1>4, <2>1, <2>2, <2>3 DEF HoldsOK
<1>10. ASSUME NEW k \in Keys, k[1] # f
       PROVE  /\ Threat(k)' => Threat(k)
              /\ Named(k)' = Named(k)
  <2> PICK g \in Files : g = k[1]
    BY DEF Keys
  <2>1. StorageKeys(g)' = StorageKeys(g)
    BY <1>3, <1>10 DEF StorageKeys
  <2>2. Named(k)' = Named(k)
    BY <1>3, <1>10, <2>1 DEF Named
  <2>3. Putting(k)' => Putting(k)
    BY <1>4, <1>5, <1>10 DEF Putting
  <2> QED BY <1>1, <2>2, <2>3 DEF Threat
<1>11. ASSUME NEW g \in Handlers \ {h}
       PROVE  HoldsOK(handler[g])'
  <2> PICK t \in Requests : t = handler[g]
    BY DEF IInv, TypeOK
  <2>1. HandlerOK(t) /\ HoldsOK(t)
    BY DEF IInv, OInv
  <2>2. ASSUME Busy(t), t.recorded, row'[t.file].token = t.key
        PROVE  t.part = "thumbnail" /\ row'[t.file].seen["thumbnail"] # "null"
    <3>1. t.file \in Files /\ t.key \in 1..transfers /\ transfers \in Nat
      BY <2>1, <2>2, OwnTyped
    <3>2. t.file # f
      BY <1>3, <2>2, <3>1
    <3> QED BY <1>3, <2>1, <2>2, <3>1, <3>2 DEF HoldsOK
  <2>3. ASSUME \A k \in t.todo : row[k[1]].state \in {"aborted", "gone"},
               \A k, l \in t.todo : Threat(k) /\ Threat(l) => k = l
        PROVE  /\ \A k \in t.todo : row'[k[1]].state \in {"aborted", "gone"}
               /\ \A k, l \in t.todo : Threat(k)' /\ Threat(l)' => k = l
    <3>1. \A k \in t.todo : k \in Keys /\ k[1] \in Files /\ k[1] # f
      BY <1>2, <2>3 DEF Requests, Keys
    <3> QED BY <1>3, <1>10, <2>3, <3>1
  <2>4. HoldsOK(t)'
    BY <1>1, <2>1, <2>2, <2>3 DEF HoldsOK
  <2> QED BY <1>5, <2>4
<1>12. OInv'
  BY <1>1, <1>3, <1>5, <1>6, <1>7, <1>8, <1>9, <1>11 DEF OInv
<1>13. Orphans' \subseteq Orphans
  <2> SUFFICES ASSUME NEW k \in Keys, k \in Orphans'
               PROVE  k \in Orphans
    <3>1. Keys' = Keys
      BY DEF Keys
    <3> QED BY DEF Orphans
  <2>1. /\ blob[k] # "none" /\ ~Named(k)'
        /\ \A g \in Handlers : k \notin HeldBy(g)'
    BY <1>1 DEF Orphans, Named
  <2>2. k \notin retired
    BY <1>4, <1>5, <2>1 DEF HeldBy
  <2>3. ~Named(k)
    <3>1. CASE k[1] # f
      BY <1>10, <2>1, <3>1
    <3>2. CASE k[1] = f
      <4> SUFFICES ASSUME k \in StorageKeys(f)
                   PROVE  FALSE
        BY <3>2 DEF Named
      <4>1. PICK q \in Parts(f) : k = <<f, q, r.key[q]>>
        BY DEF StorageKeys
      <4>2. q \in PartNames
        BY PartsNamed
      <4>3. s.key[q] = r.key[q]
        BY <1>3, <2>2, <4>1, <4>2
      <4>4. k \in StorageKeys(f)'
        BY <4>1, <4>3 DEF StorageKeys
      <4> QED BY <1>2, <1>3, <2>1, <3>2, <4>4 DEF Named
    <3> QED BY <3>1, <3>2
  <2>4. ASSUME NEW g \in Handlers
        PROVE  k \notin HeldBy(g)
    <3>1. CASE g = h
      BY <1>1, <3>1, IdleHolds, HeldIsHolds
    <3>2. CASE g # h
      BY <1>5, <2>1, <3>2 DEF HeldBy, KeyOf
    <3> QED BY <3>1, <3>2
  <2> QED BY <2>1, <2>3, <2>4 DEF Orphans, Named
<1> QED BY <1>1, <1>12, <1>13 DEF Counted

-----------------------------------------------------------------------------
(* The theorem                                                              *)

LEMMA InitOrphans == Init => OInv /\ Orphans = {} /\ faults = 0
<1> SUFFICES ASSUME Init PROVE OInv /\ Orphans = {} /\ faults = 0
  OBVIOUS
<1>1. /\ transfers = 0 /\ faults = 0
      /\ \A h \in Handlers : handler[h] = Idle
      /\ \A f \in Stuck : f \in Files /\ context[f] = "closed"
  BY AttachmentsAssumption DEF Init
<1>2. ASSUME NEW f \in Files
      PROVE  /\ row[f].state = IF f \in Stuck THEN "aborted" ELSE "none"
             /\ \A p \in PartNames : row[f].key[p] = 0 /\ row[f].seen[p] = "null"
  <2>1. CASE f \in Stuck
    <3> DEFINE r == [Row("aborted") EXCEPT !.expired = TRUE]
    <3>1. /\ r.state = "aborted"
          /\ \A p \in PartNames : r.key[p] = 0 /\ r.seen[p] = "null"
      BY DEF Row, PartNames
    <3>2. row[f] = r
      BY <2>1 DEF Init
    <3> HIDE DEF r
    <3> QED BY <2>1, <3>1, <3>2
  <2>2. CASE f \notin Stuck
    BY <2>2 DEF Init, NoRow, Row, PartNames
  <2> QED BY <2>1, <2>2
<1>3. ASSUME NEW k \in Keys, blob[k] # "none"
      PROVE  k[1] \in Stuck /\ k[2] = "content" /\ k[3] = 0
  BY <1>3 DEF Init
<1>4. \A k \in Keys : k[3] > transfers => blob[k] = "none"
  BY <1>1, <1>3
<1>5. \A f \in Files : ThumbnailLast(row[f])
  BY <1>2 DEF ThumbnailLast, PartNames
<1>6. HoldsOK(Idle)
  BY DEF HoldsOK, Busy, OneAtMost, Idle, Request
<1>7. OInv
  BY <1>1, <1>2, <1>4, <1>5, <1>6 DEF OInv
<1>8. ASSUME NEW k \in Keys, blob[k] # "none"
      PROVE  Named(k)
  <2> PICK f \in Files : f = k[1]
    BY DEF Keys
  <2>1. f \in Stuck /\ k = <<f, "content", 0>>
    BY <1>3, <1>8 DEF Keys
  <2>2. row[f].state = "aborted" /\ row[f].key["content"] = 0
    BY <1>2, <2>1 DEF PartNames
  <2>3. <<f, "content", row[f].key["content"]>> \in StorageKeys(f)
    BY DEF StorageKeys, Parts
  <2> QED BY <2>1, <2>2, <2>3 DEF Named
<1>9. Orphans = {}
  BY <1>8 DEF Orphans, Named
<1> QED BY <1>1, <1>7, <1>9

LEMMA NextOrphans ==
  ASSUME IInv, OInv, [Next]_vars
  PROVE  OInv' /\ Counted
<1>1. ASSUME NEW f \in Files,
             \/ Reserve(f) \/ Finalize(f) \/ DeleteFile(f)
             \/ RetireParent(f) \/ DeleteParent(f) \/ LoseAccess(f) \/ DeleteAccount(f)
             \/ Expire(f) \/ LeaseEnds(f) \/ RetentionEnds(f) \/ RetryComes(f)
      PROVE  OInv' /\ Counted
  BY <1>1, FileStep
<1>2. ASSUME NEW h \in Handlers, NEW f \in Files,
             \/ FinalizeInvalid(h, f) \/ AbortUpload(h, f)
             \/ \E p \in {"content", "thumbnail"} : ClaimTransfer(h, f, p) \/ ClaimInvalid(h, f, p)
      PROVE  OInv' /\ Counted
  <2>1. CASE \E p \in PartNames : ClaimTransfer(h, f, p)
    BY <2>1, ClaimTransferStep
  <2>2. CASE \/ FinalizeInvalid(h, f) \/ AbortUpload(h, f)
             \/ \E p \in PartNames : ClaimInvalid(h, f, p)
    BY <2>2, GiveUpStep
  <2> QED BY <1>2, <2>1, <2>2 DEF PartNames
<1>3. ASSUME NEW h \in Handlers,
             \/ Put(h) \/ RecordTransfer(h) \/ RecordFails(h) \/ ReleaseClaim(h)
             \/ CleanUp(h) \/ Crash(h)
      PROVE  OInv' /\ Counted
  BY <1>3, PutStep, RecordTransferStep, RecordFailsStep, ReleaseClaimStep, CleanUpStep, CrashStep
<1>4. CASE \/ LoadCandidates \/ SweepSkips \/ SweepDeletes \/ SweepFails \/ SweepCrashes
           \/ UNCHANGED vars
  BY <1>4, SweepStep, SweepDeletesStep
<1> DEFINE ByFile ==
             \E f \in Files :
               \/ Reserve(f) \/ Finalize(f) \/ DeleteFile(f)
               \/ RetireParent(f) \/ DeleteParent(f) \/ LoseAccess(f) \/ DeleteAccount(f)
               \/ Expire(f) \/ LeaseEnds(f) \/ RetentionEnds(f) \/ RetryComes(f)
           ByRequestOfFile ==
             \E h \in Handlers, f \in Files :
               \/ FinalizeInvalid(h, f) \/ AbortUpload(h, f)
               \/ \E p \in {"content", "thumbnail"} :
                    ClaimTransfer(h, f, p) \/ ClaimInvalid(h, f, p)
           ByRequest ==
             \E h \in Handlers :
               \/ Put(h) \/ RecordTransfer(h) \/ RecordFails(h) \/ ReleaseClaim(h)
               \/ CleanUp(h) \/ Crash(h)
           BySweep == LoadCandidates \/ SweepSkips \/ SweepDeletes \/ SweepFails \/ SweepCrashes
<1>5. ByFile => OInv' /\ Counted
  BY <1>1
<1>6. ByRequestOfFile => OInv' /\ Counted
  BY <1>2
<1>7. ByRequest => OInv' /\ Counted
  BY <1>3
<1>8. BySweep \/ UNCHANGED vars => OInv' /\ Counted
  BY <1>4
<1>9. ByFile \/ ByRequestOfFile \/ ByRequest \/ BySweep \/ UNCHANGED vars
  BY DEF Next
<1> HIDE DEF ByFile, ByRequestOfFile, ByRequest, BySweep
<1> QED BY <1>5, <1>6, <1>7, <1>8, <1>9

NoMoreThanFaults ==
  faults \in Nat /\ IsFiniteSet(Orphans) /\ Cardinality(Orphans) <= faults

LEMMA StillCounted ==
  ASSUME NoMoreThanFaults, Counted
  PROVE  NoMoreThanFaults'
<1> PICK old : old = Orphans
  OBVIOUS
<1> PICK new : new = Orphans'
  OBVIOUS
<1>1. /\ faults \in Nat /\ IsFiniteSet(old) /\ Cardinality(old) <= faults
      /\ Cardinality(old) \in Nat
  BY FS_CardinalityType DEF NoMoreThanFaults
<1>2. CASE faults' = faults /\ new \subseteq old
  <2>1. IsFiniteSet(new) /\ Cardinality(new) <= Cardinality(old) /\ Cardinality(new) \in Nat
    BY <1>1, <1>2, FS_Subset, FS_CardinalityType
  <2> QED BY <1>1, <1>2, <2>1 DEF NoMoreThanFaults
<1>3. ASSUME faults' = faults + 1, NEW k, new \subseteq old \cup {k}
      PROVE  NoMoreThanFaults'
  <2> PICK more : more = old \cup {k}
    OBVIOUS
  <2>1. /\ IsFiniteSet(more) /\ Cardinality(more) \in Nat
        /\ Cardinality(more) <= Cardinality(old) + 1
    BY <1>1, FS_AddElement, FS_CardinalityType
  <2>2. IsFiniteSet(new) /\ Cardinality(new) <= Cardinality(more) /\ Cardinality(new) \in Nat
    BY <1>3, <2>1, FS_Subset, FS_CardinalityType
  <2> QED BY <1>1, <1>3, <2>1, <2>2 DEF NoMoreThanFaults
<1> QED BY <1>2, <1>3 DEF Counted

(* An object that no row names and that no request is going to delete is    *)
(* left behind by a fault, and no fault leaves more than one, although a    *)
(* request may hold the keys of two parts and that of its own transfer when *)
(* its process dies or the store fails it.                                  *)
THEOREM OrphansAreCounted == Spec => []OrphansNeedAFault
<1>1. Init => OInv /\ NoMoreThanFaults
  BY InitOrphans, FS_EmptySet DEF NoMoreThanFaults
<1>2. IInv /\ OInv /\ NoMoreThanFaults /\ [Next]_vars => OInv' /\ NoMoreThanFaults'
  BY NextOrphans, StillCounted
<1>3. NoMoreThanFaults => OrphansNeedAFault
  BY DEF NoMoreThanFaults, OrphansNeedAFault
<1> QED BY <1>1, <1>2, <1>3, Inductive, PTL DEF Spec
=============================================================================
