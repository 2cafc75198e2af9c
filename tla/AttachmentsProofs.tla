------------------------- MODULE AttachmentsProofs --------------------------
(***************************************************************************)
(* What can be downloaded is there: theorems about the attachments, for    *)
(* any files, requests, faults and number of transfers.                    *)
(*                                                                         *)
(* Every claim draws a key of its own, so an object is put under a key     *)
(* once.  The invariant says of every key that a request is going to       *)
(* delete that it is dead, and that a dead key stays dead; and of every    *)
(* transfer in progress what the row it claimed may look like by now.      *)
(***************************************************************************)
EXTENDS Attachments, TLAPS

PartNames == {"content", "thumbnail"}
Busy(t) == t.step \in {"putting", "stored", "unsure"}
Own(t) == <<t.file, t.part, t.key>>

Kept(r) == r.state = "committed" \/ (r.state = "deleting" /\ r.retained)
Live(r) == Kept(r) \/ (r.state = "uploading" /\ ~r.expired)

(* No row names the key, or will ever be read through it.                   *)
Dead(k) ==
  LET r == row[k[1]]
  IN  \/ r.state \in {"aborted", "gone"}
      \/ r.key[k[2]] # k[3]
      \/ r.seen[k[2]] = "null" /\ k[3] \notin {0, r.token}

RowOK(f, r) ==
  /\ r.token <= transfers
  /\ \A p \in PartNames : r.key[p] <= transfers
  /\ r.state = "none" => r.token = 0 /\ \A p \in PartNames : r.key[p] = 0
  /\ r.state = "committed" => r.token = 0
  /\ r.state \in {"none", "reserved"} => \A p \in PartNames : r.seen[p] = "null"
  /\ Live(r) => \A p \in PartNames :
       r.seen[p] # "null" => blob[<<f, p, r.key[p]>>] = r.seen[p]
  /\ Kept(r) => \A p \in Parts(f) : r.seen[p] = "declared"

(* The row that a transfer in progress has claimed.                         *)
ClaimOK(t, r) ==
  /\ t.recorded => r.key[t.part] # t.key
  /\ t.step \in {"putting", "stored"} /\ r.key[t.part] = t.key => r.seen[t.part] = "null"
  /\ r.token = t.key =>
       /\ t.recorded \/ (r.key[t.part] = t.key /\ r.seen[t.part] = "null")
       /\ r.state \in {"aborted", IF t.part = "content" THEN "reserved" ELSE "uploading"}
  /\ t.step = "stored" /\ ~t.recorded /\ t.result \in Lengths /\ r.token = t.key
       /\ r.state # "aborted" /\ ~r.expired =>
       blob[Own(t)] = t.result

HandlerOK(t) ==
  /\ \A k \in t.todo : k[3] <= transfers /\ Dead(k)
  /\ Busy(t) => /\ t.file \in Files /\ t.part \in Parts(t.file)
                /\ t.key \in 1..transfers /\ t.token = t.key
                /\ ClaimOK(t, row[t.file])

Distinct ==
  \A g, h \in Handlers : g # h /\ Busy(handler[g]) /\ Busy(handler[h]) =>
    handler[g].key # handler[h].key

IInv ==
  /\ TypeOK
  /\ \A f \in Files : RowOK(f, row[f])
  /\ \A h \in Handlers : HandlerOK(handler[h])
  /\ Distinct

-----------------------------------------------------------------------------
(* Facts about the data *)

LEMMA RowTyped ==
  ASSUME TypeOK, NEW f \in Files
  PROVE  /\ row[f] \in Rows
         /\ row[f].token \in 0..MaxTransfers
         /\ \A p \in PartNames : row[f].key[p] \in 0..MaxTransfers
BY DEF TypeOK, Rows, PartNames

LEMMA PartsNamed == \A f : Parts(f) \subseteq PartNames
BY DEF Parts, PartNames

LEMMA KeysTyped ==
  ASSUME TypeOK, NEW f \in Files
  PROVE  /\ StorageKeys(f) \in SUBSET Keys
         /\ \A k \in StorageKeys(f) : k[1] = f /\ k[3] \in 0..MaxTransfers
         /\ \A k \in StorageKeys(f) : k[2] \in PartNames /\ k[3] = row[f].key[k[2]]
BY RowTyped, PartsNamed DEF StorageKeys, Keys, PartNames

-----------------------------------------------------------------------------
(* Steps that neither change what a row names nor put an object             *)

(* What most transactions do to a row at most.                              *)
RowMoves(f, s, r) ==
  /\ r.key = s.key /\ r.seen = s.seen
  /\ r.token \in {s.token, 0}
  /\ Live(r) => Live(s)
  /\ Kept(r) => Kept(s) \/ \A p \in Parts(f) : s.seen[p] = "declared"
  /\ r.state = "none" => s.state = "none"
  /\ r.state = "reserved" => s.state \in {"none", "reserved"}
  /\ s.state \in {"aborted", "gone"} => r.state \in {"aborted", "gone"}
  /\ r.token # 0 => r.state \in {s.state, "aborted"}
  /\ r.token # 0 /\ r.state # "aborted" /\ ~r.expired => ~s.expired

LEMMA NotLive ==
  ASSUME NEW f \in Files, NEW p \in PartNames,
         Live(row[f]), row[f].seen[p] # "null"
  PROVE  ~Dead(<<f, p, row[f].key[p]>>) /\ ~Collectable(f)
BY DEF Live, Kept, Dead, Collectable, Unfinished

LEMMA RowStep ==
  ASSUME IInv, NEW f \in Files, RowMoves(f, row[f], row'[f]) \/ row'[f] = row[f],
         row'[f] \in Rows, transfers' = transfers,
         \A p \in PartNames : row[f].seen[p] # "null" =>
           LET k == <<f, p, row[f].key[p]>>
           IN  blob'[k] = blob[k] \/ Dead(k) \/ Collectable(f)
  PROVE  RowOK(f, row[f])'
<1> DEFINE s == row[f]
           r == row'[f]
<1>1. RowOK(f, s) /\ s \in Rows
  BY RowTyped DEF IInv
<1>2. /\ r.key = s.key /\ r.seen = s.seen /\ r.token \in {s.token, 0}
      /\ Live(r) => Live(s)
      /\ Kept(r) => Kept(s) \/ \A p \in Parts(f) : s.seen[p] = "declared"
      /\ r.state = "none" => s.state = "none"
      /\ r.state = "reserved" => s.state \in {"none", "reserved"}
  BY DEF RowMoves
<1>3. ASSUME Live(r), NEW p \in PartNames, r.seen[p] # "null"
      PROVE  blob'[<<f, p, r.key[p]>>] = r.seen[p]
  <2>1. Live(s) /\ s.seen[p] # "null"
    BY <1>2, <1>3
  <2>2. blob'[<<f, p, s.key[p]>>] = blob[<<f, p, s.key[p]>>]
    BY <2>1, NotLive
  <2> QED BY <1>1, <1>2, <2>1, <2>2 DEF RowOK
<1>4. r.token <= transfers /\ \A p \in PartNames : r.key[p] <= transfers
  BY <1>1, <1>2 DEF RowOK, IInv, TypeOK
<1>5. r.state = "none" => r.token = 0 /\ \A p \in PartNames : r.key[p] = 0
  BY <1>1, <1>2 DEF RowOK
<1>6. r.state \in {"none", "reserved"} => \A p \in PartNames : r.seen[p] = "null"
  BY <1>1, <1>2 DEF RowOK
<1>7. Kept(r) => \A p \in Parts(f) : r.seen[p] = "declared"
  BY <1>1, <1>2 DEF RowOK
<1>8. r.state = "committed" => r.token = 0
  BY <1>1 DEF RowOK, RowMoves
<1> QED BY <1>3, <1>4, <1>5, <1>6, <1>7, <1>8 DEF RowOK

LEMMA DeadStep ==
  ASSUME NEW k \in Keys, Dead(k),
         RowMoves(k[1], row[k[1]], row'[k[1]]) \/ row'[k[1]] = row[k[1]]
  PROVE  Dead(k)'
BY DEF Dead, RowMoves

LEMMA ClaimStep ==
  ASSUME IInv, NEW t \in Requests, Busy(t), t.file \in Files, t.part \in Parts(t.file),
         t.key \in 1..transfers, ClaimOK(t, row[t.file]),
         LET s == row[t.file]
             r == row'[t.file]
         IN  RowMoves(t.file, s, r) \/ r = s,
         blob'[Own(t)] = blob[Own(t)] \/ Dead(Own(t)) \/ Collectable(t.file)
  PROVE  ClaimOK(t, row[t.file])'
<1> DEFINE s == row[t.file]
           r == row'[t.file]
<1>1. /\ r.key = s.key /\ r.seen = s.seen /\ r.token \in {s.token, 0}
      /\ r.token # 0 => r.state \in {s.state, "aborted"}
      /\ r.token # 0 /\ r.state # "aborted" /\ ~r.expired => ~s.expired
      /\ t.key # 0
  BY DEF RowMoves, IInv, TypeOK
<1>2. t.recorded => r.key[t.part] # t.key
  BY <1>1 DEF ClaimOK
<1>3. t.step \in {"putting", "stored"} /\ r.key[t.part] = t.key => r.seen[t.part] = "null"
  BY <1>1 DEF ClaimOK
<1>4. r.token = t.key =>
        /\ t.recorded \/ (r.key[t.part] = t.key /\ r.seen[t.part] = "null")
        /\ r.state \in {"aborted", IF t.part = "content" THEN "reserved" ELSE "uploading"}
  BY <1>1 DEF ClaimOK
<1>5. ASSUME t.step = "stored", ~t.recorded, t.result \in Lengths, r.token = t.key,
             r.state # "aborted", ~r.expired
      PROVE  blob'[Own(t)] = t.result
  <2>1. s.token = t.key /\ s.state \in {"reserved", "uploading"} /\ ~s.expired
    BY <1>1, <1>5 DEF ClaimOK
  <2>2. s.key[t.part] = t.key /\ s.seen[t.part] = "null" /\ blob[Own(t)] = t.result
    BY <1>5, <2>1 DEF ClaimOK
  <2>3. ~Dead(Own(t)) /\ ~Collectable(t.file)
    BY <2>1, <2>2 DEF Own, Dead, Collectable
  <2> QED BY <2>2, <2>3
<1> QED BY <1>2, <1>3, <1>4, <1>5 DEF ClaimOK

(* What such a step leaves true of every file and every request.            *)
Preserved ==
  /\ \A f \in Files : RowOK(f, row[f])'
  /\ \A k \in Keys : Dead(k) => Dead(k)'
  /\ \A t \in Requests : HandlerOK(t) => HandlerOK(t)'

LEMMA Step ==
  ASSUME IInv, row' \in [Files -> Rows], transfers' = transfers,
         \A f \in Files : RowMoves(f, row[f], row'[f]) \/ row'[f] = row[f],
         \A k \in Keys : blob'[k] = blob[k] \/ Dead(k) \/ Collectable(k[1])
  PROVE  Preserved
<1>1. ASSUME NEW f \in Files
      PROVE  RowOK(f, row[f])'
  <2>1. ASSUME NEW p \in PartNames
        PROVE  LET k == <<f, p, row[f].key[p]>>
               IN  blob'[k] = blob[k] \/ Dead(k) \/ Collectable(f)
    <3>1. <<f, p, row[f].key[p]>> \in Keys
      BY RowTyped DEF IInv, Keys, PartNames
    <3> QED BY <3>1
  <2> QED BY <2>1, RowStep
<1>2. ASSUME NEW k \in Keys, Dead(k)
      PROVE  Dead(k)'
  <2>1. k[1] \in Files
    BY DEF Keys
  <2> QED BY <1>2, <2>1, DeadStep
<1>3. ASSUME NEW t \in Requests, HandlerOK(t)
      PROVE  HandlerOK(t)'
  <2>1. \A k \in t.todo : k[3] <= transfers' /\ Dead(k)'
    BY <1>2, <1>3 DEF HandlerOK, Requests
  <2>2. ASSUME Busy(t)
        PROVE  /\ t.file \in Files /\ t.part \in Parts(t.file)
               /\ t.key \in 1..transfers' /\ t.token = t.key
               /\ ClaimOK(t, row[t.file])'
    <3>1. Own(t) \in Keys /\ Own(t)[1] = t.file
      BY <1>3, <2>2 DEF HandlerOK, Own, Keys, Requests, IInv, TypeOK
    <3>2. blob'[Own(t)] = blob[Own(t)] \/ Dead(Own(t)) \/ Collectable(t.file)
      BY <3>1
    <3> QED BY <1>3, <2>2, <3>2, ClaimStep DEF HandlerOK
  <2> QED BY <2>1, <2>2 DEF HandlerOK
<1> QED BY <1>1, <1>2, <1>3 DEF Preserved

(* The invariant after a step of one request, or of none.                   *)
LEMMA RequestMoves ==
  ASSUME IInv, TypeOK', Preserved,
         NEW h \in Handlers, NEW m \in Requests, handler' = [handler EXCEPT ![h] = m],
         HandlerOK(m)',
         Busy(m) => Busy(handler[h]) /\ m.key = handler[h].key
  PROVE  IInv'
<1>1. handler'[h] = m /\ \A g \in Handlers : g # h => handler'[g] = handler[g]
  BY DEF IInv, TypeOK
<1>2. ASSUME NEW g \in Handlers
      PROVE  HandlerOK(handler[g])'
  <2>1. CASE g = h
    BY <1>1, <2>1
  <2>2. CASE g # h
    <3>1. handler[g] \in Requests /\ HandlerOK(handler[g])
      BY DEF IInv, TypeOK
    <3>2. \A t \in Requests : HandlerOK(t) => HandlerOK(t)'
      BY DEF Preserved
    <3>3. handler'[g] \in Requests /\ HandlerOK(handler'[g])
      BY <1>1, <2>2, <3>1
    <3> QED BY <3>2, <3>3
  <2> QED BY <2>1, <2>2
<1>3. Distinct'
  BY <1>1 DEF IInv, Distinct
<1> QED BY <1>2, <1>3 DEF IInv, Preserved

LEMMA NoRequestMoves ==
  ASSUME IInv, TypeOK', Preserved, handler' = handler
  PROVE  IInv'
<1>1. ASSUME NEW g \in Handlers
      PROVE  HandlerOK(handler[g])'
  <2>1. handler[g] \in Requests /\ HandlerOK(handler[g])
    BY DEF IInv, TypeOK
  <2>2. \A t \in Requests : HandlerOK(t) => HandlerOK(t)'
    BY DEF Preserved
  <2>3. handler'[g] \in Requests /\ HandlerOK(handler'[g])
    BY <2>1
  <2> QED BY <2>2, <2>3
<1>2. Distinct'
  BY DEF IInv, Distinct
<1> QED BY <1>1, <1>2 DEF IInv, Preserved

(* A request that is left with dead keys.                                   *)
LEMMA CleaningUpOK ==
  ASSUME NEW keys \in SUBSET Keys, \A k \in keys : k[3] <= transfers' /\ Dead(k)'
  PROVE  /\ CleaningUp(keys) \in Requests /\ ~Busy(CleaningUp(keys))
         /\ HandlerOK(CleaningUp(keys))'
<1>1. CASE keys = {}
  BY <1>1, AttachmentsAssumption
     DEF CleaningUp, Idle, Request, Requests, Busy, HandlerOK
<1>2. CASE keys # {}
  BY <1>2, AttachmentsAssumption DEF CleaningUp, Request, Requests, Busy, HandlerOK
<1> QED BY <1>1, <1>2

(* A transaction on one row that leaves requests and store alone.           *)
LEMMA OneRowMoves ==
  ASSUME IInv, NEW f \in Files, NEW r \in Rows, RowMoves(f, row[f], r),
         row' = [row EXCEPT ![f] = r], UNCHANGED <<blob, handler, transfers, faults>>,
         context' \in [Files -> {"whole", "denied", "closed", "going", "gone"}],
         sweep' \in Seq(Files)
  PROVE  IInv'
<1>1. /\ row' \in [Files -> Rows]
      /\ \A g \in Files : RowMoves(g, row[g], row'[g]) \/ row'[g] = row[g]
  BY DEF IInv, TypeOK
<1>2. Preserved
  BY <1>1, Step
<1>3. TypeOK'
  BY <1>1 DEF IInv, TypeOK
<1> QED BY <1>2, <1>3, NoRequestMoves

LEMMA SameRow ==
  ASSUME NEW f \in Files
  PROVE  RowMoves(f, row[f], row[f])
BY DEF RowMoves

LEMMA ReserveInv ==
  ASSUME IInv, NEW f \in Files, Reserve(f)
  PROVE  IInv'
<1>1. Reserved \in Rows
  BY AttachmentsAssumption DEF Reserved, Row, Rows, Unfinished
<1>2. RowMoves(f, row[f], Reserved)
  <2>1. /\ row[f].state = "none" /\ row[f].token = 0
        /\ \A p \in PartNames : row[f].key[p] = 0 /\ row[f].seen[p] = "null"
        /\ row[f].key \in [PartNames -> 0..MaxTransfers]
        /\ row[f].seen \in [PartNames -> Lengths \cup {"null"}]
    BY RowTyped DEF IInv, RowOK, Reserve, Rows, PartNames
  <2>2. row[f].key = [p \in PartNames |-> 0] /\ row[f].seen = [p \in PartNames |-> "null"]
    BY <2>1
  <2> QED BY <2>1, <2>2 DEF RowMoves, Reserved, Row, Live, Kept, PartNames
<1> HIDE DEF Reserved
<1> QED BY <1>1, <1>2, OneRowMoves DEF Reserve, IInv, TypeOK

LEMMA FinalizeInv ==
  ASSUME IInv, NEW f \in Files, Finalize(f)
  PROVE  IInv'
<1> DEFINE r == [row[f] EXCEPT !.state = "committed", !.expired = TRUE]
<1>1. r \in Rows
  BY RowTyped DEF IInv, Rows
<1>2. RowMoves(f, row[f], r)
  BY RowTyped DEF IInv, Finalize, AllObserved, Valid, RowMoves, Live, Kept, Rows
<1>3. row' = [row EXCEPT ![f] = r]
  BY DEF Finalize
<1> HIDE DEF r
<1> QED BY <1>1, <1>2, <1>3, OneRowMoves DEF Finalize, IInv, TypeOK

LEMMA DeletingMoves ==
  ASSUME IInv, NEW f \in Files, row[f].state = "committed"
  PROVE  Deleting(row[f]) \in Rows /\ RowMoves(f, row[f], Deleting(row[f]))
<1>1. RowOK(f, row[f]) /\ row[f] \in Rows
  BY RowTyped DEF IInv
<1> QED BY <1>1 DEF Deleting, Rows, RowOK, RowMoves, Live, Kept

LEMMA DeleteFileInv ==
  ASSUME IInv, NEW f \in Files, DeleteFile(f)
  PROVE  IInv'
<1>1. Deleting(row[f]) \in Rows /\ RowMoves(f, row[f], Deleting(row[f]))
  BY DeletingMoves DEF DeleteFile
<1> QED BY <1>1, OneRowMoves DEF DeleteFile, IInv, TypeOK

LEMMA RetireParentInv ==
  ASSUME IInv, NEW f \in Files, RetireParent(f)
  PROVE  IInv'
<1> DEFINE r == IF row[f].state = "committed" THEN Deleting(row[f]) ELSE row[f]
<1>1. r \in Rows /\ RowMoves(f, row[f], r)
  BY DeletingMoves, RowTyped, SameRow DEF IInv
<1>2. row' = [row EXCEPT ![f] = r]
  BY DEF RetireParent
<1> HIDE DEF r
<1> QED BY <1>1, <1>2, OneRowMoves DEF RetireParent, IInv, TypeOK

LEMMA ContextInv ==
  ASSUME IInv, NEW f \in Files, DeleteParent(f) \/ LoseAccess(f)
  PROVE  IInv'
<1>1. row' = [row EXCEPT ![f] = row[f]] /\ row[f] \in Rows
  BY RowTyped DEF IInv, TypeOK, DeleteParent, LoseAccess
<1>2. /\ context' \in [Files -> {"whole", "denied", "closed", "going", "gone"}]
      /\ UNCHANGED <<blob, handler, sweep, transfers, faults>>
  BY DEF DeleteParent, LoseAccess, IInv, TypeOK
<1> QED BY <1>1, <1>2, SameRow, OneRowMoves DEF IInv, TypeOK

LEMMA DeleteAccountInv ==
  ASSUME IInv, NEW f \in Files, DeleteAccount(f)
  PROVE  IInv'
<1>1. row[f] \in Rows /\ RowOK(f, row[f])
  BY RowTyped DEF IInv
<1> DEFINE aborted == [row[f] EXCEPT !.state = "aborted", !.expired = TRUE]
<1>2. row[f].state \in Unfinished => aborted \in Rows /\ RowMoves(f, row[f], aborted)
  BY <1>1 DEF Rows, RowMoves, Live, Kept, Unfinished
<1>3. PICK r \in Rows : RowMoves(f, row[f], r) /\ row' = [row EXCEPT ![f] = r]
  <2>1. CASE row[f].state = "committed"
    <3>1. row' = [row EXCEPT ![f] = Deleting(row[f])]
      BY <2>1 DEF DeleteAccount, Unfinished
    <3> QED BY <2>1, <3>1, DeletingMoves
  <2>2. CASE row[f].state \in Unfinished
    <3>1. row' = [row EXCEPT ![f] = aborted]
      BY <2>2 DEF DeleteAccount, Unfinished
    <3> QED BY <1>2, <2>2, <3>1
  <2>3. CASE row[f].state \notin Unfinished \cup {"committed"}
    <3>1. row' = [row EXCEPT ![f] = row[f]]
      BY <2>3 DEF DeleteAccount, Unfinished
    <3> QED BY <1>1, <3>1, SameRow
  <2> QED BY <2>1, <2>2, <2>3
<1> QED BY <1>3, OneRowMoves DEF DeleteAccount, IInv, TypeOK

LEMMA ClockInv ==
  ASSUME IInv, NEW f \in Files,
         Expire(f) \/ LeaseEnds(f) \/ RetentionEnds(f) \/ RetryComes(f)
  PROVE  IInv'
<1>1. row[f] \in Rows
  BY RowTyped DEF IInv
<1>2. PICK r \in Rows : RowMoves(f, row[f], r) /\ row' = [row EXCEPT ![f] = r]
  <2>1. CASE Expire(f)
    <3> DEFINE r == [row[f] EXCEPT !.expired = TRUE]
    <3>1. r \in Rows /\ RowMoves(f, row[f], r)
      BY <1>1, <2>1 DEF Expire, Rows, RowMoves, Live, Kept, Unfinished
    <3>2. row' = [row EXCEPT ![f] = r]
      BY <2>1 DEF Expire
    <3> QED BY <3>1, <3>2
  <2>2. CASE LeaseEnds(f)
    <3> DEFINE r == [row[f] EXCEPT !.leased = FALSE]
    <3>1. r \in Rows /\ RowMoves(f, row[f], r)
      BY <1>1, <2>2 DEF LeaseEnds, Rows, RowMoves, Live, Kept, Unfinished
    <3>2. row' = [row EXCEPT ![f] = r]
      BY <2>2 DEF LeaseEnds
    <3> QED BY <3>1, <3>2
  <2>3. CASE RetentionEnds(f)
    <3> DEFINE r == [row[f] EXCEPT !.retained = FALSE]
    <3>1. r \in Rows /\ RowMoves(f, row[f], r)
      BY <1>1, <2>3 DEF RetentionEnds, Rows, RowMoves, Live, Kept, Unfinished
    <3>2. row' = [row EXCEPT ![f] = r]
      BY <2>3 DEF RetentionEnds
    <3> QED BY <3>1, <3>2
  <2>4. CASE RetryComes(f)
    <3> DEFINE r == [row[f] EXCEPT !.retry = "now"]
    <3>1. r \in Rows /\ RowMoves(f, row[f], r)
      BY <1>1, <2>4 DEF RetryComes, Rows, RowMoves, Live, Kept, Unfinished
    <3>2. row' = [row EXCEPT ![f] = r]
      BY <2>4 DEF RetryComes
    <3> QED BY <3>1, <3>2
  <2> QED BY <2>1, <2>2, <2>3, <2>4
<1> QED BY <1>2, OneRowMoves DEF Expire, LeaseEnds, RetentionEnds, RetryComes, IInv, TypeOK

LEMMA LoadCandidatesInv ==
  ASSUME IInv, LoadCandidates
  PROVE  IInv'
<1>1. PICK f \in Files : TRUE
  BY DEF LoadCandidates, Candidates
<1>2. row' = [row EXCEPT ![f] = row[f]] /\ row[f] \in Rows
  BY RowTyped DEF IInv, TypeOK, LoadCandidates
<1>3. sweep' \in Seq(Files)
  <2>1. PICK n \in 1..BatchSize : \E batch \in [1..n -> Candidates] : sweep' = batch
    BY DEF LoadCandidates
  <2>2. n \in Nat /\ Candidates \subseteq Files
    BY AttachmentsAssumption DEF Candidates
  <2> QED BY <2>1, <2>2
<1> QED BY <1>2, <1>3, SameRow, OneRowMoves DEF LoadCandidates, IInv, TypeOK

LEMMA SweepTyped ==
  ASSUME TypeOK, sweep # <<>>
  PROVE  Head(sweep) \in Files /\ Tail(sweep) \in Seq(Files)
BY DEF TypeOK

LEMMA SweepSkipsInv ==
  ASSUME IInv, SweepSkips
  PROVE  IInv'
<1> DEFINE f == Head(sweep)
           r == IF Parentless(f) THEN Deleting(row[f]) ELSE row[f]
<1>1. f \in Files /\ sweep' \in Seq(Files)
  BY SweepTyped DEF SweepSkips, IInv
<1>2. r \in Rows /\ RowMoves(f, row[f], r)
  BY <1>1, DeletingMoves, RowTyped, SameRow DEF IInv, Parentless
<1>3. row' = [row EXCEPT ![f] = r]
  BY DEF SweepSkips
<1>4. UNCHANGED <<blob, handler, transfers, faults, context>>
  BY DEF SweepSkips
<1> HIDE DEF r, f
<1> QED BY <1>1, <1>2, <1>3, <1>4, OneRowMoves DEF IInv, TypeOK

-----------------------------------------------------------------------------
(* Requests that give a reservation up                                      *)

LEMMA AbortedMoves ==
  ASSUME IInv, NEW f \in Files, row[f].state \in Unfinished
  PROVE  /\ Aborted(row[f]) \in Rows
         /\ RowMoves(f, row[f], Aborted(row[f]))
         /\ Aborted(row[f]).state = "aborted"
<1>1. row[f] \in Rows
  BY RowTyped DEF IInv
<1>2. CASE row[f].state = "aborted"
  BY <1>1, <1>2, SameRow DEF Aborted
<1>3. CASE row[f].state # "aborted"
  <2> DEFINE r == [row[f] EXCEPT !.state = "aborted", !.token = 0, !.leased = FALSE]
  <2>1. 0 \in 0..MaxTransfers
    BY AttachmentsAssumption
  <2>2. r \in Rows /\ r.state = "aborted" /\ RowMoves(f, row[f], r)
    BY <1>1, <2>1 DEF Rows, RowMoves, Live, Kept, Unfinished
  <2>3. Aborted(row[f]) = r
    BY <1>3 DEF Aborted
  <2> QED BY <2>2, <2>3
<1> QED BY <1>2, <1>3

LEMMA AbortInv ==
  ASSUME IInv, NEW h \in Handlers, NEW f \in Files, row[f].state \in Unfinished,
         row' = [row EXCEPT ![f] = Aborted(@)],
         handler' = [handler EXCEPT ![h] = CleaningUp(StorageKeys(f))],
         UNCHANGED <<context, blob, sweep, retryQueue, transfers, faults>>
  PROVE  IInv'
<1> PICK keys \in SUBSET Keys : keys = StorageKeys(f)
  BY KeysTyped DEF IInv
<1>1. /\ row' \in [Files -> Rows]
      /\ row'[f].state = "aborted"
      /\ \A g \in Files : RowMoves(g, row[g], row'[g]) \/ row'[g] = row[g]
  BY AbortedMoves DEF IInv, TypeOK
<1>2. Preserved
  BY <1>1, Step
<1>3. /\ keys \in SUBSET Keys
      /\ \A k \in keys : k[3] <= transfers' /\ Dead(k)'
  <2>1. ASSUME NEW k \in keys
        PROVE  k[3] <= transfers'
    BY KeysTyped DEF IInv, RowOK
  <2>2. ASSUME NEW k \in keys
        PROVE  Dead(k)'
    BY <1>1, KeysTyped DEF IInv, Dead
  <2> QED BY <2>1, <2>2, KeysTyped DEF IInv
<1>4. /\ CleaningUp(keys) \in Requests /\ ~Busy(CleaningUp(keys))
      /\ HandlerOK(CleaningUp(keys))'
  BY <1>3, CleaningUpOK
<1>5. handler' = [handler EXCEPT ![h] = CleaningUp(keys)]
  OBVIOUS
<1>6. TypeOK'
  BY <1>1, <1>4, <1>5 DEF IInv, TypeOK
<1> QED BY <1>2, <1>4, <1>5, <1>6, RequestMoves

LEMMA GiveUpInv ==
  ASSUME IInv, NEW h \in Handlers, NEW f \in Files,
         \/ FinalizeInvalid(h, f) \/ AbortUpload(h, f)
         \/ \E p \in PartNames : ClaimInvalid(h, f, p)
  PROVE  IInv'
<1>1. row[f].state \in Unfinished
  BY DEF FinalizeInvalid, AbortUpload, ClaimInvalid, Claimable, Unfinished
<1> QED BY <1>1, AbortInv DEF FinalizeInvalid, AbortUpload, ClaimInvalid

-----------------------------------------------------------------------------
(* The end of a request, and the sweep                                      *)

LEMMA DeletesExpendable ==
  ASSUME TypeOK, NEW keys, NEW deleted \in SUBSET Deletable(keys),
         \A k \in keys : Dead(k) \/ Collectable(k[1]),
         blob' = Without(deleted)
  PROVE  /\ blob' \in [Keys -> Lengths \cup {"none"}]
         /\ \A k \in Keys : blob'[k] = blob[k] \/ Dead(k) \/ Collectable(k[1])
BY DEF TypeOK, Without, Deletable

LEMMA FaultTyped ==
  ASSUME TypeOK, Fault \/ faults' = faults
  PROVE  faults' \in 0..MaxFaults
BY AttachmentsAssumption DEF TypeOK, Fault

LEMMA RowsStay ==
  ASSUME IInv, row' = row, transfers' = transfers,
         \A k \in Keys : blob'[k] = blob[k] \/ Dead(k) \/ Collectable(k[1])
  PROVE  Preserved
BY Step DEF IInv, TypeOK

LEMMA IdleOK ==
  /\ Idle \in Requests /\ ~Busy(Idle)
  /\ HandlerOK(Idle)'
BY AttachmentsAssumption DEF Idle, Request, Requests, Busy, HandlerOK

LEMMA CleanUpInv ==
  ASSUME IInv, NEW h \in Handlers, CleanUp(h)
  PROVE  IInv'
<1>1. PICK deleted : Deletes(handler[h].todo, deleted) /\ blob' = Without(deleted)
  BY DEF CleanUp
<1>2. /\ blob' \in [Keys -> Lengths \cup {"none"}]
      /\ \A k \in Keys : blob'[k] = blob[k] \/ Dead(k) \/ Collectable(k[1])
  BY <1>1, DeletesExpendable DEF IInv, HandlerOK, Deletes
<1>3. Preserved
  BY <1>2, RowsStay DEF CleanUp
<1>4. TypeOK'
  BY <1>1, <1>2, FaultTyped, IdleOK DEF CleanUp, Deletes, IInv, TypeOK
<1> QED BY <1>3, <1>4, IdleOK, RequestMoves DEF CleanUp

LEMMA CrashInv ==
  ASSUME IInv, NEW h \in Handlers, Crash(h)
  PROVE  IInv'
<1>1. Preserved
  BY RowsStay DEF Crash
<1>2. TypeOK'
  BY FaultTyped, IdleOK DEF Crash, IInv, TypeOK
<1> QED BY <1>1, <1>2, IdleOK, RequestMoves DEF Crash

LEMMA UnsureOK ==
  ASSUME TypeOK, NEW t \in Requests, t.step = "stored", HandlerOK(t)
  PROVE  /\ [t EXCEPT !.step = "unsure"] \in Requests
         /\ HandlerOK([t EXCEPT !.step = "unsure"])
BY DEF Requests, HandlerOK, Busy, ClaimOK

LEMMA RecordFailsInv ==
  ASSUME IInv, NEW h \in Handlers, RecordFails(h)
  PROVE  IInv'
<1>1. PICK m : m = [handler[h] EXCEPT !.step = "unsure"]
  OBVIOUS
<1>2. /\ handler[h] \in Requests /\ handler[h].step = "stored" /\ HandlerOK(handler[h])
      /\ handler' = [handler EXCEPT ![h] = m]
  BY <1>1 DEF IInv, TypeOK, RecordFails
<1>3. m \in Requests /\ HandlerOK(m)
  BY <1>1, <1>2, UnsureOK DEF IInv
<1>4. m.key = handler[h].key /\ Busy(handler[h])
  BY <1>1, <1>2 DEF Requests, Busy
<1>5. Preserved
  BY RowsStay DEF RecordFails
<1>6. HandlerOK(m)'
  BY <1>3, <1>5 DEF Preserved
<1>7. TypeOK'
  BY <1>2, <1>3, FaultTyped DEF RecordFails, IInv, TypeOK
<1> QED BY <1>2, <1>3, <1>4, <1>5, <1>6, <1>7, RequestMoves

(* What is collected is not live, whether or not its deletion succeeds.     *)
LEMMA SweptExpendable ==
  ASSUME TypeOK, NEW f \in Files, Collectable(f)
  PROVE  \A k \in StorageKeys(f) : Dead(k) \/ Collectable(k[1])
BY KeysTyped

LEMMA SweepFailsInv ==
  ASSUME IInv, SweepFails
  PROVE  IInv'
<1> PICK f \in Files : f = Head(sweep)
  BY SweepTyped DEF SweepFails, IInv
<1>1. Collectable(f) /\ sweep' \in Seq(Files) /\ faults' \in 0..MaxFaults
  BY SweepTyped, FaultTyped DEF SweepFails, IInv, StillCollectable
<1>2. PICK deleted \in SUBSET Deletable(StorageKeys(f)) : blob' = Without(deleted)
  BY DEF SweepFails
<1>3. /\ blob' \in [Keys -> Lengths \cup {"none"}]
      /\ \A k \in Keys : blob'[k] = blob[k] \/ Dead(k) \/ Collectable(k[1])
  BY <1>1, <1>2, DeletesExpendable, SweptExpendable DEF IInv
<1>4. row' = [row EXCEPT ![f].retry = "later"]
  BY DEF SweepFails, InFiveMinutes
<1>5. /\ row' \in [Files -> Rows]
      /\ \A g \in Files : RowMoves(g, row[g], row'[g]) \/ row'[g] = row[g]
  <2> DEFINE r == [row[f] EXCEPT !.retry = "later"]
  <2>1. r \in Rows /\ RowMoves(f, row[f], r)
    BY RowTyped DEF IInv, Rows, RowMoves, Live, Kept
  <2>2. row' = [row EXCEPT ![f] = r]
    BY <1>4
  <2> HIDE DEF r
  <2> QED BY <2>1, <2>2 DEF IInv, TypeOK
<1>6. Preserved
  BY <1>3, <1>5, Step DEF SweepFails
<1>7. TypeOK'
  BY <1>1, <1>3, <1>5 DEF SweepFails, IInv, TypeOK
<1> QED BY <1>6, <1>7, NoRequestMoves DEF SweepFails

LEMMA SweepCrashesInv ==
  ASSUME IInv, SweepCrashes
  PROVE  IInv'
<1> PICK f \in Files : f = Head(sweep)
  BY SweepTyped DEF SweepCrashes, IInv
<1>1. /\ blob' \in [Keys -> Lengths \cup {"none"}]
      /\ \A k \in Keys : blob'[k] = blob[k] \/ Dead(k) \/ Collectable(k[1])
  <2>1. CASE Collectable(f)
    <3>1. PICK deleted \in SUBSET Deletable(StorageKeys(f)) : blob' = Without(deleted)
      BY <2>1 DEF SweepCrashes, StillCollectable
    <3> QED BY <2>1, <3>1, DeletesExpendable, SweptExpendable DEF IInv
  <2>2. CASE ~Collectable(f)
    <3>1. blob' = Without({})
      BY <2>2 DEF SweepCrashes, StillCollectable
    <3> QED BY <3>1 DEF Without, IInv, TypeOK
  <2> QED BY <2>1, <2>2
<1>2. Preserved
  BY <1>1, RowsStay DEF SweepCrashes
<1>3. sweep' \in Seq(Files) /\ faults' \in 0..MaxFaults
  BY FaultTyped DEF SweepCrashes, IInv
<1>4. TypeOK'
  BY <1>1, <1>3 DEF SweepCrashes, IInv, TypeOK
<1> QED BY <1>2, <1>4, NoRequestMoves DEF SweepCrashes

-----------------------------------------------------------------------------
(* The steps of a transfer                                                  *)

(* Its key is dead once the row has no token of it.                         *)
LEMMA OwnKeyDead ==
  ASSUME IInv, NEW t \in Requests, Busy(t), HandlerOK(t), transfers' = transfers,
         LET s == row[t.file]
             r == row'[t.file]
         IN  \/ r.state = "aborted"
             \/ r.key = s.key /\ r.seen = s.seen /\ r.token # t.key
                /\ (t.step = "stored" \/ s.token = t.key \/ s.seen[t.part] = "null")
  PROVE  Own(t) \in Keys /\ t.key <= transfers' /\ Dead(Own(t))'
<1>1. /\ t.file \in Files /\ t.key \in 1..transfers /\ ClaimOK(t, row[t.file])
      /\ t.key # 0
  BY DEF HandlerOK, IInv, TypeOK
<1>2. Own(t) \in Keys
  BY <1>1 DEF Own, Keys, Requests
<1>3. Own(t)[1] = t.file /\ Own(t)[2] = t.part /\ Own(t)[3] = t.key
      /\ t.key <= transfers'
  BY <1>1 DEF Own, IInv, TypeOK
<1>4. CASE row'[t.file].state = "aborted"
  BY <1>2, <1>3, <1>4 DEF Dead
<1>5. CASE /\ row'[t.file].key = row[t.file].key /\ row'[t.file].seen = row[t.file].seen
           /\ row'[t.file].token # t.key
           /\ \/ t.step = "stored" \/ row[t.file].token = t.key
              \/ row[t.file].seen[t.part] = "null"
  <2>1. row[t.file].key[t.part] # t.key \/ row[t.file].seen[t.part] = "null"
    BY <1>1, <1>5 DEF ClaimOK
  <2> QED BY <1>1, <1>2, <1>3, <1>5, <2>1 DEF Dead
<1> QED BY <1>4, <1>5

LEMMA ReleasedMoves ==
  ASSUME IInv, NEW f \in Files
  PROVE  /\ Released(row[f]) \in Rows /\ RowMoves(f, row[f], Released(row[f]))
         /\ Released(row[f]).token = 0
         /\ Released(row[f]).key = row[f].key /\ Released(row[f]).seen = row[f].seen
<1>1. row[f] \in Rows /\ 0 \in 0..MaxTransfers
  BY RowTyped, AttachmentsAssumption DEF IInv
<1> QED BY <1>1 DEF Released, Rows, RowMoves, Live, Kept

LEMMA ReleaseClaimInv ==
  ASSUME IInv, NEW h \in Handlers, ReleaseClaim(h)
  PROVE  IInv'
<1> PICK t \in Requests : t = handler[h]
  BY DEF IInv, TypeOK
<1> DEFINE f == t.file
           s == row[t.file]
<1>1. /\ Busy(t) /\ HandlerOK(t) /\ t.file \in Files /\ t.part \in PartNames
      /\ t.key \in 1..transfers /\ t.token = t.key /\ t.step = "unsure"
      /\ transfers' = transfers /\ s \in Rows
  BY RowTyped, PartsNamed DEF ReleaseClaim, Busy, IInv, HandlerOK
<1>2. PICK r \in Rows : /\ row' = [row EXCEPT ![f] = r]
                        /\ RowMoves(f, s, r) \/ r = s
                        /\ r.key = s.key /\ r.seen = s.seen
                        /\ s.token = t.key => r.token = 0
                        /\ s.token # t.key => r = s
  <2>1. CASE s.token = t.key
    BY <1>1, <2>1, ReleasedMoves DEF ReleaseClaim, MineByToken
  <2>2. CASE s.token # t.key
    BY <1>1, <2>2 DEF ReleaseClaim, MineByToken
  <2> QED BY <2>1, <2>2
<1>3. /\ row' \in [Files -> Rows] /\ row'[t.file] = r
      /\ \A g \in Files : RowMoves(g, row[g], row'[g]) \/ row'[g] = row[g]
  BY <1>1, <1>2 DEF IInv, TypeOK
<1>4. Preserved
  BY <1>3, Step DEF ReleaseClaim
<1>5. PICK keys \in SUBSET Keys :
        /\ handler' = [handler EXCEPT ![h] = CleaningUp(keys)]
        /\ \A k \in keys : k[3] <= transfers' /\ Dead(k)'
  <2>1. CASE s.token = t.key \/ ~Published(h)
    <3>1. handler' = [handler EXCEPT ![h] = CleaningUp({Own(t)})]
      BY <1>1, <2>1 DEF ReleaseClaim, MineByToken, KeyOf, Own
    <3>2. Own(t) \in Keys /\ t.key <= transfers' /\ Dead(Own(t))'
      <4>1. CASE s.token = t.key \/ s.seen[t.part] = "null"
        <5>1. r.token # t.key
          BY <1>1, <1>2 DEF IInv, TypeOK
        <5> QED BY <1>1, <1>2, <1>3, <4>1, <5>1, OwnKeyDead
      <4>2. CASE s.state = "gone" \/ s.key[t.part] # t.key
        <5>1. Own(t) \in Keys /\ t.key <= transfers'
          BY <1>1 DEF Own, Keys, Requests, IInv, TypeOK
        <5>2. Dead(Own(t))
          BY <1>1, <4>2 DEF Dead, Own
        <5> QED BY <1>4, <5>1, <5>2 DEF Preserved
      <4> QED BY <2>1, <4>1, <4>2 DEF Published
    <3>3. /\ {Own(t)} \in SUBSET Keys
          /\ \A k \in {Own(t)} : k[3] <= transfers' /\ Dead(k)'
      BY <3>2 DEF Own
    <3> QED BY <3>1, <3>3
  <2>2. CASE ~(s.token = t.key \/ ~Published(h))
    <3>1. handler' = [handler EXCEPT ![h] = CleaningUp({})]
      BY <1>1, <2>2 DEF ReleaseClaim, MineByToken
    <3>2. {} \in SUBSET Keys /\ \A k \in {} : k[3] <= transfers' /\ Dead(k)'
      OBVIOUS
    <3> QED BY <3>1, <3>2
  <2> QED BY <2>1, <2>2
<1>6. /\ CleaningUp(keys) \in Requests /\ ~Busy(CleaningUp(keys))
      /\ HandlerOK(CleaningUp(keys))'
  BY <1>5, CleaningUpOK
<1>7. TypeOK'
  BY <1>3, <1>5, <1>6 DEF ReleaseClaim, IInv, TypeOK
<1> QED BY <1>4, <1>5, <1>6, <1>7, RequestMoves

(* The end of the transaction that records a transfer: the request goes on  *)
(* to clean up, or does not know what it did.                               *)
LEMMA CommittedInv ==
  ASSUME IInv, NEW h \in Handlers, handler[h].step = "stored", Preserved,
         NEW keys \in SUBSET Keys, \A k \in keys : k[3] <= transfers' /\ Dead(k)',
         Committed(h, keys), row' \in [Files -> Rows],
         UNCHANGED <<context, blob, sweep, transfers>>
  PROVE  IInv'
<1>1. CASE handler' = [handler EXCEPT ![h] = CleaningUp(keys)] /\ UNCHANGED faults
  <2>1. /\ CleaningUp(keys) \in Requests /\ ~Busy(CleaningUp(keys))
        /\ HandlerOK(CleaningUp(keys))'
    BY CleaningUpOK
  <2>2. TypeOK'
    BY <1>1, <2>1 DEF IInv, TypeOK
  <2> QED BY <1>1, <2>1, <2>2, RequestMoves
<1>2. CASE Fault /\ handler' = [handler EXCEPT ![h].step = "unsure"]
  <2>1. PICK m : m = [handler[h] EXCEPT !.step = "unsure"]
    OBVIOUS
  <2>2. /\ handler[h] \in Requests /\ HandlerOK(handler[h])
        /\ handler' = [handler EXCEPT ![h] = m]
    BY <1>2, <2>1 DEF IInv, TypeOK
  <2>3. m \in Requests /\ HandlerOK(m)
    BY <2>1, <2>2, UnsureOK DEF IInv
  <2>4. m.key = handler[h].key /\ Busy(handler[h])
    BY <2>1, <2>2 DEF Requests, Busy
  <2>5. HandlerOK(m)'
    BY <2>3 DEF Preserved
  <2>6. TypeOK'
    BY <1>2, <2>2, <2>3, FaultTyped DEF IInv, TypeOK
  <2> QED BY <2>2, <2>3, <2>4, <2>5, <2>6, RequestMoves
<1> QED BY <1>1, <1>2 DEF Committed

(* A transfer that has lost its claim, gives up, or was not needed.         *)
LEMMA UnrecordedInv ==
  ASSUME IInv, NEW h \in Handlers, NEW t \in Requests, t = handler[h], t.step = "stored",
         UNCHANGED <<context, blob, sweep, transfers>>,
         \/ ~Mine(h) /\ UNCHANGED row /\ Committed(h, {Own(t)})
         \/ /\ Mine(h)
            /\ row' = [row EXCEPT ![t.file] = Aborted(row[t.file])]
            /\ Committed(h, StorageKeys(t.file) \cup {Own(t)})
         \/ /\ Mine(h)
            /\ row' = [row EXCEPT ![t.file] = Released(row[t.file])]
            /\ Committed(h, {Own(t)})
  PROVE  IInv'
<1> DEFINE s == row[t.file]
<1>1. /\ Busy(t) /\ HandlerOK(t) /\ t.file \in Files /\ t.part \in PartNames
      /\ t.key \in 1..transfers /\ t.token = t.key /\ ClaimOK(t, s)
      /\ t.key # 0 /\ s \in Rows
  BY RowTyped, PartsNamed DEF Busy, IInv, HandlerOK, TypeOK
<1>2. Mine(h) => s.state \in {"reserved", "uploading"}
  BY DEF Mine
<1>3. CASE ~Mine(h) /\ UNCHANGED row /\ Committed(h, {Own(t)})
  <2>1. Preserved /\ row' \in [Files -> Rows]
    BY <1>3, RowsStay DEF IInv, TypeOK
  <2>2. s.token # t.key \/ s.state = "aborted"
    BY <1>1, <1>3 DEF Mine, ClaimOK
  <2>3. Own(t) \in Keys /\ t.key <= transfers' /\ Dead(Own(t))'
    BY <1>1, <1>3, <2>2, OwnKeyDead
  <2>4. /\ {Own(t)} \in SUBSET Keys
        /\ \A k \in {Own(t)} : k[3] <= transfers' /\ Dead(k)'
    BY <2>3 DEF Own
  <2> QED BY <1>3, <2>1, <2>4, CommittedInv
<1>4. CASE /\ Mine(h)
           /\ row' = [row EXCEPT ![t.file] = Aborted(row[t.file])]
           /\ Committed(h, StorageKeys(t.file) \cup {Own(t)})
  <2>1. /\ row' \in [Files -> Rows]
        /\ row'[t.file].state = "aborted"
        /\ \A g \in Files : RowMoves(g, row[g], row'[g]) \/ row'[g] = row[g]
    BY <1>1, <1>2, <1>4, AbortedMoves DEF IInv, TypeOK, Unfinished
  <2>2. Preserved
    BY <2>1, Step
  <2>3. Own(t) \in Keys /\ t.key <= transfers' /\ Dead(Own(t))'
    BY <1>1, <2>1, OwnKeyDead
  <2> PICK keys \in SUBSET Keys : keys = StorageKeys(t.file) \cup {Own(t)}
    BY <1>1, <2>3, KeysTyped DEF IInv
  <2>4. ASSUME NEW k \in keys
        PROVE  k[3] <= transfers' /\ Dead(k)'
    <3>1. CASE k = Own(t)
      BY <2>3, <3>1 DEF Own
    <3>2. CASE k \in StorageKeys(t.file)
      <4>1. k[1] = t.file /\ k[2] \in PartNames /\ k[3] = row[t.file].key[k[2]]
        BY <1>1, <3>2, KeysTyped DEF IInv
      <4> QED BY <1>1, <2>1, <4>1 DEF IInv, RowOK, Dead
    <3> QED BY <3>1, <3>2
  <2> QED BY <1>4, <2>1, <2>2, <2>4, CommittedInv
<1>5. CASE /\ Mine(h)
           /\ row' = [row EXCEPT ![t.file] = Released(row[t.file])]
           /\ Committed(h, {Own(t)})
  <2>1. /\ row' \in [Files -> Rows]
        /\ row'[t.file] = Released(s)
        /\ \A g \in Files : RowMoves(g, row[g], row'[g]) \/ row'[g] = row[g]
    BY <1>1, <1>5, ReleasedMoves DEF IInv, TypeOK
  <2>2. Preserved
    BY <2>1, Step
  <2>3. Own(t) \in Keys /\ t.key <= transfers' /\ Dead(Own(t))'
    BY <1>1, <2>1, ReleasedMoves, OwnKeyDead
  <2>4. /\ {Own(t)} \in SUBSET Keys
        /\ \A k \in {Own(t)} : k[3] <= transfers' /\ Dead(k)'
    BY <2>3 DEF Own
  <2> QED BY <1>5, <2>1, <2>2, <2>4, CommittedInv
<1> QED BY <1>3, <1>4, <1>5

(* The invariant after a step of a request that others may notice.          *)
LEMMA RequestTakes ==
  ASSUME IInv, TypeOK', \A f \in Files : RowOK(f, row[f])',
         NEW h \in Handlers, NEW m \in Requests, handler' = [handler EXCEPT ![h] = m],
         HandlerOK(m)',
         \A g \in Handlers \ {h} : HandlerOK(handler[g]) => HandlerOK(handler[g])',
         Busy(m) => \A g \in Handlers \ {h} : Busy(handler[g]) => handler[g].key # m.key
  PROVE  IInv'
<1>1. handler'[h] = m /\ \A g \in Handlers : g # h => handler'[g] = handler[g]
  BY DEF IInv, TypeOK
<1>2. ASSUME NEW g \in Handlers
      PROVE  HandlerOK(handler[g])'
  BY <1>1 DEF IInv
<1>3. Distinct'
  BY <1>1 DEF IInv, Distinct
<1> QED BY <1>2, <1>3 DEF IInv

LEMMA RecordedInv ==
  ASSUME IInv, NEW h \in Handlers, NEW t \in Requests, t = handler[h], t.step = "stored",
         UNCHANGED <<context, blob, sweep, transfers>>,
         Mine(h), Valid(t.file), t.result \in Lengths, ~t.recorded,
         row' = [row EXCEPT ![t.file] = Recorded(row[t.file], t.part, t.result)],
         Committed(h, {})
  PROVE  IInv'
<1> PICK f \in Files : f = t.file
  BY DEF IInv, HandlerOK, Busy
<1> DEFINE s == row[f]
           c == Recorded(row[f], t.part, t.result)
<1>1. /\ Busy(t) /\ HandlerOK(t) /\ f \in Files /\ t.part \in PartNames
      /\ t.key \in 1..transfers /\ t.token = t.key /\ ClaimOK(t, s)
      /\ t.key # 0 /\ s \in Rows /\ RowOK(f, s)
  BY RowTyped, PartsNamed DEF Busy, IInv, HandlerOK, TypeOK
<1>2. /\ s.token = t.key /\ s.key[t.part] = t.key /\ s.seen[t.part] = "null"
      /\ s.state = (IF t.part = "content" THEN "reserved" ELSE "uploading")
      /\ ~s.expired /\ blob[Own(t)] = t.result
  BY <1>1 DEF Mine, Valid, ClaimOK
<1>3. PICK r \in Rows :
         /\ r = c /\ r.token = 0 /\ r.key = s.key /\ r.state = "uploading"
         /\ r.expired = s.expired /\ r.retained = s.retained
         /\ r.seen[t.part] = t.result
         /\ \A p \in PartNames : p # t.part => r.seen[p] = s.seen[p]
  <2>1. 0 \in 0..MaxTransfers
    BY AttachmentsAssumption
  <2>2. Released(s) = [s EXCEPT !.token = 0, !.leased = FALSE]
    BY DEF Released
  <2>3. /\ Released(s) \in Rows /\ Released(s).token = 0 /\ Released(s).key = s.key
        /\ Released(s).seen = s.seen /\ Released(s).expired = s.expired
        /\ Released(s).retained = s.retained
    BY <1>1, <2>1, <2>2 DEF Rows
  <2> DEFINE e == Released(s)
             n == [e.seen EXCEPT ![t.part] = t.result]
  <2>4. /\ n \in [PartNames -> Lengths \cup {"null"}] /\ n[t.part] = t.result
        /\ \A p \in PartNames : p # t.part => n[p] = s.seen[p]
    BY <1>1, <2>3 DEF Rows, PartNames
  <2>5. c = [e EXCEPT !.state = "uploading", !.seen = n]
    BY <2>3 DEF Recorded
  <2> HIDE DEF n, e
  <2>6. /\ e \in Rows /\ e.token = 0 /\ e.key = s.key /\ e.expired = s.expired
        /\ e.retained = s.retained
    BY <2>3 DEF e
  <2> HIDE DEF c
  <2>7. /\ c \in Rows /\ c.token = 0 /\ c.key = s.key /\ c.state = "uploading"
        /\ c.expired = s.expired /\ c.retained = s.retained /\ c.seen = n
    BY <2>4, <2>5, <2>6 DEF Rows, PartNames, Unfinished
  <2> QED BY <2>4, <2>7
<1> HIDE DEF c
<1>4. /\ row' \in [Files -> Rows] /\ row'[f] = r /\ row' = [row EXCEPT ![f] = r]
      /\ \A g \in Files : g # f => row'[g] = row[g]
  BY <1>1, <1>3 DEF IInv, TypeOK, c
<1>5. RowOK(f, r)'
  <2>1. ASSUME NEW p \in PartNames, r.seen[p] # "null"
        PROVE  blob[<<f, p, r.key[p]>>] = r.seen[p]
    <3>1. CASE p = t.part
      BY <1>2, <1>3, <3>1 DEF Own
    <3>2. CASE p # t.part
      <4>1. s.seen[p] # "null"
        BY <1>3, <2>1, <3>2
      <4>2. Live(s)
        BY <1>1, <1>2, <4>1 DEF RowOK, Live
      <4> QED BY <1>1, <1>3, <2>1, <3>2, <4>1, <4>2 DEF RowOK
    <3> QED BY <3>1, <3>2
  <2> QED BY <1>1, <1>3, <2>1, AttachmentsAssumption DEF RowOK, Kept, IInv, TypeOK
<1>6. ASSUME NEW g \in Files
      PROVE  RowOK(g, row[g])'
  <2>1. CASE g = f
    BY <1>4, <1>5, <2>1 DEF RowOK, Live, Kept
  <2>2. CASE g # f
    <3>1. row'[g] = row[g] /\ row'[g] \in Rows
      BY <1>4, <2>2, RowTyped DEF IInv
    <3> QED BY <3>1, RowStep
  <2> QED BY <2>1, <2>2
<1>7. ASSUME NEW k \in Keys, Dead(k)
      PROVE  Dead(k)'
  <2>1. CASE k[1] = f
    BY <1>1, <1>2, <1>3, <1>4, <1>7, <2>1 DEF Dead, Keys, PartNames
  <2>2. CASE k[1] # f
    BY <1>4, <1>7, <2>2 DEF Dead, Keys
  <2> QED BY <2>1, <2>2
<1>8. ASSUME NEW u \in Requests, HandlerOK(u), Busy(u) => u.key # t.key
      PROVE  HandlerOK(u)'
  <2>1. \A k \in u.todo : k[3] <= transfers' /\ Dead(k)'
    BY <1>7, <1>8 DEF HandlerOK, Requests
  <2>2. ASSUME Busy(u)
        PROVE  ClaimOK(u, row[u.file])'
    <3>1. u.file \in Files /\ u.key # 0 /\ u.part \in PartNames /\ ClaimOK(u, row[u.file])
      BY <1>8, <2>2, PartsNamed DEF HandlerOK, IInv, TypeOK
    <3>2. CASE u.file = f
      BY <1>2, <1>3, <1>4, <1>8, <2>2, <3>1, <3>2 DEF ClaimOK
    <3>3. CASE u.file # f
      <4>1. row'[u.file] = row[u.file]
        BY <1>4, <3>1, <3>3
      <4> QED BY <3>1, <4>1 DEF ClaimOK
    <3> QED BY <3>2, <3>3
  <2> QED BY <1>8, <2>1, <2>2 DEF HandlerOK
<1>9. \A g \in Handlers \ {h} : Busy(handler[g]) => handler[g].key # t.key
  BY <1>1 DEF IInv, Distinct
<1>10. \A g \in Handlers : g # h => handler'[g] = handler[g]
  BY DEF Committed, IInv, TypeOK
<1>11. ASSUME NEW g \in Handlers \ {h}, HandlerOK(handler[g])
       PROVE  HandlerOK(handler[g])'
  <2> PICK u \in Requests : u = handler[g]
    BY DEF IInv, TypeOK
  <2>1. HandlerOK(u)'
    BY <1>8, <1>9, <1>11
  <2> QED BY <1>10, <2>1
<1>12. CASE handler' = [handler EXCEPT ![h] = CleaningUp({})] /\ UNCHANGED faults
  <2>1. {} \in SUBSET Keys /\ \A k \in {} : k[3] <= transfers' /\ Dead(k)'
    OBVIOUS
  <2>2. /\ CleaningUp({}) \in Requests /\ ~Busy(CleaningUp({}))
        /\ HandlerOK(CleaningUp({}))'
    BY <2>1, CleaningUpOK
  <2>3. TypeOK'
    BY <1>4, <1>12, <2>2 DEF IInv, TypeOK
  <2> QED BY <1>6, <1>11, <1>12, <2>2, <2>3, RequestTakes
<1>13. CASE Fault /\ handler' = [handler EXCEPT ![h].step = "unsure"]
  <2> DEFINE w == [t EXCEPT !.step = "unsure"]
  <2>1. PICK m \in Requests :
           /\ m = w /\ m.step = "unsure" /\ m.todo = t.todo /\ m.file = f
           /\ m.part = t.part /\ m.key = t.key /\ m.token = t.token
           /\ m.recorded = t.recorded
    <3>1. /\ w \in Requests /\ w.step = "unsure" /\ w.todo = t.todo /\ w.file = f
          /\ w.part = t.part /\ w.key = t.key /\ w.token = t.token
          /\ w.recorded = t.recorded
      BY DEF Requests
    <3> HIDE DEF w
    <3> QED BY <3>1
  <2>2. handler' = [handler EXCEPT ![h] = m]
    BY <1>13, <2>1 DEF IInv, TypeOK
  <2>3. ClaimOK(m, row[m.file])'
    BY <1>1, <1>3, <1>4, <2>1 DEF ClaimOK
  <2>4. \A k \in m.todo : k[3] <= transfers' /\ Dead(k)'
    BY <1>1, <1>7, <2>1 DEF HandlerOK, Requests
  <2>5. HandlerOK(m)'
    BY <1>1, <2>1, <2>3, <2>4 DEF HandlerOK
  <2>6. TypeOK'
    BY <1>4, <1>13, <2>2, FaultTyped DEF IInv, TypeOK
  <2>7. \A g \in Handlers \ {h} : Busy(handler[g]) => handler[g].key # m.key
    BY <1>9, <2>1
  <2>8. /\ \A g \in Files : RowOK(g, row[g])'
        /\ \A g \in Handlers \ {h} : HandlerOK(handler[g]) => HandlerOK(handler[g])'
    BY <1>6, <1>11
  <2> QED BY <2>2, <2>5, <2>6, <2>7, <2>8, RequestTakes
<1> QED BY <1>12, <1>13 DEF Committed

LEMMA RecordTransferInv ==
  ASSUME IInv, NEW h \in Handlers, RecordTransfer(h)
  PROVE  IInv'
<1> PICK t \in Requests : t = handler[h]
  BY DEF IInv, TypeOK
<1>1. KeyOf(h) = Own(t)
  BY DEF KeyOf, Own
<1>2. t.step = "stored" /\ UNCHANGED <<context, blob, sweep, transfers>>
  BY DEF RecordTransfer
<1>3. CASE ~Mine(h) /\ UNCHANGED row /\ Committed(h, LeftBehind(h))
  BY <1>1, <1>2, <1>3, UnrecordedInv DEF LeftBehind
<1>4. CASE /\ Mine(h)
           /\ row' = [row EXCEPT ![t.file] = Aborted(row[t.file])]
           /\ Committed(h, StorageKeys(t.file) \cup {KeyOf(h)})
  BY <1>1, <1>2, <1>4, UnrecordedInv
<1>5. CASE /\ Mine(h)
           /\ row' = [row EXCEPT ![t.file] = Released(row[t.file])]
           /\ Committed(h, {KeyOf(h)})
  BY <1>1, <1>2, <1>5, UnrecordedInv
<1>6. CASE /\ Mine(h) /\ Valid(t.file) /\ t.result \in Lengths /\ ~t.recorded
           /\ row' = [row EXCEPT ![t.file] = Recorded(row[t.file], t.part, t.result)]
           /\ Committed(h, {})
  BY <1>2, <1>6, RecordedInv
<1> QED BY <1>3, <1>4, <1>5, <1>6 DEF RecordTransfer

(* The object is put under a key that is the transfer's own.                *)
LEMMA PutInv ==
  ASSUME IInv, NEW h \in Handlers, Put(h)
  PROVE  IInv'
<1> PICK t \in Requests : t = handler[h]
  BY DEF IInv, TypeOK
<1>1. PICK outcome \in Outcomes :
        \E deleted \in SUBSET t.todo :
          /\ Deletes(t.todo, deleted)
          /\ blob' = IF outcome[2] = "none" THEN Without(deleted)
                     ELSE [Without(deleted) EXCEPT ![KeyOf(h)] = outcome[2]]
          /\ handler' = [handler EXCEPT ![h] =
               [@ EXCEPT !.step = "stored", !.result = outcome[1], !.todo = {}]]
  BY DEF Put
<1>2. PICK deleted \in SUBSET t.todo :
          /\ Deletes(t.todo, deleted)
          /\ blob' = IF outcome[2] = "none" THEN Without(deleted)
                     ELSE [Without(deleted) EXCEPT ![Own(t)] = outcome[2]]
          /\ handler' = [handler EXCEPT ![h] =
               [@ EXCEPT !.step = "stored", !.result = outcome[1], !.todo = {}]]
  BY <1>1 DEF KeyOf, Own
<1>3. /\ t.step = "putting" /\ Busy(t) /\ HandlerOK(t) /\ t.file \in Files
      /\ t.part \in Parts(t.file) /\ t.part \in PartNames
      /\ t.key \in 1..transfers /\ t.token = t.key /\ ClaimOK(t, row[t.file])
      /\ UNCHANGED <<row, context, sweep, transfers>> /\ faults' \in 0..MaxFaults
  BY <1>2, FaultTyped, PartsNamed DEF Put, Busy, IInv, HandlerOK, Deletes
<1>4. /\ outcome[1] \in Lengths \cup {"tooLarge", "failed"}
      /\ outcome[2] \in Lengths \cup {"none"}
      /\ outcome[1] \in Lengths => outcome[2] = outcome[1]
  BY DEF Outcomes, Lengths
<1>5. Own(t) \in Keys
  BY <1>3 DEF Own, Keys, Requests
<1>6. /\ blob' \in [Keys -> Lengths \cup {"none"}]
      /\ \A k \in Keys : k # Own(t) => blob'[k] = blob[k] \/ Dead(k)
      /\ outcome[1] \in Lengths => blob'[Own(t)] = outcome[1]
  <2>1. \A k \in deleted : Dead(k)
    BY <1>3 DEF HandlerOK
  <2> DEFINE w == Without(deleted)
  <2>2. /\ w \in [Keys -> Lengths \cup {"none"}]
        /\ \A k \in Keys : w[k] = blob[k] \/ Dead(k)
    BY <2>1 DEF Without, IInv, TypeOK
  <2>3. blob' = w \/ blob' = [w EXCEPT ![Own(t)] = outcome[2]]
    BY <1>2
  <2>4. outcome[1] \in Lengths => blob' = [w EXCEPT ![Own(t)] = outcome[2]]
    BY <1>2, <1>4 DEF Lengths
  <2> HIDE DEF w
  <2> QED BY <1>4, <1>5, <2>2, <2>3, <2>4
<1>7. ASSUME NEW g \in Files
      PROVE  RowOK(g, row[g])'
  <2>1. ASSUME NEW p \in PartNames, row[g].seen[p] # "null"
        PROVE  blob'[<<g, p, row[g].key[p]>>] = blob[<<g, p, row[g].key[p]>>]
                 \/ Dead(<<g, p, row[g].key[p]>>)
    <3>1. <<g, p, row[g].key[p]>> \in Keys
      BY RowTyped DEF IInv, Keys, PartNames
    <3>2. <<g, p, row[g].key[p]>> # Own(t)
      BY <1>3, <2>1 DEF ClaimOK, Own
    <3> QED BY <1>6, <3>1, <3>2
  <2>2. row'[g] = row[g] /\ row'[g] \in Rows
    BY <1>3, RowTyped DEF IInv
  <2> QED BY <1>3, <2>1, <2>2, RowStep
<1>8. ASSUME NEW k \in Keys, Dead(k)
      PROVE  Dead(k)'
  BY <1>3, <1>8 DEF Dead
<1>9. ASSUME NEW u \in Requests, HandlerOK(u), Busy(u) => u.key # t.key
      PROVE  HandlerOK(u)'
  <2>1. \A k \in u.todo : k[3] <= transfers' /\ Dead(k)'
    BY <1>3, <1>8, <1>9 DEF HandlerOK, Requests
  <2>2. ASSUME Busy(u)
        PROVE  ClaimOK(u, row[u.file])'
    <3>1. /\ u.file \in Files /\ u.part \in Parts(u.file) /\ u.part \in PartNames
          /\ u.key \in 1..transfers /\ ClaimOK(u, row[u.file])
      BY <1>9, <2>2, PartsNamed DEF HandlerOK
    <3>2. Own(u) \in Keys /\ Own(u) # Own(t)
      BY <1>9, <2>2, <3>1 DEF Own, Keys, Requests
    <3>3. row'[u.file] = row[u.file] /\ (blob'[Own(u)] = blob[Own(u)] \/ Dead(Own(u)))
      BY <1>3, <1>6, <3>2
    <3> QED BY <2>2, <3>1, <3>3, ClaimStep
  <2> QED BY <1>3, <1>9, <2>1, <2>2 DEF HandlerOK
<1>10. PICK m \in Requests :
         /\ handler' = [handler EXCEPT ![h] = m]
         /\ m.step = "stored" /\ m.todo = {} /\ m.file = t.file /\ m.part = t.part
         /\ m.key = t.key /\ m.token = t.token /\ m.recorded = t.recorded
         /\ m.result = outcome[1]
  <2> DEFINE w == [t EXCEPT !.step = "stored", !.result = outcome[1], !.todo = {}]
  <2>1. /\ w \in Requests /\ w.step = "stored" /\ w.todo = {} /\ w.file = t.file
        /\ w.part = t.part /\ w.key = t.key /\ w.token = t.token
        /\ w.recorded = t.recorded /\ w.result = outcome[1]
    BY <1>4 DEF Requests
  <2>2. handler' = [handler EXCEPT ![h] = w]
    BY <1>2
  <2> HIDE DEF w
  <2> QED BY <2>1, <2>2
<1>11. ClaimOK(m, row[m.file])'
  <2>1. Own(m) = Own(t)
    BY <1>10 DEF Own
  <2>2. m.result \in Lengths => blob'[Own(m)] = m.result
    BY <1>6, <1>10, <2>1
  <2>3. row'[m.file] = row[t.file]
    BY <1>3, <1>10
  <2> QED BY <1>3, <1>10, <2>2, <2>3 DEF ClaimOK, Own
<1>12. HandlerOK(m)'
  BY <1>3, <1>10, <1>11 DEF HandlerOK
<1>13. ASSUME NEW g \in Handlers \ {h}
       PROVE  /\ HandlerOK(handler[g]) => HandlerOK(handler[g])'
              /\ Busy(handler[g]) => handler[g].key # m.key
  <2> PICK u \in Requests : u = handler[g]
    BY DEF IInv, TypeOK
  <2>1. handler'[g] = u
    BY <1>10 DEF IInv, TypeOK
  <2>2. Busy(u) => u.key # t.key
    BY <1>3 DEF IInv, Distinct
  <2>3. HandlerOK(u) => HandlerOK(u)'
    BY <1>9, <2>2
  <2> QED BY <1>10, <2>1, <2>2, <2>3
<1>14. TypeOK'
  BY <1>3, <1>6, <1>10 DEF IInv, TypeOK, Put
<1> QED BY <1>7, <1>10, <1>12, <1>13, <1>14, RequestTakes

LEMMA SweepDeletesInv ==
  ASSUME IInv, SweepDeletes
  PROVE  IInv'
<1> PICK f \in Files : f = Head(sweep)
  BY SweepTyped DEF SweepDeletes, IInv
<1> PICK r \in Rows : r = Gone
  <2>1. 0 \in 0..MaxTransfers
    BY AttachmentsAssumption
  <2>2. Gone \in Rows
    BY <2>1 DEF Gone, Row, Rows
  <2> QED BY <2>2
<1>1. /\ row' \in [Files -> Rows] /\ row'[f] = r
      /\ \A g \in Files : g # f => row'[g] = row[g]
  BY DEF SweepDeletes, IInv, TypeOK
<1>2. /\ blob' \in [Keys -> Lengths \cup {"none"}]
      /\ \A k \in Keys : k[1] # f => blob'[k] = blob[k]
  BY KeysTyped DEF SweepDeletes, Without, IInv, TypeOK
<1>3. /\ r.state = "gone" /\ r.token = 0 /\ \A p \in PartNames : r.key[p] = 0
      /\ transfers' = transfers /\ transfers \in Nat
  BY AttachmentsAssumption DEF Gone, Row, PartNames, SweepDeletes, IInv, TypeOK
<1>4. ASSUME NEW g \in Files
      PROVE  RowOK(g, row[g])'
  <2>1. CASE g = f
    BY <1>1, <1>3, <2>1 DEF RowOK, Live, Kept
  <2>2. CASE g # f
    <3>1. row'[g] = row[g] /\ row'[g] \in Rows
      BY <1>1, <2>2
    <3>2. \A p \in PartNames : blob'[<<g, p, row[g].key[p]>>] = blob[<<g, p, row[g].key[p]>>]
      BY <1>2, <2>2, RowTyped DEF Keys, PartNames, IInv
    <3> QED BY <1>3, <3>1, <3>2, RowStep
  <2> QED BY <2>1, <2>2
<1>5. ASSUME NEW k \in Keys, Dead(k)
      PROVE  Dead(k)'
  BY <1>1, <1>3, <1>5 DEF Dead, Keys
<1>6. ASSUME NEW u \in Requests, HandlerOK(u)
      PROVE  HandlerOK(u)'
  <2>1. \A k \in u.todo : k[3] <= transfers' /\ Dead(k)'
    BY <1>3, <1>5, <1>6 DEF HandlerOK, Requests
  <2>2. ASSUME Busy(u)
        PROVE  ClaimOK(u, row[u.file])'
    <3>1. /\ u.file \in Files /\ u.part \in Parts(u.file) /\ u.part \in PartNames
          /\ u.key \in 1..transfers /\ u.key # 0 /\ ClaimOK(u, row[u.file])
      BY <1>3, <1>6, <2>2, PartsNamed DEF HandlerOK
    <3>2. CASE u.file = f
      BY <1>1, <1>3, <3>1, <3>2 DEF ClaimOK
    <3>3. CASE u.file # f
      <4>1. Own(u) \in Keys /\ Own(u)[1] # f
        BY <3>1, <3>3 DEF Own, Keys, Requests
      <4>2. blob'[Own(u)] = blob[Own(u)] /\ row'[u.file] = row[u.file]
        BY <1>1, <1>2, <3>1, <3>3, <4>1
      <4> QED BY <2>2, <3>1, <4>2, ClaimStep
    <3> QED BY <3>2, <3>3
  <2> QED BY <1>3, <1>6, <2>1, <2>2 DEF HandlerOK
<1>7. Preserved
  BY <1>4, <1>5, <1>6 DEF Preserved
<1>8. TypeOK'
  BY <1>1, <1>2, SweepTyped DEF SweepDeletes, IInv, TypeOK
<1> QED BY <1>7, <1>8, NoRequestMoves DEF SweepDeletes

(* A claim draws the next key, which nobody has heard of.                   *)
LEMMA ClaimTransferInv ==
  ASSUME IInv, NEW h \in Handlers, NEW f \in Files, NEW p \in PartNames,
         ClaimTransfer(h, f, p)
  PROVE  IInv'
<1> PICK n \in 0..MaxTransfers : n = transfers + 1
  BY AttachmentsAssumption DEF ClaimTransfer, IInv, TypeOK
<1> PICK s \in Rows : s = row[f]
  BY RowTyped DEF IInv
<1> PICK old \in BOOLEAN : old = (p = "thumbnail" /\ s.seen[p] # "null")
  OBVIOUS
<1> PICK keys \in [PartNames -> 0..MaxTransfers] :
      keys = IF old THEN s.key ELSE [s.key EXCEPT ![p] = n]
  BY DEF Rows, PartNames
<1>1. PICK r \in Rows :
        /\ row' = [row EXCEPT ![f] = r]
        /\ r.token = n /\ r.key = keys /\ r.seen = s.seen /\ r.state = s.state
        /\ r.expired = s.expired
  <2> DEFINE w == [s EXCEPT !.token = n, !.leased = TRUE, !.key = keys]
  <2>1. /\ w \in Rows /\ w.token = n /\ w.key = keys /\ w.seen = s.seen
        /\ w.state = s.state /\ w.expired = s.expired
    BY DEF Rows, PartNames
  <2>2. row' = [row EXCEPT ![f] = w]
    BY DEF ClaimTransfer, DrawnKey
  <2> HIDE DEF w
  <2> QED BY <2>1, <2>2
<1>2. PICK m \in Requests :
        /\ handler' = [handler EXCEPT ![h] = m]
        /\ m.step = "putting" /\ m.file = f /\ m.part = p /\ m.token = n /\ m.key = n
        /\ m.recorded = old
        /\ m.todo = IF old THEN {} ELSE {<<f, p, s.key[p]>>}
  <2> DEFINE w == [step |-> "putting", file |-> f, part |-> p, token |-> n, key |-> n,
                   recorded |-> old, result |-> "none",
                   todo |-> IF old THEN {} ELSE {<<f, p, s.key[p]>>}]
  <2>1. w \in Requests
    BY DEF Requests, Rows, PartNames, Keys
  <2>2. handler' = [handler EXCEPT ![h] = w]
    BY DEF ClaimTransfer, DrawnKey
  <2> QED BY <2>1, <2>2
<1>3. /\ p \in Parts(f) /\ ~s.expired /\ transfers' = n /\ transfers \in Nat /\ n \in Nat
      /\ s.state = IF p = "content" THEN "reserved" ELSE "uploading"
      /\ UNCHANGED <<context, blob, sweep, faults>>
  BY DEF ClaimTransfer, Claimable, Valid, IInv, TypeOK
<1>4. /\ RowOK(f, s) /\ s.token \in 0..transfers
      /\ \A q \in PartNames : s.key[q] \in 0..transfers
  BY <1>3 DEF IInv, RowOK, Rows, PartNames
<1>5. s.seen[p] = "null" \/ old
  BY <1>3, <1>4 DEF RowOK, PartNames
<1>6. /\ row' \in [Files -> Rows] /\ row'[f] = r
      /\ \A g \in Files : g # f => row'[g] = row[g]
  BY <1>1 DEF IInv, TypeOK
<1>7. /\ \A q \in PartNames : keys[q] \in {s.key[q], n}
      /\ \A q \in PartNames : q # p \/ old => keys[q] = s.key[q]
      /\ ~old => keys[p] = n
  BY DEF Rows, PartNames
<1>8. ASSUME NEW g \in Files
      PROVE  RowOK(g, row[g])'
  <2>1. CASE g = f
    <3>1. r.token <= transfers' /\ \A q \in PartNames : r.key[q] <= transfers'
      BY <1>1, <1>3, <1>4, <1>7
    <3>2. r.state \notin {"none", "committed", "deleting"}
      BY <1>1, <1>3
    <3>3. r.state = "reserved" => \A q \in PartNames : r.seen[q] = "null"
      BY <1>1, <1>4 DEF RowOK
    <3>4. ASSUME Live(r), NEW q \in PartNames, r.seen[q] # "null"
          PROVE  blob'[<<f, q, r.key[q]>>] = r.seen[q]
      <4>1. r.key[q] = s.key[q]
        BY <1>1, <1>5, <1>7, <3>4
      <4>2. Live(s)
        BY <1>1, <1>3, <3>4, <3>3 DEF Live, Kept
      <4> QED BY <1>1, <1>3, <1>4, <3>4, <4>1, <4>2 DEF RowOK
    <3>5. ~Kept(r)
      BY <3>2 DEF Kept
    <3>6. RowOK(f, r)'
      BY <3>1, <3>2, <3>3, <3>4, <3>5 DEF RowOK
    <3> QED BY <1>6, <2>1, <3>6
  <2>2. CASE g # f
    <3>1. RowOK(g, row[g]) /\ row[g] \in Rows
      BY RowTyped DEF IInv
    <3>2. /\ row[g].token <= transfers'
          /\ \A q \in PartNames : row[g].key[q] <= transfers'
      BY <1>3, <3>1 DEF RowOK, Rows, PartNames
    <3> QED BY <1>3, <1>6, <2>2, <3>1, <3>2 DEF RowOK, Live, Kept
  <2> QED BY <2>1, <2>2
<1>9. ASSUME NEW k \in Keys, Dead(k), k[3] <= transfers
      PROVE  Dead(k)'
  <2>1. CASE k[1] = f
    <3>1. k[2] \in PartNames /\ k[3] # n
      BY <1>3, <1>9 DEF Keys, PartNames
    <3> QED BY <1>1, <1>6, <1>7, <1>9, <2>1, <3>1 DEF Dead
  <2>2. CASE k[1] # f
    BY <1>6, <1>9, <2>2 DEF Dead, Keys
  <2> QED BY <2>1, <2>2
<1>10. ASSUME NEW u \in Requests, HandlerOK(u)
       PROVE  HandlerOK(u)'
  <2>1. \A k \in u.todo : k[3] <= transfers' /\ Dead(k)'
    <3>1. \A k \in u.todo : k \in Keys /\ k[3] \in Int
      BY AttachmentsAssumption DEF Requests, Keys
    <3> QED BY <1>3, <1>9, <1>10, <3>1 DEF HandlerOK
  <2>2. ASSUME Busy(u)
        PROVE  ClaimOK(u, row[u.file])' /\ u.key \in 1..transfers'
    <3>1. /\ u.file \in Files /\ u.part \in PartNames /\ u.key \in 1..transfers
          /\ u.key # n /\ ClaimOK(u, row[u.file])
      BY <1>3, <1>10, <2>2, PartsNamed DEF HandlerOK
    <3>2. CASE u.file = f
      BY <1>1, <1>3, <1>6, <1>7, <3>1, <3>2 DEF ClaimOK
    <3>3. CASE u.file # f
      <4>1. row'[u.file] = row[u.file]
        BY <1>6, <3>1, <3>3
      <4> QED BY <1>3, <3>1, <4>1 DEF ClaimOK
    <3> QED BY <1>3, <3>1, <3>2, <3>3
  <2> QED BY <1>10, <2>1, <2>2 DEF HandlerOK
<1>11. HandlerOK(m)'
  <2>1. ASSUME ~old
        PROVE  <<f, p, s.key[p]>>[3] <= transfers' /\ Dead(<<f, p, s.key[p]>>)'
    <3>1. s.key[p] # n /\ s.key[p] <= n
      BY <1>3, <1>4
    <3> QED BY <1>1, <1>3, <1>6, <1>7, <2>1, <3>1 DEF Dead
  <2>2. \A k \in m.todo : k[3] <= transfers' /\ Dead(k)'
    BY <1>2, <2>1
  <2>3. ClaimOK(m, r)'
    <3>1. old => r.key[p] # n
      BY <1>1, <1>3, <1>4, <1>7
    <3> QED BY <1>1, <1>2, <1>3, <1>5, <1>7, <3>1 DEF ClaimOK
  <2>4. ClaimOK(m, row[m.file])'
    BY <1>2, <1>6, <2>3
  <2>5. m.file \in Files /\ m.part \in Parts(m.file) /\ m.key \in 1..transfers'
    BY <1>2, <1>3
  <2> QED BY <1>2, <2>2, <2>4, <2>5 DEF HandlerOK
<1>12. ASSUME NEW g \in Handlers \ {h}
       PROVE  /\ HandlerOK(handler[g]) => HandlerOK(handler[g])'
              /\ Busy(handler[g]) => handler[g].key # m.key
  <2> PICK u \in Requests : u = handler[g]
    BY DEF IInv, TypeOK
  <2>1. handler'[g] = u
    BY <1>2 DEF IInv, TypeOK
  <2>2. Busy(u) => u.key # n
    BY <1>3 DEF IInv, HandlerOK
  <2>3. HandlerOK(u) => HandlerOK(u)'
    BY <1>10
  <2> QED BY <1>2, <2>1, <2>2, <2>3
<1>13. TypeOK'
  BY <1>2, <1>3, <1>6 DEF IInv, TypeOK
<1> QED BY <1>2, <1>8, <1>11, <1>12, <1>13, RequestTakes

-----------------------------------------------------------------------------
LEMMA InitInv == Init => IInv
<1> SUFFICES ASSUME Init PROVE IInv
  OBVIOUS
<1>1. 0 \in 0..MaxTransfers /\ 0 \in 0..MaxFaults /\ transfers = 0
  BY AttachmentsAssumption DEF Init
<1>2. ASSUME NEW f \in Files
      PROVE  row[f] \in Rows /\ RowOK(f, row[f])
  <2>1. row[f] = NoRow \/ row[f] = [Row("aborted") EXCEPT !.expired = TRUE]
    BY DEF Init
  <2>2. CASE row[f] = NoRow
    <3>1. /\ NoRow.state = "none" /\ NoRow.token = 0
          /\ \A p \in PartNames : NoRow.key[p] = 0 /\ NoRow.seen[p] = "null"
      BY DEF NoRow, Row, PartNames
    <3>2. NoRow \in Rows
      BY <1>1 DEF NoRow, Row, Rows
    <3> HIDE DEF NoRow
    <3> QED BY <1>1, <2>2, <3>1, <3>2 DEF RowOK, Live, Kept
  <2>3. CASE row[f] = [Row("aborted") EXCEPT !.expired = TRUE]
    <3> DEFINE r == [Row("aborted") EXCEPT !.expired = TRUE]
    <3>1. /\ r.state = "aborted" /\ r.token = 0
          /\ \A p \in PartNames : r.key[p] = 0 /\ r.seen[p] = "null"
      BY DEF Row, PartNames
    <3>2. r \in Rows
      BY <1>1 DEF Row, Rows, Unfinished
    <3>3. row[f] = r
      BY <2>3
    <3> HIDE DEF r
    <3> QED BY <1>1, <3>1, <3>2, <3>3 DEF RowOK, Live, Kept
  <2> QED BY <2>1, <2>2, <2>3
<1>3. row \in [Files -> Rows]
  BY <1>2 DEF Init
<1>4. ASSUME NEW h \in Handlers
      PROVE  handler[h] \in Requests /\ HandlerOK(handler[h]) /\ ~Busy(handler[h])
  BY <1>1 DEF Init, Idle, Request, Requests, HandlerOK, Busy
<1>5. TypeOK
  <2>1. handler \in [Handlers -> Requests]
    BY <1>4 DEF Init
  <2>2. blob \in [Keys -> Lengths \cup {"none"}]
    BY DEF Init, Lengths
  <2>3. /\ context \in [Files -> {"whole", "denied", "closed", "going", "gone"}]
        /\ sweep \in Seq(Files) /\ transfers \in 0..MaxTransfers /\ faults \in 0..MaxFaults
    BY <1>1 DEF Init
  <2> QED BY <1>3, <2>1, <2>2, <2>3 DEF TypeOK
<1> QED BY <1>2, <1>4, <1>5 DEF IInv, Distinct

LEMMA NextInv ==
  ASSUME IInv, [Next]_vars
  PROVE  IInv'
<1>1. CASE UNCHANGED vars
  <2>1. TypeOK' /\ Preserved
    BY <1>1, RowsStay DEF vars, IInv, TypeOK
  <2> QED BY <1>1, <2>1, NoRequestMoves DEF vars
<1>2. ASSUME NEW f \in Files,
             \/ Reserve(f) \/ Finalize(f) \/ DeleteFile(f)
             \/ RetireParent(f) \/ DeleteParent(f) \/ LoseAccess(f) \/ DeleteAccount(f)
             \/ Expire(f) \/ LeaseEnds(f) \/ RetentionEnds(f) \/ RetryComes(f)
      PROVE  IInv'
  BY <1>2, ReserveInv, FinalizeInv, DeleteFileInv, RetireParentInv, ContextInv,
     DeleteAccountInv, ClockInv
<1>3. ASSUME NEW h \in Handlers, NEW f \in Files,
             \/ FinalizeInvalid(h, f) \/ AbortUpload(h, f)
             \/ \E p \in {"content", "thumbnail"} : ClaimTransfer(h, f, p) \/ ClaimInvalid(h, f, p)
      PROVE  IInv'
  <2>1. CASE \E p \in PartNames : ClaimTransfer(h, f, p)
    BY <2>1, ClaimTransferInv
  <2>2. CASE \/ FinalizeInvalid(h, f) \/ AbortUpload(h, f)
             \/ \E p \in PartNames : ClaimInvalid(h, f, p)
    BY <2>2, GiveUpInv
  <2> QED BY <1>3, <2>1, <2>2 DEF PartNames
<1>4. ASSUME NEW h \in Handlers,
             \/ Put(h) \/ RecordTransfer(h) \/ RecordFails(h) \/ ReleaseClaim(h)
             \/ CleanUp(h) \/ Crash(h)
      PROVE  IInv'
  BY <1>4, PutInv, RecordTransferInv, RecordFailsInv, ReleaseClaimInv, CleanUpInv, CrashInv
<1>5. CASE LoadCandidates \/ SweepSkips \/ SweepDeletes \/ SweepFails \/ SweepCrashes
  BY <1>5, LoadCandidatesInv, SweepSkipsInv, SweepDeletesInv, SweepFailsInv, SweepCrashesInv
<1> QED BY <1>1, <1>2, <1>3, <1>4, <1>5 DEF Next

LEMMA Inductive == Spec => []IInv
BY InitInv, NextInv, PTL DEF Spec

-----------------------------------------------------------------------------
(* Theorems *)

(* Every variable keeps its type, whatever requests, the sweep and the      *)
(* store do.                                                                *)
THEOREM TypeCorrect == Spec => []TypeOK
<1>1. IInv => TypeOK
  BY DEF IInv
<1> QED BY <1>1, Inductive, PTL

(* What can be downloaded is there and is what was observed: for any files, *)
(* requests and transfers, nothing deletes or overwrites the objects of a   *)
(* committed file, nor of a deleted one as long as it is retained.          *)
THEOREM KeptIsThere == Spec => []KeptHasBlob
<1>1. ASSUME IInv
      PROVE  KeptHasBlob
  <2>1. ASSUME NEW f \in Files, Kept(row[f]), NEW p \in Parts(f)
        PROVE  /\ row[f].seen[p] = "declared"
               /\ blob[<<f, p, row[f].key[p]>>] = "declared"
    BY <1>1, <2>1, PartsNamed DEF IInv, RowOK, Live
  <2> QED BY <2>1 DEF KeptHasBlob, Kept
<1> QED BY <1>1, Inductive, PTL

(* One step of the state of a file.                                         *)
Onward(f) ==
  /\ row[f].state = "aborted"   => row'[f].state \in {"aborted", "gone"}
  /\ row[f].state = "deleting"  => row'[f].state \in {"deleting", "gone"}
  /\ row[f].state = "committed" => row'[f].state \in {"committed", "deleting"}

LEMMA StepsOnward ==
  ASSUME IInv, [Next]_vars, NEW f \in Files
  PROVE  Onward(f)
<1>1. row \in [Files -> Rows] /\ row[f] \in Rows
  BY DEF IInv, TypeOK
<1>2. CASE row' = row
  BY <1>2 DEF Onward
<1>3. ASSUME NEW g \in Files,
             \/ Reserve(g) \/ Finalize(g) \/ DeleteFile(g)
             \/ RetireParent(g) \/ DeleteParent(g) \/ LoseAccess(g)
      PROVE  Onward(f)
  <2>1. CASE Reserve(g)
    BY <1>1, <2>1 DEF Onward, Reserve, Reserved, Row
  <2>2. CASE Finalize(g)
    BY <1>1, <2>2 DEF Onward, Finalize, Rows
  <2>3. CASE DeleteFile(g)
    BY <1>1, <2>3 DEF Onward, DeleteFile, Deleting, Rows
  <2>4. CASE RetireParent(g)
    BY <1>1, <2>4 DEF Onward, RetireParent, Deleting, Rows
  <2>5. CASE DeleteParent(g) \/ LoseAccess(g)
    BY <1>2, <2>5 DEF DeleteParent, LoseAccess
  <2> QED BY <1>3, <2>1, <2>2, <2>3, <2>4, <2>5
<1>4. ASSUME NEW g \in Files, DeleteAccount(g)
      PROVE  Onward(f)
  BY <1>1, <1>4 DEF Onward, DeleteAccount, Deleting, Unfinished, Rows
<1>5. ASSUME NEW g \in Files,
             Expire(g) \/ LeaseEnds(g) \/ RetentionEnds(g) \/ RetryComes(g)
      PROVE  Onward(f)
  <2>1. CASE Expire(g)
    BY <1>1, <2>1 DEF Onward, Expire, Rows
  <2>2. CASE LeaseEnds(g)
    BY <1>1, <2>2 DEF Onward, LeaseEnds, Rows
  <2>3. CASE RetentionEnds(g)
    BY <1>1, <2>3 DEF Onward, RetentionEnds, Rows
  <2>4. CASE RetryComes(g)
    BY <1>1, <2>4 DEF Onward, RetryComes, Rows
  <2> QED BY <1>5, <2>1, <2>2, <2>3, <2>4
<1>6. ASSUME NEW g \in Files, row' = [row EXCEPT ![g] = Aborted(@)],
             row[g].state \in Unfinished
      PROVE  Onward(f)
  BY <1>1, <1>6 DEF Onward, Aborted, Unfinished, Rows
<1>7. ASSUME NEW h \in Handlers, NEW g \in Files,
             \/ FinalizeInvalid(h, g) \/ AbortUpload(h, g)
             \/ \E p \in {"content", "thumbnail"} : ClaimInvalid(h, g, p)
      PROVE  Onward(f)
  BY <1>6, <1>7 DEF FinalizeInvalid, AbortUpload, ClaimInvalid, Claimable, Unfinished
<1>8. ASSUME NEW h \in Handlers, NEW g \in Files, NEW p \in PartNames,
             ClaimTransfer(h, g, p)
      PROVE  Onward(f)
  <2>1. row' = [row EXCEPT ![g] = row'[g]] /\ row'[g].state = row[g].state
    BY <1>1, <1>8 DEF ClaimTransfer, Rows
  <2> QED BY <1>1, <2>1 DEF Onward
<1>9. ASSUME NEW h \in Handlers, RecordTransfer(h) \/ ReleaseClaim(h)
      PROVE  Onward(f)
  <2> DEFINE g == handler[h].file
  <2>1. CASE row' = [row EXCEPT ![g] = Released(row[g])]
    BY <1>1, <2>1 DEF Onward, Released, Rows
  <2>2. CASE Mine(h) /\ row' = [row EXCEPT ![g] = Aborted(row[g])]
    BY <1>1, <2>2 DEF Onward, Mine, Aborted, Rows
  <2>3. CASE /\ Mine(h)
             /\ row' = [row EXCEPT ![g] =
                  Recorded(row[g], handler[h].part, handler[h].result)]
    BY <1>1, <2>3 DEF Onward, Mine
  <2>4. row' = [row EXCEPT ![g] = row[g]] => row' = row
    BY <1>1
  <2> QED BY <1>2, <1>9, <2>1, <2>2, <2>3, <2>4 DEF RecordTransfer, ReleaseClaim
<1>10. CASE SweepSkips \/ SweepDeletes \/ SweepFails
  <2> PICK g \in Files : g = Head(sweep)
    BY <1>10, SweepTyped DEF SweepSkips, SweepDeletes, SweepFails, IInv
  <2>1. CASE SweepSkips
    BY <1>1, <2>1 DEF Onward, SweepSkips, Parentless, Deleting, Rows
  <2>2. CASE SweepDeletes
    BY <1>1, <2>2 DEF Onward, SweepDeletes, StillCollectable, Collectable, Unfinished, Gone, Row
  <2>3. CASE SweepFails
    BY <1>1, <2>3 DEF Onward, SweepFails, InFiveMinutes, Rows
  <2> QED BY <1>10, <2>1, <2>2, <2>3
<1>11. CASE \E h \in Handlers : Put(h) \/ RecordFails(h) \/ CleanUp(h) \/ Crash(h)
  BY <1>2, <1>11 DEF Put, RecordFails, CleanUp, Crash
<1>12. CASE LoadCandidates \/ SweepCrashes \/ UNCHANGED vars
  BY <1>2, <1>12 DEF LoadCandidates, SweepCrashes, vars
<1> QED BY <1>3, <1>4, <1>5, <1>7, <1>8, <1>9, <1>10, <1>11, <1>12 DEF Next, PartNames

(* What was aborted or deleted stays so, and what was committed leaves that *)
(* state for its deletion only, whichever transaction comes late.           *)
THEOREM NothingComesBack == Spec => NoWayBack
<1>1. IInv /\ [Next]_vars => [\A f \in Files : Onward(f)]_vars
  BY StepsOnward
<1>2. [\A f \in Files : Onward(f)]_vars =>
        [\A f \in Files :
           /\ row[f].state = "aborted"   => row'[f].state \in {"aborted", "gone"}
           /\ row[f].state = "deleting"  => row'[f].state \in {"deleting", "gone"}
           /\ row[f].state = "committed" => row'[f].state \in {"committed", "deleting"}]_vars
  BY DEF Onward
<1> QED BY <1>1, <1>2, Inductive, PTL DEF Spec, NoWayBack
=============================================================================
