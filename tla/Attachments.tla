----------------------------- MODULE Attachments -----------------------------
(***************************************************************************)
(* Encrypted attachments (server/attachments/routes.ts, sweep.ts): rows in *)
(* PostgreSQL and objects in a blob store, which share no transaction.     *)
(*                                                                         *)
(* A file is reserved, transferred in one or two parts, finalized, deleted *)
(* and finally swept.  A transfer claims the row in one transaction, puts  *)
(* the object with no lock held, and records what it put in another one;   *)
(* a claim lapses after five minutes, and the next claim fences it.  Every *)
(* claim puts its object under a key of its own.                           *)
(*                                                                         *)
(* A transaction is one action: all of them lock the row first.  So does   *)
(* the sweep, which holds that lock while it deletes the row's objects.    *)
(***************************************************************************)
EXTENDS Integers, FiniteSets, Sequences, SequencesExt

CONSTANTS
  Files,          \* attachment ids, in the order of the ids
  Thumbed,        \* those reserved with a thumbnail
  Stuck,          \* those whose objects the store fails to delete
  Handlers,       \* requests that may be in progress at once
  BatchSize,      \* candidates of one sweep
  MaxTransfers,   \* bound on claims, each of which draws a token and a key
  MaxFaults       \* bound on deaths, lost replies and failed deletions

ASSUME AttachmentsAssumption ==
  /\ Files \subseteq Nat /\ IsFiniteSet(Files)
  /\ Thumbed \subseteq Files /\ Stuck \subseteq Files
  /\ BatchSize \in Nat \ {0}
  /\ MaxTransfers \in Nat /\ MaxFaults \in Nat

VARIABLES
  row,            \* the attachment table
  context,        \* what the row's parent and the uploader's rights are like
  blob,           \* the store: the length of the object under each key
  handler,        \* requests in progress
  sweep,          \* candidates that the running sweep has not dealt with
  retryQueue,     \* rows with a gc_retry_at, in its order
  transfers, faults

vars == <<row, context, blob, handler, sweep, retryQueue, transfers, faults>>

-----------------------------------------------------------------------------
Parts(f) == IF f \in Thumbed THEN {"content", "thumbnail"} ELSE {"content"}
Keys == Files \X {"content", "thumbnail"} \X (0..MaxTransfers)
Lengths == {"declared", "shorter"}
Unfinished == {"reserved", "uploading", "aborted"}

(* Key and token 0: the key a row is reserved with, and no token.           *)
Row(state) ==
  [state |-> state, token |-> 0, leased |-> FALSE,
   key |-> [p \in {"content", "thumbnail"} |-> 0],
   seen |-> [p \in {"content", "thumbnail"} |-> "null"],
   expired |-> FALSE, retained |-> FALSE, retry |-> "null"]

NoRow == Row("none")
Reserved == Row("reserved")
Gone == Row("gone")

(* A request without a transfer, which has keys to delete, or none.         *)
Request(step, keys) ==
  [step |-> step, file |-> 0, part |-> "content", token |-> 0, key |-> 0,
   recorded |-> FALSE, result |-> "none", todo |-> keys]

Idle == Request("idle", {})

Rows ==
  [state : Unfinished \cup {"none", "committed", "deleting", "gone"},
   token : 0..MaxTransfers, leased : BOOLEAN,
   key : [{"content", "thumbnail"} -> 0..MaxTransfers],
   seen : [{"content", "thumbnail"} -> Lengths \cup {"null"}],
   expired : BOOLEAN, retained : BOOLEAN, retry : {"null", "later", "now"}]

Requests ==
  [step : {"idle", "putting", "stored", "unsure", "cleaning"},
   file : Files \cup {0}, part : {"content", "thumbnail"},
   token : 0..MaxTransfers, key : 0..MaxTransfers, recorded : BOOLEAN,
   result : Lengths \cup {"none", "tooLarge", "failed"}, todo : SUBSET Keys]

TypeOK ==
  /\ row \in [Files -> Rows]
  /\ context \in [Files -> {"whole", "denied", "closed", "going", "gone"}]
  /\ blob \in [Keys -> Lengths \cup {"none"}]
  /\ handler \in [Handlers -> Requests]
  /\ sweep \in Seq(Files)
  /\ transfers \in 0..MaxTransfers
  /\ faults \in 0..MaxFaults

(* What the store cannot delete was left by an account that was deleted.    *)
Init ==
  /\ row = [f \in Files |-> IF f \in Stuck
                            THEN [Row("aborted") EXCEPT !.expired = TRUE]
                            ELSE NoRow]
  /\ context = [f \in Files |-> IF f \in Stuck THEN "closed" ELSE "whole"]
  /\ blob = [k \in Keys |-> IF k[1] \in Stuck /\ k[2] = "content" /\ k[3] = 0
                            THEN "shorter" ELSE "none"]
  /\ handler = [h \in Handlers |-> Idle]
  /\ sweep = <<>>
  /\ retryQueue = <<>>
  /\ transfers = 0
  /\ faults = 0

-----------------------------------------------------------------------------
(* Helpers *)

Fault == faults < MaxFaults /\ faults' = faults + 1

StorageKeys(f) == {<<f, p, row[f].key[p]>> : p \in Parts(f)}

(* validateTransfer, validateAttachmentWrite.                               *)
MayWrite(f) == context[f] \in {"whole", "going"}
HasUploader(f) == context[f] # "closed"
Valid(f) == ~row[f].expired /\ MayWrite(f)

Aborted(r) == IF r.state = "aborted" THEN r
              ELSE [r EXCEPT !.state = "aborted", !.token = 0, !.leased = FALSE]
Released(r) == [r EXCEPT !.token = 0, !.leased = FALSE]
Deleting(r) == [r EXCEPT !.state = "deleting", !.retained = TRUE]

(* A request that is left with keys to delete, or is done.                  *)
CleaningUp(keys) ==
  IF keys = {} THEN Idle ELSE Request("cleaning", keys)

Without(keys) == [k \in Keys |-> IF k \in keys THEN "none" ELSE blob[k]]

Deletable(keys) == {k \in keys : k[1] \notin Stuck}

-----------------------------------------------------------------------------
(* Reserving and transferring *)

Reserve(f) ==
  /\ row[f].state = "none"
  /\ MayWrite(f)
  /\ row' = [row EXCEPT ![f] = Reserved]
  /\ UNCHANGED <<context, blob, handler, sweep, retryQueue, transfers, faults>>

(* The claim of transferAttachment.                                         *)
Claimable(f, p) ==
  LET r == row[f]
  IN  /\ p \in Parts(f)
      /\ ~(r.token # 0 /\ r.leased)
      /\ IF p = "content" THEN r.state = "reserved"
         ELSE r.state = "uploading" /\ r.seen["content"] # "null"

KeyOfReservation(n) == 0
DrawnKey(n) == n

ClaimTransfer(h, f, p) ==
  LET r == row[f]
      recorded == p = "thumbnail" /\ r.seen[p] # "null"
      n == transfers + 1
      retired == IF recorded THEN {} ELSE {<<f, p, r.key[p]>>}
  IN  /\ handler[h] = Idle
      /\ Claimable(f, p)
      /\ Valid(f)
      /\ transfers < MaxTransfers
      /\ transfers' = n
      /\ row' = [row EXCEPT ![f] =
           [r EXCEPT !.token = n, !.leased = TRUE,
                     !.key = IF recorded THEN @ ELSE [@ EXCEPT ![p] = DrawnKey(n)]]]
      /\ handler' = [handler EXCEPT ![h] =
           [step |-> "putting", file |-> f, part |-> p, token |-> n,
            key |-> DrawnKey(n), recorded |-> recorded, result |-> "none",
            todo |-> retired]]
      /\ UNCHANGED <<context, blob, sweep, retryQueue, faults>>

ClaimInvalid(h, f, p) ==
  /\ handler[h] = Idle
  /\ HasUploader(f)
  /\ Claimable(f, p)
  /\ ~Valid(f)
  /\ row' = [row EXCEPT ![f] = Aborted(@)]
  /\ handler' = [handler EXCEPT ![h] = CleaningUp(StorageKeys(f))]
  /\ UNCHANGED <<context, blob, sweep, retryQueue, transfers, faults>>

KeyOf(h) == <<handler[h].file, handler[h].part, handler[h].key>>

(* What a deletion of these keys may leave deleted: all that the store can  *)
(* delete, or less if it fails.                                             *)
Deletes(keys, deleted) ==
  /\ deleted \subseteq Deletable(keys)
  /\ IF deleted = Deletable(keys) THEN UNCHANGED faults ELSE Fault

(* The retired key is deleted, and the object put under the new one.  The   *)
(* store takes an object whole or not at all; a put that fails may have     *)
(* stored it all the same, one that is too large is cut off before.         *)
Outcomes ==
  {<<l, l>> : l \in Lengths} \cup
    {<<"tooLarge", "none">>, <<"failed", "none">>, <<"failed", "declared">>}

Put(h) ==
  /\ handler[h].step = "putting"
  /\ \E outcome \in Outcomes, deleted \in SUBSET handler[h].todo :
       /\ Deletes(handler[h].todo, deleted)
       /\ blob' = IF outcome[2] = "none" THEN Without(deleted)
                  ELSE [Without(deleted) EXCEPT ![KeyOf(h)] = outcome[2]]
       /\ handler' = [handler EXCEPT ![h] =
            [@ EXCEPT !.step = "stored", !.result = outcome[1], !.todo = {}]]
  /\ UNCHANGED <<row, context, sweep, retryQueue, transfers>>

(* Whether the row is still this transfer's when it is locked again.        *)
MineByToken(h) == row[handler[h].file].token = handler[h].token

Mine(h) ==
  /\ row[handler[h].file].token = handler[h].token
  /\ row[handler[h].file].state =
       IF handler[h].part = "content" THEN "reserved" ELSE "uploading"

(* The key that the loser of a claim deletes: its own, which the row may    *)
(* not name any more.                                                       *)
NothingLeft(h) == {}
LeftBehind(h) == {KeyOf(h)}

(* The row, if the put came off.                                            *)
Recorded(r, p, length) ==
  [Released(r) EXCEPT !.state = "uploading", !.seen = [@ EXCEPT ![p] = length]]

(* The reply to the commit may be lost: then the transfer does not know.    *)
Committed(h, keys) ==
  \/ /\ handler' = [handler EXCEPT ![h] = CleaningUp(keys)]
     /\ UNCHANGED faults
  \/ /\ Fault
     /\ handler' = [handler EXCEPT ![h].step = "unsure"]

(* The second transaction of transferAttachment.                            *)
RecordTransfer(h) ==
  LET t == handler[h]
      r == row[t.file]
      own == {KeyOf(h)}
  IN  /\ t.step = "stored"
      /\ \/ /\ ~Mine(h)
            /\ UNCHANGED row
            /\ Committed(h, LeftBehind(h))
         \/ /\ Mine(h)
            /\ ~Valid(t.file) \/ t.result = "tooLarge"
            /\ row' = [row EXCEPT ![t.file] = Aborted(r)]
            /\ Committed(h, StorageKeys(t.file) \cup own)
         \/ /\ Mine(h)
            /\ Valid(t.file)
            /\ t.result = "failed" \/ (t.result \in Lengths /\ t.recorded)
            /\ row' = [row EXCEPT ![t.file] = Released(r)]
            /\ Committed(h, own)
         \/ /\ Mine(h)
            /\ Valid(t.file)
            /\ t.result \in Lengths
            /\ ~t.recorded
            /\ row' = [row EXCEPT ![t.file] = Recorded(r, t.part, t.result)]
            /\ Committed(h, {})
      /\ UNCHANGED <<context, blob, sweep, retryQueue, transfers>>

(* ... or it fails.                                                         *)
RecordFails(h) ==
  /\ handler[h].step = "stored"
  /\ Fault
  /\ handler' = [handler EXCEPT ![h].step = "unsure"]
  /\ UNCHANGED <<row, context, blob, sweep, retryQueue, transfers>>

(* The transaction that finds out.                                          *)
Published(h) ==
  LET t == handler[h]
      r == row[t.file]
  IN  r.state # "gone" /\ r.key[t.part] = t.key /\ r.seen[t.part] # "null"

ReleaseClaim(h) ==
  LET f == handler[h].file
  IN  /\ handler[h].step = "unsure"
      /\ row' = [row EXCEPT ![f] = IF MineByToken(h) THEN Released(@) ELSE @]
      /\ handler' = [handler EXCEPT ![h] =
           CleaningUp(IF MineByToken(h) \/ ~Published(h) THEN {KeyOf(h)} ELSE {})]
      /\ UNCHANGED <<context, blob, sweep, retryQueue, transfers, faults>>

(* The deletions at the end of a request; what fails is left to the sweep,  *)
(* if the row names it.                                                     *)
CleanUp(h) ==
  /\ handler[h].step = "cleaning"
  /\ \E deleted \in SUBSET handler[h].todo :
       /\ Deletes(handler[h].todo, deleted)
       /\ blob' = Without(deleted)
  /\ handler' = [handler EXCEPT ![h] = Idle]
  /\ UNCHANGED <<row, context, sweep, retryQueue, transfers>>

(* The process dies, or a transaction that only reads fails.                *)
Crash(h) ==
  /\ handler[h] # Idle
  /\ Fault
  /\ handler' = [handler EXCEPT ![h] = Idle]
  /\ UNCHANGED <<row, context, blob, sweep, retryQueue, transfers>>

-----------------------------------------------------------------------------
(* Finalizing, aborting, deleting *)

(* reservation_expires_at is null from then on, which a transfer takes for  *)
(* expired.                                                                 *)
AllObserved(f) == \A p \in Parts(f) : row[f].seen[p] = "declared"

Finalize(f) ==
  /\ row[f].state = "uploading"
  /\ row[f].token = 0
  /\ Valid(f)
  /\ AllObserved(f)
  /\ row' = [row EXCEPT ![f] = [@ EXCEPT !.state = "committed", !.expired = TRUE]]
  /\ UNCHANGED <<context, blob, handler, sweep, retryQueue, transfers, faults>>

FinalizeInvalid(h, f) ==
  /\ handler[h] = Idle
  /\ HasUploader(f)
  /\ row[f].state = "uploading"
  /\ row[f].token = 0
  /\ ~(Valid(f) /\ AllObserved(f))
  /\ row' = [row EXCEPT ![f] = Aborted(@)]
  /\ handler' = [handler EXCEPT ![h] = CleaningUp(StorageKeys(f))]
  /\ UNCHANGED <<context, blob, sweep, retryQueue, transfers, faults>>

AbortUpload(h, f) ==
  /\ handler[h] = Idle
  /\ HasUploader(f)
  /\ row[f].state \in Unfinished
  /\ row' = [row EXCEPT ![f] = Aborted(@)]
  /\ handler' = [handler EXCEPT ![h] = CleaningUp(StorageKeys(f))]
  /\ UNCHANGED <<context, blob, sweep, retryQueue, transfers, faults>>

DeleteFile(f) ==
  /\ row[f].state = "committed"
  /\ row' = [row EXCEPT ![f] = Deleting(@)]
  /\ UNCHANGED <<context, blob, handler, sweep, retryQueue, transfers, faults>>

(* The parent is deleted: committed attachments are retired by a statement  *)
(* that a finalization may still follow, before the parent's row goes.      *)
RetireParent(f) ==
  /\ context[f] = "whole"
  /\ context' = [context EXCEPT ![f] = "going"]
  /\ row' = [row EXCEPT ![f] = IF @.state = "committed" THEN Deleting(@) ELSE @]
  /\ UNCHANGED <<blob, handler, sweep, retryQueue, transfers, faults>>

DeleteParent(f) ==
  /\ context[f] = "going"
  /\ context' = [context EXCEPT ![f] = "gone"]
  /\ UNCHANGED <<row, blob, handler, sweep, retryQueue, transfers, faults>>

(* A removal, a change of role, or a rotation of the workspace's key.       *)
LoseAccess(f) ==
  /\ context[f] = "whole"
  /\ context' = [context EXCEPT ![f] = "denied"]
  /\ UNCHANGED <<row, blob, handler, sweep, retryQueue, transfers, faults>>

(* removePersonalData: it leaves the token of a transfer in progress.       *)
DeleteAccount(f) ==
  /\ context[f] = "whole"
  /\ context' = [context EXCEPT ![f] = "closed"]
  /\ row' = [row EXCEPT ![f] =
       CASE @.state = "committed"   -> Deleting(@)
         [] @.state \in Unfinished  -> [@ EXCEPT !.state = "aborted", !.expired = TRUE]
         [] OTHER                   -> @]
  /\ UNCHANGED <<blob, handler, sweep, retryQueue, transfers, faults>>

-----------------------------------------------------------------------------
(* Time *)

Expire(f) ==
  /\ row[f].state \in Unfinished
  /\ ~row[f].expired
  /\ row' = [row EXCEPT ![f].expired = TRUE]
  /\ UNCHANGED <<context, blob, handler, sweep, retryQueue, transfers, faults>>

LeaseEnds(f) ==
  /\ row[f].leased
  /\ row' = [row EXCEPT ![f].leased = FALSE]
  /\ UNCHANGED <<context, blob, handler, sweep, retryQueue, transfers, faults>>

RetentionEnds(f) ==
  /\ row[f].state = "deleting"
  /\ row[f].retained
  /\ row' = [row EXCEPT ![f].retained = FALSE]
  /\ UNCHANGED <<context, blob, handler, sweep, retryQueue, transfers, faults>>

RetryComes(f) ==
  /\ row[f].retry = "later"
  /\ \A i \in 1..Len(retryQueue) : retryQueue[i] = f =>
       \A j \in 1..(i - 1) : row[retryQueue[j]].retry = "now"
  /\ row' = [row EXCEPT ![f].retry = "now"]
  /\ UNCHANGED <<context, blob, handler, sweep, retryQueue, transfers, faults>>

-----------------------------------------------------------------------------
(* The sweep, on the connection that holds the leader's lock *)

Collectable(f) ==
  \/ row[f].state \in Unfinished /\ row[f].expired
  \/ row[f].state = "deleting" /\ ~row[f].retained

Parentless(f) == row[f].state = "committed" /\ context[f] = "gone"

(* order by gc_retry_at nulls first, id                                     *)
Before(f, g) ==
  LET place(x) == CHOOSE i \in 1..Len(retryQueue) : retryQueue[i] = x
  IN  \/ row[f].retry = "null" /\ row[g].retry # "null"
      \/ row[f].retry = "null" /\ row[g].retry = "null" /\ f < g
      \/ row[f].retry # "null" /\ row[g].retry # "null" /\ place(f) < place(g)

Candidates == {f \in Files : row[f].retry # "later" /\ (Collectable(f) \/ Parentless(f))}

LoadCandidates ==
  /\ sweep = <<>>
  /\ Candidates # {}
  /\ \E n \in 1..BatchSize : \E batch \in [1..n -> Candidates] :
       /\ n = BatchSize \/ n = Cardinality(Candidates)
       /\ \A i, j \in 1..n : i < j => Before(batch[i], batch[j])
       /\ \A i \in 1..n, f \in Candidates : f \notin Range(batch) => Before(batch[i], f)
       /\ sweep' = batch
  /\ UNCHANGED <<row, context, blob, handler, retryQueue, transfers, faults>>

Dequeued(f) == SelectSeq(retryQueue, LAMBDA g : g # f)

(* The candidate was read before: what it is now decides.                   *)
AnyCandidate(f) == TRUE
StillCollectable(f) == Collectable(f)

SweepSkips ==
  LET f == Head(sweep)
  IN  /\ sweep # <<>>
      /\ ~StillCollectable(f)
      /\ row' = [row EXCEPT ![f] = IF Parentless(f) THEN Deleting(@) ELSE @]
      /\ sweep' = Tail(sweep)
      /\ UNCHANGED <<context, blob, handler, retryQueue, transfers, faults>>

SweepDeletes ==
  LET f == Head(sweep)
  IN  /\ sweep # <<>>
      /\ StillCollectable(f)
      /\ StorageKeys(f) = Deletable(StorageKeys(f))
      /\ blob' = Without(StorageKeys(f))
      /\ row' = [row EXCEPT ![f] = Gone]
      /\ retryQueue' = Dequeued(f)
      /\ sweep' = Tail(sweep)
      /\ UNCHANGED <<context, handler, transfers, faults>>

(* The row and its place in the order after its objects were not deleted.   *)
AtOnce(f) == [retry |-> row[f].retry, queue |-> retryQueue]
InFiveMinutes(f) == [retry |-> "later", queue |-> Append(Dequeued(f), f)]

SweepFails ==
  LET f == Head(sweep)
  IN  /\ sweep # <<>>
      /\ StillCollectable(f)
      /\ IF f \in Stuck THEN UNCHANGED faults ELSE Fault
      /\ \E deleted \in SUBSET Deletable(StorageKeys(f)) : blob' = Without(deleted)
      /\ row' = [row EXCEPT ![f].retry = InFiveMinutes(f).retry]
      /\ retryQueue' = InFiveMinutes(f).queue
      /\ sweep' = Tail(sweep)
      /\ UNCHANGED <<context, handler, transfers>>

(* The process or its connection dies, perhaps between the deletion of the  *)
(* objects and that of the row, which is rolled back.                       *)
SweepCrashes ==
  LET f == Head(sweep)
  IN  /\ sweep # <<>>
      /\ Fault
      /\ \E deleted \in SUBSET (IF StillCollectable(f) THEN Deletable(StorageKeys(f)) ELSE {}) :
           blob' = Without(deleted)
      /\ sweep' = <<>>
      /\ UNCHANGED <<row, context, handler, retryQueue, transfers>>

-----------------------------------------------------------------------------
Next ==
  \/ \E f \in Files :
       \/ Reserve(f) \/ Finalize(f) \/ DeleteFile(f)
       \/ RetireParent(f) \/ DeleteParent(f) \/ LoseAccess(f) \/ DeleteAccount(f)
       \/ Expire(f) \/ LeaseEnds(f) \/ RetentionEnds(f) \/ RetryComes(f)
  \/ \E h \in Handlers, f \in Files :
       \/ FinalizeInvalid(h, f) \/ AbortUpload(h, f)
       \/ \E p \in {"content", "thumbnail"} : ClaimTransfer(h, f, p) \/ ClaimInvalid(h, f, p)
  \/ \E h \in Handlers :
       \/ Put(h) \/ RecordTransfer(h) \/ RecordFails(h) \/ ReleaseClaim(h)
       \/ CleanUp(h) \/ Crash(h)
  \/ LoadCandidates \/ SweepSkips \/ SweepDeletes \/ SweepFails \/ SweepCrashes

(* Clocks go on, a deletion that has begun ends, and the sweep runs again   *)
(* and again.  Nothing is assumed of requests.                              *)
Fairness ==
  /\ \A f \in Files : /\ WF_vars(Expire(f)) /\ WF_vars(RetentionEnds(f))
                      /\ WF_vars(RetryComes(f)) /\ WF_vars(DeleteParent(f))
  /\ WF_vars(LoadCandidates)
  /\ WF_vars(SweepSkips \/ SweepDeletes \/ SweepFails)

Spec == Init /\ [][Next]_vars /\ Fairness

-----------------------------------------------------------------------------
(* Properties *)

(* What can be downloaded is there, and is what was observed: no transfer   *)
(* that lost its claim, aborted request, late cleanup or sweep deletes or   *)
(* overwrites the object of a committed file, nor of a deleted one as long  *)
(* as it is retained.                                                       *)
KeptHasBlob ==
  \A f \in Files :
    row[f].state = "committed" \/ (row[f].state = "deleting" /\ row[f].retained) =>
      \A p \in Parts(f) : /\ row[f].seen[p] = "declared"
                          /\ blob[<<f, p, row[f].key[p]>>] = "declared"

(* An object that no row names and no request is going to delete is left    *)
(* behind by a fault only (docs/runbooks/attachment-storage.md:39-42), and  *)
(* at most one by each.                                                     *)
HeldBy(h) ==
  handler[h].todo \cup
    IF handler[h].step \in {"putting", "stored", "unsure"}
    THEN {KeyOf(h)} ELSE {}

Orphans ==
  {k \in Keys : /\ blob[k] # "none"
                /\ row[k[1]].state \in {"none", "gone"} \/ k \notin StorageKeys(k[1])
                /\ \A h \in Handlers : k \notin HeldBy(h)}

OrphansNeedAFault == Cardinality(Orphans) <= faults

(* No late transaction brings back what was aborted or deleted, and a       *)
(* committed file is never open to a transfer again.                        *)
NoWayBack ==
  [][\A f \in Files :
       /\ row[f].state = "aborted"   => row'[f].state \in {"aborted", "gone"}
       /\ row[f].state = "deleting"  => row'[f].state \in {"deleting", "gone"}
       /\ row[f].state = "committed" => row'[f].state \in {"committed", "deleting"}]_vars

(* Every reservation is committed or swept, every deleted file and every    *)
(* file of a deleted parent is swept, although the first object in the      *)
(* order can never be deleted (docs/runbooks/attachment-storage.md:111).    *)
SweptInTheEnd ==
  \A f \in Files \ Stuck :
    /\ row[f].state \in Unfinished \cup {"deleting"} ~> row[f].state \in {"committed", "gone"}
    /\ Parentless(f) ~> row[f].state = "gone"
=============================================================================
