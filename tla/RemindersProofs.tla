--------------------------- MODULE RemindersProofs ---------------------------
(***************************************************************************)
(* Nobody is reminded too much, or too late: theorems about the scheduler, *)
(* for any users, policies, edits and losses of the leader.                *)
(*                                                                         *)
(* What a scan has read may be stale, so a step is described by what it    *)
(* may do to one row (Change), and the invariant by what a row and the     *)
(* queue of its recipient look like between any two steps.                 *)
(***************************************************************************)
EXTENDS Reminders, TLAPS

(* The row of a recipient, its fire counts in the outbox, and all that were *)
(* ever put there.                                                          *)
RowInv(u, r, o, q) ==
  /\ r \in Rows /\ r.fireCount <= MostSends
  /\ o \subseteq q /\ q \subseteq 1..r.fireCount
  /\ r.status = "absent" => r.fireCount = 0
  /\ r.status = "deferred" =>
       r.fireCount = 0 /\ r.deferredUntil # "null" /\ r.nextAt = "null" /\ q = {}
  /\ r.status = "pending" =>
       /\ r.fireCount > 0 /\ r.deferredUntil = "null"
       /\ u \in Reachable => q # {}
  /\ r.status \in Settled => r.nextAt = "null" /\ r.deferredUntil = "null"
  /\ r.status = "failed" => o = {}

RowsOK == \A u \in Users : RowInv(u, row[u], outbox[u], queued[u])

(* A handoff that was decided is one to somebody else.                      *)
HandoffOK ==
  scan.phase = "handoff" => scan.from \in Users /\ scan.to \in Users \ {scan.from}

IInv == TypeOK /\ RowsOK /\ HandoffOK

(* What a step may do to the row of a recipient.                            *)
Fired(u) ==
  /\ row[u].status \in Live \cup {"absent"} /\ ~done /\ u \in members
  /\ \/ row'[u].status = "deferred" /\ row'[u].fireCount = row[u].fireCount
     \/ /\ row'[u].status \in {"pending", "failed"} /\ row'[u].fireCount \notin queued[u]
        /\ row'[u].fireCount # row[u].fireCount
        /\ row'[u].status = "pending" => (row'[u].nextAt # "null" <=> Repeats(u))

TimerMoved(u) ==
  /\ row[u].status \notin Settled
  /\ row'[u].status = row[u].status /\ row'[u].fireCount = row[u].fireCount
  /\ row'[u].nextAt = "null" <=> row[u].nextAt = "null"

Acked(u) ==
  /\ row'[u] = Settle(row[u], "acked")
  /\ \A v \in Users : row'[v].status \notin Live

Expired(u) ==
  /\ row'[u] = Settle(row[u], "expired")
  /\ row[u].status \in Live \/ u \notin members'

HandedOff(u) ==
  /\ row'[u] = Settle(row[u], "escalated")
  /\ row[u].status = "pending" /\ u \in Base
  /\ \E f \in members \ {u} : FallbackOf(u) = f /\ row'[f].status # "absent"

Change(u) ==
  row'[u] = row[u] \/ Fired(u) \/ TimerMoved(u) \/ Acked(u) \/ Expired(u) \/ HandedOff(u)

-----------------------------------------------------------------------------
(* Facts about the data *)

LEMMA MostBounded == MostSends \in Nat /\ MostSends >= 1 /\ MAX_REPEATS_CAP <= MostSends
BY RemindersAssumption DEF MostSends, Larger

LEMMA RepeatsBounded ==
  ASSUME policy \in Policies, defaults \in [Users -> Defaults], NEW u \in Users
  PROVE  MaxRepeats(u) \in Nat /\ MaxRepeats(u) <= MAX_REPEATS_CAP
<1>1. /\ policy.max \in Nat \cup {Inherit} /\ defaults[u].max \in Nat \cup {Inherit}
      /\ MAX_REPEATS_CAP \in Nat /\ DEFAULT_MAX_REPEATS \in Nat
  BY RemindersAssumption DEF Policies, Defaults
<1> QED BY <1>1 DEF MaxRepeats, Smaller

LEMMA SendsBounded ==
  ASSUME policy \in Policies, defaults \in [Users -> Defaults], NEW u \in Users
  PROVE  MaxSends(u) \in Nat /\ MaxSends(u) >= 1
BY RepeatsBounded DEF MaxSends, Larger

LEMMA SettleOK ==
  ASSUME NEW u \in Users, NEW r, NEW o, NEW q, RowInv(u, r, o, q),
         NEW s \in {"acked", "expired", "escalated"}
  PROVE  RowInv(u, Settle(r, s), o, q)
<1> DEFINE w == Settle(r, s)
<1>1. /\ w \in Rows /\ w.status = s /\ w.fireCount = r.fireCount
      /\ w.nextAt = "null" /\ w.deferredUntil = "null"
  BY DEF RowInv, Settle, Rows, Settled, Timers
<1>2. w.fireCount <= MostSends /\ o \subseteq q /\ q \subseteq 1..w.fireCount
  BY <1>1 DEF RowInv
<1>3. w.status \notin {"absent", "deferred", "pending", "failed"}
  BY <1>1
<1> HIDE DEF w
<1>4. RowInv(u, w, o, q)
  BY <1>1, <1>2, <1>3 DEF RowInv
<1> QED BY <1>4 DEF w

LEMMA FiringOK ==
  ASSUME TypeOK, NEW u \in Users, RowInv(u, row[u], outbox[u], queued[u]),
         NEW n \in 1..MostSends, queued[u] \subseteq 1..(n - 1),
         NEW outcome \in Firings(u, n)
  PROVE  /\ RowInv(u, outcome.row, outbox[u] \cup outcome.queued,
                   queued[u] \cup outcome.queued)
         /\ outcome.row.status \in {"pending", "failed"}
         /\ outcome.row.fireCount = n /\ n \notin queued[u]
         /\ outcome.row.status = "pending" => (outcome.row.nextAt # "null" <=> Repeats(u))
         /\ outcome.queued \in SUBSET Nat
<1>1. PICK e \in Enqueued(u, n) :
        outcome = [row |-> FiredRow(u, n, e),
                   queued |-> IF e = "inserted" THEN {n} ELSE {}]
  BY DEF Firings
<1>2. n \in Nat /\ n >= 1 /\ n <= MostSends /\ n \notin queued[u]
  BY MostBounded
<1>3. outbox[u] \subseteq queued[u] /\ queued[u] \subseteq 1..n
  BY <1>2 DEF RowInv
<1> DEFINE r == outcome.row
           k == outcome.queued
<1>4. /\ r \in Rows /\ r.fireCount = n /\ r.deferredUntil = "null"
      /\ r.status = IF Lost(u, e) THEN "failed" ELSE "pending"
      /\ r.nextAt = IF ~Lost(u, e) /\ Repeats(u) THEN "ahead" ELSE "null"
  BY <1>1, <1>2 DEF FiredRow, Rows, Live, Settled, Timers
<1>5. k = IF e = "inserted" THEN {n} ELSE {}
  BY <1>1
<1>6. /\ Lost(u, e) => e = "refused" /\ outbox[u] = {}
      /\ u \in Reachable /\ ~Lost(u, e) => e = "inserted" \/ outbox[u] # {}
  BY <1>2, <1>3 DEF Lost, Enqueued
<1> HIDE DEF r, k
<1>7. RowInv(u, r, outbox[u] \cup k, queued[u] \cup k)
  <2>1. outbox[u] \cup k \subseteq queued[u] \cup k /\ queued[u] \cup k \subseteq 1..r.fireCount
    BY <1>2, <1>3, <1>4, <1>5
  <2>2. r.status = "pending" /\ u \in Reachable => queued[u] \cup k # {}
    BY <1>3, <1>4, <1>5, <1>6
  <2>3. r.status = "failed" => outbox[u] \cup k = {}
    BY <1>4, <1>5, <1>6
  <2> QED BY <1>2, <1>4, <2>1, <2>2, <2>3 DEF RowInv, Settled
<1> QED BY <1>2, <1>4, <1>5, <1>7 DEF r, k

(* A row that waits for its first notification.                             *)
Fresh(u) == row[u].status = "absent" \/ WakeReady(u)

LEMMA FirstFiringOK ==
  ASSUME TypeOK, NEW u \in Users, RowInv(u, row[u], outbox[u], queued[u]), Fresh(u),
         NEW outcome \in FirstFirings(u)
  PROVE  /\ RowInv(u, outcome.row, outbox[u] \cup outcome.queued,
                   queued[u] \cup outcome.queued)
         /\ row[u].status \in Live \cup {"absent"} /\ row[u].fireCount = 0
         /\ \/ outcome.row.status = "deferred" /\ outcome.row.fireCount = row[u].fireCount
            \/ /\ outcome.row.status \in {"pending", "failed"}
               /\ outcome.row.fireCount = 1 /\ outcome.row.fireCount \notin queued[u]
               /\ outcome.row.status = "pending" =>
                    (outcome.row.nextAt # "null" <=> Repeats(u))
         /\ outcome.queued \in SUBSET Nat
<1>1. /\ queued[u] = {} /\ row[u] \in Rows /\ row[u].fireCount = 0
      /\ row[u].status \in Live \cup {"absent"}
  BY DEF RowInv, Fresh, WakeReady, Live
<1>2. CASE outcome \in Firings(u, 1)
  <2>1. PICK n \in 1..MostSends : n = 1
    BY MostBounded
  <2>2. queued[u] \subseteq 1..(n - 1) /\ outcome \in Firings(u, n)
    BY <1>1, <1>2, <2>1
  <2>3. /\ RowInv(u, outcome.row, outbox[u] \cup outcome.queued,
                  queued[u] \cup outcome.queued)
        /\ outcome.row.status \in {"pending", "failed"}
        /\ outcome.row.fireCount = n /\ n \notin queued[u]
        /\ outcome.row.status = "pending" => (outcome.row.nextAt # "null" <=> Repeats(u))
        /\ outcome.queued \in SUBSET Nat
    BY <2>2, FiringOK
  <2> QED BY <1>1, <2>1, <2>3
<1>3. CASE outcome \in Deferrals(u)
  <2> DEFINE r == [row[u] EXCEPT !.status = "deferred", !.nextAt = "null",
                                 !.deferredUntil = "ahead"]
  <2>1. outcome = [row |-> r, queued |-> {}]
    BY <1>3 DEF Deferrals
  <2>2. /\ r \in Rows /\ r.status = "deferred" /\ r.nextAt = "null"
        /\ r.deferredUntil = "ahead" /\ r.fireCount = row[u].fireCount
    BY <1>1 DEF Rows, Live, Timers
  <2> HIDE DEF r
  <2>3. outcome.row = r /\ outcome.queued = {}
    BY <2>1
  <2>4. RowInv(u, r, outbox[u], queued[u])
    BY <1>1, <2>2 DEF RowInv, Settled
  <2> QED BY <1>1, <2>2, <2>3, <2>4
<1> QED BY <1>2, <1>3 DEF FirstFirings

-----------------------------------------------------------------------------
(* Steps on rows *)

(* What is left of the invariant and the types when the rows are dealt with.*)
Scans ==
  [phase : {"idle", "create", "sweep", "handoff"}, todo : SUBSET (Users \X Branches),
   from : Users \cup {NoUser}, to : Users \cup {NoUser}]

RowsTyped ==
  /\ row \in [Users -> Rows]
  /\ outbox \in [Users -> SUBSET Nat] /\ queued \in [Users -> SUBSET Nat]

TaskTyped ==
  /\ members \subseteq Users /\ owner \in Users /\ assigned \subseteq Users
  /\ done \in BOOLEAN /\ policy \in Policies /\ defaults \in [Users -> Defaults]
  /\ occurrence \in {"due", "moved", "over"}
  /\ edits \in 0..MaxEdits

LEMMA Edited ==
  ASSUME TaskTyped', RowsTyped', RowsOK', scan' \in Scans, HandoffOK'
  PROVE  IInv'
<1>1. \A u \in Users : row'[u].fireCount <= MostSends
  BY DEF RowsOK, RowInv
<1> QED BY <1>1 DEF IInv, TypeOK, RowsTyped, TaskTyped, Scans

LEMMA Assembled ==
  ASSUME IInv, RowsTyped', RowsOK', UNCHANGED taskVars, scan' \in Scans, HandoffOK'
  PROVE  IInv'
BY Edited DEF IInv, TypeOK, taskVars, TaskTyped

LEMMA RowsStay ==
  ASSUME IInv, UNCHANGED <<row, outbox, queued>>
  PROVE  RowsTyped' /\ RowsOK' /\ \A u \in Users : Change(u)
BY DEF RowsOK, Change, TypeOK, RowsTyped, IInv

(* A step that changes the rows only, and no queue.                         *)
LEMMA RowsStep ==
  ASSUME IInv, row' \in [Users -> Rows], UNCHANGED <<outbox, queued>>,
         \A u \in Users : row'[u] = row[u] \/ RowInv(u, row'[u], outbox[u], queued[u])
  PROVE  RowsTyped' /\ RowsOK'
<1>1. \A u \in Users : RowInv(u, row'[u], outbox'[u], queued'[u])
  BY DEF RowsOK, IInv
<1>2. RowsOK'
  BY <1>1 DEF RowsOK
<1> QED BY <1>2 DEF IInv, TypeOK, RowsTyped

(* A step that puts one outcome into the outbox, and changes other rows.    *)
LEMMA PutStep ==
  ASSUME IInv, NEW u \in Users, NEW outcome, NEW base \in [Users -> Rows],
         \A v \in Users : base[v] = row[v] \/ RowInv(v, base[v], outbox[v], queued[v]),
         RowInv(u, outcome.row, outbox[u] \cup outcome.queued, queued[u] \cup outcome.queued),
         outcome.queued \in SUBSET Nat,
         row' = [base EXCEPT ![u] = outcome.row], Put(u, outcome)
  PROVE  /\ RowsTyped' /\ RowsOK' /\ row'[u] = outcome.row
         /\ \A v \in Users : v # u => row'[v] = base[v]
<1>1. /\ row'[u] = outcome.row /\ outbox'[u] = outbox[u] \cup outcome.queued
      /\ queued'[u] = queued[u] \cup outcome.queued
      /\ \A v \in Users : v # u =>
           row'[v] = base[v] /\ outbox'[v] = outbox[v] /\ queued'[v] = queued[v]
  BY DEF IInv, TypeOK, Put
<1>2. \A v \in Users : RowInv(v, base[v], outbox[v], queued[v])
  BY DEF IInv, RowsOK
<1>3. RowsOK'
  BY <1>1, <1>2 DEF RowsOK
<1>4. outcome.row \in Rows
  BY DEF RowInv
<1>5. RowsTyped'
  BY <1>4 DEF IInv, TypeOK, Put, RowsTyped
<1> QED BY <1>1, <1>3, <1>5

LEMMA FirstPut ==
  ASSUME IInv, NEW u \in Users, Fresh(u), ~done, u \in members,
         NEW outcome \in FirstFirings(u), NEW base \in [Users -> Rows],
         \A v \in Users : base[v] = row[v] \/ RowInv(v, base[v], outbox[v], queued[v]),
         row' = [base EXCEPT ![u] = outcome.row], Put(u, outcome)
  PROVE  /\ RowsTyped' /\ RowsOK' /\ Fired(u)
         /\ \A v \in Users : v # u => row'[v] = base[v]
<1>1. RowInv(u, row[u], outbox[u], queued[u])
  BY DEF RowsOK, IInv
<1>2. /\ RowInv(u, outcome.row, outbox[u] \cup outcome.queued,
                 queued[u] \cup outcome.queued)
      /\ row[u].status \in Live \cup {"absent"}
      /\ \/ outcome.row.status = "deferred" /\ outcome.row.fireCount = row[u].fireCount
         \/ /\ outcome.row.status \in {"pending", "failed"}
            /\ outcome.row.fireCount \notin queued[u]
            /\ outcome.row.fireCount # row[u].fireCount
            /\ outcome.row.status = "pending" =>
                 (outcome.row.nextAt # "null" <=> Repeats(u))
      /\ outcome.queued \in SUBSET Nat
  BY <1>1, FirstFiringOK DEF IInv
<1>3. /\ RowsTyped' /\ RowsOK' /\ row'[u] = outcome.row
      /\ \A v \in Users : v # u => row'[v] = base[v]
  BY <1>2, PutStep
<1> QED BY <1>2, <1>3 DEF Fired

-----------------------------------------------------------------------------
(* The scan *)

LEMMA ProcessedOK ==
  ASSUME IInv, NEW u \in Users, NEW b \in Branches, scan.phase # "handoff",
         scan' = Processed(u, b)
  PROVE  scan' \in Scans /\ HandoffOK'
BY DEF Processed, IInv, TypeOK, Scans, HandoffOK

LEMMA CreateStep ==
  ASSUME IInv, NEW u \in Users, CreateReminder(u)
  PROVE  IInv' /\ \A v \in Users : Change(v)
<1>1. UNCHANGED taskVars /\ scan' \in Scans /\ HandoffOK'
  BY ProcessedOK DEF CreateReminder, Candidate, Branches
<1>2. CASE KeepRows
  BY <1>1, <1>2, RowsStay, Assembled DEF KeepRows, rowVars
<1>3. CASE MayCreate(u) /\ ~KeepRows
  <2>1. PICK outcome \in FirstFirings(u) :
          row' = [row EXCEPT ![u] = outcome.row] /\ Put(u, outcome)
    BY <1>3 DEF CreateReminder
  <2>2. row \in [Users -> Rows] /\ Fresh(u) /\ ~done /\ u \in members
    BY <1>3 DEF MayCreate, Fresh, IInv, TypeOK
  <2>3. /\ RowsTyped' /\ RowsOK' /\ Fired(u)
        /\ \A v \in Users : v # u => row'[v] = row[v]
    BY <2>1, <2>2, FirstPut
  <2> QED BY <1>1, <2>3, Assembled DEF Change
<1> QED BY <1>2, <1>3 DEF CreateReminder

LEMMA WakeStep ==
  ASSUME IInv, NEW u \in Users, SweepWake(u)
  PROVE  IInv' /\ \A v \in Users : Change(v)
<1>1. UNCHANGED taskVars /\ scan' \in Scans /\ HandoffOK'
  BY ProcessedOK DEF SweepWake, Candidate, Branches
<1>2. CASE KeepRows
  BY <1>1, <1>2, RowsStay, Assembled DEF KeepRows, rowVars
<1>3. CASE MayWake(u) /\ ~KeepRows
  <2>1. PICK outcome \in FirstFirings(u) :
          row' = [row EXCEPT ![u] = outcome.row] /\ Put(u, outcome)
    BY <1>3 DEF SweepWake
  <2>2. row \in [Users -> Rows] /\ Fresh(u) /\ ~done /\ u \in members
    BY <1>3 DEF MayWake, Fresh, IInv, TypeOK
  <2>3. /\ RowsTyped' /\ RowsOK' /\ Fired(u)
        /\ \A v \in Users : v # u => row'[v] = row[v]
    BY <2>1, <2>2, FirstPut
  <2> QED BY <1>1, <2>3, Assembled DEF Change
<1> QED BY <1>2, <1>3 DEF SweepWake

(* One row is settled, and the queues stay.                                 *)
LEMMA SettleStep ==
  ASSUME IInv, NEW u \in Users, NEW s \in {"acked", "expired", "escalated"},
         row' = [row EXCEPT ![u] = Settle(@, s)], UNCHANGED <<outbox, queued>>
  PROVE  /\ RowsTyped' /\ RowsOK' /\ row'[u] = Settle(row[u], s)
         /\ \A v \in Users : v # u => row'[v] = row[v]
<1>1. RowInv(u, Settle(row[u], s), outbox[u], queued[u])
  BY SettleOK DEF IInv, RowsOK
<1>2. /\ Settle(row[u], s) \in Rows
      /\ row' = [row EXCEPT ![u] = Settle(row[u], s)] /\ row \in [Users -> Rows]
  BY <1>1 DEF RowInv, IInv, TypeOK
<1> HIDE DEF Settle
<1>3. /\ row' \in [Users -> Rows] /\ row'[u] = Settle(row[u], s)
      /\ \A v \in Users : v # u => row'[v] = row[v]
  BY <1>2
<1> QED BY <1>1, <1>3, RowsStep

LEMMA EscalateStep ==
  ASSUME IInv, NEW u \in Users, SweepEscalate(u)
  PROVE  IInv' /\ \A v \in Users : Change(v)
<1>1. UNCHANGED taskVars /\ scan.phase = "sweep"
  BY DEF SweepEscalate, Candidate
<1>2. scan' = Processed(u, "escalate") => scan' \in Scans /\ HandoffOK'
  BY <1>1, ProcessedOK DEF Branches
<1>3. MayEscalate(u) => row[u].status = "pending" /\ ~done /\ u \in members
  BY DEF MayEscalate, EscalateReady
<1>4. CASE scan' = Processed(u, "escalate") /\ KeepRows
  BY <1>1, <1>2, <1>4, RowsStay, Assembled DEF KeepRows, rowVars
<1>5. CASE /\ MayEscalate(u) /\ NextEscalation(u) = "repeat"
           /\ scan' = Processed(u, "escalate")
           /\ \E outcome \in Firings(u, row[u].fireCount + 1) :
                row' = [row EXCEPT ![u] = outcome.row] /\ Put(u, outcome)
  <2>1. PICK n : n = row[u].fireCount + 1
    OBVIOUS
  <2>2. PICK outcome \in Firings(u, n) :
          row' = [row EXCEPT ![u] = outcome.row] /\ Put(u, outcome)
    BY <1>5, <2>1
  <2>3. RowInv(u, row[u], outbox[u], queued[u]) /\ row[u].fireCount \in Nat
        /\ row \in [Users -> Rows]
    BY DEF IInv, RowsOK, TypeOK, Rows
  <2>4. n \in 1..MostSends /\ queued[u] \subseteq 1..(n - 1)
    <3>1. /\ row[u].fireCount < MaxRepeats(u)
          /\ MaxRepeats(u) \in Nat /\ MaxRepeats(u) <= MAX_REPEATS_CAP
      BY <1>5, RepeatsBounded DEF NextEscalation, IInv, TypeOK
    <3> HIDE DEF MaxRepeats
    <3>2. n <= MostSends /\ MostSends \in Nat
      BY <2>1, <2>3, <3>1, MostBounded, RemindersAssumption
    <3>3. n - 1 = row[u].fireCount
      BY <2>1, <2>3
    <3> QED BY <2>1, <2>3, <3>2, <3>3 DEF RowInv
  <2>5. /\ RowInv(u, outcome.row, outbox[u] \cup outcome.queued,
                   queued[u] \cup outcome.queued)
        /\ outcome.row.status \in {"pending", "failed"}
        /\ outcome.row.fireCount = n /\ n \notin queued[u]
        /\ outcome.row.status = "pending" => (outcome.row.nextAt # "null" <=> Repeats(u))
        /\ outcome.queued \in SUBSET Nat
    BY <2>3, <2>4, FiringOK DEF IInv
  <2>6. /\ RowsTyped' /\ RowsOK' /\ row'[u] = outcome.row
        /\ \A v \in Users : v # u => row'[v] = row[v]
    BY <2>2, <2>3, <2>5, PutStep
  <2>7. Fired(u)
    BY <1>3, <1>5, <2>1, <2>3, <2>5, <2>6 DEF Fired, Live
  <2> QED BY <1>1, <1>2, <1>5, <2>6, <2>7, Assembled DEF Change
<1>6. CASE /\ HandoffTo(u) # NoUser
           /\ scan' = [Processed(u, "escalate") EXCEPT
                !.phase = "handoff", !.from = u, !.to = HandoffTo(u)]
           /\ KeepRows
  <2>1. HandoffTo(u) \in Users \ {u}
    BY <1>6 DEF HandoffTo, IInv, TypeOK
  <2>2. scan' \in Scans /\ HandoffOK'
    BY <1>6, <2>1 DEF Processed, IInv, TypeOK, Scans, HandoffOK
  <2> QED BY <1>1, <1>6, <2>2, RowsStay, Assembled DEF KeepRows, rowVars
<1>7. CASE /\ MayEscalate(u) /\ scan' = Processed(u, "escalate")
           /\ row' = [row EXCEPT ![u] = Settle(@, "expired")]
           /\ UNCHANGED <<outbox, queued>>
  <2>1. /\ RowsTyped' /\ RowsOK' /\ row'[u] = Settle(row[u], "expired")
        /\ \A v \in Users : v # u => row'[v] = row[v]
    BY <1>7, SettleStep
  <2>2. Expired(u)
    BY <1>3, <1>7, <2>1 DEF Expired, Live
  <2> QED BY <1>1, <1>2, <1>7, <2>1, <2>2, Assembled DEF Change
<1> QED BY <1>4, <1>5, <1>6, <1>7 DEF SweepEscalate

LEMMA HandoffStep ==
  ASSUME IInv, EscalateToFallback
  PROVE  IInv' /\ \A v \in Users : Change(v)
<1> PICK u \in Users, f \in Users : u = scan.from /\ f = scan.to /\ f # u
  BY DEF EscalateToFallback, IInv, HandoffOK
<1>1. UNCHANGED taskVars /\ scan' \in Scans /\ HandoffOK'
  BY DEF EscalateToFallback, IInv, TypeOK, Scans, HandoffOK
<1> PICK base : base = [row EXCEPT ![u] = Settle(@, "escalated")]
  OBVIOUS
<1>2. RowInv(u, Settle(row[u], "escalated"), outbox[u], queued[u])
  BY SettleOK DEF IInv, RowsOK
<1>3. /\ base \in [Users -> Rows] /\ base[u] = Settle(row[u], "escalated")
      /\ \A v \in Users : v # u => base[v] = row[v]
  BY <1>2 DEF RowInv, IInv, TypeOK
<1>4. \A v \in Users : base[v] = row[v] \/ RowInv(v, base[v], outbox[v], queued[v])
  BY <1>2, <1>3
<1>5. CASE KeepRows
  BY <1>1, <1>5, RowsStay, Assembled DEF KeepRows, rowVars
<1>6. ASSUME MayHandOff(u, f), row'[u] = base[u], row'[f].status # "absent",
             RowsTyped', RowsOK', \A v \in Users : v # u => Change(v)
      PROVE  IInv' /\ \A v \in Users : Change(v)
  <2>1. HandedOff(u)
    BY <1>3, <1>6 DEF HandedOff, MayHandOff, EscalateReady
  <2> QED BY <1>1, <1>6, <2>1, Assembled DEF Change
<1>7. CASE /\ MayHandOff(u, f) /\ row[f].status = "absent"
           /\ \E outcome \in FirstFirings(f) :
                row' = [base EXCEPT ![f] = outcome.row] /\ Put(f, outcome)
  <2>1. PICK outcome \in FirstFirings(f) :
          row' = [base EXCEPT ![f] = outcome.row] /\ Put(f, outcome)
    BY <1>7
  <2>2. Fresh(f) /\ ~done /\ f \in members
    BY <1>7 DEF Fresh, MayHandOff
  <2>3. /\ RowsTyped' /\ RowsOK' /\ Fired(f)
        /\ \A v \in Users : v # f => row'[v] = base[v]
    BY <1>3, <1>4, <2>1, <2>2, FirstPut
  <2>4. row'[f].status # "absent"
    BY <2>3 DEF Fired
  <2>5. \A v \in Users : v # u => Change(v)
    BY <1>3, <2>3 DEF Change
  <2> QED BY <1>6, <1>7, <2>3, <2>4, <2>5
<1>8. CASE /\ MayHandOff(u, f) /\ row[f].status # "absent" /\ row' = base
           /\ UNCHANGED <<outbox, queued>>
  <2>1. RowsTyped' /\ RowsOK'
    BY <1>3, <1>4, <1>8, RowsStep
  <2>2. \A v \in Users : v # u => Change(v)
    BY <1>3, <1>8 DEF Change
  <2> QED BY <1>3, <1>6, <1>8, <2>1, <2>2
<1> QED BY <1>5, <1>7, <1>8 DEF EscalateToFallback

(* The steps of the scan that read only, or give up.                        *)
LEMMA ScanStep ==
  ASSUME IInv, BeginScan \/ LoadSweepRows \/ SkipCandidate \/ EndScan \/ LeaderLost
  PROVE  IInv' /\ \A v \in Users : Change(v)
<1>1. UNCHANGED taskVars /\ KeepRows
  BY DEF BeginScan, LoadSweepRows, SkipCandidate, EndScan, LeaderLost
<1>2. scan' \in Scans /\ HandoffOK'
  <2>1. CASE BeginScan
    BY <2>1 DEF BeginScan, Idle, Base, Branches, IInv, TypeOK, Scans, HandoffOK
  <2>2. CASE LoadSweepRows
    BY <2>2 DEF LoadSweepRows, Branches, IInv, TypeOK, Scans, HandoffOK
  <2>3. CASE SkipCandidate
    BY <2>3 DEF SkipCandidate, IInv, TypeOK, Scans, HandoffOK
  <2>4. CASE EndScan \/ LeaderLost
    BY <2>4 DEF EndScan, LeaderLost, Idle, Scans, HandoffOK
  <2> QED BY <2>1, <2>2, <2>3, <2>4
<1> QED BY <1>1, <1>2, RowsStay, Assembled DEF KeepRows, rowVars

-----------------------------------------------------------------------------
(* The rest of the system *)

LEMMA ScanStays ==
  ASSUME IInv, scan' = scan
  PROVE  scan' \in Scans /\ HandoffOK'
BY DEF IInv, TypeOK, Scans, HandoffOK

LEMMA TimerStep ==
  ASSUME IInv, NEW u \in Users, TimerExpires(u)
  PROVE  IInv' /\ \A v \in Users : row'[v] = row[v] \/ TimerMoved(v)
<1>1. RowInv(u, row[u], outbox[u], queued[u]) /\ row[u] \in Rows /\ row \in [Users -> Rows]
  BY DEF IInv, RowsOK, RowInv, TypeOK
<1>2. row[u].status \notin Settled
  BY <1>1 DEF TimerExpires, RowInv
<1>3. PICK r \in Rows :
        /\ row' = [row EXCEPT ![u] = r]
        /\ r.status = row[u].status /\ r.fireCount = row[u].fireCount
        /\ r.nextAt = "null" <=> row[u].nextAt = "null"
        /\ r.deferredUntil = "null" <=> row[u].deferredUntil = "null"
  <2>1. CASE row[u].nextAt = "ahead" /\ row' = [row EXCEPT ![u].nextAt = "past"]
    <3> DEFINE w == [row[u] EXCEPT !.nextAt = "past"]
    <3>1. /\ w \in Rows /\ w.status = row[u].status /\ w.fireCount = row[u].fireCount
          /\ w.nextAt = "past" /\ w.deferredUntil = row[u].deferredUntil
      BY <1>1 DEF Rows, Timers
    <3>2. row' = [row EXCEPT ![u] = w]
      BY <2>1
    <3> HIDE DEF w
    <3> QED BY <2>1, <3>1, <3>2
  <2>2. CASE row[u].deferredUntil = "ahead" /\ row' = [row EXCEPT ![u].deferredUntil = "past"]
    <3> DEFINE w == [row[u] EXCEPT !.deferredUntil = "past"]
    <3>1. /\ w \in Rows /\ w.status = row[u].status /\ w.fireCount = row[u].fireCount
          /\ w.nextAt = row[u].nextAt /\ w.deferredUntil = "past"
      BY <1>1 DEF Rows, Timers
    <3>2. row' = [row EXCEPT ![u] = w]
      BY <2>2
    <3> HIDE DEF w
    <3> QED BY <2>2, <3>1, <3>2
  <2> QED BY <2>1, <2>2 DEF TimerExpires
<1>4. /\ row' \in [Users -> Rows] /\ row'[u] = r
      /\ \A v \in Users : v # u => row'[v] = row[v]
  BY <1>1, <1>3
<1>5. RowInv(u, r, outbox[u], queued[u])
  BY <1>1, <1>2, <1>3 DEF RowInv
<1>6. RowsTyped' /\ RowsOK'
  BY <1>4, <1>5, RowsStep DEF TimerExpires
<1>7. \A v \in Users : row'[v] = row[v] \/ TimerMoved(v)
  BY <1>2, <1>3, <1>4 DEF TimerMoved
<1> QED BY <1>6, <1>7, ScanStays, Assembled DEF TimerExpires

LEMMA AckStep ==
  ASSUME IInv, NEW u \in Users, Ack(u)
  PROVE  IInv' /\ \A v \in Users : Change(v)
<1>1. /\ RowsOK /\ row \in [Users -> Rows] /\ UNCHANGED <<outbox, queued>>
      /\ \A v \in Users : row[v].status \in {"absent"} \cup Live \cup Settled
  BY DEF Ack, IInv, TypeOK, Rows
<1>2. \A v \in Users :
        RowInv(v, Settle(row[v], "acked"), outbox[v], queued[v])
  BY <1>1, SettleOK DEF RowsOK
<1>3. \A v \in Users : Settle(row[v], "acked").status = "acked"
  BY <1>1 DEF Settle, Rows
<1> HIDE DEF Settle
<1>4. /\ row' \in [Users -> Rows]
      /\ \A v \in Users : row'[v] = row[v] \/ row'[v] = Settle(row[v], "acked")
      /\ \A v \in Users : v = u \/ v \in Siblings(u) => row'[v] = Settle(row[v], "acked")
      /\ \A v \in Users : v # u /\ v \notin Siblings(u) => row'[v] = row[v]
  BY <1>1, <1>2 DEF Ack, RowInv
<1>5. RowsTyped' /\ RowsOK'
  BY <1>1, <1>2, <1>4, RowsStep
<1>6. \A v \in Users : row'[v].status \notin Live
  <2>1. \A v \in Users : v # u /\ v \notin Siblings(u) => row[v].status \notin Live
    BY DEF Siblings, AckTerminal, Live
  <2> QED BY <1>3, <1>4, <2>1 DEF Live
<1>7. \A v \in Users : Change(v)
  BY <1>4, <1>6 DEF Change, Acked
<1>8. TaskTyped'
  BY DEF Ack, IInv, TypeOK, TaskTyped
<1> QED BY <1>5, <1>7, <1>8, ScanStays, Edited DEF Ack

LEMMA PruneStep ==
  ASSUME IInv, NEW u \in Users, PruneOutbox(u)
  PROVE  IInv' /\ \A v \in Users : Change(v)
<1>1. PICK n : outbox' = [outbox EXCEPT ![u] = @ \ {n}]
  BY DEF PruneOutbox
<1>2. /\ outbox' \in [Users -> SUBSET Nat]
      /\ \A v \in Users : outbox'[v] \subseteq outbox[v]
      /\ UNCHANGED <<row, queued, scan, taskVars>>
  BY <1>1 DEF PruneOutbox, IInv, TypeOK
<1>3. \A v \in Users : RowInv(v, row[v], outbox'[v], queued[v])
  BY <1>2 DEF IInv, RowsOK, RowInv
<1>4. RowsOK' /\ RowsTyped'
  BY <1>2, <1>3 DEF RowsOK, RowsTyped, IInv, TypeOK
<1>5. \A v \in Users : Change(v)
  BY <1>2 DEF Change
<1> QED BY <1>2, <1>4, <1>5, ScanStays, Assembled

LEMMA RemoveStep ==
  ASSUME IInv, NEW u \in Users, RemoveMember(u)
  PROVE  IInv' /\ \A v \in Users : Change(v)
<1>1. TaskTyped' /\ u \notin members' /\ UNCHANGED <<scan, outbox, queued>>
  <2>1. policy' \in Policies
    BY DEF RemoveMember, IInv, TypeOK, Policies
  <2> QED BY <2>1, RemindersAssumption DEF RemoveMember, Edit, IInv, TypeOK, TaskTyped
<1>2. /\ RowsTyped' /\ RowsOK'
      /\ row'[u] = row[u] \/ row'[u] = Settle(row[u], "expired")
      /\ \A v \in Users : v # u => row'[v] = row[v]
  <2>1. CASE row[u].status \in Live \cup {"escalated"}
    <3>1. row' = [row EXCEPT ![u] = Settle(@, "expired")]
      BY <2>1 DEF RemoveMember, IInv, TypeOK
    <3> QED BY <1>1, <3>1, SettleStep
  <2>2. CASE row[u].status \notin Live \cup {"escalated"}
    <3>1. row' = row
      BY <2>2 DEF RemoveMember, IInv, TypeOK
    <3> QED BY <1>1, <3>1, RowsStay
  <2> QED BY <2>1, <2>2
<1>3. \A v \in Users : Change(v)
  BY <1>1, <1>2 DEF Change, Expired
<1> QED BY <1>1, <1>2, <1>3, ScanStays, Edited

(* An edit of the task, its policy, a user's defaults or the members.       *)
TaskEdit ==
  \/ WindowCloses \/ SetDone \/ Reschedule
  \/ \E u \in Users : Reassign(u) \/ AddMember(u)
  \/ \E p \in TaskPolicies : SetPolicy(p)
  \/ \E u \in Users, d \in UserDefaults : SetDefaults(u, d)

LEMMA EditTyped ==
  ASSUME IInv, TaskEdit
  PROVE  TaskTyped'
<1>1. CASE WindowCloses \/ SetDone \/ Reschedule
  <2>1. /\ occurrence' \in {"due", "moved", "over"}
        /\ edits' \in 0..MaxEdits
    BY <1>1, RemindersAssumption
       DEF WindowCloses, SetDone, Reschedule, Edit, IInv, TypeOK
  <2>2. done' \in BOOLEAN
    BY <1>1 DEF WindowCloses, SetDone, Reschedule, IInv, TypeOK
  <2>3. UNCHANGED <<members, owner, assigned, policy, defaults>>
    BY <1>1 DEF WindowCloses, SetDone, Reschedule
  <2> QED BY <2>1, <2>2, <2>3 DEF IInv, TypeOK, TaskTyped
<1>2. CASE \E u \in Users : Reassign(u) \/ AddMember(u)
  BY <1>2, RemindersAssumption DEF Reassign, AddMember, Edit, IInv, TypeOK, TaskTyped
<1>3. CASE \E p \in TaskPolicies : SetPolicy(p)
  BY <1>3, RemindersAssumption DEF SetPolicy, Edit, IInv, TypeOK, TaskTyped
<1>4. CASE \E u \in Users, d \in UserDefaults : SetDefaults(u, d)
  BY <1>4, RemindersAssumption DEF SetDefaults, Edit, IInv, TypeOK, TaskTyped
<1> QED BY <1>1, <1>2, <1>3, <1>4 DEF TaskEdit

LEMMA EditStep ==
  ASSUME IInv, TaskEdit
  PROVE  IInv' /\ \A v \in Users : Change(v)
<1>1. UNCHANGED <<scan, row, outbox, queued>>
  BY DEF TaskEdit, WindowCloses, SetDone, Reschedule, Reassign, AddMember, SetPolicy,
     SetDefaults, rowVars
<1>2. TaskTyped'
  BY EditTyped
<1> QED BY <1>1, <1>2, RowsStay, ScanStays, Edited

-----------------------------------------------------------------------------
LEMMA InitInv == Init => IInv
<1> SUFFICES ASSUME Init PROVE IInv
  OBVIOUS
<1>1. /\ NoRow \in Rows /\ NoRow.status = "absent" /\ NoRow.fireCount = 0
      /\ 0 <= MostSends
  BY MostBounded DEF NoRow, Rows, Timers
<1>2. \A u \in Users : row[u] = NoRow /\ outbox[u] = {} /\ queued[u] = {}
  BY DEF Init
<1> HIDE DEF NoRow
<1>3. RowsOK
  BY <1>1, <1>2 DEF RowsOK, RowInv, Settled
<1>4. /\ row \in [Users -> Rows] /\ outbox \in [Users -> SUBSET Nat]
      /\ queued \in [Users -> SUBSET Nat] /\ \A u \in Users : row[u].fireCount <= MostSends
  BY <1>1, <1>2 DEF Init
<1>5. scan \in Scans /\ HandoffOK
  BY DEF Init, Idle, Scans, HandoffOK
<1>6. /\ members \subseteq Users /\ owner \in Users /\ assigned \subseteq Users
      /\ done \in BOOLEAN /\ policy \in Policies /\ defaults \in [Users -> Defaults]
      /\ occurrence \in {"due", "moved", "over"}
      /\ edits \in 0..MaxEdits
  <2>1. edits \in 0..MaxEdits
    BY RemindersAssumption DEF Init
  <2>2. done \in BOOLEAN /\ occurrence \in {"due", "moved", "over"}
    BY DEF Init
  <2>3. /\ members \subseteq Users /\ owner \in Users /\ assigned \subseteq Users
        /\ policy \in Policies /\ defaults \in [Users -> Defaults]
    BY RemindersAssumption DEF Init
  <2> QED BY <2>1, <2>2, <2>3
<1>7. scan \in [phase : {"idle", "create", "sweep", "handoff"},
               todo : SUBSET (Users \X Branches),
               from : Users \cup {NoUser}, to : Users \cup {NoUser}]
  BY <1>5 DEF Scans
<1>8. TypeOK
  BY <1>4, <1>6, <1>7 DEF TypeOK
<1> QED BY <1>3, <1>5, <1>8 DEF IInv

LEMMA NextInv ==
  ASSUME IInv, [Next]_vars
  PROVE  IInv' /\ \A u \in Users : Change(u)
<1>1. CASE UNCHANGED vars
  BY <1>1, RowsStay, ScanStays, Assembled DEF vars, rowVars
<1>2. ASSUME NEW u \in Users, TimerExpires(u)
      PROVE  IInv' /\ \A v \in Users : Change(v)
  BY <1>2, TimerStep DEF Change
<1>3. CASE Next
  BY <1>2, <1>3, CreateStep, WakeStep, EscalateStep, HandoffStep, ScanStep, AckStep,
     PruneStep, RemoveStep, EditStep DEF Next, TaskEdit
<1> QED BY <1>1, <1>3

LEMMA Inductive == Spec => []IInv
BY InitInv, NextInv, PTL DEF Spec

LEMMA Changes == Spec => [][\A u \in Users : Change(u)]_vars
BY Inductive, NextInv, PTL DEF Spec

-----------------------------------------------------------------------------
(* Theorems *)

(* Every variable keeps its type, and nobody is notified more often than    *)
(* MAX_REPEATS_CAP, whatever the policy is set to.                          *)
THEOREM TypeCorrect == Spec => []TypeOK
<1>1. IInv => TypeOK
  BY DEF IInv
<1> QED BY <1>1, Inductive, PTL

(* The timers of a reminder fit its status, whatever the policies are and   *)
(* become: none that has ended can be selected again, and one that waits    *)
(* for the end of the quiet hours is (scheduler.ts:681-685, 706-708).       *)
THEOREM TimersFit == Spec => []TimersFitStatus
<1>1. IInv => TimersFitStatus
  BY DEF IInv, RowsOK, RowInv, TimersFitStatus
<1> QED BY <1>1, Inductive, PTL

(* What a reminder's status says about the outbox is so                     *)
(* (scheduler.ts:224-233).                                                  *)
THEOREM StatusIsTold == Spec => []StatusTellsQueue
<1>1. IInv => StatusTellsQueue
  BY DEF IInv, RowsOK, RowInv, StatusTellsQueue
<1> QED BY <1>1, Inductive, PTL

LEMMA SettledRow ==
  ASSUME NEW r \in Rows, NEW s \in Settled
  PROVE  /\ Settle(r, s).status = s /\ Settle(r, s).fireCount = r.fireCount
BY DEF Settle, Rows

(* Who fires was chosen to: the other changes of a row notify nobody.       *)
LEMMA FiresWasFired ==
  ASSUME IInv, NEW u \in Users, Change(u), Fires(u)
  PROVE  Fired(u) /\ row'[u].status \in {"pending", "failed"}
<1>1. row[u] \in Rows
  BY DEF IInv, TypeOK
<1>2. ~Acked(u) /\ ~Expired(u) /\ ~HandedOff(u)
  BY <1>1, SettledRow DEF Acked, Expired, HandedOff, Fires, Settled
<1>3. ~TimerMoved(u) /\ row'[u] # row[u]
  BY DEF TimerMoved, Fires
<1> QED BY <1>2, <1>3 DEF Change, Fired, Fires

(* Whether a reminder goes on is decided when it is sent, by the policy of  *)
(* that time, and by no edit of it later (scheduler.ts:286-290).            *)
THEOREM TimerIsDecidedOnce == Spec => TimerFollowsPolicy
<1>1. ASSUME IInv, IInv', NEW u \in Users, Change(u), row'[u].status = "pending"
      PROVE  row'[u].nextAt # "null" <=>
               IF Fires(u) THEN Repeats(u) ELSE row[u].nextAt # "null"
  <2>1. row[u] \in Rows /\ row'[u] \in Rows /\ row'[u].fireCount > 0
    BY <1>1 DEF IInv, TypeOK, RowsOK, RowInv
  <2>2. CASE Fired(u)
    BY <1>1, <2>1, <2>2 DEF Fired, Fires
  <2>3. CASE row'[u] = row[u] \/ TimerMoved(u)
    BY <1>1, <2>1, <2>3 DEF TimerMoved, Fires
  <2>4. ~Acked(u) /\ ~Expired(u) /\ ~HandedOff(u)
    BY <1>1, <2>1, SettledRow DEF Acked, Expired, HandedOff, Settled
  <2> QED BY <1>1, <2>2, <2>3, <2>4 DEF Change
<1>2. IInv /\ IInv' /\ [\A u \in Users : Change(u)]_vars =>
        [\A u \in Users : row'[u].status = "pending" =>
           (row'[u].nextAt # "null" <=>
              IF Fires(u) THEN Repeats(u) ELSE row[u].nextAt # "null")]_vars
  BY <1>1
<1> QED BY <1>2, Inductive, Changes, PTL DEF TimerFollowsPolicy

(* No repeat is swallowed by the idempotency key of an earlier one.         *)
THEOREM RepeatsAreNew == Spec => NoRepeatSwallowed
<1>1. IInv /\ [\A u \in Users : Change(u)]_vars =>
        [\A u \in Users : Fires(u) => row'[u].fireCount \notin queued[u]]_vars
  BY FiresWasFired DEF Fired
<1> QED BY <1>1, Inductive, Changes, PTL DEF NoRepeatSwallowed

(* Whatever the scan read before it took its locks, only a reminder that    *)
(* still waits fires, of a task still open, to a user still a member.       *)
THEOREM OnlyWaitingFire == Spec => OnlyWaitingRemindersFire
<1>1. IInv /\ [\A u \in Users : Change(u)]_vars =>
        [\A u \in Users : Fires(u) =>
           /\ row[u].status \in Live \cup {"absent"}
           /\ ~done
           /\ u \in members]_vars
  BY FiresWasFired DEF Fired
<1> QED BY <1>1, Inductive, Changes, PTL DEF OnlyWaitingRemindersFire

(* A settled reminder never waits again.                                    *)
THEOREM SettledStays == Spec => SettledIsFinal
<1>1. ASSUME IInv, NEW u \in Users, Change(u), row[u].status \in Settled
      PROVE  \/ row'[u] = row[u]
             \/ row'[u] = Settle(row[u], "acked")
             \/ row'[u] = Settle(row[u], "expired") /\ u \notin members'
  BY <1>1 DEF Change, Fired, TimerMoved, Acked, Expired, HandedOff, Settled, Live
<1>2. IInv /\ [\A u \in Users : Change(u)]_vars =>
        [\A u \in Users : row[u].status \in Settled =>
           \/ row'[u] = row[u]
           \/ row'[u] = Settle(row[u], "acked")
           \/ row'[u] = Settle(row[u], "expired") /\ u \notin members']_vars
  BY <1>1
<1> QED BY <1>2, Inductive, Changes, PTL DEF SettledIsFinal

(* The chain of fallbacks has one link, although a handoff is decided in    *)
(* one transaction and made in another (escalation.ts:22-24).               *)
THEOREM OneLink == Spec => ChainHasOneLink
<1>1. ASSUME IInv, NEW u \in Users, Change(u),
             row[u].status # "escalated", row'[u].status = "escalated"
      PROVE  /\ u \in Base
             /\ \E f \in members \ {u} : FallbackOf(u) = f /\ row'[f].status # "absent"
  <2>1. row[u] \in Rows
    BY <1>1 DEF IInv, TypeOK
  <2>2. ~Acked(u) /\ ~Expired(u)
    BY <1>1, <2>1, SettledRow DEF Acked, Expired, Settled
  <2>3. ~Fired(u) /\ ~TimerMoved(u)
    BY <1>1 DEF Fired, TimerMoved
  <2> QED BY <1>1, <2>2, <2>3 DEF Change, HandedOff
<1>2. IInv /\ [\A u \in Users : Change(u)]_vars =>
        [\A u \in Users : row[u].status # "escalated" /\ row'[u].status = "escalated" =>
           /\ u \in Base
           /\ \E f \in members \ {u} : FallbackOf(u) = f /\ row'[f].status # "absent"]_vars
  BY <1>1
<1> QED BY <1>2, Inductive, Changes, PTL DEF ChainHasOneLink

(* An acknowledgement stops everybody's reminder for the occurrence         *)
(* (docs/notifications.md:175-178).                                         *)
THEOREM AckStopsAll == Spec => AckStopsEverybody
<1>1. ASSUME IInv, NEW u \in Users, Change(u),
             row[u].status # "acked", row'[u].status = "acked"
      PROVE  \A v \in Users : row'[v].status \notin Live
  <2>1. row[u] \in Rows
    BY <1>1 DEF IInv, TypeOK
  <2>2. ~HandedOff(u) /\ ~Expired(u)
    BY <1>1, <2>1, SettledRow DEF HandedOff, Expired, Settled
  <2>3. ~Fired(u) /\ ~TimerMoved(u)
    BY <1>1 DEF Fired, TimerMoved
  <2> QED BY <1>1, <2>2, <2>3 DEF Change, Acked
<1>2. IInv /\ [\A u \in Users : Change(u)]_vars =>
        [(\E u \in Users : row[u].status # "acked" /\ row'[u].status = "acked") =>
           \A v \in Users : row'[v].status \notin Live]_vars
  BY <1>1
<1> QED BY <1>2, Inductive, Changes, PTL DEF AckStopsEverybody

-----------------------------------------------------------------------------
(* The ladder: what a row shows to those who do not know the scheduler.     *)
Stages == [u \in Users |-> Stage(row[u])]
Tries == [u \in Users |-> row[u].fireCount]
Limits == [u \in Users |-> MaxSends(u)]

LEMMA StageOf ==
  ASSUME NEW r \in Rows
  PROVE  /\ Stage(r) = "none" <=> r.status = "absent"
         /\ Stage(r) = "waiting" <=> r.status \in Live
         /\ Stage(r) = "passed" <=> r.status = "escalated"
         /\ Stage(r) = "ended" <=> r.status \in {"failed", "expired"}
         /\ Stage(r) = "acked" <=> r.status = "acked"
BY DEF Rows, Stage, Live, Settled

LEMMA ShownOf ==
  ASSUME NEW u \in Users
  PROVE  /\ Stages[u] = Stage(row[u]) /\ Tries[u] = row[u].fireCount
         /\ Limits[u] = MaxSends(u)
BY DEF Stages, Tries, Limits

LEMMA OneRowShows ==
  ASSUME row \in [Users -> Rows], NEW u \in Users, NEW r \in Rows,
         row' = [row EXCEPT ![u] = r]
  PROVE  /\ Stages' = [Stages EXCEPT ![u] = Stage(r)]
         /\ Tries' = [Tries EXCEPT ![u] = r.fireCount]
<1>1. row'[u] = r /\ \A v \in Users : v # u => row'[v] = row[v]
  OBVIOUS
<1> QED BY <1>1 DEF Stages, Tries

LEMMA LimitsStay ==
  ASSUME UNCHANGED <<policy, defaults>>
  PROVE  Limits' = Limits
BY DEF Limits, MaxSends, Repeats, MaxRepeats

LEMMA ShowsNothing ==
  ASSUME UNCHANGED <<members, done, policy, defaults>>,
         \A u \in Users : row'[u] = row[u] \/ TimerMoved(u)
  PROVE  UNCHANGED L!vars
<1>1. \A u \in Users : Stage(row'[u]) = Stage(row[u]) /\ row'[u].fireCount = row[u].fireCount
  BY DEF TimerMoved, Stage
<1>2. Limits' = Limits
  BY LimitsStay
<1> QED BY <1>1, <1>2 DEF L!vars, Limits

(* The first notification of a recipient, or the quiet hours before it.     *)
LEMMA FirstOutcomes ==
  ASSUME IInv, NEW u \in Users, Fresh(u), NEW outcome \in FirstFirings(u)
  PROVE  /\ row[u].fireCount = 0 /\ outcome.row \in Rows
         /\ \/ outcome.row.status = "deferred" /\ outcome.row.fireCount = 0
            \/ outcome.row.status \in {"pending", "failed"} /\ outcome.row.fireCount = 1
<1>1. RowInv(u, row[u], outbox[u], queued[u]) /\ TypeOK
  BY DEF IInv, RowsOK
<1>2. row[u].fireCount = 0
  BY <1>1 DEF Fresh, WakeReady, RowInv
<1>3. RowInv(u, outcome.row, outbox[u] \cup outcome.queued, queued[u] \cup outcome.queued)
  BY <1>1, FirstFiringOK
<1>4. outcome.row \in Rows
  BY <1>3 DEF RowInv
<1>5. \/ outcome.row.status = "deferred" /\ outcome.row.fireCount = row[u].fireCount
      \/ outcome.row.status \in {"pending", "failed"} /\ outcome.row.fireCount = 1
  BY <1>1, FirstFiringOK
<1> QED BY <1>2, <1>4, <1>5

LEMMA FirstShows ==
  ASSUME IInv, NEW u \in Users, Fresh(u), u \in members, ~done,
         NEW outcome \in FirstFirings(u), row' = [row EXCEPT ![u] = outcome.row],
         UNCHANGED <<members, done, policy, defaults>>
  PROVE  L!Remind(u) \/ L!Postpone(u) \/ UNCHANGED L!vars
<1> PICK r : r = outcome.row
  OBVIOUS
<1>1. /\ row[u].fireCount = 0 /\ r \in Rows /\ row[u] \in Rows /\ row \in [Users -> Rows]
      /\ row[u].status \in Live \cup {"absent"}
  BY FirstOutcomes DEF Fresh, WakeReady, Live, IInv, TypeOK
<1>2. /\ Stages' = [Stages EXCEPT ![u] = Stage(r)]
      /\ Tries' = [Tries EXCEPT ![u] = r.fireCount]
  BY <1>1, OneRowShows
<1>3. /\ Stages[u] \in {"none", "waiting"} /\ Tries[u] = 0 /\ Limits[u] = MaxSends(u)
      /\ MaxSends(u) \in Nat /\ MaxSends(u) >= 1
  BY <1>1, StageOf, ShownOf, SendsBounded DEF IInv, TypeOK
<1> Limits' = Limits
  BY LimitsStay
<1>4. CASE r.status \in {"pending", "failed"} /\ r.fireCount = 1
  <2>1. Stage(r) \in {"waiting", "ended"}
    BY <1>1, <1>4, StageOf DEF Live
  <2>2. Tries[u] < Limits[u] /\ Tries' = [Tries EXCEPT ![u] = @ + 1]
    BY <1>2, <1>3, <1>4
  <2> QED BY <1>2, <1>3, <2>1, <2>2 DEF L!Remind, L!Open, Stages, Tries, Limits
<1>5. CASE r.status = "deferred" /\ r.fireCount = 0
  <2>1. Stage(r) = "waiting" /\ Tries' = Tries
    BY <1>1, <1>2, <1>3, <1>5, StageOf DEF Live, Tries
  <2>2. CASE Stages[u] = "none"
    BY <1>2, <2>1, <2>2 DEF L!Postpone, L!Open, Stages, Tries, Limits
  <2>3. CASE Stages[u] = "waiting"
    <3>1. Stages' = Stages
      BY <1>2, <2>1, <2>3 DEF Stages
    <3> QED BY <2>1, <3>1 DEF L!vars, Stages, Tries, Limits
  <2> QED BY <1>3, <2>2, <2>3
<1> QED BY <1>4, <1>5, FirstOutcomes

LEMMA RowsShowNothing ==
  ASSUME UNCHANGED <<members, done, policy, defaults, row>>
  PROVE  UNCHANGED L!vars
BY ShowsNothing

LEMMA CreateShows ==
  ASSUME IInv, NEW u \in Users, CreateReminder(u) \/ SweepWake(u)
  PROVE  L!Remind(u) \/ L!Postpone(u) \/ UNCHANGED L!vars
<1>1. UNCHANGED <<members, done, policy, defaults>>
  BY DEF CreateReminder, SweepWake, taskVars
<1>2. CASE UNCHANGED row
  BY <1>1, <1>2, RowsShowNothing
<1>3. CASE ~UNCHANGED row
  <2>1. /\ MayCreate(u) \/ MayWake(u)
        /\ \E outcome \in FirstFirings(u) : row' = [row EXCEPT ![u] = outcome.row]
    BY <1>3 DEF CreateReminder, SweepWake, KeepRows, rowVars
  <2>2. Fresh(u) /\ u \in members /\ ~done
    BY <2>1 DEF MayCreate, MayWake, Fresh
  <2> QED BY <1>1, <2>1, <2>2, FirstShows
<1> QED BY <1>2, <1>3

(* A recipient whose repeats are spent was notified as often as it may be.  *)
LEMMA RepeatsSpent ==
  ASSUME IInv, NEW u \in Users, EscalateReady(u)
  PROVE  /\ row[u] \in Rows /\ row[u].status = "pending"
         /\ row[u].fireCount \in Nat /\ MaxSends(u) \in Nat
         /\ NextEscalation(u) = "repeat" => row[u].fireCount < MaxSends(u)
         /\ NextEscalation(u) = "escalate" => row[u].fireCount = MaxSends(u)
         /\ NextEscalation(u) # "repeat" => row[u].fireCount >= MaxSends(u)
<1>1. /\ row[u] \in Rows /\ row[u].fireCount \in Nat
      /\ row[u].status = "pending" /\ row[u].fireCount > 0
  BY DEF IInv, RowsOK, RowInv, Rows, EscalateReady
<1>2. MaxRepeats(u) \in Nat
  BY RepeatsBounded DEF IInv, TypeOK
<1>3. /\ MaxSends(u) \in Nat
      /\ MaxSends(u) = IF ~Repeats(u) \/ 1 >= MaxRepeats(u) THEN 1 ELSE MaxRepeats(u)
  BY <1>2 DEF MaxSends, Larger
<1>4. /\ NextEscalation(u) = "repeat" <=> Repeats(u) /\ row[u].fireCount < MaxRepeats(u)
      /\ NextEscalation(u) = "escalate" => Repeats(u) /\ row[u].fireCount = MaxRepeats(u)
  BY <1>1, <1>2 DEF NextEscalation
<1> QED BY <1>1, <1>2, <1>3, <1>4

LEMMA EscalateShows ==
  ASSUME IInv, NEW u \in Users, SweepEscalate(u)
  PROVE  L!Remind(u) \/ L!GiveUp(u) \/ UNCHANGED L!vars
<1>1. UNCHANGED <<members, done, policy, defaults>> /\ row \in [Users -> Rows]
  BY DEF SweepEscalate, taskVars, IInv, TypeOK
<1> Limits' = Limits
  BY <1>1, LimitsStay
<1>2. CASE KeepRows
  BY <1>1, <1>2, RowsShowNothing DEF KeepRows, rowVars
<1>3. ASSUME MayEscalate(u)
      PROVE  /\ u \in members /\ ~done /\ Stages[u] = "waiting"
             /\ Tries[u] = row[u].fireCount /\ Limits[u] = MaxSends(u)
             /\ row[u] \in Rows /\ row[u].fireCount \in Nat /\ MaxSends(u) \in Nat
             /\ NextEscalation(u) = "repeat" => row[u].fireCount < MaxSends(u)
             /\ NextEscalation(u) # "repeat" => row[u].fireCount >= MaxSends(u)
  BY <1>3, RepeatsSpent, ShownOf, StageOf DEF MayEscalate, Live
<1>4. CASE /\ MayEscalate(u) /\ NextEscalation(u) = "repeat"
           /\ \E outcome \in Firings(u, row[u].fireCount + 1) :
                row' = [row EXCEPT ![u] = outcome.row]
  <2>1. PICK n : n = row[u].fireCount + 1
    OBVIOUS
  <2>2. PICK outcome \in Firings(u, n) : row' = [row EXCEPT ![u] = outcome.row]
    BY <1>4, <2>1
  <2>3. PICK e \in Enqueued(u, n) : outcome.row = FiredRow(u, n, e)
    BY <2>2 DEF Firings
  <2>4. /\ outcome.row \in Rows /\ outcome.row.fireCount = n
        /\ outcome.row.status \in {"pending", "failed"}
    BY <1>3, <1>4, <2>1, <2>3 DEF FiredRow, Rows, Live, Settled, Timers
  <2>5. /\ Stages' = [Stages EXCEPT ![u] = Stage(outcome.row)]
        /\ Tries' = [Tries EXCEPT ![u] = @ + 1]
    <3>1. /\ Stages' = [Stages EXCEPT ![u] = Stage(outcome.row)]
          /\ Tries' = [Tries EXCEPT ![u] = outcome.row.fireCount]
      BY <1>1, <2>2, <2>4, OneRowShows
    <3>2. outcome.row.fireCount = Tries[u] + 1
      BY <1>3, <1>4, <2>1, <2>4
    <3> QED BY <3>1, <3>2
  <2>6. Stage(outcome.row) \in {"waiting", "ended"}
    BY <2>4, StageOf DEF Live
  <2>7. u \in members /\ ~done /\ Stages[u] = "waiting" /\ Tries[u] < Limits[u]
    BY <1>3, <1>4
  <2> QED BY <1>1, <2>5, <2>6, <2>7 DEF L!Remind, L!Open, Stages, Tries, Limits
<1>5. CASE /\ MayEscalate(u) /\ NextEscalation(u) # "repeat"
           /\ row' = [row EXCEPT ![u] = Settle(@, "expired")]
  <2> PICK r : r = Settle(row[u], "expired")
    OBVIOUS
  <2>1. r \in Rows /\ r.status = "expired" /\ r.fireCount = row[u].fireCount
    BY <1>3, <1>5 DEF Settle, Rows, Settled, Timers
  <2>2. row' = [row EXCEPT ![u] = r]
    BY <1>5
  <2>3. /\ Stages' = [Stages EXCEPT ![u] = Stage(r)]
        /\ Tries' = [Tries EXCEPT ![u] = r.fireCount]
    BY <1>1, <2>1, <2>2, OneRowShows
  <2>4. Stage(r) = "ended"
    BY <2>1, StageOf
  <2>5. Stages' = [Stages EXCEPT ![u] = "ended"] /\ Tries' = Tries
    BY <2>1, <2>3, <2>4 DEF Tries
  <2>6. /\ u \in members /\ ~done /\ Stages[u] = "waiting" /\ Tries[u] >= Limits[u]
    BY <1>3, <1>5
  <2> QED BY <1>1, <2>5, <2>6
        DEF L!GiveUp, L!Open, Stages, Tries, Limits
<1> QED BY <1>2, <1>4, <1>5 DEF SweepEscalate

LEMMA HandoffShows ==
  ASSUME IInv, EscalateToFallback
  PROVE  \/ \E u, f \in Users : L!PassOn(u, f)
         \/ UNCHANGED L!vars
<1> PICK u \in Users, f \in Users : u = scan.from /\ f = scan.to /\ f # u
  BY DEF EscalateToFallback, IInv, HandoffOK
<1>1. UNCHANGED <<members, done, policy, defaults>> /\ row \in [Users -> Rows]
  BY DEF EscalateToFallback, taskVars, IInv, TypeOK
<1> Limits' = Limits
  BY <1>1, LimitsStay
<1>2. CASE KeepRows
  BY <1>1, <1>2, RowsShowNothing DEF KeepRows, rowVars
<1> PICK r : r = Settle(row[u], "escalated")
  OBVIOUS
<1> PICK base : base = [row EXCEPT ![u] = r]
  OBVIOUS
<1>3. ASSUME MayHandOff(u, f)
      PROVE  /\ {u, f} \subseteq members /\ ~done
             /\ Stages[u] = "waiting" /\ Tries[u] = Limits[u]
             /\ row[u] \in Rows /\ r \in Rows
             /\ Stage(r) = "passed" /\ r.fireCount = Tries[u]
             /\ Stages[f] = "none" <=> row[f].status = "absent"
  <2>1. /\ row[u] \in Rows /\ row[f] \in Rows /\ row[u].status = "pending"
        /\ row[u].fireCount = MaxSends(u)
    BY <1>1, <1>3, RepeatsSpent DEF MayHandOff
  <2>2. r \in Rows /\ r.status = "escalated" /\ r.fireCount = row[u].fireCount
    BY <2>1 DEF Settle, Rows, Settled, Timers
  <2>3. /\ Stages[u] = "waiting" /\ Stage(r) = "passed"
        /\ Stages[f] = "none" <=> row[f].status = "absent"
    BY <2>1, <2>2, StageOf, ShownOf DEF Live
  <2> QED BY <1>3, <2>1, <2>2, <2>3, ShownOf DEF MayHandOff
<1>4. CASE MayHandOff(u, f) /\ row[f].status # "absent" /\ row' = base
  <2>1. /\ Stages' = [Stages EXCEPT ![u] = Stage(r)]
        /\ Tries' = [Tries EXCEPT ![u] = r.fireCount]
    <3>1. row' = [row EXCEPT ![u] = r] /\ r \in Rows
      BY <1>3, <1>4
    <3> QED BY <1>1, <3>1, OneRowShows
  <2>2. Stages' = [Stages EXCEPT ![u] = "passed"] /\ Tries' = Tries
    <3>1. Stage(r) = "passed" /\ r.fireCount = Tries[u]
      BY <1>3, <1>4
    <3> QED BY <2>1, <3>1 DEF Tries
  <2>3. L!PassOn(u, f)
    BY <1>1, <1>3, <1>4, <2>2
       DEF L!PassOn, L!Spent, L!Open, Stages, Tries, Limits
  <2> QED BY <2>3
<1>5. CASE /\ MayHandOff(u, f) /\ row[f].status = "absent"
           /\ \E outcome \in FirstFirings(f) : row' = [base EXCEPT ![f] = outcome.row]
  <2>1. PICK outcome \in FirstFirings(f) : row' = [base EXCEPT ![f] = outcome.row]
    BY <1>5
  <2> PICK s : s = outcome.row
    OBVIOUS
  <2>2. /\ s \in Rows
        /\ \/ s.status = "deferred" /\ s.fireCount = 0
           \/ s.status \in {"pending", "failed"} /\ s.fireCount = 1
    BY <1>5, FirstOutcomes DEF Fresh
  <2>3. /\ Stage(s) \in {"waiting", "ended"} /\ s.fireCount \in 0..1
        /\ Stage(s) = "ended" => s.fireCount = 1
    BY <2>2, StageOf DEF Live
  <2>4. /\ row'[u] = r /\ row'[f] = s
        /\ \A v \in Users : v # u /\ v # f => row'[v] = row[v]
    BY <1>1, <2>1
  <2>5. \A v \in Users :
          /\ Stage(row'[v]) = IF v = u THEN "passed" ELSE IF v = f THEN Stage(s) ELSE Stage(row[v])
          /\ row'[v].fireCount = IF v = f THEN s.fireCount ELSE row[v].fireCount
    <3> SUFFICES ASSUME NEW v \in Users
                 PROVE  /\ Stage(row'[v]) = IF v = u THEN "passed"
                                            ELSE IF v = f THEN Stage(s) ELSE Stage(row[v])
                        /\ row'[v].fireCount = IF v = f THEN s.fireCount ELSE row[v].fireCount
      OBVIOUS
    <3>1. r.fireCount = row[u].fireCount /\ Stage(r) = "passed"
      BY <1>3, <1>5, ShownOf
    <3>2. CASE v = u
      BY <2>4, <3>1, <3>2
    <3>3. CASE v = f
      BY <2>4, <3>3
    <3>4. CASE v # u /\ v # f
      BY <2>4, <3>4
    <3> QED BY <3>2, <3>3, <3>4
  <2>6. /\ Stages' = [Stages EXCEPT ![u] = "passed", ![f] = Stage(s)]
        /\ Tries' = [Tries EXCEPT ![f] = s.fireCount]
    BY <2>5 DEF Stages, Tries
  <2>7. \E to \in {"waiting", "ended"}, n \in 0..1 :
          /\ to = "ended" => n = 1
          /\ Stages' = [Stages EXCEPT ![u] = "passed", ![f] = to]
          /\ Tries' = [Tries EXCEPT ![f] = n]
    BY <2>3, <2>6
  <2>8. /\ {u, f} \subseteq members /\ ~done /\ UNCHANGED <<members, done>>
        /\ Stages[u] = "waiting" /\ Tries[u] = Limits[u] /\ Stages[f] = "none"
    BY <1>1, <1>3, <1>5
  <2>9. L!PassOn(u, f)
    BY <2>7, <2>8 DEF L!PassOn, L!Spent, L!Open, Stages, Tries, Limits
  <2> QED BY <2>9
<1> QED BY <1>2, <1>4, <1>5 DEF EscalateToFallback

LEMMA AckShows ==
  ASSUME IInv, NEW u \in Users, Ack(u)
  PROVE  L!Acknowledge(u)
<1>1. \A v \in Users : row[v] \in Rows
  BY DEF IInv, TypeOK
<1>2. \A v \in Users :
        /\ Settle(row[v], "acked") \in Rows
        /\ Settle(row[v], "acked").status = "acked"
        /\ Settle(row[v], "acked").fireCount = row[v].fireCount
  BY <1>1 DEF Settle, Rows, Settled, Timers
<1>3. \A v \in Siblings(u) \cup {u} : v \in Users /\ Stage(Settle(row[v], "acked")) = "acked"
  BY <1>2, StageOf DEF Siblings
<1> HIDE DEF Settle
<1>4. \A v \in Users : v # u => (v \in Siblings(u) <=> Stages[v] \in L!OnLadder)
  BY <1>1, StageOf, ShownOf DEF Siblings, AckTerminal, L!OnLadder, Rows, Live, Settled
<1>5. \A v \in Users :
        row'[v] = IF v = u \/ v \in Siblings(u) THEN Settle(row[v], "acked") ELSE row[v]
  BY DEF Ack
<1>6. Stages' = [v \in Users |->
                   IF v = u \/ Stages[v] \in L!OnLadder THEN "acked" ELSE Stages[v]]
  BY <1>3, <1>4, <1>5 DEF Stages
<1>7. Tries' = Tries
  BY <1>2, <1>5 DEF Tries
<1>8. Stages[u] # "none" /\ u \in members /\ done' \in {done, TRUE} /\ UNCHANGED members
  BY <1>1, StageOf, ShownOf DEF Ack
<1>9. Limits' = Limits
  BY LimitsStay DEF Ack
<1> QED BY <1>6, <1>7, <1>8, <1>9 DEF L!Acknowledge, L!OnLadder, Stages, Tries, Limits

LEMMA RemoveShows ==
  ASSUME IInv, NEW u \in Users, RemoveMember(u)
  PROVE  L!Leave(u)
<1>1. /\ row \in [Users -> Rows] /\ row[u] \in Rows
      /\ u \in members /\ members' = members \ {u} /\ UNCHANGED done
  BY DEF RemoveMember, IInv, TypeOK
<1> Limits' = Limits
  <2>1. policy'.repeats = policy.repeats /\ policy'.max = policy.max /\ UNCHANGED defaults
    BY DEF RemoveMember, IInv, TypeOK, Policies
  <2> QED BY <2>1 DEF Limits, MaxSends, Repeats, MaxRepeats
<1> PICK r : r = Settle(row[u], "expired")
  OBVIOUS
<1>2. r \in Rows /\ r.status = "expired" /\ r.fireCount = row[u].fireCount
  BY <1>1 DEF Settle, Rows, Settled, Timers
<1>3. CASE row[u].status \in Live \cup {"escalated"}
  <2>1. row' = [row EXCEPT ![u] = r]
    BY <1>3 DEF RemoveMember, IInv, TypeOK
  <2>2. /\ Stages' = [Stages EXCEPT ![u] = Stage(r)]
        /\ Tries' = [Tries EXCEPT ![u] = r.fireCount]
    BY <1>1, <1>2, <2>1, OneRowShows
  <2>3. Stages' = [Stages EXCEPT ![u] = "ended"] /\ Tries' = Tries
    <3>1. Stage(r) = "ended"
      BY <1>2, StageOf
    <3> QED BY <1>2, <2>2, <3>1 DEF Tries
  <2>4. Stages[u] \in L!OnLadder
    BY <1>1, <1>3, StageOf, ShownOf DEF L!OnLadder
  <2>5. Stages' = [Stages EXCEPT ![u] = IF @ \in L!OnLadder THEN "ended" ELSE @]
    BY <2>3, <2>4
  <2> QED BY <1>1, <2>3, <2>5 DEF L!Leave, Stages, Tries, Limits
<1>4. CASE row[u].status \notin Live \cup {"escalated"}
  <2>1. row' = row
    BY <1>4 DEF RemoveMember, IInv, TypeOK
  <2>2. Stages[u] \notin L!OnLadder
    BY <1>1, <1>4, StageOf, ShownOf DEF L!OnLadder
  <2>3. /\ Stages' = [Stages EXCEPT ![u] = IF @ \in L!OnLadder THEN "ended" ELSE @]
        /\ Tries' = Tries
    BY <2>1, <2>2 DEF Stages, Tries
  <2> QED BY <1>1, <2>3 DEF L!Leave, Stages, Tries, Limits
<1> QED BY <1>3, <1>4

LEMMA TimerShows ==
  ASSUME IInv, NEW u \in Users, TimerExpires(u)
  PROVE  UNCHANGED L!vars
<1>1. UNCHANGED <<members, done, policy, defaults>>
  BY DEF TimerExpires, taskVars
<1> QED BY <1>1, TimerStep, ShowsNothing

LEMMA LimitsTyped ==
  ASSUME policy \in Policies, defaults \in [Users -> Defaults]
  PROVE  Limits \in [Users -> Nat]
BY SendsBounded DEF Limits

LEMMA InitLadder == Init => L!Init
<1>1. NoRow \in Rows /\ NoRow.status = "absent" /\ NoRow.fireCount = 0
  BY DEF NoRow, Rows, Timers
<1>2. Stage(NoRow) = "none"
  BY <1>1, StageOf
<1>3. Init => Limits \in [Users -> Nat]
  BY LimitsTyped, RemindersAssumption DEF Init
<1> QED BY <1>1, <1>2, <1>3 DEF Init, L!Init, Limits

LEMMA NextLadder ==
  ASSUME IInv, [Next]_vars
  PROVE  [L!Next]_(L!vars)
<1>1. CASE \/ UNCHANGED vars \/ BeginScan \/ LoadSweepRows \/ SkipCandidate \/ EndScan
           \/ LeaderLost \/ WindowCloses \/ Reschedule
           \/ \E u \in Users : PruneOutbox(u) \/ Reassign(u)
  <2>1. UNCHANGED <<members, done, policy, defaults, row>>
    BY <1>1 DEF vars, taskVars, rowVars, BeginScan, LoadSweepRows, SkipCandidate, EndScan,
       LeaderLost, KeepRows, WindowCloses, Reschedule, PruneOutbox, Reassign
  <2> QED BY <2>1, RowsShowNothing
<1>2. ASSUME NEW u \in Users, CreateReminder(u) \/ SweepWake(u) \/ SweepEscalate(u)
      PROVE  [L!Next]_(L!vars)
  BY <1>2, CreateShows, EscalateShows DEF L!Next
<1>3. CASE EscalateToFallback
  BY <1>3, HandoffShows DEF L!Next
<1>4. ASSUME NEW u \in Users, TimerExpires(u) \/ Ack(u) \/ RemoveMember(u)
      PROVE  [L!Next]_(L!vars)
  BY <1>4, TimerShows, AckShows, RemoveShows DEF L!Next
<1>5. ASSUME NEW u \in Users, AddMember(u)
      PROVE  [L!Next]_(L!vars)
  <2>1. UNCHANGED <<policy, defaults, row, done>> /\ Limits' = Limits
    BY <1>5, LimitsStay DEF AddMember, rowVars
  <2>2. L!Return(u)
    BY <1>5, <2>1 DEF AddMember, L!Return, Limits
  <2> QED BY <2>2 DEF L!Next
<1>6. CASE SetDone
  <2>1. UNCHANGED <<policy, defaults, row>> /\ Limits' = Limits
    BY <1>6, LimitsStay DEF SetDone, rowVars
  <2>2. L!SetDone
    BY <1>6, <2>1 DEF SetDone, L!SetDone, Limits
  <2> QED BY <2>2 DEF L!Next
<1>7. CASE \/ \E p \in TaskPolicies : SetPolicy(p)
           \/ \E u \in Users, d \in UserDefaults : SetDefaults(u, d)
  <2>1. UNCHANGED <<members, done, row>>
    BY <1>7 DEF SetPolicy, SetDefaults, rowVars
  <2>2. Limits' \in [Users -> Nat]
    <3>1. TaskTyped'
      BY <1>7, EditTyped DEF TaskEdit
    <3>2. (policy \in Policies /\ defaults \in [Users -> Defaults] =>
             Limits \in [Users -> Nat])'
      BY LimitsTyped, PTL
    <3> QED BY <3>1, <3>2 DEF TaskTyped
  <2>3. L!SetLimits
    BY <2>1, <2>2 DEF L!SetLimits, Limits
  <2> QED BY <2>3 DEF L!Next
<1> QED BY <1>1, <1>2, <1>3, <1>4, <1>5, <1>6, <1>7 DEF Next

(* The scheduler keeps the promise of the ladder.                           *)
THEOREM SchedulerKeepsThePromise == Spec => ImplementsLadder
<1>1. Spec => L!Init /\ [][L!Next]_(L!vars)
  BY InitLadder, NextLadder, Inductive, PTL DEF Spec
<1> QED BY <1>1 DEF ImplementsLadder, L!Spec
=============================================================================
