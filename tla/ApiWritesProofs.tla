-------------------------- MODULE ApiWritesProofs ---------------------------
(***************************************************************************)
(* The idempotency of the public API's writes, for any calls, keys and     *)
(* bodies.  The argument is one invariant of each call in progress         *)
(* (Sound): what has been read with a lock held stays true until the lock  *)
(* is given up, because the account's row is locked by one transaction at  *)
(* a time and everybody else who changes a row locks it.                   *)
(***************************************************************************)
EXTENDS ApiWrites, TLAPS

TaskOp(b) == b.op \in {"update", "complete", "delete"}

(* What holds of a call in progress.                                        *)
LocksSound(m) ==
  /\ m.locks # {} => "user" \in m.locks
  /\ "user" \in m.locks => account
  /\ m.step \in {"receipt", "discover", "locking", "answered"} => m.locks = {}

(* Authority to change a task is a lock on it, or there is a receipt that   *)
(* makes any change needless.                                               *)
AuthoritySound(m) ==
  /\ m.held => "user" \in m.locks
  /\ m.held /\ TaskOp(m.body) => "task" \in m.locks \/ receipt[m.key] # NoReceipt
  /\ m.saw /\ account => receipt[m.key] # NoReceipt

CredentialSound(m) ==
  /\ m.step = "actor" => m.body.op # "deliver"
  /\ m.step \in {"deciding", "committing"} =>
       "user" \in m.locks /\ Credential(m.body.op) \in live

VerdictSound(m) ==
  /\ m.step = "committing" => AsObserved(m.body) /\ (TaskOp(m.body) => "task" \in m.locks)
  /\ m.step = "answered" /\ account /\ m.answer \in {"done", "replayed", "gone"} =>
       executed[m.key] = <<m.body>>

Sound(m) ==
  LocksSound(m) /\ AuthoritySound(m) /\ CredentialSound(m) /\ VerdictSound(m)

(* One transaction of the account at a time has anything locked.            *)
Exclusive ==
  \A c, d \in Calls : c # d /\ call[c] # Idle /\ call[d] # Idle =>
    call[c].locks = {} \/ call[d].locks = {}

IInv ==
  /\ TypeOK
  /\ OncePerKey
  /\ Exclusive
  /\ \A c \in Calls : call[c] # Idle => Sound(call[c])

-----------------------------------------------------------------------------
(* Facts about the data *)

LEMMA BodyOps ==
  ASSUME NEW b \in Bodies
  PROVE  /\ b.op \in {"create", "deliver", "update", "complete", "delete"}
         /\ b # NoReceipt
         /\ b.op = "update" => b.title \in Titles
BY ApiWritesAssumption DEF NoReceipt

LEMMA NotIdle ==
  ASSUME NEW m \in InProgress
  PROVE  m # Idle
BY DEF InProgress, Idle, Steps

LEMMA InProgressTyped ==
  ASSUME TypeOK, NEW c \in Calls, call[c] # Idle
  PROVE  call[c] \in InProgress
BY DEF TypeOK

-----------------------------------------------------------------------------
(* A step of one call that changes nothing else *)

LEMMA OneCallMoves ==
  ASSUME IInv, NEW c \in Calls, NEW m \in {Idle} \cup InProgress,
         call' = [call EXCEPT ![c] = m],
         UNCHANGED <<task, role, account, live, receipt, executed>>,
         calls' \in 0..MaxCalls,
         m # Idle => Sound(m),
         m = Idle \/ m.locks = {} \/ Free(c, "user")
  PROVE  IInv'
<1>1. /\ call'[c] = m
      /\ \A d \in Calls : d # c => call'[d] = call[d]
      /\ call' \in [Calls -> {Idle} \cup InProgress]
  BY DEF IInv, TypeOK
<1>2. TypeOK'
  BY <1>1 DEF IInv, TypeOK
<1>3. OncePerKey'
  BY DEF IInv, OncePerKey
<1>4. \A e : Sound(e) => Sound(e)'
  BY DEF Sound, LocksSound, AuthoritySound, CredentialSound, VerdictSound, AsObserved,
         TaskOp, Credential
<1>5. \A d \in Calls : call'[d] # Idle => Sound(call'[d])
  BY <1>1 DEF IInv
<1>6. \A d \in Calls : (call[d] # Idle => Sound(call[d]))'
  BY <1>4, <1>5
<1>7. Exclusive'
  <2> SUFFICES ASSUME NEW d \in Calls, d # c, m # Idle, call[d] # Idle
               PROVE  m.locks = {} \/ call[d].locks = {}
    BY <1>1 DEF IInv, Exclusive
  <2>1. CASE Free(c, "user")
    BY <2>1 DEF Free, IInv, Sound, LocksSound
  <2> QED BY <2>1
<1> QED BY <1>2, <1>3, <1>6, <1>7 DEF IInv

-----------------------------------------------------------------------------
(* The invariant, initially and after the steps of a call *)

LEMMA InitInv == Init => IInv
BY ApiWritesAssumption
   DEF Init, IInv, TypeOK, OncePerKey, Exclusive, Idle, NoReceipt

LEMMA BeginInv ==
  ASSUME IInv, NEW c \in Calls, NEW k \in Keys, NEW b \in Bodies, Begin(c, k, b)
  PROVE  IInv'
<1> DEFINE m == [step |-> IF b.op = "deliver" THEN "discover" ELSE "receipt",
                 key |-> k, body |-> b, saw |-> FALSE, locks |-> {}, held |-> FALSE,
                 answer |-> "pending"]
<1>1. m \in InProgress
  BY DEF InProgress, Steps, Verdicts
<1>2. Sound(m)
  BY DEF Sound, LocksSound, AuthoritySound, CredentialSound, VerdictSound
<1>3. calls' \in 0..MaxCalls
  BY ApiWritesAssumption DEF Begin, IInv, TypeOK
<1>4. m.locks = {}
  OBVIOUS
<1>5. call' = [call EXCEPT ![c] = m] /\ UNCHANGED <<task, role, account, live, receipt, executed>>
  BY DEF Begin
<1> HIDE DEF m
<1> QED BY <1>1, <1>2, <1>3, <1>4, <1>5, OneCallMoves

LEMMA AnswerInv ==
  ASSUME IInv, NEW c \in Calls, call[c] # Idle, NEW a \in Verdicts, Answer(c, a),
         account /\ a \in {"done", "replayed", "gone"} =>
           executed[call[c].key] = <<call[c].body>>,
         UNCHANGED <<task, role, account, live, receipt, executed, calls>>
  PROVE  IInv'
<1> DEFINE m == [call[c] EXCEPT !.step = "answered", !.answer = a, !.locks = {},
                                !.held = FALSE]
<1>1. call[c] \in InProgress
  BY InProgressTyped DEF IInv
<1>2. /\ m \in InProgress
      /\ m.step = "answered" /\ m.answer = a /\ m.locks = {} /\ m.held = FALSE
      /\ m.key = call[c].key /\ m.body = call[c].body /\ m.saw = call[c].saw
  BY <1>1 DEF InProgress, Steps, Verdicts
<1>3. call' = [call EXCEPT ![c] = m]
  BY DEF Answer
<1> HIDE DEF m
<1>4. Sound(m)
  BY <1>2 DEF IInv, Sound, LocksSound, AuthoritySound, CredentialSound, VerdictSound
<1> QED BY <1>2, <1>3, <1>4, OneCallMoves DEF IInv, TypeOK

LEMMA LookForReceiptInv ==
  ASSUME IInv, NEW c \in Calls, LookForReceipt(c)
  PROVE  IInv'
<1> DEFINE m == [call[c] EXCEPT !.step = "discover",
                                !.saw = receipt[call[c].key] # NoReceipt]
<1>1. call[c] \in InProgress /\ call[c] # Idle /\ call[c].step = "receipt"
  BY InProgressTyped DEF IInv, LookForReceipt, AtStep
<1>2. /\ m \in InProgress
      /\ m.step = "discover" /\ m.saw = (receipt[call[c].key] # NoReceipt)
      /\ m.locks = call[c].locks /\ m.held = call[c].held
      /\ m.key = call[c].key /\ m.body = call[c].body
  BY <1>1 DEF InProgress, Steps
<1>3. call' = [call EXCEPT ![c] = m]
  BY DEF LookForReceipt
<1> HIDE DEF m
<1>4. m.locks = {} /\ Sound(m)
  BY <1>1, <1>2 DEF IInv, Sound, LocksSound, AuthoritySound, CredentialSound, VerdictSound
<1> QED BY <1>2, <1>3, <1>4, OneCallMoves DEF IInv, TypeOK, LookForReceipt

LEMMA DiscoverInv ==
  ASSUME IInv, NEW c \in Calls, Discover(c)
  PROVE  IInv'
<1>1. call[c] \in InProgress /\ call[c] # Idle /\ call[c].step = "discover"
  BY InProgressTyped DEF IInv, Discover, AtStep
<1>2. UNCHANGED <<task, role, account, live, receipt, executed, calls>>
  BY DEF Discover
<1>3. CASE Answer(c, "notFound")
  BY <1>1, <1>2, <1>3, AnswerInv DEF Verdicts
<1>4. ASSUME NEW s \in {"locking", "actor"}, s = "actor" => Op(c) # "deliver", Goto(c, s)
      PROVE  IInv'
  <2> DEFINE m == [call[c] EXCEPT !.step = s]
  <2>1. /\ m \in InProgress
        /\ m.step = s /\ m.saw = call[c].saw
        /\ m.locks = call[c].locks /\ m.held = call[c].held
        /\ m.key = call[c].key /\ m.body = call[c].body
    BY <1>1 DEF InProgress, Steps
  <2>2. call' = [call EXCEPT ![c] = m]
    BY <1>4 DEF Goto
  <2> HIDE DEF m
  <2>3. m.locks = {} /\ Sound(m)
    BY <1>1, <1>4, <2>1
       DEF IInv, Sound, LocksSound, AuthoritySound, CredentialSound, VerdictSound, Op
  <2> QED BY <1>2, <2>1, <2>2, <2>3, OneCallMoves DEF IInv, TypeOK
<1> QED BY <1>3, <1>4 DEF Discover

(* The locks of a call go with a live account, and those that come with     *)
(* authority to change a task include it.                                   *)
LEMMA GoOnInv ==
  ASSUME IInv, NEW c \in Calls, AtStep(c, "locking"), Free(c, "user"), account,
         NEW locks \in SUBSET {"user", "seat", "task"}, NEW held \in BOOLEAN,
         "user" \in locks,
         Op(c) = "deliver" => "hook" \in live,
         held /\ TaskOp(call[c].body) =>
           "task" \in locks \/ receipt[call[c].key] # NoReceipt,
         GoOn(c, locks, held),
         UNCHANGED <<task, role, account, live, receipt, executed, calls>>
  PROVE  IInv'
<1> DEFINE s == IF Op(c) = "deliver" THEN "deciding" ELSE "actor"
           m == [call[c] EXCEPT !.step = s, !.locks = locks, !.held = held]
<1>1. call[c] \in InProgress /\ call[c] # Idle
  BY InProgressTyped DEF IInv, AtStep
<1>2. /\ m \in InProgress
      /\ m.step = s /\ m.saw = call[c].saw /\ m.locks = locks /\ m.held = held
      /\ m.key = call[c].key /\ m.body = call[c].body
  BY <1>1 DEF InProgress, Steps
<1>3. call' = [call EXCEPT ![c] = m]
  BY DEF GoOn
<1> HIDE DEF m
<1>4. Sound(m)
  BY <1>1, <1>2
     DEF IInv, Sound, LocksSound, AuthoritySound, CredentialSound, VerdictSound, Op,
         Credential
<1> QED BY <1>2, <1>3, <1>4, OneCallMoves DEF IInv, TypeOK

LEMMA LockInv ==
  ASSUME IInv, NEW c \in Calls, Lock(c)
  PROVE  IInv'
<1>1. /\ call[c] # Idle /\ AtStep(c, "locking") /\ Free(c, "user")
      /\ UNCHANGED <<task, role, account, live, receipt, executed, calls>>
  BY DEF Lock, AtStep
<1>2. CASE account /\ Authority(c) /\ GoOn(c, LocksOf(c), TRUE)
  <2>1. LocksOf(c) \in SUBSET {"user", "seat", "task"} /\ "user" \in LocksOf(c)
    BY DEF LocksOf
  <2>2. Op(c) = "deliver" => "hook" \in live
    BY <1>2 DEF Authority
  <2>3. TaskOp(call[c].body) => "task" \in LocksOf(c) \/ receipt[call[c].key] # NoReceipt
    BY <1>1, <1>2 DEF TaskOp, LocksOf, Op, IInv, Sound, AuthoritySound
  <2> QED BY <1>1, <1>2, <2>1, <2>2, <2>3, GoOnInv
<1>3. CASE /\ account /\ ~Authority(c) /\ Overtaken(c)
           /\ GoOn(c, {"user", "seat"}, role = "writer")
  <2>1. Op(c) = "delete"
    BY <1>3 DEF Overtaken
  <2>2. role = "writer" => receipt[call[c].key] # NoReceipt
    <3>1. role = "writer" => ~call[c].saw /\ task = Deleted
      BY <1>3, <2>1 DEF Authority
    <3> QED BY <1>3, <3>1 DEF Overtaken
  <2> QED BY <1>1, <1>3, <2>1, <2>2, GoOnInv
<1>4. CASE \E a \in Verdicts \ {"done", "replayed", "gone"} : Answer(c, a)
  BY <1>1, <1>4, AnswerInv
<1> QED BY <1>2, <1>3, <1>4 DEF Lock, Verdicts

LEMMA LockActorInv ==
  ASSUME IInv, NEW c \in Calls, LockActor(c)
  PROVE  IInv'
<1>1. /\ call[c] \in InProgress /\ call[c] # Idle /\ call[c].step = "actor"
      /\ Free(c, "user")
      /\ UNCHANGED <<task, role, account, live, receipt, executed, calls>>
  BY InProgressTyped DEF IInv, LockActor, AtStep
<1>2. CASE ~Authentic(c)
  BY <1>1, <1>2, AnswerInv DEF LockActor, Verdicts
<1>3. CASE Authentic(c)
  <2> DEFINE m == [call[c] EXCEPT !.step = "deciding", !.locks = call[c].locks \cup {"user"}]
  <2>1. /\ m \in InProgress
        /\ m.step = "deciding" /\ m.locks = call[c].locks \cup {"user"}
        /\ m.saw = call[c].saw /\ m.held = call[c].held
        /\ m.key = call[c].key /\ m.body = call[c].body
    BY <1>1 DEF InProgress, Steps
  <2>2. call' = [call EXCEPT ![c] = m]
    BY <1>3 DEF LockActor
  <2> HIDE DEF m
  <2>3. Sound(m)
    BY <1>1, <1>3, <2>1
       DEF IInv, Sound, LocksSound, AuthoritySound, CredentialSound, VerdictSound,
           Authentic, Credential
  <2> QED BY <1>1, <2>1, <2>2, <2>3, OneCallMoves DEF IInv, TypeOK
<1> QED BY <1>2, <1>3

(* What a decision rests on: the receipt tells what was executed.           *)
LEMMA Decided ==
  ASSUME IInv, NEW c \in Calls, AtStep(c, "deciding")
  PROVE  /\ account
         /\ Verdict(c) \in Verdicts
         /\ Verdict(c) \in {"replayed", "gone"} => receipt[call[c].key] = call[c].body
         /\ Verdict(c) \in {"done", "changed"} => receipt[call[c].key] = NoReceipt
         /\ Verdict(c) = "done" => call[c].held /\ AsObserved(call[c].body)
         /\ Verdict(c) = "conflict" =>
              receipt[call[c].key] \notin {NoReceipt, call[c].body}
<1>1. call[c] \in InProgress /\ call[c] # Idle /\ call[c].step = "deciding"
  BY InProgressTyped DEF IInv, AtStep
<1>2. account
  BY <1>1 DEF IInv, Sound, LocksSound, CredentialSound
<1>3. Replay(c) \in {"replayed", "forbidden", "notFound", "gone"}
  <2>1. CASE Op(c) \in {"create", "deliver", "delete"}
    BY <2>1 DEF Replay
  <2>2. CASE Op(c) = "update"
    BY <2>2 DEF Replay
  <2>3. CASE Op(c) = "complete"
    BY <2>3 DEF Replay
  <2> QED BY <1>1, <2>1, <2>2, <2>3, BodyOps DEF InProgress, Op
<1>4. /\ Fresh(c) \in {"forbidden", "notFound", "done", "changed"}
      /\ Fresh(c) = "done" => call[c].held /\ AsObserved(call[c].body)
  BY DEF Fresh
<1>5. receipt[call[c].key] # NoReceipt => Verdict(c) \in
        {"notFound", "forbidden", Replay(c), "conflict"}
  BY DEF Verdict
<1>6. receipt[call[c].key] = NoReceipt => Verdict(c) \in {"notFound", "forbidden", Fresh(c)}
  BY DEF Verdict
<1>7. receipt[call[c].key] # NoReceipt /\ Verdict(c) \in {"replayed", "gone"} =>
        receipt[call[c].key] = call[c].body
  BY <1>3 DEF Verdict, SameRequest
<1>8. receipt[call[c].key] # NoReceipt /\ Verdict(c) = "conflict" =>
        receipt[call[c].key] # call[c].body
  BY <1>3 DEF Verdict, SameRequest
<1> QED BY <1>2, <1>3, <1>4, <1>5, <1>6, <1>7, <1>8 DEF Verdicts

LEMMA DecideInv ==
  ASSUME IInv, NEW c \in Calls, Decide(c)
  PROVE  IInv'
<1>1. /\ call[c] \in InProgress /\ call[c] # Idle /\ call[c].step = "deciding"
      /\ AtStep(c, "deciding")
      /\ UNCHANGED <<task, role, account, live, receipt, executed, calls>>
  BY InProgressTyped DEF IInv, Decide, AtStep
<1>2. CASE Verdict(c) = "done"
  <2> DEFINE m == [call[c] EXCEPT !.step = "committing",
                                  !.locks = call[c].locks \cup {"seat"}]
  <2>1. /\ m \in InProgress
        /\ m.step = "committing" /\ m.locks = call[c].locks \cup {"seat"}
        /\ m.saw = call[c].saw /\ m.held = call[c].held
        /\ m.key = call[c].key /\ m.body = call[c].body
    BY <1>1 DEF InProgress, Steps
  <2>2. call' = [call EXCEPT ![c] = m]
    BY <1>2 DEF Decide
  <2> HIDE DEF m
  <2>3. call[c].held /\ AsObserved(call[c].body) /\ receipt[call[c].key] = NoReceipt
    BY <1>1, <1>2, Decided
  <2>4. "user" \in call[c].locks
    BY <1>1 DEF IInv, Sound, CredentialSound
  <2>5. Sound(m)
    BY <1>1, <2>1, <2>3, <2>4
       DEF IInv, Sound, LocksSound, AuthoritySound, CredentialSound, VerdictSound
  <2>6. Free(c, "user")
    BY <1>1, <2>4 DEF Free, IInv, Exclusive
  <2> QED BY <1>1, <2>1, <2>2, <2>5, <2>6, OneCallMoves DEF IInv, TypeOK
<1>3. CASE Verdict(c) # "done"
  <2>1. Answer(c, Verdict(c))
    BY <1>3 DEF Decide
  <2>2. Verdict(c) \in {"replayed", "gone"} => executed[call[c].key] = <<call[c].body>>
    <3>1. Verdict(c) \in {"replayed", "gone"} =>
            receipt[call[c].key] = call[c].body /\ call[c].body # NoReceipt
      BY <1>1, Decided, BodyOps DEF InProgress
    <3> QED BY <1>1, <3>1, Decided DEF IInv, OncePerKey, InProgress
  <2> QED BY <1>1, <1>3, <2>1, <2>2, Decided, AnswerInv
<1> QED BY <1>2, <1>3

(* A call commits alone: nobody else of the account has anything locked.    *)
LEMMA Alone ==
  ASSUME IInv, NEW c \in Calls, AtStep(c, "committing")
  PROVE  /\ account /\ "user" \in call[c].locks
         /\ AsObserved(call[c].body) /\ Credential(call[c].body.op) \in live
         /\ \A d \in Calls \ {c} : call[d] # Idle =>
              call[d].locks = {} /\ call[d].step \notin {"deciding", "committing"}
BY DEF IInv, Exclusive, Sound, LocksSound, CredentialSound, VerdictSound, AtStep

LEMMA CommitInv ==
  ASSUME IInv, NEW c \in Calls, Commit(c)
  PROVE  IInv'
<1> DEFINE k == call[c].key
           b == call[c].body
<1>1. /\ call[c] \in InProgress /\ call[c] # Idle /\ call[c].step = "committing"
      /\ AtStep(c, "committing")
      /\ k \in Keys /\ b \in Bodies
  BY InProgressTyped DEF IInv, Commit, AtStep, InProgress
<1>2. account /\ executed[k] = <<>> /\ receipt[k] = NoReceipt
  BY <1>1, Alone DEF IInv, OncePerKey, Commit
<1>3. /\ receipt' = [receipt EXCEPT ![k] = b]
      /\ executed' = [executed EXCEPT ![k] = Append(@, b)]
      /\ UNCHANGED <<role, account, live, calls>>
  BY DEF Commit, Recorded
<1>4. /\ executed'[k] = <<b>> /\ receipt'[k] = b /\ b # NoReceipt
      /\ \A j \in Keys : j # k => executed'[j] = executed[j] /\ receipt'[j] = receipt[j]
  <2>1. Append(<<>>, b) = <<b>>
    OBVIOUS
  <2> QED BY <1>1, <1>2, <1>3, <2>1, BodyOps DEF IInv, TypeOK
<1>5. OncePerKey'
  BY <1>3, <1>4 DEF IInv, OncePerKey
<1>6. task' \in Snapshots \cup {Deleted}
  <2>1. task \in Snapshots \cup {Deleted} /\ task' = Changed(b)
    BY DEF IInv, TypeOK, Commit
  <2>2. CASE b.op = "update"
    <3>1. task \in Snapshots /\ b.title \in Titles
      BY <1>1, <2>1, <2>2, BodyOps DEF Commit
    <3> QED BY <2>1, <2>2, <3>1 DEF Changed, Snapshots
  <2>3. CASE b.op = "complete"
    <3>1. task \in Snapshots
      BY <1>1, <2>1, <2>3 DEF Commit
    <3>2. CASE task.due < LastDue
      <4>1. task' = [task EXCEPT !.due = @ + 1]
        BY <2>1, <2>3, <3>2 DEF Changed
      <4> QED BY <3>1, <3>2, <4>1, ApiWritesAssumption DEF Snapshots
    <3>3. CASE ~(task.due < LastDue)
      BY <2>1, <2>3, <3>3 DEF Changed
    <3> QED BY <3>2, <3>3
  <2>4. CASE b.op \in {"delete", "create", "deliver"}
    BY <2>1, <2>4 DEF Changed
  <2> QED BY <1>1, <2>2, <2>3, <2>4, BodyOps
<1>7. PICK a \in {"done", "unavailable"} : Answer(c, a)
  BY DEF Commit
<1> DEFINE m == [call[c] EXCEPT !.step = "answered", !.answer = a, !.locks = {},
                                !.held = FALSE]
<1>8. /\ m \in InProgress
      /\ m.step = "answered" /\ m.answer = a /\ m.locks = {} /\ m.held = FALSE
      /\ m.key = k /\ m.body = b /\ m.saw = call[c].saw
  BY <1>1 DEF InProgress, Steps, Verdicts
<1>9. /\ call' = [call EXCEPT ![c] = m]
      /\ call' \in [Calls -> {Idle} \cup InProgress]
      /\ call'[c] = m /\ \A d \in Calls : d # c => call'[d] = call[d]
  BY <1>7, <1>8 DEF Answer, IInv, TypeOK
<1> HIDE DEF m
<1>10. TypeOK'
  <2>1. executed' \in [Keys -> Seq(Bodies)] /\ receipt' \in [Keys -> Bodies \cup {NoReceipt}]
    BY <1>1, <1>3 DEF IInv, TypeOK
  <2> QED BY <1>3, <1>6, <1>9, <2>1 DEF IInv, TypeOK
<1>11. Exclusive'
  BY <1>1, <1>8, <1>9, Alone DEF Exclusive
<1>12. ASSUME NEW d \in Calls
       PROVE  (call[d] # Idle => Sound(call[d]))'
  <2> SUFFICES ASSUME call'[d] # Idle PROVE Sound(call[d])'
    OBVIOUS
  <2>1. CASE d = c
    BY <1>3, <1>4, <1>8, <1>9, <2>1
       DEF Sound, LocksSound, AuthoritySound, CredentialSound, VerdictSound
  <2>2. CASE d # c
    <3>1. /\ call'[d] = call[d] /\ call[d] # Idle /\ call[d].key \in Keys
          /\ call[d].locks = {} /\ call[d].step \notin {"deciding", "committing"}
      BY <1>1, <1>9, <2>2, InProgressTyped, Alone DEF IInv, InProgress
    <3>2. ~call[d].held
      BY <3>1 DEF IInv, Sound, AuthoritySound
    <3>3. call[d].saw => receipt'[call[d].key] # NoReceipt
      BY <1>2, <1>4, <3>1 DEF IInv, Sound, AuthoritySound
    <3>4. call[d].step = "answered" /\ call[d].answer \in {"done", "replayed", "gone"} =>
            executed'[call[d].key] = <<call[d].body>>
      <4> SUFFICES ASSUME call[d].step = "answered",
                          call[d].answer \in {"done", "replayed", "gone"}
                   PROVE  executed'[call[d].key] = <<call[d].body>>
        OBVIOUS
      <4>1. executed[call[d].key] = <<call[d].body>>
        BY <1>2, <3>1 DEF IInv, Sound, VerdictSound
      <4>2. call[d].key # k
        <5>1. Len(<<call[d].body>>) = 1 /\ Len(<<>>) = 0
          OBVIOUS
        <5>2. SUFFICES ASSUME call[d].key = k PROVE FALSE
          OBVIOUS
        <5>3. <<>> = <<call[d].body>>
          BY <1>2, <4>1, <5>2
        <5>4. Len(<<>>) = Len(<<call[d].body>>)
          BY <5>3, Zenon
        <5> QED BY <5>1, <5>4
      <4> QED BY <1>4, <3>1, <4>1, <4>2
    <3>5. call[d].step = "actor" => call[d].body.op # "deliver"
      BY <3>1 DEF IInv, Sound, CredentialSound
    <3>6. LocksSound(call[d])' /\ CredentialSound(call[d])'
      BY <1>3, <3>1, <3>5 DEF LocksSound, CredentialSound
    <3>7. AuthoritySound(call[d])'
      BY <1>3, <3>1, <3>2, <3>3 DEF AuthoritySound
    <3>8. VerdictSound(call[d])'
      BY <1>3, <3>1, <3>4 DEF VerdictSound
    <3> QED BY <3>6, <3>7, <3>8 DEF Sound
  <2> QED BY <2>1, <2>2
<1> QED BY <1>5, <1>10, <1>11, <1>12 DEF IInv

LEMMA FailInv ==
  ASSUME IInv, NEW c \in Calls, Fail(c)
  PROVE  IInv'
BY AnswerInv DEF Fail, Verdicts

LEMMA ReturnInv ==
  ASSUME IInv, NEW c \in Calls, Return(c)
  PROVE  IInv'
BY OneCallMoves DEF Return, IInv, TypeOK

-----------------------------------------------------------------------------
(* The steps of the others *)

LEMMA EditInv ==
  ASSUME IInv, Edit
  PROVE  IInv'
<1>1. /\ \A c \in Calls : call[c] # Idle => "task" \notin call[c].locks
      /\ UNCHANGED <<role, account, live, receipt, executed, call, calls>>
      /\ task' \in Snapshots \cup {Deleted}
  BY DEF Edit, Locked
<1>2. ASSUME NEW c \in Calls, call[c] # Idle
      PROVE  Sound(call[c])'
  <2>1. Sound(call[c]) /\ call[c] \in InProgress /\ call[c].body \in Bodies
    BY <1>2, InProgressTyped DEF IInv, InProgress
  <2>2. LocksSound(call[c])' /\ AuthoritySound(call[c])' /\ CredentialSound(call[c])'
    BY <1>1, <2>1 DEF Sound, LocksSound, AuthoritySound, CredentialSound
  <2>3. call[c].step = "committing" =>
          ~TaskOp(call[c].body) /\ call[c].body.op \in {"create", "deliver"}
    BY <1>1, <1>2, <2>1, BodyOps DEF Sound, VerdictSound, TaskOp
  <2>4. call[c].body.op \in {"create", "deliver"} => AsObserved(call[c].body)'
    BY <1>1 DEF AsObserved
  <2>5. VerdictSound(call[c])'
    BY <1>1, <2>1, <2>3, <2>4 DEF Sound, VerdictSound
  <2> QED BY <2>2, <2>5 DEF Sound
<1> QED BY <1>1, <1>2 DEF IInv, TypeOK, OncePerKey, Exclusive

LEMMA ChangeRoleInv ==
  ASSUME IInv, ChangeRole
  PROVE  IInv'
<1>1. /\ UNCHANGED <<task, account, live, receipt, executed, call, calls>>
      /\ role' \in {"writer", "viewer", "none"}
  BY DEF ChangeRole
<1>2. ASSUME NEW c \in Calls, Sound(call[c])
      PROVE  Sound(call[c])'
  BY <1>1, <1>2
     DEF Sound, LocksSound, AuthoritySound, CredentialSound, VerdictSound, AsObserved
<1> QED BY <1>1, <1>2 DEF IInv, TypeOK, OncePerKey, Exclusive

LEMMA RevokeInv ==
  ASSUME IInv, NEW credential \in {"token", "hook"}, Revoke(credential)
  PROVE  IInv'
<1>1. /\ \A c \in Calls : call[c] # Idle => "user" \notin call[c].locks
      /\ UNCHANGED <<task, role, account, receipt, executed, call, calls>>
      /\ live' = live \ {credential}
  BY DEF Revoke, Locked
<1>2. ASSUME NEW c \in Calls, call[c] # Idle
      PROVE  Sound(call[c])'
  BY <1>1, <1>2
     DEF IInv, Sound, LocksSound, AuthoritySound, CredentialSound, VerdictSound, AsObserved
<1> QED BY <1>1, <1>2 DEF IInv, TypeOK, OncePerKey, Exclusive

LEMMA DeleteAccountInv ==
  ASSUME IInv, DeleteAccount
  PROVE  IInv'
<1>1. /\ \A c \in Calls : call[c] # Idle => "user" \notin call[c].locks
      /\ UNCHANGED <<task, executed, call, calls>>
      /\ account' = FALSE /\ role' = "none" /\ live' = {}
      /\ receipt' \in [Keys -> Bodies \cup {NoReceipt}]
  BY DEF DeleteAccount, Locked
<1>2. ASSUME NEW c \in Calls, call[c] # Idle
      PROVE  Sound(call[c])'
  BY <1>1, <1>2
     DEF IInv, Sound, LocksSound, AuthoritySound, CredentialSound, VerdictSound, AsObserved
<1> QED BY <1>1, <1>2 DEF IInv, TypeOK, OncePerKey, Exclusive

LEMMA NextInv == IInv /\ [Next]_vars => IInv'
<1> SUFFICES ASSUME IInv, [Next]_vars PROVE IInv'
  OBVIOUS
<1>1. CASE \E c \in Calls : \E k \in Keys, b \in Bodies : Begin(c, k, b)
  BY <1>1, BeginInv
<1>2. ASSUME NEW c \in Calls,
             \/ LookForReceipt(c) \/ Discover(c) \/ Lock(c) \/ LockActor(c)
             \/ Decide(c) \/ Commit(c) \/ Fail(c) \/ Return(c)
      PROVE  IInv'
  BY <1>2, LookForReceiptInv, DiscoverInv, LockInv, LockActorInv, DecideInv, CommitInv,
     FailInv, ReturnInv
<1>3. CASE Edit \/ ChangeRole \/ DeleteAccount
  BY <1>3, EditInv, ChangeRoleInv, DeleteAccountInv
<1>4. CASE \E credential \in {"token", "hook"} : Revoke(credential)
  BY <1>4, RevokeInv
<1>5. CASE UNCHANGED vars
  <2>1. UNCHANGED <<task, role, account, live, receipt, executed, call, calls>>
    BY <1>5 DEF vars
  <2>2. ASSUME NEW c \in Calls, Sound(call[c])
        PROVE  Sound(call[c])'
    BY <2>1, <2>2
       DEF Sound, LocksSound, AuthoritySound, CredentialSound, VerdictSound, AsObserved
  <2> QED BY <2>1, <2>2 DEF IInv, TypeOK, OncePerKey, Exclusive
<1> QED BY <1>1, <1>2, <1>3, <1>4, <1>5 DEF Next

LEMMA Invariant == Spec => []IInv
BY InitInv, NextInv, PTL DEF Spec

-----------------------------------------------------------------------------
(* Theorems *)

(* Every variable keeps its type, for any calls, keys and bodies.           *)
THEOREM TypeCorrect == Spec => []TypeOK
<1>1. IInv => TypeOK
  BY DEF IInv
<1> QED BY <1>1, Invariant, PTL

(* Two calls of an account never have anything locked at the same time.     *)
THEOREM LocksAreExclusive == Spec => []Exclusive
<1>1. IInv => Exclusive
  BY DEF IInv
<1> QED BY <1>1, Invariant, PTL

(* However many calls share a key, overlap, fail or lose their answers,     *)
(* what was done under it was done once, as its receipt says (write.ts).    *)
THEOREM DoneOnce == Spec => []OncePerKey
<1>1. IInv => OncePerKey
  BY DEF IInv
<1> QED BY <1>1, Invariant, PTL

(* Who is told of success asked for what was done under his key.            *)
THEOREM SuccessIsSound == Spec => []SuccessIsTrue
<1>1. IInv => SuccessIsTrue
  BY DEF IInv, SuccessIsTrue, AtStep, Sound, VerdictSound
<1> QED BY <1>1, Invariant, PTL

(* The action properties follow from the invariant one step at a time: only *)
(* Commit executes anything.                                                *)
LEMMA OnlyCommits ==
  ASSUME IInv, [Next]_vars, executed' # executed
  PROVE  \E c \in Calls : Commit(c)
BY DEF Next, vars, Begin, LookForReceipt, Discover, Lock, LockActor, Decide, Fail, Return,
       Edit, ChangeRole, DeleteAccount, Revoke

LEMMA Executes ==
  ASSUME IInv, NEW c \in Calls, Commit(c), NEW k \in Keys, executed'[k] # executed[k]
  PROVE  /\ executed'[k][Len(executed'[k])] = call[c].body
         /\ AtStep(c, "committing") /\ role = "writer"
<1>1. /\ call[c] \in InProgress /\ AtStep(c, "committing") /\ role = "writer"
  BY InProgressTyped DEF IInv, Commit, AtStep
<1>2. /\ call[c].key \in Keys /\ call[c].body \in Bodies
      /\ executed' = [executed EXCEPT ![call[c].key] = Append(@, call[c].body)]
      /\ executed[k] \in Seq(Bodies)
  BY <1>1 DEF InProgress, Commit, IInv, TypeOK
<1>3. executed'[k] = Append(executed[k], call[c].body)
  BY <1>2 DEF IInv, TypeOK
<1> QED BY <1>1, <1>2, <1>3

(* A task is updated, completed or deleted only as its caller observed it.  *)
THEOREM DoneAsObserved == Spec => OnlyAsObserved
<1>1. IInv /\ [Next]_vars => [\A k \in Keys : executed'[k] # executed[k] =>
        AsObserved(executed'[k][Len(executed'[k])])]_vars
  <2> SUFFICES ASSUME IInv, [Next]_vars, NEW k \in Keys, executed'[k] # executed[k]
               PROVE  AsObserved(executed'[k][Len(executed'[k])])
    OBVIOUS
  <2>1. PICK c \in Calls : Commit(c)
    BY OnlyCommits
  <2> QED BY <2>1, Executes, Alone
<1> QED BY <1>1, Invariant, PTL DEF Spec, OnlyAsObserved

(* Nothing is done for a credential, a role or an account that is gone.     *)
THEOREM DoneWithRights == Spec => OnlyWithRights
<1>1. IInv /\ [Next]_vars => [\A k \in Keys : executed'[k] # executed[k] =>
        /\ account /\ role = "writer"
        /\ Credential(executed'[k][Len(executed'[k])].op) \in live]_vars
  <2> SUFFICES ASSUME IInv, [Next]_vars, NEW k \in Keys, executed'[k] # executed[k]
               PROVE  /\ account /\ role = "writer"
                      /\ Credential(executed'[k][Len(executed'[k])].op) \in live
    OBVIOUS
  <2>1. PICK c \in Calls : Commit(c)
    BY OnlyCommits
  <2> QED BY <2>1, Executes, Alone
<1> QED BY <1>1, Invariant, PTL DEF Spec, OnlyWithRights

(* Only a decision refuses a call for its observation or its key.           *)
LEMMA Refuses ==
  ASSUME IInv, [Next]_vars, NEW c \in Calls,
         ~AtStep(c, "answered"), call'[c] # Idle, call'[c].step = "answered",
         call'[c].answer \in {"changed", "conflict"}
  PROVE  AtStep(c, "deciding") /\ Verdict(c) \in {"changed", "conflict"}
<1>1. call \in [Calls -> {Idle} \cup InProgress] /\ call'[c] # call[c]
  BY DEF IInv, TypeOK, AtStep
<1>2. \A d \in Calls : \A m : call' = [call EXCEPT ![d] = m] => d = c /\ call'[c] = m
  BY <1>1
<1>3. ASSUME NEW d \in Calls, NEW a, Answer(d, a)
      PROVE  d = c /\ (call[c] # Idle => call'[c].answer = a)
  <2>1. d = c /\ call'[c] = [call[c] EXCEPT !.step = "answered", !.answer = a,
                                            !.locks = {}, !.held = FALSE]
    BY <1>2, <1>3 DEF Answer
  <2> QED BY <1>1, <2>1 DEF InProgress
<1>4. ASSUME NEW d \in Calls, NEW a \in Verdicts \ {"changed", "conflict"}, Answer(d, a),
             call[d] # Idle
      PROVE  FALSE
  BY <1>3, <1>4
<1>5. ASSUME NEW d \in Calls, NEW k \in Keys, NEW b \in Bodies, Begin(d, k, b)
      PROVE  FALSE
  BY <1>1, <1>5 DEF Begin
<1>6. ASSUME NEW d \in Calls, LookForReceipt(d)
      PROVE  FALSE
  <2>1. call[d] \in InProgress
    BY <1>6, InProgressTyped DEF IInv, LookForReceipt, AtStep
  <2> QED BY <1>1, <1>6, <2>1 DEF LookForReceipt, InProgress
<1>7. ASSUME NEW d \in Calls, Discover(d)
      PROVE  FALSE
  <2>1. call[d] \in InProgress /\ call[d] # Idle
    BY <1>7, InProgressTyped DEF IInv, Discover, AtStep
  <2>2. ASSUME NEW s \in {"locking", "actor"}, Goto(d, s)
        PROVE  FALSE
    BY <1>1, <2>1, <2>2 DEF Goto, InProgress
  <2>3. ~Answer(d, "notFound")
    BY <1>4, <2>1 DEF Verdicts
  <2> QED BY <1>7, <2>2, <2>3 DEF Discover
<1>8. ASSUME NEW d \in Calls, Lock(d)
      PROVE  FALSE
  <2>1. call[d] \in InProgress /\ call[d] # Idle
    BY <1>8, InProgressTyped DEF IInv, Lock, AtStep
  <2>2. ASSUME NEW locks, NEW held, GoOn(d, locks, held)
        PROVE  FALSE
    BY <1>1, <2>1, <2>2 DEF GoOn, InProgress
  <2>3. \A a \in {"notFound", "unauthorized", "forbidden", "unavailable"} : ~Answer(d, a)
    BY <1>4, <2>1 DEF Verdicts
  <2> QED BY <1>8, <2>2, <2>3 DEF Lock
<1>9. ASSUME NEW d \in Calls, LockActor(d)
       PROVE  FALSE
  <2>1. call[d] \in InProgress /\ call[d] # Idle
    BY <1>9, InProgressTyped DEF IInv, LockActor, AtStep
  <2>2. ~Answer(d, "unauthorized")
    BY <1>4, <2>1 DEF Verdicts
  <2>3. call' = [call EXCEPT ![d] = [call[d] EXCEPT !.step = "deciding",
                                     !.locks = call[d].locks \cup {"user"}]]
    BY <1>9, <2>2 DEF LockActor
  <2> QED BY <1>1, <2>1, <2>3 DEF InProgress
<1>10. ASSUME NEW d \in Calls, Decide(d)
       PROVE  AtStep(c, "deciding") /\ Verdict(c) \in {"changed", "conflict"}
  <2>1. call[d] \in InProgress /\ call[d] # Idle /\ AtStep(d, "deciding")
    BY <1>10, InProgressTyped DEF IInv, Decide, AtStep
  <2>2. CASE Verdict(d) = "done"
    <3>1. call' = [call EXCEPT ![d] = [call[d] EXCEPT !.step = "committing",
                                       !.locks = call[d].locks \cup {"seat"}]]
      BY <1>10, <2>2 DEF Decide
    <3> QED BY <1>1, <2>1, <3>1 DEF InProgress
  <2>3. CASE Verdict(d) # "done"
    <3>1. Answer(d, Verdict(d))
      BY <1>10, <2>3 DEF Decide
    <3>2. d = c /\ (call[c] # Idle => call'[c].answer = Verdict(d))
      BY <1>3, <3>1
    <3> QED BY <2>1, <3>2
  <2> QED BY <2>2, <2>3
<1>11. ASSUME NEW d \in Calls, Commit(d) \/ Fail(d)
       PROVE  FALSE
  BY <1>4, <1>11 DEF Commit, Fail, AtStep, Verdicts
<1>12. ASSUME NEW d \in Calls, Return(d)
       PROVE  FALSE
  BY <1>1, <1>12 DEF Return
<1>13. call' # call
  BY <1>1
<1> QED
  BY <1>5, <1>6, <1>7, <1>8, <1>9, <1>10, <1>11, <1>12, <1>13
     DEF Next, vars, Edit, ChangeRole, DeleteAccount, Revoke

(* Who is told to observe the task anew, or that his key is taken, has      *)
(* changed nothing: a second attempt does nothing twice.                    *)
THEOREM RefusalsAreSound == Spec => RefusedWasNotDone
<1>1. ASSUME IInv, [Next]_vars, NEW c \in Calls,
             ~AtStep(c, "answered"), AtStep(c, "answered")',
             call'[c].answer \in {"changed", "conflict"},
             NEW i \in 1..Len(executed[call[c].key])
      PROVE  executed[call[c].key][i] # call[c].body
  <2>1. AtStep(c, "deciding") /\ Verdict(c) \in {"changed", "conflict"}
    BY <1>1, Refuses DEF AtStep
  <2>2. call[c] \in InProgress /\ call[c].key \in Keys
    BY <1>1, <2>1, InProgressTyped DEF IInv, AtStep, InProgress
  <2>3. CASE receipt[call[c].key] = NoReceipt
    <3>1. executed[call[c].key] = <<>>
      BY <1>1, <2>1, <2>2, <2>3, Decided DEF IInv, OncePerKey
    <3> QED BY <1>1, <3>1
  <2>4. CASE receipt[call[c].key] # NoReceipt
    <3>1. /\ executed[call[c].key] = <<receipt[call[c].key]>>
          /\ receipt[call[c].key] # call[c].body
      BY <1>1, <2>1, <2>2, <2>4, Decided DEF IInv, OncePerKey
    <3> QED BY <1>1, <3>1
  <2> QED BY <2>3, <2>4
<1>2. IInv /\ [Next]_vars => [\A c \in Calls :
        ~AtStep(c, "answered") /\ AtStep(c, "answered")'
          /\ call'[c].answer \in {"changed", "conflict"} =>
          \A i \in 1..Len(executed[call[c].key]) :
            executed[call[c].key][i] # call[c].body]_vars
  BY <1>1
<1> QED BY <1>2, Invariant, PTL DEF Spec, RefusedWasNotDone

-----------------------------------------------------------------------------
(* The refinement: a call keeps the promise at its commit, or when it       *)
(* decides on what it is told.                                              *)

Talks == [c \in Calls |-> Talk(call[c])]

LEMMA InitPromised == Init => Promised!Init
BY DEF Init, Promised!Init, Promised!Silent, Talk

(* A call that only moves on shows nothing.                                 *)
LEMMA MovesSilently ==
  ASSUME IInv, NEW c \in Calls, NEW m \in InProgress,
         call[c] # Idle, call[c].step # "answered",
         call' = [call EXCEPT ![c] = m], m.step # "answered",
         m.key = call[c].key, m.body = call[c].body, UNCHANGED executed
  PROVE  UNCHANGED Promised!vars
<1>1. /\ call'[c] = m /\ m # Idle
      /\ \A d \in Calls : d # c => call'[d] = call[d]
  BY NotIdle DEF IInv, TypeOK
<1>2. Talk(m) = Talk(call[c])
  BY <1>1 DEF Talk
<1>3. \A d \in Calls : Talk(call'[d]) = Talk(call[d])
  BY <1>1, <1>2
<1>4. UNCHANGED Talks
  BY <1>3 DEF Talks
<1> QED BY <1>4 DEF Promised!vars, Talks

LEMMA AnswerTells ==
  ASSUME IInv, NEW c \in Calls, call[c] # Idle, call[c].step # "answered",
         NEW a \in Verdicts, Answer(c, a)
  PROVE  /\ Promised!Pending(c) /\ Promised!Tell(c, Meaning(a))
         /\ Talks[c].key = call[c].key /\ Talks[c].body = call[c].body
         /\ call[c].key \in Keys /\ call[c].body \in Bodies
<1> DEFINE m == [call[c] EXCEPT !.step = "answered", !.answer = a, !.locks = {},
                                !.held = FALSE]
<1>1. call[c] \in InProgress
  BY InProgressTyped DEF IInv
<1>2. /\ m \in InProgress
      /\ m.step = "answered" /\ m.answer = a
      /\ m.key = call[c].key /\ m.body = call[c].body
  BY <1>1 DEF InProgress, Steps, Verdicts
<1>3. call' = [call EXCEPT ![c] = m]
  BY DEF Answer
<1> HIDE DEF m
<1>4. /\ call'[c] = m /\ m # Idle
      /\ \A d \in Calls : d # c => call'[d] = call[d]
  BY <1>2, <1>3, NotIdle DEF IInv, TypeOK
<1>5. Talk(call[c]) = [state |-> "asking", key |-> call[c].key, body |-> call[c].body]
  BY DEF Talk
<1>6. Talk(m) = [state |-> Meaning(a), key |-> call[c].key, body |-> call[c].body]
  BY <1>2, <1>4 DEF Talk
<1>7. Talk(m) = [Talk(call[c]) EXCEPT !.state = Meaning(a)]
  BY <1>5, <1>6
<1>8. \A d \in Calls : Talks'[d] = IF d = c THEN Talk(m) ELSE Talks[d]
  BY <1>4 DEF Talks
<1>9. Talks' = [Talks EXCEPT ![c] = [Talks[c] EXCEPT !.state = Meaning(a)]]
  BY <1>7, <1>8 DEF Talks
<1>10. Promised!Pending(c) /\ Promised!Tell(c, Meaning(a))
  BY <1>5, <1>9 DEF Talks, Promised!Pending, Promised!Tell
<1> QED BY <1>1, <1>5, <1>10 DEF Talks, InProgress

LEMMA BeginPromised ==
  ASSUME IInv, NEW c \in Calls, NEW k \in Keys, NEW b \in Bodies, Begin(c, k, b)
  PROVE  Promised!Ask(c)
<1> DEFINE m == [step |-> IF b.op = "deliver" THEN "discover" ELSE "receipt",
                 key |-> k, body |-> b, saw |-> FALSE, locks |-> {}, held |-> FALSE,
                 answer |-> "pending"]
<1>1. /\ m \in InProgress /\ m.step # "answered" /\ m.key = k /\ m.body = b
      /\ call' = [call EXCEPT ![c] = m] /\ call[c] = Idle /\ UNCHANGED executed
  BY DEF Begin, InProgress, Steps, Verdicts
<1> HIDE DEF m
<1>2. /\ call'[c] = m /\ m # Idle
      /\ \A d \in Calls : d # c => call'[d] = call[d]
  BY <1>1, NotIdle DEF IInv, TypeOK
<1>3. Talk(call[c]) = Promised!Silent /\ Talk(m) = Promised!Asking(k, b)
  BY <1>1, <1>2 DEF Talk, Promised!Silent, Promised!Asking
<1>4. \A d \in Calls : Talks'[d] = IF d = c THEN Talk(m) ELSE Talks[d]
  BY <1>2 DEF Talks
<1>5. Talks' = [Talks EXCEPT ![c] = Promised!Asking(k, b)]
  BY <1>3, <1>4 DEF Talks
<1> QED BY <1>1, <1>3, <1>5 DEF Talks, Promised!Ask

LEMMA ReturnPromised ==
  ASSUME IInv, NEW c \in Calls, Return(c)
  PROVE  Promised!Hear(c)
<1>1. /\ call[c] # Idle /\ call[c].step = "answered"
      /\ call' = [call EXCEPT ![c] = Idle] /\ UNCHANGED executed
  BY DEF Return, AtStep
<1>2. call'[c] = Idle /\ \A d \in Calls : d # c => call'[d] = call[d]
  BY <1>1 DEF IInv, TypeOK
<1>3. Talk(Idle) = Promised!Silent
  BY DEF Talk, Promised!Silent
<1>4. Talk(call[c]).state \notin {"silent", "asking"}
  BY <1>1 DEF Talk, Meaning
<1>5. \A d \in Calls : Talks'[d] = IF d = c THEN Promised!Silent ELSE Talks[d]
  BY <1>2, <1>3 DEF Talks
<1>6. Talks' = [Talks EXCEPT ![c] = Promised!Silent]
  BY <1>5 DEF Talks
<1>7. Talk(call[c]) # Promised!Silent
  BY <1>4 DEF Promised!Silent
<1> QED BY <1>1, <1>4, <1>6, <1>7 DEF Talks, Promised!Hear, Promised!Pending

(* A call answered for other reasons leaves open whether it was done.       *)
LEMMA OtherwisePromised ==
  ASSUME IInv, NEW c \in Calls, call[c] # Idle, call[c].step # "answered",
         NEW a \in Verdicts \ {"done", "replayed", "gone", "changed", "conflict"},
         Answer(c, a), UNCHANGED executed
  PROVE  Promised!LeaveOpen(c)
<1>1. Meaning(a) = "open"
  BY DEF Meaning
<1> QED BY <1>1, AnswerTells DEF Promised!LeaveOpen

LEMMA CommitPromised ==
  ASSUME IInv, NEW c \in Calls, Commit(c)
  PROVE  Promised!Do(c)
<1> DEFINE k == call[c].key
           b == call[c].body
<1>1. /\ call[c] # Idle /\ call[c].step = "committing" /\ AtStep(c, "committing")
      /\ receipt[k] = NoReceipt
      /\ executed' = [executed EXCEPT ![k] = Append(@, b)]
  BY DEF Commit, AtStep
<1>2. PICK a \in {"done", "unavailable"} : Answer(c, a)
  BY DEF Commit
<1>3. /\ Promised!Pending(c) /\ Promised!Tell(c, Meaning(a))
      /\ Talks[c].key = k /\ Talks[c].body = b /\ k \in Keys
  BY <1>1, <1>2, AnswerTells DEF Verdicts
<1>4. executed[k] = <<>>
  BY <1>1, <1>3, Alone DEF IInv, OncePerKey
<1>5. executed' = [executed EXCEPT ![k] = <<b>>]
  <2>1. Append(<<>>, b) = <<b>>
    OBVIOUS
  <2> QED BY <1>1, <1>4, <2>1
<1>6. Meaning(a) \in {"success", "open"}
  BY DEF Meaning
<1>7. Promised!Tell(c, "success") \/ Promised!Tell(c, "open")
  BY <1>3, <1>6
<1> QED BY <1>3, <1>4, <1>5, <1>7 DEF Talks, Promised!Do

(* The receipt a decision has read tells what was done.                     *)
LEMMA DecidePromised ==
  ASSUME IInv, NEW c \in Calls, Decide(c)
  PROVE  \/ Promised!Confirm(c) \/ Promised!Refuse(c) \/ Promised!LeaveOpen(c)
         \/ UNCHANGED Promised!vars
<1>1. /\ call[c] \in InProgress /\ call[c] # Idle /\ call[c].step = "deciding"
      /\ AtStep(c, "deciding") /\ UNCHANGED executed
  BY InProgressTyped DEF IInv, Decide, AtStep
<1>2. CASE Verdict(c) = "done"
  <2> DEFINE m == [call[c] EXCEPT !.step = "committing",
                                  !.locks = call[c].locks \cup {"seat"}]
  <2>1. /\ m \in InProgress /\ m.step = "committing"
        /\ m.key = call[c].key /\ m.body = call[c].body
    BY <1>1 DEF InProgress, Steps
  <2>2. call' = [call EXCEPT ![c] = m]
    BY <1>2 DEF Decide
  <2> HIDE DEF m
  <2> QED BY <1>1, <2>1, <2>2, MovesSilently
<1>3. CASE Verdict(c) # "done"
  <2> PICK a \in Verdicts : a = Verdict(c)
    BY <1>1, Decided
  <2>1. Answer(c, a) /\ a # "done"
    BY <1>3 DEF Decide
  <2>2. /\ Promised!Pending(c) /\ Promised!Tell(c, Meaning(a))
        /\ Talks[c].key = call[c].key /\ Talks[c].body = call[c].body
        /\ call[c].key \in Keys /\ call[c].body \in Bodies
    BY <1>1, <2>1, AnswerTells
  <2>3. executed[call[c].key] =
          IF receipt[call[c].key] = NoReceipt THEN <<>> ELSE <<receipt[call[c].key]>>
    BY <1>1, <2>2, Decided DEF IInv, OncePerKey
  <2>4. CASE a \in {"replayed", "gone"}
    <3>1. receipt[call[c].key] = call[c].body /\ call[c].body # NoReceipt
      BY <1>1, <2>2, <2>4, Decided, BodyOps
    <3>2. executed[call[c].key] = <<call[c].body>>
      BY <2>3, <3>1
    <3>3. Meaning(a) = "success"
      BY <2>4 DEF Meaning
    <3> QED BY <1>1, <2>2, <3>2, <3>3 DEF Talks, Promised!Confirm, Promised!WasDone
  <2>5. CASE a \in {"changed", "conflict"}
    <3>1. receipt[call[c].key] # call[c].body
      BY <1>1, <2>2, <2>5, Decided, BodyOps
    <3>2. executed[call[c].key] # <<call[c].body>>
      BY <2>3, <3>1
    <3>3. Meaning(a) = "refused"
      BY <2>5 DEF Meaning
    <3> QED BY <1>1, <2>2, <3>2, <3>3 DEF Talks, Promised!Refuse, Promised!WasDone
  <2>6. CASE a \notin {"replayed", "gone", "changed", "conflict"}
    BY <1>1, <2>1, <2>6, OtherwisePromised
  <2> QED BY <2>4, <2>5, <2>6
<1> QED BY <1>2, <1>3

(* Up to a decision a call waits, moves on, or is turned away.              *)
LEMMA ApproachPromised ==
  ASSUME IInv, NEW c \in Calls,
         LookForReceipt(c) \/ Discover(c) \/ Lock(c) \/ LockActor(c) \/ Fail(c)
  PROVE  Promised!LeaveOpen(c) \/ UNCHANGED Promised!vars
<1>1. /\ call[c] \in InProgress /\ call[c] # Idle /\ call[c].step # "answered"
      /\ UNCHANGED executed
  BY InProgressTyped
     DEF IInv, LookForReceipt, Discover, Lock, LockActor, Fail, AtStep
<1>2. ASSUME NEW a \in {"notFound", "unauthorized", "forbidden", "unavailable"}, Answer(c, a)
      PROVE  Promised!LeaveOpen(c)
  BY <1>1, <1>2, OtherwisePromised DEF Verdicts
<1>3. ASSUME NEW m, call' = [call EXCEPT ![c] = m], m \in InProgress,
             m.step # "answered", m.key = call[c].key, m.body = call[c].body
      PROVE  UNCHANGED Promised!vars
  BY <1>1, <1>3, MovesSilently
<1>4. CASE LookForReceipt(c)
  <2> DEFINE m == [call[c] EXCEPT !.step = "discover",
                                  !.saw = receipt[call[c].key] # NoReceipt]
  <2>1. /\ m \in InProgress /\ m.step = "discover"
        /\ m.key = call[c].key /\ m.body = call[c].body
    BY <1>1 DEF InProgress, Steps
  <2>2. call' = [call EXCEPT ![c] = m]
    BY <1>4 DEF LookForReceipt
  <2> HIDE DEF m
  <2> QED BY <1>3, <2>1, <2>2
<1>5. CASE Discover(c)
  <2>1. ASSUME NEW s \in {"locking", "actor"}, Goto(c, s)
        PROVE  UNCHANGED Promised!vars
    <3> DEFINE m == [call[c] EXCEPT !.step = s]
    <3>1. /\ m \in InProgress /\ m.step = s
          /\ m.key = call[c].key /\ m.body = call[c].body
      BY <1>1 DEF InProgress, Steps
    <3>2. call' = [call EXCEPT ![c] = m]
      BY <2>1 DEF Goto
    <3> HIDE DEF m
    <3> QED BY <1>3, <3>1, <3>2
  <2> QED BY <1>2, <1>5, <2>1 DEF Discover
<1>6. CASE Lock(c)
  <2>1. ASSUME NEW locks \in SUBSET {"user", "seat", "task"}, NEW held \in BOOLEAN,
               GoOn(c, locks, held)
        PROVE  UNCHANGED Promised!vars
    <3> DEFINE s == IF Op(c) = "deliver" THEN "deciding" ELSE "actor"
               m == [call[c] EXCEPT !.step = s, !.locks = locks, !.held = held]
    <3>1. /\ m \in InProgress /\ m.step # "answered"
          /\ m.key = call[c].key /\ m.body = call[c].body
      BY <1>1 DEF InProgress, Steps
    <3>2. call' = [call EXCEPT ![c] = m]
      BY <2>1 DEF GoOn
    <3> HIDE DEF m
    <3> QED BY <1>3, <3>1, <3>2
  <2>2. LocksOf(c) \in SUBSET {"user", "seat", "task"}
    BY DEF LocksOf
  <2> QED BY <1>2, <1>6, <2>1, <2>2 DEF Lock
<1>7. CASE LockActor(c)
  <2>1. CASE Authentic(c)
    <3> DEFINE m == [call[c] EXCEPT !.step = "deciding",
                                    !.locks = call[c].locks \cup {"user"}]
    <3>1. /\ m \in InProgress /\ m.step = "deciding"
          /\ m.key = call[c].key /\ m.body = call[c].body
      BY <1>1 DEF InProgress, Steps
    <3>2. call' = [call EXCEPT ![c] = m]
      BY <1>7, <2>1 DEF LockActor
    <3> HIDE DEF m
    <3> QED BY <1>3, <3>1, <3>2
  <2> QED BY <1>2, <1>7, <2>1 DEF LockActor
<1>8. CASE Fail(c)
  BY <1>2, <1>8 DEF Fail
<1> QED BY <1>4, <1>5, <1>6, <1>7, <1>8

(* Every step of the promise shows.                                         *)
LEMMA StepsShow ==
  ASSUME NEW c \in Calls,
         \/ Promised!Ask(c) \/ Promised!Do(c) \/ Promised!Confirm(c)
         \/ Promised!Refuse(c) \/ Promised!LeaveOpen(c) \/ Promised!Hear(c)
  PROVE  Promised!Next
<1>1. Talks' # Talks
  <2>1. ASSUME Promised!Pending(c), NEW s, s # "asking", Promised!Tell(c, s)
        PROVE  Talks' # Talks
    <3>1. Talks[c].state = "asking" /\ Talks' = [Talks EXCEPT ![c].state = s]
      BY <2>1 DEF Promised!Pending, Promised!Tell, Talks
    <3>2. Talks'[c].state = s
      BY <3>1 DEF Talks, Talk
    <3> QED BY <2>1, <3>1, <3>2
  <2>2. CASE Promised!Do(c) \/ Promised!Confirm(c) \/ Promised!Refuse(c) \/ Promised!LeaveOpen(c)
    BY <2>1, <2>2 DEF Promised!Do, Promised!Confirm, Promised!Refuse, Promised!LeaveOpen
  <2>3. CASE Promised!Hear(c)
    <3>1. Talks[c] # Promised!Silent /\ Talks'[c] = Promised!Silent
      BY <2>3 DEF Promised!Hear, Talks
    <3> QED BY <3>1
  <2>4. CASE Promised!Ask(c)
    <3>1. PICK k \in Keys, b \in Bodies : Talks' = [Talks EXCEPT ![c] = Promised!Asking(k, b)]
      BY <2>4 DEF Promised!Ask, Talks
    <3>2. Talks[c] = Promised!Silent /\ Talks'[c] = Promised!Asking(k, b)
      BY <2>4, <3>1 DEF Promised!Ask, Talks
    <3>3. Promised!Silent.state = "silent" /\ Promised!Asking(k, b).state = "asking"
      BY DEF Promised!Silent, Promised!Asking
    <3> QED BY <3>2, <3>3
  <2> QED BY <2>2, <2>3, <2>4
<1> QED BY <1>1 DEF Promised!Next, Talks

LEMMA StepPromised ==
  ASSUME IInv, [Next]_vars
  PROVE  [Promised!Next]_(Promised!vars)
<1>1. ASSUME NEW c \in Calls, NEW k \in Keys, NEW b \in Bodies, Begin(c, k, b)
      PROVE  Promised!Next
  BY <1>1, BeginPromised, StepsShow
<1>2. ASSUME NEW c \in Calls,
             LookForReceipt(c) \/ Discover(c) \/ Lock(c) \/ LockActor(c) \/ Fail(c)
      PROVE  Promised!Next \/ UNCHANGED Promised!vars
  BY <1>2, ApproachPromised, StepsShow
<1>3. ASSUME NEW c \in Calls, Decide(c)
      PROVE  Promised!Next \/ UNCHANGED Promised!vars
  BY <1>3, DecidePromised, StepsShow
<1>4. ASSUME NEW c \in Calls, Commit(c) \/ Return(c)
      PROVE  Promised!Next
  BY <1>4, CommitPromised, ReturnPromised, StepsShow
<1>5. ASSUME UNCHANGED <<call, executed>>
      PROVE  UNCHANGED Promised!vars
  BY <1>5 DEF Promised!vars
<1>6. CASE Edit \/ ChangeRole \/ DeleteAccount \/ UNCHANGED vars
  BY <1>5, <1>6 DEF Edit, ChangeRole, DeleteAccount, vars
<1>7. CASE \E credential \in {"token", "hook"} : Revoke(credential)
  BY <1>5, <1>7 DEF Revoke
<1> QED BY <1>1, <1>2, <1>3, <1>4, <1>6, <1>7 DEF Next

(* The public API keeps the promise of an idempotency key, for any number   *)
(* of calls, keys and requests: what overlaps, waits, fails, is repeated or *)
(* turned away amounts to one step of each call.                            *)
THEOREM ApiKeepsThePromise == Spec => ImplementsIdempotency
BY InitPromised, StepPromised, Invariant, PTL DEF Spec, ImplementsIdempotency, Promised!Spec
=============================================================================
