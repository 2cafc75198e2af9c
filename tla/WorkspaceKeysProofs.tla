------------------------- MODULE WorkspaceKeysProofs -------------------------
(***************************************************************************)
(* Proofs about WorkspaceKeys, for any users, versions and bounds.         *)
(*                                                                         *)
(* A client posts what it computed from an earlier state, so the           *)
(* invariants have to speak of the calls in flight as well: whatever a     *)
(* granter sealed is the committed key, because a commitment never         *)
(* changes.  KnownKeys keeps a version that is minted later out of the     *)
(* memory of those who left before.                                        *)
(***************************************************************************)
EXTENDS WorkspaceKeys, FiniteSetTheorems, SequenceTheorems, TLAPS

(* A key is minted with its commitment, and the first version first.        *)
KeysMinted ==
  /\ \A v \in Versions : workspaceKey[v] # NoKey =>
       /\ workspaceKey[v].commitment \in Wdks
       /\ workspaceKey[v].state \in {"active", "retired"}
  /\ \A v \in Versions :
       workspaceKey[FirstVersion] = NoKey => workspaceKey[v] = NoKey

(* A wrap has a key and a recipient.                                        *)
WrapsReal ==
  \A u \in Users, v \in Versions : Holds(u, v) =>
    wrap[u][v].wdk \in Wdks /\ wrap[u][v].to \in Identities

(* A granter's client seals the committed key.                              *)
GrantsInFlight ==
  \A g \in Users : call[g].op = "grant" =>
    /\ workspaceKey[call[g].version] # NoKey
    /\ call[g].wdk = workspaceKey[call[g].version].commitment

(* Nobody knows a version before it is minted.                              *)
KnownKeys ==
  \A u \in Users, v \in Versions : v \in knows[u] => workspaceKey[v] # NoKey

(* As long as somebody who left knows the active key, it must be rotated.   *)
LeaversObligeRotation ==
  \A u \in Users \ members, v \in Versions :
    v \in knows[u] /\ Active(v) => rotationRequired

IInv ==
  /\ TypeOK
  /\ KeysMinted
  /\ OneActiveVersion
  /\ WrapsReal
  /\ NoFork
  /\ NoWrapStranded
  /\ GrantsInFlight
  /\ KnownKeys
  /\ LeaversObligeRotation

-----------------------------------------------------------------------------
LEMMA Bounds ==
  /\ 1 \in Versions /\ FirstVersion \in Versions
  /\ Versions \subseteq Nat
  /\ 0 \notin Identities /\ Identities \subseteq Nat
  /\ 0 \notin Wdks /\ Wdks \subseteq Nat
  /\ NoKey \in Keys /\ NoWrap \in Wraps
  /\ Idle \in Calls
BY WorkspaceKeysAssumption
   DEF Versions, FirstVersion, Identities, Wdks, NoKey, Keys, NoWrap, Wraps,
       Calls

(* What the type of a call says of its fields.                              *)
LEMMA CallTypes ==
  ASSUME NEW c \in Calls
  PROVE  /\ c = Idle => c.op = "idle"
         /\ c.op = "provision" => c.wdk \in Wdks /\ c.to \in Identities
         /\ c.op = "request" => c.version \in Versions /\ c.seat \in Nat
         /\ c.op = "grant" =>
              /\ c.asker \in Users /\ c.seat \in Nat /\ c.version \in Versions
              /\ c.nth \in Nat /\ c.wdk \in Wdks /\ c.to \in Identities
         /\ c.op = "rotate" =>
              /\ c.version \in Versions \ {MaxVersion} /\ c.wdk \in Wdks
              /\ c.grants \in Grants
         /\ c.op = "identity" =>
              /\ c.from \in Identities \ {MaxIdentity}
              /\ c.rewraps \in SUBSET (Nat \X Versions \X Nat)
         /\ c.op = "report" =>
              c.version \in Versions /\ c.seat \in Nat /\ c.nth \in Nat
         /\ c.op = "upload" => c.version \in Versions
BY DEF Calls, Idle

LEMMA InitInvariant == Init => IInv
<1> SUFFICES ASSUME Init PROVE IInv
  OBVIOUS
<1> USE WorkspaceKeysAssumption
<1>1. TypeOK
  <2>1. <<>> \in Seq(RequestStates)
    OBVIOUS
  <2>2. requests \in [Users -> [Versions -> Seq(RequestStates)]]
    BY <2>1 DEF Init
  <2>3. workspaceKey \in [Versions -> Keys] /\ wrap \in [Users -> [Versions -> Wraps]]
    BY Bounds DEF Init
  <2>4. call \in [Users -> Calls]
    BY Bounds DEF Init
  <2>5. /\ members \subseteq Users
        /\ joins \in [Users -> Nat]
        /\ files \in [Versions -> Nat]
        /\ drawn \in 0 .. MaxDraws
    BY DEF Init
  <2>6. /\ publicKey \in [Users -> Identities \cup {0}]
        /\ session \in [Users -> Identities \cup {0}]
        /\ rotationRequired \in BOOLEAN
        /\ knows \in [Users -> SUBSET Versions]
    BY DEF Init
  <2>7. QED
    BY <2>2, <2>3, <2>4, <2>5, <2>6 DEF TypeOK
<1>2. KeysMinted /\ OneActiveVersion /\ KnownKeys
  BY DEF Init, KeysMinted, OneActiveVersion, KnownKeys, Active, NoKey
<1>3. WrapsReal /\ NoFork /\ NoWrapStranded
  BY DEF Init, WrapsReal, NoFork, NoWrapStranded, Holds
<1>4. GrantsInFlight
  BY DEF Init, GrantsInFlight, Idle
<1>5. LeaversObligeRotation
  BY DEF Init, LeaversObligeRotation
<1>6. QED
  BY <1>1, <1>2, <1>3, <1>4, <1>5 DEF IInv

(* A client holds one call, which its answer removes.                       *)
LEMMA CallMoves ==
  ASSUME TypeOK, NEW u \in Users
  PROVE  /\ Answered(u) => call' \in [Users -> Calls]
         /\ \A c \in Calls : Begin(u, c) => call' \in [Users -> Calls]
BY Bounds DEF TypeOK, Answered, Begin

LEMMA RowsTyped ==
  ASSUME TypeOK, NEW u \in Users
  PROVE  WrapRows(u) \in SUBSET (Nat \X Versions \X Nat)
<1>1. \A v \in Versions : Cardinality(Failed(u, v)) \in Nat
  <2> TAKE v \in Versions
  <2>1. requests[u][v] \in Seq(RequestStates)
    BY DEF TypeOK
  <2>2. Len(requests[u][v]) \in Nat /\ DOMAIN requests[u][v] = 1 .. Len(requests[u][v])
    BY <2>1
  <2>3. Failed(u, v) \in SUBSET (1 .. Len(requests[u][v]))
    BY <2>2 DEF Failed, Asked
  <2>4. IsFiniteSet(1 .. Len(requests[u][v]))
    BY <2>2, FS_Interval
  <2>5. QED
    BY <2>3, <2>4, FS_Subset, FS_CardinalityType
<1>2. joins[u] \in Nat
  BY DEF TypeOK
<1>3. QED
  BY <1>1, <1>2 DEF WrapRows, Held

LEMMA WrapMoves ==
  ASSUME TypeOK, NEW u \in Users, NEW v \in Versions, NEW w \in Wraps
  PROVE  /\ [wrap EXCEPT ![u][v] = w] \in [Users -> [Versions -> Wraps]]
         /\ [knows EXCEPT ![u] = @ \cup {v}] \in [Users -> SUBSET Versions]
<1>1. [wrap[u] EXCEPT ![v] = w] \in [Versions -> Wraps]
  BY DEF TypeOK
<1>2. [wrap EXCEPT ![u][v] = w] \in [Users -> [Versions -> Wraps]]
  BY <1>1 DEF TypeOK
<1>3. knows[u] \cup {v} \in SUBSET Versions
  BY DEF TypeOK
<1>4. QED
  BY <1>2, <1>3 DEF TypeOK

(* Requests stay sequences of states.                                       *)
LEMMA RequestsTyped ==
  ASSUME NEW q \in Seq(RequestStates)
  PROVE  /\ Append(q, "pending") \in Seq(RequestStates)
         /\ \A n \in DOMAIN q, st \in RequestStates :
              [q EXCEPT ![n] = st] \in Seq(RequestStates)
         /\ <<"pending">> \in Seq(RequestStates)
         /\ <<>> \in Seq(RequestStates)
         /\ [n \in DOMAIN q |-> IF q[n] = "pending" THEN "revoked" ELSE q[n]]
              \in Seq(RequestStates)
         /\ DOMAIN q \subseteq Nat
<1>1. "pending" \in RequestStates /\ "revoked" \in RequestStates
  BY DEF RequestStates
<1>2. Append(q, "pending") \in Seq(RequestStates)
  BY <1>1
<1>3. \A n \in DOMAIN q, st \in RequestStates :
        [q EXCEPT ![n] = st] \in Seq(RequestStates)
  OBVIOUS
<1>4. <<"pending">> \in Seq(RequestStates) /\ <<>> \in Seq(RequestStates)
  BY <1>1
<1>5. [n \in DOMAIN q |-> IF q[n] = "pending" THEN "revoked" ELSE q[n]]
        \in Seq(RequestStates)
  <2>1. DOMAIN q = 1 .. Len(q) /\ Len(q) \in Nat
    OBVIOUS
  <2>2. \A n \in 1 .. Len(q) : q[n] \in RequestStates
    OBVIOUS
  <2>3. [n \in 1 .. Len(q) |-> IF q[n] = "pending" THEN "revoked" ELSE q[n]]
          \in [1 .. Len(q) -> RequestStates]
    BY <1>1, <2>2
  <2>4. QED
    BY <2>1, <2>3, SeqDef
<1>6. DOMAIN q \subseteq Nat
  OBVIOUS
<1>7. QED
  BY <1>2, <1>3, <1>4, <1>5, <1>6

LEMMA MarkMoves ==
  ASSUME TypeOK, NEW u \in Users, NEW v \in Versions,
         NEW n \in DOMAIN requests[u][v], NEW st \in RequestStates
  PROVE  [requests EXCEPT ![u][v][n] = st]
           \in [Users -> [Versions -> Seq(RequestStates)]]
<1>1. requests[u][v] \in Seq(RequestStates)
  BY DEF TypeOK
<1>2. [requests[u][v] EXCEPT ![n] = st] \in Seq(RequestStates)
  BY <1>1, RequestsTyped
<1>3. [requests[u] EXCEPT ![v] = [requests[u][v] EXCEPT ![n] = st]]
        \in [Versions -> Seq(RequestStates)]
  BY <1>2 DEF TypeOK
<1>4. QED
  BY <1>3 DEF TypeOK

-----------------------------------------------------------------------------
(* The types, action by action.                                             *)
LEMMA MemberTypes ==
  ASSUME TypeOK, NEW u \in Users, Join(u) \/ Leave(u)
  PROVE  TypeOK'
<1>1. CASE Join(u)
  <2>1. [v \in Versions |-> IF Active(v) THEN <<"pending">> ELSE <<>>]
          \in [Versions -> Seq(RequestStates)]
    BY RequestsTyped, EmptySeq
  <2>2. requests' \in [Users -> [Versions -> Seq(RequestStates)]]
    BY <1>1, <2>1 DEF Join, TypeOK
  <2>3. joins' \in [Users -> Nat] /\ members' \subseteq Users
    BY <1>1 DEF Join, TypeOK
  <2>4. QED
    BY <1>1, <2>2, <2>3 DEF Join, TypeOK, identityVars, keyVars
<1>2. CASE Leave(u)
  <2>1. [v \in Versions |-> <<>>] \in [Versions -> Seq(RequestStates)]
    BY EmptySeq
  <2>2. requests' \in [Users -> [Versions -> Seq(RequestStates)]]
    BY <1>2, <2>1 DEF Leave, TypeOK
  <2>3. wrap' \in [Users -> [Versions -> Wraps]]
    BY <1>2, Bounds DEF Leave, TypeOK
  <2>4. QED
    BY <1>2, <2>2, <2>3 DEF Leave, TypeOK, identityVars
<1>3. QED
  BY <1>1, <1>2

LEMMA IdentityTypes ==
  ASSUME TypeOK, NEW u \in Users,
         \/ Enroll(u) \/ Unlock(u) \/ StartReplace(u) \/ ReplaceIdentity(u)
  PROVE  TypeOK'
<1> USE WorkspaceKeysAssumption
<1>1. CASE Enroll(u)
  <2>1. 1 \in Identities
    BY <1>1 DEF Enroll, Identities
  <2>2. QED
    BY <1>1, <2>1 DEF Enroll, TypeOK, keyVars
<1>2. CASE Unlock(u)
  BY <1>2 DEF Unlock, TypeOK, keyVars
<1>3. CASE StartReplace(u)
  <2> DEFINE c == [op |-> "identity", from |-> session[u],
                   rewraps |-> WrapRows(u)]
  <2>1. session[u] \in Identities \ {MaxIdentity}
    BY <1>3 DEF StartReplace, Identities
  <2>2. c \in Calls
    BY <2>1, RowsTyped DEF Calls
  <2>3. call' \in [Users -> Calls]
    BY <1>3, <2>2, CallMoves DEF StartReplace
  <2>4. QED
    BY <1>3, <2>3 DEF StartReplace, TypeOK, identityVars, keyVars
<1>4. CASE ReplaceIdentity(u)
  <2>1. publicKey[u] + 1 \in Identities
    <3>1. publicKey[u] \in Identities \ {MaxIdentity}
      BY <1>4, CallTypes DEF TypeOK, ReplaceIdentity, MayReplace
    <3>2. QED
      BY <3>1 DEF Identities
  <2>2. wrap' \in [Users -> [Versions -> Wraps]]
    <3>1. \A w \in Wraps, to \in Identities : [w EXCEPT !.to = to] \in Wraps
      BY DEF Wraps
    <3>2. \A v \in Versions : wrap[u][v] \in Wraps
      BY DEF TypeOK
    <3>3. \A v \in Versions :
            [wrap[u][v] EXCEPT !.to = publicKey[u] + 1] \in Wraps
      BY <2>1, <3>1, <3>2
    <3>4. [v \in Versions |-> IF \E row \in call[u].rewraps : row[2] = v
                              THEN [wrap[u][v] EXCEPT !.to = publicKey[u] + 1]
                              ELSE wrap[u][v]] \in [Versions -> Wraps]
      BY <3>2, <3>3
    <3>5. QED
      BY <1>4, <3>4 DEF TypeOK, ReplaceIdentity
  <2>3. /\ publicKey' \in [Users -> Identities \cup {0}]
        /\ session' \in [Users -> Identities \cup {0}]
    <3>1. publicKey' = [publicKey EXCEPT ![u] = @ + 1]
      BY <1>4 DEF ReplaceIdentity
    <3>2. \/ session' = [session EXCEPT ![u] = publicKey[u] + 1]
          \/ session' = session
      BY <1>4 DEF ReplaceIdentity
    <3>3. QED
      BY <2>1, <3>1, <3>2 DEF TypeOK
  <2>4. call' \in [Users -> Calls]
    BY <1>4, CallMoves DEF ReplaceIdentity
  <2>5. QED
    BY <1>4, <2>2, <2>3, <2>4 DEF ReplaceIdentity, TypeOK
<1>5. QED
  BY <1>1, <1>2, <1>3, <1>4

LEMMA MintTypes ==
  ASSUME TypeOK, NEW u \in Users, StartProvision(u) \/ Provision(u)
  PROVE  TypeOK'
<1> USE WorkspaceKeysAssumption
<1>1. CASE StartProvision(u)
  <2>1. drawn' \in 0 .. MaxDraws /\ drawn + 1 \in Wdks
    BY <1>1 DEF TypeOK, StartProvision, Draw, Wdks
  <2>2. session[u] \in Identities
    BY <1>1 DEF TypeOK, StartProvision
  <2>3. [op |-> "provision", wdk |-> drawn + 1, to |-> session[u]] \in Calls
    BY <2>1, <2>2 DEF Calls
  <2>4. call' \in [Users -> Calls]
    BY <1>1, <2>3, CallMoves DEF StartProvision
  <2>5. QED
    BY <1>1, <2>1, <2>4 DEF StartProvision, TypeOK, identityVars, keyVars
<1>2. CASE Provision(u)
  <2>1. call[u].wdk \in Wdks /\ call[u].to \in Identities
    BY <1>2, CallTypes DEF TypeOK, Provision
  <2>2. Minted(call[u]) \in Keys
    BY <2>1, Bounds DEF TypeOK, Minted, Keys
  <2>3. workspaceKey' \in [Versions -> Keys]
    BY <1>2, <2>2 DEF TypeOK, Provision
  <2>4. [wdk |-> call[u].wdk, to |-> call[u].to] \in Wraps
    BY <2>1 DEF Wraps
  <2>5. /\ wrap' \in [Users -> [Versions -> Wraps]]
        /\ knows' \in [Users -> SUBSET Versions]
    <3> DEFINE w == [wdk |-> call[u].wdk, to |-> call[u].to]
    <3>1. \/ /\ wrap' = [wrap EXCEPT ![u][FirstVersion] = w]
             /\ knows' = [knows EXCEPT ![u] = @ \cup {FirstVersion}]
          \/ wrap' = wrap /\ knows' = knows
      BY <1>2 DEF Provision
    <3>2. w \in Wraps
      BY <2>4
    <3> HIDE DEF w
    <3>3. /\ [wrap EXCEPT ![u][FirstVersion] = w] \in [Users -> [Versions -> Wraps]]
          /\ [knows EXCEPT ![u] = @ \cup {FirstVersion}] \in [Users -> SUBSET Versions]
      BY <3>2, Bounds, WrapMoves
    <3>4. QED
      BY <3>1, <3>3 DEF TypeOK
  <2>6. call' \in [Users -> Calls]
    BY <1>2, CallMoves DEF Provision
  <2>7. QED
    BY <1>2, <2>3, <2>5, <2>6 DEF Provision, TypeOK, identityVars
<1>3. QED
  BY <1>1, <1>2

LEMMA RequestTypes ==
  ASSUME TypeOK, NEW u \in Users, StartRequest(u) \/ Request(u)
  PROVE  TypeOK'
<1>1. CASE StartRequest(u)
  <2>1. \A v \in Versions :
          [op |-> "request", version |-> v, seat |-> joins[u]] \in Calls
    BY DEF TypeOK, Calls
  <2>2. call' \in [Users -> Calls]
    BY <1>1, <2>1, CallMoves DEF StartRequest
  <2>3. QED
    BY <1>1, <2>2 DEF StartRequest, TypeOK, identityVars, keyVars
<1>2. CASE Request(u)
  <2>1. call[u].version \in Versions
    BY <1>2, CallTypes DEF TypeOK, Request
  <2>2. requests' \in [Users -> [Versions -> Seq(RequestStates)]]
    <3>1. requests[u][call[u].version] \in Seq(RequestStates)
      BY <2>1 DEF TypeOK
    <3>2. Append(requests[u][call[u].version], "pending") \in Seq(RequestStates)
      BY <3>1, RequestsTyped
    <3>3. QED
      BY <1>2, <2>1, <3>2 DEF TypeOK, Request
  <2>3. call' \in [Users -> Calls]
    BY <1>2, CallMoves DEF Request
  <2>4. QED
    BY <1>2, <2>2, <2>3 DEF Request, TypeOK, identityVars, keyVars
<1>3. QED
  BY <1>1, <1>2

LEMMA GrantTypes ==
  ASSUME TypeOK, WrapsReal, NEW u \in Users, StartGrant(u) \/ Grant(u)
  PROVE  TypeOK'
<1>1. CASE StartGrant(u)
  <2>1. PICK m \in members \cap Enrolled, v \in Versions :
          /\ Holds(u, v)
          /\ \E n \in DOMAIN Asked(m, v) :
               Begin(u, [op |-> "grant", asker |-> m, seat |-> joins[m],
                         version |-> v, nth |-> n,
                         wdk |-> wrap[u][v].wdk, to |-> publicKey[m]])
    BY <1>1 DEF StartGrant
  <2>2. PICK n \in DOMAIN Asked(m, v) :
          Begin(u, [op |-> "grant", asker |-> m, seat |-> joins[m],
                    version |-> v, nth |-> n,
                    wdk |-> wrap[u][v].wdk, to |-> publicKey[m]])
    BY <2>1
  <2>3. n \in Nat
    BY RequestsTyped DEF TypeOK, Asked, Enrolled
  <2>4. joins[m] \in Nat /\ publicKey[m] \in Identities
    BY DEF TypeOK, Enrolled
  <2>5. wrap[u][v].wdk \in Wdks
    BY <2>1 DEF WrapsReal
  <2>6. [op |-> "grant", asker |-> m, seat |-> joins[m], version |-> v,
         nth |-> n, wdk |-> wrap[u][v].wdk, to |-> publicKey[m]] \in Calls
    BY <2>3, <2>4, <2>5 DEF Calls, Enrolled
  <2>7. call' \in [Users -> Calls]
    BY <2>2, <2>6, CallMoves
  <2>8. QED
    BY <1>1, <2>7 DEF StartGrant, TypeOK, identityVars, keyVars
<1>2. CASE Grant(u)
  <2> DEFINE c == call[u]
             w == [wdk |-> c.wdk, to |-> c.to]
  <2>1. /\ c.asker \in Users /\ c.version \in Versions
        /\ c.wdk \in Wdks /\ c.to \in Identities
    BY <1>2, CallTypes DEF TypeOK, Grant
  <2>2. w \in Wraps
    BY <2>1 DEF Wraps
  <2>3. /\ wrap' = [wrap EXCEPT ![c.asker][c.version] = w]
        /\ knows' = [knows EXCEPT ![c.asker] = @ \cup {c.version}]
        /\ requests' = [requests EXCEPT ![c.asker][c.version][c.nth] = "ready"]
    BY <1>2 DEF Grant
  <2>4. c.nth \in DOMAIN requests[c.asker][c.version]
    BY <1>2 DEF Grant, MayGrant, Names, Asked
  <2>5. call' \in [Users -> Calls]
    BY <1>2, CallMoves DEF Grant
  <2> HIDE DEF w, c
  <2>6. /\ wrap' \in [Users -> [Versions -> Wraps]]
        /\ knows' \in [Users -> SUBSET Versions]
    BY <2>1, <2>2, <2>3, WrapMoves
  <2>7. requests' \in [Users -> [Versions -> Seq(RequestStates)]]
    BY <2>1, <2>3, <2>4, MarkMoves DEF RequestStates
  <2>8. QED
    BY <1>2, <2>5, <2>6, <2>7 DEF Grant, TypeOK, identityVars
<1>3. QED
  BY <1>1, <1>2

LEMMA ReportTypes ==
  ASSUME TypeOK, NEW u \in Users, StartReport(u) \/ Report(u)
  PROVE  TypeOK'
<1>1. CASE StartReport(u)
  <2>1. PICK v \in Versions :
          Begin(u, [op |-> "report", version |-> v, seat |-> joins[u],
                    nth |-> Len(Asked(u, v))])
    BY <1>1 DEF StartReport, Held
  <2>2. Len(Asked(u, v)) \in Nat /\ joins[u] \in Nat
    BY DEF TypeOK, Asked
  <2>3. [op |-> "report", version |-> v, seat |-> joins[u],
         nth |-> Len(Asked(u, v))] \in Calls
    BY <2>2 DEF Calls
  <2>4. call' \in [Users -> Calls]
    BY <2>1, <2>3, CallMoves
  <2>5. QED
    BY <1>1, <2>4 DEF StartReport, TypeOK, identityVars, keyVars
<1>2. CASE Report(u)
  <2> DEFINE c == call[u]
  <2>1. c.version \in Versions
    BY <1>2, CallTypes DEF TypeOK, Report
  <2>2. /\ wrap' = [wrap EXCEPT ![u][c.version] = NoWrap]
        /\ requests' = [requests EXCEPT ![u][c.version][c.nth] = "failed"]
    BY <1>2 DEF Report
  <2>3. c.nth \in DOMAIN requests[u][c.version]
    BY <1>2 DEF Report, Names, Asked
  <2>4. call' \in [Users -> Calls]
    BY <1>2, CallMoves DEF Report
  <2> HIDE DEF c
  <2>5. wrap' \in [Users -> [Versions -> Wraps]]
    BY <2>1, <2>2, Bounds, WrapMoves
  <2>6. requests' \in [Users -> [Versions -> Seq(RequestStates)]]
    BY <2>1, <2>2, <2>3, MarkMoves DEF RequestStates
  <2>7. QED
    BY <1>2, <2>4, <2>5, <2>6 DEF Report, TypeOK, identityVars
<1>3. QED
  BY <1>1, <1>2

(* What a rotation makes of the keys.                                       *)
LEMMA RotatedKeys ==
  ASSUME TypeOK, NEW old \in Versions \ {MaxVersion}, NEW key \in Wdks,
         NEW keys,
         keys = [workspaceKey EXCEPT
                   ![old] = [commitment |-> @.commitment, state |-> "retired"],
                   ![old + 1] = [commitment |-> key, state |-> "active"]]
  PROVE  /\ keys \in [Versions -> Keys]
         /\ old + 1 \in Versions /\ old \in Nat
         /\ keys[old].commitment = workspaceKey[old].commitment
         /\ keys[old].state = "retired"
         /\ keys[old + 1].commitment = key
         /\ keys[old + 1].state = "active"
         /\ \A v \in Versions \ {old, old + 1} : keys[v] = workspaceKey[v]
<1> DEFINE retired == [commitment |-> workspaceKey[old].commitment,
                       state |-> "retired"]
           active == [commitment |-> key, state |-> "active"]
<1>1. old + 1 \in Versions /\ old \in Nat /\ old # old + 1
  BY WorkspaceKeysAssumption DEF Versions
<1>2. workspaceKey \in [Versions -> Keys]
  BY DEF TypeOK
<1>3. retired \in Keys /\ active \in Keys
  BY <1>2 DEF Keys
<1>4. /\ retired.commitment = workspaceKey[old].commitment
      /\ retired.state = "retired"
      /\ active.commitment = key /\ active.state = "active"
  OBVIOUS
<1>5. keys = [workspaceKey EXCEPT ![old] = retired, ![old + 1] = active]
  BY <1>1, <1>2
<1> HIDE DEF retired, active
<1>6. /\ keys \in [Versions -> Keys]
      /\ keys[old] = retired /\ keys[old + 1] = active
      /\ \A v \in Versions \ {old, old + 1} : keys[v] = workspaceKey[v]
  BY <1>1, <1>2, <1>3, <1>5
<1>7. QED
  BY <1>1, <1>4, <1>6

LEMMA RotateTypes ==
  ASSUME TypeOK, NEW u \in Users, StartRotate(u) \/ Rotate(u)
  PROVE  TypeOK'
<1> USE WorkspaceKeysAssumption
<1>1. CASE StartRotate(u)
  <2>1. PICK v \in Versions \ {MaxVersion} :
          Begin(u, [op |-> "rotate", version |-> v, wdk |-> drawn + 1,
                    grants |-> Recipients])
    BY <1>1 DEF StartRotate
  <2>2. drawn' \in 0 .. MaxDraws /\ drawn + 1 \in Wdks
    BY <1>1 DEF TypeOK, StartRotate, Draw, Wdks
  <2>3. Recipients \in Grants
    BY DEF TypeOK, Recipients, Grants, Enrolled
  <2>4. [op |-> "rotate", version |-> v, wdk |-> drawn + 1,
         grants |-> Recipients] \in Calls
    BY <2>2, <2>3 DEF Calls
  <2>5. call' \in [Users -> Calls]
    BY <2>1, <2>4, CallMoves
  <2>6. QED
    BY <1>1, <2>2, <2>5 DEF StartRotate, TypeOK, identityVars, keyVars
<1>2. CASE Rotate(u)
  <2> DEFINE c == call[u]
             granted == {g.user : g \in c.grants}
  <2>1. c.version \in Versions \ {MaxVersion} /\ c.wdk \in Wdks
    BY <1>2, CallTypes DEF TypeOK, Rotate
  <2>2. c.version + 1 \in Versions
    BY <2>1 DEF Versions
  <2>3. c.grants = Recipients
    BY <1>2 DEF Rotate, MayRotate, GrantsComplete
  <2>4. granted \subseteq Enrolled
    BY <2>3 DEF Recipients
  <2>5. workspaceKey' \in [Versions -> Keys]
    BY <1>2, <2>1, RotatedKeys DEF Rotate, KeysAfterRotation
  <2>6. wrap' \in [Users -> [Versions -> Wraps]]
    <3>1. \A m \in granted :
            [wrap[m] EXCEPT ![c.version + 1] =
               [wdk |-> c.wdk, to |-> publicKey[m]]] \in [Versions -> Wraps]
      BY <2>1, <2>4 DEF TypeOK, Wraps, Enrolled
    <3>2. wrap' = [m \in Users |->
                     IF m \in granted
                     THEN [wrap[m] EXCEPT ![c.version + 1] =
                             [wdk |-> c.wdk, to |-> publicKey[m]]]
                     ELSE wrap[m]]
      BY <1>2 DEF Rotate
    <3> HIDE DEF granted, c
    <3>3. QED
      BY <3>1, <3>2 DEF TypeOK
  <2>7. knows' \in [Users -> SUBSET Versions]
    BY <1>2, <2>2 DEF Rotate, TypeOK
  <2>8. requests' \in [Users -> [Versions -> Seq(RequestStates)]]
    <3>1. requests' = RequestsAfterRotation(c)
      BY <1>2 DEF Rotate
    <3>2. \A m \in Users, v \in Versions :
            /\ [n \in DOMAIN Asked(m, v) |->
                  IF Asked(m, v)[n] = "pending" THEN "revoked" ELSE Asked(m, v)[n]]
                 \in Seq(RequestStates)
            /\ <<"pending">> \in Seq(RequestStates)
      <4> TAKE m \in Users, v \in Versions
      <4>1. Asked(m, v) \in Seq(RequestStates)
        BY DEF TypeOK, Asked
      <4>2. QED
        BY <4>1, RequestsTyped
    <3>3. QED
      BY <3>1, <3>2 DEF RequestsAfterRotation
  <2>9. call' \in [Users -> Calls]
    BY <1>2, CallMoves DEF Rotate
  <2>10. QED
    BY <1>2, <2>5, <2>6, <2>7, <2>8, <2>9 DEF Rotate, TypeOK, identityVars
<1>3. QED
  BY <1>1, <1>2

LEMMA UploadTypes ==
  ASSUME TypeOK, NEW u \in Users, StartUpload(u) \/ Upload(u) \/ Refuse(u)
  PROVE  TypeOK'
<1>1. CASE StartUpload(u)
  <2>1. \A v \in Versions : [op |-> "upload", version |-> v] \in Calls
    BY DEF Calls
  <2>2. call' \in [Users -> Calls]
    BY <1>1, <2>1, CallMoves DEF StartUpload
  <2>3. QED
    BY <1>1, <2>2 DEF StartUpload, TypeOK, identityVars, keyVars
<1>2. CASE Upload(u)
  <2>1. call[u].version \in Versions
    BY <1>2, CallTypes DEF TypeOK, Upload
  <2>2. files' \in [Versions -> Nat]
    BY <1>2, <2>1 DEF TypeOK, Upload
  <2>3. call' \in [Users -> Calls]
    BY <1>2, CallMoves DEF Upload
  <2>4. QED
    BY <1>2, <2>2, <2>3 DEF Upload, TypeOK, identityVars, keyVars
<1>3. CASE Refuse(u)
  <2>1. call' \in [Users -> Calls]
    BY <1>3, CallMoves DEF Refuse
  <2>2. QED
    BY <1>3, <2>1 DEF Refuse, TypeOK, identityVars, keyVars
<1>4. QED
  BY <1>1, <1>2, <1>3

LEMMA StutterTypes == TypeOK /\ UNCHANGED vars => TypeOK'
BY DEF TypeOK, vars, identityVars, keyVars

LEMMA TypesHold == TypeOK /\ WrapsReal /\ [Next]_vars => TypeOK'
BY MemberTypes, IdentityTypes, MintTypes, RequestTypes, GrantTypes, ReportTypes,
   RotateTypes, UploadTypes, StutterTypes DEF Next

-----------------------------------------------------------------------------
(* Which actions move what.                                                 *)
LEMMA Movers ==
  ASSUME [Next]_vars
  PROVE  /\ UNCHANGED workspaceKey \/ \E u \in Users : Provision(u) \/ Rotate(u)
         /\ \/ UNCHANGED wrap
            \/ \E u \in Users :
                 \/ Leave(u) \/ ReplaceIdentity(u) \/ Provision(u)
                 \/ Grant(u) \/ Report(u) \/ Rotate(u)
         /\ UNCHANGED publicKey
              \/ \E u \in Users : Enroll(u) \/ ReplaceIdentity(u)
         /\ UNCHANGED knows
              \/ \E u \in Users : Provision(u) \/ Grant(u) \/ Rotate(u)
         /\ UNCHANGED rotationRequired \/ \E u \in Users : Leave(u) \/ Rotate(u)
         /\ UNCHANGED members \/ \E u \in Users : Join(u) \/ Leave(u)
         /\ UNCHANGED files \/ \E u \in Users : Upload(u)
<1> DEFINE Seen == <<workspaceKey, wrap, publicKey, knows, rotationRequired,
                     members, files>>
<1>1. ASSUME NEW u \in Users,
             \/ Unlock(u) \/ StartReplace(u) \/ StartProvision(u) \/ StartRequest(u)
             \/ Request(u) \/ StartGrant(u) \/ StartReport(u) \/ StartRotate(u)
             \/ StartUpload(u) \/ Refuse(u)
      PROVE  UNCHANGED Seen
  <2>1. CASE Unlock(u)
    BY <2>1 DEF Unlock, identityVars, keyVars
  <2>2. CASE StartReplace(u)
    BY <2>2 DEF StartReplace, identityVars, keyVars
  <2>3. CASE StartProvision(u)
    BY <2>3 DEF StartProvision, identityVars, keyVars
  <2>4. CASE StartRequest(u)
    BY <2>4 DEF StartRequest, identityVars, keyVars
  <2>5. CASE Request(u)
    BY <2>5 DEF Request, identityVars, keyVars
  <2>6. CASE StartGrant(u)
    BY <2>6 DEF StartGrant, identityVars, keyVars
  <2>7. CASE StartReport(u)
    BY <2>7 DEF StartReport, identityVars, keyVars
  <2>8. CASE StartRotate(u)
    BY <2>8 DEF StartRotate, identityVars, keyVars
  <2>9. CASE StartUpload(u)
    BY <2>9 DEF StartUpload, identityVars, keyVars
  <2>10. CASE Refuse(u)
    BY <2>10 DEF Refuse, identityVars, keyVars
  <2>11. QED
    BY <1>1, <2>1, <2>2, <2>3, <2>4, <2>5, <2>6, <2>7, <2>8, <2>9, <2>10
<1>2. ASSUME NEW u \in Users, Join(u)
      PROVE  UNCHANGED <<workspaceKey, wrap, publicKey, knows, rotationRequired, files>>
  BY <1>2 DEF Join, identityVars, keyVars
<1>3. ASSUME NEW u \in Users, Leave(u)
      PROVE  UNCHANGED <<workspaceKey, publicKey, knows, files>>
  BY <1>3 DEF Leave, identityVars, keyVars
<1>4. ASSUME NEW u \in Users, Enroll(u)
      PROVE  UNCHANGED <<workspaceKey, wrap, knows, rotationRequired, members, files>>
  BY <1>4 DEF Enroll, identityVars, keyVars
<1>5. ASSUME NEW u \in Users, ReplaceIdentity(u)
      PROVE  UNCHANGED <<workspaceKey, knows, rotationRequired, members, files>>
  BY <1>5 DEF ReplaceIdentity, identityVars, keyVars
<1>6. ASSUME NEW u \in Users, Provision(u)
      PROVE  UNCHANGED <<publicKey, rotationRequired, members, files>>
  BY <1>6 DEF Provision, identityVars, keyVars
<1>7. ASSUME NEW u \in Users, Grant(u)
      PROVE  UNCHANGED <<workspaceKey, publicKey, rotationRequired, members, files>>
  BY <1>7 DEF Grant, identityVars, keyVars
<1>8. ASSUME NEW u \in Users, Report(u)
      PROVE  UNCHANGED <<workspaceKey, publicKey, knows, rotationRequired, members, files>>
  BY <1>8 DEF Report, identityVars, keyVars
<1>9. ASSUME NEW u \in Users, Rotate(u)
      PROVE  UNCHANGED <<publicKey, members, files>>
  BY <1>9 DEF Rotate, identityVars, keyVars
<1>10. ASSUME NEW u \in Users, Upload(u)
      PROVE  UNCHANGED <<workspaceKey, wrap, publicKey, knows, rotationRequired, members>>
  BY <1>10 DEF Upload, identityVars, keyVars
<1>11. CASE UNCHANGED vars
  BY <1>11 DEF vars, identityVars, keyVars
<1>12. CASE Next
  <2>1. PICK u \in Users :
          \/ Join(u) \/ Leave(u) \/ Enroll(u) \/ ReplaceIdentity(u)
          \/ Provision(u) \/ Grant(u) \/ Report(u) \/ Rotate(u) \/ Upload(u)
          \/ Unlock(u) \/ StartReplace(u) \/ StartProvision(u) \/ StartRequest(u)
          \/ Request(u) \/ StartGrant(u) \/ StartReport(u) \/ StartRotate(u)
          \/ StartUpload(u) \/ Refuse(u)
    BY <1>12 DEF Next
  <2>2. CASE Join(u)
    BY <2>2, <1>2
  <2>3. CASE Leave(u)
    BY <2>3, <1>3
  <2>4. CASE Enroll(u)
    BY <2>4, <1>4
  <2>5. CASE ReplaceIdentity(u)
    BY <2>5, <1>5
  <2>6. CASE Provision(u)
    BY <2>6, <1>6
  <2>7. CASE Grant(u)
    BY <2>7, <1>7
  <2>8. CASE Report(u)
    BY <2>8, <1>8
  <2>9. CASE Rotate(u)
    BY <2>9, <1>9
  <2>10. CASE Upload(u)
    BY <2>10, <1>10
  <2>11. CASE UNCHANGED Seen
    BY <2>11
  <2>12. QED
    BY <1>1, <2>1, <2>2, <2>3, <2>4, <2>5, <2>6, <2>7, <2>8, <2>9, <2>10, <2>11
<1>13. QED
  BY <1>11, <1>12

(* A commitment is for ever, and versions are minted one after the other.   *)
LEMMA KeysStep ==
  ASSUME IInv, [Next]_vars
  PROVE  /\ KeysMinted'
         /\ OneActiveVersion'
         /\ \A v \in Versions : workspaceKey[v] # NoKey =>
              /\ workspaceKey'[v] # NoKey
              /\ workspaceKey'[v].commitment = workspaceKey[v].commitment
<1>0. TypeOK /\ KeysMinted /\ OneActiveVersion
  BY DEF IInv
<1>1. ASSUME UNCHANGED workspaceKey
      PROVE  /\ KeysMinted' /\ OneActiveVersion'
             /\ \A v \in Versions : workspaceKey'[v] = workspaceKey[v]
  BY <1>0, <1>1 DEF KeysMinted, OneActiveVersion, Active
<1>2. ASSUME NEW u \in Users, Provision(u)
      PROVE  /\ KeysMinted' /\ OneActiveVersion'
             /\ \A v \in Versions : workspaceKey[v] # NoKey =>
                  workspaceKey'[v] = workspaceKey[v]
  <2> DEFINE new == [commitment |-> call[u].wdk, state |-> "active"]
  <2>1. call[u].wdk \in Wdks
    BY <1>0, <1>2, CallTypes DEF TypeOK, Provision
  <2>2. CASE workspaceKey[FirstVersion] # NoKey
    <3>1. workspaceKey' = workspaceKey
      BY <1>0, <1>2, <2>2 DEF Provision, Minted, TypeOK
    <3>2. QED
      BY <1>0, <3>1 DEF KeysMinted, OneActiveVersion, Active
  <2>3. CASE workspaceKey[FirstVersion] = NoKey
    <3>1. \A v \in Versions : workspaceKey[v] = NoKey
      BY <1>0, <2>3 DEF KeysMinted
    <3>2. workspaceKey' = [workspaceKey EXCEPT ![FirstVersion] = new]
      BY <1>2, <2>3 DEF Provision, Minted
    <3>3. /\ workspaceKey'[FirstVersion] = new
          /\ \A v \in Versions \ {FirstVersion} : workspaceKey'[v] = NoKey
      BY <1>0, <3>1, <3>2, Bounds DEF TypeOK
    <3>4. new # NoKey /\ NoKey.state # "active"
      BY DEF NoKey
    <3>5. KeysMinted'
      BY <2>1, <3>3, <3>4, Bounds DEF KeysMinted
    <3>6. OneActiveVersion'
      <4> SUFFICES ASSUME NEW v \in Versions, NEW w \in Versions, Active(v)',
                          v # w
                   PROVE  w > v /\ workspaceKey'[w] = NoKey
        BY Bounds DEF OneActiveVersion
      <4>1. v = FirstVersion
        BY <3>3, <3>4 DEF Active
      <4>2. QED
        BY <3>3, <4>1 DEF Versions, FirstVersion
    <3>7. QED
      BY <3>1, <3>5, <3>6
  <2>4. QED
    BY <2>2, <2>3
<1>3. ASSUME NEW u \in Users, Rotate(u)
      PROVE  /\ KeysMinted' /\ OneActiveVersion'
             /\ \A v \in Versions : workspaceKey[v] # NoKey =>
                  /\ workspaceKey'[v] # NoKey
                  /\ workspaceKey'[v].commitment = workspaceKey[v].commitment
  <2> DEFINE c == call[u]
             old == c.version
  <2>1. old \in Versions \ {MaxVersion} /\ c.wdk \in Wdks
    BY <1>0, <1>3, CallTypes DEF TypeOK, Rotate
  <2>2. Active(old) /\ workspaceKey[old + 1] = NoKey
    BY <1>3 DEF Rotate, MayRotate
  <2>3. workspaceKey[old] # NoKey
    BY <2>2 DEF NoKey, Active
  <2>4. workspaceKey[old].commitment \in Wdks
    BY <1>0, <2>1, <2>3 DEF KeysMinted
  <2>5. /\ old + 1 \in Versions /\ old \in Nat
        /\ workspaceKey'[old].commitment = workspaceKey[old].commitment
        /\ workspaceKey'[old].state = "retired"
        /\ workspaceKey'[old + 1].commitment \in Wdks
        /\ workspaceKey'[old + 1].state = "active"
        /\ \A v \in Versions \ {old, old + 1} : workspaceKey'[v] = workspaceKey[v]
    BY <1>0, <1>3, <2>1, RotatedKeys DEF Rotate, KeysAfterRotation
  <2> HIDE DEF old
  <2>6. \A v \in {old, old + 1} : workspaceKey'[v] # NoKey
    BY <2>5 DEF NoKey
  <2>7. KeysMinted'
    <3>1. workspaceKey[FirstVersion] # NoKey
      BY <1>0, <2>1, <2>3 DEF KeysMinted
    <3>2. workspaceKey'[FirstVersion] # NoKey
      BY <2>5, <2>6, <3>1, Bounds
    <3>3. ASSUME NEW v \in Versions, workspaceKey'[v] # NoKey
          PROVE  /\ workspaceKey'[v].commitment \in Wdks
                 /\ workspaceKey'[v].state \in {"active", "retired"}
      <4>1. CASE v = old
        BY <2>4, <2>5, <4>1
      <4>2. CASE v = old + 1
        BY <2>5, <4>2
      <4>3. CASE v \notin {old, old + 1}
        BY <1>0, <2>5, <3>3, <4>3 DEF KeysMinted
      <4>4. QED
        BY <4>1, <4>2, <4>3
    <3>4. QED
      BY <3>2, <3>3 DEF KeysMinted
  <2>8. OneActiveVersion'
    <3> SUFFICES ASSUME NEW v \in Versions, NEW w \in Versions, Active(v)', v # w
                 PROVE  IF w < v THEN workspaceKey'[w].state = "retired"
                                 ELSE workspaceKey'[w] = NoKey
      BY DEF OneActiveVersion
    <3>0. v \in Nat /\ w \in Nat
      BY Bounds
    <3>1. /\ \A x \in Versions : x < old => workspaceKey[x].state = "retired"
          /\ \A x \in Versions : x > old => workspaceKey[x] = NoKey
      BY <1>0, <2>1, <2>2, <2>5, Bounds DEF OneActiveVersion
    <3>2. v = old + 1
      <4>1. workspaceKey'[v].state = "active"
        BY DEF Active
      <4>2. v # old
        BY <2>5, <4>1
      <4>3. v < old => workspaceKey'[v].state = "retired"
        BY <2>5, <3>0, <3>1
      <4>4. v > old + 1 => workspaceKey'[v] = NoKey
        BY <2>5, <3>0, <3>1
      <4>5. NoKey.state # "active" /\ "retired" # "active"
        BY DEF NoKey
      <4>6. QED
        BY <2>5, <3>0, <4>1, <4>2, <4>3, <4>4, <4>5
    <3>3. w < v => workspaceKey'[w].state = "retired"
      <4>1. CASE w = old
        BY <2>5, <4>1
      <4>2. CASE w < old
        BY <2>5, <3>0, <3>1, <4>2
      <4>3. QED
        BY <2>5, <3>0, <3>2, <4>1, <4>2
    <3>4. ~(w < v) => workspaceKey'[w] = NoKey
      BY <2>5, <3>0, <3>1, <3>2
    <3>5. QED
      BY <3>3, <3>4
  <2>9. ASSUME NEW v \in Versions, workspaceKey[v] # NoKey
        PROVE  /\ workspaceKey'[v] # NoKey
               /\ workspaceKey'[v].commitment = workspaceKey[v].commitment
    <3>1. v # old + 1
      BY <2>2, <2>9 DEF old
    <3>2. QED
      BY <2>5, <2>6, <2>9, <3>1
  <2>10. QED
    BY <2>7, <2>8, <2>9
<1>4. QED
  BY <1>1, <1>2, <1>3, Movers

-----------------------------------------------------------------------------
(* What the invariants say of one wrap.                                     *)
WrapSound(u, v) ==
  Holds(u, v) =>
    /\ wrap[u][v].wdk \in Wdks /\ wrap[u][v].to \in Identities
    /\ wrap[u][v].wdk = workspaceKey[v].commitment
    /\ wrap[u][v].to = publicKey[u]

LEMMA SoundWraps ==
  /\ WrapsReal /\ NoFork /\ NoWrapStranded
       <=> \A u \in Users, v \in Versions : WrapSound(u, v)
  /\ (WrapsReal /\ NoFork /\ NoWrapStranded)'
       <=> \A u \in Users, v \in Versions : WrapSound(u, v)'
BY DEF WrapSound, WrapsReal, NoFork, NoWrapStranded

LEMMA HeldIsMinted ==
  ASSUME IInv, NEW u \in Users, NEW v \in Versions, Holds(u, v)
  PROVE  workspaceKey[v] # NoKey /\ publicKey[u] # 0
<1>1. WrapSound(u, v)
  BY SoundWraps DEF IInv
<1>2. NoKey.commitment = 0
  BY DEF NoKey
<1>3. QED
  BY <1>1, <1>2, Bounds DEF WrapSound

(* A wrap that stays is still right, for its recipient's key stays, too.    *)
LEMMA WrapStays ==
  ASSUME IInv, [Next]_vars, NEW u \in Users, NEW v \in Versions,
         wrap'[u][v] = wrap[u][v],
         Holds(u, v) => publicKey'[u] = publicKey[u]
  PROVE  WrapSound(u, v)'
<1> SUFFICES ASSUME Holds(u, v)' PROVE WrapSound(u, v)'
  BY DEF WrapSound
<1>1. Holds(u, v)
  BY DEF Holds
<1>2. WrapSound(u, v)
  BY SoundWraps DEF IInv
<1>3. workspaceKey'[v].commitment = workspaceKey[v].commitment
  BY <1>1, HeldIsMinted, KeysStep
<1>4. QED
  BY <1>1, <1>2, <1>3 DEF WrapSound

LEMMA WrapsStep ==
  ASSUME IInv, [Next]_vars
  PROVE  WrapsReal' /\ NoFork' /\ NoWrapStranded'
<1>0. TypeOK /\ WrapsReal /\ GrantsInFlight
  BY DEF IInv
<1> SUFFICES ASSUME NEW m \in Users, NEW v \in Versions
             PROVE  WrapSound(m, v)'
  BY SoundWraps
<1>1. CASE UNCHANGED <<wrap, publicKey>>
  BY <1>1, WrapStays
<1>2. ASSUME NEW u \in Users, Leave(u) PROVE WrapSound(m, v)'
  <2>1. CASE m = u
    <3>1. wrap'[m][v] = NoWrap
      BY <1>0, <1>2, <2>1 DEF Leave, TypeOK
    <3>2. QED
      BY <3>1 DEF WrapSound, Holds
  <2>2. CASE m # u
    <3>1. wrap'[m][v] = wrap[m][v] /\ publicKey' = publicKey
      BY <1>0, <1>2, <2>2 DEF Leave, TypeOK, identityVars
    <3>2. QED
      BY <3>1, WrapStays
  <2>3. QED
    BY <2>1, <2>2
<1>3. ASSUME NEW u \in Users, Enroll(u) PROVE WrapSound(m, v)'
  <2>1. wrap' = wrap /\ publicKey[u] = 0 /\ (m # u => publicKey'[m] = publicKey[m])
    BY <1>0, <1>3 DEF Enroll, keyVars, TypeOK
  <2>2. Holds(m, v) => m # u
    BY <2>1, HeldIsMinted
  <2>3. QED
    BY <2>1, <2>2, WrapStays
<1>4. ASSUME NEW u \in Users, ReplaceIdentity(u) PROVE WrapSound(m, v)'
  <2>1. CASE m # u
    <3>1. wrap'[m][v] = wrap[m][v] /\ publicKey'[m] = publicKey[m]
      BY <1>0, <1>4, <2>1 DEF ReplaceIdentity, TypeOK
    <3>2. QED
      BY <3>1, WrapStays
  <2>2. CASE m = u
    <3>1. (\E row \in call[u].rewraps : row[2] = v) <=> Holds(u, v)
      <4>1. call[u].rewraps = WrapRows(u)
        BY <1>4 DEF ReplaceIdentity, MayReplace, RewrapsComplete
      <4>2. \A row \in WrapRows(u) : row[2] \in Held(u)
        BY DEF WrapRows
      <4>3. \A x \in Held(u) : <<joins[u], x, Cardinality(Failed(u, x))>> \in WrapRows(u)
        BY DEF WrapRows
      <4>4. \A x \in Held(u) : \E row \in WrapRows(u) : row[2] = x
        BY <4>3
      <4>5. QED
        BY <4>1, <4>2, <4>4 DEF Held
    <3>2. wrap'[u][v] = IF Holds(u, v)
                        THEN [wrap[u][v] EXCEPT !.to = publicKey[u] + 1]
                        ELSE wrap[u][v]
      BY <1>0, <1>4, <3>1 DEF ReplaceIdentity, TypeOK
    <3>3. CASE ~Holds(u, v)
      BY <2>2, <3>2, <3>3 DEF WrapSound, Holds
    <3>4. CASE Holds(u, v)
      <4>1. wrap[u][v] \in Wraps
        BY <1>0 DEF TypeOK
      <4>2. /\ wrap'[u][v].to = publicKey[u] + 1
            /\ wrap'[u][v].wdk = wrap[u][v].wdk
        BY <3>2, <3>4, <4>1 DEF Wraps
      <4>3. WrapSound(u, v) /\ workspaceKey[v] # NoKey
        BY <3>4, SoundWraps, HeldIsMinted DEF IInv
      <4>4. workspaceKey'[v].commitment = workspaceKey[v].commitment
        BY <4>3, KeysStep
      <4>5. publicKey'[u] = publicKey[u] + 1
        BY <1>0, <1>4 DEF ReplaceIdentity, TypeOK
      <4>6. publicKey[u] \in Identities \ {MaxIdentity}
        BY <1>0, <1>4, CallTypes DEF TypeOK, ReplaceIdentity, MayReplace
      <4>7. publicKey[u] + 1 \in Identities
        BY <4>6, WorkspaceKeysAssumption DEF Identities
      <4>8. QED
        BY <2>2, <3>4, <4>2, <4>3, <4>4, <4>5, <4>7 DEF WrapSound
    <3>5. QED
      BY <3>3, <3>4
  <2>3. QED
    BY <2>1, <2>2
<1>5. ASSUME NEW u \in Users, Provision(u) PROVE WrapSound(m, v)'
  <2> DEFINE c == call[u]
             w == [wdk |-> c.wdk, to |-> c.to]
  <2>1. c.wdk \in Wdks /\ c.to \in Identities
    BY <1>0, <1>5, CallTypes DEF TypeOK, Provision
  <2>2. publicKey[u] = c.to /\ publicKey' = publicKey
    BY <1>5 DEF Provision, MayProvision, identityVars
  <2>3. CASE OwnGrant(u, c)
    <3>1. wrap' = [wrap EXCEPT ![u][FirstVersion] = w]
      BY <1>5, <2>3 DEF Provision
    <3>2. workspaceKey'[FirstVersion].commitment = c.wdk
      BY <1>0, <1>5, <2>3, Bounds DEF Provision, OwnGrant, TypeOK
    <3>3. w.wdk = c.wdk /\ w.to = c.to
      OBVIOUS
    <3> HIDE DEF w, c
    <3>4. CASE m = u /\ v = FirstVersion
      <4>1. wrap'[m][v] = w
        BY <1>0, <3>1, <3>4 DEF TypeOK
      <4>2. QED
        BY <2>1, <2>2, <3>2, <3>3, <3>4, <4>1 DEF WrapSound
    <3>5. CASE ~(m = u /\ v = FirstVersion)
      <4>1. wrap'[m][v] = wrap[m][v]
        BY <1>0, <3>1, <3>5 DEF TypeOK
      <4>2. QED
        BY <2>2, <4>1, WrapStays
    <3>6. QED
      BY <3>4, <3>5
  <2>4. CASE ~OwnGrant(u, c)
    <3>1. wrap' = wrap
      BY <1>5, <2>4 DEF Provision
    <3>2. QED
      BY <2>2, <3>1, WrapStays
  <2>5. QED
    BY <2>3, <2>4
<1>6. ASSUME NEW u \in Users, Grant(u) PROVE WrapSound(m, v)'
  <2> DEFINE c == call[u]
             w == [wdk |-> c.wdk, to |-> c.to]
  <2>1. /\ c.asker \in Users /\ c.version \in Versions
        /\ c.wdk \in Wdks /\ c.to \in Identities
    BY <1>0, <1>6, CallTypes DEF TypeOK, Grant
  <2>2. /\ publicKey[c.asker] = c.to
        /\ publicKey' = publicKey /\ workspaceKey' = workspaceKey
    BY <1>6 DEF Grant, MayGrant, ToCurrentKey, identityVars
  <2>3. c.wdk = workspaceKey[c.version].commitment
    BY <1>0, <1>6 DEF GrantsInFlight, Grant
  <2>4. wrap' = [wrap EXCEPT ![c.asker][c.version] = w]
    BY <1>6 DEF Grant
  <2>5. w.wdk = c.wdk /\ w.to = c.to
    OBVIOUS
  <2> HIDE DEF w, c
  <2>6. CASE m = c.asker /\ v = c.version
    <3>1. wrap'[m][v] = w
      BY <1>0, <2>4, <2>6 DEF TypeOK
    <3>2. QED
      BY <2>1, <2>2, <2>3, <2>5, <2>6, <3>1 DEF WrapSound
  <2>7. CASE ~(m = c.asker /\ v = c.version)
    <3>1. wrap'[m][v] = wrap[m][v]
      BY <1>0, <2>1, <2>4, <2>7 DEF TypeOK
    <3>2. QED
      BY <2>2, <3>1, WrapStays
  <2>8. QED
    BY <2>6, <2>7
<1>7. ASSUME NEW u \in Users, Report(u) PROVE WrapSound(m, v)'
  <2>1. call[u].version \in Versions
    BY <1>0, <1>7, CallTypes DEF TypeOK, Report
  <2>2. /\ wrap' = [wrap EXCEPT ![u][call[u].version] = NoWrap]
        /\ publicKey' = publicKey
    BY <1>7 DEF Report, identityVars
  <2>3. wrap'[m][v] \in {wrap[m][v], NoWrap}
    BY <1>0, <2>1, <2>2 DEF TypeOK
  <2>4. CASE wrap'[m][v] = wrap[m][v]
    BY <2>2, <2>4, WrapStays
  <2>5. CASE wrap'[m][v] = NoWrap
    BY <2>5 DEF WrapSound, Holds
  <2>6. QED
    BY <2>3, <2>4, <2>5
<1>8. ASSUME NEW u \in Users, Rotate(u) PROVE WrapSound(m, v)'
  <2> DEFINE c == call[u]
             new == c.version + 1
             granted == {g.user : g \in c.grants}
             w == [wdk |-> c.wdk, to |-> publicKey[m]]
  <2>1. c.version \in Versions \ {MaxVersion} /\ c.wdk \in Wdks
    BY <1>0, <1>8, CallTypes DEF TypeOK, Rotate
  <2>2. new \in Versions /\ workspaceKey'[new].commitment = c.wdk
    BY <1>0, <1>8, <2>1, RotatedKeys DEF Rotate, KeysAfterRotation
  <2>3. publicKey' = publicKey
    BY <1>8 DEF Rotate, identityVars
  <2>4. granted \subseteq Enrolled
    BY <1>8 DEF Rotate, MayRotate, GrantsComplete, Recipients
  <2>5. wrap'[m] = IF m \in granted THEN [wrap[m] EXCEPT ![new] = w]
                                     ELSE wrap[m]
    BY <1>8 DEF Rotate
  <2>6. wrap[m] \in [Versions -> Wraps]
    BY <1>0 DEF TypeOK
  <2>7. w.wdk = c.wdk /\ w.to = publicKey[m]
    OBVIOUS
  <2> HIDE DEF w, new, granted, c
  <2>8. CASE m \in granted /\ v = new
    <3>1. wrap'[m][v] = w
      BY <2>5, <2>6, <2>8
    <3>2. publicKey[m] \in Identities
      BY <1>0, <2>4, <2>8 DEF TypeOK, Enrolled
    <3>3. QED
      BY <2>1, <2>2, <2>3, <2>7, <2>8, <3>1, <3>2 DEF WrapSound
  <2>9. CASE ~(m \in granted /\ v = new)
    <3>1. wrap'[m][v] = wrap[m][v]
      BY <2>5, <2>6, <2>9
    <3>2. QED
      BY <2>3, <3>1, WrapStays
  <2>10. QED
    BY <2>8, <2>9
<1>9. QED
  BY <1>1, <1>2, <1>3, <1>4, <1>5, <1>6, <1>7, <1>8, Movers

-----------------------------------------------------------------------------
(* A new call of a granter is one that StartGrant made.                     *)
LEMMA CallOf ==
  ASSUME TypeOK, NEW u \in Users, NEW g \in Users
  PROVE  /\ Answered(u) => call'[g] = call[g] \/ call'[g].op = "idle"
         /\ \A c : Begin(u, c) => call'[g] = call[g] \/ (g = u /\ call'[g] = c)
BY DEF TypeOK, Answered, Begin, Idle

LEMMA NewGrant ==
  ASSUME TypeOK, [Next]_vars, NEW g \in Users,
         call'[g] # call[g], call'[g].op = "grant"
  PROVE  StartGrant(g)
<1> SUFFICES ASSUME ~StartGrant(g) PROVE FALSE
  OBVIOUS
<1>0. call' # call
  OBVIOUS
<1>1. ASSUME NEW u \in Users, Answered(u) PROVE FALSE
  BY <1>1, CallOf
<1>2. ASSUME NEW u \in Users, StartReplace(u) PROVE FALSE
  BY <1>2, CallOf DEF StartReplace
<1>3. ASSUME NEW u \in Users, StartProvision(u) PROVE FALSE
  BY <1>3, CallOf DEF StartProvision
<1>4. ASSUME NEW u \in Users, StartRequest(u) PROVE FALSE
  BY <1>4, CallOf DEF StartRequest
<1>5. ASSUME NEW u \in Users, StartReport(u) PROVE FALSE
  <2>1. PICK c : Begin(u, c) /\ c.op = "report"
    BY <1>5 DEF StartReport
  <2>2. QED
    BY <2>1, CallOf
<1>6. ASSUME NEW u \in Users, StartRotate(u) PROVE FALSE
  BY <1>6, CallOf DEF StartRotate
<1>7. ASSUME NEW u \in Users, StartUpload(u) PROVE FALSE
  BY <1>7, CallOf DEF StartUpload
<1>8. ASSUME NEW u \in Users, StartGrant(u) PROVE FALSE
  <2>1. PICK c : Begin(u, c)
    BY <1>8 DEF StartGrant
  <2>2. QED
    BY <1>8, <2>1, CallOf
<1>9. QED
  BY <1>0, <1>1, <1>2, <1>3, <1>4, <1>5, <1>6, <1>7, <1>8
     DEF Next, vars, Join, Leave, Enroll, Unlock, ReplaceIdentity, Provision,
         Request, Grant, Report, Rotate, Upload, Refuse

(* What a granter's client sealed stays the committed key.                  *)
LEMMA GrantsStep ==
  ASSUME IInv, [Next]_vars
  PROVE  GrantsInFlight'
<1>0. TypeOK /\ NoFork /\ GrantsInFlight
  BY DEF IInv
<1> SUFFICES ASSUME NEW g \in Users, call'[g].op = "grant"
             PROVE  /\ workspaceKey'[call'[g].version] # NoKey
                    /\ call'[g].wdk = workspaceKey'[call'[g].version].commitment
  BY DEF GrantsInFlight
<1>1. CASE call'[g] = call[g]
  <2>1. call[g].version \in Versions
    BY <1>0, <1>1, CallTypes DEF TypeOK
  <2>2. QED
    BY <1>0, <1>1, <2>1, KeysStep DEF GrantsInFlight
<1>2. CASE call'[g] # call[g]
  <2>1. StartGrant(g)
    BY <1>0, <1>2, NewGrant
  <2>2. PICK m \in members \cap Enrolled, v \in Versions :
          /\ Holds(g, v)
          /\ \E n \in DOMAIN Asked(m, v) :
               Begin(g, [op |-> "grant", asker |-> m, seat |-> joins[m],
                         version |-> v, nth |-> n,
                         wdk |-> wrap[g][v].wdk, to |-> publicKey[m]])
    BY <2>1 DEF StartGrant
  <2>3. PICK n : Begin(g, [op |-> "grant", asker |-> m, seat |-> joins[m],
                           version |-> v, nth |-> n,
                           wdk |-> wrap[g][v].wdk, to |-> publicKey[m]])
    BY <2>2
  <2>4. call'[g].version = v /\ call'[g].wdk = wrap[g][v].wdk
    BY <1>0, <1>2, <2>3, CallOf
  <2>5. wrap[g][v].wdk = workspaceKey[v].commitment /\ workspaceKey[v] # NoKey
    BY <1>0, <2>2, HeldIsMinted DEF NoFork
  <2>6. QED
    BY <2>4, <2>5, KeysStep
<1>3. QED
  BY <1>1, <1>2

-----------------------------------------------------------------------------
(* Who learns a version in a step.                                          *)
LEMMA Learns ==
  ASSUME TypeOK, [Next]_vars, NEW m \in Users, NEW v \in Versions,
         v \in knows'[m], v \notin knows[m]
  PROVE  /\ m \in members /\ members' = members
         /\ rotationRequired' = rotationRequired \/ ~rotationRequired'
         /\ \/ \E u \in Users : /\ Provision(u) /\ OwnGrant(u, call[u])
                                 /\ v = FirstVersion
            \/ \E u \in Users : Grant(u) /\ v = call[u].version
            \/ \E u \in Users : Rotate(u) /\ v = call[u].version + 1
<1>0. knows' # knows
  OBVIOUS
<1>1. ASSUME NEW u \in Users, Provision(u)
      PROVE  /\ m \in members /\ members' = members /\ OwnGrant(u, call[u])
             /\ rotationRequired' = rotationRequired /\ v = FirstVersion
  <2>1. OwnGrant(u, call[u]) /\ knows' = [knows EXCEPT ![u] = @ \cup {FirstVersion}]
    BY <1>0, <1>1 DEF Provision
  <2>2. m = u /\ v = FirstVersion
    BY <2>1 DEF TypeOK
  <2>3. QED
    BY <1>1, <2>1, <2>2 DEF Provision, MayProvision
<1>2. ASSUME NEW u \in Users, Grant(u)
      PROVE  /\ m \in members /\ members' = members
             /\ rotationRequired' = rotationRequired /\ v = call[u].version
  <2>1. knows' = [knows EXCEPT ![call[u].asker] = @ \cup {call[u].version}]
    BY <1>2 DEF Grant
  <2>2. m = call[u].asker /\ v = call[u].version
    BY <2>1 DEF TypeOK
  <2>3. QED
    BY <1>2, <2>2 DEF Grant, MayGrant, Names
<1>3. ASSUME NEW u \in Users, Rotate(u)
      PROVE  /\ m \in members /\ members' = members
             /\ ~rotationRequired' /\ v = call[u].version + 1
  <2>1. m \in {g.user : g \in call[u].grants} /\ v = call[u].version + 1
    BY <1>3 DEF Rotate
  <2>2. m \in members
    BY <1>3, <2>1 DEF Rotate, MayRotate, GrantsComplete, Recipients
  <2>3. QED
    BY <1>3, <2>1, <2>2 DEF Rotate
<1>4. QED
  BY <1>0, <1>1, <1>2, <1>3, Movers

LEMMA KnowsStep ==
  ASSUME IInv, [Next]_vars
  PROVE  KnownKeys'
<1>0. TypeOK /\ KnownKeys
  BY DEF IInv
<1> SUFFICES ASSUME NEW m \in Users, NEW v \in Versions, v \in knows'[m]
             PROVE  workspaceKey'[v] # NoKey
  BY DEF KnownKeys
<1>1. CASE v \in knows[m]
  BY <1>0, <1>1, KeysStep DEF KnownKeys
<1>2. CASE v \notin knows[m]
  <2>0. NoKey.commitment \notin Wdks
    BY Bounds DEF NoKey
  <2>1. ASSUME NEW u \in Users, Provision(u), OwnGrant(u, call[u]),
               v = FirstVersion
        PROVE  workspaceKey'[v] # NoKey
    <3>1. call[u].wdk \in Wdks
      BY <1>0, <2>1, CallTypes DEF TypeOK, Provision
    <3>2. workspaceKey'[v].commitment = call[u].wdk
      BY <1>0, <2>1, Bounds DEF Provision, OwnGrant, TypeOK
    <3>3. QED
      BY <2>0, <3>1, <3>2
  <2>2. ASSUME NEW u \in Users, Grant(u), v = call[u].version
        PROVE  workspaceKey'[v] # NoKey
    <3>1. workspaceKey[v].state = "active"
      BY <2>2 DEF Grant, MayGrant, Active
    <3>2. workspaceKey[v] # NoKey
      BY <3>1 DEF NoKey
    <3>3. QED
      BY <3>2, KeysStep
  <2>3. ASSUME NEW u \in Users, Rotate(u), v = call[u].version + 1
        PROVE  workspaceKey'[v] # NoKey
    <3>1. call[u].version \in Versions \ {MaxVersion} /\ call[u].wdk \in Wdks
      BY <1>0, <2>3, CallTypes DEF TypeOK, Rotate
    <3>2. workspaceKey'[v].commitment = call[u].wdk
      BY <1>0, <2>3, <3>1, RotatedKeys DEF Rotate, KeysAfterRotation
    <3>3. QED
      BY <2>0, <3>1, <3>2
  <2>4. QED
    BY <1>0, <1>2, <2>1, <2>2, <2>3, Learns
<1>3. QED
  BY <1>1, <1>2

(* A removal obliges to rotate, and a rotation makes a version that nobody  *)
(* who left before has seen.                                                *)
LEMMA LeaversStep ==
  ASSUME IInv, [Next]_vars
  PROVE  LeaversObligeRotation'
<1>0. TypeOK /\ KnownKeys /\ LeaversObligeRotation
  BY DEF IInv
<1> SUFFICES ASSUME NEW m \in Users, m \notin members', NEW v \in Versions,
                    v \in knows'[m], Active(v)'
             PROVE  rotationRequired'
  BY DEF LeaversObligeRotation
<1>1. v \in knows[m]
  BY <1>0, Learns
<1>2. workspaceKey[v] # NoKey
  BY <1>0, <1>1 DEF KnownKeys
<1>3. CASE m \in members
  <2>1. PICK u \in Users : Leave(u)
    BY <1>3, Movers DEF Join
  <2>2. QED
    BY <2>1 DEF Leave
<1>4. CASE m \notin members
  <2>1. ASSUME NEW u \in Users, Rotate(u) PROVE FALSE
    <3> DEFINE new == call[u].version + 1
    <3>1. call[u].version \in Versions \ {MaxVersion} /\ call[u].wdk \in Wdks
      BY <1>0, <2>1, CallTypes DEF TypeOK, Rotate
    <3>2. new \in Versions /\ workspaceKey'[new].state = "active"
      BY <1>0, <2>1, <3>1, RotatedKeys DEF Rotate, KeysAfterRotation
    <3>3. workspaceKey[new] = NoKey
      BY <2>1 DEF Rotate, MayRotate
    <3>4. v # new
      BY <1>2, <3>3
    <3> HIDE DEF new
    <3>5. /\ Active(v)' /\ v # new =>
               IF new < v THEN workspaceKey'[new].state = "retired"
                          ELSE workspaceKey'[new] = NoKey
      BY <3>2, KeysStep DEF OneActiveVersion
    <3>6. NoKey.state # "active"
      BY DEF NoKey
    <3>7. QED
      BY <3>2, <3>4, <3>5, <3>6
  <2>2. ASSUME NEW u \in Users, Provision(u)
        PROVE  workspaceKey'[v] = workspaceKey[v]
    <3>1. v = FirstVersion => Minted(call[u]) = workspaceKey[v]
      BY <1>2 DEF Minted
    <3>2. QED
      BY <1>0, <2>2, <3>1 DEF Provision, TypeOK
  <2>3. workspaceKey'[v] = workspaceKey[v]
    BY <2>1, <2>2, Movers
  <2>4. Active(v)
    BY <2>3 DEF Active
  <2>5. rotationRequired
    BY <1>0, <1>1, <1>4, <2>4 DEF LeaversObligeRotation
  <2>6. ASSUME NEW u \in Users, Leave(u) PROVE rotationRequired'
    BY <2>6 DEF Leave
  <2>7. QED
    BY <2>1, <2>5, <2>6, Movers
<1>5. QED
  BY <1>3, <1>4

LEMMA InvariantStep == IInv /\ [Next]_vars => IInv'
<1> SUFFICES ASSUME IInv, [Next]_vars PROVE IInv'
  OBVIOUS
<1>1. TypeOK'
  BY TypesHold DEF IInv
<1>2. QED
  BY <1>1, KeysStep, WrapsStep, GrantsStep, KnowsStep, LeaversStep DEF IInv

THEOREM InductiveInvariant == Spec => []IInv
<1>1. Init => IInv
  BY InitInvariant
<1>2. IInv /\ [Next]_vars => IInv'
  BY InvariantStep
<1>3. QED
  BY <1>1, <1>2, PTL DEF Spec

-----------------------------------------------------------------------------
(* Every variable keeps its type, and the counters their bounds.            *)
THEOREM TypeCorrect == Spec => []TypeOK
<1>1. IInv => TypeOK
  BY DEF IInv
<1>2. QED
  BY <1>1, InductiveInvariant, PTL

(* A workspace never has two active versions, and the active one is the     *)
(* newest: rotateWorkspaceKey retires the old one and mints the next.       *)
THEOREM OneActive == Spec => []OneActiveVersion
<1>1. IInv => OneActiveVersion
  BY DEF IInv
<1>2. QED
  BY <1>1, InductiveInvariant, PTL

(* Whoever raced to provision, granted from a stale client or rotated: all  *)
(* the wraps of one version seal its one committed key.                     *)
THEOREM KeysNeverFork == Spec => []NoFork
<1>1. IInv => NoFork
  BY DEF IInv
<1>2. QED
  BY <1>1, InductiveInvariant, PTL

(* No order of grants, rotations and replaced identities leaves a wrap that *)
(* is addressed to a retired identity.                                      *)
THEOREM WrapsStayCurrent == Spec => []NoWrapStranded
<1>1. IInv => NoWrapStranded
  BY DEF IInv
<1>2. QED
  BY <1>1, InductiveInvariant, PTL

(* An upload, reserved before a removal or after, never commits under a     *)
(* version that somebody who is no member any more was able to open.        *)
THEOREM UploadsStayPrivate == Spec => FilesStayPrivate
<1>1. ASSUME IInv, [Next]_vars
      PROVE  \A v \in Versions : files'[v] # files[v] =>
               \A u \in Users \ members : v \notin knows[u]
  <2> SUFFICES ASSUME NEW v \in Versions, files'[v] # files[v],
                      NEW m \in Users \ members, v \in knows[m]
               PROVE  FALSE
    OBVIOUS
  <2>1. PICK u \in Users : Upload(u)
    BY <1>1, Movers
  <2>2. v = call[u].version
    BY <1>1, <2>1 DEF IInv, TypeOK, Upload
  <2>3. Active(v) /\ ~rotationRequired
    BY <2>1, <2>2 DEF Upload, MayCommit, MayWrite
  <2>4. QED
    BY <1>1, <2>3 DEF IInv, LeaversObligeRotation
<1>2. QED
  BY <1>1, InductiveInvariant, PTL DEF Spec, FilesStayPrivate

=============================================================================
