---------------------------- MODULE WorkspaceKeys ----------------------------
(***************************************************************************)
(* The data keys of one shared workspace with end-to-end encryption        *)
(* (server/e2e/*.ts and its client web/lib/e2e/workspace-keys.ts).         *)
(*                                                                         *)
(* A version of the workspace data key (WDK) is minted once and pinned by  *)
(* a commitment.  Members get it as a wrap: the WDK sealed to their public *)
(* key, by a member who holds a wrap already.  A removal obliges the       *)
(* workspace to rotate to a next version.  The server cannot read a wrap,  *)
(* so what keeps the keys coherent is the order of reads, locks and checks.*)
(*                                                                         *)
(* A client reads a plan and draws or opens a WDK in one step (Start...)   *)
(* and posts the result in a later one; each post is one transaction,      *)
(* serialised with its rivals by the workspace row and by the advisory     *)
(* lock of the recipient's identity.  In between anybody else may act.     *)
(*                                                                         *)
(* A commitment determines its WDK, so it is modelled by the WDK.  A WDK   *)
(* is the number of the draw that made it, a public key the number of the  *)
(* identity of its user; zero stands for none.                             *)
(***************************************************************************)
EXTENDS Integers, FiniteSets, Sequences

CONSTANTS
  Users,
  Founder,        \* the owner the workspace never loses
  Minters,        \* the users with role owner or admin
  MaxVersion,     \* bound: versions of the WDK
  MaxIdentity,    \* bound: identities a user installs one after the other
  MaxJoins,       \* bound: how often a user joins
  MaxAsks,        \* bound: requests for one version by one seat
  MaxDraws,       \* bound: WDKs that clients draw
  MaxFiles        \* bound: reservations stop at so many files of a version

ASSUME WorkspaceKeysAssumption ==
  /\ Founder \in Minters
  /\ Minters \subseteq Users
  /\ MaxVersion \in Nat \ {0}
  /\ MaxIdentity \in Nat
  /\ MaxJoins \in Nat
  /\ MaxAsks \in Nat
  /\ MaxDraws \in Nat
  /\ MaxFiles \in Nat

VARIABLES
  \* membership; joins[u] numbers the seat u has, or had last
  members, joins,
  \* user_key: the live public key of a user; those below are retired
  publicKey,
  \* the identity whose private key the user's client holds unlocked
  session,
  \* workspace.rotation_required
  rotationRequired,
  \* workspace_key
  workspaceKey,
  \* membership_key, by user and version
  wrap,
  \* key_grant_request: the states of a seat's requests, by user and version
  requests,
  \* the call that the user's client has in flight
  call,
  drawn,
  \* committed attachments, by the version their keys are sealed under
  files,
  \* history: the versions a user has been able to open
  knows

identityVars == <<publicKey, session>>
keyVars == <<rotationRequired, workspaceKey, wrap, knows>>
vars == <<members, joins, identityVars, keyVars, requests, call, drawn, files>>

-----------------------------------------------------------------------------
Versions == 1 .. MaxVersion
FirstVersion == 1
Wdks == 1 .. MaxDraws
Identities == 1 .. MaxIdentity

NoWrap == [wdk |-> 0, to |-> 0]
Wraps == [wdk : Wdks \cup {0}, to : Identities \cup {0}]
NoKey == [commitment |-> 0, state |-> "none"]
Keys == [commitment : Wdks \cup {0}, state : {"none", "active", "retired"}]

RequestStates == {"pending", "ready", "failed", "revoked"}
Open == {"pending", "ready"}

Idle == [op |-> "idle"]
Grants == SUBSET [user : Users, seat : Nat, to : Identities]
Calls ==
  {Idle}
  \cup [op : {"provision"}, wdk : Wdks, to : Identities]
  \cup [op : {"request"}, version : Versions, seat : Nat]
  \cup [op : {"grant"}, asker : Users, seat : Nat, version : Versions,
        nth : Nat, wdk : Wdks, to : Identities]
  \cup [op : {"rotate"}, version : Versions \ {MaxVersion}, wdk : Wdks,
        grants : Grants]
  \cup [op : {"identity"}, from : Identities \ {MaxIdentity},
        rewraps : SUBSET (Nat \X Versions \X Nat)]
  \cup [op : {"report"}, version : Versions, seat : Nat, nth : Nat]
  \cup [op : {"upload"}, version : Versions]

Active(v) == workspaceKey[v].state = "active"
Holds(u, v) == wrap[u][v] # NoWrap
Held(u) == {v \in Versions : Holds(u, v)}
Enrolled == {u \in Users : publicKey[u] # 0}
Asked(u, v) == requests[u][v]

(* loadWorkspaceKeys accepts a wrap: addressed to the unlocked identity, and *)
(* opening to the committed key.                                             *)
Opens(u, v) ==
  /\ Holds(u, v)
  /\ wrap[u][v].to = session[u]
  /\ wrap[u][v].wdk = workspaceKey[v].commitment

(* An open request that the caller's reference still names.                 *)
Names(c, u) ==
  /\ u \in members
  /\ joins[u] = c.seat
  /\ c.nth \in DOMAIN Asked(u, c.version)
  /\ Asked(u, c.version)[c.nth] \in Open

Begin(u, c) == call[u] = Idle /\ call' = [call EXCEPT ![u] = c]
Answered(u) == call' = [call EXCEPT ![u] = Idle]

Draw == drawn < MaxDraws /\ drawn' = drawn + 1

-----------------------------------------------------------------------------
(* Members *)

(* Accepting an invitation requests the active key in the same transaction. *)
Join(u) ==
  /\ u \notin members
  /\ joins[u] < MaxJoins
  /\ members' = members \cup {u}
  /\ joins' = [joins EXCEPT ![u] = @ + 1]
  /\ requests' = [requests EXCEPT ![u] =
       [v \in Versions |-> IF Active(v) THEN <<"pending">> ELSE <<>>]]
  /\ UNCHANGED <<identityVars, keyVars, call, drawn, files>>

(* Removing or leaving: the seat takes its wraps and requests with it.      *)
Leave(u) ==
  /\ u \in members \ {Founder}
  /\ members' = members \ {u}
  /\ rotationRequired' = TRUE
  /\ wrap' = [wrap EXCEPT ![u] = [v \in Versions |-> NoWrap]]
  /\ requests' = [requests EXCEPT ![u] = [v \in Versions |-> <<>>]]
  /\ UNCHANGED <<joins, identityVars, workspaceKey, knows, call, drawn, files>>

-----------------------------------------------------------------------------
(* Identities *)

Enroll(u) ==
  /\ publicKey[u] = 0
  /\ MaxIdentity > 0
  /\ publicKey' = [publicKey EXCEPT ![u] = 1]
  /\ session' = [session EXCEPT ![u] = 1]
  /\ UNCHANGED <<members, joins, keyVars, requests, call, drawn, files>>

Unlock(u) ==
  /\ session[u] # publicKey[u]
  /\ session' = [session EXCEPT ![u] = publicKey[u]]
  /\ UNCHANGED <<members, joins, publicKey, keyVars, requests, call, drawn,
                 files>>

(* The rows of the wraps a user holds.  Only a report deletes a row of a    *)
(* seat, so a row that replaced it differs in the failed requests before.   *)
Failed(u, v) == {n \in DOMAIN Asked(u, v) : Asked(u, v)[n] = "failed"}
WrapRows(u) == {<<joins[u], v, Cardinality(Failed(u, v))>> : v \in Held(u)}

(* A device rewraps every wrap it reads to a fresh identity.                *)
StartReplace(u) ==
  /\ session[u] \in 1 .. MaxIdentity - 1
  /\ \A v \in Held(u) : Opens(u, v)
  /\ Begin(u, [op |-> "identity", from |-> session[u],
               rewraps |-> WrapRows(u)])
  /\ UNCHANGED <<members, joins, identityVars, keyVars, requests, drawn, files>>

(* Mutant: only wraps that are not held are refused.                         *)
RewrapsOwn(u, c) == c.rewraps \subseteq WrapRows(u)

(* The submitted wraps are exactly those the user holds now.                *)
RewrapsComplete(u, c) == WrapRows(u) = c.rewraps

MayReplace(u, c) ==
  /\ publicKey[u] = c.from
  /\ RewrapsComplete(u, c)

(* The device that rotated knows its new identity, another one does not.    *)
ReplaceIdentity(u) ==
  /\ call[u].op = "identity"
  /\ MayReplace(u, call[u])
  /\ publicKey' = [publicKey EXCEPT ![u] = @ + 1]
  /\ \/ session' = [session EXCEPT ![u] = publicKey[u] + 1]
     \/ UNCHANGED session
  /\ wrap' = [wrap EXCEPT ![u] =
       [v \in Versions |-> IF \E row \in call[u].rewraps : row[2] = v
                           THEN [wrap[u][v] EXCEPT !.to = publicKey[u] + 1]
                           ELSE wrap[u][v]]]
  /\ Answered(u)
  /\ UNCHANGED <<members, joins, rotationRequired, workspaceKey, knows,
                 requests, drawn, files>>

-----------------------------------------------------------------------------
(* Minting the first version *)

StartProvision(u) ==
  /\ u \in members \cap Minters
  /\ \A v \in Versions : ~Active(v)
  /\ session[u] # 0
  /\ Draw
  /\ Begin(u, [op |-> "provision", wdk |-> drawn + 1, to |-> session[u]])
  /\ UNCHANGED <<members, joins, identityVars, keyVars, requests, files>>

MayProvision(u, c) ==
  /\ u \in members \cap Minters
  /\ publicKey[u] = c.to

(* The key the workspace has after "on conflict do nothing".                *)
Minted(c) ==
  IF workspaceKey[FirstVersion] = NoKey
  THEN [commitment |-> c.wdk, state |-> "active"]
  ELSE workspaceKey[FirstVersion]

(* Mutant: the loser of the race keeps his wrap.                            *)
OwnGrantBlind(u, c) == ~Holds(u, FirstVersion)

(* Who lost the race must not store a wrap of his own WDK.                  *)
OwnGrant(u, c) ==
  /\ Minted(c).commitment = c.wdk
  /\ ~Holds(u, FirstVersion)

Provision(u) ==
  /\ call[u].op = "provision"
  /\ MayProvision(u, call[u])
  /\ workspaceKey' = [workspaceKey EXCEPT ![FirstVersion] = Minted(call[u])]
  /\ IF OwnGrant(u, call[u])
     THEN /\ wrap' = [wrap EXCEPT ![u][FirstVersion] =
                        [wdk |-> call[u].wdk, to |-> call[u].to]]
          /\ knows' = [knows EXCEPT ![u] = @ \cup {FirstVersion}]
     ELSE UNCHANGED <<wrap, knows>>
  /\ Answered(u)
  /\ UNCHANGED <<members, joins, identityVars, rotationRequired, requests,
                 drawn, files>>

-----------------------------------------------------------------------------
(* Asking for a version and granting it *)

(* requestWorkspaceKey is one INSERT ... SELECT.  Its snapshot ...          *)
StartRequest(u) ==
  /\ u \in members
  /\ \E v \in Versions :
       /\ Active(v)
       /\ ~Holds(u, v)
       /\ Len(Asked(u, v)) < MaxAsks
       /\ Begin(u, [op |-> "request", version |-> v, seat |-> joins[u]])
  /\ UNCHANGED <<members, joins, identityVars, keyVars, requests, drawn, files>>

(* ... is older than its check against the partial unique index, which      *)
(* waits for a rival that is just completing the pending request.           *)
MayRequest(u, c) ==
  /\ u \in members
  /\ joins[u] = c.seat
  /\ \A n \in DOMAIN Asked(u, c.version) : Asked(u, c.version)[n] # "pending"

Request(u) ==
  /\ call[u].op = "request"
  /\ MayRequest(u, call[u])
  /\ requests' = [requests EXCEPT ![u][call[u].version] = Append(@, "pending")]
  /\ Answered(u)
  /\ UNCHANGED <<members, joins, identityVars, keyVars, drawn, files>>

(* fulfilPendingGrants: the requests listed for a holder of the version,    *)
(* whose client has the WDK in memory, even if its identity is stale.       *)
StartGrant(g) ==
  /\ g \in members
  /\ \E u \in members \cap Enrolled, v \in Versions :
       /\ Active(v)
       /\ Holds(g, v)
       /\ \E n \in DOMAIN Asked(u, v) :
            /\ Asked(u, v)[n] = "pending"
            /\ Begin(g, [op |-> "grant", asker |-> u, seat |-> joins[u],
                         version |-> v, nth |-> n,
                         wdk |-> wrap[g][v].wdk, to |-> publicKey[u]])
  /\ UNCHANGED <<members, joins, identityVars, keyVars, requests, drawn, files>>

(* The recipient's key is compared inside the write.                        *)
ToCurrentKey(c) == publicKey[c.asker] = c.to

MayGrant(g, c) ==
  /\ g \in members
  /\ Holds(g, c.version)
  /\ Active(c.version)
  /\ Names(c, c.asker)
  /\ ~Holds(c.asker, c.version)
  /\ ToCurrentKey(c)

Grant(g) ==
  /\ call[g].op = "grant"
  /\ MayGrant(g, call[g])
  /\ LET c == call[g] IN
       /\ wrap' = [wrap EXCEPT ![c.asker][c.version] =
                     [wdk |-> c.wdk, to |-> c.to]]
       /\ knows' = [knows EXCEPT ![c.asker] = @ \cup {c.version}]
       /\ requests' = [requests EXCEPT ![c.asker][c.version][c.nth] = "ready"]
  /\ Answered(g)
  /\ UNCHANGED <<members, joins, identityVars, rotationRequired, workspaceKey,
                 drawn, files>>

(* The latest request of a wrap that the recipient's client refuses.        *)
StartReport(u) ==
  /\ session[u] # 0
  /\ \E v \in Held(u) :
       /\ ~Opens(u, v)
       /\ Asked(u, v) # <<>>
       /\ Begin(u, [op |-> "report", version |-> v, seat |-> joins[u],
                    nth |-> Len(Asked(u, v))])
  /\ UNCHANGED <<members, joins, identityVars, keyVars, requests, drawn, files>>

(* markGrantFailed discards the wrap with the request.                      *)
Report(u) ==
  /\ call[u].op = "report"
  /\ Names(call[u], u)
  /\ requests' = [requests EXCEPT
                    ![u][call[u].version][call[u].nth] = "failed"]
  /\ wrap' = [wrap EXCEPT ![u][call[u].version] = NoWrap]
  /\ Answered(u)
  /\ UNCHANGED <<members, joins, identityVars, rotationRequired, workspaceKey,
                 knows, drawn, files>>

-----------------------------------------------------------------------------
(* Rotating after a removal *)

(* Mutant: members without an identity get a grant, too.                    *)
RecipientsUnfiltered ==
  {[user |-> m, seat |-> joins[m], to |-> publicKey[m]] : m \in members}

Recipients ==
  {[user |-> m, seat |-> joins[m], to |-> publicKey[m]] :
     m \in members \cap Enrolled}

StartRotate(u) ==
  /\ u \in members \cap Minters
  /\ rotationRequired
  /\ Draw
  /\ \E v \in Versions \ {MaxVersion} :
       /\ Active(v)
       /\ Begin(u, [op |-> "rotate", version |-> v, wdk |-> drawn + 1,
                    grants |-> Recipients])
  /\ UNCHANGED <<members, joins, identityVars, keyVars, requests, files>>

(* validateGrantSet: a grant for every enrolled member, to its current key. *)
GrantsComplete(c) == c.grants = Recipients

MayRotate(u, c) ==
  /\ u \in members \cap Minters
  /\ rotationRequired
  /\ Active(c.version)
  /\ publicKey[u] # 0
  /\ GrantsComplete(c)
  /\ workspaceKey[c.version + 1] = NoKey

(* Mutant: the previous version stays active.                               *)
KeysBothActive(c) ==
  [workspaceKey EXCEPT
     ![c.version + 1] = [commitment |-> c.wdk, state |-> "active"]]

KeysAfterRotation(c) ==
  [workspaceKey EXCEPT
     ![c.version] = [commitment |-> @.commitment, state |-> "retired"],
     ![c.version + 1] = [commitment |-> c.wdk, state |-> "active"]]

(* Pending requests are revoked; a member without an identity gets one for  *)
(* the next version.                                                        *)
RequestsAfterRotation(c) ==
  [u \in Users |-> [v \in Versions |->
     IF v = c.version + 1 /\ u \in members \ Enrolled
     THEN <<"pending">>
     ELSE [n \in DOMAIN Asked(u, v) |->
             IF Asked(u, v)[n] = "pending" THEN "revoked"
                                           ELSE Asked(u, v)[n]]]]

Rotate(u) ==
  /\ call[u].op = "rotate"
  /\ MayRotate(u, call[u])
  /\ LET c == call[u]
         granted == {g.user : g \in c.grants} IN
       /\ workspaceKey' = KeysAfterRotation(c)
       /\ wrap' = [m \in Users |->
            IF m \in granted
            THEN [wrap[m] EXCEPT ![c.version + 1] =
                    [wdk |-> c.wdk, to |-> publicKey[m]]]
            ELSE wrap[m]]
       /\ knows' = [m \in Users |-> IF m \in granted
                                    THEN knows[m] \cup {c.version + 1}
                                    ELSE knows[m]]
       /\ requests' = RequestsAfterRotation(c)
  /\ rotationRequired' = FALSE
  /\ Answered(u)
  /\ UNCHANGED <<members, joins, identityVars, drawn, files>>

-----------------------------------------------------------------------------
(* Uploading: reservation and commit both ask validateAttachmentWrite *)

MayWrite(u, v) ==
  /\ u \in members
  /\ ~rotationRequired
  /\ Active(v)
  /\ Holds(u, v)

StartUpload(u) ==
  /\ \E v \in Versions :
       /\ MayWrite(u, v)
       /\ files[v] < MaxFiles
       /\ Begin(u, [op |-> "upload", version |-> v])
  /\ UNCHANGED <<members, joins, identityVars, keyVars, requests, drawn, files>>

(* Mutant: the commit relies on what the reservation checked.               *)
MayCommitReserved(u, c) == u \in members /\ Holds(u, c.version)

MayCommit(u, c) == MayWrite(u, c.version)

Upload(u) ==
  /\ call[u].op = "upload"
  /\ MayCommit(u, call[u])
  /\ files' = [files EXCEPT ![call[u].version] = @ + 1]
  /\ Answered(u)
  /\ UNCHANGED <<members, joins, identityVars, keyVars, requests, drawn>>

-----------------------------------------------------------------------------
(* Every refusal leaves the tables as they are.                             *)
Accepts(u, c) ==
  CASE c.op = "provision" -> MayProvision(u, c)
    [] c.op = "request"   -> MayRequest(u, c)
    [] c.op = "grant"     -> MayGrant(u, c)
    [] c.op = "report"    -> Names(c, u)
    [] c.op = "rotate"    -> MayRotate(u, c)
    [] c.op = "identity"  -> MayReplace(u, c)
    [] c.op = "upload"    -> MayCommit(u, c)

Refuse(u) ==
  /\ call[u] # Idle
  /\ ~Accepts(u, call[u])
  /\ Answered(u)
  /\ UNCHANGED <<members, joins, identityVars, keyVars, requests, drawn, files>>

Init ==
  /\ members = {Founder}
  /\ joins = [u \in Users |-> IF u = Founder THEN 1 ELSE 0]
  /\ publicKey = [u \in Users |-> 0]
  /\ session = [u \in Users |-> 0]
  /\ rotationRequired = FALSE
  /\ workspaceKey = [v \in Versions |-> NoKey]
  /\ wrap = [u \in Users |-> [v \in Versions |-> NoWrap]]
  /\ requests = [u \in Users |-> [v \in Versions |-> <<>>]]
  /\ call = [u \in Users |-> Idle]
  /\ drawn = 0
  /\ files = [v \in Versions |-> 0]
  /\ knows = [u \in Users |-> {}]

Next ==
  \E u \in Users :
    \/ Join(u) \/ Leave(u)
    \/ Enroll(u) \/ Unlock(u) \/ StartReplace(u) \/ ReplaceIdentity(u)
    \/ StartProvision(u) \/ Provision(u)
    \/ StartRequest(u) \/ Request(u)
    \/ StartGrant(u) \/ Grant(u)
    \/ StartReport(u) \/ Report(u)
    \/ StartRotate(u) \/ Rotate(u)
    \/ StartUpload(u) \/ Upload(u)
    \/ Refuse(u)

Spec == Init /\ [][Next]_vars

-----------------------------------------------------------------------------
(* Properties *)

(* Every variable has its type; the counters are within their bounds.       *)
TypeOK ==
  /\ members \subseteq Users
  /\ joins \in [Users -> Nat]
  /\ publicKey \in [Users -> Identities \cup {0}]
  /\ session \in [Users -> Identities \cup {0}]
  /\ rotationRequired \in BOOLEAN
  /\ workspaceKey \in [Versions -> Keys]
  /\ wrap \in [Users -> [Versions -> Wraps]]
  /\ requests \in [Users -> [Versions -> Seq(RequestStates)]]
  /\ call \in [Users -> Calls]
  /\ drawn \in 0 .. MaxDraws
  /\ files \in [Versions -> Nat]
  /\ knows \in [Users -> SUBSET Versions]

(* At most one version is active, and it is the newest: activeKeyFor throws *)
(* for a workspace with two, which then could never rotate again.           *)
OneActiveVersion ==
  \A v, w \in Versions :
    Active(v) /\ v # w => IF w < v THEN workspaceKey[w].state = "retired"
                                   ELSE workspaceKey[w] = NoKey

(* Two members never hold two keys under one version, whoever raced to      *)
(* mint, retried or granted.                                                *)
NoFork ==
  \A u \in Users, v \in Versions :
    Holds(u, v) => wrap[u][v].wdk = workspaceKey[v].commitment

(* No wrap stays addressed to an identity its holder has retired, in        *)
(* whatever order grants, rotations and replacements of identities commit.  *)
NoWrapStranded ==
  \A u \in Users, v \in Versions :
    Holds(u, v) => wrap[u][v].to = publicKey[u]

(* No file is committed under a version that somebody who left could open,  *)
(* even if it was reserved before that member was removed.                  *)
FilesStayPrivate ==
  [][\A v \in Versions : files'[v] # files[v] =>
       \A u \in Users \ members : v \notin knows[u]]_vars
=============================================================================
