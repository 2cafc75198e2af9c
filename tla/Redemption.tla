----------------------------- MODULE Redemption -----------------------------
(***************************************************************************)
(* What a capability promises to the listeners that redeem it: a token is  *)
(* good for one effect, whatever the callers are told; it may lose its     *)
(* validity at any time, and a call that reports success had that effect.  *)
(***************************************************************************)
EXTENDS Integers

CONSTANTS Tokens, NoToken, Handlers

VARIABLES
  token,    \* state of each token
  call      \* the call of each handler

promiseVars == <<token, call>>

TokenStates == {"unminted", "valid", "redeemed", "void"}
Results == {"none", "redeemed", "rejected", "failed"}
NoCall == [token |-> NoToken, result |-> "none"]

PromiseTypeOK ==
  /\ token \in [Tokens -> TokenStates]
  /\ call \in [Handlers -> [token : Tokens \cup {NoToken}, result : Results]]

PromiseInit ==
  /\ token = [t \in Tokens |-> "unminted"]
  /\ call = [h \in Handlers |-> NoCall]

Pending(h) == call[h].token # NoToken /\ call[h].result = "none"
Answered(h) == call[h].result # "none"

(* Tokens are minted, and lose their validity: they expire, or what they    *)
(* are bound to changes.                                                    *)
Change ==
  /\ \E Minted, Lost \in SUBSET Tokens :
       token' = [t \in Tokens |->
         IF t \in Minted /\ token[t] = "unminted" THEN "valid"
         ELSE IF t \in Lost /\ token[t] = "valid" THEN "void" ELSE token[t]]
  /\ UNCHANGED call

Call(h, t) ==
  /\ call[h] = NoCall
  /\ token[t] # "unminted"
  /\ call' = [call EXCEPT ![h].token = t]
  /\ UNCHANGED token

(* The caller may be told of a failure although the effect took place.      *)
Effect(h) ==
  /\ Pending(h)
  /\ token[call[h].token] = "valid"
  /\ token' = [token EXCEPT ![call[h].token] = "redeemed"]
  /\ \E result \in {"redeemed", "failed"} :
       call' = [call EXCEPT ![h].result = result]

NoEffect(h) ==
  /\ Pending(h)
  /\ token' \in {token, [token EXCEPT ![call[h].token] =
                           IF @ = "valid" THEN "void" ELSE @]}
  /\ \E result \in {"rejected", "failed"} :
       call' = [call EXCEPT ![h].result = result]

(* The caller takes the answer, or dies.                                    *)
Forget(h) ==
  /\ call[h] # NoCall
  /\ call' = [call EXCEPT ![h] = NoCall]
  /\ UNCHANGED token

PromiseNext ==
  \/ Change
  \/ \E h \in Handlers : \/ \E t \in Tokens : Call(h, t)
                         \/ Effect(h) \/ NoEffect(h) \/ Forget(h)

Promise == PromiseInit /\ [][PromiseNext]_promiseVars
=============================================================================
