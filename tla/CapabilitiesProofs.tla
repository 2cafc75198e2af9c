-------------------------- MODULE CapabilitiesProofs --------------------------
(***************************************************************************)
(* Proofs about Capabilities: its invariants, for any users, tokens and    *)
(* handlers and without the bounds of the model, and that its redemptions  *)
(* keep the abstract promise of Redemption.                                *)
(***************************************************************************)
EXTENDS Capabilities, TLAPS

-----------------------------------------------------------------------------
(* A token that can still be consumed was never redeemed, and one that was  *)
(* consumed had its effect or was misdirected.                              *)
TokensAccounted ==
  \A t \in Tokens :
    /\ redeemed[t] <= 1
    /\ cap[t] \in {"unminted", "live"} => redeemed[t] = 0
    /\ cap[t] = "consumed" => redeemed[t] = 1 \/ t \in misdirected

(* A live test token was sent to the present chat of its channel, if there  *)
(* is one.                                                                  *)
ProofsAccounted ==
  /\ \A u \in Users : channel[u].ackVerified => "acked" \in proof[u]
  /\ \A t \in VerifyTokens :
       cap[t] = "live" => channel[To[t]].chat \in {NoChat, sentTo[t]}

(* The three shapes of a handler's redemption.                              *)
CallsAccounted ==
  /\ \A t \in Tokens : cap[t] = "unminted" <=> sentTo[t] = NoChat
  /\ \A h \in Handlers :
       \/ redeeming[h] = NoRedemption
       \/ /\ redeeming[h].step = "observed"
          /\ redeeming[h].token \in Tokens
          /\ cap[redeeming[h].token] # "unminted"
          /\ redeeming[h].result = "none"
       \/ /\ redeeming[h].step = "answered"
          /\ redeeming[h].token \in Tokens
          /\ redeeming[h].result # "none"

IndInv ==
  TypeOK /\ TokensAccounted /\ AwardedOnce /\ ProofsAccounted /\ CallsAccounted

-----------------------------------------------------------------------------
LEMMA InitInd == Init => IndInv
  <1> SUFFICES ASSUME Init PROVE IndInv
    OBVIOUS
  <1> USE CapabilitiesAssumption DEF Init
  <1>t. TokenTypes
    BY DEF TokenTypes, CapStates
  <1>k. TaskTypes
    BY DEF TaskTypes, Places
  <1>p. PeopleTypes
    BY DEF PeopleTypes
  <1>c. ChannelTypes
    <2>1. \A u \in Users : Unverified(FirstChat[u]) \in
            [chat : Chats \cup {NoChat}, verified : BOOLEAN, ackVerified : BOOLEAN]
      BY DEF Unverified
    <2> QED BY <2>1 DEF ChannelTypes
  <1>r. RedeemingTypes
    BY DEF RedeemingTypes, NoRedemption, Places, Results
  <1>1. TypeOK
    BY <1>t, <1>k, <1>p, <1>c, <1>r DEF TypeOK, RowsRelated, Unverified
  <1>2. TokensAccounted /\ AwardedOnce
    BY DEF TokensAccounted, AwardedOnce
  <1>3. ProofsAccounted
    BY DEF ProofsAccounted, Unverified
  <1>4. CallsAccounted
    BY DEF CallsAccounted
  <1> QED BY <1>1, <1>2, <1>3, <1>4 DEF IndInv

(* What is awarded was not awarded before, and is recorded.                 *)
LEMMA Awarding ==
  ASSUME TaskTypes, AwardedOnce, CapabilitiesAssumption,
         NEW owed \in SUBSET (Days \cup {"task"}), Award(owed),
         \A d \in owed : IF d = "task" THEN ~task.done ELSE d \notin logged
  PROVE  /\ task' \in [habit : BOOLEAN, done : BOOLEAN, place : Places, active : BOOLEAN]
         /\ logged' \subseteq Days
         /\ awards' \in [Days \cup {"task"} -> Nat]
         /\ undone' \in [Days \cup {"task"} -> Nat]
         /\ AwardedOnce'
  <1>1. /\ task' \in [habit : BOOLEAN, done : BOOLEAN, place : Places, active : BOOLEAN]
        /\ task'.done = IF "task" \in owed THEN TRUE ELSE task.done
    BY DEF TaskTypes, Award, Places
  <1>2. logged' \subseteq Days /\ logged' = logged \cup (owed \ {"task"})
    BY DEF TaskTypes, Award
  <1>3. awards' \in [Days \cup {"task"} -> Nat] /\ undone' \in [Days \cup {"task"} -> Nat]
    BY DEF TaskTypes, Award
  <1>4. ASSUME NEW d \in Days \cup {"task"}
        PROVE  /\ awards[d] \in Nat /\ undone[d] \in Nat /\ undone'[d] = undone[d]
               /\ awards'[d] = IF d \in owed THEN awards[d] + 1 ELSE awards[d]
    BY DEF TaskTypes, Award
  <1>5. awards'["task"] <= undone'["task"] + (IF task'.done THEN 1 ELSE 0)
    <2>1. awards["task"] <= undone["task"] + (IF task.done THEN 1 ELSE 0)
      BY DEF AwardedOnce
    <2>2. "task" \in owed => ~task.done
      OBVIOUS
    <2>3. task.done \in BOOLEAN
      BY DEF TaskTypes
    <2> QED BY <1>1, <1>4, <2>1, <2>2, <2>3
  <1>6. ASSUME NEW d \in Days
        PROVE  awards'[d] = undone'[d] + (IF d \in logged' THEN 1 ELSE 0)
    <2>1. awards[d] = undone[d] + (IF d \in logged THEN 1 ELSE 0)
      BY DEF AwardedOnce
    <2>2. d # "task" /\ (d \in owed => d \notin logged)
      BY DEF CapabilitiesAssumption
    <2> QED BY <1>2, <1>4, <2>1, <2>2
  <1> QED BY <1>1, <1>2, <1>3, <1>5, <1>6 DEF AwardedOnce

(* A redemption ends in one of two ways for the rows besides the token.     *)
LEMMA Completing ==
  ASSUME IndInv, NEW t \in Tokens, To[t] \in accounts, Complete(t)
  PROVE  TaskTypes' /\ AwardedOnce' /\ (\A u \in Users : reminder'[u] # "none" => u \in accounts)
  <1> USE CapabilitiesAssumption DEF IndInv, TypeOK
  <1>1. To[t] \in Users /\ LocalDay[To[t]] \in Days
    BY DEF Days
  <1>2. /\ Owed(To[t]) \in SUBSET (Days \cup {"task"})
        /\ \A d \in Owed(To[t]) : IF d = "task" THEN ~task.done ELSE d \notin logged
    BY <1>1 DEF Owed
  <1>3. /\ task' \in [habit : BOOLEAN, done : BOOLEAN, place : Places, active : BOOLEAN]
        /\ logged' \subseteq Days
        /\ awards' \in [Days \cup {"task"} -> Nat]
        /\ undone' \in [Days \cup {"task"} -> Nat]
        /\ AwardedOnce'
    BY <1>2, Awarding DEF Complete
  <1>4. /\ reminder' \in [Users -> {"none", "pending", "expired", "acked"}]
        /\ \A u \in Users : reminder'[u] # "none" => u \in accounts
    BY <1>1 DEF Complete, Acked, TaskTypes, RowsRelated
  <1> QED BY <1>3, <1>4 DEF TaskTypes

LEMMA Verifying ==
  ASSUME IndInv, NEW t \in VerifyTokens, cap[t] = "live", Verify(t)
  PROVE  /\ ChannelTypes'
         /\ \A u \in Users : channel'[u].ackVerified => channel'[u].verified
         /\ \A u \in Users : channel'[u].ackVerified => "acked" \in proof'[u]
         /\ \A u \in Users : channel'[u].chat = channel[u].chat
  <1> USE CapabilitiesAssumption DEF IndInv, TypeOK
  <1>1. To[t] \in Users /\ channel[To[t]].chat \in {NoChat, sentTo[t]}
    BY DEF ProofsAccounted
  <1>2. CASE channel[To[t]].chat = NoChat
    BY <1>1, <1>2 DEF Verify, ChannelTypes, RowsRelated, ProofsAccounted
  <1>3. CASE channel[To[t]].chat # NoChat
    <2>1. channel[To[t]].chat = sentTo[t]
      BY <1>1, <1>3
    <2>2. channel' = [channel EXCEPT ![To[t]] = [chat |-> channel[To[t]].chat,
                                                 verified |-> TRUE, ackVerified |-> TRUE]]
      BY <1>3 DEF Verify
    <2>3. proof' = [proof EXCEPT ![To[t]] = @ \cup {"acked"}] /\ testing' = testing
      BY <2>1 DEF Verify
    <2>4. ChannelTypes'
      <3>1. channel' \in [Users -> [chat : Chats \cup {NoChat},
                                   verified : BOOLEAN, ackVerified : BOOLEAN]]
        BY <1>1, <2>2 DEF ChannelTypes
      <3> QED BY <1>1, <2>3, <3>1 DEF ChannelTypes
    <2>5. ASSUME NEW u \in Users
          PROVE  /\ channel'[u].ackVerified => channel'[u].verified
                 /\ channel'[u].ackVerified => "acked" \in proof'[u]
                 /\ channel'[u].chat = channel[u].chat
      <3>1. CASE u = To[t]
        BY <1>1, <2>2, <2>3, <3>1 DEF ChannelTypes
      <3>2. CASE u # To[t]
        BY <1>1, <2>2, <2>3, <3>2 DEF ChannelTypes, RowsRelated, ProofsAccounted
      <3> QED BY <3>1, <3>2
    <2> QED BY <2>4, <2>5
  <1> QED BY <1>2, <1>3

LEMMA MintAckInd ==
  ASSUME IndInv, NEW t \in Tokens, MintAck(t)
  PROVE  IndInv'
  <1> USE CapabilitiesAssumption DEF IndInv, TypeOK,
        MintAck, Mintable, taskVars, channelVars, tokenVars
  <1>1. TokenTypes'
    BY DEF TokenTypes, ChannelTypes, CapStates
  <1>2. RowsRelated'
    BY DEF RowsRelated, TokenTypes, TaskTypes, PeopleTypes, ChannelTypes, RedeemingTypes
  <1>3. TokensAccounted'
    BY DEF TokensAccounted, TokenTypes, RedeemingTypes
  <1>4. ProofsAccounted'
    BY DEF ProofsAccounted, TokenTypes, ChannelTypes
  <1>5. CallsAccounted'
    BY DEF CallsAccounted, TokenTypes, RedeemingTypes, NoRedemption
  <1>6. /\ TaskTypes' /\ PeopleTypes' /\ ChannelTypes'
        /\ RedeemingTypes' /\ AwardedOnce'
    BY DEF TaskTypes, PeopleTypes, ChannelTypes, RedeemingTypes, AwardedOnce
  <1> QED BY <1>1, <1>2, <1>3, <1>4, <1>5, <1>6

LEMMA SaveChannelInd ==
  ASSUME IndInv, NEW u \in Users, NEW c \in Chats, SaveChannel(u, c)
  PROVE  IndInv'
  <1> USE CapabilitiesAssumption DEF IndInv, TypeOK,
        SaveChannel, SavedChannel, CapsAfterSave, Outstanding, Unverified, taskVars, channelVars, tokenVars
  <1>1. TokenTypes'
    BY DEF TokenTypes, RedeemingTypes, CapStates
  <1>2. PeopleTypes'
    BY DEF PeopleTypes
  <1>3. ChannelTypes'
    BY DEF ChannelTypes
  <1>4. RowsRelated'
    BY DEF RowsRelated, TokenTypes, TaskTypes, PeopleTypes, ChannelTypes, RedeemingTypes
  <1>5. TokensAccounted'
    BY DEF TokensAccounted, TokenTypes, RedeemingTypes
  <1>6. ProofsAccounted'
    BY DEF ProofsAccounted, TokenTypes, ChannelTypes
  <1>7. CallsAccounted'
    BY DEF CallsAccounted, TokenTypes, RedeemingTypes, NoRedemption
  <1>8. TaskTypes' /\ RedeemingTypes' /\ AwardedOnce'
    BY DEF TaskTypes, RedeemingTypes, AwardedOnce
  <1> QED BY <1>1, <1>2, <1>3, <1>4, <1>5, <1>6, <1>7, <1>8

LEMMA DeleteChannelInd ==
  ASSUME IndInv, NEW u \in Users, DeleteChannel(u)
  PROVE  IndInv'
  <1> USE CapabilitiesAssumption DEF IndInv, TypeOK,
        DeleteChannel, NoChannel, Unverified, taskVars, channelVars, tokenVars
  <1>1. PeopleTypes'
    BY DEF PeopleTypes
  <1>2. ChannelTypes'
    BY DEF ChannelTypes
  <1>3. RowsRelated'
    BY DEF RowsRelated, TokenTypes, TaskTypes, PeopleTypes, ChannelTypes, RedeemingTypes
  <1>4. ProofsAccounted'
    BY DEF ProofsAccounted, TokenTypes, ChannelTypes
  <1>5. /\ TokenTypes' /\ TaskTypes' /\ RedeemingTypes'
        /\ TokensAccounted' /\ AwardedOnce' /\ CallsAccounted'
    BY DEF TokenTypes, TaskTypes, RedeemingTypes, TokensAccounted, AwardedOnce, CallsAccounted
  <1> QED BY <1>1, <1>2, <1>3, <1>4, <1>5

LEMMA TestChannelInd ==
  ASSUME IndInv, NEW u \in Users, NEW c \in Chats, NEW t \in Tokens, TestChannel(u, c, t)
  PROVE  IndInv'
  <1> USE CapabilitiesAssumption DEF IndInv, TypeOK,
        TestChannel, SavedChannel, CapsAfterSave, Outstanding, Unverified, Mintable, taskVars, channelVars, tokenVars
  <1>1. TokenTypes'
    BY DEF TokenTypes, RedeemingTypes, CapStates
  <1>2. ChannelTypes'
    BY DEF ChannelTypes
  <1>3. RowsRelated'
    BY DEF RowsRelated, TokenTypes, TaskTypes, PeopleTypes, ChannelTypes, RedeemingTypes
  <1>4. TokensAccounted'
    BY DEF TokensAccounted, TokenTypes, RedeemingTypes
  <1>5. ProofsAccounted'
    BY DEF ProofsAccounted, TokenTypes, ChannelTypes
  <1>6. CallsAccounted'
    BY DEF CallsAccounted, TokenTypes, RedeemingTypes, NoRedemption
  <1>7. TaskTypes' /\ PeopleTypes' /\ RedeemingTypes' /\ AwardedOnce'
    BY DEF TaskTypes, PeopleTypes, RedeemingTypes, AwardedOnce
  <1> QED BY <1>1, <1>2, <1>3, <1>4, <1>5, <1>6, <1>7

LEMMA TestAcceptedInd ==
  ASSUME IndInv, NEW u \in Users, TestAccepted(u)
  PROVE  IndInv'
  <1> USE CapabilitiesAssumption DEF IndInv, TypeOK,
        TestAccepted, taskVars, channelVars, tokenVars
  <1>1. ChannelTypes'
    BY DEF ChannelTypes
  <1>2. RowsRelated'
    BY DEF RowsRelated, TokenTypes, TaskTypes, PeopleTypes, ChannelTypes, RedeemingTypes
  <1>3. ProofsAccounted'
    BY DEF ProofsAccounted, TokenTypes, ChannelTypes
  <1>4. /\ TokenTypes' /\ TaskTypes' /\ PeopleTypes' /\ RedeemingTypes'
        /\ TokensAccounted' /\ AwardedOnce' /\ CallsAccounted'
    BY DEF TokenTypes, TaskTypes, PeopleTypes, RedeemingTypes, TokensAccounted, AwardedOnce, CallsAccounted
  <1> QED BY <1>1, <1>2, <1>3, <1>4

LEMMA TestRefusedInd ==
  ASSUME IndInv, NEW u \in Users, TestRefused(u)
  PROVE  IndInv'
  <1> USE CapabilitiesAssumption DEF IndInv, TypeOK,
        TestRefused, taskVars, channelVars, tokenVars
  <1>1. ChannelTypes'
    BY DEF ChannelTypes
  <1>2. /\ TokenTypes' /\ TaskTypes' /\ PeopleTypes' /\ RedeemingTypes' /\ RowsRelated'
        /\ TokensAccounted' /\ AwardedOnce' /\ ProofsAccounted' /\ CallsAccounted'
    BY DEF TokenTypes, TaskTypes, PeopleTypes, RedeemingTypes, RowsRelated, TokensAccounted, AwardedOnce, ProofsAccounted, CallsAccounted
  <1> QED BY <1>1, <1>2

LEMMA ObserveInd ==
  ASSUME IndInv, NEW h \in Handlers, NEW t \in Tokens, NEW via \in Vias, Observe(h, t, via)
  PROVE  IndInv'
  <1> USE CapabilitiesAssumption DEF IndInv, TypeOK,
        Observe, Binding, taskVars, channelVars, tokenVars
  <1>1. RedeemingTypes'
    BY DEF RedeemingTypes, TaskTypes, Places, Results
  <1>2. CallsAccounted'
    BY DEF CallsAccounted, TokenTypes, RedeemingTypes, NoRedemption
  <1>3. /\ TokenTypes' /\ TaskTypes' /\ PeopleTypes' /\ ChannelTypes'
        /\ RowsRelated' /\ TokensAccounted' /\ AwardedOnce' /\ ProofsAccounted'
    BY DEF TokenTypes, TaskTypes, PeopleTypes, ChannelTypes, RowsRelated, TokensAccounted, AwardedOnce, ProofsAccounted
  <1> QED BY <1>1, <1>2, <1>3

LEMMA RedeemInd ==
  ASSUME IndInv, NEW h \in Handlers, Redeem(h)
  PROVE  IndInv'
  <1> USE CapabilitiesAssumption DEF IndInv, TypeOK
  <1> DEFINE t == redeeming[h].token
  <1>1. /\ t \in Tokens /\ cap[t] = "live" /\ To[t] \in accounts
        /\ cap' = [cap EXCEPT ![t] = "consumed"]
        /\ redeemed' = [redeemed EXCEPT ![t] = @ + 1]
        /\ UNCHANGED <<sentTo, misdirected, accounts, edits>>
    BY DEF Redeem, Consumable, CallsAccounted, NoRedemption, RowsRelated
  <1>2. Answer(h, "redeemed")
    BY DEF Redeem
  <1>3. IF t \in VerifyTokens THEN Verify(t) ELSE Complete(t)
    BY DEF Redeem
  <1> HIDE DEF t
  <1>4. TokenTypes' /\ TokensAccounted'
    BY <1>1 DEF TokenTypes, TokensAccounted, CapStates
  <1>5. RedeemingTypes'
    BY <1>1, <1>2 DEF Answer, RedeemingTypes, Places, Results, t
  <1>6. CallsAccounted'
    BY <1>1, <1>2 DEF Answer, RedeemingTypes, CallsAccounted, NoRedemption, TokenTypes, t
  <1>7. CASE t \in VerifyTokens
    <2>1. Verify(t)
      BY <1>3, <1>7
    <2>2. TaskTypes' /\ AwardedOnce' /\ PeopleTypes'
      BY <1>1, <2>1 DEF Verify, taskVars, TaskTypes, AwardedOnce, PeopleTypes
    <2>3. RowsRelated' /\ ChannelTypes'
      BY <1>1, <1>7, <2>1, Verifying
         DEF Verify, taskVars, RowsRelated, TokenTypes
    <2>4. ProofsAccounted'
      BY <1>1, <1>7, <2>1, Verifying DEF ProofsAccounted, TokenTypes
    <2> QED BY <1>4, <1>5, <1>6, <2>2, <2>3, <2>4
  <1>8. CASE t \notin VerifyTokens
    <2>1. Complete(t)
      BY <1>3, <1>8
    <2>2. UNCHANGED channelVars /\ UNCHANGED members
      BY <2>1 DEF Complete
    <2>3. PeopleTypes' /\ ChannelTypes' /\ ProofsAccounted'
      BY <1>1, <2>2 DEF channelVars, PeopleTypes, ChannelTypes, ProofsAccounted, TokenTypes
    <2>4. TaskTypes' /\ AwardedOnce' /\ RowsRelated'
      BY <1>1, <2>1, <2>2, Completing DEF channelVars, RowsRelated, TokenTypes
    <2> QED BY <1>4, <1>5, <1>6, <2>3, <2>4
  <1> QED BY <1>7, <1>8

LEMMA BurnInd ==
  ASSUME IndInv, NEW h \in Handlers, Burn(h)
  PROVE  IndInv'
  <1> USE CapabilitiesAssumption DEF IndInv, TypeOK,
        Burn, Consumable, Answer, taskVars, channelVars, tokenVars
  <1>1. TokenTypes'
    BY DEF TokenTypes, CallsAccounted, NoRedemption, CapStates
  <1>2. RedeemingTypes'
    BY DEF RedeemingTypes, TaskTypes, Places, Results
  <1>3. RowsRelated'
    BY DEF RowsRelated, TokenTypes, TaskTypes, PeopleTypes, ChannelTypes, RedeemingTypes
  <1>4. TokensAccounted'
    BY DEF TokensAccounted, TokenTypes, RedeemingTypes
  <1>5. ProofsAccounted'
    BY DEF ProofsAccounted, TokenTypes, ChannelTypes
  <1>6. CallsAccounted'
    BY DEF CallsAccounted, TokenTypes, RedeemingTypes, NoRedemption
  <1>7. TaskTypes' /\ PeopleTypes' /\ ChannelTypes' /\ AwardedOnce'
    BY DEF TaskTypes, PeopleTypes, ChannelTypes, AwardedOnce
  <1> QED BY <1>1, <1>2, <1>3, <1>4, <1>5, <1>6, <1>7

LEMMA DenyInd ==
  ASSUME IndInv, NEW h \in Handlers, Deny(h)
  PROVE  IndInv'
  <1> USE CapabilitiesAssumption DEF IndInv, TypeOK,
        Deny, Consumable, Answer, AfterDenial, taskVars, channelVars, tokenVars
  <1>1. RedeemingTypes'
    BY DEF RedeemingTypes, TaskTypes, Places, Results
  <1>2. CallsAccounted'
    BY DEF CallsAccounted, TokenTypes, RedeemingTypes, NoRedemption
  <1>3. /\ TokenTypes' /\ TaskTypes' /\ PeopleTypes' /\ ChannelTypes'
        /\ RowsRelated' /\ TokensAccounted' /\ AwardedOnce' /\ ProofsAccounted'
    BY DEF TokenTypes, TaskTypes, PeopleTypes, ChannelTypes, RowsRelated, TokensAccounted, AwardedOnce, ProofsAccounted
  <1> QED BY <1>1, <1>2, <1>3

LEMMA RefuseInd ==
  ASSUME IndInv, NEW h \in Handlers, Refuse(h)
  PROVE  IndInv'
  <1> USE CapabilitiesAssumption DEF IndInv, TypeOK,
        Refuse, Answer, taskVars, channelVars, tokenVars
  <1>1. RedeemingTypes'
    BY DEF RedeemingTypes, TaskTypes, Places, Results
  <1>2. CallsAccounted'
    BY DEF CallsAccounted, TokenTypes, RedeemingTypes, NoRedemption
  <1>3. /\ TokenTypes' /\ TaskTypes' /\ PeopleTypes' /\ ChannelTypes'
        /\ RowsRelated' /\ TokensAccounted' /\ AwardedOnce' /\ ProofsAccounted'
    BY DEF TokenTypes, TaskTypes, PeopleTypes, ChannelTypes, RowsRelated, TokensAccounted, AwardedOnce, ProofsAccounted
  <1> QED BY <1>1, <1>2, <1>3

LEMMA FailInd ==
  ASSUME IndInv, NEW h \in Handlers, Fail(h)
  PROVE  IndInv'
  <1> USE CapabilitiesAssumption DEF IndInv, TypeOK,
        Fail, Answer, taskVars, channelVars, tokenVars
  <1>1. RedeemingTypes'
    BY DEF RedeemingTypes, TaskTypes, Places, Results
  <1>2. CallsAccounted'
    BY DEF CallsAccounted, TokenTypes, RedeemingTypes, NoRedemption
  <1>3. /\ TokenTypes' /\ TaskTypes' /\ PeopleTypes' /\ ChannelTypes'
        /\ RowsRelated' /\ TokensAccounted' /\ AwardedOnce' /\ ProofsAccounted'
    BY DEF TokenTypes, TaskTypes, PeopleTypes, ChannelTypes, RowsRelated, TokensAccounted, AwardedOnce, ProofsAccounted
  <1> QED BY <1>1, <1>2, <1>3

LEMMA ForgetInd ==
  ASSUME IndInv, NEW h \in Handlers, Forget(h)
  PROVE  IndInv'
  <1> USE CapabilitiesAssumption DEF IndInv, TypeOK,
        Forget, NoRedemption, taskVars, channelVars, tokenVars
  <1>1. RedeemingTypes'
    BY DEF RedeemingTypes, TaskTypes, Places, Results
  <1>2. CallsAccounted'
    BY DEF CallsAccounted, TokenTypes, RedeemingTypes, NoRedemption
  <1>3. /\ TokenTypes' /\ TaskTypes' /\ PeopleTypes' /\ ChannelTypes'
        /\ RowsRelated' /\ TokensAccounted' /\ AwardedOnce' /\ ProofsAccounted'
    BY DEF TokenTypes, TaskTypes, PeopleTypes, ChannelTypes, RowsRelated, TokensAccounted, AwardedOnce, ProofsAccounted
  <1> QED BY <1>1, <1>2, <1>3

LEMMA ExpireInd ==
  ASSUME IndInv, NEW t \in Tokens, Expire(t)
  PROVE  IndInv'
  <1> USE CapabilitiesAssumption DEF IndInv, TypeOK,
        Expire, taskVars, channelVars, tokenVars
  <1>1. TokenTypes'
    BY DEF TokenTypes, RedeemingTypes, CapStates
  <1>2. RowsRelated'
    BY DEF RowsRelated, TokenTypes, TaskTypes, PeopleTypes, ChannelTypes, RedeemingTypes
  <1>3. TokensAccounted'
    BY DEF TokensAccounted, TokenTypes, RedeemingTypes
  <1>4. ProofsAccounted'
    BY DEF ProofsAccounted, TokenTypes, ChannelTypes
  <1>5. CallsAccounted'
    BY DEF CallsAccounted, TokenTypes, RedeemingTypes, NoRedemption
  <1>6. /\ TaskTypes' /\ PeopleTypes' /\ ChannelTypes'
        /\ RedeemingTypes' /\ AwardedOnce'
    BY DEF TaskTypes, PeopleTypes, ChannelTypes, RedeemingTypes, AwardedOnce
  <1> QED BY <1>1, <1>2, <1>3, <1>4, <1>5, <1>6

LEMMA ReminderExpiresInd ==
  ASSUME IndInv, NEW u \in Users, ReminderExpires(u)
  PROVE  IndInv'
  <1> USE CapabilitiesAssumption DEF IndInv, TypeOK,
        ReminderExpires, taskVars, channelVars, tokenVars
  <1>1. TaskTypes'
    BY DEF TaskTypes, Places
  <1>2. RowsRelated'
    BY DEF RowsRelated, TokenTypes, TaskTypes, PeopleTypes, ChannelTypes, RedeemingTypes
  <1>3. /\ TokenTypes' /\ PeopleTypes' /\ ChannelTypes' /\ RedeemingTypes'
        /\ TokensAccounted' /\ AwardedOnce' /\ ProofsAccounted' /\ CallsAccounted'
    BY DEF TokenTypes, PeopleTypes, ChannelTypes, RedeemingTypes, TokensAccounted, AwardedOnce, ProofsAccounted, CallsAccounted
  <1> QED BY <1>1, <1>2, <1>3

(* A write in the app leaves everything alone but the task and its rows.    *)
LEMMA InAppRows ==
  ASSUME IndInv, InApp
  PROVE  /\ TokenTypes' /\ PeopleTypes' /\ ChannelTypes' /\ RedeemingTypes'
         /\ TokensAccounted' /\ ProofsAccounted' /\ CallsAccounted'
         /\ reminder' = reminder => RowsRelated'
  <1> USE CapabilitiesAssumption DEF IndInv, TypeOK, InApp, Edit, channelVars
  <1>1. TokenTypes' /\ ChannelTypes' /\ RedeemingTypes' /\ TokensAccounted'
    BY DEF TokenTypes, ChannelTypes, RedeemingTypes, TokensAccounted
  <1>2. PeopleTypes'
    BY DEF PeopleTypes
  <1>3. ProofsAccounted' /\ CallsAccounted'
    BY DEF ProofsAccounted, CallsAccounted
  <1>4. reminder' = reminder => RowsRelated'
    BY DEF RowsRelated
  <1> QED BY <1>1, <1>2, <1>3, <1>4

LEMMA CompleteInAppInd ==
  ASSUME IndInv, CompleteInApp
  PROVE  IndInv'
  <1> USE CapabilitiesAssumption DEF IndInv, TypeOK
  <1>1. InApp /\ ~task.done /\ Award({"task"}) /\ reminder' = reminder
    BY DEF CompleteInApp
  <1>2. /\ {"task"} \in SUBSET (Days \cup {"task"})
        /\ \A d \in {"task"} : IF d = "task" THEN ~task.done ELSE d \notin logged
    BY <1>1
  <1>3. TaskTypes' /\ AwardedOnce'
    BY <1>1, <1>2, Awarding DEF TaskTypes
  <1> QED BY <1>1, <1>3, InAppRows

LEMMA LogHabitInd ==
  ASSUME IndInv, NEW day \in Days, LogHabit(day)
  PROVE  IndInv'
  <1> USE CapabilitiesAssumption DEF IndInv, TypeOK
  <1>1. InApp /\ day \notin logged /\ Award({day}) /\ reminder' = reminder
    BY DEF LogHabit
  <1>2. /\ {day} \in SUBSET (Days \cup {"task"})
        /\ \A d \in {day} : IF d = "task" THEN ~task.done ELSE d \notin logged
    BY <1>1
  <1>3. TaskTypes' /\ AwardedOnce'
    BY <1>1, <1>2, Awarding DEF TaskTypes
  <1> QED BY <1>1, <1>3, InAppRows

LEMMA UndoHabitInd ==
  ASSUME IndInv, NEW day \in Days, UndoHabit(day)
  PROVE  IndInv'
  <1> USE CapabilitiesAssumption DEF IndInv, TypeOK
  <1>1. /\ InApp /\ day \in logged /\ logged' = logged \ {day}
        /\ undone' = [undone EXCEPT ![day] = @ + 1]
        /\ UNCHANGED <<reminder, task, awards>>
    BY DEF UndoHabit
  <1>2. TaskTypes'
    BY <1>1 DEF TaskTypes
  <1>3. AwardedOnce'
    <2>1. undone'["task"] = undone["task"] /\ day # "task"
      BY <1>1 DEF TaskTypes
    <2>2. ASSUME NEW d \in Days
          PROVE  awards'[d] = undone'[d] + (IF d \in logged' THEN 1 ELSE 0)
      <3>1. /\ awards[d] = undone[d] + (IF d \in logged THEN 1 ELSE 0)
            /\ undone[d] \in Nat
        BY DEF AwardedOnce, TaskTypes
      <3>2. undone'[d] = IF d = day THEN undone[d] + 1 ELSE undone[d]
        BY <1>1 DEF TaskTypes
      <3>3. awards' = awards
        BY <1>1
      <3> QED BY <1>1, <3>1, <3>2, <3>3
    <2> QED BY <1>1, <2>1, <2>2 DEF AwardedOnce
  <1> QED BY <1>1, <1>2, <1>3, InAppRows

LEMMA SetDoneInd ==
  ASSUME IndInv, NEW done \in BOOLEAN, SetDone(done)
  PROVE  IndInv'
  <1> USE CapabilitiesAssumption DEF IndInv, TypeOK
  <1>1. /\ InApp /\ task.done # done /\ task' = [task EXCEPT !.done = done]
        /\ undone' = [undone EXCEPT !["task"] = IF done THEN @ ELSE @ + 1]
        /\ UNCHANGED <<reminder, logged, awards>>
    BY DEF SetDone
  <1>2. TaskTypes'
    BY <1>1 DEF TaskTypes, Places
  <1>3. AwardedOnce'
    <2>1. /\ awards["task"] \in Nat /\ undone["task"] \in Nat /\ task.done \in BOOLEAN
          /\ awards["task"] <= undone["task"] + (IF task.done THEN 1 ELSE 0)
      BY DEF TaskTypes, AwardedOnce
    <2>2. undone'["task"] = (IF done THEN undone["task"] ELSE undone["task"] + 1)
          /\ task'.done = done
      BY <1>1 DEF TaskTypes
    <2>3. \A d \in Days : undone'[d] = undone[d]
      BY <1>1 DEF TaskTypes
    <2>4. awards'["task"] <= undone'["task"] + (IF task'.done THEN 1 ELSE 0)
      BY <1>1, <2>1, <2>2
    <2> QED BY <1>1, <2>3, <2>4 DEF AwardedOnce
  <1> QED BY <1>1, <1>2, <1>3, InAppRows

LEMMA AckInAppInd ==
  ASSUME IndInv, NEW u \in Users, AckInApp(u)
  PROVE  IndInv'
  <1> USE CapabilitiesAssumption DEF IndInv, TypeOK
  <1>1. InApp /\ u \in members /\ Award(Owed(u)) /\ reminder' = Acked(u)
    BY DEF AckInApp
  <1>2. /\ Owed(u) \in SUBSET (Days \cup {"task"})
        /\ \A d \in Owed(u) : IF d = "task" THEN ~task.done ELSE d \notin logged
    BY DEF Owed, Days
  <1>3. reminder' \in [Users -> {"none", "pending", "expired", "acked"}]
    BY <1>1 DEF Acked, TaskTypes
  <1>4. TaskTypes' /\ AwardedOnce'
    BY <1>1, <1>2, <1>3, Awarding DEF TaskTypes
  <1>5. RowsRelated'
    BY <1>1 DEF Acked, InApp, Edit, channelVars, RowsRelated, TaskTypes, PeopleTypes
  <1> QED BY <1>1, <1>4, <1>5, InAppRows

LEMMA MoveTaskInd ==
  ASSUME IndInv, MoveTask
  PROVE  IndInv'
  <1> USE CapabilitiesAssumption DEF IndInv, TypeOK
  <1>1. InApp /\ UNCHANGED <<reminder, logged, awards, undone>>
    BY DEF MoveTask
  <1>2. PICK habit \in HabitKinds :
          task' = [task EXCEPT !.place = CHOOSE p \in Places : p # @, !.habit = habit]
    BY DEF MoveTask
  <1>3. /\ task' \in [habit : BOOLEAN, done : BOOLEAN, place : Places, active : BOOLEAN]
        /\ task'.done = task.done
    BY <1>2 DEF TaskTypes, Places
  <1>4. TaskTypes' /\ AwardedOnce'
    BY <1>1, <1>3 DEF TaskTypes, AwardedOnce
  <1> QED BY <1>1, <1>4, InAppRows

LEMMA SetActivationInd ==
  ASSUME IndInv, SetActivation
  PROVE  IndInv'
  <1> USE CapabilitiesAssumption DEF IndInv, TypeOK,
        SetActivation, Edit, taskVars, channelVars, tokenVars
  <1>1. TaskTypes'
    BY DEF TaskTypes, Places
  <1>2. PeopleTypes'
    BY DEF PeopleTypes
  <1>3. AwardedOnce'
    BY DEF AwardedOnce, TaskTypes
  <1>4. /\ TokenTypes' /\ ChannelTypes' /\ RedeemingTypes' /\ RowsRelated'
        /\ TokensAccounted' /\ ProofsAccounted' /\ CallsAccounted'
    BY DEF TokenTypes, ChannelTypes, RedeemingTypes, RowsRelated, TokensAccounted, ProofsAccounted, CallsAccounted
  <1> QED BY <1>1, <1>2, <1>3, <1>4

LEMMA ChangeMembershipInd ==
  ASSUME IndInv, NEW u \in Users, ChangeMembership(u)
  PROVE  IndInv'
  <1> USE CapabilitiesAssumption DEF IndInv, TypeOK,
        ChangeMembership, Edit, taskVars, channelVars, tokenVars
  <1>1. TaskTypes'
    BY DEF TaskTypes, Places
  <1>2. PeopleTypes'
    BY DEF PeopleTypes
  <1>3. RowsRelated'
    BY DEF RowsRelated, TokenTypes, TaskTypes, PeopleTypes, ChannelTypes, RedeemingTypes
  <1>4. /\ TokenTypes' /\ ChannelTypes' /\ RedeemingTypes' /\ TokensAccounted'
        /\ AwardedOnce' /\ ProofsAccounted' /\ CallsAccounted'
    BY DEF TokenTypes, ChannelTypes, RedeemingTypes, TokensAccounted, AwardedOnce, ProofsAccounted, CallsAccounted
  <1> QED BY <1>1, <1>2, <1>3, <1>4

LEMMA DeleteAccountInd ==
  ASSUME IndInv, NEW u \in Users, DeleteAccount(u)
  PROVE  IndInv'
  <1> USE CapabilitiesAssumption DEF IndInv, TypeOK,
        DeleteAccount, CapsAfterDeletion, NoChannel, Unverified, taskVars, channelVars, tokenVars
  <1>1. TokenTypes'
    BY DEF TokenTypes, RedeemingTypes, CapStates
  <1>2. TaskTypes'
    BY DEF TaskTypes, Places
  <1>3. PeopleTypes'
    BY DEF PeopleTypes
  <1>4. ChannelTypes'
    BY DEF ChannelTypes
  <1>5. RowsRelated'
    BY DEF RowsRelated, TokenTypes, TaskTypes, PeopleTypes, ChannelTypes, RedeemingTypes
  <1>6. TokensAccounted'
    BY DEF TokensAccounted, TokenTypes, RedeemingTypes
  <1>7. ProofsAccounted'
    BY DEF ProofsAccounted, TokenTypes, ChannelTypes
  <1>8. CallsAccounted'
    BY DEF CallsAccounted, TokenTypes, RedeemingTypes, NoRedemption
  <1>9. RedeemingTypes' /\ AwardedOnce'
    BY DEF RedeemingTypes, AwardedOnce
  <1> QED BY <1>1, <1>2, <1>3, <1>4, <1>5, <1>6, <1>7, <1>8, <1>9

LEMMA StepInd == IndInv /\ [Next]_vars => IndInv'
  <1> SUFFICES ASSUME IndInv, [Next]_vars PROVE IndInv'
    OBVIOUS
  <1>1. ASSUME NEW h \in Handlers, NEW t \in Tokens, NEW via \in Vias, Observe(h, t, via)
        PROVE  IndInv'
    BY <1>1, ObserveInd
  <1>2. ASSUME NEW h \in Handlers,
               Redeem(h) \/ Burn(h) \/ Deny(h) \/ Refuse(h) \/ Fail(h) \/ Forget(h)
        PROVE  IndInv'
    BY <1>2, RedeemInd, BurnInd, DenyInd, RefuseInd, FailInd, ForgetInd
  <1>3. ASSUME NEW t \in Tokens, MintAck(t) \/ Expire(t)
        PROVE  IndInv'
    BY <1>3, MintAckInd, ExpireInd
  <1>4. ASSUME NEW u \in Users, NEW c \in Chats,
               SaveChannel(u, c) \/ \E t \in Tokens : TestChannel(u, c, t)
        PROVE  IndInv'
    BY <1>4, SaveChannelInd, TestChannelInd
  <1>5. ASSUME NEW u \in Users,
               DeleteChannel(u) \/ TestAccepted(u) \/ TestRefused(u) \/ ReminderExpires(u)
                 \/ ChangeMembership(u) \/ DeleteAccount(u) \/ AckInApp(u)
        PROVE  IndInv'
    BY <1>5, DeleteChannelInd, TestAcceptedInd, TestRefusedInd, ReminderExpiresInd,
       ChangeMembershipInd, DeleteAccountInd, AckInAppInd
  <1>6. CASE CompleteInApp \/ MoveTask \/ SetActivation \/ SetDone(TRUE) \/ SetDone(FALSE)
    BY <1>6, CompleteInAppInd, MoveTaskInd, SetActivationInd, SetDoneInd
  <1>8. ASSUME NEW d \in Days, LogHabit(d) \/ UndoHabit(d)
        PROVE  IndInv'
    BY <1>8, LogHabitInd, UndoHabitInd
  <1>7. CASE UNCHANGED vars
    <2> USE <1>7 DEF vars, tokenVars, taskVars, channelVars, IndInv, TypeOK
    <2>1. TypeOK'
      BY DEF TokenTypes, TaskTypes, PeopleTypes, ChannelTypes, RedeemingTypes, RowsRelated
    <2>2. TokensAccounted' /\ AwardedOnce'
      BY DEF TokensAccounted, AwardedOnce
    <2>3. ProofsAccounted' /\ CallsAccounted'
      BY DEF ProofsAccounted, CallsAccounted
    <2> QED BY <2>1, <2>2, <2>3
  <1> QED BY <1>1, <1>2, <1>3, <1>4, <1>5, <1>6, <1>7, <1>8 DEF Next

THEOREM Inductive == Spec => []IndInv
  BY InitInd, StepInd, PTL DEF Spec

(* Every variable keeps its type and no row outlives its account.           *)
THEOREM TypeCorrect == Spec => []TypeOK
  <1>1. IndInv => TypeOK
    BY DEF IndInv
  <1> QED BY <1>1, Inductive, PTL

(* One effect a token, for any number of handlers that race for it.         *)
THEOREM EachTokenOnce == Spec => []SingleUse
  <1>1. IndInv => SingleUse
    BY DEF IndInv, TokensAccounted, SingleUse
  <1> QED BY <1>1, Inductive, PTL

(* One award a completion, for any number of recipients and tokens, however *)
(* often the task is reopened and its days are undone.                      *)
THEOREM EachAwardOnce == Spec => []AwardedOnce
  <1>1. IndInv => AwardedOnce
    BY DEF IndInv
  <1> QED BY <1>1, Inductive, PTL

(* Denials and failures cost no token.                                      *)
THEOREM DenialsCostNothing == Spec => []BurnedOnlyWhereUnbound
  <1>1. IndInv => BurnedOnlyWhereUnbound
    BY DEF IndInv, TokensAccounted, BurnedOnlyWhereUnbound
  <1> QED BY <1>1, Inductive, PTL

(* A channel proved by a button is proved as it is configured now.          *)
THEOREM ProvedAsConfigured == Spec => []AckVerifiedIsCurrent
  <1>1. IndInv => AckVerifiedIsCurrent
    BY DEF IndInv, ProofsAccounted, AckVerifiedIsCurrent
  <1> QED BY <1>1, Inductive, PTL

-----------------------------------------------------------------------------
(* The refinement: redemptions are calls of the promise, and whatever else  *)
(* happens to tokens is a change that the promise allows.                   *)
LEMMA InitPromised == Init => Promised!PromiseInit
  BY DEF Init, Promised!PromiseInit, Promised!NoCall, TokenState, NoRedemption

LEMMA ChangePromised ==
  ASSUME IndInv, NEW Minted \in SUBSET Tokens, NEW Lost \in SUBSET Tokens,
         UNCHANGED <<redeeming, redeemed>>,
         \A t \in Tokens :
           \/ t \in Minted /\ cap[t] = "unminted" /\ cap'[t] = "live"
           \/ t \in Lost /\ cap[t] # "unminted" /\ cap'[t] = "gone"
           \/ t \notin Minted /\ t \notin Lost /\ cap'[t] = cap[t]
  PROVE  Promised!Change
  <1> DEFINE state == [t \in Tokens |-> TokenState(t)]
             change == [t \in Tokens |->
               IF t \in Minted /\ state[t] = "unminted" THEN "valid"
               ELSE IF t \in Lost /\ state[t] = "valid" THEN "void" ELSE state[t]]
  <1>1. ASSUME NEW t \in Tokens PROVE TokenState(t)' = change[t]
    BY DEF TokenState, IndInv, TypeOK, TokenTypes, CapStates, TokensAccounted
  <1>2. state' = change
    BY <1>1
  <1> QED BY <1>2 DEF Promised!Change

(* The same call, for the handlers that an action leaves alone.             *)
LEMMA Quiet ==
  ASSUME UNCHANGED <<cap, redeemed, redeeming>>
  PROVE  UNCHANGED Promised!promiseVars
  BY DEF Promised!promiseVars, TokenState

LEMMA MintingPromised ==
  ASSUME IndInv, NEW t \in Tokens, MintAck(t) \/ Expire(t)
  PROVE  Promised!Change
  <1>1. CASE MintAck(t)
    <2>1. /\ UNCHANGED <<redeeming, redeemed>>
          /\ cap[t] = "unminted" /\ cap' = [cap EXCEPT ![t] = "live"]
      BY <1>1 DEF MintAck, Mintable
    <2> QED BY <2>1, ChangePromised, {t} \in SUBSET Tokens, {} \in SUBSET Tokens
            DEF IndInv, TypeOK, TokenTypes
  <1>2. CASE Expire(t)
    <2>1. /\ UNCHANGED <<redeeming, redeemed>>
          /\ cap[t] = "live" /\ cap' = [cap EXCEPT ![t] = "gone"]
      BY <1>2 DEF Expire, channelVars, taskVars
    <2> QED BY <2>1, ChangePromised, {t} \in SUBSET Tokens, {} \in SUBSET Tokens
            DEF IndInv, TypeOK, TokenTypes
  <1> QED BY <1>1, <1>2

LEMMA SavingPromised ==
  ASSUME IndInv, NEW u \in Users, NEW c \in Chats,
         SaveChannel(u, c) \/ (\E t \in Tokens : TestChannel(u, c, t))
  PROVE  Promised!Change
  <1> USE CapabilitiesAssumption
  <1> DEFINE Lost == IF channel[u].chat # c THEN Outstanding(u) ELSE {}
  <1>1. Lost \in SUBSET Tokens /\ \A t \in Lost : cap[t] = "live"
    BY DEF Outstanding
  <1>2. \A t \in Tokens : CapsAfterSave(u, c)[t] = IF t \in Lost THEN "gone" ELSE cap[t]
    BY DEF CapsAfterSave
  <1> HIDE DEF Lost
  <1>3. CASE SaveChannel(u, c)
    <2>1. UNCHANGED <<redeeming, redeemed>> /\ cap' = CapsAfterSave(u, c)
      BY <1>3 DEF SaveChannel, taskVars
    <2> QED BY <1>1, <1>2, <2>1, ChangePromised, {} \in SUBSET Tokens
  <1>4. ASSUME NEW t \in Tokens, TestChannel(u, c, t) PROVE Promised!Change
    <2>1. /\ UNCHANGED <<redeeming, redeemed>> /\ cap[t] = "unminted"
          /\ cap' = [CapsAfterSave(u, c) EXCEPT ![t] = "live"]
      BY <1>4 DEF TestChannel, Mintable, taskVars
    <2>2. \A s \in Tokens : cap'[s] = IF s = t THEN "live" ELSE IF s \in Lost THEN "gone" ELSE cap[s]
      BY <1>2, <2>1 DEF CapsAfterSave
    <2>3. \A s \in Tokens :
            \/ s \in {t} /\ cap[s] = "unminted" /\ cap'[s] = "live"
            \/ s \in Lost /\ cap[s] # "unminted" /\ cap'[s] = "gone"
            \/ s \notin {t} /\ s \notin Lost /\ cap'[s] = cap[s]
      BY <1>1, <2>1, <2>2
    <2>4. {t} \in SUBSET Tokens
      OBVIOUS
    <2> QED BY <1>1, <2>1, <2>3, <2>4, ChangePromised
  <1> QED BY <1>3, <1>4

LEMMA DeletionPromised ==
  ASSUME IndInv, NEW u \in Users, DeleteAccount(u)
  PROVE  Promised!Change
  <1> DEFINE Lost == {t \in Tokens : To[t] = u /\ cap[t] # "unminted"}
  <1>1. Lost \in SUBSET Tokens /\ {} \in SUBSET Tokens
    OBVIOUS
  <1>2. /\ UNCHANGED <<redeeming, redeemed>>
        /\ \A t \in Tokens : cap'[t] = IF t \in Lost THEN "gone" ELSE cap[t]
    BY DEF DeleteAccount, CapsAfterDeletion
  <1>3. \A t \in Lost : cap[t] # "unminted"
    OBVIOUS
  <1> HIDE DEF Lost
  <1> QED BY <1>1, <1>2, <1>3, ChangePromised

(* How the calls of the promise read in the model.                          *)
LEMMA ObservePromised ==
  ASSUME IndInv, NEW h \in Handlers, NEW t \in Tokens, NEW via \in Vias, Observe(h, t, via)
  PROVE  Promised!Call(h, t)
  <1> USE DEF IndInv, TypeOK
  <1>1. /\ redeeming[h] = NoRedemption
        /\ cap[t] # "unminted"
        /\ UNCHANGED <<cap, redeemed>>
    BY DEF Observe, tokenVars, CallsAccounted, NoRedemption, TokenTypes
  <1>2. \A g \in Handlers : /\ redeeming'[g].token = IF g = h THEN t ELSE redeeming[g].token
                            /\ redeeming'[g].result = redeeming[g].result
    BY <1>1 DEF Observe, RedeemingTypes, NoRedemption
  <1>3. TokenState(t) # "unminted"
    BY <1>1 DEF TokenState, TokenTypes, CapStates
  <1>4. UNCHANGED [s \in Tokens |-> TokenState(s)]
    BY <1>1 DEF TokenState
  <1>5. [g \in Handlers |-> [token |-> redeeming[g].token, result |-> redeeming[g].result]]'
          = [[g \in Handlers |-> [token |-> redeeming[g].token, result |-> redeeming[g].result]]
              EXCEPT ![h].token = t]
    BY <1>2
  <1> QED BY <1>1, <1>3, <1>4, <1>5 DEF Promised!Call, Promised!NoCall, NoRedemption

(* What an answer changes in the call of its handler, and in no other.      *)
LEMMA AnswerPromised ==
  ASSUME IndInv, NEW h \in Handlers, NEW result \in {"redeemed", "rejected", "failed"},
         redeeming[h].step = "observed", Answer(h, result)
  PROVE  /\ redeeming[h].token \in Tokens /\ Promised!Pending(h)
         /\ \E told \in {result, "failed"} :
              [g \in Handlers |-> [token |-> redeeming[g].token, result |-> redeeming[g].result]]'
                = [[g \in Handlers |-> [token |-> redeeming[g].token, result |-> redeeming[g].result]]
                    EXCEPT ![h].result = told]
  <1> USE CapabilitiesAssumption DEF IndInv, TypeOK
  <1>1. redeeming[h].token \in Tokens /\ redeeming[h].result = "none"
    BY DEF CallsAccounted, NoRedemption
  <1>2. Promised!Pending(h)
    BY <1>1 DEF Promised!Pending
  <1>3. PICK told \in {result, "failed"} :
          redeeming' = [redeeming EXCEPT ![h] =
            [step |-> "answered", token |-> redeeming[h].token, binding |-> "fits",
             place |-> "here", result |-> told]]
    BY DEF Answer
  <1>4. \A g \in Handlers : /\ redeeming'[g].token = redeeming[g].token
                            /\ redeeming'[g].result = IF g = h THEN told ELSE redeeming[g].result
    BY <1>3 DEF RedeemingTypes
  <1>5. [g \in Handlers |-> [token |-> redeeming[g].token, result |-> redeeming[g].result]]'
          = [[g \in Handlers |-> [token |-> redeeming[g].token, result |-> redeeming[g].result]]
              EXCEPT ![h].result = told]
    BY <1>4
  <1> QED BY <1>1, <1>2, <1>5

LEMMA RedeemPromised ==
  ASSUME IndInv, NEW h \in Handlers, Redeem(h)
  PROVE  Promised!Effect(h)
  <1> DEFINE t == redeeming[h].token
  <1>1. /\ redeeming[h].step = "observed" /\ Answer(h, "redeemed")
        /\ cap[t] = "live" /\ cap' = [cap EXCEPT ![t] = "consumed"]
        /\ redeemed' = [redeemed EXCEPT ![t] = @ + 1]
    BY DEF Redeem, Consumable
  <1>2. t \in Tokens /\ Promised!Pending(h)
    BY <1>1, AnswerPromised
  <1>3. TokenState(t) = "valid"
    BY <1>1 DEF TokenState
  <1>4. \A s \in Tokens : TokenState(s)' = IF s = t THEN "redeemed" ELSE TokenState(s)
    BY <1>1, <1>2 DEF TokenState, IndInv, TypeOK, TokenTypes, TokensAccounted
  <1>5. [s \in Tokens |-> TokenState(s)]' = [[s \in Tokens |-> TokenState(s)] EXCEPT ![t] = "redeemed"]
    BY <1>4
  <1> QED BY <1>1, <1>2, <1>3, <1>5, AnswerPromised DEF Promised!Effect

LEMMA RejectPromised ==
  ASSUME IndInv, NEW h \in Handlers, Burn(h) \/ Deny(h) \/ Refuse(h) \/ Fail(h)
  PROVE  Promised!NoEffect(h)
  <1> DEFINE t == redeeming[h].token
  <1>1. redeeming[h].step = "observed" /\ (Answer(h, "rejected") \/ Answer(h, "failed"))
    BY DEF Burn, Deny, Refuse, Fail
  <1>2. t \in Tokens /\ Promised!Pending(h)
    BY <1>1, AnswerPromised
  <1>3. \/ \A s \in Tokens : TokenState(s)' = TokenState(s)
        \/ \A s \in Tokens : TokenState(s)' =
             IF s = t THEN IF TokenState(t) = "valid" THEN "void" ELSE TokenState(t)
             ELSE TokenState(s)
    <2>1. CASE Burn(h)
      <3>1. cap[t] = "live" /\ cap' = [cap EXCEPT ![t] = "consumed"] /\ redeemed' = redeemed
        BY <2>1 DEF Burn, Consumable
      <3> QED BY <1>2, <3>1 DEF TokenState, IndInv, TypeOK, TokenTypes, TokensAccounted
    <2>2. CASE Deny(h) \/ Refuse(h) \/ Fail(h)
      <3>1. UNCHANGED <<cap, redeemed>>
        BY <2>2 DEF Deny, AfterDenial, Refuse, Fail, tokenVars
      <3> QED BY <3>1 DEF TokenState
    <2> QED BY <2>1, <2>2
  <1>4. \/ [s \in Tokens |-> TokenState(s)]' = [s \in Tokens |-> TokenState(s)]
        \/ [s \in Tokens |-> TokenState(s)]' =
             [[s \in Tokens |-> TokenState(s)] EXCEPT ![t] = IF @ = "valid" THEN "void" ELSE @]
    BY <1>2, <1>3
  <1> QED BY <1>1, <1>2, <1>4, AnswerPromised DEF Promised!NoEffect

LEMMA ForgetPromised ==
  ASSUME IndInv, NEW h \in Handlers, Forget(h)
  PROVE  Promised!Forget(h)
  <1> USE CapabilitiesAssumption DEF IndInv, TypeOK
  <1>1. redeeming[h].token \in Tokens
    BY DEF Forget, CallsAccounted, NoRedemption
  <1>2. UNCHANGED [s \in Tokens |-> TokenState(s)]
    BY DEF Forget, tokenVars, TokenState
  <1>3. \A g \in Handlers : /\ redeeming'[g].token = IF g = h THEN NoToken ELSE redeeming[g].token
                            /\ redeeming'[g].result = IF g = h THEN "none" ELSE redeeming[g].result
    BY DEF Forget, RedeemingTypes, NoRedemption
  <1>4. [g \in Handlers |-> [token |-> redeeming[g].token, result |-> redeeming[g].result]]'
          = [[g \in Handlers |-> [token |-> redeeming[g].token, result |-> redeeming[g].result]]
              EXCEPT ![h] = Promised!NoCall]
    BY <1>3 DEF Promised!NoCall
  <1> QED BY <1>1, <1>2, <1>4 DEF Promised!Forget, Promised!NoCall

LEMMA StepPromised ==
  ASSUME IndInv, [Next]_vars
  PROVE  [Promised!PromiseNext]_(Promised!promiseVars)
  <1> USE DEF Promised!PromiseNext
  <1>1. ASSUME NEW h \in Handlers, NEW t \in Tokens, NEW via \in Vias, Observe(h, t, via)
        PROVE  Promised!PromiseNext
    BY <1>1, ObservePromised
  <1>2. ASSUME NEW h \in Handlers,
               Redeem(h) \/ Burn(h) \/ Deny(h) \/ Refuse(h) \/ Fail(h) \/ Forget(h)
        PROVE  Promised!PromiseNext
    BY <1>2, RedeemPromised, RejectPromised, ForgetPromised
  <1>3. ASSUME NEW t \in Tokens, MintAck(t) \/ Expire(t)
        PROVE  Promised!PromiseNext
    BY <1>3, MintingPromised
  <1>4. ASSUME NEW u \in Users, NEW c \in Chats,
               SaveChannel(u, c) \/ \E t \in Tokens : TestChannel(u, c, t)
        PROVE  Promised!PromiseNext
    BY <1>4, SavingPromised
  <1>5. ASSUME NEW u \in Users, DeleteAccount(u) PROVE Promised!PromiseNext
    BY <1>5, DeletionPromised
  <1>6. ASSUME NEW u \in Users,
               DeleteChannel(u) \/ TestAccepted(u) \/ TestRefused(u) \/ ReminderExpires(u)
                 \/ ChangeMembership(u) \/ AckInApp(u)
        PROVE  UNCHANGED Promised!promiseVars
    BY <1>6, Quiet DEF DeleteChannel, TestAccepted, TestRefused, ReminderExpires,
       ChangeMembership, AckInApp, InApp, Edit, tokenVars
  <1>7. CASE CompleteInApp \/ MoveTask \/ SetActivation \/ UNCHANGED vars
    BY <1>7, Quiet DEF CompleteInApp, MoveTask, SetActivation, InApp, Edit, vars, tokenVars
  <1>8. CASE SetDone(TRUE) \/ SetDone(FALSE) \/ \E d \in Days : LogHabit(d) \/ UndoHabit(d)
    BY <1>8, Quiet DEF SetDone, LogHabit, UndoHabit, InApp, Edit
  <1> QED BY <1>1, <1>2, <1>3, <1>4, <1>5, <1>6, <1>7, <1>8 DEF Next

(* The listeners may rely on the promise: Capabilities implements it.       *)
THEOREM CapabilitiesKeepThePromise == Spec => ImplementsRedemption
  BY InitPromised, StepPromised, Inductive, PTL
     DEF Spec, ImplementsRedemption, Promised!Promise

===========================================
