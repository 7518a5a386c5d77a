------------------------- MODULE EntitlementsProofs -------------------------
(* What the platform grants, for every set of tenants, plans, features and
   users and every number of requests in flight.

   Entitlements: it implements SubscriptionLife; the features switched on for
   a running subscription are those of its plan; the plan is there.
   FeatureAccess: what a request was let through for was enabled.
   Accounts: a sign-up leaves a tenant, its owner and its subscription.   *)
EXTENDS Accounts, FeatureAccess, Entitlements, TLAPS

CallStates ==
    [pc : {"idle", "admit", "limits", "copy", "subscribe", "find", "next",
           "delete", "due", "paid", "manual"},
     plan : Catalogue \cup {NoPlanYet}, feats : SUBSET Features,
     at : Subscribers \cup {NoPlanYet}, left : SUBSET Subscribers,
     off : SUBSET Features, on : SUBSET Features, status : SubStatuses,
     free : BOOLEAN]

SubStates == [status : SubStatuses, plan : Catalogue \cup {NoPlanYet},
              isPaid : BOOLEAN]

\* The part of EntTypeOK on which the subscriptions depend.
Typed ==
    /\ features \in [Catalogue -> (SUBSET Features) \cup {NoPlanYet}]
    /\ sub \in [Subscribers -> SubStates]
    /\ call \in [Calls -> CallStates]

\* The statuses with which a subscription may begin, to a plan that is free or
\* not.
StartsWith(free) == {"TRIAL", IF free THEN "PAID" ELSE "ACTIVE"}

\* What a request brings to the write of a subscription: an assignment carries
\* the plan and a status it may begin with, a sync carries no status, and the
\* subscriptions that are about to fall due or be paid have begun.
CallOK(c) ==
    /\ call[c].pc \in {"admit", "limits", "subscribe"} => call[c].status # "none"
    /\ call[c].pc \in {"admit", "limits", "copy", "subscribe"} /\ call[c].status # "none" =>
          /\ call[c].at \in Subscribers
          /\ call[c].plan \in Catalogue
          /\ call[c].status \in StartsWith(call[c].free)
    /\ call[c].pc \in {"find", "next"} => call[c].status = "none"
    /\ call[c].pc = "due" =>
          \A t \in call[c].left : sub[t].status \in {"ACTIVE", "DUE"}
    /\ call[c].pc = "paid" =>
          call[c].at \in Subscribers /\ sub[call[c].at].status # "none"

LifeInv ==
    /\ Typed
    /\ \A t \in Subscribers : sub[t].status = "none" => sub[t] = NoSub
    /\ \A c \in Calls : CallOK(c)
-----------------------------------------------------------------------------
(* Types *)

LEMMA FeaturesTyped ==
    ASSUME Typed, EntNext
    PROVE  features' \in [Catalogue -> (SUBSET Features) \cup {NoPlanYet}]
<1>1. ASSUME NEW c \in Calls, NEW p \in Catalogue, NEW feats \in SUBSET Features,
             UpdatePlan(c, p, feats)
      PROVE  features' \in [Catalogue -> (SUBSET Features) \cup {NoPlanYet}]
  BY <1>1 DEF Typed, UpdatePlan
<1>2. ASSUME NEW c \in Calls, DeletePlan(c)
      PROVE  features' \in [Catalogue -> (SUBSET Features) \cup {NoPlanYet}]
  BY <1>2 DEF Typed, DeletePlan
<1>3. ASSUME UNCHANGED features
      PROVE  features' \in [Catalogue -> (SUBSET Features) \cup {NoPlanYet}]
  BY <1>3 DEF Typed
<1>4. ASSUME NEW c \in Calls, NEW t \in Subscribers, NEW p \in Catalogue,
             NEW trial \in BOOLEAN, NEW free \in BOOLEAN,
             AssignPlanToTenant(c, t, p, trial, free)
      PROVE  UNCHANGED features
  BY <1>4 DEF AssignPlanToTenant
<1>5. PICK c \in Calls : EntStart(c) \/ EntContinue(c) \/ LoseCall(c)
  BY DEF EntNext
<1>6. CASE EntStart(c)
  BY <1>1, <1>3, <1>4, <1>6
     DEF EntStart, RemovePlan, UpdateTenantFeatures, MarkSubscriptionPaid,
         GetSubscriptionsDue
<1>7. CASE EntContinue(c)
  BY <1>2, <1>3, <1>7
     DEF EntContinue, Admit, UpdateTenant, CopyFeature, FeaturesCopied, Subscribe,
         FindSubscribers, NextSubscriber, WriteTenantFeatures, SaveDue, SavePaid
<1>8. CASE LoseCall(c)
  BY <1>3, <1>8 DEF LoseCall
<1>. QED  BY <1>5, <1>6, <1>7, <1>8

\* A step gives the slot of the request that takes it a state, and leaves the
\* other slots alone.
LEMMA CallTyped ==
    ASSUME Typed, NEW c \in Calls,
           EntStart(c) \/ EntContinue(c) \/ LoseCall(c)
    PROVE  call' \in [Calls -> CallStates]
<1> DEFINE Goal == call' \in [Calls -> CallStates]
<1>t. call \in [Calls -> CallStates] /\ call[c] \in CallStates
  BY DEF Typed
<1>e. ASSUME EndCall(c) PROVE Goal
  <2>1. NoCall \in CallStates
    BY DEF NoCall, CallStates, SubStatuses
  <2>. QED  BY <1>t, <1>e, <2>1 DEF EndCall
<1>p. ASSUME NEW pc \in {"next", "copy", "limits", "subscribe"},
             call' = [call EXCEPT ![c].pc = pc]
      PROVE  Goal
  BY <1>t, <1>p DEF CallStates
<1>l. ASSUME NEW t \in call[c].left, call' = [call EXCEPT ![c].left = @ \ {t}]
      PROVE  Goal
  BY <1>t, <1>l DEF CallStates
<1>1. ASSUME NEW t \in Subscribers, NEW p \in Catalogue, NEW trial \in BOOLEAN,
             NEW free \in BOOLEAN, AssignPlanToTenant(c, t, p, trial, free)
      PROVE  Goal
  <2> DEFINE s == IF trial THEN "TRIAL" ELSE IF free THEN "PAID" ELSE "ACTIVE"
  <2>1. features[p] \in SUBSET Features
    BY <1>1 DEF Typed, AssignPlanToTenant
  <2>2. s \in SubStatuses
    BY DEF SubStatuses
  <2>3. call' = [call EXCEPT ![c] =
                   [NoCall EXCEPT !.pc = "admit", !.plan = p, !.feats = features[p],
                                  !.at = t, !.free = free, !.status = s]]
    BY <1>1 DEF AssignPlanToTenant
  <2>. HIDE DEF s
  <2>. QED  BY <1>t, <2>1, <2>2, <2>3 DEF NoCall, CallStates
<1>2. ASSUME NEW p \in Catalogue, NEW feats \in SUBSET Features,
             UpdatePlan(c, p, feats)
      PROVE  Goal
  BY <1>t, <1>2 DEF UpdatePlan, NoCall, CallStates, SubStatuses
<1>3. ASSUME NEW p \in Catalogue, RemovePlan(c, p) PROVE Goal
  BY <1>t, <1>3 DEF RemovePlan, NoCall, CallStates, SubStatuses
<1>4. ASSUME NEW t \in Subscribers, NEW f \in Features, UpdateTenantFeatures(c, t, f)
      PROVE  Goal
  BY <1>t, <1>4 DEF UpdateTenantFeatures, NoCall, CallStates, SubStatuses
<1>5. ASSUME NEW t \in Subscribers, MarkSubscriptionPaid(c, t) PROVE Goal
  BY <1>t, <1>5 DEF MarkSubscriptionPaid, NoCall, CallStates, SubStatuses
<1>6. ASSUME NEW late \in SUBSET Subscribers, GetSubscriptionsDue(c, late)
      PROVE  Goal
  BY <1>t, <1>6 DEF GetSubscriptionsDue, NoCall, CallStates, SubStatuses
<1>7. ASSUME Admit(c) PROVE Goal
  BY <1>e, <1>p, <1>7 DEF Admit
<1>8. ASSUME UpdateTenant(c) PROVE Goal
  BY <1>t, <1>8 DEF UpdateTenant, CallStates
<1>9. ASSUME CopyFeature(c) PROVE Goal
  <2>1. PICK f \in Features : \/ call' = [call EXCEPT ![c].off = @ \ {f}]
                             \/ call' = [call EXCEPT ![c].on = @ \ {f}]
    BY <1>9 DEF CopyFeature, SetTenantFeature
  <2>2. /\ call[c].off \ {f} \in SUBSET Features
        /\ call[c].on \ {f} \in SUBSET Features
    BY <1>t DEF CallStates
  <2>. QED  BY <1>t, <2>1, <2>2 DEF CallStates
<1>10. ASSUME FeaturesCopied(c) PROVE Goal
  BY <1>t, <1>10 DEF FeaturesCopied, CallStates
<1>11. ASSUME FindSubscribers(c) PROVE Goal
  BY <1>t, <1>11 DEF FindSubscribers, SubscribersOf, CallStates
<1>12. ASSUME NextSubscriber(c) PROVE Goal
  <2>1. CASE call[c].left = {}
    BY <1>e, <1>12, <2>1 DEF NextSubscriber
  <2>2. CASE call[c].left # {}
    <3>1. PICK t \in call[c].left :
             call' = [call EXCEPT ![c].pc = "copy", ![c].at = t,
                                  ![c].left = @ \ {t}, ![c].off = Features,
                                  ![c].on = call[c].feats]
      BY <1>12, <2>2 DEF NextSubscriber
    <3>2. /\ t \in Subscribers /\ call[c].left \ {t} \in SUBSET Subscribers
          /\ Features \in SUBSET Features /\ call[c].feats \in SUBSET Features
      BY <1>t DEF CallStates
    <3>. QED  BY <1>t, <3>1, <3>2 DEF CallStates
  <2>. QED  BY <2>1, <2>2
<1>13. ASSUME SaveDue(c) PROVE Goal
  BY <1>e, <1>l, <1>13 DEF SaveDue
<1>. QED  BY <1>e, <1>1, <1>2, <1>3, <1>4, <1>5, <1>6, <1>7, <1>8, <1>9, <1>10,
             <1>11, <1>12, <1>13
          DEF EntStart, EntContinue, LoseCall, Subscribe, DeletePlan,
              WriteTenantFeatures, SavePaid
-----------------------------------------------------------------------------
(* A step writes subscriptions in three actions only; what it does there is
   said once, and every other fact is about the request that takes it.      *)

\* A subscription once begun stays so, and one that fell due stays due.
SubsGoOn ==
    \A t \in Subscribers :
        /\ sub[t].status # "none" => sub'[t].status # "none"
        /\ sub[t].status \in {"ACTIVE", "DUE"} => sub'[t].status \in {"ACTIVE", "DUE"}

LEMMA SubsStep ==
    ASSUME LifeInv, EntNext
    PROVE  /\ SubsGoOn
           /\ sub' \in [Subscribers -> SubStates]
           /\ \A t \in Subscribers : sub'[t].status = "none" => sub'[t] = NoSub
           /\ [Life!Next]_sub
<1>t. /\ Typed /\ sub \in [Subscribers -> SubStates]
      /\ \A t \in Subscribers : sub[t].status = "none" => sub[t] = NoSub
      /\ \A c \in Calls : CallOK(c)
  BY DEF LifeInv, Typed
<1> DEFINE Goal == /\ SubsGoOn
                   /\ sub' \in [Subscribers -> SubStates]
                   /\ \A t \in Subscribers : sub'[t].status = "none" => sub'[t] = NoSub
                   /\ [Life!Next]_sub
<1>1. ASSUME UNCHANGED sub PROVE Goal
  BY <1>t, <1>1 DEF SubsGoOn
<1>2. ASSUME NEW c \in Calls, Subscribe(c) PROVE Goal
  <2> DEFINE t == call[c].at
             s == call[c].status
             p == call[c].plan
             free == call[c].free
  <2>1. CASE ~MayInsert(t)
    BY <1>1, <1>2, <2>1 DEF Subscribe
  <2>2. CASE MayInsert(t)
    <3>1. t \in Subscribers /\ p \in Catalogue /\ s \in StartsWith(free)
          /\ free \in BOOLEAN
      <4>1. call[c] \in CallStates /\ call[c].pc = "subscribe" /\ CallOK(c)
        BY <1>t, <1>2 DEF Subscribe, Typed
      <4>. QED  BY <4>1 DEF CallOK, CallStates
    <3>2. sub' = [sub EXCEPT ![t] = [status |-> s, plan |-> p, isPaid |-> free]]
      BY <1>2, <2>2 DEF Subscribe
    <3>3. sub[t] = Life!Unsubscribed
      BY <1>t, <2>2, <3>1 DEF MayInsert, NoSub, Life!Unsubscribed
    <3>4. Life!Begin(t, p, s, free)
      BY <3>1, <3>2, <3>3 DEF Life!Begin, StartsWith
    <3>5. s \in {"TRIAL", "PAID", "ACTIVE"}
      BY <3>1 DEF StartsWith
    <3>6. Life!Next
      BY <3>1, <3>4, <3>5 DEF Life!Next
    <3>7. SubsGoOn
      BY <1>t, <3>1, <3>2, <2>2 DEF SubsGoOn, MayInsert, SubStates
    <3>8. \A u \in Subscribers : sub'[u].status = "none" => sub'[u] = NoSub
      BY <1>t, <3>2, <3>5 DEF SubStates
    <3>9. [status |-> s, plan |-> p, isPaid |-> free] \in SubStates
      BY <3>1, <3>5 DEF SubStates, SubStatuses
    <3>10. sub' \in [Subscribers -> SubStates]
      BY <1>t, <3>2, <3>9
    <3>. QED  BY <3>6, <3>7, <3>8, <3>10
  <2>. QED  BY <2>1, <2>2
<1>3. ASSUME NEW c \in Calls, SaveDue(c) PROVE Goal
  <2>1. CASE call[c].left = {}
    BY <1>1, <1>3, <2>1 DEF SaveDue
  <2>2. CASE call[c].left # {}
    <3>1. PICK t \in call[c].left : sub' = [sub EXCEPT ![t].status = "DUE"]
      BY <1>3, <2>2 DEF SaveDue
    <3>2. t \in Subscribers /\ sub[t].status \in {"ACTIVE", "DUE"}
      BY <1>t, <1>3 DEF SaveDue, CallOK, Typed, CallStates
    <3>3. CASE sub[t].status = "ACTIVE"
      <4>1. Life!Next
        BY <3>1, <3>2, <3>3 DEF Life!Next, Life!FallDue
      <4>2. \A u \in Subscribers :
               sub'[u].status = IF u = t THEN "DUE" ELSE sub[u].status
        BY <1>t, <3>1, <3>2 DEF SubStates
      <4>3. \A u \in Subscribers : sub'[u].status = "none" => sub'[u] = NoSub
        BY <1>t, <3>1, <4>2 DEF SubStates
      <4>4. sub' \in [Subscribers -> SubStates]
        BY <1>t, <3>1 DEF SubStates, SubStatuses
      <4>. QED  BY <3>2, <4>1, <4>2, <4>3, <4>4 DEF SubsGoOn
    <3>4. CASE sub[t].status = "DUE"
      <4>1. sub' = sub
        BY <1>t, <3>1, <3>2, <3>4 DEF SubStates
      <4>. QED  BY <1>1, <4>1
    <3>. QED  BY <3>2, <3>3, <3>4
  <2>. QED  BY <2>1, <2>2
<1>4. ASSUME NEW c \in Calls, SavePaid(c) PROVE Goal
  <2> DEFINE t == call[c].at
  <2>1. t \in Subscribers /\ sub[t].status # "none"
    BY <1>t, <1>4 DEF SavePaid, CallOK
  <2>2. sub' = [sub EXCEPT ![t].isPaid = TRUE]
    BY <1>4 DEF SavePaid
  <2>3. Life!Next
    BY <2>1, <2>2 DEF Life!Next, Life!Pay
  <2>4. \A u \in Subscribers : sub'[u].status = sub[u].status
    BY <1>t, <2>1, <2>2 DEF SubStates
  <2>5. \A u \in Subscribers : sub'[u].status = "none" => sub'[u] = NoSub
    BY <1>t, <2>1, <2>2, <2>4 DEF SubStates
  <2>6. sub' \in [Subscribers -> SubStates]
    BY <1>t, <2>2 DEF SubStates
  <2>. QED  BY <2>3, <2>4, <2>5, <2>6 DEF SubsGoOn
<1>5. ASSUME NEW c \in Calls, NEW t \in Subscribers, NEW p \in Catalogue,
             NEW trial \in BOOLEAN, NEW free \in BOOLEAN,
             AssignPlanToTenant(c, t, p, trial, free)
      PROVE  UNCHANGED sub
  BY <1>5 DEF AssignPlanToTenant
<1>6. PICK c \in Calls : EntStart(c) \/ EntContinue(c) \/ LoseCall(c)
  BY DEF EntNext
<1>7. CASE EntStart(c)
  BY <1>1, <1>5, <1>7
     DEF EntStart, UpdatePlan, RemovePlan, UpdateTenantFeatures,
         MarkSubscriptionPaid, GetSubscriptionsDue
<1>8. CASE EntContinue(c)
  BY <1>1, <1>2, <1>3, <1>4, <1>8
     DEF EntContinue, Admit, UpdateTenant, CopyFeature, FeaturesCopied,
         FindSubscribers, NextSubscriber, DeletePlan, WriteTenantFeatures
<1>9. CASE LoseCall(c)
  BY <1>1, <1>9 DEF LoseCall
<1>. QED  BY <1>6, <1>7, <1>8, <1>9
-----------------------------------------------------------------------------
(* Requests *)

\* A request that another one overtakes keeps what it brings.
LEMMA CallFrame ==
    ASSUME LifeInv, SubsGoOn, NEW d \in Calls, call'[d] = call[d]
    PROVE  CallOK(d)'
<1>1. CallOK(d) /\ Typed
  BY DEF LifeInv
<1>2. \A t \in call[d].left : t \in Subscribers
  BY <1>1 DEF Typed, CallStates
<1>. QED  BY <1>1, <1>2 DEF CallOK, SubsGoOn, StartsWith

LEMMA CallStep ==
    ASSUME LifeInv, SubsGoOn, NEW c \in Calls,
           EntStart(c) \/ EntContinue(c) \/ LoseCall(c)
    PROVE  CallOK(c)'
<1>t. CallOK(c) /\ call \in [Calls -> CallStates] /\ call[c] \in CallStates
  BY DEF LifeInv, Typed
<1> USE DEF CallStates, CallOK, StartsWith
<1>e. ASSUME EndCall(c) PROVE CallOK(c)'
  BY <1>t, <1>e DEF EndCall, NoCall
<1>1. ASSUME NEW t \in Subscribers, NEW p \in Catalogue, NEW trial \in BOOLEAN,
             NEW free \in BOOLEAN, AssignPlanToTenant(c, t, p, trial, free)
      PROVE  CallOK(c)'
  BY <1>t, <1>1 DEF AssignPlanToTenant, NoCall
<1>2. ASSUME NEW p \in Catalogue, NEW feats \in SUBSET Features,
             UpdatePlan(c, p, feats)
      PROVE  CallOK(c)'
  BY <1>t, <1>2 DEF UpdatePlan, NoCall
<1>3. ASSUME NEW p \in Catalogue, RemovePlan(c, p) PROVE CallOK(c)'
  BY <1>t, <1>3 DEF RemovePlan, NoCall
<1>4. ASSUME NEW t \in Subscribers, NEW f \in Features, UpdateTenantFeatures(c, t, f)
      PROVE  CallOK(c)'
  BY <1>t, <1>4 DEF UpdateTenantFeatures, NoCall
<1>5. ASSUME NEW t \in Subscribers, MarkSubscriptionPaid(c, t) PROVE CallOK(c)'
  BY <1>t, <1>5 DEF MarkSubscriptionPaid, NoCall
<1>6. ASSUME NEW late \in SUBSET Subscribers, GetSubscriptionsDue(c, late)
      PROVE  CallOK(c)'
  BY <1>t, <1>6 DEF GetSubscriptionsDue, NoCall
<1>7. ASSUME Admit(c) PROVE CallOK(c)'
  <2>1. CASE EndCall(c)
    BY <1>e, <2>1
  <2>2. CASE call' = [call EXCEPT ![c].pc = "limits"]
    BY <1>t, <1>7, <2>2 DEF Admit
  <2>. QED  BY <1>7, <2>1, <2>2 DEF Admit
<1>8. ASSUME UpdateTenant(c) PROVE CallOK(c)'
  BY <1>t, <1>8 DEF UpdateTenant
<1>9. ASSUME CopyFeature(c) PROVE CallOK(c)'
  <2>1. PICK f \in Features : \/ call' = [call EXCEPT ![c].off = @ \ {f}]
                             \/ call' = [call EXCEPT ![c].on = @ \ {f}]
    BY <1>9 DEF CopyFeature, SetTenantFeature
  <2>2. call[c].pc = "copy"
    BY <1>9 DEF CopyFeature
  <2>. QED  BY <1>t, <2>1, <2>2
<1>10. ASSUME FeaturesCopied(c) PROVE CallOK(c)'
  BY <1>t, <1>10 DEF FeaturesCopied
<1>11. ASSUME FindSubscribers(c) PROVE CallOK(c)'
  BY <1>t, <1>11 DEF FindSubscribers
<1>12. ASSUME NextSubscriber(c) PROVE CallOK(c)'
  <2>1. CASE call[c].left = {}
    BY <1>e, <1>12, <2>1 DEF NextSubscriber
  <2>2. CASE call[c].left # {}
    <3>1. PICK t \in call[c].left :
             call' = [call EXCEPT ![c].pc = "copy", ![c].at = t,
                                  ![c].left = @ \ {t}, ![c].off = Features,
                                  ![c].on = call[c].feats]
      BY <1>12, <2>2 DEF NextSubscriber
    <3>2. call[c].status = "none"
      BY <1>t, <1>12 DEF NextSubscriber
    <3>3. call'[c].pc = "copy" /\ call'[c].status = "none"
      BY <1>t, <3>1, <3>2
    <3>. QED  BY <3>3
  <2>. QED  BY <2>1, <2>2
<1>13. ASSUME SaveDue(c) PROVE CallOK(c)'
  <2>1. CASE call[c].left = {}
    BY <1>e, <1>13, <2>1 DEF SaveDue
  <2>2. CASE call[c].left # {}
    <3>1. PICK t \in call[c].left : call' = [call EXCEPT ![c].left = @ \ {t}]
      BY <1>13, <2>2 DEF SaveDue
    <3>2. \A u \in call'[c].left : u \in Subscribers /\ sub'[u].status \in {"ACTIVE", "DUE"}
      BY <1>t, <1>13, <3>1 DEF SubsGoOn, SaveDue
    <3>. QED  BY <1>t, <1>13, <3>1, <3>2 DEF SaveDue
  <2>. QED  BY <2>1, <2>2
<1>. QED  BY <1>e, <1>1, <1>2, <1>3, <1>4, <1>5, <1>6, <1>7, <1>8, <1>9, <1>10,
             <1>11, <1>12, <1>13
          DEF EntStart, EntContinue, LoseCall, Subscribe, DeletePlan,
              WriteTenantFeatures, SavePaid

\* A step changes the slot of the request that takes it only.
LEMMA OtherCalls ==
    ASSUME Typed, NEW c \in Calls, NEW d \in Calls, d # c,
           EntStart(c) \/ EntContinue(c) \/ LoseCall(c)
    PROVE  call'[d] = call[d]
<1>1. ASSUME EndCall(c) PROVE call'[d] = call[d]
  BY <1>1 DEF EndCall, Typed
<1>. QED  BY <1>1 DEF Typed, EntStart, EntContinue, LoseCall, AssignPlanToTenant,
     UpdatePlan, RemovePlan, UpdateTenantFeatures, MarkSubscriptionPaid,
     GetSubscriptionsDue, Admit, UpdateTenant, CopyFeature, SetTenantFeature,
     FeaturesCopied, Subscribe, FindSubscribers, NextSubscriber, DeletePlan,
     WriteTenantFeatures, SaveDue, SavePaid
-----------------------------------------------------------------------------
LEMMA LifeInitInv == EntInit => LifeInv
<1> SUFFICES ASSUME EntInit PROVE LifeInv
  OBVIOUS
<1>1. Typed
  BY DEF EntInit, Typed, SubStates, CallStates, NoSub, NoCall, SubStatuses
<1>. QED  BY <1>1 DEF EntInit, LifeInv, CallOK, NoCall, NoSub

LEMMA LifeStepInv == LifeInv /\ [EntNext]_entVars => LifeInv'
<1> SUFFICES ASSUME LifeInv, [EntNext]_entVars PROVE LifeInv'
  OBVIOUS
<1>1. CASE EntNext
  <2>1. /\ SubsGoOn /\ sub' \in [Subscribers -> SubStates]
        /\ \A t \in Subscribers : sub'[t].status = "none" => sub'[t] = NoSub
    BY <1>1, SubsStep
  <2>2. PICK c \in Calls : EntStart(c) \/ EntContinue(c) \/ LoseCall(c)
    BY <1>1 DEF EntNext
  <2>t. Typed'
    BY <1>1, <2>1, <2>2, FeaturesTyped, CallTyped DEF LifeInv, Typed
  <2>3. ASSUME NEW d \in Calls PROVE CallOK(d)'
    <3>1. CASE d = c
      BY <2>1, <2>2, <3>1, CallStep
    <3>2. CASE d # c
      BY <2>1, <2>2, <3>2, OtherCalls, CallFrame DEF LifeInv
    <3>. QED  BY <3>1, <3>2
  <2>. QED  BY <2>1, <2>t, <2>3 DEF LifeInv, NoSub
<1>2. CASE UNCHANGED entVars
  BY <1>2 DEF entVars, LifeInv, Typed, CallOK
<1>. QED  BY <1>1, <1>2

LEMMA LifeInvHolds == EntSpec => []LifeInv
BY LifeInitInv, LifeStepInv, PTL DEF EntSpec

\* The handlers of PlansService implement SubscriptionLife: whatever requests
\* meet, a tenant's subscription begins once and keeps its plan.
THEOREM SubscriptionTheorem == EntSpec => SubscribedOnce
<1>1. EntInit => Life!Init
  BY DEF EntInit, Life!Init, Life!Unsubscribed, NoSub
<1>2. LifeInv /\ [EntNext]_entVars => [Life!Next]_sub
  <2>1. LifeInv /\ EntNext => [Life!Next]_sub
    BY SubsStep
  <2>2. UNCHANGED entVars => UNCHANGED sub
    BY DEF entVars
  <2>. QED  BY <2>1, <2>2
<1>. QED  BY <1>1, <1>2, LifeInvHolds, PTL DEF EntSpec, SubscribedOnce, Life!Spec

-----------------------------------------------------------------------------
(* Entitlements: what a request that is at work on a tenant still has to do,
   and that a subscription is settled or somebody will still see to it.  *)

\* The tenants that a request in state k concerns (Concerns).
Conc(k) == IF k.pc \in {"due", "paid"} THEN {} ELSE Subscribers \cap ({k.at} \cup k.left)

Assigning(k) == k.pc \in {"admit", "limits", "copy", "subscribe"} /\ k.status # "none"
Syncing(k)   == k.pc \in {"next", "copy"} /\ k.status = "none"

\* The flags F on the way to those of a plan with these features: what is
\* neither to be switched on, nor to be switched off for good, is as it should.
CopyOK(k, F, target) ==
    /\ k.on \subseteq target
    /\ \A f \in Features : \/ f \in k.on
                           \/ f \in k.off /\ f \notin target
                           \/ f \notin k.off /\ F[f] = IF f \in target THEN "on" ELSE "off"

\* Request k alone is at work on tenant t, whose flags and subscription are F
\* and s; target are the features of its plan, which may be gone.
Work(k, t, target, F, s, gone) ==
    /\ k.pc # "manual"
    /\ Assigning(k) =>
          /\ k.pc \in {"admit", "limits"} => gone \/ target = k.feats
          /\ k.pc # "admit" => s.status \notin Running
          /\ k.pc = "copy" => gone \/ CopyOK(k, F, target)
          /\ k.pc = "subscribe" => gone \/ F = Copied(target)
    /\ Syncing(k) =>
          /\ s.plan = k.plan /\ s.status # "none"
          /\ gone \/ target = k.feats
          /\ k.pc = "copy" /\ k.at = t => gone \/ CopyOK(k, F, target)

CallShape(k) ==
    /\ k.pc \in {"idle", "find", "delete", "next"} => k.at = NoPlanYet
    /\ k.pc \in {"idle", "find", "delete", "manual"} \/ Assigning(k) => k.left = {}
    /\ k.pc \in {"copy", "manual"} => k.at \in Subscribers
    /\ k.pc \in {"find", "next", "copy", "delete"} \/ Assigning(k) => k.plan \in Catalogue
    /\ k.pc \in {"admit", "limits", "subscribe"} => k.status # "none"
    /\ k.pc \in {"find", "next"} => k.status = "none"

\* A plan that is being assigned or deleted.
PlanOK(k) ==
    /\ Assigning(k) => k.plan \in dropped \/ features[k.plan] # NoPlanYet
    /\ k.pc = "delete" => k.plan \in dropped \/ \A t \in Subscribers : sub[t].plan # k.plan

\* A running subscription is settled, or somebody will see to it.
Settled(t) ==
    t \notin touched /\ sub[t].status \in Running =>
        \/ sub[t].plan \in dropped
        \/ \E c \in Calls : call[c].pc = "find" /\ call[c].plan = sub[t].plan
        \/ \E c \in Calls : call[c].pc # "admit" /\ t \in Conc(call[c])
        \/ flags[t] = Copied(features[sub[t].plan])

EntInv ==
    /\ LifeInv
    /\ flags \in [Subscribers -> [Features -> {"unset", "on", "off"}]]
    /\ touched \subseteq Subscribers /\ dropped \subseteq Catalogue
    /\ \A c \in Calls : CallShape(call[c]) /\ PlanOK(call[c])
    /\ \A t \in Subscribers :
          /\ sub[t].status # "none" => sub[t].plan # NoPlanYet
          /\ sub[t].plan # NoPlanYet =>
                sub[t].plan \in dropped \/ features[sub[t].plan] # NoPlanYet
    /\ \A c, d \in Calls : \A t \in Subscribers \ touched :
          t \in Conc(call[c]) /\ t \in Conc(call[d]) => c = d
    /\ \A c \in Calls : \A t \in Subscribers \ touched : t \in Conc(call[c]) =>
          Work(call[c], t, features[call[c].plan], flags[t], sub[t],
               call[c].plan \in dropped)
    /\ \A t \in Subscribers : Settled(t)
-----------------------------------------------------------------------------
\* What a subscription may do behind the back of the request at work on it.
SubKept(t) ==
    /\ sub'[t].plan = sub[t].plan
    /\ sub[t].status # "none" <=> sub'[t].status # "none"
    /\ sub'[t].status \in Running => sub[t].status \in Running

\* One request goes from k to u; the conditions are about the tenants it was
\* at work on, and those it turns to.
Turn(c, k, u) ==
    /\ k = call[c] /\ call' = [call EXCEPT ![c] = u]
    /\ flags' \in [Subscribers -> [Features -> {"unset", "on", "off"}]]
    /\ touched \subseteq touched' /\ touched' \subseteq Subscribers
    /\ dropped \subseteq dropped' /\ dropped' \subseteq Catalogue
    /\ CallShape(u)
    /\ Assigning(u) => u.plan \in dropped' \/ features'[u.plan] # NoPlanYet
    /\ u.pc = "delete" => u.plan \in dropped' \/ \A t \in Subscribers : sub'[t].plan # u.plan
    /\ \A t \in Subscribers : sub'[t].status # "none" => sub'[t].plan # NoPlanYet

\* What happens to a plan p.
PlanTurn(c, u, p) ==
    \/ p \in dropped' \/ features'[p] = features[p]
    \/ /\ u.pc = "find" /\ u.plan = p /\ features'[p] # NoPlanYet
       /\ \A d \in Calls, t \in Subscribers :
             call[d].plan = p /\ t \in Conc(call[d]) => t \in touched'
    \/ /\ \A d \in Calls : d # c => call[d].plan # p
       /\ \A t \in Subscribers : sub'[t].plan # p

\* What happens to a tenant t.
TenantTurn(k, t) ==
    /\ \/ k.pc # "admit" /\ t \in Conc(k)
       \/ flags'[t] = flags[t] /\ SubKept(t)
    /\ \/ sub'[t].plan = sub[t].plan
       \/ /\ Assigning(k) /\ sub'[t].plan = k.plan
          /\ \A d \in Calls : call[d].pc = "delete" /\ call[d].plan = k.plan =>
                k.plan \in dropped'

LEMMA OneCall ==
    ASSUME EntInv, LifeInv', NEW c \in Calls, NEW k \in CallStates, NEW u \in CallStates,
           Turn(c, k, u),
           \A p \in Catalogue : PlanTurn(c, u, p),
           \A t \in Subscribers : TenantTurn(k, t),
           \A t \in Subscribers \ touched' : t \in Conc(u) =>
              /\ Work(u, t, features'[u.plan], flags'[t], sub'[t],
                      u.plan \in dropped')
              /\ t \in Conc(k) \/ \A d \in Calls : d # c => t \notin Conc(call[d]),
           \A t \in Subscribers \ touched' :
              (k.pc # "admit" /\ t \in Conc(k)) \/ (k.pc = "find" /\ k.plan = sub[t].plan) =>
                 Settled(t)'
    PROVE  EntInv'
<1> USE DEF Turn, PlanTurn, TenantTurn
<1>1. /\ call' \in [Calls -> CallStates] /\ call'[c] = u
      /\ \A d \in Calls : d # c => call'[d] = call[d]
      /\ sub \in [Subscribers -> SubStates] /\ sub' \in [Subscribers -> SubStates]
  BY DEF EntInv, LifeInv, Typed
<1>2. ASSUME NEW d \in Calls PROVE CallShape(call'[d]) /\ PlanOK(call[d])'
  <2>1. CASE d = c
    <3>1. PlanOK(u)'
      BY DEF PlanOK
    <3>. QED  BY <1>1, <2>1, <3>1 DEF PlanOK
  <2>2. CASE d # c
    <3>1. PICK w \in CallStates : w = call[d] /\ w = call'[d] /\ CallShape(w) /\ PlanOK(w)
      BY <1>1, <2>2 DEF EntInv
    <3>2. Assigning(w) => w.plan \in dropped' \/ features'[w.plan] # NoPlanYet
      BY <2>2, <3>1 DEF CallShape, PlanOK
    <3>3. w.pc = "delete" =>
             w.plan \in dropped' \/ \A t \in Subscribers : sub'[t].plan # w.plan
      BY <3>1 DEF PlanOK
    <3>4. PlanOK(w)'
      BY <3>2, <3>3 DEF PlanOK
    <3>. QED  BY <3>1, <3>4 DEF PlanOK
  <2>. QED  BY <2>1, <2>2
<1>3. ASSUME NEW t \in Subscribers, sub'[t].plan # NoPlanYet
      PROVE  sub'[t].plan \in dropped' \/ features'[sub'[t].plan] # NoPlanYet
  <2>1. sub'[t].plan \in Catalogue
    BY <1>1, <1>3 DEF SubStates
  <2>2. sub'[t].plan \in dropped \/ features[sub'[t].plan] # NoPlanYet
    BY <1>3 DEF EntInv, PlanOK
  <2>. QED  BY <2>1, <2>2
<1>4. ASSUME NEW b \in Calls, NEW d \in Calls, NEW t \in Subscribers \ touched',
             t \in Conc(call'[b]), t \in Conc(call'[d])
      PROVE  b = d
  BY <1>1, <1>4 DEF EntInv
<1>5. ASSUME NEW d \in Calls, NEW t \in Subscribers \ touched', t \in Conc(call'[d])
      PROVE  Work(call'[d], t, features'[call'[d].plan], flags'[t], sub'[t],
                  call'[d].plan \in dropped')
  <2>1. CASE d = c
    BY <1>1, <1>5, <2>1
  <2>2. CASE d # c
    <3>1. PICK w \in CallStates : /\ w = call[d] /\ w = call'[d] /\ CallShape(w)
                                  /\ t \in Conc(w) /\ t \notin touched /\ t \notin Conc(k)
      BY <1>1, <1>5, <2>2 DEF EntInv
    <3>2. Work(w, t, features[w.plan], flags[t], sub[t], w.plan \in dropped)
      <4>1. t \in Subscribers \ touched /\ t \in Conc(call[d])
        BY <3>1
      <4>2. Work(call[d], t, features[call[d].plan], flags[t], sub[t],
                 call[d].plan \in dropped)
        BY <4>1 DEF EntInv
      <4>. QED  BY <3>1, <4>2
    <3>3. flags'[t] = flags[t] /\ SubKept(t)
      BY <3>1
    <3>4. Assigning(w) \/ Syncing(w) => w.plan \in dropped' \/ features'[w.plan] = features[w.plan]
      BY <3>1 DEF CallShape, Syncing
    <3>5. Work(w, t, features'[w.plan], flags'[t], sub'[t], w.plan \in dropped')
      BY <3>2, <3>3, <3>4 DEF Work, SubKept
    <3>. QED  BY <3>1, <3>5
  <2>. QED  BY <2>1, <2>2
<1>6. ASSUME NEW t \in Subscribers PROVE Settled(t)'
  <2>1. CASE \/ t \in touched'
             \/ k.pc # "admit" /\ t \in Conc(k)
             \/ k.pc = "find" /\ k.plan = sub[t].plan
    BY <2>1 DEF Settled
  <2>2. CASE ~(\/ t \in touched'
               \/ k.pc # "admit" /\ t \in Conc(k)
               \/ k.pc = "find" /\ k.plan = sub[t].plan)
    <3>1. /\ flags'[t] = flags[t] /\ SubKept(t)
          /\ t \notin touched /\ Settled(t)
      BY <2>2 DEF EntInv
    <3> SUFFICES ASSUME sub'[t].status \in Running
                 PROVE  \/ sub'[t].plan \in dropped'
                        \/ \E d \in Calls : call'[d].pc = "find" /\ call'[d].plan = sub'[t].plan
                        \/ \E d \in Calls : call'[d].pc # "admit" /\ t \in Conc(call'[d])
                        \/ flags'[t] = Copied(features'[sub'[t].plan])
      BY DEF Settled
    <3>2. PICK p \in Catalogue : p = sub[t].plan /\ p = sub'[t].plan /\ sub[t].status \in Running
      BY <1>1, <3>1 DEF SubKept, SubStates, Running
    <3>4. CASE p \in dropped
      BY <3>2, <3>4
    <3>5. ASSUME NEW d \in Calls, \/ call[d].pc = "find" /\ call[d].plan = p
                                  \/ call[d].pc # "admit" /\ t \in Conc(call[d])
          PROVE  \/ \E e \in Calls : call'[e].pc = "find" /\ call'[e].plan = sub'[t].plan
                 \/ \E e \in Calls : call'[e].pc # "admit" /\ t \in Conc(call'[e])
      BY <1>1, <2>2, <3>2, <3>5
    <3>6. CASE flags[t] = Copied(features[p])
      BY <1>1, <3>1, <3>2, <3>6
    <3>. QED  BY <3>1, <3>2, <3>4, <3>5, <3>6 DEF Settled
  <2>. QED  BY <2>1, <2>2
<1>. QED  BY <1>2, <1>3, <1>4, <1>5, <1>6 DEF EntInv

-----------------------------------------------------------------------------
(* One lemma for each action. *)

\* A request that goes on from k to u, and writes nothing but what it knows.
QuietTurn(c, k, u) ==
    /\ k = call[c] /\ call' = [call EXCEPT ![c] = u]
    /\ UNCHANGED <<features, flags, sub, dropped>>
    /\ touched \subseteq touched' /\ touched' \subseteq Subscribers
    /\ CallShape(u)
    /\ Assigning(u) => u.plan \in dropped \/ features[u.plan] # NoPlanYet
    /\ u.pc = "delete" => u.plan \in dropped \/ \A t \in Subscribers : sub[t].plan # u.plan

QuietTenant(c, k, u, t) ==
    t \in Conc(u) =>
       /\ Work(u, t, features[u.plan], flags[t], sub[t], u.plan \in dropped)
       /\ t \in Conc(k) \/ \A d \in Calls : d # c => t \notin Conc(call[d])

LEMMA QuietCall ==
    ASSUME EntInv, LifeInv', NEW c \in Calls, NEW k \in CallStates, NEW u \in CallStates,
           QuietTurn(c, k, u),
           \A t \in Subscribers \ touched' : QuietTenant(c, k, u, t),
           \A t \in Subscribers \ touched' :
              (k.pc # "admit" /\ t \in Conc(k)) \/ (k.pc = "find" /\ k.plan = sub[t].plan) =>
                 Settled(t)'
    PROVE  EntInv'
<1> USE DEF QuietTurn
<1>1. Turn(c, k, u)
  BY DEF Turn, EntInv
<1>2. \A p \in Catalogue : PlanTurn(c, u, p)
  BY DEF PlanTurn
<1>3. \A t \in Subscribers : TenantTurn(k, t)
  BY DEF TenantTurn, SubKept
<1>4. \A t \in Subscribers \ touched' : t \in Conc(u) =>
         /\ Work(u, t, features'[u.plan], flags'[t], sub'[t],
                 u.plan \in dropped')
         /\ t \in Conc(k) \/ \A d \in Calls : d # c => t \notin Conc(call[d])
  BY DEF QuietTenant
<1>. QED  BY <1>1, <1>2, <1>3, <1>4, OneCall

\* Who is still being worked on is settled.
LEMMA StillAtWork ==
    ASSUME LifeInv', NEW c \in Calls, NEW u \in CallStates, call' = [call EXCEPT ![c] = u],
           NEW t \in Subscribers, u.pc # "admit", t \in Conc(u)
    PROVE  Settled(t)'
<1>1. call' \in [Calls -> CallStates] /\ call'[c] = u
  BY DEF LifeInv, Typed
<1>. QED  BY <1>1 DEF Settled

LEMMA IdleCall ==
    /\ Conc(NoCall) = {} /\ CallShape(NoCall) /\ NoCall \in CallStates
    /\ ~Assigning(NoCall) /\ NoCall.pc = "idle"
BY EntAssumption DEF Conc, CallShape, NoCall, CallStates, SubStatuses, Assigning

\* What is known of a request, and of the tenants it is at work on.
LEMMA KnownCall ==
    ASSUME EntInv, NEW c \in Calls
    PROVE  /\ call[c] \in CallStates /\ CallShape(call[c]) /\ PlanOK(call[c]) /\ CallOK(c)
           /\ \A t \in Subscribers \ touched : t \in Conc(call[c]) =>
                 /\ Work(call[c], t, features[call[c].plan], flags[t], sub[t],
                         call[c].plan \in dropped)
                 /\ \A d \in Calls : d # c => t \notin Conc(call[d])
           /\ \A d \in Calls : Concerns(d) = Conc(call[d])
           /\ Conc(call[c]) \subseteq Subscribers
BY DEF EntInv, LifeInv, Typed, Concerns, Conc

LEMMA StartAssign ==
    ASSUME EntInv, LifeInv', NEW c \in Calls, NEW t0 \in Subscribers, NEW p \in Catalogue,
           NEW trial \in BOOLEAN, NEW free \in BOOLEAN,
           AssignPlanToTenant(c, t0, p, trial, free)
    PROVE  EntInv'
<1> DEFINE s == IF trial THEN "TRIAL" ELSE IF free THEN "PAID" ELSE "ACTIVE"
<1>1. PICK k \in CallStates : k = call[c] /\ k.pc = "idle" /\ CallShape(k)
  BY KnownCall DEF AssignPlanToTenant
<1>2. PICK u \in CallStates :
         /\ u = [NoCall EXCEPT !.pc = "admit", !.plan = p, !.feats = features[p],
                               !.at = t0, !.free = free, !.status = s]
         /\ call' = [call EXCEPT ![c] = u]
  BY DEF AssignPlanToTenant, LifeInv, Typed, EntInv
<1>3. /\ u.pc = "admit" /\ u.plan = p /\ u.feats = features[p] /\ u.at = t0
      /\ u.left = {} /\ u.status # "none"
  BY <1>2 DEF NoCall
<1>4. CallShape(u) /\ Conc(u) = {t0} /\ Conc(k) = {}
  BY <1>1, <1>3, EntAssumption DEF CallShape, Conc, Assigning
<1>5. /\ UNCHANGED <<features, flags, sub, dropped>> /\ features[p] # NoPlanYet
      /\ touched' = touched \cup ({t0} \cap OthersConcern(c))
  BY DEF AssignPlanToTenant
<1>6. \A t \in Subscribers \ touched' : t \in Conc(u) =>
         \A d \in Calls : d # c => t \notin Conc(call[d])
  BY <1>4, <1>5, KnownCall DEF OthersConcern
<1>7. \A t : Work(u, t, features[u.plan], flags[t], sub[t], u.plan \in dropped)
  BY <1>3 DEF Work, Assigning, Syncing
<1>8. QuietTurn(c, k, u)
  BY <1>1, <1>2, <1>3, <1>4, <1>5 DEF QuietTurn, EntInv
<1>9. \A t \in Subscribers \ touched' : QuietTenant(c, k, u, t)
  BY <1>6, <1>7 DEF QuietTenant
<1>10. \A t \in Subscribers \ touched' :
          (k.pc # "admit" /\ t \in Conc(k)) \/ (k.pc = "find" /\ k.plan = sub[t].plan) =>
             Settled(t)'
  BY <1>1, <1>4
<1>. QED  BY <1>8, <1>9, <1>10, QuietCall

\* A request that ends, having left nobody behind.
LEMMA CallEnds ==
    ASSUME EntInv, LifeInv', NEW c \in Calls, EndCall(c),
           UNCHANGED <<features, flags, sub, dropped>>,
           touched \subseteq touched', touched' \subseteq Subscribers,
           \A t \in Subscribers \ touched' :
              \/ call[c].pc = "admit" \/ t \notin Conc(call[c])
              \/ sub[t].status \notin Running,
           \A t \in Subscribers \ touched' :
              \/ call[c].pc # "find" \/ sub[t].plan # call[c].plan
              \/ sub[t].status \notin Running
    PROVE  EntInv'
<1>1. PICK k \in CallStates : k = call[c]
  BY KnownCall
<1>2. QuietTurn(c, k, NoCall)
  BY <1>1, IdleCall DEF EndCall, QuietTurn
<1>3. \A t \in Subscribers \ touched' : QuietTenant(c, k, NoCall, t)
  BY IdleCall DEF QuietTenant
<1>4. \A t \in Subscribers \ touched' :
         (k.pc # "admit" /\ t \in Conc(k)) \/ (k.pc = "find" /\ k.plan = sub[t].plan) =>
            Settled(t)'
  <2> TAKE t \in Subscribers \ touched'
  <2> HAVE (k.pc # "admit" /\ t \in Conc(k)) \/ (k.pc = "find" /\ k.plan = sub[t].plan)
  <2>1. sub'[t].status \notin Running
    BY <1>1
  <2>. QED  BY <2>1 DEF Settled
<1>. QED  BY <1>2, <1>3, <1>4, IdleCall, QuietCall

LEMMA StepAdmit ==
    ASSUME EntInv, LifeInv', NEW c \in Calls, Admit(c)
    PROVE  EntInv'
<1>1. PICK k \in CallStates : k = call[c] /\ k.pc = "admit" /\ CallShape(k) /\ PlanOK(k)
  BY KnownCall DEF Admit
<1>2. /\ UNCHANGED <<features, flags, sub, dropped>>
      /\ touched \subseteq touched' /\ touched' \subseteq Subscribers
  BY DEF Admit, EntInv
<1>3. CASE sub[k.at].status \in Running
  BY <1>1, <1>2, <1>3, CallEnds DEF Admit
<1>4. CASE sub[k.at].status \notin Running
  <2>1. PICK u \in CallStates : u = [k EXCEPT !.pc = "limits"] /\ call' = [call EXCEPT ![c] = u]
    BY <1>1, <1>4 DEF Admit, LifeInv, Typed, EntInv
  <2>2. /\ u.pc = "limits" /\ u.plan = k.plan /\ u.feats = k.feats /\ u.at = k.at
        /\ u.left = k.left /\ u.status = k.status
    BY <1>1, <2>1 DEF CallStates
  <2>3. CallShape(u) /\ Conc(u) = Conc(k) /\ Assigning(k) /\ k.left = {}
        /\ (Assigning(u) => u.plan \in dropped \/ features[u.plan] # NoPlanYet)
    BY <1>1, <2>2 DEF CallShape, Conc, Assigning, PlanOK
  <2>4. \A t \in Subscribers \ touched' : QuietTenant(c, k, u, t)
    <3> TAKE t \in Subscribers \ touched'
    <3> SUFFICES ASSUME t \in Conc(u) PROVE QuietTenant(c, k, u, t)
      BY DEF QuietTenant
    <3>1. t \in Conc(k) /\ t = k.at /\ t \notin touched
      BY <1>1, <1>2, <2>3, EntAssumption DEF Conc
    <3>2. Work(k, t, features[k.plan], flags[t], sub[t], k.plan \in dropped)
      BY <1>1, <3>1, KnownCall
    <3>3. Work(u, t, features[u.plan], flags[t], sub[t], u.plan \in dropped)
      BY <1>1, <1>4, <2>2, <2>3, <3>1, <3>2 DEF Work, Assigning, Syncing
    <3>. QED  BY <3>1, <3>3 DEF QuietTenant
  <2>5. QuietTurn(c, k, u)
    BY <1>1, <1>2, <2>1, <2>2, <2>3 DEF QuietTurn
  <2>6. \A t \in Subscribers \ touched' :
           (k.pc # "admit" /\ t \in Conc(k)) \/ (k.pc = "find" /\ k.plan = sub[t].plan) =>
              Settled(t)'
    BY <1>1
  <2>. QED  BY <2>4, <2>5, <2>6, QuietCall
<1>. QED  BY <1>3, <1>4

\* A request that begins, and writes nothing yet.
LEMMA CallBegins ==
    ASSUME EntInv, LifeInv', NEW c \in Calls, NEW u \in CallStates,
           call[c].pc = "idle", call' = [call EXCEPT ![c] = u],
           UNCHANGED <<features, flags, sub, dropped>>,
           touched \subseteq touched', touched' \subseteq Subscribers,
           CallShape(u), ~Assigning(u),
           u.pc = "delete" => \A t \in Subscribers : sub[t].plan # u.plan,
           Conc(u) \subseteq touched'
    PROVE  EntInv'
<1>1. PICK k \in CallStates : k = call[c] /\ k.pc = "idle" /\ Conc(k) = {}
  BY KnownCall, EntAssumption DEF CallShape, Conc
<1>2. QuietTurn(c, k, u)
  BY <1>1 DEF QuietTurn
<1>3. \A t \in Subscribers \ touched' : QuietTenant(c, k, u, t)
  BY DEF QuietTenant
<1>4. \A t \in Subscribers \ touched' :
         (k.pc # "admit" /\ t \in Conc(k)) \/ (k.pc = "find" /\ k.plan = sub[t].plan) =>
            Settled(t)'
  BY <1>1
<1>. QED  BY <1>2, <1>3, <1>4, QuietCall

LEMMA StartRemove ==
    ASSUME EntInv, LifeInv', NEW c \in Calls, NEW p \in Catalogue, RemovePlan(c, p)
    PROVE  EntInv'
<1>1. PICK u \in CallStates : /\ u = [NoCall EXCEPT !.pc = "delete", !.plan = p]
                              /\ call' = [call EXCEPT ![c] = u]
  BY DEF RemovePlan, LifeInv, Typed, EntInv
<1>2. u.pc = "delete" /\ u.plan = p /\ u.at = NoPlanYet /\ u.left = {} /\ u.status = "none"
  BY <1>1 DEF NoCall
<1>3. CallShape(u) /\ ~Assigning(u) /\ Conc(u) = {}
  BY <1>2, EntAssumption DEF CallShape, Assigning, Conc
<1>4. /\ UNCHANGED <<features, flags, sub, dropped>> /\ call[c].pc = "idle"
      /\ touched \subseteq touched' /\ touched' \subseteq Subscribers
      /\ \A t \in Subscribers : sub[t].plan # p
  BY DEF RemovePlan, Using, EntInv
<1>. QED  BY <1>1, <1>2, <1>3, <1>4, CallBegins

LEMMA StartManual ==
    ASSUME EntInv, LifeInv', NEW c \in Calls, NEW t0 \in Subscribers, NEW f \in Features,
           UpdateTenantFeatures(c, t0, f)
    PROVE  EntInv'
<1>1. PICK u \in CallStates : /\ u = [NoCall EXCEPT !.pc = "manual", !.at = t0, !.on = {f}]
                              /\ call' = [call EXCEPT ![c] = u]
  BY DEF UpdateTenantFeatures, LifeInv, Typed, EntInv
<1>2. u.pc = "manual" /\ u.at = t0 /\ u.left = {}
  BY <1>1 DEF NoCall
<1>3. CallShape(u) /\ ~Assigning(u) /\ Conc(u) = {t0}
  BY <1>2, EntAssumption DEF CallShape, Assigning, Conc
<1>4. /\ UNCHANGED <<features, flags, sub, dropped>> /\ call[c].pc = "idle"
      /\ touched \subseteq touched' /\ touched' \subseteq Subscribers /\ t0 \in touched'
  BY DEF UpdateTenantFeatures, EntInv
<1>. QED  BY <1>1, <1>2, <1>3, <1>4, CallBegins

LEMMA StartDue ==
    ASSUME EntInv, LifeInv', NEW c \in Calls, NEW late \in SUBSET Subscribers,
           GetSubscriptionsDue(c, late)
    PROVE  EntInv'
<1>1. PICK u \in CallStates : /\ u = [NoCall EXCEPT !.pc = "due", !.left = late]
                              /\ call' = [call EXCEPT ![c] = u]
  BY DEF GetSubscriptionsDue, LifeInv, Typed, EntInv
<1>2. u.pc = "due"
  BY <1>1 DEF NoCall
<1>3. CallShape(u) /\ ~Assigning(u) /\ Conc(u) = {}
  BY <1>2 DEF CallShape, Assigning, Conc
<1>4. /\ UNCHANGED <<features, flags, sub, dropped>> /\ call[c].pc = "idle"
      /\ touched \subseteq touched' /\ touched' \subseteq Subscribers
  BY DEF GetSubscriptionsDue, EntInv
<1>. QED  BY <1>1, <1>2, <1>3, <1>4, CallBegins

LEMMA StartPaid ==
    ASSUME EntInv, LifeInv', NEW c \in Calls, NEW t0 \in Subscribers,
           MarkSubscriptionPaid(c, t0)
    PROVE  EntInv'
<1>1. PICK u \in CallStates : /\ u = [NoCall EXCEPT !.pc = "paid", !.at = t0]
                              /\ call' = [call EXCEPT ![c] = u]
  BY DEF MarkSubscriptionPaid, LifeInv, Typed, EntInv
<1>2. u.pc = "paid"
  BY <1>1 DEF NoCall
<1>3. CallShape(u) /\ ~Assigning(u) /\ Conc(u) = {}
  BY <1>2 DEF CallShape, Assigning, Conc
<1>4. /\ UNCHANGED <<features, flags, sub, dropped>> /\ call[c].pc = "idle"
      /\ touched \subseteq touched' /\ touched' \subseteq Subscribers
  BY DEF MarkSubscriptionPaid, EntInv
<1>. QED  BY <1>1, <1>2, <1>3, <1>4, CallBegins

\* The plan is written, and who has read it otherwise is touched.
LEMMA StartUpdate ==
    ASSUME EntInv, LifeInv', NEW c \in Calls, NEW p \in Catalogue,
           NEW feats \in SUBSET Features, UpdatePlan(c, p, feats)
    PROVE  EntInv'
<1>1. PICK k \in CallStates : k = call[c] /\ k.pc = "idle" /\ Conc(k) = {}
  BY KnownCall, EntAssumption DEF CallShape, Conc, UpdatePlan
<1>2. PICK u \in CallStates :
         /\ u = [NoCall EXCEPT !.pc = "find", !.plan = p, !.feats = feats]
         /\ call' = [call EXCEPT ![c] = u]
  BY DEF UpdatePlan, LifeInv, Typed, EntInv
<1>3. /\ u.pc = "find" /\ u.plan = p /\ u.at = NoPlanYet /\ u.left = {}
      /\ u.status = "none"
  BY <1>2 DEF NoCall
<1>4. CallShape(u) /\ ~Assigning(u) /\ Conc(u) = {}
  BY <1>3, EntAssumption DEF CallShape, Assigning, Conc
<1>5. /\ UNCHANGED <<flags, sub, dropped>> /\ features' = [features EXCEPT ![p] = feats]
      /\ touched' = touched \cup UNION {Concerns(d) : d \in {e \in Calls : call[e].plan = p}}
  BY DEF UpdatePlan
<1>6. \A d \in Calls, t \in Subscribers :
         call[d].plan = p /\ t \in Conc(call[d]) => t \in touched'
  BY <1>5, KnownCall
<1>7. touched \subseteq touched' /\ touched' \subseteq Subscribers
  BY <1>5 DEF EntInv, Concerns
<1>8. Turn(c, k, u)
  BY <1>1, <1>2, <1>3, <1>4, <1>5, <1>7 DEF Turn, EntInv
<1>9. \A q \in Catalogue : PlanTurn(c, u, q)
  <2>1. features \in [Catalogue -> (SUBSET Features) \cup {NoPlanYet}]
    BY DEF EntInv, LifeInv, Typed
  <2>2. features'[p] = feats /\ feats # NoPlanYet
    BY <1>5, <2>1, EntAssumption
  <2>3. ASSUME NEW q \in Catalogue, q # p PROVE features'[q] = features[q]
    BY <1>5, <2>1, <2>3
  <2>. QED  BY <1>3, <1>6, <2>2, <2>3 DEF PlanTurn
<1>10. \A t \in Subscribers : TenantTurn(k, t)
  BY <1>5 DEF TenantTurn, SubKept
<1>11. \A t \in Subscribers \ touched' : t \in Conc(u) =>
         /\ Work(u, t, features'[u.plan], flags'[t], sub'[t],
                 u.plan \in dropped')
         /\ t \in Conc(k) \/ \A d \in Calls : d # c => t \notin Conc(call[d])
  BY <1>4
<1>12. \A t \in Subscribers \ touched' :
         (k.pc # "admit" /\ t \in Conc(k)) \/ (k.pc = "find" /\ k.plan = sub[t].plan) =>
            Settled(t)'
  BY <1>1
<1>. QED  BY <1>8, <1>9, <1>10, <1>11, <1>12, OneCall

LEMMA StepTenant ==
    ASSUME EntInv, LifeInv', NEW c \in Calls, UpdateTenant(c)
    PROVE  EntInv'
<1>1. PICK k \in CallStates :
         k = call[c] /\ k.pc = "limits" /\ CallShape(k) /\ PlanOK(k) /\ CallOK(c)
  BY KnownCall DEF UpdateTenant
<1>2. PICK t0 \in Subscribers : t0 = k.at
  BY <1>1 DEF CallOK, CallShape
<1>3. PICK u \in CallStates :
         /\ u = [k EXCEPT !.pc = "copy", !.off = Features, !.on = k.feats, !.feats = {}]
         /\ call' = [call EXCEPT ![c] = u]
  BY <1>1 DEF UpdateTenant, LifeInv, Typed, EntInv
<1>4. /\ u.pc = "copy" /\ u.plan = k.plan /\ u.at = t0 /\ u.left = {} /\ k.left = {}
      /\ u.status = k.status /\ u.off = Features /\ u.on = k.feats
      /\ Assigning(k) /\ Assigning(u) /\ k.plan \in Catalogue
  BY <1>1, <1>2, <1>3 DEF CallStates, CallShape, Assigning
<1>5. CallShape(u) /\ Conc(u) = {t0} /\ Conc(k) = {t0}
  BY <1>1, <1>2, <1>4 DEF CallShape, Conc
<1>6. UNCHANGED <<features, flags, sub, touched, dropped>>
  BY DEF UpdateTenant
<1>7. Turn(c, k, u)
  BY <1>1, <1>3, <1>4, <1>5, <1>6 DEF Turn, EntInv, PlanOK
<1>8. \A p \in Catalogue : PlanTurn(c, u, p)
  BY <1>6 DEF PlanTurn
<1>9. \A t \in Subscribers : TenantTurn(k, t)
  BY <1>1, <1>5, <1>6 DEF TenantTurn, SubKept, EntInv
<1>10. ASSUME t0 \notin touched
       PROVE  /\ Work(u, t0, features[u.plan], flags[t0], sub[t0], u.plan \in dropped)
              /\ sub[t0].status \notin Running
  <2>1. Work(k, t0, features[k.plan], flags[t0], sub[t0], k.plan \in dropped)
    BY <1>1, <1>5, <1>10, KnownCall
  <2>2. k.plan \in dropped \/ features[k.plan] = k.feats
    BY <1>1, <1>4, <2>1 DEF Work
  <2>3. sub[t0].status \notin Running
    BY <1>1, <1>4, <2>1 DEF Work
  <2>4. u.plan \in dropped \/ CopyOK(u, flags[t0], features[u.plan])
    BY <1>4, <2>2 DEF CopyOK
  <2>. QED  BY <1>4, <2>3, <2>4 DEF Work, Assigning, Syncing
<1>11. \A t \in Subscribers \ touched' : t \in Conc(u) =>
         /\ Work(u, t, features'[u.plan], flags'[t], sub'[t],
                 u.plan \in dropped')
         /\ t \in Conc(k) \/ \A d \in Calls : d # c => t \notin Conc(call[d])
  BY <1>5, <1>6, <1>10
<1>12. \A t \in Subscribers \ touched' :
         (k.pc # "admit" /\ t \in Conc(k)) \/ (k.pc = "find" /\ k.plan = sub[t].plan) =>
            Settled(t)'
  BY <1>1, <1>5, <1>6, <1>10 DEF Settled
<1>. QED  BY <1>7, <1>8, <1>9, <1>11, <1>12, OneCall

LEMMA StepCopy ==
    ASSUME EntInv, LifeInv', NEW c \in Calls, CopyFeature(c)
    PROVE  EntInv'
<1>1. PICK k \in CallStates :
         k = call[c] /\ k.pc = "copy" /\ CallShape(k) /\ PlanOK(k) /\ CallOK(c)
  BY KnownCall DEF CopyFeature
<1>2. PICK t0 \in Subscribers : t0 = k.at
  BY <1>1 DEF CallShape
<1>3. PICK f \in Features, u \in CallStates :
         /\ call' = [call EXCEPT ![c] = u]
         /\ \/ /\ f \in k.off /\ u = [k EXCEPT !.off = k.off \ {f}]
               /\ flags' = [flags EXCEPT ![t0][f] = "off"]
            \/ /\ f \in k.on /\ k.off = {} /\ u = [k EXCEPT !.on = k.on \ {f}]
               /\ flags' = [flags EXCEPT ![t0][f] = "on"]
  <2>1. PICK f \in Features : SetTenantFeature(c, f)
    BY DEF CopyFeature
  <2>2. CASE f \in k.off /\ flags' = [flags EXCEPT ![t0][f] = "off"]
             /\ call' = [call EXCEPT ![c].off = @ \ {f}]
    <3>1. PICK u \in CallStates :
             /\ u = [k EXCEPT !.off = k.off \ {f}] /\ call' = [call EXCEPT ![c] = u]
      BY <1>1, <2>2 DEF LifeInv, Typed, EntInv
    <3>. QED  BY <2>2, <3>1
  <2>3. CASE f \in k.on /\ k.off = {} /\ flags' = [flags EXCEPT ![t0][f] = "on"]
             /\ call' = [call EXCEPT ![c].on = @ \ {f}]
    <3>1. PICK u \in CallStates :
             /\ u = [k EXCEPT !.on = k.on \ {f}] /\ call' = [call EXCEPT ![c] = u]
      BY <1>1, <2>3 DEF LifeInv, Typed, EntInv
    <3>. QED  BY <2>3, <3>1
  <2>. QED  BY <1>1, <1>2, <2>1, <2>2, <2>3 DEF SetTenantFeature
<1>4. /\ u.pc = "copy" /\ u.plan = k.plan /\ u.at = t0 /\ u.left = k.left
      /\ u.status = k.status /\ u.feats = k.feats
  BY <1>1, <1>2, <1>3 DEF CallStates
<1>5. /\ CallShape(u) /\ Conc(u) = Conc(k) /\ t0 \in Conc(k)
      /\ k.plan \in Catalogue
      /\ Assigning(k) <=> Assigning(u)
  BY <1>1, <1>2, <1>4 DEF CallShape, Conc, Assigning
<1>6. /\ UNCHANGED <<features, sub, touched, dropped>>
      /\ \A t \in Subscribers : t # t0 => flags'[t] = flags[t]
      /\ flags' \in [Subscribers -> [Features -> {"unset", "on", "off"}]]
  <2>1. flags \in [Subscribers -> [Features -> {"unset", "on", "off"}]]
    BY DEF EntInv
  <2>. QED  BY <1>3, <2>1 DEF CopyFeature
<1>7. Turn(c, k, u)
  BY <1>1, <1>3, <1>4, <1>5, <1>6 DEF Turn, EntInv, PlanOK
<1>8. \A p \in Catalogue : PlanTurn(c, u, p)
  BY <1>6 DEF PlanTurn
<1>9. \A t \in Subscribers : TenantTurn(k, t)
  BY <1>1, <1>5, <1>6 DEF TenantTurn, SubKept
<1>10. ASSUME NEW t \in Subscribers \ touched, t \in Conc(k)
       PROVE  Work(u, t, features[u.plan], flags'[t], sub[t], u.plan \in dropped)
  <2>1. Work(k, t, features[k.plan], flags[t], sub[t], k.plan \in dropped)
    BY <1>1, <1>10, KnownCall
  <2>2. CASE t # t0
    <3>1. Syncing(k) /\ ~Assigning(k)
      BY <1>1, <1>2, <1>10, <2>2 DEF Conc, CallShape, Syncing, Assigning
    <3>. QED  BY <1>1, <1>2, <1>4, <1>5, <1>6, <2>1, <2>2, <3>1 DEF Work, Syncing
  <2>3. CASE t = t0
    <3>1. k.plan \in dropped \/ CopyOK(k, flags[t], features[k.plan])
      BY <1>1, <1>2, <2>1, <2>3 DEF Work, Assigning, Syncing
    <3>2. ASSUME CopyOK(k, flags[t], features[k.plan])
          PROVE  CopyOK(u, flags'[t], features[k.plan])
      <4>1. flags[t] \in [Features -> {"unset", "on", "off"}]
        BY DEF EntInv
      <4>2. CASE /\ f \in k.off /\ u = [k EXCEPT !.off = k.off \ {f}]
                 /\ flags' = [flags EXCEPT ![t0][f] = "off"]
        <5>1. u.off = k.off \ {f} /\ u.on = k.on
          BY <4>2 DEF CallStates
        <5>2. flags'[t] = [flags[t] EXCEPT ![f] = "off"]
          BY <2>3, <4>2 DEF EntInv
        <5>. QED  BY <3>2, <4>1, <4>2, <5>1, <5>2 DEF CopyOK
      <4>3. CASE /\ f \in k.on /\ k.off = {} /\ u = [k EXCEPT !.on = k.on \ {f}]
                 /\ flags' = [flags EXCEPT ![t0][f] = "on"]
        <5>1. u.off = {} /\ u.on = k.on \ {f} /\ k.off = {}
          BY <4>3 DEF CallStates
        <5>2. flags'[t] = [flags[t] EXCEPT ![f] = "on"]
          BY <2>3, <4>3 DEF EntInv
        <5>. QED  BY <3>2, <4>1, <4>3, <5>1, <5>2 DEF CopyOK
      <4>. QED  BY <1>3, <4>2, <4>3
    <3>. QED  BY <1>1, <1>2, <1>4, <1>5, <2>1, <2>3, <3>1, <3>2 DEF Work, Syncing
  <2>. QED  BY <2>2, <2>3
<1>11. \A t \in Subscribers \ touched' : t \in Conc(u) =>
         /\ Work(u, t, features'[u.plan], flags'[t], sub'[t],
                 u.plan \in dropped')
         /\ t \in Conc(k) \/ \A d \in Calls : d # c => t \notin Conc(call[d])
  BY <1>5, <1>6, <1>10
<1>12. \A t \in Subscribers \ touched' :
         (k.pc # "admit" /\ t \in Conc(k)) \/ (k.pc = "find" /\ k.plan = sub[t].plan) =>
            Settled(t)'
  BY <1>1, <1>3, <1>4, <1>5, <1>6, StillAtWork
<1>. QED  BY <1>7, <1>8, <1>9, <1>11, <1>12, OneCall

LEMMA StepCopied ==
    ASSUME EntInv, LifeInv', NEW c \in Calls, FeaturesCopied(c)
    PROVE  EntInv'
<1>1. PICK k \in CallStates :
         /\ k = call[c] /\ k.pc = "copy" /\ CallShape(k) /\ PlanOK(k) /\ CallOK(c)
         /\ k.off = {} /\ k.on = {}
  BY KnownCall DEF FeaturesCopied
<1>2. PICK t0 \in Subscribers : t0 = k.at
  BY <1>1 DEF CallShape
<1>3. /\ UNCHANGED <<features, flags, sub, dropped>> /\ touched' = touched
      /\ touched \subseteq Subscribers
  BY DEF FeaturesCopied, EntInv
<1>4. ASSUME t0 \notin touched
      PROVE  k.plan \in dropped \/ flags[t0] = Copied(features[k.plan])
  <2>1. Work(k, t0, features[k.plan], flags[t0], sub[t0], k.plan \in dropped)
    BY <1>1, <1>2, <1>4, KnownCall DEF Conc
  <2>2. k.plan \in dropped \/ CopyOK(k, flags[t0], features[k.plan])
    BY <1>1, <1>2, <2>1 DEF Work, Assigning, Syncing
  <2>3. flags[t0] \in [Features -> {"unset", "on", "off"}]
    BY DEF EntInv
  <2>. QED  BY <1>1, <2>2, <2>3 DEF CopyOK, Copied
<1>5. CASE k.status = "none"
  <2>1. PICK u \in CallStates : /\ u = [k EXCEPT !.pc = "next", !.at = NoPlanYet]
                                /\ call' = [call EXCEPT ![c] = u]
    BY <1>1, <1>5 DEF FeaturesCopied, LifeInv, Typed, EntInv
  <2>2. /\ u.pc = "next" /\ u.plan = k.plan /\ u.at = NoPlanYet /\ u.left = k.left
        /\ u.status = "none" /\ u.feats = k.feats
    BY <1>5, <2>1 DEF CallStates
  <2>3. /\ CallShape(u) /\ Conc(u) = k.left /\ Conc(k) = {t0} \cup k.left /\ ~Assigning(u)
        /\ Syncing(k) /\ Syncing(u)
    BY <1>1, <1>2, <1>5, <2>2, EntAssumption
    DEF CallShape, Conc, Assigning, Syncing, CallStates
  <2>4. QuietTurn(c, k, u)
    BY <1>1, <1>3, <2>1, <2>2, <2>3 DEF QuietTurn
  <2>5. \A t \in Subscribers \ touched' : QuietTenant(c, k, u, t)
    <3> TAKE t \in Subscribers \ touched'
    <3> SUFFICES ASSUME t \in Conc(u) PROVE QuietTenant(c, k, u, t)
      BY DEF QuietTenant
    <3>1. Work(k, t, features[k.plan], flags[t], sub[t], k.plan \in dropped)
      BY <1>1, <1>3, <2>3, KnownCall
    <3>2. Work(u, t, features[u.plan], flags[t], sub[t], u.plan \in dropped)
      BY <2>2, <2>3, <3>1 DEF Work
    <3>. QED  BY <2>3, <3>2 DEF QuietTenant
  <2>6. \A t \in Subscribers \ touched' :
         (k.pc # "admit" /\ t \in Conc(k)) \/ (k.pc = "find" /\ k.plan = sub[t].plan) =>
            Settled(t)'
    <3> TAKE t \in Subscribers \ touched'
    <3> SUFFICES ASSUME t \in Conc(k) PROVE Settled(t)'
      BY <1>1
    <3>1. CASE t \in Conc(u)
      BY <1>3, <2>1, <2>2, <3>1, StillAtWork
    <3>2. CASE t = t0
      <4>1. sub[t].plan = k.plan
        BY <1>1, <1>3, <2>3, KnownCall DEF Work
      <4>. QED  BY <1>3, <1>4, <3>2, <4>1 DEF Settled
    <3>. QED  BY <2>3, <3>1, <3>2
  <2>. QED  BY <2>4, <2>5, <2>6, QuietCall
<1>6. CASE k.status # "none"
  <2>1. PICK u \in CallStates : /\ u = [k EXCEPT !.pc = "subscribe"]
                                /\ call' = [call EXCEPT ![c] = u]
    BY <1>1, <1>6 DEF FeaturesCopied, LifeInv, Typed, EntInv
  <2>2. /\ u.pc = "subscribe" /\ u.plan = k.plan /\ u.at = t0 /\ u.left = k.left
        /\ u.status = k.status /\ u.feats = k.feats
    BY <1>2, <2>1 DEF CallStates
  <2>3. /\ CallShape(u) /\ Conc(u) = {t0} /\ Conc(k) = {t0}
        /\ Assigning(k) /\ Assigning(u) /\ ~Syncing(u)
    BY <1>1, <1>2, <1>6, <2>2
    DEF CallShape, Conc, Assigning, Syncing
  <2>4. QuietTurn(c, k, u)
    BY <1>1, <1>3, <2>1, <2>2, <2>3 DEF QuietTurn, PlanOK
  <2>5. \A t \in Subscribers \ touched' : QuietTenant(c, k, u, t)
    <3> TAKE t \in Subscribers \ touched'
    <3> SUFFICES ASSUME t \in Conc(u) PROVE QuietTenant(c, k, u, t)
      BY DEF QuietTenant
    <3>1. Work(k, t, features[k.plan], flags[t], sub[t], k.plan \in dropped)
      BY <1>1, <1>3, <2>3, KnownCall
    <3>2. Work(u, t, features[u.plan], flags[t], sub[t], u.plan \in dropped)
      BY <1>1, <1>3, <1>4, <2>2, <2>3, <3>1 DEF Work
    <3>. QED  BY <2>3, <3>2 DEF QuietTenant
  <2>6. \A t \in Subscribers \ touched' :
         (k.pc # "admit" /\ t \in Conc(k)) \/ (k.pc = "find" /\ k.plan = sub[t].plan) =>
            Settled(t)'
    BY <1>1, <1>3, <2>1, <2>2, <2>3, StillAtWork
  <2>. QED  BY <2>4, <2>5, <2>6, QuietCall
<1>. QED  BY <1>5, <1>6

LEMMA StepSubscribe ==
    ASSUME EntInv, LifeInv', NEW c \in Calls, Subscribe(c)
    PROVE  EntInv'
<1>1. PICK k \in CallStates :
         k = call[c] /\ k.pc = "subscribe" /\ CallShape(k) /\ PlanOK(k) /\ CallOK(c)
  BY KnownCall DEF Subscribe
<1>2. PICK t0 \in Subscribers :
         t0 = k.at /\ k.plan \in Catalogue /\ k.status # "none" /\ k.left = {}
  BY <1>1 DEF CallOK, CallShape, Assigning
<1>3. /\ call' = [call EXCEPT ![c] = NoCall]
      /\ UNCHANGED <<features, flags>> /\ touched' = touched
      /\ touched \subseteq Subscribers
      /\ dropped \subseteq dropped' /\ dropped' \subseteq Catalogue
      /\ \A d \in Calls : call[d].pc = "delete" /\ call[d].plan = k.plan =>
            k.plan \in dropped'
  BY <1>1, <1>2 DEF Subscribe, EndCall, EntInv
<1>4. Conc(k) = {t0} /\ Assigning(k)
  BY <1>1, <1>2 DEF Conc, Assigning
<1>5. sub \in [Subscribers -> SubStates] /\ sub' \in [Subscribers -> SubStates]
  BY DEF EntInv, LifeInv, Typed
<1>6. ASSUME NEW t \in Subscribers PROVE
         \/ sub'[t] = sub[t]
         \/ t = t0 /\ sub'[t].plan = k.plan /\ k.plan # NoPlanYet
  BY <1>1, <1>2, <1>5, EntAssumption DEF Subscribe, SubStates
<1>7. Turn(c, k, NoCall)
  <2>1. \A t \in Subscribers : sub'[t].status # "none" => sub'[t].plan # NoPlanYet
    BY <1>6 DEF EntInv
  <2>. QED  BY <1>1, <1>3, <2>1, IdleCall DEF Turn, EntInv
<1>8. \A p \in Catalogue : PlanTurn(c, NoCall, p)
  BY <1>3 DEF PlanTurn
<1>9. \A t \in Subscribers : TenantTurn(k, t)
  <2> TAKE t \in Subscribers
  <2>1. \/ k.pc # "admit" /\ t \in Conc(k)
        \/ flags'[t] = flags[t] /\ SubKept(t)
    BY <1>1, <1>3, <1>4, <1>6 DEF SubKept
  <2>2. \/ sub'[t].plan = sub[t].plan
        \/ /\ Assigning(k) /\ sub'[t].plan = k.plan
           /\ \A d \in Calls : call[d].pc = "delete" /\ call[d].plan = k.plan =>
                 k.plan \in dropped'
    BY <1>3, <1>4, <1>6
  <2>. QED  BY <2>1, <2>2 DEF TenantTurn
<1>10. \A t \in Subscribers \ touched' : t \in Conc(NoCall) =>
         /\ Work(NoCall, t, features'[NoCall.plan], flags'[t], sub'[t],
                 NoCall.plan \in dropped')
         /\ t \in Conc(k) \/ \A d \in Calls : d # c => t \notin Conc(call[d])
  BY IdleCall
<1>11. ASSUME t0 \notin touched PROVE Settled(t0)'
  <2>1. Work(k, t0, features[k.plan], flags[t0], sub[t0], k.plan \in dropped)
    BY <1>1, <1>4, <1>11, KnownCall
  <2>2. /\ sub[t0].status \notin Running
        /\ k.plan \in dropped \/ flags[t0] = Copied(features[k.plan])
    BY <1>1, <1>4, <2>1 DEF Work
  <2>. QED  BY <1>3, <1>6, <2>2 DEF Settled
<1>12. \A t \in Subscribers \ touched' :
         (k.pc # "admit" /\ t \in Conc(k)) \/ (k.pc = "find" /\ k.plan = sub[t].plan) =>
            Settled(t)'
  BY <1>1, <1>3, <1>4, <1>11
<1>. QED  BY <1>7, <1>8, <1>9, <1>10, <1>12, IdleCall, OneCall

LEMMA StepFind ==
    ASSUME EntInv, LifeInv', NEW c \in Calls, FindSubscribers(c)
    PROVE  EntInv'
<1> DEFINE found == SubscribersOf(call[c].plan)
<1>1. PICK k \in CallStates :
         k = call[c] /\ k.pc = "find" /\ CallShape(k) /\ PlanOK(k) /\ Conc(k) = {}
  BY KnownCall, EntAssumption DEF FindSubscribers, CallShape, Conc
<1>2. PICK u \in CallStates : /\ u = [k EXCEPT !.pc = "next", !.left = found]
                              /\ call' = [call EXCEPT ![c] = u]
  BY <1>1 DEF FindSubscribers, LifeInv, Typed, EntInv
<1>3. /\ u.pc = "next" /\ u.plan = k.plan /\ u.at = NoPlanYet /\ u.left = found
      /\ u.status = "none" /\ u.feats = k.feats /\ k.plan \in Catalogue
  BY <1>1, <1>2 DEF CallStates, CallShape
<1>4. /\ UNCHANGED <<features, flags, sub, dropped>>
      /\ touched \subseteq touched' /\ touched' \subseteq Subscribers
      /\ \A t \in found \ touched' : features[k.plan] = k.feats /\ t \notin OthersConcern(c)
  BY <1>1 DEF FindSubscribers, EntInv, SubscribersOf
<1>5. /\ CallShape(u) /\ Conc(u) = found /\ ~Assigning(u) /\ found \subseteq Subscribers
  BY <1>3, EntAssumption DEF CallShape, Conc, Assigning, SubscribersOf
<1>6. QuietTurn(c, k, u)
  BY <1>1, <1>2, <1>3, <1>4, <1>5 DEF QuietTurn
<1>7. \A t \in Subscribers \ touched' : QuietTenant(c, k, u, t)
  <2> TAKE t \in Subscribers \ touched'
  <2> SUFFICES ASSUME t \in found PROVE QuietTenant(c, k, u, t)
    BY <1>5 DEF QuietTenant
  <2>1. sub[t].plan = u.plan /\ sub[t].status \in Running
    BY <1>1, <1>3 DEF SubscribersOf
  <2>2. Work(u, t, features[u.plan], flags[t], sub[t], u.plan \in dropped)
    BY <1>3, <1>4, <1>5, <2>1 DEF Work, Syncing, Running
  <2>3. \A d \in Calls : d # c => t \notin Conc(call[d])
    BY <1>4, KnownCall DEF OthersConcern
  <2>. QED  BY <2>2, <2>3 DEF QuietTenant
<1>8. \A t \in Subscribers \ touched' :
         (k.pc # "admit" /\ t \in Conc(k)) \/ (k.pc = "find" /\ k.plan = sub[t].plan) =>
            Settled(t)'
  <2> TAKE t \in Subscribers \ touched'
  <2> SUFFICES ASSUME k.plan = sub[t].plan PROVE Settled(t)'
    BY <1>1
  <2>1. CASE sub[t].status \in Running
    BY <1>1, <1>2, <1>3, <1>4, <1>5, <2>1, StillAtWork DEF SubscribersOf
  <2>2. CASE sub[t].status \notin Running
    BY <1>4, <2>2 DEF Settled
  <2>. QED  BY <2>1, <2>2
<1>. QED  BY <1>6, <1>7, <1>8, QuietCall

LEMMA StepNext ==
    ASSUME EntInv, LifeInv', NEW c \in Calls, NextSubscriber(c)
    PROVE  EntInv'
<1>1. PICK k \in CallStates :
         /\ k = call[c] /\ k.pc = "next" /\ CallShape(k) /\ PlanOK(k)
         /\ k.status = "none" /\ k.at = NoPlanYet /\ k.plan \in Catalogue
  BY KnownCall DEF NextSubscriber, CallShape
<1>2. /\ UNCHANGED <<features, flags, sub, dropped>> /\ touched' = touched
      /\ touched \subseteq Subscribers
  BY DEF NextSubscriber, EntInv
<1>3. Conc(k) = k.left
  BY <1>1, EntAssumption DEF Conc, CallStates
<1>4. CASE k.left = {}
  BY <1>1, <1>2, <1>3, <1>4, CallEnds DEF NextSubscriber
<1>5. CASE k.left # {}
  <2>1. PICK t0 \in k.left :
           call' = [call EXCEPT ![c].pc = "copy", ![c].at = t0, ![c].left = @ \ {t0},
                                ![c].off = Features, ![c].on = call[c].feats]
    BY <1>1, <1>5 DEF NextSubscriber
  <2>2. PICK u \in CallStates :
           /\ u = [k EXCEPT !.pc = "copy", !.at = t0, !.left = k.left \ {t0},
                            !.off = Features, !.on = k.feats]
           /\ call' = [call EXCEPT ![c] = u]
    <3>1. call \in [Calls -> CallStates] /\ call' \in [Calls -> CallStates]
      BY DEF LifeInv, Typed, EntInv
    <3>2. call'[c] = [k EXCEPT !.pc = "copy", !.at = t0, !.left = k.left \ {t0},
                               !.off = Features, !.on = k.feats]
      BY <1>1, <2>1, <3>1 DEF CallStates
    <3>3. \A d \in Calls : d # c => call'[d] = call[d]
      BY <2>1, <3>1
    <3>. QED  BY <3>1, <3>2, <3>3
  <2>3. /\ u.pc = "copy" /\ u.plan = k.plan /\ u.at = t0 /\ u.left = k.left \ {t0}
        /\ u.status = "none" /\ u.off = Features /\ u.on = k.feats /\ u.feats = k.feats
        /\ t0 \in Subscribers
    BY <1>1, <2>2 DEF CallStates
  <2>4. /\ CallShape(u) /\ Conc(u) = k.left /\ ~Assigning(u) /\ ~Assigning(k)
        /\ Syncing(u) /\ Syncing(k)
    BY <1>1, <1>3, <2>3 DEF CallShape, Conc, Assigning, Syncing
  <2>5. QuietTurn(c, k, u)
    BY <1>1, <1>2, <2>2, <2>3, <2>4 DEF QuietTurn
  <2>6. \A t \in Subscribers \ touched' : QuietTenant(c, k, u, t)
    <3> TAKE t \in Subscribers \ touched'
    <3> SUFFICES ASSUME t \in Conc(u) PROVE QuietTenant(c, k, u, t)
      BY DEF QuietTenant
    <3>1. Work(k, t, features[k.plan], flags[t], sub[t], k.plan \in dropped)
      BY <1>1, <1>2, <1>3, <2>4, KnownCall
    <3>2. k.plan \in dropped \/ CopyOK(u, flags[t], features[k.plan])
      BY <2>3, <2>4, <3>1 DEF Work, CopyOK
    <3>3. Work(u, t, features[u.plan], flags[t], sub[t], u.plan \in dropped)
      BY <2>3, <2>4, <3>1, <3>2 DEF Work
    <3>. QED  BY <1>3, <2>4, <3>3 DEF QuietTenant
  <2>7. \A t \in Subscribers \ touched' :
         (k.pc # "admit" /\ t \in Conc(k)) \/ (k.pc = "find" /\ k.plan = sub[t].plan) =>
            Settled(t)'
    BY <1>1, <1>2, <1>3, <2>2, <2>3, <2>4, StillAtWork
  <2>. QED  BY <2>5, <2>6, <2>7, QuietCall
<1>. QED  BY <1>4, <1>5

LEMMA StepDelete ==
    ASSUME EntInv, LifeInv', NEW c \in Calls, DeletePlan(c)
    PROVE  EntInv'
<1>1. PICK k \in CallStates :
         /\ k = call[c] /\ k.pc = "delete" /\ CallShape(k) /\ PlanOK(k)
         /\ Conc(k) = {} /\ k.plan \in Catalogue
  BY KnownCall, EntAssumption DEF DeletePlan, CallShape, Conc
<1>2. /\ call' = [call EXCEPT ![c] = NoCall] /\ UNCHANGED <<flags, sub>>
      /\ features' = [features EXCEPT ![k.plan] = NoPlanYet]
      /\ touched' = touched /\ touched \subseteq Subscribers
      /\ dropped \subseteq dropped' /\ dropped' \subseteq Catalogue
      /\ \A d \in Calls : d # c /\ call[d].plan = k.plan => k.plan \in dropped'
  BY <1>1 DEF DeletePlan, EndCall, EntInv
<1>3. Turn(c, k, NoCall)
  BY <1>1, <1>2, IdleCall DEF Turn, EntInv
<1>4. \A p \in Catalogue : PlanTurn(c, NoCall, p)
  <2> TAKE p \in Catalogue
  <2>1. CASE p # k.plan
    BY <1>2, <2>1 DEF PlanTurn, EntInv, LifeInv, Typed
  <2>2. CASE p = k.plan /\ p \notin dropped'
    <3>1. \A t \in Subscribers : sub'[t].plan # p
      BY <1>1, <1>2, <2>2 DEF PlanOK
    <3>. QED  BY <1>2, <2>2, <3>1 DEF PlanTurn
  <2>. QED  BY <2>1, <2>2 DEF PlanTurn
<1>5. \A t \in Subscribers : TenantTurn(k, t)
  BY <1>2 DEF TenantTurn, SubKept
<1>6. \A t \in Subscribers \ touched' : t \in Conc(NoCall) =>
         /\ Work(NoCall, t, features'[NoCall.plan], flags'[t], sub'[t],
                 NoCall.plan \in dropped')
         /\ t \in Conc(k) \/ \A d \in Calls : d # c => t \notin Conc(call[d])
  BY IdleCall
<1>7. \A t \in Subscribers \ touched' :
         (k.pc # "admit" /\ t \in Conc(k)) \/ (k.pc = "find" /\ k.plan = sub[t].plan) =>
            Settled(t)'
  BY <1>1
<1>. QED  BY <1>3, <1>4, <1>5, <1>6, <1>7, IdleCall, OneCall

LEMMA StepManual ==
    ASSUME EntInv, LifeInv', NEW c \in Calls, WriteTenantFeatures(c)
    PROVE  EntInv'
<1>1. PICK k \in CallStates :
         k = call[c] /\ k.pc = "manual" /\ CallShape(k) /\ PlanOK(k)
  BY KnownCall DEF WriteTenantFeatures
<1>2. PICK t0 \in Subscribers : t0 = k.at
  BY <1>1 DEF CallShape
<1>3. /\ call' = [call EXCEPT ![c] = NoCall]
      /\ UNCHANGED <<features, sub, dropped>> /\ touched' = touched
      /\ touched \subseteq Subscribers
  BY DEF WriteTenantFeatures, EndCall, EntInv
<1>4. /\ flags' \in [Subscribers -> [Features -> {"unset", "on", "off"}]]
      /\ \A t \in Subscribers : t # t0 => flags'[t] = flags[t]
  <2>1. PICK f \in Features, v \in {"on", "off"} : flags' = [flags EXCEPT ![t0][f] = v]
    BY <1>1, <1>2 DEF WriteTenantFeatures, CallStates
  <2>. QED  BY <2>1 DEF EntInv
<1>5. t0 \in Conc(k) /\ \A t \in Conc(k) : t \in touched
  BY <1>1, <1>2, KnownCall DEF Conc, Work
<1>6. Turn(c, k, NoCall)
  BY <1>1, <1>3, <1>4, IdleCall DEF Turn, EntInv
<1>7. \A p \in Catalogue : PlanTurn(c, NoCall, p)
  BY <1>3 DEF PlanTurn
<1>8. \A t \in Subscribers : TenantTurn(k, t)
  BY <1>1, <1>3, <1>4, <1>5 DEF TenantTurn, SubKept
<1>9. \A t \in Subscribers \ touched' : t \in Conc(NoCall) =>
         /\ Work(NoCall, t, features'[NoCall.plan], flags'[t], sub'[t],
                 NoCall.plan \in dropped')
         /\ t \in Conc(k) \/ \A d \in Calls : d # c => t \notin Conc(call[d])
  BY IdleCall
<1>10. \A t \in Subscribers \ touched' :
         (k.pc # "admit" /\ t \in Conc(k)) \/ (k.pc = "find" /\ k.plan = sub[t].plan) =>
            Settled(t)'
  BY <1>1, <1>3, <1>5
<1>. QED  BY <1>6, <1>7, <1>8, <1>9, <1>10, IdleCall, OneCall

\* The due and the paid touch nothing but the status and the payment.
LEMMA StepBilling ==
    ASSUME EntInv, LifeInv', NEW c \in Calls, SaveDue(c) \/ SavePaid(c)
    PROVE  EntInv'
<1>1. PICK k \in CallStates :
         k = call[c] /\ k.pc \in {"due", "paid"} /\ CallOK(c) /\ Conc(k) = {}
  BY KnownCall DEF SaveDue, SavePaid, Conc
<1>2. /\ UNCHANGED <<features, flags, dropped>> /\ touched' = touched
      /\ touched \subseteq Subscribers
  BY DEF SaveDue, SavePaid, EntInv
<1>3. sub \in [Subscribers -> SubStates]
  BY DEF EntInv, LifeInv, Typed
<1>4. \A t \in Subscribers : SubKept(t)
  <2>1. CASE sub' = sub
    BY <2>1 DEF SubKept
  <2>2. ASSUME NEW t0 \in k.left, sub' = [sub EXCEPT ![t0].status = "DUE"], k.pc = "due"
        PROVE  \A t \in Subscribers : SubKept(t)
    <3>1. t0 \in Subscribers /\ sub[t0].status \in {"ACTIVE", "DUE"}
      BY <1>1, <2>2 DEF CallOK, CallStates
    <3>. QED  BY <1>3, <2>2, <3>1 DEF SubKept, SubStates, Running
  <2>3. CASE sub' = [sub EXCEPT ![k.at].isPaid = TRUE]
    BY <1>3, <2>3 DEF SubKept, SubStates
  <2>. QED  BY <1>1, <2>1, <2>2, <2>3 DEF SaveDue, SavePaid
<1>5. PICK u \in CallStates :
         /\ call' = [call EXCEPT ![c] = u]
         /\ Conc(u) = {} /\ CallShape(u) /\ ~Assigning(u) /\ u.pc # "delete"
  <2>1. CASE EndCall(c)
    BY <2>1, IdleCall DEF EndCall
  <2>2. ASSUME NEW t0 \in k.left, call' = [call EXCEPT ![c].left = @ \ {t0}], k.pc = "due"
        PROVE  \E u \in CallStates :
                  /\ call' = [call EXCEPT ![c] = u]
                  /\ Conc(u) = {} /\ CallShape(u) /\ ~Assigning(u) /\ u.pc # "delete"
    <3>1. PICK u \in CallStates :
             u = [k EXCEPT !.left = k.left \ {t0}] /\ call' = [call EXCEPT ![c] = u]
      BY <1>1, <2>2 DEF LifeInv, Typed, EntInv
    <3>2. u.pc = "due"
      BY <2>2, <3>1 DEF CallStates
    <3>3. Conc(u) = {} /\ CallShape(u) /\ ~Assigning(u) /\ u.pc # "delete"
      BY <3>2 DEF Conc, CallShape, Assigning
    <3>. QED  BY <3>1, <3>3
  <2>. QED  BY <1>1, <2>1, <2>2 DEF SaveDue, SavePaid
<1>6. Turn(c, k, u)
  <2>1. \A t \in Subscribers : sub'[t].status # "none" => sub'[t].plan # NoPlanYet
    BY <1>4 DEF SubKept, EntInv
  <2>. QED  BY <1>1, <1>2, <1>5, <2>1 DEF Turn, EntInv
<1>7. \A p \in Catalogue : PlanTurn(c, u, p)
  BY <1>2 DEF PlanTurn
<1>8. \A t \in Subscribers : TenantTurn(k, t)
  <2>1. \A t \in Subscribers : sub'[t].plan = sub[t].plan
    BY <1>4 DEF SubKept
  <2>. QED  BY <1>2, <1>4, <2>1 DEF TenantTurn
<1>9. \A t \in Subscribers \ touched' : t \in Conc(u) =>
         /\ Work(u, t, features'[u.plan], flags'[t], sub'[t],
                 u.plan \in dropped')
         /\ t \in Conc(k) \/ \A d \in Calls : d # c => t \notin Conc(call[d])
  BY <1>5
<1>10. \A t \in Subscribers \ touched' :
         (k.pc # "admit" /\ t \in Conc(k)) \/ (k.pc = "find" /\ k.plan = sub[t].plan) =>
            Settled(t)'
  BY <1>1
<1>. QED  BY <1>5, <1>6, <1>7, <1>8, <1>9, <1>10, OneCall

LEMMA StepLose ==
    ASSUME EntInv, LifeInv', NEW c \in Calls, LoseCall(c)
    PROVE  EntInv'
<1>1. Concerns(c) = Conc(call[c])
  BY KnownCall
<1>2. /\ EndCall(c) /\ UNCHANGED <<features, flags, sub, dropped>>
      /\ touched' = touched \cup Concerns(c) \cup
            (IF call[c].pc = "find" THEN SubscribersOf(call[c].plan) ELSE {})
  BY DEF LoseCall
<1>3. touched \subseteq touched' /\ touched' \subseteq Subscribers
  BY <1>2 DEF SubscribersOf, Concerns, EntInv
<1>4. \A t \in Subscribers \ touched' : t \notin Conc(call[c])
  BY <1>1, <1>2
<1>5. \A t \in Subscribers \ touched' :
         call[c].pc # "find" \/ sub[t].plan # call[c].plan \/ sub[t].status \notin Running
  BY <1>2 DEF SubscribersOf
<1>. QED  BY <1>2, <1>3, <1>4, <1>5, CallEnds

LEMMA EntInitInv == EntInit => EntInv
<1> SUFFICES ASSUME EntInit PROVE EntInv
  OBVIOUS
<1>1. LifeInv
  BY LifeInitInv
<1>2. /\ flags \in [Subscribers -> [Features -> {"unset", "on", "off"}]]
        /\ touched \subseteq Subscribers /\ dropped \subseteq Catalogue
  BY DEF EntInit
<1>3. \A c \in Calls : call[c] = NoCall
  BY DEF EntInit
<1>4. \A c \in Calls : CallShape(call[c]) /\ PlanOK(call[c])
  BY <1>3, IdleCall DEF PlanOK
<1>5. \A c \in Calls, t \in Subscribers : t \notin Conc(call[c])
  BY <1>3, IdleCall
<1>6. \A t \in Subscribers :
         sub[t].plan = NoPlanYet /\ sub[t].status = "none"
  BY DEF EntInit, NoSub
<1>7. \A t \in Subscribers : Settled(t)
  BY <1>6 DEF Settled, Running
<1>. QED  BY <1>1, <1>2, <1>4, <1>5, <1>6, <1>7 DEF EntInv

LEMMA EntStep == EntInv /\ EntNext => EntInv'
<1> SUFFICES ASSUME EntInv, EntNext PROVE EntInv'
  OBVIOUS
<1>1. LifeInv'
  BY LifeStepInv DEF EntInv
<1>2. PICK c \in Calls : EntStart(c) \/ EntContinue(c) \/ LoseCall(c)
  BY DEF EntNext
<1>3. CASE EntStart(c)
  BY <1>1, <1>3, StartAssign, StartUpdate, StartRemove, StartManual, StartPaid, StartDue
  DEF EntStart
<1>4. CASE EntContinue(c)
  BY <1>1, <1>4, StepAdmit, StepTenant, StepCopy, StepCopied, StepSubscribe, StepFind,
     StepNext, StepDelete, StepManual, StepBilling
  DEF EntContinue
<1>. QED  BY <1>1, <1>2, <1>3, <1>4, StepLose

LEMMA EntInvHolds == EntSpec => []EntInv
<1>1. EntInv /\ UNCHANGED entVars => EntInv'
  <2> SUFFICES ASSUME EntInv, UNCHANGED entVars PROVE EntInv'
    OBVIOUS
  <2>1. LifeInv'
    BY LifeStepInv DEF EntInv
  <2>2. UNCHANGED <<features, flags, sub, call, touched, dropped>>
    BY DEF entVars
  <2>3. \A c \in Calls : PlanOK(call[c])' /\ CallShape(call[c])'
    BY <2>2 DEF EntInv, PlanOK
  <2>4. \A t \in Subscribers : Settled(t)'
    BY <2>2 DEF EntInv, Settled
  <2>. QED  BY <2>1, <2>2, <2>3, <2>4 DEF EntInv
<1>. QED  BY <1>1, EntInitInv, EntStep, PTL DEF EntSpec

\* Whoever has a running subscription has the features of its plan switched on,
\* no more and no less, once the requests about it are through
\* (PlansService.assignPlanToTenant and update).
THEOREM FlagsTheorem == EntSpec => []FlagsFollowPlan
<1>1. EntInv => FlagsFollowPlan
  <2> SUFFICES ASSUME EntInv, NEW t \in Subscribers,
                      sub[t].status \in Running, t \notin touched,
                      \A c \in Calls : t \notin Concerns(c),
                      \A c \in Calls : ~(call[c].pc = "find" /\ call[c].plan = sub[t].plan),
                      sub[t].plan \notin dropped
               PROVE  flags[t] = Copied(features[sub[t].plan])
    BY DEF FlagsFollowPlan
  <2>1. Settled(t)
    BY DEF EntInv
  <2>2. \A c \in Calls : t \notin Conc(call[c])
    BY KnownCall
  <2>. QED  BY <2>1, <2>2 DEF Settled
<1>. QED  BY <1>1, EntInvHolds, PTL

\* A plan somebody is subscribed to is there, unless it was deleted while a
\* request was assigning it.
THEOREM PlanTheorem == EntSpec => []PlanKept
<1>1. EntInv => PlanKept
  BY DEF EntInv, PlanKept
<1>. QED  BY <1>1, EntInvHolds, PTL
-----------------------------------------------------------------------------
(* FeatureAccess: what a request has seen, and what may have changed since.   *)

AskStates ==
    [pc : {"idle", "guard", "search", "assign"},
     need : SUBSET Gated, half : SUBSET Gated, open : SUBSET Gated,
     onFlag : SUBSET Gated, onGrant : SUBSET Gated,
     onBoth : SUBSET Gated, changes : 0 .. 2]

\* The features a guard is about; a search is about all of them.
About(t) == t.need \cup t.half \cup t.open

\* Whatever was found enabled was so since the request began, and what is
\* enabled now is noted.  A feature whose flag was read, while at most one
\* record has changed, either has its flag still or its permission as it was.
AskOK(t, F, G) ==
    t.pc \in {"guard", "search"} =>
        /\ \A f \in t.half \cup t.open : f \in t.onFlag
        /\ \A f \in t.open : f \in t.onGrant
        /\ \A f \in Gated : f \in About(t) \/ t.pc = "search" =>
              /\ Enabled(F[f]) => f \in t.onFlag
              /\ Enabled(G[f]) => f \in t.onGrant
              /\ Enabled(F[f]) /\ Enabled(G[f]) => f \in t.onBoth
        /\ t.changes = 0 => \A f \in t.half : Enabled(F[f])
        /\ t.changes < 2 => \A f \in t.half :
              Enabled(F[f]) \/ (Enabled(G[f]) => f \in t.onBoth)
        /\ t.changes < 2 => \A f \in t.open : f \in t.onBoth

AccessInv ==
    /\ AccessTypeOK
    /\ \A a \in Askers : AskOK(ask[a], flag, grant)
-----------------------------------------------------------------------------
LEMMA AccessParts ==
    ASSUME AccessInv
    PROVE  /\ flag \in [Gated -> Records] /\ grant \in [Gated -> Records]
           /\ ask \in [Askers -> AskStates]
           /\ \A a \in Askers : ask[a] \in AskStates /\ AskOK(ask[a], flag, grant)
BY DEF AccessInv, AccessTypeOK, AskStates

LEMMA NoAskOK ==
    /\ NoAsk \in AskStates /\ NoAsk.pc = "idle"
    /\ \A F, G : AskOK(NoAsk, F, G)
BY DEF NoAsk, AskStates, AskOK

\* What Seeing notes.
Notes(s, t, F, G) ==
    /\ s \in AskStates
    /\ s.pc = t.pc /\ s.need = t.need /\ s.half = t.half /\ s.open = t.open
    /\ s.changes = t.changes
    /\ \A f \in Gated : f \in About(t) \/ t.pc = "search" =>
          /\ f \in s.onFlag <=> f \in t.onFlag \/ f \in F
          /\ f \in s.onGrant <=> f \in t.onGrant \/ f \in G
          /\ f \in s.onBoth <=> f \in t.onBoth \/ (f \in F /\ f \in G)

LEMMA SeeingNotes ==
    ASSUME NEW t \in AskStates, NEW F \in SUBSET Gated, NEW G \in SUBSET Gated,
           t.pc \in {"guard", "search"}
    PROVE  Notes(Seeing(t, F, G), t, F, G)
<1>1. PICK asked \in SUBSET Gated :
         /\ asked = CASE t.pc = "guard"  -> t.need \cup t.half \cup t.open
                      [] t.pc = "search" -> Gated
                      [] OTHER           -> {}
         /\ \A f \in Gated : f \in About(t) \/ t.pc = "search" => f \in asked
  <2>1. About(t) \in SUBSET Gated
    BY DEF About, AskStates
  <2>2. CASE t.pc = "guard"
    BY <2>1, <2>2 DEF About
  <2>3. CASE t.pc = "search"
    BY <2>3
  <2>. QED  BY <2>2, <2>3
<1> DEFINE seenF == (t.onFlag \cup F) \cap asked
           seenG == (t.onGrant \cup G) \cap asked
           both  == (t.onBoth \cup (F \cap G)) \cap asked
<1>2. Seeing(t, F, G) = [t EXCEPT !.onFlag = seenF, !.onGrant = seenG, !.onBoth = both]
  BY <1>1 DEF Seeing
<1>3. /\ seenF \in SUBSET Gated /\ seenG \in SUBSET Gated /\ both \in SUBSET Gated
      /\ \A f \in Gated : f \in About(t) \/ t.pc = "search" =>
            /\ f \in seenF <=> f \in t.onFlag \/ f \in F
            /\ f \in seenG <=> f \in t.onGrant \/ f \in G
            /\ f \in both <=> f \in t.onBoth \/ (f \in F /\ f \in G)
  BY <1>1
<1> HIDE DEF seenF, seenG, both
<1>4. PICK s : s = [t EXCEPT !.onFlag = seenF, !.onGrant = seenG, !.onBoth = both]
  OBVIOUS
<1>5. /\ s \in AskStates
      /\ s.pc = t.pc /\ s.need = t.need /\ s.half = t.half /\ s.open = t.open
      /\ s.changes = t.changes
      /\ s.onFlag = seenF /\ s.onGrant = seenG /\ s.onBoth = both
  BY <1>3, <1>4 DEF AskStates
<1>. QED  BY <1>2, <1>3, <1>4, <1>5 DEF Notes

\* A request that begins has seen what is enabled then.
LEMMA StartAskOK ==
    ASSUME AccessInv, NEW a \in Askers, NEW need \in SUBSET Gated,
           NEW pc \in {"guard", "search", "assign"}, StartAsk(a, pc, need)
    PROVE  AccessInv'
<1>1. PICK t : t = [NoAsk EXCEPT !.pc = pc, !.need = need]
  OBVIOUS
<1>2. /\ t \in AskStates /\ t.pc = pc /\ t.half = {} /\ t.open = {} /\ t.changes = 0
  BY <1>1, NoAskOK DEF AskStates, NoAsk
<1>3. PICK s : s = Seeing(t, FlagOn, GrantOn) /\ ask' = [ask EXCEPT ![a] = s]
  BY <1>1 DEF StartAsk
<1>4. FlagOn \in SUBSET Gated /\ GrantOn \in SUBSET Gated
  BY DEF FlagOn, GrantOn
<1>5. s \in AskStates /\ AskOK(s, flag, grant)
  <2>1. CASE pc = "assign"
    <3>1. s = [t EXCEPT !.onFlag = (@ \cup FlagOn) \cap {},
                        !.onGrant = (@ \cup GrantOn) \cap {},
                        !.onBoth = (@ \cup (FlagOn \cap GrantOn)) \cap {}]
      BY <1>2, <1>3, <2>1 DEF Seeing
    <3>. QED  BY <1>2, <2>1, <3>1 DEF AskStates, AskOK
  <2>2. CASE pc \in {"guard", "search"}
    <3>1. /\ s \in AskStates /\ s.pc = pc /\ s.half = {} /\ s.open = {}
          /\ s.need = t.need
          /\ \A f \in Gated : f \in About(t) \/ pc = "search" =>
                /\ f \in s.onFlag <=> f \in t.onFlag \/ f \in FlagOn
                /\ f \in s.onGrant <=> f \in t.onGrant \/ f \in GrantOn
                /\ f \in s.onBoth <=> f \in t.onBoth \/ (f \in FlagOn /\ f \in GrantOn)
      <4>1. Notes(s, t, FlagOn, GrantOn)
        BY <1>2, <1>3, <1>4, <2>2, SeeingNotes
      <4>. QED  BY <1>2, <4>1 DEF Notes
    <3>2. About(s) = About(t)
      BY <1>2, <3>1 DEF About
    <3>. QED  BY <3>1, <3>2 DEF AskOK, FlagOn, GrantOn
  <2>. QED  BY <2>1, <2>2
<1>. QED  BY <1>3, <1>5, AccessParts
          DEF StartAsk, AccessInv, AccessTypeOK, AskStates

\* One record changes, and every request is informed.
LEMMA InformedOK ==
    ASSUME AccessInv, NEW t \in AskStates, AskOK(t, flag, grant),
           NEW g \in Gated, NEW to \in Records,
           \/ flag' = [flag EXCEPT ![g] = to] /\ grant' = grant
           \/ grant' = [grant EXCEPT ![g] = to] /\ flag' = flag
    PROVE  Informed(t) \in AskStates /\ AskOK(Informed(t), flag', grant')
<1>1. CASE t.pc \notin {"guard", "search"}
  BY <1>1 DEF Informed, AskOK
<1>2. CASE t.pc \in {"guard", "search"}
  <2>1. FlagOn' \in SUBSET Gated /\ GrantOn' \in SUBSET Gated
    BY DEF FlagOn, GrantOn
  <2>2. PICK s : s = Seeing(t, FlagOn', GrantOn') /\ Notes(s, t, FlagOn', GrantOn')
    BY <1>2, <2>1, SeeingNotes
  <2>3. PICK k \in 0 .. 2 : k = IF s.changes = 2 THEN 2 ELSE s.changes + 1
    BY <2>2 DEF AskStates, Notes
  <2>4. PICK u : u = [s EXCEPT !.changes = k] /\ u = Informed(t)
    BY <1>2, <2>2, <2>3 DEF Informed
  <2>5. /\ u \in AskStates /\ u.pc = t.pc /\ u.changes = k /\ k # 0
        /\ k < 2 => t.changes = 0
        /\ u.need = t.need /\ u.half = t.half /\ u.open = t.open
        /\ u.onFlag = s.onFlag /\ u.onGrant = s.onGrant /\ u.onBoth = s.onBoth
    BY <2>2, <2>3, <2>4 DEF AskStates, Notes
  <2>6. \A f \in Gated : f \in About(t) \/ t.pc = "search" =>
           /\ f \in u.onFlag <=> f \in t.onFlag \/ Enabled(flag'[f])
           /\ f \in u.onGrant <=> f \in t.onGrant \/ Enabled(grant'[f])
           /\ f \in u.onBoth <=>
                 f \in t.onBoth \/ (Enabled(flag'[f]) /\ Enabled(grant'[f]))
    BY <2>2, <2>5 DEF FlagOn, GrantOn, Notes
  <2>7. /\ About(u) = About(t)
        /\ \A f \in t.half \cup t.open : f \in Gated /\ f \in About(t)
    BY <2>5 DEF About, AskStates
  <2>8. u.changes < 2 => \A f \in u.half :
           Enabled(flag'[f]) \/ (Enabled(grant'[f]) => f \in u.onBoth)
    <3> SUFFICES ASSUME u.changes < 2, NEW f \in u.half
                 PROVE  Enabled(flag'[f]) \/ (Enabled(grant'[f]) => f \in u.onBoth)
      OBVIOUS
    <3>1. f \in Gated /\ f \in About(t) /\ Enabled(flag[f])
          /\ (Enabled(flag[f]) /\ Enabled(grant[f]) => f \in t.onBoth)
      BY <1>2, <2>5, <2>7 DEF AskOK
    <3>2. f \in t.onBoth => f \in u.onBoth
      BY <2>6, <3>1
    <3>3. CASE grant' = grant
      BY <3>1, <3>2, <3>3
    <3>4. CASE flag' = flag
      BY <3>1, <3>4
    <3>. QED  BY <3>3, <3>4
  <2>9. u.changes < 2 => \A f \in u.open : f \in u.onBoth
    BY <1>2, <2>5, <2>6, <2>7 DEF AskOK
  <2>10. /\ \A f \in u.half \cup u.open : f \in u.onFlag
         /\ \A f \in u.open : f \in u.onGrant
    BY <1>2, <2>5, <2>6, <2>7 DEF AskOK
  <2>11. \A f \in Gated : f \in About(u) \/ u.pc = "search" =>
            /\ Enabled(flag'[f]) => f \in u.onFlag
            /\ Enabled(grant'[f]) => f \in u.onGrant
            /\ Enabled(flag'[f]) /\ Enabled(grant'[f]) => f \in u.onBoth
    BY <2>5, <2>6, <2>7
  <2>. QED  BY <2>4, <2>5, <2>8, <2>9, <2>10, <2>11 DEF AskOK
<1>. QED  BY <1>1, <1>2

LEMMA SwitchFlagStep ==
    ASSUME AccessInv, NEW f \in Gated, NEW to \in {"on", "off"}, SwitchFlag(f, to)
    PROVE  AccessInv'
<1>1. to \in Records /\ flag' = [flag EXCEPT ![f] = to] /\ grant' = grant
      /\ ask' = [a \in Askers |-> Informed(ask[a])]
  BY DEF SwitchFlag, Records
<1>2. \A a \in Askers : Informed(ask[a]) \in AskStates
                        /\ AskOK(Informed(ask[a]), flag', grant')
  BY <1>1, AccessParts, InformedOK
<1>3. flag' \in [Gated -> Records] /\ grant' \in [Gated -> Records]
  BY <1>1, AccessParts
<1>. QED  BY <1>1, <1>2, <1>3 DEF AccessInv, AccessTypeOK, AskStates

LEMMA WritePermissionStep ==
    ASSUME AccessInv, NEW a \in Askers, NEW f \in Gated, NEW to \in {"on", "off"},
           WritePermission(a, f, to)
    PROVE  AccessInv'
<1>0. PICK told : told = IF grant[f] = to THEN ask
                         ELSE [b \in Askers |-> Informed(ask[b])]
  OBVIOUS
<1> DEFINE left == ask[a].need \ {f}
<1>1. /\ to \in Records /\ grant' = [grant EXCEPT ![f] = to] /\ flag' = flag
      /\ ask[a].pc = "assign"
      /\ ask' = [told EXCEPT ![a] = IF left = {} THEN NoAsk
                                    ELSE [told[a] EXCEPT !.need = left]]
  BY <1>0 DEF WritePermission, Records
<1>2. told \in [Askers -> AskStates] /\ \A b \in Askers : AskOK(told[b], flag', grant')
  <2>1. CASE grant[f] = to
    <3>1. grant' = grant
      BY <1>1, <2>1, AccessParts
    <3>. QED  BY <1>0, <1>1, <2>1, <3>1, AccessParts
  <2>2. CASE grant[f] # to
    BY <1>0, <1>1, <2>2, AccessParts, InformedOK
  <2>. QED  BY <2>1, <2>2
<1>3. told[a] = ask[a]
  BY <1>0, <1>1, AccessParts DEF Informed
<1>4. ASSUME NEW b \in Askers
      PROVE  ask'[b] \in AskStates /\ AskOK(ask'[b], flag', grant')
  <2>1. CASE b # a
    BY <1>1, <1>2, <2>1
  <2>2. CASE b = a /\ left = {}
    BY <1>1, <1>2, <2>2, NoAskOK
  <2>3. CASE b = a /\ left # {}
    <3>1. PICK t \in AskStates : t = ask[a] /\ t = told[a]
      BY <1>3, AccessParts
    <3>2. left \in SUBSET Gated
      BY AccessParts DEF AskStates
    <3> HIDE DEF left
    <3>3. ask'[b] = [t EXCEPT !.need = left]
      BY <1>1, <1>2, <2>3, <3>1
    <3>. QED  BY <1>1, <3>1, <3>2, <3>3 DEF AskStates, AskOK
  <2>. QED  BY <2>1, <2>2, <2>3
<1>5. ask' \in [Askers -> AskStates] /\ grant' \in [Gated -> Records]
  BY <1>1, <1>2, <1>4, AccessParts
<1>. QED  BY <1>1, <1>4, <1>5, AccessParts DEF AccessInv, AccessTypeOK, AskStates

\* The record of one request changes, and no flag or permission.
LEMMA AskChanges ==
    ASSUME AccessInv, NEW a \in Askers, NEW u \in AskStates, AskOK(u, flag, grant),
           ask' = [ask EXCEPT ![a] = u], UNCHANGED <<flag, grant>>
    PROVE  AccessInv'
BY AccessParts DEF AccessInv, AccessTypeOK, AskStates

LEMMA EndAskStep ==
    ASSUME AccessInv, NEW a \in Askers, EndAsk(a), UNCHANGED <<flag, grant>>
    PROVE  AccessInv'
BY NoAskOK, AskChanges DEF EndAsk

\* The flag of feature f is read, and then the permission.
LEMMA ReadFlag ==
    ASSUME AccessInv, NEW a \in Askers, NEW f \in Gated, IsFeatureEnabled(a, f)
    PROVE  AccessInv'
<1>1. PICK t \in AskStates : t = ask[a] /\ AskOK(t, flag, grant)
  BY AccessParts
<1>2. /\ t.pc \in {"guard", "search"} /\ f \in t.need /\ UNCHANGED <<flag, grant>>
      /\ f \in About(t)
  BY <1>1 DEF IsFeatureEnabled, About
<1>3. PICK rest \in SUBSET Gated : rest = t.need \ {f}
  BY DEF AskStates
<1>4. CASE Enabled(flag[f])
  <2>1. PICK half \in SUBSET Gated : half = t.half \cup {f}
    BY DEF AskStates
  <2>2. PICK u : u = [t EXCEPT !.need = rest, !.half = half]
                 /\ ask' = [ask EXCEPT ![a] = u]
    BY <1>1, <1>3, <1>4, <2>1, AccessParts DEF IsFeatureEnabled
  <2>3. /\ u \in AskStates /\ u.pc = t.pc /\ u.need = rest /\ u.half = half
        /\ u.open = t.open /\ u.onFlag = t.onFlag /\ u.onGrant = t.onGrant
        /\ u.onBoth = t.onBoth /\ u.changes = t.changes
    BY <2>2 DEF AskStates
  <2>4. About(u) = About(t)
    BY <1>2, <1>3, <2>1, <2>3 DEF About
  <2>5. AskOK(u, flag, grant)
    BY <1>1, <1>2, <1>4, <2>1, <2>3, <2>4 DEF AskOK
  <2>. QED  BY <1>2, <2>2, <2>3, <2>5, AskChanges
<1>5. CASE ~Enabled(flag[f]) /\ t.pc = "guard"
  BY <1>1, <1>2, <1>5, EndAskStep DEF IsFeatureEnabled
<1>6. CASE ~Enabled(flag[f]) /\ t.pc = "search"
  <2>1. PICK u : u = [t EXCEPT !.need = rest] /\ ask' = [ask EXCEPT ![a] = u]
    BY <1>1, <1>3, <1>6, AccessParts DEF IsFeatureEnabled
  <2>2. /\ u \in AskStates /\ u.pc = "search" /\ u.half = t.half
        /\ u.open = t.open /\ u.onFlag = t.onFlag /\ u.onGrant = t.onGrant
        /\ u.onBoth = t.onBoth /\ u.changes = t.changes
    BY <1>6, <2>1 DEF AskStates
  <2>3. AskOK(u, flag, grant)
    BY <1>1, <1>6, <2>2 DEF AskOK
  <2>. QED  BY <1>2, <2>1, <2>2, <2>3, AskChanges
<1>. QED  BY <1>2, <1>4, <1>5, <1>6

LEMMA ReadPermission ==
    ASSUME AccessInv, NEW a \in Askers, NEW f \in Gated, IsFeatureEnabledForUser(a, f)
    PROVE  AccessInv'
<1>1. PICK t \in AskStates : t = ask[a] /\ AskOK(t, flag, grant)
  BY AccessParts
<1>2. f \in t.half /\ UNCHANGED <<flag, grant>> /\ f \in About(t)
  BY <1>1 DEF IsFeatureEnabledForUser, About
<1>3. PICK half \in SUBSET Gated : half = t.half \ {f}
  BY DEF AskStates
<1>4. CASE Enabled(grant[f])
  <2>1. PICK open \in SUBSET Gated : open = t.open \cup {f}
    BY DEF AskStates
  <2>2. PICK u : u = [t EXCEPT !.half = half, !.open = open]
                 /\ ask' = [ask EXCEPT ![a] = u]
    BY <1>1, <1>3, <1>4, <2>1, AccessParts DEF IsFeatureEnabledForUser, Passes
  <2>3. /\ u \in AskStates /\ u.pc = t.pc /\ u.need = t.need /\ u.half = half
        /\ u.open = open /\ u.onFlag = t.onFlag /\ u.onGrant = t.onGrant
        /\ u.onBoth = t.onBoth /\ u.changes = t.changes
    BY <2>2 DEF AskStates
  <2>4. About(u) = About(t)
    BY <1>2, <1>3, <2>1, <2>3 DEF About
  <2>5. AskOK(u, flag, grant)
    BY <1>1, <1>2, <1>3, <1>4, <2>1, <2>3, <2>4 DEF AskOK
  <2>. QED  BY <1>2, <2>2, <2>3, <2>5, AskChanges
<1>5. CASE ~Enabled(grant[f]) /\ t.pc = "guard"
  BY <1>1, <1>2, <1>5, EndAskStep DEF IsFeatureEnabledForUser, Passes
<1>6. CASE ~Enabled(grant[f]) /\ t.pc # "guard"
  <2>1. PICK u : u = [t EXCEPT !.half = half] /\ ask' = [ask EXCEPT ![a] = u]
    BY <1>1, <1>3, <1>6, AccessParts DEF IsFeatureEnabledForUser, Passes
  <2>2. /\ u \in AskStates /\ u.pc = t.pc /\ u.half = half
        /\ u.open = t.open /\ u.onFlag = t.onFlag /\ u.onGrant = t.onGrant
        /\ u.onBoth = t.onBoth /\ u.changes = t.changes
    BY <2>1 DEF AskStates
  <2>3. AskOK(u, flag, grant)
    BY <1>1, <1>3, <1>6, <2>2 DEF AskOK
  <2>. QED  BY <1>2, <2>1, <2>2, <2>3, AskChanges
<1>. QED  BY <1>4, <1>5, <1>6

LEMMA AccessStep == AccessInv /\ AccessNext => AccessInv'
<1> SUFFICES ASSUME AccessInv, AccessNext PROVE AccessInv'
  OBVIOUS
<1>1. ASSUME NEW a \in Askers, NEW need \in SUBSET Gated,
             CanActivate(a, need) \/ UpdateUserFeaturePermissions(a, need)
      PROVE  AccessInv'
  BY <1>1, StartAskOK DEF CanActivate, UpdateUserFeaturePermissions
<1>2. ASSUME NEW a \in Askers, Search(a) PROVE AccessInv'
  BY <1>2, StartAskOK DEF Search
<1>3. ASSUME NEW a \in Askers, EndRequest(a) PROVE AccessInv'
  BY <1>3, EndAskStep DEF EndRequest
<1>. QED  BY <1>1, <1>2, <1>3, SwitchFlagStep, WritePermissionStep, ReadFlag,
             ReadPermission DEF AccessNext

LEMMA AccessInvHolds == AccessSpec => []AccessInv
<1>1. AccessInit => AccessInv
  BY NoAskOK DEF AccessInit, AccessInv, AccessTypeOK, Records, AskStates
<1>2. AccessInv /\ UNCHANGED accessVars => AccessInv'
  BY DEF AccessInv, AccessTypeOK, accessVars
<1>. QED  BY <1>1, <1>2, AccessStep, PTL DEF AccessSpec

\* The features that FeatureGuard lets a request through with, and those that
\* SearchService searches, were enabled for the tenant and for the user since
\* the request began, and both at once when at most one record has changed.
THEOREM AccessTheorem == AccessSpec => []AccessBacked
<1>1. AccessInv => AccessBacked
  <2> SUFFICES ASSUME AccessInv, NEW a \in Askers, Through(a)
               PROVE  /\ ask[a].open \subseteq ask[a].onFlag \cap ask[a].onGrant
                      /\ ask[a].changes < 2 => ask[a].open \subseteq ask[a].onBoth
    BY DEF AccessBacked
  <2>. QED  BY AccessParts DEF Through, AskOK
<1>. QED  BY <1>1, AccessInvHolds, PTL

\* getUserFeatures and the guard combine flag and permission to the same.
THEOREM MenuTheorem == AccessSpec => []MenuAgrees
<1>1. AccessInv => MenuAgrees
  BY DEF AccessInv, AccessTypeOK, MenuAgrees, GetUserFeatures, Passes, Enabled, Records
<1>. QED  BY <1>1, AccessInvHolds, PTL

-----------------------------------------------------------------------------
(* Accounts: the tenants that requests are still adding accounts to.          *)

AccountStates == [tenant : Slugs \cup {NoSlug, Elsewhere}, role : Roles, hashes : 0 .. 2]
DeskStates ==
    [pc : {"idle", "email", "tenant", "plan", "check", "look", "insert",
           "delete", "reset"},
     slug : Slugs \cup {NoSlug}, email : Emails \cup {NoEmail},
     role : Roles, hashes : 0 .. 1, by : {"signup", "admin", "member"}]

\* A request that has its tenant and not yet its account.
Adding(t) == t.pc \in {"plan", "check", "look", "insert"}
Signing(t) == Adding(t) /\ t.by = "signup"
Founding(t, s) == Adding(t) /\ t.by # "member" /\ t.slug = s

\* What a request knows by where it is.
DeskShape(t) ==
    /\ t.pc # "idle" => t.slug \in Slugs
    /\ t.pc \notin {"idle", "delete"} => t.email \in Emails
    /\ t.pc \in {"email", "plan"} => t.by = "signup"
    /\ t.pc = "check" => t.by # "signup"
    /\ t.pc = "tenant" => t.by # "member"
    /\ t.pc \in {"delete", "reset"} => t.by = "member"
    /\ t.by # "member" /\ t.pc # "idle" => t.role = "OWNER"

\* What it has done, or found, still holds, or its tenant was deleted.
DeskOK(t) ==
    /\ Adding(t) => Exists(t.slug) \/ t.slug \in raced
    /\ Signing(t) => /\ tenancy[t.slug] # "absent"
                     /\ \A p \in signedUp : p[1] # t.slug
    /\ Signing(t) /\ t.pc # "plan" => t.slug \in subscribed
    /\ t.pc = "delete" => Members(t.slug) = {} \/ t.slug \in raced

PairOK(p) ==
    /\ tenancy[p[1]] # "absent"
    /\ Exists(p[1]) \/ p[1] \in raced
    /\ p[1] \in subscribed
    /\ p[2] \in Owners(p[1])

TenantOK(s) ==
    /\ Members(s) = {} \/ Exists(s) \/ s \in raced
    /\ \/ ~Exists(s) \/ s \in bare \/ s \in ownerless \/ Owners(s) # {}
       \/ \E d \in Desks : Founding(desk[d], s)

AccountInv ==
    /\ tenancy \in [Slugs -> {"absent", "active", "suspended", "gone"}]
    /\ account \in [Emails -> AccountStates]
    /\ desk \in [Desks -> DeskStates]
    /\ subscribed \subseteq Slugs /\ ownerless \subseteq Slugs /\ raced \subseteq Slugs
    /\ signedUp \subseteq Slugs \X Emails
    /\ \A d \in Desks : DeskShape(desk[d]) /\ DeskOK(desk[d])
    /\ \A d, c \in Desks : Signing(desk[d]) /\ Signing(desk[c]) /\ d # c =>
          desk[d].slug # desk[c].slug
    /\ \A p \in signedUp : PairOK(p)
    /\ \A p, q \in signedUp : p[1] = q[1] => p = q
    /\ \A s \in Slugs : TenantOK(s)
-----------------------------------------------------------------------------
LEMMA NoDeskOK ==
    /\ NoDesk \in DeskStates /\ DeskShape(NoDesk) /\ NoDesk.pc = "idle"
    /\ ~Adding(NoDesk)
BY DEF NoDesk, DeskStates, DeskShape, Adding, Roles

\* A request goes on, or ends, and no account changes: it signs up only for
\* the tenant it has inserted, and what it leaves unowned is noted.
LEMMA DeskChanges ==
    ASSUME AccountInv, NEW d \in Desks, NEW t \in DeskStates, t = desk[d],
           NEW u \in DeskStates, desk' = [desk EXCEPT ![d] = u],
           UNCHANGED <<tenancy, account, signedUp, bare, raced>>,
           subscribed \subseteq subscribed', subscribed' \subseteq Slugs,
           ownerless \subseteq ownerless', ownerless' \subseteq Slugs,
           DeskShape(u),
           Adding(u) => Exists(u.slug) \/ u.slug \in raced,
           Signing(u) => Signing(t) /\ u.slug = t.slug,
           Signing(u) /\ u.pc # "plan" => u.slug \in subscribed',
           u.pc = "delete" => Members(u.slug) = {},
           \A s \in Slugs : Founding(t, s) =>
              Founding(u, s) \/ ~Exists(s) \/ s \in ownerless'
    PROVE  AccountInv'
<1>1. desk' \in [Desks -> DeskStates] /\ desk'[d] = u
      /\ \A c \in Desks : c # d => desk'[c] = desk[c]
  BY DEF AccountInv
<1>2. \A s : Exists(s)' = Exists(s) /\ Members(s)' = Members(s) /\ Owners(s)' = Owners(s)
  BY DEF Exists, Members, Owners
<1>3. ASSUME NEW c \in Desks PROVE DeskShape(desk'[c]) /\ DeskOK(desk[c])'
  <2>1. CASE c = d
    <3>1. DeskOK(u)'
      BY <1>2 DEF AccountInv, DeskOK
    <3>. QED  BY <1>1, <2>1, <3>1 DEF DeskOK
  <2>2. CASE c # d
    <3>1. PICK w \in DeskStates : w = desk[c] /\ w = desk'[c] /\ DeskShape(w) /\ DeskOK(w)
      BY <1>1, <2>2 DEF AccountInv
    <3>2. DeskOK(w)'
      BY <1>2, <3>1 DEF DeskOK
    <3>. QED  BY <3>1, <3>2 DEF DeskOK
  <2>. QED  BY <2>1, <2>2
<1>4. ASSUME NEW c \in Desks, NEW e \in Desks, Signing(desk'[c]), Signing(desk'[e]), c # e
      PROVE  desk'[c].slug # desk'[e].slug
  BY <1>1, <1>4 DEF AccountInv
<1>5. ASSUME NEW p \in signedUp PROVE PairOK(p)'
  BY <1>2 DEF AccountInv, PairOK
<1>6. ASSUME NEW s \in Slugs PROVE TenantOK(s)'
  <2>1. TenantOK(s)
    BY DEF AccountInv
  <2>2. ASSUME NEW c \in Desks, Founding(desk[c], s)
        PROVE  ~Exists(s) \/ s \in ownerless' \/ \E e \in Desks : Founding(desk'[e], s)
    BY <1>1, <2>2
  <2>. QED  BY <1>2, <2>1, <2>2 DEF TenantOK
<1>. QED  BY <1>1, <1>3, <1>4, <1>5, <1>6 DEF AccountInv

\* A request begins.
LEMMA OpenStep ==
    ASSUME AccountInv, NEW d \in Desks, NEW s \in Slugs,
           NEW e \in Emails \cup {NoEmail}, NEW role \in Roles, NEW hashes \in 0 .. 1,
           NEW by \in {"signup", "admin", "member"},
           NEW pc \in {"email", "tenant", "check", "look", "delete", "reset"},
           Open(d, pc, s, e, role, hashes, by),
           pc # "delete" => e \in Emails,
           pc \in {"check", "look"} => by = "member" /\ Exists(s),
           pc = "email" => by = "signup", pc = "tenant" => by # "member",
           by # "member" => role = "OWNER",
           pc \in {"delete", "reset"} => by = "member",
           pc = "delete" => Members(s) = {}
    PROVE  AccountInv'
<1>1. PICK t \in DeskStates : t = desk[d] /\ t.pc = "idle"
  BY DEF AccountInv, Open
<1>2. PICK u : u = [pc |-> pc, slug |-> s, email |-> e, role |-> role,
                    hashes |-> hashes, by |-> by]
  OBVIOUS
<1>3. /\ u \in DeskStates /\ u.pc = pc /\ u.slug = s /\ u.email = e
      /\ u.role = role /\ u.by = by
  BY <1>2 DEF DeskStates
<1>4. desk' = [desk EXCEPT ![d] = u]
      /\ UNCHANGED <<tenancy, subscribed, account, signedUp, bare, ownerless, raced>>
  BY <1>2 DEF Open
<1>5. ~Adding(t) /\ \A r : ~Founding(t, r)
  BY <1>1 DEF Adding, Founding
<1>6. DeskShape(u) /\ ~Signing(u) /\ (Adding(u) => Exists(s))
      /\ (u.pc = "delete" => Members(s) = {})
  BY <1>3 DEF DeskShape, Signing, Adding
<1>7. subscribed \subseteq Slugs /\ ownerless \subseteq Slugs
  BY DEF AccountInv
<1>. QED  BY <1>1, <1>3, <1>4, <1>5, <1>6, <1>7, DeskChanges

LEMMA GiveUpStep ==
    ASSUME AccountInv, NEW d \in Desks, GiveUp(d),
           UNCHANGED <<tenancy, subscribed, account, signedUp, bare, raced>>
    PROVE  AccountInv'
<1>1. PICK t \in DeskStates : t = desk[d] /\ DeskShape(t)
  BY DEF AccountInv
<1>2. PICK u \in DeskStates : /\ u = NoDesk /\ DeskShape(u) /\ u.pc = "idle"
                             /\ ~Adding(u)
  BY NoDeskOK
<1>3. desk' = [desk EXCEPT ![d] = u]
  BY <1>2 DEF GiveUp, Leave
<1>4. ownerless' = ownerless \cup {s \in {t.slug} : t.by # "member" /\ Exists(s)
                      /\ t.pc \in {"plan", "check", "look", "insert"}}
  BY <1>1 DEF GiveUp
<1>5. ownerless' \subseteq Slugs /\ ownerless \subseteq ownerless' /\ subscribed \subseteq Slugs
  BY <1>1, <1>4 DEF AccountInv, DeskShape
<1>6. \A s \in Slugs : Founding(t, s) => ~Exists(s) \/ s \in ownerless'
  BY <1>4 DEF Founding, Adding
<1>7. ~Signing(u)
  BY <1>2 DEF Signing
<1>. QED  BY <1>1, <1>2, <1>3, <1>5, <1>6, <1>7, DeskChanges

\* A request that has no tenant yet ends.
LEMMA LeaveStep ==
    ASSUME AccountInv, NEW d \in Desks, Leave(d), ~Adding(desk[d]),
           UNCHANGED <<tenancy, subscribed, account, signedUp, bare, ownerless, raced>>
    PROVE  AccountInv'
<1>1. GiveUp(d)
  BY DEF GiveUp, Adding
<1>. QED  BY <1>1, GiveUpStep

\* A request goes on with the same tenant and account.
LEMMA GotoStep ==
    ASSUME AccountInv, NEW d \in Desks, NEW t \in DeskStates, t = desk[d],
           NEW pc \in {"tenant", "look", "insert"}, Goto(d, pc),
           UNCHANGED <<tenancy, account, signedUp, bare, ownerless, raced>>,
           subscribed' = subscribed \/ (subscribed' = subscribed \cup {t.slug}
                                       /\ t.pc = "plan"),
           pc = "tenant" => t.pc = "email",
           pc = "look" => t.pc = "check" \/ (t.pc = "plan" /\ t.slug \in subscribed'),
           pc = "insert" => t.pc = "look"
    PROVE  AccountInv'
<1>1. DeskShape(t) /\ DeskOK(t)
  BY DEF AccountInv
<1>2. PICK u : u = [t EXCEPT !.pc = pc] /\ desk' = [desk EXCEPT ![d] = u]
  BY DEF Goto, AccountInv
<1>3. /\ u \in DeskStates /\ u.pc = pc /\ u.slug = t.slug /\ u.email = t.email
      /\ u.role = t.role /\ u.by = t.by
  BY <1>2 DEF DeskStates
<1>4. DeskShape(u)
  BY <1>1, <1>3 DEF DeskShape
<1>5. /\ Adding(u) => Exists(u.slug) \/ u.slug \in raced
      /\ Signing(u) => Signing(t)
      /\ Signing(u) => u.slug \in subscribed'
      /\ \A s : Founding(t, s) => Founding(u, s)
      /\ u.pc # "delete"
  BY <1>1, <1>3 DEF DeskOK, DeskShape, Adding, Signing, Founding
<1>6. /\ subscribed \subseteq subscribed' /\ subscribed' \subseteq Slugs
      /\ ownerless \subseteq Slugs
  BY <1>1 DEF AccountInv, DeskShape
<1>. QED  BY <1>2, <1>3, <1>4, <1>5, <1>6, DeskChanges

LEMMA DeskSteps ==
    ASSUME AccountInv, NEW d \in Desks,
           \/ SignupEmail(d) \/ AssignPlan(d) \/ LookForEmail(d) \/ LoseDesk(d)
    PROVE  AccountInv'
<1>1. PICK t \in DeskStates : t = desk[d]
  BY DEF AccountInv
<1>2. CASE SignupEmail(d)
  <2>1. ~Adding(desk[d]) /\ t.pc = "email"
    BY <1>1, <1>2 DEF SignupEmail, Adding
  <2>. QED  BY <1>1, <1>2, <2>1, LeaveStep, GotoStep DEF SignupEmail
<1>3. CASE AssignPlan(d)
  <2>1. CASE Exists(desk[d].slug)
    <3>1. /\ subscribed' = subscribed \cup {t.slug} /\ t.pc = "plan"
          /\ t.slug \in subscribed' /\ Goto(d, "look")
          /\ UNCHANGED <<tenancy, account, signedUp, bare, ownerless, raced>>
      BY <1>1, <1>3, <2>1 DEF AssignPlan
    <3>. QED  BY <1>1, <3>1, GotoStep
  <2>2. CASE ~Exists(desk[d].slug)
    BY <1>3, <2>2, GiveUpStep DEF AssignPlan
  <2>. QED  BY <2>1, <2>2
<1>4. CASE LookForEmail(d)
  <2>1. CASE desk[d].email \in Members(desk[d].slug)
    BY <1>4, <2>1, GiveUpStep DEF LookForEmail
  <2>2. CASE desk[d].email \notin Members(desk[d].slug) /\ t.pc = "check"
    <3>1. Goto(d, "look") /\ UNCHANGED <<tenancy, subscribed, account, signedUp, bare, ownerless, raced>>
      BY <1>1, <1>4, <2>2 DEF LookForEmail
    <3>. QED  BY <1>1, <2>2, <3>1, GotoStep
  <2>3. CASE desk[d].email \notin Members(desk[d].slug) /\ t.pc # "check"
    <3>1. /\ Goto(d, "insert") /\ t.pc = "look"
          /\ UNCHANGED <<tenancy, subscribed, account, signedUp, bare, ownerless, raced>>
      BY <1>1, <1>4, <2>3 DEF LookForEmail
    <3>. QED  BY <1>1, <3>1, GotoStep
  <2>. QED  BY <2>1, <2>2, <2>3
<1>5. CASE LoseDesk(d)
  BY <1>5, GiveUpStep DEF LoseDesk
<1>. QED  BY <1>2, <1>3, <1>4, <1>5

LEMMA StartSteps ==
    ASSUME AccountInv, NEW d \in Desks, NEW s \in Slugs,
           \/ \E e \in Emails :
                 \/ Signup(d, s, e) \/ AdminCreateTenant(d, s, e)
                 \/ \E role \in Roles : Register(d, s, e, role) \/ AddUser(d, s, e, role)
           \/ AdminRemoveTenant(d, s) \/ FindOwner(d, s)
    PROVE  AccountInv'
<1>0. /\ "OWNER" \in Roles /\ "STAFF" \in Roles /\ 0 \in 0 .. 1 /\ 1 \in 0 .. 1
      /\ tenancy[s] = "active" => Exists(s)
  BY DEF Roles, Exists
<1>1. ASSUME NEW e \in Emails, Signup(d, s, e) PROVE AccountInv'
  BY <1>0, <1>1, OpenStep DEF Signup
<1>2. ASSUME NEW e \in Emails, AdminCreateTenant(d, s, e) PROVE AccountInv'
  BY <1>0, <1>2, OpenStep DEF AdminCreateTenant
<1>3. ASSUME NEW e \in Emails, NEW role \in Roles, Register(d, s, e, role)
      PROVE  AccountInv'
  BY <1>0, <1>3, OpenStep DEF Register
<1>4. ASSUME NEW e \in Emails, NEW role \in Roles, AddUser(d, s, e, role)
      PROVE  AccountInv'
  BY <1>0, <1>4, OpenStep DEF AddUser
<1>5. CASE AdminRemoveTenant(d, s)
  BY <1>0, <1>5, OpenStep DEF AdminRemoveTenant, MayRemove
<1>6. CASE FindOwner(d, s)
  <2>1. PICK e \in Owners(s) : Open(d, "reset", s, e, "STAFF", 0, "member")
    BY <1>6 DEF FindOwner
  <2>2. e \in Emails
    BY DEF Owners, Members
  <2>. QED  BY <1>0, <2>1, <2>2, OpenStep
<1>. QED  BY <1>1, <1>2, <1>3, <1>4, <1>5, <1>6
-----------------------------------------------------------------------------
\* The requests but those that end, which were adding no account.
Remain == /\ desk' \in [Desks -> DeskStates]
          /\ \A c \in Desks : \/ desk'[c] = desk[c]
                              \/ ~Adding(desk[c]) /\ desk'[c] = NoDesk

LEMMA RemainOK ==
    ASSUME AccountInv, Remain
    PROVE  /\ \A c \in Desks : DeskShape(desk'[c])
           /\ \A c, e \in Desks : Signing(desk'[c]) /\ Signing(desk'[e]) /\ c # e =>
                 desk'[c].slug # desk'[e].slug
           /\ \A s, c : c \in Desks /\ Founding(desk[c], s) => Founding(desk'[c], s)
<1>1. ~Signing(NoDesk)
  BY NoDeskOK DEF Signing
<1>. QED  BY <1>1, NoDeskOK DEF AccountInv, Remain, Founding

\* What a request knows goes on to hold.
LEMMA DeskKept ==
    ASSUME AccountInv, Remain, NEW c \in Desks, subscribed' = subscribed,
           raced \subseteq raced', signedUp' \subseteq signedUp,
           \A s \in Slugs : s = desk'[c].slug =>
              /\ tenancy[s] # "absent" => tenancy'[s] # "absent"
              /\ Exists(s) => Exists(s)' \/ s \in raced'
              /\ Members(s)' \subseteq Members(s)
    PROVE  DeskOK(desk[c])'
<1>1. PICK w \in DeskStates : w = desk'[c] /\ DeskShape(w)
  BY RemainOK DEF Remain
<1>2. DeskOK(w) \/ w.pc = "idle"
  BY <1>1, NoDeskOK DEF Remain, AccountInv
<1>3. w.pc # "idle" => w.slug \in Slugs
  BY <1>1 DEF DeskShape
<1>4. PICK s : s = w.slug
  OBVIOUS
<1>5. s \in Slugs =>
         /\ tenancy[s] # "absent" => tenancy'[s] # "absent"
         /\ Exists(s) => Exists(s)' \/ s \in raced'
         /\ Members(s)' \subseteq Members(s)
  BY <1>1, <1>4
<1>6. CASE w.pc = "idle"
  <2>1. DeskOK(w)'
    BY <1>6 DEF DeskOK, Adding, Signing
  <2>. QED  BY <1>1, <2>1 DEF DeskOK
<1>7. CASE w.pc # "idle"
  <2>1. DeskOK(w)'
    BY <1>2, <1>3, <1>4, <1>5, <1>7 DEF DeskOK
  <2>. QED  BY <1>1, <2>1 DEF DeskOK
<1>. QED  BY <1>6, <1>7

\* Accounts change or go: no account moves to a tenant, and a tenant that
\* loses its owner is noted.
LEMMA AccountChanges ==
    ASSUME AccountInv, Remain, UNCHANGED <<tenancy, subscribed, bare, raced>>,
           account' \in [Emails -> AccountStates],
           ownerless \subseteq ownerless', ownerless' \subseteq Slugs,
           signedUp' \subseteq signedUp,
           \A s \in Slugs : Members(s)' \subseteq Members(s),
           \A p \in signedUp' : p[2] \in Owners(p[1])',
           \A s \in Slugs : Exists(s) /\ Owners(s) # {} =>
              Owners(s)' # {} \/ s \in ownerless'
    PROVE  AccountInv'
<1>1. \A s : Exists(s)' = Exists(s)
  BY DEF Exists
<1>2. ASSUME NEW c \in Desks PROVE DeskOK(desk[c])'
  BY <1>1, DeskKept
<1>3. ASSUME NEW p \in signedUp' PROVE PairOK(p)'
  BY <1>1 DEF AccountInv, PairOK
<1>4. ASSUME NEW s \in Slugs PROVE TenantOK(s)'
  BY <1>1, RemainOK DEF AccountInv, TenantOK
<1>. QED  BY <1>2, <1>3, <1>4, RemainOK DEF AccountInv, Remain

\* A tenant is created or gets another status, or a slug is taken.
LEMMA StatusChanges ==
    ASSUME AccountInv,
           UNCHANGED <<subscribed, account, desk, signedUp, ownerless, raced>>,
           NEW s \in Slugs, NEW status \in {"active", "suspended", "gone"},
           tenancy' = [tenancy EXCEPT ![s] = status], bare \subseteq bare',
           IF status = "gone" THEN ~Exists(s) ELSE Exists(s) \/ s \in bare'
    PROVE  AccountInv'
<1>1. Remain
  BY DEF Remain, AccountInv
<1>2. /\ tenancy' \in [Slugs -> {"absent", "active", "suspended", "gone"}]
      /\ \A r \in Slugs : /\ tenancy[r] # "absent" => tenancy'[r] # "absent"
                          /\ Exists(r) => Exists(r)'
                          /\ Exists(r)' => Exists(r) \/ r \in bare'
  BY DEF AccountInv, Exists
<1>3. \A r : Members(r)' = Members(r) /\ Owners(r)' = Owners(r)
  BY DEF Members, Owners
<1>4. ASSUME NEW c \in Desks PROVE DeskOK(desk[c])'
  BY <1>1, <1>2, <1>3, DeskKept
<1>5. ASSUME NEW p \in signedUp PROVE PairOK(p)'
  BY <1>2, <1>3 DEF AccountInv, PairOK
<1>6. ASSUME NEW r \in Slugs PROVE TenantOK(r)'
  BY <1>2, <1>3 DEF AccountInv, TenantOK
<1>. QED  BY <1>1, <1>2, <1>4, <1>5, <1>6, RemainOK DEF AccountInv, Remain

\* A tenant is deleted.
LEMMA DropStep ==
    ASSUME AccountInv, Remain, NEW s \in Slugs, Drop(s),
           UNCHANGED <<subscribed, account, bare>>,
           raced \subseteq raced', raced' \subseteq Slugs,
           \/ s \in raced'
           \/ Members(s) = {} /\ \A c \in Desks : desk'[c].slug # s
    PROVE  AccountInv'
<1>1. /\ tenancy' \in [Slugs -> {"absent", "active", "suspended", "gone"}]
      /\ tenancy'[s] = "gone" /\ ~Exists(s)'
      /\ \A r \in Slugs : r # s => tenancy'[r] = tenancy[r] /\ Exists(r)' = Exists(r)
  BY DEF AccountInv, Drop, Exists
<1>2. \A r : Members(r)' = Members(r) /\ Owners(r)' = Owners(r)
  BY DEF Members, Owners
<1>3. /\ \A p \in signedUp' : p \in signedUp /\ p[1] # s
      /\ ownerless' \subseteq Slugs /\ \A r \in ownerless : r # s => r \in ownerless'
  BY DEF AccountInv, Drop
<1>4. ASSUME NEW c \in Desks PROVE DeskOK(desk[c])'
  <2>1. \A r \in Slugs : r = desk'[c].slug =>
              /\ tenancy[r] # "absent" => tenancy'[r] # "absent"
              /\ Exists(r) => Exists(r)' \/ r \in raced'
              /\ Members(r)' \subseteq Members(r)
    BY <1>1, <1>2
  <2>. QED  BY <1>3, <2>1, DeskKept
<1>5. ASSUME NEW p \in signedUp' PROVE PairOK(p)'
  <2>1. p \in Slugs \X Emails /\ PairOK(p) /\ p[1] # s
    BY <1>3 DEF AccountInv
  <2>. QED  BY <1>1, <1>2, <2>1 DEF PairOK
<1>6. ASSUME NEW r \in Slugs PROVE TenantOK(r)'
  BY <1>1, <1>2, <1>3, RemainOK DEF AccountInv, TenantOK
<1>. QED  BY <1>1, <1>3, <1>4, <1>5, <1>6, RemainOK DEF AccountInv, Remain
-----------------------------------------------------------------------------
LEMMA InsertTenantStep ==
    ASSUME AccountInv, NEW d \in Desks, InsertTenant(d)
    PROVE  AccountInv'
<1>1. PICK t \in DeskStates : t = desk[d] /\ t.pc = "tenant" /\ DeskShape(t)
  BY DEF AccountInv, InsertTenant
<1>2. PICK s \in Slugs : s = t.slug
  BY <1>1 DEF DeskShape
<1>3. CASE ~SlugFree(s)
  BY <1>1, <1>2, <1>3, LeaveStep DEF InsertTenant, Adding
<1>4. CASE SlugFree(s)
  <2>1. PICK pc \in {"plan", "check"} : pc = IF t.by = "signup" THEN "plan" ELSE "check"
    OBVIOUS
  <2>2. PICK u : u = [t EXCEPT !.pc = pc]
    OBVIOUS
  <2>3. /\ desk' = [desk EXCEPT ![d] = u] /\ tenancy' = [tenancy EXCEPT ![s] = "active"]
        /\ UNCHANGED <<subscribed, account, signedUp, bare, ownerless, raced>>
    BY <1>1, <1>2, <1>4, <2>1, <2>2 DEF InsertTenant, Goto, AccountInv
  <2>4. /\ u \in DeskStates /\ u.pc = pc /\ u.slug = s /\ u.by = t.by
        /\ u.email = t.email /\ u.role = t.role
    BY <1>2, <2>2 DEF DeskStates
  <2>5. DeskShape(u) /\ Adding(u) /\ Founding(u, s) /\ (Signing(u) => pc = "plan")
    BY <1>1, <1>2, <2>1, <2>4 DEF DeskShape, Adding, Founding, Signing
  <2>6. /\ desk' \in [Desks -> DeskStates] /\ desk'[d] = u
        /\ \A c \in Desks : c # d => desk'[c] = desk[c]
    BY <2>3, <2>4 DEF AccountInv
  <2>7. /\ tenancy' \in [Slugs -> {"absent", "active", "suspended", "gone"}]
        /\ tenancy'[s] = "active" /\ Exists(s)' /\ tenancy[s] = "absent"
        /\ \A r \in Slugs : r # s => tenancy'[r] = tenancy[r] /\ Exists(r)' = Exists(r)
    BY <1>4, <2>3 DEF AccountInv, Exists, SlugFree
  <2>8. \A r : Members(r)' = Members(r) /\ Owners(r)' = Owners(r)
    BY <2>3 DEF Members, Owners
  <2>9. \A p \in signedUp : p[1] # s
    BY <2>7 DEF AccountInv, PairOK
  <2>10. ASSUME NEW c \in Desks PROVE DeskShape(desk'[c]) /\ DeskOK(desk[c])'
    <3>1. CASE c = d
      <4>1. DeskOK(u)'
        BY <2>1, <2>3, <2>4, <2>5, <2>7, <2>9 DEF DeskOK
      <4>. QED  BY <2>5, <2>6, <3>1, <4>1 DEF DeskOK
    <3>2. CASE c # d
      <4>1. PICK w \in DeskStates : /\ w = desk[c] /\ w = desk'[c]
                                   /\ DeskShape(w) /\ DeskOK(w)
        BY <2>6, <3>2 DEF AccountInv
      <4>2. w.pc # "idle" => w.slug \in Slugs
        BY <4>1 DEF DeskShape
      <4>3. DeskOK(w)'
        BY <2>3, <2>7, <2>8, <4>1, <4>2 DEF DeskOK, Adding, Signing
      <4>. QED  BY <4>1, <4>3 DEF DeskOK
    <3>. QED  BY <3>1, <3>2
  <2>11. ASSUME NEW c \in Desks, NEW e \in Desks, Signing(desk'[c]), Signing(desk'[e]),
                c # e
         PROVE  desk'[c].slug # desk'[e].slug
    <3>1. \A b \in Desks : Signing(desk[b]) => desk[b].slug # s
      BY <2>7 DEF AccountInv, DeskOK
    <3>. QED  BY <2>4, <2>6, <2>11, <3>1 DEF AccountInv
  <2>12. ASSUME NEW p \in signedUp PROVE PairOK(p)'
    <3>1. p \in Slugs \X Emails /\ PairOK(p)
      BY DEF AccountInv
    <3>. QED  BY <2>3, <2>7, <2>8, <2>9, <3>1 DEF PairOK
  <2>13. ASSUME NEW r \in Slugs PROVE TenantOK(r)'
    <3>1. CASE r = s
      BY <2>5, <2>6, <2>7, <3>1 DEF TenantOK
    <3>2. CASE r # s
      <4>1. \A c \in Desks : Founding(desk[c], r) => Founding(desk'[c], r)
        BY <1>1, <2>6 DEF Founding, Adding
      <4>. QED  BY <2>3, <2>7, <2>8, <3>2, <4>1 DEF AccountInv, TenantOK
    <3>. QED  BY <3>1, <3>2
  <2>. QED  BY <2>3, <2>6, <2>7, <2>10, <2>11, <2>12, <2>13 DEF AccountInv
<1>. QED  BY <1>3, <1>4

LEMMA InsertUserStep ==
    ASSUME AccountInv, NEW d \in Desks, InsertUser(d)
    PROVE  AccountInv'
<1>1. PICK t \in DeskStates : /\ t = desk[d] /\ t.pc = "insert" /\ DeskShape(t)
                             /\ DeskOK(t)
  BY DEF AccountInv, InsertUser
<1>2. PICK s \in Slugs, e \in Emails : s = t.slug /\ e = t.email
  BY <1>1 DEF DeskShape
<1>3. CASE account[e] # NoAccount
  BY <1>1, <1>2, <1>3, GiveUpStep DEF InsertUser
<1>4. CASE account[e] = NoAccount
  <2>1. PICK a \in AccountStates : a = NewAccount(d) /\ a.tenant = s /\ a.role = t.role
    <3>1. PICK h \in 0 .. 2 : h = t.hashes + 1
      BY DEF DeskStates
    <3>2. PICK b : b = [tenant |-> s, role |-> t.role, hashes |-> h]
      OBVIOUS
    <3>3. b \in AccountStates /\ b.tenant = s /\ b.role = t.role
      BY <3>2 DEF AccountStates, DeskStates
    <3>4. b = NewAccount(d)
      BY <1>1, <1>2, <3>1, <3>2 DEF NewAccount
    <3>. QED  BY <3>3, <3>4
  <2>2. PICK new, late : /\ new = IF t.by = "signup" THEN {<<s, e>>} ELSE {}
                         /\ late = IF \E c \in Desks : desk[c].pc = "delete"
                                                       /\ desk[c].slug = s
                                   THEN {s} ELSE {}
    OBVIOUS
  <2>3. /\ account' = [account EXCEPT ![e] = a] /\ signedUp' = signedUp \cup new
        /\ raced' = raced \cup late /\ desk' = [desk EXCEPT ![d] = NoDesk]
        /\ UNCHANGED <<tenancy, subscribed, bare, ownerless>>
    BY <1>1, <1>2, <1>4, <2>1, <2>2 DEF InsertUser, Leave
  <2>4. /\ desk' \in [Desks -> DeskStates] /\ desk'[d] = NoDesk
        /\ \A c \in Desks : c # d => desk'[c] = desk[c]
    BY <2>3, NoDeskOK DEF AccountInv
  <2>5. /\ account' \in [Emails -> AccountStates] /\ raced \subseteq raced'
        /\ raced' \subseteq Slugs /\ signedUp' \subseteq Slugs \X Emails
    BY <2>1, <2>2, <2>3 DEF AccountInv
  <2>6. \A r : Exists(r)' = Exists(r)
    BY <2>3 DEF Exists
  <2>7. /\ \A r \in Slugs : /\ Members(r) \subseteq Members(r)'
                            /\ Owners(r) \subseteq Owners(r)'
                            /\ r # s => Members(r)' = Members(r)
        /\ t.role = "OWNER" => e \in Owners(s)'
    <3>1. account[e].tenant = NoSlug
      BY <1>4 DEF NoAccount
    <3>. QED  BY <2>1, <2>3, <3>1, AccountAssumption DEF AccountInv, Members, Owners
  <2>8. Exists(s) \/ s \in raced
    BY <1>1, <1>2 DEF DeskOK, Adding
  <2>9. ASSUME NEW c \in Desks PROVE DeskShape(desk'[c]) /\ DeskOK(desk[c])'
    <3>1. CASE c = d
      <4>1. PICK w \in DeskStates : w = NoDesk /\ w.pc = "idle" /\ DeskShape(w)
        BY NoDeskOK
      <4>2. DeskOK(w)'
        BY <4>1 DEF DeskOK, Adding, Signing
      <4>. QED  BY <2>4, <3>1, <4>1, <4>2 DEF DeskOK
    <3>2. CASE c # d
      <4>1. PICK w \in DeskStates : /\ w = desk[c] /\ w = desk'[c]
                                   /\ DeskShape(w) /\ DeskOK(w)
        BY <2>4, <3>2 DEF AccountInv
      <4>2. w.pc # "idle" => w.slug \in Slugs
        BY <4>1 DEF DeskShape
      <4>3. w.pc = "delete" => Members(w.slug)' = {} \/ w.slug \in raced'
        BY <2>2, <2>3, <2>5, <2>7, <4>1, <4>2 DEF DeskOK
      <4>4. Signing(w) => \A p \in signedUp' : p[1] # w.slug
        <5>1. Signing(w) /\ t.by = "signup" => w.slug # s
          BY <1>1, <1>2, <3>2, <4>1 DEF AccountInv, Signing, Adding
        <5>. QED  BY <2>2, <2>3, <4>1, <5>1 DEF DeskOK
      <4>5. DeskOK(w)'
        BY <2>3, <2>5, <2>6, <4>1, <4>3, <4>4 DEF DeskOK
      <4>. QED  BY <4>1, <4>5 DEF DeskOK
    <3>. QED  BY <3>1, <3>2
  <2>10. ASSUME NEW c \in Desks, NEW f \in Desks, Signing(desk'[c]), Signing(desk'[f]),
                c # f
         PROVE  desk'[c].slug # desk'[f].slug
    BY <2>4, <2>10, NoDeskOK DEF AccountInv, Signing
  <2>11. ASSUME NEW p \in signedUp' PROVE PairOK(p)'
    <3>1. CASE p \in signedUp
      <4>1. p \in Slugs \X Emails /\ PairOK(p)
        BY <3>1 DEF AccountInv
      <4>. QED  BY <2>3, <2>5, <2>6, <2>7, <4>1 DEF PairOK
    <3>2. CASE p \notin signedUp
      <4>1. p = <<s, e>> /\ t.by = "signup"
        BY <2>2, <2>3, <3>2
      <4>2. /\ tenancy[s] # "absent" /\ s \in subscribed /\ t.role = "OWNER"
        BY <1>1, <1>2, <4>1 DEF DeskOK, DeskShape, Signing, Adding
      <4>. QED  BY <2>3, <2>5, <2>6, <2>7, <2>8, <4>1, <4>2 DEF PairOK
    <3>. QED  BY <3>1, <3>2
  <2>12. ASSUME NEW p \in signedUp', NEW q \in signedUp', p[1] = q[1] PROVE p = q
    <3>1. t.by = "signup" => \A r \in signedUp : r[1] # s
      BY <1>1, <1>2 DEF DeskOK, Signing, Adding
    <3>. QED  BY <2>2, <2>3, <2>12, <3>1 DEF AccountInv
  <2>13. ASSUME NEW r \in Slugs PROVE TenantOK(r)'
    <3>1. TenantOK(r)
      BY DEF AccountInv
    <3>2. CASE r = s
      <4>1. Members(s)' = {} \/ Exists(s)' \/ s \in raced'
        BY <2>5, <2>6, <2>8
      <4>2. t.by # "member" => Owners(s)' # {}
        BY <1>1, <2>7 DEF DeskShape
      <4>3. t.by = "member" => \A c \in Desks : Founding(desk[c], s) => Founding(desk'[c], s)
        BY <1>1, <2>4 DEF Founding
      <4>. QED  BY <2>3, <2>6, <2>7, <3>1, <3>2, <4>1, <4>2, <4>3 DEF TenantOK
    <3>3. CASE r # s
      <4>1. \A c \in Desks : Founding(desk[c], r) => Founding(desk'[c], r)
        BY <1>1, <1>2, <2>4, <3>3 DEF Founding
      <4>. QED  BY <2>3, <2>5, <2>6, <2>7, <3>1, <3>3, <4>1 DEF TenantOK
    <3>. QED  BY <3>2, <3>3
  <2>. QED  BY <2>3, <2>4, <2>5, <2>9, <2>10, <2>11, <2>12, <2>13 DEF AccountInv
<1>. QED  BY <1>3, <1>4

LEMMA DeleteSteps ==
    ASSUME AccountInv,
           \/ \E d \in Desks : AdminDelete(d) \/ ResetPassword(d)
           \/ \E s \in Slugs : OwnerRemoveTenant(s)
    PROVE  AccountInv'
<1>1. ASSUME NEW d \in Desks, AdminDelete(d) PROVE AccountInv'
  <2>1. PICK t \in DeskStates : /\ t = desk[d] /\ t.pc = "delete" /\ DeskOK(t)
                               /\ DeskShape(t)
    BY <1>1 DEF AccountInv, AdminDelete
  <2>2. PICK s \in Slugs : s = t.slug
    BY <2>1 DEF DeskShape
  <2>3. CASE ~Exists(s)
    BY <1>1, <2>1, <2>2, <2>3, LeaveStep DEF AdminDelete, Adding
  <2>4. CASE Exists(s)
    <3>1. /\ Drop(s) /\ desk' = [desk EXCEPT ![d] = NoDesk]
          /\ raced' = raced \cup
                (IF \E c \in Desks \ {d} : desk[c].slug = s THEN {s} ELSE {})
          /\ UNCHANGED <<subscribed, account, bare>>
      BY <1>1, <2>1, <2>2, <2>4 DEF AdminDelete, Leave
    <3>2. Remain
      BY <2>1, <3>1, NoDeskOK DEF AccountInv, Remain, Adding
    <3>3. raced \subseteq raced' /\ raced' \subseteq Slugs
      BY <3>1 DEF AccountInv
    <3>4. s \in raced' \/ \A c \in Desks : desk'[c].slug # s
      BY <3>1, AccountAssumption DEF AccountInv, NoDesk
    <3>5. s \in raced' \/ Members(s) = {}
      BY <2>1, <2>2, <3>3 DEF DeskOK
    <3>. QED  BY <3>1, <3>2, <3>3, <3>4, <3>5, DropStep
  <2>. QED  BY <2>3, <2>4
<1>2. ASSUME NEW s \in Slugs, OwnerRemoveTenant(s) PROVE AccountInv'
  BY <1>2, DropStep DEF OwnerRemoveTenant, Remain, AccountInv
<1>3. ASSUME NEW d \in Desks, ResetPassword(d) PROVE AccountInv'
  <2>1. /\ Remain /\ UNCHANGED <<tenancy, subscribed, signedUp, bare, ownerless, raced>>
    BY <1>3, NoDeskOK DEF ResetPassword, Leave, AccountInv, Remain, Adding
  <2>2. PICK t \in DeskStates : t = desk[d] /\ t.email \in Emails
    BY <1>3 DEF ResetPassword, AccountInv, DeskShape
  <2>3. PICK h \in 0 .. 2 : account' = [account EXCEPT ![t.email].hashes = h]
    <3>1. PICK h \in 0 .. 2 : h = IF account[t.email].tenant = t.slug THEN 1
                                 ELSE account[t.email].hashes
      BY <2>2 DEF AccountInv, AccountStates
    <3>2. account' = [account EXCEPT ![t.email].hashes = h]
      BY <1>3, <2>2, <3>1 DEF ResetPassword
    <3>. QED  BY <3>2
  <2>. QED  BY <2>1, <2>2, <2>3, AccountChanges
            DEF AccountInv, AccountStates, Members, Owners, PairOK
<1>. QED  BY <1>1, <1>2, <1>3

\* One account gets another role, another password, or is deleted; its signup
\* is not counted on any more, and a tenant that may have lost its owner noted.
LEMMA OneAccount ==
    ASSUME AccountInv, UNCHANGED <<tenancy, subscribed, desk, bare, raced>>,
           NEW e \in Emails, NEW a \in AccountStates, account' = [account EXCEPT ![e] = a],
           a.tenant \in {account[e].tenant, NoSlug},
           Unsign(e) \/ (/\ a.tenant = account[e].tenant /\ a.role = account[e].role
                        /\ UNCHANGED <<signedUp, ownerless>>)
    PROVE  AccountInv'
<1>1. Remain
  BY DEF AccountInv, Remain
<1>2. account' \in [Emails -> AccountStates]
  BY DEF AccountInv
<1>3. \A s \in Slugs : Members(s)' \subseteq Members(s)
  BY AccountAssumption DEF AccountInv, Members
<1>4. CASE Unsign(e)
  <2>1. /\ ownerless \subseteq ownerless' /\ ownerless' \subseteq Slugs
        /\ signedUp' \subseteq signedUp
    BY <1>4 DEF Unsign, AccountInv
  <2>2. ASSUME NEW p \in signedUp' PROVE p[2] \in Owners(p[1])'
    <3>1. p \in Slugs \X Emails /\ PairOK(p) /\ p[2] # e
      BY <1>4, <2>2 DEF Unsign, AccountInv
    <3>. QED  BY <3>1 DEF PairOK, AccountInv, Owners, Members
  <2>3. ASSUME NEW s \in Slugs, Exists(s), Owners(s) # {}
        PROVE  Owners(s)' # {} \/ s \in ownerless'
    <3>1. PICK f \in Owners(s) : TRUE
      BY <2>3
    <3>2. CASE f = e
      BY <1>4, <2>3, <3>1, <3>2 DEF Unsign
    <3>3. CASE f # e
      BY <3>1, <3>3 DEF AccountInv, Owners, Members
    <3>. QED  BY <3>2, <3>3
  <2>. QED  BY <1>1, <1>2, <1>3, <2>1, <2>2, <2>3, AccountChanges
<1>5. CASE /\ a.tenant = account[e].tenant /\ a.role = account[e].role
           /\ UNCHANGED <<signedUp, ownerless>>
  <2>1. \A s : Owners(s)' = Owners(s)
    BY <1>5 DEF AccountInv, Owners, Members
  <2>. QED  BY <1>1, <1>2, <1>3, <1>5, <2>1, AccountChanges DEF AccountInv, PairOK
<1>. QED  BY <1>4, <1>5

\* An account gets another email, and with it who holds it by its id.
LEMMA EmailStep ==
    ASSUME AccountInv, NEW e \in Emails, NEW f \in Emails, SetEmail(e, f)
    PROVE  AccountInv'
<1>1. PICK a \in AccountStates : a = account[e]
  BY DEF AccountInv
<1>2. e # f /\ account[f] = NoAccount /\ NoAccount \in AccountStates
      /\ NoAccount.tenant \notin Slugs
  BY AccountAssumption DEF SetEmail, NoAccount, AccountStates, Roles
<1>3. /\ account' \in [Emails -> AccountStates]
      /\ account'[e] = NoAccount /\ account'[f] = a
      /\ \A g \in Emails : g # e /\ g # f => account'[g] = account[g]
  BY <1>1, <1>2 DEF SetEmail, AccountInv
<1>4. \A s \in Slugs : /\ Exists(s)' = Exists(s)
                       /\ Members(s) = {} => Members(s)' = {}
                       /\ Owners(s) # {} => Owners(s)' # {}
  <2>1. ASSUME NEW s \in Slugs, Members(s) = {} PROVE Members(s)' = {}
    BY <1>1, <1>2, <1>3, <2>1 DEF Members
  <2>2. ASSUME NEW s \in Slugs, NEW g \in Owners(s) PROVE Owners(s)' # {}
    <3>1. CASE g = e
      BY <1>1, <1>3, <2>2, <3>1 DEF Owners, Members
    <3>2. CASE g # e
      BY <1>2, <1>3, <2>2, <3>2 DEF Owners, Members
    <3>. QED  BY <3>1, <3>2
  <2>3. \A s \in Slugs : Exists(s)' = Exists(s)
    BY DEF Exists, SetEmail
  <2>. QED  BY <2>1, <2>2, <2>3
<1>5. ASSUME NEW d \in Desks
      PROVE  /\ desk'[d] \in DeskStates /\ DeskShape(desk'[d])
             /\ desk'[d].pc = desk[d].pc /\ desk'[d].slug = desk[d].slug
             /\ desk'[d].by = desk[d].by
  <2>1. PICK t \in DeskStates : t = desk[d] /\ DeskShape(t)
    BY DEF AccountInv
  <2>2. PICK u : u = [t EXCEPT !.email = f]
    OBVIOUS
  <2>3. /\ u \in DeskStates /\ u.pc = t.pc /\ u.slug = t.slug /\ u.email = f
        /\ u.role = t.role /\ u.by = t.by
    BY <2>2 DEF DeskStates
  <2>4. desk'[d] = t \/ desk'[d] = u
    BY <2>1, <2>2 DEF SetEmail
  <2>. QED  BY <2>1, <2>3, <2>4 DEF DeskShape
<1>6. desk' \in [Desks -> DeskStates]
  <2>1. desk' = [d \in Desks |-> desk'[d]]
    BY DEF SetEmail
  <2>. QED  BY <1>5, <2>1
<1>7. ASSUME NEW p \in signedUp'
      PROVE  /\ p \in Slugs \X Emails /\ PairOK(p)'
             /\ \E q \in signedUp : p = <<q[1], IF q[2] = e THEN f ELSE q[2]>>
  <2>1. PICK q \in signedUp : p = <<q[1], IF q[2] = e THEN f ELSE q[2]>>
    BY DEF SetEmail
  <2>2. q \in Slugs \X Emails /\ PairOK(q)
    BY DEF AccountInv
  <2>3. q[1] \in Slugs /\ q[2] \in Emails /\ q[2] \in Owners(q[1])
    BY <2>2 DEF PairOK
  <2>4. q[2] # f
    BY <1>2, <2>3 DEF Owners, Members
  <2>5. p[2] \in Owners(p[1])'
    <3>1. CASE q[2] = e
      BY <1>1, <1>3, <2>1, <2>3, <3>1 DEF Owners, Members
    <3>2. CASE q[2] # e
      BY <1>3, <2>1, <2>3, <2>4, <3>2 DEF Owners, Members
    <3>. QED  BY <3>1, <3>2
  <2>6. p[1] = q[1] /\ p \in Slugs \X Emails
    BY <2>1, <2>3
  <2>7. PairOK(p)'
    BY <1>4, <2>2, <2>3, <2>5, <2>6 DEF PairOK, SetEmail
  <2>. QED  BY <2>1, <2>6, <2>7
<1>8. ASSUME NEW d \in Desks PROVE DeskOK(desk[d])'
  <2>1. PICK u \in DeskStates : u = desk'[d] /\ DeskShape(u)
    BY <1>5
  <2>2. DeskOK(u) /\ (u.pc # "idle" => u.slug \in Slugs)
    BY <1>5, <2>1 DEF AccountInv, DeskOK, Adding, Signing, DeskShape
  <2>3. Signing(u) => \A p \in signedUp' : p[1] # u.slug
    BY <1>7, <2>2 DEF DeskOK
  <2>4. DeskOK(u)'
    BY <1>4, <2>2, <2>3 DEF DeskOK, SetEmail, Adding, Signing
  <2>. QED  BY <2>1, <2>4 DEF DeskOK
<1>9. \A d, c \in Desks : Signing(desk'[d]) /\ Signing(desk'[c]) /\ d # c =>
          desk'[d].slug # desk'[c].slug
  BY <1>5 DEF AccountInv, Signing, Adding
<1>10. ASSUME NEW p \in signedUp', NEW q \in signedUp', p[1] = q[1] PROVE p = q
  <2>1. PICK p0 \in signedUp : p = <<p0[1], IF p0[2] = e THEN f ELSE p0[2]>>
    BY <1>7
  <2>2. PICK q0 \in signedUp : q = <<q0[1], IF q0[2] = e THEN f ELSE q0[2]>>
    BY <1>7
  <2>3. p0 = q0
    BY <1>10, <2>1, <2>2 DEF AccountInv
  <2>. QED  BY <2>1, <2>2, <2>3
<1>11. ASSUME NEW s \in Slugs PROVE TenantOK(s)'
  <2>1. TenantOK(s)
    BY DEF AccountInv
  <2>2. (\E d \in Desks : Founding(desk[d], s)) => \E d \in Desks : Founding(desk'[d], s)
    BY <1>5 DEF Founding, Adding
  <2>. QED  BY <1>4, <2>1, <2>2 DEF TenantOK, SetEmail
<1>12. signedUp' \subseteq Slugs \X Emails
  BY <1>7
<1>. QED  BY <1>3, <1>5, <1>6, <1>7, <1>8, <1>9, <1>10, <1>11, <1>12
          DEF AccountInv, SetEmail

LEMMA WriteSteps ==
    ASSUME AccountInv,
           \/ \E s \in Slugs :
                 \/ OwnerCreateTenant(s) \/ SetSlug(s)
                 \/ \E status \in {"active", "suspended"} : SetStatus(s, status)
           \/ \E e \in Emails :
                 \/ \E role \in Roles : SetRole(e, role)
                 \/ SetPassword(e) \/ RemoveUser(e)
    PROVE  AccountInv'
<1>1. ASSUME NEW s \in Slugs, OwnerCreateTenant(s) PROVE AccountInv'
  <2>1. bare \subseteq bare' /\ s \in bare'
    BY <1>1 DEF OwnerCreateTenant
  <2>. QED  BY <1>1, <2>1, StatusChanges DEF OwnerCreateTenant
<1>2. ASSUME NEW s \in Slugs, NEW status \in {"active", "suspended"}, SetStatus(s, status)
      PROVE  AccountInv'
  <2>1. status # "gone" /\ Exists(s) /\ bare' = bare
    BY <1>2 DEF SetStatus
  <2>. QED  BY <1>2, <2>1, StatusChanges DEF SetStatus
<1>6. ASSUME NEW s \in Slugs, SetSlug(s) PROVE AccountInv'
  <2>1. ~Exists(s) /\ bare' = bare
    BY <1>6 DEF SetSlug, SlugFree, Exists
  <2>. QED  BY <1>6, <2>1, StatusChanges DEF SetSlug
<1>3. ASSUME NEW e \in Emails, NEW role \in Roles, SetRole(e, role) PROVE AccountInv'
  <2>1. PICK a : a = [account[e] EXCEPT !.role = role]
    OBVIOUS
  <2>2. a \in AccountStates /\ a.tenant = account[e].tenant
    BY <2>1 DEF AccountInv, AccountStates
  <2>3. account' = [account EXCEPT ![e] = a]
    BY <1>3, <2>1 DEF SetRole, AccountInv
  <2>. QED  BY <1>3, <2>2, <2>3, OneAccount DEF SetRole
<1>4. ASSUME NEW e \in Emails, SetPassword(e) PROVE AccountInv'
  <2>1. PICK a : a = [account[e] EXCEPT !.hashes = 1]
    OBVIOUS
  <2>2. a \in AccountStates /\ a.tenant = account[e].tenant /\ a.role = account[e].role
    BY <2>1 DEF AccountInv, AccountStates
  <2>3. account' = [account EXCEPT ![e] = a]
    BY <1>4, <2>1 DEF SetPassword, AccountInv
  <2>. QED  BY <1>4, <2>2, <2>3, OneAccount DEF SetPassword
<1>5. ASSUME NEW e \in Emails, RemoveUser(e) PROVE AccountInv'
  <2>1. NoAccount \in AccountStates /\ NoAccount.tenant = NoSlug
    BY DEF NoAccount, AccountStates, Roles
  <2>. QED  BY <1>5, <2>1, OneAccount DEF RemoveUser
<1>. QED  BY <1>1, <1>2, <1>3, <1>4, <1>5, <1>6

LEMMA AccountStep == AccountInv /\ AccountNext => AccountInv'
<1> SUFFICES ASSUME AccountInv, AccountNext PROVE AccountInv'
  OBVIOUS
<1>1. \/ \E d \in Desks, s \in Slugs :
            \/ \E e \in Emails :
                  \/ Signup(d, s, e) \/ AdminCreateTenant(d, s, e)
                  \/ \E role \in Roles : Register(d, s, e, role) \/ AddUser(d, s, e, role)
            \/ AdminRemoveTenant(d, s) \/ FindOwner(d, s)
      \/ \E d \in Desks :
            \/ SignupEmail(d) \/ InsertTenant(d) \/ AssignPlan(d) \/ LookForEmail(d)
            \/ InsertUser(d) \/ AdminDelete(d) \/ ResetPassword(d) \/ LoseDesk(d)
      \/ \E s \in Slugs :
            \/ OwnerCreateTenant(s) \/ OwnerRemoveTenant(s) \/ SetSlug(s)
            \/ \E status \in {"active", "suspended"} : SetStatus(s, status)
      \/ \E e \in Emails :
            \/ \E role \in Roles : SetRole(e, role)
            \/ \E f \in Emails : SetEmail(e, f)
            \/ SetPassword(e) \/ RemoveUser(e)
  BY DEF AccountNext
<1>. QED  BY <1>1, StartSteps, DeskSteps, InsertTenantStep, InsertUserStep, DeleteSteps,
             WriteSteps, EmailStep

LEMMA AccountInvHolds == AccountSpec => []AccountInv
<1>1. AccountInit => AccountInv
  <2> SUFFICES ASSUME AccountInit PROVE AccountInv
    OBVIOUS
  <2>1. account \in [Emails -> AccountStates]
    BY DEF AccountInit, NoAccount, AccountStates, Roles
  <2>2. \A s \in Slugs : Members(s) = {} /\ ~Exists(s)
    <3>1. \A s \in Slugs : ~Exists(s)
      BY DEF AccountInit, Exists
    <3>2. \A e \in Emails : account[e].tenant \notin Slugs
      BY AccountAssumption DEF AccountInit, NoAccount
    <3>. QED  BY <3>1, <3>2 DEF Members
  <2>. QED  BY <2>1, <2>2, NoDeskOK
            DEF AccountInit, AccountInv, DeskOK, Signing, TenantOK
<1>2. AccountInv /\ UNCHANGED accountVars => AccountInv'
  BY AccountChanges DEF accountVars, AccountInv, Remain, Members, Owners, PairOK
<1>. QED  BY <1>1, <1>2, AccountStep, PTL DEF AccountSpec

\* A signup that AuthService.signup answers with success has left a subscribed
\* tenant with its owner, and no two have the same slug or the same email.
THEOREM SignupTheorem == AccountSpec => []SignupComplete
<1>1. AccountInv => SignupComplete
  <2> SUFFICES ASSUME AccountInv PROVE SignupComplete
    OBVIOUS
  <2>1. ASSUME NEW p \in signedUp
        PROVE  /\ Exists(p[1]) \/ p[1] \in raced
               /\ p[1] \in subscribed /\ p[2] \in Owners(p[1])
    BY DEF AccountInv, PairOK
  <2>2. ASSUME NEW p \in signedUp, NEW q \in signedUp, p[1] = q[1] \/ p[2] = q[2]
        PROVE  p = q
    <3>1. p[2] = q[2] => p[1] = q[1]
      BY <2>1 DEF Owners, Members
    <3>. QED  BY <2>2, <3>1 DEF AccountInv
  <2>. QED  BY <2>1, <2>2 DEF SignupComplete
<1>. QED  BY <1>1, AccountInvHolds, PTL

\* getPlatformStats counts every account, but those left behind by an owner's
\* DELETE /tenants or added while the super admin deletes their tenant.
THEOREM UsersTheorem == AccountSpec => []UsersHaveTenants
<1>1. AccountInv => UsersHaveTenants
  BY DEF AccountInv, TenantOK, UsersHaveTenants, CountedUsers
<1>. QED  BY <1>1, AccountInvHolds, PTL

\* SuperAdminTenantsService.create and signup leave no tenant without an owner,
\* unless they fail half way or the owner is removed since; what has none by the
\* request that created it is a tenant of POST /tenants.
THEOREM OwnersTheorem == AccountSpec => []TenantsOwned
<1>1. AccountInv => TenantsOwned
  BY DEF AccountInv, TenantOK, TenantsOwned, Founding
<1>. QED  BY <1>1, AccountInvHolds, PTL
=============================================================================
