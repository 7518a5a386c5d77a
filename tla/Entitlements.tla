---------------------------- MODULE Entitlements ----------------------------
(***************************************************************************)
(* What a tenant is entitled to: its subscription to a plan, the feature   *)
(* flags copied from the plan, and the requests of the super admin that    *)
(* write them (PlansService and FeatureFlagService).  The tenant's limits  *)
(* are data here: the plan's are copied when it is assigned, without those *)
(* for buildings and never again, and PATCH of a tenant writes others;     *)
(* what holds them is the subject of PlanLimit.                            *)
(*                                                                         *)
(* assignPlanToTenant copies the plan into the tenant and its flags before *)
(* it inserts the subscription; an update of a plan's features copies them *)
(* to its subscribers, one write per flag.  No transaction holds the       *)
(* writes together.  A request in flight is a record: the call it makes    *)
(* next, the plan and its features as they were read, and what is left of  *)
(* its loops.                                                              *)
(*                                                                         *)
(* The variables touched and dropped belong to the verification: the       *)
(* tenants whose flags somebody else may have written meanwhile (another   *)
(* request, a request that ended half way, a manual change), and the plans *)
(* deleted while a request was assigning them.                             *)
(***************************************************************************)
EXTENDS FiniteSets

CONSTANTS
    Subscribers,  \* ids of tenants
    Catalogue,    \* ids of plans
    Features,     \* the feature keys
    NoPlanYet,    \* the plan of a tenant without a subscription
    Calls,        \* slots for requests in flight
    EntOps        \* the endpoints that are called

ASSUME EntAssumption ==
    /\ NoPlanYet \notin Subscribers /\ NoPlanYet \notin Catalogue
    /\ \A feats \in SUBSET Features : feats # NoPlanYet

VARIABLES
    features,  \* the features of every plan; NoPlanYet when it is deleted
    flags,     \* the feature flags of every tenant
    sub,       \* the subscriptions
    call,      \* the requests in flight
    touched,   \* history: tenants whose flags were written by several
    dropped    \* history: plans deleted while they were being assigned

entVars == <<features, flags, sub, call, touched, dropped>>
-----------------------------------------------------------------------------
AllEntOps == {"assign", "update", "remove", "manual", "due", "paid", "fail"}

\* Statuses some code writes; SUSPENDED and EXPIRED are never written.
SubStatuses == {"none", "TRIAL", "ACTIVE", "PAID", "DUE"}
Running     == {"ACTIVE", "TRIAL"}

NoSub  == [status |-> "none", plan |-> NoPlanYet, isPaid |-> FALSE]
NoCall == [pc |-> "idle", plan |-> NoPlanYet, feats |-> {}, at |-> NoPlanYet,
           left |-> {}, off |-> {}, on |-> {}, status |-> "none", free |-> FALSE]

EntTypeOK ==
    /\ features \in [Catalogue -> (SUBSET Features) \cup {NoPlanYet}]
    /\ flags \in [Subscribers -> [Features -> {"unset", "on", "off"}]]
    /\ sub \in [Subscribers -> [status : SubStatuses,
                   plan : Catalogue \cup {NoPlanYet}, isPaid : BOOLEAN]]
    /\ call \in [Calls ->
          [pc : {"idle", "admit", "limits", "copy", "subscribe", "find", "next",
                 "delete", "due", "paid", "manual"},
           plan : Catalogue \cup {NoPlanYet}, feats : SUBSET Features,
           at : Subscribers \cup {NoPlanYet}, left : SUBSET Subscribers,
           off : SUBSET Features, on : SUBSET Features, status : SubStatuses,
           free : BOOLEAN]]
    /\ touched \subseteq Subscribers
    /\ dropped \subseteq Catalogue

EntInit ==
    /\ features \in [Catalogue -> SUBSET Features]
    /\ flags = [t \in Subscribers |-> [f \in Features |-> "unset"]]
    /\ sub = [t \in Subscribers |-> NoSub]
    /\ call = [c \in Calls |-> NoCall]
    /\ touched = {}
    /\ dropped = {}

EndCall(c) == call' = [call EXCEPT ![c] = NoCall]

\* The tenants whose flags request c writes or is going to write, and those
\* some other request than c does.
Concerns(c) == IF call[c].pc \in {"due", "paid"} THEN {}
               ELSE Subscribers \cap ({call[c].at} \cup call[c].left)
OthersConcern(c) == UNION {Concerns(d) : d \in Calls \ {c}}

\* The flags a plan gives.
Copied(feats) == [f \in Features |-> IF f \in feats THEN "on" ELSE "off"]
-----------------------------------------------------------------------------
\* POST /admin/plans/tenant/:id/assign: the plan and the tenant are read.  A
\* trial, or a plan that is free by the price it has now, starts with a status
\* of its own.
AssignPlanToTenant(c, t, p, trial, free) ==
    /\ "assign" \in EntOps
    /\ call[c].pc = "idle"
    /\ features[p] # NoPlanYet
    /\ call' = [call EXCEPT ![c] =
          [NoCall EXCEPT !.pc = "admit", !.plan = p, !.feats = features[p],
             !.at = t, !.free = free,
             !.status = IF trial THEN "TRIAL"
                        ELSE IF free THEN "PAID" ELSE "ACTIVE"]]
    /\ touched' = touched \cup ({t} \cap OthersConcern(c))
    /\ UNCHANGED <<features, flags, sub, dropped>>

\* "Check if tenant already has an active subscription"
Admit(c) ==
    /\ call[c].pc = "admit"
    /\ IF sub[call[c].at].status \in Running
       THEN EndCall(c) ELSE call' = [call EXCEPT ![c].pc = "limits"]
    /\ UNCHANGED <<features, flags, sub, touched, dropped>>

\* tenantsService.update writes the plan's slug and limits, and the two loops
\* begin.
UpdateTenant(c) ==
    /\ call[c].pc = "limits"
    /\ call' = [call EXCEPT ![c].pc = "copy", ![c].off = Features,
                            ![c].on = call[c].feats, ![c].feats = {}]
    /\ UNCHANGED <<features, flags, sub, touched, dropped>>

\* setTenantFeature in the two loops: all flags off, then the plan's on.  The
\* first form runs them in the other order.
CopySwapped(c, f) ==
    \/ /\ f \in call[c].on
       /\ flags' = [flags EXCEPT ![call[c].at][f] = "on"]
       /\ call' = [call EXCEPT ![c].on = @ \ {f}]
    \/ /\ call[c].on = {} /\ f \in call[c].off
       /\ flags' = [flags EXCEPT ![call[c].at][f] = "off"]
       /\ call' = [call EXCEPT ![c].off = @ \ {f}]
SetTenantFeature(c, f) ==
    \/ /\ f \in call[c].off
       /\ flags' = [flags EXCEPT ![call[c].at][f] = "off"]
       /\ call' = [call EXCEPT ![c].off = @ \ {f}]
    \/ /\ call[c].off = {} /\ f \in call[c].on
       /\ flags' = [flags EXCEPT ![call[c].at][f] = "on"]
       /\ call' = [call EXCEPT ![c].on = @ \ {f}]

CopyFeature(c) ==
    /\ call[c].pc = "copy"
    /\ \E f \in Features : SetTenantFeature(c, f)
    /\ UNCHANGED <<features, sub, touched, dropped>>

\* Both loops are through: an assignment inserts its subscription, a sync
\* turns to its next subscriber.
FeaturesCopied(c) ==
    /\ call[c].pc = "copy"
    /\ call[c].off = {} /\ call[c].on = {}
    /\ call' = [call EXCEPT ![c] =
          IF @.status = "none" THEN [@ EXCEPT !.pc = "next", !.at = NoPlanYet]
                               ELSE [@ EXCEPT !.pc = "subscribe"]]
    /\ UNCHANGED <<features, flags, sub, touched, dropped>>

\* save(), which the unique index on tenantId refuses when there is a
\* subscription of any status; the first form has no index.
NoIndex(t)   == TRUE
MayInsert(t) == sub[t].status = "none"

Subscribe(c) ==
    /\ call[c].pc = "subscribe"
    /\ sub' = IF MayInsert(call[c].at)
              THEN [sub EXCEPT ![call[c].at] =
                      [status |-> call[c].status, plan |-> call[c].plan,
                       isPaid |-> call[c].free]]
              ELSE sub
    /\ dropped' = IF \E d \in Calls : /\ call[d].pc = "delete"
                                      /\ call[d].plan = call[c].plan
                  THEN dropped \cup {call[c].plan} ELSE dropped
    /\ EndCall(c)
    /\ UNCHANGED <<features, flags, touched>>
-----------------------------------------------------------------------------
\* PATCH /admin/plans/:id with features: the plan is written first.  What is
\* assigning or syncing the plan has read the old features.  An update of the
\* limits, the slug or the price alone is one write of the plan that reaches
\* no tenant, and no other request of this module but by the price it reads.
UpdatePlan(c, p, feats) ==
    /\ "update" \in EntOps
    /\ call[c].pc = "idle"
    /\ features[p] \notin {NoPlanYet, feats}
    /\ features' = [features EXCEPT ![p] = feats]
    /\ call' = [call EXCEPT ![c] = [NoCall EXCEPT !.pc = "find", !.plan = p,
                                                  !.feats = feats]]
    /\ touched' = touched \cup
          UNION {Concerns(d) : d \in {e \in Calls : call[e].plan = p}}
    /\ UNCHANGED <<flags, sub, dropped>>

\* The subscribers the sync finds; the first form forgets the trials.
ActiveOnly(p) ==
    {t \in Subscribers : sub[t].plan = p /\ sub[t].status = "ACTIVE"}
SubscribersOf(p) ==
    {t \in Subscribers : sub[t].plan = p /\ sub[t].status \in Running}

FindSubscribers(c) ==
    /\ call[c].pc = "find"
    /\ LET found == SubscribersOf(call[c].plan) IN
          /\ call' = [call EXCEPT ![c].pc = "next", ![c].left = found]
          /\ touched' = touched \cup
                (found \cap IF features[call[c].plan] = call[c].feats
                            THEN OthersConcern(c) ELSE Subscribers)
    /\ UNCHANGED <<features, flags, sub, dropped>>

NextSubscriber(c) ==
    /\ call[c].pc = "next"
    /\ IF call[c].left = {} THEN EndCall(c)
       ELSE \E t \in call[c].left :
               call' = [call EXCEPT ![c].pc = "copy", ![c].at = t,
                                    ![c].left = @ \ {t}, ![c].off = Features,
                                    ![c].on = call[c].feats]
    /\ UNCHANGED <<features, flags, sub, touched, dropped>>

\* DELETE /admin/plans/:id looks for subscriptions of any status; a plan that
\* has some is deactivated, which assignPlanToTenant does not look at.  The
\* first form forgets the look.
RemoveUnseen(p) == {}
Using(p)        == {t \in Subscribers : sub[t].plan = p}

RemovePlan(c, p) ==
    /\ "remove" \in EntOps
    /\ call[c].pc = "idle"
    /\ features[p] # NoPlanYet
    /\ Using(p) = {}
    /\ call' = [call EXCEPT ![c] = [NoCall EXCEPT !.pc = "delete", !.plan = p]]
    /\ UNCHANGED <<features, flags, sub, touched, dropped>>

\* findByIdAndDelete, while a request may be assigning the plan or have
\* assigned it since the look.
DeletePlan(c) ==
    /\ call[c].pc = "delete"
    /\ features' = [features EXCEPT ![call[c].plan] = NoPlanYet]
    /\ dropped' = IF \E d \in Calls \ {c} : call[d].plan = call[c].plan
                  THEN dropped \cup {call[c].plan} ELSE dropped
    /\ EndCall(c)
    /\ UNCHANGED <<flags, sub, touched>>
-----------------------------------------------------------------------------
\* PATCH of a tenant's features by its owner or the super admin: only a flag
\* that has been assigned is written (isFeatureAssigned, then bulkWrite).
UpdateTenantFeatures(c, t, f) ==
    /\ "manual" \in EntOps
    /\ call[c].pc = "idle"
    /\ flags[t][f] # "unset"
    /\ call' = [call EXCEPT ![c] = [NoCall EXCEPT !.pc = "manual", !.at = t,
                                                  !.on = {f}]]
    /\ touched' = touched \cup {t}
    /\ UNCHANGED <<features, flags, sub, dropped>>

WriteTenantFeatures(c) ==
    /\ call[c].pc = "manual"
    /\ \E f \in call[c].on, v \in {"on", "off"} :
          flags' = [flags EXCEPT ![call[c].at][f] = v]
    /\ EndCall(c)
    /\ UNCHANGED <<features, sub, touched, dropped>>

\* GET of the subscriptions due: any subset of the unpaid may be late by now.
GetSubscriptionsDue(c, late) ==
    /\ "due" \in EntOps
    /\ call[c].pc = "idle"
    /\ late # {}
    /\ \A t \in late : sub[t].status = "ACTIVE" /\ ~sub[t].isPaid
    /\ call' = [call EXCEPT ![c] = [NoCall EXCEPT !.pc = "due", !.left = late]]
    /\ UNCHANGED <<features, flags, sub, touched, dropped>>

\* sub.save() writes the status alone, of one subscription after the other.
SaveDue(c) ==
    /\ call[c].pc = "due"
    /\ IF call[c].left = {} THEN EndCall(c) /\ UNCHANGED sub
       ELSE \E t \in call[c].left :
              /\ sub' = [sub EXCEPT ![t].status = "DUE"]
              /\ call' = [call EXCEPT ![c].left = @ \ {t}]
    /\ UNCHANGED <<features, flags, touched, dropped>>

\* POST of a payment reads the subscription and its plan, and fails when the
\* plan is gone; the status stays what it is.
MarkSubscriptionPaid(c, t) ==
    /\ "paid" \in EntOps
    /\ call[c].pc = "idle"
    /\ sub[t].status # "none"
    /\ features[sub[t].plan] # NoPlanYet
    /\ call' = [call EXCEPT ![c] = [NoCall EXCEPT !.pc = "paid", !.at = t]]
    /\ UNCHANGED <<features, flags, sub, touched, dropped>>

SavePaid(c) ==
    /\ call[c].pc = "paid"
    /\ sub' = [sub EXCEPT ![call[c].at].isPaid = TRUE]
    /\ EndCall(c)
    /\ UNCHANGED <<features, flags, touched, dropped>>

\* A database call is rejected or the process stops: nothing is taken back.
LoseCall(c) ==
    /\ "fail" \in EntOps
    /\ call[c].pc # "idle"
    /\ touched' = touched \cup Concerns(c) \cup
          (IF call[c].pc = "find" THEN SubscribersOf(call[c].plan) ELSE {})
    /\ EndCall(c)
    /\ UNCHANGED <<features, flags, sub, dropped>>

EntStart(c) ==
    \/ \E t \in Subscribers, p \in Catalogue :
          \E trial, free \in BOOLEAN : AssignPlanToTenant(c, t, p, trial, free)
    \/ \E p \in Catalogue :
          \/ \E feats \in SUBSET Features : UpdatePlan(c, p, feats)
          \/ RemovePlan(c, p)
    \/ \E t \in Subscribers :
          \/ \E f \in Features : UpdateTenantFeatures(c, t, f)
          \/ MarkSubscriptionPaid(c, t)
    \/ \E late \in SUBSET Subscribers : GetSubscriptionsDue(c, late)

EntContinue(c) ==
    \/ Admit(c) \/ UpdateTenant(c) \/ CopyFeature(c) \/ FeaturesCopied(c)
    \/ Subscribe(c) \/ FindSubscribers(c) \/ NextSubscriber(c) \/ DeletePlan(c)
    \/ WriteTenantFeatures(c) \/ SaveDue(c) \/ SavePaid(c)

EntNext == \E c \in Calls : EntStart(c) \/ EntContinue(c) \/ LoseCall(c)

EntSpec == EntInit /\ [][EntNext]_entVars
-----------------------------------------------------------------------------
(* Properties *)

\* Whoever has a running subscription has the features of its plan switched
\* on, no more and no less, as soon as the requests about it are through, also
\* after updates of the plan's features; unless several requests met on the
\* tenant, one failed, or somebody changed its flags by hand.
FlagsFollowPlan ==
    \A t \in Subscribers :
        /\ sub[t].status \in Running
        /\ t \notin touched
        /\ \A c \in Calls : t \notin Concerns(c)
        /\ \A c \in Calls : ~(call[c].pc = "find" /\ call[c].plan = sub[t].plan)
        /\ sub[t].plan \notin dropped
        => flags[t] = Copied(features[sub[t].plan])

\* The subscriptions implement SubscriptionLife: one per tenant, with one plan
\* for good, whatever requests meet, and although assignPlanToTenant lets a
\* DUE or PAID tenant through to its writes.
Life == INSTANCE SubscriptionLife WITH
            Tenants <- Subscribers, Plans <- Catalogue, NoPlan <- NoPlanYet,
            life <- sub
SubscribedOnce == Life!Spec

\* A plan somebody is subscribed to is there, unless it was deleted while a
\* request was assigning it.
PlanKept ==
    \A t \in Subscribers :
        sub[t].plan # NoPlanYet /\ sub[t].plan \notin dropped
            => features[sub[t].plan] # NoPlanYet
=============================================================================
