----------------------------- MODULE PlanLimit -----------------------------
(***************************************************************************)
(* The plan limits of one tenant: PlanLimitService.checkLimit and the four *)
(* create endpoints that call it (rooms, beds, residents, staff).          *)
(*                                                                         *)
(* Each create counts the documents, reads the tenant, its subscription    *)
(* and the plan, compares, and saves some awaits later; nothing holds the  *)
(* collection in between.  A request in flight is a record: the call it    *)
(* makes next (pc), the kind it creates, the count it has read (used) and  *)
(* the limit it will compare it with.                                      *)
(*                                                                         *)
(* The variable highest belongs to the verification, not to the program:   *)
(* the largest limit that has been stored for the tenant so far.           *)
(***************************************************************************)
EXTENDS Integers, FiniteSets

CONSTANTS
    Kinds,        \* the kinds of documents that are limited
    Requests,     \* slots for create requests in flight
    LimitValues,  \* limits that a plan or a tenant may have
    MaxDocs       \* bound: no create starts at this many documents

Unlimited == -1

ASSUME PlanLimitAssumption ==
    /\ Kinds \subseteq {"rooms", "beds", "residents", "staff"}
    /\ IsFiniteSet(Requests) /\ Requests # {}
    /\ LimitValues \subseteq Nat \cup {Unlimited}
    /\ MaxDocs \in Nat

VARIABLES
    count,         \* the number of documents of each kind
    tenantLimits,  \* tenant.limits
    planLimits,    \* limits of the plan the tenant is subscribed to
    subscription,  \* status of the tenant's subscription
    req,           \* the create requests in flight
    highest        \* history: the largest limit stored so far

vars == <<count, tenantLimits, planLimits, subscription, req, highest>>
-----------------------------------------------------------------------------
\* Beds have no limit of their own: they share that of rooms.
LimitKey(k) == IF k = "beds" THEN "rooms" ELSE k
LimitKeys   == {LimitKey(k) : k \in Kinds}
Limits      == [LimitKeys -> LimitValues]

\* "none", ACTIVE, or one of TRIAL, PAID, DUE..., which are all "other".
Statuses == {"none", "active", "other"}

Idle == [pc |-> "idle", kind |-> "none", used |-> 0, limit |-> Unlimited]

RequestStates == [pc : {"idle", "tenant", "subscription", "plan", "save"},
                  kind : Kinds \cup {"none"}, used : Nat,
                  limit : LimitValues \cup {Unlimited}]

TypeOK ==
    /\ count \in [Kinds -> Nat]
    /\ tenantLimits \in Limits
    /\ planLimits \in Limits
    /\ subscription \in Statuses
    /\ req \in [Requests -> RequestStates]
    /\ highest \in [LimitKeys -> LimitValues \cup {Unlimited}]

Wider(a, b) == IF a = Unlimited \/ b = Unlimited THEN Unlimited
               ELSE IF a > b THEN a ELSE b

Init ==
    /\ count = [k \in Kinds |-> 0]
    /\ tenantLimits \in Limits
    /\ planLimits \in Limits
    /\ subscription \in Statuses
    /\ req = [p \in Requests |-> Idle]
    /\ highest = [key \in LimitKeys |->
                    Wider(tenantLimits[key], planLimits[key])]

Finish(p) == req' = [req EXCEPT ![p] = Idle]

\* What lets a create go on; the first form is the mistake by one.
AdmitsOneMore(used, limit) == limit = Unlimited \/ used <= limit
Admits(used, limit)        == limit = Unlimited \/ used < limit

\* The end of checkLimit: compare and go on, or throw PLAN_LIMIT_REACHED.
Compare(p, limit) ==
    IF Admits(req[p].used, limit)
    THEN req' = [req EXCEPT ![p].pc = "save"] ELSE Finish(p)
-----------------------------------------------------------------------------
\* countDocuments({ tenantId }), the first call of the four creates.
Count(p, k) ==
    /\ req[p].pc = "idle"
    /\ count[k] < MaxDocs
    /\ req' = [req EXCEPT ![p] = [pc |-> "tenant", kind |-> k,
                                  used |-> count[k], limit |-> Unlimited]]
    /\ UNCHANGED <<count, tenantLimits, planLimits, subscription, highest>>

\* tenantModel.findById
ReadTenant(p) ==
    /\ req[p].pc = "tenant"
    /\ req' = [req EXCEPT ![p] =
                 [@ EXCEPT !.pc = "subscription",
                           !.limit = tenantLimits[LimitKey(req[p].kind)]]]
    /\ UNCHANGED <<count, tenantLimits, planLimits, subscription, highest>>

\* subscriptionModel.findOne: only an ACTIVE subscription leads to its plan.
ReadSubscription(p) ==
    /\ req[p].pc = "subscription"
    /\ IF subscription = "active"
       THEN req' = [req EXCEPT ![p].pc = "plan"]
       ELSE Compare(p, req[p].limit)
    /\ UNCHANGED <<count, tenantLimits, planLimits, subscription, highest>>

\* .populate('planId')
ReadPlan(p) ==
    /\ req[p].pc = "plan"
    /\ Compare(p, planLimits[LimitKey(req[p].kind)])
    /\ UNCHANGED <<count, tenantLimits, planLimits, subscription, highest>>

\* save(), after the lookups that each create makes.
Save(p) ==
    /\ req[p].pc = "save"
    /\ count' = [count EXCEPT ![req[p].kind] = @ + 1]
    /\ Finish(p)
    /\ UNCHANGED <<tenantLimits, planLimits, subscription, highest>>

\* A create is refused by one of its own checks (the number or the phone is
\* taken, the room does not exist) or a database call is rejected.
Refuse(p) ==
    /\ req[p].pc # "idle"
    /\ Finish(p)
    /\ UNCHANGED <<count, tenantLimits, planLimits, subscription, highest>>

\* DELETE of a room, a bed, a resident or a staff member.
Delete(k) ==
    /\ count[k] > 0
    /\ count' = [count EXCEPT ![k] = @ - 1]
    /\ UNCHANGED <<tenantLimits, planLimits, subscription, req, highest>>

\* tenantsService.update with limits: from the super admin, or the first write
\* of assignPlanToTenant.
SetTenantLimits(l) ==
    /\ tenantLimits' = l
    /\ highest' = [key \in LimitKeys |-> Wider(highest[key], l[key])]
    /\ UNCHANGED <<count, planLimits, subscription, req>>

\* PATCH /admin/plans/:id with limits.
SetPlanLimits(l) ==
    /\ planLimits' = l
    /\ highest' = [key \in LimitKeys |-> Wider(highest[key], l[key])]
    /\ UNCHANGED <<count, tenantLimits, subscription, req>>

\* The last write of assignPlanToTenant, which needs that there is no
\* subscription yet, and the ACTIVE to DUE sweep of getSubscriptionsDue.
SetSubscription(s) ==
    /\ \/ subscription = "none" /\ s \in {"active", "other"}
       \/ subscription = "active" /\ s = "other"
    /\ subscription' = s
    /\ UNCHANGED <<count, tenantLimits, planLimits, req, highest>>
-----------------------------------------------------------------------------
Step(p) ==
    \/ \E k \in Kinds : Count(p, k)
    \/ ReadTenant(p)
    \/ ReadSubscription(p)
    \/ ReadPlan(p)
    \/ Save(p)
    \/ Refuse(p)

Next ==
    \/ \E p \in Requests : Step(p)
    \/ \E k \in Kinds : Delete(k)
    \/ \E l \in Limits : SetTenantLimits(l) \/ SetPlanLimits(l)
    \/ \E s \in Statuses : SetSubscription(s)

Spec == Init /\ [][Next]_vars
-----------------------------------------------------------------------------
(* Properties *)

\* Concurrent creates may exceed a limit, but by no more than the number of
\* requests that can be in flight with each other, less one; with one request
\* at a time the limit is exact.  This holds although plans, limits and the
\* subscription change between the calls of checkLimit.
OvershootBounded ==
    \A k \in Kinds :
        highest[LimitKey(k)] # Unlimited =>
            count[k] <= highest[LimitKey(k)] + Cardinality(Requests) - 1

\* The requests for kind k in flight that have counted fewer than t.
Below(k, t) == {p \in Requests : /\ req[p].pc # "idle"
                                 /\ req[p].kind = k
                                 /\ req[p].used < t}

\* A limit of key that a request has read has been stored.
Stored(key, limit) ==
    highest[key] # Unlimited => limit # Unlimited /\ limit <= highest[key]

\* The inductive invariant: however far the limit is raised later, to t, the
\* documents and the requests that it would admit do not exceed it by more.
Inv ==
    /\ TypeOK
    /\ \A key \in LimitKeys : /\ Stored(key, tenantLimits[key])
                              /\ Stored(key, planLimits[key])
    /\ \A p \in Requests :
          /\ req[p].pc # "idle" => req[p].kind \in Kinds
          /\ req[p].pc = "subscription" =>
                /\ req[p].limit \in LimitValues
                /\ Stored(LimitKey(req[p].kind), req[p].limit)
          /\ req[p].pc = "save" /\ highest[LimitKey(req[p].kind)] # Unlimited
                => req[p].used < highest[LimitKey(req[p].kind)]
    /\ \A k \in Kinds, t \in LimitValues \ {Unlimited} :
          highest[LimitKey(k)] \in Nat /\ highest[LimitKey(k)] <= t =>
             count[k] + Cardinality(Below(k, t)) <= t + Cardinality(Requests) - 1
-----------------------------------------------------------------------------
(* What the comments of checkLimit say, which the code does not achieve.    *)

\* plan-limit.service.ts:33, "Uses current count to prevent race conditions":
\* no more documents of a kind than the largest limit there has been.
LimitRespected ==
    \A k \in Kinds :
        highest[LimitKey(k)] # Unlimited => count[k] <= highest[LimitKey(k)]
=============================================================================
