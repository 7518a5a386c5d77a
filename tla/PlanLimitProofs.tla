-------------------------- MODULE PlanLimitProofs --------------------------
(* Proofs about PlanLimit, for every set of requests, every set of limits
   and every schedule of limit changes.                                     *)
EXTENDS PlanLimit, FiniteSetTheorems, TLAPS

N == Cardinality(Requests)

-----------------------------------------------------------------------------
(* Helpers *)

LEMMA RequestsFinite ==
    /\ N \in Nat /\ N >= 1
    /\ \A S \in SUBSET Requests : /\ IsFiniteSet(S)
                                  /\ Cardinality(S) \in Nat
                                  /\ Cardinality(S) <= N
<1>1. IsFiniteSet(Requests) /\ Requests # {}
  BY PlanLimitAssumption
<1>2. N \in Nat /\ N # 0
  BY <1>1, FS_CardinalityType, FS_EmptySet DEF N
<1>3. ASSUME NEW S \in SUBSET Requests
      PROVE  /\ IsFiniteSet(S)
             /\ Cardinality(S) \in Nat
             /\ Cardinality(S) <= N
  BY <1>1, FS_Subset, FS_CardinalityType DEF N
<1>. QED  BY <1>2, <1>3

LEMMA BelowSubset ==
    ASSUME NEW k, NEW t
    PROVE  /\ Below(k, t) \in SUBSET Requests
           /\ Below(k, t)' \in SUBSET Requests
BY DEF Below

LEMMA WiderBounds ==
    ASSUME NEW a \in Nat \cup {Unlimited}, NEW b \in Nat \cup {Unlimited}
    PROVE  /\ Wider(a, b) \in {a, b}
           /\ Wider(a, b) # Unlimited =>
                 /\ a # Unlimited /\ b # Unlimited
                 /\ a <= Wider(a, b) /\ b <= Wider(a, b)
BY DEF Wider, Unlimited

LEMMA IdleType == Idle \in RequestStates
BY DEF Idle, RequestStates, Unlimited
-----------------------------------------------------------------------------
(* The bound, for a kind k and a threshold t that is no less than every
   limit stored so far.                                                     *)

Bounded(k, t) ==
    highest[LimitKey(k)] \in Nat /\ highest[LimitKey(k)] <= t =>
        count[k] + Cardinality(Below(k, t)) <= t + N - 1

\* No step but Count adds a request to Below, and no step but Save adds a
\* document: a step that does neither keeps the bound.
LEMMA BoundedFrame ==
    ASSUME TypeOK, NEW k \in Kinds, NEW t \in Nat, Bounded(k, t),
           count'[k] \in Nat, count'[k] <= count[k],
           Below(k, t)' \subseteq Below(k, t),
           LET h == highest[LimitKey(k)] IN
              highest'[LimitKey(k)] # Unlimited
                 => h # Unlimited /\ h <= highest'[LimitKey(k)],
           highest[LimitKey(k)] \in Nat \cup {Unlimited},
           highest'[LimitKey(k)] \in Nat \cup {Unlimited}
    PROVE  Bounded(k, t)'
<1> SUFFICES ASSUME highest'[LimitKey(k)] \in Nat,
                    highest'[LimitKey(k)] <= t
             PROVE  count'[k] + Cardinality(Below(k, t)') <= t + N - 1
  BY DEF Bounded, N
<1>1. highest[LimitKey(k)] \in Nat /\ highest[LimitKey(k)] <= t
  BY DEF Unlimited
<1>2. count[k] + Cardinality(Below(k, t)) <= t + N - 1
  BY <1>1 DEF Bounded
<1>3. Cardinality(Below(k, t)') <= Cardinality(Below(k, t))
  BY RequestsFinite, BelowSubset, FS_Subset
<1>4. /\ Cardinality(Below(k, t)') \in Nat
      /\ Cardinality(Below(k, t)) \in Nat
      /\ count[k] \in Nat
  BY RequestsFinite, BelowSubset DEF TypeOK
<1>. QED  BY <1>2, <1>3, <1>4, RequestsFinite

\* Requests that stay the same or end do not join Below.
LEMMA BelowShrinks ==
    ASSUME \A q \in Requests : \/ req'[q].pc = "idle"
                               \/ /\ req[q].pc # "idle"
                                  /\ req'[q].kind = req[q].kind
                                  /\ req'[q].used = req[q].used,
           NEW k, NEW t
    PROVE  Below(k, t)' \subseteq Below(k, t)
BY DEF Below
-----------------------------------------------------------------------------
LEMMA InitInv == Init => Inv
<1> SUFFICES ASSUME Init
             PROVE  Inv
  OBVIOUS
<1>1. ASSUME NEW key \in LimitKeys
      PROVE  /\ tenantLimits[key] \in LimitValues
             /\ planLimits[key] \in LimitValues
             /\ highest[key] = Wider(tenantLimits[key], planLimits[key])
  BY DEF Init, Limits
<1>2. ASSUME NEW key \in LimitKeys
      PROVE  /\ highest[key] \in LimitValues \cup {Unlimited}
             /\ Stored(key, tenantLimits[key])
             /\ Stored(key, planLimits[key])
  <2>1. LimitValues \subseteq Nat \cup {Unlimited}
    BY PlanLimitAssumption
  <2>2. /\ tenantLimits[key] \in Nat \cup {Unlimited}
        /\ planLimits[key] \in Nat \cup {Unlimited}
    BY <1>1, <2>1
  <2>3. Wider(tenantLimits[key], planLimits[key])
           \in {tenantLimits[key], planLimits[key]}
    BY <2>2, WiderBounds
  <2>. QED  BY <1>1, <2>2, <2>3, WiderBounds DEF Stored
<1>3. TypeOK
  BY <1>2, IdleType DEF Init, TypeOK
<1>4. ASSUME NEW p \in Requests
      PROVE  req[p].pc = "idle"
  BY DEF Init, Idle
<1>5. ASSUME NEW k \in Kinds, NEW t \in LimitValues \ {Unlimited}
      PROVE  count[k] + Cardinality(Below(k, t)) <= t + N - 1
  <2>1. Below(k, t) = {}
    BY <1>4 DEF Below
  <2>2. t \in Nat
    BY PlanLimitAssumption
  <2>. QED  BY <2>1, <2>2, FS_EmptySet, RequestsFinite DEF Init
<1>. QED  BY <1>2, <1>3, <1>4, <1>5 DEF Inv, N

\* Everything in Inv but the bound.
Shape ==
    /\ TypeOK
    /\ \A key \in LimitKeys : /\ Stored(key, tenantLimits[key])
                              /\ Stored(key, planLimits[key])
    /\ \A p \in Requests :
          /\ req[p].pc # "idle" => req[p].kind \in Kinds
          /\ req[p].pc = "subscription" =>
                /\ req[p].limit \in LimitValues
                /\ Stored(LimitKey(req[p].kind), req[p].limit)
          /\ req[p].pc = "save" /\ highest[LimitKey(req[p].kind)] # Unlimited
                => req[p].used < highest[LimitKey(req[p].kind)]

LEMMA InvParts ==
    Inv <=> /\ Shape
            /\ \A k \in Kinds, t \in LimitValues \ {Unlimited} : Bounded(k, t)
BY DEF Inv, Shape, Bounded, N

LEMMA KeyOfKind ==
    ASSUME NEW k \in Kinds
    PROVE  LimitKey(k) \in LimitKeys
BY DEF LimitKeys

\* A count below a stored limit is below the largest.
LEMMA AdmittedBelowHighest ==
    ASSUME TypeOK, NEW p \in Requests, NEW key \in LimitKeys,
           NEW limit \in LimitValues, Stored(key, limit),
           Admits(req[p].used, limit), highest[key] # Unlimited
    PROVE  req[p].used < highest[key]
<1>1. limit # Unlimited /\ limit <= highest[key] /\ req[p].used < limit
  BY DEF Stored, Admits
<1>2. limit \in Nat /\ highest[key] \in Nat /\ req[p].used \in Nat
  BY <1>1, PlanLimitAssumption DEF TypeOK, RequestStates
<1>. QED  BY <1>1, <1>2
-----------------------------------------------------------------------------
(* The shape, one action at a time *)

\* A step of request p that changes no limit.
LEMMA RequestShape ==
    ASSUME Shape, NEW p \in Requests, NEW r \in RequestStates,
           req' = [req EXCEPT ![p] = r],
           r.pc # "idle" => r.kind \in Kinds,
           r.pc = "subscription" => /\ r.limit \in LimitValues
                                    /\ Stored(LimitKey(r.kind), r.limit),
           r.pc = "save" /\ highest[LimitKey(r.kind)] # Unlimited
              => r.used < highest[LimitKey(r.kind)],
           count' \in [Kinds -> Nat],
           UNCHANGED <<tenantLimits, planLimits, subscription, highest>>
    PROVE  Shape'
<1>1. TypeOK'
  BY DEF Shape, TypeOK
<1>2. \A q \in Requests : req'[q] = IF q = p THEN r ELSE req[q]
  BY DEF Shape, TypeOK
<1>. QED  BY <1>1, <1>2 DEF Shape, Stored

LEMMA CompareShape ==
    ASSUME Shape, NEW p \in Requests, req[p].pc # "idle",
           NEW limit \in LimitValues, Stored(LimitKey(req[p].kind), limit),
           Compare(p, limit),
           UNCHANGED <<count, tenantLimits, planLimits, subscription, highest>>
    PROVE  Shape'
<1>1. req[p] \in RequestStates /\ req[p].kind \in Kinds /\ TypeOK
  BY DEF Shape, TypeOK
<1>2. CASE Admits(req[p].used, limit)
  <2> DEFINE r == [req[p] EXCEPT !.pc = "save"]
  <2>1. /\ r \in RequestStates
        /\ r.pc = "save" /\ r.kind = req[p].kind /\ r.used = req[p].used
    BY <1>1 DEF RequestStates
  <2>2. req' = [req EXCEPT ![p] = r]
    BY <1>1, <1>2 DEF Compare, TypeOK, RequestStates
  <2>3. highest[LimitKey(req[p].kind)] # Unlimited
           => req[p].used < highest[LimitKey(req[p].kind)]
    BY <1>1, <1>2, AdmittedBelowHighest, KeyOfKind
  <2> HIDE DEF r
  <2>. QED  BY <1>1, <2>1, <2>2, <2>3, RequestShape DEF TypeOK
<1>3. CASE ~Admits(req[p].used, limit)
  BY <1>1, <1>3, IdleType, RequestShape DEF Compare, Finish, Idle, TypeOK
<1>. QED  BY <1>2, <1>3

LEMMA StepShape ==
    ASSUME Shape, NEW p \in Requests, Step(p)
    PROVE  Shape'
<1>1. TypeOK /\ req[p] \in RequestStates
  BY DEF Shape, TypeOK
<1>2. ASSUME NEW k \in Kinds, Count(p, k)
      PROVE  Shape'
  <2> DEFINE r == [pc |-> "tenant", kind |-> k, used |-> count[k],
                   limit |-> Unlimited]
  <2>1. r \in RequestStates
    BY <1>1 DEF TypeOK, RequestStates
  <2>. QED  BY <1>1, <1>2, <2>1, RequestShape DEF Count, TypeOK
<1>3. CASE ReadTenant(p)
  <2> DEFINE r == [req[p] EXCEPT !.pc = "subscription",
                                 !.limit = tenantLimits[LimitKey(req[p].kind)]]
  <2>1. req[p].kind \in Kinds
    BY <1>3 DEF Shape, ReadTenant
  <2>2. /\ tenantLimits[LimitKey(req[p].kind)] \in LimitValues
        /\ Stored(LimitKey(req[p].kind), tenantLimits[LimitKey(req[p].kind)])
    BY <2>1, KeyOfKind DEF Shape, TypeOK, Limits
  <2>3. /\ r \in RequestStates
        /\ r.pc = "subscription" /\ r.kind = req[p].kind
        /\ r.limit = tenantLimits[LimitKey(req[p].kind)]
    BY <1>1, <2>1, <2>2 DEF RequestStates
  <2>4. req' = [req EXCEPT ![p] = r]
    BY <1>3 DEF ReadTenant
  <2> HIDE DEF r
  <2>. QED
    BY <1>1, <1>3, <2>1, <2>2, <2>3, <2>4, RequestShape
       DEF ReadTenant, TypeOK
<1>4. CASE ReadSubscription(p)
  <2>1. /\ req[p].pc = "subscription"
        /\ req[p].kind \in Kinds
        /\ req[p].limit \in LimitValues
        /\ Stored(LimitKey(req[p].kind), req[p].limit)
    BY <1>4 DEF Shape, ReadSubscription
  <2>2. CASE subscription = "active"
    <3> DEFINE r == [req[p] EXCEPT !.pc = "plan"]
    <3>1. r \in RequestStates /\ r.pc = "plan" /\ r.kind = req[p].kind
      BY <1>1 DEF RequestStates
    <3>2. req' = [req EXCEPT ![p] = r]
      BY <1>1, <1>4, <2>2 DEF ReadSubscription, TypeOK, RequestStates
    <3> HIDE DEF r
    <3>. QED
      BY <1>1, <1>4, <2>1, <3>1, <3>2, RequestShape
         DEF ReadSubscription, TypeOK
  <2>3. CASE subscription # "active"
    BY <1>4, <2>1, <2>3, CompareShape DEF ReadSubscription
  <2>. QED  BY <2>2, <2>3
<1>5. CASE ReadPlan(p)
  <2>1. req[p].pc = "plan" /\ req[p].kind \in Kinds
    BY <1>5 DEF Shape, ReadPlan
  <2>2. /\ planLimits[LimitKey(req[p].kind)] \in LimitValues
        /\ Stored(LimitKey(req[p].kind), planLimits[LimitKey(req[p].kind)])
    BY <2>1, KeyOfKind DEF Shape, TypeOK, Limits
  <2>. QED  BY <1>5, <2>1, <2>2, CompareShape DEF ReadPlan
<1>6. CASE Save(p)
  <2>1. req[p].kind \in Kinds
    BY <1>6 DEF Shape, Save
  <2>2. count' \in [Kinds -> Nat]
    BY <1>1, <1>6, <2>1 DEF Save, TypeOK
  <2>. QED
    BY <1>1, <1>6, <2>2, IdleType, RequestShape DEF Save, Finish, Idle
<1>7. CASE Refuse(p)
  BY <1>1, <1>7, IdleType, RequestShape DEF Refuse, Finish, Idle, TypeOK
<1>. QED  BY <1>2, <1>3, <1>4, <1>5, <1>6, <1>7 DEF Step

\* A step that stores new limits, for the tenant or for its plan.
LEMMA RaisedHighest ==
    ASSUME Shape, NEW l \in Limits,
           highest' = [key \in LimitKeys |-> Wider(highest[key], l[key])],
           NEW key \in LimitKeys
    PROVE  /\ highest'[key] \in LimitValues \cup {Unlimited}
           /\ highest'[key] # Unlimited =>
                 /\ highest[key] # Unlimited
                 /\ highest[key] <= highest'[key]
                 /\ l[key] # Unlimited
                 /\ l[key] <= highest'[key]
<1>1. LimitValues \subseteq Nat \cup {Unlimited}
  BY PlanLimitAssumption
<1>2. l[key] \in LimitValues /\ highest[key] \in LimitValues \cup {Unlimited}
  BY DEF Limits, Shape, TypeOK
<1>3. l[key] \in Nat \cup {Unlimited} /\ highest[key] \in Nat \cup {Unlimited}
  BY <1>1, <1>2
<1>4. highest'[key] = Wider(highest[key], l[key])
  OBVIOUS
<1>. QED  BY <1>2, <1>3, <1>4, WiderBounds

LEMMA RaisedStored ==
    ASSUME Shape, NEW l \in Limits,
           highest' = [key \in LimitKeys |-> Wider(highest[key], l[key])],
           NEW key \in LimitKeys, NEW limit \in LimitValues,
           Stored(key, limit) \/ limit = l[key]
    PROVE  highest'[key] # Unlimited
              => limit # Unlimited /\ limit <= highest'[key]
<1> SUFFICES ASSUME highest'[key] # Unlimited
             PROVE  limit # Unlimited /\ limit <= highest'[key]
  OBVIOUS
<1>1. /\ highest[key] # Unlimited
      /\ highest[key] <= highest'[key]
      /\ l[key] # Unlimited
      /\ l[key] <= highest'[key]
      /\ highest'[key] \in LimitValues
  BY RaisedHighest
<1>2. CASE limit = l[key]
  BY <1>1, <1>2
<1>3. CASE Stored(key, limit)
  <2>1. limit # Unlimited /\ limit <= highest[key]
    BY <1>1, <1>3 DEF Stored
  <2>2. limit \in Nat /\ highest[key] \in Nat /\ highest'[key] \in Nat
    BY <1>1, <2>1, PlanLimitAssumption DEF Shape, TypeOK
  <2>. QED  BY <1>1, <2>1, <2>2
<1>. QED  BY <1>2, <1>3

LEMMA LimitsShape ==
    ASSUME Shape, NEW l \in Limits,
           SetTenantLimits(l) \/ SetPlanLimits(l)
    PROVE  Shape'
<1>1. /\ highest' = [key \in LimitKeys |-> Wider(highest[key], l[key])]
      /\ req' = req /\ count' = count /\ subscription' = subscription
      /\ tenantLimits' \in {tenantLimits, l}
      /\ planLimits' \in {planLimits, l}
  BY DEF SetTenantLimits, SetPlanLimits
<1>2. TypeOK'
  BY <1>1, RaisedHighest DEF Shape, TypeOK
<1>3. ASSUME NEW key \in LimitKeys
      PROVE  Stored(key, tenantLimits[key])' /\ Stored(key, planLimits[key])'
  <2>1. /\ Stored(key, tenantLimits[key]) /\ Stored(key, planLimits[key])
        /\ tenantLimits[key] \in LimitValues
        /\ planLimits[key] \in LimitValues
        /\ l[key] \in LimitValues
    BY DEF Shape, TypeOK, Limits
  <2>2. /\ tenantLimits'[key] \in {tenantLimits[key], l[key]}
        /\ planLimits'[key] \in {planLimits[key], l[key]}
    BY <1>1
  <2>. QED  BY <1>1, <2>1, <2>2, RaisedStored DEF Stored
<1>4. ASSUME NEW p \in Requests, req[p].pc = "subscription"
      PROVE  Stored(LimitKey(req[p].kind), req[p].limit)'
  <2>1. /\ req[p].limit \in LimitValues
        /\ req[p].kind \in Kinds
        /\ Stored(LimitKey(req[p].kind), req[p].limit)
    BY <1>4 DEF Shape
  <2>. QED  BY <1>1, <2>1, KeyOfKind, RaisedStored DEF Stored
<1>5. ASSUME NEW p \in Requests, req[p].pc = "save",
             highest'[LimitKey(req[p].kind)] # Unlimited
      PROVE  req[p].used < highest'[LimitKey(req[p].kind)]
  <2> DEFINE key == LimitKey(req[p].kind)
  <2>1. key \in LimitKeys
    BY <1>5, KeyOfKind DEF Shape
  <2>2. /\ highest[key] # Unlimited /\ highest[key] <= highest'[key]
        /\ highest'[key] \in LimitValues
    BY <1>1, <1>5, <2>1, RaisedHighest
  <2>3. req[p].used < highest[key]
    BY <1>5, <2>2 DEF Shape
  <2>4. /\ req[p].used \in Nat
        /\ highest[key] \in Nat
        /\ highest'[key] \in Nat
    BY <1>5, <2>1, <2>2, PlanLimitAssumption
       DEF Shape, TypeOK, RequestStates
  <2>. QED  BY <2>2, <2>3, <2>4
<1>. QED  BY <1>1, <1>2, <1>3, <1>4, <1>5 DEF Shape

LEMMA NextShape ==
    ASSUME Shape, [Next]_vars
    PROVE  Shape'
<1>1. ASSUME NEW k \in Kinds, Delete(k)
      PROVE  Shape'
  <2>1. count' \in [Kinds -> Nat]
    BY <1>1 DEF Delete, Shape, TypeOK
  <2>. QED  BY <1>1, <2>1 DEF Delete, Shape, TypeOK, Stored
<1>2. ASSUME NEW s \in Statuses, SetSubscription(s)
      PROVE  Shape'
  BY <1>2 DEF SetSubscription, Shape, TypeOK, Stored
<1>3. CASE UNCHANGED vars
  BY <1>3 DEF vars, Shape, TypeOK, Stored
<1>. QED  BY <1>1, <1>2, <1>3, StepShape, LimitsShape DEF Next
-----------------------------------------------------------------------------
(* The bound, one action at a time *)

LEMMA HighestNat ==
    ASSUME Shape, NEW k \in Kinds
    PROVE  highest[LimitKey(k)] \in Nat \cup {Unlimited}
BY KeyOfKind, PlanLimitAssumption DEF Shape, TypeOK

\* A step in which requests only go on or end, with the limits as they were.
LEMMA BoundedRequest ==
    ASSUME Shape, NEW k \in Kinds, NEW t \in Nat, Bounded(k, t),
           count' = count, highest' = highest,
           \A q \in Requests : \/ req'[q].pc = "idle"
                               \/ /\ req[q].pc # "idle"
                                  /\ req'[q].kind = req[q].kind
                                  /\ req'[q].used = req[q].used
    PROVE  Bounded(k, t)'
<1>1. Below(k, t)' \subseteq Below(k, t)
  BY BelowShrinks
<1>2. TypeOK /\ count[k] \in Nat
  BY DEF Shape, TypeOK
<1>3. highest[LimitKey(k)] \in Nat \cup {Unlimited}
  BY HighestNat
<1>. QED  BY <1>1, <1>2, <1>3, BoundedFrame DEF Unlimited

LEMMA BoundedCount ==
    ASSUME Shape, NEW k \in Kinds, NEW t \in Nat, Bounded(k, t),
           NEW p \in Requests, NEW c \in Kinds, Count(p, c)
    PROVE  Bounded(k, t)'
<1>1. /\ req' = [req EXCEPT ![p] = [pc |-> "tenant", kind |-> c,
                                    used |-> count[c], limit |-> Unlimited]]
      /\ count' = count /\ highest' = highest
      /\ req[p].pc = "idle"
  BY DEF Count
<1>2. TypeOK /\ count[k] \in Nat
  BY DEF Shape, TypeOK
<1>3. CASE c = k /\ count[k] < t
  <2>1. Cardinality(Below(k, t)') \in Nat /\ Cardinality(Below(k, t)') <= N
    BY RequestsFinite, BelowSubset
  <2>2. count'[k] + Cardinality(Below(k, t)') <= t + N - 1
    BY <1>1, <1>2, <1>3, <2>1, RequestsFinite
  <2>. QED  BY <2>2 DEF Bounded
<1>4. CASE ~(c = k /\ count[k] < t)
  <2>1. \A q \in Requests \ {p} : req'[q] = req[q]
    BY <1>1, <1>2 DEF TypeOK
  <2>2. req'[p].kind = c /\ req'[p].used = count[c]
    BY <1>1, <1>2 DEF TypeOK
  <2>3. p \notin Below(k, t)'
    BY <1>4, <2>2 DEF Below
  <2>4. Below(k, t)' \subseteq Below(k, t)
    BY <2>1, <2>3 DEF Below
  <2>5. highest[LimitKey(k)] \in Nat \cup {Unlimited}
    BY HighestNat
  <2>. QED  BY <1>1, <1>2, <2>4, <2>5, BoundedFrame DEF Unlimited
<1>. QED  BY <1>3, <1>4

LEMMA BoundedSave ==
    ASSUME Shape, NEW k \in Kinds, NEW t \in Nat, Bounded(k, t),
           NEW p \in Requests, Save(p)
    PROVE  Bounded(k, t)'
<1>1. /\ req[p].pc = "save"
      /\ req[p].kind \in Kinds
      /\ count' = [count EXCEPT ![req[p].kind] = @ + 1]
      /\ highest' = highest
      /\ TypeOK
  BY DEF Save, Shape
<1>2. /\ \A q \in Requests \ {p} : req'[q] = req[q]
      /\ req'[p].pc = "idle"
  BY <1>1 DEF Save, Finish, Idle, TypeOK
<1>3. highest[LimitKey(k)] \in Nat \cup {Unlimited} /\ count[k] \in Nat
  BY <1>1, HighestNat DEF TypeOK
<1>4. CASE req[p].kind # k
  <2>1. Below(k, t)' \subseteq Below(k, t)
    BY <1>2 DEF Below
  <2>2. count'[k] = count[k]
    BY <1>1, <1>4 DEF TypeOK
  <2>. QED  BY <1>1, <1>3, <2>1, <2>2, BoundedFrame DEF Unlimited
<1>5. CASE req[p].kind = k
  <2> SUFFICES ASSUME highest[LimitKey(k)] \in Nat, highest[LimitKey(k)] <= t
               PROVE  count'[k] + Cardinality(Below(k, t)') <= t + N - 1
    BY <1>1 DEF Bounded
  <2>1. count[k] + Cardinality(Below(k, t)) <= t + N - 1
    BY DEF Bounded
  <2>2. count'[k] = count[k] + 1
    BY <1>1, <1>5 DEF TypeOK
  <2>3. req[p].used < highest[LimitKey(k)] /\ req[p].used \in Nat
    BY <1>1, <1>5 DEF Shape, TypeOK, RequestStates, Unlimited
  <2>4. p \in Below(k, t)
    BY <1>1, <1>5, <2>3 DEF Below
  <2>5. Below(k, t)' = Below(k, t) \ {p}
    BY <1>2 DEF Below
  <2>6. Cardinality(Below(k, t) \ {p}) = Cardinality(Below(k, t)) - 1
    BY <2>4, RequestsFinite, BelowSubset, FS_RemoveElement
  <2>7. Cardinality(Below(k, t)) \in Nat
    BY RequestsFinite, BelowSubset
  <2>. QED  BY <1>3, <2>1, <2>2, <2>5, <2>6, <2>7, RequestsFinite
<1>. QED  BY <1>4, <1>5

LEMMA BoundedStep ==
    ASSUME Shape, Shape', [Next]_vars,
           NEW k \in Kinds, NEW t \in Nat, Bounded(k, t)
    PROVE  Bounded(k, t)'
<1>1. TypeOK
  BY DEF Shape
<1>2. ASSUME NEW p \in Requests, Step(p)
      PROVE  Bounded(k, t)'
  <2>1. CASE \E c \in Kinds : Count(p, c)
    BY <2>1, BoundedCount
  <2>2. CASE Save(p)
    BY <2>2, BoundedSave
  <2>3. CASE ReadTenant(p) \/ ReadSubscription(p) \/ ReadPlan(p) \/ Refuse(p)
    <3>1. /\ req[p].pc # "idle"
          /\ count' = count /\ highest' = highest
      BY <2>3 DEF ReadTenant, ReadSubscription, ReadPlan, Refuse
    <3>2. /\ \A q \in Requests \ {p} : req'[q] = req[q]
          /\ \/ req'[p].pc = "idle"
             \/ /\ req'[p].kind = req[p].kind
                /\ req'[p].used = req[p].used
      <4>1. \/ req' = [req EXCEPT ![p] = Idle]
            \/ \E c \in {"plan", "save"} : req' = [req EXCEPT ![p].pc = c]
            \/ ReadTenant(p)
        BY <2>3 DEF ReadSubscription, ReadPlan, Refuse, Compare, Finish
      <4>2. req \in [Requests -> RequestStates]
        BY <1>1 DEF TypeOK
      <4>3. CASE req' = [req EXCEPT ![p] = Idle]
        BY <4>2, <4>3 DEF Idle
      <4>4. ASSUME NEW c, req' = [req EXCEPT ![p].pc = c]
            PROVE  (\A q \in Requests \ {p} : req'[q] = req[q]) /\ req'[p].kind = req[p].kind
                          /\ req'[p].used = req[p].used
        BY <4>2, <4>4 DEF RequestStates
      <4>5. CASE ReadTenant(p)
        BY <4>2, <4>5 DEF ReadTenant, RequestStates
      <4>. QED  BY <4>1, <4>3, <4>4, <4>5
    <3>3. \A q \in Requests : req[q].pc # "idle" \/ req'[q].pc = "idle"
                                \/ req'[q] = req[q]
      BY <3>1, <3>2
    <3>. QED  BY <3>1, <3>2, <3>3, BoundedRequest
  <2>. QED  BY <1>2, <2>1, <2>2, <2>3 DEF Step
<1>3. ASSUME NEW c \in Kinds, Delete(c)
      PROVE  Bounded(k, t)'
  <2>1. Below(k, t)' = Below(k, t)
    BY <1>3 DEF Delete, Below
  <2>2. count'[k] \in Nat /\ count'[k] <= count[k] /\ highest' = highest
    BY <1>1, <1>3 DEF Delete, TypeOK
  <2>3. highest[LimitKey(k)] \in Nat \cup {Unlimited}
    BY HighestNat
  <2>. QED  BY <1>1, <2>1, <2>2, <2>3, BoundedFrame DEF Unlimited
<1>4. ASSUME NEW l \in Limits, SetTenantLimits(l) \/ SetPlanLimits(l)
      PROVE  Bounded(k, t)'
  <2>1. /\ highest' = [key \in LimitKeys |-> Wider(highest[key], l[key])]
        /\ req' = req /\ count' = count
    BY <1>4 DEF SetTenantLimits, SetPlanLimits
  <2>2. Below(k, t)' = Below(k, t)
    BY <2>1 DEF Below
  <2>3. /\ highest[LimitKey(k)] \in Nat \cup {Unlimited}
        /\ highest'[LimitKey(k)] \in Nat \cup {Unlimited}
    BY HighestNat, KeyOfKind, PlanLimitAssumption DEF Shape, TypeOK
  <2>4. highest'[LimitKey(k)] # Unlimited
          => /\ highest[LimitKey(k)] # Unlimited
             /\ highest[LimitKey(k)] <= highest'[LimitKey(k)]
    BY <2>1, KeyOfKind, RaisedHighest
  <2>5. count'[k] \in Nat /\ count'[k] <= count[k]
    BY <1>1, <2>1 DEF TypeOK
  <2>. QED  BY <1>1, <2>2, <2>3, <2>4, <2>5, BoundedFrame
<1>5. CASE UNCHANGED vars \/ \E s \in Statuses : SetSubscription(s)
  <2>1. count' = count /\ highest' = highest /\ req' = req
    BY <1>5 DEF vars, SetSubscription
  <2>2. Below(k, t)' = Below(k, t)
    BY <2>1 DEF Below
  <2>. QED  BY <2>1, <2>2 DEF Bounded
<1>. QED  BY <1>2, <1>3, <1>4, <1>5 DEF Next
-----------------------------------------------------------------------------
(* The theorems *)

\* Inv, the bound for every limit that may still be set, is inductive.
THEOREM InvHolds == Spec => []Inv
<1>1. Inv /\ [Next]_vars => Inv'
  <2> SUFFICES ASSUME Inv, [Next]_vars
               PROVE  Inv'
    OBVIOUS
  <2>1. Shape /\ Shape'
    BY InvParts, NextShape
  <2>2. ASSUME NEW k \in Kinds, NEW t \in LimitValues \ {Unlimited}
        PROVE  Bounded(k, t)'
    <3>1. t \in Nat
      BY PlanLimitAssumption
    <3>2. Bounded(k, t)
      BY InvParts
    <3>. QED  BY <2>1, <3>1, <3>2, BoundedStep
  <2>. QED  BY <2>1, <2>2 DEF Inv, Shape, Bounded, N
<1>. QED  BY InitInv, <1>1, PTL DEF Spec

\* However many creates run at once, however the limits change meanwhile, a
\* limit is exceeded by at most the number of concurrent requests less one.
THEOREM OvershootTheorem == Spec => []OvershootBounded
<1>1. Inv => OvershootBounded
  <2> SUFFICES ASSUME Inv, NEW k \in Kinds,
                      highest[LimitKey(k)] # Unlimited
               PROVE  count[k] <= highest[LimitKey(k)] + N - 1
    BY DEF OvershootBounded, N
  <2> DEFINE t == highest[LimitKey(k)]
  <2>1. t \in LimitValues \ {Unlimited} /\ t \in Nat
    BY KeyOfKind, PlanLimitAssumption DEF Inv, TypeOK
  <2>2. count[k] + Cardinality(Below(k, t)) <= t + N - 1
    BY <2>1, InvParts DEF Bounded
  <2>3. count[k] \in Nat /\ Cardinality(Below(k, t)) \in Nat
    BY RequestsFinite, BelowSubset DEF Inv, TypeOK
  <2>. QED  BY <2>1, <2>2, <2>3, RequestsFinite
<1>. QED  BY <1>1, InvHolds, PTL
=============================================================================
