------------------------- MODULE DefaultPlanProofs -------------------------
(* Proofs about DefaultPlan: however many requests overlap, there are never
   more default plans than requests, and one is left when they are done.    *)
EXTENDS DefaultPlan, FiniteSetTheorems, TLAPS

USE DEF Writes, Changes

LEMMA InitInv == Init => Inv
<1> SUFFICES ASSUME Init PROVE Inv
  OBVIOUS
<1>1. TypeOK
  BY DefaultPlanAssumption DEF Init, TypeOK, Idle, RequestStates, PlanDocs
<1>2. Distinct
  BY DEF Init, Distinct
<1>3. \A j \in Requests : WellFormed(j) /\ Fresh(j) /\ Clears(j)
  BY DEF Init, WellFormed, Fresh, Clears, Defaulting, Idle
<1> QED
  BY <1>1, <1>2, <1>3 DEF Init, Inv

\* What a step that neither writes a plan nor ends a request keeps.
LEMMA BeginInv ==
  ASSUME Inv, NEW j \in Requests, NEW p \in Plans, NEW d \in Changes,
         NEW then \in Writes,
         Begin(j, p, d, then),
         d = "yes" => then \in {"insert", "write"},
         then = "insert" => /\ ~plan[p].exists
                            /\ \A i \in Requests : req[i].plan # p,
         then # "insert" => Known(p)
  PROVE  Inv'
<1> USE DefaultPlanAssumption
<1>1. TypeOK'
  BY DEF Inv, TypeOK, Begin, RequestStates, Others, Existing
<1>2. Defaults' = Defaults /\ Distinct'
  BY DEF Inv, Begin, Distinct, Defaults
<1>3. ASSUME NEW i \in Requests PROVE (WellFormed(i) /\ Fresh(i) /\ Clears(i))'
  <2>1. CASE i = j
    <3>1. req'[j] = [pc |-> IF d = "yes" THEN "unset" ELSE then, then |-> then,
                     plan |-> p, default |-> d,
                     todo |-> IF d = "yes" THEN Others(p) ELSE {}]
      BY DEF Inv, TypeOK, Begin
    <3>2. Defaults \ {p} \subseteq Others(p)
      BY DEF Defaults, Others, Existing
    <3> QED
      BY <1>2, <2>1, <3>1, <3>2
      DEF Begin, WellFormed, Fresh, Clears, Defaulting, Inv, TypeOK
  <2>2. CASE i # j
    <3>1. req'[i] = req[i] /\ UNCHANGED <<plan, setBy, lost>>
      BY <2>2 DEF Inv, TypeOK, Begin
    <3>2. WellFormed(i)' /\ Clears(i)'
      BY <1>2, <3>1 DEF Inv, WellFormed, Clears, Defaulting
    <3>3. \A k \in Requests : req'[k].plan = IF k = j THEN p ELSE req[k].plan
      BY DEF Inv, TypeOK, Begin
    <3>4. Fresh(i)'
      BY <2>2, <3>1, <3>3 DEF Inv, Fresh, Known
    <3> QED BY <3>2, <3>4
  <2> QED BY <2>1, <2>2
<1>4. (~lost => (Defaults # {} \/ \E i \in Requests : Defaulting(i)))'
  BY <1>2 DEF Inv, TypeOK, Begin, Defaulting
<1> QED
  BY <1>1, <1>2, <1>3, <1>4 DEF Inv

LEMMA UnsetOneInv ==
  ASSUME Inv, NEW j \in Requests, UnsetOne(j)
  PROVE  Inv'
<1> USE DefaultPlanAssumption
<1>1. PICK p \in req[j].todo :
        /\ plan' = [plan EXCEPT ![p].default = FALSE]
        /\ req' = [req EXCEPT ![j].todo = @ \ {p}]
  BY DEF UnsetOne
<1>2. p \in Plans /\ req[j].pc = "unset" /\ UNCHANGED <<setBy, lost>>
  BY <1>1 DEF Inv, TypeOK, RequestStates, UnsetOne
<1>3. TypeOK'
  <2>1. plan' \in [Plans -> PlanDocs]
    BY <1>1, <1>2 DEF Inv, TypeOK, PlanDocs
  <2>2. req[j].todo \ {p} \in SUBSET Plans
    BY DEF Inv, TypeOK, RequestStates
  <2>3. [req[j] EXCEPT !.todo = @ \ {p}] \in RequestStates
    BY <2>2 DEF Inv, TypeOK, RequestStates
  <2>4. req' \in [Requests -> RequestStates]
    BY <1>1, <2>3 DEF Inv, TypeOK
  <2> QED BY <1>2, <2>1, <2>4 DEF Inv, TypeOK
<1>4. Defaults' = Defaults \ {p} /\ \A q \in Plans : plan'[q].exists = plan[q].exists
  BY <1>1, <1>2 DEF Inv, TypeOK, PlanDocs, Defaults
<1>5. ASSUME NEW i \in Requests
      PROVE  /\ req'[i].todo = req[i].todo \/ req'[i].todo = req[i].todo \ {p}
             /\ req[i].pc # "unset" => req'[i].todo = req[i].todo
             /\ req'[i].pc = req[i].pc /\ req'[i].plan = req[i].plan
             /\ req'[i].then = req[i].then /\ req'[i].default = req[i].default
  BY <1>1, <1>2 DEF Inv, TypeOK, RequestStates
<1>6. Distinct'
  BY <1>2, <1>4 DEF Inv, Distinct
<1>7. ASSUME NEW i \in Requests PROVE (WellFormed(i) /\ Fresh(i) /\ Clears(i))'
  <2>1. WellFormed(i)'
    BY <1>5 DEF Inv, WellFormed, Defaulting
  <2>2. Clears(i)'
    BY <1>2, <1>4, <1>5 DEF Inv, Clears, Defaulting
  <2>3. Fresh(i)'
    BY <1>4, <1>5 DEF Inv, Fresh, WellFormed
  <2> QED BY <2>1, <2>2, <2>3
<1>8. (~lost => (Defaults # {} \/ \E i \in Requests : Defaulting(i)))'
  <2> SUFFICES ASSUME ~lost', Defaults' = {} PROVE \E i \in Requests : Defaulting(i)'
    OBVIOUS
  <2>1. CASE \E i \in Requests : Defaulting(i)
    BY <2>1, <1>5 DEF Defaulting
  <2>2. CASE ~ \E i \in Requests : Defaulting(i)
    BY <2>2, <1>2 DEF Inv, WellFormed, Defaulting
  <2> QED BY <2>1, <2>2
<1> QED
  BY <1>3, <1>6, <1>7, <1>8 DEF Inv

LEMMA UnsetDoneInv ==
  ASSUME Inv, NEW j \in Requests, UnsetDone(j)
  PROVE  Inv'
<1> USE DefaultPlanAssumption
<1>1. /\ req[j].pc = "unset" /\ req[j].todo = {}
      /\ UNCHANGED <<plan, setBy, lost>>
      /\ req' = [req EXCEPT ![j].pc = req[j].then]
  BY DEF UnsetDone
<1>2. req[j].then \in {"insert", "write"}
  BY <1>1 DEF Inv, WellFormed, Defaulting
<1>3. TypeOK'
  BY <1>1 DEF Inv, TypeOK, RequestStates
<1>4. Defaults' = Defaults /\ Distinct'
  BY <1>1 DEF Inv, Distinct, Defaults
<1>5. ASSUME NEW i \in Requests
      PROVE  /\ req'[i].todo = req[i].todo /\ req'[i].plan = req[i].plan
             /\ req'[i].then = req[i].then /\ req'[i].default = req[i].default
             /\ i # j => req'[i].pc = req[i].pc
             /\ i = j => req'[i].pc = req[j].then
  BY <1>1 DEF Inv, TypeOK, RequestStates
<1>6. ASSUME NEW i \in Requests PROVE (WellFormed(i) /\ Fresh(i) /\ Clears(i))'
  <2>1. Defaulting(i)' <=> Defaulting(i)
    BY <1>1, <1>2, <1>5 DEF Defaulting
  <2>2. WellFormed(i)'
    BY <1>1, <1>2, <1>5, <2>1 DEF Inv, WellFormed
  <2>3. Clears(i)'
    BY <1>1, <1>4, <1>5, <2>1 DEF Inv, Clears
  <2>4. Fresh(i)'
    BY <1>1, <1>2, <1>5 DEF Inv, Fresh
  <2> QED BY <2>2, <2>3, <2>4
<1>7. \A i \in Requests : Defaulting(i)' <=> Defaulting(i)
  BY <1>1, <1>2, <1>5 DEF Defaulting
<1> QED
  BY <1>1, <1>3, <1>4, <1>6, <1>7 DEF Inv

\* A request ends without writing.
LEMMA FinishInv ==
  ASSUME Inv, NEW j \in Requests, Finish(j),
         UNCHANGED <<plan, setBy>>, lost' \in BOOLEAN,
         lost => lost', Defaulting(j) => lost'
  PROVE  Inv'
<1> USE DefaultPlanAssumption
<1>1. TypeOK'
  BY DEF Inv, TypeOK, RequestStates, Finish, Idle
<1>2. Defaults' = Defaults /\ Distinct'
  BY DEF Inv, Distinct, Defaults
<1>3. ASSUME NEW i \in Requests
      PROVE req'[i] = IF i = j THEN Idle ELSE req[i]
  BY DEF Inv, TypeOK, Finish
<1>4. ASSUME NEW i \in Requests PROVE (WellFormed(i) /\ Fresh(i) /\ Clears(i))'
  BY <1>2, <1>3 DEF Inv, WellFormed, Fresh, Clears, Defaulting, Idle
<1>5. (~lost => (Defaults # {} \/ \E i \in Requests : Defaulting(i)))'
  BY <1>2, <1>3 DEF Inv, Defaulting
<1> QED
  BY <1>1, <1>2, <1>4, <1>5 DEF Inv

\* A request writes its plan and ends: d is whether the plan is a default then.
LEMMA WritePlanInv ==
  ASSUME Inv, NEW j \in Requests, req[j].pc \in {"insert", "write"},
         Finish(j), setBy' = SetBy(j),
         NEW doc \in PlanDocs, doc.exists,
         plan' = [plan EXCEPT ![req[j].plan] = doc],
         req[j].default = "yes" => doc.default,
         doc.default => \/ req[j].default = "yes"
                        \/ req[j].plan \in Defaults,
         lost' \in BOOLEAN, lost => lost',
         ~lost' /\ req[j].plan \in Defaults => doc.default
  PROVE  Inv'
<1> USE DefaultPlanAssumption
<1> DEFINE x == req[j].plan
<1>1. x \in Plans
  BY DEF Inv, WellFormed
<1>2. TypeOK'
  <2>1. setBy' \in [Plans -> Requests \cup {NoRequest}]
    BY <1>1 DEF Inv, TypeOK, SetBy
  <2>2. req' \in [Requests -> RequestStates]
    BY DEF Inv, TypeOK, RequestStates, Finish, Idle
  <2>3. plan' \in [Plans -> PlanDocs]
    BY <1>1 DEF Inv, TypeOK
  <2> QED BY <2>1, <2>2, <2>3 DEF TypeOK
<1>3. ASSUME NEW p \in Plans
      PROVE  /\ plan'[p] = IF p = x THEN doc ELSE plan[p]
             /\ setBy'[p] = IF p = x /\ req[j].default = "yes" THEN j ELSE setBy[p]
  BY <1>1 DEF Inv, TypeOK, SetBy
<1>4. ASSUME NEW i \in Requests
      PROVE req'[i] = IF i = j THEN Idle ELSE req[i]
  BY DEF Inv, TypeOK, Finish
<1>5. Defaults' = IF doc.default THEN Defaults \cup {x} ELSE Defaults \ {x}
  BY <1>1, <1>3 DEF Defaults
<1>6. Defaulting(j) <=> req[j].default = "yes"
  BY DEF Defaulting
<1>7. req[j].todo = {}
  BY DEF Inv, WellFormed
<1>8. req[j].default = "yes" =>
        \A p \in Defaults \ {x} : setBy[p] \notin {j, NoRequest}
  BY <1>6, <1>7 DEF Inv, Clears
<1>9. Distinct'
  <2> SUFFICES ASSUME NEW p \in Defaults', NEW q \in Defaults',
                      setBy'[p] = setBy'[q] \/ setBy'[p] = NoRequest
               PROVE  p = q
    BY DEF Distinct
  <2>0. p \in Plans /\ q \in Plans
    BY DEF Defaults
  <2>1. CASE req[j].default = "yes"
    BY <2>0, <2>1, <1>3, <1>5, <1>8 DEF Inv, Distinct
  <2>2. CASE req[j].default # "yes"
    BY <2>0, <2>2, <1>3, <1>5 DEF Inv, Distinct
  <2> QED BY <2>1, <2>2
<1>10. ASSUME NEW i \in Requests PROVE (WellFormed(i) /\ Fresh(i) /\ Clears(i))'
  <2>1. CASE i = j
    BY <2>1, <1>4 DEF WellFormed, Fresh, Clears, Defaulting, Idle
  <2>2. CASE i # j
    <3>1. req'[i] = req[i] /\ (Defaulting(i)' <=> Defaulting(i))
      BY <2>2, <1>4 DEF Defaulting
    <3>2. WellFormed(i)'
      BY <3>1 DEF Inv, WellFormed
    <3>3. Clears(i)'
      <4> SUFFICES ASSUME Defaulting(i), NEW p \in Defaults' \ {req[i].plan},
                          setBy'[p] \in {i, NoRequest}
                   PROVE  p \in req[i].todo
        BY <3>1 DEF Clears
      <4>1. p \in Plans /\ p \in Defaults /\ setBy'[p] = setBy[p]
        BY <2>2, <1>3, <1>5 DEF Defaults
      <4> QED BY <4>1 DEF Inv, Clears
    <3>4. Fresh(i)'
      <4> SUFFICES ASSUME req[i].pc # "idle", req[i].then = "insert"
                   PROVE  /\ ~plan'[req[i].plan].exists
                          /\ \A k \in Requests \ {i} : req'[k].plan # req[i].plan
        BY <3>1 DEF Fresh
      <4>1. req[i].plan \in Plans /\ req[i].plan # x
        BY <2>2 DEF Inv, WellFormed, Fresh
      <4>2. ~plan'[req[i].plan].exists
        BY <4>1, <1>3 DEF Inv, Fresh
      <4>3. \A k \in Requests \ {i} : req'[k].plan # req[i].plan
        BY <4>1, <1>4 DEF Inv, Fresh, Idle
      <4> QED BY <4>2, <4>3
    <3> QED BY <3>2, <3>3, <3>4
  <2> QED BY <2>1, <2>2
<1>11. (~lost => (Defaults # {} \/ \E i \in Requests : Defaulting(i)))'
  <2> SUFFICES ASSUME ~lost', Defaults' = {} PROVE \E i \in Requests : Defaulting(i)'
    OBVIOUS
  <2>1. ~doc.default /\ req[j].default # "yes"
    BY <1>5
  <2>2. Defaults = {}
    BY <2>1, <1>5
  <2>3. PICK i \in Requests : Defaulting(i)
    BY <2>2 DEF Inv
  <2>4. i # j /\ Defaulting(i)'
    BY <2>1, <2>3, <1>4, <1>6 DEF Defaulting
  <2> QED BY <2>4
<1> QED
  BY <1>2, <1>9, <1>10, <1>11 DEF Inv

LEMMA InsertInv ==
  ASSUME Inv, NEW j \in Requests, Insert(j)
  PROVE  Inv'
<1> DEFINE doc == [exists |-> TRUE, default |-> req[j].default = "yes"]
<1>1. req[j].plan \notin Defaults
  BY DEF Inv, WellFormed, Fresh, Insert, Defaults
<1>2. doc \in PlanDocs /\ doc.exists /\ (doc.default <=> req[j].default = "yes")
  BY DEF PlanDocs
<1>3. lost' \in BOOLEAN /\ lost' = lost
  BY DEF Inv, TypeOK, Insert
<1> HIDE DEF doc
<1>4. plan' = [plan EXCEPT ![req[j].plan] = doc]
  BY DEF Insert, doc
<1>5. /\ req[j].pc \in {"insert", "write"} /\ Finish(j) /\ setBy' = SetBy(j)
      /\ req[j].default = "yes" => doc.default
      /\ doc.default => req[j].default = "yes" \/ req[j].plan \in Defaults
      /\ lost => lost'
      /\ (~lost' /\ req[j].plan \in Defaults) => doc.default
  BY <1>1, <1>2, <1>3 DEF Insert
<1> QED
  BY <1>2, <1>3, <1>4, <1>5, WritePlanInv

LEMMA WriteInv ==
  ASSUME Inv, NEW j \in Requests, Write(j)
  PROVE  Inv'
<1> DEFINE p == req[j].plan
           doc == [plan[p] EXCEPT !.default = Changed(@, req[j].default)]
<1>1. p \in Plans /\ req[j].default \in Changes
  BY DEF Inv, TypeOK, RequestStates, WellFormed, Write
<1>2. CASE plan[p].exists
  <2>1. /\ doc \in PlanDocs /\ doc.exists
        /\ doc.default = Changed(plan[p].default, req[j].default)
    BY <1>1, <1>2 DEF Inv, TypeOK, PlanDocs, Changed
  <2>2. /\ req[j].default = "yes" => doc.default
        /\ doc.default => req[j].default = "yes" \/ p \in Defaults
        /\ (~lost' /\ p \in Defaults) => doc.default
    BY <1>1, <1>2, <2>1 DEF Changed, Write, Defaults
  <2>3. lost' \in BOOLEAN /\ (lost => lost')
    BY <1>2 DEF Inv, TypeOK, Write
  <2>4. plan' = [plan EXCEPT ![p] = doc]
    BY <1>2 DEF Write
  <2> HIDE DEF doc
  <2>5. Finish(j) /\ setBy' = SetBy(j) /\ req[j].pc = "write"
    BY <1>2 DEF Write
  <2> QED
    BY <2>1, <2>2, <2>3, <2>4, <2>5, WritePlanInv
<1>3. CASE ~plan[p].exists
  <2>1. lost' \in BOOLEAN /\ (lost => lost') /\ (Defaulting(j) => lost')
    BY <1>3 DEF Inv, TypeOK, Write, Defaulting
  <2> QED
    BY <1>3, <2>1, FinishInv DEF Write
<1> QED BY <1>2, <1>3

LEMMA DeleteInv ==
  ASSUME Inv, NEW j \in Requests, Delete(j)
  PROVE  Inv'
<1> USE DefaultPlanAssumption
<1> DEFINE x == req[j].plan
<1>1. x \in Plans /\ req[j].pc = "delete" /\ ~Defaulting(j)
  BY DEF Delete, Inv, WellFormed
<1>2. TypeOK'
  <2>1. plan' \in [Plans -> PlanDocs]
    BY DEF Inv, TypeOK, PlanDocs, NoDoc, Delete
  <2>2. req' \in [Requests -> RequestStates]
    BY DEF Inv, TypeOK, RequestStates, Finish, Idle, Delete
  <2>3. lost' \in BOOLEAN /\ setBy' = setBy
    BY DEF Inv, TypeOK, Delete
  <2> QED BY <2>1, <2>2, <2>3 DEF Inv, TypeOK
<1>3. ASSUME NEW i \in Requests
      PROVE req'[i] = IF i = j THEN Idle ELSE req[i]
  BY DEF Inv, TypeOK, Finish, Delete
<1>4. ASSUME NEW p \in Plans
      PROVE plan'[p] = IF p = x THEN NoDoc ELSE plan[p]
  BY DEF Inv, TypeOK, Delete
<1>5. Defaults' = Defaults \ {x} /\ setBy' = setBy
  BY <1>4 DEF Defaults, NoDoc, Delete
<1>6. Distinct'
  BY <1>5 DEF Inv, Distinct
<1>7. (lost => lost') /\ (~lost' => x \notin Defaults)
  BY DEF Delete
<1>8. ASSUME NEW i \in Requests
      PROVE (WellFormed(i) /\ Fresh(i) /\ Clears(i))'
  <2>1. CASE i = j
    BY <2>1, <1>3 DEF WellFormed, Fresh, Clears, Defaulting, Idle
  <2>2. CASE i # j
    <3>1. req'[i] = req[i] /\ (Defaulting(i)' <=> Defaulting(i))
      BY <2>2, <1>3 DEF Defaulting
    <3>2. WellFormed(i)' /\ Clears(i)'
      BY <3>1, <1>5 DEF Inv, WellFormed, Clears
    <3>3. Fresh(i)'
      BY <3>1, <1>1, <1>3, <1>4 DEF Inv, Fresh, WellFormed, NoDoc, Idle
    <3> QED BY <3>2, <3>3
  <2> QED BY <2>1, <2>2
<1>9. (~lost => (Defaults # {} \/ \E i \in Requests : Defaulting(i)))'
  <2> SUFFICES ASSUME ~lost', Defaults' = {} PROVE \E i \in Requests : Defaulting(i)'
    OBVIOUS
  <2>1. Defaults = {} /\ ~lost
    BY <1>5, <1>7
  <2>2. PICK i \in Requests : Defaulting(i)
    BY <2>1 DEF Inv
  <2> QED BY <2>2, <1>1, <1>3 DEF Defaulting
<1> QED
  BY <1>2, <1>6, <1>8, <1>9 DEF Inv

LEMMA StartInv ==
  ASSUME Inv, NEW j \in Requests, Start(j)
  PROVE  Inv'
<1>1. CASE \E p \in Plans, d \in Changes : Create(j, p, d)
  <2>1. PICK p \in Plans, d \in Changes : Create(j, p, d)
    BY <1>1
  <2> QED BY <2>1, BeginInv, "insert" \in Writes DEF Create
<1>2. CASE \E p \in Plans, d \in Changes : Update(j, p, d)
  <2>1. PICK p \in Plans, d \in Changes : Update(j, p, d)
    BY <1>2
  <2> QED BY <2>1, BeginInv, "write" \in Writes DEF Update
<1>3. CASE \E p \in Plans : SetDefault(j, p)
  BY <1>3, BeginInv DEF SetDefault
<1>4. CASE \E p \in Plans, used \in BOOLEAN : Remove(j, p, used)
  BY <1>4, BeginInv DEF Remove
<1> QED BY <1>1, <1>2, <1>3, <1>4 DEF Start

LEMMA NextInv == Inv /\ [Next]_vars => Inv'
<1> SUFFICES ASSUME Inv, [Next]_vars PROVE Inv'
  OBVIOUS
<1>1. CASE UNCHANGED vars
  BY <1>1 DEF vars, Inv, TypeOK, Distinct, WellFormed, Fresh, Clears,
              Defaulting, Defaults
<1>2. CASE Next
  <2>1. PICK j \in Requests : Start(j) \/ Continue(j) \/ Fail(j)
    BY <1>2 DEF Next
  <2>2. CASE Start(j)
    BY <2>2, StartInv
  <2>3. CASE Continue(j)
    BY <2>3, UnsetOneInv, UnsetDoneInv, InsertInv, WriteInv, DeleteInv DEF Continue
  <2>4. CASE Fail(j)
    <3>1. lost' \in BOOLEAN /\ (lost => lost') /\ (Defaulting(j) => lost')
      BY <2>4 DEF Fail, Defaulting, Inv, TypeOK
    <3> QED BY <2>4, <3>1, FinishInv DEF Fail
  <2> QED BY <2>1, <2>2, <2>3, <2>4
<1> QED BY <1>1, <1>2

(***************************************************************************)
(* The inductive invariant holds: what each request that is about to make  *)
(* a plan the default has still to unset.                                  *)
(***************************************************************************)
THEOREM InvHolds == Spec => []Inv
  BY InitInv, NextInv, PTL DEF Spec

\* The default plans, each with the slot that made it the default, are no more
\* than the slots.
LEMMA InvBound == Inv => DefaultsBounded
<1> SUFFICES ASSUME Inv PROVE Cardinality(Defaults) <= Cardinality(Requests)
  BY DEF DefaultsBounded
<1> USE DefaultPlanAssumption
<1>1. Cardinality(Requests) \in Nat /\ Cardinality(Requests) # 0
  BY FS_CardinalityType, FS_EmptySet
<1>2. CASE \E p \in Defaults : setBy[p] = NoRequest
  <2>1. PICK p \in Defaults : setBy[p] = NoRequest
    BY <1>2
  <2>2. Defaults = {p}
    BY <2>1 DEF Inv, Distinct
  <2>3. Cardinality(Defaults) = 1
    BY <2>2, FS_Singleton
  <2> QED BY <1>1, <2>3
<1>3. CASE \A p \in Defaults : setBy[p] # NoRequest
  <2> DEFINE f == [p \in Defaults |-> setBy[p]]
  <2>1. f \in Injection(Defaults, Requests)
    <3>1. \A p \in Defaults : setBy[p] \in Requests
      BY <1>3 DEF Inv, TypeOK, Defaults
    <3>2. f \in [Defaults -> Requests]
      BY <3>1
    <3>3. \A p, q \in Defaults : f[p] = f[q] => p = q
      BY DEF Inv, Distinct
    <3> QED BY <3>2, <3>3 DEF Injection, IsInjective
  <2>2. PICK g \in Injection(Defaults, Requests) : TRUE
    BY <2>1
  <2> QED
    BY <2>2, FS_Injection
<1> QED BY <1>2, <1>3

(***************************************************************************)
(* For any catalogue and any number of concurrent requests, there are      *)
(* never more default plans than requests that can be in flight at once.   *)
(***************************************************************************)
THEOREM DefaultsTheorem == Spec => []DefaultsBounded
  BY InvHolds, InvBound, PTL

(***************************************************************************)
(* When the requests are done there is a default plan, unless one was      *)
(* switched off or deleted, or a request unset the others and ended.       *)
(***************************************************************************)
THEOREM SurvivalTheorem == Spec => []DefaultSurvives
<1>1. Inv => DefaultSurvives
  BY DEF Inv, DefaultSurvives, Defaulting
<1> QED BY <1>1, InvHolds, PTL
=============================================================================
