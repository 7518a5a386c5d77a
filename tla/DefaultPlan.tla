---------------------------- MODULE DefaultPlan ----------------------------
(***************************************************************************)
(* The default plan for signups: the isDefault flags of the plans and the  *)
(* super admin's requests that write them (PlansService create, update,    *)
(* setDefaultPlan and remove).  The other fields of a plan are data.       *)
(*                                                                         *)
(* A request that makes a plan the default first unsets the others, one    *)
(* document after the other (updateMany is atomic per document only), and  *)
(* then writes its own plan.  Nothing keeps two of them apart, and nothing *)
(* sets the flags back when one of them ends half way.                     *)
(*                                                                         *)
(* The variables setBy and lost belong to the verification, not to the     *)
(* program: the request slot that made each plan the default, and whether  *)
(* something has given a default up: switched it off, deleted it, or ended *)
(* between unsetting the others and setting its own.                       *)
(***************************************************************************)
EXTENDS Naturals, FiniteSets

CONSTANTS
    Plans,      \* ids of plan documents
    Requests,   \* slots for requests in flight
    NoPlan, NoRequest,
    Ops         \* the endpoints that are called

AllOps == {"create", "update", "setDefault", "remove", "fail"}

ASSUME DefaultPlanAssumption ==
    /\ IsFiniteSet(Requests) /\ Requests # {}
    /\ NoPlan \notin Plans
    /\ NoRequest \notin Requests
    /\ Ops \subseteq AllOps

VARIABLES
    plan,    \* the plans collection
    req,     \* the requests in flight
    setBy,   \* history: who last made each plan the default
    lost     \* history: a default was given up

vars == <<plan, req, setBy, lost>>
-----------------------------------------------------------------------------
\* A field of an update: left alone, or written.
Changes == {"keep", "yes", "no"}

PlanDocs == [exists : BOOLEAN, default : BOOLEAN]
NoDoc    == [exists |-> FALSE, default |-> FALSE]

Writes == {"insert", "write", "delete"}

Idle == [pc |-> "idle", then |-> "write", plan |-> NoPlan,
         default |-> "keep", todo |-> {}]

RequestStates == [pc : {"idle", "unset"} \cup Writes, then : Writes,
                  plan : Plans \cup {NoPlan}, default : Changes,
                  todo : SUBSET Plans]

TypeOK ==
    /\ plan \in [Plans -> PlanDocs]
    /\ req \in [Requests -> RequestStates]
    /\ setBy \in [Plans -> Requests \cup {NoRequest}]
    /\ lost \in BOOLEAN

Existing == {p \in Plans : plan[p].exists}
Defaults == {p \in Plans : plan[p].exists /\ plan[p].default}

\* Any catalogue with at most one default.
Init ==
    /\ plan \in [Plans -> PlanDocs]
    /\ \A p \in Plans : ~plan[p].exists => plan[p] = NoDoc
    /\ \A p, q \in Defaults : p = q
    /\ req = [j \in Requests |-> Idle]
    /\ setBy = [p \in Plans |-> NoRequest]
    /\ lost = (Defaults = {})

Finish(j) == req' = [req EXCEPT ![j] = Idle]

\* The first form writes every field but a default that is switched on.
ChangedForgotten(old, change) == IF change = "no" THEN FALSE ELSE old
Changed(old, change) == CASE change = "keep" -> old
                          [] change = "yes"  -> TRUE
                          [] change = "no"   -> FALSE
-----------------------------------------------------------------------------
\* What updateMany visits before plan p is written: every other plan there is.
\* The first form forgets to unset.
OthersForgotten(p) == {}
Others(p)          == Existing \ {p}

\* A request begins that will write plan p by the call then; to make it the
\* default it unsets the others before.
Begin(j, p, d, then) ==
    /\ req[j].pc = "idle"
    /\ req' = [req EXCEPT ![j] =
                 [pc |-> IF d = "yes" THEN "unset" ELSE then, then |-> then,
                  plan |-> p, default |-> d,
                  todo |-> IF d = "yes" THEN Others(p) ELSE {}]]
    /\ UNCHANGED <<plan, setBy, lost>>

\* POST /admin/plans: the document gets an id that nobody has named yet.
Create(j, p, d) ==
    /\ "create" \in Ops
    /\ ~plan[p].exists
    /\ \A i \in Requests : req[i].plan # p
    /\ Begin(j, p, d, "insert")

\* A request can name any plan but one that is still to be inserted.  Nobody
\* looks whether the plan exists before the others are unset.
Known(p) == \A i \in Requests : req[i].plan = p => req[i].then # "insert"

\* PATCH /admin/plans/:id
Update(j, p, d) ==
    /\ "update" \in Ops
    /\ Known(p)
    /\ Begin(j, p, d, "write")

\* POST /admin/plans/:id/set-default
SetDefault(j, p) ==
    /\ "setDefault" \in Ops
    /\ Known(p)
    /\ Begin(j, p, "yes", "write")

\* DELETE /admin/plans/:id: a plan with a subscription is deactivated, which
\* leaves its isDefault alone.
Remove(j, p, used) ==
    /\ "remove" \in Ops
    /\ Known(p)
    /\ Begin(j, p, "keep", IF used THEN "write" ELSE "delete")
-----------------------------------------------------------------------------
\* updateMany, one document.
UnsetOne(j) ==
    /\ req[j].pc = "unset"
    /\ \E p \in req[j].todo :
          /\ plan' = [plan EXCEPT ![p].default = FALSE]
          /\ req' = [req EXCEPT ![j].todo = @ \ {p}]
    /\ UNCHANGED <<setBy, lost>>

\* updateMany has answered.
UnsetDone(j) ==
    /\ req[j].pc = "unset"
    /\ req[j].todo = {}
    /\ req' = [req EXCEPT ![j].pc = req[j].then]
    /\ UNCHANGED <<plan, setBy, lost>>

SetBy(j) == IF req[j].default = "yes" THEN [setBy EXCEPT ![req[j].plan] = j]
                                      ELSE setBy

\* plan.save()
Insert(j) ==
    /\ req[j].pc = "insert"
    /\ plan' = [plan EXCEPT ![req[j].plan] =
                  [exists |-> TRUE, default |-> req[j].default = "yes"]]
    /\ setBy' = SetBy(j)
    /\ Finish(j)
    /\ UNCHANGED lost

\* findByIdAndUpdate, which throws when there is no such plan.
Write(j) ==
    /\ req[j].pc = "write"
    /\ LET p == req[j].plan
       IN  IF plan[p].exists
           THEN /\ plan' = [plan EXCEPT ![p].default =
                              Changed(@, req[j].default)]
                /\ setBy' = SetBy(j)
                /\ lost' = (lost \/ (req[j].default = "no" /\ plan[p].default))
           ELSE /\ lost' = (lost \/ req[j].default = "yes")
                /\ UNCHANGED <<plan, setBy>>
    /\ Finish(j)

\* findByIdAndDelete
Delete(j) ==
    /\ req[j].pc = "delete"
    /\ plan' = [plan EXCEPT ![req[j].plan] = NoDoc]
    /\ lost' = (lost \/ req[j].plan \in Defaults)
    /\ Finish(j)
    /\ UNCHANGED setBy

\* A database call is rejected or the process stops.
Fail(j) ==
    /\ "fail" \in Ops
    /\ req[j].pc # "idle"
    /\ lost' = (lost \/ req[j].default = "yes")
    /\ Finish(j)
    /\ UNCHANGED <<plan, setBy>>
-----------------------------------------------------------------------------
Start(j) ==
    \/ \E p \in Plans, d \in Changes : Create(j, p, d) \/ Update(j, p, d)
    \/ \E p \in Plans : SetDefault(j, p)
    \/ \E p \in Plans, used \in BOOLEAN : Remove(j, p, used)

Continue(j) == UnsetOne(j) \/ UnsetDone(j) \/ Insert(j) \/ Write(j) \/ Delete(j)

Next == \E j \in Requests : Start(j) \/ Continue(j) \/ Fail(j)

Spec == Init /\ [][Next]_vars
-----------------------------------------------------------------------------
(* Properties *)

\* Requests that run at the same time may leave several defaults, but never
\* more than can be in flight with each other: whoever makes a plan the
\* default has unset the one it made the default before.  One request at a
\* time keeps the default unique.
DefaultsBounded == Cardinality(Defaults) <= Cardinality(Requests)

\* However requests that change the default overlap, one is left when they are
\* done, unless a default was switched off or deleted, or a request that had
\* unset the others failed or found no plan to set.
DefaultSurvives ==
    (~lost /\ \A j \in Requests : req[j].pc = "idle") => Defaults # {}

\* Request j is going to make its plan the default.
Defaulting(j) == req[j].pc # "idle" /\ req[j].default = "yes"

\* No slot has made two plans the default, and none is left that nobody made
\* the default once a slot has.
Distinct ==
    \A p, q \in Defaults :
        (setBy[p] = setBy[q] \/ setBy[p] = NoRequest) => p = q

\* Which fields of a request are set at each call.
WellFormed(j) ==
    /\ req[j].pc # "idle" => req[j].plan \in Plans
    /\ req[j].pc # "unset" => req[j].todo = {}
    /\ req[j].pc = "unset" => req[j].default = "yes"
    /\ req[j].pc \in Writes => req[j].then = req[j].pc
    /\ Defaulting(j) => req[j].then \in {"insert", "write"}

\* A plan that a request is going to insert is nobody else's yet.
Fresh(j) ==
    (req[j].pc # "idle" /\ req[j].then = "insert") =>
        /\ ~plan[req[j].plan].exists
        /\ \A i \in Requests \ {j} : req[i].plan # req[j].plan

\* A request that is about to make a plan the default has still to unset, or
\* has unset, the one its slot made the default before and the first one.
Clears(j) ==
    Defaulting(j) =>
        \A p \in Defaults \ {req[j].plan} :
            setBy[p] \in {j, NoRequest} => p \in req[j].todo

\* The inductive invariant.
Inv ==
    /\ TypeOK
    /\ Distinct
    /\ \A j \in Requests : WellFormed(j) /\ Fresh(j) /\ Clears(j)
    /\ ~lost => (Defaults # {} \/ \E j \in Requests : Defaulting(j))
=============================================================================
