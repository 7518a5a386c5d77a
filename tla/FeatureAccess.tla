---------------------------- MODULE FeatureAccess ----------------------------
(***************************************************************************)
(* What a user may do: FeatureGuard and SearchService ask FeatureFlag-     *)
(* Service for a feature, which reads the tenant's flag and then the       *)
(* user's permission.  The flags are switched by the plans (Entitlements)  *)
(* and by the tenant, the permissions by updateUserFeaturePermissions.     *)
(*                                                                         *)
(* The fields onFlag, onGrant, onBoth and changes of a request belong to   *)
(* the verification: the features whose flag, permission, or both at once, *)
(* were enabled at some time since the request began, and how many records *)
(* have changed, counted up to two.                                        *)
(***************************************************************************)
EXTENDS Naturals

CONSTANTS
    Gated,    \* features
    Askers    \* slots for requests in flight

VARIABLES
    flag,   \* the tenant's flag records
    grant,  \* the user's permission records
    ask     \* the requests in flight

accessVars == <<flag, grant, ask>>
-----------------------------------------------------------------------------
Records == {"none", "on", "off"}

\* A record that is not there enables.
Enabled(record) == record # "off"

NoAsk == [pc |-> "idle", need |-> {}, half |-> {}, open |-> {}, onFlag |-> {},
          onGrant |-> {}, onBoth |-> {}, changes |-> 0]

AccessTypeOK ==
    /\ flag \in [Gated -> Records]
    /\ grant \in [Gated -> Records]
    /\ ask \in [Askers ->
          [pc : {"idle", "guard", "search", "assign"},
           need : SUBSET Gated, half : SUBSET Gated, open : SUBSET Gated,
           onFlag : SUBSET Gated, onGrant : SUBSET Gated,
           onBoth : SUBSET Gated, changes : 0 .. 2]]

AccessInit ==
    /\ flag = [f \in Gated |-> "none"]
    /\ grant = [f \in Gated |-> "none"]
    /\ ask = [a \in Askers |-> NoAsk]

FlagOn  == {f \in Gated : Enabled(flag[f])}
GrantOn == {f \in Gated : Enabled(grant[f])}

EndAsk(a) == ask' = [ask EXCEPT ![a] = NoAsk]

\* Request t sees these features enabled; those it does not ask for do not
\* count.
Seeing(t, flags, grants) ==
    LET asked == CASE t.pc = "guard"  -> t.need \cup t.half \cup t.open
                   [] t.pc = "search" -> Gated
                   [] OTHER           -> {} IN
    [t EXCEPT !.onFlag  = (@ \cup flags) \cap asked,
              !.onGrant = (@ \cup grants) \cap asked,
              !.onBoth  = (@ \cup (flags \cap grants)) \cap asked]

StartAsk(a, pc, features) ==
    /\ ask[a].pc = "idle"
    /\ ask' = [ask EXCEPT ![a] =
          Seeing([NoAsk EXCEPT !.pc = pc, !.need = features], FlagOn, GrantOn)]
    /\ UNCHANGED <<flag, grant>>

\* Request t after a record has changed.
Informed(t) ==
    IF t.pc \notin {"guard", "search"} THEN t
    ELSE [Seeing(t, FlagOn', GrantOn') EXCEPT
             !.changes = IF @ = 2 THEN 2 ELSE @ + 1]
-----------------------------------------------------------------------------
\* setTenantFeature, and the updateOne of updateTenantFeatures.
SwitchFlag(f, to) ==
    /\ flag[f] # to
    /\ flag' = [flag EXCEPT ![f] = to]
    /\ UNCHANGED grant
    /\ ask' = [a \in Askers |-> Informed(ask[a])]

\* updateUserFeaturePermissions reads the flags and refuses a feature that is
\* not assigned and enabled.
UpdateUserFeaturePermissions(a, features) ==
    /\ \A f \in features : flag[f] = "on"
    /\ StartAsk(a, "assign", features)

\* The bulkWrite, one upsert after the other.
WritePermission(a, f, to) ==
    /\ ask[a].pc = "assign"
    /\ f \in ask[a].need
    /\ grant' = [grant EXCEPT ![f] = to]
    /\ UNCHANGED flag
    /\ LET told == IF grant[f] = to THEN ask
                   ELSE [b \in Askers |-> Informed(ask[b])]
           left == ask[a].need \ {f}
       IN  ask' = [told EXCEPT ![a] = IF left = {} THEN NoAsk
                                      ELSE [@ EXCEPT !.need = left]]

\* FeatureGuard.canActivate, for a handler that requires these features.
CanActivate(a, features) == StartAsk(a, "guard", features)

\* SearchService.search asks for all the features at once.
Search(a) == StartAsk(a, "search", Gated)

\* isFeatureEnabled.  The guard asks for one feature after the other, and
\* throws when one is not enabled.
IsFeatureEnabled(a, f) ==
    /\ ask[a].pc \in {"guard", "search"}
    /\ f \in ask[a].need
    /\ ask[a].pc = "guard" => ask[a].half = {}
    /\ IF Enabled(flag[f])
       THEN ask' = [ask EXCEPT ![a].need = @ \ {f}, ![a].half = @ \cup {f}]
       ELSE IF ask[a].pc = "guard" THEN EndAsk(a)
            ELSE ask' = [ask EXCEPT ![a].need = @ \ {f}]
    /\ UNCHANGED <<flag, grant>>

\* The second read of isFeatureEnabledForUser; the first form forgets it.
PassesUnasked(f) == TRUE
Passes(f)        == Enabled(grant[f])

IsFeatureEnabledForUser(a, f) ==
    /\ f \in ask[a].half
    /\ IF Passes(f)
       THEN ask' = [ask EXCEPT ![a].half = @ \ {f}, ![a].open = @ \cup {f}]
       ELSE IF ask[a].pc = "guard" THEN EndAsk(a)
            ELSE ask' = [ask EXCEPT ![a].half = @ \ {f}]
    /\ UNCHANGED <<flag, grant>>

\* Every feature has been asked for: the handler runs, or the collections of
\* the open features are searched.
Through(a) == ask[a].pc \in {"guard", "search"} /\ ask[a].need \cup ask[a].half = {}

\* The answer, or an exception; search answers that with nothing found.
EndRequest(a) ==
    /\ ask[a].pc # "idle"
    /\ EndAsk(a)
    /\ UNCHANGED <<flag, grant>>

AccessNext ==
    \/ \E f \in Gated, to \in {"on", "off"} :
          \/ SwitchFlag(f, to)
          \/ \E a \in Askers : WritePermission(a, f, to)
    \/ \E a \in Askers, features \in SUBSET Gated \ {{}} :
          CanActivate(a, features) \/ UpdateUserFeaturePermissions(a, features)
    \/ \E a \in Askers, f \in Gated :
          IsFeatureEnabled(a, f) \/ IsFeatureEnabledForUser(a, f)
    \/ \E a \in Askers : Search(a) \/ EndRequest(a)

AccessSpec == AccessInit /\ [][AccessNext]_accessVars
-----------------------------------------------------------------------------
\* getUserFeatures, the menu of the user: the features that have a flag, the
\* enabled ones with what the permission says.  The first form lets the
\* permission override a disabled flag.
MenuOverriding(f) == IF grant[f] # "none" THEN grant[f] = "on" ELSE flag[f] = "on"
GetUserFeatures(f) ==
    IF flag[f] = "on" /\ grant[f] # "none" THEN grant[f] = "on"
                                           ELSE flag[f] = "on"

(* Properties *)

\* The features a request is let through with, or searches, were enabled for
\* the tenant and for the user at some time since it began, although the two
\* are read one after the other; with one change at most, both at once.
AccessBacked ==
    \A a \in Askers : Through(a) =>
        /\ ask[a].open \subseteq ask[a].onFlag \cap ask[a].onGrant
        /\ ask[a].changes < 2 => ask[a].open \subseteq ask[a].onBoth

\* The menu and the guard agree on every feature that has a flag, though they
\* combine the flag and the permission in different ways.
MenuAgrees ==
    \A f \in Gated : flag[f] # "none" =>
        (GetUserFeatures(f) <=> Enabled(flag[f]) /\ Passes(f))
=============================================================================
