--------------------------- MODULE MCDefaultPlan ---------------------------
(***************************************************************************)
(* One run for the components of the platform that share no state: the     *)
(* variable part says which of them a behaviour is about, and the others   *)
(* stay in their first state.  The constants are those of each.            *)
(***************************************************************************)
EXTENDS DefaultPlan, Entitlements, FeatureAccess, Accounts, TLC

VARIABLE part

Parts == {"default", "entitlements", "access", "accounts"}

\* Of the accounts, one at most belongs to another tenant at first.
MCInit ==
    /\ part \in Parts
    /\ Init /\ EntInit /\ AccessInit /\ AccountInit
    /\ part # "default"      => plan = [p \in Plans |-> NoDoc]
    /\ part # "entitlements" => features = [p \in Catalogue |-> {}]
    /\ Cardinality({e \in Emails : account[e] # NoAccount}) <= 1
    /\ part # "accounts" => account = [e \in Emails |-> NoAccount]

\* Bound: the accounts of the other tenant keep their role and password, on
\* which nothing depends.
KeptElsewhere ==
    \A e \in Emails : account[e].tenant = Elsewhere =>
        account'[e] \in {account[e], NoAccount}

\* Bound: no trial of a plan that is free; a paid trial is reached by paying.
NoFreeTrial ==
    \A c \in Calls : call'[c].free => call'[c].status = "PAID"

MCNext ==
    /\ part' = part
    /\ \/ part = "default" /\ Next
       \/ part = "entitlements" /\ EntNext
       \/ part = "access" /\ AccessNext
       \/ part = "accounts" /\ AccountNext
    /\ part # "default"      => UNCHANGED vars
    /\ part # "entitlements" => UNCHANGED entVars
    /\ part # "access"       => UNCHANGED accessVars
    /\ part # "accounts"     => UNCHANGED accountVars
    /\ KeptElsewhere /\ NoFreeTrial

MCSpec == MCInit /\ [][MCNext]_<<part, vars, entVars, accessVars, accountVars>>

\* The slots for requests are the same two in every part; so are two of the
\* plans, the catalogue, the gated features and the emails.  None differs at
\* first.
Symmetry == Permutations(Requests) \cup Permutations(Catalogue)
=============================================================================
