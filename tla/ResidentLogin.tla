--------------------------- MODULE ResidentLogin ---------------------------
(***************************************************************************)
(* The resident portal of one mobile number: ResidentAuthService.  A       *)
(* person asks for a code, verifies it (both in Otp) and is logged in at   *)
(* once, or chooses among several residencies, and later refreshes the     *)
(* token; the residents with the number are linked to the person on the    *)
(* way.  Between two calls residents come and leave, and their portal is   *)
(* switched on and off.                                                    *)
(*                                                                         *)
(* The field seen of a request belongs to the verification: what held at   *)
(* some time since it began.                                               *)
(***************************************************************************)
EXTENDS Naturals, FiniteSets

CONSTANTS
    Stays,        \* residencies of the number, each in a tenant of its own
    Guests,       \* slots for requests in flight
    NoStay

ASSUME PortalAssumption == NoStay \notin Stays

VARIABLES
    person,     \* the person of the number
    linked,     \* the residents whose personId is that person
    resident,   \* every residency: away, or there with the portal on or off
    portalOn,   \* the tenants with the RESIDENT_PORTAL feature
    session,    \* residencies whose last token is in Redis
    guest       \* the requests in flight

portalDocs == <<person, linked, resident, portalOn, session>>
portalVars == <<person, linked, resident, portalOn, session, guest>>
-----------------------------------------------------------------------------
Facts   == Stays \X {"there", "portal", "feature", "token"}
NoGuest == [pc |-> "idle", op |-> "request", stay |-> NoStay,
            found |-> {}, valid |-> {}, seen |-> {}]

PortalTypeOK ==
    /\ person \in {"none", "placeholder", "named"}
    /\ linked \subseteq Stays
    /\ resident \in [Stays -> {"away", "plain", "portal"}]
    /\ portalOn \subseteq Stays
    /\ session \subseteq Stays
    /\ guest \in [Guests ->
          [pc : {"idle", "person", "mine", "phone", "link", "name", "again",
                 "flags", "store", "token", "resident", "granted"},
           op : {"request", "verify", "choose", "refresh"},
           stay : Stays \cup {NoStay},
           found : SUBSET Stays, valid : SUBSET Stays, seen : SUBSET Facts]]

PortalInit ==
    /\ person = "none"
    /\ linked = {}
    /\ resident = [r \in Stays |-> "portal"]
    /\ portalOn = Stays
    /\ session = {}
    /\ guest = [g \in Guests |-> NoGuest]

\* The facts in such a state.
FactsOf(residents, features, tokens) ==
    {x \in Facts : CASE x[2] = "there"   -> residents[x[1]] # "away"
                     [] x[2] = "portal"  -> residents[x[1]] = "portal"
                     [] x[2] = "feature" -> x[1] \in features
                     [] x[2] = "token"   -> x[1] \in tokens}

\* What has to hold of residency r for a token; a refresh does not look at the
\* resident's own switch again.
Required(op, r) ==
    IF op = "refresh" THEN {r} \X {"there", "feature", "token"}
                      ELSE {r} \X {"there", "portal", "feature"}

\* The residencies a request is about: all of them, or the one chosen.
About(t) == IF t.stay = NoStay THEN Stays ELSE {t.stay}

\* The facts have changed: every request in flight sees those it is about.
See(t, facts) ==
    IF t.op = "request" THEN t
    ELSE [t EXCEPT !.seen = @ \cup (facts \cap UNION {Required(t.op, r) :
                                                      r \in About(t)})]
SeeFacts(requests) ==
    guest' = [g \in Guests |->
                 See(requests[g], FactsOf(resident', portalOn', session'))]

Goes(g, pc) == guest' = [guest EXCEPT ![g].pc = pc]
Ends(g)     == guest' = [guest EXCEPT ![g] = NoGuest]
There       == {r \in Stays : resident[r] # "away"}

Chosen(g) == About(guest[g])

Arrive(g, op, pc, r) ==
    /\ guest[g].pc = "idle"
    /\ guest' = [guest EXCEPT ![g] =
          See([NoGuest EXCEPT !.pc = pc, !.op = op, !.stay = r],
              FactsOf(resident, portalOn, session))]
    /\ UNCHANGED portalDocs
-----------------------------------------------------------------------------
(* The four endpoints begin. *)

RequestOtp(g) == Arrive(g, "request", "person", NoStay)

\* Otp has accepted the code.  A tenant, which picks one residency, may be
\* given or not.
VerifyOtpAndLogin(g, r) == Arrive(g, "verify", "person", r)

LoginWithTenant(g, r) == Arrive(g, "choose", "person", r)

\* With the last token given out; an older one is refused by the comparison.
RefreshAccess(g, r) == Arrive(g, "refresh", "token", r)
-----------------------------------------------------------------------------
(* What request, verify and choose have in common. *)

\* findOne on the person, whom only requestOtp creates.
FindPerson(g) ==
    /\ guest[g].pc = "person"
    /\ IF person = "none" /\ guest[g].op # "request"
       THEN Ends(g) /\ UNCHANGED person
       ELSE /\ person' = IF person = "none" THEN "placeholder" ELSE person
            /\ Goes(g, "mine")
    /\ UNCHANGED <<linked, resident, portalOn, session>>

\* A resident document is read with its portalEnabled, which counts later.
Found(g, here, next) ==
    guest' = [guest EXCEPT ![g].pc = next, ![g].found = here,
                           ![g].valid = {r \in here : resident[r] = "portal"}]

\* The residents linked to the person, before linking and after it.
FindResidents(g) ==
    /\ guest[g].pc \in {"mine", "again"}
    /\ LET here == linked \cap There \cap Chosen(g) IN
       IF here # {} THEN Found(g, here, "flags")
       ELSE IF guest[g].pc = "mine" THEN Goes(g, "phone") ELSE Ends(g)
    /\ UNCHANGED portalDocs

\* The residents with the number, linked or not.
FindByPhone(g) ==
    /\ guest[g].pc = "phone"
    /\ LET here == There \cap Chosen(g) IN
       IF here = {} THEN Ends(g) ELSE Found(g, here, "link")
    /\ UNCHANGED portalDocs

\* updateMany looks again for those who are there; loginWithTenant saves the
\* resident it has found.
LinkResidents(g) ==
    /\ guest[g].pc = "link"
    /\ linked' = linked \cup (IF guest[g].op = "choose" THEN guest[g].found
                              ELSE There \cap Chosen(g))
    /\ Goes(g, "name")
    /\ UNCHANGED <<person, resident, portalOn, session>>

\* The placeholder gets the name of the first resident.  loginWithTenant goes
\* on with the resident it has, the others look for theirs again.
NamePerson(g) ==
    /\ guest[g].pc = "name"
    /\ person' = "named"
    /\ Goes(g, IF guest[g].op = "choose" THEN "flags" ELSE "again")
    /\ UNCHANGED <<linked, resident, portalOn, session>>

\* What a login asks of a resident; the first form forgets the feature flag.
AllowedAnyway(g, r) == r \in guest[g].valid
Allowed(g, r)       == r \in portalOn /\ r \in guest[g].valid

\* isFeatureEnabled for one resident after the other: requestOtp needs one
\* tenant with the portal, and goes on in Otp; a login takes the residents that
\* are allowed in, and answers with a list when there are several.
AskFlag(g, r) ==
    /\ guest[g].pc = "flags"
    /\ r \in guest[g].found
    /\ LET last  == guest[g].found = {r}
           valid == IF Allowed(g, r) THEN guest[g].valid
                                     ELSE guest[g].valid \ {r} IN
       IF guest[g].op = "request"
       THEN IF last \/ r \in portalOn THEN Ends(g)
            ELSE guest' = [guest EXCEPT ![g].found = @ \ {r}]
       ELSE IF ~last
       THEN guest' = [guest EXCEPT ![g].found = @ \ {r}, ![g].valid = valid]
       ELSE IF Cardinality(valid) # 1 THEN Ends(g)
       ELSE guest' = [guest EXCEPT ![g].pc = "store", ![g].found = {},
                                   ![g].stay = CHOOSE s \in valid : TRUE]
    /\ UNCHANGED portalDocs

\* generateTokens: the token is stored, and answered.
StoreToken(g) ==
    /\ guest[g].pc = "store"
    /\ session' = session \cup {guest[g].stay}
    /\ UNCHANGED <<person, linked, resident, portalOn>>
    /\ SeeFacts([guest EXCEPT ![g].pc = "granted"])
-----------------------------------------------------------------------------
(* refreshToken: the slot, the resident, the feature. *)

CompareToken(g) ==
    /\ guest[g].pc = "token"
    /\ IF guest[g].stay \in session THEN Goes(g, "resident") ELSE Ends(g)
    /\ UNCHANGED portalDocs

\* The first form does not ask whether the resident is still there.
StaysAnyway(r) == TRUE
StaysOn(r)     == r \in There

CheckResident(g) ==
    /\ guest[g].pc = "resident" /\ guest[g].found = {}
    /\ IF StaysOn(guest[g].stay)
       THEN guest' = [guest EXCEPT ![g].found = {guest[g].stay}] ELSE Ends(g)
    /\ UNCHANGED portalDocs

CheckPortal(g) ==
    /\ guest[g].pc = "resident" /\ guest[g].found # {}
    /\ IF guest[g].stay \in portalOn THEN Goes(g, "granted") ELSE Ends(g)
    /\ UNCHANGED portalDocs

\* logout, a later login, or the end of the seven days.
EndSession(r) ==
    /\ r \in session
    /\ session' = session \ {r}
    /\ UNCHANGED <<person, linked, resident, portalOn>>
    /\ SeeFacts(guest)

\* The answer; or a database call is rejected, or the process stops.
EndGuest(g) ==
    /\ guest[g].pc # "idle"
    /\ Ends(g)
    /\ UNCHANGED portalDocs

\* The office admits and vacates residents and switches their portal.
ChangeResident(r, to) ==
    /\ resident[r] # to
    /\ resident' = [resident EXCEPT ![r] = to]
    /\ UNCHANGED <<person, linked, portalOn, session>>
    /\ SeeFacts(guest)

SwitchPortal(r) ==
    /\ portalOn' = IF r \in portalOn THEN portalOn \ {r} ELSE portalOn \cup {r}
    /\ UNCHANGED <<person, linked, resident, session>>
    /\ SeeFacts(guest)

PortalNext ==
    \/ \E g \in Guests :
          \/ RequestOtp(g)
          \/ \E r \in Stays : LoginWithTenant(g, r) \/ RefreshAccess(g, r)
          \/ \E r \in Stays \cup {NoStay} : VerifyOtpAndLogin(g, r)
          \/ FindPerson(g) \/ FindResidents(g) \/ FindByPhone(g)
          \/ LinkResidents(g) \/ NamePerson(g) \/ StoreToken(g)
          \/ \E r \in Stays : AskFlag(g, r)
          \/ CompareToken(g) \/ CheckResident(g) \/ CheckPortal(g) \/ EndGuest(g)
    \/ \E r \in Stays :
          \/ EndSession(r) \/ SwitchPortal(r)
          \/ \E to \in {"away", "plain", "portal"} : ChangeResident(r, to)

PortalSpec == PortalInit /\ [][PortalNext]_portalVars
-----------------------------------------------------------------------------
(* Properties *)

\* Whoever gets a token for a residency was a resident there with the portal
\* enabled, by the tenant and for the resident, at some time since the request
\* began, though the calls that look are awaits apart: after a resident has
\* left no request gives one out.
GrantsBacked ==
    \A g \in Guests : guest[g].pc = "granted" =>
        Required(guest[g].op, guest[g].stay) \subseteq guest[g].seen
=============================================================================
