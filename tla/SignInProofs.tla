---------------------------- MODULE SignInProofs ----------------------------
(***************************************************************************)
(* Proofs about the ways to sign in: Otp, the one-time codes of a mobile   *)
(* number; ResidentLogin, the tokens of the resident portal; Sessions,     *)
(* the tokens of the staff and of the super admin.  They hold for every    *)
(* number of requests in flight, and every set of codes and residencies.   *)
(***************************************************************************)
EXTENDS Otp, ResidentLogin, Sessions, FiniteSetTheorems, TLAPS

-----------------------------------------------------------------------------
(* Otp: what is counted, and what is not. *)

\* The requests that have found code c and are about to mark it.
Savers(c) == {p \in Phones : phone[p].pc = "save" /\ phone[p].code = c}

\* A code that nobody has marked was never accepted, and one that somebody has
\* may be accepted once more by each request that found it before.
CodeOK(c) ==
    /\ code[c] \in {"none", "open"} => uses[c] = 0
    /\ uses[c] + Cardinality(Savers(c)) <= Cardinality(Phones)

\* The counter has let through no more than it counted.
LimitOK ==
    /\ admitted <= attempts
    /\ LimitEnds

OtpInv ==
    /\ OtpTypeOK
    /\ \A p \in Phones : phone[p].pc \in {"otp", "save"} => phone[p].code \in Codes
    /\ \A c \in Codes : CodeOK(c)
    /\ LimitOK
-----------------------------------------------------------------------------
(* Helpers *)

LEMMA NoAttempts == 0 \in 0 .. MaxAsked
BY OtpAssumption

LEMMA SaversCount ==
    ASSUME NEW c \in Codes
    PROVE  /\ IsFiniteSet(Savers(c))
           /\ Cardinality(Savers(c)) \in Nat
           /\ Cardinality(Phones) \in Nat
           /\ Cardinality(Savers(c)) <= Cardinality(Phones)
<1>1. Savers(c) \subseteq Phones
  BY DEF Savers
<1>. QED  BY <1>1, OtpAssumption, FS_Subset, FS_CardinalityType

LEMMA SaversCountNext ==
    ASSUME NEW c \in Codes
    PROVE  /\ IsFiniteSet(Savers(c)')
           /\ Cardinality(Savers(c)') \in Nat
           /\ Cardinality(Savers(c)') <= Cardinality(Phones)
<1>1. Savers(c)' \subseteq Phones
  BY DEF Savers
<1>. QED  BY <1>1, OtpAssumption, FS_Subset, FS_CardinalityType

\* A step that brings no code back to unmarked, accepts nothing, and lets no
\* request find the code keeps its bound.
LEMMA CodeFrame ==
    ASSUME OtpInv, NEW c \in Codes,
           uses'[c] = uses[c],
           code'[c] \in {"none", "open"} => code[c] \in {"none", "open"},
           Savers(c)' \subseteq Savers(c)
    PROVE  CodeOK(c)'
<1>1. Cardinality(Savers(c)') <= Cardinality(Savers(c))
  BY SaversCount, FS_Subset
<1>2. uses[c] \in Nat
  BY DEF OtpInv, OtpTypeOK
<1>3. CodeOK(c)
  BY DEF OtpInv
<1>4. uses'[c] + Cardinality(Savers(c)') <= Cardinality(Phones)
  BY <1>1, <1>2, <1>3, SaversCount, SaversCountNext DEF CodeOK
<1>. QED  BY <1>3, <1>4 DEF CodeOK
-----------------------------------------------------------------------------
(* Types *)

LEMMA OtpTypeStep == OtpInv /\ OtpNext => OtpTypeOK'
<1> SUFFICES ASSUME OtpTypeOK, OtpInv, OtpNext PROVE OtpTypeOK'
  BY DEF OtpInv
<1> USE DEF OtpTypeOK, HangUp, Turn, NoPhone
<1>1. ASSUME NEW p \in Phones, GenerateAndSendOtp(p) PROVE OtpTypeOK'
  BY <1>1 DEF GenerateAndSendOtp, Call
<1>2. ASSUME NEW p \in Phones, CountAttempt(p) PROVE OtpTypeOK'
  <2>1. attempts' \in 0 .. MaxAsked /\ admitted' \in Nat
    BY <1>2, OtpAssumption DEF CountAttempt
  <2>. QED  BY <1>2, <2>1 DEF CountAttempt
<1>3. ASSUME NEW p \in Phones, SetExpiry(p) PROVE OtpTypeOK'
  BY <1>3 DEF SetExpiry
<1>4. ASSUME NEW p \in Phones, NEW c \in Codes, CreateOtp(p, c) PROVE OtpTypeOK'
  BY <1>4 DEF CreateOtp
<1>5. ASSUME NEW p \in Phones, NEW c \in Codes, VerifyOtp(p, c) PROVE OtpTypeOK'
  BY <1>5 DEF VerifyOtp, Call
<1>6. ASSUME NEW p \in Phones, SendOtp(p) PROVE OtpTypeOK'
  BY <1>6 DEF SendOtp
<1>7. ASSUME NEW p \in Phones, FindOtp(p) PROVE OtpTypeOK'
  BY <1>7 DEF FindOtp
<1>8. ASSUME NEW p \in Phones, SaveOtp(p) PROVE OtpTypeOK'
  BY <1>8 DEF SaveOtp
<1>9. ASSUME NEW p \in Phones, LosePhone(p) PROVE OtpTypeOK'
  BY <1>9 DEF LosePhone
<1>10. ASSUME NEW c \in Codes, CleanupExpiredOtp(c) PROVE OtpTypeOK'
  BY <1>10 DEF CleanupExpiredOtp
<1>11. ASSUME ExpireLimit PROVE OtpTypeOK'
  BY <1>11, NoAttempts DEF ExpireLimit
<1>. QED  BY <1>1, <1>2, <1>3, <1>4, <1>5, <1>6, <1>7, <1>8, <1>9, <1>10, <1>11
          DEF OtpNext

\* What is verified is a code.
LEMMA VerifiesCodes ==
    OtpInv /\ OtpNext =>
        \A p \in Phones : phone'[p].pc \in {"otp", "save"} => phone'[p].code \in Codes
<1> SUFFICES ASSUME OtpTypeOK, OtpInv, OtpNext, NEW q \in Phones,
                    phone'[q].pc \in {"otp", "save"}
             PROVE  phone'[q].code \in Codes
  BY DEF OtpInv
<1>0. phone[q].pc \in {"otp", "save"} => phone[q].code \in Codes
  BY DEF OtpInv
<1>1. ASSUME NEW p \in Phones, NEW c \in Codes, VerifyOtp(p, c)
      PROVE  phone'[q].code \in Codes
  BY <1>0, <1>1 DEF VerifyOtp, Call, OtpTypeOK
<1>2. ASSUME NEW p \in Phones, FindOtp(p) PROVE phone'[q].code \in Codes
  BY <1>0, <1>2 DEF FindOtp, Turn, HangUp, NoPhone, OtpTypeOK
<1>3. ASSUME NEW p \in Phones,
             \/ GenerateAndSendOtp(p) \/ CountAttempt(p) \/ SetExpiry(p)
             \/ \E c \in Codes : CreateOtp(p, c)
             \/ SendOtp(p) \/ SaveOtp(p) \/ LosePhone(p)
      PROVE  phone'[q].code \in Codes
  BY <1>0, <1>3 DEF GenerateAndSendOtp, Call, CountAttempt, SetExpiry, CreateOtp,
     SendOtp, SaveOtp, LosePhone, Turn, HangUp, NoPhone, OtpTypeOK
<1>4. ASSUME (\E c \in Codes : CleanupExpiredOtp(c)) \/ ExpireLimit
      PROVE  phone'[q].code \in Codes
  BY <1>0, <1>4 DEF CleanupExpiredOtp, ExpireLimit
<1>. QED  BY <1>1, <1>2, <1>3, <1>4 DEF OtpNext
-----------------------------------------------------------------------------
(* Codes *)

LEMMA CodeStep ==
    ASSUME OtpInv, OtpNext, NEW c \in Codes
    PROVE  CodeOK(c)'
<1>t. OtpTypeOK /\ CodeOK(c) /\ uses[c] \in Nat
  BY DEF OtpInv, OtpTypeOK
<1>1. ASSUME NEW p \in Phones, FindOtp(p) PROVE CodeOK(c)'
  <2>1. CASE phone[p].code = c /\ Valid(c)
    <3>1. uses'[c] = 0 /\ code'[c] = code[c]
      BY <1>t, <1>1, <2>1 DEF FindOtp, Valid, CodeOK
    <3>. QED  BY <3>1, SaversCountNext DEF CodeOK
  <2>2. CASE ~(phone[p].code = c /\ Valid(c))
    <3>1. Savers(c)' \subseteq Savers(c)
      BY <1>t, <1>1, <2>2 DEF FindOtp, Savers, Turn, HangUp, NoPhone, OtpTypeOK
    <3>. QED  BY <1>1, <3>1, CodeFrame DEF FindOtp
  <2>. QED  BY <2>1, <2>2
<1>2. ASSUME NEW p \in Phones, SaveOtp(p) PROVE CodeOK(c)'
  <2>1. CASE phone[p].code = c /\ code[c] # "gone"
    <3>1. p \in Savers(c) /\ Savers(c)' = Savers(c) \ {p}
      BY <1>t, <1>2, <2>1 DEF SaveOtp, Savers, HangUp, NoPhone, OtpTypeOK
    <3>2. Cardinality(Savers(c)') = Cardinality(Savers(c)) - 1
      BY <3>1, SaversCount, FS_RemoveElement
    <3>3. uses'[c] = uses[c] + 1 /\ code'[c] = "verified"
      BY <1>t, <1>2, <2>1 DEF SaveOtp, OtpTypeOK
    <3>. QED  BY <1>t, <3>2, <3>3, SaversCount DEF CodeOK
  <2>2. CASE ~(phone[p].code = c /\ code[c] # "gone")
    <3>1. Savers(c)' \subseteq Savers(c)
      BY <1>t, <1>2 DEF SaveOtp, Savers, HangUp, NoPhone, OtpTypeOK
    <3>2. uses'[c] = uses[c] /\ code'[c] = code[c]
      BY <1>t, <1>2, <2>2 DEF SaveOtp, OtpTypeOK
    <3>. QED  BY <3>1, <3>2, CodeFrame
  <2>. QED  BY <2>1, <2>2
<1>3. ASSUME NEW p \in Phones,
             \/ GenerateAndSendOtp(p) \/ CountAttempt(p) \/ SetExpiry(p)
             \/ \E d \in Codes : CreateOtp(p, d) \/ VerifyOtp(p, d)
             \/ SendOtp(p) \/ LosePhone(p)
      PROVE  CodeOK(c)'
  <2>1. Savers(c)' \subseteq Savers(c)
    BY <1>t, <1>3 DEF GenerateAndSendOtp, Call, CountAttempt, SetExpiry, CreateOtp,
       VerifyOtp, SendOtp, LosePhone, Turn, HangUp, NoPhone, Savers, OtpTypeOK
  <2>2. /\ uses'[c] = uses[c]
        /\ code'[c] \in {"none", "open"} => code[c] \in {"none", "open"}
    BY <1>t, <1>3 DEF GenerateAndSendOtp, Call, CountAttempt, SetExpiry, CreateOtp,
       VerifyOtp, SendOtp, LosePhone, OtpTypeOK
  <2>. QED  BY <2>1, <2>2, CodeFrame
<1>4. ASSUME (\E d \in Codes : CleanupExpiredOtp(d)) \/ ExpireLimit
      PROVE  CodeOK(c)'
  <2>1. Savers(c)' = Savers(c)
    BY <1>4 DEF CleanupExpiredOtp, ExpireLimit, Savers
  <2>2. /\ uses'[c] = uses[c]
        /\ code'[c] \in {"none", "open"} => code[c] \in {"none", "open"}
    BY <1>t, <1>4 DEF CleanupExpiredOtp, ExpireLimit, OtpTypeOK
  <2>. QED  BY <2>1, <2>2, CodeFrame
<1>. QED  BY <1>1, <1>2, <1>3, <1>4 DEF OtpNext
-----------------------------------------------------------------------------
(* The limit *)

LEMMA LimitStep ==
    ASSUME OtpInv, OtpNext
    PROVE  LimitOK'
<1>t. /\ OtpTypeOK /\ LimitOK
      /\ attempts \in Nat /\ admitted \in Nat
  BY OtpAssumption DEF OtpInv, OtpTypeOK
<1>1. ASSUME NEW p \in Phones, CountAttempt(p) PROVE LimitOK'
  <2>1. admitted' <= attempts' /\ admitted' <= MaxAttempts
    BY <1>t, <1>1, OtpAssumption DEF CountAttempt, LimitOK, LimitEnds
  <2>2. CASE attempts = 0
    <3>1. phone'[p].pc = "expire"
      BY <1>t, <1>1, <2>2 DEF CountAttempt, BeginsHour, Turn, OtpTypeOK
    <3>. QED  BY <2>1, <3>1 DEF LimitOK, LimitEnds
  <2>3. CASE attempts # 0
    <3>1. \A q \in Phones : phone[q].pc = "expire" => phone'[q].pc = "expire"
      BY <1>t, <1>1 DEF CountAttempt, Turn, HangUp, OtpTypeOK
    <3>2. attempts > 0 /\ expires' = expires /\ lost' = lost
      BY <1>t, <1>1, <2>3 DEF CountAttempt
    <3>. QED  BY <1>t, <2>1, <3>1, <3>2 DEF LimitOK, LimitEnds
  <2>. QED  BY <2>2, <2>3
<1>2. ASSUME NEW p \in Phones, SetExpiry(p) PROVE LimitOK'
  BY <1>t, <1>2 DEF SetExpiry, LimitOK, LimitEnds
<1>3. ASSUME NEW p \in Phones, LosePhone(p) PROVE LimitOK'
  <2>1. CASE phone[p].pc = "expire"
    BY <1>t, <1>3, <2>1 DEF LosePhone, LimitOK, LimitEnds
  <2>2. CASE phone[p].pc # "expire"
    <3>1. \A q \in Phones : phone[q].pc = "expire" => phone'[q].pc = "expire"
      BY <1>t, <1>3, <2>2 DEF LosePhone, HangUp, OtpTypeOK
    <3>. QED  BY <1>t, <1>3, <3>1 DEF LosePhone, LimitOK, LimitEnds
  <2>. QED  BY <2>1, <2>2
<1>4. ASSUME NEW p \in Phones,
             \/ GenerateAndSendOtp(p)
             \/ \E d \in Codes : CreateOtp(p, d) \/ VerifyOtp(p, d)
             \/ SendOtp(p) \/ FindOtp(p) \/ SaveOtp(p)
      PROVE  LimitOK'
  <2>1. \A q \in Phones : phone[q].pc = "expire" => phone'[q].pc = "expire"
    BY <1>t, <1>4 DEF GenerateAndSendOtp, Call, CreateOtp, VerifyOtp, SendOtp,
       FindOtp, SaveOtp, Turn, HangUp, OtpTypeOK
  <2>2. UNCHANGED <<attempts, expires, admitted, lost>>
    BY <1>4 DEF GenerateAndSendOtp, Call, CreateOtp, VerifyOtp, SendOtp,
       FindOtp, SaveOtp
  <2>. QED  BY <1>t, <2>1, <2>2 DEF LimitOK, LimitEnds
<1>5. ASSUME \E d \in Codes : CleanupExpiredOtp(d) PROVE LimitOK'
  BY <1>t, <1>5 DEF CleanupExpiredOtp, LimitOK, LimitEnds
<1>6. ASSUME ExpireLimit PROVE LimitOK'
  BY <1>6, OtpAssumption DEF ExpireLimit, LimitOK, LimitEnds
<1>. QED  BY <1>1, <1>2, <1>3, <1>4, <1>5, <1>6 DEF OtpNext
-----------------------------------------------------------------------------
LEMMA OtpInitInv == OtpInit => OtpInv
<1> SUFFICES ASSUME OtpInit PROVE OtpInv
  OBVIOUS
<1>1. OtpTypeOK
  BY NoAttempts DEF OtpInit, OtpTypeOK, NoPhone
<1>2. ASSUME NEW c \in Codes PROVE CodeOK(c)
  BY SaversCount DEF OtpInit, CodeOK
<1>3. LimitOK
  BY OtpAssumption DEF OtpInit, LimitOK, LimitEnds
<1>. QED  BY <1>1, <1>2, <1>3 DEF OtpInv, OtpInit, NoPhone

LEMMA OtpStepInv == OtpInv /\ [OtpNext]_otpVars => OtpInv'
<1> SUFFICES ASSUME OtpInv, [OtpNext]_otpVars PROVE OtpInv'
  OBVIOUS
<1>1. CASE OtpNext
  BY <1>1, OtpTypeStep, VerifiesCodes, CodeStep, LimitStep DEF OtpInv
<1>2. CASE UNCHANGED otpVars
  BY <1>2 DEF otpVars, OtpInv, OtpTypeOK, CodeOK, Savers, LimitOK, LimitEnds
<1>. QED  BY <1>1, <1>2

LEMMA OtpInvHolds == OtpSpec => []OtpInv
BY OtpInitInv, OtpStepInv, PTL DEF OtpSpec

\* A one-time code is accepted no more often than there are requests in flight
\* at the same time (OtpService.verifyOtp), however many there are.
THEOREM CodeUsesTheorem == OtpSpec => []CodeUsesBounded
<1>1. OtpInv => CodeUsesBounded
  <2> SUFFICES ASSUME OtpInv, NEW c \in Codes
               PROVE  uses[c] <= Cardinality(Phones)
    BY DEF CodeUsesBounded
  <2>1. uses[c] \in Nat /\ CodeOK(c)
    BY DEF OtpInv, OtpTypeOK
  <2>. QED  BY <2>1, SaversCount DEF CodeOK
<1>. QED  BY <1>1, OtpInvHolds, PTL

\* The counter of OtpService never admits more than the limit, and has an end
\* unless a request was lost between incr and expire.
THEOREM LimitTheorem == OtpSpec => []LimitEnds
<1>1. OtpInv => LimitEnds
  BY DEF OtpInv, LimitOK
<1>. QED  BY <1>1, OtpInvHolds, PTL

-----------------------------------------------------------------------------
(* ResidentLogin: what each request has seen so far.                        *)

GuestStates ==
    [pc : {"idle", "person", "mine", "phone", "link", "name", "again",
           "flags", "store", "token", "resident", "granted"},
     op : {"request", "verify", "choose", "refresh"},
     stay : Stays \cup {NoStay},
     found : SUBSET Stays, valid : SUBSET Stays, seen : SUBSET Facts]

FactsNow  == FactsOf(resident, portalOn, session)
Wanted(t) == UNION {Required(t.op, r) : r \in About(t)}

\* A request in flight has seen what holds of the residencies it is about.
WatchesPortal(t, facts) ==
    t.pc # "idle" /\ t.op # "request" => facts \cap Wanted(t) \subseteq t.seen

\* A login has seen that every resident it took for valid was there with the
\* portal, and the feature of those it has asked for.
LoginProgress(t) ==
    /\ t.op # "refresh"
    /\ t.op # "request" => \A r \in t.valid :
          /\ r \in About(t)
          /\ <<r, "there">> \in t.seen /\ <<r, "portal">> \in t.seen
          /\ r \notin t.found => <<r, "feature">> \in t.seen

\* What a request has seen when it has come that far.
PortalProgress(t) ==
    /\ t.pc \in {"person", "mine", "phone", "link", "name", "again", "flags"} =>
          LoginProgress(t)
    /\ t.pc = "token" => t.op = "refresh" /\ t.stay \in Stays /\ t.found = {}
    /\ t.pc = "resident" => /\ t.op = "refresh" /\ t.stay \in Stays
                            /\ <<t.stay, "token">> \in t.seen
                            /\ t.found # {} => <<t.stay, "there">> \in t.seen
    /\ t.pc = "store" => t.op \in {"verify", "choose"} /\ t.stay \in Stays
    /\ t.pc \in {"store", "granted"} => Required(t.op, t.stay) \subseteq t.seen

PortalInv ==
    /\ PortalTypeOK
    /\ \A g \in Guests : /\ WatchesPortal(guest[g], FactsNow)
                         /\ PortalProgress(guest[g])
-----------------------------------------------------------------------------
LEMMA FactsAre ==
    ASSUME NEW residents, NEW features, NEW tokens, NEW r \in Stays
    PROVE  /\ <<r, "there">> \in FactsOf(residents, features, tokens)
                 <=> residents[r] # "away"
           /\ <<r, "portal">> \in FactsOf(residents, features, tokens)
                 <=> residents[r] = "portal"
           /\ <<r, "feature">> \in FactsOf(residents, features, tokens)
                 <=> r \in features
           /\ <<r, "token">> \in FactsOf(residents, features, tokens)
                 <=> r \in tokens
           /\ FactsOf(residents, features, tokens) \subseteq Facts
BY DEF FactsOf, Facts

LEMMA RequiredAre ==
    ASSUME NEW op, NEW r
    PROVE  /\ op = "refresh" => Required(op, r) = {<<r, "there">>, <<r, "feature">>,
                                                   <<r, "token">>}
           /\ op # "refresh" => Required(op, r) = {<<r, "there">>, <<r, "feature">>,
                                                   <<r, "portal">>}
BY DEF Required

\* What a request in flight knows of a residency it is about.
LEMMA WatchedFacts ==
    ASSUME NEW t \in GuestStates, WatchesPortal(t, FactsNow),
           t.pc # "idle", t.op # "request", NEW r \in About(t), r \in Stays
    PROVE  /\ resident[r] # "away" => <<r, "there">> \in t.seen
           /\ r \in portalOn => <<r, "feature">> \in t.seen
           /\ t.op # "refresh" /\ resident[r] = "portal" => <<r, "portal">> \in t.seen
           /\ t.op = "refresh" /\ r \in session => <<r, "token">> \in t.seen
<1>1. Required(t.op, r) \subseteq Wanted(t)
  BY DEF Wanted
<1>2. \A f \in FactsNow : f \in Required(t.op, r) => f \in t.seen
  BY <1>1 DEF WatchesPortal
<1>3. /\ resident[r] # "away" => <<r, "there">> \in FactsNow
      /\ r \in portalOn => <<r, "feature">> \in FactsNow
      /\ resident[r] = "portal" => <<r, "portal">> \in FactsNow
      /\ r \in session => <<r, "token">> \in FactsNow
  BY FactsAre DEF FactsNow
<1>. QED  BY <1>2, <1>3, RequiredAre

\* A request that goes on, about no more residencies, has seen as much.
LEMMA StillWatches ==
    ASSUME NEW t \in GuestStates, NEW u \in GuestStates, NEW facts,
           WatchesPortal(t, facts), t.pc # "idle", u.op = t.op,
           u.seen = t.seen, About(u) \subseteq About(t)
    PROVE  WatchesPortal(u, facts)
BY DEF WatchesPortal, Wanted

LEMMA NoGuestOK ==
    ASSUME NEW facts
    PROVE  /\ NoGuest \in GuestStates
           /\ WatchesPortal(NoGuest, facts) /\ PortalProgress(NoGuest)
BY DEF NoGuest, GuestStates, WatchesPortal, PortalProgress

LEMMA GuestOK ==
    ASSUME PortalInv, NEW g \in Guests
    PROVE  /\ guest \in [Guests -> GuestStates]
           /\ guest[g] \in GuestStates
           /\ WatchesPortal(guest[g], FactsNow) /\ PortalProgress(guest[g])
BY DEF PortalInv, PortalTypeOK, GuestStates

\* One request changes, and nothing that any of them watches.
LEMMA OneGuest ==
    ASSUME PortalInv, NEW g \in Guests, NEW u \in GuestStates,
           WatchesPortal(u, FactsNow), PortalProgress(u),
           guest' = [guest EXCEPT ![g] = u],
           person' \in {"none", "placeholder", "named"}, linked' \subseteq Stays,
           UNCHANGED <<resident, portalOn, session>>
    PROVE  PortalInv'
<1>1. PortalTypeOK'
  BY GuestOK DEF PortalInv, PortalTypeOK, GuestStates
<1>2. FactsNow' = FactsNow
  BY DEF FactsNow
<1>3. ASSUME NEW h \in Guests
      PROVE  WatchesPortal(guest'[h], FactsNow') /\ PortalProgress(guest'[h])
  BY <1>2, GuestOK
<1>. QED  BY <1>1, <1>3 DEF PortalInv

LEMMA EndsStep ==
    ASSUME PortalInv, NEW g \in Guests, Ends(g),
           person' \in {"none", "placeholder", "named"}, linked' \subseteq Stays,
           UNCHANGED <<resident, portalOn, session>>
    PROVE  PortalInv'
<1>1. guest' = [guest EXCEPT ![g] = NoGuest]
  BY DEF Ends
<1>. QED  BY <1>1, NoGuestOK, OneGuest

\* A request goes on to another step with what it has.
LEMMA GoesStep ==
    ASSUME PortalInv, NEW g \in Guests, guest[g].pc # "idle",
           NEW pc \in {"person", "mine", "phone", "link", "name", "again",
                       "flags", "resident", "granted"},
           pc \in {"resident", "granted"} \/ LoginProgress(guest[g]),
           pc = "resident" => /\ guest[g].op = "refresh" /\ guest[g].stay \in Stays
                              /\ <<guest[g].stay, "token">> \in guest[g].seen
                              /\ guest[g].found = {},
           pc = "granted" => Required(guest[g].op, guest[g].stay) \subseteq guest[g].seen,
           Goes(g, pc),
           person' \in {"none", "placeholder", "named"}, linked' \subseteq Stays,
           UNCHANGED <<resident, portalOn, session>>
    PROVE  PortalInv'
<1> DEFINE u == [guest[g] EXCEPT !.pc = pc]
<1>1. guest' = [guest EXCEPT ![g] = u]
  BY GuestOK DEF Goes
<1>2. /\ u \in GuestStates /\ u.pc = pc /\ u.op = guest[g].op
      /\ u.stay = guest[g].stay /\ u.seen = guest[g].seen
      /\ u.found = guest[g].found /\ u.valid = guest[g].valid
  BY GuestOK DEF GuestStates
<1> HIDE DEF u
<1>3. About(u) = About(guest[g])
  BY <1>2 DEF About
<1>4. WatchesPortal(u, FactsNow)
  BY <1>2, <1>3, GuestOK, StillWatches
<1>5. PortalProgress(u)
  BY <1>2, <1>3 DEF PortalProgress, LoginProgress
<1>. QED  BY <1>1, <1>2, <1>4, <1>5, OneGuest

\* What happens changes the facts, and every request in flight sees it.
LEMMA SeesStep ==
    ASSUME NEW t \in GuestStates, NEW residents, NEW features, NEW tokens,
           PortalProgress(t)
    PROVE  LET facts == FactsOf(residents, features, tokens) IN
           /\ See(t, facts) \in GuestStates
           /\ WatchesPortal(See(t, facts), facts)
           /\ PortalProgress(See(t, facts))
<1> DEFINE facts == FactsOf(residents, features, tokens)
           u == See(t, facts)
<1>1. CASE t.op = "request"
  BY <1>1 DEF See, WatchesPortal
<1>2. CASE t.op # "request"
  <2>1. facts \cap Wanted(t) \in SUBSET Facts
    BY DEF FactsOf
  <2>2. u = [t EXCEPT !.seen = t.seen \cup (facts \cap Wanted(t))]
    BY <1>2 DEF See, Wanted
  <2> HIDE DEF facts
  <2>3. t.seen \cup (facts \cap Wanted(t)) \in SUBSET Facts
    BY <2>1 DEF GuestStates
  <2>4. /\ u \in GuestStates /\ u.pc = t.pc /\ u.op = t.op /\ u.stay = t.stay
        /\ u.found = t.found /\ u.valid = t.valid
        /\ u.seen = t.seen \cup (facts \cap Wanted(t))
    BY <2>2, <2>3 DEF GuestStates
  <2> HIDE DEF u
  <2>5. About(u) = About(t) /\ Wanted(u) = Wanted(t)
    BY <2>4 DEF About, Wanted
  <2>6. WatchesPortal(u, facts)
    BY <2>4, <2>5 DEF WatchesPortal
  <2>7. PortalProgress(u)
    BY <2>4, <2>5 DEF PortalProgress, LoginProgress
  <2>. QED  BY <2>4, <2>6, <2>7 DEF facts, u
<1>. QED  BY <1>1, <1>2

LEMMA SeeFactsStep ==
    ASSUME PortalTypeOK, NEW requests \in [Guests -> GuestStates],
           \A g \in Guests : PortalProgress(requests[g]),
           SeeFacts(requests),
           UNCHANGED <<person>>, linked' \subseteq Stays,
           resident' \in [Stays -> {"away", "plain", "portal"}],
           portalOn' \subseteq Stays, session' \subseteq Stays
    PROVE  PortalInv'
<1>1. ASSUME NEW g \in Guests
      PROVE  /\ guest'[g] \in GuestStates
             /\ WatchesPortal(guest'[g], FactsNow') /\ PortalProgress(guest'[g])
  <2>1. guest'[g] = See(requests[g], FactsOf(resident', portalOn', session'))
    BY DEF SeeFacts
  <2>. QED  BY <2>1, SeesStep DEF FactsNow
<1>2. guest' \in [Guests -> GuestStates]
  BY <1>1 DEF SeeFacts
<1>. QED  BY <1>1, <1>2 DEF PortalInv, PortalTypeOK, GuestStates
-----------------------------------------------------------------------------
LEMMA ArriveStep ==
    ASSUME PortalInv, NEW g \in Guests,
           NEW op \in {"request", "verify", "choose", "refresh"},
           NEW pc \in {"person", "token"}, NEW r \in Stays \cup {NoStay},
           pc = "token" <=> op = "refresh", pc = "token" => r \in Stays,
           Arrive(g, op, pc, r)
    PROVE  PortalInv'
<1> DEFINE t == [NoGuest EXCEPT !.pc = pc, !.op = op, !.stay = r]
           u == See(t, FactsNow)
<1>1. t \in GuestStates /\ PortalProgress(t)
  BY DEF GuestStates, NoGuest, PortalProgress, LoginProgress
<1>2. guest' = [guest EXCEPT ![g] = u] /\ UNCHANGED portalDocs
  BY DEF Arrive, FactsNow
<1> HIDE DEF t
<1>3. u \in GuestStates /\ WatchesPortal(u, FactsNow) /\ PortalProgress(u)
  BY <1>1, SeesStep DEF FactsNow
<1> HIDE DEF u
<1>. QED  BY <1>2, <1>3, OneGuest DEF portalDocs, PortalInv, PortalTypeOK

LEMMA FindPersonStep ==
    ASSUME PortalInv, NEW g \in Guests, FindPerson(g)
    PROVE  PortalInv'
<1>1. /\ UNCHANGED <<resident, portalOn, session>> /\ linked' \subseteq Stays
      /\ person' \in {"none", "placeholder", "named"}
  BY DEF FindPerson, PortalInv, PortalTypeOK
<1>2. guest[g].pc # "idle" /\ LoginProgress(guest[g])
  BY GuestOK DEF FindPerson, PortalProgress
<1>3. Ends(g) \/ Goes(g, "mine")
  BY DEF FindPerson
<1>. QED  BY <1>1, <1>2, <1>3, EndsStep, GoesStep

\* The residents a request finds are there, and valid if they have the portal.
LEMMA FoundStep ==
    ASSUME PortalInv, NEW g \in Guests,
           guest[g].pc \in {"mine", "phone", "again"},
           NEW here \in SUBSET (There \cap Chosen(g)),
           NEW next \in {"flags", "link"},
           Found(g, here, next), UNCHANGED portalDocs
    PROVE  PortalInv'
<1> DEFINE t == guest[g]
           v == {r \in here : resident[r] = "portal"}
           u == [t EXCEPT !.pc = next, !.found = here, !.valid = v]
<1>1. guest' = [guest EXCEPT ![g] = u]
  BY GuestOK DEF Found
<1>2. here \in SUBSET Stays /\ v \in SUBSET Stays
  BY DEF There
<1>3. /\ u \in GuestStates /\ u.pc = next /\ u.op = t.op /\ u.stay = t.stay
      /\ u.seen = t.seen /\ u.found = here /\ u.valid = v
  BY <1>2, GuestOK DEF GuestStates
<1> HIDE DEF u
<1>4. About(u) = About(t) /\ here \subseteq About(t)
  BY <1>3 DEF About, Chosen
<1>5. WatchesPortal(u, FactsNow)
  BY <1>3, <1>4, GuestOK, StillWatches
<1>6. t.op # "refresh"
  BY GuestOK DEF PortalProgress, LoginProgress
<1>7. ASSUME t.op # "request", NEW r \in v
      PROVE  <<r, "there">> \in t.seen /\ <<r, "portal">> \in t.seen
  BY <1>2, <1>4, <1>6, <1>7, GuestOK, WatchedFacts
<1>8. LoginProgress(u)
  BY <1>3, <1>4, <1>6, <1>7 DEF LoginProgress
<1>9. PortalProgress(u)
  BY <1>3, <1>8 DEF PortalProgress
<1>. QED  BY <1>1, <1>3, <1>5, <1>9, OneGuest DEF portalDocs, PortalInv, PortalTypeOK

LEMMA FindResidentsStep ==
    ASSUME PortalInv, NEW g \in Guests, FindResidents(g) \/ FindByPhone(g)
    PROVE  PortalInv'
<1>1. /\ UNCHANGED portalDocs
      /\ person' \in {"none", "placeholder", "named"} /\ linked' \subseteq Stays
      /\ UNCHANGED <<resident, portalOn, session>>
  BY DEF FindResidents, FindByPhone, portalDocs, PortalInv, PortalTypeOK
<1>2. guest[g].pc \in {"mine", "phone", "again"} /\ LoginProgress(guest[g])
  BY GuestOK DEF FindResidents, FindByPhone, PortalProgress
<1>3. linked \cap There \cap Chosen(g) \in SUBSET (There \cap Chosen(g))
  OBVIOUS
<1>4. \/ Ends(g) \/ Goes(g, "phone")
      \/ \E here \in SUBSET (There \cap Chosen(g)), next \in {"flags", "link"} :
            Found(g, here, next)
  BY <1>3 DEF FindResidents, FindByPhone
<1>. QED  BY <1>1, <1>2, <1>4, EndsStep, GoesStep, FoundStep

LEMMA LinkStep ==
    ASSUME PortalInv, NEW g \in Guests, LinkResidents(g) \/ NamePerson(g)
    PROVE  PortalInv'
<1>1. guest[g].found \in SUBSET Stays /\ There \in SUBSET Stays
  BY GuestOK DEF GuestStates, There
<1>2. /\ UNCHANGED <<resident, portalOn, session>> /\ linked' \subseteq Stays
      /\ person' \in {"none", "placeholder", "named"}
  BY <1>1 DEF LinkResidents, NamePerson, PortalInv, PortalTypeOK
<1>3. guest[g].pc # "idle" /\ LoginProgress(guest[g])
  BY GuestOK DEF LinkResidents, NamePerson, PortalProgress
<1>4. \E pc \in {"name", "flags", "again"} : Goes(g, pc)
  BY DEF LinkResidents, NamePerson
<1>. QED  BY <1>2, <1>3, <1>4, GoesStep

\* One resident is asked for, and the login goes on with the others: those that
\* were asked for and stay valid had the feature.
StillValid(g, r) ==
    IF Allowed(g, r) THEN guest[g].valid ELSE guest[g].valid \ {r}

LEMMA AskOneStep ==
    ASSUME PortalInv, NEW g \in Guests, NEW r \in Stays, AskFlag(g, r),
           guest[g].op # "request", NEW s \in StillValid(g, r)
    PROVE  /\ s \in About(guest[g])
           /\ <<s, "there">> \in guest[g].seen
           /\ <<s, "portal">> \in guest[g].seen
           /\ s \in guest[g].found \ {r} \/ <<s, "feature">> \in guest[g].seen
<1>1. s \in guest[g].valid /\ (s = r => r \in portalOn) /\ s \in Stays
  BY GuestOK DEF Allowed, StillValid, GuestStates
<1>2. LoginProgress(guest[g]) /\ guest[g].pc = "flags"
  BY GuestOK DEF AskFlag, PortalProgress
<1>3. /\ s \in About(guest[g])
      /\ <<s, "there">> \in guest[g].seen /\ <<s, "portal">> \in guest[g].seen
      /\ s \notin guest[g].found => <<s, "feature">> \in guest[g].seen
  BY <1>1, <1>2 DEF LoginProgress
<1>4. s = r => <<s, "feature">> \in guest[g].seen
  BY <1>1, <1>2, <1>3, GuestOK, WatchedFacts
<1>. QED  BY <1>3, <1>4

LEMMA AskFlagStep ==
    ASSUME PortalInv, NEW g \in Guests, NEW r \in Stays, AskFlag(g, r)
    PROVE  PortalInv'
<1> DEFINE t == guest[g]
           left == t.found \ {r}
           valid == StillValid(g, r)
<1>0. /\ UNCHANGED portalDocs
      /\ person' \in {"none", "placeholder", "named"} /\ linked' \subseteq Stays
      /\ UNCHANGED <<resident, portalOn, session>>
  BY DEF AskFlag, portalDocs, PortalInv, PortalTypeOK
<1>1. t \in GuestStates /\ t.pc = "flags" /\ LoginProgress(t)
  BY GuestOK DEF AskFlag, PortalProgress
<1>2. left \in SUBSET Stays /\ valid \in SUBSET Stays
  BY <1>1 DEF GuestStates, StillValid
<1>3. ASSUME t.op # "request", NEW s \in valid
      PROVE  /\ s \in About(t)
             /\ <<s, "there">> \in t.seen /\ <<s, "portal">> \in t.seen
             /\ s \in left \/ <<s, "feature">> \in t.seen
  BY <1>3, AskOneStep
<1>4. \/ Ends(g)
      \/ guest' = [guest EXCEPT ![g].found = @ \ {r}] /\ t.op = "request"
      \/ guest' = [guest EXCEPT ![g].found = @ \ {r}, ![g].valid = valid]
      \/ /\ t.op # "request" /\ t.found = {r} /\ Cardinality(valid) = 1
         /\ guest' = [guest EXCEPT ![g].pc = "store", ![g].found = {},
                                   ![g].stay = CHOOSE s \in valid : TRUE]
  BY DEF AskFlag, StillValid
<1> HIDE DEF valid
<1>5. CASE Ends(g)
  BY <1>0, <1>5, EndsStep
<1>6. CASE guest' = [guest EXCEPT ![g].found = @ \ {r}] /\ t.op = "request"
  <2> DEFINE u == [t EXCEPT !.found = left]
  <2>1. guest' = [guest EXCEPT ![g] = u]
    BY <1>6, GuestOK
  <2>2. u \in GuestStates /\ u.op = "request" /\ u.pc = "flags"
    BY <1>1, <1>2, <1>6 DEF GuestStates
  <2>3. WatchesPortal(u, FactsNow) /\ PortalProgress(u)
    BY <2>2 DEF WatchesPortal, PortalProgress, LoginProgress
  <2>. QED  BY <1>0, <2>1, <2>2, <2>3, OneGuest
<1>7. CASE guest' = [guest EXCEPT ![g].found = @ \ {r}, ![g].valid = valid]
  <2> DEFINE u == [t EXCEPT !.found = left, !.valid = valid]
  <2>1. guest' = [guest EXCEPT ![g] = u]
    BY <1>7, GuestOK
  <2>2. /\ u \in GuestStates /\ u.op = t.op /\ u.pc = "flags" /\ u.stay = t.stay
        /\ u.found = left /\ u.valid = valid /\ u.seen = t.seen
    BY <1>1, <1>2 DEF GuestStates
  <2> HIDE DEF u
  <2>3. About(u) = About(t)
    BY <2>2 DEF About
  <2>4. WatchesPortal(u, FactsNow)
    BY <1>1, <2>2, <2>3, GuestOK, StillWatches
  <2>5. PortalProgress(u)
    BY <1>1, <1>3, <2>2, <2>3 DEF PortalProgress, LoginProgress
  <2>. QED  BY <1>0, <2>1, <2>2, <2>4, <2>5, OneGuest
<1>8. CASE /\ t.op # "request" /\ t.found = {r} /\ Cardinality(valid) = 1
           /\ guest' = [guest EXCEPT ![g].pc = "store", ![g].found = {},
                                     ![g].stay = CHOOSE s \in valid : TRUE]
  <2> DEFINE s == CHOOSE x \in valid : TRUE
             u == [t EXCEPT !.pc = "store", !.found = {}, !.stay = s]
  <2>0. guest' = [guest EXCEPT ![g].pc = "store", ![g].found = {}, ![g].stay = s]
    BY <1>8
  <2>2. valid # {}
    BY <1>8, FS_EmptySet
  <2>3. s \in valid
    BY <2>2
  <2> HIDE DEF s
  <2>1. guest' = [guest EXCEPT ![g] = u]
    BY <2>0, GuestOK
  <2>4. s \in Stays /\ s \in About(t) /\ left = {}
    BY <1>2, <1>3, <1>8, <2>3
  <2>5. Required(t.op, s) \subseteq t.seen
    <3>1. /\ <<s, "there">> \in t.seen /\ <<s, "portal">> \in t.seen
          /\ <<s, "feature">> \in t.seen
      BY <1>3, <1>8, <2>3, <2>4
    <3>. QED  BY <1>1, <3>1, RequiredAre DEF LoginProgress
  <2>6. /\ u \in GuestStates /\ u.op = t.op /\ u.pc = "store" /\ u.stay = s
        /\ u.seen = t.seen
    BY <1>1, <2>4 DEF GuestStates
  <2> HIDE DEF u
  <2>7. About(u) \subseteq About(t)
    BY <1>1, <2>4, <2>6, PortalAssumption DEF About
  <2>8. WatchesPortal(u, FactsNow)
    BY <1>1, <2>6, <2>7, GuestOK, StillWatches
  <2>9. t.op \in {"verify", "choose"}
    BY <1>1, <1>8 DEF GuestStates, LoginProgress
  <2>10. PortalProgress(u)
    BY <2>4, <2>5, <2>6, <2>9 DEF PortalProgress
  <2>. QED  BY <1>0, <2>1, <2>6, <2>8, <2>10, OneGuest
<1>. QED  BY <1>4, <1>5, <1>6, <1>7, <1>8

LEMMA StoreTokenStep ==
    ASSUME PortalInv, NEW g \in Guests, StoreToken(g)
    PROVE  PortalInv'
<1> DEFINE u == [guest[g] EXCEPT !.pc = "granted"]
           requests == [guest EXCEPT ![g].pc = "granted"]
<1>1. guest[g].pc = "store" /\ PortalProgress(guest[g])
  BY GuestOK DEF StoreToken
<1>2. /\ u \in GuestStates /\ u.pc = "granted" /\ u.op = guest[g].op
      /\ u.stay = guest[g].stay /\ u.seen = guest[g].seen
  BY GuestOK DEF GuestStates
<1>3. PortalProgress(u)
  BY <1>1, <1>2 DEF PortalProgress
<1>4. requests = [guest EXCEPT ![g] = u]
  BY GuestOK
<1>5. requests \in [Guests -> GuestStates] /\ \A h \in Guests : PortalProgress(requests[h])
  BY <1>2, <1>3, <1>4, GuestOK
<1>6. SeeFacts(requests) /\ UNCHANGED <<person, linked, resident, portalOn>>
      /\ session' \subseteq Stays
  BY <1>1 DEF StoreToken, PortalProgress, PortalInv, PortalTypeOK
<1> HIDE DEF requests
<1>. QED  BY <1>5, <1>6, SeeFactsStep DEF PortalInv, PortalTypeOK

LEMMA RefreshStep ==
    ASSUME PortalInv, NEW g \in Guests,
           CompareToken(g) \/ CheckResident(g) \/ CheckPortal(g)
    PROVE  PortalInv'
<1> DEFINE t == guest[g]
<1>0. /\ UNCHANGED portalDocs
      /\ person' \in {"none", "placeholder", "named"} /\ linked' \subseteq Stays
      /\ UNCHANGED <<resident, portalOn, session>>
  BY DEF CompareToken, CheckResident, CheckPortal, portalDocs, PortalInv, PortalTypeOK
<1>1. /\ t \in GuestStates /\ t.pc \in {"token", "resident"} /\ t.op = "refresh"
      /\ t.stay \in Stays /\ PortalProgress(t)
  BY GuestOK DEF CompareToken, CheckResident, CheckPortal, PortalProgress
<1>2. t.stay \in About(t)
  BY <1>1 DEF About
<1>3. /\ t.stay \in There => <<t.stay, "there">> \in t.seen
      /\ t.stay \in portalOn => <<t.stay, "feature">> \in t.seen
      /\ t.stay \in session => <<t.stay, "token">> \in t.seen
  BY <1>1, <1>2, GuestOK, WatchedFacts DEF There
<1>4. CASE Ends(g)
  BY <1>0, <1>4, EndsStep
<1>5. CASE CompareToken(g) /\ ~Ends(g)
  BY <1>0, <1>1, <1>3, <1>5, GoesStep DEF CompareToken, PortalProgress
<1>6. CASE CheckResident(g) /\ ~Ends(g)
  <2> DEFINE u == [t EXCEPT !.found = {t.stay}]
  <2>1. guest' = [guest EXCEPT ![g] = u] /\ t.stay \in There /\ t.pc = "resident"
    BY <1>6, GuestOK DEF CheckResident, StaysOn
  <2>2. /\ u \in GuestStates /\ u.op = t.op /\ u.pc = "resident"
        /\ u.stay = t.stay /\ u.seen = t.seen
    BY <1>1, <2>1 DEF GuestStates
  <2> HIDE DEF u
  <2>3. About(u) = About(t)
    BY <2>2 DEF About
  <2>4. WatchesPortal(u, FactsNow)
    BY <1>1, <2>2, <2>3, GuestOK, StillWatches
  <2>5. PortalProgress(u)
    BY <1>1, <1>3, <2>1, <2>2 DEF PortalProgress
  <2>. QED  BY <1>0, <2>1, <2>2, <2>4, <2>5, OneGuest
<1>7. CASE CheckPortal(g) /\ ~Ends(g)
  <2>1. t.pc = "resident" /\ t.found # {} /\ t.stay \in portalOn /\ Goes(g, "granted")
    BY <1>7 DEF CheckPortal
  <2>2. Required(t.op, t.stay) \subseteq t.seen
    BY <1>1, <1>3, <2>1, RequiredAre DEF PortalProgress
  <2>. QED  BY <1>0, <1>1, <2>1, <2>2, GoesStep
<1>. QED  BY <1>4, <1>5, <1>6, <1>7

LEMMA PortalStep == PortalInv /\ PortalNext => PortalInv'
<1> SUFFICES ASSUME PortalInv, PortalNext PROVE PortalInv'
  OBVIOUS
<1>1. ASSUME NEW g \in Guests,
             \/ RequestOtp(g)
             \/ \E r \in Stays : LoginWithTenant(g, r) \/ RefreshAccess(g, r)
             \/ \E r \in Stays \cup {NoStay} : VerifyOtpAndLogin(g, r)
      PROVE  PortalInv'
  BY <1>1, ArriveStep DEF RequestOtp, LoginWithTenant, RefreshAccess, VerifyOtpAndLogin
<1>2. ASSUME NEW g \in Guests, EndGuest(g) PROVE PortalInv'
  BY <1>2, EndsStep DEF EndGuest, portalDocs, PortalInv, PortalTypeOK
<1>3. ASSUME NEW r \in Stays,
             \/ EndSession(r) \/ SwitchPortal(r)
             \/ \E to \in {"away", "plain", "portal"} : ChangeResident(r, to)
      PROVE  PortalInv'
  <2>1. /\ SeeFacts(guest) /\ UNCHANGED <<person, linked>>
        /\ resident' \in [Stays -> {"away", "plain", "portal"}]
        /\ portalOn' \subseteq Stays /\ session' \subseteq Stays
    BY <1>3 DEF EndSession, SwitchPortal, ChangeResident, PortalInv, PortalTypeOK
  <2>. QED  BY <2>1, GuestOK, SeeFactsStep DEF PortalInv, PortalTypeOK, GuestStates
<1>. QED  BY <1>1, <1>2, <1>3, FindPersonStep, FindResidentsStep, LinkStep,
             AskFlagStep, StoreTokenStep, RefreshStep DEF PortalNext

LEMMA PortalInitInv == PortalInit => PortalInv
BY NoGuestOK DEF PortalInit, PortalInv, PortalTypeOK, GuestStates

LEMMA PortalInvHolds == PortalSpec => []PortalInv
<1>1. PortalInv /\ UNCHANGED portalVars => PortalInv'
  BY DEF portalVars, PortalInv, PortalTypeOK, FactsNow
<1>. QED  BY PortalInitInv, PortalStep, <1>1, PTL DEF PortalSpec

\* Whoever gets a token of the resident portal (ResidentAuthService) had a right
\* to it at some time since the request began, for every number of residencies
\* and of requests in flight.
THEOREM GrantsTheorem == PortalSpec => []GrantsBacked
<1>1. PortalInv => GrantsBacked
  BY DEF PortalInv, GrantsBacked, PortalProgress
<1>. QED  BY <1>1, PortalInvHolds, PTL

-----------------------------------------------------------------------------
(* Sessions: what each request has seen so far.                             *)

SessionStates ==
    [pc : {"idle", "find", "tenant", "store", "granted"},
     op : {"login", "refresh", "enter"}, kind : AccountKinds,
     token : 0 .. MaxSession, seen : SUBSET Conditions]

\* A request in flight has seen what holds, for as long as it is in flight.
WatchesSession(t, there, st, tokens) ==
    t.pc # "idle" => Holding(t, there, st, tokens) \subseteq t.seen

\* What it has seen when it has come that far.
SessionProgress(t) ==
    /\ t.pc = "tenant"  => /\ t.op \in {"login", "enter"}
                           /\ t.op = "login" => "password" \in t.seen
    /\ t.pc = "store"   => t.op = "login" /\ Needed(t) \subseteq t.seen
    /\ t.pc = "granted" => Needed(t) \subseteq t.seen

SessionInv ==
    /\ SessionTypeOK
    /\ \A c \in Clients :
          /\ WatchesSession(client[c], credentials, status, slot)
          /\ SessionProgress(client[c])
-----------------------------------------------------------------------------
LEMMA NoToken == 0 \in 0 .. MaxSession
BY SessionAssumption

\* What is needed depends on the operation and the kind alone.
LEMMA NeededSame ==
    ASSUME NEW t \in SessionStates, NEW u \in SessionStates,
           u.op = t.op, u.kind = t.kind
    PROVE  Needed(u) = Needed(t)
BY DEF Needed

LEMMA HoldingType ==
    ASSUME NEW t, NEW there, NEW st, NEW tokens
    PROVE  Holding(t, there, st, tokens) \subseteq Needed(t)
BY DEF Holding

LEMMA NeededType ==
    ASSUME NEW t \in SessionStates
    PROVE  Needed(t) \in SUBSET Conditions
BY DEF Needed, SessionStates, Conditions

\* A request begins.
LEMMA EnterStep ==
    ASSUME SessionInv, NEW c \in Clients, NEW pc \in {"find", "tenant"},
           NEW op \in {"login", "refresh", "enter"}, NEW k \in AccountKinds,
           NEW token \in 0 .. MaxSession,
           pc = "tenant" => op = "enter",
           Enter(c, pc, op, k, token)
    PROVE  SessionInv'
<1> DEFINE t == [NoClient EXCEPT !.pc = pc, !.op = op, !.kind = k,
                                 !.token = token]
           u == [t EXCEPT !.seen = Holding(t, credentials, status, slot)]
<1>1. client' = [client EXCEPT ![c] = u]
  BY DEF Enter
<1>2. t \in SessionStates
  BY DEF SessionStates, NoClient
<1>3. Holding(t, credentials, status, slot) \in SUBSET Conditions
  BY <1>2, NeededType, HoldingType
<1>4. u \in SessionStates /\ u.op = op /\ u.kind = k /\ u.token = token
      /\ u.pc = pc /\ u.seen = Holding(t, credentials, status, slot)
  BY <1>2, <1>3 DEF SessionStates, NoClient
<1>5. t.op = op /\ t.kind = k /\ t.token = token
  BY DEF NoClient
<1> HIDE DEF t, u
<1>6. Holding(u, credentials, status, slot) = Holding(t, credentials, status, slot)
  BY <1>2, <1>4, <1>5, NeededSame DEF Holding
<1>7. UNCHANGED <<credentials, status, slot, issued>>
  BY DEF Enter
<1>8. SessionTypeOK'
  BY <1>1, <1>4, <1>7 DEF SessionInv, SessionTypeOK, SessionStates
<1>9. WatchesSession(u, credentials, status, slot) /\ SessionProgress(u)
  BY <1>4, <1>6 DEF WatchesSession, SessionProgress
<1>10. ASSUME NEW d \in Clients
       PROVE  /\ WatchesSession(client'[d], credentials', status', slot')
              /\ SessionProgress(client'[d])
  BY <1>1, <1>7, <1>9 DEF SessionInv, SessionTypeOK
<1>. QED  BY <1>8, <1>10 DEF SessionInv

\* A request ends, or goes on.
LEMMA MoveStep ==
    ASSUME SessionInv, NEW c \in Clients,
           NEW pc \in {"idle", "tenant", "store", "granted"},
           client[c].pc # "idle" \/ pc = "idle",
           pc = "tenant"  => client[c].op = "login" /\ "password" \in client[c].seen,
           pc = "store"   => /\ client[c].op = "login"
                             /\ Needed(client[c]) \subseteq client[c].seen,
           pc = "granted" => Needed(client[c]) \subseteq client[c].seen,
           Move(c, pc)
    PROVE  SessionInv'
<1> DEFINE t == client[c]
           u == IF pc = "idle" THEN NoClient ELSE [t EXCEPT !.pc = pc]
<1>1. client' = [client EXCEPT ![c] = u]
  BY DEF Move
<1>2. t \in SessionStates
  BY DEF SessionInv, SessionTypeOK, SessionStates
<1>3. u \in SessionStates /\ u.pc = pc
  BY <1>2, NoToken DEF SessionStates, NoClient, AccountKinds
<1>4. pc # "idle" => /\ u.op = t.op /\ u.kind = t.kind /\ u.token = t.token
                     /\ u.seen = t.seen
  BY <1>2 DEF SessionStates
<1> HIDE DEF u
<1>5. pc # "idle" => /\ Needed(u) = Needed(t)
                     /\ Holding(u, credentials, status, slot)
                          = Holding(t, credentials, status, slot)
  BY <1>2, <1>3, <1>4, NeededSame DEF Holding
<1>6. WatchesSession(t, credentials, status, slot)
  BY DEF SessionInv
<1>7. WatchesSession(u, credentials, status, slot) /\ SessionProgress(u)
  BY <1>3, <1>4, <1>5, <1>6 DEF WatchesSession, SessionProgress
<1>8. UNCHANGED <<credentials, status, slot, issued>>
  BY DEF Move
<1>9. SessionTypeOK'
  BY <1>1, <1>3, <1>8 DEF SessionInv, SessionTypeOK, SessionStates
<1>10. ASSUME NEW d \in Clients
       PROVE  /\ WatchesSession(client'[d], credentials', status', slot')
              /\ SessionProgress(client'[d])
  BY <1>1, <1>7, <1>8 DEF SessionInv, SessionTypeOK
<1>. QED  BY <1>9, <1>10 DEF SessionInv

\* The conditions change, and every request in flight is told.
LEMMA ToldStep ==
    ASSUME SessionTypeOK, NEW requests \in [Clients -> SessionStates],
           \A c \in Clients : SessionProgress(requests[c]),
           Told(requests)
    PROVE  /\ client' \in [Clients -> SessionStates]
           /\ \A c \in Clients :
                 /\ WatchesSession(client'[c], credentials', status', slot')
                 /\ SessionProgress(client'[c])
<1> SUFFICES ASSUME NEW c \in Clients
             PROVE  /\ client'[c] \in SessionStates
                    /\ WatchesSession(client'[c], credentials', status', slot')
                    /\ SessionProgress(client'[c])
  BY DEF Told
<1> DEFINE t == requests[c]
           h == Holding(t, credentials', status', slot')
           u == [t EXCEPT !.seen = @ \cup h]
<1>1. t \in SessionStates /\ SessionProgress(t)
  OBVIOUS
<1>2. CASE t.pc = "idle"
  BY <1>1, <1>2 DEF Told, WatchesSession
<1>3. CASE t.pc # "idle"
  <2>1. client'[c] = u
    BY <1>3 DEF Told
  <2>2. h \in SUBSET Conditions
    BY <1>1, NeededType, HoldingType
  <2>3. t.seen \cup h \in SUBSET Conditions
    BY <1>1, <2>2 DEF SessionStates
  <2> HIDE DEF h
  <2>4. /\ u \in SessionStates
        /\ u.pc = t.pc /\ u.op = t.op /\ u.kind = t.kind /\ u.token = t.token
        /\ u.seen = t.seen \cup h
    BY <1>1, <2>3 DEF SessionStates
  <2> HIDE DEF u
  <2>5. Needed(u) = Needed(t)
    BY <1>1, <2>4, NeededSame
  <2>6. Holding(u, credentials', status', slot') = h
    BY <2>4, <2>5 DEF Holding, h
  <2>7. SessionProgress(u) /\ WatchesSession(u, credentials', status', slot')
    BY <1>1, <2>4, <2>5, <2>6 DEF SessionProgress, WatchesSession
  <2>. QED  BY <2>1, <2>4, <2>7
<1>. QED  BY <1>2, <1>3
-----------------------------------------------------------------------------
LEMMA StoreStep ==
    ASSUME SessionInv, NEW c \in Clients, Store(c)
    PROVE  SessionInv'
<1> DEFINE k == client[c].kind
           t == client[c]
           u == [t EXCEPT !.pc = "granted", !.token = issued[k] + 1]
           requests == [client EXCEPT ![c].pc = "granted", ![c].token = issued[k] + 1]
<1>1. t \in SessionStates /\ client \in [Clients -> SessionStates]
      /\ k \in AccountKinds
  BY DEF SessionInv, SessionTypeOK, SessionStates
<1>2. issued[k] + 1 \in 0 .. MaxSession
  BY <1>1, SessionAssumption DEF Store, SessionInv, SessionTypeOK
<1>3. u \in SessionStates /\ u.pc = "granted" /\ u.op = t.op /\ u.kind = t.kind
      /\ u.seen = t.seen
  BY <1>1, <1>2 DEF SessionStates
<1>4. requests = [client EXCEPT ![c] = u]
  BY <1>1
<1>5. SessionProgress(t) /\ t.pc = "store"
  BY DEF SessionInv, Store
<1>6. SessionProgress(u)
  BY <1>1, <1>3, <1>5, NeededSame DEF SessionProgress
<1>7. requests \in [Clients -> SessionStates]
  BY <1>1, <1>3, <1>4
<1>8. \A d \in Clients : SessionProgress(requests[d])
  BY <1>1, <1>4, <1>6 DEF SessionInv
<1>9. Told(requests)
  BY DEF Store
<1>10. issued' \in [AccountKinds -> 0 .. MaxSession]
       /\ slot' \in [AccountKinds -> 0 .. MaxSession]
       /\ UNCHANGED <<credentials, status>>
  BY <1>1, <1>2 DEF Store, SessionInv, SessionTypeOK
<1> HIDE DEF requests
<1>. QED  BY <1>7, <1>8, <1>9, <1>10, ToldStep
          DEF SessionInv, SessionTypeOK, SessionStates

LEMMA ConditionStep ==
    ASSUME SessionInv,
           \/ \E k \in AccountKinds :
                 Logout(k) \/ \E there \in BOOLEAN : SetCredentials(k, there)
           \/ \E to \in {"active", "suspended", "gone"} : ChangeStatus(to)
    PROVE  SessionInv'
<1>1. client \in [Clients -> SessionStates]
      /\ \A c \in Clients : SessionProgress(client[c])
  BY DEF SessionInv, SessionTypeOK, SessionStates
<1>2. Told(client)
  BY DEF Logout, SetCredentials, ChangeStatus
<1>3. /\ credentials' \in [AccountKinds -> BOOLEAN]
      /\ status' \in {"active", "suspended", "gone"}
      /\ slot' \in [AccountKinds -> 0 .. MaxSession]
      /\ issued' \in [AccountKinds -> 0 .. MaxSession]
  BY NoToken DEF Logout, SetCredentials, ChangeStatus, SessionInv, SessionTypeOK
<1>. QED  BY <1>1, <1>2, <1>3, ToldStep
          DEF SessionInv, SessionTypeOK, SessionStates
-----------------------------------------------------------------------------
LEMMA SessionStep == SessionInv /\ SessionNext => SessionInv'
<1> SUFFICES ASSUME SessionInv, SessionNext PROVE SessionInv'
  OBVIOUS
<1>t. ASSUME NEW c \in Clients
      PROVE  /\ client[c] \in SessionStates
             /\ WatchesSession(client[c], credentials, status, slot)
             /\ SessionProgress(client[c])
  BY DEF SessionInv, SessionTypeOK, SessionStates
<1>1. ASSUME NEW c \in Clients, NEW k \in AccountKinds, Login(c, k)
      PROVE  SessionInv'
  BY <1>1, NoToken, EnterStep DEF Login
<1>2. ASSUME NEW c \in Clients, NEW k \in AccountKinds,
             NEW token \in 1 .. MaxSession, RefreshToken(c, k, token)
      PROVE  SessionInv'
  <2>1. token \in 0 .. MaxSession
    BY SessionAssumption
  <2>. QED  BY <1>2, <2>1, EnterStep DEF RefreshToken
<1>3. ASSUME NEW c \in Clients, FindUser(c) PROVE SessionInv'
  <2>1. credentials["staff"] => "password" \in client[c].seen
    BY <1>3, <1>t DEF FindUser, WatchesSession, Holding, Needed
  <2>. QED  BY <1>3, <2>1, MoveStep DEF FindUser
<1>4. ASSUME NEW c \in Clients, FindAdmin(c) PROVE SessionInv'
  <2>1. credentials["admin"] => Needed(client[c]) \subseteq client[c].seen
    BY <1>4, <1>t DEF FindAdmin, WatchesSession, Holding, Needed
  <2>. QED  BY <1>4, <2>1, MoveStep DEF FindAdmin
<1>5. ASSUME NEW c \in Clients, NEW redirect \in BOOLEAN, ReadTenancy(c, redirect)
      PROVE  SessionInv'
  <2>1. OpenTenant => Needed(client[c]) \subseteq client[c].seen
    BY <1>5, <1>t DEF ReadTenancy, OpenTenant, WatchesSession, SessionProgress,
       Holding, Needed
  <2>. QED  BY <1>5, <2>1, <1>t, MoveStep DEF ReadTenancy, SessionProgress
<1>6. ASSUME NEW c \in Clients, CompareStored(c) PROVE SessionInv'
  <2>1. SameStored(c) => Needed(client[c]) \subseteq client[c].seen
    BY <1>6, <1>t DEF CompareStored, SameStored, WatchesSession, Holding, Needed
  <2>. QED  BY <1>6, <2>1, MoveStep DEF CompareStored
<1>7. ASSUME NEW c \in Clients, Use(c) PROVE SessionInv'
  BY <1>7, NoToken, EnterStep DEF Use, AccountKinds
<1>8. ASSUME NEW c \in Clients, EndClient(c) PROVE SessionInv'
  BY <1>8, MoveStep DEF EndClient
<1>. QED  BY <1>1, <1>2, <1>3, <1>4, <1>5, <1>6, <1>7, <1>8, StoreStep,
             ConditionStep DEF SessionNext

LEMMA SessionInitInv == SessionInit => SessionInv
BY NoToken DEF SessionInit, SessionInv, SessionTypeOK, NoClient, AccountKinds,
   Conditions, WatchesSession, SessionProgress

LEMMA SessionInvHolds == SessionSpec => []SessionInv
<1>1. SessionInv /\ UNCHANGED sessionVars => SessionInv'
  BY DEF sessionVars, SessionInv, SessionTypeOK, WatchesSession, SessionProgress,
     Holding
<1>. QED  BY SessionInitInv, SessionStep, <1>1, PTL DEF SessionSpec

\* Nobody logs in, refreshes or enters on what was true only before the request
\* (AuthService, SuperAdminAuthService, TenantMiddleware): each condition held
\* at some time since it began, for every number of requests in flight.
THEOREM SessionTheorem == SessionSpec => []SessionBacked
<1>1. SessionInv => SessionBacked
  BY DEF SessionInv, SessionBacked, SessionProgress
<1>. QED  BY <1>1, SessionInvHolds, PTL
=============================================================================
