-------------------------------- MODULE Otp --------------------------------
(***************************************************************************)
(* The one-time codes of one mobile number: OtpService sends a code, at    *)
(* most MaxAttempts in an hour, and verifies one.  The limit is a counter  *)
(* in Redis that the first attempt gives an expiry, in a call of its own;  *)
(* a code is read and marked as verified in two calls.                     *)
(*                                                                         *)
(* The variables uses, admitted and lost belong to the verification: how   *)
(* often each code was accepted, how many codes the counter let through,   *)
(* and whether a request stopped before it had set the expiry.             *)
(***************************************************************************)
EXTENDS Naturals, FiniteSets

CONSTANTS
    Codes,        \* one-time codes
    Phones,       \* slots for requests in flight
    MaxAttempts,  \* codes that may be asked for in an hour
    MaxAsked,     \* bound on the attempts counted
    NoCode

ASSUME OtpAssumption ==
    /\ IsFiniteSet(Phones)
    /\ MaxAttempts \in Nat /\ MaxAsked \in Nat

VARIABLES
    code,       \* the codes
    attempts,   \* the counter in Redis
    expires,    \* whether the counter has an expiry
    phone,      \* the requests in flight
    uses,       \* history: how often each code was accepted
    admitted,   \* history: codes let through since the counter began
    lost        \* history: a counter was left without expiry

otpVars == <<code, attempts, expires, phone, uses, admitted, lost>>
-----------------------------------------------------------------------------
NoPhone == [pc |-> "idle", code |-> NoCode]

OtpTypeOK ==
    /\ code \in [Codes -> {"none", "open", "verified", "gone"}]
    /\ attempts \in 0 .. MaxAsked
    /\ expires \in BOOLEAN
    /\ phone \in [Phones ->
          [pc : {"idle", "limit", "expire", "create", "send", "otp", "save"},
           code : Codes \cup {NoCode}]]
    /\ uses \in [Codes -> Nat]
    /\ admitted \in Nat
    /\ lost \in BOOLEAN

OtpInit ==
    /\ code = [c \in Codes |-> "none"]
    /\ attempts = 0 /\ expires = FALSE
    /\ phone = [p \in Phones |-> NoPhone]
    /\ uses = [c \in Codes |-> 0]
    /\ admitted = 0 /\ lost = FALSE

Call(p, pc, c) ==
    /\ phone[p].pc = "idle"
    /\ phone' = [phone EXCEPT ![p] = [pc |-> pc, code |-> c]]
    /\ UNCHANGED <<code, attempts, expires, uses, admitted, lost>>

Turn(p, pc) == phone' = [phone EXCEPT ![p].pc = pc]
HangUp(p)   == phone' = [phone EXCEPT ![p] = NoPhone]
-----------------------------------------------------------------------------
\* generateAndSendOtp
GenerateAndSendOtp(p) == Call(p, "limit", NoCode)

\* The attempts that get an expiry for the counter; the first form waits for
\* one attempt more.
BeginsLater(n) == n = 2
BeginsHour(n)  == n = 1

\* redis.incr
CountAttempt(p) ==
    /\ phone[p].pc = "limit"
    /\ attempts < MaxAsked
    /\ attempts' = attempts + 1
    /\ admitted' = admitted + (IF attempts < MaxAttempts THEN 1 ELSE 0)
    /\ IF BeginsHour(attempts + 1) THEN Turn(p, "expire")
       ELSE IF attempts < MaxAttempts THEN Turn(p, "create") ELSE HangUp(p)
    /\ UNCHANGED <<code, expires, uses, lost>>

\* redis.expire, by the first attempt.
SetExpiry(p) ==
    /\ phone[p].pc = "expire"
    /\ expires' = (attempts > 0)
    /\ Turn(p, "create")
    /\ UNCHANGED <<code, attempts, uses, admitted, lost>>

CreateOtp(p, c) ==
    /\ phone[p].pc = "create"
    /\ code[c] = "none"
    /\ code' = [code EXCEPT ![c] = "open"]
    /\ Turn(p, "send")
    /\ UNCHANGED <<attempts, expires, uses, admitted, lost>>

\* The SMS is sent or fails: the code is in the database either way.
SendOtp(p) ==
    /\ phone[p].pc = "send"
    /\ HangUp(p)
    /\ UNCHANGED <<code, attempts, expires, uses, admitted, lost>>

\* verifyOtp
VerifyOtp(p, c) == Call(p, "otp", c)

\* What it takes for valid; the first form forgets verified: false.
ValidTwice(c) == code[c] \in {"open", "verified"}
Valid(c)      == code[c] = "open"

\* findOne for the code, unverified and not expired.
FindOtp(p) ==
    /\ phone[p].pc = "otp"
    /\ IF Valid(phone[p].code) THEN Turn(p, "save") ELSE HangUp(p)
    /\ UNCHANGED <<code, attempts, expires, uses, admitted, lost>>

\* save(): the code is spent, whatever becomes of the login it was for.
SaveOtp(p) ==
    /\ phone[p].pc = "save"
    /\ HangUp(p)
    /\ IF code[phone[p].code] = "gone" THEN UNCHANGED <<code, uses>>
       ELSE /\ code' = [code EXCEPT ![phone[p].code] = "verified"]
            /\ uses' = [uses EXCEPT ![phone[p].code] = @ + 1]
    /\ UNCHANGED <<attempts, expires, admitted, lost>>

\* The time index, or cleanupExpiredOtps, deletes a code.
CleanupExpiredOtp(c) ==
    /\ code[c] \in {"open", "verified"}
    /\ code' = [code EXCEPT ![c] = "gone"]
    /\ UNCHANGED <<attempts, expires, phone, uses, admitted, lost>>

\* The hour is over.
ExpireLimit ==
    /\ expires
    /\ expires' = FALSE /\ attempts' = 0 /\ admitted' = 0
    /\ UNCHANGED <<code, phone, uses, lost>>

\* A call to Redis or the database is rejected, or the process stops.
LosePhone(p) ==
    /\ phone[p].pc # "idle"
    /\ HangUp(p)
    /\ lost' = (lost \/ phone[p].pc = "expire")
    /\ UNCHANGED <<code, attempts, expires, uses, admitted>>

OtpNext ==
    \/ \E p \in Phones :
          \/ GenerateAndSendOtp(p) \/ CountAttempt(p) \/ SetExpiry(p)
          \/ \E c \in Codes : CreateOtp(p, c) \/ VerifyOtp(p, c)
          \/ SendOtp(p) \/ FindOtp(p) \/ SaveOtp(p) \/ LosePhone(p)
    \/ \E c \in Codes : CleanupExpiredOtp(c)
    \/ ExpireLimit

OtpSpec == OtpInit /\ [][OtpNext]_otpVars
-----------------------------------------------------------------------------
(* Properties *)

\* verifyOtp reads a code and marks it in two calls, so several requests may
\* be accepted with one, but no more than run at the same time; one request
\* at a time spends a code once.
CodeUsesBounded == \A c \in Codes : uses[c] <= Cardinality(Phones)

\* The counter never lets more codes through than the limit, and it ends: it
\* has an expiry, or the request that counted the first attempt is about to
\* set it, or was lost just then, after which nothing ends the hour.
LimitEnds ==
    /\ admitted <= MaxAttempts
    /\ attempts > 0 /\ ~expires =>
          lost \/ \E p \in Phones : phone[p].pc = "expire"
=============================================================================
