------------------------------ MODULE Sessions ------------------------------
(***************************************************************************)
(* The sessions of the staff of a tenant and of the super admin:           *)
(* AuthService and SuperAdminAuthService log in, refresh and log out,      *)
(* TenantMiddleware lets requests in.  One slot of Redis per account holds *)
(* the refresh token of its last login.  A token is a number, in the order *)
(* the tokens were stored; one account of each kind is enough, as no step  *)
(* relates two of them.                                                    *)
(*                                                                         *)
(* The field seen of a request belongs to the verification: which of the   *)
(* conditions for letting somebody in held at some time since it began.    *)
(***************************************************************************)
EXTENDS Naturals

CONSTANTS
    Clients,     \* slots for requests in flight
    MaxSession   \* bound on the tokens stored for an account

ASSUME SessionAssumption == MaxSession \in Nat

VARIABLES
    credentials, \* whether the account is there with the password given
    status,      \* tenant.status; "gone" when there is no such tenant
    slot,        \* the refresh token that Redis holds; 0 for none
    issued,      \* the last token that was stored
    client       \* the requests in flight

sessionVars == <<credentials, status, slot, issued, client>>
-----------------------------------------------------------------------------
AccountKinds == {"staff", "admin"}
Conditions   == {"password", "tenant", "stored"}
NoClient     == [pc |-> "idle", op |-> "login", kind |-> "staff", token |-> 0,
                 seen |-> {}]

SessionTypeOK ==
    /\ credentials \in [AccountKinds -> BOOLEAN]
    /\ status \in {"active", "suspended", "gone"}
    /\ slot \in [AccountKinds -> 0 .. MaxSession]
    /\ issued \in [AccountKinds -> 0 .. MaxSession]
    /\ client \in [Clients ->
          [pc : {"idle", "find", "tenant", "store", "granted"},
           op : {"login", "refresh", "enter"}, kind : AccountKinds,
           token : 0 .. MaxSession, seen : SUBSET Conditions]]

SessionInit ==
    /\ credentials = [k \in AccountKinds |-> TRUE]
    /\ status = "active"
    /\ slot = [k \in AccountKinds |-> 0]
    /\ issued = [k \in AccountKinds |-> 0]
    /\ client = [c \in Clients |-> NoClient]

\* What has to hold for a request of this kind to be let in.
Needed(t) ==
    CASE t.op = "login"   -> {"password"} \cup
                                (IF t.kind = "staff" THEN {"tenant"} ELSE {})
      [] t.op = "refresh" -> {"stored"}
      [] t.op = "enter"   -> {"tenant"}

\* Those that hold for request t in such a state.
Holding(t, there, st, tokens) ==
    {c \in Needed(t) : CASE c = "password" -> there[t.kind]
                          [] c = "tenant"   -> st = "active"
                          [] c = "stored"   -> tokens[t.kind] = t.token}

\* What happened changes the conditions: every request in flight sees it.
Told(requests) ==
    client' = [c \in Clients |->
        IF requests[c].pc = "idle" THEN requests[c]
        ELSE [requests[c] EXCEPT
                !.seen = @ \cup Holding(requests[c], credentials', status', slot')]]

Enter(c, pc, op, k, token) ==
    /\ client[c].pc = "idle"
    /\ LET t == [NoClient EXCEPT !.pc = pc, !.op = op, !.kind = k,
                                !.token = token]
       IN  client' = [client EXCEPT ![c] =
              [t EXCEPT !.seen = Holding(t, credentials, status, slot)]]
    /\ UNCHANGED <<credentials, status, slot, issued>>

Move(c, pc) ==
    /\ client' = [client EXCEPT ![c] = IF pc = "idle" THEN NoClient
                                                     ELSE [@ EXCEPT !.pc = pc]]
    /\ UNCHANGED <<credentials, status, slot, issued>>
-----------------------------------------------------------------------------
\* POST /auth/login and POST /admin/auth/login
Login(c, k) == Enter(c, "find", "login", k, 0)

\* The user is found by its email alone, and the password compared with it.
\* One on the wrong subdomain is redirected, after the tenant was read.
FindUser(c) ==
    /\ client[c].pc = "find" /\ client[c].op = "login" /\ client[c].kind = "staff"
    /\ Move(c, IF credentials["staff"] THEN "tenant" ELSE "idle")

\* The super admin is found, compared, active, and marked as logged in.
FindAdmin(c) ==
    /\ client[c].pc = "find" /\ client[c].op = "login" /\ client[c].kind = "admin"
    /\ Move(c, IF credentials["admin"] THEN "store" ELSE "idle")

\* The first form forgets to look at the status.
OpenUnlessGone == status # "gone"
OpenTenant     == status = "active"

\* The tenant is read: by the login, and by the middleware for every request
\* with a token.  No code writes a subscription status that it would refuse.
ReadTenancy(c, redirect) ==
    /\ client[c].pc = "tenant"
    /\ Move(c, IF redirect \/ ~OpenTenant THEN "idle"
               ELSE IF client[c].op = "login" THEN "store" ELSE "granted")

\* redis.set: the token replaces that of an earlier login.
Store(c) ==
    /\ client[c].pc = "store"
    /\ LET k == client[c].kind IN
       /\ issued[k] < MaxSession
       /\ issued' = [issued EXCEPT ![k] = @ + 1]
       /\ slot' = [slot EXCEPT ![k] = issued[k] + 1]
       /\ UNCHANGED <<credentials, status>>
       /\ Told([client EXCEPT ![c].pc = "granted", ![c].token = issued[k] + 1])

\* POST /auth/refresh and /admin/auth/refresh, with any token ever given out.
RefreshToken(c, k, token) ==
    /\ token \in 1 .. issued[k]
    /\ Enter(c, "find", "refresh", k, token)

\* redis.get: the stored token has to be the one given; the first form takes
\* any token while there is one stored.
AnyStored(c)  == slot[client[c].kind] # 0
SameStored(c)  == slot[client[c].kind] = client[c].token

CompareStored(c) ==
    /\ client[c].pc = "find" /\ client[c].op = "refresh"
    /\ Move(c, IF SameStored(c) THEN "granted" ELSE "idle")

\* Any request of the staff with a token passes the middleware.
Use(c) == Enter(c, "tenant", "enter", "staff", 0)

\* POST /auth/logout and /admin/auth/logout; the key also ends by itself.
Logout(k) ==
    /\ slot' = [slot EXCEPT ![k] = 0]
    /\ UNCHANGED <<credentials, status, issued>>
    /\ Told(client)

\* The account is created or deleted, or gets a password; the super admin's may
\* be switched off or on, too.  The login of the staff does not look at isActive.
SetCredentials(k, there) ==
    /\ credentials' = [credentials EXCEPT ![k] = there]
    /\ UNCHANGED <<status, slot, issued>>
    /\ Told(client)

\* The tenant is suspended, activated or deleted, which Accounts models.
ChangeStatus(to) ==
    /\ status # "gone"
    /\ status' = to
    /\ UNCHANGED <<credentials, slot, issued>>
    /\ Told(client)

\* The answer; or a database call is rejected, or the process stops.  A call of
\* the tenant middleware that is rejected ends nothing: it is swallowed, and the
\* tenant is looked up by its slug, as active, so that the request is where it
\* was, at "tenant".
EndClient(c) == client[c].pc # "idle" /\ Move(c, "idle")

SessionNext ==
    \/ \E c \in Clients, k \in AccountKinds :
          \/ Login(c, k)
          \/ \E token \in 1 .. MaxSession : RefreshToken(c, k, token)
    \/ \E c \in Clients :
          \/ FindUser(c) \/ FindAdmin(c) \/ Store(c) \/ CompareStored(c)
          \/ \E redirect \in BOOLEAN : ReadTenancy(c, redirect)
          \/ Use(c) \/ EndClient(c)
    \/ \E k \in AccountKinds :
          Logout(k) \/ \E there \in BOOLEAN : SetCredentials(k, there)
    \/ \E to \in {"active", "suspended", "gone"} : ChangeStatus(to)

SessionSpec == SessionInit /\ [][SessionNext]_sessionVars
-----------------------------------------------------------------------------
(* Properties *)

\* Nobody is let in on what was true only before: whoever logs in, refreshes
\* or enters, the password was right, the tenant active and the token the one
\* of the last login, each at some time since the request began, however the
\* account, the tenant and the slot change between its calls.
SessionBacked ==
    \A c \in Clients :
        client[c].pc = "granted" => Needed(client[c]) \subseteq client[c].seen
=============================================================================
