------------------------------ MODULE Accounts ------------------------------
(***************************************************************************)
(* Tenants and the accounts of their staff: AuthService.signup and         *)
(* register, UsersService, TenantsService and SuperAdminTenantsService.    *)
(*                                                                         *)
(* A tenant is inserted first, then (by a signup) subscribed, and its      *)
(* owner last; no transaction holds the writes together and nothing takes  *)
(* them back.  Only the unique indexes on the slug and on the email keep   *)
(* requests apart.  A tenant is the slug it was created with, an account   *)
(* is its email, and of a password only how often it was hashed is kept.   *)
(*                                                                         *)
(* The variables signedUp, bare, ownerless and raced belong to the         *)
(* verification: the signups that were answered with success, the tenants  *)
(* created by a request that gives them no owner, those that a failure or  *)
(* a later change has left without their owner, and those deleted          *)
(* unchecked or while an account was being added to them.                  *)
(***************************************************************************)
EXTENDS FiniteSets, Naturals

CONSTANTS
    Slugs,      \* tenants; bound: a slug that was given up is not used again
    Emails,     \* accounts
    Desks,      \* slots for requests in flight
    Elsewhere,  \* a tenant that stays, of which only the accounts matter
    NoSlug,
    NoEmail

ASSUME AccountAssumption == NoSlug \notin Slugs /\ Elsewhere \notin Slugs

VARIABLES
    tenancy,    \* the status of every tenant; "gone" when it is deleted, or its
                \* slug was taken by another tenant
    subscribed, \* the tenants that a plan was assigned to
    account,    \* the users collection
    desk,       \* the requests in flight
    signedUp,   \* history: tenant and owner of the signups that succeeded
    bare,       \* history: tenants created without an owner
    ownerless,  \* history: tenants that may have lost their owner
    raced       \* history: tenants that may have left accounts behind

accountVars ==
    <<tenancy, subscribed, account, desk, signedUp, bare, ownerless, raced>>
-----------------------------------------------------------------------------
\* A MANAGER account is written like one of STAFF.
Roles == {"OWNER", "STAFF"}

NoAccount == [tenant |-> NoSlug, role |-> "STAFF", hashes |-> 0]
NoDesk    == [pc |-> "idle", slug |-> NoSlug, email |-> NoEmail,
              role |-> "STAFF", hashes |-> 0, by |-> "admin"]

AccountTypeOK ==
    /\ tenancy \in [Slugs -> {"absent", "active", "suspended", "gone"}]
    /\ subscribed \subseteq Slugs
    /\ account \in [Emails -> [tenant : Slugs \cup {NoSlug, Elsewhere},
                               role : Roles, hashes : 0 .. 2]]
    /\ desk \in [Desks ->
          [pc : {"idle", "email", "tenant", "plan", "check", "look", "insert",
                 "delete", "reset"},
           slug : Slugs \cup {NoSlug}, email : Emails \cup {NoEmail},
           role : Roles, hashes : 0 .. 2, by : {"signup", "admin", "member"}]]
    /\ signedUp \subseteq Slugs \X Emails
    /\ bare \subseteq Slugs /\ ownerless \subseteq Slugs
    /\ raced \subseteq Slugs

AccountInit ==
    /\ tenancy = [s \in Slugs |-> "absent"]
    /\ subscribed = {}
    /\ account \in [Emails ->
          {NoAccount, [tenant |-> Elsewhere, role |-> "OWNER", hashes |-> 1]}]
    /\ desk = [d \in Desks |-> NoDesk]
    /\ signedUp = {}
    /\ bare = {} /\ ownerless = {}
    /\ raced = {}

Exists(s)  == tenancy[s] \in {"active", "suspended"}
Members(s) == {e \in Emails : account[e].tenant = s}
Owners(s)  == {e \in Members(s) : account[e].role = "OWNER"}

Leave(d)    == desk' = [desk EXCEPT ![d] = NoDesk]
Goto(d, pc) == desk' = [desk EXCEPT ![d].pc = pc]

\* A request begins with the call pc; to insert an account it carries the role
\* and how often the password is hashed by then.
Open(d, pc, s, e, role, hashes, by) ==
    /\ desk[d].pc = "idle"
    /\ desk' = [desk EXCEPT ![d] = [pc |-> pc, slug |-> s, email |-> e,
                   role |-> role, hashes |-> hashes, by |-> by]]
    /\ UNCHANGED <<tenancy, subscribed, account, signedUp, bare, ownerless, raced>>

\* A request for an account ends without it; a tenant it has inserted stays.
GiveUp(d) ==
    /\ Leave(d)
    /\ ownerless' = ownerless \cup
          {s \in {desk[d].slug} :
              /\ desk[d].by # "member" /\ Exists(s)
              /\ desk[d].pc \in {"plan", "check", "look", "insert"}}
-----------------------------------------------------------------------------
\* POST /auth/signup: the slug is free, and there is a default plan.  signup
\* hashes the password itself.
Signup(d, s, e) ==
    /\ tenancy[s] = "absent"
    /\ Open(d, "email", s, e, "OWNER", 1, "signup")

\* The email is looked for in all the tenants.
SignupEmail(d) ==
    /\ desk[d].pc = "email"
    /\ IF account[desk[d].email] = NoAccount THEN Goto(d, "tenant") ELSE Leave(d)
    /\ UNCHANGED <<tenancy, subscribed, account, signedUp, bare, ownerless, raced>>

\* POST /admin/tenants
AdminCreateTenant(d, s, e) ==
    Open(d, "tenant", s, e, "OWNER", 0, "admin")

\* What the unique index lets in; the first form is without it.
SlugUnindexed(s)   == tenancy[s] # "gone"
SlugFree(s) == tenancy[s] = "absent"

\* tenantsService.create, which the unique index on the slug refuses twice.
InsertTenant(d) ==
    /\ desk[d].pc = "tenant"
    /\ LET s == desk[d].slug IN
       IF SlugFree(s)
       THEN /\ tenancy' = [tenancy EXCEPT ![s] = "active"]
            /\ Goto(d, IF desk[d].by = "signup" THEN "plan" ELSE "check")
       ELSE Leave(d) /\ UNCHANGED tenancy
    /\ UNCHANGED <<subscribed, account, signedUp, bare, ownerless, raced>>

\* assignPlanToTenant, which Entitlements models call by call.
AssignPlan(d) ==
    /\ desk[d].pc = "plan"
    /\ IF Exists(desk[d].slug)
       THEN /\ subscribed' = subscribed \cup {desk[d].slug}
            /\ Goto(d, "look")
            /\ UNCHANGED ownerless
       ELSE GiveUp(d) /\ UNCHANGED subscribed
    /\ UNCHANGED <<tenancy, account, signedUp, bare, raced>>

\* POST /auth/register: the tenant is active.  register hashes the password.
Register(d, s, e, role) ==
    /\ tenancy[s] = "active"
    /\ Open(d, "check", s, e, role, 1, "member")

\* POST /users, for a tenant that the middleware found active.
AddUser(d, s, e, role) ==
    /\ tenancy[s] = "active"
    /\ Open(d, "look", s, e, role, 0, "member")

\* findByEmail within the tenant, before usersService.create and again in it.
LookForEmail(d) ==
    /\ desk[d].pc \in {"check", "look"}
    /\ IF desk[d].email \in Members(desk[d].slug)
       THEN GiveUp(d)
       ELSE /\ Goto(d, IF desk[d].pc = "check" THEN "look" ELSE "insert")
            /\ UNCHANGED ownerless
    /\ UNCHANGED <<tenancy, subscribed, account, signedUp, bare, raced>>

\* The account that create inserts: it hashes the password it is given.  The
\* first form forgets the role, which then has its default.
AsStaff(d)    == [tenant |-> desk[d].slug, role |-> "STAFF",
                  hashes |-> desk[d].hashes + 1]
NewAccount(d) == [tenant |-> desk[d].slug, role |-> desk[d].role,
                  hashes |-> desk[d].hashes + 1]

\* save(), which the unique index on the email refuses twice, in any tenant.
InsertUser(d) ==
    /\ desk[d].pc = "insert"
    /\ LET s == desk[d].slug  e == desk[d].email IN
       IF account[e] # NoAccount
       THEN GiveUp(d) /\ UNCHANGED <<account, signedUp, raced>>
       ELSE /\ account' = [account EXCEPT ![e] = NewAccount(d)]
            /\ signedUp' = signedUp \cup
                  (IF desk[d].by = "signup" THEN {<<s, e>>} ELSE {})
            /\ raced' = raced \cup
                  (IF \E c \in Desks : desk[c].pc = "delete" /\ desk[c].slug = s
                   THEN {s} ELSE {})
            /\ Leave(d)
            /\ UNCHANGED ownerless
    /\ UNCHANGED <<tenancy, subscribed, bare>>
-----------------------------------------------------------------------------
\* DELETE /admin/tenants/:id looks for users; the first form does not.
RemoveUnchecked(s) == TRUE
MayRemove(s)       == Members(s) = {}

AdminRemoveTenant(d, s) ==
    /\ Exists(s) /\ MayRemove(s)
    /\ Open(d, "delete", s, NoEmail, "STAFF", 0, "member")

\* findByIdAndDelete
Drop(s) ==
    /\ tenancy' = [tenancy EXCEPT ![s] = "gone"]
    /\ signedUp' = {p \in signedUp : p[1] # s}
    /\ ownerless' = ownerless \ {s}

AdminDelete(d) ==
    /\ desk[d].pc = "delete"
    /\ LET s == desk[d].slug IN
       IF Exists(s)
       THEN /\ Drop(s)
            /\ raced' = raced \cup
                  (IF \E c \in Desks \ {d} : desk[c].slug = s THEN {s} ELSE {})
       ELSE UNCHANGED <<tenancy, signedUp, ownerless, raced>>
    /\ Leave(d)
    /\ UNCHANGED <<subscribed, account, bare>>

\* POST and DELETE /tenants, which an owner may call: one write, no checks.
\* The POST is done with the tenant: create leaves the owner's fields out.
OwnerCreateTenant(s) ==
    /\ SlugFree(s)
    /\ tenancy' = [tenancy EXCEPT ![s] = "active"]
    /\ bare' = bare \cup {s}
    /\ UNCHANGED <<subscribed, account, desk, signedUp, ownerless, raced>>

OwnerRemoveTenant(s) ==
    /\ Exists(s)
    /\ Drop(s)
    /\ raced' = raced \cup {s}
    /\ UNCHANGED <<subscribed, account, desk, bare>>

\* tenantsService.update with a status: suspend, activate and the updates.  An
\* inactive tenant is treated like a suspended one.
SetStatus(s, status) ==
    /\ Exists(s)
    /\ tenancy' = [tenancy EXCEPT ![s] = status]
    /\ UNCHANGED <<subscribed, account, desk, signedUp, bare, ownerless, raced>>

\* tenantsService.update with a slug, of any tenant (there is always the one
\* Elsewhere): the index lets it take s, which no request can create any more.
SetSlug(s) ==
    /\ SlugFree(s)
    /\ tenancy' = [tenancy EXCEPT ![s] = "gone"]
    /\ UNCHANGED <<subscribed, account, desk, signedUp, bare, ownerless, raced>>

\* An account may stop being the owner of s.
Unsign(e) ==
    /\ signedUp' = {p \in signedUp : p[2] # e}
    /\ ownerless' = ownerless \cup
          {s \in Slugs : Exists(s) /\ e \in Owners(s)}

\* PATCH /users/:id with a role, which only the owners may send.
SetRole(e, role) ==
    /\ account[e] # NoAccount /\ account[e].role # role
    /\ account' = [account EXCEPT ![e].role = role]
    /\ Unsign(e)
    /\ UNCHANGED <<tenancy, subscribed, desk, bare, raced>>

\* The same with an email, also PATCH /users/me: the unique index lets it
\* through when no account has it.  Who holds the account by its id, as a
\* request that resets its password does, goes on with it.
SetEmail(e, f) ==
    /\ account[e] # NoAccount /\ account[f] = NoAccount
    /\ account' = [account EXCEPT ![e] = NoAccount, ![f] = account[e]]
    /\ signedUp' = {<<p[1], IF p[2] = e THEN f ELSE p[2]>> : p \in signedUp}
    /\ desk' = [d \in Desks |->
          IF desk[d].pc = "reset" /\ desk[d].email = e
          THEN [desk[d] EXCEPT !.email = f] ELSE desk[d]]
    /\ UNCHANGED <<tenancy, subscribed, bare, ownerless, raced>>

\* PATCH /users/me and /users/:id with a password: update hashes it once.
SetPassword(e) ==
    /\ account[e] # NoAccount
    /\ account' = [account EXCEPT ![e].hashes = 1]
    /\ UNCHANGED <<tenancy, subscribed, desk, signedUp, bare, ownerless, raced>>

\* DELETE /users/:id
RemoveUser(e) ==
    /\ account[e] # NoAccount
    /\ account' = [account EXCEPT ![e] = NoAccount]
    /\ Unsign(e)
    /\ UNCHANGED <<tenancy, subscribed, desk, bare, raced>>

\* changeOwnerPassword finds the first owner, and updates it a call later.
FindOwner(d, s) ==
    /\ Exists(s)
    /\ \E e \in Owners(s) : Open(d, "reset", s, e, "STAFF", 0, "member")

ResetPassword(d) ==
    /\ desk[d].pc = "reset"
    /\ account' = [account EXCEPT ![desk[d].email].hashes =
          IF account[desk[d].email].tenant = desk[d].slug THEN 1 ELSE @]
    /\ Leave(d)
    /\ UNCHANGED <<tenancy, subscribed, signedUp, bare, ownerless, raced>>

\* A database call is rejected, or the process stops.
LoseDesk(d) ==
    /\ desk[d].pc # "idle"
    /\ GiveUp(d)
    /\ UNCHANGED <<tenancy, subscribed, account, signedUp, bare, raced>>

AccountNext ==
    \/ \E d \in Desks, s \in Slugs, e \in Emails :
          \/ Signup(d, s, e) \/ AdminCreateTenant(d, s, e)
          \/ \E role \in Roles : Register(d, s, e, role) \/ AddUser(d, s, e, role)
    \/ \E d \in Desks, s \in Slugs : AdminRemoveTenant(d, s) \/ FindOwner(d, s)
    \/ \E d \in Desks :
          \/ SignupEmail(d) \/ InsertTenant(d) \/ AssignPlan(d) \/ LookForEmail(d)
          \/ InsertUser(d) \/ AdminDelete(d) \/ ResetPassword(d) \/ LoseDesk(d)
    \/ \E s \in Slugs :
          \/ OwnerCreateTenant(s) \/ OwnerRemoveTenant(s) \/ SetSlug(s)
          \/ \E status \in {"active", "suspended"} : SetStatus(s, status)
    \/ \E e \in Emails :
          \/ \E role \in Roles : SetRole(e, role)
          \/ \E f \in Emails : SetEmail(e, f)
          \/ SetPassword(e) \/ RemoveUser(e)

AccountSpec == AccountInit /\ [][AccountNext]_accountVars
-----------------------------------------------------------------------------
\* getPlatformStats adds up the users tenant by tenant.
CountedUsers == UNION {Members(s) : s \in {t \in Slugs : Exists(t)}}

\* validateUser and login compare the password, hashed once, with the stored one.
PasswordMatches(e) == account[e].hashes = 1

(* Properties *)

\* A signup that was answered with success has left a subscribed tenant and
\* its owner, each its own: two signups that run at the same time with the
\* same slug or email do not both succeed, although both find them free.
SignupComplete ==
    /\ \A p \in signedUp :
          /\ Exists(p[1]) \/ p[1] \in raced
          /\ p[1] \in subscribed
          /\ p[2] \in Owners(p[1])
    /\ \A p, q \in signedUp : p[1] = q[1] \/ p[2] = q[2] => p = q

\* The statistics of the platform count every account: none is left behind by
\* a deleted tenant, unless an owner deleted it unchecked or the account was
\* being added when it was deleted.
UsersHaveTenants ==
    \A s \in Slugs : \A e \in Members(s) : e \in CountedUsers \/ s \in raced

\* A signup or the super admin that creates a tenant has given it an owner when
\* the request is done, unless it failed half way or the owner was removed or
\* demoted since.  A tenant of POST /tenants, for which the owner's fields are
\* accepted too, has none by that request.
TenantsOwned ==
    \A s \in Slugs :
        \/ ~Exists(s) \/ s \in bare \/ s \in ownerless \/ Owners(s) # {}
        \/ \E d \in Desks : desk[d].slug = s /\ desk[d].by # "member"
-----------------------------------------------------------------------------
(* What an answer says, which the code does not achieve.                    *)

\* auth.service.ts:358, "Tenant created successfully. Please login at your
\* tenant subdomain.": login accepts the password the owner signed up with.
OwnerCanLogin == \A p \in signedUp : PasswordMatches(p[2])
=============================================================================
