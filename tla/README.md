# Verification of the nivonebackened property-management backend

This directory is a TLA+ development beside `src/`: modules translated from the
TypeScript services, TLC configurations that check them on small instances, and
TLAPS proofs of what matters most for every size. Paths below are relative to
`src/src/` in the repository root unless they start with another directory.

## 1. The system

The program is a NestJS application over MongoDB (mongoose) and Redis. It runs
in one Node.js process: JavaScript is single-threaded, so code between two
`await`s is atomic and every `await` of a database call is a point where any
other request may run. No service opens a database transaction or takes a lock;
the atomic unit of the storage is one `findOneAndUpdate`, `save`, `updateMany`
or `deleteOne`. An exception ends the handler where it is and undoes nothing.
The process may also stop between two awaits.

Documents of one tenant are only ever touched by requests of that tenant (every
query carries `tenantId`), so the models describe one tenant, except where a
component works across tenants.

### Inventory

| component | code | state | operations | correct when |
|---|---|---|---|---|
| Residents | `residents/` | resident documents: status, bed, room, settlement flag, phone | create, update, remove, checkOut, vacate, completeSettlement | one live resident per bed; statuses of residents and beds agree; settled residents have left |
| Beds | `beds/` | status, rent | create, update, remove; availability queries | a bed offered as AVAILABLE is empty, one left becomes AVAILABLE, a stay goes through its stages in order |
| Rooms | `rooms/` | `occupied` counter | create, update, remove | the counter is the number of residents |
| Buildings | `buildings/` | documents | CRUD | names unique |
| Bulk actions | `payments/bulk-actions.service.ts` | none | bulkMarkRentPaid, bulkVacateResidents, bulkAssignBeds | the same as the single operations |
| Plan limits | `common/services/plan-limit.service.ts` | none (reads tenant, subscription, plan, counts) | checkLimit, called by four creates | documents never exceed the limit |
| Plans, subscriptions | `super-admin/plans/` | plans (default, active, limits, features), one subscription per tenant | create, update, remove, setDefault, assign, due sweep, markPaid | one default plan; a tenant has the features of the plan it subscribed to, once |
| Feature flags | `common/services/feature-flag.service.ts`, `common/guards/feature.guard.ts` | flag per tenant and feature, permission per user | read, set, bulk update, the guard, the menu, the search | flags follow the plan; nothing is let through that was never allowed |
| Rent billing | `payments/rent-payment*.ts` | rent payment per resident and month | cron generation, status update, overdue sweep, summaries | one payment per resident and month; status tells the amounts |
| Security deposits | `payments/security-deposit.service.ts` | deposit per resident | createOrUpdate, markReceived, processRefund, update | a receipt stands; nothing unpaid is refunded; refund and rest make up the deposit |
| Extra and legacy payments | `payments/extra-payment.service.ts`, `payments/payments.service.ts` | documents | CRUD, mark paid | status tells what was paid |
| Staff authentication | `auth/`, `users/` | users with one refresh-token slot | login, refresh, logout, register, signup | only the token of the last login refreshes; a signup leaves a subscribed tenant and its owner, who can log in |
| Super admin | `super-admin/` | super admins, tenants | login, tenant administration | a suspended tenant lets nobody in; a deleted one leaves nobody behind |
| Resident authentication | `resident-auth/` | persons, one-time passwords, Redis counters | send and verify OTP, login, refresh | a code is accepted once; the rate limit ends; a token is given only for a portal that is enabled |
| Resident portal | `resident-portal/` | none | reads | - |
| Notifications | `notifications/` | configuration per tenant, templates, delivery log | send on events, per channel | a message leaves only when every gate was open, and is logged once as what it became |
| Notices | `notices/` | notice status, schedule, expiry | create, update, hourly publication and expiry | published between schedule and expiry |
| Gate passes, visitors | `gate-passes/`, `visitors/` | status of a pass, of a visit | create, mark out/returned, overdue queries | a pass is OVERDUE exactly when the resident came back late; who is out is found |
| Complaints, assets, staff | `complaints/`, `assets/`, `staff/` | documents | CRUD, reports | what a report counts adds up |
| Tags, notes, filters | `tags/`, `personal-notes/`, `common/services/saved-filter.service.ts` | documents | CRUD with uniqueness and a limit of five pinned notes | limits and uniqueness hold |
| Logs | `common/services/{audit,activity}-log.service.ts` | append-only | write | - |
| Reports, insights, export, search | `reports/`, `insights/`, `export/`, `search/` | none | read-only aggregation | the parts of a figure add up to its total |
| Plumbing | `main.ts`, `app.module.ts`, guards, middleware, Redis module | none of the domain | routing, validation, tenant resolution | - |

How they interact: every arrow is a direct method call awaited by the caller.
Residents call beds, rooms, rent payments, deposits and plan limits; bulk
actions call residents, beds and rent payments; super-admin plans call tenants
and feature flags; the rent scheduler calls rent payments; signup calls tenants,
plans and users. Residents, rent payments and auth emit events
(`EventEmitter2`) to which the notification listener subscribes; handlers run
after the emitter goes on and their errors do not reach it.

What is hard to test is listed in `PROJECT.json` under `hazards`, each at its
line. Nearly all are of one form: something is read, a decision is taken, and
several awaits later the write that depended on it is made.

## 2. Modules

| module | what it is |
|---|---|
| `Residency` | residents, beds, rooms, deposits at their creation and refund |
| `MCResidency` + `MCResidency_*.cfg` | instances for TLC |
| `BedRegister` | what a bed promises, in indivisible steps; `Residency` implements it |
| `ResidencyProofs` | theorems about `Residency`, with the refinement of `BedRegister` |
| `PlanLimit` | plan limits of one tenant and the four creates that check them |
| `NamedRecords` | the collections in which a name is looked up before it is saved |
| `Notifications` | from an event to the delivery log |
| `GatePasses` | passes, from APPROVED to RETURNED or OVERDUE |
| `Deposits` | one security deposit: receipt, change, refund |
| `Figures` | the small collections and the reports that count them |
| `Otp` | one-time codes and their rate limit in Redis |
| `ResidentLogin` | what a resident must have to be given a token, twice |
| `Sessions` | refresh tokens of staff and super admins, and the tenant's status |
| `MCPlanLimit` + `MCPlanLimit_*.cfg` | instances of these nine for TLC |
| `PlanLimitProofs`, `DepositsProofs` | theorems about `PlanLimit`, `Deposits` |
| `OfficeProofs` | theorems about `NamedRecords`, `Notifications`, `GatePasses`, `Figures` |
| `SignInProofs` | theorems about `Otp`, `ResidentLogin`, `Sessions` |
| `DefaultPlan` | the default flag of the plans and the four requests that write it |
| `Entitlements` | plans, subscriptions, and the feature flags that follow them |
| `SubscriptionLife` | what a subscription promises; `Entitlements` implements it |
| `FeatureAccess` | the feature guard, the search and the menu |
| `Accounts` | tenants and users: signup, registration, deletion |
| `MCDefaultPlan` + `MCDefaultPlan_*.cfg` | instances of these for TLC |
| `DefaultPlanProofs` | theorems about `DefaultPlan` |
| `EntitlementsProofs` | theorems about `Entitlements`, with the refinement of `SubscriptionLife`, `FeatureAccess`, `Accounts` |
| `RentBilling` | rent payments: the nightly cron and the requests that record payments |
| `Settlement` | what a resident owes on leaving, and the lists of what is owed |
| `MCRentBilling` + `MCRentBilling_*.cfg` | instances of the two together for TLC |
| `RentBillingProofs` | theorems about `RentBilling` and `Settlement` |

A run of `MCPlanLimit` or `MCDefaultPlan` checks several components at once. Its variable `part` is chosen in the first state and never changes: it says
which component takes the steps, while the variables of the others keep a first
value. The states of the run are thus the union of those of its components and
not their product, and the properties of each are checked as if it ran alone.
That is the whole behaviour where the components share no document. What one does
read of another (the subscription in `Notifications`, the tenant's status in
`Sessions`, the residents in `ResidentLogin`) is a variable of the reader, which may
change at any time. Requests have two slots in every part, except that
`Notifications` and `ResidentLogin` have one: their handlers write nothing that
another of them reads, and meet only what the administration changes. The two
slots are the same two model values in all parts, so exchanging them is a symmetry.

### 2.1 Residency

State: `resident`, `bed`, `room` and `deposit` are the four collections; `req`
maps each slot for a request in flight to a record: the endpoint it serves, the
next awaited call (`pc`) and what it has read and still uses. A request starts
with `CreateCheck`, `LeaveRead` (DELETE, checkout, vacate), `SettleRead` or
`AssignCheck`; each following action is one awaited call. The endpoints that
write one document and look at no other are single actions (`PatchResident`,
`AddBed`, `PatchBed`, `RemoveBed`, `AddRoom`, `PatchRoom`, `RemoveRoom`). `Fail`
ends a request between two calls: a rejected database call or a stopped process.

Abstractions: ACTIVE, NOTICE_GIVEN and SUSPENDED are one status `LIVE` (no step
tells them apart); rent, phone, names and dates are data; a bed's room is the
constant `RoomOf`. The plan-limit and phone lookups of a create write nothing
and are left out of this module. A populated reference is the reference unless
the document has been deleted (`PopulatedBed`, `PopulatedRoom`), which is what
selects the "legacy" branch of the three ways to leave.

The code does not prevent double booking, so the unconditional property is a
violated claim (run `residency_stale`; two concurrent creates violate it as well). What the code does
achieve is stated with the history variable `tainted`, the set of beds touched
by one of the things the services do not guard against, and those only: two
requests in flight for the bed at once (`Raced`), a request that frees the bed
of a resident who has already left, a resident moved from or to it while leaving,
a direct PATCH of the resident, a PATCH or DELETE of the bed that contradicts who
lives there or is about to, and a request that dies
between its resident write and its bed write (`Torn`). For every other bed the
properties hold with no further condition, whatever runs on the other beds. A PATCH to
MAINTENANCE is not among these: it may come at any time, also while a booking
of the bed is under way, which then writes over it (`residents.service.ts:84`), as
freeing the bed does (`:444`). So MAINTENANCE says nothing about who lives in a
bed, and does not last, but no property here depends on it.

| property | kind | about |
|---|---|---|
| `NoDoubleBooking` | invariant | at most one live resident per untouched bed |
| `CollectionsAgree` | invariant | somebody lives in an OCCUPIED bed and nobody in an AVAILABLE one, once no request is under way for it |
| `SettledHasLeft` | invariant | the settlement flag is only true of someone who has left, or whom a PATCH has made live again since (`revived`) |
| `BedFreedEventually` | liveness | the bed of someone who left stops being OCCUPIED |
| `TypeOK` | invariant | types, counters never negative |
| `Inv` | invariant | the inductive invariant behind the first two |
| `BedsInOrder` | refinement | the untouched beds are cells of `BedRegister` |
| `NoDoubleBookingAtAll`, `RoomCountAccurate`, `DepositRefundedOnVacate` | claims | comments of the code that it does not achieve |

Fairness: `WF` of each request's next call. Node's event loop runs every
continuation whose call has answered, and the driver answers or rejects every
call (`Fail` is the rejection, and taints what it leaves half done).

Runs. `residency_requests`: three residents, two beds, two requests, so that a
race on one bed, an undisturbed booking on the other and a third resident for a
stale release all occur. `residency_direct`: one bed and two residents with the
endpoints that write or delete beds, rooms and residents directly, which would
make the state space too large otherwise; it also checks `BedsInOrder`, which says
of every step what `NoDoubleBooking` and `CollectionsAgree` say of every state. In
`BedRegister` a stay has its stages: promised (the check of a create), arriving (the
resident is saved), living, vacated, vacant. A bed is promised only while it is vacant and
marked AVAILABLE, each stage follows the one before, and maintenance may begin in
any of them. `residency_liveness` with deposits,
without symmetry, as liveness requires. `MaxOccupied` bounds the room counter:
no create starts at the bound. The three violation runs use one bed and a single
request slot, so the disagreement they show needs no concurrency at all.

### 2.2 PlanLimit

State: `count` of documents per kind, the limits stored with the tenant and with
its plan, the subscription's status and the create requests in flight. A create is
`Count`, `ReadTenant`, `ReadSubscription`, `ReadPlan` (only when ACTIVE), then
`Save`; `Refuse` is any of its other checks or a failure. Meanwhile limits and the
subscription may be rewritten by the super admin's handlers, of which only the
writes that matter here are modelled (`SetTenantLimits`, `SetPlanLimits`,
`SetSubscription`). Beds share the limit of rooms, as the code has it. Limits are
naturals or -1, which is what the admin interface documents.

Documents can exceed a limit (`plan_limit_race`, against the comment that says
otherwise). `OvershootBounded` says by how much: one less than the requests that
can be in flight at once. The history variable `highest` is the largest limit
stored so far; a bound by the limit in force would be wrong, since limits are
lowered below what exists and since a request may compare with one it read before.
Run: two kinds sharing a limit, two requests, limits of 1, 2 and none.
`MaxDocs` is larger than the limits, so no refusal is due to the bound alone.

### 2.3 DefaultPlan

State: `plan` (does the document exist, is it the default) and the requests in
flight. `Create`, `Update`, `SetDefault` and `Remove` begin a request; one that
makes a plan the default first unsets the others, a document at a time
(`UnsetOne`: `updateMany` is atomic per document only; documents inserted while
it scans are not visited), then `Insert`, `Write` or `Delete` is its last call.
Nothing looks whether the plan to be set exists before the others are unset, so
a request may name any plan whose id has been handed out (`Known`). `isActive`,
prices, limits and features are data here. `findDefaultPlan`, which signup
reads, takes any default there is and falls back to other plans when there is
none, so that both too many and none are silent.

The comment at `plans.service.ts:103` says "Set a plan as default (unset others)";
two requests at the same time may leave two defaults. What holds:
`DefaultsBounded`, never more defaults than requests in flight at once (hence
at most one when the super admin's requests come one by one), and
`DefaultSurvives`, requests that only move the default never leave none. The
history variables are `setBy`, the slot that made each plan the default, and
`lost`, set by a request that switches a default off, deletes it, or unsets the
others and then fails or finds no plan. The run has three plans, so that two
requests can leave a third with or without its flag; there is no other bound.

### 2.4 RentBilling

State: `payment` (per month: is there a document, where its due date lies to
the day at hand, what is paid, the status), the nightly run `cron` and the
requests in flight, for a resident with a bed that has a rent. `Generate` is the
run for that resident up to `generateRentPayment`; `Visit` and `SweepDone` are
the two `updateMany` of `updateOverdueStatus`, one document at a time; `CronFail`
drops the rest of a night. `Patch` and `Write` are `updatePaymentStatus`; `Bulk`
and `BulkRead` are `bulkMarkRentPaid`, which calls it for each payment and goes
on after a failure. The rent of a payment never changes, so that reading it
twice is reading it once. Due dates are relative (more than
a week ahead, within the week, today, past), so days need no bound; a run is assumed to end before the next day.

`generateRentPayment` makes an `ObjectId` of the text of `bedId`, which the
scheduler has populated: that throws, and no payment is ever generated
(`rent_billing_billed`). The life cycle of payments is therefore checked from a
collection in which some months are there already, as `generateRentPayment` would
save them (`Generated`), written by a release or an import in which it works.

| property | kind | about |
|---|---|---|
| `StatusTruthful` | invariant | the status tells the amount paid, whoever wrote last |
| `SweepThorough` | invariant | a run leaves nothing behind but what a request wrote meanwhile |
| `OverdueFound` | liveness | if not every night fails, what is past its date is OVERDUE again and again until PAID |
| `Inv` | invariant | the inductive invariant of the first two |
| `RentBilled` | claim | the month is billed some day |

**Settlement** is what reads these payments. `vacate` adds up what is owed in three
queries, one for each of DUE, OVERDUE and PARTIAL, while payments go from one status to
another. `written` are the payments that a step of the cron or of a request wrote
between two of them: what these add is anything from nothing to thrice their rent.
The lists of the dashboard are operators (`GetOverdue`, `GetPendingSummary`, ...).

| property | kind | about |
|---|---|---|
| `PendingCounted` | invariant | the settlement counts every payment once, unless it is written between the queries |
| `ListsAgree` | invariant | after a run the overdue list has all that is open and at its date, no list of what is to come shows it too, and what is pending is on a list or due in more than a week |

`rent_billing_billed` runs the two modules under `SettleSpec`, with the days and no requests.

Fairness: days pass and the scheduler's calls are answered (`WF`). Whether a
night fails is left open: `OverdueFound` assumes only that infinitely many do not.
Bounds: two months, a rent of 2 with payments of 0 to 2 (nothing, a part, all),
one request slot, which is enough to write between any two steps of the cron;
the proofs cover any number.

### 2.5 The office of a tenant

Each module is one collection with the requests that write it. A request in flight
is a record in a function over its slots (`task`, `job`, `porter`, `till`, `phone`,
`guest`, `client`): the call it makes next and what it has read. A last action
of each (`LoseTask`, `LosePorter`, ...) is a rejected call or a stopped process.
What a module adds for the verification only is named in its head comment.

**NamedRecords.** Five collections with one idiom, told apart by `Schema`: how many
documents one name may have, and whether an index enforces it. `StartCreate` is
the look and `InsertRecord` the save, `StartUpdate`, `CheckName` and `WriteRecord`
the three calls of an update. PATCH of a staff member looks for nobody, and a
PUT of a filter, whose body no DTO limits, may switch one on again under a name that
has been taken since (`Revives`): what these write is left out of the bound (`patched`). `FeatureSeed`, `SeedLook` and `SeedAdd` are
`seedDefaultFeatures`. Three documents and two names, so that a name can be taken
twice and a third document can move to it; `MaxPinned` 2 for the code's 5.

**Notifications.** `Handle...` are the listener's four handlers whose events some
code emits (`payment.due` and `payment.paid` never are), the four `Check...` actions
are the steps of `sendNotification`, then template, provider and log. `SmsOutcomes`
and `EmailOutcomes` are what a provider may do: a call that times out may have
delivered. One handler in flight: handlers share only what the administration
writes, which may change between any two of its calls. The comment at
`notifications.controller.ts:60` reads a missing configuration as "allowed if plan
has feature"; `sendNotification` takes it for off, and so does `allowed`.

**GatePasses.** `MarkReturn` calls `update`, which reads the pass for its expected
time and writes the status it judges. A pass whose expected time was written after
it was read (`moved`) may carry a status that belongs to the other time. A PATCH may
say `null`: for the expected time it takes it away (`PatchExpected`), for the time of
return it skips the judgement, leaves the status and takes the time away
(`PatchNoReturn`), so that nobody finds a pass that is out again (`cleared`). Two
instants are enough to be early, on time or late.

**Deposits.** One deposit. `createOrUpdate` reads it, and inserts or overwrites;
`processRefund` reads it, checks `received` and writes the refund; `markReceived`
and `update` are one call each. `taken` marks the receipts that a request takes
back or overwrites with what it read before. The body of `update` is an inline type,
which the validation does not strip: it may write status and refund as well (`EditDeposit`,
`edited`). Amounts 1 and 3 with deductions and
refunds of 0, 1 and 3: less, equal and more than the deposit.

**Figures.** Eight collections of single-document writers, and the reports over them as
sequences of queries (`Queries`), each taking its counts at one instant. An aggregate
that matches on the id of the tenant as text finds nothing (`NoFigures`): the roles of
the staff (`staff.service.ts:117`) are never counted, nor are the sums of
`payments.service.ts:220`; `PartsSum` has no such part. Two documents
and two writes during a report: a write before and after any query.

**Otp and ResidentLogin.** One phone number. `CountAttempt` and `SetExpiry` are the two
Redis calls of the rate limit, `FindOtp` and `SaveOtp` the two of a verification.
`RequestOtp`, `VerifyOtpAndLogin`, `LoginWithTenant` and `RefreshAccess` share their
steps as the code shares them: person, residents by person, residents by phone,
link, name, feature flag, token. Refresh does not ask for the resident's own
`portalEnabled` again, although the comment at `resident-auth.service.ts:457` says so;
`Required` states what it does ask. Two codes, a limit of 2, two residencies, one
login at a time among the office's changes.

**Sessions.** One account of each kind, one slot of Redis each. `ReadTenancy` is the
tenant middleware and the same read in login.

| property | module | about |
|---|---|---|
| `NamesBounded` | NamedRecords | too many of a name only by requests at the same time, and by no more than these; exact where there is an index |
| `SeedThorough` | NamedRecords | a seed that answers has left every feature there, unless it was deleted meanwhile |
| `SentWasAllowed` | Notifications | a message leaves only when each gate was open at some time since the sending began |
| `OneOutcome` | Notifications | one log row per sending, and a true one; none only if it could not be written |
| `PassJudged` | GatePasses | OVERDUE exactly when back too late; the list of those who are out is right |
| `ReceiptStands` | Deposits | a paid deposit counts as unpaid only when a request said so or wrote back what it had read before |
| `RefundBacked` | Deposits | nothing is refunded that was never paid |
| `MoneyAccounted` | Deposits | refund and what the dashboard shows as held make up the deposit |
| `PartsAddUp` | Figures | the parts of a report differ from its total by no more than the writes during it |
| `CodeUsesBounded` | Otp | a code is accepted no more often than there are requests at the same time |
| `LimitEnds` | Otp | the counter lets through no more than the limit, and expires unless a request stopped between its two calls |
| `GrantsBacked` | ResidentLogin | a token is given out only for a residency with the portal enabled since the request began |
| `SessionBacked` | Sessions | nobody is let in on a password, a tenant status or a token that was good only before |

All are invariants of the run `plan_limit_shared`. None of these modules can stop:
the run checks deadlock. No fairness is assumed: they promise no progress, as a
handler may always be lost, and nothing retries.

### 2.6 The platform

**Entitlements.** State: the features of every plan, the flags of every tenant, its
subscription. `AssignPlanToTenant`, `Admit`,
`UpdateTenant`, `CopyFeature`, `FeaturesCopied` and `Subscribe` are the calls of
`assignPlanToTenant`; `UpdatePlan`, `FindSubscribers`, `NextSubscriber` and
`CopyFeature` those of `update` with features; `RemovePlan` and `DeletePlan` those of
`remove`. `touched` are the tenants on which requests have met, failed half way or
written flags by hand: for the others `FlagsFollowPlan` holds without condition.
Two things the model shows on the way: `update` copies features to ACTIVE and
TRIAL subscriptions only (`plans.service.ts:144`), so those of a free plan, which are
PAID from the start, never follow it; and assigning a plan to a DUE or PAID tenant
passes the check at `:191`, rewrites its limits and flags, and fails at the save. Limits
are not in this module, nor in any property of it: an assignment copies three of the four
(`:205`, without buildings), a PATCH of a plan's limits reaches no tenant, and three
routes write a tenant's directly, so that there is nothing they follow. `PlanLimit` takes
them as any numbers that may change at any time. Whether a plan is free is read
with the plan by each assignment (`free`), since prices may be updated as well.

*Refinement.* `SubscriptionLife` is what a subscription promises by itself: it begins
once, keeps its plan, may fall due, may be paid. `Entitlements` implements it:
`SubscribedOnce` is `Life!Spec` under the mapping `life <- sub`, checked as a
property. That `Subscribe` never begins a second subscription rests on the
unique index alone (`MayInsert`).

**FeatureAccess.** `CanActivate` is the guard, which asks for one feature after the
other, `Search` the search, which asks for all at once; each asks for the flag and
then for the permission. A change between the two may let a request through that
was never allowed at one instant: `AccessBacked` says that this takes two changes.

**Accounts.** `tenancy`, `account` and the requests that write both: signup, the super
admin's create, register, users and their roles, and three ways to delete. The
stored password is the number of times it was hashed. `bare` are
the tenants of `POST /tenants`, which takes an owner's fields and creates none
(`tenants.service.ts:16`); `ownerless` those whose request failed half way or whose
owner was removed or demoted since, and `raced` those deleted while an account was
added or by `DELETE /tenants`, which looks for no users. A tenant is known by the slug it
was created with: a PATCH that changes the slug of another to it makes it unusable for
a create (`SetSlug`), and an account goes on under another email (`SetEmail`).

| property | module | about |
|---|---|---|
| `FlagsFollowPlan` | Entitlements | the flags are those of the plan once the requests about it are through |
| `PlanKept` | Entitlements | a plan somebody has is not deleted, unless while it is being assigned |
| `SubscribedOnce` | Entitlements | the refinement of `SubscriptionLife` |
| `AccessBacked` | FeatureAccess | flag and permission were both given since the request began, at once if only one changed |
| `MenuAgrees` | FeatureAccess | the menu shows what the guard lets through |
| `SignupComplete` | Accounts | a signup that succeeded has left a subscribed tenant and its owner, each its own |
| `UsersHaveTenants` | Accounts | no account is left behind by a deleted tenant but in the two races above |
| `TenantsOwned` | Accounts | a tenant of a signup or of the super admin has an owner when that request is done, unless it failed or the owner went since |
| `OwnerCanLogin` | Accounts | claim: the owner can log in with the password of the signup |

Bounds of `default_plan_all`: one tenant, two plans (one free) and one feature for
`Entitlements`, where two requests meet on every document there is; two features,
one slug and two emails for the others, of which one at most has an account elsewhere at
first; such an account keeps its role and password (`KeptElsewhere`), and no free plan is
tried (`NoFreeTrial`). The run does not check deadlock, because the
model of `Entitlements` may really stop: when every plan of the catalogue has been
deleted, and ids are not used again, nothing is left to do.

## 3. Findings

Violation runs, each quoting the line it disagrees with, are in `PROJECT.json`:
the double booking, the room counter that only grows, the deposit that
vacate never refunds because two ids are swapped, the plan limit exceeded by
concurrent creates, the rent that is never billed, and the owner whose password is
hashed twice at signup. Smaller ones are told where their module is described and
in section 6.

## 4. Proofs

Every invariant and action property of the passing runs is also a theorem, so holds
for any number of documents, requests, months or tenants. All are proved one way: a
state invariant that is inductive, one lemma per action that the action keeps it,
and the property from it. What the invariant adds to the property is mostly what a
request in flight may still rely on of what it read some calls ago; that is where
each proof has its content, and it is said below per component.

The constants' assumptions are named in the modules (`ResidencyAssumption`,
`RecAssumption`, ...): null values are not ids, amounts and bounds are naturals, and
where a theorem counts (`PlanLimit`, `DefaultPlan`, `Otp`, `NamedRecords`,
`Figures`) the sets counted are finite. TLC evaluates each in a run.

**Residency** (`ResidencyProofs`). `TypeCorrect`, `InvHolds`, and from the latter
`BedsSingle`, `StatusTruthful` and `SettlementsFinal`.
`NoDoubleBooking` is not inductive by itself: a request that has checked a bed and
not yet written it must still be entitled to write. `Inv` therefore says, per
untouched bed, that at most one request is under way for it and what that request
finds at each of its calls (`Expects`), that a request making the occupant leave
will free this very bed (`LeavesFrom`), and which fields a request has set
(`WellFormed`). An action changes what `BedOK(b)` reads for few beds; the rest
follow from frame lemmas.

`SettlementsFinal` is about all endpoints: `SettledInv` says of a settlement under way
that the resident it has read is not live, or was brought back by a PATCH, which
`revived` remembers.

`RegisterTheorem`: `Residency` implements `BedRegister`. The stage of an untouched bed is
read off the call that the request under way for it makes next (`StageOf`, `Moving`),
and off its occupants when there is none; a touched bed is untended for good. Since
`Inv` holds before and after a step, one request at most moves such a bed (`OnlyOne`),
and `Expects` gives what the register's step asks for: vacant at the check, nobody when
the resident is saved, exactly them when the bed is marked. Each write is then one step of
the register (`PromiseStep`, `TakeStep`, `MarkStep`, `LeaveStep`, `AvailableStep`,
`WithdrawStep` for those that give up), a PATCH to MAINTENANCE is `CloseStep` in
whichever stage it comes, and what touches beds, or moves none on, is `Neglect`.

**Plan limits** (`PlanLimitProofs`). `OvershootTheorem`, for any number of requests
and any limits. The invariant quantifies over every value `t` the limit could later
be raised to: documents plus the requests that have counted fewer than `t` do not
exceed `t` by more than the number of requests less one. Counting steps use the
library's theorems on the cardinality of finite sets.

**Default plan** (`DefaultPlanProofs`). `DefaultsTheorem` and `SurvivalTheorem`.
`Inv` says that the slots that made the current defaults are distinct (`Distinct`)
and that a request about to make its plan the default has still to unset, or has
unset, the one its slot made before (`Clears`); the defaults then inject into the
slots.

**Rent** (`RentBillingProofs`). `StatusTheorem` and `SweepTheorem`: `SweepThorough`
needs `Passed`, the same fact about the documents that the second `updateMany` has
already visited, and `StatusTruthful` needs that a request writes only payments it
has found. For a settlement, `PendingTheorem` and `ListsTheorem`: `Counted` says of
each payment nobody has written since the settlement began that it is in the sum,
with what is open of it, exactly when the query for its status is done already; and
`Inv` makes that amount a natural, since nothing with one of these statuses is
paid in full. That no payment a request wrote is UPCOMING (`PatchedSet`), with the
sweep's theorem, gives the lists: what is pending and not overdue is due later than
the week, or due within it and listed.

**Deposits** (`DepositsProofs`). `ReceiptTheorem`, `RefundTheorem` and `MoneyTheorem`
for any amounts. None is inductive: `TillOK` adds above all that an overwriting
request which says nothing of the receipt and is not `behind` has read the last one.

**Signing in** (`SignInProofs`). `CodeUsesTheorem`: the uses of a code and the requests
that have found it and not yet marked it (`Savers`) are together no more than the
slots, because a code that can still be found has no use yet. `LimitTheorem`: the
counter has admitted no more than it counted. `GrantsTheorem` and `SessionTheorem`:
a request's history of what held since it began contains what holds now (`Watches...`),
so each check adds its fact to what has been seen (`...Progress`), and what is
granted has passed all of them.

**Subscriptions** (`EntitlementsProofs`). `SubscriptionTheorem`: `Entitlements`
implements `SubscriptionLife`. `LifeInv` carries what the plan handlers know at their
writes: an assignment still has the plan and status it began with, a subscription
found late is ACTIVE or, by another sweep, DUE already, and one found by a payment
exists. With that each write is `Begin`, `FallDue`, `Pay` or a stutter.
`FlagsTheorem` and `PlanTheorem`, of the same specification, are from `EntInv`: of
an untouched tenant at most one request is at work; the flags it has not yet
written are those still to be switched on or off, and the others are the plan's
(`CopyOK`); and a running subscription is settled, or a request will find it, or is
at work on it (`Settled`). An assignment writes flags and status in that
order, so the second is only reached with the first done. The lemma `OneCall` does
it for one request's step, and each action is a case of it. `EntInv` was checked by TLC on
small instances before it was proved.

**Access and accounts** (`EntitlementsProofs`). `AccessTheorem` and `MenuTheorem`: while
at most one record has changed, a feature whose flag was read still has it or has
its permission as it was (`AskOK`); with two changes `AccessBacked` promises each of the two alone.
`SignupTheorem`, `UsersTheorem` and `OwnersTheorem`: a signup at work is the only one
with its slug, its tenant is there, and no later request can remove the owner that
answers for it without leaving its mark in `raced` or `ownerless`, while a tenant
of `POST /tenants` is in `bare` from the start (`DeskOK`, `TenantOK`).

**The office** (`OfficeProofs`). `PassTheorem`: a request about to write a pass that
nobody moved has read the expected time it still has. `GatesTheorem` and
`OutcomeTheorem`: a sending has seen the gates it passed (`Passed`), and only the last
two calls deliver and log. `NamesTheorem`: what is bounded is not the documents of a
name but these together with those of requests that have looked and not yet saved
(`Group`); a request joins only when it saw fewer than the cap, and then the others
are at most the other requests. `SeedTheorem`: what a seed has passed is there or was
deleted meanwhile. `FiguresTheorem`: a figure not yet taken counts for what it would
be now (`Count`). Taking it then changes nothing, and a write moves the sum of the
parts against the total by one at most, whichever of the queries are done.

Only model-checked: `BedFreedEventually` and `OverdueFound`, liveness under fairness,
which TLAPS cannot prove; and the claims of section 3, which are violated. The runs
and the proofs are about the same definitions: no configuration replaces one.

## 5. Plan

In this order, the most important first:

1. The phone number of a resident, which is looked up before it is saved.
2. Extra payments and buildings.

## 6. Not modelled

- Notices. Every query and every write of a status uses `active` and `inactive`
  (`notices/notices.service.ts:31`), which the enum of `notices/schemas/notice.schema.ts:20`
  refuses: `create` always fails, and neither a reader nor the hourly publication
  and expiry has a notice to work on.
- The resident portal writes nothing. Its summary selects payments by
  `OPEN` and `ACTIVE` (`resident-portal/resident-portal.service.ts:55`).
- Buildings and extra payments: documents that one request writes at a time
  and that nothing else depends on.
- Export, trends and full-text search: layout of what other modules describe.
- Audit and activity logs: they are written and never read by the program.
- Plumbing (routing, validation, modules), seeds, and the libraries that sign
  tokens, hash passwords and send messages.
