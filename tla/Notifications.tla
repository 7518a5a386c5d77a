--------------------------- MODULE Notifications ---------------------------
(***************************************************************************)
(* Notifications to residents: the listener's handlers, the decision flow  *)
(* of NotificationsService.sendNotification, and the administration of     *)
(* what it looks at, for one tenant.                                       *)
(*                                                                         *)
(* A handler sends an e-mail and then an SMS, to the addresses that the    *)
(* event carries.  Each sending passes four gates, one query each, while   *)
(* the super admin and the owner may change any of them; it ends with one  *)
(* row in the log.  A handler in flight is a record: the channel it serves *)
(* and the call it makes next.                                             *)
(*                                                                         *)
(* The fields seen, delivered and rows of a job belong to the              *)
(* verification: the gates that have been open at some time since the      *)
(* sending began, whether its message left, and the log rows written.      *)
(***************************************************************************)
EXTENDS Naturals, FiniteSets

CONSTANTS
    Jobs,    \* slots for handlers in flight
    Events,  \* the events there are
    Watched  \* bound: the events whose settings and templates change

ASSUME NoteAssumption == Events # {} /\ Watched \subseteq Events

VARIABLES
    subscribed,  \* a subscription of the tenant is ACTIVE or TRIAL
    flag,        \* isFeatureEnabled of the channel's feature
    allowed,     \* the super admin's configuration; none counts as FALSE
    wanted,      \* the owner's settings; none counts as FALSE
    template,    \* an active SMS template of the event
    job          \* the handlers in flight

gates == <<subscribed, flag, allowed, wanted, template>>
noteVars == <<gates, job>>
-----------------------------------------------------------------------------
Channels == {"email", "sms"}
Rows     == {"SENT", "FAILED", "SKIPPED"}
Gates    == {"subscription", "feature", "config", "setting"}

NoJob == [pc |-> "idle", event |-> CHOOSE e \in Events : TRUE,
          channel |-> "email", rest |-> {}, row |-> "SKIPPED", seen |-> {},
          delivered |-> FALSE, rows |-> {},
          logLost |-> FALSE]

NoteTypeOK ==
    /\ subscribed \in BOOLEAN
    /\ flag \in [Channels -> BOOLEAN]
    /\ allowed \in [Channels -> BOOLEAN]
    /\ wanted \in [Events -> [Channels -> BOOLEAN]]
    /\ template \in [Events -> BOOLEAN]
    /\ job \in [Jobs -> [pc : Gates \cup {"idle", "template", "send", "log",
                                          "next"},
                         event : Events, channel : Channels,
                         rest : SUBSET Channels, row : Rows,
                         seen : SUBSET Gates, delivered : BOOLEAN,
                         rows : SUBSET Rows,
                         logLost : BOOLEAN]]

NoteInit ==
    /\ subscribed \in BOOLEAN
    /\ flag \in [Channels -> BOOLEAN]
    /\ allowed = [ch \in Channels |-> FALSE]
    /\ wanted = [e \in Events |-> [ch \in Channels |-> FALSE]]
    /\ template = [e \in Events |-> FALSE]
    /\ job = [j \in Jobs |-> NoJob]

\* The gates that stand open for a channel and an event.
OpenGates(e, ch) ==
    {g \in Gates : CASE g = "subscription" -> subscribed
                     [] g = "feature"      -> flag[ch]
                     [] g = "config"       -> allowed[ch]
                     [] g = "setting"      -> wanted[e][ch]}
-----------------------------------------------------------------------------
\* An event reaches its handler with an e-mail address, a phone number, or
\* both; without any, the handler does nothing.
Handle(j, e, to) ==
    /\ job[j].pc = "idle"
    /\ to # {}
    /\ e \in Events
    /\ LET first == IF "email" \in to THEN "email" ELSE "sms" IN
       job' = [job EXCEPT ![j] =
                 [NoJob EXCEPT !.pc = "subscription", !.event = e,
                               !.channel = first, !.rest = to \ {first},
                               !.seen = OpenGates(e, first)]]
    /\ UNCHANGED gates

HandleResidentCreated(j, to)      == Handle(j, "resident.created", to)
HandleResidentAssignedRoom(j, to) == Handle(j, "resident.assigned_room", to)
HandleDepositReceived(j, to)      == Handle(j, "security_deposit.received", to)
HandleResidentVacated(j, to)      == Handle(j, "resident.vacated", to)

\* Where a sending goes after each gate.
After(g, ch) == CASE g = "subscription" -> "feature"
                  [] g = "feature"      -> "config"
                  [] g = "config"       -> "setting"
                  [] g = "setting"      -> IF ch = "sms" THEN "template"
                                                         ELSE "send"

\* A closed gate is logged and ends the sending; the first form forgets to
\* return.
CloseForgotten(j) == job' = [job EXCEPT ![j].pc = After(@, job[j].channel)]
Close(j) == job' = [job EXCEPT ![j].pc = "log", ![j].row = "SKIPPED"]

Pass(j, g, open) ==
    /\ job[j].pc = g
    /\ IF open THEN job' = [job EXCEPT ![j].pc = After(g, job[j].channel)]
               ELSE Close(j)
    /\ UNCHANGED gates

\* The four steps of sendNotification.
CheckSubscription(j) == Pass(j, "subscription", subscribed)
CheckFeature(j)      == Pass(j, "feature", flag[job[j].channel])
CheckChannel(j)      == Pass(j, "config", allowed[job[j].channel])
CheckSetting(j)      == Pass(j, "setting", wanted[job[j].event][job[j].channel])

\* Only an SMS looks for a template; without one the plain message is sent.
FindTemplate(j) ==
    /\ job[j].pc = "template"
    /\ job' = [job EXCEPT ![j].pc = "send"]
    /\ UNCHANGED gates

\* What a provider does: whether the message leaves, and what it reports.
\* Nothing leaves without a configuration; a call that times out may have
\* delivered; the exception is caught inside the provider.
EmailOutcomes == {<<TRUE, "SENT">>, <<FALSE, "FAILED">>, <<TRUE, "FAILED">>}
SmsOutcomes   == {<<TRUE, "SENT">>, <<FALSE, "FAILED">>, <<TRUE, "FAILED">>}

SendMessage(j) ==
    /\ job[j].pc = "send"
    /\ \E o \in IF job[j].channel = "email" THEN EmailOutcomes
                                            ELSE SmsOutcomes :
          job' = [job EXCEPT ![j].pc  = "log",
                             ![j].row = o[2],
                             ![j].delivered = o[1]]
    /\ UNCHANGED gates

\* A query of the flow is rejected: the catch logs FAILED.
QueryRejected(j) ==
    /\ job[j].pc \in Gates \cup {"template"}
    /\ job' = [job EXCEPT ![j].pc = "log", ![j].row = "FAILED"]
    /\ UNCHANGED gates

\* The write is rejected, before or after it took effect: logNotification
\* swallows the exception.  The first form lets the catch log it again.
Written(j) == job[j].rows \cup {job[j].row}
LogAgain(j) == \E rows \in {job[j].rows, Written(j)} :
    job' = [job EXCEPT ![j].row = "FAILED", ![j].rows = rows]
LogRejected(j) == \E rows \in {job[j].rows, Written(j)} :
    job' = [job EXCEPT ![j].pc = "next", ![j].rows = rows, ![j].logLost = TRUE]

LogNotification(j) ==
    /\ job[j].pc = "log"
    /\ \/ job' = [job EXCEPT ![j].pc = "next", ![j].rows = Written(j)]
       \/ LogRejected(j)
    /\ UNCHANGED gates

\* The handler goes on to the SMS, or ends.
NextChannel(j) ==
    /\ job[j].pc = "next"
    /\ IF job[j].rest = {}
       THEN job' = [job EXCEPT ![j] = NoJob]
       ELSE job' = [job EXCEPT ![j] =
                      [NoJob EXCEPT !.pc = "subscription",
                                    !.event = job[j].event, !.channel = "sms",
                                    !.seen = OpenGates(job[j].event, "sms")]]
    /\ UNCHANGED gates

\* The process stops: events live in memory and are not delivered again.
StopHandling ==
    /\ \E j \in Jobs : job[j].pc # "idle"
    /\ job' = [j \in Jobs |-> NoJob]
    /\ UNCHANGED gates
-----------------------------------------------------------------------------
\* After a change, what has been open is noted in the jobs in flight.
Noted(open(_, _)) ==
    [j \in Jobs |-> IF job[j].pc = "idle" THEN job[j]
                    ELSE [job[j] EXCEPT !.seen =
                             @ \cup open(job[j].event, job[j].channel)]]

\* The plan is assigned, changed, or runs out.
ChangeSubscription ==
    /\ subscribed' = ~subscribed
    /\ job' = Noted(LAMBDA e, ch : IF subscribed THEN {} ELSE {"subscription"})
    /\ UNCHANGED <<flag, allowed, wanted, template>>

ChangeFeature(c) ==
    /\ flag' = [flag EXCEPT ![c] = ~@]
    /\ job' = Noted(LAMBDA e, ch : IF ch = c /\ ~flag[c] THEN {"feature"}
                                                         ELSE {})
    /\ UNCHANGED <<subscribed, allowed, wanted, template>>

\* PATCH /admin/tenants/:id/notifications/config writes both channels.
UpdateTenantConfig(f) ==
    /\ f # allowed
    /\ allowed' = f
    /\ job' = Noted(LAMBDA e, ch : IF f[ch] THEN {"config"} ELSE {})
    /\ UNCHANGED <<subscribed, flag, wanted, template>>

\* One entry of PATCH /notifications/settings; the request writes its entries
\* one by one.
UpdateTenantSettings(e0, c) ==
    /\ wanted' = [wanted EXCEPT ![e0][c] = ~@]
    /\ job' = Noted(LAMBDA e, ch : IF e = e0 /\ ch = c /\ ~wanted[e0][c]
                                   THEN {"setting"} ELSE {})
    /\ UNCHANGED <<subscribed, flag, allowed, template>>

\* The SMS templates: one is made, or switched on or off, or deleted.
CreateSmsTemplate(e) ==
    /\ template' = [template EXCEPT ![e] = TRUE]
    /\ UNCHANGED <<subscribed, flag, allowed, wanted, job>>
UpdateSmsTemplate(e, active) ==
    /\ template' = [template EXCEPT ![e] = active]
    /\ UNCHANGED <<subscribed, flag, allowed, wanted, job>>
DeleteSmsTemplate(e) ==
    /\ template' = [template EXCEPT ![e] = FALSE]
    /\ UNCHANGED <<subscribed, flag, allowed, wanted, job>>

NoteNext ==
    \/ \E j \in Jobs, to \in SUBSET Channels :
          \/ HandleResidentCreated(j, to) \/ HandleResidentAssignedRoom(j, to)
          \/ HandleDepositReceived(j, to) \/ HandleResidentVacated(j, to)
    \/ \E j \in Jobs :
          \/ CheckSubscription(j) \/ CheckFeature(j) \/ CheckChannel(j)
          \/ CheckSetting(j) \/ FindTemplate(j) \/ SendMessage(j)
          \/ QueryRejected(j) \/ LogNotification(j) \/ NextChannel(j)
    \/ StopHandling
    \/ ChangeSubscription
    \/ \E c \in Channels : ChangeFeature(c)
    \/ \E f \in [Channels -> BOOLEAN] : UpdateTenantConfig(f)
    \/ \E e \in Watched :
          \/ \E c \in Channels : UpdateTenantSettings(e, c)
          \/ CreateSmsTemplate(e) \/ DeleteSmsTemplate(e)
          \/ \E active \in BOOLEAN : UpdateSmsTemplate(e, active)

NoteSpec == NoteInit /\ [][NoteNext]_noteVars
-----------------------------------------------------------------------------
(* Properties *)

\* A message only leaves when every gate has been open at some time since its
\* sending began, whatever is switched while it runs: what the four steps
\* guarantee although nothing is read twice or together.
SentWasAllowed ==
    \A j \in Jobs :
        job[j].delivered => job[j].seen = Gates

\* Every sending ends in one row: none contradicts another, only a message
\* that left is SENT and none that left is SKIPPED, and the row is missing
\* only if it could not be written.
OneOutcome ==
    \A j \in Jobs :
        /\ Cardinality(job[j].rows) <= 1
        /\ "SENT" \in job[j].rows => job[j].delivered
        /\ "SKIPPED" \in job[j].rows => ~job[j].delivered
        /\ job[j].pc = "next" => job[j].rows # {} \/ job[j].logLost
=============================================================================
