---------------------------- MODULE NamedRecords ----------------------------
(***************************************************************************)
(* Records that must be few: tags, saved filters, staff members and        *)
(* features have a name (a phone number, a key) that no other may have,    *)
(* and a user may pin at most five personal notes.                         *)
(*                                                                         *)
(* Every service looks for the others of the group, the documents with     *)
(* that name or the pinned notes, and saves one or more awaits later.      *)
(* Tags and features also have a unique index; the others rely on the      *)
(* look.  The five collections do not meet, so a behaviour is about one.   *)
(*                                                                         *)
(* The variable patched and the field gone of a task belong to the         *)
(* verification: the staff members renumbered by PATCH with the filters    *)
(* switched on again by PUT, and the names that were deleted while the     *)
(* task ran.                                                               *)
(***************************************************************************)
EXTENDS Naturals, FiniteSets

CONSTANTS
    Docs,       \* ids of documents
    Names,      \* names, phone numbers or keys
    NoName,     \* the group of the notes that are not pinned
    Clerks,     \* slots for requests in flight
    MaxPinned   \* MAX_PINNED_NOTES

ASSUME RecAssumption ==
    /\ IsFiniteSet(Docs) /\ Docs # {}
    /\ IsFiniteSet(Clerks) /\ Clerks # {}
    /\ Names # {} /\ NoName \notin Names
    /\ MaxPinned \in Nat

VARIABLES
    kind,     \* the collection the behaviour is about
    rec,      \* its documents
    task,     \* the requests in flight
    patched   \* history: documents whose name was written without a look

recVars == <<kind, rec, task, patched>>
-----------------------------------------------------------------------------
\* What the collections promise: how many may share a group, and whether an
\* index says so too.
TagSchema     == [cap |-> 1, unique |-> TRUE]
NoteSchema    == [cap |-> MaxPinned, unique |-> FALSE]
FilterSchema  == [cap |-> 1, unique |-> FALSE]
StaffSchema   == [cap |-> 1, unique |-> FALSE]
FeatureSchema == [cap |-> 1, unique |-> TRUE]

Schema == [tag |-> TagSchema, note |-> NoteSchema, filter |-> FilterSchema,
           staff |-> StaffSchema, feature |-> FeatureSchema]

\* An update in flight has a new name or renames nothing, and switches its
\* document to a state or leaves it the same.
NoTask == [pc |-> "idle", doc |-> CHOOSE d \in Docs : TRUE, name |-> NoName,
           renames |-> FALSE, to |-> "same", todo |-> {}, gone |-> {}]

RecTypeOK ==
    /\ kind \in DOMAIN Schema
    /\ rec \in [Docs -> [state : {"none", "live", "off"},
                         name : Names \cup {NoName}]]
    /\ task \in [Clerks ->
          [pc : {"idle", "insert", "check", "write", "remove", "seed",
                 "add", "seeded"},
           doc : Docs, name : Names \cup {NoName}, renames : BOOLEAN,
           to : {"same", "live", "off"}, todo : SUBSET Names, gone : SUBSET Names]]
    /\ patched \subseteq Docs

RecInit ==
    /\ kind \in DOMAIN Schema
    /\ rec = [d \in Docs |-> [state |-> "none", name |-> NoName]]
    /\ task = [c \in Clerks |-> NoTask]
    /\ patched = {}

\* What a look finds: the documents of a group.  A deleted filter is switched
\* off and does not count.
Members(n) == {d \in Docs : rec[d].state = "live" /\ rec[d].name = n}

\* The look before document d enters group n; the first form counts d itself
\* and admits one too many.
RoomForOneMore(n, d) == Cardinality(Members(n)) <= Schema[kind].cap
RoomFor(n, d) ==
    n = NoName \/ Cardinality(Members(n) \ {d}) < Schema[kind].cap

\* save() is refused by the unique index.
Duplicate(n, d) == Schema[kind].unique /\ Members(n) \ {d} # {}

EndTask(c) == task' = [task EXCEPT ![c] = NoTask]

\* The id of a document to be inserted is new.
NewId(d) == /\ rec[d].state = "none"
            /\ \A c \in Clerks : task[c].pc = "insert" => task[c].doc # d

\* The look of a create, and on to save().
StartCreate(c, d, n) ==
    /\ task[c].pc = "idle"
    /\ NewId(d)
    /\ RoomFor(n, d)
    /\ task' = [task EXCEPT ![c] = [NoTask EXCEPT !.pc = "insert", !.doc = d,
                                                  !.name = n]]
    /\ UNCHANGED <<kind, rec, patched>>

\* findOne(id) of an update that gives name n, and may switch the document off
\* or on; only a new name is looked for, and no more than what differs is kept.
\* An update that changes nothing is left out.
StartUpdate(c, d, n, to) ==
    /\ task[c].pc = "idle"
    /\ rec[d].state # "none"
    /\ LET new == n # rec[d].name
           turn == IF to = rec[d].state THEN "same" ELSE to
       IN /\ new \/ turn # "same"
          /\ task' = [task EXCEPT ![c] =
                [NoTask EXCEPT !.pc = IF new /\ n # NoName THEN "check" ELSE "write",
                               !.doc = d, !.renames = new, !.to = turn,
                               !.name = IF new THEN n ELSE NoName]]
    /\ UNCHANGED <<kind, rec, patched>>

\* findOne(id) of a remove that deletes with a second call.
StartRemove(c, d) ==
    /\ task[c].pc = "idle"
    /\ rec[d].state # "none"
    /\ task' = [task EXCEPT ![c] = [NoTask EXCEPT !.pc = "remove", !.doc = d]]
    /\ UNCHANGED <<kind, rec, patched>>

\* Document d is deleted: what tasks in flight lose is noted.
Gone(t, d) == [t EXCEPT !.gone = @ \cup {rec[d].name}]

DeleteNow(d) ==
    /\ rec[d].state = "live"
    /\ rec' = [rec EXCEPT ![d] = [state |-> "none", name |-> NoName]]
    /\ task' = [c \in Clerks |-> IF task[c].pc \in {"seed", "add", "seeded"}
                                 THEN Gone(task[c], d) ELSE task[c]]
    /\ patched' = patched \ {d}
    /\ UNCHANGED kind
-----------------------------------------------------------------------------
\* The endpoints.
TagCreate(c, d, n) == kind = "tag" /\ n # NoName /\ StartCreate(c, d, n)
TagUpdate(c, d, n) == kind = "tag" /\ n # NoName /\ StartUpdate(c, d, n, "same")
TagRemove(c, d)    == kind = "tag" /\ StartRemove(c, d)

\* A note is pinned, in the one group there is, or not.
PinGroup == {NoName, CHOOSE n \in Names : TRUE}
NoteCreate(c, d, n) == kind = "note" /\ n \in PinGroup /\ StartCreate(c, d, n)
NoteUpdate(c, d, n) ==
    kind = "note" /\ n \in PinGroup /\ StartUpdate(c, d, n, "same")
NoteRemove(c, d)    == kind = "note" /\ StartRemove(c, d)

FilterCreate(c, d, n) == kind = "filter" /\ n # NoName /\ StartCreate(c, d, n)
\* The body of PUT is assigned whole, so isActive may be in it.
FilterUpdate(c, d, n, to) ==
    kind = "filter" /\ n # NoName /\ StartUpdate(c, d, n, to)
\* A remove switches off what it has read, and saves it.
FilterRemove(c, d)    == kind = "filter" /\ StartUpdate(c, d, rec[d].name, "off")

StaffCreate(c, d, n) == kind = "staff" /\ n # NoName /\ StartCreate(c, d, n)
StaffRemove(d)       == kind = "staff" /\ DeleteNow(d)
\* PATCH /staff/:id is one findOneAndUpdate, and looks for nobody.
StaffUpdate(d, n) ==
    /\ kind = "staff"
    /\ n # NoName
    /\ rec[d].state = "live"
    /\ rec' = [rec EXCEPT ![d].name = n]
    /\ patched' = patched \cup {d}
    /\ UNCHANGED <<kind, task>>

FeatureCreate(c, d, n) == kind = "feature" /\ n # NoName /\ StartCreate(c, d, n)
FeatureRemove(d)       == kind = "feature" /\ DeleteNow(d)

\* POST /admin/features/seed goes through the default features one by one.
FeatureSeed(c) ==
    /\ kind = "feature"
    /\ task[c].pc = "idle"
    /\ task' = [task EXCEPT ![c] = [NoTask EXCEPT !.pc = "seed",
                                                  !.todo = Names]]
    /\ UNCHANGED <<kind, rec, patched>>

\* findOne({ key }): an existing feature is only refreshed.  The first form
\* takes every key as there.
SeedAnyKey(c, n) ==
    task' = [task EXCEPT ![c].todo = @ \ {n}]
SeedKey(c, n) ==
    task' = [task EXCEPT ![c].pc   = IF Members(n) = {} THEN "add" ELSE "seed",
                         ![c].name = n,
                         ![c].todo = @ \ {n}]

SeedLook(c) ==
    /\ task[c].pc = "seed"
    /\ \E n \in task[c].todo : SeedKey(c, n)
    /\ UNCHANGED <<kind, rec, patched>>

\* featureModel.create; the index refuses a key that has come up since, and
\* the exception ends the loop.
SeedAdd(c, d) ==
    /\ task[c].pc = "add"
    /\ NewId(d)
    /\ IF Duplicate(task[c].name, d)
       THEN EndTask(c) /\ UNCHANGED rec
       ELSE /\ rec' = [rec EXCEPT ![d] = [state |-> "live",
                                          name |-> task[c].name]]
            /\ task' = [task EXCEPT ![c].pc = "seed"]
    /\ UNCHANGED <<kind, patched>>

\* The loop is through: the answer is "Default features seeded successfully".
SeedAnswer(c) ==
    /\ \/ /\ task[c].pc = "seed"
          /\ task[c].todo = {}
          /\ task' = [task EXCEPT ![c].pc = "seeded"]
       \/ task[c].pc = "seeded" /\ EndTask(c)
    /\ UNCHANGED <<kind, rec, patched>>
-----------------------------------------------------------------------------
\* save() of a new document.
InsertRecord(c) ==
    /\ task[c].pc = "insert"
    /\ IF Duplicate(task[c].name, task[c].doc)
       THEN UNCHANGED rec
       ELSE rec' = [rec EXCEPT ![task[c].doc] = [state |-> "live",
                                                 name |-> task[c].name]]
    /\ EndTask(c)
    /\ UNCHANGED <<kind, patched>>

\* The look of an update for another document with the new name.
CheckName(c) ==
    /\ task[c].pc = "check"
    /\ IF RoomFor(task[c].name, task[c].doc)
       THEN task' = [task EXCEPT ![c].pc = "write"] ELSE EndTask(c)
    /\ UNCHANGED <<kind, rec, patched>>

\* A filter comes back under a name nobody looked for.
Revives(t) == t.to = "live" /\ ~t.renames /\ rec[t.doc].state = "off"

\* save() of a document read before: it writes the fields that differ from
\* what was read, and fails when the document is gone.
WriteRecord(c) ==
    /\ task[c].pc = "write"
    /\ LET t == task[c]  r == rec[t.doc] IN
       IF r.state = "none" \/ Duplicate(t.name, t.doc)
       THEN UNCHANGED <<rec, patched>>
       ELSE /\ rec' = [rec EXCEPT ![t.doc] =
                 [state |-> IF t.to = "same" THEN r.state ELSE t.to,
                  name  |-> IF t.renames THEN t.name ELSE r.name]]
            /\ patched' = IF Revives(t) THEN patched \cup {t.doc}
                          ELSE IF t.renames \/ t.to = "off"
                          THEN patched \ {t.doc} ELSE patched
    /\ EndTask(c)
    /\ UNCHANGED kind

\* deleteOne.
RemoveRecord(c) ==
    /\ task[c].pc = "remove"
    /\ rec' = [rec EXCEPT ![task[c].doc] = [state |-> "none", name |-> NoName]]
    /\ EndTask(c)
    /\ UNCHANGED <<kind, patched>>

\* A database call is rejected, or the process stops.
LoseTask(c) ==
    /\ task[c].pc # "idle"
    /\ EndTask(c)
    /\ UNCHANGED <<kind, rec, patched>>

RecNext ==
    \/ \E c \in Clerks, d \in Docs, n \in Names \cup {NoName} :
          \/ TagCreate(c, d, n)    \/ TagUpdate(c, d, n)
          \/ NoteCreate(c, d, n)   \/ NoteUpdate(c, d, n)
          \/ FilterCreate(c, d, n)
          \/ \E to \in {"same", "live", "off"} : FilterUpdate(c, d, n, to)
          \/ StaffCreate(c, d, n)  \/ FeatureCreate(c, d, n)
    \/ \E c \in Clerks, d \in Docs :
          \/ TagRemove(c, d) \/ NoteRemove(c, d) \/ FilterRemove(c, d)
          \/ SeedAdd(c, d)
    \/ \E d \in Docs :
          \/ StaffRemove(d) \/ FeatureRemove(d)
          \/ \E n \in Names : StaffUpdate(d, n)
    \/ \E c \in Clerks :
          \/ FeatureSeed(c) \/ SeedLook(c) \/ SeedAnswer(c)
          \/ InsertRecord(c) \/ CheckName(c) \/ WriteRecord(c)
          \/ RemoveRecord(c) \/ LoseTask(c)

RecSpec == RecInit /\ [][RecNext]_recVars
-----------------------------------------------------------------------------
(* Properties *)

\* Concurrent requests may put too many documents under one name or pin too
\* many notes, but never more than there are requests at the same time, less
\* one; with one request at a time the rule is exact, and with an index it
\* always is.  Only PATCH /staff/:id gives a phone number away unseen, and a
\* PUT that switches a filter on again under its old name.
NamesBounded ==
    \A n \in Names :
        Cardinality(Members(n) \ patched)
            <= Schema[kind].cap + (IF Schema[kind].unique THEN 0
                                   ELSE Cardinality(Clerks) - 1)

\* A seed that answers has left every default feature in the catalogue, also
\* when another seed or create runs beside it, unless it was deleted meanwhile.
SeedThorough ==
    \A c \in Clerks : task[c].pc \in {"seed", "seeded"} =>
        \A n \in Names \ (task[c].todo \cup task[c].gone) : Members(n) # {}
=============================================================================
