---------------------------- MODULE OfficeProofs ----------------------------
(***************************************************************************)
(* Proofs about the components of the office that keep small documents, or *)
(* count them: GatePasses (PassTheorem), Notifications (GatesTheorem,      *)
(* OutcomeTheorem), NamedRecords (NamesTheorem, SeedTheorem) and Figures   *)
(* (FiguresTheorem).                                                       *)
(***************************************************************************)
EXTENDS Figures, NamedRecords, Notifications, GatePasses, FiniteSetTheorems, TLAPS
-----------------------------------------------------------------------------
(* GatePasses: which judgements are still about the expected time they read. *)

PassStates ==
    [status : {"none", "OUT", "RETURNED", "OVERDUE"}, expected : Maybe,
     actual : Maybe, moved : BOOLEAN, cleared : BOOLEAN]

PorterStates ==
    [pc : {"idle", "mark", "read", "write"}, pass : Slips,
     actual : Maybe, expected : Body, seen : Maybe, moved : BOOLEAN]

\* A pass that was judged by the time it has, or moved or cleared since.
PassOK(d) ==
    /\ d.actual = NoTime <=> d.status \in {"none", "OUT"} \/ d.cleared
    /\ d.cleared => d.status \in {"RETURNED", "OVERDUE"}
    /\ d.actual # NoTime /\ ~d.moved => d.status = Judged(d.expected, d.actual)

\* A request about to write has a time of return, and has read the expected
\* time the pass still has, unless it was told otherwise.
PorterOK(t, docs) ==
    /\ t.pc \in {"read", "write"} => t.actual \in Times
    /\ t.pc \in {"mark", "read"} => ~t.moved
    /\ t.pc = "write" /\ ~t.moved => t.seen = docs[t.pass].expected

PassInv ==
    /\ PassTypeOK
    /\ \A p \in Slips : PassOK(pass[p])
    /\ \A c \in Porters : PorterOK(porter[c], pass)
-----------------------------------------------------------------------------
LEMMA TimesAre ==
    /\ 0 \in Times /\ NoTime \in Maybe /\ NoTime \notin Times
    /\ Times \subseteq Maybe /\ Times \subseteq Nat
    /\ Maybe \subseteq Body /\ Kept \in Body /\ \A e \in Body : e = Kept \/ e \in Maybe
BY PassAssumption DEF Times, Maybe, Body

LEMMA PassParts ==
    ASSUME PassInv
    PROVE  /\ pass \in [Slips -> PassStates] /\ porter \in [Porters -> PorterStates]
           /\ clock \in Times
           /\ \A p \in Slips : pass[p] \in PassStates /\ PassOK(pass[p])
           /\ \A c \in Porters : /\ porter[c] \in PorterStates
                                 /\ PorterOK(porter[c], pass)
BY DEF PassInv, PassTypeOK, PassStates, PorterStates

LEMMA NoPorterOK ==
    ASSUME NEW docs
    PROVE  NoPorter \in PorterStates /\ PorterOK(NoPorter, docs)
<1>1. (CHOOSE p \in Slips : TRUE) \in Slips
  BY PassAssumption
<1>. QED  BY <1>1, TimesAre DEF NoPorter, PorterStates, PorterOK

LEMMA NoPassOK == NoPass \in PassStates /\ PassOK(NoPass)
BY TimesAre DEF NoPass, PassStates, PassOK

LEMMA JudgedType ==
    ASSUME NEW e, NEW a
    PROVE  Judged(e, a) \in {"RETURNED", "OVERDUE"}
BY DEF Judged

\* One request changes, and no pass.
LEMMA OnePorter ==
    ASSUME PassInv, NEW c \in Porters, NEW u \in PorterStates, PorterOK(u, pass),
           porter' = [porter EXCEPT ![c] = u], UNCHANGED <<pass, clock>>
    PROVE  PassInv'
<1>1. porter' \in [Porters -> PorterStates] /\ pass' = pass /\ clock' = clock
  BY PassParts
<1>2. \A d \in Porters : PorterOK(porter'[d], pass')
  BY <1>1, PassParts
<1>. QED  BY <1>1, <1>2, PassParts DEF PassInv, PassTypeOK, PassStates, PorterStates

\* One pass gets another document; the requests are told if its expected time
\* is written.
LEMMA OnePass ==
    ASSUME PassInv, NEW p \in Slips, NEW d \in PassStates, PassOK(d),
           pass' = [pass EXCEPT ![p] = d], clock' = clock,
           \/ porter' = porter
              /\ \/ d.expected = pass[p].expected
                 \/ \A c \in Porters : porter[c].pc = "idle" \/ porter[c].pass # p
           \/ porter' = Moved(p)
    PROVE  PassInv'
<1>1. pass' \in [Slips -> PassStates] /\ \A q \in Slips : PassOK(pass'[q])
  BY PassParts
<1>2. ASSUME NEW c \in Porters
      PROVE  porter'[c] \in PorterStates /\ PorterOK(porter'[c], pass')
  <2>1. porter[c] \in PorterStates /\ PorterOK(porter[c], pass)
    BY PassParts
  <2>2. CASE porter'[c] = porter[c] /\ ~(porter[c].pc = "write" /\ porter[c].pass = p
                                         /\ d.expected # pass[p].expected)
    <3>1. porter[c].pc = "write" =>
             pass'[porter[c].pass].expected = pass[porter[c].pass].expected
      BY <2>1, <2>2, PassParts DEF PorterStates
    <3>. QED  BY <2>1, <2>2, <3>1 DEF PorterOK
  <2>3. CASE porter'[c] = [porter[c] EXCEPT !.moved = TRUE] /\ porter[c].pc = "write"
    BY <2>1, <2>3 DEF PorterOK, PorterStates
  <2>. QED  BY <2>2, <2>3 DEF Moved
<1>3. porter' \in [Porters -> PorterStates]
  BY <1>2, PassParts DEF Moved
<1>. QED  BY <1>1, <1>2, <1>3, PassParts DEF PassInv, PassTypeOK, PassStates, PorterStates

LEMMA WriteReturnStep ==
    ASSUME PassInv, NEW c \in Porters, WriteReturn(c)
    PROVE  PassInv'
<1> DEFINE t == porter[c]
           p == t.pass
           d == [status   |-> Judged(t.seen, t.actual),
                 expected |-> IF t.expected = Kept THEN pass[p].expected
                                                   ELSE t.expected,
                 actual   |-> t.actual,
                 moved    |-> t.moved \/ t.expected # Kept,
                 cleared  |-> FALSE]
           told == IF t.expected = Kept THEN porter ELSE Moved(p)
<1>1. t \in PorterStates /\ PorterOK(t, pass) /\ p \in Slips /\ t.pc = "write"
      /\ t.actual \in Times
  BY PassParts DEF WriteReturn, PorterStates, PorterOK
<1>2. /\ pass' = IF pass[p].status = "none" THEN pass ELSE [pass EXCEPT ![p] = d]
      /\ porter' = [told EXCEPT ![c] = NoPorter] /\ clock' = clock
  <2>1. pass' = IF pass[p].status = "none" THEN pass
                ELSE [pass EXCEPT ![p] =
                        [status   |-> Judged(t.seen, t.actual),
                         expected |-> IF t.expected = Kept THEN @.expected
                                                           ELSE t.expected,
                         actual   |-> t.actual,
                         moved    |-> t.moved \/ t.expected # Kept,
                         cleared  |-> FALSE]]
    BY DEF WriteReturn
  <2>2. porter' = [told EXCEPT ![c] = NoPorter] /\ clock' = clock
    BY DEF WriteReturn
  <2>. QED  BY <1>1, <2>1, <2>2, PassParts
<1>3. d \in PassStates /\ PassOK(d)
  <2>1. pass[p].expected \in Maybe /\ pass[p] \in PassStates
    BY <1>1, PassParts DEF PassStates
  <2>2. d \in PassStates
    BY <1>1, <2>1, JudgedType, TimesAre DEF PassStates, PorterStates
  <2>3. d.actual # NoTime /\ d.status \notin {"none", "OUT"}
    BY <1>1, JudgedType, TimesAre
  <2>4. ~d.moved => d.status = Judged(d.expected, d.actual)
    BY <1>1 DEF PorterOK
  <2>. QED  BY <2>2, <2>3, <2>4 DEF PassOK
<1> HIDE DEF d
<1>4. pass' \in [Slips -> PassStates] /\ \A q \in Slips : PassOK(pass'[q])
  BY <1>1, <1>2, <1>3, PassParts
<1>5. ASSUME NEW e \in Porters
      PROVE  porter'[e] \in PorterStates /\ PorterOK(porter'[e], pass')
  <2>1. CASE e = c
    <3>1. porter'[c] = NoPorter
      <4>1. CASE told = porter
        BY <1>2, <4>1, PassParts
      <4>2. CASE told = Moved(p)
        BY <1>2, <4>2 DEF Moved
      <4>. QED  BY <4>1, <4>2
    <3>. QED  BY <2>1, <3>1, NoPorterOK
  <2>2. CASE e # c
    <3>1. porter[e] \in PorterStates /\ PorterOK(porter[e], pass)
      BY PassParts
    <3>2. porter'[e] = told[e]
      BY <1>2, <2>2
    <3>3. CASE t.expected = Kept
      <4>1. \A q \in Slips : pass'[q].expected = pass[q].expected
        BY <1>1, <1>2, <3>3, PassParts DEF d
      <4>. QED  BY <3>1, <3>2, <3>3, <4>1 DEF PorterOK, PorterStates
    <3>4. CASE t.expected # Kept
      <4>1. CASE porter[e].pc = "write" /\ porter[e].pass = p
        <5>1. porter'[e] = [porter[e] EXCEPT !.moved = TRUE]
          BY <3>2, <3>4, <4>1 DEF Moved
        <5>. QED  BY <3>1, <4>1, <5>1 DEF PorterOK, PorterStates
      <4>2. CASE ~(porter[e].pc = "write" /\ porter[e].pass = p)
        <5>1. porter'[e] = porter[e]
          BY <3>2, <3>4, <4>2 DEF Moved
        <5>2. porter[e].pc = "write" =>
                 pass'[porter[e].pass] = pass[porter[e].pass]
          BY <1>1, <1>2, <3>1, <4>2, PassParts DEF PorterStates
        <5>. QED  BY <3>1, <5>1, <5>2 DEF PorterOK
      <4>. QED  BY <4>1, <4>2
    <3>. QED  BY <3>3, <3>4
  <2>. QED  BY <2>1, <2>2
<1>6. porter' \in [Porters -> PorterStates]
  BY <1>2, <1>5, PassParts DEF Moved
<1>. QED  BY <1>2, <1>4, <1>5, <1>6, PassParts
          DEF PassInv, PassTypeOK, PassStates, PorterStates

LEMMA PassStep == PassInv /\ PassNext => PassInv'
<1> SUFFICES ASSUME PassInv, PassNext PROVE PassInv'
  OBVIOUS
<1>1. ASSUME NEW p \in Slips, NEW e \in Maybe, CreatePass(p, e) PROVE PassInv'
  <2> DEFINE d == [NoPass EXCEPT !.status = "OUT", !.expected = e]
  <2>1. d \in PassStates /\ PassOK(d)
    BY TimesAre DEF NoPass, PassStates, PassOK
  <2> HIDE DEF d
  <2>2. pass' = [pass EXCEPT ![p] = d]
    BY <1>1 DEF CreatePass, d
  <2>. QED  BY <1>1, <2>1, <2>2, OnePass DEF CreatePass
<1>2. ASSUME NEW p \in Slips, NEW e \in Maybe, PatchExpected(p, e) PROVE PassInv'
  <2> DEFINE d == [pass[p] EXCEPT !.expected = e, !.moved = pass[p].actual # NoTime]
  <2>1. pass[p] \in PassStates /\ PassOK(pass[p])
    BY PassParts
  <2>2. d \in PassStates /\ PassOK(d)
    BY <2>1, TimesAre DEF PassStates, PassOK
  <2>3. pass' = [pass EXCEPT ![p] = d]
    BY <1>2, PassParts DEF PatchExpected
  <2> HIDE DEF d
  <2>. QED  BY <1>2, <2>2, <2>3, OnePass DEF PatchExpected
<1>3. ASSUME NEW p \in Slips, RemovePass(p) PROVE PassInv'
  BY <1>3, NoPassOK, OnePass DEF RemovePass
<1>4. ASSUME NEW c \in Porters, NEW p \in Slips, MarkReturn(c, p) PROVE PassInv'
  <2> DEFINE u == [NoPorter EXCEPT !.pc = "mark", !.pass = p]
  <2>1. u \in PorterStates /\ PorterOK(u, pass)
    BY NoPorterOK DEF NoPorter, PorterStates, PorterOK
  <2>2. porter' = [porter EXCEPT ![c] = u] /\ UNCHANGED <<pass, clock>>
    BY <1>4 DEF MarkReturn
  <2> HIDE DEF u
  <2>. QED  BY <2>1, <2>2, OnePorter
<1>5. ASSUME NEW c \in Porters, NEW p \in Slips, NEW a \in Times, NEW e \in Body,
             PatchReturn(c, p, a, e)
      PROVE  PassInv'
  <2> DEFINE u == [NoPorter EXCEPT !.pc = "read", !.pass = p, !.actual = a,
                                   !.expected = e]
  <2>1. u \in PorterStates /\ PorterOK(u, pass)
    BY NoPorterOK, TimesAre DEF PorterStates, PorterOK, NoPorter
  <2>2. porter' = [porter EXCEPT ![c] = u] /\ UNCHANGED <<pass, clock>>
    BY <1>5 DEF PatchReturn
  <2> HIDE DEF u
  <2>. QED  BY <2>1, <2>2, OnePorter
<1>6. ASSUME NEW c \in Porters, MarkNow(c) PROVE PassInv'
  <2> DEFINE u == [porter[c] EXCEPT !.pc = "read", !.actual = clock]
  <2>0. ~porter[c].moved /\ porter[c] \in PorterStates
    BY <1>6, PassParts DEF MarkNow, PorterOK
  <2>1. u \in PorterStates /\ PorterOK(u, pass)
    BY <2>0, PassParts, TimesAre DEF PorterStates, PorterOK
  <2>2. porter' = [porter EXCEPT ![c] = u] /\ UNCHANGED <<pass, clock>>
    BY <1>6, PassParts DEF MarkNow
  <2> HIDE DEF u
  <2>. QED  BY <2>1, <2>2, OnePorter
<1>7. ASSUME NEW c \in Porters, ReadExpected(c) PROVE PassInv'
  <2> DEFINE e == pass[porter[c].pass].expected
             u == [porter[c] EXCEPT !.pc = "write", !.seen = e]
  <2>1. porter[c] \in PorterStates /\ PorterOK(porter[c], pass) /\ porter[c].pc = "read"
    BY <1>7, PassParts DEF ReadExpected
  <2>2. e \in Maybe
    BY <2>1, PassParts DEF PorterStates, PassStates
  <2>3. u \in PorterStates /\ PorterOK(u, pass)
    BY <2>1, <2>2 DEF PorterStates, PorterOK
  <2>4. porter' = [porter EXCEPT ![c] = u] /\ UNCHANGED <<pass, clock>>
    BY <1>7, PassParts DEF ReadExpected
  <2> HIDE DEF u
  <2>. QED  BY <2>3, <2>4, OnePorter
<1>8. ASSUME NEW c \in Porters, LosePorter(c) PROVE PassInv'
  BY <1>8, NoPorterOK, OnePorter DEF LosePorter, EndPorter
<1>9. ASSUME PassTick PROVE PassInv'
  <2>1. clock' \in Times
    BY <1>9, PassParts, PassAssumption DEF PassTick, Times
  <2>. QED  BY <1>9, <2>1 DEF PassTick, PassInv, PassTypeOK
<1>10. ASSUME NEW p \in Slips, NEW e \in Body, PatchNoReturn(p, e) PROVE PassInv'
  <2> DEFINE f == IF e = Kept THEN pass[p].expected ELSE e
             d == [pass[p] EXCEPT !.expected = f, !.actual = NoTime, !.moved = FALSE,
                                  !.cleared = pass[p].status # "OUT"]
  <2>1. /\ pass[p] \in PassStates /\ PassOK(pass[p])
        /\ pass[p].status \in {"OUT", "RETURNED", "OVERDUE"} /\ f \in Maybe
    BY <1>10, PassParts, TimesAre DEF PassStates, PatchNoReturn
  <2>2. d \in PassStates /\ PassOK(d)
    BY <2>1, TimesAre DEF PassStates, PassOK
  <2>3. pass' = [pass EXCEPT ![p] = d]
    BY <1>10, PassParts DEF PatchNoReturn
  <2>4. e = Kept => d.expected = pass[p].expected
    BY <2>1 DEF PassStates
  <2> HIDE DEF d
  <2>. QED  BY <1>10, <2>2, <2>3, <2>4, OnePass DEF PatchNoReturn
<1>. QED  BY <1>1, <1>2, <1>3, <1>4, <1>5, <1>6, <1>7, <1>8, <1>9, <1>10,
             WriteReturnStep DEF PassNext

LEMMA PassInitInv == PassInit => PassInv
BY NoPassOK, NoPorterOK, TimesAre
   DEF PassInit, PassInv, PassTypeOK, PassStates, PorterStates

LEMMA PassInvHolds == PassSpec => []PassInv
<1>1. PassInv /\ UNCHANGED passVars => PassInv'
  BY DEF passVars, PassInv, PassTypeOK
<1>. QED  BY PassInitInv, PassStep, <1>1, PTL DEF PassSpec

\* A gate pass says OVERDUE exactly when the resident came back late, unless its
\* expected time was written after it was read, and the list of those who are
\* out is of those who have not come back, unless a null took the time away
\* again (GatePassesService.update and markReturn), for every number of passes
\* and of requests in flight.
THEOREM PassTheorem == PassSpec => []PassJudged
<1>1. PassInv => PassJudged
  <2> SUFFICES ASSUME PassInv PROVE PassJudged
    OBVIOUS
  <2>1. ASSUME NEW p \in Slips, pass[p].actual # NoTime, ~pass[p].moved
        PROVE  pass[p].status = "OVERDUE" <=>
                  pass[p].expected # NoTime /\ pass[p].actual > pass[p].expected
    BY <2>1, PassParts DEF PassOK, Judged
  <2>2. \A p \in Slips : pass[p].status = "OUT" <=>
           pass[p].status # "none" /\ pass[p].actual = NoTime /\ ~pass[p].cleared
    BY PassParts DEF PassOK
  <2>. QED  BY <2>1, <2>2 DEF PassJudged, GetActivePasses
<1>. QED  BY <1>1, PassInvHolds, PTL

-----------------------------------------------------------------------------
(* Notifications: how far each sending has come, and what it has seen. *)

JobStates ==
    [pc : Gates \cup {"idle", "template", "send", "log", "next"},
     event : Events, channel : Channels, rest : SUBSET Channels, row : Rows,
     seen : SUBSET Gates, delivered : BOOLEAN, rows : SUBSET Rows,
     logLost : BOOLEAN]

\* The gates a sending has passed when it is about to make this call.
Passed(pc) ==
    CASE pc = "feature" -> {"subscription"}
      [] pc = "config"  -> {"subscription", "feature"}
      [] pc = "setting" -> {"subscription", "feature", "config"}
      [] pc \in {"template", "send"} -> Gates
      [] OTHER -> {}

\* A sending in flight has seen every gate that is open.
WatchesGates(t, open) == t.pc # "idle" => open \subseteq t.seen

\* Only the last call but one delivers, and only the last writes a row.
JobProgress(t) ==
    /\ Passed(t.pc) \subseteq t.seen
    /\ t.pc \notin {"log", "next"} => ~t.delivered
    /\ t.pc # "next" => t.rows = {}
    /\ t.delivered => t.seen = Gates
    /\ t.pc = "log" => (t.row = "SENT" => t.delivered) /\ (t.row = "SKIPPED" => ~t.delivered)
    /\ t.rows # {} => \E r \in Rows : /\ t.rows = {r}
                                      /\ r = "SENT" => t.delivered
                                      /\ r = "SKIPPED" => ~t.delivered
    /\ t.pc = "next" => t.rows # {} \/ t.logLost

NoteInv ==
    /\ NoteTypeOK
    /\ \A j \in Jobs : /\ WatchesGates(job[j], OpenGates(job[j].event, job[j].channel))
                       /\ JobProgress(job[j])
-----------------------------------------------------------------------------
GateTypes ==
    /\ subscribed \in BOOLEAN
    /\ flag \in [Channels -> BOOLEAN]
    /\ allowed \in [Channels -> BOOLEAN]
    /\ wanted \in [Events -> [Channels -> BOOLEAN]]
    /\ template \in [Events -> BOOLEAN]

LEMMA NoteParts ==
    ASSUME NoteInv
    PROVE  /\ GateTypes /\ job \in [Jobs -> JobStates]
           /\ \A j \in Jobs :
                 /\ job[j] \in JobStates
                 /\ WatchesGates(job[j], OpenGates(job[j].event, job[j].channel))
                 /\ JobProgress(job[j])
BY DEF NoteInv, NoteTypeOK, GateTypes, JobStates

LEMMA NoJobOK ==
    ASSUME NEW open
    PROVE  /\ NoJob \in JobStates /\ WatchesGates(NoJob, open)
           /\ JobProgress(NoJob)
<1>1. (CHOOSE e \in Events : TRUE) \in Events
  BY NoteAssumption
<1>. QED  BY <1>1 DEF NoJob, JobStates, WatchesGates, JobProgress, Passed, Gates,
             Channels, Rows

LEMMA OpenGatesType ==
    ASSUME NEW e, NEW ch
    PROVE  OpenGates(e, ch) \in SUBSET Gates
BY DEF OpenGates

\* One sending changes, and no gate.
LEMMA OneJob ==
    ASSUME NoteInv, NEW j \in Jobs, NEW u \in JobStates,
           WatchesGates(u, OpenGates(u.event, u.channel)), JobProgress(u),
           job' = [job EXCEPT ![j] = u], UNCHANGED gates
    PROVE  NoteInv'
<1>1. \A e, ch : OpenGates(e, ch)' = OpenGates(e, ch)
  BY DEF OpenGates, gates
<1>2. NoteTypeOK'
  BY NoteParts DEF GateTypes, NoteTypeOK, JobStates, gates
<1>3. ASSUME NEW k \in Jobs
      PROVE  /\ WatchesGates(job'[k], OpenGates(job[k].event, job[k].channel)')
             /\ JobProgress(job'[k])
  <2>1. OpenGates(job[k].event, job[k].channel)'
          = OpenGates(job'[k].event, job'[k].channel)
    BY DEF OpenGates, gates
  <2>. QED  BY <2>1, NoteParts
<1>. QED  BY <1>2, <1>3 DEF NoteInv

\* A sending goes on.
LEMMA SendingStep ==
    ASSUME NoteInv, NEW j \in Jobs, job[j].pc # "idle", NEW u \in JobStates,
           u.event = job[j].event, u.channel = job[j].channel, u.seen = job[j].seen,
           JobProgress(u), job' = [job EXCEPT ![j] = u], UNCHANGED gates
    PROVE  NoteInv'
<1>1. WatchesGates(u, OpenGates(u.event, u.channel))
  BY NoteParts DEF WatchesGates
<1>. QED  BY <1>1, OneJob

\* A sending begins.
LEMMA BeginStep ==
    ASSUME NoteInv, NEW j \in Jobs, NEW u \in JobStates, UNCHANGED gates,
           u.pc = "subscription", u.seen = OpenGates(u.event, u.channel),
           ~u.delivered, u.rows = {}, job' = [job EXCEPT ![j] = u]
    PROVE  NoteInv'
<1>1. JobProgress(u)
  BY DEF JobProgress, Passed
<1>2. WatchesGates(u, OpenGates(u.event, u.channel))
  BY DEF WatchesGates
<1>. QED  BY <1>1, <1>2, OneJob

\* A gate is asked for: it stood open at that time, or the sending is logged.
LEMMA GateStep ==
    ASSUME NoteInv, NEW j \in Jobs, NEW g \in Gates, NEW open \in BOOLEAN,
           open => g \in OpenGates(job[j].event, job[j].channel),
           Pass(j, g, open)
    PROVE  NoteInv'
<1> DEFINE t == job[j]
<1>1. /\ t \in JobStates /\ JobProgress(t) /\ t.pc = g /\ UNCHANGED gates
      /\ WatchesGates(t, OpenGates(t.event, t.channel))
  BY NoteParts DEF Pass
<1>2. t.pc # "idle" /\ t.pc \notin {"log", "next"}
  BY <1>1 DEF Gates
<1>3. ~t.delivered /\ t.rows = {}
  BY <1>1, <1>2 DEF JobProgress
<1>4. CASE open
  <2> DEFINE pc == After(g, t.channel)
             u == [t EXCEPT !.pc = pc]
  <2>1. g \in t.seen
    BY <1>1, <1>2, <1>4 DEF WatchesGates
  <2>2. /\ pc \in Gates \cup {"template", "send"}
        /\ Passed(pc) \subseteq Passed(g) \cup {g}
    BY <1>1 DEF After, Passed, Gates, JobStates, Channels
  <2>3. job' = [job EXCEPT ![j] = u]
    BY <1>4, NoteParts DEF Pass
  <2> HIDE DEF pc
  <2>4. /\ u \in JobStates /\ u.pc = pc /\ u.event = t.event
        /\ u.channel = t.channel /\ u.seen = t.seen
        /\ u.delivered = t.delivered /\ u.rows = t.rows
    BY <1>1, <2>2 DEF JobStates
  <2> HIDE DEF u
  <2>5. pc \notin {"log", "next"}
    BY <2>2 DEF Gates
  <2>6. JobProgress(u)
    BY <1>1, <1>3, <2>1, <2>2, <2>4, <2>5 DEF JobProgress
  <2>. QED  BY <1>1, <1>2, <2>3, <2>4, <2>6, SendingStep
<1>5. CASE ~open
  <2> DEFINE u == [t EXCEPT !.pc = "log", !.row = "SKIPPED"]
  <2>1. job' = [job EXCEPT ![j] = u]
    BY <1>5, NoteParts DEF Pass, Close
  <2>2. /\ u \in JobStates /\ u.pc = "log" /\ u.event = t.event
        /\ u.channel = t.channel /\ u.seen = t.seen
        /\ u.delivered = t.delivered /\ u.rows = t.rows /\ u.row = "SKIPPED"
    BY <1>1 DEF JobStates, Rows
  <2> HIDE DEF u
  <2>3. JobProgress(u)
    BY <1>3, <2>2 DEF JobProgress, Passed
  <2>. QED  BY <1>1, <1>2, <2>1, <2>2, <2>3, SendingStep
<1>. QED  BY <1>4, <1>5

LEMMA CheckSteps ==
    ASSUME NoteInv, NEW j \in Jobs,
           \/ CheckSubscription(j) \/ CheckFeature(j) \/ CheckChannel(j)
           \/ CheckSetting(j)
    PROVE  NoteInv'
<1> DEFINE e == job[j].event
           ch == job[j].channel
<1>1. e \in Events /\ ch \in Channels /\ GateTypes
  BY NoteParts DEF JobStates
<1>2. /\ subscribed \in BOOLEAN /\ flag[ch] \in BOOLEAN
      /\ allowed[ch] \in BOOLEAN /\ wanted[e][ch] \in BOOLEAN
  BY <1>1 DEF GateTypes
<1>3. /\ subscribed => "subscription" \in OpenGates(e, ch)
      /\ flag[ch] => "feature" \in OpenGates(e, ch)
      /\ allowed[ch] => "config" \in OpenGates(e, ch)
      /\ wanted[e][ch] => "setting" \in OpenGates(e, ch)
  BY DEF OpenGates, Gates
<1>4. {"subscription", "feature", "config", "setting"} \subseteq Gates
  BY DEF Gates
<1>. QED  BY <1>2, <1>3, <1>4, GateStep
          DEF CheckSubscription, CheckFeature, CheckChannel, CheckSetting

LEMMA SendSteps ==
    ASSUME NoteInv, NEW j \in Jobs,
           FindTemplate(j) \/ SendMessage(j) \/ QueryRejected(j)
    PROVE  NoteInv'
<1> DEFINE t == job[j]
<1>1. /\ t \in JobStates /\ JobProgress(t)
      /\ t.pc \in Gates \cup {"template", "send"} /\ UNCHANGED gates
  BY NoteParts DEF FindTemplate, SendMessage, QueryRejected
<1>2. t.pc \notin {"idle", "log", "next"}
  BY <1>1 DEF Gates
<1>3. ~t.delivered /\ t.rows = {}
  BY <1>1, <1>2 DEF JobProgress
<1>4. CASE FindTemplate(j)
  <2> DEFINE u == [t EXCEPT !.pc = "send"]
  <2>1. job' = [job EXCEPT ![j] = u] /\ t.pc = "template"
    BY <1>4, NoteParts DEF FindTemplate
  <2>2. /\ u \in JobStates /\ u.pc = "send" /\ u.event = t.event
        /\ u.channel = t.channel /\ u.seen = t.seen
        /\ u.delivered = t.delivered /\ u.rows = t.rows
    BY <1>1 DEF JobStates
  <2> HIDE DEF u
  <2>3. JobProgress(u)
    BY <1>1, <1>3, <2>1, <2>2 DEF JobProgress, Passed
  <2>. QED  BY <1>1, <1>2, <2>1, <2>2, <2>3, SendingStep
<1>5. CASE SendMessage(j)
  <2>1. PICK o \in EmailOutcomes \cup SmsOutcomes :
           job' = [job EXCEPT ![j].pc  = "log", ![j].row = o[2],
                              ![j].delivered = o[1]]
    BY <1>5 DEF SendMessage
  <2>2. /\ o[1] \in BOOLEAN /\ o[2] \in {"SENT", "FAILED"}
        /\ o[2] = "SENT" => o[1]
    <3>1. CASE o = <<TRUE, "SENT">>
      BY <3>1
    <3>2. CASE o = <<FALSE, "FAILED">>
      BY <3>2
    <3>3. CASE o = <<TRUE, "FAILED">>
      BY <3>3
    <3>. QED  BY <3>1, <3>2, <3>3 DEF EmailOutcomes, SmsOutcomes
  <2> DEFINE r == o[2]
             left == o[1]
             u == [t EXCEPT !.pc = "log", !.row = r, !.delivered = left]
  <2>3. job' = [job EXCEPT ![j] = u]
    BY <2>1, NoteParts
  <2>4. t.seen = Gates
    <3>1. t.pc = "send" /\ t.seen \in SUBSET Gates
      BY <1>1, <1>5 DEF SendMessage, JobStates
    <3>. QED  BY <1>1, <3>1 DEF JobProgress, Passed
  <2> HIDE DEF r, left
  <2>5. left \in BOOLEAN /\ r \in {"SENT", "FAILED"} /\ (r = "SENT" => left)
    BY <2>2 DEF r, left
  <2>6. /\ u \in JobStates /\ u.pc = "log" /\ u.event = t.event
        /\ u.channel = t.channel /\ u.seen = t.seen
        /\ u.delivered = left /\ u.rows = t.rows /\ u.row = r
    BY <1>1, <2>5 DEF JobStates, Rows
  <2> HIDE DEF u
  <2>7. JobProgress(u)
    BY <1>3, <2>4, <2>5, <2>6 DEF JobProgress, Passed
  <2>. QED  BY <1>1, <1>2, <2>3, <2>6, <2>7, SendingStep
<1>6. CASE QueryRejected(j)
  <2> DEFINE u == [t EXCEPT !.pc = "log", !.row = "FAILED"]
  <2>1. job' = [job EXCEPT ![j] = u]
    BY <1>6, NoteParts DEF QueryRejected
  <2>2. /\ u \in JobStates /\ u.pc = "log" /\ u.event = t.event
        /\ u.channel = t.channel /\ u.seen = t.seen
        /\ u.delivered = t.delivered /\ u.rows = t.rows /\ u.row = "FAILED"
    BY <1>1 DEF JobStates, Rows
  <2> HIDE DEF u
  <2>3. JobProgress(u)
    BY <1>3, <2>2 DEF JobProgress, Passed
  <2>. QED  BY <1>1, <1>2, <2>1, <2>2, <2>3, SendingStep
<1>. QED  BY <1>4, <1>5, <1>6

\* The one row that is written is that of the sending, if any is.
LEMMA LogStep ==
    ASSUME NoteInv, NEW j \in Jobs, LogNotification(j)
    PROVE  NoteInv'
<1> DEFINE t == job[j]
<1>1. t \in JobStates /\ JobProgress(t) /\ t.pc = "log" /\ UNCHANGED gates
  BY NoteParts DEF LogNotification
<1>2. t.rows = {} /\ t.row \in Rows
  BY <1>1 DEF JobProgress, JobStates
<1>3. PICK rows \in {{}, {t.row}}, lost \in BOOLEAN :
         /\ rows = {} => lost
         /\ job' = [job EXCEPT ![j] = [t EXCEPT !.pc = "next", !.rows = rows,
                                                !.logLost = lost]]
  <2>1. Written(j) = {t.row}
    BY <1>2 DEF Written
  <2>2. CASE job' = [job EXCEPT ![j].pc = "next", ![j].rows = Written(j)]
    <3>1. [t EXCEPT !.pc = "next", !.rows = {t.row}]
            = [t EXCEPT !.pc = "next", !.rows = {t.row}, !.logLost = t.logLost]
      BY <1>1 DEF JobStates
    <3>2. job' = [job EXCEPT ![j] = [t EXCEPT !.pc = "next", !.rows = {t.row}]]
      BY <2>1, <2>2, NoteParts
    <3>3. t.logLost \in BOOLEAN
      BY <1>1 DEF JobStates
    <3>. QED  BY <3>1, <3>2, <3>3
  <2>3. CASE LogRejected(j)
    <3>1. PICK rows \in {{}, {t.row}} :
             job' = [job EXCEPT ![j].pc = "next", ![j].rows = rows,
                                ![j].logLost = TRUE]
      BY <1>2, <2>1, <2>3 DEF LogRejected
    <3>2. job' = [job EXCEPT ![j] = [t EXCEPT !.pc = "next", !.rows = rows,
                                              !.logLost = TRUE]]
      BY <3>1, NoteParts
    <3>. QED  BY <3>2
  <2>. QED  BY <2>2, <2>3 DEF LogNotification
<1> DEFINE u == [t EXCEPT !.pc = "next", !.rows = rows, !.logLost = lost]
<1>4. rows \in SUBSET Rows
  BY <1>2, <1>3
<1>5. /\ u \in JobStates /\ u.pc = "next" /\ u.event = t.event
      /\ u.channel = t.channel /\ u.seen = t.seen
      /\ u.delivered = t.delivered /\ u.rows = rows /\ u.logLost = lost
  BY <1>1, <1>4 DEF JobStates
<1>6. job' = [job EXCEPT ![j] = u]
  BY <1>3
<1> HIDE DEF u
<1>7. rows # {} => rows = {t.row}
  BY <1>3
<1>8. JobProgress(u)
  BY <1>1, <1>2, <1>3, <1>5, <1>7 DEF JobProgress, Passed
<1>. QED  BY <1>1, <1>5, <1>6, <1>8, SendingStep

LEMMA NextChannelStep ==
    ASSUME NoteInv, NEW j \in Jobs, NextChannel(j)
    PROVE  NoteInv'
<1>1. job[j] \in JobStates /\ job[j].event \in Events /\ UNCHANGED gates
  BY NoteParts DEF NextChannel, JobStates
<1>2. CASE job[j].rest = {}
  BY <1>1, <1>2, NoJobOK, OneJob DEF NextChannel
<1>3. CASE job[j].rest # {}
  <2> DEFINE e == job[j].event
             open == OpenGates(e, "sms")
             u == [NoJob EXCEPT !.pc = "subscription", !.event = e,
                                !.channel = "sms", !.seen = open]
  <2>1. job' = [job EXCEPT ![j] = u]
    BY <1>3 DEF NextChannel
  <2>2. open \in SUBSET Gates /\ e \in Events
    BY <1>1, OpenGatesType
  <2> HIDE DEF open
  <2>3. /\ u \in JobStates /\ u.event = e /\ u.channel = "sms" /\ u.seen = open
        /\ u.pc = "subscription" /\ ~u.delivered /\ u.rows = {}
    BY <2>2, NoJobOK DEF NoJob, JobStates, Gates, Channels
  <2> HIDE DEF u
  <2>4. u.seen = OpenGates(u.event, u.channel)
    BY <2>3 DEF open
  <2>. QED  BY <1>1, <2>1, <2>3, <2>4, BeginStep
<1>. QED  BY <1>2, <1>3

LEMMA HandleStep ==
    ASSUME NoteInv, NEW j \in Jobs, NEW e, NEW to \in SUBSET Channels, Handle(j, e, to)
    PROVE  NoteInv'
<1> DEFINE first == IF "email" \in to THEN "email" ELSE "sms"
           open == OpenGates(e, first)
           u == [NoJob EXCEPT !.pc = "subscription", !.event = e,
                              !.channel = first, !.rest = to \ {first},
                              !.seen = open]
<1>1. first \in Channels /\ to \ {first} \in SUBSET Channels /\ e \in Events
      /\ UNCHANGED gates
  BY DEF Handle, Channels
<1>2. job' = [job EXCEPT ![j] = u]
  BY DEF Handle
<1>3. open \in SUBSET Gates
  BY OpenGatesType
<1> HIDE DEF first, open
<1>4. /\ u \in JobStates /\ u.event = e /\ u.channel = first /\ u.seen = open
      /\ u.pc = "subscription" /\ ~u.delivered /\ u.rows = {}
  BY <1>1, <1>3, NoJobOK DEF NoJob, JobStates, Gates
<1> HIDE DEF u
<1>5. u.seen = OpenGates(u.event, u.channel)
  BY <1>4 DEF open
<1>. QED  BY <1>1, <1>2, <1>4, <1>5, BeginStep
-----------------------------------------------------------------------------
(* The gates change. *)

\* What has become open is noted in every sending in flight.
LEMMA NotedStep ==
    ASSUME NoteInv, GateTypes',
           NEW opened \in [Events -> [Channels -> SUBSET Gates]],
           \A e \in Events, ch \in Channels :
              OpenGates(e, ch)' \subseteq OpenGates(e, ch) \cup opened[e][ch],
           job' = [j \in Jobs |->
                      IF job[j].pc = "idle" THEN job[j]
                      ELSE [job[j] EXCEPT !.seen =
                               @ \cup opened[job[j].event][job[j].channel]]]
    PROVE  NoteInv'
<1>1. ASSUME NEW j \in Jobs
      PROVE  /\ job'[j] \in JobStates
             /\ WatchesGates(job'[j], OpenGates(job[j].event, job[j].channel)')
             /\ JobProgress(job'[j])
  <2>1. PICK t \in JobStates : t = job[j]
    BY NoteParts
  <2>2. PICK e \in Events, ch \in Channels : e = t.event /\ ch = t.channel
    BY DEF JobStates
  <2> DEFINE o == opened[e][ch]
             u == [t EXCEPT !.seen = t.seen \cup o]
  <2>3. JobProgress(t) /\ WatchesGates(t, OpenGates(e, ch))
    BY <2>1, <2>2, NoteParts
  <2>4. job'[j] = IF t.pc = "idle" THEN t ELSE u
    BY <2>1, <2>2
  <2>5. o \in SUBSET Gates /\ OpenGates(e, ch)' \subseteq OpenGates(e, ch) \cup o
    OBVIOUS
  <2> HIDE DEF o
  <2>6. t.seen \cup o \in SUBSET Gates
    BY <2>5 DEF JobStates
  <2>7. /\ u \in JobStates /\ u.pc = t.pc /\ u.event = e
        /\ u.channel = ch /\ u.seen = t.seen \cup o
        /\ u.delivered = t.delivered /\ u.rows = t.rows /\ u.row = t.row
        /\ u.logLost = t.logLost
    BY <2>2, <2>6 DEF JobStates
  <2> HIDE DEF u
  <2>8. JobProgress(u)
    BY <2>3, <2>5, <2>7 DEF JobProgress
  <2>9. /\ WatchesGates(t, OpenGates(e, ch)') \/ t.pc # "idle"
        /\ WatchesGates(u, OpenGates(e, ch)')
    BY <2>3, <2>5, <2>7 DEF WatchesGates
  <2>10. OpenGates(job[j].event, job[j].channel)' = OpenGates(e, ch)'
    BY <2>2, <2>4, <2>7 DEF OpenGates
  <2>. QED  BY <2>3, <2>4, <2>7, <2>8, <2>9, <2>10
<1>2. job' \in [Jobs -> JobStates]
  BY <1>1
<1>3. NoteTypeOK'
  BY <1>2 DEF GateTypes, NoteTypeOK, JobStates
<1>. QED  BY <1>1, <1>3 DEF NoteInv

\* A gate is open that was open before, or is noted as opened.
LEMMA MoreOpen ==
    ASSUME NEW e, NEW ch, NEW o,
           subscribed' => subscribed \/ "subscription" \in o,
           flag'[ch] => flag[ch] \/ "feature" \in o,
           allowed'[ch] => allowed[ch] \/ "config" \in o,
           wanted'[e][ch] => wanted[e][ch] \/ "setting" \in o
    PROVE  OpenGates(e, ch)' \subseteq OpenGates(e, ch) \cup o
BY DEF OpenGates, Gates

LEMMA ChangeSubscriptionStep == NoteInv /\ ChangeSubscription => NoteInv'
<1> SUFFICES ASSUME NoteInv, ChangeSubscription PROVE NoteInv'
  OBVIOUS
<1> DEFINE o(e, ch) == IF subscribed THEN {} ELSE {"subscription"}
           opened == [e \in Events |-> [ch \in Channels |-> o(e, ch)]]
<1>1. opened \in [Events -> [Channels -> SUBSET Gates]]
  BY DEF Gates
<1>2. GateTypes'
  BY NoteParts DEF ChangeSubscription, GateTypes
<1>3. \A e \in Events, ch \in Channels :
         OpenGates(e, ch)' \subseteq OpenGates(e, ch) \cup opened[e][ch]
  <2> SUFFICES ASSUME NEW e \in Events, NEW ch \in Channels
               PROVE  OpenGates(e, ch)' \subseteq OpenGates(e, ch) \cup o(e, ch)
    OBVIOUS
  <2>1. subscribed' = ~subscribed /\ UNCHANGED <<flag, allowed, wanted>>
    BY DEF ChangeSubscription
  <2>. QED  BY <2>1, NoteParts, MoreOpen DEF GateTypes
<1>4. job' = [j \in Jobs |->
                IF job[j].pc = "idle" THEN job[j]
                ELSE [job[j] EXCEPT !.seen =
                         @ \cup opened[job[j].event][job[j].channel]]]
  <2>1. \A j \in Jobs : opened[job[j].event][job[j].channel]
                          = o(job[j].event, job[j].channel)
    BY NoteParts DEF JobStates
  <2>. QED  BY <2>1 DEF ChangeSubscription, Noted
<1> HIDE DEF opened
<1>. QED  BY <1>1, <1>2, <1>3, <1>4, NotedStep

LEMMA ChangeFeatureStep ==
    ASSUME NoteInv, NEW c \in Channels, ChangeFeature(c)
    PROVE  NoteInv'
<1> DEFINE o(e, ch) == IF ch = c /\ ~flag[c] THEN {"feature"} ELSE {}
           opened == [e \in Events |-> [ch \in Channels |-> o(e, ch)]]
<1>1. opened \in [Events -> [Channels -> SUBSET Gates]]
  BY DEF Gates
<1>2. GateTypes'
  BY NoteParts DEF ChangeFeature, GateTypes
<1>3. \A e \in Events, ch \in Channels :
         OpenGates(e, ch)' \subseteq OpenGates(e, ch) \cup opened[e][ch]
  <2> SUFFICES ASSUME NEW e \in Events, NEW ch \in Channels
               PROVE  OpenGates(e, ch)' \subseteq OpenGates(e, ch) \cup o(e, ch)
    OBVIOUS
  <2>1. flag' = [flag EXCEPT ![c] = ~@] /\ UNCHANGED <<subscribed, allowed, wanted>>
    BY DEF ChangeFeature
  <2>. QED  BY <2>1, NoteParts, MoreOpen DEF GateTypes
<1>4. job' = [j \in Jobs |->
                IF job[j].pc = "idle" THEN job[j]
                ELSE [job[j] EXCEPT !.seen =
                         @ \cup opened[job[j].event][job[j].channel]]]
  <2>1. \A j \in Jobs : opened[job[j].event][job[j].channel]
                          = o(job[j].event, job[j].channel)
    BY NoteParts DEF JobStates
  <2>. QED  BY <2>1 DEF ChangeFeature, Noted
<1> HIDE DEF opened
<1>. QED  BY <1>1, <1>2, <1>3, <1>4, NotedStep

LEMMA UpdateTenantConfigStep ==
    ASSUME NoteInv, NEW f \in [Channels -> BOOLEAN], UpdateTenantConfig(f)
    PROVE  NoteInv'
<1> DEFINE o(e, ch) == IF f[ch] THEN {"config"} ELSE {}
           opened == [e \in Events |-> [ch \in Channels |-> o(e, ch)]]
<1>1. opened \in [Events -> [Channels -> SUBSET Gates]]
  BY DEF Gates
<1>2. GateTypes'
  BY NoteParts DEF UpdateTenantConfig, GateTypes
<1>3. \A e \in Events, ch \in Channels :
         OpenGates(e, ch)' \subseteq OpenGates(e, ch) \cup opened[e][ch]
  <2> SUFFICES ASSUME NEW e \in Events, NEW ch \in Channels
               PROVE  OpenGates(e, ch)' \subseteq OpenGates(e, ch) \cup o(e, ch)
    OBVIOUS
  <2>1. allowed' = f /\ UNCHANGED <<subscribed, flag, wanted>>
    BY DEF UpdateTenantConfig
  <2>. QED  BY <2>1, NoteParts, MoreOpen DEF GateTypes
<1>4. job' = [j \in Jobs |->
                IF job[j].pc = "idle" THEN job[j]
                ELSE [job[j] EXCEPT !.seen =
                         @ \cup opened[job[j].event][job[j].channel]]]
  <2>1. \A j \in Jobs : opened[job[j].event][job[j].channel]
                          = o(job[j].event, job[j].channel)
    BY NoteParts DEF JobStates
  <2>. QED  BY <2>1 DEF UpdateTenantConfig, Noted
<1> HIDE DEF opened
<1>. QED  BY <1>1, <1>2, <1>3, <1>4, NotedStep

LEMMA UpdateTenantSettingsStep ==
    ASSUME NoteInv, NEW e0 \in Events, NEW c \in Channels, UpdateTenantSettings(e0, c)
    PROVE  NoteInv'
<1> DEFINE o(e, ch) == IF e = e0 /\ ch = c /\ ~wanted[e0][c] THEN {"setting"} ELSE {}
           opened == [e \in Events |-> [ch \in Channels |-> o(e, ch)]]
<1>1. opened \in [Events -> [Channels -> SUBSET Gates]]
  BY DEF Gates
<1>2. GateTypes'
  BY NoteParts DEF UpdateTenantSettings, GateTypes
<1>3. \A e \in Events, ch \in Channels :
         OpenGates(e, ch)' \subseteq OpenGates(e, ch) \cup opened[e][ch]
  <2> SUFFICES ASSUME NEW e \in Events, NEW ch \in Channels
               PROVE  OpenGates(e, ch)' \subseteq OpenGates(e, ch) \cup o(e, ch)
    OBVIOUS
  <2>1. wanted' = [wanted EXCEPT ![e0][c] = ~@] /\ UNCHANGED <<subscribed, flag, allowed>>
    BY DEF UpdateTenantSettings
  <2>. QED  BY <2>1, NoteParts, MoreOpen DEF GateTypes
<1>4. job' = [j \in Jobs |->
                IF job[j].pc = "idle" THEN job[j]
                ELSE [job[j] EXCEPT !.seen =
                         @ \cup opened[job[j].event][job[j].channel]]]
  <2>1. \A j \in Jobs : opened[job[j].event][job[j].channel]
                          = o(job[j].event, job[j].channel)
    BY NoteParts DEF JobStates
  <2>. QED  BY <2>1 DEF UpdateTenantSettings, Noted
<1> HIDE DEF opened
<1>. QED  BY <1>1, <1>2, <1>3, <1>4, NotedStep

\* The templates are no gate.
LEMMA TemplateStep ==
    ASSUME NoteInv, NEW e \in Events, NEW active \in BOOLEAN,
           CreateSmsTemplate(e) \/ DeleteSmsTemplate(e) \/ UpdateSmsTemplate(e, active)
    PROVE  NoteInv'
<1>1. template' \in [Events -> BOOLEAN]
  BY NoteParts DEF CreateSmsTemplate, DeleteSmsTemplate, UpdateSmsTemplate, GateTypes
<1>2. UNCHANGED <<subscribed, flag, allowed, wanted, job>>
  BY DEF CreateSmsTemplate, DeleteSmsTemplate, UpdateSmsTemplate
<1>3. NoteTypeOK'
  BY <1>1, <1>2 DEF NoteInv, NoteTypeOK
<1>. QED  BY <1>2, <1>3 DEF NoteInv, OpenGates

LEMMA StopStep == NoteInv /\ StopHandling => NoteInv'
<1> SUFFICES ASSUME NoteInv, StopHandling PROVE NoteInv'
  OBVIOUS
<1>1. job' = [j \in Jobs |-> NoJob] /\ UNCHANGED gates
  BY DEF StopHandling
<1>2. NoteTypeOK'
  BY <1>1, NoJobOK DEF NoteInv, NoteTypeOK, JobStates, gates
<1>3. \A j \in Jobs : job'[j] = NoJob
  BY <1>1
<1>. QED  BY <1>2, <1>3, NoJobOK DEF NoteInv
-----------------------------------------------------------------------------
LEMMA NoteStep == NoteInv /\ NoteNext => NoteInv'
<1> SUFFICES ASSUME NoteInv, NoteNext PROVE NoteInv'
  OBVIOUS
<1>1. ASSUME NEW j \in Jobs, NEW to \in SUBSET Channels,
             \/ HandleResidentCreated(j, to) \/ HandleResidentAssignedRoom(j, to)
             \/ HandleDepositReceived(j, to) \/ HandleResidentVacated(j, to)
      PROVE  NoteInv'
  BY <1>1, HandleStep DEF HandleResidentCreated, HandleResidentAssignedRoom,
     HandleDepositReceived, HandleResidentVacated
<1>2. ASSUME NEW e \in Watched,
             \/ \E c \in Channels : UpdateTenantSettings(e, c)
             \/ CreateSmsTemplate(e) \/ DeleteSmsTemplate(e)
             \/ \E active \in BOOLEAN : UpdateSmsTemplate(e, active)
      PROVE  NoteInv'
  BY <1>2, NoteAssumption, UpdateTenantSettingsStep, TemplateStep
<1>. QED  BY <1>1, <1>2, CheckSteps, SendSteps, LogStep, NextChannelStep, StopStep,
             ChangeSubscriptionStep, ChangeFeatureStep, UpdateTenantConfigStep
          DEF NoteNext

LEMMA NoteInitInv == NoteInit => NoteInv
BY NoJobOK DEF NoteInit, NoteInv, NoteTypeOK, JobStates

LEMMA NoteInvHolds == NoteSpec => []NoteInv
<1>1. NoteInv /\ UNCHANGED noteVars => NoteInv'
  BY DEF noteVars, gates, NoteInv, NoteTypeOK, OpenGates
<1>. QED  BY NoteInitInv, NoteStep, <1>1, PTL DEF NoteSpec

\* No message leaves through a gate that was closed all the time
\* (NotificationsService.sendNotification), for every number of handlers in
\* flight and every set of events, whatever is switched while they run.
THEOREM GatesTheorem == NoteSpec => []SentWasAllowed
<1>1. NoteInv => SentWasAllowed
  BY DEF NoteInv, JobProgress, SentWasAllowed
<1>. QED  BY <1>1, NoteInvHolds, PTL

\* A sending is logged in one row, which does not contradict what was sent
\* (NotificationsService.logNotification).
THEOREM OutcomeTheorem == NoteSpec => []OneOutcome
<1>1. NoteInv => OneOutcome
  <2> SUFFICES ASSUME NoteInv, NEW j \in Jobs
               PROVE  /\ Cardinality(job[j].rows) <= 1
                      /\ "SENT" \in job[j].rows => job[j].delivered
                      /\ "SKIPPED" \in job[j].rows => ~job[j].delivered
                      /\ job[j].pc = "next" => job[j].rows # {} \/ job[j].logLost
    BY DEF OneOutcome
  <2>1. JobProgress(job[j])
    BY NoteParts
  <2>2. Cardinality(job[j].rows) <= 1
    <3>1. CASE job[j].rows = {}
      BY <3>1, FS_EmptySet
    <3>2. CASE job[j].rows # {}
      BY <2>1, <3>2, FS_Singleton DEF JobProgress
    <3>. QED  BY <3>1, <3>2
  <2>. QED  BY <2>1, <2>2 DEF JobProgress
<1>. QED  BY <1>1, NoteInvHolds, PTL

-----------------------------------------------------------------------------
(* NamedRecords: who is about to enter a group, and what a seed has found.    *)

DocStates  == [state : {"none", "live", "off"}, name : Names \cup {NoName}]
TaskStates ==
    [pc : {"idle", "insert", "check", "write", "remove", "seed", "add", "seeded"},
     doc : Docs, name : Names \cup {NoName}, renames : BOOLEAN,
     to : {"same", "live", "off"}, todo : SUBSET Names, gone : SUBSET Names]

\* The requests that have looked and are about to save a document in group n;
\* their documents, with those that are there by a look.
Enters(t, n) == t.name = n /\ (t.pc = "insert" \/ (t.pc = "write" /\ t.renames))
Entering(tasks, n) == {c \in Clerks : Enters(tasks[c], n)}
Coming(tasks, n)   == {tasks[c].doc : c \in Entering(tasks, n)}
Group(n)           == (Members(n) \ patched) \cup Coming(task, n)

\* An index keeps a group exact; a look alone, short of the other requests.
GroupOK(n) ==
    IF Schema[kind].unique
    THEN \A d, e \in Members(n) : d = e
    ELSE Cardinality(Group(n)) <= Schema[kind].cap + Cardinality(Clerks) - 1

\* Only a filter is switched.  Only a feature is seeded; whatever a seed has
\* passed is there, or was deleted.
TaskOK(t) ==
    /\ t.to # "same" => kind = "filter"
    /\ t.pc \in {"seed", "add", "seeded"} => kind = "feature"
    /\ t.pc \in {"check", "write", "remove"} => kind # "feature"
    /\ t.pc = "insert" => /\ rec[t.doc].state = "none"
                          /\ kind = "feature" => t.name \in Names
    /\ t.pc \in {"seed", "seeded"} =>
          \A n \in Names : n \in t.todo \/ n \in t.gone \/ Members(n) # {}
    /\ t.pc = "add" =>
          /\ t.name \in Names
          /\ \A n \in Names : \/ n \in t.todo \/ n \in t.gone \/ n = t.name
                              \/ Members(n) # {}

RecInv ==
    /\ RecTypeOK
    /\ \A n \in Names : GroupOK(n)
    /\ \A c \in Clerks : TaskOK(task[c])
    /\ \A c, e \in Clerks :
          task[c].pc = "insert" /\ task[e].pc = "insert" /\ c # e =>
             task[c].doc # task[e].doc
    /\ kind = "feature" =>
          \A d \in Docs : rec[d].state = "live" => rec[d].name \in Names
-----------------------------------------------------------------------------
LEMMA SchemaIs ==
    ASSUME kind \in DOMAIN Schema
    PROVE  /\ Schema[kind].cap \in Nat
           /\ Schema[kind].unique => Schema[kind].cap = 1
           /\ kind = "feature" => Schema[kind].unique
           /\ kind \in {"staff", "filter"} => ~Schema[kind].unique
<1>1. kind \in {"tag", "note", "filter", "staff", "feature"}
  BY DEF Schema
<1>2. CASE kind = "tag"
  BY <1>2 DEF Schema, TagSchema
<1>3. CASE kind = "note"
  BY <1>3, RecAssumption DEF Schema, NoteSchema
<1>4. CASE kind = "filter"
  BY <1>4 DEF Schema, FilterSchema
<1>5. CASE kind = "staff"
  BY <1>5 DEF Schema, StaffSchema
<1>6. CASE kind = "feature"
  BY <1>6 DEF Schema, FeatureSchema
<1>. QED  BY <1>1, <1>2, <1>3, <1>4, <1>5, <1>6

LEMMA RecParts ==
    ASSUME RecInv
    PROVE  /\ kind \in DOMAIN Schema /\ patched \subseteq Docs
           /\ rec \in [Docs -> DocStates] /\ task \in [Clerks -> TaskStates]
           /\ \A n \in Names : GroupOK(n)
           /\ \A c \in Clerks : task[c] \in TaskStates /\ TaskOK(task[c])
           /\ \A d \in Docs : rec[d] \in DocStates
BY DEF RecInv, RecTypeOK, DocStates, TaskStates

LEMMA NoTaskOK ==
    /\ NoTask \in TaskStates /\ TaskOK(NoTask) /\ NoTask.pc = "idle"
    /\ TaskOK(NoTask)'
    /\ \A n : ~Enters(NoTask, n)
<1>1. (CHOOSE d \in Docs : TRUE) \in Docs
  BY RecAssumption
<1>. QED  BY <1>1 DEF NoTask, TaskStates, TaskOK, Enters

\* A set of documents has a size.
LEMMA Sizes ==
    ASSUME NEW S \in SUBSET Docs
    PROVE  IsFiniteSet(S) /\ Cardinality(S) \in Nat
BY RecAssumption, FS_Subset, FS_CardinalityType

LEMMA ClerksSize == Cardinality(Clerks) \in Nat /\ Cardinality(Clerks) >= 1
<1>1. Cardinality(Clerks) \in Nat /\ Cardinality(Clerks) # 0
  BY RecAssumption, FS_CardinalityType, FS_EmptySet
<1>. QED  BY <1>1

LEMMA ComingType ==
    ASSUME NEW tasks \in [Clerks -> TaskStates], NEW n
    PROVE  Coming(tasks, n) \in SUBSET Docs
BY DEF Coming, Entering, TaskStates

\* No more documents come than there are requests.
LEMMA ComingSize ==
    ASSUME NEW tasks \in [Clerks -> TaskStates], NEW n
    PROVE  Cardinality(Coming(tasks, n)) <= Cardinality(Clerks)
<1> DEFINE f == [c \in Entering(tasks, n) |-> tasks[c].doc]
<1>1. Entering(tasks, n) \in SUBSET Clerks
  BY DEF Entering
<1>2. f \in Surjection(Entering(tasks, n), Coming(tasks, n))
  <2>1. f \in [Entering(tasks, n) -> Coming(tasks, n)]
    BY DEF Coming
  <2>2. \A d \in Coming(tasks, n) : \E c \in Entering(tasks, n) : f[c] = d
    BY DEF Coming
  <2>. QED  BY <2>1, <2>2 DEF Surjection
<1> HIDE DEF f
<1>3. /\ IsFiniteSet(Entering(tasks, n))
      /\ Cardinality(Entering(tasks, n)) <= Cardinality(Clerks)
      /\ Cardinality(Entering(tasks, n)) \in Nat
  BY <1>1, RecAssumption, FS_Subset, FS_CardinalityType
<1>4. Cardinality(Coming(tasks, n)) <= Cardinality(Entering(tasks, n))
  BY <1>2, <1>3, FS_Surjection
<1>5. Cardinality(Coming(tasks, n)) \in Nat
  BY ComingType, Sizes
<1>. QED  BY <1>3, <1>4, <1>5, ClerksSize

LEMMA GroupType ==
    ASSUME NEW n
    PROVE  /\ Members(n) \in SUBSET Docs /\ Members(n)' \in SUBSET Docs
           /\ task \in [Clerks -> TaskStates] => Group(n) \in SUBSET Docs
           /\ task' \in [Clerks -> TaskStates] => Group(n)' \in SUBSET Docs
BY ComingType DEF Members, Group

\* A step that lets nobody into group n keeps it.
LEMMA GroupFrame ==
    ASSUME RecInv, NEW n \in Names, kind' = kind, task' \in [Clerks -> TaskStates],
           Schema[kind].unique => Members(n)' \subseteq Members(n),
           Group(n)' \subseteq Group(n)
    PROVE  GroupOK(n)'
<1>1. GroupOK(n) /\ Schema[kind].cap \in Nat
  BY RecParts, SchemaIs
<1>2. CASE Schema[kind].unique
  BY <1>1, <1>2 DEF GroupOK
<1>3. CASE ~Schema[kind].unique
  <2>1. Cardinality(Group(n)') <= Cardinality(Group(n))
    BY RecParts, GroupType, Sizes, FS_Subset
  <2>2. Cardinality(Group(n)') \in Nat /\ Cardinality(Group(n)) \in Nat
    BY RecParts, GroupType, Sizes
  <2>3. Cardinality(Group(n)') <= Schema[kind].cap + Cardinality(Clerks) - 1
    BY <1>1, <1>3, <2>1, <2>2, ClerksSize DEF GroupOK
  <2>. QED  BY <1>3, <2>3 DEF GroupOK
<1>. QED  BY <1>2, <1>3

\* A request has looked and found room for its document in group n.
LEMMA GroupJoins ==
    ASSUME RecInv, NEW n \in Names, NEW d \in Docs,
           UNCHANGED <<kind, rec, patched>>,
           task' \in [Clerks -> TaskStates], d \in Coming(task', n), RoomFor(n, d)
    PROVE  GroupOK(n)'
<1>1. Members(n)' = Members(n)
  BY DEF Members
<1>2. Schema[kind].cap \in Nat /\ GroupOK(n)
  BY RecParts, SchemaIs
<1>3. CASE Schema[kind].unique
  BY <1>1, <1>2, <1>3 DEF GroupOK
<1>4. CASE ~Schema[kind].unique
  <2> DEFINE others == Members(n) \ {d}
             coming == Coming(task', n)
  <2>1. Group(n)' \in SUBSET (others \cup coming)
    BY <1>1 DEF Group
  <2>2. others \in SUBSET Docs /\ coming \in SUBSET Docs
    BY GroupType, ComingType
  <2>3. Cardinality(others) < Schema[kind].cap
    BY RecAssumption DEF RoomFor
  <2>4. Cardinality(coming) <= Cardinality(Clerks)
    BY ComingSize
  <2> HIDE DEF others, coming
  <2>5. others \cap coming \in SUBSET Docs /\ others \cup coming \in SUBSET Docs
        /\ Group(n)' \in SUBSET Docs
    BY <2>1, <2>2
  <2>6. /\ Cardinality(others) \in Nat /\ Cardinality(coming) \in Nat
        /\ Cardinality(others \cap coming) \in Nat
        /\ Cardinality(others \cup coming) \in Nat /\ IsFiniteSet(others \cup coming)
        /\ Cardinality(Group(n)') \in Nat
    BY <2>2, <2>5, Sizes
  <2>7. Cardinality(others \cup coming)
          = Cardinality(others) + Cardinality(coming) - Cardinality(others \cap coming)
    BY <2>2, Sizes, FS_Union
  <2>8. Cardinality(Group(n)') <= Cardinality(others \cup coming)
    BY <2>1, <2>6, FS_Subset
  <2>9. Cardinality(Group(n)') <= Schema[kind].cap + Cardinality(Clerks) - 1
    BY <1>2, <2>3, <2>4, <2>6, <2>7, <2>8, ClerksSize
  <2>. QED  BY <1>4, <2>9 DEF GroupOK
<1>. QED  BY <1>3, <1>4

\* A document is saved under name n that was coming, or that the index lets in.
LEMMA GroupSaves ==
    ASSUME RecInv, NEW n \in Names, NEW d \in Docs,
           kind' = kind, patched' \in {patched, patched \ {d}},
           task' \in [Clerks -> TaskStates],
           Coming(task', n) \subseteq Coming(task, n),
           Members(n)' \subseteq Members(n) \cup {d},
           ~Duplicate(n, d), d \in Coming(task, n) \/ Schema[kind].unique
    PROVE  GroupOK(n)'
<1>1. CASE Schema[kind].unique
  BY <1>1 DEF GroupOK, Duplicate
<1>2. CASE ~Schema[kind].unique
  BY <1>2, GroupFrame DEF Group
<1>. QED  BY <1>1, <1>2

\* One request changes, and no document: it enters no group without a look.
LEMMA TaskChanges ==
    ASSUME RecInv, NEW c \in Clerks, NEW u \in TaskStates, TaskOK(u),
           task' = [task EXCEPT ![c] = u], UNCHANGED <<kind, rec, patched>>,
           u.pc = "insert" => \A e \in Clerks :
              task[e].pc = "insert" => task[e].doc # u.doc,
           \A n \in Names : Enters(u, n) => RoomFor(n, u.doc)
    PROVE  RecInv'
<1>1. task' \in [Clerks -> TaskStates]
  BY RecParts
<1>2. RecTypeOK'
  BY <1>1, RecParts DEF RecTypeOK, DocStates, TaskStates
<1>3. ASSUME NEW n \in Names PROVE GroupOK(n)'
  <2>1. CASE Enters(u, n)
    <3>1. u.doc \in Coming(task', n) /\ u.doc \in Docs
      BY <2>1, RecParts DEF Coming, Entering, TaskStates
    <3>. QED  BY <1>1, <2>1, <3>1, GroupJoins
  <2>2. CASE ~Enters(u, n)
    <3>1. Members(n)' = Members(n)
      BY DEF Members
    <3>2. Coming(task', n) \subseteq Coming(task, n)
      BY <2>2, RecParts DEF Coming, Entering
    <3>. QED  BY <1>1, <3>1, <3>2, GroupFrame DEF Group
  <2>. QED  BY <2>1, <2>2
<1>4. ASSUME NEW e \in Clerks PROVE TaskOK(task[e])'
  <2>1. PICK t \in TaskStates : t = task'[e] /\ TaskOK(t)
    BY RecParts
  <2>2. \A n : Members(n)' = Members(n)
    BY DEF Members
  <2>. QED  BY <2>1, <2>2 DEF TaskOK
<1>5. ASSUME NEW e \in Clerks, NEW f \in Clerks, e # f,
             task'[e].pc = "insert", task'[f].pc = "insert"
      PROVE  task'[e].doc # task'[f].doc
  BY <1>5, RecParts DEF RecInv
<1>. QED  BY <1>2, <1>3, <1>4, <1>5 DEF RecInv

\* A request that is not the one that writes goes on as it was: its document
\* is still new, and what a seed has passed is there, or noted as deleted.
LEMMA TaskKept ==
    ASSUME RecInv, NEW c \in Clerks, kind' = kind,
           NEW u \in TaskStates, task'[c] = u, u.pc = task[c].pc,
           u.doc = task[c].doc, u.name = task[c].name, u.todo = task[c].todo,
           u.to = task[c].to,
           task[c].gone \subseteq u.gone,
           u.pc = "insert" => rec'[u.doc].state = "none",
           u.pc \in {"seed", "add", "seeded"} => \A n \in Names :
              Members(n) # {} => Members(n)' # {} \/ n \in u.gone
    PROVE  TaskOK(task[c])'
<1>1. TaskOK(task[c])
  BY RecParts
<1>. QED  BY <1>1 DEF TaskOK
-----------------------------------------------------------------------------
LEMMA StartCreateStep ==
    ASSUME RecInv, NEW c \in Clerks, NEW d \in Docs, NEW n \in Names \cup {NoName},
           kind = "feature" => n # NoName, StartCreate(c, d, n)
    PROVE  RecInv'
<1> DEFINE u == [NoTask EXCEPT !.pc = "insert", !.doc = d, !.name = n]
<1>1. task' = [task EXCEPT ![c] = u] /\ UNCHANGED <<kind, rec, patched>>
  BY DEF StartCreate
<1>2. u \in TaskStates /\ u.pc = "insert" /\ u.doc = d /\ u.name = n /\ u.to = "same"
  BY NoTaskOK DEF TaskStates, NoTask
<1> HIDE DEF u
<1>3. /\ rec[d].state = "none" /\ RoomFor(n, d)
      /\ \A e \in Clerks : task[e].pc = "insert" => task[e].doc # d
  BY DEF StartCreate, NewId
<1>4. TaskOK(u)
  BY <1>2, <1>3 DEF TaskOK
<1>5. \A m : Enters(u, m) => RoomFor(m, u.doc)
  BY <1>2, <1>3 DEF Enters
<1>. QED  BY <1>1, <1>2, <1>3, <1>4, <1>5, TaskChanges

LEMMA StartUpdateStep ==
    ASSUME RecInv, NEW c \in Clerks, NEW d \in Docs, NEW n \in Names \cup {NoName},
           NEW to \in {"same", "live", "off"}, to # "same" => kind = "filter",
           kind # "feature", StartUpdate(c, d, n, to)
    PROVE  RecInv'
<1> DEFINE new == n # rec[d].name
           turn == IF to = rec[d].state THEN "same" ELSE to
           pc == IF new /\ n # NoName THEN "check" ELSE "write"
           name == IF new THEN n ELSE NoName
           u == [NoTask EXCEPT !.pc = pc, !.doc = d, !.renames = new, !.to = turn,
                               !.name = name]
<1>1. task' = [task EXCEPT ![c] = u] /\ UNCHANGED <<kind, rec, patched>>
  BY DEF StartUpdate
<1>2. /\ pc \in {"check", "write"} /\ (pc = "write" => name = NoName)
      /\ turn \in {"same", "live", "off"} /\ (turn # "same" => kind = "filter")
      /\ new \in BOOLEAN /\ name \in Names \cup {NoName}
  OBVIOUS
<1> HIDE DEF pc, new, turn, name
<1>3. u \in TaskStates /\ u.pc = pc /\ u.doc = d /\ u.name = name /\ u.to = turn
  BY <1>2, NoTaskOK DEF TaskStates
<1> HIDE DEF u
<1>4. TaskOK(u)
  BY <1>2, <1>3 DEF TaskOK
<1>5. \A m \in Names : ~Enters(u, m)
  BY <1>2, <1>3, RecAssumption DEF Enters
<1>. QED  BY <1>1, <1>2, <1>3, <1>4, <1>5, TaskChanges

LEMMA StartRemoveStep ==
    ASSUME RecInv, NEW c \in Clerks, NEW d \in Docs, kind # "feature", StartRemove(c, d)
    PROVE  RecInv'
<1> DEFINE u == [NoTask EXCEPT !.pc = "remove", !.doc = d]
<1>1. task' = [task EXCEPT ![c] = u] /\ UNCHANGED <<kind, rec, patched>>
  BY DEF StartRemove
<1>2. u \in TaskStates /\ u.pc = "remove" /\ u.to = "same"
  BY NoTaskOK DEF TaskStates, NoTask
<1> HIDE DEF u
<1>3. TaskOK(u) /\ \A m : ~Enters(u, m)
  BY <1>2 DEF TaskOK, Enters
<1>. QED  BY <1>1, <1>2, <1>3, TaskChanges

LEMMA EndsAlone ==
    ASSUME RecInv, NEW c \in Clerks, EndTask(c), UNCHANGED <<kind, rec, patched>>
    PROVE  RecInv'
BY NoTaskOK, TaskChanges DEF EndTask

LEMMA SeedSteps ==
    ASSUME RecInv, NEW c \in Clerks, FeatureSeed(c) \/ SeedLook(c) \/ SeedAnswer(c)
    PROVE  RecInv'
<1> DEFINE t == task[c]
<1>1. t \in TaskStates /\ TaskOK(t) /\ UNCHANGED <<kind, rec, patched>>
  BY RecParts DEF FeatureSeed, SeedLook, SeedAnswer
<1>2. CASE FeatureSeed(c)
  <2> DEFINE u == [NoTask EXCEPT !.pc = "seed", !.todo = Names]
  <2>1. task' = [task EXCEPT ![c] = u] /\ kind = "feature"
    BY <1>2 DEF FeatureSeed
  <2>2. u \in TaskStates /\ u.pc = "seed" /\ u.todo = Names /\ u.to = "same"
    BY NoTaskOK DEF TaskStates, NoTask
  <2> HIDE DEF u
  <2>3. TaskOK(u) /\ \A m : ~Enters(u, m)
    BY <2>1, <2>2 DEF TaskOK, Enters
  <2>. QED  BY <1>1, <2>1, <2>2, <2>3, TaskChanges
<1>3. CASE SeedLook(c)
  <2>1. PICK n \in t.todo : SeedKey(c, n)
    BY <1>3 DEF SeedLook
  <2> DEFINE left == t.todo \ {n}
             pc == IF Members(n) = {} THEN "add" ELSE "seed"
             u == [t EXCEPT !.pc = pc, !.name = n, !.todo = left]
  <2>2. task' = [task EXCEPT ![c] = u] /\ t.pc = "seed"
    BY <1>3, <2>1, RecParts DEF SeedLook, SeedKey
  <2>3. left \in SUBSET Names /\ n \in Names
    BY <1>1 DEF TaskStates
  <2>4. /\ \A m \in Names : m \in left \/ m = n \/ m \in t.gone \/ Members(m) # {}
        /\ kind = "feature"
    BY <1>1, <2>2 DEF TaskOK
  <2>5. pc \in {"add", "seed"} /\ (pc = "seed" => Members(n) # {})
    OBVIOUS
  <2> HIDE DEF left, pc
  <2>6. /\ u \in TaskStates /\ u.pc = pc /\ u.name = n /\ u.todo = left
        /\ u.gone = t.gone /\ u.to = t.to
    BY <1>1, <2>3, <2>5 DEF TaskStates
  <2> HIDE DEF u
  <2>7. TaskOK(u) /\ \A m : ~Enters(u, m)
    BY <1>1, <2>3, <2>4, <2>5, <2>6 DEF TaskOK, Enters
  <2>. QED  BY <1>1, <2>2, <2>5, <2>6, <2>7, TaskChanges
<1>4. CASE SeedAnswer(c) /\ t.pc = "seed"
  <2> DEFINE u == [t EXCEPT !.pc = "seeded"]
  <2>1. task' = [task EXCEPT ![c] = u]
    BY <1>4, RecParts DEF SeedAnswer
  <2>2. /\ u \in TaskStates /\ u.pc = "seeded" /\ u.todo = t.todo
        /\ u.gone = t.gone /\ u.to = t.to
    BY <1>1 DEF TaskStates
  <2> HIDE DEF u
  <2>3. TaskOK(u) /\ \A m : ~Enters(u, m)
    BY <1>1, <1>4, <2>2 DEF TaskOK, Enters
  <2>. QED  BY <1>1, <2>1, <2>2, <2>3, TaskChanges
<1>5. CASE SeedAnswer(c) /\ t.pc # "seed"
  BY <1>1, <1>5, EndsAlone DEF SeedAnswer
<1>. QED  BY <1>2, <1>3, <1>4, <1>5

LEMMA CheckNameStep ==
    ASSUME RecInv, NEW c \in Clerks, CheckName(c)
    PROVE  RecInv'
<1> DEFINE t == task[c]
           u == [t EXCEPT !.pc = "write"]
<1>1. /\ t \in TaskStates /\ TaskOK(t) /\ t.pc = "check"
      /\ UNCHANGED <<kind, rec, patched>>
  BY RecParts DEF CheckName
<1>2. CASE RoomFor(t.name, t.doc)
  <2>1. task' = [task EXCEPT ![c] = u]
    BY <1>2, RecParts DEF CheckName
  <2>2. u \in TaskStates /\ u.pc = "write" /\ u.doc = t.doc /\ u.name = t.name
        /\ u.to = t.to
    BY <1>1 DEF TaskStates
  <2> HIDE DEF u
  <2>3. TaskOK(u) /\ \A m : Enters(u, m) => RoomFor(m, u.doc)
    BY <1>1, <1>2, <2>2 DEF TaskOK, Enters
  <2>. QED  BY <1>1, <2>1, <2>2, <2>3, TaskChanges
<1>3. CASE ~RoomFor(t.name, t.doc)
  BY <1>1, <1>3, EndsAlone DEF CheckName
<1>. QED  BY <1>2, <1>3
-----------------------------------------------------------------------------
\* One document is written, by a request that ends or goes on with its seed.
LEMMA OneDoc ==
    ASSUME RecInv, NEW c \in Clerks, NEW d \in Docs, NEW v \in DocStates,
           NEW u \in TaskStates,
           u.to = "same",
           \/ u.pc = "idle"
           \/ /\ u.pc = "seed" /\ kind = "feature"
              /\ \A n \in Names : \/ n \in u.todo \/ n \in u.gone
                                 \/ \E e \in Docs : rec'[e].state = "live"
                                                   /\ rec'[e].name = n,
           \A n \in Names : ~Enters(u, n),
           task' = [task EXCEPT ![c] = u], rec' = [rec EXCEPT ![d] = v],
           kind' = kind, patched' \in {patched, patched \ {d}},
           \A e \in Clerks : e # c /\ task[e].pc = "insert" /\ task[e].doc = d =>
              v.state = "none",
           kind = "feature" =>
              rec[d].state # "live" /\ (v.state = "live" => v.name \in Names),
           \A n \in Names : v.state = "live" /\ v.name = n =>
              \/ d \in Members(n) /\ patched' = patched
              \/ /\ ~Duplicate(n, d)
                 /\ \/ Enters(task[c], n) /\ task[c].doc = d
                    \/ Schema[kind].unique
    PROVE  RecInv'
<1>1. /\ task' \in [Clerks -> TaskStates] /\ rec' \in [Docs -> DocStates]
      /\ RecTypeOK'
  BY RecParts DEF RecTypeOK, DocStates, TaskStates
<1>2. \A n : Members(n)' \subseteq Members(n) \cup {d}
  BY RecParts DEF Members
<1>3. \A n \in Names : Coming(task', n) \subseteq Coming(task, n)
  BY RecParts DEF Coming, Entering
<1>4. ASSUME NEW n \in Names PROVE GroupOK(n)'
  <2>1. CASE v.state = "live" /\ v.name = n
               /\ ~(d \in Members(n) /\ patched' = patched)
    <3>1. ~Duplicate(n, d) /\ (d \in Coming(task, n) \/ Schema[kind].unique)
      BY <2>1 DEF Coming, Entering
    <3>. QED  BY <1>1, <1>2, <1>3, <3>1, GroupSaves
  <2>2. CASE ~(v.state = "live" /\ v.name = n)
    <3>1. Members(n)' \subseteq Members(n) \ {d}
      BY <2>2, RecParts DEF Members
    <3>. QED  BY <1>1, <1>3, <3>1, GroupFrame DEF Group
  <2>3. CASE v.state = "live" /\ v.name = n /\ d \in Members(n) /\ patched' = patched
    <3>1. Members(n)' \subseteq Members(n)
      BY <2>3, RecParts DEF Members
    <3>. QED  BY <1>1, <1>3, <2>3, <3>1, GroupFrame DEF Group
  <2>. QED  BY <2>1, <2>2, <2>3
<1>5. ASSUME NEW e \in Clerks PROVE TaskOK(task[e])'
  <2>1. CASE e = c
    <3>1. task'[e] = u
      BY <2>1, RecParts
    <3>. QED  BY <3>1 DEF TaskOK, Members
  <2>2. CASE e # c
    <3>1. task'[e] = task[e] /\ task[e] \in TaskStates /\ TaskOK(task[e])
      BY <2>2, RecParts
    <3>2. task[e].pc = "insert" => rec'[task[e].doc].state = "none"
      BY <2>2, <3>1, RecParts DEF TaskOK, TaskStates
    <3>3. kind = "feature" => \A n : Members(n) \subseteq Members(n)'
      BY RecParts DEF Members
    <3>4. task[e].pc \in {"seed", "add", "seeded"} => kind = "feature"
      BY <3>1 DEF TaskOK
    <3>. QED  BY <3>1, <3>2, <3>3, <3>4, TaskKept
  <2>. QED  BY <2>1, <2>2
<1>6. ASSUME NEW e \in Clerks, NEW f \in Clerks, e # f,
             task'[e].pc = "insert", task'[f].pc = "insert"
      PROVE  task'[e].doc # task'[f].doc
  BY <1>6, RecParts DEF RecInv
<1>7. kind' = "feature" =>
         \A e \in Docs : rec'[e].state = "live" => rec'[e].name \in Names
  BY RecParts DEF RecInv
<1>. QED  BY <1>1, <1>4, <1>5, <1>6, <1>7 DEF RecInv

\* The request that writes it ends.
LEMMA OneDocEnds ==
    ASSUME RecInv, NEW c \in Clerks, NEW d \in Docs, NEW v \in DocStates,
           EndTask(c), rec' = [rec EXCEPT ![d] = v],
           kind' = kind, patched' \in {patched, patched \ {d}},
           kind # "feature" \/ (rec[d].state # "live" /\ v.name \in Names),
           \A e \in Clerks : e # c /\ task[e].pc = "insert" /\ task[e].doc = d =>
              v.state = "none",
           v.state = "live" /\ v.name \in Names =>
              \/ d \in Members(v.name) /\ patched' = patched
              \/ /\ ~Duplicate(v.name, d)
                 /\ Enters(task[c], v.name) /\ task[c].doc = d
    PROVE  RecInv'
<1>1. PICK u \in TaskStates :
        u = NoTask /\ u.pc = "idle" /\ u.to = "same" /\ \A n : ~Enters(u, n)
  BY NoTaskOK DEF NoTask
<1>2. task' = [task EXCEPT ![c] = u]
  BY <1>1 DEF EndTask
<1>3. \A n \in Names : v.state = "live" /\ v.name = n =>
         \/ d \in Members(n) /\ patched' = patched
         \/ /\ ~Duplicate(n, d)
            /\ \/ Enters(task[c], n) /\ task[c].doc = d
               \/ Schema[kind].unique
  OBVIOUS
<1>4. kind = "feature" =>
         rec[d].state # "live" /\ (v.state = "live" => v.name \in Names)
  OBVIOUS
<1>. QED  BY <1>1, <1>2, <1>3, <1>4, OneDoc

LEMMA InsertRecordStep ==
    ASSUME RecInv, NEW c \in Clerks, InsertRecord(c)
    PROVE  RecInv'
<1>1. PICK t \in TaskStates : t = task[c] /\ TaskOK(t)
  BY RecParts
<1>2. PICK v : v = [state |-> "live", name |-> t.name]
  OBVIOUS
<1>3. /\ t.pc = "insert" /\ t.doc \in Docs /\ t.name \in Names \cup {NoName}
      /\ UNCHANGED <<kind, patched>> /\ EndTask(c)
  BY <1>1 DEF InsertRecord, TaskStates
<1>4. v \in DocStates /\ v.state = "live" /\ v.name = t.name
  BY <1>2, <1>3 DEF DocStates
<1>5. CASE Duplicate(t.name, t.doc)
  BY <1>1, <1>3, <1>5, EndsAlone DEF InsertRecord
<1>6. CASE ~Duplicate(t.name, t.doc)
  <2>1. rec' = [rec EXCEPT ![t.doc] = v]
    BY <1>1, <1>2, <1>6 DEF InsertRecord
  <2>2. \A e \in Clerks : e # c /\ task[e].pc = "insert" => task[e].doc # t.doc
    BY <1>1, <1>3 DEF RecInv
  <2>3. rec[t.doc].state = "none" /\ (kind = "feature" => t.name \in Names)
    BY <1>1, <1>3 DEF TaskOK
  <2>4. Enters(t, t.name)
    BY <1>3 DEF Enters
  <2>. QED  BY <1>1, <1>3, <1>4, <1>6, <2>1, <2>2, <2>3, <2>4, OneDocEnds
<1>. QED  BY <1>5, <1>6

\* A filter is switched on again without a look: its document is noted.
LEMMA ReviveStep ==
    ASSUME RecInv, NEW c \in Clerks, NEW d \in Docs, NEW v \in DocStates,
           kind = "filter", rec[d].state # "none", v.state = "live",
           EndTask(c), rec' = [rec EXCEPT ![d] = v],
           patched' = patched \cup {d}, UNCHANGED kind
    PROVE  RecInv'
<1>1. PICK u \in TaskStates : u = NoTask /\ \A n : ~Enters(u, n)
  BY NoTaskOK
<1>2. task' = [task EXCEPT ![c] = u] /\ task' \in [Clerks -> TaskStates]
  BY <1>1, RecParts DEF EndTask
<1>3. rec' \in [Docs -> DocStates] /\ RecTypeOK'
  BY <1>2, RecParts DEF RecTypeOK, DocStates, TaskStates
<1>4. ASSUME NEW n \in Names PROVE GroupOK(n)'
  <2>1. Members(n)' \ patched' \subseteq Members(n) \ patched
    BY RecParts DEF Members
  <2>2. Coming(task', n) \subseteq Coming(task, n)
    BY <1>1, <1>2, RecParts DEF Coming, Entering
  <2>3. Group(n)' \subseteq Group(n)
    BY <2>1, <2>2 DEF Group
  <2>. QED  BY <1>2, <2>3, RecParts, SchemaIs, GroupFrame
<1>5. ASSUME NEW e \in Clerks PROVE TaskOK(task[e])'
  <2>1. CASE e = c
    BY <1>1, <1>2, <2>1, NoTaskOK, RecParts
  <2>2. CASE e # c
    <3>1. task[e] \in TaskStates /\ TaskOK(task[e]) /\ task'[e] = task[e]
      BY <1>2, <2>2, RecParts
    <3>2. /\ task[e].pc = "insert" => rec'[task[e].doc].state = "none"
          /\ task[e].pc \notin {"seed", "add", "seeded"}
      BY <3>1, RecParts DEF TaskOK, TaskStates
    <3>. QED  BY <3>1, <3>2, TaskKept
  <2>. QED  BY <2>1, <2>2
<1>6. ASSUME NEW e \in Clerks, NEW f \in Clerks, e # f,
             task'[e].pc = "insert", task'[f].pc = "insert"
      PROVE  task'[e].doc # task'[f].doc
  BY <1>1, <1>2, <1>6, RecParts, NoTaskOK DEF RecInv
<1>. QED  BY <1>3, <1>4, <1>5, <1>6 DEF RecInv

LEMMA WriteRecordStep ==
    ASSUME RecInv, NEW c \in Clerks, WriteRecord(c)
    PROVE  RecInv'
<1>1. PICK t \in TaskStates : t = task[c] /\ TaskOK(t)
  BY RecParts
<1>2. PICK d \in Docs : d = t.doc
  BY DEF TaskStates
<1>3. /\ t.pc = "write" /\ kind # "feature" /\ rec[d] \in DocStates
      /\ t.name \in Names \cup {NoName} /\ t.to \in {"same", "live", "off"}
      /\ t.to # "same" => kind = "filter"
      /\ kind' = kind /\ EndTask(c)
  BY <1>1, <1>2, RecParts DEF WriteRecord, TaskStates, TaskOK
<1>4. PICK v : v = [state |-> IF t.to = "same" THEN rec[d].state ELSE t.to,
                    name  |-> IF t.renames THEN t.name ELSE rec[d].name]
  OBVIOUS
<1>5. /\ v \in DocStates
      /\ v.state = IF t.to = "same" THEN rec[d].state ELSE t.to
      /\ v.name = IF t.renames THEN t.name ELSE rec[d].name
  BY <1>3, <1>4 DEF DocStates
<1>6. CASE rec[d].state = "none" \/ Duplicate(t.name, d)
  BY <1>1, <1>2, <1>3, <1>6, EndsAlone DEF WriteRecord
<1>7. CASE ~(rec[d].state = "none" \/ Duplicate(t.name, d))
  <2>1. /\ rec' = [rec EXCEPT ![d] = v]
        /\ patched' = IF Revives(t) THEN patched \cup {d}
                      ELSE IF t.renames \/ t.to = "off"
                      THEN patched \ {d} ELSE patched
    BY <1>1, <1>2, <1>4, <1>7 DEF WriteRecord
  <2>2. CASE Revives(t)
    <3>1. t.to = "live" /\ kind = "filter" /\ v.state = "live"
      BY <1>3, <1>5, <2>2 DEF Revives
    <3>. QED  BY <1>3, <1>5, <1>7, <2>1, <2>2, <3>1, ReviveStep
  <2>3. CASE ~Revives(t)
    <3>1. \A e \in Clerks : task[e].pc = "insert" => task[e].doc # d
      BY <1>7, RecParts DEF TaskOK
    <3>2. t.renames => Enters(t, t.name)
      BY <1>3 DEF Enters
    <3>3. ASSUME v.state = "live", v.name \in Names
          PROVE  \/ d \in Members(v.name) /\ patched' = patched
                 \/ ~Duplicate(v.name, d) /\ Enters(task[c], v.name) /\ task[c].doc = d
      <4>1. CASE t.renames
        BY <1>1, <1>2, <1>5, <1>7, <3>2, <4>1
      <4>2. CASE ~t.renames
        <5>1. rec[d].state = "live" /\ rec[d].name = v.name /\ patched' = patched
          BY <1>2, <1>3, <1>5, <1>7, <2>1, <2>3, <3>3, <4>2 DEF Revives, DocStates
        <5>. QED  BY <5>1 DEF Members
      <4>. QED  BY <4>1, <4>2
    <3>4. patched' \in {patched, patched \ {d}}
      BY <2>1, <2>3
    <3>. QED  BY <1>3, <1>5, <2>1, <3>1, <3>3, <3>4, OneDocEnds
  <2>. QED  BY <2>2, <2>3
<1>. QED  BY <1>6, <1>7

LEMMA RemoveRecordStep ==
    ASSUME RecInv, NEW c \in Clerks, RemoveRecord(c)
    PROVE  RecInv'
<1>1. PICK t \in TaskStates : t = task[c] /\ TaskOK(t)
  BY RecParts
<1>2. PICK d \in Docs : d = t.doc
  BY DEF TaskStates
<1>3. PICK v : v = [state |-> "none", name |-> NoName]
  OBVIOUS
<1>4. /\ t.pc = "remove" /\ kind # "feature" /\ rec[d] \in DocStates
      /\ UNCHANGED <<kind, patched>> /\ EndTask(c)
  BY <1>1, RecParts DEF RemoveRecord, TaskOK
<1>5. rec' = [rec EXCEPT ![d] = v]
  BY <1>1, <1>2, <1>3, RecParts DEF RemoveRecord
<1>6. v \in DocStates /\ v.state = "none"
  BY <1>3 DEF DocStates
<1>. QED  BY <1>4, <1>5, <1>6, OneDocEnds

LEMMA SeedAddStep ==
    ASSUME RecInv, NEW c \in Clerks, NEW d \in Docs, SeedAdd(c, d)
    PROVE  RecInv'
<1>1. PICK t \in TaskStates : t = task[c] /\ TaskOK(t)
  BY RecParts
<1>2. PICK n \in Names : n = t.name /\ kind = "feature" /\ Schema[kind].unique
  BY <1>1, RecParts, SchemaIs DEF TaskOK, SeedAdd
<1>3. PICK v : v = [state |-> "live", name |-> n]
  OBVIOUS
<1>4. PICK u : u = [t EXCEPT !.pc = "seed"]
  OBVIOUS
<1>5. v \in DocStates /\ v.state = "live" /\ v.name = n
  BY <1>2, <1>3 DEF DocStates
<1>0. t.to = "same"
  BY <1>1, <1>2 DEF TaskOK
<1>6. u \in TaskStates /\ u.pc = "seed" /\ u.todo = t.todo /\ u.gone = t.gone
      /\ u.to = "same"
  BY <1>1, <1>2, <1>4, <1>0 DEF TaskStates
<1>7. t.pc = "add" /\ NewId(d) /\ UNCHANGED <<kind, patched>>
  BY <1>1 DEF SeedAdd
<1>8. CASE Duplicate(n, d)
  BY <1>1, <1>2, <1>7, <1>8, EndsAlone DEF SeedAdd
<1>9. CASE ~Duplicate(n, d)
  <2>1. rec' = [rec EXCEPT ![d] = v] /\ task' = [task EXCEPT ![c] = u]
    BY <1>1, <1>2, <1>3, <1>4, <1>9, RecParts DEF SeedAdd
  <2>2. rec[d].state = "none" /\ \A e \in Clerks :
           task[e].pc = "insert" => task[e].doc # d
    BY <1>7 DEF NewId
  <2>3. d \in Members(n)'
    BY <1>5, <2>1, RecParts DEF Members
  <2>4. \A m \in Names : Members(m) \subseteq Members(m)'
    BY <2>1, <2>2, RecParts DEF Members
  <2>5. \A m \in Names : \/ m \in u.todo \/ m \in u.gone
                          \/ \E e \in Docs : rec'[e].state = "live" /\ rec'[e].name = m
    <3>1. \A m \in Names : m \in t.todo \/ m \in t.gone \/ Members(m)' # {}
      BY <1>1, <1>2, <1>7, <2>3, <2>4 DEF TaskOK
    <3>. QED  BY <1>6, <3>1 DEF Members
  <2>6. \A m \in Names : ~Enters(u, m)
    BY <1>6 DEF Enters
  <2>7. \A m \in Names : v.state = "live" /\ v.name = m =>
           \/ d \in Members(m) /\ patched' = patched
           \/ /\ ~Duplicate(m, d)
              /\ \/ Enters(task[c], m) /\ task[c].doc = d
                 \/ Schema[kind].unique
    BY <1>2, <1>5, <1>9
  <2>8. kind = "feature" =>
           rec[d].state # "live" /\ (v.state = "live" => v.name \in Names)
    BY <1>2, <1>5, <2>2
  <2>9. \/ u.pc = "idle"
        \/ /\ u.pc = "seed" /\ kind = "feature"
           /\ \A m \in Names : \/ m \in u.todo \/ m \in u.gone
                              \/ \E e \in Docs : rec'[e].state = "live"
                                                /\ rec'[e].name = m
    BY <1>2, <1>6, <2>5
  <2>10. \A e \in Clerks : e # c /\ task[e].pc = "insert" /\ task[e].doc = d =>
            v.state = "none"
    BY <2>2
  <2>11. /\ u \in TaskStates /\ u.to = "same" /\ v \in DocStates
         /\ UNCHANGED <<kind, patched>>
    BY <1>5, <1>6, <1>7
  <2>. QED  BY <2>1, <2>6, <2>7, <2>8, <2>9, <2>10, <2>11, OneDoc
<1>. QED  BY <1>8, <1>9

LEMMA DeleteNowStep ==
    ASSUME RecInv, NEW d \in Docs, DeleteNow(d)
    PROVE  RecInv'
<1>0. /\ rec[d].state = "live" /\ kind' = kind /\ patched' = patched \ {d}
      /\ rec' = [rec EXCEPT ![d] = [state |-> "none", name |-> NoName]]
      /\ task' = [c \in Clerks |-> IF task[c].pc \in {"seed", "add", "seeded"}
                                   THEN Gone(task[c], d) ELSE task[c]]
  BY DEF DeleteNow
<1>1. ASSUME NEW c \in Clerks
      PROVE  /\ task'[c] \in TaskStates /\ task'[c].pc = task[c].pc
             /\ task'[c].doc = task[c].doc /\ task'[c].name = task[c].name
             /\ task'[c].renames = task[c].renames /\ task'[c].to = task[c].to
             /\ task'[c].todo = task[c].todo /\ task[c].gone \subseteq task'[c].gone
             /\ task'[c].pc \in {"seed", "add", "seeded"} => rec[d].name \in task'[c].gone
  <2>1. task[c] \in TaskStates /\ TaskOK(task[c])
    BY RecParts
  <2>2. CASE task[c].pc \in {"seed", "add", "seeded"}
    <3>1. rec[d].name \in Names
      BY <1>0, <2>1, <2>2 DEF TaskOK, RecInv
    <3> DEFINE g == task[c].gone \cup {rec[d].name}
    <3>2. task'[c] = [task[c] EXCEPT !.gone = g]
      BY <1>0, <2>2 DEF Gone
    <3>3. g \in SUBSET Names /\ rec[d].name \in g /\ task[c].gone \subseteq g
      BY <2>1, <3>1 DEF TaskStates
    <3> HIDE DEF g
    <3>. QED  BY <2>1, <3>2, <3>3 DEF TaskStates
  <2>3. CASE task[c].pc \notin {"seed", "add", "seeded"}
    BY <1>0, <2>1, <2>3
  <2>. QED  BY <2>2, <2>3
<1>2. /\ task' \in [Clerks -> TaskStates]
      /\ [state |-> "none", name |-> NoName] \in DocStates
  BY <1>0, <1>1 DEF DocStates
<1>3. rec' \in [Docs -> DocStates] /\ patched' \subseteq Docs
  BY <1>0, <1>2, RecParts
<1>4. RecTypeOK'
  BY <1>0, <1>2, <1>3, RecParts DEF RecTypeOK, DocStates, TaskStates
<1>5. ASSUME NEW n \in Names
      PROVE  Members(n)' \subseteq Members(n) \ {d}
             /\ (n = rec[d].name \/ Members(n)' = Members(n))
  BY <1>0, RecParts DEF Members
<1>6. ASSUME NEW n \in Names PROVE GroupOK(n)'
  <2>1. Coming(task', n) = Coming(task, n)
    <3>1. \A c \in Clerks : Enters(task'[c], n) <=> Enters(task[c], n)
      BY <1>1 DEF Enters
    <3>. QED  BY <1>1, <3>1 DEF Coming, Entering
  <2>2. Members(n)' \ patched' \subseteq Members(n) \ patched
    BY <1>0, <1>5
  <2>. QED  BY <1>0, <1>2, <1>5, <2>1, <2>2, GroupFrame DEF Group
<1>7. ASSUME NEW c \in Clerks PROVE TaskOK(task[c])'
  <2>1. PICK u \in TaskStates : u = task'[c]
    BY <1>1
  <2>2. u.pc = "insert" => rec'[u.doc].state = "none"
    BY <1>0, <1>1, <2>1, RecParts DEF TaskOK
  <2>3. u.pc \in {"seed", "add", "seeded"} => \A n \in Names :
           Members(n) # {} => Members(n)' # {} \/ n \in u.gone
    BY <1>1, <1>5, <2>1
  <2>. QED  BY <1>0, <1>1, <2>1, <2>2, <2>3, TaskKept
<1>8. ASSUME NEW e \in Clerks, NEW f \in Clerks, e # f,
             task'[e].pc = "insert", task'[f].pc = "insert"
      PROVE  task'[e].doc # task'[f].doc
  BY <1>1, <1>8 DEF RecInv
<1>9. kind' = "feature" =>
         \A e \in Docs : rec'[e].state = "live" => rec'[e].name \in Names
  BY <1>0, RecParts DEF RecInv
<1>. QED  BY <1>4, <1>6, <1>7, <1>8, <1>9 DEF RecInv

LEMMA StaffUpdateStep ==
    ASSUME RecInv, NEW d \in Docs, NEW n0 \in Names, StaffUpdate(d, n0)
    PROVE  RecInv'
<1> DEFINE v == [rec[d] EXCEPT !.name = n0]
<1>0. /\ kind = "staff" /\ rec[d].state = "live" /\ patched' = patched \cup {d}
      /\ rec' = [rec EXCEPT ![d] = v] /\ UNCHANGED <<kind, task>>
  BY RecParts DEF StaffUpdate
<1>1. v \in DocStates /\ v.state = "live"
  BY <1>0, RecParts DEF DocStates
<1> HIDE DEF v
<1>2. rec' \in [Docs -> DocStates] /\ RecTypeOK'
  BY <1>0, <1>1, RecParts DEF RecTypeOK, DocStates, TaskStates
<1>3. ASSUME NEW n \in Names PROVE GroupOK(n)'
  <2>1. Members(n)' \ patched' \subseteq Members(n) \ patched
    BY <1>0, <1>1, RecParts DEF Members
  <2>2. Group(n)' \subseteq Group(n)
    BY <1>0, <2>1 DEF Group
  <2>. QED  BY <1>0, <2>2, RecParts, SchemaIs, GroupFrame
<1>4. ASSUME NEW c \in Clerks PROVE TaskOK(task[c])'
  <2>1. task[c] \in TaskStates /\ TaskOK(task[c]) /\ task'[c] = task[c]
    BY <1>0, RecParts
  <2>2. /\ task[c].pc = "insert" => rec'[task[c].doc].state = "none"
        /\ task[c].pc \notin {"seed", "add", "seeded"}
    BY <1>0, <1>1, <2>1, RecParts DEF TaskOK, TaskStates
  <2>. QED  BY <1>0, <2>1, <2>2, TaskKept
<1>. QED  BY <1>0, <1>2, <1>3, <1>4 DEF RecInv
-----------------------------------------------------------------------------
LEMMA RecStep == RecInv /\ RecNext => RecInv'
<1> SUFFICES ASSUME RecInv, RecNext PROVE RecInv'
  OBVIOUS
<1>1. ASSUME NEW c \in Clerks, NEW d \in Docs, NEW n \in Names \cup {NoName},
             \/ TagCreate(c, d, n) \/ NoteCreate(c, d, n) \/ FilterCreate(c, d, n)
             \/ StaffCreate(c, d, n) \/ FeatureCreate(c, d, n)
      PROVE  RecInv'
  BY <1>1, StartCreateStep
     DEF TagCreate, NoteCreate, FilterCreate, StaffCreate, FeatureCreate
<1>2. ASSUME NEW c \in Clerks, NEW d \in Docs, NEW n \in Names \cup {NoName},
             NEW to \in {"same", "live", "off"},
             TagUpdate(c, d, n) \/ NoteUpdate(c, d, n) \/ FilterUpdate(c, d, n, to)
      PROVE  RecInv'
  BY <1>2, StartUpdateStep DEF TagUpdate, NoteUpdate, FilterUpdate
<1>3. ASSUME NEW c \in Clerks, NEW d \in Docs,
             TagRemove(c, d) \/ NoteRemove(c, d) \/ FilterRemove(c, d)
      PROVE  RecInv'
  <2>1. rec[d].name \in Names \cup {NoName}
    BY RecParts DEF DocStates
  <2>. QED  BY <1>3, <2>1, StartRemoveStep, StartUpdateStep
            DEF TagRemove, NoteRemove, FilterRemove
<1>4. ASSUME NEW d \in Docs, StaffRemove(d) \/ FeatureRemove(d)
      PROVE  RecInv'
  BY <1>4, DeleteNowStep DEF StaffRemove, FeatureRemove
<1>5. ASSUME NEW c \in Clerks, LoseTask(c) PROVE RecInv'
  BY <1>5, EndsAlone DEF LoseTask
<1>. QED  BY <1>1, <1>2, <1>3, <1>4, <1>5, StaffUpdateStep, SeedAddStep, SeedSteps,
             InsertRecordStep, CheckNameStep, WriteRecordStep, RemoveRecordStep
          DEF RecNext

LEMMA RecInitInv == RecInit => RecInv
<1> SUFFICES ASSUME RecInit PROVE RecInv
  OBVIOUS
<1>1. RecTypeOK
  BY NoTaskOK DEF RecInit, RecTypeOK, TaskStates
<1>2. ASSUME NEW n \in Names PROVE GroupOK(n)
  <2>1. Members(n) = {}
    BY DEF RecInit, Members
  <2>2. Coming(task, n) = {}
    BY NoTaskOK DEF RecInit, Coming, Entering
  <2>3. Group(n) = {}
    BY <2>1, <2>2 DEF Group
  <2>4. Cardinality(Group(n)) = 0 /\ Schema[kind].cap \in Nat
    BY <2>3, FS_EmptySet, SchemaIs DEF RecInit
  <2>. QED  BY <2>1, <2>4, ClerksSize DEF GroupOK
<1>. QED  BY <1>1, <1>2, NoTaskOK DEF RecInit, RecInv

LEMMA RecInvHolds == RecSpec => []RecInv
<1>1. RecInv /\ UNCHANGED recVars => RecInv'
  <2> SUFFICES ASSUME RecInv, UNCHANGED recVars PROVE RecInv'
    OBVIOUS
  <2>1. UNCHANGED <<kind, rec, task, patched>> /\ RecTypeOK'
    BY RecParts DEF recVars, RecTypeOK, DocStates, TaskStates
  <2>2. \A n : Members(n)' = Members(n)
    BY <2>1 DEF Members
  <2>3. ASSUME NEW n \in Names PROVE GroupOK(n)'
    <3>1. Coming(task', n) = Coming(task, n)
      BY <2>1
    <3>. QED  BY <2>1, <2>2, <3>1, RecParts, GroupFrame DEF Group
  <2>4. ASSUME NEW c \in Clerks PROVE TaskOK(task[c])'
    <3>1. PICK t \in TaskStates : t = task[c] /\ task'[c] = t /\ TaskOK(t)
      BY <2>1, RecParts
    <3>. QED  BY <2>1, <2>2, <3>1 DEF TaskOK
  <2>. QED  BY <2>1, <2>3, <2>4 DEF RecInv
<1>. QED  BY RecInitInv, RecStep, <1>1, PTL DEF RecSpec

\* No name is given to, and no place among the pinned notes taken by, more
\* documents than the rule and the requests at the same time account for (the
\* create and update of TagsService, PersonalNotesService, SavedFiltersService,
\* StaffService and FeaturesService), for every number of either.
THEOREM NamesTheorem == RecSpec => []NamesBounded
<1>1. RecInv => NamesBounded
  <2> SUFFICES ASSUME RecInv, NEW n \in Names
               PROVE  Cardinality(Members(n) \ patched)
                        <= Schema[kind].cap + (IF Schema[kind].unique THEN 0
                                               ELSE Cardinality(Clerks) - 1)
    BY DEF NamesBounded
  <2> DEFINE M == Members(n) \ patched
  <2>1. M \in SUBSET Docs /\ Group(n) \in SUBSET Docs /\ M \in SUBSET Group(n)
        /\ Schema[kind].cap \in Nat /\ GroupOK(n)
    BY RecParts, GroupType, SchemaIs DEF Group
  <2>2. CASE Schema[kind].unique
    <3>1. Schema[kind].cap = 1 /\ \A d, e \in M : d = e
      BY <2>1, <2>2, RecParts, SchemaIs DEF GroupOK
    <3> HIDE DEF M
    <3>2. M = {} \/ \E d : M = {d}
      BY <3>1
    <3>3. Cardinality(M) \in {0, 1}
      BY <3>2, FS_EmptySet, FS_Singleton
    <3>. QED  BY <2>2, <3>1, <3>3 DEF M
  <2>3. CASE ~Schema[kind].unique
    <3>1. Cardinality(Group(n)) <= Schema[kind].cap + Cardinality(Clerks) - 1
      BY <2>1, <2>3 DEF GroupOK
    <3> HIDE DEF M
    <3>2. Cardinality(M) <= Cardinality(Group(n)) /\ Cardinality(M) \in Nat
          /\ Cardinality(Group(n)) \in Nat
      BY <2>1, Sizes, FS_Subset
    <3>. QED  BY <2>1, <2>3, <3>1, <3>2, ClerksSize DEF M
  <2>. QED  BY <2>2, <2>3
<1>. QED  BY <1>1, RecInvHolds, PTL

\* A seed that answers has left every default feature in the catalogue
\* (FeaturesService.seedDefaultFeatures), whatever runs beside it.
THEOREM SeedTheorem == RecSpec => []SeedThorough
<1>1. RecInv => SeedThorough
  BY DEF RecInv, TaskOK, SeedThorough
<1>. QED  BY <1>1, RecInvHolds, PTL

-----------------------------------------------------------------------------
(* Figures: a figure that is not taken yet counts for what it would be now. *)

EntryStates(s) == {Absent} \cup [status : StatusesOf[s], mark : BOOLEAN]

Count(k, n) == IF k \in report.done THEN report.figures[n]
               ELSE Cardinality(Queries[k][n])

ReportOK ==
    /\ report = [done |-> report.done, figures |-> report.figures, writes |-> report.writes]
    /\ report.done \subseteq DOMAIN Queries /\ report.writes \in Nat
    /\ report.done = {} => report.writes = 0
    /\ \A k \in report.done : \A n \in DOMAIN Queries[k] :
          n \in DOMAIN report.figures /\ report.figures[n] \in Nat

FigureShape ==
    /\ subject \in DOMAIN StatusesOf
    /\ entry \in [Entries -> EntryStates(subject)]
    /\ ReportOK

\* The parts of a report come near to its total.
Near(parts, total) ==
    /\ parts <= total + report.writes
    /\ subject \in Whole => total <= parts + report.writes

Estimated ==
    /\ subject = "beds" =>
          Near(Count(2, "available") + Count(3, "occupied") + Count(4, "maintenance"),
               Count(1, "total"))
    /\ subject = "staff" =>
          Near(Count(2, "active"), Count(1, "total"))
    /\ subject = "complaints" =>
          Near(Count(1, "open"), Count(1, "total"))
    /\ subject = "assets" =>
          Near(Count(2, "working") + Count(3, "repair"), Count(1, "total"))
    /\ subject = "payments" =>
          Near(Count(2, "paid") + Count(3, "pending") + Count(4, "overdue"),
               Count(1, "total"))
    /\ subject = "residents" =>
          Near(Count(1, "active") + Count(1, "vacated") + Count(1, "becomingAvailable"),
               Count(1, "total"))
    /\ subject = "rent" =>
          Near(Count(1, "paid") + Count(2, "pending"), Count(1, "total"))
    /\ subject = "visitors" => Near(Count(1, "today"), Count(1, "total"))

FigureInv == FigureShape /\ Estimated
-----------------------------------------------------------------------------
\* Documents with one of the statuses s.
LEMMA WithIs ==
    ASSUME NEW s
    PROVE  /\ IsFiniteSet(All) /\ IsFiniteSet(Marked) /\ Marked \subseteq All
           /\ "none" \notin s => With(s) \in SUBSET All
           /\ Cardinality(With({})) = 0
<1>1. IsFiniteSet(All) /\ IsFiniteSet(Marked) /\ Marked \subseteq All
  BY FigureAssumption, FS_Subset DEF All, Marked
<1>2. "none" \notin s => With(s) \in SUBSET All
  BY DEF With, All, Absent
<1>3. With({}) = {}
  BY DEF With
<1>. QED  BY <1>1, <1>2, <1>3, FS_EmptySet

\* The figures of each subject, by the query they come from.
LEMMA BedQueries == subject = "beds" =>
    /\ DOMAIN Queries = 1 .. 4
    /\ DOMAIN Queries[1] = {"total"} /\ Queries[1]["total"] = All
    /\ DOMAIN Queries[2] = {"available"} /\ Queries[2]["available"] = With({"AVAILABLE"})
    /\ DOMAIN Queries[3] = {"occupied"} /\ Queries[3]["occupied"] = With({"OCCUPIED"})
    /\ DOMAIN Queries[4] = {"maintenance"} /\ Queries[4]["maintenance"] = With({"MAINTENANCE"})
BY DEF Queries, BedStats

LEMMA StaffQueries == subject = "staff" =>
    /\ DOMAIN Queries = 1 .. 3
    /\ DOMAIN Queries[1] = {"total"} /\ Queries[1]["total"] = All
    /\ DOMAIN Queries[2] = {"active"} /\ Queries[2]["active"] = Marked
    /\ DOMAIN Queries[3] = {}
BY DEF Queries, StaffStats, NoFigures

LEMMA ComplaintQueries == subject = "complaints" =>
    /\ DOMAIN Queries = {1}
    /\ DOMAIN Queries[1] = {"total", "open"}
    /\ Queries[1]["total"] = All /\ Queries[1]["open"] = With({"open"})
<1>1. All \cap With({"open"}) = With({"open"})
  BY WithIs
<1>. QED  BY <1>1 DEF Queries, ComplaintFigures, ComplaintsFound

LEMMA ComplaintQueriesNext == (subject = "complaints" =>
    /\ DOMAIN Queries = {1}
    /\ DOMAIN Queries[1] = {"total", "open"}
    /\ Queries[1]["total"] = All /\ Queries[1]["open"] = With({"open"}))'
BY ComplaintQueries, PTL

LEMMA AssetQueries == subject = "assets" =>
    /\ DOMAIN Queries = 1 .. 4
    /\ DOMAIN Queries[1] = {"total"} /\ Queries[1]["total"] = All
    /\ DOMAIN Queries[2] = {"working"} /\ Queries[2]["working"] = With({"WORKING"})
    /\ DOMAIN Queries[3] = {"repair"} /\ Queries[3]["repair"] = With({"REPAIR"})
    /\ DOMAIN Queries[4] = {"maintenanceDue"}
    /\ Queries[4]["maintenanceDue"] = Marked \ With({"DISPOSED"})
BY DEF Queries, AssetStats

LEMMA PaymentQueries == subject = "payments" =>
    /\ DOMAIN Queries = 1 .. 4
    /\ DOMAIN Queries[1] = {"total"} /\ Queries[1]["total"] = All
    /\ DOMAIN Queries[2] = {"paid"} /\ Queries[2]["paid"] = With({"PAID", "completed"})
    /\ DOMAIN Queries[3] = {"pending"} /\ Queries[3]["pending"] = With({"DUE", "PARTIAL"})
    /\ DOMAIN Queries[4] = {"overdue"} /\ Queries[4]["overdue"] = With({"OVERDUE"})
BY DEF Queries, PaymentStats

LEMMA ResidentQueries == subject = "residents" =>
    /\ DOMAIN Queries = {1}
    /\ DOMAIN Queries[1] = {"total", "active", "vacated", "becomingAvailable"}
    /\ Queries[1]["total"] = All /\ Queries[1]["active"] = With({"ACTIVE"})
    /\ Queries[1]["vacated"] = With({"VACATED"})
    /\ Queries[1]["becomingAvailable"] = With({"NOTICE_GIVEN"})
BY DEF Queries, ResidentFigures

LEMMA RentQueries == subject = "rent" =>
    /\ DOMAIN Queries = 1 .. 3
    /\ DOMAIN Queries[1] = {"total", "paid"}
    /\ Queries[1]["total"] = All /\ Queries[1]["paid"] = With({"PAID"})
    /\ DOMAIN Queries[2] = {"pending"}
    /\ Queries[2]["pending"] = With({"DUE", "PARTIAL", "OVERDUE"})
    /\ DOMAIN Queries[3] = {"late"} /\ Queries[3]["late"] = With({"OVERDUE"})
BY DEF Queries, RentFigures

LEMMA VisitorQueries == subject = "visitors" =>
    /\ DOMAIN Queries = {1}
    /\ DOMAIN Queries[1] = {"total", "today"}
    /\ Queries[1]["total"] = Marked /\ Queries[1]["today"] = Marked
BY DEF Queries, VisitorsToday, VisitorsFound

LEMMA Subjects ==
    DOMAIN StatusesOf = {"complaints", "visitors", "assets", "staff", "payments", "beds",
                         "rent", "residents"}
BY DEF StatusesOf

\* No two queries give the same figure, and each counts documents.
QueriesApart ==
    /\ \A j, k \in DOMAIN Queries : \A n \in DOMAIN Queries[k] :
          n \in DOMAIN Queries[j] => j = k
    /\ \A k \in DOMAIN Queries : \A n \in DOMAIN Queries[k] : Queries[k][n] \subseteq Entries

LEMMA QueriesKnown == subject \in DOMAIN StatusesOf => QueriesApart
<1>1. All \subseteq Entries /\ Marked \subseteq Entries /\ \A s : With(s) \subseteq Entries
  BY DEF All, Marked, With
<1>2. CASE subject = "beds"
  BY <1>1, <1>2, BedQueries DEF QueriesApart
<1>3. CASE subject = "staff"
  BY <1>1, <1>3, StaffQueries DEF QueriesApart
<1>4. CASE subject = "complaints"
  BY <1>1, <1>4, ComplaintQueries DEF QueriesApart
<1>5. CASE subject = "assets"
  BY <1>1, <1>5, AssetQueries DEF QueriesApart
<1>6. CASE subject = "payments"
  BY <1>1, <1>6, PaymentQueries DEF QueriesApart
<1>7. CASE subject = "residents"
  BY <1>1, <1>7, ResidentQueries DEF QueriesApart
<1>8. CASE subject = "rent"
  BY <1>1, <1>8, RentQueries DEF QueriesApart
<1>9. CASE subject = "visitors"
  BY <1>1, <1>9, VisitorQueries DEF QueriesApart
<1>. QED  BY <1>2, <1>3, <1>4, <1>5, <1>6, <1>7, <1>8, <1>9, Subjects

\* Disjoint parts of a finite set.
PartsOf(T, A, B, C, D) ==
    /\ IsFiniteSet(T)
    /\ A \subseteq T /\ B \subseteq T /\ C \subseteq T /\ D \subseteq T
    /\ A \cap B = {} /\ (A \cup B) \cap C = {} /\ (A \cup B \cup C) \cap D = {}

LEMMA FourParts ==
    ASSUME NEW T, NEW A, NEW B, NEW C, NEW D, PartsOf(T, A, B, C, D)
    PROVE  /\ Cardinality(A) \in Nat /\ Cardinality(B) \in Nat /\ Cardinality(C) \in Nat
           /\ Cardinality(D) \in Nat /\ Cardinality(T) \in Nat
           /\ Cardinality(A) + Cardinality(B) + Cardinality(C) + Cardinality(D)
                 <= Cardinality(T)
           /\ T \subseteq A \cup B \cup C \cup D =>
                 Cardinality(A) + Cardinality(B) + Cardinality(C) + Cardinality(D)
                    = Cardinality(T)
<1>1. /\ IsFiniteSet(A) /\ IsFiniteSet(B) /\ IsFiniteSet(C) /\ IsFiniteSet(D)
      /\ IsFiniteSet(A \cup B) /\ IsFiniteSet(A \cup B \cup C)
      /\ IsFiniteSet(A \cup B \cup C \cup D)
  BY FS_Subset DEF PartsOf
<1>2. /\ Cardinality(A \cap B) = 0 /\ Cardinality((A \cup B) \cap C) = 0
      /\ Cardinality((A \cup B \cup C) \cap D) = 0
  BY FS_EmptySet DEF PartsOf
<1>3. /\ Cardinality(A) \in Nat /\ Cardinality(B) \in Nat /\ Cardinality(C) \in Nat
      /\ Cardinality(D) \in Nat /\ Cardinality(T) \in Nat
      /\ Cardinality(A \cup B) \in Nat /\ Cardinality(A \cup B \cup C) \in Nat
  BY <1>1, FS_CardinalityType DEF PartsOf
<1>4. Cardinality(A \cup B) = Cardinality(A) + Cardinality(B)
  <2>1. Cardinality(A \cup B) = Cardinality(A) + Cardinality(B) - Cardinality(A \cap B)
    BY <1>1, FS_Union
  <2>. QED  BY <1>2, <1>3, <2>1
<1>5. Cardinality(A \cup B \cup C) = Cardinality(A \cup B) + Cardinality(C)
  <2>1. Cardinality((A \cup B) \cup C) =
           Cardinality(A \cup B) + Cardinality(C) - Cardinality((A \cup B) \cap C)
    BY <1>1, FS_Union
  <2>. QED  BY <1>2, <1>3, <2>1
<1>6. Cardinality(A \cup B \cup C \cup D) = Cardinality(A \cup B \cup C) + Cardinality(D)
  <2>1. Cardinality((A \cup B \cup C) \cup D) =
           Cardinality(A \cup B \cup C) + Cardinality(D) - Cardinality((A \cup B \cup C) \cap D)
    BY <1>1, FS_Union
  <2>. QED  BY <1>2, <1>3, <2>1
<1>7. Cardinality(A \cup B \cup C \cup D) <= Cardinality(T)
  BY FS_Subset DEF PartsOf
<1>8. T \subseteq A \cup B \cup C \cup D => T = A \cup B \cup C \cup D
  BY DEF PartsOf
<1>. QED  BY <1>3, <1>4, <1>5, <1>6, <1>7, <1>8

\* The documents with one of four lists of statuses, and all of them.
Apart(a, b, c, d) ==
    /\ "none" \notin a /\ "none" \notin b /\ "none" \notin c /\ "none" \notin d
    /\ a \cap b = {} /\ (a \cup b) \cap c = {} /\ (a \cup b \cup c) \cap d = {}

LEMMA WithParts ==
    ASSUME FigureShape, NEW a, NEW b, NEW c, NEW d, Apart(a, b, c, d)
    PROVE  /\ Cardinality(With(a)) \in Nat /\ Cardinality(With(b)) \in Nat
           /\ Cardinality(With(c)) \in Nat /\ Cardinality(With(d)) \in Nat
           /\ Cardinality(All) \in Nat
           /\ Cardinality(With(a)) + Cardinality(With(b)) + Cardinality(With(c))
                 + Cardinality(With(d)) <= Cardinality(All)
           /\ StatusesOf[subject] \subseteq a \cup b \cup c \cup d =>
                 Cardinality(With(a)) + Cardinality(With(b)) + Cardinality(With(c))
                    + Cardinality(With(d)) = Cardinality(All)
<1>1. /\ With(a) \in SUBSET All /\ With(b) \in SUBSET All /\ With(c) \in SUBSET All
      /\ With(d) \in SUBSET All /\ IsFiniteSet(All)
  BY WithIs DEF Apart
<1>2. /\ With(a) \cap With(b) = {} /\ (With(a) \cup With(b)) \cap With(c) = {}
      /\ (With(a) \cup With(b) \cup With(c)) \cap With(d) = {}
  BY DEF With, Apart
<1>3. StatusesOf[subject] \subseteq a \cup b \cup c \cup d =>
         All \subseteq With(a) \cup With(b) \cup With(c) \cup With(d)
  <2>1. \A e \in Entries : entry[e] = Absent \/ entry[e].status \in StatusesOf[subject]
    BY DEF FigureShape, EntryStates
  <2>. QED  BY <2>1 DEF All, With
<1>4. PartsOf(All, With(a), With(b), With(c), With(d))
  BY <1>1, <1>2 DEF PartsOf
<1>. QED  BY <1>3, <1>4, FourParts

\* While no query is done, every figure is what it is now.
LEMMA NothingAsked ==
    FigureShape /\ report.done = {} => Estimated
<1> SUFFICES ASSUME FigureShape, report.done = {} PROVE Estimated
  OBVIOUS
<1>1. \A k, n : Count(k, n) = Cardinality(Queries[k][n])
  BY DEF Count
<1>2. report.writes = 0 /\ Cardinality(With({})) = 0
  BY WithIs DEF FigureShape, ReportOK
<1> USE DEF Near, Whole
<1>3. CASE subject = "beds"
  <2>a. Apart({"AVAILABLE"}, {"OCCUPIED"}, {"MAINTENANCE"}, {})
    BY DEF Apart
  <2>1. StatusesOf[subject] \subseteq
           {"AVAILABLE"} \cup {"OCCUPIED"} \cup {"MAINTENANCE"} \cup {}
    BY <1>3 DEF StatusesOf
  <2>2. /\ Cardinality(With({"AVAILABLE"})) \in Nat /\ Cardinality(With({"OCCUPIED"})) \in Nat
        /\ Cardinality(With({"MAINTENANCE"})) \in Nat /\ Cardinality(All) \in Nat
        /\ Cardinality(With({"AVAILABLE"})) + Cardinality(With({"OCCUPIED"}))
              + Cardinality(With({"MAINTENANCE"})) + Cardinality(With({})) = Cardinality(All)
    BY <2>1, <2>a, WithParts
  <2>. QED  BY <1>1, <1>2, <1>3, <2>2, BedQueries DEF Estimated
<1>4. CASE subject = "staff"
  <2>1. /\ Cardinality(Marked) <= Cardinality(All)
        /\ Cardinality(Marked) \in Nat /\ Cardinality(All) \in Nat
    BY WithIs, FS_Subset, FS_CardinalityType
  <2>. QED  BY <1>1, <1>2, <1>4, <2>1, StaffQueries DEF Estimated
<1>5. CASE subject = "complaints"
  <2>a. Apart({"open"}, {}, {}, {})
    BY DEF Apart
  <2>1. /\ Cardinality(With({"open"})) \in Nat /\ Cardinality(All) \in Nat
        /\ Cardinality(With({"open"})) + Cardinality(With({}))
              + Cardinality(With({})) + Cardinality(With({})) <= Cardinality(All)
    BY <2>a, WithParts
  <2>. QED  BY <1>1, <1>2, <1>5, <2>1, ComplaintQueries DEF Estimated
<1>6. CASE subject = "assets"
  <2>a. Apart({"WORKING"}, {"REPAIR"}, {}, {})
    BY DEF Apart
  <2>1. /\ Cardinality(With({"WORKING"})) \in Nat /\ Cardinality(With({"REPAIR"})) \in Nat
        /\ Cardinality(All) \in Nat
        /\ Cardinality(With({"WORKING"})) + Cardinality(With({"REPAIR"}))
              + Cardinality(With({})) + Cardinality(With({})) <= Cardinality(All)
    BY <2>a, WithParts
  <2>. QED  BY <1>1, <1>2, <1>6, <2>1, AssetQueries DEF Estimated
<1>7. CASE subject = "payments"
  <2>a. Apart({"PAID", "completed"}, {"DUE", "PARTIAL"}, {"OVERDUE"}, {})
    BY DEF Apart
  <2>1. /\ Cardinality(With({"PAID", "completed"})) \in Nat
        /\ Cardinality(With({"DUE", "PARTIAL"})) \in Nat
        /\ Cardinality(With({"OVERDUE"})) \in Nat /\ Cardinality(All) \in Nat
        /\ Cardinality(With({"PAID", "completed"})) + Cardinality(With({"DUE", "PARTIAL"}))
              + Cardinality(With({"OVERDUE"})) + Cardinality(With({})) <= Cardinality(All)
    BY <2>a, WithParts
  <2>. QED  BY <1>1, <1>2, <1>7, <2>1, PaymentQueries DEF Estimated
<1>8. CASE subject = "residents"
  <2>a. Apart({"ACTIVE"}, {"VACATED"}, {"NOTICE_GIVEN"}, {})
    BY DEF Apart
  <2>1. /\ Cardinality(With({"ACTIVE"})) \in Nat /\ Cardinality(With({"VACATED"})) \in Nat
        /\ Cardinality(With({"NOTICE_GIVEN"})) \in Nat /\ Cardinality(All) \in Nat
        /\ Cardinality(With({"ACTIVE"})) + Cardinality(With({"VACATED"}))
              + Cardinality(With({"NOTICE_GIVEN"})) + Cardinality(With({})) <= Cardinality(All)
    BY <2>a, WithParts
  <2>. QED  BY <1>1, <1>2, <1>8, <2>1, ResidentQueries DEF Estimated
<1>9. CASE subject = "rent"
  <2>a. Apart({"PAID"}, {"DUE", "PARTIAL", "OVERDUE"}, {}, {})
    BY DEF Apart
  <2>1. /\ Cardinality(With({"PAID"})) \in Nat
        /\ Cardinality(With({"DUE", "PARTIAL", "OVERDUE"})) \in Nat
        /\ Cardinality(All) \in Nat
        /\ Cardinality(With({"PAID"})) + Cardinality(With({"DUE", "PARTIAL", "OVERDUE"}))
              + Cardinality(With({})) + Cardinality(With({})) <= Cardinality(All)
    BY <2>a, WithParts
  <2>. QED  BY <1>1, <1>2, <1>9, <2>1, RentQueries DEF Estimated
<1>10. CASE subject = "visitors"
  <2>1. Cardinality(Marked) \in Nat
    BY WithIs, FS_CardinalityType
  <2>. QED  BY <1>1, <1>2, <1>10, <2>1, VisitorQueries DEF Estimated
<1>. QED  BY <1>3, <1>4, <1>5, <1>6, <1>7, <1>8, <1>9, <1>10, Subjects DEF FigureShape
-----------------------------------------------------------------------------
\* Every write is of one document, and is counted while a report is under way.
EntryWrite(e, x) ==
    /\ entry' = [entry EXCEPT ![e] = x] /\ UNCHANGED subject
    /\ report' = IF report.done = {} THEN report ELSE [report EXCEPT !.writes = @ + 1]

LEMMA WritesAre ==
    ASSUME FigureNext
    PROVE  \/ \E e \in Entries, x \in EntryStates(subject) : EntryWrite(e, x)
           \/ (\E k \in 1 .. 4 : Ask(k)) \/ EndReport
<1>1. ASSUME NEW e \in Entries, NEW s, NEW m, Put(e, s, m)
      PROVE  \E x \in EntryStates(subject) : EntryWrite(e, x)
  <2>1. [status |-> s, mark |-> m] \in EntryStates(subject)
    BY <1>1 DEF Put, EntryStates, Marks
  <2>2. EntryWrite(e, [status |-> s, mark |-> m])
    BY <1>1 DEF Put, EntryWrite
  <2>. QED  BY <2>1, <2>2
<1>2. ASSUME NEW e \in Entries, Drop(e)
      PROVE  \E x \in EntryStates(subject) : EntryWrite(e, x)
  BY <1>2 DEF Drop, EntryWrite, EntryStates
<1>3. ASSUME NEW e \in Entries,
             \/ ComplaintRemove(e) \/ VisitorRemove(e) \/ AssetRemove(e) \/ StaffLeaves(e)
             \/ PaymentRemove(e) \/ PaymentCreate(e) \/ VisitorCheckOut(e)
      PROVE  \E x \in EntryStates(subject) : EntryWrite(e, x)
  BY <1>1, <1>2, <1>3
  DEF ComplaintRemove, VisitorRemove, AssetRemove, StaffLeaves, PaymentRemove, PaymentCreate,
      VisitorCheckOut
<1>4. ASSUME NEW e \in Entries, NEW s, NEW m,
             \/ VisitorCreate(e, m)
             \/ ComplaintCreate(e, s) \/ ComplaintUpdate(e, s) \/ PaymentUpdate(e, s)
             \/ WrittenElsewhere(e, s)
             \/ AssetCreate(e, s, m) \/ AssetUpdate(e, s, m) \/ StaffJoins(e, s, m)
             \/ StaffChanges(e, s, m) \/ VisitorUpdate(e, s, m)
      PROVE  \E x \in EntryStates(subject) : EntryWrite(e, x)
  BY <1>1, <1>2, <1>4
  DEF VisitorCreate, ComplaintCreate, ComplaintUpdate, PaymentUpdate, WrittenElsewhere,
      AssetCreate, AssetUpdate, StaffJoins, StaffChanges, VisitorUpdate
<1>. QED  BY <1>3, <1>4 DEF FigureNext

LEMMA CardMove ==
    ASSUME NEW S, NEW T, NEW e, IsFiniteSet(S), IsFiniteSet(T), S \ {e} = T \ {e}
    PROVE  /\ Cardinality(S) \in Nat /\ Cardinality(T) \in Nat
           /\ Cardinality(T) = Cardinality(S) + (IF e \in T THEN 1 ELSE 0)
                                              - (IF e \in S THEN 1 ELSE 0)
<1>1. Cardinality(S) \in Nat /\ Cardinality(T) \in Nat
  BY FS_CardinalityType
<1>2. /\ Cardinality(S \ {e}) = IF e \in S THEN Cardinality(S) - 1 ELSE Cardinality(S)
      /\ Cardinality(T \ {e}) = IF e \in T THEN Cardinality(T) - 1 ELSE Cardinality(T)
  BY FS_RemoveElement
<1>. QED  BY <1>1, <1>2

Ind(b) == IF b THEN 1 ELSE 0

\* What a write does to the number of documents with a status in s.
LEMMA WithMoves ==
    ASSUME FigureShape, NEW e \in Entries, NEW x \in EntryStates(subject), EntryWrite(e, x),
           NEW s
    PROVE  /\ Cardinality(With(s)) \in Nat
           /\ Cardinality(With(s)') = Cardinality(With(s)) + Ind(x.status \in s)
                                         - Ind(entry[e].status \in s)
<1>1. entry \in [Entries -> EntryStates(subject)] /\ entry' = [entry EXCEPT ![e] = x]
  BY DEF FigureShape, EntryWrite
<1>2. IsFiniteSet(With(s)) /\ IsFiniteSet(With(s)')
  BY FigureAssumption, FS_Subset DEF With
<1>3. /\ With(s) \ {e} = With(s)' \ {e}
      /\ e \in With(s) <=> entry[e].status \in s
      /\ e \in With(s)' <=> x.status \in s
  BY <1>1 DEF With
<1>4. PICK S, T : S = With(s) /\ T = With(s)'
  OBVIOUS
<1>. QED  BY <1>2, <1>3, <1>4, CardMove DEF Ind

\* Of all documents, and of those with a mark.
LEMMA AllMoves ==
    ASSUME FigureShape, NEW e \in Entries, NEW x \in EntryStates(subject), EntryWrite(e, x)
    PROVE  /\ Cardinality(All) \in Nat /\ Cardinality(Marked) \in Nat
           /\ Cardinality(All') = Cardinality(All) + Ind(x # Absent) - Ind(entry[e] # Absent)
           /\ Cardinality(Marked') = Cardinality(Marked) + Ind(x # Absent /\ x.mark)
                                         - Ind(entry[e] # Absent /\ entry[e].mark)
<1>1. entry \in [Entries -> EntryStates(subject)] /\ entry' = [entry EXCEPT ![e] = x]
  BY DEF FigureShape, EntryWrite
<1>2. /\ IsFiniteSet(All) /\ IsFiniteSet(All') /\ IsFiniteSet(Marked) /\ IsFiniteSet(Marked')
  BY FigureAssumption, FS_Subset DEF All, Marked
<1>3. /\ All \ {e} = All' \ {e}
      /\ e \in All <=> entry[e] # Absent
      /\ e \in All' <=> x # Absent
  BY <1>1 DEF All
<1>4. /\ Marked \ {e} = Marked' \ {e}
      /\ e \in Marked <=> entry[e] # Absent /\ entry[e].mark
      /\ e \in Marked' <=> x # Absent /\ x.mark
  BY <1>1 DEF Marked, All
<1>5. PICK S, T, M, N : S = All /\ T = All' /\ M = Marked /\ N = Marked'
  OBVIOUS
<1>6. /\ Cardinality(S) \in Nat
      /\ Cardinality(T) = Cardinality(S) + Ind(e \in T) - Ind(e \in S)
  BY <1>2, <1>3, <1>5, CardMove DEF Ind
<1>7. /\ Cardinality(M) \in Nat
      /\ Cardinality(N) = Cardinality(M) + Ind(e \in N) - Ind(e \in M)
  BY <1>2, <1>4, <1>5, CardMove DEF Ind
<1>. QED  BY <1>3, <1>4, <1>5, <1>6, <1>7 DEF Ind

\* Of which queries a report is made, and of which figures, depends on the subject.
LEMMA SameQueries ==
    ASSUME subject \in DOMAIN StatusesOf, subject' = subject
    PROVE  /\ DOMAIN Queries' = DOMAIN Queries
           /\ \A k \in DOMAIN Queries : DOMAIN Queries'[k] = DOMAIN Queries[k]
<1>1. CASE subject = "beds"
  BY <1>1 DEF Queries, BedStats
<1>2. CASE subject = "staff"
  BY <1>2 DEF Queries, StaffStats, NoFigures
<1>3. CASE subject = "complaints"
  BY <1>3 DEF Queries, ComplaintFigures
<1>4. CASE subject = "assets"
  BY <1>4 DEF Queries, AssetStats
<1>5. CASE subject = "payments"
  BY <1>5 DEF Queries, PaymentStats
<1>6. CASE subject = "residents"
  BY <1>6 DEF Queries, ResidentFigures
<1>7. CASE subject = "rent"
  BY <1>7 DEF Queries, RentFigures
<1>8. CASE subject = "visitors"
  BY <1>8 DEF Queries, VisitorsToday
<1>. QED  BY <1>1, <1>2, <1>3, <1>4, <1>5, <1>6, <1>7, <1>8, Subjects

\* A write leaves the queries what they are, and the figures that are taken.
LEMMA WriteShape ==
    ASSUME FigureShape, NEW e \in Entries, NEW x \in EntryStates(subject), EntryWrite(e, x)
    PROVE  /\ FigureShape'
           /\ report'.done = report.done /\ report'.figures = report.figures
           /\ report.done # {} => report'.writes = report.writes + 1
<1>1. /\ subject' = subject /\ entry' \in [Entries -> EntryStates(subject)]
      /\ entry' = [entry EXCEPT ![e] = x]
  BY DEF FigureShape, EntryWrite
<1>2. /\ report'.done = report.done /\ report'.figures = report.figures
      /\ report.done # {} => report'.writes = report.writes + 1
      /\ report.done = {} => report'.writes = 0
      /\ report'.writes \in Nat
      /\ report' = [done |-> report'.done, figures |-> report'.figures,
                    writes |-> report'.writes]
  <2>1. report = [done |-> report.done, figures |-> report.figures, writes |-> report.writes]
    BY DEF FigureShape, ReportOK
  <2>2. PICK d, f, w : report = [done |-> d, figures |-> f, writes |-> w]
    BY <2>1
  <2>3. w \in Nat /\ (d = {} => w = 0)
    BY <2>2 DEF FigureShape, ReportOK
  <2>4. CASE d = {}
    BY <2>2, <2>3, <2>4 DEF EntryWrite
  <2>5. CASE d # {}
    BY <2>2, <2>3, <2>5 DEF EntryWrite
  <2>. QED  BY <2>4, <2>5
<1>3. /\ DOMAIN Queries' = DOMAIN Queries
      /\ \A k \in DOMAIN Queries : DOMAIN Queries'[k] = DOMAIN Queries[k]
  BY <1>1, Subjects, SameQueries DEF FigureShape
<1>4. ReportOK'
  BY <1>2, <1>3 DEF FigureShape, ReportOK
<1>. QED  BY <1>1, <1>2, <1>4 DEF FigureShape

\* A document is in one part at most, and in none when it is not there.
LEMMA OneStatus ==
    ASSUME FigureShape, NEW x \in EntryStates(subject), NEW a, NEW b, NEW c, NEW d,
           Apart(a, b, c, d)
    PROVE  /\ Ind(x.status \in a) \in {0, 1} /\ Ind(x.status \in b) \in {0, 1}
           /\ Ind(x.status \in c) \in {0, 1} /\ Ind(x.status \in d) \in {0, 1}
           /\ Ind(x # Absent) \in {0, 1}
           /\ Ind(x.status \in a) + Ind(x.status \in b) + Ind(x.status \in c)
                 + Ind(x.status \in d) <= Ind(x # Absent)
<1>1. x = Absent => x.status = "none"
  BY DEF Absent
<1>. QED  BY <1>1 DEF Ind, Apart

\* What a write does to a figure: nothing when it is taken already.
FigureMoved(k, n, new, old) ==
    /\ Count(k, n) \in Nat
    /\ \/ Count(k, n)' = Count(k, n)
       \/ Count(k, n)' = Count(k, n) + (new - old)

LEMMA CountMoves ==
    ASSUME FigureShape, NEW e \in Entries, NEW x \in EntryStates(subject), EntryWrite(e, x),
           NEW k \in DOMAIN Queries, NEW n \in DOMAIN Queries[k],
           NEW new \in {0, 1}, NEW old \in {0, 1},
           Cardinality(Queries[k][n]) \in Nat,
           Cardinality(Queries'[k][n]) = Cardinality(Queries[k][n]) + new - old
    PROVE  FigureMoved(k, n, new, old)
<1>1. report'.done = report.done /\ report'.figures = report.figures
  BY WriteShape
<1>2. k \in report.done => report.figures[n] \in Nat
  BY DEF FigureShape, ReportOK
<1>. QED  BY <1>1, <1>2 DEF FigureMoved, Count

LEMMA PartMoves ==
    ASSUME FigureShape, NEW e \in Entries, NEW x \in EntryStates(subject), EntryWrite(e, x),
           NEW k \in DOMAIN Queries, NEW n \in DOMAIN Queries[k], NEW s,
           Queries[k][n] = With(s), Queries'[k][n] = With(s)'
    PROVE  FigureMoved(k, n, Ind(x.status \in s), Ind(entry[e].status \in s))
<1>1. /\ Cardinality(Queries[k][n]) \in Nat
      /\ Cardinality(Queries'[k][n]) = Cardinality(Queries[k][n]) + Ind(x.status \in s)
                                          - Ind(entry[e].status \in s)
  BY WithMoves
<1>2. Ind(x.status \in s) \in {0, 1} /\ Ind(entry[e].status \in s) \in {0, 1}
  BY DEF Ind
<1>. QED  BY <1>1, <1>2, CountMoves

LEMMA TotalMoves ==
    ASSUME FigureShape, NEW e \in Entries, NEW x \in EntryStates(subject), EntryWrite(e, x),
           NEW k \in DOMAIN Queries, NEW n \in DOMAIN Queries[k],
           Queries[k][n] = All, Queries'[k][n] = All'
    PROVE  FigureMoved(k, n, Ind(x # Absent), Ind(entry[e] # Absent))
<1>1. Ind(x # Absent) \in {0, 1} /\ Ind(entry[e] # Absent) \in {0, 1}
  BY DEF Ind
<1>2. /\ Cardinality(Queries[k][n]) \in Nat
      /\ Cardinality(Queries'[k][n]) = Cardinality(Queries[k][n]) + Ind(x # Absent)
                                          - Ind(entry[e] # Absent)
  BY AllMoves
<1>. QED  BY <1>1, <1>2, CountMoves

LEMMA MarkMoves ==
    ASSUME FigureShape, NEW e \in Entries, NEW x \in EntryStates(subject), EntryWrite(e, x),
           NEW k \in DOMAIN Queries, NEW n \in DOMAIN Queries[k],
           Queries[k][n] = Marked, Queries'[k][n] = Marked'
    PROVE  FigureMoved(k, n, Ind(x # Absent /\ x.mark), Ind(entry[e] # Absent /\ entry[e].mark))
<1>1. /\ Ind(x # Absent /\ x.mark) \in {0, 1}
      /\ Ind(entry[e] # Absent /\ entry[e].mark) \in {0, 1}
  BY DEF Ind
<1>2. /\ Cardinality(Queries[k][n]) \in Nat
      /\ Cardinality(Queries'[k][n]) = Cardinality(Queries[k][n])
            + Ind(x # Absent /\ x.mark) - Ind(entry[e] # Absent /\ entry[e].mark)
  BY AllMoves
<1>. QED  BY <1>1, <1>2, CountMoves

\* A write moves the sum of the parts against the total by one at most.
LEMMA WriteEstimated ==
    ASSUME FigureInv, NEW e \in Entries, NEW x \in EntryStates(subject), EntryWrite(e, x)
    PROVE  Estimated'
<1>1. FigureShape /\ FigureShape' /\ subject' = subject /\ entry[e] \in EntryStates(subject)
  BY WriteShape DEF FigureInv, FigureShape, EntryWrite
<1>2. CASE report.done = {}
  <2>1. (FigureShape /\ report.done = {} => Estimated)'
    BY NothingAsked, PTL
  <2>. QED  BY <1>1, <1>2, <2>1, WriteShape
<1>3. CASE report.done # {}
  <2>1. report'.writes = report.writes + 1 /\ report.writes \in Nat
    BY <1>1, <1>3, WriteShape DEF FigureShape, ReportOK
  <2>2. CASE subject = "beds"
    <3>1. Apart({"AVAILABLE"}, {"OCCUPIED"}, {"MAINTENANCE"}, {})
      BY DEF Apart
    <3>2. /\ Queries'[1]["total"] = All'
          /\ Queries'[2]["available"] = With({"AVAILABLE"})'
          /\ Queries'[3]["occupied"] = With({"OCCUPIED"})'
          /\ Queries'[4]["maintenance"] = With({"MAINTENANCE"})'
      BY <1>1, <2>2 DEF Queries, BedStats
    <3>3. FigureMoved(1, "total", Ind(x # Absent), Ind(entry[e] # Absent))
      BY <1>1, <2>2, <3>2, BedQueries, TotalMoves
    <3>4. FigureMoved(2, "available", Ind(x.status \in {"AVAILABLE"}),
                      Ind(entry[e].status \in {"AVAILABLE"}))
      BY <1>1, <2>2, <3>2, BedQueries, PartMoves
    <3>5. FigureMoved(3, "occupied", Ind(x.status \in {"OCCUPIED"}),
                      Ind(entry[e].status \in {"OCCUPIED"}))
      BY <1>1, <2>2, <3>2, BedQueries, PartMoves
    <3>6. FigureMoved(4, "maintenance", Ind(x.status \in {"MAINTENANCE"}),
                      Ind(entry[e].status \in {"MAINTENANCE"}))
      BY <1>1, <2>2, <3>2, BedQueries, PartMoves
    <3>7. /\ Ind(x.status \in {"AVAILABLE"})
              + Ind(x.status \in {"OCCUPIED"})
              + Ind(x.status \in {"MAINTENANCE"}) <= Ind(x # Absent)
          /\ Ind(entry[e].status \in {"AVAILABLE"})
              + Ind(entry[e].status \in {"OCCUPIED"})
              + Ind(entry[e].status \in {"MAINTENANCE"}) <= Ind(entry[e] # Absent)
          /\ Ind(x # Absent) \in {0, 1} /\ Ind(entry[e] # Absent) \in {0, 1}
          /\ Ind(x.status \in {"AVAILABLE"}) \in {0, 1}
          /\ Ind(entry[e].status \in {"AVAILABLE"}) \in {0, 1}
          /\ Ind(x.status \in {"OCCUPIED"}) \in {0, 1}
          /\ Ind(entry[e].status \in {"OCCUPIED"}) \in {0, 1}
          /\ Ind(x.status \in {"MAINTENANCE"}) \in {0, 1}
          /\ Ind(entry[e].status \in {"MAINTENANCE"}) \in {0, 1}
      BY <1>1, <3>1, OneStatus DEF Ind
    <3>8. Near(Count(2, "available") + Count(3, "occupied") + Count(4, "maintenance"),
               Count(1, "total"))
      BY <2>2 DEF FigureInv, Estimated
    <3>9. (Near(Count(2, "available") + Count(3, "occupied") + Count(4, "maintenance"),
                Count(1, "total")))'
      BY <1>1, <2>1, <3>3, <3>4, <3>5, <3>6, <3>7, <3>8 DEF Near, FigureMoved
    <3>. QED  BY <1>1, <2>2, <3>9 DEF Estimated
  <2>3. CASE subject = "staff"
    <3>1. Queries'[1]["total"] = All' /\ Queries'[2]["active"] = Marked'
      BY <1>1, <2>3 DEF Queries, StaffStats
    <3>2. FigureMoved(1, "total", Ind(x # Absent), Ind(entry[e] # Absent))
      BY <1>1, <2>3, <3>1, StaffQueries, TotalMoves
    <3>3. FigureMoved(2, "active", Ind(x # Absent /\ x.mark),
                      Ind(entry[e] # Absent /\ entry[e].mark))
      BY <1>1, <2>3, <3>1, StaffQueries, MarkMoves
    <3>4. Near(Count(2, "active"), Count(1, "total"))
      BY <2>3 DEF FigureInv, Estimated
    <3>5. (Near(Count(2, "active"), Count(1, "total")))'
      BY <1>1, <2>1, <2>3, <3>2, <3>3, <3>4 DEF Near, FigureMoved, Ind, Whole
    <3>. QED  BY <1>1, <2>3, <3>5 DEF Estimated
  <2>4. CASE subject = "complaints"
    <3>1. Apart({"open"}, {}, {}, {})
      BY DEF Apart
    <3>2. Queries'[1]["total"] = All' /\ Queries'[1]["open"] = With({"open"})'
      BY <1>1, <2>4, ComplaintQueriesNext
    <3>3. FigureMoved(1, "total", Ind(x # Absent), Ind(entry[e] # Absent))
      BY <1>1, <2>4, <3>2, ComplaintQueries, TotalMoves
    <3>4. FigureMoved(1, "open", Ind(x.status \in {"open"}), Ind(entry[e].status \in {"open"}))
      BY <1>1, <2>4, <3>2, ComplaintQueries, PartMoves
    <3>5. /\ Ind(x.status \in {"open"}) <= Ind(x # Absent)
          /\ Ind(entry[e].status \in {"open"}) <= Ind(entry[e] # Absent)
          /\ Ind(x # Absent) \in {0, 1} /\ Ind(entry[e] # Absent) \in {0, 1}
          /\ Ind(x.status \in {"open"}) \in {0, 1}
          /\ Ind(entry[e].status \in {"open"}) \in {0, 1}
      BY <1>1, <3>1, OneStatus DEF Ind
    <3>6. Near(Count(1, "open"), Count(1, "total"))
      BY <2>4 DEF FigureInv, Estimated
    <3>7. (Near(Count(1, "open"), Count(1, "total")))'
      BY <1>1, <2>1, <2>4, <3>3, <3>4, <3>5, <3>6 DEF Near, FigureMoved, Whole
    <3>. QED  BY <1>1, <2>4, <3>7 DEF Estimated
  <2>5. CASE subject = "assets"
    <3>1. Apart({"WORKING"}, {"REPAIR"}, {}, {})
      BY DEF Apart
    <3>2. /\ Queries'[1]["total"] = All'
          /\ Queries'[2]["working"] = With({"WORKING"})'
          /\ Queries'[3]["repair"] = With({"REPAIR"})'
      BY <1>1, <2>5 DEF Queries, AssetStats
    <3>3. FigureMoved(1, "total", Ind(x # Absent), Ind(entry[e] # Absent))
      BY <1>1, <2>5, <3>2, AssetQueries, TotalMoves
    <3>4. FigureMoved(2, "working", Ind(x.status \in {"WORKING"}),
                      Ind(entry[e].status \in {"WORKING"}))
      BY <1>1, <2>5, <3>2, AssetQueries, PartMoves
    <3>5. FigureMoved(3, "repair", Ind(x.status \in {"REPAIR"}),
                      Ind(entry[e].status \in {"REPAIR"}))
      BY <1>1, <2>5, <3>2, AssetQueries, PartMoves
    <3>6. /\ Ind(x.status \in {"WORKING"})
              + Ind(x.status \in {"REPAIR"}) <= Ind(x # Absent)
          /\ Ind(entry[e].status \in {"WORKING"})
              + Ind(entry[e].status \in {"REPAIR"}) <= Ind(entry[e] # Absent)
          /\ Ind(x # Absent) \in {0, 1} /\ Ind(entry[e] # Absent) \in {0, 1}
          /\ Ind(x.status \in {"WORKING"}) \in {0, 1}
          /\ Ind(entry[e].status \in {"WORKING"}) \in {0, 1}
          /\ Ind(x.status \in {"REPAIR"}) \in {0, 1}
          /\ Ind(entry[e].status \in {"REPAIR"}) \in {0, 1}
      BY <1>1, <3>1, OneStatus DEF Ind
    <3>7. Near(Count(2, "working") + Count(3, "repair"),
               Count(1, "total"))
      BY <2>5 DEF FigureInv, Estimated
    <3>8. (Near(Count(2, "working") + Count(3, "repair"),
                Count(1, "total")))'
      BY <1>1, <2>1, <3>3, <3>4, <3>5, <3>6, <3>7 DEF Near, FigureMoved
    <3>. QED  BY <1>1, <2>5, <3>8 DEF Estimated
  <2>6. CASE subject = "payments"
    <3>1. Apart({"PAID", "completed"}, {"DUE", "PARTIAL"}, {"OVERDUE"}, {})
      BY DEF Apart
    <3>2. /\ Queries'[1]["total"] = All'
          /\ Queries'[2]["paid"] = With({"PAID", "completed"})'
          /\ Queries'[3]["pending"] = With({"DUE", "PARTIAL"})'
          /\ Queries'[4]["overdue"] = With({"OVERDUE"})'
      BY <1>1, <2>6 DEF Queries, PaymentStats
    <3>3. FigureMoved(1, "total", Ind(x # Absent), Ind(entry[e] # Absent))
      BY <1>1, <2>6, <3>2, PaymentQueries, TotalMoves
    <3>4. FigureMoved(2, "paid", Ind(x.status \in {"PAID", "completed"}),
                      Ind(entry[e].status \in {"PAID", "completed"}))
      BY <1>1, <2>6, <3>2, PaymentQueries, PartMoves
    <3>5. FigureMoved(3, "pending", Ind(x.status \in {"DUE", "PARTIAL"}),
                      Ind(entry[e].status \in {"DUE", "PARTIAL"}))
      BY <1>1, <2>6, <3>2, PaymentQueries, PartMoves
    <3>6. FigureMoved(4, "overdue", Ind(x.status \in {"OVERDUE"}),
                      Ind(entry[e].status \in {"OVERDUE"}))
      BY <1>1, <2>6, <3>2, PaymentQueries, PartMoves
    <3>7. /\ Ind(x.status \in {"PAID", "completed"})
              + Ind(x.status \in {"DUE", "PARTIAL"})
              + Ind(x.status \in {"OVERDUE"}) <= Ind(x # Absent)
          /\ Ind(entry[e].status \in {"PAID", "completed"})
              + Ind(entry[e].status \in {"DUE", "PARTIAL"})
              + Ind(entry[e].status \in {"OVERDUE"}) <= Ind(entry[e] # Absent)
          /\ Ind(x # Absent) \in {0, 1} /\ Ind(entry[e] # Absent) \in {0, 1}
          /\ Ind(x.status \in {"PAID", "completed"}) \in {0, 1}
          /\ Ind(entry[e].status \in {"PAID", "completed"}) \in {0, 1}
          /\ Ind(x.status \in {"DUE", "PARTIAL"}) \in {0, 1}
          /\ Ind(entry[e].status \in {"DUE", "PARTIAL"}) \in {0, 1}
          /\ Ind(x.status \in {"OVERDUE"}) \in {0, 1}
          /\ Ind(entry[e].status \in {"OVERDUE"}) \in {0, 1}
      BY <1>1, <3>1, OneStatus DEF Ind
    <3>8. Near(Count(2, "paid") + Count(3, "pending") + Count(4, "overdue"),
               Count(1, "total"))
      BY <2>6 DEF FigureInv, Estimated
    <3>9. (Near(Count(2, "paid") + Count(3, "pending") + Count(4, "overdue"),
                Count(1, "total")))'
      BY <1>1, <2>1, <3>3, <3>4, <3>5, <3>6, <3>7, <3>8 DEF Near, FigureMoved
    <3>. QED  BY <1>1, <2>6, <3>9 DEF Estimated
  <2>7. CASE subject = "residents"
    <3>1. Apart({"ACTIVE"}, {"VACATED"}, {"NOTICE_GIVEN"}, {})
      BY DEF Apart
    <3>2. /\ Queries'[1]["total"] = All'
          /\ Queries'[1]["active"] = With({"ACTIVE"})'
          /\ Queries'[1]["vacated"] = With({"VACATED"})'
          /\ Queries'[1]["becomingAvailable"] = With({"NOTICE_GIVEN"})'
      BY <1>1, <2>7 DEF Queries, ResidentFigures
    <3>3. FigureMoved(1, "total", Ind(x # Absent), Ind(entry[e] # Absent))
      BY <1>1, <2>7, <3>2, ResidentQueries, TotalMoves
    <3>4. FigureMoved(1, "active", Ind(x.status \in {"ACTIVE"}),
                      Ind(entry[e].status \in {"ACTIVE"}))
      BY <1>1, <2>7, <3>2, ResidentQueries, PartMoves
    <3>5. FigureMoved(1, "vacated", Ind(x.status \in {"VACATED"}),
                      Ind(entry[e].status \in {"VACATED"}))
      BY <1>1, <2>7, <3>2, ResidentQueries, PartMoves
    <3>6. FigureMoved(1, "becomingAvailable", Ind(x.status \in {"NOTICE_GIVEN"}),
                      Ind(entry[e].status \in {"NOTICE_GIVEN"}))
      BY <1>1, <2>7, <3>2, ResidentQueries, PartMoves
    <3>7. /\ Ind(x.status \in {"ACTIVE"})
              + Ind(x.status \in {"VACATED"})
              + Ind(x.status \in {"NOTICE_GIVEN"}) <= Ind(x # Absent)
          /\ Ind(entry[e].status \in {"ACTIVE"})
              + Ind(entry[e].status \in {"VACATED"})
              + Ind(entry[e].status \in {"NOTICE_GIVEN"}) <= Ind(entry[e] # Absent)
          /\ Ind(x # Absent) \in {0, 1} /\ Ind(entry[e] # Absent) \in {0, 1}
          /\ Ind(x.status \in {"ACTIVE"}) \in {0, 1}
          /\ Ind(entry[e].status \in {"ACTIVE"}) \in {0, 1}
          /\ Ind(x.status \in {"VACATED"}) \in {0, 1}
          /\ Ind(entry[e].status \in {"VACATED"}) \in {0, 1}
          /\ Ind(x.status \in {"NOTICE_GIVEN"}) \in {0, 1}
          /\ Ind(entry[e].status \in {"NOTICE_GIVEN"}) \in {0, 1}
      BY <1>1, <3>1, OneStatus DEF Ind
    <3>8. Near(Count(1, "active") + Count(1, "vacated") + Count(1, "becomingAvailable"),
               Count(1, "total"))
      BY <2>7 DEF FigureInv, Estimated
    <3>9. (Near(Count(1, "active") + Count(1, "vacated") + Count(1, "becomingAvailable"),
                Count(1, "total")))'
      BY <1>1, <2>1, <3>3, <3>4, <3>5, <3>6, <3>7, <3>8 DEF Near, FigureMoved
    <3>. QED  BY <1>1, <2>7, <3>9 DEF Estimated
  <2>8. CASE subject = "rent"
    <3>1. Apart({"PAID"}, {"DUE", "PARTIAL", "OVERDUE"}, {}, {})
      BY DEF Apart
    <3>2. /\ Queries'[1]["total"] = All'
          /\ Queries'[1]["paid"] = With({"PAID"})'
          /\ Queries'[2]["pending"] = With({"DUE", "PARTIAL", "OVERDUE"})'
      BY <1>1, <2>8 DEF Queries, RentFigures
    <3>3. FigureMoved(1, "total", Ind(x # Absent), Ind(entry[e] # Absent))
      BY <1>1, <2>8, <3>2, RentQueries, TotalMoves
    <3>4. FigureMoved(1, "paid", Ind(x.status \in {"PAID"}), Ind(entry[e].status \in {"PAID"}))
      BY <1>1, <2>8, <3>2, RentQueries, PartMoves
    <3>5. FigureMoved(2, "pending", Ind(x.status \in {"DUE", "PARTIAL", "OVERDUE"}),
                      Ind(entry[e].status \in {"DUE", "PARTIAL", "OVERDUE"}))
      BY <1>1, <2>8, <3>2, RentQueries, PartMoves
    <3>6. /\ Ind(x.status \in {"PAID"})
              + Ind(x.status \in {"DUE", "PARTIAL", "OVERDUE"}) <= Ind(x # Absent)
          /\ Ind(entry[e].status \in {"PAID"})
              + Ind(entry[e].status \in {"DUE", "PARTIAL", "OVERDUE"}) <= Ind(entry[e] # Absent)
          /\ Ind(x # Absent) \in {0, 1} /\ Ind(entry[e] # Absent) \in {0, 1}
          /\ Ind(x.status \in {"PAID"}) \in {0, 1}
          /\ Ind(entry[e].status \in {"PAID"}) \in {0, 1}
          /\ Ind(x.status \in {"DUE", "PARTIAL", "OVERDUE"}) \in {0, 1}
          /\ Ind(entry[e].status \in {"DUE", "PARTIAL", "OVERDUE"}) \in {0, 1}
      BY <1>1, <3>1, OneStatus DEF Ind
    <3>7. Near(Count(1, "paid") + Count(2, "pending"),
               Count(1, "total"))
      BY <2>8 DEF FigureInv, Estimated
    <3>8. (Near(Count(1, "paid") + Count(2, "pending"),
                Count(1, "total")))'
      BY <1>1, <2>1, <3>3, <3>4, <3>5, <3>6, <3>7 DEF Near, FigureMoved
    <3>. QED  BY <1>1, <2>8, <3>8 DEF Estimated
  <2>9. CASE subject = "visitors"
    <3>1. Queries'[1]["total"] = Marked' /\ Queries'[1]["today"] = Marked'
      BY <1>1, <2>9 DEF Queries, VisitorsToday, VisitorsFound
    <3>2. FigureMoved(1, "total", Ind(x # Absent /\ x.mark),
                  Ind(entry[e] # Absent /\ entry[e].mark))
      BY <1>1, <2>9, <3>1, VisitorQueries, MarkMoves
    <3>3. FigureMoved(1, "today", Ind(x # Absent /\ x.mark),
                  Ind(entry[e] # Absent /\ entry[e].mark))
      BY <1>1, <2>9, <3>1, VisitorQueries, MarkMoves
    <3>4. Near(Count(1, "today"), Count(1, "total"))
      BY <2>9 DEF FigureInv, Estimated
    <3>5. (Near(Count(1, "today"), Count(1, "total")))'
      BY <1>1, <2>1, <3>2, <3>3, <3>4 DEF Near, FigureMoved, Ind
    <3>. QED  BY <1>1, <2>9, <3>5 DEF Estimated
  <2>. QED  BY <1>1, <2>2, <2>3, <2>4, <2>5, <2>6, <2>7, <2>8, <2>9, Subjects DEF FigureShape
<1>. QED  BY <1>2, <1>3

\* A query takes the figures for what they are at that moment.
LEMMA QueriesStay ==
    ASSUME subject \in DOMAIN StatusesOf, UNCHANGED <<subject, entry>>
    PROVE  Queries' = Queries
<1>1. All' = All /\ Marked' = Marked /\ subject' = subject /\ \A s : With(s)' = With(s)
  BY DEF All, Marked, With
<1>2. CASE subject = "beds"
  BY <1>1, <1>2 DEF Queries, BedStats
<1>3. CASE subject = "staff"
  BY <1>1, <1>3 DEF Queries, StaffStats
<1>4. CASE subject = "complaints"
  BY <1>1, <1>4 DEF Queries, ComplaintFigures, ComplaintsFound
<1>5. CASE subject = "assets"
  BY <1>1, <1>5 DEF Queries, AssetStats
<1>6. CASE subject = "payments"
  BY <1>1, <1>6 DEF Queries, PaymentStats
<1>7. CASE subject = "residents"
  BY <1>1, <1>7 DEF Queries, ResidentFigures
<1>8. CASE subject = "rent"
  BY <1>1, <1>8 DEF Queries, RentFigures
<1>9. CASE subject = "visitors"
  BY <1>1, <1>9 DEF Queries, VisitorsToday, VisitorsFound
<1>. QED  BY <1>2, <1>3, <1>4, <1>5, <1>6, <1>7, <1>8, <1>9, Subjects

LEMMA AskStep ==
    ASSUME FigureInv, NEW k, Ask(k)
    PROVE  FigureInv'
<1>1. /\ Queries' = Queries /\ subject' = subject /\ entry' = entry /\ QueriesApart
      /\ k \in DOMAIN Queries /\ k \notin report.done
  BY QueriesStay, QueriesKnown DEF FigureInv, FigureShape, Ask
<1>2. PICK d, f, w :
         /\ report = [done |-> d, figures |-> f, writes |-> w]
         /\ d = report.done /\ f = report.figures /\ w = report.writes
  BY DEF FigureInv, FigureShape, ReportOK
<1>3. PICK g : g = [n \in DOMAIN f \cup DOMAIN Queries[k] |->
                     IF n \in DOMAIN Queries[k] THEN Cardinality(Queries[k][n]) ELSE f[n]]
  OBVIOUS
<1>4. report' = [done |-> d \cup {k}, figures |-> g, writes |-> w]
  BY <1>2, <1>3 DEF Ask
<1>5. \A n \in DOMAIN Queries[k] : Cardinality(Queries[k][n]) \in Nat
  BY <1>1, FigureAssumption, FS_Subset, FS_CardinalityType DEF QueriesApart
<1>6. ReportOK'
  <2>1. d \cup {k} \subseteq DOMAIN Queries /\ w \in Nat /\ d \cup {k} # {}
    BY <1>1, <1>2 DEF FigureInv, FigureShape, ReportOK
  <2>2. ASSUME NEW j \in d \cup {k}, NEW n \in DOMAIN Queries[j]
        PROVE  n \in DOMAIN g /\ g[n] \in Nat
    BY <1>2, <1>3, <1>5, <2>2 DEF FigureInv, FigureShape, ReportOK
  <2>. QED  BY <1>1, <1>4, <2>1, <2>2 DEF ReportOK
<1>7. \A j \in DOMAIN Queries : \A n \in DOMAIN Queries[j] : Count(j, n)' = Count(j, n)
  <2> SUFFICES ASSUME NEW j \in DOMAIN Queries, NEW n \in DOMAIN Queries[j]
               PROVE  Count(j, n)' = Count(j, n)
    OBVIOUS
  <2>1. CASE j = k
    BY <1>1, <1>2, <1>3, <1>4, <2>1 DEF Count
  <2>2. CASE j # k
    <3>1. n \notin DOMAIN Queries[k]
      BY <1>1, <2>2 DEF QueriesApart
    <3>2. j \in d => n \in DOMAIN f
      BY <1>2 DEF FigureInv, FigureShape, ReportOK
    <3>. QED  BY <1>1, <1>2, <1>3, <1>4, <2>2, <3>1, <3>2 DEF Count
  <2>. QED  BY <2>1, <2>2
<1>8. report'.writes = report.writes
  BY <1>2, <1>4
<1>9. Estimated'
  <2>1. CASE subject = "beds"
    BY <1>1, <1>7, <1>8, <2>1, BedQueries DEF FigureInv, Estimated, Near
  <2>2. CASE subject = "staff"
    BY <1>1, <1>7, <1>8, <2>2, StaffQueries DEF FigureInv, Estimated, Near
  <2>3. CASE subject = "complaints"
    BY <1>1, <1>7, <1>8, <2>3, ComplaintQueries DEF FigureInv, Estimated, Near
  <2>4. CASE subject = "assets"
    BY <1>1, <1>7, <1>8, <2>4, AssetQueries DEF FigureInv, Estimated, Near
  <2>5. CASE subject = "payments"
    BY <1>1, <1>7, <1>8, <2>5, PaymentQueries DEF FigureInv, Estimated, Near
  <2>6. CASE subject = "residents"
    BY <1>1, <1>7, <1>8, <2>6, ResidentQueries DEF FigureInv, Estimated, Near
  <2>7. CASE subject = "rent"
    BY <1>1, <1>7, <1>8, <2>7, RentQueries DEF FigureInv, Estimated, Near
  <2>8. CASE subject = "visitors"
    BY <1>1, <1>7, <1>8, <2>8, VisitorQueries DEF FigureInv, Estimated, Near
  <2>. QED  BY <2>1, <2>2, <2>3, <2>4, <2>5, <2>6, <2>7, <2>8, Subjects DEF FigureInv, FigureShape
<1>. QED  BY <1>1, <1>6, <1>9 DEF FigureInv, FigureShape
-----------------------------------------------------------------------------
LEMMA EndStep == FigureInv /\ EndReport => FigureInv'
<1> SUFFICES ASSUME FigureInv, EndReport PROVE FigureInv'
  OBVIOUS
<1>1. report' = Report /\ UNCHANGED <<subject, entry>>
  BY DEF EndReport
<1>2. FigureShape'
  BY <1>1 DEF FigureInv, FigureShape, ReportOK, Report
<1>3. (FigureShape /\ report.done = {} => Estimated)'
  BY NothingAsked, PTL
<1>. QED  BY <1>1, <1>2, <1>3 DEF FigureInv, Report

LEMMA FigureInitial == FigureInit => FigureInv
<1> SUFFICES ASSUME FigureInit PROVE FigureInv
  OBVIOUS
<1>1. FigureShape
  BY DEF FigureInit, FigureShape, ReportOK, Report, EntryStates
<1>. QED  BY <1>1, NothingAsked DEF FigureInv, FigureInit, Report

LEMMA FiguresHold == FigureSpec => []FigureInv
<1>1. FigureInv /\ FigureNext => FigureInv'
  <2> SUFFICES ASSUME FigureInv, FigureNext PROVE FigureInv'
    OBVIOUS
  <2>1. ASSUME NEW e \in Entries, NEW x \in EntryStates(subject), EntryWrite(e, x)
        PROVE  FigureInv'
    BY <2>1, WriteShape, WriteEstimated DEF FigureInv
  <2>. QED  BY <2>1, WritesAre, AskStep, EndStep
<1>2. FigureInv /\ UNCHANGED figureVars => FigureInv'
  <2> SUFFICES ASSUME FigureInv, UNCHANGED figureVars PROVE FigureInv'
    OBVIOUS
  <2>1. Queries' = Queries /\ report' = report /\ subject' = subject /\ entry' = entry
    BY QueriesStay DEF FigureInv, FigureShape, figureVars
  <2>2. \A k, n : Count(k, n)' = Count(k, n)
    BY <2>1 DEF Count
  <2>. QED  BY <2>1, <2>2 DEF FigureInv, FigureShape, ReportOK, Estimated, Near
<1>. QED  BY <1>1, <1>2, FigureInitial, PTL DEF FigureSpec

\* The parts of a report add up to its total, up to the writes that came between its
\* queries (getStats of the beds, staff, assets and payments, the dashboard).
THEOREM FiguresTheorem == FigureSpec => []PartsAddUp
<1>1. FigureInv => PartsAddUp
  <2> SUFFICES ASSUME FigureInv, report.done = DOMAIN Queries
               PROVE  Balanced(subject, report.figures, report.writes)
    BY DEF PartsAddUp
  <2> DEFINE g == report.figures
  <2>1. \A k \in DOMAIN Queries : \A n : Count(k, n) = g[n]
    BY DEF Count
  <2> HIDE DEF g
  <2>2. CASE subject = "beds"
    <3>1. Balanced("beds", g, report.writes)
      BY <2>1, <2>2, BedQueries DEF FigureInv, Estimated, Near, Balanced, PartsSum, Whole
    <3>. QED  BY <2>2, <3>1 DEF g
  <2>3. CASE subject = "staff"
    <3>1. Balanced("staff", g, report.writes)
      BY <2>1, <2>3, StaffQueries DEF FigureInv, Estimated, Near, Balanced, PartsSum, Whole
    <3>. QED  BY <2>3, <3>1 DEF g
  <2>4. CASE subject = "complaints"
    <3>1. Balanced("complaints", g, report.writes)
      BY <2>1, <2>4, ComplaintQueries DEF FigureInv, Estimated, Near, Balanced, PartsSum, Whole
    <3>. QED  BY <2>4, <3>1 DEF g
  <2>5. CASE subject = "assets"
    <3>1. Balanced("assets", g, report.writes)
      BY <2>1, <2>5, AssetQueries DEF FigureInv, Estimated, Near, Balanced, PartsSum, Whole
    <3>. QED  BY <2>5, <3>1 DEF g
  <2>6. CASE subject = "payments"
    <3>1. Balanced("payments", g, report.writes)
      BY <2>1, <2>6, PaymentQueries DEF FigureInv, Estimated, Near, Balanced, PartsSum, Whole
    <3>. QED  BY <2>6, <3>1 DEF g
  <2>7. CASE subject = "residents"
    <3>1. Balanced("residents", g, report.writes)
      BY <2>1, <2>7, ResidentQueries DEF FigureInv, Estimated, Near, Balanced, PartsSum, Whole
    <3>. QED  BY <2>7, <3>1 DEF g
  <2>8. CASE subject = "rent"
    <3>1. Balanced("rent", g, report.writes)
      BY <2>1, <2>8, RentQueries DEF FigureInv, Estimated, Near, Balanced, PartsSum, Whole
    <3>. QED  BY <2>8, <3>1 DEF g
  <2>9. CASE subject = "visitors"
    <3>1. Balanced("visitors", g, report.writes)
      BY <2>1, <2>9, VisitorQueries DEF FigureInv, Estimated, Near, Balanced, PartsSum, Whole
    <3>. QED  BY <2>9, <3>1 DEF g
  <2>. QED  BY <2>2, <2>3, <2>4, <2>5, <2>6, <2>7, <2>8, <2>9, Subjects DEF FigureInv, FigureShape
<1>. QED  BY <1>1, FiguresHold, PTL
=============================================================================
