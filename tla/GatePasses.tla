----------------------------- MODULE GatePasses -----------------------------
(***************************************************************************)
(* Gate passes: a resident goes out, is expected back at some time or at   *)
(* none, and comes back.  Whether that was late is decided by a request    *)
(* that reads the expected time and writes the status one await later,     *)
(* while others change the expected time.                                  *)
(*                                                                         *)
(* Two fields of a pass belong to the verification.  moved: its expected   *)
(* time was written after, or in the same request as, the judgement.       *)
(* cleared: its time of return was taken away after the judgement, which   *)
(* stayed.                                                                 *)
(***************************************************************************)
EXTENDS Naturals

CONSTANTS
    Slips,    \* ids of gate passes
    Porters,    \* slots for requests in flight
    NoTime,     \* a time that is not set, and null in the body of a request
    Kept,       \* a time that the body of a request leaves out
    MaxTime     \* bound on the time

ASSUME PassAssumption ==
    Slips # {} /\ MaxTime \in Nat /\ NoTime \notin Nat /\ Kept \notin Nat \cup {NoTime}

VARIABLES
    pass,    \* the gate passes
    clock,   \* the time
    porter   \* the requests in flight

passVars == <<pass, clock, porter>>
-----------------------------------------------------------------------------
Times == 0 .. MaxTime
Maybe == Times \cup {NoTime}
Body  == Maybe \cup {Kept}

NoPass   == [status |-> "none", expected |-> NoTime, actual |-> NoTime,
             moved |-> FALSE, cleared |-> FALSE]
NoPorter == [pc |-> "idle", pass |-> CHOOSE p \in Slips : TRUE,
             actual |-> NoTime, expected |-> Kept, seen |-> NoTime,
             moved |-> FALSE]

PassTypeOK ==
    /\ pass \in [Slips ->
          [status : {"none", "OUT", "RETURNED", "OVERDUE"}, expected : Maybe,
           actual : Maybe, moved : BOOLEAN, cleared : BOOLEAN]]
    /\ clock \in Times
    /\ porter \in [Porters ->
          [pc : {"idle", "mark", "read", "write"}, pass : Slips,
           actual : Maybe, expected : Body, seen : Maybe, moved : BOOLEAN]]

PassInit ==
    /\ pass = [p \in Slips |-> NoPass]
    /\ clock = 0
    /\ porter = [c \in Porters |-> NoPorter]

\* The status of a pass with this expected and this actual return time; the
\* first form takes who is back on time for late.
JudgedEarly(expected, actual) ==
    IF expected # NoTime /\ actual >= expected THEN "OVERDUE" ELSE "RETURNED"
Judged(expected, actual) ==
    IF expected # NoTime /\ actual > expected THEN "OVERDUE" ELSE "RETURNED"

EndPorter(c) == porter' = [porter EXCEPT ![c] = NoPorter]
-----------------------------------------------------------------------------
\* create; the resident it looks for does not matter here.  The id is new.
CreatePass(p, expected) ==
    /\ pass[p].status = "none"
    /\ \A c \in Porters : porter[c].pc = "idle" \/ porter[c].pass # p
    /\ pass' = [pass EXCEPT ![p] = [NoPass EXCEPT !.status = "OUT",
                                                  !.expected = expected]]
    /\ UNCHANGED <<clock, porter>>

\* The expected time of p is written: the requests that have read it are told.
Moved(p) ==
    [c \in Porters |-> IF porter[c].pc = "write" /\ porter[c].pass = p
                       THEN [porter[c] EXCEPT !.moved = TRUE] ELSE porter[c]]

\* update without a time of return: one findOneAndUpdate of the expected time,
\* which may be null.
PatchExpected(p, expected) ==
    /\ pass[p].status # "none"
    /\ pass' = [pass EXCEPT ![p].expected = expected,
                            ![p].moved = pass[p].actual # NoTime]
    /\ porter' = Moved(p)
    /\ UNCHANGED clock

\* update with null for the time of return, which passes for a body without
\* one: the status stays as it is, the time is gone.
PatchNoReturn(p, expected) ==
    /\ pass[p].status # "none"
    /\ pass' = [pass EXCEPT ![p].expected = IF expected = Kept THEN @ ELSE expected,
                            ![p].actual = NoTime,
                            ![p].moved = FALSE,
                            ![p].cleared = pass[p].status # "OUT"]
    /\ porter' = IF expected = Kept THEN porter ELSE Moved(p)
    /\ UNCHANGED clock

\* update with the time of return, and maybe with an expected time as well.
PatchReturn(c, p, actual, expected) ==
    /\ porter[c].pc = "idle"
    /\ pass[p].status # "none"
    /\ porter' = [porter EXCEPT ![c] =
          [NoPorter EXCEPT !.pc = "read", !.pass = p, !.actual = actual,
                           !.expected = expected]]
    /\ UNCHANGED <<pass, clock>>

\* markReturn reads the pass.
MarkReturn(c, p) ==
    /\ porter[c].pc = "idle"
    /\ pass[p].status # "none"
    /\ porter' = [porter EXCEPT ![c] = [NoPorter EXCEPT !.pc = "mark",
                                                        !.pass = p]]
    /\ UNCHANGED <<pass, clock>>

\* It takes the time and calls update, which judges again whatever status it
\* is given.
MarkNow(c) ==
    /\ porter[c].pc = "mark"
    /\ porter' = [porter EXCEPT ![c].pc = "read", ![c].actual = clock]
    /\ UNCHANGED <<pass, clock>>

\* update reads the pass for its expected time.
ReadExpected(c) ==
    /\ porter[c].pc = "read"
    /\ porter' = [porter EXCEPT ![c].pc = "write",
                                ![c].seen = pass[porter[c].pass].expected]
    /\ UNCHANGED <<pass, clock>>

\* findOneAndUpdate writes the return and the status it was judged to be.
WriteReturn(c) ==
    /\ porter[c].pc = "write"
    /\ LET t == porter[c]  p == t.pass IN
       /\ pass' = IF pass[p].status = "none" THEN pass
                  ELSE [pass EXCEPT ![p] =
                         [status   |-> Judged(t.seen, t.actual),
                          expected |-> IF t.expected = Kept THEN @.expected
                                                            ELSE t.expected,
                          actual   |-> t.actual,
                          moved    |-> t.moved \/ t.expected # Kept,
                          cleared  |-> FALSE]]
       /\ porter' = [IF t.expected = Kept THEN porter ELSE Moved(p)
                     EXCEPT ![c] = NoPorter]
    /\ UNCHANGED clock

RemovePass(p) ==
    /\ pass[p].status # "none"
    /\ pass' = [pass EXCEPT ![p] = NoPass]
    /\ porter' = Moved(p)
    /\ UNCHANGED clock

\* A database call is rejected, or the process stops.
LosePorter(c) ==
    /\ porter[c].pc # "idle"
    /\ EndPorter(c)
    /\ UNCHANGED <<pass, clock>>

PassTick == clock < MaxTime /\ clock' = clock + 1 /\ UNCHANGED <<pass, porter>>

PassNext ==
    \/ \E p \in Slips, t \in Maybe : CreatePass(p, t)
    \/ \E p \in Slips, t \in Maybe : PatchExpected(p, t)
    \/ \E p \in Slips, t \in Body : PatchNoReturn(p, t)
    \/ \E p \in Slips : RemovePass(p)
    \/ \E c \in Porters :
          \/ \E p \in Slips :
                \/ MarkReturn(c, p)
                \/ \E actual \in Times, t \in Body : PatchReturn(c, p, actual, t)
          \/ MarkNow(c) \/ ReadExpected(c) \/ WriteReturn(c) \/ LosePorter(c)
    \/ PassTick

PassSpec == PassInit /\ [][PassNext]_passVars
-----------------------------------------------------------------------------
\* The list of the dashboard.
GetActivePasses == {p \in Slips : pass[p].status = "OUT"}

(* Properties *)

\* A pass says OVERDUE exactly when the resident came back after the time that
\* was expected, although that was read in another call than the status is
\* written in; only when the expected time is written between the two, with
\* the return or after it may the status belong to another one.  Whoever has
\* not come back, and nobody else, is on the list of those who are out: but a
\* request that takes the time of return away again leaves its pass off it.
PassJudged ==
    /\ \A p \in Slips : pass[p].actual # NoTime /\ ~pass[p].moved =>
          (pass[p].status = "OVERDUE"
              <=> pass[p].expected # NoTime /\ pass[p].actual > pass[p].expected)
    /\ GetActivePasses = {p \in Slips : /\ pass[p].status # "none"
                                        /\ pass[p].actual = NoTime
                                        /\ ~pass[p].cleared}
=============================================================================
