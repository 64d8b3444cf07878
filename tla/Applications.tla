---------------------------- MODULE Applications ----------------------------
(***************************************************************************)
(* The applications, seats and check-ins of one drive, and the requests    *)
(* that change them: booking, releasing, the employer's decisions, the     *)
(* scan at the gate, the desk's "mark present", confirming a flagged scan, *)
(* and the nightly job that expires the drive and marks the no-shows.      *)
(*                                                                         *)
(* A request is not atomic.  It reads rows before its transaction, reads   *)
(* the application inside it (Postgres READ COMMITTED: the latest committed *)
(* row, no lock), moves the seat with a guarded UPDATE that locks the slot *)
(* row until the transaction ends, and then moves the application with a   *)
(* compare-and-set on its state and commits.  Other requests run between   *)
(* any two of these.                                                       *)
(***************************************************************************)
EXTENDS Integers, FiniteSets, DriveStatuses

CONSTANTS
    Candidates,    \* each has at most one application to the drive
    Requests,      \* API requests that can be in flight at once
    Worker,        \* the maintenance worker, which runs one job at a time
    Nobody,        \* the candidate of an idle request
    SlotIds,       \* ids that rows of drive_slots can have
    InitialSlots,  \* the slots the drive was created with: 1..InitialSlots
    Handlers,      \* the API handlers requests may run: a part of them in small instances
    Capacity,      \* seats in each slot (create() gives every slot the same)
    MaxCrashes     \* bound on how often the worker dies in mid-job, 0 for none

ASSUME CandidatesAssumption == IsFiniteSet(Candidates) /\ Nobody \notin Candidates
ASSUME ProcessAssumption == Worker \notin Requests
ASSUME HandlerAssumption ==
    Handlers \subseteq {"apply", "release", "decide", "scan", "markPresent", "confirm"}
ASSUME SlotAssumption ==
    /\ SlotIds \subseteq Nat \ {0}
    /\ InitialSlots \in Nat \ {0}
    /\ 1..InitialSlots \subseteq SlotIds
ASSUME BoundAssumption == Capacity \in Nat \ {0} /\ MaxCrashes \in Nat

Procs == Requests \cup {Worker}
NoSlot == 0

VARIABLES
    app,       \* applications: state ("NONE" while there is no row) and slotId
    booked,    \* drive_slots.bookedCount, committed value
    checkIn,   \* check_ins: method ("NONE" while there is no row) and isValid
    outcomes,  \* candidates with a hiring_outcomes row
    status,    \* drives.status
    schedule,  \* drive_slots rows, when each starts, and drives.endsAt
    clock,     \* the time, in slot lengths: slot i starts at i
    job,       \* the expire-drives run: its phase and the rows left to mark
    crashes,
    req        \* what each process is doing

vars == <<app, booked, checkIn, outcomes, status, schedule, clock, job, crashes, req>>
rowVars == <<app, booked, checkIn, outcomes>>
driveVars == <<status, schedule, clock>>
jobVars == <<job, crashes>>

States == {"NONE", "CONFIRMED", "SCREENED_OUT", "WITHDRAWN", "REJECTED",
           "NO_SHOW", "CHECKED_IN", "INTERVIEWED", "HIRED"}
Methods == {"NONE", "SCAN", "WALK_IN", "MANUAL"}
Ops == {"none", "apply", "release", "decide", "scan", "markPresent", "confirm", "noShow"}
Phases == {"idle", "begun", "seen", "seated", "thrown"}
Errors == {"none", "Illegal", "SlotFull", "Stale", "Unique"}

Application == [state : States, slotId : SlotIds \cup {NoSlot}]
CheckIn == [method : Methods, isValid : BOOLEAN]
Schedule == [slots : SUBSET SlotIds, starts : [SlotIds -> Nat], ends : Nat]
Request == [op : Ops, phase : Phases, cand : Candidates \cup {Nobody}, to : States,
            slot : SlotIds \cup {NoSlot},       \* asked for by apply
            exists : BOOLEAN,                   \* scan: a row was there before the transaction
            method : Methods, valid : BOOLEAN,  \* scan, markPresent: the check-in to create
            seen : States, seenSlot : SlotIds \cup {NoSlot},
            held : SlotIds \cup {NoSlot},       \* the slot row updated and locked
            error : Errors]

NoRow == [state |-> "NONE", slotId |-> NoSlot]
NoCheckIn == [method |-> "NONE", isValid |-> FALSE]
Idle == [op |-> "none", phase |-> "idle", cand |-> Nobody, to |-> "NONE", slot |-> NoSlot,
         exists |-> FALSE, method |-> "NONE", valid |-> FALSE, seen |-> "NONE",
         seenSlot |-> NoSlot, held |-> NoSlot, error |-> "none"]

Init ==
    /\ app = [c \in Candidates |-> NoRow]
    /\ booked = [s \in SlotIds |-> 0]
    /\ checkIn = [c \in Candidates |-> NoCheckIn]
    /\ outcomes = {}
    /\ status = "LIVE"
    /\ schedule = [slots |-> 1..InitialSlots, starts |-> [s \in SlotIds |-> s], ends |-> InitialSlots + 1]
    /\ clock = 0
    /\ job = [phase |-> "idle", batch |-> {}]
    /\ crashes = 0
    /\ req = [p \in Procs |-> Idle]

Ended == clock >= schedule.ends
Started(s) == clock >= schedule.starts[s]

-----------------------------------------------------------------------------
(* The transition table and what follows from it. *)

\* APPLICATION_TRANSITIONS, without the rules from INTERESTED: nothing in the
\* program creates an application in that state.
Transitions ==
    {<<"NONE", t, "candidate">> : t \in {"CONFIRMED", "SCREENED_OUT", "CHECKED_IN"}}
    \cup {<<"WITHDRAWN", t, "candidate">> : t \in {"CONFIRMED", "SCREENED_OUT", "CHECKED_IN"}}
    \cup {<<"CONFIRMED", t, "candidate">> : t \in {"WITHDRAWN", "CHECKED_IN"}}
    \cup {<<"CONFIRMED", t, "employer">> : t \in {"REJECTED", "CHECKED_IN"}}
    \cup {<<"CONFIRMED", "NO_SHOW", "system">>}
    \cup {<<f, "CHECKED_IN", "employer">> : f \in {"NO_SHOW", "SCREENED_OUT"}}
    \cup {<<"CHECKED_IN", t, "employer">> : t \in {"INTERVIEWED", "REJECTED"}}
    \cup {<<"INTERVIEWED", t, "employer">> : t \in {"REJECTED", "HIRED"}}

Actor(op) == CASE op \in {"apply", "release", "scan"} -> "candidate"
               [] op = "noShow" -> "system"
               [] OTHER -> "employer"

\* Mutant: the rule's actors are not looked at.
AssertLegalForAnyone(from, to, op) == \E rule \in Transitions : rule[1] = from /\ rule[2] = to
AssertLegal(from, to, op) == <<from, to, Actor(op)>> \in Transitions

TakesSeat(r) == r.to = "CONFIRMED"
\* Mutants: a rejection forgets the seat; a no-show gives it back.
FreesSeatOfWithdrawn(r) == r.to = "WITHDRAWN" /\ r.seen = "CONFIRMED" /\ r.seenSlot # NoSlot
FreesSeatOfAbsent(r) ==
    r.to \in {"WITHDRAWN", "REJECTED", "NO_SHOW"} /\ r.seen = "CONFIRMED" /\ r.seenSlot # NoSlot
FreesSeat(r) == r.to \in {"WITHDRAWN", "REJECTED"} /\ r.seen = "CONFIRMED" /\ r.seenSlot # NoSlot
WalkIn(r) == r.to = "CHECKED_IN" /\ r.seen \notin {"CONFIRMED", "NO_SHOW"}

\* The slotId the move writes.
SlotAfter(r) ==
    CASE r.to = "CONFIRMED" -> r.slot
      [] r.to = "WITHDRAWN" \/ (r.to = "REJECTED" /\ r.seen = "CONFIRMED") \/ WalkIn(r) -> NoSlot
      [] OTHER -> r.seenSlot

\* Mutant: every update of the slot row counts down.
BookedAfterDown(r) ==
    IF r.held = NoSlot THEN booked ELSE [booked EXCEPT ![r.held] = @ - 1]

\* bookedCount once the transaction of r commits.
BookedAfter(r) ==
    IF r.held = NoSlot THEN booked
    ELSE [booked EXCEPT ![r.held] = IF TakesSeat(r) THEN @ + 1 ELSE @ - 1]

-----------------------------------------------------------------------------
(* What a handler does before its transaction. *)

Start(p, r) ==
    /\ r.op \in Handlers
    /\ req[p].phase = "idle"
    /\ req' = [req EXCEPT ![p] = [r EXCEPT !.phase = "begun"]]
    /\ UNCHANGED <<rowVars, driveVars, jobVars>>

\* apply: the drive is open, the slot is one of its slots and hasn't started.
\* The answers to the knockout questions decide where the application goes.
Apply(p, c, s, to) ==
    /\ status = "LIVE" /\ ~Ended
    /\ s \in schedule.slots /\ ~Started(s)
    /\ to \in {"CONFIRMED", "SCREENED_OUT"}
    /\ Start(p, [Idle EXCEPT !.op = "apply", !.cand = c, !.to = to,
                            !.slot = IF to = "CONFIRMED" THEN s ELSE NoSlot])

\* release: allowed whatever the drive's status, until the drive has ended.
Release(p, c) ==
    /\ app[c].state # "NONE"
    /\ ~Ended
    /\ Start(p, [Idle EXCEPT !.op = "release", !.cand = c, !.to = "WITHDRAWN"])

\* updateByEmployer, and each row of the employer's bulk rejection.
Decide(p, c, to) ==
    /\ app[c].state # "NONE"
    /\ status # "SUSPENDED"
    /\ to \in {"INTERVIEWED", "HIRED", "REJECTED"}
    /\ Start(p, [Idle EXCEPT !.op = "decide", !.cand = c, !.to = to])

\* checkIn: a code is shown only for a live drive, but one scanned before the
\* end may arrive after it, late and flagged.  Whether the scan is flagged
\* (late, or a poor GPS fix) is the world's choice.
Scan(p, c, unflagged) ==
    /\ checkIn[c].method = "NONE"
    /\ status = "LIVE"
    /\ Ended => ~unflagged
    /\ app[c].state \notin {"NO_SHOW", "SCREENED_OUT", "REJECTED"}
    /\ Start(p, [Idle EXCEPT !.op = "scan", !.cand = c, !.to = "CHECKED_IN",
                            !.exists = app[c].state # "NONE",
                            !.method = IF app[c].state = "CONFIRMED" THEN "SCAN" ELSE "WALK_IN",
                            !.valid = unflagged])

MarkPresent(p, c) ==
    /\ app[c].state # "NONE"
    /\ status # "SUSPENDED"
    /\ checkIn[c].method = "NONE"
    /\ Start(p, [Idle EXCEPT !.op = "markPresent", !.cand = c, !.to = "CHECKED_IN",
                            !.method = "MANUAL", !.valid = TRUE])

ConfirmFlagged(p, c) ==
    /\ checkIn[c].method # "NONE" /\ ~checkIn[c].isValid
    /\ status # "SUSPENDED"
    /\ Start(p, [Idle EXCEPT !.op = "confirm", !.cand = c])

-----------------------------------------------------------------------------
(* The transaction: createApplication or transitionApplication, then the   *)
(* rows that belong to the move.                                           *)

Step(p, r) == req' = [req EXCEPT ![p] = r]
\* The transaction rolls back; what is left of the request is its error.
Throw(p, error) ==
    Step(p, [Idle EXCEPT !.op = req[p].op, !.cand = req[p].cand, !.phase = "thrown", !.error = error])

\* The read inside the transaction and assertLegal.  A scan that found no row
\* beforehand creates one; every other handler moves the row it finds now.
ReadApplication(p) ==
    LET r == req[p]
        row == IF r.op = "scan" /\ ~r.exists THEN NoRow ELSE app[r.cand]
    IN  /\ r.phase = "begun" /\ r.op # "confirm"
        /\ \/ /\ AssertLegal(row.state, r.to, r.op)
              /\ Step(p, [r EXCEPT !.phase = "seen", !.seen = row.state, !.seenSlot = row.slotId])
           \/ /\ ~AssertLegal(row.state, r.to, r.op)
              /\ Throw(p, "Illegal")
        /\ UNCHANGED <<rowVars, driveVars, jobVars>>

\* Mutant: the count is read and written without a row lock.
NeverLocked(p, s) == FALSE

\* A slot row updated by a transaction that has not ended.
LockedByOther(p, s) == \E q \in Procs \ {p} : req[q].held = s

\* UPDATE ... SET bookedCount + 1 WHERE bookedCount < capacity.  A full (or
\* dropped) slot matches nothing at once; a locked one is waited for.
TakeSeat(p) ==
    LET r == req[p]
        free == r.slot \in schedule.slots /\ booked[r.slot] < Capacity
    IN  /\ r.phase = "seen" /\ TakesSeat(r)
        /\ \/ ~free /\ Throw(p, "SlotFull")
           \/ /\ free /\ ~LockedByOther(p, r.slot)
              /\ Step(p, [r EXCEPT !.phase = "seated", !.held = r.slot])
        /\ UNCHANGED <<rowVars, driveVars, jobVars>>

\* UPDATE ... SET bookedCount - 1 WHERE bookedCount > 0, of the slot that was
\* read with the application.  Matching no row is not an error.
ReleaseSeat(p) ==
    LET r == req[p]
        counted == r.seenSlot \in schedule.slots /\ booked[r.seenSlot] > 0
    IN  /\ r.phase = "seen" /\ FreesSeat(r)
        /\ \/ ~counted /\ Step(p, [r EXCEPT !.phase = "seated"])
           \/ /\ counted /\ ~LockedByOther(p, r.seenSlot)
              /\ Step(p, [r EXCEPT !.phase = "seated", !.held = r.seenSlot])
        /\ UNCHANGED <<rowVars, driveVars, jobVars>>

ReadyToCommit(r) ==
    \/ r.phase = "seated"
    \/ r.phase = "seen" /\ ~TakesSeat(r) /\ ~FreesSeat(r)

\* Mutant: an update by id alone.
UnmovedUnchecked(r) == TRUE

\* The compare-and-set found the state it expected (for a creation: no row),
\* and the transaction committed with everything that goes with the move.
Unmoved(r) == app[r.cand].state = r.seen

CommitMove(p) ==
    LET r == req[p]
        c == r.cand
    IN  /\ ReadyToCommit(r)
        /\ Unmoved(r)
        /\ r.to = "CHECKED_IN" => checkIn[c].method = "NONE"
        /\ app' = [app EXCEPT ![c] = [state |-> r.to, slotId |-> SlotAfter(r)]]
        /\ booked' = BookedAfter(r)
        /\ checkIn' = IF r.to = "CHECKED_IN"
                      THEN [checkIn EXCEPT ![c] = [method |-> r.method, isValid |-> r.valid]]
                      ELSE checkIn
        /\ outcomes' = IF r.to = "HIRED" THEN outcomes \cup {c} ELSE outcomes
        /\ Step(p, Idle)
        /\ UNCHANGED <<driveVars, jobVars>>

\* The row moved in between (StaleTransitionError), or the insert met one
\* (unique constraint).  The transaction rolls back, its seat with it.
LoseRace(p) ==
    LET r == req[p]
    IN  /\ ReadyToCommit(r)
        /\ \/ ~Unmoved(r)
           \/ r.to = "CHECKED_IN" /\ checkIn[r.cand].method # "NONE"
        /\ Throw(p, IF r.seen # "NONE" /\ ~Unmoved(r) THEN "Stale" ELSE "Unique")
        /\ UNCHANGED <<rowVars, driveVars, jobVars>>

\* confirmFlagged's transaction: an update by id.
CommitConfirm(p) ==
    /\ req[p].phase = "begun" /\ req[p].op = "confirm"
    /\ checkIn' = [checkIn EXCEPT ![req[p].cand].isValid = TRUE]
    /\ Step(p, Idle)
    /\ UNCHANGED <<app, booked, outcomes, driveVars, jobVars>>

\* An API request answers its error.  resolveRace turns a lost race into the
\* check-in that won it; no answer changes a row.
AnswerError(p) ==
    /\ p \in Requests
    /\ req[p].phase = "thrown"
    /\ Step(p, Idle)
    /\ UNCHANGED <<rowVars, driveVars, jobVars>>

\* The API process dies or the transaction times out: everything uncommitted
\* is rolled back.
Abandon(p) ==
    /\ p \in Requests
    /\ req[p].phase # "idle"
    /\ Step(p, Idle)
    /\ UNCHANGED <<rowVars, driveVars, jobVars>>

-----------------------------------------------------------------------------
(* expireDrives, up to the end of markNoShows. *)

ExpireDrives ==
    /\ job.phase = "idle"
    /\ status' = IF status = "LIVE" /\ Ended THEN "EXPIRED" ELSE status
    /\ job' = [job EXCEPT !.phase = "expired"]
    /\ UNCHANGED <<rowVars, schedule, clock, crashes, req>>

\* Mutant: every ended drive, whatever its status.
FindUnattendedAnywhere ==
    /\ job.phase = "expired"
    /\ job' = [phase |-> "marking",
               batch |-> {c \in Candidates : app[c].state = "CONFIRMED" /\ checkIn[c].method = "NONE" /\ Ended}]
    /\ UNCHANGED <<rowVars, driveVars, crashes, req>>

FindUnattended ==
    /\ job.phase = "expired"
    /\ job' = [phase |-> "marking",
               batch |-> {c \in Candidates : /\ app[c].state = "CONFIRMED"
                                             /\ checkIn[c].method = "NONE"
                                             /\ status = "EXPIRED"}]
    /\ UNCHANGED <<rowVars, driveVars, crashes, req>>

\* The loop takes the next row of the batch.
MarkNoShow(c) ==
    /\ job.phase = "marking" /\ c \in job.batch
    /\ req[Worker].phase = "idle"
    /\ job' = [job EXCEPT !.batch = @ \ {c}]
    /\ Step(Worker, [Idle EXCEPT !.phase = "begun", !.op = "noShow", !.cand = c, !.to = "NO_SHOW"])
    /\ UNCHANGED <<rowVars, driveVars, crashes>>

\* Mutant: an error of another kind leaves the run hanging.
CatchStaleOnly ==
    /\ req[Worker].phase = "thrown" /\ req[Worker].error = "Stale"
    /\ Step(Worker, Idle)
    /\ UNCHANGED <<rowVars, driveVars, job, crashes>>

\* StaleTransitionError is counted and the loop goes on; anything else fails
\* the run, and a retry or the next night starts over.
CatchInLoop ==
    /\ req[Worker].phase = "thrown"
    /\ Step(Worker, Idle)
    /\ job' = IF req[Worker].error = "Stale" THEN job ELSE [phase |-> "idle", batch |-> {}]
    /\ UNCHANGED <<rowVars, driveVars, crashes>>

FinishRun ==
    /\ job.phase = "marking" /\ job.batch = {}
    /\ req[Worker].phase = "idle"
    /\ job' = [job EXCEPT !.phase = "idle"]
    /\ UNCHANGED <<rowVars, driveVars, crashes, req>>

\* The worker dies: the run is lost, and a later one starts over.
WorkerCrash ==
    /\ job.phase # "idle"
    /\ MaxCrashes # 0 => crashes < MaxCrashes
    /\ crashes' = IF MaxCrashes = 0 THEN 0 ELSE crashes + 1
    /\ job' = [phase |-> "idle", batch |-> {}]
    /\ Step(Worker, Idle)
    /\ UNCHANGED <<rowVars, driveVars>>

-----------------------------------------------------------------------------
(* The drive around them, once it has been live.  Module DriveLifecycle    *)
(* models how its status moves, stale submissions and cancellations        *)
(* included; here any of those moves may happen at any time.  A drive that *)
(* has ended is not approved, lifted or, seconds being nothing beside a    *)
(* slot's length, submitted.  LIVE becomes EXPIRED only through the job.   *)

MoveDrive(to) ==
    /\ <<status, to>> \in StatusMoves
    /\ to \in {"LIVE", "PENDING"} => ~Ended
    /\ status' = to
    /\ UNCHANGED <<rowVars, schedule, clock, jobVars, req>>

Tick ==
    /\ ~Ended
    /\ clock' = clock + 1
    /\ UNCHANGED <<rowVars, status, schedule, jobVars, req>>

-----------------------------------------------------------------------------
\* What the candidate and the employer ask for, and what the desk records.
BeginBooking(p, c) ==
    \/ \E s \in SlotIds, to \in States : Apply(p, c, s, to)
    \/ Release(p, c)
    \/ \E to \in States : Decide(p, c, to)

BeginAtDesk(p, c) ==
    \/ \E unflagged \in BOOLEAN : Scan(p, c, unflagged)
    \/ MarkPresent(p, c)
    \/ ConfirmFlagged(p, c)

Begin(p) == \E c \in Candidates : BeginBooking(p, c) \/ BeginAtDesk(p, c)

Advance(p) ==
    \/ ReadApplication(p) \/ TakeSeat(p) \/ ReleaseSeat(p)
    \/ CommitMove(p) \/ LoseRace(p) \/ CommitConfirm(p)

RunJob ==
    \/ ExpireDrives \/ FindUnattended \/ CatchInLoop \/ FinishRun
    \/ \E c \in Candidates : MarkNoShow(c)

Next ==
    \/ \E p \in Requests : Begin(p) \/ AnswerError(p) \/ Abandon(p)
    \/ \E p \in Procs : Advance(p)
    \/ RunJob \/ WorkerCrash
    \/ \E to \in Statuses : MoveDrive(to)
    \/ Tick

Spec == Init /\ [][Next]_vars

\* A transaction that has begun goes on (Prisma ends it after 5 s at the
\* latest), time passes, and the job's cron entry keeps starting it.
Fairness ==
    /\ \A p \in Procs : WF_vars(Advance(p))
    /\ \A p \in Requests : WF_vars(AnswerError(p))
    /\ WF_vars(RunJob)
    /\ WF_vars(Tick)

FairSpec == Spec /\ Fairness

-----------------------------------------------------------------------------
(* Properties. *)

\* Every variable has its type.
TypeOK ==
    /\ app \in [Candidates -> Application]
    /\ booked \in [SlotIds -> Nat]
    /\ checkIn \in [Candidates -> CheckIn]
    /\ outcomes \in SUBSET Candidates
    /\ status \in Statuses
    /\ schedule \in Schedule
    /\ clock \in Nat
    /\ job \in [phase : {"idle", "expired", "marking"}, batch : SUBSET Candidates]
    /\ crashes \in Nat
    /\ req \in [Procs -> Request]

\* Counting the seat an unfinished booking has already added to the slot row,
\* a slot never has more seats taken than it has: whoever reads capacity left
\* and whoever waits on the row lock, takeSeat's WHERE clause decides.
NeverOverCapacity == \A s \in SlotIds :
    /\ booked[s] <= Capacity
    /\ \A p \in Procs : req[p].held = s /\ TakesSeat(req[p]) => booked[s] < Capacity

\* A slot row is locked by at most one transaction, so two requests never
\* count from the same bookedCount.
SlotLockExclusive == \A p, q \in Procs :
    req[p].held # NoSlot /\ req[p].held = req[q].held => p = q

Arrived == {"CHECKED_IN", "INTERVIEWED", "HIRED"}

\* The check-in row and the application's state never disagree: whoever has
\* arrived has one, and whoever has one arrived (and may then have been
\* turned down).  So nobody marked absent, withdrawn or only booked has a
\* check-in that could be charged for.
CheckInAgreesWithState == \A c \in Candidates :
    /\ app[c].state \in Arrived => checkIn[c].method # "NONE"
    /\ checkIn[c].method # "NONE" => app[c].state \in Arrived \cup {"REJECTED"}

\* A hire and its outcome record exist together (updateByEmployer).
OutcomeIffHired == outcomes = {c \in Candidates : app[c].state = "HIRED"}

\* Both: the rows that hang on an application always fit its state.
RowsFitState == CheckInAgreesWithState /\ OutcomeIffHired

Holders(s) == {c \in Candidates : app[c].slotId = s}
SeatHolders == {c \in Candidates : app[c].slotId # NoSlot}

\* Only a state that booked a seat points at a slot.
SeatOnlyWhenBooked == \A c \in Candidates :
    app[c].slotId # NoSlot =>
        app[c].state \in {"CONFIRMED", "NO_SHOW", "REJECTED"} \cup Arrived

\* bookedCount counts exactly the applications that point at the slot.
SeatsConserved == \A s \in SlotIds : booked[s] = Cardinality(Holders(s))

\* What is left of that when an application is rebooked under another
\* request's read: the counts may sit on the wrong slots, but together they
\* still cover everyone who holds a seat, so the drive is never overbooked.
DriveNotOverbooked ==
    Cardinality(SeatHolders)
        <= Cardinality({seat \in SlotIds \X (1..Capacity) : seat[2] <= booked[seat[1]]})

\* TECHNICAL.md: a slot's last seat can't be sold twice.
LastSeatSoldOnce == \A s \in SlotIds :
    Cardinality({c \in Holders(s) : app[c].state = "CONFIRMED"}) <= Capacity

\* A no-show is never marked while the drive is running, suspended or
\* cancelled without having expired first (TECHNICAL.md, "No-shows and
\* reliability: never marked against anyone on a suspended drive").
AbsentOnlyAfterExpiry ==
    [][\A c \in Candidates :
        app[c].state # "NO_SHOW" /\ app'[c].state = "NO_SHOW" =>
            Ended /\ status \in {"EXPIRED", "CANCELLED"}]_vars

\* Two steps of different requests on one application never both count: the
\* application and its rows move as ApplicationLifecycle says.
Lifecycle == INSTANCE ApplicationLifecycle WITH
    state <- [c \in Candidates |-> app[c].state],
    arrival <- [c \in Candidates |-> IF checkIn[c].method = "NONE" THEN "none"
                                     ELSE IF checkIn[c].isValid THEN "valid" ELSE "flagged"],
    hired <- outcomes
ImplementsLifecycle == Lifecycle!LifecycleSpec

\* Nobody stays CONFIRMED on an expired drive: some night's run marks them,
\* whatever races with it and however often a run dies.
AbsenteesAreMarked == \A c \in Candidates :
    (status = "EXPIRED" /\ app[c].state = "CONFIRMED")
        ~> (status # "EXPIRED" \/ app[c].state # "CONFIRMED")

\* The assumption under which seats are conserved: while one request holds
\* its read of a booking, no other request books that application again.
\* Nothing in the code ensures it; without it LastSeatSoldOnce fails.
NoRebookUnderRead == \A p, q \in Procs :
    ~ /\ req[p].op = "apply" /\ req[p].phase \in {"seen", "seated"}
      /\ req[q].phase \in {"seen", "seated"} /\ req[q].seen = "CONFIRMED"
      /\ req[p].cand = req[q].cand
NoRebookSpec == Init /\ [][Next /\ NoRebookUnderRead']_vars
=============================================================================
