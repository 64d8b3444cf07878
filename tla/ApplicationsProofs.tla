------------------------- MODULE ApplicationsProofs -------------------------
(***************************************************************************)
(* Proofs about module Applications, for any number of candidates,         *)
(* requests, slots and seats.                                              *)
(*                                                                         *)
(* The inductive invariant of the seats is LockedSeat together with        *)
(* SlotLockExclusive: what a transaction found when it updated a slot row  *)
(* stays true while it holds the row, because nobody else holds it.        *)
(***************************************************************************)
EXTENDS Applications, TLAPS

\* A transaction that has updated a slot row has found a seat to take, or a
\* counted one to give back, and it is still there.
LockedSeat == \A p \in Procs :
    LET r == req[p]
    IN  /\ r.phase \in {"begun", "seen", "seated"} => r.cand \in Candidates
        /\ r.held # NoSlot =>
              /\ r.phase = "seated"
              /\ IF TakesSeat(r) THEN booked[r.held] < Capacity ELSE booked[r.held] > 0

LockInv == TypeOK /\ LockedSeat /\ SlotLockExclusive
SeatInv == TypeOK /\ LockedSeat /\ SlotLockExclusive /\ NeverOverCapacity

USE CandidatesAssumption, ProcessAssumption, HandlerAssumption, SlotAssumption, BoundAssumption

\* A process at rest is a process.
LEMMA IdleIsARequest == Idle \in Request
  BY DEF Idle, Request, Ops, Phases, States, Methods, Errors, NoSlot

\* No seat is taken, and no row is locked.
LEMMA InitSeatInv == Init => SeatInv
  <1> SUFFICES ASSUME Init PROVE SeatInv
    OBVIOUS
  <1>1. TypeOK
    BY IdleIsARequest DEF Init, TypeOK, NoRow, NoCheckIn, Application, CheckIn, States, Methods,
       Statuses, Schedule, NoSlot
  <1>2. \A p \in Procs : req[p] = Idle
    BY DEF Init
  <1>3. LockedSeat /\ SlotLockExclusive /\ NeverOverCapacity
    BY <1>2 DEF Init, LockedSeat, SlotLockExclusive, NeverOverCapacity, Idle, NoSlot
  <1> QED
    BY <1>1, <1>3 DEF SeatInv

\* Confirming a check-in row leaves a check-in row.
LEMMA ConfirmedCheckIn ==
  ASSUME NEW row \in CheckIn
  PROVE  [row EXCEPT !.isValid = TRUE] \in CheckIn
  BY DEF CheckIn

\* A process that starts, fails, ends or goes on without holding a slot row,
\* while no count changes, disturbs no lock.
LEMMA StepWithoutSeat ==
  ASSUME LockInv, NEW p \in Procs, NEW r \in Request, Step(p, r), r.held = NoSlot, booked' = booked,
         r.phase \in {"begun", "seen", "seated"} => r.cand \in Candidates
  PROVE  /\ req' \in [Procs -> Request]
         /\ (LockedSeat /\ SlotLockExclusive)'
  <1>1. req' \in [Procs -> Request]
    BY DEF LockInv, TypeOK, Step
  <1>2. \A q \in Procs : req'[q] = IF q = p THEN r ELSE req[q]
    BY DEF LockInv, TypeOK, Step
  <1>3. LockedSeat'
    BY <1>2 DEF LockInv, LockedSeat, TakesSeat
  <1>4. SlotLockExclusive'
    BY <1>2 DEF LockInv, SlotLockExclusive
  <1> QED
    BY <1>1, <1>3, <1>4

\* What a process that has updated a free slot row, held by nobody else, may
\* rely on from then on.
LEMMA StepWithSeat ==
  ASSUME LockInv, NEW p \in Procs, NEW s \in SlotIds, booked' = booked, ~LockedByOther(p, s),
         req[p].phase = "seen",
         Step(p, [req[p] EXCEPT !.phase = "seated", !.held = s]),
         IF TakesSeat(req[p]) THEN booked[s] < Capacity ELSE booked[s] > 0
  PROVE  /\ req' \in [Procs -> Request]
         /\ (LockedSeat /\ SlotLockExclusive)'
  <1> DEFINE r == [req[p] EXCEPT !.phase = "seated", !.held = s]
  <1>a. req[p] \in Request
    BY DEF LockInv, TypeOK
  <1>1. r \in Request /\ r.held = s /\ r.phase = "seated" /\ r.to = req[p].to /\ r.cand = req[p].cand
    BY <1>a DEF Request, Phases
  <1>2. req' \in [Procs -> Request] /\ \A q \in Procs : req'[q] = IF q = p THEN r ELSE req[q]
    BY <1>1 DEF LockInv, TypeOK, Step
  <1> HIDE DEF r
  <1>3. LockedSeat'
    BY <1>1, <1>2 DEF LockInv, LockedSeat, TakesSeat
  <1>4. SlotLockExclusive'
    BY <1>1, <1>2 DEF LockInv, SlotLockExclusive, LockedByOther
  <1> QED
    BY <1>2, <1>3, <1>4

\* A commit applies its count to the row it holds and releases it.
LEMMA CommitKeepsLocks ==
  ASSUME LockInv, NEW p \in Procs, ReadyToCommit(req[p]), booked' = BookedAfter(req[p]), Step(p, Idle)
  PROVE  /\ booked' \in [SlotIds -> Nat]
         /\ req' \in [Procs -> Request]
         /\ (LockedSeat /\ SlotLockExclusive)'
  <1>1. CASE req[p].held = NoSlot
    <2>1. booked' = booked
      BY <1>1 DEF BookedAfter
    <2> QED
      BY <2>1, IdleIsARequest, StepWithoutSeat DEF Idle, LockInv, TypeOK
  <1>2. CASE req[p].held # NoSlot
    <2> DEFINE s == req[p].held
               n == IF TakesSeat(req[p]) THEN booked[s] + 1 ELSE booked[s] - 1
    <2>1. s \in SlotIds /\ booked[s] \in Nat
      BY <1>2 DEF LockInv, TypeOK, Request
    <2>a. ~TakesSeat(req[p]) => booked[s] > 0
      BY <1>2, <2>1 DEF LockInv, LockedSeat
    <2>2. n \in Nat
      BY <2>a, <2>1
    <2>3. booked' = [booked EXCEPT ![s] = n]
      BY <1>2 DEF BookedAfter
    <2> HIDE DEF n
    <2>4. booked' \in [SlotIds -> Nat] /\ \A t \in SlotIds : booked'[t] = IF t = s THEN n ELSE booked[t]
      BY <2>1, <2>2, <2>3 DEF LockInv, TypeOK
    <2>5. req' \in [Procs -> Request] /\ \A q \in Procs : req'[q] = IF q = p THEN Idle ELSE req[q]
      BY IdleIsARequest DEF LockInv, TypeOK, Step
    <2>6. \A q \in Procs \ {p} : req[q].held # s
      BY <1>2 DEF LockInv, SlotLockExclusive
    <2>7. \A q \in Procs : req[q].held \in SlotIds \cup {NoSlot}
      BY DEF LockInv, TypeOK, Request
    <2>b. \A q \in Procs \ {p} : req[q].held # NoSlot => booked'[req[q].held] = booked[req[q].held]
      BY <2>4, <2>6, <2>7
    <2>c. Idle.held = NoSlot /\ Idle.phase = "idle"
      BY DEF Idle
    <2>8. LockedSeat'
      BY <2>5, <2>b, <2>c DEF LockInv, LockedSeat, TakesSeat
    <2>9. SlotLockExclusive'
      BY <2>5 DEF LockInv, SlotLockExclusive, Idle
    <2> QED
      BY <2>4, <2>5, <2>8, <2>9
  <1> QED
    BY <1>1, <1>2

\* A step of one process that writes no row.
LEMMA QuietStep ==
  ASSUME LockInv, NEW p \in Procs, NEW r \in Request, Step(p, r), r.held = NoSlot,
         r.phase \in {"begun", "seen", "seated"} => r.cand \in Candidates,
         UNCHANGED <<rowVars, driveVars>>, crashes' \in Nat,
         job' \in [phase : {"idle", "expired", "marking"}, batch : SUBSET Candidates]
  PROVE  LockInv'
  <1>1. booked' = booked
    BY DEF rowVars
  <1>2. req' \in [Procs -> Request] /\ (LockedSeat /\ SlotLockExclusive)'
    BY <1>1, StepWithoutSeat
  <1>3. TypeOK'
    BY <1>2 DEF LockInv, TypeOK, rowVars, driveVars
  <1> QED
    BY <1>2, <1>3 DEF LockInv

\* A step that moves no process and no count.
LEMMA StepOfNoProcess ==
  ASSUME LockInv, TypeOK', UNCHANGED <<req, booked>>
  PROVE  LockInv'
  BY DEF LockInv, LockedSeat, SlotLockExclusive

\* A handler that starts holds no row.
LEMMA BeginKeepsLocks ==
  ASSUME LockInv, NEW p \in Requests, Begin(p)
  PROVE  LockInv'
  <1>1. p \in Procs
    BY DEF Procs
  <1>2. ASSUME NEW r \in Request, r.held = NoSlot, r.cand \in Candidates, Start(p, r)
        PROVE  LockInv'
    <2> DEFINE begun == [r EXCEPT !.phase = "begun"]
    <2>1. begun \in Request /\ begun.held = NoSlot /\ begun.cand \in Candidates
      BY <1>2 DEF Request, Phases
    <2>2. Step(p, begun) /\ UNCHANGED <<rowVars, driveVars, job, crashes>>
      BY <1>2 DEF Start, Step, jobVars
    <2> HIDE DEF begun
    <2>3. crashes' \in Nat /\ job' \in [phase : {"idle", "expired", "marking"}, batch : SUBSET Candidates]
      BY <2>2 DEF LockInv, TypeOK
    <2> QED
      BY <1>1, <2>1, <2>2, <2>3, QuietStep
  <1>3. PICK c \in Candidates :
           \/ \E s \in SlotIds, to \in States : Apply(p, c, s, to)
           \/ Release(p, c)
           \/ \E to \in States : Decide(p, c, to)
           \/ \E unflagged \in BOOLEAN : Scan(p, c, unflagged)
           \/ MarkPresent(p, c)
           \/ ConfirmFlagged(p, c)
    BY DEF Begin, BeginBooking, BeginAtDesk
  <1>4. CASE \E s \in SlotIds, to \in States : Apply(p, c, s, to)
    <2>1. PICK s \in SlotIds, to \in States : Apply(p, c, s, to)
      BY <1>4
    <2> DEFINE r == [Idle EXCEPT !.op = "apply", !.cand = c, !.to = to,
                                 !.slot = IF to = "CONFIRMED" THEN s ELSE NoSlot]
    <2>2. r \in Request /\ r.held = NoSlot /\ r.cand \in Candidates
      BY DEF Idle, Request, Ops, Phases, States, Methods, Errors, NoSlot
    <2> QED
      BY <1>2, <2>1, <2>2 DEF Apply
  <1>5. CASE Release(p, c)
    <2> DEFINE r == [Idle EXCEPT !.op = "release", !.cand = c, !.to = "WITHDRAWN"]
    <2>1. r \in Request /\ r.held = NoSlot /\ r.cand \in Candidates
      BY DEF Idle, Request, Ops, Phases, States, Methods, Errors, NoSlot
    <2> QED
      BY <1>2, <1>5, <2>1 DEF Release
  <1>6. CASE \E to \in States : Decide(p, c, to)
    <2>1. PICK to \in States : Decide(p, c, to)
      BY <1>6
    <2> DEFINE r == [Idle EXCEPT !.op = "decide", !.cand = c, !.to = to]
    <2>2. r \in Request /\ r.held = NoSlot /\ r.cand \in Candidates
      BY DEF Idle, Request, Ops, Phases, States, Methods, Errors, NoSlot
    <2> QED
      BY <1>2, <2>1, <2>2 DEF Decide
  <1>7. CASE \E unflagged \in BOOLEAN : Scan(p, c, unflagged)
    <2>1. PICK unflagged \in BOOLEAN : Scan(p, c, unflagged)
      BY <1>7
    <2> DEFINE r == [Idle EXCEPT !.op = "scan", !.cand = c, !.to = "CHECKED_IN",
                                 !.exists = app[c].state # "NONE",
                                 !.method = IF app[c].state = "CONFIRMED" THEN "SCAN" ELSE "WALK_IN",
                                 !.valid = unflagged]
    <2>2. r \in Request /\ r.held = NoSlot /\ r.cand \in Candidates
      BY DEF Idle, Request, Ops, Phases, States, Methods, Errors, NoSlot
    <2> QED
      BY <1>2, <2>1, <2>2 DEF Scan
  <1>8. CASE MarkPresent(p, c)
    <2> DEFINE r == [Idle EXCEPT !.op = "markPresent", !.cand = c, !.to = "CHECKED_IN",
                                 !.method = "MANUAL", !.valid = TRUE]
    <2>1. r \in Request /\ r.held = NoSlot /\ r.cand \in Candidates
      BY DEF Idle, Request, Ops, Phases, States, Methods, Errors, NoSlot
    <2> QED
      BY <1>2, <1>8, <2>1 DEF MarkPresent
  <1>9. CASE ConfirmFlagged(p, c)
    <2> DEFINE r == [Idle EXCEPT !.op = "confirm", !.cand = c]
    <2>1. r \in Request /\ r.held = NoSlot /\ r.cand \in Candidates
      BY DEF Idle, Request, Ops, Phases, States, Methods, Errors, NoSlot
    <2> QED
      BY <1>2, <1>9, <2>1 DEF ConfirmFlagged
  <1> QED
    BY <1>3, <1>4, <1>5, <1>6, <1>7, <1>8, <1>9

\* A handler that throws gives its row back.
LEMMA ThrowKeepsLocks ==
  ASSUME LockInv, NEW p \in Procs, NEW error \in Errors, Throw(p, error),
         UNCHANGED <<rowVars, driveVars, jobVars>>
  PROVE  LockInv'
  <1> DEFINE r == [Idle EXCEPT !.op = req[p].op, !.cand = req[p].cand, !.phase = "thrown", !.error = error]
  <1>1. req[p].op \in Ops /\ req[p].cand \in Candidates \cup {Nobody}
    BY DEF LockInv, TypeOK, Request
  <1>2. r \in Request /\ r.held = NoSlot /\ r.phase = "thrown"
    BY <1>1 DEF Idle, Request, Phases, States, Methods, NoSlot
  <1>3. Step(p, r) /\ UNCHANGED <<rowVars, driveVars, job, crashes>>
    BY DEF Throw, jobVars
  <1> HIDE DEF r
  <1>4. crashes' \in Nat /\ job' \in [phase : {"idle", "expired", "marking"}, batch : SUBSET Candidates]
    BY <1>3 DEF LockInv, TypeOK
  <1> QED
    BY <1>2, <1>3, <1>4, QuietStep

\* A handler that ends gives its row back.
LEMMA EndKeepsLocks ==
  ASSUME LockInv, NEW p \in Procs, Step(p, Idle), UNCHANGED <<rowVars, driveVars>>, crashes' \in Nat,
         job' \in [phase : {"idle", "expired", "marking"}, batch : SUBSET Candidates]
  PROVE  LockInv'
  <1>1. Idle.held = NoSlot /\ Idle.phase = "idle"
    BY DEF Idle
  <1> QED
    BY <1>1, IdleIsARequest, QuietStep

\* Each step of a handler in flight keeps types and locks.
LEMMA AdvanceKeepsLocks ==
  ASSUME LockInv, NEW p \in Procs, Advance(p)
  PROVE  LockInv'
  <1>1. req[p] \in Request /\ app \in [Candidates -> Application]
    BY DEF LockInv, TypeOK
  <1>2. req[p].phase \in {"begun", "seen", "seated"} => req[p].cand \in Candidates
    BY DEF LockInv, LockedSeat
  <1>3. req[p].phase # "seated" => req[p].held = NoSlot
    BY DEF LockInv, LockedSeat
  <1>4. crashes \in Nat /\ job \in [phase : {"idle", "expired", "marking"}, batch : SUBSET Candidates]
    BY DEF LockInv, TypeOK
  <1>5. {"Illegal", "SlotFull", "Stale", "Unique"} \subseteq Errors
    BY DEF Errors
  <1>6. CASE ReadApplication(p)
    <2> DEFINE row == IF req[p].op = "scan" /\ ~req[p].exists THEN NoRow ELSE app[req[p].cand]
               r == [req[p] EXCEPT !.phase = "seen", !.seen = row.state, !.seenSlot = row.slotId]
    <2>1. UNCHANGED <<rowVars, driveVars, jobVars>> /\ (Step(p, r) \/ Throw(p, "Illegal"))
      BY <1>6 DEF ReadApplication
    <2>2. req[p].phase = "begun"
      BY <1>6 DEF ReadApplication
    <2>3. NoRow \in Application
      BY DEF NoRow, Application, States, NoSlot
    <2>4. row \in Application
      BY <1>1, <1>2, <2>2, <2>3
    <2> HIDE DEF row
    <2>5. row.state \in States /\ row.slotId \in SlotIds \cup {NoSlot}
      BY <2>4 DEF Application
    <2>6. r \in Request /\ r.held = NoSlot /\ r.cand \in Candidates
      BY <1>1, <1>2, <1>3, <2>2, <2>5 DEF Request, Phases
    <2> HIDE DEF r
    <2>7. CASE Step(p, r)
      BY <1>4, <2>1, <2>6, <2>7, QuietStep DEF jobVars
    <2> QED
      BY <1>5, <2>1, <2>7, ThrowKeepsLocks
  <1>7. CASE TakeSeat(p)
    <2>1. UNCHANGED <<rowVars, driveVars, jobVars>> /\ req[p].phase = "seen" /\ TakesSeat(req[p])
      BY <1>7 DEF TakeSeat
    <2>2. CASE Throw(p, "SlotFull")
      BY <1>5, <2>1, <2>2, ThrowKeepsLocks
    <2>3. CASE ~Throw(p, "SlotFull")
      <3> DEFINE s == req[p].slot
      <3>1. s \in SlotIds /\ booked[s] < Capacity /\ ~LockedByOther(p, s)
            /\ Step(p, [req[p] EXCEPT !.phase = "seated", !.held = s])
        BY <1>7, <2>3 DEF TakeSeat, LockInv, TypeOK, Schedule
      <3>2. req' \in [Procs -> Request] /\ (LockedSeat /\ SlotLockExclusive)'
        BY <2>1, <3>1, StepWithSeat DEF rowVars
      <3> QED
        BY <2>1, <3>2 DEF LockInv, TypeOK, rowVars, driveVars, jobVars
    <2> QED
      BY <2>2, <2>3
  <1>8. CASE ReleaseSeat(p)
    <2> DEFINE s == req[p].seenSlot
    <2>1. UNCHANGED <<rowVars, driveVars, jobVars>> /\ req[p].phase = "seen" /\ ~TakesSeat(req[p])
      BY <1>8 DEF ReleaseSeat, FreesSeat, TakesSeat
    <2>2. CASE Step(p, [req[p] EXCEPT !.phase = "seated"])
      <3> DEFINE r == [req[p] EXCEPT !.phase = "seated"]
      <3>a. r \in Request
        BY <1>1 DEF Request, Phases
      <3>b. r.held = req[p].held /\ r.cand = req[p].cand
        BY <1>1 DEF Request
      <3>1. r \in Request /\ r.held = NoSlot /\ r.cand \in Candidates
        BY <1>2, <1>3, <2>1, <3>a, <3>b
      <3>2. Step(p, r)
        BY <2>2
      <3> HIDE DEF r
      <3> QED
        BY <1>4, <2>1, <3>1, <3>2, QuietStep DEF jobVars
    <2>3. CASE ~Step(p, [req[p] EXCEPT !.phase = "seated"])
      <3>1. s \in SlotIds /\ booked[s] > 0 /\ ~LockedByOther(p, s)
            /\ Step(p, [req[p] EXCEPT !.phase = "seated", !.held = s])
        BY <1>8, <2>3 DEF ReleaseSeat, LockInv, TypeOK, Schedule
      <3>2. req' \in [Procs -> Request] /\ (LockedSeat /\ SlotLockExclusive)'
        BY <2>1, <3>1, StepWithSeat DEF rowVars
      <3> QED
        BY <2>1, <3>2 DEF LockInv, TypeOK, rowVars, driveVars, jobVars
    <2> QED
      BY <2>2, <2>3
  <1>9. CASE CommitMove(p)
    <2> DEFINE c == req[p].cand
    <2>1. /\ ReadyToCommit(req[p]) /\ booked' = BookedAfter(req[p]) /\ Step(p, Idle)
          /\ UNCHANGED <<driveVars, jobVars>>
      BY <1>9 DEF CommitMove
    <2>2. booked' \in [SlotIds -> Nat] /\ req' \in [Procs -> Request]
          /\ (LockedSeat /\ SlotLockExclusive)'
      BY <2>1, CommitKeepsLocks
    <2>3. c \in Candidates /\ req[p].to \in States /\ req[p].method \in Methods /\ req[p].valid \in BOOLEAN
          /\ req[p].slot \in SlotIds \cup {NoSlot} /\ req[p].seenSlot \in SlotIds \cup {NoSlot}
      BY <1>1, <1>2, <2>1 DEF Request, ReadyToCommit
    <2>4. SlotAfter(req[p]) \in SlotIds \cup {NoSlot}
      BY <2>3 DEF SlotAfter
    <2>5. app' \in [Candidates -> Application]
      BY <1>1, <1>9, <2>3, <2>4 DEF CommitMove, Application
    <2>6. checkIn' \in [Candidates -> CheckIn]
      BY <1>9, <2>3 DEF CommitMove, LockInv, TypeOK, CheckIn
    <2>7. outcomes' \in SUBSET Candidates
      BY <1>9, <2>3 DEF CommitMove, LockInv, TypeOK
    <2> QED
      BY <2>1, <2>2, <2>5, <2>6, <2>7 DEF LockInv, TypeOK, driveVars, jobVars
  <1>10. CASE LoseRace(p)
    BY <1>5, <1>10, ThrowKeepsLocks DEF LoseRace
  <1>11. CASE CommitConfirm(p)
    <2>1. Step(p, Idle) /\ UNCHANGED <<app, booked, outcomes, driveVars, jobVars>>
      BY <1>11 DEF CommitConfirm
    <2>2. checkIn' \in [Candidates -> CheckIn]
      <3>1. checkIn \in [Candidates -> CheckIn] /\ req[p].cand \in Candidates
        BY <1>2, <1>11 DEF CommitConfirm, LockInv, TypeOK
      <3>2. [checkIn[req[p].cand] EXCEPT !.isValid = TRUE] \in CheckIn
        BY <3>1, ConfirmedCheckIn
      <3> QED
        BY <1>11, <3>1, <3>2 DEF CommitConfirm
    <2>3. Idle.held = NoSlot /\ Idle.phase = "idle"
      BY DEF Idle
    <2>4. req' \in [Procs -> Request] /\ (LockedSeat /\ SlotLockExclusive)'
      BY <2>1, <2>3, IdleIsARequest, StepWithoutSeat
    <2> QED
      BY <2>1, <2>2, <2>4 DEF LockInv, TypeOK, driveVars, jobVars
  <1> QED
    BY <1>6, <1>7, <1>8, <1>9, <1>10, <1>11 DEF Advance

\* Each step of the nightly run keeps types and locks.
LEMMA RunKeepsLocks ==
  ASSUME LockInv, RunJob \/ WorkerCrash
  PROVE  LockInv'
  <1> DEFINE Job == [phase : {"idle", "expired", "marking"}, batch : SUBSET Candidates]
  <1>1. job \in Job /\ crashes \in Nat /\ Worker \in Procs
    BY DEF LockInv, TypeOK, Procs
  <1>2. CASE ExpireDrives
    <2>1. TypeOK'
      BY <1>1, <1>2 DEF ExpireDrives, LockInv, TypeOK, Statuses, rowVars
    <2> QED
      BY <1>2, <2>1, StepOfNoProcess DEF ExpireDrives, rowVars
  <1>3. CASE FindUnattended
    <2>1. job' \in Job
      BY <1>3 DEF FindUnattended
    <2>2. TypeOK'
      BY <1>3, <2>1 DEF FindUnattended, LockInv, TypeOK, rowVars, driveVars
    <2> QED
      BY <1>3, <2>2, StepOfNoProcess DEF FindUnattended, rowVars
  <1>4. CASE CatchInLoop
    <2>1. job' \in Job /\ crashes' \in Nat
      BY <1>1, <1>4 DEF CatchInLoop
    <2> QED
      BY <1>1, <1>4, <2>1, EndKeepsLocks DEF CatchInLoop
  <1>5. CASE FinishRun
    <2>1. job' \in Job
      BY <1>1, <1>5 DEF FinishRun
    <2>2. TypeOK'
      BY <1>5, <2>1 DEF FinishRun, LockInv, TypeOK, rowVars, driveVars
    <2> QED
      BY <1>5, <2>2, StepOfNoProcess DEF FinishRun, rowVars
  <1>6. CASE \E c \in Candidates : MarkNoShow(c)
    <2>1. PICK c \in Candidates : MarkNoShow(c)
      BY <1>6
    <2> DEFINE r == [Idle EXCEPT !.phase = "begun", !.op = "noShow", !.cand = c, !.to = "NO_SHOW"]
    <2>2. r \in Request /\ r.held = NoSlot /\ r.cand \in Candidates
      BY DEF Idle, Request, Ops, Phases, States, Methods, Errors, NoSlot
    <2>3. Step(Worker, r) /\ UNCHANGED <<rowVars, driveVars>> /\ job' \in Job /\ crashes' \in Nat
      BY <1>1, <2>1 DEF MarkNoShow
    <2> HIDE DEF r
    <2> QED
      BY <1>1, <2>2, <2>3, QuietStep
  <1>7. CASE WorkerCrash
    <2>1. job' \in Job /\ crashes' \in Nat
      BY <1>1, <1>7 DEF WorkerCrash
    <2> QED
      BY <1>1, <1>7, <2>1, EndKeepsLocks DEF WorkerCrash
  <1> QED
    BY <1>2, <1>3, <1>4, <1>5, <1>6, <1>7 DEF RunJob

\* The invariant of the locks is inductive.
LEMMA NextKeepsLocks == LockInv /\ [Next]_vars => LockInv'
  <1> SUFFICES ASSUME LockInv, [Next]_vars PROVE LockInv'
    OBVIOUS
  <1>1. ASSUME NEW p \in Requests, AnswerError(p) \/ Abandon(p) PROVE LockInv'
    <2>1. Step(p, Idle) /\ UNCHANGED <<rowVars, driveVars, jobVars>>
      BY <1>1 DEF AnswerError, Abandon
    <2>2. p \in Procs
      BY DEF Procs
    <2>3. crashes' \in Nat /\ job' \in [phase : {"idle", "expired", "marking"}, batch : SUBSET Candidates]
      BY <2>1 DEF LockInv, TypeOK, jobVars
    <2> QED
      BY <2>1, <2>2, <2>3, EndKeepsLocks
  <1>2. ASSUME NEW to \in Statuses, MoveDrive(to) PROVE LockInv'
    <2>1. TypeOK'
      BY <1>2 DEF MoveDrive, LockInv, TypeOK, rowVars, jobVars
    <2> QED
      BY <1>2, <2>1, StepOfNoProcess DEF MoveDrive, rowVars
  <1>3. CASE Tick
    <2>1. TypeOK'
      BY <1>3 DEF Tick, LockInv, TypeOK, rowVars, jobVars
    <2> QED
      BY <1>3, <2>1, StepOfNoProcess DEF Tick, rowVars
  <1>4. CASE UNCHANGED vars
    BY <1>4 DEF vars, LockInv, TypeOK, LockedSeat, SlotLockExclusive
  <1> QED
    BY <1>1, <1>2, <1>3, <1>4, BeginKeepsLocks, AdvanceKeepsLocks, RunKeepsLocks DEF Next

\* Taking a seat needs one to be left, so no count passes the capacity.
LEMMA CapacityStep == LockInv /\ LockInv' /\ NeverOverCapacity /\ [Next]_vars => NeverOverCapacity'
  <1> SUFFICES ASSUME LockInv, LockInv', NeverOverCapacity, [Next]_vars
               PROVE  \A s \in SlotIds : booked'[s] <= Capacity
    BY DEF NeverOverCapacity, LockInv, LockedSeat, NoSlot
  <1>1. booked \in [SlotIds -> Nat] /\ req \in [Procs -> Request]
    BY DEF LockInv, TypeOK
  <1>2. ASSUME NEW p \in Procs, CommitMove(p) PROVE \A s \in SlotIds : booked'[s] <= Capacity
    <2>1. booked' = BookedAfter(req[p])
      BY <1>2 DEF CommitMove
    <2>2. CASE req[p].held = NoSlot
      BY <2>1, <2>2 DEF BookedAfter, NeverOverCapacity
    <2>3. CASE req[p].held # NoSlot
      <3>1. TakesSeat(req[p]) => booked[req[p].held] < Capacity
        BY <2>3 DEF LockInv, LockedSeat
      <3>2. req[p].held \in SlotIds
        BY <1>1, <2>3 DEF Request
      <3>3. \A s \in SlotIds : booked[s] \in Nat /\ booked[s] <= Capacity
        BY <1>1 DEF NeverOverCapacity
      <3>4. booked'[req[p].held] = IF TakesSeat(req[p]) THEN booked[req[p].held] + 1 ELSE booked[req[p].held] - 1
        BY <1>1, <2>1, <2>3, <3>2 DEF BookedAfter
      <3>5. \A s \in SlotIds : s # req[p].held => booked'[s] = booked[s]
        BY <1>1, <2>1, <2>3, <3>2 DEF BookedAfter
      <3> QED
        BY <3>1, <3>2, <3>3, <3>4, <3>5
    <2> QED
      BY <2>2, <2>3
  <1>3. ASSUME booked' = booked PROVE \A s \in SlotIds : booked'[s] <= Capacity
    BY <1>3 DEF NeverOverCapacity
  <1>4. ASSUME NEW p \in Requests, Begin(p) \/ AnswerError(p) \/ Abandon(p) PROVE booked' = booked
    BY <1>4 DEF Begin, BeginBooking, BeginAtDesk, Apply, Release, Decide, Scan, MarkPresent, ConfirmFlagged, Start, AnswerError,
       Abandon, rowVars
  <1>5. ASSUME NEW p \in Procs, Advance(p), ~CommitMove(p) PROVE booked' = booked
    BY <1>5 DEF Advance, ReadApplication, TakeSeat, ReleaseSeat, LoseRace, CommitConfirm, rowVars
  <1>6. CASE RunJob \/ WorkerCrash \/ Tick \/ (\E to \in Statuses : MoveDrive(to)) \/ UNCHANGED vars
    <2>1. booked' = booked
      BY <1>6 DEF RunJob, ExpireDrives, FindUnattended, CatchInLoop, FinishRun, MarkNoShow,
         WorkerCrash, Tick, MoveDrive, vars, rowVars
    <2> QED
      BY <1>3, <2>1
  <1> QED
    BY <1>2, <1>3, <1>4, <1>5, <1>6 DEF Next

\* The invariant of seats and locks is inductive.
LEMMA NextKeepsSeats == SeatInv /\ [Next]_vars => SeatInv'
  BY NextKeepsLocks, CapacityStep DEF SeatInv, LockInv

\* The inductive invariant holds in every reachable state.
THEOREM SeatsStayLocked == Spec => []SeatInv
  <1> QED
    BY InitSeatInv, NextKeepsSeats, PTL DEF Spec

\* Type correctness: in particular bookedCount is a natural number, however
\* many releases and rebookings race (releaseSeat's bookedCount > 0, which
\* still holds when the transaction commits).
THEOREM TypeCorrect == Spec => []TypeOK
  <1>1. SeatInv => TypeOK
    BY DEF SeatInv
  <1> QED
    BY <1>1, SeatsStayLocked, PTL

\* No slot ever has more seats taken than its capacity, with any number of
\* requests in flight (takeSeat's bookedCount < capacity).
THEOREM CapacityHolds == Spec => []NeverOverCapacity
  <1>1. SeatInv => NeverOverCapacity
    BY DEF SeatInv
  <1> QED
    BY <1>1, SeatsStayLocked, PTL

\* No two transactions ever hold the same slot row.
THEOREM RowLocksExclusive == Spec => []SlotLockExclusive
  <1>1. SeatInv => SlotLockExclusive
    BY DEF SeatInv
  <1> QED
    BY <1>1, SeatsStayLocked, PTL

-----------------------------------------------------------------------------
(* Applications implements ApplicationLifecycle.                            *)

\* Where the handler of a request may be taking the application.
Goal(r) ==
    \/ r.op = "apply" /\ r.to \in {"CONFIRMED", "SCREENED_OUT"}
    \/ r.op = "release" /\ r.to = "WITHDRAWN"
    \/ r.op = "decide" /\ r.to \in {"INTERVIEWED", "HIRED", "REJECTED"}
    \/ r.op = "scan" /\ r.to = "CHECKED_IN" /\ r.method \in {"SCAN", "WALK_IN"}
    \/ r.op = "markPresent" /\ r.to = "CHECKED_IN" /\ r.method = "MANUAL" /\ r.valid
    \/ r.op = "noShow" /\ r.to = "NO_SHOW"
    \/ r.op = "confirm"

\* A transaction is on a handler's way, and after its read on a legal one.
OnItsWay(r) ==
    /\ r.phase \in {"begun", "seen", "seated"} => Goal(r)
    /\ r.phase \in {"seen", "seated"} => r.op # "confirm" /\ AssertLegal(r.seen, r.to, r.op)

MovesLegal == \A p \in Procs : OnItsWay(req[p])

\* A process that goes on towards a legal move leaves the others theirs.
LEMMA StepOnItsWay ==
  ASSUME SeatInv, MovesLegal, NEW p \in Procs, NEW r, Step(p, r), OnItsWay(r)
  PROVE  MovesLegal'
  <1>1. \A q \in Procs : req'[q] = IF q = p THEN r ELSE req[q]
    BY DEF SeatInv, TypeOK, Step
  <1> QED
    BY <1>1 DEF MovesLegal, OnItsWay, Goal

\* A handler that starts has no move in hand.
LEMMA BeginMovesLegal ==
  ASSUME SeatInv, MovesLegal, NEW p \in Requests, Begin(p)
  PROVE  MovesLegal'
  <1>1. PICK c \in Candidates :
           \/ \E s \in SlotIds, to \in States : Apply(p, c, s, to)
           \/ Release(p, c)
           \/ \E to \in States : Decide(p, c, to)
           \/ \E unflagged \in BOOLEAN : Scan(p, c, unflagged)
           \/ MarkPresent(p, c)
           \/ ConfirmFlagged(p, c)
    BY DEF Begin, BeginBooking, BeginAtDesk
  <1>2. ASSUME NEW r, Start(p, r), Goal([r EXCEPT !.phase = "begun"]),
               [r EXCEPT !.phase = "begun"].phase = "begun"
        PROVE  MovesLegal'
    BY <1>2, StepOnItsWay DEF OnItsWay, Start, Step, Procs
  <1>3. CASE \E s \in SlotIds, to \in States : Apply(p, c, s, to)
    BY <1>2, <1>3 DEF Apply, Goal, Idle
  <1>4. CASE Release(p, c)
    BY <1>2, <1>4 DEF Release, Goal, Idle
  <1>5. CASE \E to \in States : Decide(p, c, to)
    BY <1>2, <1>5 DEF Decide, Goal, Idle
  <1>6. CASE \E unflagged \in BOOLEAN : Scan(p, c, unflagged)
    BY <1>2, <1>6 DEF Scan, Goal, Idle
  <1>7. CASE MarkPresent(p, c)
    BY <1>2, <1>7 DEF MarkPresent, Goal, Idle
  <1>8. CASE ConfirmFlagged(p, c)
    BY <1>2, <1>8 DEF ConfirmFlagged, Goal, Idle
  <1> QED
    BY <1>1, <1>3, <1>4, <1>5, <1>6, <1>7, <1>8

\* A handler that ends has none either.
LEMMA EndMovesLegal ==
  ASSUME SeatInv, MovesLegal, NEW p \in Procs,
         Step(p, Idle) \/ \E error \in Errors : Throw(p, error)
  PROVE  MovesLegal'
  <1>1. CASE Step(p, Idle)
    <2>1. OnItsWay(Idle)
      BY DEF OnItsWay, Idle
    <2> QED
      BY <1>1, <2>1, StepOnItsWay
  <1>2. CASE \E error \in Errors : Throw(p, error)
    <2>1. PICK error \in Errors : Throw(p, error)
      BY <1>2
    <2> DEFINE r == [Idle EXCEPT !.op = req[p].op, !.cand = req[p].cand, !.phase = "thrown", !.error = error]
    <2>2. r.phase = "thrown"
      BY DEF Idle
    <2>3. Step(p, r)
      BY <2>1 DEF Throw
    <2> HIDE DEF r
    <2> QED
      BY <2>2, <2>3, StepOnItsWay DEF OnItsWay
  <1> QED
    BY <1>1, <1>2

\* A move past assertLegal is one of the transition table.
LEMMA AdvanceMovesLegal ==
  ASSUME SeatInv, MovesLegal, NEW p \in Procs, Advance(p)
  PROVE  MovesLegal'
  <1>1. req[p] \in Request /\ OnItsWay(req[p])
    BY DEF SeatInv, TypeOK, MovesLegal
  <1>2. {"Illegal", "SlotFull", "Stale", "Unique"} \subseteq Errors
    BY DEF Errors
  <1>3. CASE ReadApplication(p)
    <2> DEFINE row == IF req[p].op = "scan" /\ ~req[p].exists THEN NoRow ELSE app[req[p].cand]
               r == [req[p] EXCEPT !.phase = "seen", !.seen = row.state, !.seenSlot = row.slotId]
    <2>1. /\ req[p].phase = "begun" /\ req[p].op # "confirm"
          /\ \/ AssertLegal(row.state, req[p].to, req[p].op) /\ Step(p, r)
             \/ Throw(p, "Illegal")
      BY <1>3 DEF ReadApplication
    <2>2. CASE Throw(p, "Illegal")
      BY <1>2, <2>2, EndMovesLegal
    <2>3. CASE AssertLegal(row.state, req[p].to, req[p].op) /\ Step(p, r)
      <3> HIDE DEF row
      <3>1. r.op = req[p].op /\ r.to = req[p].to /\ r.method = req[p].method /\ r.valid = req[p].valid
            /\ r.phase = "seen" /\ r.seen = row.state
        BY <1>1 DEF Request
      <3>2. Step(p, r)
        BY <2>3
      <3> HIDE DEF r
      <3>3. OnItsWay(r)
        BY <1>1, <2>1, <2>3, <3>1 DEF OnItsWay, Goal
      <3> QED
        BY <3>2, <3>3, StepOnItsWay
    <2> QED
      BY <2>1, <2>2, <2>3
  <1>4. CASE TakeSeat(p) \/ ReleaseSeat(p)
    <2> DEFINE uncounted == [req[p] EXCEPT !.phase = "seated"]
               counted(s) == [req[p] EXCEPT !.phase = "seated", !.held = s]
    <2>1. /\ req[p].phase = "seen"
          /\ \/ Throw(p, "SlotFull")
             \/ Step(p, uncounted)
             \/ \E s \in {req[p].slot, req[p].seenSlot} : Step(p, counted(s))
      BY <1>4 DEF TakeSeat, ReleaseSeat
    <2>2. CASE Throw(p, "SlotFull")
      BY <1>2, <2>2, EndMovesLegal
    <2>3. ASSUME NEW s PROVE OnItsWay(uncounted) /\ OnItsWay(counted(s))
      BY <1>1, <2>1 DEF OnItsWay, Goal, Request
    <2> HIDE DEF uncounted, counted
    <2> QED
      BY <2>1, <2>2, <2>3, StepOnItsWay
  <1>5. CASE CommitMove(p) \/ CommitConfirm(p)
    BY <1>5, EndMovesLegal DEF CommitMove, CommitConfirm
  <1>6. CASE LoseRace(p)
    BY <1>2, <1>6, EndMovesLegal DEF LoseRace
  <1> QED
    BY <1>3, <1>4, <1>5, <1>6 DEF Advance

\* At first nobody moves.
LEMMA InitMovesLegal == Init => MovesLegal
  BY DEF Init, MovesLegal, OnItsWay, Idle

\* Every step keeps the moves in flight legal.
LEMMA NextMovesLegal == SeatInv /\ MovesLegal /\ [Next]_vars => MovesLegal'
  <1> SUFFICES ASSUME SeatInv, MovesLegal, [Next]_vars PROVE MovesLegal'
    OBVIOUS
  <1>1. ASSUME req' = req PROVE MovesLegal'
    BY <1>1 DEF MovesLegal, OnItsWay, Goal
  <1>2. CASE \E p \in Requests : AnswerError(p) \/ Abandon(p)
    BY <1>2, EndMovesLegal DEF AnswerError, Abandon, Procs
  <1>3. CASE CatchInLoop \/ WorkerCrash
    BY <1>3, EndMovesLegal DEF CatchInLoop, WorkerCrash, Procs
  <1>4. CASE \E c \in Candidates : MarkNoShow(c)
    <2>1. PICK c \in Candidates : MarkNoShow(c)
      BY <1>4
    <2> DEFINE r == [Idle EXCEPT !.phase = "begun", !.op = "noShow", !.cand = c, !.to = "NO_SHOW"]
    <2>2. OnItsWay(r)
      BY DEF OnItsWay, Goal, Idle
    <2> QED
      BY <2>1, <2>2, StepOnItsWay DEF MarkNoShow, Procs
  <1>5. CASE ExpireDrives \/ FindUnattended \/ FinishRun \/ Tick \/ \E to \in Statuses : MoveDrive(to)
    BY <1>1, <1>5 DEF ExpireDrives, FindUnattended, FinishRun, Tick, MoveDrive
  <1>6. CASE UNCHANGED vars
    BY <1>1, <1>6 DEF vars
  <1> QED
    BY <1>2, <1>3, <1>4, <1>5, <1>6, BeginMovesLegal, AdvanceMovesLegal DEF Next, RunJob

\* The refinement mapping, by name.
StateOf == [c \in Candidates |-> app[c].state]
ArrivalOf == [c \in Candidates |-> IF checkIn[c].method = "NONE" THEN "none"
                                   ELSE IF checkIn[c].isValid THEN "valid" ELSE "flagged"]

\* The commit of a move is one step of the lifecycle.
LEMMA CommitMoveImplements ==
  ASSUME SeatInv, MovesLegal, NEW p \in Procs, CommitMove(p)
  PROVE  Lifecycle!LifecycleNext
  <1> DEFINE r == req[p]
  <1>1. r \in Request /\ OnItsWay(r) /\ app \in [Candidates -> Application] /\ checkIn \in [Candidates -> CheckIn]
    BY DEF SeatInv, TypeOK, MovesLegal
  <1>2. r.phase \in {"seen", "seated"}
    BY DEF CommitMove, ReadyToCommit
  <1>3. PICK c \in Candidates : c = r.cand
    BY <1>2 DEF SeatInv, LockedSeat
  <1>4. Goal(r) /\ r.op # "confirm" /\ <<app[c].state, r.to, Actor(r.op)>> \in Transitions
    BY <1>1, <1>2, <1>3 DEF OnItsWay, AssertLegal, CommitMove, Unmoved
  <1>5. /\ r.to = "CHECKED_IN" => checkIn[c].method = "NONE"
        /\ app' = [app EXCEPT ![c] = [state |-> r.to, slotId |-> SlotAfter(r)]]
        /\ checkIn' = IF r.to = "CHECKED_IN"
                      THEN [checkIn EXCEPT ![c] = [method |-> r.method, isValid |-> r.valid]]
                      ELSE checkIn
        /\ outcomes' = IF r.to = "HIRED" THEN outcomes \cup {c} ELSE outcomes
    BY <1>3 DEF CommitMove
  <1>6. StateOf' = [StateOf EXCEPT ![c] = r.to] /\ StateOf[c] = app[c].state
    BY <1>1, <1>3, <1>5 DEF StateOf, Application
  <1>7. r.to # "CHECKED_IN" => ArrivalOf' = ArrivalOf
    BY <1>5 DEF ArrivalOf
  <1>8. r.to = "CHECKED_IN" =>
          /\ ArrivalOf[c] = "none"
          /\ ArrivalOf' = [ArrivalOf EXCEPT ![c] =
               IF r.method = "NONE" THEN "none" ELSE IF r.valid THEN "valid" ELSE "flagged"]
    BY <1>1, <1>3, <1>5 DEF ArrivalOf, CheckIn
  <1> HIDE DEF r
  <1>9. CASE r.op = "apply"
    BY <1>3, <1>4, <1>5, <1>6, <1>7, <1>9 DEF Goal, Transitions, Actor, StateOf, ArrivalOf,
       Lifecycle!LifecycleNext, Lifecycle!Book, Lifecycle!ScreenOut, Lifecycle!Move
  <1>10. CASE r.op = "release"
    BY <1>3, <1>4, <1>5, <1>6, <1>7, <1>10 DEF Goal, Transitions, Actor, StateOf, ArrivalOf,
       Lifecycle!LifecycleNext, Lifecycle!Withdraw, Lifecycle!Move
  <1>11. CASE r.op = "decide"
    BY <1>3, <1>4, <1>5, <1>6, <1>7, <1>11 DEF Goal, Transitions, Actor, StateOf, ArrivalOf,
       Lifecycle!LifecycleNext, Lifecycle!Interview, Lifecycle!TurnDown, Lifecycle!Hire, Lifecycle!Move
  <1>12. CASE r.op = "scan"
    <2>1. app[c].state \in {"NONE", "WITHDRAWN", "CONFIRMED"}
      BY <1>4, <1>12 DEF Goal, Transitions, Actor
    <2>2. r.to = "CHECKED_IN" /\ r.method # "NONE" /\ outcomes' = outcomes
      BY <1>4, <1>5, <1>12 DEF Goal
    <2>3. ArrivalOf[c] = "none" /\ \E v \in {"flagged", "valid"} : ArrivalOf' = [ArrivalOf EXCEPT ![c] = v]
      BY <1>8, <2>2
    <2>4. Lifecycle!ArriveByScan(c)
      BY <1>6, <2>1, <2>2, <2>3 DEF Lifecycle!ArriveByScan, Lifecycle!Move, StateOf, ArrivalOf
    <2> QED
      BY <1>3, <2>4 DEF Lifecycle!LifecycleNext
  <1>13. CASE r.op = "markPresent"
    <2>1. app[c].state \in {"CONFIRMED", "NO_SHOW", "SCREENED_OUT"}
      BY <1>4, <1>13 DEF Goal, Transitions, Actor
    <2>2. r.to = "CHECKED_IN" /\ r.method # "NONE" /\ r.valid /\ outcomes' = outcomes
      BY <1>4, <1>5, <1>13 DEF Goal
    <2>3. ArrivalOf[c] = "none" /\ ArrivalOf' = [ArrivalOf EXCEPT ![c] = "valid"]
      BY <1>8, <2>2
    <2>4. Lifecycle!ArriveByDesk(c)
      BY <1>6, <2>1, <2>2, <2>3 DEF Lifecycle!ArriveByDesk, Lifecycle!Move, StateOf, ArrivalOf
    <2> QED
      BY <1>3, <2>4 DEF Lifecycle!LifecycleNext
  <1>14. CASE r.op = "noShow"
    BY <1>3, <1>4, <1>5, <1>6, <1>7, <1>14 DEF Goal, Transitions, Actor, StateOf, ArrivalOf,
       Lifecycle!LifecycleNext, Lifecycle!MarkAbsent, Lifecycle!Move
  <1> QED
    BY <1>4, <1>9, <1>10, <1>11, <1>12, <1>13, <1>14 DEF Goal

\* The commit of a confirmation is one step of the lifecycle.
LEMMA CommitConfirmImplements ==
  ASSUME SeatInv, NEW p \in Procs, CommitConfirm(p)
  PROVE  Lifecycle!LifecycleNext \/ UNCHANGED <<StateOf, ArrivalOf, outcomes>>
  <1>1. PICK c \in Candidates : c = req[p].cand
    BY DEF SeatInv, LockedSeat, CommitConfirm
  <1>2. checkIn \in [Candidates -> CheckIn] /\ app' = app /\ outcomes' = outcomes
        /\ checkIn' = [checkIn EXCEPT ![c].isValid = TRUE]
    BY <1>1 DEF CommitConfirm, SeatInv, TypeOK
  <1>3. StateOf' = StateOf
    BY <1>2 DEF StateOf
  <1>4. checkIn'[c].method = checkIn[c].method /\ checkIn'[c].isValid
        /\ \A d \in Candidates \ {c} : checkIn'[d] = checkIn[d]
    BY <1>2 DEF CheckIn
  <1>5. CASE ArrivalOf[c] = "flagged"
    <2>1. ArrivalOf' = [ArrivalOf EXCEPT ![c] = "valid"]
      BY <1>4, <1>5 DEF ArrivalOf
    <2>2. Lifecycle!ConfirmArrival(c)
      BY <1>2, <1>3, <1>5, <2>1 DEF Lifecycle!ConfirmArrival, StateOf, ArrivalOf
    <2> QED
      BY <2>2 DEF Lifecycle!LifecycleNext
  <1>6. CASE ArrivalOf[c] # "flagged"
    <2>1. ArrivalOf' = ArrivalOf
      BY <1>4, <1>6 DEF ArrivalOf
    <2> QED
      BY <1>2, <1>3, <2>1
  <1> QED
    BY <1>5, <1>6

\* Every step is a step of the lifecycle, or none.
LEMMA StepImplements ==
  SeatInv /\ MovesLegal /\ [Next]_vars => [Lifecycle!LifecycleNext]_(Lifecycle!lifecycleVars)
  <1> SUFFICES ASSUME SeatInv, MovesLegal, [Next]_vars
               PROVE  Lifecycle!LifecycleNext \/ UNCHANGED <<StateOf, ArrivalOf, outcomes>>
    BY DEF Lifecycle!lifecycleVars, StateOf, ArrivalOf
  <1>1. ASSUME UNCHANGED <<app, checkIn, outcomes>> PROVE UNCHANGED <<StateOf, ArrivalOf, outcomes>>
    BY <1>1 DEF StateOf, ArrivalOf
  <1>2. ASSUME NEW p \in Procs, Advance(p)
        PROVE  Lifecycle!LifecycleNext \/ UNCHANGED <<StateOf, ArrivalOf, outcomes>>
    <2>1. CASE CommitMove(p)
      BY <2>1, CommitMoveImplements
    <2>2. CASE CommitConfirm(p)
      BY <2>2, CommitConfirmImplements
    <2>3. CASE ReadApplication(p) \/ TakeSeat(p) \/ ReleaseSeat(p) \/ LoseRace(p)
      BY <1>1, <2>3 DEF ReadApplication, TakeSeat, ReleaseSeat, LoseRace, rowVars
    <2> QED
      BY <1>2, <2>1, <2>2, <2>3 DEF Advance
  <1>3. ASSUME NEW p \in Requests, Begin(p) \/ AnswerError(p) \/ Abandon(p)
        PROVE  UNCHANGED <<app, checkIn, outcomes>>
    BY <1>3 DEF Begin, BeginBooking, BeginAtDesk, Apply, Release, Decide, Scan, MarkPresent, ConfirmFlagged, Start,
       AnswerError, Abandon, rowVars
  <1>4. ASSUME RunJob \/ WorkerCrash \/ Tick \/ (\E to \in Statuses : MoveDrive(to)) \/ UNCHANGED vars
        PROVE  UNCHANGED <<app, checkIn, outcomes>>
    BY <1>4 DEF RunJob, ExpireDrives, FindUnattended, CatchInLoop, FinishRun, MarkNoShow,
       WorkerCrash, Tick, MoveDrive, vars, rowVars
  <1> QED
    BY <1>1, <1>2, <1>3, <1>4 DEF Next

\* The lifecycle starts where the system does.
LEMMA InitImplements == Init => Lifecycle!LifecycleInit
  BY DEF Init, Lifecycle!LifecycleInit, NoRow, NoCheckIn

\* Every request's statements, however they interleave with other requests',
\* amount to moves of the transition table, each taken at once with the rows
\* that belong to it.
THEOREM Implements == Spec => ImplementsLifecycle
  <1>1. Spec => [](SeatInv /\ MovesLegal)
    BY InitSeatInv, NextKeepsSeats, InitMovesLegal, NextMovesLegal, PTL DEF Spec
  <1>2. Spec => Lifecycle!LifecycleInit
    BY InitImplements DEF Spec
  <1>3. Spec => [][Lifecycle!LifecycleNext]_(Lifecycle!lifecycleVars)
    BY <1>1, StepImplements, PTL DEF Spec
  <1> QED
    BY <1>2, <1>3, PTL DEF ImplementsLifecycle, Lifecycle!LifecycleSpec

-----------------------------------------------------------------------------
(* What follows from the lifecycle alone.                                   *)

\* A lifecycle step keeps check-ins and states in agreement.
LEMMA LifecycleKeepsArrivals ==
  ASSUME TypeOK, CheckInAgreesWithState, Lifecycle!LifecycleNext, TypeOK'
  PROVE  CheckInAgreesWithState'
  <1>1. app \in [Candidates -> Application] /\ checkIn \in [Candidates -> CheckIn]
        /\ app' \in [Candidates -> Application] /\ checkIn' \in [Candidates -> CheckIn]
    BY DEF TypeOK
  <1>2. \A d \in Candidates :
          /\ StateOf[d] = app[d].state /\ StateOf'[d] = app'[d].state
          /\ ArrivalOf[d] # "none" <=> checkIn[d].method # "NONE"
          /\ ArrivalOf'[d] # "none" <=> checkIn'[d].method # "NONE"
    BY DEF StateOf, ArrivalOf
  <1> DEFINE Agrees(state, arrival) == \A d \in Candidates :
                /\ state[d] \in Arrived => arrival[d] # "none"
                /\ arrival[d] # "none" => state[d] \in Arrived \cup {"REJECTED"}
  <1>3. Agrees(StateOf, ArrivalOf)
    BY <1>2 DEF CheckInAgreesWithState
  <1>4. Agrees(StateOf', ArrivalOf')
    <2>1. PICK c \in Candidates :
             \/ Lifecycle!Book(c) \/ Lifecycle!ScreenOut(c) \/ Lifecycle!Withdraw(c)
             \/ Lifecycle!MarkAbsent(c) \/ Lifecycle!Interview(c) \/ Lifecycle!TurnDown(c)
             \/ Lifecycle!Hire(c) \/ Lifecycle!ArriveByScan(c) \/ Lifecycle!ArriveByDesk(c)
             \/ Lifecycle!ConfirmArrival(c)
      BY DEF Lifecycle!LifecycleNext
    <2>2. StateOf = [d \in Candidates |-> app[d].state]
          /\ ArrivalOf = [d \in Candidates |-> IF checkIn[d].method = "NONE" THEN "none"
                                               ELSE IF checkIn[d].isValid THEN "valid" ELSE "flagged"]
      BY DEF StateOf, ArrivalOf
    <2>3. CASE Lifecycle!Book(c) \/ Lifecycle!ScreenOut(c) \/ Lifecycle!Withdraw(c) \/ Lifecycle!MarkAbsent(c)
      BY <1>3, <2>3 DEF Lifecycle!Book, Lifecycle!ScreenOut, Lifecycle!Withdraw, Lifecycle!MarkAbsent,
         Lifecycle!Move, StateOf, ArrivalOf, Arrived
    <2>4. CASE Lifecycle!Interview(c) \/ Lifecycle!TurnDown(c) \/ Lifecycle!Hire(c)
      BY <1>3, <2>4 DEF Lifecycle!Interview, Lifecycle!TurnDown, Lifecycle!Hire,
         Lifecycle!Move, StateOf, ArrivalOf, Arrived
    <2>5. CASE Lifecycle!ArriveByScan(c) \/ Lifecycle!ArriveByDesk(c)
      <3>1. /\ StateOf' = [StateOf EXCEPT ![c] = "CHECKED_IN"]
            /\ \E v \in {"flagged", "valid"} : ArrivalOf' = [ArrivalOf EXCEPT ![c] = v]
        BY <2>5 DEF Lifecycle!ArriveByScan, Lifecycle!ArriveByDesk, Lifecycle!Move, StateOf, ArrivalOf
      <3>2. \A d \in Candidates :
              /\ StateOf'[d] = IF d = c THEN "CHECKED_IN" ELSE StateOf[d]
              /\ ArrivalOf'[d] # "none" <=> d = c \/ ArrivalOf[d] # "none"
        BY <2>2, <3>1
      <3> QED
        BY <1>3, <3>2 DEF Arrived
    <2>6. CASE Lifecycle!ConfirmArrival(c)
      <3>1. StateOf' = StateOf /\ ArrivalOf[c] = "flagged" /\ ArrivalOf' = [ArrivalOf EXCEPT ![c] = "valid"]
        BY <2>6 DEF Lifecycle!ConfirmArrival, StateOf, ArrivalOf
      <3>2. \A d \in Candidates : ArrivalOf'[d] # "none" <=> ArrivalOf[d] # "none"
        BY <2>2, <3>1
      <3> QED
        BY <1>3, <3>1, <3>2
    <2> QED
      BY <2>1, <2>3, <2>4, <2>5, <2>6
  <1> QED
    BY <1>2, <1>4 DEF CheckInAgreesWithState

\* A lifecycle step keeps hires and outcome records together.
LEMMA LifecycleKeepsOutcomes ==
  ASSUME TypeOK, OutcomeIffHired, Lifecycle!LifecycleNext
  PROVE  OutcomeIffHired'
  <1>1. outcomes = {d \in Candidates : StateOf[d] = "HIRED"}
    BY DEF OutcomeIffHired, StateOf
  <1>2. StateOf = [d \in Candidates |-> StateOf[d]]
    BY DEF StateOf
  <1>3. PICK c \in Candidates :
           \/ Lifecycle!Book(c) \/ Lifecycle!ScreenOut(c) \/ Lifecycle!Withdraw(c)
           \/ Lifecycle!MarkAbsent(c) \/ Lifecycle!Interview(c) \/ Lifecycle!TurnDown(c)
           \/ Lifecycle!Hire(c) \/ Lifecycle!ArriveByScan(c) \/ Lifecycle!ArriveByDesk(c)
           \/ Lifecycle!ConfirmArrival(c)
    BY DEF Lifecycle!LifecycleNext
  <1>4. CASE Lifecycle!Hire(c)
    <2>1. StateOf' = [StateOf EXCEPT ![c] = "HIRED"] /\ outcomes' = outcomes \cup {c}
      BY <1>4 DEF Lifecycle!Hire, Lifecycle!Move, StateOf
    <2>2. outcomes' = {d \in Candidates : StateOf'[d] = "HIRED"}
      BY <1>1, <1>2, <2>1
    <2> QED
      BY <2>2 DEF OutcomeIffHired, StateOf
  <1>5. CASE ~Lifecycle!Hire(c)
    <2>1. outcomes' = outcomes
      BY <1>3, <1>5 DEF Lifecycle!Book, Lifecycle!ScreenOut, Lifecycle!Withdraw, Lifecycle!MarkAbsent,
         Lifecycle!Interview, Lifecycle!TurnDown, Lifecycle!ArriveByScan, Lifecycle!ArriveByDesk,
         Lifecycle!ConfirmArrival
    <2>2. \/ StateOf' = StateOf
          \/ /\ StateOf[c] # "HIRED"
             /\ \E to \in States \ {"HIRED"} : StateOf' = [StateOf EXCEPT ![c] = to]
      BY <1>3, <1>5 DEF Lifecycle!Book, Lifecycle!ScreenOut, Lifecycle!Withdraw, Lifecycle!MarkAbsent,
         Lifecycle!Interview, Lifecycle!TurnDown, Lifecycle!ArriveByScan, Lifecycle!ArriveByDesk,
         Lifecycle!ConfirmArrival, Lifecycle!Move, StateOf, States
    <2>3. \A d \in Candidates : StateOf'[d] = "HIRED" <=> StateOf[d] = "HIRED"
      BY <1>2, <2>2
    <2> QED
      BY <1>1, <2>1, <2>3 DEF OutcomeIffHired, StateOf
  <1> QED
    BY <1>4, <1>5

\* So every step of the system does.
LEMMA NextKeepsRows ==
  SeatInv /\ SeatInv' /\ MovesLegal /\ CheckInAgreesWithState /\ OutcomeIffHired /\ [Next]_vars =>
      CheckInAgreesWithState' /\ OutcomeIffHired'
  <1> SUFFICES ASSUME SeatInv, SeatInv', MovesLegal, CheckInAgreesWithState, OutcomeIffHired, [Next]_vars
               PROVE  CheckInAgreesWithState' /\ OutcomeIffHired'
    OBVIOUS
  <1>1. TypeOK /\ TypeOK'
    BY DEF SeatInv
  <1>2. CASE Lifecycle!LifecycleNext
    BY <1>1, <1>2, LifecycleKeepsArrivals, LifecycleKeepsOutcomes
  <1>3. CASE UNCHANGED Lifecycle!lifecycleVars
    <2>1. StateOf' = StateOf /\ ArrivalOf' = ArrivalOf /\ outcomes' = outcomes
      BY <1>3 DEF Lifecycle!lifecycleVars, StateOf, ArrivalOf
    <2>2. \A d \in Candidates : /\ StateOf[d] = app[d].state /\ StateOf'[d] = app'[d].state
                                /\ ArrivalOf[d] # "none" <=> checkIn[d].method # "NONE"
                                /\ ArrivalOf'[d] # "none" <=> checkIn'[d].method # "NONE"
      BY DEF StateOf, ArrivalOf
    <2> QED
      BY <2>1, <2>2 DEF CheckInAgreesWithState, OutcomeIffHired
  <1> QED
    BY <1>2, <1>3, StepImplements

\* At first there are no applications, check-ins or outcomes.
LEMMA InitRows == Init => CheckInAgreesWithState /\ OutcomeIffHired
  BY DEF Init, CheckInAgreesWithState, OutcomeIffHired, NoRow, NoCheckIn, Arrived

\* Check-ins, states and outcomes agree in every reachable state.
LEMMA RowsAgree == Spec => [](CheckInAgreesWithState /\ OutcomeIffHired)
  <1>1. Spec => [](SeatInv /\ MovesLegal)
    BY InitSeatInv, NextKeepsSeats, InitMovesLegal, NextMovesLegal, PTL DEF Spec
  <1> QED
    BY <1>1, InitRows, NextKeepsRows, PTL DEF Spec

\* Whoever has arrived has a check-in, and nobody absent, withdrawn or only
\* booked has one that could be charged for.
THEOREM CheckInsAgree == Spec => []CheckInAgreesWithState
  BY RowsAgree, PTL

\* A hire and its outcome record exist together.
THEOREM OutcomesAgree == Spec => []OutcomeIffHired
  BY RowsAgree, PTL

\* The rows that hang on an application always fit its state: its check-in and
\* its outcome record (transitionApplication, checkIn, markPresent).
THEOREM RowsFit == Spec => []RowsFitState
  BY CheckInsAgree, OutcomesAgree, PTL DEF RowsFitState

-----------------------------------------------------------------------------
(* Nobody is marked absent before the drive has expired.  What the job read *)
(* stays true: a drive that has ended and expired can only be cancelled.    *)

Over == Ended /\ status \in {"EXPIRED", "CANCELLED"}

AbsenceInv ==
    /\ status = "EXPIRED" => Ended
    /\ job.batch # {} => Over
    /\ \A p \in Procs : req[p].op = "noShow" => Over

\* A drive that is over stays over, and expires only once it has ended.
LEMMA OverForGood ==
  ASSUME SeatInv, AbsenceInv, [Next]_vars
  PROVE  (Over => Over') /\ (status' = "EXPIRED" => Ended')
  <1>1. clock \in Nat /\ schedule.ends \in Nat
    BY DEF SeatInv, TypeOK, Schedule
  <1>2. ASSUME UNCHANGED driveVars PROVE (Over => Over') /\ (status' = "EXPIRED" => Ended')
    BY <1>2 DEF driveVars, Over, Ended, AbsenceInv
  <1>3. ASSUME NEW p \in Procs, Advance(p) PROVE UNCHANGED driveVars
    BY <1>3 DEF Advance, ReadApplication, TakeSeat, ReleaseSeat, CommitMove, LoseRace, CommitConfirm
  <1>4. ASSUME NEW p \in Requests, Begin(p) \/ AnswerError(p) \/ Abandon(p) PROVE UNCHANGED driveVars
    BY <1>4 DEF Begin, BeginBooking, BeginAtDesk, Apply, Release, Decide, Scan, MarkPresent, ConfirmFlagged, Start, AnswerError, Abandon
  <1>5. CASE FindUnattended \/ CatchInLoop \/ FinishRun \/ WorkerCrash \/ UNCHANGED vars
             \/ \E c \in Candidates : MarkNoShow(c)
    <2>1. UNCHANGED driveVars
      BY <1>5 DEF FindUnattended, CatchInLoop, FinishRun, WorkerCrash, MarkNoShow, vars, driveVars
    <2> QED
      BY <1>2, <2>1
  <1>6. CASE ExpireDrives
    BY <1>6 DEF ExpireDrives, Over, Ended, AbsenceInv
  <1>7. CASE Tick
    BY <1>1, <1>7 DEF Tick, Over, Ended, AbsenceInv
  <1>8. CASE \E to \in Statuses : MoveDrive(to)
    BY <1>8 DEF MoveDrive, StatusMoves, Over, Ended, AbsenceInv
  <1> QED
    BY <1>2, <1>3, <1>4, <1>5, <1>6, <1>7, <1>8 DEF Next, RunJob

\* The job starts on nobody else, and nothing but the job does.
LEMMA AbsenceStep ==
  ASSUME SeatInv, AbsenceInv, [Next]_vars
  PROVE  AbsenceInv'
  <1>1. (Over => Over') /\ (status' = "EXPIRED" => Ended')
    BY OverForGood
  <1>2. req \in [Procs -> Request] /\ Worker \in Procs /\ Requests \subseteq Procs
    BY DEF SeatInv, TypeOK, Procs
  <1>3. ASSUME NEW p \in Procs, NEW r, Step(p, r), r.op = "noShow" => Over
        PROVE  \A q \in Procs : req'[q].op = "noShow" => Over'
    <2>1. \A q \in Procs : req'[q] = IF q = p THEN r ELSE req[q]
      BY <1>2, <1>3 DEF Step
    <2> QED
      BY <1>1, <1>3, <2>1 DEF AbsenceInv
  <1>4. ASSUME job' = job, \A q \in Procs : req'[q].op = "noShow" => Over' PROVE AbsenceInv'
    BY <1>1, <1>4 DEF AbsenceInv
  <1>5. ASSUME job'.batch = {}, \A q \in Procs : req'[q].op = "noShow" => Over' PROVE AbsenceInv'
    BY <1>1, <1>5 DEF AbsenceInv
  <1>6. ASSUME req' = req PROVE \A q \in Procs : req'[q].op = "noShow" => Over'
    BY <1>1, <1>6 DEF AbsenceInv
  <1>7. ASSUME NEW p \in Procs, Step(p, Idle) PROVE \A q \in Procs : req'[q].op = "noShow" => Over'
    BY <1>3, <1>7 DEF Idle
  <1>8. ASSUME NEW p \in Procs, NEW r, r.op = req[p].op, Step(p, r)
        PROVE  \A q \in Procs : req'[q].op = "noShow" => Over'
    BY <1>3, <1>8 DEF AbsenceInv
  <1>9. ASSUME NEW p \in Procs, NEW error, Throw(p, error)
        PROVE  \A q \in Procs : req'[q].op = "noShow" => Over'
    <2> DEFINE r == [Idle EXCEPT !.op = req[p].op, !.cand = req[p].cand, !.phase = "thrown", !.error = error]
    <2>1. r.op = req[p].op /\ Step(p, r)
      BY <1>9 DEF Throw, Idle
    <2> HIDE DEF r
    <2> QED
      BY <1>8, <2>1
  <1>10. ASSUME NEW p \in Requests, Begin(p) PROVE AbsenceInv'
    <2>1. ASSUME NEW r, Start(p, r), [r EXCEPT !.phase = "begun"].op # "noShow" PROVE AbsenceInv'
      <3>1. job' = job /\ Step(p, [r EXCEPT !.phase = "begun"])
        BY <2>1 DEF Start, Step, jobVars
      <3> QED
        BY <1>2, <1>3, <1>4, <2>1, <3>1
    <2>2. PICK c \in Candidates :
             \/ \E s \in SlotIds, to \in States : Apply(p, c, s, to)
             \/ Release(p, c)
             \/ \E to \in States : Decide(p, c, to)
             \/ \E unflagged \in BOOLEAN : Scan(p, c, unflagged)
             \/ MarkPresent(p, c)
             \/ ConfirmFlagged(p, c)
      BY <1>10 DEF Begin, BeginBooking, BeginAtDesk
    <2>3. CASE \E s \in SlotIds, to \in States : Apply(p, c, s, to)
      BY <2>1, <2>3 DEF Apply, Idle
    <2>4. CASE Release(p, c) \/ ConfirmFlagged(p, c)
      BY <2>1, <2>4 DEF Release, ConfirmFlagged, Idle
    <2>5. CASE \E to \in States : Decide(p, c, to)
      BY <2>1, <2>5 DEF Decide, Idle
    <2>6. CASE \E unflagged \in BOOLEAN : Scan(p, c, unflagged)
      <3>1. PICK unflagged \in BOOLEAN : Scan(p, c, unflagged)
        BY <2>6
      <3> DEFINE r == [Idle EXCEPT !.op = "scan", !.cand = c, !.to = "CHECKED_IN",
                                   !.exists = app[c].state # "NONE",
                                   !.method = IF app[c].state = "CONFIRMED" THEN "SCAN" ELSE "WALK_IN",
                                   !.valid = unflagged]
      <3>2. Start(p, r)
        BY <3>1 DEF Scan
      <3>3. [r EXCEPT !.phase = "begun"].op # "noShow"
        BY DEF Idle
      <3> HIDE DEF r
      <3> QED
        BY <2>1, <3>2, <3>3
    <2>7. CASE MarkPresent(p, c)
      BY <2>1, <2>7 DEF MarkPresent, Idle
    <2> QED
      BY <2>2, <2>3, <2>4, <2>5, <2>6, <2>7
  <1>11. ASSUME NEW p \in Procs, Advance(p) PROVE AbsenceInv'
    <2>1. job' = job
      BY <1>11 DEF Advance, ReadApplication, TakeSeat, ReleaseSeat, CommitMove, LoseRace, CommitConfirm, jobVars
    <2>2. CASE ReadApplication(p)
      <3> DEFINE row == IF req[p].op = "scan" /\ ~req[p].exists THEN NoRow ELSE app[req[p].cand]
                 r == [req[p] EXCEPT !.phase = "seen", !.seen = row.state, !.seenSlot = row.slotId]
      <3>1. Step(p, r) \/ Throw(p, "Illegal")
        BY <2>2 DEF ReadApplication
      <3>2. r.op = req[p].op
        BY <1>2 DEF Request
      <3> HIDE DEF r
      <3> QED
        BY <1>4, <1>8, <1>9, <2>1, <3>1, <3>2
    <2>3. CASE TakeSeat(p) \/ ReleaseSeat(p)
      <3> DEFINE counted(s) == [req[p] EXCEPT !.phase = "seated", !.held = s]
                 uncounted == [req[p] EXCEPT !.phase = "seated"]
      <3>1. Throw(p, "SlotFull") \/ Step(p, uncounted) \/ \E s : Step(p, counted(s))
        BY <2>3 DEF TakeSeat, ReleaseSeat
      <3>2. uncounted.op = req[p].op /\ \A s : counted(s).op = req[p].op
        BY <1>2 DEF Request
      <3> HIDE DEF counted, uncounted
      <3> QED
        BY <1>4, <1>8, <1>9, <2>1, <3>1, <3>2
    <2>4. CASE CommitMove(p) \/ LoseRace(p) \/ CommitConfirm(p)
      BY <1>4, <1>7, <1>9, <2>1, <2>4 DEF CommitMove, LoseRace, CommitConfirm
    <2> QED
      BY <1>11, <2>2, <2>3, <2>4 DEF Advance
  <1>12. ASSUME NEW p \in Requests, AnswerError(p) \/ Abandon(p) PROVE AbsenceInv'
    BY <1>2, <1>4, <1>7, <1>12 DEF AnswerError, Abandon, jobVars
  <1>13. CASE FindUnattended
    <2>1. req' = req /\ UNCHANGED driveVars /\ (job'.batch # {} => status = "EXPIRED")
      BY <1>13 DEF FindUnattended
    <2>2. job'.batch # {} => Over
      BY <2>1 DEF AbsenceInv, Over
    <2> QED
      BY <1>1, <1>6, <2>1, <2>2 DEF AbsenceInv
  <1>14. CASE \E c \in Candidates : MarkNoShow(c)
    <2>1. PICK c \in Candidates : MarkNoShow(c)
      BY <1>14
    <2> DEFINE r == [Idle EXCEPT !.phase = "begun", !.op = "noShow", !.cand = c, !.to = "NO_SHOW"]
    <2>2. c \in job.batch /\ Step(Worker, r) /\ job' = [job EXCEPT !.batch = @ \ {c}]
      BY <2>1 DEF MarkNoShow
    <2>3. Over
      BY <2>2 DEF AbsenceInv
    <2> HIDE DEF r
    <2>4. \A q \in Procs : req'[q].op = "noShow" => Over'
      BY <1>2, <1>3, <2>2, <2>3
    <2> QED
      BY <1>1, <2>3, <2>4 DEF AbsenceInv
  <1>15. CASE CatchInLoop \/ WorkerCrash
    <2>1. Step(Worker, Idle) /\ (job' = job \/ job'.batch = {})
      BY <1>15 DEF CatchInLoop, WorkerCrash
    <2> QED
      BY <1>2, <1>4, <1>5, <1>7, <2>1
  <1>16. CASE FinishRun
    <2>1. req' = req /\ job'.batch = {}
      BY <1>16 DEF FinishRun, SeatInv, TypeOK
    <2> QED
      BY <1>5, <1>6, <2>1
  <1>17. CASE ExpireDrives
    <2>1. req' = req /\ job'.batch = job.batch
      BY <1>17 DEF ExpireDrives, SeatInv, TypeOK
    <2> QED
      BY <1>1, <1>6, <2>1 DEF AbsenceInv
  <1>18. CASE Tick \/ (\E to \in Statuses : MoveDrive(to)) \/ UNCHANGED vars
    <2>1. req' = req /\ job' = job
      BY <1>18 DEF Tick, MoveDrive, vars, jobVars
    <2> QED
      BY <1>4, <1>6, <2>1
  <1> QED
    BY <1>10, <1>11, <1>12, <1>13, <1>14, <1>15, <1>16, <1>17, <1>18 DEF Next, RunJob

\* The job has found nobody yet.
LEMMA InitAbsence == Init => AbsenceInv
  BY DEF Init, AbsenceInv, Idle

\* Whoever becomes a no-show does so once the drive is over.
LEMMA AbsentOnceOver ==
  ASSUME SeatInv, MovesLegal, AbsenceInv, [Next]_vars, NEW c \in Candidates,
         app[c].state # "NO_SHOW", app'[c].state = "NO_SHOW"
  PROVE  Over
  <1>1. app' # app
    OBVIOUS
  <1>2. PICK p \in Procs : CommitMove(p)
    <2>1. ASSUME NEW p \in Requests, Begin(p) \/ AnswerError(p) \/ Abandon(p) PROVE app' = app
      BY <2>1 DEF Begin, BeginBooking, BeginAtDesk, Apply, Release, Decide, Scan, MarkPresent, ConfirmFlagged, Start, AnswerError,
         Abandon, rowVars
    <2>2. ASSUME NEW p \in Procs, Advance(p), ~CommitMove(p) PROVE app' = app
      BY <2>2 DEF Advance, ReadApplication, TakeSeat, ReleaseSeat, LoseRace, CommitConfirm, rowVars
    <2>3. CASE RunJob \/ WorkerCrash \/ Tick \/ (\E to \in Statuses : MoveDrive(to)) \/ UNCHANGED vars
      BY <2>3 DEF RunJob, ExpireDrives, FindUnattended, CatchInLoop, FinishRun, MarkNoShow,
         WorkerCrash, Tick, MoveDrive, vars, rowVars
    <2> QED
      BY <1>1, <2>1, <2>2, <2>3 DEF Next
  <1>3. req[p].to = "NO_SHOW"
    <2>1. app \in [Candidates -> Application]
      BY DEF SeatInv, TypeOK
    <2>2. app' = [app EXCEPT ![req[p].cand] = [state |-> req[p].to, slotId |-> SlotAfter(req[p])]]
      BY <1>2 DEF CommitMove
    <2> QED
      BY <2>1, <2>2
  <1>4. req[p].op # "confirm" /\ Goal(req[p])
    BY <1>2 DEF CommitMove, ReadyToCommit, MovesLegal, OnItsWay
  <1>5. req[p].op = "noShow"
    BY <1>3, <1>4 DEF Goal
  <1> QED
    BY <1>5, Zenon DEF AbsenceInv

\* A no-show is never marked while the drive runs, is suspended or has been
\* cancelled before its end, whatever the drive's people and the admins do
\* between the job's query and its writes (expireDrives, markNoShows).
THEOREM AbsenceFollowsExpiry == Spec => AbsentOnlyAfterExpiry
  <1> DEFINE Marked == \A c \in Candidates :
                app[c].state # "NO_SHOW" /\ app'[c].state = "NO_SHOW" =>
                    Ended /\ status \in {"EXPIRED", "CANCELLED"}
  <1>1. SeatInv /\ MovesLegal /\ AbsenceInv /\ [Next]_vars => [Marked]_vars
    BY AbsentOnceOver DEF Over
  <1>2. SeatInv /\ AbsenceInv /\ [Next]_vars => AbsenceInv'
    BY AbsenceStep
  <1> QED
    BY <1>1, <1>2, InitSeatInv, NextKeepsSeats, InitMovesLegal, NextMovesLegal, InitAbsence, PTL
    DEF Spec, AbsentOnlyAfterExpiry
=============================================================================
