----------------------- MODULE ApplicationSeatsProofs -----------------------
(***************************************************************************)
(* Proofs about the seats of module Applications as long as nobody books   *)
(* an application again under another request's read of it                 *)
(* (NoRebookSpec): bookedCount counts exactly the applications that point  *)
(* at the slot, so a slot's last seat is sold once.                        *)
(*                                                                         *)
(* The argument: the slot a request read with the application is still the *)
(* application's slot whenever its state is still the one read.  The       *)
(* compare-and-set looks at the state only, so this is what makes the      *)
(* count it commits the right one.  States that can be reached twice       *)
(* without a rebooking hold no seat; the others are never re-entered.      *)
(***************************************************************************)
EXTENDS ApplicationsProofs, FiniteSetTheorems

USE CandidatesAssumption, ProcessAssumption, SlotAssumption, BoundAssumption

Unseated == {"NONE", "WITHDRAWN", "SCREENED_OUT"}

\* Where an application can be once a request has seen it in a state that
\* nothing leads back to.
Onward(seen) ==
    CASE seen = "NO_SHOW" -> {"NO_SHOW", "CHECKED_IN", "INTERVIEWED", "HIRED", "REJECTED"}
      [] seen = "CHECKED_IN" -> {"CHECKED_IN", "INTERVIEWED", "HIRED", "REJECTED"}
      [] seen = "INTERVIEWED" -> {"INTERVIEWED", "HIRED", "REJECTED"}
      [] OTHER -> States

\* What a request's read of an application and of its slot is still worth.
ReadHolds(r, row) ==
    /\ row.state = r.seen => row.slotId = r.seenSlot
    /\ r.seen \in Unseated => r.seenSlot = NoSlot
    /\ row.state \in Onward(r.seen)
    /\ r.phase = "seated" =>
          \/ TakesSeat(r) /\ r.held = r.slot /\ r.held # NoSlot
          \/ FreesSeat(r) /\ r.held = r.seenSlot
          \/ FreesSeat(r) /\ r.held = NoSlot /\ row.state # "CONFIRMED"

ReadsHold == \A p \in Procs :
    req[p].phase \in {"seen", "seated"} => ReadHolds(req[p], app[req[p].cand])

ConfirmedHaveSeats == \A c \in Candidates :
    app[c].state = "CONFIRMED" => app[c].slotId # NoSlot

\* Every slot that is pointed at or held has a row.
SlotsExist ==
    /\ \A c \in Candidates : app[c].slotId # NoSlot => app[c].slotId \in schedule.slots
    /\ \A p \in Procs : req[p].held # NoSlot => req[p].held \in schedule.slots

ConservedInv ==
    /\ SeatInv /\ MovesLegal /\ NoRebookUnderRead /\ SlotsExist
    /\ SeatOnlyWhenBooked /\ ConfirmedHaveSeats /\ ReadsHold /\ SeatsConserved

\* What a committing move does to the seat of its application.
LEMMA MoveAndSeat ==
  ASSUME ConservedInv, NEW p \in Procs, CommitMove(p), NEW c \in Candidates, c = req[p].cand
  PROVE  LET r == req[p]
         IN  /\ app[c].state = r.seen /\ app[c].slotId = r.seenSlot
             /\ <<r.seen, r.to, Actor(r.op)>> \in Transitions
             /\ app' = [app EXCEPT ![c] = [state |-> r.to, slotId |-> SlotAfter(r)]]
             /\ \/ /\ TakesSeat(r) /\ r.seenSlot = NoSlot
                   /\ SlotAfter(r) = r.held /\ r.held \in SlotIds
                   /\ booked' = [booked EXCEPT ![r.held] = @ + 1]
                \/ /\ FreesSeat(r) /\ SlotAfter(r) = NoSlot
                   /\ r.held = r.seenSlot /\ r.held \in SlotIds
                   /\ booked' = [booked EXCEPT ![r.held] = @ - 1]
                \/ /\ ~TakesSeat(r) /\ SlotAfter(r) = r.seenSlot
                   /\ booked' = booked
  <1> DEFINE r == req[p]
  <1>1. r \in Request /\ r.phase \in {"seen", "seated"} /\ (r.phase # "seated" => r.held = NoSlot)
        /\ (r.phase = "seen" => ~TakesSeat(r) /\ ~FreesSeat(r))
    BY DEF ConservedInv, SeatInv, TypeOK, LockedSeat, CommitMove, ReadyToCommit
  <1>2. app[c].state = r.seen /\ booked' = BookedAfter(r)
        /\ app' = [app EXCEPT ![c] = [state |-> r.to, slotId |-> SlotAfter(r)]]
    BY DEF CommitMove, Unmoved
  <1>3. ReadHolds(r, app[c])
    BY <1>1 DEF ConservedInv, ReadsHold
  <1>4. app[c].slotId = r.seenSlot
    BY <1>2, <1>3 DEF ReadHolds
  <1>5. <<r.seen, r.to, Actor(r.op)>> \in Transitions
    BY <1>1 DEF ConservedInv, MovesLegal, OnItsWay, AssertLegal
  <1>6. r.held \in SlotIds \cup {NoSlot} /\ r.slot \in SlotIds \cup {NoSlot}
        /\ r.seenSlot \in SlotIds \cup {NoSlot}
    BY <1>1 DEF Request
  <1>7. r.seen = "CONFIRMED" => r.seenSlot # NoSlot
    BY <1>2, <1>4 DEF ConservedInv, ConfirmedHaveSeats
  <1> HIDE DEF r
  <1>8. CASE r.phase = "seated"
    <2>1. \/ TakesSeat(r) /\ r.held = r.slot /\ r.held # NoSlot
          \/ FreesSeat(r) /\ r.held = r.seenSlot /\ r.held # NoSlot
      BY <1>2, <1>3, <1>8 DEF ReadHolds, FreesSeat
    <2>2. CASE TakesSeat(r) /\ r.held = r.slot /\ r.held # NoSlot
      <3>1. r.seen \in Unseated
        BY <1>5, <2>2 DEF TakesSeat, Transitions, Unseated
      <3>2. r.seenSlot = NoSlot
        BY <1>3, <3>1 DEF ReadHolds
      <3>3. SlotAfter(r) = r.held
        BY <2>2 DEF SlotAfter, TakesSeat, WalkIn
      <3>4. booked' = [booked EXCEPT ![r.held] = @ + 1]
        BY <1>2, <2>2 DEF BookedAfter
      <3> QED
        BY <1>2, <1>4, <1>5, <1>6, <2>2, <3>2, <3>3, <3>4 DEF r
    <2>3. CASE FreesSeat(r) /\ r.held = r.seenSlot /\ r.held # NoSlot
      <3>1. ~TakesSeat(r) /\ SlotAfter(r) = NoSlot
        BY <2>3 DEF FreesSeat, TakesSeat, SlotAfter
      <3>2. booked' = [booked EXCEPT ![r.held] = @ - 1]
        BY <1>2, <2>3, <3>1 DEF BookedAfter
      <3> QED
        BY <1>2, <1>4, <1>5, <1>6, <2>3, <3>1, <3>2 DEF r
    <2> QED
      BY <2>1, <2>2, <2>3
  <1>9. CASE r.phase # "seated"
    <2>1. ~TakesSeat(r) /\ ~FreesSeat(r) /\ booked' = booked
      BY <1>1, <1>2, <1>9 DEF BookedAfter, r
    <2>2. r.to = "WITHDRAWN" => r.seen = "CONFIRMED"
      BY <1>5 DEF Transitions
    <2>3. WalkIn(r) => r.seen \in Unseated
      BY <1>5 DEF WalkIn, Transitions, Unseated
    <2>4. SlotAfter(r) = r.seenSlot
      BY <1>3, <1>7, <2>1, <2>2, <2>3 DEF SlotAfter, FreesSeat, TakesSeat, ReadHolds
    <2> QED
      BY <1>2, <1>4, <1>5, <2>1, <2>4 DEF r
  <1> QED
    BY <1>8, <1>9

-----------------------------------------------------------------------------
(* A commit keeps the invariant.                                            *)

\* One application's slot is added to, taken from or left in the count.
LEMMA HoldersChange ==
  ASSUME ConservedInv, NEW c \in Candidates, NEW to \in States, NEW slot \in SlotIds \cup {NoSlot},
         app' = [app EXCEPT ![c] = [state |-> to, slotId |-> slot]],
         \/ app[c].slotId = NoSlot /\ slot \in SlotIds /\ booked' = [booked EXCEPT ![slot] = @ + 1]
         \/ app[c].slotId \in SlotIds /\ slot = NoSlot /\ booked' = [booked EXCEPT ![app[c].slotId] = @ - 1]
         \/ slot = app[c].slotId /\ booked' = booked
  PROVE  SeatsConserved'
  <1> SUFFICES ASSUME NEW s \in SlotIds PROVE booked'[s] = Cardinality(Holders(s)')
    BY DEF SeatsConserved
  <1>1. booked \in [SlotIds -> Nat] /\ app \in [Candidates -> Application]
    BY DEF ConservedInv, SeatInv, TypeOK
  <1>2. booked[s] = Cardinality(Holders(s))
    BY DEF ConservedInv, SeatsConserved
  <1>3. IsFiniteSet(Holders(s))
    BY FS_Subset DEF Holders
  <1>4. \A d \in Candidates : app'[d].slotId = IF d = c THEN slot ELSE app[d].slotId
    BY <1>1
  <1>5. NoSlot \notin SlotIds
    BY DEF NoSlot
  <1>6. CASE slot = app[c].slotId /\ booked' = booked
    <2>1. Holders(s)' = Holders(s)
      BY <1>4, <1>6 DEF Holders
    <2> QED
      BY <1>2, <1>6, <2>1
  <1>7. CASE app[c].slotId = NoSlot /\ slot \in SlotIds /\ booked' = [booked EXCEPT ![slot] = @ + 1]
    <2>1. CASE slot = s
      <3>1. Holders(s)' = Holders(s) \cup {c} /\ c \notin Holders(s)
        BY <1>4, <1>5, <1>7, <2>1 DEF Holders
      <3>2. Cardinality(Holders(s) \cup {c}) = Cardinality(Holders(s)) + 1
        BY <1>3, <3>1, FS_AddElement
      <3>3. booked'[s] = booked[s] + 1
        BY <1>1, <1>7, <2>1
      <3> QED
        BY <1>2, <3>1, <3>2, <3>3
    <2>2. CASE slot # s
      <3>1. Holders(s)' = Holders(s)
        BY <1>4, <1>5, <1>7, <2>2 DEF Holders
      <3> QED
        BY <1>1, <1>2, <1>7, <2>2, <3>1
    <2> QED
      BY <2>1, <2>2
  <1>8. CASE app[c].slotId \in SlotIds /\ slot = NoSlot /\ booked' = [booked EXCEPT ![app[c].slotId] = @ - 1]
    <2>1. CASE app[c].slotId = s
      <3>1. Holders(s)' = Holders(s) \ {c} /\ c \in Holders(s)
        BY <1>4, <1>5, <1>8, <2>1 DEF Holders
      <3>2. Cardinality(Holders(s) \ {c}) = Cardinality(Holders(s)) - 1
        BY <1>3, <3>1, FS_RemoveElement
      <3>3. booked'[s] = booked[s] - 1
        BY <1>1, <1>8, <2>1
      <3> QED
        BY <1>2, <3>1, <3>2, <3>3
    <2>2. CASE app[c].slotId # s
      <3>1. Holders(s)' = Holders(s)
        BY <1>4, <1>5, <1>8, <2>2 DEF Holders
      <3> QED
        BY <1>1, <1>2, <1>8, <2>2, <3>1
    <2> QED
      BY <2>1, <2>2
  <1> QED
    BY <1>6, <1>7, <1>8

\* A commit keeps count and pointers in step.
LEMMA CommitConserves ==
  ASSUME ConservedInv, NEW p \in Procs, CommitMove(p)
  PROVE  SeatsConserved' /\ SeatOnlyWhenBooked' /\ ConfirmedHaveSeats' /\ SlotsExist'
  <1> DEFINE r == req[p]
  <1>1. PICK c \in Candidates : c = r.cand
    BY DEF ConservedInv, SeatInv, LockedSeat, CommitMove, ReadyToCommit
  <1>2. r.to \in States /\ r.seenSlot \in SlotIds \cup {NoSlot} /\ app \in [Candidates -> Application]
    BY DEF ConservedInv, SeatInv, TypeOK, Request
  <1>3. /\ app[c].state = r.seen /\ app[c].slotId = r.seenSlot
        /\ <<r.seen, r.to, Actor(r.op)>> \in Transitions
        /\ app' = [app EXCEPT ![c] = [state |-> r.to, slotId |-> SlotAfter(r)]]
        /\ \/ /\ TakesSeat(r) /\ r.seenSlot = NoSlot
              /\ SlotAfter(r) = r.held /\ r.held \in SlotIds
              /\ booked' = [booked EXCEPT ![r.held] = @ + 1]
           \/ /\ FreesSeat(r) /\ SlotAfter(r) = NoSlot
              /\ r.held = r.seenSlot /\ r.held \in SlotIds
              /\ booked' = [booked EXCEPT ![r.held] = @ - 1]
           \/ /\ ~TakesSeat(r) /\ SlotAfter(r) = r.seenSlot
              /\ booked' = booked
    BY <1>1, MoveAndSeat
  <1>4. SlotAfter(r) \in SlotIds \cup {NoSlot}
    BY <1>2, <1>3
  <1>5. NoSlot \notin SlotIds
    BY DEF NoSlot
  <1>6. \A d \in Candidates : app'[d] = IF d = c THEN [state |-> r.to, slotId |-> SlotAfter(r)] ELSE app[d]
    BY <1>2, <1>3
  <1>7. app[c].slotId # NoSlot => app[c].state \in {"CONFIRMED", "NO_SHOW", "REJECTED"} \cup Arrived
    BY DEF ConservedInv, SeatOnlyWhenBooked
  <1> HIDE DEF r
  <1>8. SeatsConserved'
    BY <1>2, <1>3, <1>4, HoldersChange
  <1>9. SlotAfter(r) # NoSlot => r.to \in {"CONFIRMED", "NO_SHOW", "REJECTED"} \cup Arrived
    <2>1. CASE TakesSeat(r)
      BY <2>1 DEF TakesSeat
    <2>2. CASE ~TakesSeat(r) /\ SlotAfter(r) = r.seenSlot /\ r.seenSlot # NoSlot
      <3>1. r.seen \in {"CONFIRMED", "NO_SHOW", "REJECTED"} \cup Arrived /\ r.to # "CONFIRMED"
        BY <1>3, <1>7, <2>2 DEF TakesSeat
      <3>2. r.to # "WITHDRAWN"
        BY <2>2 DEF SlotAfter, WalkIn
      <3> QED
        BY <1>3, <3>1, <3>2 DEF Transitions, Arrived
    <2> QED
      BY <1>3, <2>1, <2>2
  <1>10. SeatOnlyWhenBooked'
    BY <1>6, <1>9 DEF ConservedInv, SeatOnlyWhenBooked
  <1>11. ConfirmedHaveSeats'
    <2>1. r.to = "CONFIRMED" => SlotAfter(r) # NoSlot
      BY <1>3, <1>5 DEF TakesSeat, FreesSeat
    <2> QED
      BY <1>6, <2>1 DEF ConservedInv, ConfirmedHaveSeats
  <1>12. SlotsExist'
    <2>1. schedule' = schedule /\ \A q \in Procs : req'[q] = IF q = p THEN Idle ELSE req[q]
      BY IdleIsARequest DEF CommitMove, driveVars, Step, ConservedInv, SeatInv, TypeOK
    <2>2. SlotAfter(r) # NoSlot => SlotAfter(r) \in schedule.slots
      BY <1>3, <1>5 DEF ConservedInv, SlotsExist, r
    <2> QED
      BY <1>6, <2>1, <2>2 DEF ConservedInv, SlotsExist, Idle
  <1> QED
    BY <1>8, <1>10, <1>11, <1>12

\* The reads of other requests survive it.
LEMMA CommitKeepsReads ==
  ASSUME ConservedInv, NEW p \in Procs, CommitMove(p), SeatOnlyWhenBooked'
  PROVE  ReadsHold'
  <1> DEFINE r == req[p]
  <1>1. PICK c \in Candidates : c = r.cand
    BY DEF ConservedInv, SeatInv, LockedSeat, CommitMove, ReadyToCommit
  <1>2. app \in [Candidates -> Application] /\ req \in [Procs -> Request] /\ r.phase \in {"seen", "seated"}
        /\ req' = [req EXCEPT ![p] = Idle] /\ r.to \in States
    BY DEF ConservedInv, SeatInv, TypeOK, CommitMove, ReadyToCommit, Step, Request
  <1>3. /\ app[c].state = r.seen /\ app[c].slotId = r.seenSlot
        /\ <<r.seen, r.to, Actor(r.op)>> \in Transitions
        /\ app' = [app EXCEPT ![c] = [state |-> r.to, slotId |-> SlotAfter(r)]]
    BY <1>1, MoveAndSeat
  <1>4. \A d \in Candidates : app'[d] = IF d = c THEN [state |-> r.to, slotId |-> SlotAfter(r)] ELSE app[d]
    BY <1>2, <1>3
  <1>5. Goal(r) /\ r.op # "confirm"
    BY <1>2 DEF ConservedInv, MovesLegal, OnItsWay
  <1>6. r.to = "CONFIRMED" => r.op = "apply"
    BY <1>5 DEF Goal
  <1> HIDE DEF r
  <1> SUFFICES ASSUME NEW q \in Procs, req'[q].phase \in {"seen", "seated"}
               PROVE  ReadHolds(req'[q], app'[req'[q].cand])
    BY DEF ReadsHold, ReadHolds, TakesSeat, FreesSeat
  <1>7. q # p /\ req'[q] = req[q]
    BY <1>2 DEF Idle
  <1>8. PICK o \in Request : o = req[q]
    BY <1>2
  <1>9. o.cand \in Candidates /\ ReadHolds(o, app[o.cand]) /\ o.phase \in {"seen", "seated"}
    BY <1>7, <1>8 DEF ConservedInv, SeatInv, LockedSeat, ReadsHold
  <1>10. CASE o.cand # c
    BY <1>4, <1>7, <1>8, <1>9, <1>10
  <1>11. CASE o.cand = c
    <2>1. o.seen = "CONFIRMED" => r.to # "CONFIRMED"
      BY <1>1, <1>2, <1>6, <1>8, <1>9, <1>11 DEF ConservedInv, NoRebookUnderRead, r
    <2>2. app'[c].state = r.to /\ app'[c].slotId = SlotAfter(r)
      BY <1>4
    <2>3. r.to \in Onward(o.seen)
      BY <1>2, <1>3, <1>9, <1>11 DEF ReadHolds, Onward, Transitions, States
    <2>4. r.to = o.seen => SlotAfter(r) = o.seenSlot
      <3>1. SUFFICES ASSUME r.to = o.seen PROVE SlotAfter(r) = o.seenSlot
        OBVIOUS
      <3>a. \E t \in States, a \in {"candidate", "employer", "system"} : <<o.seen, t, a>> \in Transitions
        <4>1. AssertLegal(o.seen, o.to, o.op)
          BY <1>8, <1>9 DEF ConservedInv, MovesLegal, OnItsWay
        <4>2. Actor(o.op) \in {"candidate", "employer", "system"} /\ o.to \in States
          BY DEF Actor, Request
        <4> QED
          BY <4>1, <4>2 DEF AssertLegal
      <3>b. o.seen \notin {"REJECTED", "HIRED"}
        BY <3>a DEF Transitions
      <3>2. o.seen \in Unseated
        BY <3>b, <1>3, <1>9, <1>11, <2>1, <3>1 DEF ReadHolds, Onward, Transitions, Unseated
      <3>3. app'[c].slotId = NoSlot
        BY <2>2, <3>1, <3>2 DEF SeatOnlyWhenBooked, Unseated, Arrived
      <3> QED
        BY <1>9, <2>2, <3>2, <3>3 DEF ReadHolds
    <2>5. FreesSeat(o) => r.to # "CONFIRMED"
      BY <2>1 DEF FreesSeat
    <2> QED
      BY <1>7, <1>8, <1>9, <1>11, <2>2, <2>3, <2>4, <2>5 DEF ReadHolds
  <1> QED
    BY <1>10, <1>11

-----------------------------------------------------------------------------
(* Every other step.                                                        *)

\* A step that writes no row and takes one request into a state whose read,
\* if it has one, holds.
LEMMA StepConserves ==
  ASSUME ConservedInv, SeatInv', MovesLegal', NoRebookUnderRead',
         NEW p \in Procs, NEW r, Step(p, r), UNCHANGED <<app, booked, schedule>>,
         r.held # NoSlot => r.held \in schedule.slots,
         r.phase \in {"seen", "seated"} => ReadHolds(r, app[r.cand])
  PROVE  ConservedInv'
  <1>1. \A q \in Procs : req'[q] = IF q = p THEN r ELSE req[q]
    BY DEF ConservedInv, SeatInv, TypeOK, Step
  <1>2. ReadsHold'
    BY <1>1 DEF ConservedInv, ReadsHold, ReadHolds, TakesSeat, FreesSeat
  <1>3. SeatOnlyWhenBooked' /\ ConfirmedHaveSeats' /\ SeatsConserved'
    BY DEF ConservedInv, SeatOnlyWhenBooked, ConfirmedHaveSeats, SeatsConserved, Holders
  <1>4. SlotsExist'
    BY <1>1 DEF ConservedInv, SlotsExist
  <1> QED
    BY <1>2, <1>3, <1>4 DEF ConservedInv

\* A step that changes neither rows nor reads keeps them in step.
LEMMA StillConserves ==
  ASSUME ConservedInv, SeatInv', MovesLegal', NoRebookUnderRead', UNCHANGED <<app, booked, schedule, req>>
  PROVE  ConservedInv'
  <1>1. ReadsHold'
    BY DEF ConservedInv, ReadsHold, ReadHolds, TakesSeat, FreesSeat
  <1>2. SeatOnlyWhenBooked' /\ ConfirmedHaveSeats' /\ SeatsConserved' /\ SlotsExist'
    BY DEF ConservedInv, SeatOnlyWhenBooked, ConfirmedHaveSeats, SeatsConserved, Holders, SlotsExist
  <1> QED
    BY <1>1, <1>2 DEF ConservedInv

\* A read of the application, before anything is written.
LEMMA ReadConserves ==
  ASSUME ConservedInv, SeatInv', MovesLegal', NoRebookUnderRead', NEW p \in Procs, ReadApplication(p)
  PROVE  ConservedInv'
  <1> DEFINE row == IF req[p].op = "scan" /\ ~req[p].exists THEN NoRow ELSE app[req[p].cand]
             r == [req[p] EXCEPT !.phase = "seen", !.seen = row.state, !.seenSlot = row.slotId]
  <1>1. UNCHANGED <<app, booked, schedule>> /\ req[p].phase = "begun" /\ (Step(p, r) \/ Throw(p, "Illegal"))
    BY DEF ReadApplication, rowVars, driveVars
  <1>2. req[p] \in Request /\ req[p].cand \in Candidates /\ app \in [Candidates -> Application]
    BY <1>1 DEF ConservedInv, SeatInv, TypeOK, LockedSeat
  <1>3. CASE Throw(p, "Illegal")
    BY <1>1, <1>3, StepConserves DEF Throw, Idle
  <1>4. CASE Step(p, r)
    <2>1. PICK c \in Candidates : c = req[p].cand
      BY <1>2
    <2>2. \/ row.state = "NONE" /\ row.slotId = NoSlot
          \/ row.state = app[c].state /\ row.slotId = app[c].slotId
      BY <2>1 DEF NoRow
    <2>3. app[c].state \in States
      BY <1>2 DEF Application
    <2>4. app[c].slotId # NoSlot => app[c].state \notin Unseated
      BY DEF ConservedInv, SeatOnlyWhenBooked, Unseated, Arrived
    <2>5. r.phase = "seen" /\ r.seen = row.state /\ r.seenSlot = row.slotId /\ r.cand = c
          /\ r.held = NoSlot
      BY <1>1, <1>2, <2>1 DEF Request, ConservedInv, SeatInv, LockedSeat
    <2>6. Step(p, r)
      BY <1>4
    <2> HIDE DEF r, row
    <2>8. ReadHolds(r, app[c])
      <3>1. app[c].state = r.seen => app[c].slotId = r.seenSlot
        BY <2>2, <2>4, <2>5 DEF Unseated
      <3>2. r.seen \in Unseated => r.seenSlot = NoSlot
        BY <2>2, <2>4, <2>5
      <3>3. app[c].state \in Onward(r.seen)
        BY <2>2, <2>3, <2>5 DEF Onward
      <3> QED
        BY <2>5, <3>1, <3>2, <3>3 DEF ReadHolds
    <2> QED
      BY <1>1, <2>5, <2>6, <2>8, StepConserves
  <1> QED
    BY <1>1, <1>3, <1>4

\* Each step of a move that takes or gives back a seat.
LEMMA SeatStepConserves ==
  ASSUME ConservedInv, SeatInv', MovesLegal', NoRebookUnderRead', NEW p \in Procs,
         TakeSeat(p) \/ ReleaseSeat(p)
  PROVE  ConservedInv'
  <1> DEFINE uncounted == [req[p] EXCEPT !.phase = "seated"]
             counted(s) == [req[p] EXCEPT !.phase = "seated", !.held = s]
  <1>1. UNCHANGED <<app, booked, schedule>> /\ req[p].phase = "seen"
    BY DEF TakeSeat, ReleaseSeat, rowVars, driveVars
  <1>2. req[p] \in Request /\ req[p].held = NoSlot /\ booked \in [SlotIds -> Nat]
    BY <1>1 DEF ConservedInv, SeatInv, TypeOK, LockedSeat
  <1>3. PICK c \in Candidates : c = req[p].cand
    BY <1>1 DEF ConservedInv, SeatInv, LockedSeat
  <1>4. ReadHolds(req[p], app[c])
    BY <1>1, <1>3 DEF ConservedInv, ReadsHold
  <1>5. NoSlot \notin SlotIds
    BY DEF NoSlot
  <1>6. ASSUME NEW s \in SlotIds, s \in schedule.slots, Step(p, counted(s)),
               \/ TakesSeat(req[p]) /\ s = req[p].slot
               \/ FreesSeat(req[p]) /\ s = req[p].seenSlot
        PROVE  ConservedInv'
    <2> DEFINE r == counted(s)
    <2>1. /\ r.held = s /\ r.phase = "seated" /\ r.cand = c /\ r.to = req[p].to /\ r.slot = req[p].slot
          /\ r.seen = req[p].seen /\ r.seenSlot = req[p].seenSlot
      BY <1>2, <1>3 DEF Request
    <2>2. Step(p, r)
      BY <1>6
    <2> HIDE DEF r
    <2>3. ReadHolds(r, app[c])
      BY <1>4, <1>5, <1>6, <2>1 DEF ReadHolds, TakesSeat, FreesSeat
    <2> QED
      BY <1>1, <1>6, <2>1, <2>2, <2>3, StepConserves
  <1>7. CASE Throw(p, "SlotFull")
    BY <1>1, <1>7, StepConserves DEF Throw, Idle
  <1>8. CASE Step(p, uncounted) /\ ReleaseSeat(p) /\ (req[p].seenSlot \in schedule.slots => booked[req[p].seenSlot] <= 0)
    <2>1. FreesSeat(req[p])
      BY <1>8 DEF ReleaseSeat
    <2>2. app[c].state # "CONFIRMED"
      <3>1. SUFFICES ASSUME app[c].state = "CONFIRMED" PROVE FALSE
        OBVIOUS
      <3> DEFINE s == req[p].seenSlot
      <3>2. app[c].slotId = s /\ s # NoSlot /\ s \in SlotIds
        BY <1>2, <1>4, <2>1, <3>1 DEF ReadHolds, FreesSeat, Request
      <3>3. s \in schedule.slots
        BY <3>2 DEF ConservedInv, SlotsExist
      <3>4. Cardinality(Holders(s)) = booked[s]
        BY <3>2 DEF ConservedInv, SeatsConserved
      <3>5. c \in Holders(s) /\ IsFiniteSet(Holders(s))
        BY <3>2, FS_Subset DEF Holders
      <3>6. Cardinality(Holders(s)) # 0
        BY <3>5, FS_EmptySet
      <3> QED
        BY <1>2, <1>8, <3>2, <3>3, <3>4, <3>6
    <2>3. /\ uncounted.held = NoSlot /\ uncounted.phase = "seated" /\ uncounted.cand = c
          /\ uncounted.to = req[p].to /\ uncounted.slot = req[p].slot
          /\ uncounted.seen = req[p].seen /\ uncounted.seenSlot = req[p].seenSlot
      BY <1>2, <1>3 DEF Request
    <2>4. Step(p, uncounted)
      BY <1>8
    <2> HIDE DEF uncounted
    <2>5. ReadHolds(uncounted, app[c])
      BY <1>4, <2>1, <2>2, <2>3 DEF ReadHolds, TakesSeat, FreesSeat
    <2> QED
      BY <1>1, <2>3, <2>4, <2>5, StepConserves
  <1>9. CASE TakeSeat(p)
    <2>1. \/ Throw(p, "SlotFull")
          \/ req[p].slot \in schedule.slots /\ Step(p, counted(req[p].slot)) /\ TakesSeat(req[p])
      BY <1>9 DEF TakeSeat
    <2>2. schedule.slots \subseteq SlotIds
      BY DEF ConservedInv, SeatInv, TypeOK, Schedule
    <2> QED
      BY <1>6, <1>7, <2>1, <2>2
  <1>10. CASE ReleaseSeat(p)
    <2>1. PICK s : s = req[p].seenSlot
      OBVIOUS
    <2>2. FreesSeat(req[p]) /\ schedule.slots \subseteq SlotIds
      BY <1>10 DEF ReleaseSeat, ConservedInv, SeatInv, TypeOK, Schedule
    <2>3. CASE s \in schedule.slots /\ booked[s] > 0
      <3>1. Step(p, counted(s))
        BY <1>10, <2>1, <2>3 DEF ReleaseSeat
      <3> QED
        BY <1>6, <2>1, <2>2, <2>3, <3>1
    <2>4. CASE ~(s \in schedule.slots /\ booked[s] > 0)
      <3>1. Step(p, uncounted)
        BY <1>10, <2>1, <2>4 DEF ReleaseSeat
      <3>a. s \in schedule.slots => booked[s] \in Nat
        BY <1>2, <2>2
      <3>2. s \in schedule.slots => booked[s] <= 0
        BY <2>4, <3>a
      <3>3. req[p].seenSlot \in schedule.slots => booked[req[p].seenSlot] <= 0
        BY <2>1, <3>2
      <3> HIDE DEF uncounted
      <3> QED
        BY <1>8, <1>10, <3>1, <3>3
    <2> QED
      BY <2>3, <2>4
  <1> QED
    BY <1>9, <1>10

\* Every step but a rebooking under a read keeps count and pointers in step.
LEMMA NextConserves ==
  ASSUME ConservedInv, SeatInv', MovesLegal', [Next /\ NoRebookUnderRead']_vars
  PROVE  ConservedInv'
  <1>1. CASE UNCHANGED vars
    <2>1. NoRebookUnderRead'
      BY <1>1 DEF vars, ConservedInv, NoRebookUnderRead
    <2> QED
      BY <1>1, <2>1, StillConserves DEF vars
  <1>2. CASE Next /\ NoRebookUnderRead'
    <2>1. ASSUME NEW p \in Requests, Begin(p) PROVE ConservedInv'
      <3>1. ASSUME NEW r, Start(p, r), r.held = NoSlot,
                   [r EXCEPT !.phase = "begun"].phase = "begun", [r EXCEPT !.phase = "begun"].held = r.held
            PROVE  ConservedInv'
        BY <1>2, <3>1, StepConserves DEF Start, Step, rowVars, driveVars, Procs
      <3> QED
        BY <2>1, <3>1 DEF Begin, BeginBooking, BeginAtDesk, Apply, Release, Decide, Scan, MarkPresent, ConfirmFlagged, Idle
    <2>2. ASSUME NEW p \in Procs, Step(p, Idle), UNCHANGED <<app, booked, schedule>> PROVE ConservedInv'
      BY <1>2, <2>2, StepConserves DEF Idle
    <2>3. ASSUME NEW p \in Procs, NEW error, Throw(p, error), UNCHANGED <<app, booked, schedule>>
          PROVE  ConservedInv'
      <3> DEFINE r == [Idle EXCEPT !.op = req[p].op, !.cand = req[p].cand, !.phase = "thrown", !.error = error]
      <3>1. r.phase = "thrown" /\ r.held = NoSlot /\ Step(p, r)
        BY <2>3 DEF Idle, Throw
      <3> HIDE DEF r
      <3> QED
        BY <1>2, <2>3, <3>1, StepConserves
    <2>4. ASSUME NEW p \in Procs, Advance(p) PROVE ConservedInv'
      <3>1. CASE CommitMove(p)
        BY <1>2, <3>1, CommitConserves, CommitKeepsReads DEF ConservedInv
      <3>2. CASE CommitConfirm(p)
        BY <2>2, <3>2 DEF CommitConfirm, driveVars
      <3>3. CASE LoseRace(p)
        BY <2>3, <3>3 DEF LoseRace, rowVars, driveVars
      <3> QED
        BY <1>2, <2>4, <3>1, <3>2, <3>3, ReadConserves, SeatStepConserves DEF Advance
    <2>5. ASSUME NEW p \in Requests, AnswerError(p) \/ Abandon(p) PROVE ConservedInv'
      BY <2>2, <2>5 DEF AnswerError, Abandon, Procs, rowVars, driveVars
    <2>6. CASE CatchInLoop \/ WorkerCrash
      BY <2>2, <2>6 DEF CatchInLoop, WorkerCrash, Procs, rowVars, driveVars
    <2>7. ASSUME NEW c \in Candidates, MarkNoShow(c) PROVE ConservedInv'
      <3> DEFINE r == [Idle EXCEPT !.phase = "begun", !.op = "noShow", !.cand = c, !.to = "NO_SHOW"]
      <3>1. r.phase = "begun" /\ r.held = NoSlot /\ Step(Worker, r) /\ UNCHANGED <<app, booked, schedule>>
        BY <2>7 DEF Idle, MarkNoShow, rowVars, driveVars
      <3> HIDE DEF r
      <3> QED
        BY <1>2, <3>1, StepConserves DEF Procs
    <2>8. CASE ExpireDrives \/ FindUnattended \/ FinishRun \/ Tick \/ \E to \in Statuses : MoveDrive(to)
      BY <1>2, <2>8, StillConserves DEF ExpireDrives, FindUnattended, FinishRun, Tick, MoveDrive,
         rowVars, driveVars
    <2> QED
      BY <1>2, <2>1, <2>4, <2>5, <2>6, <2>7, <2>8 DEF Next, RunJob
  <1> QED
    BY <1>1, <1>2

\* All slots are empty, and nobody points at one.
LEMMA InitConserves == Init => ConservedInv
  <1> SUFFICES ASSUME Init PROVE ConservedInv
    OBVIOUS
  <1>1. SeatInv /\ MovesLegal
    BY InitSeatInv, InitMovesLegal
  <1>2. NoRebookUnderRead /\ SlotsExist /\ ReadsHold
    BY DEF Init, NoRebookUnderRead, SlotsExist, ReadsHold, Idle, NoRow
  <1>3. SeatOnlyWhenBooked /\ ConfirmedHaveSeats
    BY DEF Init, SeatOnlyWhenBooked, ConfirmedHaveSeats, NoRow
  <1>4. SeatsConserved
    <2>1. \A s \in SlotIds : Holders(s) = {}
      BY DEF Init, Holders, NoRow, NoSlot
    <2> QED
      BY <2>1, FS_EmptySet DEF Init, SeatsConserved
  <1> QED
    BY <1>1, <1>2, <1>3, <1>4 DEF ConservedInv

\* The strengthened invariant holds in every reachable state.
LEMMA Conserved == NoRebookSpec => []ConservedInv
  <1>1. ConservedInv => SeatInv /\ MovesLegal
    BY DEF ConservedInv
  <1>2. [Next /\ NoRebookUnderRead']_vars => [Next]_vars
    OBVIOUS
  <1>3. ConservedInv /\ [Next /\ NoRebookUnderRead']_vars => ConservedInv'
    BY <1>1, <1>2, NextKeepsSeats, NextMovesLegal, NextConserves
  <1> QED
    BY <1>3, InitConserves, PTL DEF NoRebookSpec

\* bookedCount is exactly the number of applications that point at the slot,
\* as long as nobody rebooks an application under another request's read.
THEOREM SeatsAreConserved == NoRebookSpec => []SeatsConserved
  <1>1. ConservedInv => SeatsConserved
    BY DEF ConservedInv
  <1> QED
    BY <1>1, Conserved, PTL

\* A slot's last seat is sold once (same assumption): no slot has more
\* confirmed applications than seats.
THEOREM LastSeatIsSoldOnce == NoRebookSpec => []LastSeatSoldOnce
  <1>1. ConservedInv => LastSeatSoldOnce
    <2> SUFFICES ASSUME ConservedInv, NEW s \in SlotIds
                 PROVE  Cardinality({c \in Holders(s) : app[c].state = "CONFIRMED"}) <= Capacity
      BY DEF LastSeatSoldOnce
    <2> DEFINE sold == {c \in Holders(s) : app[c].state = "CONFIRMED"}
    <2>1. IsFiniteSet(Holders(s)) /\ booked[s] \in Nat
      BY FS_Subset DEF Holders, ConservedInv, SeatInv, TypeOK
    <2>2. Cardinality(sold) <= Cardinality(Holders(s)) /\ Cardinality(sold) \in Nat
      BY <2>1, FS_Subset, FS_CardinalityType
    <2>3. Cardinality(Holders(s)) = booked[s] /\ booked[s] <= Capacity
      BY DEF ConservedInv, SeatsConserved, SeatInv, NeverOverCapacity
    <2> HIDE DEF sold
    <2>4. Cardinality(sold) <= Capacity
      BY <2>1, <2>2, <2>3
    <2> QED
      BY <2>4 DEF sold
  <1> QED
    BY <1>1, Conserved, PTL
-----------------------------------------------------------------------------
(* Without the assumption: what is left of it when an application is booked *)
(* again under another request's read.  The slot read may then be the wrong *)
(* one, but whoever was read with a seat has one as long as their state is  *)
(* the one read, so a commit never gives a count back for nobody.           *)

\* What a read of an application is worth whatever is rebooked under it.
ReadCovers(r, row) ==
    /\ row.state = r.seen /\ r.seenSlot # NoSlot => row.slotId # NoSlot
    /\ r.seen \in Unseated => r.seenSlot = NoSlot
    /\ row.state \in Onward(r.seen)
    /\ r.phase = "seated" => FreesSeat(r) \/ (TakesSeat(r) /\ r.held = r.slot /\ r.held # NoSlot)

ReadsCover == \A p \in Procs :
    req[p].phase \in {"seen", "seated"} => ReadCovers(req[p], app[req[p].cand])

\* The seats that are counted.
Counted == {seat \in SlotIds \X (1..Capacity) : seat[2] <= booked[seat[1]]}

Covered == IsFiniteSet(Counted) /\ Cardinality(SeatHolders) <= Cardinality(Counted)

CoverInv ==
    /\ SeatInv /\ MovesLegal
    /\ SeatOnlyWhenBooked /\ ConfirmedHaveSeats /\ ReadsCover /\ Covered

\* A seat added to a slot is one counted seat more.
LEMMA CountedUp ==
  ASSUME TypeOK, IsFiniteSet(Counted), NEW s \in SlotIds, booked[s] < Capacity,
         booked' = [booked EXCEPT ![s] = @ + 1]
  PROVE  IsFiniteSet(Counted') /\ Cardinality(Counted') = Cardinality(Counted) + 1
  <1> DEFINE seat == <<s, booked[s] + 1>>
  <1>1. booked \in [SlotIds -> Nat] /\ booked[s] \in Nat
    BY DEF TypeOK
  <1>2. booked[s] + 1 \in 1..Capacity
    BY <1>1
  <1>3. seat \in SlotIds \X (1..Capacity) /\ seat \notin Counted
    BY <1>1, <1>2 DEF Counted
  <1>4. \A t \in SlotIds : booked'[t] = IF t = s THEN booked[s] + 1 ELSE booked[t]
    BY <1>1
  <1>5. ASSUME NEW x \in SlotIds \X (1..Capacity)
        PROVE  x \in Counted' <=> x \in Counted \cup {seat}
    <2>p. x[1] \in SlotIds /\ x[2] \in 1..Capacity /\ x = <<x[1], x[2]>>
      OBVIOUS
    <2>1. PICK t \in SlotIds, n \in 1..Capacity : x = <<t, n>> /\ t = x[1] /\ n = x[2]
      BY <2>p, Zenon
    <2>2. x \in Counted' <=> n <= booked'[t]
      BY <2>1 DEF Counted
    <2>3. x \in Counted <=> n <= booked[t]
      BY <2>1 DEF Counted
    <2>4. x = seat <=> t = s /\ n = booked[s] + 1
      BY <2>1
    <2>5. booked[t] \in Nat
      BY <1>1
    <2> HIDE DEF seat
    <2> QED
      BY <1>1, <1>4, <2>2, <2>3, <2>4, <2>5
  <1>6. Counted' \subseteq SlotIds \X (1..Capacity) /\ Counted \cup {seat} \subseteq SlotIds \X (1..Capacity)
    BY <1>3 DEF Counted
  <1> HIDE DEF seat
  <1>7. Counted' = Counted \cup {seat}
    BY <1>5, <1>6, Zenon
  <1> QED
    BY <1>3, <1>7, FS_AddElement

\* A seat given back is one counted seat less.
LEMMA CountedDown ==
  ASSUME TypeOK, NeverOverCapacity, IsFiniteSet(Counted), NEW s \in SlotIds, booked[s] > 0,
         booked' = [booked EXCEPT ![s] = @ - 1]
  PROVE  IsFiniteSet(Counted') /\ Cardinality(Counted') = Cardinality(Counted) - 1
  <1> DEFINE seat == <<s, booked[s]>>
  <1>1. booked \in [SlotIds -> Nat] /\ booked[s] \in Nat /\ booked[s] <= Capacity
    BY DEF TypeOK, NeverOverCapacity
  <1>2. seat \in Counted
    BY <1>1 DEF Counted
  <1>3. seat \in SlotIds \X (1..Capacity)
    BY <1>2 DEF Counted
  <1>4. \A t \in SlotIds : booked'[t] = IF t = s THEN booked[s] - 1 ELSE booked[t]
    BY <1>1
  <1>5. ASSUME NEW x \in SlotIds \X (1..Capacity)
        PROVE  x \in Counted' <=> x \in Counted \ {seat}
    <2>p. x[1] \in SlotIds /\ x[2] \in 1..Capacity /\ x = <<x[1], x[2]>>
      OBVIOUS
    <2>1. PICK t \in SlotIds, n \in 1..Capacity : x = <<t, n>> /\ t = x[1] /\ n = x[2]
      BY <2>p, Zenon
    <2>2. x \in Counted' <=> n <= booked'[t]
      BY <2>1 DEF Counted
    <2>3. x \in Counted <=> n <= booked[t]
      BY <2>1 DEF Counted
    <2>4. x = seat <=> t = s /\ n = booked[s]
      BY <2>1
    <2>5. booked[t] \in Nat
      BY <1>1
    <2> HIDE DEF seat
    <2> QED
      BY <1>1, <1>4, <2>2, <2>3, <2>4, <2>5
  <1>6. Counted' \subseteq SlotIds \X (1..Capacity) /\ Counted \ {seat} \subseteq SlotIds \X (1..Capacity)
    BY <1>3 DEF Counted
  <1> HIDE DEF seat
  <1>7. Counted' = Counted \ {seat}
    BY <1>5, <1>6, Zenon
  <1> QED
    BY <1>2, <1>7, FS_RemoveElement

\* What a committing move does to the seats of the drive.
LEMMA MoveAndCover ==
  ASSUME CoverInv, NEW p \in Procs, CommitMove(p), NEW c \in Candidates, c = req[p].cand
  PROVE  LET r == req[p]
         IN  /\ app[c].state = r.seen /\ ReadCovers(r, app[c])
             /\ <<r.seen, r.to, Actor(r.op)>> \in Transitions
             /\ app' = [app EXCEPT ![c] = [state |-> r.to, slotId |-> SlotAfter(r)]]
             /\ \/ /\ TakesSeat(r) /\ r.held \in SlotIds /\ SlotAfter(r) = r.held
                   /\ booked[r.held] < Capacity
                   /\ booked' = [booked EXCEPT ![r.held] = @ + 1]
                \/ /\ FreesSeat(r) /\ SlotAfter(r) = NoSlot /\ app[c].slotId # NoSlot
                   /\ \/ booked' = booked
                      \/ /\ r.held \in SlotIds /\ booked[r.held] > 0
                         /\ booked' = [booked EXCEPT ![r.held] = @ - 1]
                \/ /\ ~TakesSeat(r) /\ booked' = booked
                   /\ SlotAfter(r) # NoSlot => SlotAfter(r) = r.seenSlot /\ app[c].slotId # NoSlot
  <1> DEFINE r == req[p]
  <1>1. r \in Request /\ r.phase \in {"seen", "seated"} /\ (r.phase # "seated" => r.held = NoSlot)
        /\ (r.phase = "seen" => ~TakesSeat(r) /\ ~FreesSeat(r))
    BY DEF CoverInv, SeatInv, TypeOK, LockedSeat, CommitMove, ReadyToCommit
  <1>2. app[c].state = r.seen /\ booked' = BookedAfter(r)
        /\ app' = [app EXCEPT ![c] = [state |-> r.to, slotId |-> SlotAfter(r)]]
    BY DEF CommitMove, Unmoved
  <1>3. ReadCovers(r, app[c])
    BY <1>1 DEF CoverInv, ReadsCover
  <1>5. <<r.seen, r.to, Actor(r.op)>> \in Transitions
    BY <1>1 DEF CoverInv, MovesLegal, OnItsWay, AssertLegal
  <1>6. r.held \in SlotIds \cup {NoSlot}
    BY <1>1 DEF Request
  <1>7. r.seen = "CONFIRMED" => app[c].slotId # NoSlot
    BY <1>2 DEF CoverInv, ConfirmedHaveSeats
  <1>a. r.held # NoSlot => IF TakesSeat(r) THEN booked[r.held] < Capacity ELSE booked[r.held] > 0
    BY DEF CoverInv, SeatInv, LockedSeat
  <1> HIDE DEF r
  <1>8. CASE r.phase = "seated" /\ TakesSeat(r)
    <2>1. r.held = r.slot /\ r.held # NoSlot
      BY <1>3, <1>8 DEF ReadCovers, FreesSeat, TakesSeat
    <2>2. SlotAfter(r) = r.held
      BY <1>8, <2>1 DEF SlotAfter, TakesSeat, WalkIn
    <2>3. booked' = [booked EXCEPT ![r.held] = @ + 1]
      BY <1>2, <1>8, <2>1 DEF BookedAfter
    <2> QED
      BY <1>2, <1>3, <1>5, <1>6, <1>8, <1>a, <2>1, <2>2, <2>3 DEF r
  <1>9. CASE r.phase = "seated" /\ ~TakesSeat(r)
    <2>1. FreesSeat(r) /\ SlotAfter(r) = NoSlot /\ app[c].slotId # NoSlot
      BY <1>3, <1>7, <1>9 DEF ReadCovers, FreesSeat, SlotAfter, TakesSeat
    <2>2. \/ booked' = booked
          \/ r.held # NoSlot /\ booked' = [booked EXCEPT ![r.held] = @ - 1]
      BY <1>2, <1>9 DEF BookedAfter
    <2> QED
      BY <1>2, <1>3, <1>5, <1>6, <1>9, <1>a, <2>1, <2>2 DEF r
  <1>10. CASE r.phase # "seated"
    <2>1. ~TakesSeat(r) /\ ~FreesSeat(r) /\ booked' = booked
      BY <1>1, <1>2, <1>10 DEF BookedAfter
    <2>2. SlotAfter(r) # NoSlot => SlotAfter(r) = r.seenSlot /\ app[c].slotId # NoSlot
      BY <1>2, <1>3, <2>1 DEF SlotAfter, TakesSeat, ReadCovers
    <2> QED
      BY <1>2, <1>3, <1>5, <2>1, <2>2 DEF r
  <1> QED
    BY <1>1, <1>8, <1>9, <1>10

\* A commit leaves everyone who holds a seat counted.
LEMMA CommitCovers ==
  ASSUME CoverInv, NEW p \in Procs, CommitMove(p)
  PROVE  SeatOnlyWhenBooked' /\ ConfirmedHaveSeats' /\ Covered'
  <1> DEFINE r == req[p]
  <1>1. PICK c \in Candidates : c = r.cand
    BY DEF CoverInv, SeatInv, LockedSeat, CommitMove, ReadyToCommit
  <1>2. r.to \in States /\ app \in [Candidates -> Application]
    BY DEF CoverInv, SeatInv, TypeOK, Request
  <1>3. /\ app[c].state = r.seen /\ ReadCovers(r, app[c])
        /\ <<r.seen, r.to, Actor(r.op)>> \in Transitions
        /\ app' = [app EXCEPT ![c] = [state |-> r.to, slotId |-> SlotAfter(r)]]
        /\ \/ /\ TakesSeat(r) /\ r.held \in SlotIds /\ SlotAfter(r) = r.held
              /\ booked[r.held] < Capacity
              /\ booked' = [booked EXCEPT ![r.held] = @ + 1]
           \/ /\ FreesSeat(r) /\ SlotAfter(r) = NoSlot /\ app[c].slotId # NoSlot
              /\ \/ booked' = booked
                 \/ /\ r.held \in SlotIds /\ booked[r.held] > 0
                    /\ booked' = [booked EXCEPT ![r.held] = @ - 1]
           \/ /\ ~TakesSeat(r) /\ booked' = booked
              /\ SlotAfter(r) # NoSlot => SlotAfter(r) = r.seenSlot /\ app[c].slotId # NoSlot
    BY <1>1, MoveAndCover
  <1>4. NoSlot \notin SlotIds
    BY DEF NoSlot
  <1>5. \A d \in Candidates : app'[d] = IF d = c THEN [state |-> r.to, slotId |-> SlotAfter(r)] ELSE app[d]
    BY <1>2, <1>3
  <1>6. app[c].slotId # NoSlot => app[c].state \in {"CONFIRMED", "NO_SHOW", "REJECTED"} \cup Arrived
    BY DEF CoverInv, SeatOnlyWhenBooked
  <1>7. TypeOK /\ NeverOverCapacity /\ IsFiniteSet(Counted) /\ Cardinality(SeatHolders) <= Cardinality(Counted)
    BY DEF CoverInv, SeatInv, Covered
  <1>8. IsFiniteSet(SeatHolders) /\ Cardinality(SeatHolders) \in Nat /\ Cardinality(Counted) \in Nat
    BY <1>7, FS_Subset, FS_CardinalityType DEF SeatHolders
  <1> HIDE DEF r
  <1>9. SlotAfter(r) # NoSlot => r.to \in {"CONFIRMED", "NO_SHOW", "REJECTED"} \cup Arrived
    <2>1. CASE TakesSeat(r)
      BY <2>1 DEF TakesSeat
    <2>2. CASE ~TakesSeat(r) /\ SlotAfter(r) # NoSlot
      <3>1. r.seen \in {"CONFIRMED", "NO_SHOW", "REJECTED"} \cup Arrived /\ r.to # "CONFIRMED"
        BY <1>3, <1>6, <2>2 DEF TakesSeat, FreesSeat
      <3>2. r.to # "WITHDRAWN"
        BY <2>2 DEF SlotAfter
      <3> QED
        BY <1>3, <3>1, <3>2 DEF Transitions, Arrived
    <2> QED
      BY <2>1, <2>2
  <1>10. SeatOnlyWhenBooked'
    BY <1>5, <1>9 DEF CoverInv, SeatOnlyWhenBooked
  <1>11. ConfirmedHaveSeats'
    <2>1. r.to = "CONFIRMED" => SlotAfter(r) # NoSlot
      BY <1>3, <1>4 DEF TakesSeat, FreesSeat
    <2> QED
      BY <1>5, <2>1 DEF CoverInv, ConfirmedHaveSeats
  <1>12. Covered'
    <2>1. CASE TakesSeat(r) /\ r.held \in SlotIds /\ SlotAfter(r) = r.held /\ booked[r.held] < Capacity
               /\ booked' = [booked EXCEPT ![r.held] = @ + 1]
      <3>1. SeatHolders' = SeatHolders \cup {c}
        BY <1>4, <1>5, <2>1 DEF SeatHolders
      <3>2. /\ Cardinality(SeatHolders \cup {c}) =
                 IF c \in SeatHolders THEN Cardinality(SeatHolders) ELSE Cardinality(SeatHolders) + 1
            /\ IsFiniteSet(SeatHolders \cup {c})
        BY <1>8, FS_AddElement, Zenon
      <3>3. IsFiniteSet(Counted') /\ Cardinality(Counted') = Cardinality(Counted) + 1
        BY <1>7, <2>1, CountedUp
      <3>4. Cardinality(SeatHolders') <= Cardinality(SeatHolders) + 1 /\ Cardinality(SeatHolders') \in Nat
        BY <1>8, <3>1, <3>2
      <3> QED
        BY <1>7, <1>8, <3>3, <3>4 DEF Covered
    <2>2. CASE SlotAfter(r) = NoSlot /\ app[c].slotId # NoSlot
               /\ \/ booked' = booked
                  \/ /\ r.held \in SlotIds /\ booked[r.held] > 0
                     /\ booked' = [booked EXCEPT ![r.held] = @ - 1]
      <3>1. SeatHolders' = SeatHolders \ {c} /\ c \in SeatHolders
        BY <1>5, <2>2 DEF SeatHolders
      <3>2. Cardinality(SeatHolders') = Cardinality(SeatHolders) - 1
        BY <1>8, <3>1, FS_RemoveElement
      <3>3. IsFiniteSet(Counted') /\ Cardinality(Counted') \in {Cardinality(Counted), Cardinality(Counted) - 1}
        <4>1. CASE booked' = booked
          <5>1. Counted' = Counted
            BY <4>1 DEF Counted
          <5> QED
            BY <1>7, <5>1
        <4> QED
          BY <1>7, <2>2, <4>1, CountedDown
      <3> QED
        BY <1>7, <1>8, <3>2, <3>3 DEF Covered
    <2>3. CASE booked' = booked /\ (SlotAfter(r) # NoSlot => app[c].slotId # NoSlot)
      <3>1. SeatHolders' \subseteq SeatHolders
        BY <1>5, <2>3 DEF SeatHolders
      <3>2. Cardinality(SeatHolders') <= Cardinality(SeatHolders) /\ Cardinality(SeatHolders') \in Nat
        BY <1>8, <3>1, FS_Subset, FS_CardinalityType
      <3>3. Counted' = Counted
        BY <2>3 DEF Counted
      <3> QED
        BY <1>7, <1>8, <3>2, <3>3 DEF Covered
    <2> QED
      BY <1>3, <2>1, <2>2, <2>3
  <1> QED
    BY <1>10, <1>11, <1>12

\* Other requests' reads survive a commit, though the slot may be another one.
LEMMA CommitKeepsCover ==
  ASSUME CoverInv, NEW p \in Procs, CommitMove(p), ConfirmedHaveSeats'
  PROVE  ReadsCover'
  <1> DEFINE r == req[p]
  <1>1. PICK c \in Candidates : c = r.cand
    BY DEF CoverInv, SeatInv, LockedSeat, CommitMove, ReadyToCommit
  <1>2. app \in [Candidates -> Application] /\ req \in [Procs -> Request]
        /\ req' = [req EXCEPT ![p] = Idle] /\ r.to \in States
    BY DEF CoverInv, SeatInv, TypeOK, CommitMove, Step, Request
  <1>3. /\ app[c].state = r.seen
        /\ <<r.seen, r.to, Actor(r.op)>> \in Transitions
        /\ app' = [app EXCEPT ![c] = [state |-> r.to, slotId |-> SlotAfter(r)]]
    BY <1>1, MoveAndCover
  <1>4. \A d \in Candidates : app'[d] = IF d = c THEN [state |-> r.to, slotId |-> SlotAfter(r)] ELSE app[d]
    BY <1>2, <1>3
  <1> HIDE DEF r
  <1> SUFFICES ASSUME NEW q \in Procs, req'[q].phase \in {"seen", "seated"}
               PROVE  ReadCovers(req'[q], app'[req'[q].cand])
    BY DEF ReadsCover, ReadCovers, TakesSeat, FreesSeat
  <1>7. q # p /\ req'[q] = req[q]
    BY <1>2 DEF Idle
  <1>8. PICK o \in Request : o = req[q]
    BY <1>2
  <1>9. o.cand \in Candidates /\ ReadCovers(o, app[o.cand]) /\ o.phase \in {"seen", "seated"}
    BY <1>7, <1>8 DEF CoverInv, SeatInv, LockedSeat, ReadsCover
  <1>10. CASE o.cand # c
    BY <1>4, <1>7, <1>8, <1>9, <1>10
  <1>11. CASE o.cand = c
    <2>2. app'[c].state = r.to /\ app'[c].slotId = SlotAfter(r)
      BY <1>4
    <2>3. r.to \in Onward(o.seen)
      BY <1>2, <1>3, <1>9, <1>11 DEF ReadCovers, Onward, Transitions, States
    <2>4. r.to = o.seen /\ o.seenSlot # NoSlot => SlotAfter(r) # NoSlot
      <3>1. SUFFICES ASSUME r.to = o.seen, o.seenSlot # NoSlot PROVE SlotAfter(r) # NoSlot
        OBVIOUS
      <3>2. \E t \in States, a \in {"candidate", "employer", "system"} : <<o.seen, t, a>> \in Transitions
        <4>1. AssertLegal(o.seen, o.to, o.op)
          BY <1>8, <1>9 DEF CoverInv, MovesLegal, OnItsWay
        <4>2. Actor(o.op) \in {"candidate", "employer", "system"} /\ o.to \in States
          BY DEF Actor, Request
        <4> QED
          BY <4>1, <4>2 DEF AssertLegal
      <3>3. o.seen \notin {"REJECTED", "HIRED"} /\ o.seen \notin Unseated
        BY <1>9, <3>1, <3>2 DEF Transitions, ReadCovers
      <3>4. o.seen = "CONFIRMED"
        BY <1>3, <1>9, <1>11, <3>1, <3>3 DEF ReadCovers, Onward, Transitions, Unseated
      <3> QED
        BY <2>2, <3>1, <3>4 DEF ConfirmedHaveSeats
    <2> QED
      BY <1>7, <1>8, <1>9, <1>11, <2>2, <2>3, <2>4 DEF ReadCovers
  <1> QED
    BY <1>10, <1>11

\* A step that writes no row and takes one request into a state whose read, if
\* it has one, is still worth its seat.
LEMMA StepCovers ==
  ASSUME CoverInv, SeatInv', MovesLegal',
         NEW p \in Procs, NEW r, Step(p, r), UNCHANGED <<app, booked>>,
         r.phase \in {"seen", "seated"} => ReadCovers(r, app[r.cand])
  PROVE  CoverInv'
  <1>1. \A q \in Procs : req'[q] = IF q = p THEN r ELSE req[q]
    BY DEF CoverInv, SeatInv, TypeOK, Step
  <1>2. ReadsCover'
    BY <1>1 DEF CoverInv, ReadsCover, ReadCovers, TakesSeat, FreesSeat
  <1>3. SeatOnlyWhenBooked' /\ ConfirmedHaveSeats' /\ Covered'
    BY DEF CoverInv, SeatOnlyWhenBooked, ConfirmedHaveSeats, Covered, Counted, SeatHolders
  <1> QED
    BY <1>2, <1>3 DEF CoverInv

\* A step that changes neither rows nor reads.
LEMMA StillCovers ==
  ASSUME CoverInv, SeatInv', MovesLegal', UNCHANGED <<app, booked, req>>
  PROVE  CoverInv'
  <1>1. ReadsCover'
    BY DEF CoverInv, ReadsCover, ReadCovers, TakesSeat, FreesSeat
  <1>2. SeatOnlyWhenBooked' /\ ConfirmedHaveSeats' /\ Covered'
    BY DEF CoverInv, SeatOnlyWhenBooked, ConfirmedHaveSeats, Covered, Counted, SeatHolders
  <1> QED
    BY <1>1, <1>2 DEF CoverInv

\* The steps of a move before its commit.
LEMMA ReadAndSeatCover ==
  ASSUME CoverInv, SeatInv', MovesLegal', NEW p \in Procs,
         ReadApplication(p) \/ TakeSeat(p) \/ ReleaseSeat(p)
  PROVE  CoverInv'
  <1>1. UNCHANGED <<app, booked>> /\ req[p].phase \in {"begun", "seen"}
    BY DEF ReadApplication, TakeSeat, ReleaseSeat, rowVars
  <1>2. req[p] \in Request /\ app \in [Candidates -> Application]
    BY DEF CoverInv, SeatInv, TypeOK
  <1>3. PICK c \in Candidates : c = req[p].cand
    BY <1>1 DEF CoverInv, SeatInv, LockedSeat
  <1>4. ASSUME NEW error, Throw(p, error) PROVE CoverInv'
    <2> DEFINE r == [Idle EXCEPT !.op = req[p].op, !.cand = req[p].cand, !.phase = "thrown", !.error = error]
    <2>1. r.phase = "thrown" /\ Step(p, r)
      BY <1>4 DEF Idle, Throw
    <2> HIDE DEF r
    <2> QED
      BY <1>1, <2>1, StepCovers
  <1>5. CASE ReadApplication(p)
    <2> DEFINE row == IF req[p].op = "scan" /\ ~req[p].exists THEN NoRow ELSE app[req[p].cand]
               r == [req[p] EXCEPT !.phase = "seen", !.seen = row.state, !.seenSlot = row.slotId]
    <2>1. Step(p, r) \/ Throw(p, "Illegal")
      BY <1>5 DEF ReadApplication
    <2>2. \/ row.state = "NONE" /\ row.slotId = NoSlot
          \/ row.state = app[c].state /\ row.slotId = app[c].slotId
      BY <1>3 DEF NoRow
    <2>3. app[c].state \in States
      BY <1>2 DEF Application
    <2>4. app[c].slotId # NoSlot => app[c].state \notin Unseated
      BY DEF CoverInv, SeatOnlyWhenBooked, Unseated, Arrived
    <2>5. r.phase = "seen" /\ r.seen = row.state /\ r.seenSlot = row.slotId /\ r.cand = c
      BY <1>2, <1>3 DEF Request
    <2> HIDE DEF r, row
    <2>6. ReadCovers(r, app[c])
      <3>1. app[c].state \in Onward(r.seen)
        BY <2>2, <2>3, <2>5 DEF Onward
      <3>2. r.seen \in Unseated => r.seenSlot = NoSlot
        BY <2>2, <2>4, <2>5
      <3>3. app[c].state = r.seen /\ r.seenSlot # NoSlot => app[c].slotId # NoSlot
        BY <2>2, <2>5
      <3> QED
        BY <2>5, <3>1, <3>2, <3>3 DEF ReadCovers
    <2> QED
      BY <1>1, <1>4, <2>1, <2>5, <2>6, StepCovers
  <1>6. CASE TakeSeat(p) \/ ReleaseSeat(p)
    <2> DEFINE uncounted == [req[p] EXCEPT !.phase = "seated"]
               counted(s) == [req[p] EXCEPT !.phase = "seated", !.held = s]
    <2>1. req[p].phase = "seen"
      BY <1>6 DEF TakeSeat, ReleaseSeat
    <2>2. ReadCovers(req[p], app[c])
      BY <1>3, <2>1 DEF CoverInv, ReadsCover
    <2>3. ASSUME NEW r, Step(p, r), r.phase = "seated", r.cand = c, r.to = req[p].to, r.slot = req[p].slot,
                 r.seen = req[p].seen, r.seenSlot = req[p].seenSlot,
                 FreesSeat(req[p]) \/ (TakesSeat(req[p]) /\ r.held = r.slot /\ r.held # NoSlot)
          PROVE  CoverInv'
      <3>1. ReadCovers(r, app[c])
        BY <2>2, <2>3 DEF ReadCovers, TakesSeat, FreesSeat
      <3> QED
        BY <1>1, <2>3, <3>1, StepCovers
    <2>4. \A s : /\ counted(s).held = s /\ counted(s).phase = "seated" /\ counted(s).cand = c
                 /\ counted(s).to = req[p].to /\ counted(s).slot = req[p].slot
                 /\ counted(s).seen = req[p].seen /\ counted(s).seenSlot = req[p].seenSlot
      BY <1>2, <1>3 DEF Request
    <2>5. /\ uncounted.phase = "seated" /\ uncounted.cand = c
          /\ uncounted.to = req[p].to /\ uncounted.slot = req[p].slot
          /\ uncounted.seen = req[p].seen /\ uncounted.seenSlot = req[p].seenSlot
      BY <1>2, <1>3 DEF Request
    <2>6. \/ Throw(p, "SlotFull")
          \/ FreesSeat(req[p]) /\ (Step(p, uncounted) \/ Step(p, counted(req[p].seenSlot)))
          \/ TakesSeat(req[p]) /\ req[p].slot \in schedule.slots /\ Step(p, counted(req[p].slot))
      BY <1>6 DEF TakeSeat, ReleaseSeat
    <2>7. schedule.slots \subseteq SlotIds /\ NoSlot \notin SlotIds
      BY DEF CoverInv, SeatInv, TypeOK, Schedule, NoSlot
    <2> HIDE DEF counted, uncounted
    <2>8. CASE FreesSeat(req[p]) /\ (Step(p, uncounted) \/ Step(p, counted(req[p].seenSlot)))
      BY <2>3, <2>4, <2>5, <2>8
    <2>9. CASE TakesSeat(req[p]) /\ req[p].slot \in schedule.slots /\ Step(p, counted(req[p].slot))
      <3>1. req[p].slot # NoSlot
        BY <2>7, <2>9
      <3> QED
        BY <2>3, <2>4, <2>9, <3>1
    <2> QED
      BY <1>4, <2>6, <2>8, <2>9
  <1> QED
    BY <1>5, <1>6

\* Every step leaves everyone who holds a seat counted.
LEMMA NextCovers ==
  ASSUME CoverInv, SeatInv', MovesLegal', [Next]_vars
  PROVE  CoverInv'
  <1>1. CASE UNCHANGED vars
    BY <1>1, StillCovers DEF vars
  <1>2. CASE Next
    <2>1. ASSUME NEW p \in Requests, Begin(p) PROVE CoverInv'
      <3>1. ASSUME NEW r, Start(p, r), [r EXCEPT !.phase = "begun"].phase = "begun"
            PROVE  CoverInv'
        BY <3>1, StepCovers DEF Start, Step, rowVars, Procs
      <3> QED
        BY <2>1, <3>1 DEF Begin, BeginBooking, BeginAtDesk, Apply, Release, Decide, Scan, MarkPresent, ConfirmFlagged, Idle
    <2>2. ASSUME NEW p \in Procs, Step(p, Idle), UNCHANGED <<app, booked>> PROVE CoverInv'
      BY <2>2, StepCovers DEF Idle
    <2>3. ASSUME NEW p \in Procs, NEW error, Throw(p, error), UNCHANGED <<app, booked>>
          PROVE  CoverInv'
      <3> DEFINE r == [Idle EXCEPT !.op = req[p].op, !.cand = req[p].cand, !.phase = "thrown", !.error = error]
      <3>1. r.phase = "thrown" /\ Step(p, r)
        BY <2>3 DEF Idle, Throw
      <3> HIDE DEF r
      <3> QED
        BY <2>3, <3>1, StepCovers
    <2>4. ASSUME NEW p \in Procs, Advance(p) PROVE CoverInv'
      <3>1. CASE CommitMove(p)
        BY <3>1, CommitCovers, CommitKeepsCover DEF CoverInv
      <3>2. CASE CommitConfirm(p)
        BY <2>2, <3>2 DEF CommitConfirm
      <3>3. CASE LoseRace(p)
        BY <2>3, <3>3 DEF LoseRace, rowVars
      <3> QED
        BY <2>4, <3>1, <3>2, <3>3, ReadAndSeatCover DEF Advance
    <2>5. ASSUME NEW p \in Requests, AnswerError(p) \/ Abandon(p) PROVE CoverInv'
      BY <2>2, <2>5 DEF AnswerError, Abandon, Procs, rowVars
    <2>6. CASE CatchInLoop \/ WorkerCrash
      BY <2>2, <2>6 DEF CatchInLoop, WorkerCrash, Procs, rowVars
    <2>7. ASSUME NEW c \in Candidates, MarkNoShow(c) PROVE CoverInv'
      <3> DEFINE r == [Idle EXCEPT !.phase = "begun", !.op = "noShow", !.cand = c, !.to = "NO_SHOW"]
      <3>1. r.phase = "begun" /\ Step(Worker, r) /\ UNCHANGED <<app, booked>>
        BY <2>7 DEF Idle, MarkNoShow, rowVars
      <3> HIDE DEF r
      <3> QED
        BY <3>1, StepCovers DEF Procs
    <2>8. CASE ExpireDrives \/ FindUnattended \/ FinishRun \/ Tick \/ \E to \in Statuses : MoveDrive(to)
      BY <2>8, StillCovers DEF ExpireDrives, FindUnattended, FinishRun, Tick, MoveDrive, rowVars
    <2> QED
      BY <1>2, <2>1, <2>4, <2>5, <2>6, <2>7, <2>8 DEF Next, RunJob
  <1> QED
    BY <1>1, <1>2

\* Nobody holds a seat, and none is counted.
LEMMA InitCovers == Init => CoverInv
  <1> SUFFICES ASSUME Init PROVE CoverInv
    OBVIOUS
  <1>1. SeatInv /\ MovesLegal
    BY InitSeatInv, InitMovesLegal
  <1>2. ReadsCover
    BY DEF Init, ReadsCover, Idle
  <1>3. SeatOnlyWhenBooked /\ ConfirmedHaveSeats
    BY DEF Init, SeatOnlyWhenBooked, ConfirmedHaveSeats, NoRow
  <1>4. Covered
    <2>1. SeatHolders = {}
      BY DEF Init, SeatHolders, NoRow
    <2>2. Counted = {}
      <3> SUFFICES ASSUME NEW s \in SlotIds, NEW n \in 1..Capacity PROVE ~(n <= booked[s])
        BY DEF Counted
      <3> QED
        BY DEF Init
    <2> QED
      BY <2>1, <2>2, FS_EmptySet DEF Covered
  <1> QED
    BY <1>1, <1>2, <1>3, <1>4 DEF CoverInv

\* The invariant of the seats holds whatever is rebooked under a read.
THEOREM SeatsStayCovered == Spec => []CoverInv
  <1>1. CoverInv => SeatInv /\ MovesLegal
    BY DEF CoverInv
  <1>2. CoverInv /\ [Next]_vars => CoverInv'
    BY <1>1, NextKeepsSeats, NextMovesLegal, NextCovers
  <1> QED
    BY <1>2, InitCovers, PTL DEF Spec

\* Only an application that booked a seat, and did not give it up, points at a
\* slot (transitionApplication's slotId).
THEOREM SeatsBelongToBookings == Spec => []SeatOnlyWhenBooked
  <1>1. CoverInv => SeatOnlyWhenBooked
    BY DEF CoverInv
  <1> QED
    BY <1>1, SeatsStayCovered, PTL

\* The drive is never overbooked: whatever booking overlaps whatever release,
\* all the slots together count at least everyone who holds a seat
\* (takeSeat, releaseSeat, transitionApplication).
THEOREM DriveIsNotOverbooked == Spec => []DriveNotOverbooked
  <1>1. CoverInv => DriveNotOverbooked
    BY DEF CoverInv, Covered, Counted, DriveNotOverbooked
  <1> QED
    BY <1>1, SeatsStayCovered, PTL
=============================================================================
