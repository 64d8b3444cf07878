---------------------------- MODULE Rescheduling ----------------------------
(***************************************************************************)
(* Moving a drive to another time while people book, release and check in. *)
(* Extends Applications by the one transaction that changes its schedule.  *)
(*                                                                         *)
(* The transaction locks the drive's row and reads its slots, then locks   *)
(* the slots' rows, then works out where slots and people go from what it  *)
(* read first.  The drive's row keeps out whatever updates the drive or    *)
(* inserts an application of it; a booking that moves an existing          *)
(* application touches only a slot's row.                                  *)
(***************************************************************************)
EXTENDS Applications

CONSTANTS
    MaxShift,   \* bound on how far a drive is moved, in slot lengths
    MaxMoves    \* bound on reschedules

ASSUME MoveAssumption == MaxShift \in Nat /\ MaxMoves \in Nat /\ IsFiniteSet(SlotIds)

VARIABLES
    moving,   \* the reschedule: its phase, and the counts it read with the slots
    moved     \* how many reschedules there have been, and the slots ever used

moveVars == <<moving, moved>>
NotMoving == [phase |-> "idle", counts |-> [s \in SlotIds |-> 0]]

RescheduleInit ==
    /\ Init
    /\ moving = NotMoving /\ moved = [times |-> 0, used |-> 1..InitialSlots]

-----------------------------------------------------------------------------
(* The slots in order, as create() and reschedule lay them out. *)

StartOf(slots, starts) == CHOOSE t \in {starts[s] : s \in slots} : \A s \in slots : t <= starts[s]
DriveStart == StartOf(schedule.slots, schedule.starts)
Place(s) == schedule.starts[s] - DriveStart + 1
SlotsTile(slots, starts, ends) ==
    {starts[s] : s \in slots} = StartOf(slots, starts)..(ends - 1) /\ Cardinality(slots) = ends - StartOf(slots, starts)

\* Doors open a slot's length before the start; from then on the start stays.
DriveBegun == status = "LIVE" /\ clock >= DriveStart - 1

Dropped(count) == {s \in schedule.slots : Place(s) > count}
Kept(count) == schedule.slots \ Dropped(count)

\* Mutant: whoever is in a slot that goes is left pointing at it.
StrandedNobody(count) == {}

\* Those booked into a slot that goes; others who point at it hold no seat in it.
Stranded(count) == {c \in Candidates : app[c].state = "CONFIRMED" /\ app[c].slotId \in Dropped(count)}

\* Room as the transaction read it, in slots that have not begun.
Room(s, shift) == IF schedule.starts[s] + shift > clock THEN Capacity - moving.counts[s] ELSE 0

SeatedIn(seat, s) == Cardinality({c \in DOMAIN seat : seat[c] = s})
\* Each goes to the latest slot kept that has room when their turn comes.
Reseats(seat, count, shift) ==
    /\ \A c \in DOMAIN seat : SeatedIn(seat, seat[c]) <= Room(seat[c], shift)
    /\ \A c \in DOMAIN seat, s \in Kept(count) :
        Place(s) > Place(seat[c]) => SeatedIn(seat, s) >= Room(s, shift)

-----------------------------------------------------------------------------
(* The transaction. *)

ReadDriveToMove ==
    /\ moving.phase = "idle" /\ moved.times < MaxMoves
    /\ status \in {"DRAFT", "PENDING", "LIVE"} /\ ~Ended
    /\ SlotsTile(schedule.slots, schedule.starts, schedule.ends)
    /\ moving' = [phase |-> "read", counts |-> booked]
    /\ UNCHANGED <<vars, moved>>

\* Waits for the bookings and releases under way in any of the slots.
LockSlots ==
    /\ moving.phase = "read"
    /\ \A p \in Procs : req[p].held \notin schedule.slots
    /\ moving' = [moving EXCEPT !.phase = "locked"]
    /\ UNCHANGED <<vars, moved>>

NewStarts(shift, added) == [s \in SlotIds |->
    IF s \in schedule.slots THEN schedule.starts[s] + shift
    ELSE IF s \in added THEN schedule.ends + shift + Cardinality({t \in added : t < s})
    ELSE schedule.starts[s]]

MoveSlots(shift, count) ==
    LET start == DriveStart + shift
        old == Cardinality(schedule.slots)
    IN
    /\ moving.phase = "locked"
    /\ shift # 0 \/ count # old
    /\ IF DriveBegun THEN shift = 0 ELSE start > clock
    /\ start + count > clock
    /\ \E seat \in [Stranded(count) -> Kept(count)], added \in SUBSET (SlotIds \ moved.used) :
        /\ Reseats(seat, count, shift)
        /\ Cardinality(added) = IF count > old THEN count - old ELSE 0
        /\ schedule' = [slots |-> Kept(count) \cup added, starts |-> NewStarts(shift, added), ends |-> start + count]
        /\ booked' = [s \in SlotIds |-> IF s \in Dropped(count) THEN 0 ELSE booked[s] + SeatedIn(seat, s)]
        /\ app' = [c \in Candidates |->
            IF c \in DOMAIN seat THEN [app[c] EXCEPT !.slotId = seat[c]]
            ELSE IF app[c].slotId \in Dropped(count) /\ c \notin Stranded(count) THEN [app[c] EXCEPT !.slotId = NoSlot]
            ELSE app[c]]
        /\ moved' = [times |-> moved.times + 1, used |-> moved.used \cup added]
    /\ moving' = NotMoving
    /\ UNCHANGED <<checkIn, outcomes, status, clock, jobVars, req>>

\* Somebody would be stranded, the time is refused, the transaction is the one
\* Postgres gives up when it and a booking wait for each other, or the API dies.
GiveUpMove ==
    /\ moving.phase # "idle"
    /\ moving' = NotMoving
    /\ UNCHANGED <<vars, moved>>

-----------------------------------------------------------------------------
(* What the others may do meanwhile. *)

\* The drive's row is locked: its status waits, and so does the foreign key of
\* a new application.  Later the slots' rows are, and with them takeSeat and
\* releaseSeat.  An application can't be written back into a slot that is gone.
WaitsForMove ==
    /\ moving.phase # "idle" =>
        status' = status /\ \A c \in Candidates : app[c].state = "NONE" => app'[c].state = "NONE"
    /\ moving.phase = "locked" => \A p \in Procs : req'[p].held \in {req[p].held, NoSlot}
    /\ \A c \in Candidates : app'[c].slotId \in schedule.slots \cup {NoSlot}

\* transitionApplication writes the slot it read, which the reschedule deleted
\* meanwhile: the foreign key fails the request.
LoseSlot(p) ==
    /\ ReadyToCommit(req[p]) /\ Unmoved(req[p])
    /\ SlotAfter(req[p]) \notin schedule.slots \cup {NoSlot}
    /\ Step(p, Idle)
    /\ UNCHANGED <<rowVars, driveVars, jobVars, moveVars>>

RescheduleNext ==
    \/ Next /\ WaitsForMove /\ UNCHANGED moveVars
    \/ \E p \in Procs : LoseSlot(p)
    \/ ReadDriveToMove \/ LockSlots \/ GiveUpMove
    \/ \E shift \in -MaxShift..MaxShift, count \in 1..Cardinality(SlotIds) : MoveSlots(shift, count)

RescheduleSpec == RescheduleInit /\ [][RescheduleNext]_<<vars, moveVars>>

-----------------------------------------------------------------------------
(* Properties. *)

\* Every variable has its type.
RescheduleTypeOK ==
    /\ TypeOK
    /\ moving \in [phase : {"idle", "read", "locked"}, counts : [SlotIds -> Nat]]
    /\ moved \in [times : 0..MaxMoves, used : SUBSET SlotIds]

\* Whoever is booked has a slot the drive still has, whatever booking, release or
\* arrival overlaps a reschedule: nobody is stranded silently (reschedule;
\* TECHNICAL.md, "Rescheduling a drive").
NobodyStranded == \A c \in Candidates :
    app[c].state = "CONFIRMED" => app[c].slotId \in schedule.slots

\* However often a drive is moved, its slots fill its window end to end, so the
\* next reschedule can tell where everybody goes (slotsTile).
SlotsAlwaysTile == SlotsTile(schedule.slots, schedule.starts, schedule.ends)

\* Both: everyone who was booked is still expected at some time (reschedule).
BookingsSurvive == NobodyStranded /\ SlotsAlwaysTile
=============================================================================
