------------------------------- MODULE Alerts -------------------------------
(***************************************************************************)
(* Telling one candidate, on Telegram, what happens to a drive they booked *)
(* and what the company writes: the alerts queue, the jobs that run from   *)
(* it, and the notifications rows that keep any alert from going out twice.*)
(*                                                                         *)
(* An alert is a key: what it is about and, for a moved drive, which time. *)
(* The API queues it after it committed, and may die in between.  Several  *)
(* runs may be at the same key, because a job whose lock was lost is given *)
(* to another run while the first goes on.                                 *)
(***************************************************************************)
EXTENDS Integers, FiniteSets

CONSTANTS
    Abouts,         \* what there is to tell: "moved", "suspended", "message"
    AlertRuns,      \* runs at once (the worker's concurrency)
    NoRun,
    AlertAttempts,  \* ALERT_JOB_OPTIONS.attempts
    MaxVersion, MaxSuspensions,   \* bounds on what happens to the drive
    MaxAlertFaults  \* bound on calls lost, locks lost and runs that die

ASSUME AlertsAssumption ==
    /\ Abouts \subseteq {"moved", "suspended", "message"}
    /\ NoRun \notin AlertRuns /\ AlertAttempts \in Nat \ {0} /\ {MaxVersion, MaxSuspensions, MaxAlertFaults} \subseteq Nat

VARIABLES
    driveNow,    \* drives.status and scheduleVersion, and how often it was suspended
    booking,     \* the seat: held or not, and the version they booked at
    chat,        \* candidates.telegramChatId: linked or not
    written,     \* whether the company has written
    owed,        \* alerts committed to and not queued yet
    alertJob,    \* the BullMQ job of each alert
    alertRun,    \* what each run is doing
    claim,       \* the PENDING or SENT notifications row of each alert, if there is one
    attempted,   \* alerts with a notifications row of any kind
    delivered,   \* how many copies of each alert reached the candidate
    alertFaults

outside == <<driveNow, booking, chat, written>>
rows == <<claim, attempted, delivered>>
alertVars == <<driveNow, booking, chat, written, owed, alertJob, alertRun, claim, attempted, delivered, alertFaults>>

AlertKeys == {k \in [about : Abouts, version : 0..MaxVersion] : k.version > 0 <=> k.about = "moved"}
Message == [about |-> "message", version |-> 0]
MovedTo(v) == [about |-> "moved", version |-> v]
NoAlert == [about |-> "none", version |-> 0]
NoAlertJob == [state |-> "none", made |-> 0, stalls |-> 0, run |-> NoRun]
AlertJob == [state : {"none", "waiting", "active", "done", "failed"}, made : 0..AlertAttempts, stalls : 0..1, run : AlertRuns \cup {NoRun}]
AlertRun == [at : {"idle", "check", "load", "claim", "send", "sent", "refused", "limited", "unreachable", "unknown"},
             alert : AlertKeys \cup {NoAlert}]
IdleRun == [at |-> "idle", alert |-> NoAlert]

AlertsInit ==
    /\ driveNow = [status |-> "LIVE", version |-> 0, suspensions |-> 0]
    /\ booking = [held |-> TRUE, at |-> 0] /\ chat \in BOOLEAN
    /\ written = FALSE
    /\ owed = {} /\ alertJob = [k \in AlertKeys |-> NoAlertJob] /\ alertRun = [w \in AlertRuns |-> IdleRun]
    /\ claim = [k \in AlertKeys |-> "none"] /\ attempted = {} /\ delivered = [k \in AlertKeys |-> 0]
    /\ alertFaults = 0

-----------------------------------------------------------------------------
(* What there is to tell. *)

Owes(k) == owed' = IF booking.held /\ k \in AlertKeys THEN owed \cup {k} ELSE owed

DriveMoved ==
    /\ "moved" \in Abouts /\ driveNow.status = "LIVE" /\ driveNow.version < MaxVersion
    /\ driveNow' = [driveNow EXCEPT !.version = @ + 1]
    /\ Owes(MovedTo(driveNow'.version))
    /\ UNCHANGED <<booking, chat, written, alertJob, alertRun, rows, alertFaults>>

DriveSuspended ==
    /\ driveNow.status = "LIVE" /\ driveNow.suspensions < MaxSuspensions
    /\ driveNow' = [driveNow EXCEPT !.status = "SUSPENDED", !.suspensions = @ + 1]
    /\ Owes([about |-> "suspended", version |-> 0])
    /\ UNCHANGED <<booking, chat, written, alertJob, alertRun, rows, alertFaults>>

\* Lifted, cancelled or expired: those have alerts of their own, each like the
\* suspension's.
DriveGoesOn(to) ==
    /\ <<driveNow.status, to>> \in {<<"SUSPENDED", "LIVE">>, <<"LIVE", "OVER">>}
    /\ driveNow' = [driveNow EXCEPT !.status = to]
    /\ UNCHANGED <<booking, chat, written, owed, alertJob, alertRun, rows, alertFaults>>

CompanyWrites ==
    /\ Message \in AlertKeys /\ ~written /\ written' = TRUE
    /\ owed' = owed \cup {Message}
    /\ UNCHANGED <<driveNow, booking, chat, alertJob, alertRun, rows, alertFaults>>

\* The seat is given up, or taken again at the time the drive has now.
SeatChanges ==
    /\ booking' = IF booking.held THEN [booking EXCEPT !.held = FALSE] ELSE [held |-> TRUE, at |-> driveNow.version]
    /\ ~booking.held => driveNow.status = "LIVE"
    /\ UNCHANGED <<driveNow, chat, written, owed, alertJob, alertRun, rows, alertFaults>>

\* /start with a link token that GETDEL finds, or /stop.
ChatChanges ==
    /\ chat' = ~chat
    /\ UNCHANGED <<driveNow, booking, written, owed, alertJob, alertRun, rows, alertFaults>>

-----------------------------------------------------------------------------
(* The queue. *)

\* An id that is there already, completed and dead-lettered jobs included, is
\* dropped.
Queued(k) == IF alertJob[k].state = "none" THEN [alertJob EXCEPT ![k] = [NoAlertJob EXCEPT !.state = "waiting"]] ELSE alertJob

QueueAlert(k) ==
    /\ k \in owed
    /\ owed' = owed \ {k} /\ alertJob' = Queued(k)
    /\ UNCHANGED <<outside, alertRun, rows, alertFaults>>

Fault == alertFaults < MaxAlertFaults /\ alertFaults' = alertFaults + 1

\* The API dies, or Redis does not answer: the call is not made again.
LoseCallToQueue(k) ==
    /\ k \in owed /\ Fault
    /\ owed' = owed \ {k}
    /\ UNCHANGED <<outside, alertJob, alertRun, rows>>

\* Mutant: only messages somebody tried to send and could not are found.
UnsentAttempted == written /\ claim[Message] = "none" /\ Message \in attempted

\* A message without any delivery row was never tried, or not to the end.
Unsent == written /\ Message \notin attempted

SweepMessages ==
    /\ Unsent
    /\ alertJob' = Queued(Message)
    /\ UNCHANGED <<outside, owed, alertRun, rows, alertFaults>>

\* Completed jobs are kept for a week.
ForgetDone(k) ==
    /\ alertJob[k].state = "done"
    /\ alertJob' = [alertJob EXCEPT ![k] = NoAlertJob]
    /\ UNCHANGED <<outside, owed, alertRun, rows, alertFaults>>

TakeAlert(w, k) ==
    /\ alertRun[w] = IdleRun /\ alertJob[k].state = "waiting"
    /\ alertJob' = [alertJob EXCEPT ![k].state = "active", ![k].run = w]
    /\ alertRun' = [alertRun EXCEPT ![w] = [at |-> "check", alert |-> k]]
    /\ UNCHANGED <<outside, owed, rows, alertFaults>>

\* The lock of an active job runs out: it waits again, once, and the run that
\* had it, if it is alive, does not know.
LoseAlertLock(k, dead) ==
    /\ alertJob[k].state = "active" /\ Fault
    /\ alertJob' = [alertJob EXCEPT ![k].state = IF alertJob[k].stalls = 1 THEN "failed" ELSE "waiting",
                                    ![k].stalls = 1, ![k].run = NoRun]
    /\ alertRun' = IF dead THEN [alertRun EXCEPT ![alertJob[k].run] = IdleRun] ELSE alertRun
    /\ UNCHANGED <<outside, owed, rows>>

\* The run ends; only the run that holds the job moves it on.
Ends(w, to) ==
    LET k == alertRun[w].alert
        made == IF to = "retry" THEN alertJob[k].made + 1 ELSE alertJob[k].made
        next == CASE to = "retry" -> IF made >= AlertAttempts THEN "failed" ELSE "waiting"
                  [] to = "later" -> "waiting"
                  [] OTHER -> to
    IN
    /\ alertRun' = [alertRun EXCEPT ![w] = IdleRun]
    /\ alertJob' = IF alertJob[k].run # w THEN alertJob
                   ELSE [alertJob EXCEPT ![k] = [@ EXCEPT !.state = next, !.made = made, !.run = NoRun]]
RunGoes(w, step) == alertRun' = [alertRun EXCEPT ![w].at = step] /\ UNCHANGED alertJob

-----------------------------------------------------------------------------
(* processAlert. *)

CheckClaim(w) ==
    /\ alertRun[w].at = "check"
    /\ IF claim[alertRun[w].alert] # "none" THEN Ends(w, "done") ELSE RunGoes(w, "load")
    /\ UNCHANGED <<outside, owed, rows, alertFaults>>

\* The latest time they were told of, or booked at.
LastKnown == LET told == {v \in 1..MaxVersion : MovedTo(v) \in AlertKeys /\ claim[MovedTo(v)] = "SENT"}
             IN CHOOSE v \in told \cup {booking.at} : \A u \in told \cup {booking.at} : u <= v

\* What must hold for the alert to be true when it arrives.
StillTrue(k) ==
    CASE k.about = "moved" ->
            booking.held /\ driveNow.status = "LIVE" /\ k.version = driveNow.version /\ LastKnown < driveNow.version
      [] k.about = "suspended" -> booking.held /\ driveNow.status = "SUSPENDED"
      [] OTHER -> TRUE

\* Skipped when it is no longer true or no channel reaches them: on record,
\* without a claim.
LoadAlert(w) ==
    LET k == alertRun[w].alert
        goes == StillTrue(k) /\ chat
    IN
    /\ alertRun[w].at = "load"
    /\ IF goes THEN RunGoes(w, "claim") ELSE Ends(w, "done")
    /\ attempted' = IF goes THEN attempted ELSE attempted \cup {k}
    /\ UNCHANGED <<outside, owed, claim, delivered, alertFaults>>

\* Mutant: without the partial unique index every insert goes through.
ClaimFreeAnyway(k) == TRUE

ClaimFree(k) == claim[k] = "none"

ClaimAlert(w) ==
    LET k == alertRun[w].alert IN
    /\ alertRun[w].at = "claim"
    /\ IF ClaimFree(k)
       THEN RunGoes(w, "send") /\ claim' = [claim EXCEPT ![k] = "PENDING"] /\ attempted' = attempted \cup {k}
       ELSE Ends(w, "done") /\ UNCHANGED <<claim, attempted>>
    /\ UNCHANGED <<outside, owed, delivered, alertFaults>>

\* Telegram answers, refuses, asks to wait, has nobody there, or does not
\* answer, in which case the message may have gone out all the same.
SendAlert(w) ==
    LET k == alertRun[w].alert IN
    /\ alertRun[w].at = "send"
    /\ \E answer \in {"sent", "refused", "limited", "unreachable", "unknown"}, arrives \in BOOLEAN :
        /\ answer = "sent" => arrives
        /\ answer \in {"refused", "limited", "unreachable"} => ~arrives
        /\ RunGoes(w, answer)
        /\ delivered' = IF arrives THEN [delivered EXCEPT ![k] = @ + 1] ELSE delivered
    /\ UNCHANGED <<outside, owed, claim, attempted, alertFaults>>

\* Mutant: a timeout counts as an answer.
ClaimAfterSent(answer) == IF answer \in {"sent", "unknown"} THEN "SENT" ELSE "none"

\* Only a definite failure gives the claim up.
ClaimAfter(answer) ==
    CASE answer = "sent" -> "SENT"
      [] answer = "unknown" -> "PENDING"
      [] OTHER -> "none"

RecordAnswer(w) ==
    LET answer == alertRun[w].at
        k == alertRun[w].alert
    IN
    /\ answer \in {"sent", "refused", "limited", "unreachable", "unknown"}
    /\ claim' = [claim EXCEPT ![k] = ClaimAfter(answer)]
    /\ chat' = (chat /\ answer # "unreachable")
    /\ Ends(w, CASE answer = "sent" -> "done"
                 [] answer = "refused" -> "retry"
                 [] answer = "limited" -> "later"
                 [] OTHER -> "failed")
    /\ UNCHANGED <<driveNow, booking, written, owed, attempted, delivered, alertFaults>>

-----------------------------------------------------------------------------
AlertRunStep(w) == CheckClaim(w) \/ LoadAlert(w) \/ ClaimAlert(w) \/ SendAlert(w) \/ RecordAnswer(w)

AlertsNext ==
    \/ DriveMoved \/ DriveSuspended \/ CompanyWrites \/ SeatChanges \/ ChatChanges
    \/ \E to \in {"LIVE", "OVER"} : DriveGoesOn(to)
    \/ \E k \in AlertKeys :
        \/ QueueAlert(k) \/ LoseCallToQueue(k) \/ ForgetDone(k)
        \/ \E dead \in BOOLEAN : LoseAlertLock(k, dead)
        \/ \E w \in AlertRuns : TakeAlert(w, k)
    \/ SweepMessages
    \/ \E w \in AlertRuns : AlertRunStep(w)

AlertsSpec == AlertsInit /\ [][AlertsNext]_alertVars

-----------------------------------------------------------------------------
(* Properties. *)

\* Every variable has its type.
AlertsTypeOK ==
    /\ driveNow \in [status : {"LIVE", "SUSPENDED", "OVER"}, version : 0..MaxVersion, suspensions : 0..MaxSuspensions]
    /\ booking \in [held : BOOLEAN, at : 0..MaxVersion] /\ chat \in BOOLEAN /\ written \in BOOLEAN
    /\ owed \subseteq AlertKeys /\ alertJob \in [AlertKeys -> AlertJob] /\ alertRun \in [AlertRuns -> AlertRun]
    /\ claim \in [AlertKeys -> {"none", "PENDING", "SENT"}] /\ attempted \subseteq AlertKeys
    /\ delivered \in [AlertKeys -> Nat] /\ alertFaults \in 0..MaxAlertFaults

\* No candidate gets the same alert twice, whatever is retried, queued again or
\* run by two at once after a lost lock or an answer that never came
\* (processAlert's claim).
NoSecondCopy == \A k \in AlertKeys : delivered[k] <= 1

Excused == driveNow.version > booking.at /\ claim[MovedTo(driveNow.version)] # "SENT"

\* An absence is held against a candidate only if they booked at the time the
\* drive ended up at, or a notice of it reached them (absenceExcusedByReschedule).
HeldAgainstOnlyIfTold ==
    ~Excused => booking.at = driveNow.version \/ delivered[MovedTo(driveNow.version)] > 0

\* Every message's Telegram copy is tried, or found to have nowhere to go,
\* though the call that queues it may be lost (sweepMessages).
MessageIsTried == written ~> Message \in attempted
=============================================================================
