--------------------------- MODULE DriveLifecycle ---------------------------
(***************************************************************************)
(* How the drives of one company change status: the employer submits and   *)
(* cancels them, admins approve and reject them, moderation suspends and   *)
(* lifts one drive or the whole company, and the nightly job expires them. *)
(*                                                                         *)
(* Submitting and cancelling check the status first and then write the new *)
(* one whatever it is by now (moveTo).  Everything else compares and sets. *)
(* A moderation is one transaction of three statements: it checks or locks *)
(* its target, finds the drives, and writes them if they still are as      *)
(* found.  The rows it writes stay locked until it commits, so writing and *)
(* committing is one step here; company.suspendedAt, locked first, is seen *)
(* by others only then.                                                    *)
(***************************************************************************)
EXTENDS DriveStatuses

CONSTANTS
    Drives,     \* the company's drives
    Requests,   \* API requests, of its people and of admins, in flight at once
    NoDrive     \* the target of an idle request or of one about the company

ASSUME NoDriveAssumption == NoDrive \notin Drives

VARIABLES
    status,     \* drives.status
    from,       \* drives.suspendedFrom, "none" for null
    cause,      \* drives.suspendedCause, "none" for null
    endedAs,    \* the status a drive had when its time ran out, "none" before
    suspended,  \* company.suspendedAt is set (committed)
    req         \* what each request is doing

vars == <<status, from, cause, endedAs, suspended, req>>

DriveStatus == Statuses \cup {"DRAFT"}
Suspendable == {"LIVE", "PENDING"}
CompanyKinds == {"suspendCompany", "liftCompany"}
Kinds == {"suspendDrive", "liftDrive"} \cup CompanyKinds
Ops == {"none", "submit", "cancel", "approve", "reject"} \cup Kinds

Request == [op : Ops, phase : {"idle", "checked", "found"}, drive : Drives \cup {NoDrive},
            found : [Drives -> Suspendable \cup {"none"}]]

NothingFound == [d \in Drives |-> "none"]
Idle == [op |-> "none", phase |-> "idle", drive |-> NoDrive, found |-> NothingFound]

Init ==
    /\ status = [d \in Drives |-> "DRAFT"]
    /\ from = [d \in Drives |-> "none"]
    /\ cause = [d \in Drives |-> "none"]
    /\ endedAs = [d \in Drives |-> "none"]
    /\ suspended = FALSE
    /\ req = [p \in Requests |-> Idle]

Ended(d) == endedAs[d] # "none"

Step(p, r) == req' = [req EXCEPT ![p] = r]
Check(p, op, d) ==
    /\ req[p].phase = "idle"
    /\ Step(p, [Idle EXCEPT !.op = op, !.phase = "checked", !.drive = d])
    /\ UNCHANGED <<status, from, cause, endedAs, suspended>>

-----------------------------------------------------------------------------
(* The employer's people, whom requireCompanyAccess stops while the company *)
(* is suspended, and the admins who answer them.                            *)

Submit(p, d) == ~suspended /\ status[d] = "DRAFT" /\ Check(p, "submit", d)
Cancel(p, d) == ~suspended /\ status[d] \in {"DRAFT", "PENDING", "LIVE"} /\ Check(p, "cancel", d)

\* moveTo: an update by id.
MoveTo(p) ==
    LET r == req[p]
    IN  /\ r.phase = "checked" /\ r.op \in {"submit", "cancel"}
        /\ status' = [status EXCEPT ![r.drive] = IF r.op = "submit" THEN "PENDING" ELSE "CANCELLED"]
        /\ Step(p, Idle)
        /\ UNCHANGED <<from, cause, endedAs, suspended>>

\* moderateDrive and the blockers of an approval; verification and balance
\* are the world's choice.
Approve(p, d) == status[d] = "PENDING" /\ ~suspended /\ ~Ended(d) /\ Check(p, "approve", d)
Reject(p, d) == status[d] = "PENDING" /\ Check(p, "reject", d)

\* Mutant: the decision is written whatever the status is by now.
ModerateBlindly(p) ==
    LET r == req[p]
    IN  /\ r.phase = "checked" /\ r.op \in {"approve", "reject"}
        /\ status' = [status EXCEPT ![r.drive] = IF r.op = "approve" THEN "LIVE" ELSE "DRAFT"]
        /\ Step(p, Idle)
        /\ UNCHANGED <<from, cause, endedAs, suspended>>

Moderate(p) ==
    LET r == req[p]
    IN  /\ r.phase = "checked" /\ r.op \in {"approve", "reject"}
        /\ status' = IF status[r.drive] = "PENDING"
                     THEN [status EXCEPT ![r.drive] = IF r.op = "approve" THEN "LIVE" ELSE "DRAFT"]
                     ELSE status
        /\ Step(p, Idle)
        /\ UNCHANGED <<from, cause, endedAs, suspended>>

-----------------------------------------------------------------------------
(* Moderation: the transaction of apply().                                  *)

CompanyLocked == \E p \in Requests : req[p].op \in CompanyKinds

SuspendDrive(p, d) == Check(p, "suspendDrive", d)
LiftDrive(p, d) == status[d] = "SUSPENDED" /\ cause[d] # "COMPANY" /\ Check(p, "liftDrive", d)
\* The guarded update of the company row, which is then locked.
SuspendCompany(p) == ~CompanyLocked /\ ~suspended /\ Check(p, "suspendCompany", NoDrive)
LiftCompany(p) == ~CompanyLocked /\ suspended /\ Check(p, "liftCompany", NoDrive)

Scope(r) == IF r.op \in CompanyKinds THEN Drives ELSE {r.drive}
Suspends(r) == r.op \in {"suspendDrive", "suspendCompany"}

\* What suspendDrives and liftDrives select: each drive with the status it is
\* to be suspended from or put back to.
Selected(r) ==
    [d \in Drives |->
        IF d \notin Scope(r) THEN "none"
        ELSE IF Suspends(r) THEN IF status[d] \in Suspendable THEN status[d] ELSE "none"
        ELSE IF status[d] = "SUSPENDED" /\ ~Ended(d) /\ (r.op = "liftCompany" => cause[d] = "COMPANY")
             THEN from[d] ELSE "none"]

\* A moderation of one drive that finds nothing to do is refused.
FindDrives(p) ==
    LET r == req[p]
    IN  /\ r.phase = "checked" /\ r.op \in Kinds
        /\ Step(p, IF r.op \notin CompanyKinds /\ Selected(r) = NothingFound THEN Idle
                   ELSE [r EXCEPT !.phase = "found", !.found = Selected(r)])
        /\ UNCHANGED <<status, from, cause, endedAs, suspended>>

\* Mutant: every suspended drive is lifted, found or not.
UnchangedOrNotFound(r) ==
    {d \in Drives : status[d] = IF Suspends(r) THEN r.found[d] ELSE "SUSPENDED"}

\* The drives that are still as they were found.
Unchanged(r) ==
    {d \in Drives : /\ r.found[d] # "none"
                    /\ status[d] = IF Suspends(r) THEN r.found[d] ELSE "SUSPENDED"}

\* Mutant: lifting forgets the status of every drive in its scope.
CommitModerationForgets(p) ==
    LET r == req[p]
        hit == Unchanged(r)
        by == IF r.op = "suspendCompany" THEN "COMPANY" ELSE "DRIVE"
    IN  /\ r.phase = "found"
        /\ status' = [d \in Drives |-> IF d \notin hit THEN status[d]
                                       ELSE IF Suspends(r) THEN "SUSPENDED" ELSE r.found[d]]
        /\ from' = [d \in Drives |-> IF ~Suspends(r) /\ d \in Scope(r) THEN "none"
                                     ELSE IF d \in hit THEN r.found[d] ELSE from[d]]
        /\ cause' = [d \in Drives |-> IF d \notin hit THEN cause[d]
                                      ELSE IF Suspends(r) THEN by ELSE "none"]
        /\ suspended' = IF r.op \in CompanyKinds THEN Suspends(r) ELSE suspended
        /\ Step(p, Idle)
        /\ UNCHANGED endedAs

CommitModeration(p) ==
    LET r == req[p]
        hit == Unchanged(r)
        by == IF r.op = "suspendCompany" THEN "COMPANY" ELSE "DRIVE"
    IN  /\ r.phase = "found"
        /\ status' = [d \in Drives |-> IF d \notin hit THEN status[d]
                                       ELSE IF Suspends(r) THEN "SUSPENDED" ELSE r.found[d]]
        /\ from' = [d \in Drives |-> IF d \notin hit THEN from[d]
                                     ELSE IF Suspends(r) THEN r.found[d] ELSE "none"]
        /\ cause' = [d \in Drives |-> IF d \notin hit THEN cause[d]
                                      ELSE IF Suspends(r) THEN by ELSE "none"]
        /\ suspended' = IF r.op \in CompanyKinds THEN Suspends(r) ELSE suspended
        /\ Step(p, Idle)
        /\ UNCHANGED endedAs

\* The request fails or the process dies before it commits.
Abandon(p) ==
    /\ req[p].phase # "idle"
    /\ Step(p, Idle)
    /\ UNCHANGED <<status, from, cause, endedAs, suspended>>

-----------------------------------------------------------------------------
(* Time and the nightly job.                                                *)

\* A request lasts seconds and a drive hours: a drive's end does not fall
\* between a request's check of it and its write.
InFlight(d) == \E p \in Requests : req[p].phase # "idle" /\ d \in Scope(req[p])

EndDrive(d) ==
    /\ ~Ended(d) /\ ~InFlight(d)
    /\ endedAs' = [endedAs EXCEPT ![d] = status[d]]
    /\ UNCHANGED <<status, from, cause, suspended, req>>

ExpireDrives ==
    /\ \E d \in Drives : status[d] = "LIVE" /\ Ended(d)
    /\ status' = [d \in Drives |-> IF status[d] = "LIVE" /\ Ended(d) THEN "EXPIRED" ELSE status[d]]
    /\ UNCHANGED <<from, cause, endedAs, suspended, req>>

-----------------------------------------------------------------------------
Begin(p) ==
    \/ \E d \in Drives : \/ Submit(p, d) \/ Cancel(p, d) \/ Approve(p, d) \/ Reject(p, d)
                         \/ SuspendDrive(p, d) \/ LiftDrive(p, d)
    \/ SuspendCompany(p) \/ LiftCompany(p)

Next ==
    \/ \E p \in Requests : Begin(p) \/ MoveTo(p) \/ Moderate(p) \/ FindDrives(p)
                           \/ CommitModeration(p) \/ Abandon(p)
    \/ \E d \in Drives : EndDrive(d)
    \/ ExpireDrives

Spec == Init /\ [][Next]_vars

-----------------------------------------------------------------------------
(* Properties. *)

\* Every variable has its type.
TypeOK ==
    /\ status \in [Drives -> DriveStatus]
    /\ from \in [Drives -> Suspendable \cup {"none"}]
    /\ cause \in [Drives -> {"none", "DRIVE", "COMPANY"}]
    /\ endedAs \in [Drives -> DriveStatus \cup {"none"}]
    /\ suspended \in BOOLEAN
    /\ req \in [Requests -> Request]

\* A suspended drive always remembers what to put it back to and who may lift
\* it, whatever stale writes went over its status before.
SuspensionRemembered == \A d \in Drives :
    status[d] = "SUSPENDED" => from[d] # "none" /\ cause[d] # "none"

\* Lifting a company restores the drives its suspension caused (TECHNICAL.md):
\* once it is lifted none is left suspended but those that ended meanwhile.
NoDriveLeftBehind == \A d \in Drives :
    status[d] = "SUSPENDED" /\ cause[d] = "COMPANY" /\ ~suspended => Ended(d)

\* Both: every suspension can be undone, and undoing a company's undoes it on
\* all its drives (moderation's apply).
SuspensionsCanBeLifted == SuspensionRemembered /\ NoDriveLeftBehind

Seen(s) == IF s = "DRAFT" THEN "PENDING" ELSE s

\* What module Applications assumes of the drive around the bookings: its
\* status moves only as StatusMoves or by expiring, and a drive that was open
\* or expired when it ended is neither live nor pending again.
MovesAsApplicationsAssume ==
    [][\A d \in Drives :
        LET move == <<Seen(status[d]), Seen(status'[d])>>
        IN  /\ move[1] = move[2] \/ move \in StatusMoves \/ move = <<"LIVE", "EXPIRED">>
            /\ Ended(d) /\ move[1] # move[2] /\ move[2] \in {"LIVE", "PENDING"} =>
                  endedAs[d] \in {"DRAFT", "PENDING"} /\ move[2] = "PENDING"]_vars
=============================================================================
