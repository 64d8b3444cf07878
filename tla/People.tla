------------------------------- MODULE People -------------------------------
(***************************************************************************)
(* The people of one company: invitations, roles, leaving, and who answers *)
(* for its drives.                                                         *)
(*                                                                         *)
(* Every request looks up the caller's role before its transaction         *)
(* (BeginStaff).  Changing a role and removing someone lock the company row, so  *)
(* each of those transactions is one step (Commit); creating, reassigning  *)
(* and accepting take no such lock, and what they looked at may have       *)
(* changed by the time they write.                                         *)
(***************************************************************************)
EXTENDS Integers, FiniteSets

CONSTANTS
    Persons, CompanyDrives, Owners0,  \* Owners0: who owns the company at first
    PeopleRequests,
    NoOne,
    MaxAsked       \* bound on the requests made

ASSUME PeopleAssumption ==
    /\ Owners0 # {} /\ Owners0 \subseteq Persons /\ NoOne \notin Persons /\ NoOne \notin CompanyDrives
    /\ MaxAsked \in Nat

VARIABLES
    role,        \* users.companyRole ("none": not in the company)
    invited,     \* the open invitation to each person's number, if there is one
    seated,      \* who holds a booked interview that is still ahead
    driveState,  \* drives.status, as far as it matters here
    driveOwner,  \* drives.ownerId
    asked,       \* the requests in flight
    overtaken,   \* drives given their owner by a request that the membership changed under
    lifted,      \* drives lifted from a suspension since they got their owner
    bookedLate,  \* who booked while joining, or on a token from before they joined
    begun        \* how many requests there have been

ownerVars == <<driveState, driveOwner, overtaken, lifted>>
peopleVars == <<role, invited, seated, ownerVars, asked, bookedLate, begun>>

CompanyRoles == {"OWNER", "RECRUITER", "VIEWER"}
RunsDrives == {"OWNER", "RECRUITER"}
NoInvitation == [state |-> "none", role |-> "VIEWER", by |-> NoOne]
Invitation == [state : {"none", "open", "expired"}, role : CompanyRoles, by : Persons \cup {NoOne}]
PeopleOps == {"none", "invite", "revoke", "changeRole", "remove", "create", "reassign", "accept"}
Asked == [op : PeopleOps, by : Persons \cup {NoOne}, on : Persons \cup CompanyDrives \cup {NoOne},
          role : CompanyRoles, to : Persons \cup {NoOne}, stale : BOOLEAN]
NothingAsked == [op |-> "none", by |-> NoOne, on |-> NoOne, role |-> "VIEWER", to |-> NoOne, stale |-> FALSE]

PeopleInit ==
    /\ role = [u \in Persons |-> IF u \in Owners0 THEN "OWNER" ELSE "none"]
    /\ invited = [u \in Persons |-> NoInvitation]
    /\ seated = {}
    /\ driveState = [d \in CompanyDrives |-> "none"] /\ driveOwner = [d \in CompanyDrives |-> NoOne]
    /\ overtaken = {} /\ lifted = {} /\ bookedLate = {} /\ begun = 0
    /\ asked = [r \in PeopleRequests |-> NothingAsked]

CompanyCan(u, permission) ==
    role[u] \in CASE permission = "read" -> CompanyRoles
                  [] permission = "runDrives" -> RunsDrives
                  [] OTHER -> {"OWNER"}

-----------------------------------------------------------------------------
(* A request arrives: who may ask, and what is refused before any write. *)

Ask(r, request) ==
    /\ begun < MaxAsked /\ begun' = begun + 1
    /\ asked' = [asked EXCEPT ![r] = request]
AskFor(op, by, on, newRole, to) ==
    [op |-> op, by |-> by, on |-> on, role |-> newRole, to |-> to, stale |-> FALSE]

BeginStaff(r) ==
    /\ asked[r] = NothingAsked
    /\ \E u \in Persons, t \in Persons, x \in CompanyRoles, s \in Persons \cup {NoOne} :
        \/ CompanyCan(u, "managePeople") /\ role[t] = "none" /\ Ask(r, AskFor("invite", u, t, x, NoOne))
        \/ CompanyCan(u, "managePeople") /\ Ask(r, AskFor("revoke", u, t, "VIEWER", NoOne))
        \/ CompanyCan(u, "managePeople") /\ Ask(r, AskFor("changeRole", u, t, x, s))
        \/ CompanyCan(u, IF u = t THEN "read" ELSE "managePeople") /\ Ask(r, AskFor("remove", u, t, "VIEWER", s))
    /\ UNCHANGED <<role, invited, seated, ownerVars, bookedLate>>

BeginDrive(r) ==
    /\ asked[r] = NothingAsked
    /\ \E u \in Persons, d \in CompanyDrives, s \in Persons :
        \/ CompanyCan(u, "runDrives") /\ driveState[d] = "none" /\ Ask(r, AskFor("create", u, d, "VIEWER", NoOne))
        \/ CompanyCan(u, "managePeople") /\ driveState[d] # "none" /\ role[s] \in RunsDrives
               /\ Ask(r, AskFor("reassign", u, d, "VIEWER", s))
    /\ UNCHANGED <<role, invited, seated, ownerVars, bookedLate>>

\* Mutant: joining does not wait for booked interviews.
MayJoinBooked(u) == role[u] = "none"

MayJoin(u) == role[u] = "none" /\ u \notin seated

BeginAccept(r) ==
    /\ asked[r] = NothingAsked
    /\ \E u \in Persons : MayJoin(u) /\ Ask(r, AskFor("accept", u, u, "VIEWER", NoOne))
    /\ UNCHANGED <<role, invited, seated, ownerVars, bookedLate>>

-----------------------------------------------------------------------------
(* Its transaction. *)

\* The request ends; one that changed who is who makes stale what the others saw.
Done(r) == asked' = [asked EXCEPT ![r] = NothingAsked]
DoneChanging(r) ==
    asked' = [q \in PeopleRequests |->
        IF q = r \/ asked[q] = NothingAsked THEN NothingAsked ELSE [asked[q] EXCEPT !.stale = TRUE]]

Invite(r) ==
    LET a == asked[r] IN
    /\ a.op = "invite" /\ invited[a.on].state # "open"
    /\ invited' = [invited EXCEPT ![a.on] = [state |-> "open", role |-> a.role, by |-> a.by]]
    /\ Done(r)
    /\ UNCHANGED <<role, seated, ownerVars, bookedLate, begun>>

Revoke(r) ==
    /\ asked[r].op = "revoke" /\ invited[asked[r].on].state # "none"
    /\ invited' = [invited EXCEPT ![asked[r].on] = NoInvitation]
    /\ Done(r)
    /\ UNCHANGED <<role, seated, ownerVars, bookedLate, begun>>

\* Mutant: the caller, an owner themselves, is taken for another owner.
AnotherOwnerCalls(t, by) == \E u \in Persons : role[u] = "OWNER" /\ (u # t \/ u = by)

AnotherOwner(t, by) == \E u \in Persons : role[u] = "OWNER" /\ u # t

\* Mutant: nothing a person answers for is handed on.
OpenDrivesBut(u) == {}

\* Drives still to run; those that are suspended are not among them.
OpenDrives(u) == {d \in CompanyDrives : driveState[d] = "open" /\ driveOwner[d] = u}

Eligible(t) == {u \in Persons : role[u] \in RunsDrives /\ u # t}

\* The one asked for, else whoever asks, else (leaving) an owner who stays.
Successors(a) ==
    CASE a.to # NoOne -> {a.to} \cap Eligible(a.on)
      [] a.to = NoOne /\ a.by # a.on -> {a.by} \cap Eligible(a.on)
      [] OTHER -> {u \in Eligible(a.on) : role[u] = "OWNER"}

HandOver(a) ==
    \/ OpenDrives(a.on) = {} /\ UNCHANGED ownerVars
    \/ \E s \in Successors(a), open \in {OpenDrives(a.on)} :
        /\ open # {}
        /\ driveOwner' = [d \in CompanyDrives |-> IF d \in open THEN s ELSE driveOwner[d]]
        /\ overtaken' = overtaken \ open /\ lifted' = lifted \ open
        /\ UNCHANGED driveState

ChangeRole(r) ==
    LET a == asked[r] IN
    /\ a.op = "changeRole" /\ role[a.on] \notin {"none", a.role}
    /\ role[a.on] = "OWNER" => AnotherOwner(a.on, a.by)
    /\ IF a.role \in RunsDrives THEN UNCHANGED ownerVars ELSE HandOver(a)
    /\ role' = [role EXCEPT ![a.on] = a.role]
    /\ DoneChanging(r)
    /\ UNCHANGED <<invited, seated, bookedLate, begun>>

Remove(r) ==
    LET a == asked[r] IN
    /\ a.op = "remove" /\ role[a.on] # "none"
    /\ role[a.on] = "OWNER" => AnotherOwner(a.on, a.by)
    /\ HandOver(a)
    /\ invited' = [u \in Persons |-> IF invited[u].by = a.on THEN NoInvitation ELSE invited[u]]
    /\ role' = [role EXCEPT ![a.on] = "none"]
    /\ DoneChanging(r)
    /\ UNCHANGED <<seated, bookedLate, begun>>

\* A drive is created a draft, or given to someone, by a request that checked
\* them before.
GiveDrive(r) ==
    LET a == asked[r] IN
    /\ a.op \in {"create", "reassign"}
    /\ a.op = "create" => driveState[a.on] = "none"
    /\ driveState' = [driveState EXCEPT ![a.on] = IF a.op = "create" THEN "open" ELSE @]
    /\ driveOwner' = [driveOwner EXCEPT ![a.on] = IF a.op = "create" THEN a.by ELSE a.to]
    /\ overtaken' = IF a.stale THEN overtaken \cup {a.on} ELSE overtaken \ {a.on}
    /\ lifted' = lifted \ {a.on}
    /\ Done(r)
    /\ UNCHANGED <<role, invited, seated, bookedLate, begun>>

\* One conditional write takes the invitation and another the person, and a
\* request that finds either gone rolls both back.
Accept(r) ==
    LET u == asked[r].by IN
    /\ asked[r].op = "accept" /\ invited[u].state = "open" /\ role[u] = "none"
    /\ role' = [role EXCEPT ![u] = invited[u].role]
    /\ invited' = [invited EXCEPT ![u] = NoInvitation]
    /\ DoneChanging(r)
    /\ UNCHANGED <<seated, ownerVars, bookedLate, begun>>

\* A refusal, or an API that dies: nothing is written.
Refuse(r) ==
    /\ asked[r] # NothingAsked
    /\ Done(r)
    /\ UNCHANGED <<role, invited, seated, ownerVars, bookedLate, begun>>

-----------------------------------------------------------------------------
(* What else happens. *)

\* Seven days after it was sent.
InvitationExpires(u) ==
    /\ invited[u].state = "open"
    /\ invited' = [invited EXCEPT ![u].state = "expired"]
    /\ UNCHANGED <<role, seated, ownerVars, asked, bookedLate, begun>>

\* Applications asks for a profile and for a token that says CANDIDATE, and a
\* token says what was so when it was issued.
TakeSeatAsCandidate(u) ==
    /\ u \notin seated
    /\ seated' = seated \cup {u}
    /\ bookedLate' = IF role[u] # "none" \/ (\E r \in PeopleRequests : asked[r].op = "accept" /\ asked[r].by = u)
                     THEN bookedLate \cup {u} ELSE bookedLate \ {u}
    /\ UNCHANGED <<role, invited, ownerVars, asked, begun>>

GiveUpSeat(u) ==
    /\ u \in seated
    /\ seated' = seated \ {u}
    /\ UNCHANGED <<role, invited, ownerVars, asked, bookedLate, begun>>

\* An admin suspends and lifts, and drives end, are cancelled or run out.
DriveMoves(d) ==
    /\ \/ driveState[d] = "open" /\ driveState' = [driveState EXCEPT ![d] = "suspended"] /\ UNCHANGED lifted
       \/ driveState[d] = "suspended" /\ driveState' = [driveState EXCEPT ![d] = "open"] /\ lifted' = lifted \cup {d}
       \/ driveState[d] = "open" /\ driveState' = [driveState EXCEPT ![d] = "over"] /\ UNCHANGED lifted
    /\ UNCHANGED <<role, invited, seated, driveOwner, asked, overtaken, bookedLate, begun>>

-----------------------------------------------------------------------------
PeopleNext ==
    \/ \E r \in PeopleRequests :
        \/ BeginStaff(r) \/ BeginDrive(r) \/ BeginAccept(r)
        \/ Invite(r) \/ Revoke(r) \/ ChangeRole(r) \/ Remove(r) \/ GiveDrive(r) \/ Accept(r) \/ Refuse(r)
    \/ \E u \in Persons : InvitationExpires(u) \/ TakeSeatAsCandidate(u) \/ GiveUpSeat(u)
    \/ \E d \in CompanyDrives : DriveMoves(d)

PeopleSpec == PeopleInit /\ [][PeopleNext]_peopleVars

-----------------------------------------------------------------------------
(* Properties. *)

\* Every variable has its type.
PeopleTypeOK ==
    /\ role \in [Persons -> CompanyRoles \cup {"none"}] /\ invited \in [Persons -> Invitation]
    /\ seated \subseteq Persons /\ bookedLate \subseteq Persons
    /\ begun \in 0..MaxAsked
    /\ driveState \in [CompanyDrives -> {"none", "open", "suspended", "over"}]
    /\ driveOwner \in [CompanyDrives -> Persons \cup {NoOne}]
    /\ overtaken \subseteq CompanyDrives /\ lifted \subseteq CompanyDrives
    /\ asked \in [PeopleRequests -> Asked]

\* However leaving, removing and demoting overlap, the company keeps an owner
\* (requireAnotherOwner under lockCompany).
CompanyKeepsAnOwner == \E u \in Persons : role[u] = "OWNER"

\* A drive still to run belongs to someone in the company who can run it, unless
\* the membership changed while a request gave it its owner, or it was lifted
\* from a suspension (handOver).
AnsweredUnlessOvertaken ==
    \A d \in CompanyDrives : driveState[d] = "open" /\ d \notin overtaken \cup lifted => role[driveOwner[d]] \in RunsDrives

\* Nobody who joined holds a seat they could have been told about: it was booked
\* while they were joining or on a token from before (accept).
JoinersGaveUpTheirSeats == \A u \in Persons : role[u] # "none" /\ u \in seated => u \in bookedLate

\* Whoever crosses over leaves nothing behind: no open drive that nobody in the
\* company answers for, no seat held by someone who now hires.
NothingLeftBehind == AnsweredUnlessOvertaken /\ JoinersGaveUpTheirSeats
=============================================================================
