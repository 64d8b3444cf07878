------------------------------ MODULE Applicants ------------------------------
(***************************************************************************)
(* Rejecting applicants in bulk: the list a recruiter ticks, the request   *)
(* that rejects one after the other, and who is told not to travel.        *)
(*                                                                         *)
(* The page lists everyone but the withdrawn, keeps ticks across loads and *)
(* sends every one of them.  The server reads the states, then moves each  *)
(* application in a transaction of its own; whether someone is told is     *)
(* decided by the state read first.  Candidates and other recruiters go on *)
(* meanwhile, and the API may die or fail to queue an alert.               *)
(***************************************************************************)
EXTENDS FiniteSets

CONSTANTS
    Applying,   \* the candidates with an application
    Desks,      \* recruiters' pages
    Outsider    \* nobody

ASSUME OutsiderAssumption == Outsider \notin Applying

VARIABLES
    seat,        \* each application's state
    desk,        \* each page: listed, ticked, and its request
    told,        \* who has been sent "don't travel to it"
    displaced,   \* (history) who was rejected out of a booked seat
    outrun       \* (history) who booked after a request read them, or whose alert died with the API

applicantVars == <<seat, desk, told, displaced, outrun>>

SeatStates == {"CONFIRMED", "CHECKED_IN", "WITHDRAWN", "REJECTED"}
RequestSteps == {"idle", "reading", "rejecting"}
IdleDesk == [list |-> {}, ticked |-> {}, at |-> "idle", todo |-> {}, readAs |-> {}, telling |-> Outsider]

ApplicantsInit ==
    /\ seat \in [Applying -> {"CONFIRMED", "WITHDRAWN"}]
    /\ desk = [d \in Desks |-> IdleDesk]
    /\ told = {} /\ displaced = {} /\ outrun = {}

-----------------------------------------------------------------------------
(* The candidates and the arrivals desk. *)

Move(c, from, to) ==
    /\ seat[c] = from
    /\ seat' = [seat EXCEPT ![c] = to]
    /\ UNCHANGED <<desk, told, displaced>>

BookAgain(c) ==
    /\ Move(c, "WITHDRAWN", "CONFIRMED")
    /\ outrun' = IF \E d \in Desks : desk[d].at = "rejecting" /\ c \in desk[d].todo THEN outrun \cup {c} ELSE outrun
Withdraw(c) == Move(c, "CONFIRMED", "WITHDRAWN") /\ UNCHANGED outrun
ComeIn(c)   == Move(c, "CONFIRMED", "CHECKED_IN") /\ UNCHANGED outrun
\* updateByEmployer, which the desk offers for those who have arrived.
RejectArrived(c) == Move(c, "CHECKED_IN", "REJECTED") /\ UNCHANGED outrun

-----------------------------------------------------------------------------
(* The page. *)

SetDesk(d, page) == desk' = [desk EXCEPT ![d] = page]

LoadList(d) ==
    /\ SetDesk(d, [desk[d] EXCEPT !.list = {c \in Applying : seat[c] # "WITHDRAWN"}])
    /\ UNCHANGED <<seat, told, displaced, outrun>>

\* Ticks set while a request runs are forgotten with its answer.
Toggle(d, c) ==
    /\ c \in desk[d].list /\ desk[d].at = "idle"
    /\ SetDesk(d, [desk[d] EXCEPT !.ticked = IF c \in @ THEN @ \ {c} ELSE @ \cup {c}])
    /\ UNCHANGED <<seat, told, displaced, outrun>>

\* What is counted in the question is what is listed; what is sent is what is ticked.
SendReject(d) ==
    /\ desk[d].at = "idle" /\ desk[d].ticked # {}
    /\ SetDesk(d, [desk[d] EXCEPT !.at = "reading", !.todo = desk[d].ticked])
    /\ UNCHANGED <<seat, told, displaced, outrun>>

-----------------------------------------------------------------------------
(* The request. *)

ReadApplicants(d) ==
    /\ desk[d].at = "reading"
    /\ SetDesk(d, [desk[d] EXCEPT !.at = "rejecting",
                                 !.readAs = {c \in desk[d].todo : seat[c] = "CONFIRMED"}])
    /\ UNCHANGED <<seat, told, displaced, outrun>>

\* Mutant: those listed as booked are told, wherever they have got to.
TellsListed(d, c) == c \in desk[d].list
\* Who was read as booked and not yet here is told.
Tells(d, c) == c \in desk[d].readAs

\* transitionApplication: an employer rejects who is booked or here; who is
\* neither is skipped.
RejectNext(d, c) ==
    /\ desk[d].at = "rejecting" /\ desk[d].telling = Outsider /\ c \in desk[d].todo
    /\ IF seat[c] \in {"CONFIRMED", "CHECKED_IN"}
       THEN /\ seat' = [seat EXCEPT ![c] = "REJECTED"]
            /\ SetDesk(d, [desk[d] EXCEPT !.todo = @ \ {c}, !.telling = IF Tells(d, c) THEN c ELSE Outsider])
            /\ displaced' = IF seat[c] = "CONFIRMED" THEN displaced \cup {c} ELSE displaced
       ELSE /\ SetDesk(d, [desk[d] EXCEPT !.todo = @ \ {c}])
            /\ UNCHANGED <<seat, displaced>>
    /\ UNCHANGED <<told, outrun>>

TellRejected(d) ==
    /\ desk[d].telling # Outsider
    /\ told' = told \cup {desk[d].telling}
    /\ SetDesk(d, [desk[d] EXCEPT !.telling = Outsider])
    /\ UNCHANGED <<seat, displaced, outrun>>

\* The page forgets its ticks and loads the list again.
AnswerReject(d) ==
    /\ desk[d].at = "rejecting" /\ desk[d].todo = {} /\ desk[d].telling = Outsider
    /\ SetDesk(d, [IdleDesk EXCEPT !.list = {c \in Applying : seat[c] # "WITHDRAWN"}])
    /\ UNCHANGED <<seat, told, displaced, outrun>>

\* The API dies, or an error of another kind ends the loop: the ticks stay.
RejectDies(d) ==
    /\ desk[d].at # "idle"
    /\ outrun' = outrun \cup ({desk[d].telling} \ {Outsider})
    /\ SetDesk(d, [desk[d] EXCEPT !.at = "idle", !.todo = {}, !.readAs = {}, !.telling = Outsider])
    /\ UNCHANGED <<seat, told, displaced>>

ApplicantsNext ==
    \/ \E c \in Applying : BookAgain(c) \/ Withdraw(c) \/ ComeIn(c) \/ RejectArrived(c)
    \/ \E d \in Desks :
        \/ LoadList(d) \/ SendReject(d) \/ ReadApplicants(d)
        \/ \E c \in Applying : Toggle(d, c) \/ RejectNext(d, c)
        \/ TellRejected(d) \/ AnswerReject(d) \/ RejectDies(d)

ApplicantsSpec == ApplicantsInit /\ [][ApplicantsNext]_applicantVars

-----------------------------------------------------------------------------
(* Properties. *)

\* Every variable has its type.
ApplicantsTypeOK ==
    /\ seat \in [Applying -> SeatStates]
    /\ desk \in [Desks -> [list : SUBSET Applying, ticked : SUBSET Applying, at : RequestSteps,
                           todo : SUBSET Applying, readAs : SUBSET Applying, telling : Applying \cup {Outsider}]]
    /\ told \subseteq Applying /\ displaced \subseteq Applying /\ outrun \subseteq Applying

\* Who is rejected out of a booked seat is told, so that they don't travel
\* (applicants.service.ts), whatever they and other recruiters did meanwhile;
\* but not who booked again after the request had read them, nor whose alert the
\* API lost by dying between the two.  And nobody is told who is not rejected.
RejectedWereTold ==
    /\ \A c \in displaced : c \in told \cup outrun \/ \E d \in Desks : desk[d].telling = c
    /\ \A c \in told : seat[c] = "REJECTED"
=============================================================================
