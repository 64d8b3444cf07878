------------------------ MODULE ApplicationLifecycle ------------------------
(***************************************************************************)
(* What one candidate's application to one drive promises, whatever the    *)
(* requests behind it do: the moves of the transition table in             *)
(* packages/db/src/applications.ts, each taken as one atomic step, with    *)
(* the check-in row and the hiring-outcome row that come with a move.      *)
(* Module Applications, where every move is several database statements    *)
(* of a request racing with others, implements this specification.         *)
(***************************************************************************)
CONSTANT Candidates

VARIABLES
    state,     \* applications.state, "NONE" while there is no row
    arrival,   \* the check_ins row: "none", "flagged" (isValid false) or "valid"
    hired      \* the candidates with a hiring_outcomes row

lifecycleVars == <<state, arrival, hired>>

LifecycleInit ==
    /\ state = [c \in Candidates |-> "NONE"]
    /\ arrival = [c \in Candidates |-> "none"]
    /\ hired = {}

Move(c, sources, target) ==
    /\ state[c] \in sources
    /\ state' = [state EXCEPT ![c] = target]

\* Moves that touch neither the check-in nor the outcome.
Book(c) == Move(c, {"NONE", "WITHDRAWN"}, "CONFIRMED") /\ UNCHANGED <<arrival, hired>>
ScreenOut(c) == Move(c, {"NONE", "WITHDRAWN"}, "SCREENED_OUT") /\ UNCHANGED <<arrival, hired>>
Withdraw(c) == Move(c, {"CONFIRMED"}, "WITHDRAWN") /\ UNCHANGED <<arrival, hired>>
MarkAbsent(c) == Move(c, {"CONFIRMED"}, "NO_SHOW") /\ UNCHANGED <<arrival, hired>>
Interview(c) == Move(c, {"CHECKED_IN"}, "INTERVIEWED") /\ UNCHANGED <<arrival, hired>>
TurnDown(c) ==
    /\ Move(c, {"CONFIRMED", "CHECKED_IN", "INTERVIEWED"}, "REJECTED")
    /\ UNCHANGED <<arrival, hired>>

\* The candidate's own scan: never for someone screened out, absent or
\* turned down. It may be flagged.
ArriveByScan(c) ==
    /\ Move(c, {"NONE", "WITHDRAWN", "CONFIRMED"}, "CHECKED_IN")
    /\ arrival[c] = "none"
    /\ \E verdict \in {"flagged", "valid"} : arrival' = [arrival EXCEPT ![c] = verdict]
    /\ UNCHANGED hired

\* The desk's word, which is always valid and can make an exception.
ArriveByDesk(c) ==
    /\ Move(c, {"CONFIRMED", "NO_SHOW", "SCREENED_OUT"}, "CHECKED_IN")
    /\ arrival[c] = "none"
    /\ arrival' = [arrival EXCEPT ![c] = "valid"]
    /\ UNCHANGED hired

ConfirmArrival(c) ==
    /\ arrival[c] = "flagged"
    /\ arrival' = [arrival EXCEPT ![c] = "valid"]
    /\ UNCHANGED <<state, hired>>

Hire(c) ==
    /\ Move(c, {"INTERVIEWED"}, "HIRED")
    /\ hired' = hired \cup {c}
    /\ UNCHANGED arrival

LifecycleNext == \E c \in Candidates :
    \/ Book(c) \/ ScreenOut(c) \/ Withdraw(c) \/ MarkAbsent(c)
    \/ Interview(c) \/ TurnDown(c) \/ Hire(c)
    \/ ArriveByScan(c) \/ ArriveByDesk(c) \/ ConfirmArrival(c)

LifecycleSpec == LifecycleInit /\ [][LifecycleNext]_lifecycleVars
=============================================================================
