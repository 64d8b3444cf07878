------------------------------ MODULE MCDrives ------------------------------
(* What an employer does with a drive and what its candidates make of it: it  *)
(* is moved while it is booked, filled in, screened for, searched, scanned    *)
(* into and decided on.  part says which of these a behaviour is of; the      *)
(* others stand still in it.                                                  *)
EXTENDS Rescheduling, Screening, DriveForms, CheckInCodes, Applicants, DriveSearch, TLC

CONSTANTS c1, c2, r1, r2, g1
VARIABLE part

Parts == {"reschedule", "screening", "forms", "codes", "applicants", "search"}
Symmetry == Permutations(Candidates)

\* Two drives, which tie from the city's centre.
AwayFrom == [city |-> <<1, 1>>, home |-> <<2, 1>>]

Only(p) ==
    /\ part = p /\ UNCHANGED part
    /\ p # "reschedule" => UNCHANGED <<vars, moveVars>>
    /\ p # "screening"  => UNCHANGED screeningVars
    /\ p # "forms"      => UNCHANGED formVars
    /\ p # "codes"      => UNCHANGED codeVars
    /\ p # "applicants" => UNCHANGED applicantVars
    /\ p # "search"     => UNCHANGED searchVars

DrivesInit ==
    /\ part \in Parts
    /\ RescheduleInit /\ ScreeningInit /\ FormsInit /\ CodesInit /\ ApplicantsInit /\ SearchInit
    /\ part # "applicants" => \A c \in Applying : seat[c] = "WITHDRAWN"
    /\ part # "search" => filter.opened = 1

DrivesNext ==
    \/ Only("reschedule") /\ RescheduleNext
    \/ Only("screening") /\ ScreeningNext
    \/ Only("forms") /\ FormsNext
    \/ Only("codes") /\ CodesNext
    \/ Only("applicants") /\ ApplicantsNext
    \/ Only("search") /\ SearchNext

DrivesSpec == DrivesInit /\ [][DrivesNext]_<<part, vars, moveVars, screeningVars, formVars,
                                             codeVars, applicantVars, searchVars>>

\* Every variable has its type, in every state of the component it is of.
DrivesTypeOK ==
    /\ part = "reschedule" => RescheduleTypeOK
    /\ part = "screening"  => ScreeningTypeOK
    /\ part = "forms"      => FormsTypeOK
    /\ part = "codes"      => CodesTypeOK
    /\ part = "applicants" => ApplicantsTypeOK
    /\ part = "search"     => SearchTypeOK
=============================================================================
