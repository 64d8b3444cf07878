------------------------------- MODULE Outcomes -------------------------------
(***************************************************************************)
(* What happened after one hire: when they were to join, whether they      *)
(* started, whether they stayed, and the candidate's own answer.           *)
(*                                                                         *)
(* Recording one fact reads the row, checks the fact against it, and later *)
(* writes that fact alone; by then somebody else may have written another. *)
(* Days are counted from the hire.                                         *)
(***************************************************************************)
EXTENDS Integers

CONSTANTS
    RetentionDays,   \* RETENTION_DAYS
    CorrectionDays,  \* OUTCOME_CORRECTION_DAYS
    AskingDays,      \* for how long after the joining date the candidate is asked
    LastDay,         \* bound on the days that pass
    Recorders        \* requests that record something

ASSUME OutcomesAssumption == {RetentionDays, CorrectionDays, AskingDays, LastDay} \subseteq Nat

VARIABLES
    today,
    outcome,    \* the hiring_outcomes row
    recording,  \* what each request has checked and is about to write
    crossed,    \* whether a fact was written over a row that changed since its check
    prompted    \* whether the candidate was asked, and for which joining date

outcomesVars == <<today, outcome, recording, crossed, prompted>>

Days == 0..LastDay
Unknown == -1   \* null
Answers3 == {"unknown", "yes", "no"}
Outcome == [joining : Days \cup {Unknown}, started : Answers3, startedOn : Days \cup {Unknown},
            retained : Answers3, candidate : Answers3]
NothingKnown == [joining |-> Unknown, started |-> "unknown", startedOn |-> Unknown, retained |-> "unknown", candidate |-> "unknown"]
Facts == {"joining", "started", "retained"}
Recording == [fact : Facts \cup {"none"}, answer : Answers3, day : Days \cup {Unknown}, stale : BOOLEAN]
NotRecording == [fact |-> "none", answer |-> "unknown", day |-> Unknown, stale |-> FALSE]

OutcomesInit ==
    /\ today = 0 /\ outcome = NothingKnown
    /\ recording = [r \in Recorders |-> NotRecording]
    /\ crossed = FALSE /\ prompted = Unknown

\* The last day for a correction.
EditableUntil(o) == (IF o.joining = Unknown THEN 0 ELSE o.joining) + CorrectionDays

\* The day someone who started is taken to have started on, unless it is given.
StartDay(o) == IF o.joining # Unknown THEN o.joining ELSE today

\* What record refuses: too late, too soon, or what cannot be.  A joining date,
\* and a day someone started on, are none before the hire.
MayRecord(o, fact, answer, day) ==
    /\ today <= EditableUntil(o)
    /\ fact = "started" => (answer = "unknown" \/ o.joining <= today) /\ day <= today
    /\ fact = "retained" /\ answer # "unknown" =>
           o.started = "yes" /\ o.startedOn # Unknown /\ o.startedOn + RetentionDays <= today

\* What the desk is asked for next, and the page offers.
Need(o) ==
    CASE o.started = "unknown" /\ o.joining = Unknown -> "joining"
      [] o.started = "unknown" /\ o.joining # Unknown /\ o.joining <= today -> "started"
      [] o.started = "yes" /\ o.retained = "unknown" /\ o.startedOn # Unknown
             /\ o.startedOn + RetentionDays <= today -> "retained"
      [] OTHER -> "none"

-----------------------------------------------------------------------------
BeginRecord(r) ==
    /\ recording[r] = NotRecording
    /\ \E fact \in Facts, answer \in Answers3, day \in Days \cup {Unknown} :
        /\ fact = "joining" => answer = "unknown"
        /\ fact = "started" => (day # Unknown <=> answer = "yes")
        /\ fact = "retained" => day = Unknown
        /\ MayRecord(outcome, fact, answer, day)
        /\ recording' = [recording EXCEPT ![r] = [fact |-> fact, answer |-> answer, day |-> day, stale |-> FALSE]]
    /\ UNCHANGED <<today, outcome, crossed, prompted>>

\* Mutant: taking back that they started leaves that they stayed.
RetainedAfterKept(answer, retained) == retained

\* Staying is only a question for someone who started.
RetainedAfter(answer, retained) == IF answer = "yes" THEN retained ELSE "unknown"

CommitRecord(r) ==
    LET w == recording[r] IN
    /\ w # NotRecording
    /\ outcome' = CASE w.fact = "joining" -> [outcome EXCEPT !.joining = w.day]
                    [] w.fact = "started" -> [outcome EXCEPT !.started = w.answer, !.startedOn = w.day,
                                                             !.retained = RetainedAfter(w.answer, outcome.retained)]
                    [] OTHER -> [outcome EXCEPT !.retained = w.answer]
    /\ crossed' = (crossed \/ w.stale)
    /\ recording' = [q \in Recorders |-> IF q = r \/ recording[q] = NotRecording THEN NotRecording
                                         ELSE [recording[q] EXCEPT !.stale = TRUE]]
    /\ UNCHANGED <<today, prompted>>

\* From the day after the joining date, for a week, until there is an answer.
AskWhetherStarted ==
    /\ outcome.candidate = "unknown" /\ outcome.joining # Unknown
    /\ outcome.joining < today /\ outcome.joining >= today - AskingDays
    /\ prompted' = outcome.joining
    /\ UNCHANGED <<today, outcome, recording, crossed>>

MayAnswer(o) == (o.joining # Unknown => o.joining <= today) /\ today <= EditableUntil(o)

CandidateAnswers(answer) ==
    /\ MayAnswer(outcome)
    /\ outcome' = [outcome EXCEPT !.candidate = answer]
    /\ UNCHANGED <<today, recording, crossed, prompted>>

NextDay ==
    /\ today < LastDay
    /\ today' = today + 1
    /\ UNCHANGED <<outcome, recording, crossed, prompted>>

OutcomesNext ==
    \/ \E r \in Recorders : BeginRecord(r) \/ CommitRecord(r)
    \/ \E answer \in {"yes", "no"} : CandidateAnswers(answer)
    \/ AskWhetherStarted \/ NextDay

OutcomesSpec == OutcomesInit /\ [][OutcomesNext]_outcomesVars

-----------------------------------------------------------------------------
(* Properties. *)

\* Every variable has its type, and whoever started did so on some day.
OutcomesTypeOK ==
    /\ today \in Days /\ outcome \in Outcome /\ recording \in [Recorders -> Recording]
    /\ crossed \in BOOLEAN /\ prompted \in Days \cup {Unknown}
    /\ outcome.started = "yes" <=> outcome.startedOn # Unknown

\* Nobody stayed who did not start, unless the two facts were recorded at the
\* same time (record checks one against the row it read).
StayedMeansStarted == ~crossed /\ outcome.retained # "unknown" => outcome.started = "yes"

\* What the desk is asked to record it can record that day, and a candidate who is
\* asked can answer, as long as the row is open and the date is still the one
\* they were asked about (outcomeNeed and record, askWhetherStarted and
\* candidateAnswer).
AskedCanBeAnswered ==
    /\ today <= EditableUntil(outcome) =>
        /\ Need(outcome) = "joining" => MayRecord(outcome, "joining", "unknown", today)
        /\ Need(outcome) = "started" => MayRecord(outcome, "started", "yes", StartDay(outcome))
        /\ Need(outcome) = "retained" => MayRecord(outcome, "retained", "yes", Unknown)
    /\ prompted # Unknown /\ prompted = outcome.joining /\ today <= EditableUntil(outcome) => MayAnswer(outcome)

\* Both: the facts of an outcome fit each other and what is asked next
\* (OutcomesService).
FactsFit == StayedMeansStarted /\ AskedCanBeAnswered
=============================================================================
