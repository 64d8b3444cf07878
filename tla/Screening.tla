------------------------------ MODULE Screening ------------------------------
(***************************************************************************)
(* A drive's screening questions: the editor they are written in, the page *)
(* a candidate answers them on, and the judgement when booking.            *)
(*                                                                         *)
(* The editor keeps a draft of everything typed, of other types of         *)
(* question too; the drive keeps only what belongs to a question's type.   *)
(* The wording of a question stands for nothing here.  An answer carries   *)
(* its JSON type.                                                          *)
(***************************************************************************)
EXTENDS Integers, Sequences, FiniteSets

CONSTANTS
    QuestionIds,   \* the random ids of new questions
    MaxQuestions,  \* MAX_KNOCKOUT_QUESTIONS
    MaxEdits       \* bound on changes typed into the editor

ASSUME ScreeningAssumption == MaxQuestions \in Nat \ {0} /\ MaxEdits \in Nat

Unset == -1
Bounds == {Unset, 0, 1}
Options == {"a", "b"}
NoAnswer == [type |-> "none", value |-> Unset]

VARIABLES
    drafts,     \* the editor's questions
    questions,  \* drives.knockoutQuestions
    isLive,     \* the drive has been approved
    saving,     \* the save under way: the questions it sends, or none
    savedOver,  \* (history) a save that read a drive in review wrote it after the approval
    applyPage,  \* what the candidate's page shows
    answers,    \* the page's answer to each question
    judging,    \* the booking under way: its verdict on the answers it sent
    seated      \* the application

screeningVars == <<drafts, questions, isLive, saving, savedOver, applyPage, answers, judging, seated>>
editorVars == <<drafts, questions, isLive, saving, savedOver>>
pageVars == <<applyPage, answers, judging, seated>>

-----------------------------------------------------------------------------
(* Drafts and questions. *)

NewDraft(id) == [id |-> id, type |-> "BOOLEAN", equals |-> 1, min |-> Unset, max |-> Unset,
                 options |-> {}, accepted |-> {}]

\* Mutant: a bound of zero is taken for none.
DraftLosingZero(q) ==
    [NewDraft(q.id) EXCEPT
        !.type = q.type,
        !.equals = IF q.type = "BOOLEAN" THEN q.pass.min ELSE @,
        !.min = IF q.type = "NUMERIC" /\ q.pass.min # 0 THEN q.pass.min ELSE @,
        !.max = IF q.type = "NUMERIC" /\ q.pass.max # 0 THEN q.pass.max ELSE @,
        !.options = q.options, !.accepted = q.pass.accepted]
\* A draft that was opened shows what its question has, and a new draft's fields beside it.
Draft(q) ==
    [NewDraft(q.id) EXCEPT
        !.type = q.type,
        !.equals = IF q.type = "BOOLEAN" THEN q.pass.min ELSE @,
        !.min = IF q.type = "NUMERIC" THEN q.pass.min ELSE @,
        !.max = IF q.type = "NUMERIC" THEN q.pass.max ELSE @,
        !.options = q.options, !.accepted = q.pass.accepted]
KnockoutDrafts(qs) == [i \in DOMAIN qs |-> Draft(qs[i])]

Question(d) ==
    [id |-> d.id, type |-> d.type, options |-> IF d.type = "SINGLE_CHOICE" THEN d.options ELSE {},
     pass |-> [min |-> IF d.type = "BOOLEAN" THEN d.equals ELSE IF d.type = "NUMERIC" THEN d.min ELSE Unset,
               max |-> IF d.type = "BOOLEAN" THEN d.equals ELSE IF d.type = "NUMERIC" THEN d.max ELSE Unset,
               accepted |-> IF d.type = "SINGLE_CHOICE" THEN d.accepted \cap d.options ELSE {}]]
KnockoutQuestions(ds) == [i \in DOMAIN ds |-> Question(ds[i])]

\* The schema every save goes through.
ValidQuestion(q) ==
    CASE q.type = "BOOLEAN" -> TRUE
      [] q.type = "NUMERIC" ->
            /\ q.pass.min # Unset \/ q.pass.max # Unset
            /\ q.pass.min = Unset \/ q.pass.max = Unset \/ q.pass.min <= q.pass.max
      [] OTHER -> Cardinality(q.options) >= 2 /\ q.pass.accepted # {} /\ q.pass.accepted \subseteq q.options
Ids(qs) == {qs[i].id : i \in DOMAIN qs}
ValidQuestions(qs) ==
    /\ Len(qs) <= MaxQuestions /\ Cardinality(Ids(qs)) = Len(qs)
    /\ \A i \in DOMAIN qs : ValidQuestion(qs[i])

\* What a candidate is shown of a question: never what passes.
Public(qs) == [i \in DOMAIN qs |-> [id |-> qs[i].id, type |-> qs[i].type, options |-> qs[i].options]]

\* The answers that can be given to a question as it is shown.
AnswersTo(p) ==
    {[type |-> p.type, value |-> v] : v \in
        IF p.type = "SINGLE_CHOICE" THEN {IF o = "a" THEN 0 ELSE 1 : o \in p.options} ELSE {0, 1}}

Malformed(q, a) == a.type # q.type \/ a \notin AnswersTo(q)
Accepts(q, a) ==
    CASE q.type = "SINGLE_CHOICE" -> (IF a.value = 0 THEN "a" ELSE "b") \in q.pass.accepted
      [] OTHER -> /\ q.pass.min = Unset \/ q.pass.min <= a.value
                  /\ q.pass.max = Unset \/ a.value <= q.pass.max

\* Judged in order: the first question not answered properly, or not met, decides.
EvaluateKnockouts(qs, given) ==
    LET fails == {i \in DOMAIN qs : Malformed(qs[i], given[qs[i].id]) \/ ~Accepts(qs[i], given[qs[i].id])}
        first == CHOOSE i \in fails : \A j \in fails : i <= j
    IN IF fails = {} THEN [result |-> "passed", question |-> 0]
       ELSE [result |-> IF Malformed(qs[first], given[qs[first].id]) THEN "invalid" ELSE "failed",
             question |-> qs[first].id]

NoVerdict == [result |-> "none", question |-> 0]
Nothing == [id \in QuestionIds |-> NoAnswer]
NotApplied == [state |-> "NONE", answers |-> Nothing, reason |-> 0]
NotSaving == [on |-> FALSE, questions |-> <<>>]
NoPage == [open |-> FALSE, questions |-> <<>>]

ScreeningInit ==
    /\ drafts = <<>> /\ questions = <<>> /\ isLive = FALSE
    /\ saving = NotSaving /\ savedOver = FALSE
    /\ applyPage = NoPage /\ answers = Nothing
    /\ judging = NoVerdict /\ seated = NotApplied

-----------------------------------------------------------------------------
(* The editor.  Edits are counted by the questions' ids that are still free *)
(* and, beyond those, by what differs from a new draft.                     *)

Edits == Cardinality({e \in (DOMAIN drafts) \X (DOMAIN NewDraft(0)) :
                        drafts[e[1]][e[2]] # NewDraft(drafts[e[1]].id)[e[2]]})

SetDrafts(ds) == drafts' = ds /\ UNCHANGED <<questions, isLive, saving, savedOver, pageVars>>

AddQuestion ==
    /\ ~isLive /\ Len(drafts) < MaxQuestions
    /\ \E id \in QuestionIds \ Ids(drafts) :
        /\ \A other \in QuestionIds \ Ids(drafts) : id <= other
        /\ SetDrafts(Append(drafts, NewDraft(id)))
RemoveQuestion(i) ==
    /\ ~isLive
    /\ SetDrafts([j \in 1..(Len(drafts) - 1) |-> drafts[IF j < i THEN j ELSE j + 1]])
EditQuestion(i) ==
    /\ ~isLive /\ Edits < MaxEdits
    /\ \E d \in {[drafts[i] EXCEPT !.type = t] : t \in {"BOOLEAN", "NUMERIC", "SINGLE_CHOICE"}}
            \cup (IF drafts[i].type = "BOOLEAN" THEN {[drafts[i] EXCEPT !.equals = 1 - @]} ELSE {})
            \cup (IF drafts[i].type = "NUMERIC"
                  THEN {[drafts[i] EXCEPT !.min = b] : b \in Bounds} \cup {[drafts[i] EXCEPT !.max = b] : b \in Bounds}
                  ELSE {})
            \cup (IF drafts[i].type = "SINGLE_CHOICE"
                  THEN {[drafts[i] EXCEPT !.options = os] : os \in SUBSET Options}
                       \cup {[drafts[i] EXCEPT !.accepted = as \cup (drafts[i].accepted \ drafts[i].options)] :
                                as \in SUBSET drafts[i].options}
                  ELSE {}) :
        SetDrafts([drafts EXCEPT ![i] = d])

\* drives.service update: the drive is read, to be one that is not open, and then
\* written by its id alone; the editor shows what was saved.
SendSave ==
    /\ ~saving.on /\ ~isLive
    /\ ValidQuestions(KnockoutQuestions(drafts))
    /\ saving' = [on |-> TRUE, questions |-> KnockoutQuestions(drafts)]
    /\ UNCHANGED <<drafts, questions, isLive, savedOver, pageVars>>
WriteSave ==
    /\ saving.on
    /\ questions' = saving.questions
    /\ drafts' = IF isLive THEN <<>> ELSE KnockoutDrafts(saving.questions)
    /\ saving' = NotSaving
    /\ savedOver' = (savedOver \/ isLive)
    /\ UNCHANGED <<isLive, pageVars>>

\* Approval looks at the drive's status only.  What is left in an editor cannot
\* be saved any more.
GoLive ==
    /\ ~isLive /\ isLive' = TRUE
    /\ drafts' = <<>>
    /\ UNCHANGED <<questions, saving, savedOver, pageVars>>

-----------------------------------------------------------------------------
(* The candidate's page and the booking. *)

OpenPage ==
    /\ isLive /\ judging = NoVerdict
    /\ applyPage' = [open |-> TRUE, questions |-> Public(questions)]
    /\ answers' = Nothing
    /\ UNCHANGED <<editorVars, judging, seated>>

\* A number can be taken out again.
AnswerQuestion(i) ==
    /\ judging = NoVerdict
    /\ LET q == applyPage.questions[i] IN
       \E a \in AnswersTo(q) \cup (IF q.type = "NUMERIC" THEN {NoAnswer} ELSE {}) :
           answers' = [answers EXCEPT ![q.id] = a]
    /\ UNCHANGED <<editorVars, applyPage, judging, seated>>

\* A press of Book: the drive is read and the answers judged, outside any
\* transaction.  A page opened earlier need not know of an application.
Book ==
    /\ applyPage.open /\ judging = NoVerdict
    /\ \A id \in Ids(applyPage.questions) : answers[id] # NoAnswer
    /\ judging' = EvaluateKnockouts(questions, answers)
    /\ UNCHANGED <<editorVars, applyPage, answers, seated>>

\* The transaction, which turns a second application down; the page then reads
\* the drive again and keeps its answers.
CommitBooking ==
    /\ judging # NoVerdict
    /\ seated' =
        IF judging.result = "invalid" \/ seated.state \in {"CONFIRMED", "SCREENED_OUT"} THEN seated
        ELSE [state |-> IF judging.result = "passed" THEN "CONFIRMED" ELSE "SCREENED_OUT",
              answers |-> answers, reason |-> judging.question]
    /\ judging' = NoVerdict
    /\ applyPage' = [applyPage EXCEPT !.questions = Public(questions)]
    /\ UNCHANGED <<editorVars, answers>>

ReleaseBooking ==
    /\ seated.state = "CONFIRMED"
    /\ seated' = [seated EXCEPT !.state = "WITHDRAWN"]
    /\ UNCHANGED <<editorVars, applyPage, answers, judging>>

ScreeningNext ==
    \/ AddQuestion \/ SendSave \/ WriteSave \/ GoLive
    \/ \E i \in DOMAIN drafts : RemoveQuestion(i) \/ EditQuestion(i)
    \/ OpenPage \/ Book \/ CommitBooking \/ ReleaseBooking
    \/ \E i \in DOMAIN applyPage.questions : AnswerQuestion(i)

-----------------------------------------------------------------------------
(* Properties. *)

QuestionType == [id : QuestionIds, type : {"BOOLEAN", "NUMERIC", "SINGLE_CHOICE"}, options : SUBSET Options,
              pass : [min : Bounds, max : Bounds, accepted : SUBSET Options]]

\* Every variable has its type, and a drive only questions that pass the schema.
ScreeningTypeOK ==
    /\ \A i \in DOMAIN questions : questions[i] \in QuestionType
    /\ ValidQuestions(questions)
    /\ Len(drafts) <= MaxQuestions
    /\ saving.on \in BOOLEAN /\ isLive \in BOOLEAN /\ savedOver \in BOOLEAN
    /\ judging.result \in {"none", "passed", "failed", "invalid"}
    /\ seated.state \in {"NONE", "CONFIRMED", "SCREENED_OUT", "WITHDRAWN"}

\* Opening a drive's editor and saving it unchanged keeps its questions.
FormKeepsQuestions == KnockoutQuestions(KnockoutDrafts(questions)) = questions

\* Whoever is seated answered every question the drive has, and properly, and
\* whoever was screened out failed the one they were told of.
AnswersStillFit ==
    /\ seated.state = "CONFIRMED" => EvaluateKnockouts(questions, seated.answers).result = "passed"
    /\ seated.state = "SCREENED_OUT" => \E i \in DOMAIN questions :
            questions[i].id = seated.reason /\ ~Accepts(questions[i], seated.answers[seated.reason])

\* The questions a page asks are those it is judged by: a page whose answers
\* are complete is never told one of them is malformed.
NeverInvalid == judging.result # "invalid"

\* What a candidate was asked, what they were judged by and what the employer
\* reads beside their name are the same questions (knockout.ts), however the
\* editor's drafts were typed, unless a save that began in review landed after
\* the approval.
VerdictsFit == FormKeepsQuestions /\ (savedOver \/ (AnswersStillFit /\ NeverInvalid))
=============================================================================
