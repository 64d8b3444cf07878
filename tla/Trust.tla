------------------------------- MODULE Trust -------------------------------
(***************************************************************************)
(* What the admins decide: whether a company is who it says, and what      *)
(* people report about one drive.  What a suspension does to drives is     *)
(* DriveLifecycle's.                                                       *)
(***************************************************************************)
EXTENDS Integers, FiniteSets

CONSTANTS
    TrustCalls,      \* requests at once, the company's, the reporters' and the admins'
    Accounts,        \* reporters with an account
    Anybody,         \* a reporter without one
    MaxSubmissions,  \* bound on submissions
    MaxReports,      \* bound on reports stored
    AnonymousCap     \* ANONYMOUS_REPORTS_PER_DRIVE_PER_DAY

ASSUME TrustAssumption ==
    /\ Anybody \notin Accounts
    /\ {MaxSubmissions, MaxReports, AnonymousCap} \subseteq Nat

Submissions == 1..MaxSubmissions
Reports == 1..MaxReports
Reporters == Accounts \cup {Anybody}
Standings == {"UNSUBMITTED", "PENDING", "VERIFIED", "REJECTED"}
Reviews == {"none", "AWAITING_REVIEW", "APPROVED", "REJECTED"}
Report == [by : Reporters, outcome : {"none", "open", "DISMISSED", "ACTIONED"}, known : BOOLEAN]
NoReport == [by |-> Anybody, outcome |-> "none", known |-> FALSE]

TrustCall == [at : {"idle", "submit", "file", "act"}, seen : Standings, by : Reporters,
              kind : {"none", "DISMISS", "WARN", "SUSPEND_DRIVE"}, open : SUBSET Reports]
NoTrustCall == [at |-> "idle", seen |-> "UNSUBMITTED", by |-> Anybody, kind |-> "none", open |-> {}]

VARIABLES
    standing,    \* companies.verificationStatus
    submission,  \* verification_submissions, in order
    report,      \* reports: by whom, how it was decided, and whether that action had read it
    overflow,    \* whether reports have been counted rather than stored
    driveSuspended,   \* whether the drive is suspended
    trustCall

verificationVars == <<standing, submission>>
reportVars == <<report, overflow, driveSuspended>>
trustVars == <<standing, submission, report, overflow, driveSuspended, trustCall>>

TrustInit ==
    /\ standing = "UNSUBMITTED" /\ submission = [n \in Submissions |-> "none"]
    /\ report = [n \in Reports |-> NoReport] /\ overflow = FALSE /\ driveSuspended = FALSE
    /\ trustCall = [r \in TrustCalls |-> NoTrustCall]

Begins(r, call) == trustCall[r] = NoTrustCall /\ trustCall' = [trustCall EXCEPT ![r] = call]
Finishes(r) == trustCall' = [trustCall EXCEPT ![r] = NoTrustCall]

-----------------------------------------------------------------------------
(* Verification. *)

\* submit(): the documents are there, the company is read, the provider asked.
ReadStanding(r) ==
    /\ Begins(r, [NoTrustCall EXCEPT !.at = "submit", !.seen = standing])
    /\ UNCHANGED <<verificationVars, reportVars>>

\* Mutant: the standing read before the provider answered decides.
MaySubmitAsRead(r) == trustCall[r].seen \in {"UNSUBMITTED", "REJECTED"}

MaySubmit(r) == standing \in {"UNSUBMITTED", "REJECTED"}

\* One guarded update of the company, and the submission with it.
SubmitDocuments(r) ==
    /\ trustCall[r].at = "submit"
    /\ IF MaySubmit(r)
       THEN /\ standing' = "PENDING"
            /\ \E n \in Submissions :
                /\ submission[n] = "none" /\ \A m \in 1..(n - 1) : submission[m] # "none"
                /\ submission' = [submission EXCEPT ![n] = "AWAITING_REVIEW"]
       ELSE UNCHANGED verificationVars
    /\ Finishes(r)
    /\ UNCHANGED reportVars

\* decide(): two admins may have the same submission open; the second is told.
DecideSubmission(n, approve) ==
    /\ submission[n] = "AWAITING_REVIEW"
    /\ submission' = [submission EXCEPT ![n] = IF approve THEN "APPROVED" ELSE "REJECTED"]
    /\ standing' = IF approve THEN "VERIFIED" ELSE "REJECTED"
    /\ UNCHANGED <<reportVars, trustCall>>

-----------------------------------------------------------------------------
(* Reports. *)

By(reporter) == {n \in Reports : report[n].outcome # "none" /\ report[n].by = reporter}

\* reportDrive(): one reporter's repeats within a day are dropped, and past a
\* cap so are reports without an account.
CheckReport(r, reporter) ==
    \/ /\ reporter # Anybody => By(reporter) = {}
       /\ reporter = Anybody => Cardinality(By(Anybody)) < AnonymousCap
       /\ Begins(r, [NoTrustCall EXCEPT !.at = "file", !.by = reporter])
       /\ UNCHANGED <<verificationVars, reportVars>>
    \/ /\ reporter = Anybody /\ Cardinality(By(Anybody)) >= AnonymousCap
       /\ overflow' = TRUE
       /\ UNCHANGED <<verificationVars, report, driveSuspended, trustCall>>

FileReport(r) ==
    /\ trustCall[r].at = "file"
    /\ \E n \in Reports :
        /\ report[n] = NoReport /\ \A m \in 1..(n - 1) : report[m] # NoReport
        /\ report' = [report EXCEPT ![n] = [by |-> trustCall[r].by, outcome |-> "open", known |-> FALSE]]
    /\ Finishes(r)
    /\ UNCHANGED <<verificationVars, overflow, driveSuspended>>

-----------------------------------------------------------------------------
(* Moderation. *)

OpenReports == {n \in Reports : report[n].outcome = "open"}

\* apply() reads the reports its action answers, then acts.
ReadOpenReports(r, kind) ==
    /\ Begins(r, [NoTrustCall EXCEPT !.at = "act", !.kind = kind, !.open = OpenReports])
    /\ UNCHANGED <<verificationVars, reportVars>>

\* Mutant: whatever is open when the action commits is answered.
AnsweredAll(r) == OpenReports

Answered(r) == trustCall[r].open

\* A drive that can't be suspended any more undoes the whole action.  The
\* update names the reports read, answered by somebody else meanwhile or not.
Act(r) ==
    LET call == trustCall[r] IN
    /\ call.at = "act"
    /\ IF call.kind = "SUSPEND_DRIVE" /\ driveSuspended
       THEN UNCHANGED reportVars
       ELSE /\ driveSuspended' = (driveSuspended \/ call.kind = "SUSPEND_DRIVE")
            /\ report' = [n \in Reports |-> IF n \in Answered(r)
                   THEN [report[n] EXCEPT !.outcome = IF call.kind = "DISMISS" THEN "DISMISSED" ELSE "ACTIONED",
                                          !.known = n \in call.open]
                   ELSE report[n]]
            /\ UNCHANGED overflow
    /\ Finishes(r)
    /\ UNCHANGED verificationVars

LiftSuspension ==
    /\ driveSuspended /\ driveSuspended' = FALSE
    /\ UNCHANGED <<verificationVars, report, overflow, trustCall>>

-----------------------------------------------------------------------------
TrustNext ==
    \/ \E r \in TrustCalls :
        \/ ReadStanding(r) \/ SubmitDocuments(r)
        \/ \E reporter \in Reporters : CheckReport(r, reporter)
        \/ FileReport(r)
        \/ \E kind \in {"DISMISS", "WARN", "SUSPEND_DRIVE"} : ReadOpenReports(r, kind)
        \/ Act(r)
    \/ \E n \in Submissions, approve \in BOOLEAN : DecideSubmission(n, approve)
    \/ LiftSuspension

TrustSpec == TrustInit /\ [][TrustNext]_trustVars

-----------------------------------------------------------------------------
(* Properties. *)

\* Every variable has its type.
TrustTypeOK ==
    /\ standing \in Standings /\ submission \in [Submissions -> Reviews]
    /\ report \in [Reports -> Report] /\ overflow \in BOOLEAN /\ driveSuspended \in BOOLEAN
    /\ trustCall \in [TrustCalls -> TrustCall]

Waiting == {n \in Submissions : submission[n] = "AWAITING_REVIEW"}

\* A company waits for a review exactly while one submission of its waits, and
\* is verified only on an approved one, whoever submits and decides at once
\* (submit, decide).
StandingMatchesReview ==
    /\ Cardinality(Waiting) <= 1
    /\ standing = "PENDING" <=> Waiting # {}
    /\ standing = "VERIFIED" => \E n \in Submissions : submission[n] = "APPROVED"

\* No report is closed by an action that did not know of it: one filed while an
\* admin acts stays open for the next (apply, which resolves what it read).
NoReportClosedUnread == \A n \in Reports : report[n].outcome \in {"DISMISSED", "ACTIONED"} => report[n].known

\* What the admins decided is what they read: a company stands as its reviews
\* say, and a report closes only by an action that knew of it.
ReviewsAnswerWhatWasRead == StandingMatchesReview /\ NoReportClosedUnread
=============================================================================
