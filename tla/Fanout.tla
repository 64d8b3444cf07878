------------------------------- MODULE Fanout -------------------------------
(***************************************************************************)
(* The discovery alert of one drive: the job that every 15 minutes looks   *)
(* for drives nobody was alerted about yet, the pages of candidates it     *)
(* queues alerts for, nearest first, and the worker that runs them         *)
(* meanwhile.  Candidates are numbered by distance.                        *)
(***************************************************************************)
EXTENDS Integers, FiniteSets

CONSTANTS
    MaxMatches,   \* how many candidates there are
    PageSize,     \* PAGE_SIZE
    NearestOnly,  \* UNVERIFIED_ALERT_LIMIT
    MaxScanDeaths, \* bound on fan-outs cut short
    MaxMoved      \* bound on candidates who come to match or stop

ASSUME FanoutAssumption == PageSize \in Nat \ {0} /\ {MaxMatches, NearestOnly, MaxScanDeaths, MaxMoved} \subseteq Nat

Near == 1..MaxMatches
NoFanOut == [at |-> "idle", after |-> 0, targeted |-> 0, limit |-> 0]

VARIABLES
    matching,    \* who the targeting rule matches now
    steady,      \* who has matched since the fan-out began
    verified,    \* whether the company is verified
    fanOut,      \* the run: where it is, its cursor, how many it has targeted and may
    alerts,      \* alerts queued, run or not
    noticed,     \* candidates with a drive_48h row in notifications
    cutShort, movedOn

fanoutVars == <<matching, steady, verified, fanOut, alerts, noticed, cutShort, movedOn>>

FanoutInit ==
    /\ matching \in SUBSET Near /\ steady = {}
    /\ verified \in BOOLEAN
    /\ fanOut = NoFanOut
    /\ alerts = {} /\ noticed = {} /\ cutShort = 0 /\ movedOn = 0

-----------------------------------------------------------------------------
\* Someone saves another place or role, joins, books, or gives a booking up.
MatchingChanges(c) ==
    /\ movedOn < MaxMoved /\ movedOn' = movedOn + 1
    /\ matching' = IF c \in matching THEN matching \ {c} ELSE matching \cup {c}
    /\ steady' = steady \ {c}
    /\ UNCHANGED <<verified, fanOut, alerts, noticed, cutShort>>

ReviewDecided ==
    /\ ~verified /\ verified' = TRUE
    /\ UNCHANGED <<matching, steady, fanOut, alerts, noticed, cutShort, movedOn>>

\* scanUpcomingDrives: a live drive within 48 hours that has no notification.
\* limitFor is asked once.
BeginFanOut ==
    /\ fanOut = NoFanOut /\ noticed = {}
    /\ fanOut' = [NoFanOut EXCEPT !.at = "paging", !.limit = IF verified THEN MaxMatches ELSE NearestOnly]
    /\ steady' = matching
    /\ UNCHANGED <<matching, verified, alerts, noticed, cutShort, movedOn>>

\* Mutant: pages are counted off by how many came before.
BeyondByOffset(c) == Cardinality({d \in matching : d < c}) >= fanOut.targeted

\* (distance, id) > (after.distance, after.id)
Beyond(c) == c > fanOut.after

NextPage ==
    LET size == IF PageSize <= fanOut.limit - fanOut.targeted THEN PageSize ELSE fanOut.limit - fanOut.targeted
        beyond == {c \in matching : Beyond(c)}
        page == {c \in beyond : Cardinality({d \in beyond : d <= c}) <= size}
    IN
    /\ fanOut.at = "paging"
    /\ alerts' = alerts \cup page
    /\ fanOut' = IF Cardinality(page) < size \/ fanOut.targeted + size >= fanOut.limit
                 THEN [fanOut EXCEPT !.at = "ended", !.targeted = @ + Cardinality(page)]
                 ELSE [fanOut EXCEPT !.after = CHOOSE c \in page : \A d \in page : d <= c,
                                     !.targeted = @ + Cardinality(page)]
    /\ UNCHANGED <<matching, steady, verified, noticed, cutShort, movedOn>>

EndFanOut ==
    /\ fanOut.at = "ended" /\ fanOut' = NoFanOut
    /\ UNCHANGED <<matching, steady, verified, alerts, noticed, cutShort, movedOn>>

\* Redis or Postgres fails a page, or the worker dies; the job runs again.
CutFanOutShort ==
    /\ fanOut.at = "paging" /\ cutShort < MaxScanDeaths
    /\ fanOut' = NoFanOut /\ cutShort' = cutShort + 1
    /\ UNCHANGED <<matching, steady, verified, alerts, noticed, movedOn>>

\* processAlert leaves a row, whatever became of the alert.
RunAlert(c) ==
    /\ c \in alerts \ noticed
    /\ noticed' = noticed \cup {c}
    /\ UNCHANGED <<matching, steady, verified, fanOut, alerts, cutShort, movedOn>>

FanoutNext ==
    \/ ReviewDecided \/ BeginFanOut \/ NextPage \/ EndFanOut \/ CutFanOutShort
    \/ \E c \in Near : MatchingChanges(c) \/ RunAlert(c)

FanoutSpec == FanoutInit /\ [][FanoutNext]_fanoutVars

-----------------------------------------------------------------------------
(* Properties. *)

\* Every variable has its type.
FanoutTypeOK ==
    /\ matching \subseteq Near /\ steady \subseteq Near /\ alerts \subseteq Near /\ noticed \subseteq alerts
    /\ verified \in BOOLEAN /\ cutShort \in 0..MaxScanDeaths /\ movedOn \in 0..MaxMoved
    /\ fanOut \in [at : {"idle", "paging", "ended"}, after : 0..MaxMatches, targeted : Nat, limit : Nat]

\* Whoever matched throughout a fan-out has been alerted once it is past them,
\* though others come and go and shift the pages: all of them at its end, but
\* for an unverified company's limit (fanOut, findCandidatesForDrive's cursor).
PagesSkipNobody ==
    /\ fanOut.at = "paging" => {c \in steady : c <= fanOut.after} \subseteq alerts
    /\ fanOut.at = "ended" => steady \subseteq alerts \/ fanOut.targeted >= fanOut.limit

\* Once a drive has been alerted about and no fan-out of it runs, everyone who
\* matched all along has their alert, for a verified company (TECHNICAL.md:
\* a fanout is paged, so it is never capped).
FanoutReachesEveryone ==
    fanOut = NoFanOut /\ noticed # {} /\ verified => steady \subseteq alerts
=============================================================================
