----------------------------- MODULE RateLimits -----------------------------
(***************************************************************************)
(* The sliding-window limits: one key's log in Redis, which lets a call    *)
(* through or not, and the wrong check-in codes, which are counted only    *)
(* when they fail.  A round trip to Redis takes no time next to a window.  *)
(***************************************************************************)
EXTENDS Integers, FiniteSets

CONSTANTS
    Limit, Window,   \* a rule's limit and its seconds
    ScanCalls,       \* scans being answered at once
    LastSecond,      \* bound on time
    MostInLog        \* bound on the calls let through in one second

ASSUME RateAssumption == {Limit, Window} \subseteq Nat \ {0} /\ {LastSecond, MostInLog} \subseteq Nat

Entries == (0..LastSecond) \X (1..MostInLog)

VARIABLES
    now,
    log,       \* a rule's sorted set: when each call was, and a member of its own
    passed,    \* (history) the calls let through
    failures,  \* the log of wrong codes
    wrong,     \* (history) the wrong codes
    scanCall,  \* what each scan is doing
    turnedAway \* (history) whether a scan was refused without Limit wrong codes in its window

rateVars == <<now, log, passed, failures, wrong, scanCall, turnedAway>>

RateInit ==
    /\ now = 0 /\ log = {} /\ passed = {} /\ failures = {} /\ wrong = {}
    /\ scanCall = [r \in ScanCalls |-> "idle"] /\ turnedAway = FALSE

Within(calls, first, last) == {e \in calls : e[1] \in first..last}
Entry(calls) == <<now, Cardinality(Within(calls, now, now)) + 1>>

-----------------------------------------------------------------------------
(* consume: the Lua script. *)

\* Mutant: INCR and EXPIRE, a window that starts with its first call.
TrimmedFixed(entries) ==
    IF \E e \in entries : e[1] <= now - Window /\ \A f \in entries : e[1] <= f[1] THEN {} ELSE entries

\* ZREMRANGEBYSCORE 0 (now - window), both ends included.
Trimmed(entries) == {e \in entries : e[1] > now - Window}

Full(entries) == Cardinality(Trimmed(entries)) >= Limit

\* A call that is let through is the handler's; a refused one is told to wait.
Consume ==
    /\ Entry(passed) \in Entries
    /\ IF Full(log) THEN log' = Trimmed(log) /\ UNCHANGED passed
       ELSE log' = Trimmed(log) \cup {Entry(passed)} /\ passed' = passed \cup {Entry(passed)}
    /\ UNCHANGED <<now, failures, wrong, scanCall, turnedAway>>

-----------------------------------------------------------------------------
(* checkIn(): isExhausted first, and consume only for a wrong code. *)

CountsFailure(right) == ~right

CheckFailures(r) ==
    /\ scanCall[r] = "idle"
    /\ failures' = Trimmed(failures)
    /\ scanCall' = [scanCall EXCEPT ![r] = IF Full(failures) THEN "idle" ELSE "checked"]
    /\ turnedAway' = (turnedAway \/ (Full(failures) /\ Cardinality(Within(wrong, now - Window + 1, now)) < Limit))
    /\ UNCHANGED <<now, log, passed, wrong>>

ResolveCode(r, right) ==
    /\ scanCall[r] = "checked" /\ Entry(wrong) \in Entries
    /\ failures' = IF ~CountsFailure(right) THEN failures
                   ELSE Trimmed(failures) \cup (IF Full(failures) THEN {} ELSE {Entry(wrong)})
    /\ wrong' = IF right THEN wrong ELSE wrong \cup {Entry(wrong)}
    /\ scanCall' = [scanCall EXCEPT ![r] = "idle"]
    /\ UNCHANGED <<now, log, passed, turnedAway>>

SecondPasses ==
    /\ now < LastSecond /\ now' = now + 1
    /\ UNCHANGED <<log, passed, failures, wrong, scanCall, turnedAway>>

RateNext ==
    \/ Consume \/ SecondPasses
    \/ \E r \in ScanCalls : CheckFailures(r) \/ \E right \in BOOLEAN : ResolveCode(r, right)

RateSpec == RateInit /\ [][RateNext]_rateVars

-----------------------------------------------------------------------------
(* Properties. *)

\* Every variable has its type.
RateTypeOK ==
    /\ now \in 0..LastSecond
    /\ log \subseteq Entries /\ passed \subseteq Entries /\ failures \subseteq Entries /\ wrong \subseteq Entries
    /\ scanCall \in [ScanCalls -> {"idle", "checked"}] /\ turnedAway \in BOOLEAN

\* No stretch of a window's length lets more calls through than the limit, also
\* across the boundary where a fixed window would let a burst double it
\* (SLIDING_WINDOW).
NoBurstDoubles == \A t \in 0..LastSecond : Cardinality(Within(passed, t, t + Window - 1)) <= Limit

\* Whoever scans is turned away only for wrong codes: successes never use up
\* the allowance, however many scans are answered at once (isExhausted).
OnlyFailuresCount == ~turnedAway

\* The limits let through no more than they say and turn away nobody else
\* (RateLimiterService).
LimitsHold == NoBurstDoubles /\ OnlyFailuresCount
=============================================================================
