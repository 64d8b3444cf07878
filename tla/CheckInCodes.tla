---------------------------- MODULE CheckInCodes ----------------------------
(***************************************************************************)
(* The code on the screen at the gate: issued by the API, rotated by the   *)
(* screen, scanned off it and, from a phone without a signal, sent later.  *)
(*                                                                         *)
(* A code is Redis's key for a signed token and is told here by the time   *)
(* it was issued.  Three clocks decide what a scan is worth: the screen's, *)
(* which hides a code that has expired; the key's time to live; and the    *)
(* token's own expiry.  The screen asks for the next code every second     *)
(* once it is due, so answers can overtake each other.  Sending what was   *)
(* scanned is OfflineCheckIns'; what an accepted scan does, Applications'. *)
(***************************************************************************)
EXTENDS Integers

CONSTANTS
    TTL,        \* CHECKIN_TOKEN_TTL_SECONDS
    Rotate,     \* CHECKIN_TOKEN_ROTATE_SECONDS
    Retry,      \* RETRY_MS
    ScanGrace,  \* OFFLINE_GRACE_MS
    OpensAt, EndsAt,  \* the drive's doors and end
    CodeCalls,  \* the screen's requests under way at once
    MaxMoment   \* bound on the clock

ASSUME CodeAssumption ==
    /\ {TTL, Rotate, Retry, ScanGrace, OpensAt, EndsAt, MaxMoment} \subseteq Nat
    /\ Rotate < TTL

Never == -1

VARIABLES
    moment,
    isOpen,     \* the drive is LIVE
    screen,     \* the code shown last, and when the next is due
    codeCall,   \* the screen's requests
    scan,       \* one candidate's scan: the code, when it was scanned, sent and what came of it
    hampered    \* (history) a request of the screen's failed, or took long

codeVars == <<moment, isOpen, screen, codeCall, scan, hampered>>

NoRequest == [at |-> "none", since |-> 0, code |-> Never]
NoRequests == [c \in CodeCalls |-> NoRequest]
DarkScreen == [code |-> Never, nextAt |-> 0]
NotScanned == [code |-> Never, at |-> 0, sent |-> 0, verdict |-> "none"]

CodesInit ==
    /\ moment = 0 /\ isOpen = TRUE
    /\ screen = DarkScreen /\ codeCall = NoRequests
    /\ scan = NotScanned /\ hampered = FALSE

-----------------------------------------------------------------------------
(* The screen. *)

Lit == screen.code # Never /\ moment < screen.code + TTL
\* A first request that failed is repeated as well.
Due == moment >= screen.nextAt
Asking == \E c \in CodeCalls : codeCall[c].at # "none"

AskForCode(c) ==
    /\ scan = NotScanned
    /\ Due /\ codeCall[c].at = "none"
    /\ codeCall' = [codeCall EXCEPT ![c] = [at |-> "sent", since |-> moment, code |-> Never]]
    /\ UNCHANGED <<moment, isOpen, screen, scan, hampered>>

\* issueCode, for a drive that is live and has not ended.
IssueCode(c) ==
    /\ codeCall[c].at = "sent"
    /\ isOpen /\ moment < EndsAt
    /\ codeCall' = [codeCall EXCEPT ![c].at = "issued", ![c].code = moment]
    /\ UNCHANGED <<moment, isOpen, screen, scan, hampered>>

\* The answers are shown as they come, an older code over a newer one as well.
ShowCode(c) ==
    /\ codeCall[c].at = "issued"
    /\ screen' = [code |-> codeCall[c].code, nextAt |-> moment + Rotate]
    /\ codeCall' = [codeCall EXCEPT ![c] = NoRequest]
    /\ UNCHANGED <<moment, isOpen, scan, hampered>>

FailCodeCall(c) ==
    /\ codeCall[c].at # "none"
    /\ screen' = [screen EXCEPT !.nextAt = moment + Retry]
    /\ codeCall' = [codeCall EXCEPT ![c] = NoRequest]
    /\ hampered' = TRUE
    /\ UNCHANGED <<moment, isOpen, scan>>

\* A request counts as long once it takes half of what rotation leaves of a code.
TakesLong(c) == codeCall[c].at # "none" /\ 2 * (moment + 1 - codeCall[c].since) >= TTL - Rotate

\* The page's clock asks before time goes on.
MomentPasses ==
    /\ moment < MaxMoment
    /\ scan = NotScanned /\ Due => Asking
    /\ moment' = moment + 1
    /\ hampered' = (hampered \/ \E c \in CodeCalls : TakesLong(c))
    /\ UNCHANGED <<isOpen, screen, codeCall, scan>>

\* The nightly job closes a drive that is over; a suspension closes one sooner.
CloseDrive ==
    /\ isOpen /\ isOpen' = FALSE
    /\ UNCHANGED <<moment, screen, codeCall, scan, hampered>>

-----------------------------------------------------------------------------
(* The scan.  The screen matters to it no longer: what it does from then on *)
(* it does in the behaviours without the scan as well.                      *)

TakeScan ==
    /\ scan = NotScanned /\ Lit
    /\ scan' = [NotScanned EXCEPT !.code = screen.code, !.at = moment]
    /\ screen' = DarkScreen /\ codeCall' = NoRequests
    /\ UNCHANGED <<moment, isOpen, hampered>>

Expiry(code) == code + TTL

\* Mutant: the key lives as long as the token.
ResolvesUntilExpiry(code) == moment < Expiry(code)
\* Redis still has the key: the token's time and the grace.
Resolves(code) == moment < code + TTL + ScanGrace

\* checkIn, up to whose check-in it is.  A late scan stands at its code's expiry.
Verdict(code) ==
    LET lateBy == moment - Expiry(code)
        scannedAt == IF lateBy > 0 THEN Expiry(code) ELSE moment
    IN IF ~Resolves(code) THEN "wrongCode"
       ELSE IF lateBy > ScanGrace THEN "codeExpired"
       ELSE IF ~isOpen THEN "notOpen"
       ELSE IF scannedAt < OpensAt THEN "opensAt"
       ELSE IF scannedAt > EndsAt THEN "ended"
       ELSE IF lateBy > 0 THEN "late" ELSE "onTime"

JudgeScan ==
    /\ scan.code # Never /\ scan.verdict = "none"
    /\ scan' = [scan EXCEPT !.sent = moment, !.verdict = Verdict(scan.code)]
    /\ UNCHANGED <<moment, isOpen, screen, codeCall, hampered>>

CodesNext ==
    \/ \E c \in CodeCalls : AskForCode(c) \/ IssueCode(c) \/ ShowCode(c) \/ FailCodeCall(c)
    \/ MomentPasses \/ CloseDrive \/ TakeScan \/ JudgeScan

-----------------------------------------------------------------------------
(* Properties. *)

\* Every variable has its type.
CodesTypeOK ==
    /\ moment \in 0..MaxMoment /\ isOpen \in BOOLEAN /\ hampered \in BOOLEAN
    /\ screen.code \in {Never} \cup 0..EndsAt
    /\ codeCall \in [CodeCalls -> [at : {"none", "sent", "issued"}, since : 0..MaxMoment,
                                   code : {Never} \cup 0..EndsAt]]
    /\ scan.verdict \in {"none", "wrongCode", "codeExpired", "notOpen", "opensAt", "ended", "late", "onTime"}

\* Whoever scans what the screen shows while the doors are open is let in, on
\* time if the scan arrives before its code has expired and flagged if it
\* arrives within the grace after that.  What is refused is a scan of a code
\* that outlives the drive, or one that arrives when the drive is closed.
ScansHonoured ==
    (/\ scan.verdict \notin {"none", "notOpen"}
     /\ scan.at >= OpensAt /\ Expiry(scan.code) <= EndsAt
     /\ scan.sent < Expiry(scan.code) + ScanGrace)
    => scan.verdict = IF scan.sent <= Expiry(scan.code) THEN "onTime" ELSE "late"

\* While the drive runs the screen is never without a valid code once it has
\* had one, as long as its requests are answered in time: whatever order the
\* answers come in.
DarkOnlyWhenHampered == screen.code # Never /\ ~Lit => hampered

\* The screen, the key and the token keep their clocks apart as intended
\* (check-in-token.service.ts: "it lives for the token's lifetime plus the
\* grace; the token's own expiry decides whether the scan was on time").
CodesServe == ScansHonoured /\ DarkOnlyWhenHampered
=============================================================================
