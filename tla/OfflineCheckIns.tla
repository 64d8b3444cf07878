--------------------------- MODULE OfflineCheckIns ---------------------------
(***************************************************************************)
(* Scans made without a signal: one phone, the tabs open on it, and the    *)
(* people who sign in on it, for phones get shared.                        *)
(*                                                                         *)
(* All tabs share the refresh cookie and what localStorage keeps: the      *)
(* queue of scans and who was last signed in.  Each tab has its access     *)
(* token in memory, the check-in page's step, and at most one flush, which *)
(* lists the queue once and then sends what it listed, one at a time.      *)
(* Code between two awaits is one step, its reads and writes of            *)
(* localStorage included.                                                  *)
(***************************************************************************)
EXTENDS Integers, FiniteSetsExt

CONSTANTS
    Phones,       \* the people who sign in on the phone
    Tabs,
    NoUser,
    MaxScans, MaxSignIns, MaxDrops  \* bounds: scans, sign-ins, losses of signal

ASSUME OfflineAssumption == NoUser \notin Phones /\ {MaxScans, MaxSignIns, MaxDrops} \subseteq Nat

VARIABLES
    online,
    cookie,       \* whose refresh cookie the browser holds
    token,        \* each tab's access token: whose, and whether still valid
    overtook,     \* tabs that somebody has signed in elsewhere since they got theirs
    lastSession,  \* walkins:last-session
    queue,        \* walkins:queued-checkins, which numbers scans in their order
    whose,        \* the userId each queued scan was given
    settled,      \* scans answered, dropped as somebody else's, or wiped
    sentFor,      \* as whom each queued scan has been sent
    page,         \* the check-in page of each tab: a scan awaited or being sent
    flush,        \* the flush of each tab
    counts        \* scans, sign-ins and losses of signal so far

signInVars == <<cookie, token, overtook>>
deviceVars == <<lastSession, queue, whose, settled>>
offlineVars == <<online, signInVars, deviceVars, sentFor, page, flush, counts>>

Scans == 1..MaxScans
Users == Phones \cup {NoUser}
Token == [of : Users, valid : BOOLEAN]
NoToken == [of |-> NoUser, valid |-> FALSE]
Flush == [at : {"none", "next", "answered"}, user : Users, todo : SUBSET Scans]
NoFlush == [at |-> "none", user |-> NoUser, todo |-> {}]

OfflineInit ==
    /\ online = TRUE /\ cookie = NoUser
    /\ token = [t \in Tabs |-> NoToken] /\ overtook = {}
    /\ lastSession = NoUser /\ queue = {} /\ whose = [s \in Scans |-> NoUser] /\ settled = {}
    /\ sentFor = [s \in Scans |-> {}]
    /\ page = [t \in Tabs |-> "away"] /\ flush = [t \in Tabs |-> NoFlush]
    /\ counts = [scans |-> 0, signIns |-> 0, drops |-> 0]

\* What a refresh brings: a token of whoever the cookie belongs to by now.
Refreshed == IF cookie = NoUser THEN NoToken ELSE [of |-> cookie, valid |-> TRUE]

\* restoreSession: a token in memory is taken as it is, whatever its age.
Restored(t) == IF token[t] = NoToken /\ online THEN Refreshed ELSE token[t]

\* A tab with a new token has caught up, unless it is in the middle of a flush.
TakesToken(t, new, busy) ==
    /\ token' = [token EXCEPT ![t] = new]
    /\ overtook' = IF new = token[t] \/ busy THEN overtook ELSE overtook \ {t}

-----------------------------------------------------------------------------
(* Sessions. *)

\* The first page after signing in notes on the phone who it is.  From the list to
\* the next scan's request a tab does nothing else, so its own sign-ins and
\* log-outs come while an answer is awaited.
SignIn(t, u) ==
    /\ online /\ flush[t].at # "next" /\ counts.signIns < MaxSignIns
    /\ counts' = [counts EXCEPT !.signIns = @ + 1]
    /\ cookie' = u /\ token' = [token EXCEPT ![t] = [of |-> u, valid |-> TRUE]]
    /\ overtook' = IF flush[t] = NoFlush THEN Tabs \ {t} ELSE Tabs
    /\ lastSession' = u
    /\ UNCHANGED <<online, queue, whose, settled, sentFor, page, flush>>

\* Logging out in one tab wipes what all of them kept on the phone.
LogOut(t) ==
    /\ online /\ flush[t].at # "next" /\ token[t] # NoToken
    /\ cookie' = NoUser /\ token' = [token EXCEPT ![t] = NoToken]
    /\ lastSession' = NoUser /\ queue' = {} /\ settled' = settled \cup queue
    /\ page' = [page EXCEPT ![t] = "away"]
    /\ UNCHANGED <<online, overtook, whose, sentFor, flush, counts>>

TokenExpires(t) ==
    /\ token[t].valid
    /\ token' = [token EXCEPT ![t].valid = FALSE]
    /\ UNCHANGED <<online, cookie, overtook, deviceVars, sentFor, page, flush, counts>>

SignalChanges ==
    /\ online => counts.drops < MaxDrops
    /\ counts' = [counts EXCEPT !.drops = IF online THEN @ + 1 ELSE @]
    /\ online' = ~online
    /\ UNCHANGED <<signInVars, deviceVars, sentFor, page, flush>>

\* A reload loses the token, the step and the flush, and nothing that is stored.
Reload(t) ==
    /\ token[t] # NoToken \/ flush[t] # NoFlush
    /\ token' = [token EXCEPT ![t] = NoToken] /\ overtook' = overtook \ {t}
    /\ page' = [page EXCEPT ![t] = "away"] /\ flush' = [flush EXCEPT ![t] = NoFlush]
    /\ UNCHANGED <<online, cookie, deviceVars, sentFor, counts>>

\* The page asks who is signed in; without a signal it takes the phone's word.
OpenCheckIn(t) ==
    /\ page[t] = "away"
    /\ Restored(t) # NoToken \/ (~online /\ lastSession # NoUser)
    /\ TakesToken(t, Restored(t), flush[t] # NoFlush)
    /\ lastSession' = IF Restored(t) # NoToken THEN Restored(t).of ELSE lastSession
    /\ page' = [page EXCEPT ![t] = "ready"]
    /\ UNCHANGED <<online, cookie, queue, whose, settled, sentFor, flush, counts>>

-----------------------------------------------------------------------------
(* The check-in page. *)

QueueScan(t) ==
    /\ counts.scans < MaxScans
    /\ counts' = [counts EXCEPT !.scans = @ + 1]
    /\ queue' = queue \cup {counts'.scans}
    /\ whose' = [whose EXCEPT ![counts'.scans] = lastSession]
    /\ page' = [page EXCEPT ![t] = "away"]
    /\ UNCHANGED <<lastSession, settled>>

ScanCode(t) ==
    /\ page[t] = "ready"
    /\ IF online
         THEN page' = [page EXCEPT ![t] = "sending"] /\ UNCHANGED <<deviceVars, counts>>
         ELSE QueueScan(t)
    /\ UNCHANGED <<online, signInVars, sentFor, flush>>

\* The server answers, and an offer to register as a walk-in may be taken up, or
\* its answer is lost; then, as when nothing arrived, the scan is kept for later.
SendScan(t) ==
    /\ page[t] = "sending"
    /\ TakesToken(t, IF online /\ ~token[t].valid THEN Refreshed ELSE token[t], flush[t] # NoFlush)
    /\ \/ /\ online
          /\ \E next \in {"away", "sending"} : page' = [page EXCEPT ![t] = next]
          /\ UNCHANGED <<deviceVars, counts>>
       \/ QueueScan(t)
    /\ UNCHANGED <<online, cookie, sentFor, flush>>

-----------------------------------------------------------------------------
(* Sending the queue: flushCheckIns. *)

\* A page load, the signal's return or the service worker's word starts one,
\* one at a time in a tab.  Once it has a session it lists the queue.
ListQueue(t) ==
    /\ flush[t] = NoFlush /\ queue # {} /\ Restored(t) # NoToken
    /\ TakesToken(t, Restored(t), FALSE)
    /\ flush' = [flush EXCEPT ![t] = [at |-> "next", user |-> Restored(t).of, todo |-> queue]]
    /\ UNCHANGED <<online, cookie, deviceVars, sentFor, page, counts>>

\* Mutant: whose scan it is is not looked at.
MayBeSentAnyway(t, s) == TRUE

\* A scan that somebody else made is dropped instead.
MayBeSent(t, s) == whose[s] = flush[t].user

\* Mutant: a flush clears the queue, not the scan it is done with.
QueueAfterCleared(s) == {}

\* The queue is read again for each scan that leaves it.
QueueAfter(s) == queue \ {s}

\* The next scan of the list, in the order they were made.
NextScan(t) == Min(flush[t].todo)

DropScan(t) ==
    /\ flush[t].at = "next" /\ flush[t].todo # {} /\ ~MayBeSent(t, NextScan(t))
    /\ flush' = [flush EXCEPT ![t].todo = @ \ {NextScan(t)}]
    /\ queue' = QueueAfter(NextScan(t)) /\ settled' = settled \cup {NextScan(t)}
    /\ UNCHANGED <<online, signInVars, lastSession, whose, sentFor, page, counts>>

\* A token that is refused is replaced by the cookie's, and the request is made
\* again.  Without one, or if the answer is lost, the flush ends there.
SendQueued(t) ==
    LET bearer == IF token[t].valid THEN token[t] ELSE Refreshed IN
    /\ flush[t].at = "next" /\ flush[t].todo # {} /\ MayBeSent(t, NextScan(t))
    /\ online
    /\ TakesToken(t, bearer, TRUE)
    /\ IF bearer = NoToken
         THEN flush' = [flush EXCEPT ![t] = NoFlush] /\ UNCHANGED sentFor
         ELSE /\ sentFor' = [sentFor EXCEPT ![NextScan(t)] = @ \cup {bearer.of}]
              /\ \/ flush' = [flush EXCEPT ![t].at = "answered"]
                 \/ flush' = [flush EXCEPT ![t] = NoFlush]
    /\ UNCHANGED <<online, cookie, deviceVars, page, counts>>

\* Answered either way, the scan leaves the queue.
TakeOff(t) ==
    /\ flush[t].at = "answered"
    /\ queue' = QueueAfter(NextScan(t)) /\ settled' = settled \cup {NextScan(t)}
    /\ flush' = [flush EXCEPT ![t].at = "next", ![t].todo = @ \ {NextScan(t)}]
    /\ UNCHANGED <<online, signInVars, lastSession, whose, sentFor, page, counts>>

\* The list is through, or the network is down.
EndFlush(t) ==
    /\ flush[t].at = "next" /\ (flush[t].todo = {} \/ ~online)
    /\ flush' = [flush EXCEPT ![t] = NoFlush]
    /\ UNCHANGED <<online, signInVars, deviceVars, sentFor, page, counts>>

-----------------------------------------------------------------------------
OfflineNext ==
    \/ SignalChanges
    \/ \E t \in Tabs :
        \/ \E u \in Phones : SignIn(t, u)
        \/ LogOut(t) \/ TokenExpires(t) \/ Reload(t) \/ OpenCheckIn(t)
        \/ ScanCode(t) \/ SendScan(t)
        \/ ListQueue(t) \/ DropScan(t) \/ SendQueued(t) \/ TakeOff(t) \/ EndFlush(t)

OfflineSpec == OfflineInit /\ [][OfflineNext]_offlineVars

-----------------------------------------------------------------------------
(* Properties. *)

\* Every variable has its type, and a flush only handles scans that were made.
OfflineTypeOK ==
    /\ online \in BOOLEAN /\ cookie \in Users /\ lastSession \in Users
    /\ token \in [Tabs -> Token] /\ overtook \subseteq Tabs
    /\ queue \subseteq 1..counts.scans /\ settled \subseteq 1..counts.scans /\ whose \in [Scans -> Users]
    /\ sentFor \in [Scans -> SUBSET Phones]
    /\ page \in [Tabs -> {"away", "ready", "sending"}]
    /\ flush \in [Tabs -> Flush] /\ \A t \in Tabs : flush[t].todo \subseteq 1..counts.scans
    /\ counts \in [scans : 0..MaxScans, signIns : 0..MaxSignIns, drops : 0..MaxDrops]

\* However many tabs send the queue while scans are added to it, a scan that was
\* kept is still there, or was answered, dropped as somebody else's, or wiped by
\* a log-out (queueCheckIn, flushCheckIns, forgetDevice).
NoScanForgotten == queue \cup settled = 1..counts.scans

\* A scan goes out as somebody other than who made it only from a tab that
\* somebody signed in past, on this phone, since it got its token.
SentAsAnotherOnlyAfterSignIn ==
    [][\A t \in Tabs : SendQueued(t) /\ t \notin overtook =>
        \A s \in Scans : sentFor'[s] \subseteq sentFor[s] \cup {whose[s]}]_offlineVars

\* What the comment at QueuedCheckIn promises: a scan is never sent as someone
\* else who later logs in on the same phone.
SentAsWhoScanned == \A s \in Scans : sentFor[s] \subseteq {whose[s]}
=============================================================================
