------------------------------ MODULE LiveBoard ------------------------------
(***************************************************************************)
(* A drive's arrivals on the screens that watch it: the snapshots a socket *)
(* pushes after every change, the one a screen gets when it joins, and the *)
(* poll that runs beside them.                                             *)
(*                                                                         *)
(* A snapshot is the number of the change it shows.  Building one takes a  *)
(* while, so snapshots of two changes may be pushed in either order, and a *)
(* poll's answer may come after a later push.                              *)
(***************************************************************************)
EXTENDS Integers, FiniteSets

CONSTANTS
    Screens,        \* boards and desks open on the drive, each somebody's of the company
    Publishers,     \* requests that change the arrivals, at once
    MaxArrivals,    \* bound on changes
    MaxSocketDrops  \* bound on connections lost

ASSUME LiveBoardAssumption == MaxArrivals \in Nat /\ MaxSocketDrops \in Nat

Snapshots == 0..MaxArrivals
NoSnapshot == -1

VARIABLES
    arrivals,     \* the changes committed so far
    publish,      \* each publish under way: its step and the snapshot built
    watcher,      \* the person behind each screen: in the company, removed and not evicted yet, or out
    socket,       \* each screen's socket: off, on, and how far its join has come
    room,         \* the sockets in the drive's room
    joinAnswer,   \* the snapshot a join has read
    poll,         \* the snapshot a poll has read
    shown,        \* what each screen shows
    drops

liveVars == <<arrivals, publish, watcher, socket, room, joinAnswer, poll, shown, drops>>
feedVars == <<joinAnswer, poll, shown>>

LiveInit ==
    /\ arrivals = 0
    /\ publish = [p \in Publishers |-> [at |-> "idle", snapshot |-> NoSnapshot]]
    /\ watcher = [s \in Screens |-> "member"]
    /\ socket = [s \in Screens |-> "off"] /\ room = {}
    /\ joinAnswer = [s \in Screens |-> NoSnapshot] /\ poll = [s \in Screens |-> NoSnapshot]
    /\ shown = [s \in Screens |-> NoSnapshot]
    /\ drops = 0

-----------------------------------------------------------------------------
(* Publishing. *)

\* A booking, a release, an arrival, a confirmation or a decision commits.
ArrivalsChange(p) ==
    /\ publish[p].at = "idle" /\ arrivals < MaxArrivals
    /\ arrivals' = arrivals + 1
    /\ publish' = [publish EXCEPT ![p].at = "committed"]
    /\ UNCHANGED <<watcher, socket, room, feedVars, drops>>

\* Only built if somebody watches.
BuildSnapshot(p) ==
    /\ publish[p].at = "committed"
    /\ publish' = [publish EXCEPT ![p] = IF room = {} THEN [at |-> "idle", snapshot |-> NoSnapshot]
                                         ELSE [at |-> "built", snapshot |-> arrivals]]
    /\ UNCHANGED <<arrivals, watcher, socket, room, feedVars, drops>>

EmitSnapshot(p) ==
    /\ publish[p].at = "built"
    /\ shown' = [s \in Screens |-> IF s \in room THEN publish[p].snapshot ELSE shown[s]]
    /\ publish' = [publish EXCEPT ![p] = [at |-> "idle", snapshot |-> NoSnapshot]]
    /\ UNCHANGED <<arrivals, watcher, socket, room, joinAnswer, poll, drops>>

-----------------------------------------------------------------------------
(* The socket. *)

\* handleConnection: the token is good for 15 minutes, whatever has changed.
Connect(s) ==
    /\ socket[s] = "off"
    /\ socket' = [socket EXCEPT ![s] = "on"]
    /\ UNCHANGED <<arrivals, publish, watcher, room, feedVars, drops>>

\* Mutant: whoever's token names a company may watch its drives.
MayWatchByToken(s) == TRUE

\* canWatch asks the database, every time.
MayWatch(s) == watcher[s] = "member"

AskToJoin(s) ==
    /\ socket[s] = "on"
    /\ socket' = [socket EXCEPT ![s] = IF MayWatch(s) THEN "allowed" ELSE "refused"]
    /\ UNCHANGED <<arrivals, publish, watcher, room, feedVars, drops>>

EnterRoom(s) ==
    /\ socket[s] = "allowed"
    /\ room' = room \cup {s} /\ socket' = [socket EXCEPT ![s] = "joined"]
    /\ UNCHANGED <<arrivals, publish, watcher, feedVars, drops>>

ReadForJoin(s) ==
    /\ socket[s] = "joined" /\ joinAnswer[s] = NoSnapshot
    /\ joinAnswer' = [joinAnswer EXCEPT ![s] = arrivals]
    /\ socket' = [socket EXCEPT ![s] = "reading"]
    /\ UNCHANGED <<arrivals, publish, watcher, room, poll, shown, drops>>

JoinAnswered(s) ==
    /\ socket[s] = "reading"
    /\ shown' = [shown EXCEPT ![s] = joinAnswer[s]]
    /\ socket' = [socket EXCEPT ![s] = "live"] /\ joinAnswer' = [joinAnswer EXCEPT ![s] = NoSnapshot]
    /\ UNCHANGED <<arrivals, publish, watcher, room, poll, drops>>

Closed(s) ==
    /\ room' = room \ {s}
    /\ socket' = [socket EXCEPT ![s] = "off"]
    /\ joinAnswer' = [joinAnswer EXCEPT ![s] = NoSnapshot]

LoseSocket(s) ==
    /\ socket[s] # "off" /\ drops < MaxSocketDrops
    /\ Closed(s) /\ drops' = drops + 1
    /\ UNCHANGED <<arrivals, publish, watcher, poll, shown>>

-----------------------------------------------------------------------------
(* Leaving the company. *)

RemoveWatcher(s) ==
    /\ watcher[s] = "member"
    /\ watcher' = [watcher EXCEPT ![s] = "leaving"]
    /\ UNCHANGED <<arrivals, publish, socket, room, feedVars, drops>>

\* Every socket of that person's is closed; the page connects again.
Evict(s) ==
    /\ watcher[s] = "leaving"
    /\ watcher' = [watcher EXCEPT ![s] = "out"]
    /\ Closed(s)
    /\ UNCHANGED <<arrivals, publish, poll, shown, drops>>

-----------------------------------------------------------------------------
(* The poll. *)

\* Mutant: the socket is trusted to carry every change.
PollsNever(s) == FALSE

\* On opening the page and every 30 seconds.
Polls(s) == poll[s] = NoSnapshot

Poll(s) ==
    /\ Polls(s)
    /\ watcher[s] = "member"
    /\ poll' = [poll EXCEPT ![s] = arrivals]
    /\ UNCHANGED <<arrivals, publish, watcher, socket, room, joinAnswer, shown, drops>>

PollAnswered(s) ==
    /\ poll[s] # NoSnapshot
    /\ shown' = [shown EXCEPT ![s] = poll[s]] /\ poll' = [poll EXCEPT ![s] = NoSnapshot]
    /\ UNCHANGED <<arrivals, publish, watcher, socket, room, joinAnswer, drops>>

-----------------------------------------------------------------------------
Publishing(p) == BuildSnapshot(p) \/ EmitSnapshot(p)
Joining(s) == EnterRoom(s) \/ ReadForJoin(s) \/ JoinAnswered(s)

LiveNext ==
    \/ \E p \in Publishers : ArrivalsChange(p) \/ Publishing(p)
    \/ \E s \in Screens :
        \/ Connect(s) \/ AskToJoin(s) \/ Joining(s) \/ LoseSocket(s)
        \/ RemoveWatcher(s) \/ Evict(s)
        \/ Poll(s) \/ PollAnswered(s)

LiveSpec == LiveInit /\ [][LiveNext]_liveVars

-----------------------------------------------------------------------------
(* Properties. *)

\* Every variable has its type.
LiveTypeOK ==
    /\ arrivals \in Snapshots /\ drops \in 0..MaxSocketDrops /\ room \subseteq Screens
    /\ publish \in [Publishers -> [at : {"idle", "committed", "built"}, snapshot : Snapshots \cup {NoSnapshot}]]
    /\ watcher \in [Screens -> {"member", "leaving", "out"}]
    /\ socket \in [Screens -> {"off", "on", "allowed", "refused", "joined", "reading", "live"}]
    /\ {joinAnswer, poll, shown} \subseteq [Screens -> Snapshots \cup {NoSnapshot}]

\* Nobody who has left the company has a socket in the drive's room, though
\* their token still connects and a join may have been let in before they left
\* (canWatch, evict).
LeaversDoNotWatch == \A s \in room : watcher[s] # "out"

\* Once the arrivals stop changing, every screen of the company's comes to show
\* them and keeps showing them, though pushes and answers overtake each other
\* (publish, useLiveFeed's poll).
ScreensCatchUp == \A s \in Screens : <>[](watcher[s] = "member" => shown[s] = arrivals)
=============================================================================
