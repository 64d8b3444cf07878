----------------------------- MODULE NoticesProofs ----------------------------
(***************************************************************************)
(* What is proved about what candidates are told: modules Messages, Alerts *)
(* and Fanout.                                                             *)
(***************************************************************************)
EXTENDS CompanyProofs

-----------------------------------------------------------------------------
(***************************************************************************)
(* Read means seen, for any number of messages and of requests at once.    *)
(*                                                                         *)
(* Inductive because the lock on the thread's row hands out the places one *)
(* after the other and gives a lost one back: the messages there are fill  *)
(* the places from the first without a gap, so a page that saw the last    *)
(* one it listed saw all before it.                                        *)
(***************************************************************************)

USE MessagesAssumption

\* The places whose message has committed.
Committed == IF thread.locked THEN thread.lastSeq - 1 ELSE thread.lastSeq

RowHasOneHolder ==
    /\ \A r \in ThreadCalls : threadCall[r].at = "commit" => thread.locked /\ threadCall[r].seq = thread.lastSeq
    /\ \A q, r \in ThreadCalls : threadCall[q].at = "commit" /\ threadCall[r].at = "commit" => q = r
    /\ thread.locked => thread.lastSeq > 0

NoGaps == \A n \in Seqs : message[n] # "NONE" <=> n <= Committed

\* What a page shows is the thread up to some place, and what it then marks read
\* has been on that side's screen.
PagesShowWhatTheyMark ==
    \A r \in ThreadCalls :
        /\ threadCall[r].seen # {} => \E k \in Seqs : threadCall[r].seen = 1..k
        /\ threadCall[r].at = "mark" => 1..threadCall[r].seq \subseteq onScreen[threadCall[r].side]

ReadWasOnScreen == \A s \in Sides : 1..readUpTo[s] \subseteq onScreen[s]

MessagesInv == MessagesTypeOK /\ RowHasOneHolder /\ NoGaps /\ PagesShowWhatTheyMark /\ ReadWasOnScreen

-----------------------------------------------------------------------------
LEMMA NoThreadCallTyped ==
  NoThreadCall \in ThreadCall /\ NoThreadCall.at = "idle" /\ NoThreadCall.seen = {}
  BY DEF NoThreadCall, ThreadCall, Sides

LEMMA MessagesInvInit == MessagesInit => MessagesInv
<1> SUFFICES ASSUME MessagesInit PROVE MessagesInv
  OBVIOUS
<1>1. \A r \in ThreadCalls : threadCall[r] = NoThreadCall
  BY DEF MessagesInit
<1>2. MessagesTypeOK
  BY NoThreadCallTyped DEF MessagesInit, MessagesTypeOK
<1>3. RowHasOneHolder /\ NoGaps
  BY <1>1, NoThreadCallTyped DEF MessagesInit, RowHasOneHolder, NoGaps, Committed, Seqs
<1>4. PagesShowWhatTheyMark /\ ReadWasOnScreen
  BY <1>1, NoThreadCallTyped DEF MessagesInit, PagesShowWhatTheyMark, ReadWasOnScreen
<1>5. QED
  BY <1>2, <1>3, <1>4 DEF MessagesInv

\* A step that only moves one request on, and neither into nor out of its
\* transaction.
LEMMA CallMoves ==
  ASSUME MessagesInv, NEW r \in ThreadCalls, NEW call \in ThreadCall, CallGoes(r, call),
         threadCall[r].at # "commit", call.at # "commit",
         call.seen # {} => \E k \in Seqs : call.seen = 1..k,
         call.at = "mark" => 1..call.seq \subseteq onScreen'[call.side],
         UNCHANGED <<thread, message>>,
         readUpTo' \in [Sides -> 0..MaxMessages], onScreen' \in [Sides -> SUBSET Seqs], blocked' \subseteq Sides,
         \A s \in Sides : onScreen[s] \subseteq onScreen'[s] /\ 1..readUpTo'[s] \subseteq onScreen'[s]
  PROVE  MessagesInv'
<1> USE DEF MessagesInv
<1>1. \A q \in ThreadCalls : threadCall'[q] = IF q = r THEN call ELSE threadCall[q]
  BY DEF CallGoes, MessagesTypeOK
<1>2. MessagesTypeOK'
  BY DEF CallGoes, MessagesTypeOK
<1>3. RowHasOneHolder'
  BY <1>1 DEF RowHasOneHolder
<1>4. NoGaps'
  BY DEF NoGaps, Committed
<1>5. PagesShowWhatTheyMark'
  <2>1. ASSUME NEW q \in ThreadCalls, q # r, threadCall[q].at = "mark"
        PROVE  1..threadCall[q].seq \subseteq onScreen'[threadCall[q].side]
    <3>1. threadCall[q].side \in Sides
      BY DEF MessagesTypeOK, ThreadCall
    <3>2. QED
      BY <2>1, <3>1 DEF PagesShowWhatTheyMark
  <2>2. QED
    BY <1>1, <2>1 DEF PagesShowWhatTheyMark
<1>6. ReadWasOnScreen'
  BY DEF ReadWasOnScreen
<1>7. QED
  BY <1>2, <1>3, <1>4, <1>5, <1>6

\* The transaction of a message: it takes the next place and the row, and either
\* fills the place or gives it back.
LEMMA TransactionStep ==
  ASSUME MessagesInv, NEW r \in ThreadCalls,
         TakeSeq(r) \/ CommitMessage(r) \/ (threadCall[r].at = "commit" /\ LoseThreadCall(r))
  PROVE  MessagesInv'
<1> USE DEF MessagesInv
<1>1. /\ threadCall[r] \in ThreadCall /\ threadCall \in [ThreadCalls -> ThreadCall]
      /\ thread \in [lastSeq : 0..MaxMessages, locked : BOOLEAN] /\ message \in [Seqs -> Sides \cup {"NONE"}]
  BY DEF MessagesTypeOK
<1>2. PICK call \in ThreadCall : /\ CallGoes(r, call) /\ call.at # "mark" /\ call.seen \subseteq threadCall[r].seen
                                 /\ call.seen = {} \/ call.seen = threadCall[r].seen
                                 /\ call.at = "commit" => TakeSeq(r) /\ call.seq = thread.lastSeq + 1
                                 /\ TakeSeq(r) => call.at = "commit"
  <2>1. CASE TakeSeq(r)
    <3> DEFINE call == [threadCall[r] EXCEPT !.at = "commit", !.seq = thread.lastSeq + 1]
    <3>1. thread.lastSeq + 1 \in 0..MaxMessages
      BY <1>1, <2>1 DEF TakeSeq
    <3>2. /\ call \in ThreadCall /\ call.at = "commit" /\ call.seen = threadCall[r].seen
          /\ call.seq = thread.lastSeq + 1
      BY <1>1, <3>1 DEF ThreadCall
    <3>3. CallGoes(r, call)
      BY <2>1 DEF TakeSeq
    <3> HIDE DEF call
    <3>4. QED
      BY <2>1, <3>2, <3>3
  <2>2. CASE CommitMessage(r)
    <3> DEFINE call == [threadCall[r] EXCEPT !.at = "view"]
    <3>1. call \in ThreadCall /\ call.at = "view" /\ call.seen = threadCall[r].seen
      BY <1>1 DEF ThreadCall
    <3>2. CallGoes(r, call) /\ ~TakeSeq(r)
      BY <2>2 DEF CommitMessage, TakeSeq
    <3> HIDE DEF call
    <3>3. QED
      BY <3>1, <3>2
  <2>3. CASE threadCall[r].at = "commit" /\ LoseThreadCall(r)
    <3>1. CallGoes(r, NoThreadCall) /\ ~TakeSeq(r)
      BY <2>3 DEF LoseThreadCall, TakeSeq
    <3>2. QED
      BY <3>1, NoThreadCallTyped
  <2>4. QED
    BY <2>1, <2>2, <2>3
<1>3. \A q \in ThreadCalls : threadCall'[q] = IF q = r THEN call ELSE threadCall[q]
  BY <1>1, <1>2 DEF CallGoes
<1>4. CASE TakeSeq(r)
  <2>1. /\ thread' = [lastSeq |-> thread.lastSeq + 1, locked |-> TRUE] /\ ~thread.locked
        /\ thread.lastSeq < MaxMessages /\ UNCHANGED <<message, readUpTo, blocked, onScreen>>
    BY <1>4 DEF TakeSeq, RowFree
  <2>2. MessagesTypeOK'
    BY <1>1, <1>2, <2>1 DEF CallGoes, MessagesTypeOK
  <2>3. RowHasOneHolder'
    BY <1>1, <1>2, <1>3, <1>4, <2>1 DEF RowHasOneHolder
  <2>4. NoGaps' /\ ReadWasOnScreen'
    BY <1>1, <2>1 DEF NoGaps, Committed, ReadWasOnScreen
  <2>5. PagesShowWhatTheyMark'
    BY <1>2, <1>3, <2>1 DEF PagesShowWhatTheyMark
  <2>6. QED
    BY <2>2, <2>3, <2>4, <2>5
<1>5. CASE ~TakeSeq(r)
  <2>1. /\ threadCall[r].at = "commit" /\ thread.locked /\ threadCall[r].seq = thread.lastSeq /\ thread.lastSeq > 0
        /\ \A q \in ThreadCalls : q # r => threadCall[q].at # "commit"
        /\ UNCHANGED <<readUpTo, blocked, onScreen>>
    BY <1>5 DEF RowHasOneHolder, CommitMessage, LoseThreadCall
  <2>2. /\ thread' \in [lastSeq : 0..MaxMessages, locked : BOOLEAN] /\ ~thread'.locked
        /\ message' \in [Seqs -> Sides \cup {"NONE"}]
        /\ \A n \in Seqs : message'[n] # "NONE" <=> n <= thread'.lastSeq
    <3>1. \A n \in Seqs : message[n] # "NONE" <=> n <= thread.lastSeq - 1
      BY <2>1 DEF NoGaps, Committed
    <3>2. CASE CommitMessage(r)
      <4>1. /\ message' = [message EXCEPT ![thread.lastSeq] = threadCall[r].side]
            /\ thread' = [thread EXCEPT !.locked = FALSE] /\ threadCall[r].side \in Sides
        BY <1>1, <2>1, <3>2 DEF CommitMessage, ThreadCall
      <4>2. thread'.lastSeq = thread.lastSeq /\ ~thread'.locked /\ "NONE" \notin Sides /\ thread.lastSeq \in Seqs
        BY <1>1, <2>1, <4>1 DEF Sides, Seqs
      <4>3. \A n \in Seqs : message'[n] = IF n = thread.lastSeq THEN threadCall[r].side ELSE message[n]
        BY <1>1, <4>1
      <4>4. \A n \in Seqs : message'[n] # "NONE" <=> n <= thread'.lastSeq
        BY <1>1, <3>1, <4>1, <4>2, <4>3 DEF Seqs
      <4>5. QED
        BY <1>1, <4>1, <4>2, <4>4
    <3>3. CASE LoseThreadCall(r)
      <4>1. message' = message /\ thread' = [lastSeq |-> thread.lastSeq - 1, locked |-> FALSE]
        BY <2>1, <3>3 DEF LoseThreadCall
      <4>2. QED
        BY <1>1, <2>1, <3>1, <4>1
    <3>4. QED
      BY <1>5, <3>2, <3>3
  <2>3. MessagesTypeOK'
    BY <1>1, <1>2, <2>1, <2>2 DEF CallGoes, MessagesTypeOK
  <2>4. RowHasOneHolder'
    BY <1>2, <1>3, <1>5, <2>1, <2>2 DEF RowHasOneHolder
  <2>5. NoGaps' /\ ReadWasOnScreen'
    BY <2>1, <2>2 DEF NoGaps, Committed, ReadWasOnScreen
  <2>6. PagesShowWhatTheyMark'
    BY <1>2, <1>3, <2>1 DEF PagesShowWhatTheyMark
  <2>7. QED
    BY <2>3, <2>4, <2>5, <2>6
<1>6. QED
  BY <1>4, <1>5

\* Showing a thread puts all of it on screen; the last message listed is the
\* last place of it.
LEMMA ShowStep ==
  ASSUME MessagesInv, NEW r \in ThreadCalls, ShowThread(r)
  PROVE  MessagesInv'
<1> DEFINE c == threadCall[r]
<1>1. /\ c \in ThreadCall /\ c.side \in Sides /\ c.seen \subseteq Seqs /\ c.at = "show"
      /\ onScreen \in [Sides -> SUBSET Seqs] /\ onScreen' = [onScreen EXCEPT ![c.side] = @ \cup c.seen]
      /\ UNCHANGED <<thread, message, readUpTo, blocked>>
      /\ readUpTo \in [Sides -> 0..MaxMessages] /\ blocked \subseteq Sides
  BY DEF ShowThread, MessagesInv, MessagesTypeOK, ThreadCall
<1>2. \A s \in Sides : onScreen'[s] = IF s = c.side THEN onScreen[s] \cup c.seen ELSE onScreen[s]
  BY <1>1
<1>3. onScreen' \in [Sides -> SUBSET Seqs]
  BY <1>1
<1>4. \A s \in Sides : onScreen[s] \subseteq onScreen'[s] /\ 1..readUpTo'[s] \subseteq onScreen'[s]
  BY <1>1, <1>2 DEF MessagesInv, ReadWasOnScreen
<1>5. CASE Unread(c) = {}
  <2>1. CallGoes(r, NoThreadCall)
    BY <1>5 DEF ShowThread
  <2>2. QED
    BY <1>1, <1>3, <1>4, <2>1, NoThreadCallTyped, CallMoves
<1>6. CASE Unread(c) # {}
  <2>1. PICK k \in Seqs : c.seen = 1..k
    BY <1>6 DEF Unread, MessagesInv, PagesShowWhatTheyMark
  <2>2. LastOf(c) = k
    <3>1. k \in c.seen /\ \A n \in c.seen : n <= k
      BY <2>1 DEF Seqs
    <3>2. \A m \in c.seen : (\A n \in c.seen : n <= m) => m = k
      BY <2>1, <3>1 DEF Seqs
    <3>3. QED
      BY <3>1, <3>2 DEF LastOf
  <2> DEFINE call == [NoThreadCall EXCEPT !.at = "mark", !.side = c.side, !.seq = k]
  <2>3. call \in ThreadCall /\ call.at = "mark" /\ call.side = c.side /\ call.seq = k /\ call.seen = {}
    <3>1. k \in 0..MaxMessages
      BY DEF Seqs
    <3>2. c.side \in Sides
      BY <1>1
    <3> HIDE DEF c
    <3>3. QED
      BY <3>1, <3>2, NoThreadCallTyped DEF ThreadCall
  <2>4. CallGoes(r, call)
    BY <1>6, <2>2 DEF ShowThread, UpTo
  <2>5. 1..call.seq \subseteq onScreen'[call.side]
    BY <1>1, <1>2, <2>1, <2>3
  <2> HIDE DEF call
  <2>6. QED
    BY <1>1, <1>3, <1>4, <2>3, <2>4, <2>5, CallMoves
<1>7. QED
  BY <1>5, <1>6

\* No step of any request breaks the invariant.
LEMMA MessagesInvStep == MessagesInv /\ [MessagesNext]_messageVars => MessagesInv'
<1> SUFFICES ASSUME MessagesInv, [MessagesNext]_messageVars PROVE MessagesInv'
  OBVIOUS
<1>1. /\ threadCall \in [ThreadCalls -> ThreadCall] /\ readUpTo \in [Sides -> 0..MaxMessages]
      /\ onScreen \in [Sides -> SUBSET Seqs] /\ blocked \subseteq Sides
      /\ \A s \in Sides : 1..readUpTo[s] \subseteq onScreen[s]
  BY DEF MessagesInv, MessagesTypeOK, ReadWasOnScreen
<1>2. ASSUME NEW r \in ThreadCalls, NEW s \in Sides, OpenThread(r, s) \/ AskToSend(r, s) PROVE MessagesInv'
  <2>1. PICK at \in {"view", "send"} : CallGoes(r, [NoThreadCall EXCEPT !.at = at, !.side = s])
    BY <1>2 DEF OpenThread, AskToSend
  <2> DEFINE call == [NoThreadCall EXCEPT !.at = at, !.side = s]
  <2>2. call \in ThreadCall /\ call.at \in {"view", "send"} /\ call.seen = {}
    BY NoThreadCallTyped DEF ThreadCall, NoThreadCall
  <2>3. threadCall[r].at = "idle" /\ UNCHANGED <<thread, message, readUpTo, blocked, onScreen>>
    BY <1>2, NoThreadCallTyped DEF OpenThread, AskToSend
  <2> HIDE DEF call
  <2>4. CallGoes(r, call)
    BY <2>1 DEF call
  <2>5. QED
    BY <1>1, <2>2, <2>3, <2>4, CallMoves
<1>3. ASSUME NEW r \in ThreadCalls, ReadThread(r) PROVE MessagesInv'
  <2>1. PICK at \in {"show", "list"} :
          CallGoes(r, [threadCall[r] EXCEPT !.readSeq = readUpTo[threadCall[r].side], !.at = at])
    BY <1>3 DEF ReadThread
  <2> DEFINE call == [threadCall[r] EXCEPT !.readSeq = readUpTo[threadCall[r].side], !.at = at]
  <2>2. call \in ThreadCall /\ call.at \in {"show", "list"} /\ call.seen = threadCall[r].seen
    BY <1>1 DEF ThreadCall
  <2>3. threadCall[r].at = "view" /\ UNCHANGED <<thread, message, readUpTo, blocked, onScreen>>
    BY <1>3 DEF ReadThread
  <2>4. threadCall[r].seen # {} => \E k \in Seqs : threadCall[r].seen = 1..k
    BY DEF MessagesInv, PagesShowWhatTheyMark
  <2> HIDE DEF call
  <2>5. CallGoes(r, call)
    BY <2>1 DEF call
  <2>6. QED
    BY <1>1, <2>2, <2>3, <2>4, <2>5, CallMoves
<1>4. ASSUME NEW r \in ThreadCalls, ListMessages(r) PROVE MessagesInv'
  <2> DEFINE there == {n \in Seqs : message[n] # "NONE"}
             call == [threadCall[r] EXCEPT !.at = "show", !.seen = there]
  <2>1. call \in ThreadCall /\ call.at = "show" /\ call.seen = there
    BY <1>1 DEF ThreadCall
  <2>2. threadCall[r].at = "list" /\ UNCHANGED <<thread, message, readUpTo, blocked, onScreen>>
    BY <1>4 DEF ListMessages
  <2>3. there # {} => \E k \in Seqs : there = 1..k
    <3>1. Committed \in Int /\ Committed <= MaxMessages
      BY DEF Committed, MessagesInv, MessagesTypeOK
    <3>2. there = {n \in Seqs : n <= Committed}
      BY DEF MessagesInv, NoGaps
    <3>3. there # {} => Committed \in Seqs /\ there = 1..Committed
      BY <3>1, <3>2 DEF Seqs
    <3>4. QED
      BY <3>3
  <2> HIDE DEF call, there
  <2>4. CallGoes(r, call)
    BY <1>4 DEF ListMessages, call, there
  <2>5. QED
    BY <1>1, <2>1, <2>2, <2>3, <2>4, CallMoves
<1>5. ASSUME NEW r \in ThreadCalls, MarkRead(r) PROVE MessagesInv'
  <2>1. /\ threadCall[r].at = "mark" /\ CallGoes(r, NoThreadCall) /\ UNCHANGED <<thread, message, blocked, onScreen>>
        /\ readUpTo' = readUpTo \/ readUpTo' = [readUpTo EXCEPT ![threadCall[r].side] = threadCall[r].seq]
    BY <1>5 DEF MarkRead
  <2>2. /\ threadCall[r].seq \in 0..MaxMessages
        /\ 1..threadCall[r].seq \subseteq onScreen[threadCall[r].side]
    BY <1>1, <2>1 DEF ThreadCall, MessagesInv, PagesShowWhatTheyMark
  <2>3. /\ readUpTo' \in [Sides -> 0..MaxMessages]
        /\ \A s \in Sides : 1..readUpTo'[s] \subseteq onScreen[s]
    BY <1>1, <2>1, <2>2
  <2>4. QED
    BY <1>1, <2>1, <2>3, NoThreadCallTyped, CallMoves
<1>6. ASSUME NEW r \in ThreadCalls, LoseThreadCall(r), threadCall[r].at # "commit" PROVE MessagesInv'
  <2>1. CallGoes(r, NoThreadCall) /\ UNCHANGED <<thread, message, readUpTo, blocked, onScreen>>
    BY <1>6 DEF LoseThreadCall
  <2>2. QED
    BY <1>1, <1>6, <2>1, NoThreadCallTyped, CallMoves
<1>7. CASE BlocksChange
  BY <1>1, <1>7 DEF BlocksChange, MessagesInv, MessagesTypeOK, RowHasOneHolder, NoGaps, Committed,
     PagesShowWhatTheyMark, ReadWasOnScreen
<1>8. CASE UNCHANGED messageVars
  BY <1>8 DEF messageVars, MessagesInv, MessagesTypeOK, RowHasOneHolder, NoGaps, Committed,
     PagesShowWhatTheyMark, ReadWasOnScreen
<1>9. QED
  BY <1>2, <1>3, <1>4, <1>5, <1>6, <1>7, <1>8, TransactionStep, ShowStep DEF MessagesNext

\* A message counts as read only after somebody on that side had it on screen:
\* for any number of messages, of pages and of requests that overlap or are lost.
THEOREM ReadWasSeen == MessagesSpec => []ReadMeansSeen
<1>1. MessagesInv => ReadMeansSeen
  BY DEF MessagesInv, MessagesTypeOK, ReadWasOnScreen, ReadMeansSeen, Seqs
<1>2. QED
  BY MessagesInvInit, MessagesInvStep, <1>1, PTL DEF MessagesSpec

\* Every variable of the threads and their pages has its type.
THEOREM MessagesTypeCorrect == MessagesSpec => []MessagesTypeOK
<1>1. MessagesInv => MessagesTypeOK
  BY DEF MessagesInv
<1>2. QED
  BY MessagesInvInit, MessagesInvStep, <1>1, PTL DEF MessagesSpec

HIDE MessagesAssumption

-----------------------------------------------------------------------------
(***************************************************************************)
(* No alert goes out twice, and no absence is held against who was not     *)
(* told of the time, for any number of runs, schedule changes and faults.  *)
(*                                                                         *)
(* Inductive because the claim is made before the send and given up only   *)
(* after an answer that says nothing arrived: whoever is between the two   *)
(* is alone there, and a claim that is free was never sent under.          *)
(***************************************************************************)

USE AlertsAssumption

Heard == {"sent", "refused", "limited", "unreachable", "unknown"}
Sending(w) == alertRun[w].at \in Heard \cup {"send"}

\* A job that may still run has attempts left, and an active one somebody runs.
JobsInHand ==
    /\ \A k \in AlertKeys :
        /\ alertJob[k].state \in {"waiting", "active"} => alertJob[k].made < AlertAttempts
        /\ alertJob[k].state = "active" <=> alertJob[k].run \in AlertRuns
    /\ \A w \in AlertRuns : alertRun[w].at # "idle" => alertRun[w].alert \in AlertKeys

\* Whoever sends holds the claim, alone, and knows whether it arrived.
SendersHoldTheClaim ==
    /\ \A w \in AlertRuns : Sending(w) => claim[alertRun[w].alert] = "PENDING"
    /\ \A v, w \in AlertRuns : Sending(v) /\ Sending(w) /\ alertRun[v].alert = alertRun[w].alert => v = w
    /\ \A w \in AlertRuns :
        /\ alertRun[w].at \in {"send", "refused", "limited", "unreachable"} => delivered[alertRun[w].alert] = 0
        /\ alertRun[w].at = "sent" => delivered[alertRun[w].alert] > 0

\* A claim says what arrived.
ClaimsTell ==
    \A k \in AlertKeys :
        /\ claim[k] = "none" => delivered[k] = 0
        /\ claim[k] = "SENT" => delivered[k] > 0

\* Nobody booked at a time that is still to come.
BookedAtKnownTimes ==
    booking.at <= driveNow.version /\ (driveNow.version > 0 => "moved" \in Abouts)

AlertsTypeInv == AlertsTypeOK /\ JobsInHand
AlertsInv == AlertsTypeInv /\ SendersHoldTheClaim /\ ClaimsTell /\ BookedAtKnownTimes /\ NoSecondCopy

-----------------------------------------------------------------------------
(* Types. *)

LEMMA AlertValuesTyped ==
  /\ IdleRun \in AlertRun /\ IdleRun.at = "idle"
  /\ NoAlertJob \in AlertJob /\ NoAlertJob.state = "none" /\ NoAlertJob.made = 0 /\ NoAlertJob.run = NoRun
  /\ Message \in [about : {"message"}, version : {0}]
  BY DEF IdleRun, NoAlert, AlertRun, NoAlertJob, AlertJob, Message

LEMMA AlertsTypeInvInit == AlertsInit => AlertsTypeInv
<1> SUFFICES ASSUME AlertsInit PROVE AlertsTypeInv
  OBVIOUS
<1>1. \A w \in AlertRuns : alertRun[w] = IdleRun
  BY DEF AlertsInit
<1>2. \A k \in AlertKeys : alertJob[k] = NoAlertJob
  BY DEF AlertsInit
<1>3. JobsInHand
  BY <1>1, <1>2, AlertValuesTyped DEF JobsInHand
<1>4. AlertsTypeOK
  <2>1. driveNow \in [status : {"LIVE", "SUSPENDED", "OVER"}, version : 0..MaxVersion, suspensions : 0..MaxSuspensions]
        /\ booking \in [held : BOOLEAN, at : 0..MaxVersion]
    BY DEF AlertsInit
  <2>2. /\ owed \subseteq AlertKeys /\ alertJob \in [AlertKeys -> AlertJob] /\ alertRun \in [AlertRuns -> AlertRun]
        /\ claim \in [AlertKeys -> {"none", "PENDING", "SENT"}] /\ attempted \subseteq AlertKeys
        /\ delivered \in [AlertKeys -> Nat] /\ alertFaults \in 0..MaxAlertFaults
    BY AlertValuesTyped DEF AlertsInit
  <2>3. chat \in BOOLEAN /\ written \in BOOLEAN
    BY Zenon DEF AlertsInit
  <2>4. QED
    BY <2>1, <2>2, <2>3 DEF AlertsTypeOK
<1>5. QED
  BY <1>3, <1>4 DEF AlertsTypeInv

\* A job of an alert becomes another job that is in order.
LEMMA JobMoves ==
  ASSUME AlertsTypeInv, NEW k \in AlertKeys, NEW job \in AlertJob,
         job.state \in {"waiting", "active"} => job.made < AlertAttempts,
         job.state = "active" <=> job.run \in AlertRuns,
         alertJob' = [alertJob EXCEPT ![k] = job]
  PROVE  /\ alertJob' \in [AlertKeys -> AlertJob]
         /\ \A j \in AlertKeys :
             /\ alertJob'[j].state \in {"waiting", "active"} => alertJob'[j].made < AlertAttempts
             /\ alertJob'[j].state = "active" <=> alertJob'[j].run \in AlertRuns
  BY DEF AlertsTypeInv, AlertsTypeOK, JobsInHand

\* Queueing an alert, whether or not it is queued already.
LEMMA QueuedTyped ==
  ASSUME AlertsTypeInv, NEW k \in AlertKeys, alertJob' = Queued(k)
  PROVE  /\ alertJob' \in [AlertKeys -> AlertJob]
         /\ \A j \in AlertKeys :
             /\ alertJob'[j].state \in {"waiting", "active"} => alertJob'[j].made < AlertAttempts
             /\ alertJob'[j].state = "active" <=> alertJob'[j].run \in AlertRuns
<1>1. CASE alertJob[k].state = "none"
  <2> DEFINE job == [NoAlertJob EXCEPT !.state = "waiting"]
  <2>1. job \in AlertJob /\ job.state = "waiting" /\ job.made < AlertAttempts /\ job.run = NoRun
    BY DEF NoAlertJob, AlertJob
  <2>2. alertJob' = [alertJob EXCEPT ![k] = job]
    BY <1>1 DEF Queued
  <2> HIDE DEF job
  <2>3. QED
    BY <2>1, <2>2, JobMoves
<1>2. CASE alertJob[k].state # "none"
  BY <1>2 DEF Queued, AlertsTypeInv, AlertsTypeOK, JobsInHand
<1>3. QED
  BY <1>1, <1>2

\* A run goes on, or ends and leaves its job done, failed or waiting.
LEMMA RunGoesTyped ==
  ASSUME AlertsTypeInv, NEW w \in AlertRuns, alertRun[w].at # "idle",
         NEW step \in {"load", "claim", "send"} \cup Heard, RunGoes(w, step)
  PROVE  /\ alertJob' = alertJob /\ alertRun' \in [AlertRuns -> AlertRun]
         /\ \A v \in AlertRuns : alertRun'[v].at # "idle" => alertRun'[v].alert \in AlertKeys
         /\ \A v \in AlertRuns : /\ alertRun'[v].alert = alertRun[v].alert
                                 /\ alertRun'[v].at = IF v = w THEN step ELSE alertRun[v].at
  BY DEF RunGoes, AlertsTypeInv, AlertsTypeOK, JobsInHand, AlertRun, Heard

LEMMA EndsTyped ==
  ASSUME AlertsTypeInv, NEW w \in AlertRuns, alertRun[w].at # "idle",
         NEW to \in {"done", "retry", "later", "failed"}, Ends(w, to)
  PROVE  /\ alertJob' \in [AlertKeys -> AlertJob] /\ alertRun' \in [AlertRuns -> AlertRun]
         /\ JobsInHand'
         /\ \A v \in AlertRuns : alertRun'[v] = IF v = w THEN IdleRun ELSE alertRun[v]
<1> DEFINE k == alertRun[w].alert
           times == IF to = "retry" THEN alertJob[k].made + 1 ELSE alertJob[k].made
           next == CASE to = "retry" -> IF times >= AlertAttempts THEN "failed" ELSE "waiting"
                     [] to = "later" -> "waiting"
                     [] OTHER -> to
           job == [alertJob[k] EXCEPT !.state = next, !.made = times, !.run = NoRun]
<1>1. k \in AlertKeys
  BY DEF AlertsTypeInv, JobsInHand
<1>2. \A v \in AlertRuns : alertRun'[v] = IF v = w THEN IdleRun ELSE alertRun[v]
  BY DEF Ends, AlertsTypeInv, AlertsTypeOK
<1>3. alertRun' \in [AlertRuns -> AlertRun]
  BY AlertValuesTyped DEF Ends, AlertsTypeInv, AlertsTypeOK
<1>4. \A v \in AlertRuns : alertRun'[v].at # "idle" => alertRun'[v].alert \in AlertKeys
  BY <1>2, AlertValuesTyped DEF AlertsTypeInv, JobsInHand
<1>5. CASE alertJob[k].run # w
  BY <1>2, <1>3, <1>4, <1>5 DEF Ends, AlertsTypeInv, AlertsTypeOK, JobsInHand
<1>6. CASE alertJob[k].run = w
  <2>1. job \in AlertJob /\ (job.state = "waiting" => job.made < AlertAttempts) /\ job.state # "active" /\ job.run = NoRun
    <3>1. alertJob[k] \in AlertJob /\ alertJob[k].made < AlertAttempts
      BY <1>1, <1>6 DEF AlertsTypeInv, AlertsTypeOK, JobsInHand
    <3>2. times \in 0..AlertAttempts
      BY <3>1 DEF AlertJob
    <3>3. next \in {"waiting", "done", "failed"} /\ (next = "waiting" => times < AlertAttempts)
      BY <3>1 DEF AlertJob
    <3> HIDE DEF times, next, k
    <3>4. QED
      BY <3>1, <3>2, <3>3 DEF AlertJob
  <2>2. alertJob' = [alertJob EXCEPT ![k] = job]
    BY <1>6 DEF Ends
  <2> HIDE DEF job, k
  <2>3. QED
    BY <1>1, <1>2, <1>3, <1>4, <2>1, <2>2, JobMoves DEF JobsInHand
<1>7. QED
  BY <1>5, <1>6

LEMMA AlertRunStepTyped ==
  ASSUME AlertsTypeInv, NEW w \in AlertRuns, AlertRunStep(w)
  PROVE  AlertsTypeInv'
<1>1. alertRun[w].at # "idle"
  BY DEF AlertRunStep, CheckClaim, LoadAlert, ClaimAlert, SendAlert, RecordAnswer
<1>2. alertRun[w].alert \in AlertKeys
  BY <1>1 DEF AlertsTypeInv, JobsInHand
<1>3. /\ alertJob' \in [AlertKeys -> AlertJob] /\ alertRun' \in [AlertRuns -> AlertRun]
      /\ JobsInHand'
  <2>1. ASSUME NEW step \in {"load", "claim", "send"} \cup Heard, RunGoes(w, step)
        PROVE  /\ alertJob' \in [AlertKeys -> AlertJob] /\ alertRun' \in [AlertRuns -> AlertRun]
               /\ JobsInHand'
    BY <1>1, <2>1, RunGoesTyped DEF JobsInHand, AlertsTypeInv, AlertsTypeOK
  <2>2. \/ \E step \in {"load", "claim", "send"} \cup Heard : RunGoes(w, step)
        \/ \E to \in {"done", "retry", "later", "failed"} : Ends(w, to)
    BY DEF AlertRunStep, CheckClaim, LoadAlert, ClaimAlert, SendAlert, RecordAnswer, Heard
  <2>3. QED
    BY <1>1, <2>1, <2>2, EndsTyped
<1>4. UNCHANGED <<driveNow, booking, written, owed, alertFaults>>
  BY DEF AlertRunStep, CheckClaim, LoadAlert, ClaimAlert, SendAlert, RecordAnswer, outside, rows
<1>5. chat' \in BOOLEAN
  <2>1. CASE RecordAnswer(w)
    BY <2>1, Zenon DEF RecordAnswer
  <2>2. CASE ~RecordAnswer(w)
    <3>1. chat' = chat
      BY <2>2 DEF AlertRunStep, CheckClaim, LoadAlert, ClaimAlert, SendAlert, outside
    <3>2. QED
      BY <3>1 DEF AlertsTypeInv, AlertsTypeOK
  <2>3. QED
    BY <2>1, <2>2
<1>6. claim' \in [AlertKeys -> {"none", "PENDING", "SENT"}]
  BY <1>2 DEF AlertRunStep, CheckClaim, LoadAlert, ClaimAlert, SendAlert, RecordAnswer, ClaimAfter, rows, AlertsTypeInv, AlertsTypeOK
<1>7. attempted' \subseteq AlertKeys
  BY <1>2 DEF AlertRunStep, CheckClaim, LoadAlert, ClaimAlert, SendAlert, RecordAnswer, rows, AlertsTypeInv, AlertsTypeOK
<1>8. delivered' \in [AlertKeys -> Nat]
  BY <1>2 DEF AlertRunStep, CheckClaim, LoadAlert, ClaimAlert, SendAlert, RecordAnswer, rows, AlertsTypeInv, AlertsTypeOK
<1>9. QED
  BY <1>3, <1>4, <1>5, <1>6, <1>7, <1>8 DEF AlertsTypeInv, AlertsTypeOK

LEMMA AlertsTyped == AlertsTypeInv /\ [AlertsNext]_alertVars => AlertsTypeInv'
<1> SUFFICES ASSUME AlertsTypeInv, [AlertsNext]_alertVars PROVE AlertsTypeInv'
  OBVIOUS
<1> USE DEF AlertsTypeInv
<1>1. ASSUME NEW k, Owes(k) PROVE owed' \subseteq AlertKeys
  BY <1>1 DEF Owes, AlertsTypeOK
<1>2. CASE DriveMoved
  <2>1. driveNow' \in [status : {"LIVE", "SUSPENDED", "OVER"}, version : 0..MaxVersion, suspensions : 0..MaxSuspensions]
    BY <1>2 DEF DriveMoved, AlertsTypeOK
  <2>2. QED
    BY <1>1, <1>2, <2>1 DEF DriveMoved, AlertsTypeOK, JobsInHand, rows
<1>3. CASE DriveSuspended
  <2>1. driveNow' \in [status : {"LIVE", "SUSPENDED", "OVER"}, version : 0..MaxVersion, suspensions : 0..MaxSuspensions]
    <3>1. driveNow.suspensions + 1 \in 0..MaxSuspensions
      BY <1>3 DEF DriveSuspended, AlertsTypeOK
    <3>2. driveNow' = [driveNow EXCEPT !.status = "SUSPENDED", !.suspensions = driveNow.suspensions + 1]
      BY <1>3 DEF DriveSuspended
    <3>3. QED
      BY <3>1, <3>2 DEF AlertsTypeOK
  <2>2. QED
    BY <1>1, <1>3, <2>1 DEF DriveSuspended, AlertsTypeOK, JobsInHand, rows
<1>4. CASE \E to \in {"LIVE", "OVER"} : DriveGoesOn(to)
  BY <1>4 DEF DriveGoesOn, AlertsTypeOK, JobsInHand, rows
<1>5. CASE CompanyWrites
  <2>1. written' \in BOOLEAN
    BY <1>5, Zenon DEF CompanyWrites
  <2>2. QED
    BY <1>5, <2>1 DEF CompanyWrites, AlertsTypeOK, JobsInHand, rows
<1>6. CASE SeatChanges
  <2>1. booking' \in [held : BOOLEAN, at : 0..MaxVersion]
    BY <1>6 DEF SeatChanges, AlertsTypeOK
  <2>2. QED
    BY <1>6, <2>1 DEF SeatChanges, AlertsTypeOK, JobsInHand, rows
<1>7. CASE ChatChanges
  <2>1. chat' \in BOOLEAN
    BY <1>7, Zenon DEF ChatChanges
  <2>2. QED
    BY <1>7, <2>1 DEF ChatChanges, AlertsTypeOK, JobsInHand, rows
<1>8. ASSUME NEW k \in AlertKeys, QueueAlert(k) PROVE AlertsTypeInv'
  BY <1>8, QueuedTyped DEF QueueAlert, AlertsTypeOK, JobsInHand, outside, rows
<1>9. ASSUME NEW k \in AlertKeys, LoseCallToQueue(k) PROVE AlertsTypeInv'
  BY <1>9 DEF LoseCallToQueue, Fault, AlertsTypeOK, JobsInHand, outside, rows
<1>10. ASSUME NEW k \in AlertKeys, ForgetDone(k) PROVE AlertsTypeInv'
  BY <1>10, JobMoves, AlertValuesTyped DEF ForgetDone, AlertsTypeOK, JobsInHand, outside, rows
<1>11. ASSUME NEW k \in AlertKeys, NEW dead \in BOOLEAN, LoseAlertLock(k, dead) PROVE AlertsTypeInv'
  <2> DEFINE next == IF alertJob[k].stalls = 1 THEN "failed" ELSE "waiting"
             once == 1
             job == [alertJob[k] EXCEPT !.state = next, !.stalls = once, !.run = NoRun]
  <2>1. alertJob[k] \in AlertJob /\ alertJob[k].made < AlertAttempts /\ alertJob[k].run \in AlertRuns
    BY <1>11 DEF LoseAlertLock, AlertsTypeOK, JobsInHand
  <2>2. next \in {"failed", "waiting"} /\ once \in 0..1
    OBVIOUS
  <2>3. alertJob' = [alertJob EXCEPT ![k] = job]
    BY <1>11 DEF LoseAlertLock
  <2> HIDE DEF next, once
  <2>7. job \in AlertJob /\ (job.state \in {"waiting", "active"} => job.made < AlertAttempts)
        /\ job.state # "active" /\ job.run = NoRun
    BY <2>1, <2>2 DEF AlertJob
  <2> HIDE DEF job
  <2>4. /\ alertJob' \in [AlertKeys -> AlertJob]
        /\ \A j \in AlertKeys :
             /\ alertJob'[j].state \in {"waiting", "active"} => alertJob'[j].made < AlertAttempts
             /\ alertJob'[j].state = "active" <=> alertJob'[j].run \in AlertRuns
    BY <2>3, <2>7, JobMoves
  <2>5. /\ alertRun' \in [AlertRuns -> AlertRun]
        /\ \A w \in AlertRuns : alertRun'[w].at # "idle" => alertRun'[w].alert \in AlertKeys
    BY <1>11, <2>1, AlertValuesTyped DEF LoseAlertLock, AlertsTypeOK, JobsInHand
  <2>6. QED
    BY <1>11, <2>4, <2>5 DEF LoseAlertLock, Fault, AlertsTypeOK, JobsInHand, outside, rows
<1>12. ASSUME NEW k \in AlertKeys, NEW w \in AlertRuns, TakeAlert(w, k) PROVE AlertsTypeInv'
  <2> DEFINE job == [alertJob[k] EXCEPT !.state = "active", !.run = w]
  <2>1. alertJob[k] \in AlertJob /\ alertJob[k].made < AlertAttempts
    BY <1>12 DEF TakeAlert, AlertsTypeOK, JobsInHand
  <2>2. job \in AlertJob /\ job.made < AlertAttempts /\ job.state = "active" /\ job.run \in AlertRuns
    BY <2>1 DEF AlertJob
  <2>3. alertJob' = [alertJob EXCEPT ![k] = job]
    BY <1>12 DEF TakeAlert
  <2> HIDE DEF job
  <2>4. /\ alertJob' \in [AlertKeys -> AlertJob]
        /\ \A j \in AlertKeys :
             /\ alertJob'[j].state \in {"waiting", "active"} => alertJob'[j].made < AlertAttempts
             /\ alertJob'[j].state = "active" <=> alertJob'[j].run \in AlertRuns
    BY <2>2, <2>3, JobMoves
  <2>5. /\ alertRun' \in [AlertRuns -> AlertRun]
        /\ \A v \in AlertRuns : alertRun'[v].at # "idle" => alertRun'[v].alert \in AlertKeys
    BY <1>12 DEF TakeAlert, AlertsTypeOK, JobsInHand, AlertRun
  <2>6. QED
    BY <1>12, <2>4, <2>5 DEF TakeAlert, AlertsTypeOK, JobsInHand, outside, rows
<1>13. CASE SweepMessages
  <2>1. CASE Message \in AlertKeys
    BY <1>13, <2>1, QueuedTyped DEF SweepMessages, AlertsTypeOK, JobsInHand, outside, rows
  <2>2. CASE Message \notin AlertKeys
    <3>1. alertJob' = alertJob
      BY <1>13, <2>2 DEF SweepMessages, Queued, AlertsTypeOK
    <3>2. QED
      BY <1>13, <3>1 DEF SweepMessages, AlertsTypeOK, JobsInHand, outside, rows
  <2>3. QED
    BY <2>1, <2>2
<1>14. CASE UNCHANGED alertVars
  BY <1>14 DEF alertVars, AlertsTypeOK, JobsInHand
<1>15. QED
  BY <1>2, <1>3, <1>4, <1>5, <1>6, <1>7, <1>8, <1>9, <1>10, <1>11, <1>12, <1>13, <1>14, AlertRunStepTyped DEF AlertsNext

-----------------------------------------------------------------------------
(* Claims. *)

AlertRows == SendersHoldTheClaim /\ ClaimsTell /\ NoSecondCopy

LEMMA AlertsInvInit == AlertsInit => AlertsInv
<1> SUFFICES ASSUME AlertsInit PROVE AlertsInv
  OBVIOUS
<1>1. AlertsTypeInv
  BY AlertsTypeInvInit
<1>2. \A w \in AlertRuns : alertRun[w] = IdleRun
  BY DEF AlertsInit
<1>3. SendersHoldTheClaim
  BY <1>2, AlertValuesTyped DEF SendersHoldTheClaim, Sending, Heard
<1>4. ClaimsTell /\ BookedAtKnownTimes /\ NoSecondCopy
  BY DEF AlertsInit, ClaimsTell, BookedAtKnownTimes, NoSecondCopy
<1>5. QED
  BY <1>1, <1>3, <1>4 DEF AlertsInv

\* Runs that end, or go on without having sent, disturb no claim.
LEMMA RunsThatDoNotSend ==
  ASSUME AlertRows, UNCHANGED <<claim, delivered>>,
         \A w \in AlertRuns : alertRun'[w] = alertRun[w] \/ alertRun'[w].at \in {"idle", "check", "load", "claim"}
  PROVE  AlertRows'
<1>1. \A w \in AlertRuns : Sending(w)' => alertRun'[w] = alertRun[w] /\ Sending(w)
  BY DEF Sending, Heard
<1>2. SendersHoldTheClaim'
  BY <1>1 DEF AlertRows, SendersHoldTheClaim, Sending, Heard
<1>3. QED
  BY <1>2 DEF AlertRows, ClaimsTell, NoSecondCopy

\* The partial unique index: whoever gets the claim is alone with it.
LEMMA ClaimKeepsRows ==
  ASSUME AlertsTypeInv, AlertRows, NEW w \in AlertRuns, ClaimAlert(w)
  PROVE  AlertRows'
<1> DEFINE k == alertRun[w].alert
<1>1. alertRun[w].at = "claim" /\ k \in AlertKeys
  BY DEF ClaimAlert, AlertsTypeInv, JobsInHand
<1>2. CASE claim[k] = "none"
  <2>1. RunGoes(w, "send") /\ claim' = [claim EXCEPT ![k] = "PENDING"] /\ delivered' = delivered
    BY <1>2 DEF ClaimAlert, ClaimFree
  <2>2. \A v \in AlertRuns : /\ alertRun'[v].alert = alertRun[v].alert
                             /\ alertRun'[v].at = IF v = w THEN "send" ELSE alertRun[v].at
    BY <1>1, <2>1, RunGoesTyped
  <2>3. \A j \in AlertKeys : claim'[j] = IF j = k THEN "PENDING" ELSE claim[j]
    BY <2>1 DEF AlertsTypeInv, AlertsTypeOK
  <2>4. delivered[k] = 0 /\ \A v \in AlertRuns : Sending(v) => alertRun[v].alert # k
    BY <1>1, <1>2 DEF AlertRows, ClaimsTell, SendersHoldTheClaim
  <2>5. \A v \in AlertRuns : Sending(v) => alertRun[v].alert \in AlertKeys
    BY DEF Sending, Heard, AlertsTypeInv, JobsInHand
  <2>6. \A v \in AlertRuns : Sending(v)' <=> (v = w \/ Sending(v))
    BY <2>2 DEF Sending
  <2> HIDE DEF k
  <2>7. (\A v \in AlertRuns : Sending(v) => claim[alertRun[v].alert] = "PENDING")'
    BY <1>1, <2>2, <2>3, <2>5, <2>6 DEF AlertRows, SendersHoldTheClaim, k
  <2>8. (\A u, v \in AlertRuns : Sending(u) /\ Sending(v) /\ alertRun[u].alert = alertRun[v].alert => u = v)'
    BY <2>2, <2>4, <2>6 DEF AlertRows, SendersHoldTheClaim, k
  <2>9. (\A v \in AlertRuns :
           /\ alertRun[v].at \in {"send", "refused", "limited", "unreachable"} => delivered[alertRun[v].alert] = 0
           /\ alertRun[v].at = "sent" => delivered[alertRun[v].alert] > 0)'
    BY <2>1, <2>2, <2>4 DEF AlertRows, SendersHoldTheClaim, k
  <2>10. (ClaimsTell /\ NoSecondCopy)'
    BY <2>1, <2>3 DEF AlertRows, ClaimsTell, NoSecondCopy
  <2>11. QED
    BY <2>7, <2>8, <2>9, <2>10 DEF AlertRows, SendersHoldTheClaim
<1>3. CASE claim[k] # "none"
  <2>1. Ends(w, "done") /\ UNCHANGED <<claim, delivered>>
    BY <1>3 DEF ClaimAlert, ClaimFree
  <2>2. \A v \in AlertRuns : alertRun'[v] = IF v = w THEN IdleRun ELSE alertRun[v]
    BY <1>1, <2>1, EndsTyped
  <2>3. QED
    BY <2>1, <2>2, AlertValuesTyped, RunsThatDoNotSend
<1>4. QED
  BY <1>2, <1>3

\* What arrives arrives once: nothing had, under this claim.
LEMMA SendKeepsRows ==
  ASSUME AlertsTypeInv, AlertRows, NEW w \in AlertRuns, SendAlert(w)
  PROVE  AlertRows'
<1> DEFINE k == alertRun[w].alert
<1>1. alertRun[w].at = "send" /\ k \in AlertKeys /\ claim' = claim
  BY DEF SendAlert, AlertsTypeInv, JobsInHand
<1>2. PICK answer \in {"sent", "refused", "limited", "unreachable", "unknown"}, arrives \in BOOLEAN :
        /\ answer = "sent" => arrives
        /\ answer \in {"refused", "limited", "unreachable"} => ~arrives
        /\ RunGoes(w, answer)
        /\ delivered' = IF arrives THEN [delivered EXCEPT ![k] = @ + 1] ELSE delivered
  BY DEF SendAlert
<1>3. \A v \in AlertRuns : /\ alertRun'[v].alert = alertRun[v].alert
                           /\ alertRun'[v].at = IF v = w THEN answer ELSE alertRun[v].at
  BY <1>1, <1>2, RunGoesTyped DEF Heard
<1>4. delivered[k] = 0 /\ claim[k] = "PENDING" /\ Sending(w)
  BY <1>1 DEF AlertRows, SendersHoldTheClaim, Sending
<1>5. /\ \A j \in AlertKeys : j # k => delivered'[j] = delivered[j]
      /\ delivered'[k] = IF arrives THEN 1 ELSE 0
  BY <1>1, <1>2, <1>4 DEF AlertsTypeInv, AlertsTypeOK
<1>6. \A v \in AlertRuns : Sending(v)' <=> Sending(v)
  BY <1>3, <1>4 DEF Sending, Heard
<1>7. \A v \in AlertRuns : Sending(v) => alertRun[v].alert \in AlertKeys /\ (v # w => alertRun[v].alert # k)
  BY <1>4 DEF Sending, Heard, AlertRows, SendersHoldTheClaim, AlertsTypeInv, JobsInHand
<1> HIDE DEF k
<1>8. (\A v \in AlertRuns : Sending(v) => claim[alertRun[v].alert] = "PENDING")'
  BY <1>1, <1>3, <1>6 DEF AlertRows, SendersHoldTheClaim
<1>9. (\A u, v \in AlertRuns : Sending(u) /\ Sending(v) /\ alertRun[u].alert = alertRun[v].alert => u = v)'
  BY <1>3, <1>6 DEF AlertRows, SendersHoldTheClaim
<1>10. (\A v \in AlertRuns :
          /\ alertRun[v].at \in {"send", "refused", "limited", "unreachable"} => delivered[alertRun[v].alert] = 0
          /\ alertRun[v].at = "sent" => delivered[alertRun[v].alert] > 0)'
  <2>1. CASE arrives
    BY <1>2, <1>3, <1>5, <1>7, <2>1 DEF AlertRows, SendersHoldTheClaim, Sending, Heard, k
  <2>2. CASE ~arrives
    BY <1>2, <1>3, <1>5, <1>7, <2>2 DEF AlertRows, SendersHoldTheClaim, Sending, Heard, k
  <2>3. QED
    BY <2>1, <2>2
<1>11. (ClaimsTell /\ NoSecondCopy)'
  BY <1>1, <1>4, <1>5 DEF AlertRows, ClaimsTell, NoSecondCopy
<1>12. QED
  BY <1>8, <1>9, <1>10, <1>11 DEF AlertRows, SendersHoldTheClaim

\* Only an answer that says nothing arrived gives the claim up.
LEMMA AnswerKeepsRows ==
  ASSUME AlertsTypeInv, AlertRows, NEW w \in AlertRuns, RecordAnswer(w)
  PROVE  AlertRows'
<1> DEFINE answer == alertRun[w].at
           k == alertRun[w].alert
<1>1. answer \in Heard /\ k \in AlertKeys /\ delivered' = delivered /\ Sending(w)
  BY DEF RecordAnswer, AlertsTypeInv, JobsInHand, Heard, Sending
<1>2. \A v \in AlertRuns : alertRun'[v] = IF v = w THEN IdleRun ELSE alertRun[v]
  <2>1. PICK to \in {"done", "retry", "later", "failed"} : Ends(w, to)
    BY DEF RecordAnswer
  <2>2. QED
    BY <1>1, <2>1, EndsTyped DEF Heard
<1>3. \A j \in AlertKeys : claim'[j] = IF j = k THEN ClaimAfter(answer) ELSE claim[j]
  BY DEF RecordAnswer, AlertsTypeInv, AlertsTypeOK
<1>4. \A v \in AlertRuns : Sending(v)' => /\ v # w /\ Sending(v) /\ alertRun'[v] = alertRun[v]
                                          /\ alertRun[v].alert \in AlertKeys /\ alertRun[v].alert # k
  BY <1>1, <1>2, AlertValuesTyped DEF Sending, Heard, AlertRows, SendersHoldTheClaim, AlertsTypeInv, JobsInHand
<1>5. (ClaimAfter(answer) = "none" => delivered[k] = 0) /\ (ClaimAfter(answer) = "SENT" => delivered[k] > 0)
  BY <1>1 DEF ClaimAfter, Heard, AlertRows, SendersHoldTheClaim
<1> HIDE DEF k, answer
<1>6. SendersHoldTheClaim'
  BY <1>1, <1>3, <1>4 DEF AlertRows, SendersHoldTheClaim, Sending, Heard
<1>7. (ClaimsTell /\ NoSecondCopy)'
  BY <1>1, <1>3, <1>5 DEF AlertRows, ClaimsTell, NoSecondCopy
<1>8. QED
  BY <1>6, <1>7 DEF AlertRows

LEMMA RowsKept == AlertsTypeInv /\ AlertRows /\ [AlertsNext]_alertVars => AlertRows'
<1> SUFFICES ASSUME AlertsTypeInv, AlertRows, [AlertsNext]_alertVars PROVE AlertRows'
  OBVIOUS
<1>1. CASE UNCHANGED <<alertRun, claim, delivered>>
  BY <1>1, RunsThatDoNotSend
<1>2. ASSUME NEW k \in AlertKeys, NEW dead \in BOOLEAN, LoseAlertLock(k, dead) PROVE AlertRows'
  <2>1. \A w \in AlertRuns : alertRun'[w] = alertRun[w] \/ alertRun'[w] = IdleRun
    BY <1>2 DEF LoseAlertLock, AlertsTypeInv, AlertsTypeOK
  <2>2. UNCHANGED <<claim, delivered>>
    BY <1>2 DEF LoseAlertLock, rows
  <2>3. QED
    BY <2>1, <2>2, AlertValuesTyped, RunsThatDoNotSend
<1>3. ASSUME NEW k \in AlertKeys, NEW w \in AlertRuns, TakeAlert(w, k) PROVE AlertRows'
  <2>1. \A v \in AlertRuns : alertRun'[v] = alertRun[v] \/ alertRun'[v].at = "check"
    BY <1>3 DEF TakeAlert, AlertsTypeInv, AlertsTypeOK
  <2>2. UNCHANGED <<claim, delivered>>
    BY <1>3 DEF TakeAlert, rows
  <2>3. QED
    BY <2>1, <2>2, RunsThatDoNotSend
<1>4. ASSUME NEW w \in AlertRuns, CheckClaim(w) \/ LoadAlert(w) PROVE AlertRows'
  <2>1. alertRun[w].at # "idle" /\ UNCHANGED <<claim, delivered>>
    BY <1>4 DEF CheckClaim, LoadAlert, rows
  <2>2. Ends(w, "done") \/ RunGoes(w, "load") \/ RunGoes(w, "claim")
    BY <1>4 DEF CheckClaim, LoadAlert
  <2>3. \A v \in AlertRuns : alertRun'[v] = alertRun[v] \/ alertRun'[v].at \in {"idle", "load", "claim"}
    <3>1. CASE Ends(w, "done")
      BY <2>1, <3>1, EndsTyped, AlertValuesTyped
    <3>2. CASE RunGoes(w, "load") \/ RunGoes(w, "claim")
      BY <3>2 DEF RunGoes, AlertsTypeInv, AlertsTypeOK, AlertRun
    <3>3. QED
      BY <2>2, <3>1, <3>2
  <2>4. QED
    BY <2>1, <2>3, RunsThatDoNotSend
<1>5. CASE \E w \in AlertRuns : ClaimAlert(w) \/ SendAlert(w) \/ RecordAnswer(w)
  BY <1>5, ClaimKeepsRows, SendKeepsRows, AnswerKeepsRows
<1>6. QED
  BY <1>1, <1>2, <1>3, <1>4, <1>5
     DEF AlertsNext, AlertRunStep, DriveMoved, DriveSuspended, CompanyWrites, SeatChanges, ChatChanges, DriveGoesOn,
         QueueAlert, LoseCallToQueue, ForgetDone, SweepMessages, rows, alertVars

LEMMA TimesKept == AlertsTypeInv /\ BookedAtKnownTimes /\ [AlertsNext]_alertVars => BookedAtKnownTimes'
<1> SUFFICES ASSUME AlertsTypeInv, BookedAtKnownTimes, [AlertsNext]_alertVars PROVE BookedAtKnownTimes'
  OBVIOUS
<1> USE DEF AlertsTypeInv, AlertsTypeOK, BookedAtKnownTimes
<1>1. CASE UNCHANGED <<driveNow, booking>>
  BY <1>1
<1>2. CASE DriveMoved
  BY <1>2 DEF DriveMoved
<1>3. CASE DriveSuspended \/ \E to \in {"LIVE", "OVER"} : DriveGoesOn(to)
  BY <1>3 DEF DriveSuspended, DriveGoesOn
<1>4. CASE SeatChanges
  BY <1>4 DEF SeatChanges
<1>5. QED
  BY <1>1, <1>2, <1>3, <1>4
     DEF AlertsNext, AlertRunStep, CompanyWrites, ChatChanges, QueueAlert, LoseCallToQueue, ForgetDone, LoseAlertLock,
         TakeAlert, SweepMessages, CheckClaim, LoadAlert, ClaimAlert, SendAlert, RecordAnswer, outside, alertVars

\* An absence that counts was of someone who knew the time.
LEMMA CountedOnlyIfKnown == AlertsInv => HeldAgainstOnlyIfTold
<1> SUFFICES ASSUME AlertsInv, ~Excused, booking.at # driveNow.version
             PROVE  delivered[MovedTo(driveNow.version)] > 0
  BY DEF HeldAgainstOnlyIfTold
<1> USE DEF AlertsInv, AlertsTypeInv, AlertsTypeOK
<1>1. driveNow.version > booking.at /\ claim[MovedTo(driveNow.version)] = "SENT"
  BY DEF Excused, BookedAtKnownTimes
<1>2. MovedTo(driveNow.version) \in AlertKeys
  BY <1>1 DEF MovedTo, AlertKeys, BookedAtKnownTimes
<1>3. QED
  BY <1>1, <1>2 DEF ClaimsTell

-----------------------------------------------------------------------------
(* Theorems. *)

LEMMA AlertsInductive == AlertsSpec => []AlertsInv
<1>1. AlertsInv /\ [AlertsNext]_alertVars => AlertsInv'
  BY AlertsTyped, RowsKept, TimesKept DEF AlertsInv, AlertRows
<1>2. QED
  BY <1>1, AlertsInvInit, PTL DEF AlertsSpec

\* Every variable of the alerts keeps its type, and a job that may still run has
\* attempts left (BullMQ's bookkeeping, as ALERT_JOB_OPTIONS asks for it).
THEOREM AlertsTypeCorrect == AlertsSpec => []AlertsTypeOK
<1>1. AlertsInv => AlertsTypeOK
  BY DEF AlertsInv, AlertsTypeInv
<1>2. QED
  BY <1>1, AlertsInductive, PTL

\* No candidate gets the same alert twice, whatever is retried, queued again,
\* run by two at once or answered by nobody (processAlert).
THEOREM NothingGoesOutTwice == AlertsSpec => []NoSecondCopy
<1>1. AlertsInv => NoSecondCopy
  BY DEF AlertsInv
<1>2. QED
  BY <1>1, AlertsInductive, PTL

\* An absence is held against a candidate only if they booked at the time the
\* drive ended up at, or a notice of it reached them (absenceExcusedByReschedule).
THEOREM AbsenceCountsIfKnown == AlertsSpec => []HeldAgainstOnlyIfTold
  BY CountedOnlyIfKnown, AlertsInductive, PTL

HIDE AlertsAssumption

-----------------------------------------------------------------------------
(***************************************************************************)
(* Why a fan-out skips nobody who matched throughout, for every number of  *)
(* candidates, page size and limit, though people come to match and stop   *)
(* between two pages.  A page is everybody beyond the cursor up to its own *)
(* last, and one shorter than asked for is everybody beyond the cursor.    *)
(***************************************************************************)

\* Those who matched throughout match now, and the cursor has passed only
\* those of them whose alert is queued.
FanoutInv ==
    /\ FanoutTypeOK
    /\ fanOut.at # "idle" => steady \subseteq matching
    /\ fanOut.at = "paging" => {c \in steady : c <= fanOut.after} \subseteq alerts
    /\ fanOut.at = "ended" => steady \subseteq alerts \/ fanOut.targeted >= fanOut.limit
    /\ fanOut.targeted <= fanOut.limit

\* The members of a set of candidates up to one of them.
AtMost(S, c) == {d \in S : d <= c}
\* The first of them, size in number.
FirstOf(S, size) == {c \in S : Cardinality(AtMost(S, c)) <= size}

LEMMA NearAreNumbers == Near \subseteq Nat
  BY FanoutAssumption DEF Near

\* Every set of candidates is finite, and a smaller one has no more members.
LEMMA FewerThan ==
    ASSUME NEW S \in SUBSET Near, NEW R \in SUBSET S
    PROVE  /\ IsFiniteSet(S) /\ IsFiniteSet(R)
           /\ Cardinality(S) \in Nat /\ Cardinality(R) \in Nat /\ Cardinality(R) <= Cardinality(S)
<1>1. MaxMatches \in Int BY FanoutAssumption
<1>2. IsFiniteSet(Near) BY <1>1, FS_Interval DEF Near
<1>3. IsFiniteSet(S) BY <1>2, FS_Subset
<1> QED BY <1>3, FS_Subset, FS_CardinalityType

\* Whoever is nearer than somebody on a page is on it.
LEMMA PagesAreFirst ==
    ASSUME NEW S \in SUBSET Near, NEW size \in Nat, NEW c \in FirstOf(S, size), NEW d \in S, d <= c
    PROVE  d \in FirstOf(S, size)
<1> \A x \in S : x \in Nat BY NearAreNumbers
<1>1. AtMost(S, d) \in SUBSET AtMost(S, c) /\ AtMost(S, c) \in SUBSET Near
  BY DEF AtMost, FirstOf
<1>2. /\ Cardinality(AtMost(S, d)) <= Cardinality(AtMost(S, c))
      /\ Cardinality(AtMost(S, d)) \in Nat /\ Cardinality(AtMost(S, c)) \in Nat
  BY <1>1, FewerThan
<1> QED BY <1>2 DEF FirstOf

\* A page has no more than were asked for.
LEMMA PagesAreBounded ==
    ASSUME NEW S \in SUBSET Near, NEW size \in Nat
    PROVE  Cardinality(FirstOf(S, size)) \in Nat /\ Cardinality(FirstOf(S, size)) <= size
<1> DEFINE batch == FirstOf(S, size)
<1>1. batch \in SUBSET S /\ batch \in SUBSET Near BY DEF FirstOf
<1>2. Cardinality(batch) \in Nat BY <1>1, FewerThan
<1>3. CASE batch = {} BY <1>2, <1>3, FS_EmptySet
<1>4. CASE batch # {}
  <2>1. batch \in SUBSET (0..MaxMatches) /\ MaxMatches \in Nat BY <1>1, FanoutAssumption DEF Near
  <2> HIDE DEF batch
  <2>2. PICK m \in batch : \A y \in batch : y <= m BY <1>4, <2>1, GreatestOf
  <2>3. batch \in SUBSET AtMost(S, m) /\ AtMost(S, m) \in SUBSET Near BY <1>1, <2>2 DEF AtMost
  <2>4. Cardinality(batch) <= Cardinality(AtMost(S, m)) /\ Cardinality(AtMost(S, m)) \in Nat BY <2>3, FewerThan
  <2>5. Cardinality(AtMost(S, m)) <= size BY <2>2 DEF batch, FirstOf
  <2> QED BY <1>2, <2>4, <2>5 DEF batch
<1> QED BY <1>3, <1>4

\* A page shorter than asked for leaves nobody out.
LEMMA ShortPagesAreLast ==
    ASSUME NEW S \in SUBSET Near, NEW size \in Nat, Cardinality(FirstOf(S, size)) < size
    PROVE  FirstOf(S, size) = S
<1> DEFINE batch == FirstOf(S, size)
           rest == S \ batch
<1> SUFFICES ASSUME rest # {} PROVE FALSE BY DEF FirstOf
<1>1. rest \in SUBSET Nat BY NearAreNumbers
<1>2. PICK c \in rest : \A d \in rest : c <= d BY <1>1, LeastOf
<1>3. AtMost(S, c) \subseteq batch \cup {c} BY <1>1, <1>2 DEF AtMost, Near
<1>4. batch \in SUBSET Near /\ batch \cup {c} \in SUBSET Near /\ c \notin batch BY DEF FirstOf
<1>5. IsFiniteSet(batch) /\ Cardinality(batch) \in Nat BY <1>4, FewerThan
<1>6. Cardinality(batch \cup {c}) = Cardinality(batch) + 1 BY <1>4, <1>5, FS_AddElement
<1>7. AtMost(S, c) \in SUBSET (batch \cup {c}) BY <1>3
<1>8. Cardinality(AtMost(S, c)) <= Cardinality(batch \cup {c}) /\ Cardinality(AtMost(S, c)) \in Nat
  BY <1>4, <1>7, FewerThan
<1>9. Cardinality(batch) + 1 <= size BY <1>5
<1>10. Cardinality(AtMost(S, c)) <= size BY <1>5, <1>6, <1>8, <1>9
<1>11. c \in batch BY <1>10 DEF FirstOf
<1> QED BY <1>4, <1>11

\* One page: alerts for everybody beyond the cursor up to the page's last.
LEMMA NextPageKeeps ==
    ASSUME FanoutInv, NextPage
    PROVE  FanoutInv'
<1> USE FanoutAssumption DEF FanoutInv
<1> DEFINE left == fanOut.limit - fanOut.targeted
           size == IF PageSize <= left THEN PageSize ELSE left
           beyond == {c \in matching : Beyond(c)}
           batch == {c \in beyond : Cardinality({d \in beyond : d <= c}) <= size}
           count == Cardinality(batch)
           last == CHOOSE c \in batch : \A d \in batch : d <= c
           over == count < size \/ fanOut.targeted + size >= fanOut.limit
<1>1. /\ fanOut.targeted \in Nat /\ fanOut.limit \in Nat /\ fanOut.after \in 0..MaxMatches
      /\ fanOut.at = "paging" /\ left \in Nat
  BY DEF NextPage, FanoutTypeOK
<1>2. size \in Nat /\ size <= left BY <1>1
<1>3. beyond \in SUBSET Near /\ batch \in SUBSET beyond
  BY DEF FanoutTypeOK
<1>4. batch = FirstOf(beyond, size)
  BY DEF FirstOf, AtMost
<1>5. /\ alerts' = alerts \cup batch
      /\ fanOut' = IF over THEN [fanOut EXCEPT !.at = "ended", !.targeted = @ + count]
                   ELSE [fanOut EXCEPT !.after = last, !.targeted = @ + count]
      /\ UNCHANGED <<matching, steady, verified, noticed, cutShort, movedOn>>
  BY DEF NextPage
<1> HIDE DEF batch
<1>6. count \in Nat /\ count <= size
  BY <1>2, <1>3, <1>4, PagesAreBounded
<1>7. fanOut.targeted + count \in Nat /\ fanOut.targeted + count <= fanOut.limit
  BY <1>1, <1>2, <1>6
<1>8. count < size => batch = beyond
  BY <1>2, <1>3, <1>4, ShortPagesAreLast
<1>9. steady \subseteq matching BY <1>1
<1>10. alerts' \subseteq Near /\ noticed' \subseteq alerts'
  BY <1>3, <1>5 DEF FanoutTypeOK
<1>11. \A c \in steady : c \in Near /\ (c <= fanOut.after => c \in alerts) /\ (c > fanOut.after => c \in beyond)
  BY <1>1, <1>9 DEF Beyond, FanoutTypeOK, Near
<1>12. CASE over
  <2>1. /\ fanOut'.at = "ended" /\ fanOut'.after = fanOut.after /\ fanOut'.limit = fanOut.limit
        /\ fanOut'.targeted = fanOut.targeted + count
    BY <1>5, <1>12 DEF FanoutTypeOK
  <2>2. fanOut' \in [at : {"idle", "paging", "ended"}, after : 0..MaxMatches, targeted : Nat, limit : Nat]
    BY <1>5, <1>7, <1>12 DEF FanoutTypeOK
  <2>3. FanoutTypeOK' BY <1>5, <1>10, <2>2 DEF FanoutTypeOK
  <2>4. steady \subseteq alerts' \/ fanOut'.targeted >= fanOut'.limit
    <3>1. CASE count < size
      <4>1. \A c \in steady : c <= fanOut.after \/ c > fanOut.after BY <1>1, <1>11 DEF Near
      <4> QED BY <1>5, <1>8, <1>11, <3>1, <4>1
    <3>2. CASE ~(count < size)
      <4>1. count = size BY <1>2, <1>6, <3>2
      <4> QED BY <1>1, <1>6, <1>12, <2>1, <4>1
    <3> QED BY <3>1, <3>2
  <2> QED BY <1>5, <1>7, <1>9, <2>1, <2>3, <2>4
<1>13. CASE ~over
  <2>1. count = size /\ size # 0
    <3>1. size < left BY <1>1, <1>2, <1>13
    <3>2. size = PageSize BY <1>1, <3>1
    <3> QED BY <1>2, <1>6, <1>13, <3>2
  <2>2. batch # {} BY <2>1, FS_EmptySet
  <2>3. batch \in SUBSET (0..MaxMatches) BY <1>3 DEF Near
  <2>4. last \in batch /\ \A d \in batch : d <= last
    <3>1. \E x \in batch : \A y \in batch : y <= x BY <2>2, <2>3, GreatestOf
    <3> QED BY <3>1
  <2>5. last \in 0..MaxMatches /\ last \in Near BY <1>3, <2>3, <2>4
  <2> HIDE DEF last
  <2>6. /\ fanOut'.at = "paging" /\ fanOut'.after = last /\ fanOut'.limit = fanOut.limit
        /\ fanOut'.targeted = fanOut.targeted + count
        /\ fanOut' \in [at : {"idle", "paging", "ended"}, after : 0..MaxMatches, targeted : Nat, limit : Nat]
    BY <1>1, <1>5, <1>7, <1>13, <2>5 DEF FanoutTypeOK
  <2>7. \A c \in beyond : c <= last => c \in batch
    BY <1>2, <1>3, <1>4, <2>4, PagesAreFirst
  <2>8. \A c \in steady : c <= last => c \in alerts'
    <3>1. \A c \in steady : c <= fanOut.after \/ c > fanOut.after BY <1>1, <1>11 DEF Near
    <3> QED BY <1>5, <1>11, <2>7, <3>1
  <2>9. FanoutTypeOK' BY <1>5, <1>10, <2>6 DEF FanoutTypeOK
  <2> QED BY <1>5, <1>7, <1>9, <2>6, <2>8, <2>9
<1> QED BY <1>12, <1>13

\* Everything else that happens.
LEMMA OthersKeep ==
    ASSUME FanoutInv, [FanoutNext]_fanoutVars, ~NextPage
    PROVE  FanoutInv'
<1> USE FanoutAssumption DEF FanoutInv, FanoutTypeOK
<1>1. CASE \E c \in Near : MatchingChanges(c)
  BY <1>1 DEF MatchingChanges
<1>2. CASE \E c \in Near : RunAlert(c)
  BY <1>2 DEF RunAlert
<1>3. CASE ReviewDecided
  BY <1>3 DEF ReviewDecided
<1>4. CASE BeginFanOut
  <2>1. /\ fanOut' = [NoFanOut EXCEPT !.at = "paging", !.limit = IF verified THEN MaxMatches ELSE NearestOnly]
        /\ steady' = matching
        /\ UNCHANGED <<matching, verified, alerts, noticed, cutShort, movedOn>>
    BY <1>4 DEF BeginFanOut
  <2> DEFINE most == IF verified THEN MaxMatches ELSE NearestOnly
  <2>4. most \in Nat BY FanoutAssumption
  <2> HIDE DEF most
  <2>5. fanOut' = [NoFanOut EXCEPT !.at = "paging", !.limit = most] BY <2>1 DEF most
  <2>6. fanOut' = [at |-> "paging", after |-> 0, targeted |-> 0, limit |-> most] BY <2>5 DEF NoFanOut
  <2>2. /\ fanOut'.at = "paging" /\ fanOut'.after = 0 /\ fanOut'.targeted = 0 /\ fanOut'.limit \in Nat
        /\ fanOut' \in [at : {"idle", "paging", "ended"}, after : 0..MaxMatches, targeted : Nat, limit : Nat]
    BY <2>4, <2>6
  <2>3. {c \in steady' : c <= 0} = {} BY <2>1 DEF Near
  <2> QED BY <2>1, <2>2, <2>3
<1>5. CASE EndFanOut
  BY <1>5 DEF EndFanOut, NoFanOut
<1>6. CASE CutFanOutShort
  BY <1>6 DEF CutFanOutShort, NoFanOut
<1>7. CASE UNCHANGED fanoutVars
  BY <1>7 DEF fanoutVars
<1> QED BY <1>1, <1>2, <1>3, <1>4, <1>5, <1>6, <1>7 DEF FanoutNext

THEOREM FanoutInvariant == FanoutSpec => []FanoutInv
<1>1. FanoutInit => FanoutInv
  BY FanoutAssumption DEF FanoutInit, FanoutInv, FanoutTypeOK, NoFanOut
<1>2. FanoutInv /\ [FanoutNext]_fanoutVars => FanoutInv'
  BY NextPageKeeps, OthersKeep
<1> QED BY <1>1, <1>2, PTL DEF FanoutSpec

\* Every variable of the fan-out keeps its type.
THEOREM FanoutTypeCorrect == FanoutSpec => []FanoutTypeOK
<1>1. FanoutInv => FanoutTypeOK BY DEF FanoutInv
<1> QED BY <1>1, FanoutInvariant, PTL

\* Whoever matched throughout a fan-out has been alerted once it is past them,
\* and by its end, unless the limit of an unverified company was reached.
THEOREM FanOutsSkipNobody == FanoutSpec => []PagesSkipNobody
<1>1. FanoutInv => PagesSkipNobody BY DEF FanoutInv, PagesSkipNobody
<1> QED BY <1>1, FanoutInvariant, PTL
===============================================================================
