------------------------------ MODULE Messages ------------------------------
(***************************************************************************)
(* The conversation about one application: messages sent from both sides   *)
(* at once, the threads people have on screen, and how far each side has   *)
(* read.                                                                   *)
(*                                                                         *)
(* A request answers with the whole thread, read in two steps, and answers *)
(* may arrive in any order.  The page that shows one marks the thread read *)
(* up to the last message on it.                                           *)
(***************************************************************************)
EXTENDS Integers, FiniteSets

CONSTANTS
    ThreadCalls,   \* requests open at once, from any page of either side
    MaxMessages    \* bound on messages

ASSUME MessagesAssumption == MaxMessages \in Nat

Sides == {"COMPANY", "CANDIDATE"}
Seqs == 1..MaxMessages
NoThreadCall == [at |-> "idle", side |-> "COMPANY", seq |-> 0, readSeq |-> 0, seen |-> {}]
ThreadCall == [at : {"idle", "send", "commit", "view", "list", "show", "mark"}, side : Sides,
         seq : 0..MaxMessages, readSeq : 0..MaxMessages, seen : SUBSET Seqs]

VARIABLES
    thread,      \* message_threads.lastSeq, and the transaction that has the row
    message,     \* who wrote the message at each place; "NONE" where there is none
    readUpTo,    \* companyReadSeq and candidateReadSeq
    blocked,     \* the sides that may not write now
    threadCall,
    onScreen     \* the messages each side has had in front of it

messageVars == <<thread, message, readUpTo, blocked, threadCall, onScreen>>

MessagesInit ==
    /\ thread = [lastSeq |-> 0, locked |-> FALSE]
    /\ message = [n \in Seqs |-> "NONE"]
    /\ readUpTo = [s \in Sides |-> 0] /\ blocked = {}
    /\ threadCall = [r \in ThreadCalls |-> NoThreadCall]
    /\ onScreen = [s \in Sides |-> {}]

-----------------------------------------------------------------------------
\* The time, the application's state, the drive, the company or the sender's
\* role close the thread to one side or both, or open it again.
BlocksChange ==
    /\ \E sides \in SUBSET Sides : blocked' = sides
    /\ UNCHANGED <<thread, message, readUpTo, threadCall, onScreen>>

CallGoes(r, call) == threadCall' = [threadCall EXCEPT ![r] = call]

\* A page opens the thread, or its refresh timer fires.
OpenThread(r, s) ==
    /\ threadCall[r] = NoThreadCall
    /\ CallGoes(r, [NoThreadCall EXCEPT !.at = "view", !.side = s])
    /\ UNCHANGED <<thread, message, readUpTo, blocked, onScreen>>

AskToSend(r, s) ==
    /\ threadCall[r] = NoThreadCall /\ s \notin blocked
    /\ CallGoes(r, [NoThreadCall EXCEPT !.at = "send", !.side = s])
    /\ UNCHANGED <<thread, message, readUpTo, blocked, onScreen>>

\* Mutant: the next place is read without locking the thread's row.
RowFreeAlways == TRUE

RowFree == ~thread.locked

\* INSERT ... ON CONFLICT and UPDATE ... RETURNING both wait for the row.
TakeSeq(r) ==
    /\ threadCall[r].at = "send" /\ RowFree /\ thread.lastSeq < MaxMessages
    /\ thread' = [lastSeq |-> thread.lastSeq + 1, locked |-> TRUE]
    /\ CallGoes(r, [threadCall[r] EXCEPT !.at = "commit", !.seq = thread.lastSeq + 1])
    /\ UNCHANGED <<message, readUpTo, blocked, onScreen>>

CommitMessage(r) ==
    /\ threadCall[r].at = "commit"
    /\ message' = [message EXCEPT ![threadCall[r].seq] = threadCall[r].side]
    /\ thread' = [thread EXCEPT !.locked = FALSE]
    /\ CallGoes(r, [threadCall[r] EXCEPT !.at = "view"])
    /\ UNCHANGED <<readUpTo, blocked, onScreen>>

\* view(): the application with its thread, then the messages.  Without a
\* thread yet there is nothing to read.
ReadThread(r) ==
    /\ threadCall[r].at = "view"
    /\ CallGoes(r, [threadCall[r] EXCEPT !.readSeq = readUpTo[threadCall[r].side],
        !.at = IF \A n \in Seqs : message[n] = "NONE" THEN "show" ELSE "list"])
    /\ UNCHANGED <<thread, message, readUpTo, blocked, onScreen>>

ListMessages(r) ==
    /\ threadCall[r].at = "list"
    /\ CallGoes(r, [threadCall[r] EXCEPT !.at = "show", !.seen = {n \in Seqs : message[n] # "NONE"}])
    /\ UNCHANGED <<thread, message, readUpTo, blocked, onScreen>>

Unread(call) == {n \in call.seen : message[n] # call.side /\ n > call.readSeq}
LastOf(call) == CHOOSE n \in call.seen : \A k \in call.seen : k <= n

\* Read up to the newest message on screen, never further.
UpTo(call) == LastOf(call)

ShowThread(r) ==
    LET call == threadCall[r] IN
    /\ call.at = "show"
    /\ onScreen' = [onScreen EXCEPT ![call.side] = @ \cup call.seen]
    /\ CallGoes(r, IF Unread(call) = {} THEN NoThreadCall ELSE [NoThreadCall EXCEPT !.at = "mark", !.side = call.side, !.seq = UpTo(call)])
    /\ UNCHANGED <<thread, message, readUpTo, blocked>>

\* companyRead, candidateRead: one guarded update.
MarkRead(r) ==
    LET call == threadCall[r] IN
    /\ call.at = "mark"
    /\ readUpTo' = IF readUpTo[call.side] < call.seq /\ call.seq <= thread.lastSeq
                   THEN [readUpTo EXCEPT ![call.side] = call.seq] ELSE readUpTo
    /\ CallGoes(r, NoThreadCall)
    /\ UNCHANGED <<thread, message, blocked, onScreen>>

\* The answer, the page or the API is lost; an open transaction rolls back.
LoseThreadCall(r) ==
    /\ threadCall[r] # NoThreadCall
    /\ thread' = IF threadCall[r].at = "commit" THEN [lastSeq |-> thread.lastSeq - 1, locked |-> FALSE] ELSE thread
    /\ CallGoes(r, NoThreadCall)
    /\ UNCHANGED <<message, readUpTo, blocked, onScreen>>

MessagesNext ==
    \/ BlocksChange
    \/ \E r \in ThreadCalls :
        \/ \E s \in Sides : OpenThread(r, s) \/ AskToSend(r, s)
        \/ TakeSeq(r) \/ CommitMessage(r) \/ ReadThread(r) \/ ListMessages(r)
        \/ ShowThread(r) \/ MarkRead(r) \/ LoseThreadCall(r)

MessagesSpec == MessagesInit /\ [][MessagesNext]_messageVars

-----------------------------------------------------------------------------
(* Properties. *)

\* Every variable has its type.
MessagesTypeOK ==
    /\ thread \in [lastSeq : 0..MaxMessages, locked : BOOLEAN] /\ message \in [Seqs -> Sides \cup {"NONE"}]
    /\ readUpTo \in [Sides -> 0..MaxMessages] /\ blocked \subseteq Sides
    /\ threadCall \in [ThreadCalls -> ThreadCall] /\ onScreen \in [Sides -> SUBSET Seqs]

\* A message counts as read only after somebody on that side had it on their
\* screen, however sends, refreshes and late answers overlap: reading up to a
\* place never passes over one that was committed behind it (send's row lock,
\* show, companyRead and candidateRead).
ReadMeansSeen == \A s \in Sides, n \in Seqs :
    message[n] \notin {"NONE", s} /\ n <= readUpTo[s] => n \in onScreen[s]
=============================================================================
