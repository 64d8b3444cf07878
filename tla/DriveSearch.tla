----------------------------- MODULE DriveSearch -----------------------------
(***************************************************************************)
(* The public list of drives: pages of a search by distance, and the page  *)
(* that puts them together.                                                *)
(*                                                                         *)
(* The first page is rendered on the server, from the city's centre.  In   *)
(* the browser the session is restored meanwhile; from then on the API     *)
(* searches from a candidate's home, and the page searches again with the  *)
(* filters it was opened with.  A cursor is a distance and an id, of       *)
(* whatever origin and filters it was given out for.                       *)
(***************************************************************************)
EXTENDS Integers, FiniteSets, Sequences

CONSTANTS
    Listed,       \* the drives, their ids in order
    Away,         \* how far each is, from the city's centre and from the candidate's home
    Radii,        \* filters: how far a drive may be
    SearchPage,   \* how many a page holds
    SearchCalls   \* searches under way at once

ASSUME ListedAssumption ==
    /\ Listed \subseteq Nat /\ IsFiniteSet(Listed)
    /\ Away \in [{"city", "home"} -> [Listed -> Nat]]
    /\ Radii \subseteq Nat /\ SearchPage \in Nat \ {0}

VARIABLES
    found,      \* the list, and the cursor behind it
    filter,     \* what is typed, what was applied last, and what the page was opened with
    session,    \* whether the session is restored, and whose search from home has begun and come
    searches,   \* the searches under way
    loading,    \* the one flag all of them set and clear
    strayed     \* (history) the list may be of several searches, or not of the filter applied

searchVars == <<found, filter, session, searches, loading, strayed>>

-----------------------------------------------------------------------------
(* DrivesService.search. *)

NoCursor == [away |-> -1, id |-> -1]
Before(from, a, b) == Away[from][a] < Away[from][b] \/ (Away[from][a] = Away[from][b] /\ a < b)

\* Mutant: what is as far as the last one is left out.
AfterFarther(from, cursor, d) == Away[from][d] > cursor.away
\* (distance, id) > (the cursor's).
After(from, cursor, d) ==
    Away[from][d] > cursor.away \/ (Away[from][d] = cursor.away /\ d > cursor.id)

\* ORDER BY distance, id: whoever has n up to it, itself included, is the nth.
Rank(from, drives, d) == Cardinality({e \in drives : e = d \/ Before(from, e, d)})
InOrder(from, drives) == [n \in 1..Cardinality(drives) |-> CHOOSE d \in drives : Rank(from, drives, d) = n]
Matching(from, radius) == {d \in Listed : Away[from][d] <= radius}

\* A page, and a cursor if there is more; one row too many is read to know.
Search(from, radius, cursor) ==
    LET rows == InOrder(from, {d \in Matching(from, radius) : After(from, cursor, d)})
        more == Len(rows) > SearchPage
        items == IF more THEN SubSeq(rows, 1, SearchPage) ELSE rows
        last == items[Len(items)]
    IN [items |-> items, next |-> IF more THEN [away |-> Away[from][last], id |-> last] ELSE NoCursor]

-----------------------------------------------------------------------------
NoSearch == [kind |-> "none", radius |-> 0, cursor |-> NoCursor, answered |-> FALSE,
             result |-> [items |-> <<>>, next |-> NoCursor]]

SearchInit ==
    \E r \in Radii :
        /\ found = Search("city", r, NoCursor)
        /\ filter = [typed |-> r, applied |-> r, opened |-> r]
        /\ session = "none" /\ searches = [c \in SearchCalls |-> NoSearch]
        /\ loading = FALSE /\ strayed = FALSE

Origin == IF session = "none" THEN "city" ELSE "home"
\* The page knows the session but does not show its search yet.
Hydrating == session \in {"restored", "searching"}
UnderWay == \E c \in SearchCalls : searches[c] # NoSearch

RunSearch(c, kind, radius, cursor) ==
    /\ searches[c] = NoSearch
    /\ searches' = [searches EXCEPT ![c] = [NoSearch EXCEPT !.kind = kind, !.radius = radius, !.cursor = cursor]]
    /\ loading' = TRUE
    /\ UNCHANGED found

TypeFilter(r) ==
    /\ filter' = [filter EXCEPT !.typed = r]
    /\ UNCHANGED <<found, session, searches, loading, strayed>>

\* applyFilters and More, whose buttons the flag disables.
ApplyFilters(c) ==
    /\ ~loading
    /\ RunSearch(c, "fresh", filter.typed, NoCursor)
    /\ filter' = [filter EXCEPT !.applied = filter.typed]
    /\ strayed' = (Hydrating \/ UnderWay)
    /\ UNCHANGED session

More(c) ==
    /\ ~loading /\ found.next # NoCursor
    /\ RunSearch(c, "more", filter.typed, found.next)
    /\ strayed' = (strayed \/ filter.typed # filter.applied \/ Hydrating)
    /\ UNCHANGED <<filter, session>>

\* restoreSession and, for a candidate with a profile, the search from home.
RestoreSession ==
    /\ session = "none" /\ session' = "restored"
    /\ strayed' = (strayed \/ UnderWay)
    /\ UNCHANGED <<found, filter, searches, loading>>
SearchFromHome(c) ==
    /\ session = "restored" /\ session' = "searching"
    /\ RunSearch(c, "home", filter.opened, NoCursor)
    /\ strayed' = (strayed \/ filter.applied # filter.opened)
    /\ UNCHANGED filter

\* The API runs the query, from the origin of whoever asks by then.
AnswerSearch(c) ==
    /\ searches[c].kind # "none" /\ ~searches[c].answered
    /\ LET result == Search(Origin, searches[c].radius, searches[c].cursor)
       IN  searches' = [searches EXCEPT ![c].result = result, ![c].answered = TRUE]
    /\ UNCHANGED <<found, filter, session, loading, strayed>>

\* The answer replaces the list or is appended to it, as it is by then.
ShowResult(c) ==
    LET s == searches[c] IN
    /\ s.answered
    /\ found' = IF s.kind = "more"
                THEN [items |-> found.items \o s.result.items, next |-> s.result.next] ELSE s.result
    /\ session' = IF s.kind = "home" THEN "shown" ELSE session
    /\ searches' = [searches EXCEPT ![c] = NoSearch]
    /\ loading' = FALSE
    /\ UNCHANGED <<filter, strayed>>

\* The search fails and the list stays as it is.
FailSearch(c) ==
    /\ searches[c].kind # "none" /\ ~searches[c].answered
    /\ searches' = [searches EXCEPT ![c] = NoSearch]
    /\ loading' = FALSE
    /\ strayed' = TRUE
    /\ UNCHANGED <<found, filter, session>>

SearchNext ==
    \/ \E r \in Radii : TypeFilter(r)
    \/ RestoreSession
    \/ \E c \in SearchCalls : \/ ApplyFilters(c) \/ More(c) \/ SearchFromHome(c)
                              \/ AnswerSearch(c) \/ ShowResult(c) \/ FailSearch(c)

-----------------------------------------------------------------------------
(* Properties. *)

\* Every variable has its type.
SearchTypeOK ==
    /\ found.items \in Seq(Listed)
    /\ filter \in [typed : Radii, applied : Radii, opened : Radii]
    /\ session \in {"none", "restored", "searching", "shown"}
    /\ \A c \in SearchCalls : searches[c].kind \in {"none", "fresh", "more", "home"}
    /\ loading \in BOOLEAN /\ strayed \in BOOLEAN

\* However far someone has paged, the list is the nearest drives that match,
\* each once and none left out, and there is a cursor exactly while there are
\* more: distances tie, and a page that ends inside a tie goes on inside it.
\* Unless searches overlapped while the page was hydrating or the filter was
\* changed without being applied.
ListIsOneSearch ==
    \/ strayed \/ \E c \in SearchCalls : searches[c].kind = "fresh"
    \/ LET from == IF session = "shown" THEN "home" ELSE "city"
           whole == InOrder(from, Matching(from, filter.applied))
           n == Len(found.items)
       IN  /\ n <= Len(whole) /\ found.items = SubSeq(whole, 1, n)
           /\ (found.next = NoCursor) = (n = Len(whole))
=============================================================================
