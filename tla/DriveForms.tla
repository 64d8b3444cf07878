----------------------------- MODULE DriveForms -----------------------------
(***************************************************************************)
(* Where a drive is: the address typed into its form and the coordinates   *)
(* that are looked up for it, or pinned from a device at the venue.        *)
(*                                                                         *)
(* The address and the coordinates are written together but come from      *)
(* different places: the form sends the address on every save, the server  *)
(* looks it up (for up to five seconds, behind other lookups) only if it   *)
(* differs from what it read, and the row is then written by its id alone. *)
(* Several pages of the company may be open, and the review goes on.       *)
(***************************************************************************)
EXTENDS FiniteSets

CONSTANTS
    Places,      \* what an address and its city may be
    NoPlace,
    FormTabs,    \* pages with the drive's form
    FormCalls    \* requests under way at once

ASSUME PlaceAssumption == NoPlace \notin Places

VARIABLES
    venue,      \* the drive's status, its address, and its coordinates: how they were found and for what
    form,       \* what each tab's form says, NoPlace when it is closed or locked
    formCall,   \* the requests under way
    overlapped  \* (history) a request wrote after another had changed what it read

formVars == <<venue, form, formCall, overlapped>>

Spot == [how : {"none", "geocoded", "centre", "pin"}, of : Places \cup {NoPlace}]
NoSpot == [how |-> "none", of |-> NoPlace]
NoFormCall == [op |-> "none", step |-> "none", tab |-> NoPlace, place |-> NoPlace, spot |-> NoSpot, stale |-> FALSE]

FormsInit ==
    /\ venue = [status |-> "none", place |-> NoPlace, spot |-> NoSpot]
    /\ form = [t \in FormTabs |-> NoPlace]
    /\ formCall = [r \in FormCalls |-> NoFormCall]
    /\ overlapped = FALSE

Editable(status) == status \in {"DRAFT", "PENDING"}
Open(status) == status \in {"DRAFT", "PENDING", "LIVE"}
Busy(t) == \E r \in FormCalls : formCall[r].tab = t

-----------------------------------------------------------------------------
(* The pages. *)

\* The form of a new drive, or of one that is there (show: what the server
\* answered replaces whatever was typed).
OpenForm(t) ==
    /\ ~Busy(t)
    /\ form' = [form EXCEPT ![t] = IF Editable(venue.status) THEN venue.place ELSE NoPlace]
    /\ UNCHANGED <<venue, formCall, overlapped>>

TypeAddress(t, place) ==
    /\ venue.status = "none" \/ form[t] # NoPlace
    /\ form' = [form EXCEPT ![t] = place]
    /\ UNCHANGED <<venue, formCall, overlapped>>

-----------------------------------------------------------------------------
(* The requests: what each reads and checks, then what it writes. *)

Call(r, c) ==
    /\ formCall[r] = NoFormCall
    /\ formCall' = [formCall EXCEPT ![r] = c]
    /\ UNCHANGED <<venue, form, overlapped>>

\* The requests that are under way once r is done: they are behind if what they
\* read has changed.
Behind(r, changed) ==
    [q \in FormCalls |-> IF q = r \/ formCall[q] = NoFormCall THEN NoFormCall
                         ELSE [formCall[q] EXCEPT !.stale = @ \/ changed]]

\* The row is written and the answer shown in the tab.
Write(r, v) ==
    /\ venue' = v
    /\ formCall' = Behind(r, v # venue)
    /\ overlapped' = (overlapped \/ formCall[r].stale)
    /\ form' = [form EXCEPT ![formCall[r].tab] = IF Editable(v.status) THEN v.place ELSE NoPlace]

\* create: nothing is there to be read.
SendCreate(r, t) ==
    /\ venue.status = "none" /\ form[t] # NoPlace /\ ~Busy(t)
    /\ \A q \in FormCalls : formCall[q].op # "create"
    /\ Call(r, [NoFormCall EXCEPT !.op = "create", !.step = "locating", !.tab = t, !.place = form[t]])

\* Mutant: an address is looked up whenever it is sent.
LocatesAnyway(place) == TRUE
\* An unchanged address keeps its coordinates: present is not changed.
Locates(place) == place # venue.place

SendAddress(r, t) ==
    /\ Editable(venue.status) /\ form[t] # NoPlace /\ ~Busy(t)
    /\ Call(r, [NoFormCall EXCEPT !.op = "save", !.tab = t, !.place = form[t],
                              !.step = IF Locates(form[t]) THEN "locating" ELSE "writing"])

\* geocode, from the cache or from Nominatim, and the city's centre when that
\* fails, finds nothing or takes too long.
Locate(r, how) ==
    /\ formCall[r].step = "locating"
    /\ formCall' = [formCall EXCEPT ![r].step = "writing",
                                    ![r].spot = [how |-> how, of |-> formCall[r].place]]
    /\ UNCHANGED <<venue, form, overlapped>>

\* What other tabs hold is for drives of their own.
WriteCreate(r) ==
    /\ formCall[r].op = "create" /\ formCall[r].step = "writing"
    /\ venue' = [status |-> "DRAFT", place |-> formCall[r].place, spot |-> formCall[r].spot]
    /\ formCall' = [formCall EXCEPT ![r] = NoFormCall]
    /\ form' = [t \in FormTabs |-> IF t = formCall[r].tab THEN formCall[r].place ELSE NoPlace]
    /\ UNCHANGED overlapped

WriteAddress(r) ==
    /\ formCall[r].op = "save" /\ formCall[r].step = "writing"
    /\ Write(r, [venue EXCEPT !.place = formCall[r].place,
                              !.spot = IF formCall[r].spot = NoSpot THEN @ ELSE formCall[r].spot])

\* pinVenue, from a fix that is sharp enough and not far from the city, or
\* confirmed to be: whoever stands there stands at the address they read.
SendPin(r, t) ==
    /\ Open(venue.status) /\ ~Busy(t)
    /\ Call(r, [NoFormCall EXCEPT !.op = "pin", !.step = "writing", !.tab = t,
                              !.spot = [how |-> "pin", of |-> venue.place]])
WritePin(r) ==
    /\ formCall[r].op = "pin" /\ formCall[r].step = "writing"
    /\ Write(r, [venue EXCEPT !.spot = formCall[r].spot])

\* submit and remove: moveTo writes the status by the drive's id alone.
SendMove(r, t, op) ==
    /\ op \in {"submit", "cancel"}
    /\ IF op = "submit" THEN venue.status = "DRAFT" ELSE Open(venue.status)
    /\ ~Busy(t)
    /\ Call(r, [NoFormCall EXCEPT !.op = op, !.step = "writing", !.tab = t])
WriteMove(r) ==
    /\ formCall[r].op \in {"submit", "cancel"}
    /\ Write(r, [venue EXCEPT !.status = IF formCall[r].op = "submit" THEN "PENDING" ELSE "CANCELLED"])

\* The review compares the status, and nothing else, with what the admin saw.
Review(to) ==
    /\ venue.status = "PENDING" /\ to \in {"LIVE", "DRAFT"}
    /\ venue' = [venue EXCEPT !.status = to]
    /\ formCall' = [q \in FormCalls |->
                      IF formCall[q] = NoFormCall THEN NoFormCall ELSE [formCall[q] EXCEPT !.stale = TRUE]]
    /\ UNCHANGED <<form, overlapped>>

\* The page is closed or its request fails before it writes.
FailCall(r) ==
    /\ formCall[r] # NoFormCall
    /\ formCall' = [formCall EXCEPT ![r] = NoFormCall]
    /\ UNCHANGED <<venue, form, overlapped>>

FormsNext ==
    \/ \E t \in FormTabs : OpenForm(t) \/ \E p \in Places : TypeAddress(t, p)
    \/ \E r \in FormCalls :
        \/ \E t \in FormTabs : \/ SendCreate(r, t) \/ SendAddress(r, t) \/ SendPin(r, t)
                               \/ \E op \in {"submit", "cancel"} : SendMove(r, t, op)
        \/ \E how \in {"geocoded", "centre"} : Locate(r, how)
        \/ WriteCreate(r) \/ WriteAddress(r) \/ WritePin(r) \/ WriteMove(r) \/ FailCall(r)
    \/ \E to \in {"LIVE", "DRAFT"} : Review(to)

-----------------------------------------------------------------------------
(* Properties. *)

\* Every variable has its type.
FormsTypeOK ==
    /\ venue \in [status : {"none", "DRAFT", "PENDING", "LIVE", "CANCELLED"},
                  place : Places \cup {NoPlace}, spot : Spot]
    /\ form \in [FormTabs -> Places \cup {NoPlace}]
    /\ formCall \in [FormCalls -> [op : {"none", "create", "save", "pin", "submit", "cancel"},
                                   step : {"none", "locating", "writing"}, tab : FormTabs \cup {NoPlace},
                                   place : Places \cup {NoPlace}, spot : Spot, stale : BOOLEAN]]
    /\ overlapped \in BOOLEAN

\* Until two requests overlap, a drive's coordinates are of its address, a
\* pinned venue is only unpinned by another address (drives.service.ts: or the
\* area-level guess would replace the pin that was put there to fix it), and
\* once candidates can book the address stays.  A request that writes over
\* what another changed since it read may break all three.
PlacesMoveWithTheirSpot == [][
    \/ overlapped'
    \/ /\ venue'.spot.of = venue'.place
       /\ venue.spot.how = "pin" /\ venue'.spot.how # "pin" => venue'.place # venue.place
       /\ venue.status = "LIVE" => venue'.place = venue.place]_venue
=============================================================================
