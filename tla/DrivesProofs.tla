----------------------------- MODULE DrivesProofs -----------------------------
(***************************************************************************)
(* What is proved about one drive, from its form to its gate: modules      *)
(* Rescheduling, Screening, CheckInCodes, DriveForms, Applicants and       *)
(* DriveSearch, and at the end their composition, MCDrives.                *)
(***************************************************************************)
EXTENDS MCDrives, ApplicationsProofs, NumbersLemmas, SequenceTheorems

-----------------------------------------------------------------------------
(***************************************************************************)
(* Why a drive's coordinates stay those of its address until two requests  *)
(* overlap, for every number of tabs, requests and addresses.  A request   *)
(* that is not behind finds the drive as it read it; one that is behind    *)
(* raises overlapped when it writes.                                       *)
(***************************************************************************)

FormsSpec == FormsInit /\ [][FormsNext]_formVars

Venue == [status : {"none", "DRAFT", "PENDING", "LIVE", "CANCELLED"}, place : Places \cup {NoPlace}, spot : Spot]
FormCall == [op : {"none", "create", "save", "pin", "submit", "cancel"},
             step : {"none", "locating", "writing"}, tab : FormTabs \cup {NoPlace},
             place : Places \cup {NoPlace}, spot : Spot, stale : BOOLEAN]

\* What a request knows of the drive, as long as it is not behind.
CallFits(c) ==
    /\ c.op = "create" => venue.status = "none" /\ (c.step = "writing" => c.spot.of = c.place)
    /\ c.op \in {"save", "pin", "submit", "cancel"} => venue.status # "none"
    /\ c.step = "locating" => c.op \in {"create", "save"}
    /\ c.op = "save" /\ ~c.stale =>
        /\ Editable(venue.status)
        /\ c.step = "locating" => c.place # venue.place
        /\ c.step = "writing" => \/ c.spot = NoSpot /\ c.place = venue.place
                                 \/ c.spot # NoSpot /\ c.spot.of = c.place /\ c.place # venue.place
    /\ c.op = "pin" /\ ~c.stale => c.spot.how = "pin" /\ c.spot.of = venue.place

CallsFit == \A r \in FormCalls : CallFits(formCall[r])
OneCreates == \A q, r \in FormCalls : formCall[q].op = "create" /\ formCall[r].op = "create" => q = r

FormsInv ==
    /\ FormsTypeOK
    /\ CallsFit
    /\ OneCreates
    /\ venue.status = "none" => venue.spot.how # "pin"
    /\ ~overlapped => venue.spot.of = venue.place

LEMMA NoFormCallFacts ==
    /\ NoFormCall \in FormCall /\ NoFormCall.op = "none" /\ NoFormCall.step = "none"
    /\ NoSpot \in Spot /\ NoSpot.how = "none" /\ NoFormCall.spot = NoSpot /\ NoFormCall.stale = FALSE
  BY DEF NoFormCall, FormCall, NoSpot, Spot

\* A request begins: what it asks for fits what it has just read.
LEMMA CallKeeps ==
    ASSUME FormsInv, NEW r \in FormCalls, NEW c \in FormCall, Call(r, c), CallFits(c),
           c.op = "create" => \A q \in FormCalls : formCall[q].op # "create"
    PROVE  FormsInv'
<1> USE DEF FormsInv, FormsTypeOK
<1>1. formCall' = [formCall EXCEPT ![r] = c] /\ UNCHANGED <<venue, form, overlapped>>
  BY DEF Call
<1>2. \A q \in FormCalls : formCall'[q] = IF q = r THEN c ELSE formCall[q]
  BY <1>1
<1>3. FormsTypeOK' BY <1>1 DEF FormCall
<1>4. \A q \in FormCalls : CallFits(formCall'[q]) BY <1>2 DEF CallsFit
<1>5. CallsFit' BY <1>1, <1>4 DEF CallsFit, CallFits
<1>6. OneCreates' BY <1>2 DEF OneCreates
<1> QED BY <1>1, <1>3, <1>5, <1>6

\* A request fails: it is gone.
LEMMA FailKeepsForms ==
    ASSUME FormsInv, NEW r \in FormCalls, FailCall(r)
    PROVE  FormsInv'
<1> USE DEF FormsInv, FormsTypeOK
<1>1. formCall' = [formCall EXCEPT ![r] = NoFormCall] /\ UNCHANGED <<venue, form, overlapped>>
  BY DEF FailCall
<1>2. \A q \in FormCalls : formCall'[q] = IF q = r THEN NoFormCall ELSE formCall[q]
  BY <1>1
<1>3. FormsTypeOK' BY <1>1, NoFormCallFacts DEF FormCall
<1>4. \A q \in FormCalls : CallFits(formCall'[q]) BY <1>2, NoFormCallFacts DEF CallsFit, CallFits
<1>5. CallsFit' BY <1>1, <1>4 DEF CallsFit, CallFits
<1>6. OneCreates' BY <1>2, NoFormCallFacts DEF OneCreates
<1> QED BY <1>1, <1>3, <1>5, <1>6

\* An address is found.
LEMMA LocateKeeps ==
    ASSUME FormsInv, NEW r \in FormCalls, NEW how \in {"geocoded", "centre"}, Locate(r, how)
    PROVE  FormsInv'
<1> USE DEF FormsInv, FormsTypeOK
<1> DEFINE at == [how |-> how, of |-> formCall[r].place]
           c == [formCall[r] EXCEPT !.step = "writing", !.spot = at]
<1>1. /\ formCall[r].step = "locating" /\ formCall[r] \in FormCall
      /\ formCall' = [formCall EXCEPT ![r].step = "writing", ![r].spot = at]
      /\ UNCHANGED <<venue, form, overlapped>>
  BY DEF Locate, FormCall
<1>2. at \in Spot /\ at.of = formCall[r].place /\ at # NoSpot
  BY <1>1, NoFormCallFacts DEF Spot, FormCall
<1> HIDE DEF at
<1>3. /\ c \in FormCall /\ c.op = formCall[r].op /\ c.step = "writing" /\ c.spot = at
      /\ c.place = formCall[r].place /\ c.stale = formCall[r].stale
  BY <1>1, <1>2 DEF FormCall
<1>4. formCall' = [formCall EXCEPT ![r] = c]
  BY <1>1
<1> HIDE DEF c
<1>5. \A q \in FormCalls : formCall'[q] = IF q = r THEN c ELSE formCall[q]
  BY <1>4
<1>12. formCall' \in [FormCalls -> FormCall] BY <1>3, <1>4 DEF FormCall
<1>6. FormsTypeOK' BY <1>1, <1>12 DEF FormCall
<1>7. CallFits(formCall[r]) /\ formCall[r].op \in {"create", "save"}
  BY <1>1 DEF CallsFit, CallFits
<1>8. CallFits(c) BY <1>1, <1>2, <1>3, <1>7 DEF CallFits
<1>9. \A q \in FormCalls : CallFits(formCall'[q]) BY <1>5, <1>8 DEF CallsFit
<1>10. CallsFit' BY <1>1, <1>9 DEF CallsFit, CallFits
<1>11. OneCreates' BY <1>3, <1>5 DEF OneCreates
<1> QED BY <1>1, <1>6, <1>10, <1>11

\* When a request has written, every other one is either not behind, and the
\* drive as it was, or behind.
LEMMA OthersFall ==
    ASSUME FormsTypeOK, NEW r \in FormCalls, NEW v \in Venue, Write(r, v)
    PROVE  \A q \in FormCalls :
              /\ formCall'[q] \in FormCall
              /\ \/ formCall'[q].op = "none" /\ formCall'[q].step = "none"
                 \/ /\ formCall'[q].op = formCall[q].op /\ formCall'[q].step = formCall[q].step
                    /\ formCall'[q].place = formCall[q].place /\ formCall'[q].spot = formCall[q].spot
                    /\ q # r /\ (~formCall'[q].stale => ~formCall[q].stale /\ v = venue)
<1> SUFFICES ASSUME NEW q \in FormCalls
             PROVE  /\ formCall'[q] \in FormCall
                    /\ \/ formCall'[q].op = "none" /\ formCall'[q].step = "none"
                       \/ /\ formCall'[q].op = formCall[q].op /\ formCall'[q].step = formCall[q].step
                          /\ formCall'[q].place = formCall[q].place /\ formCall'[q].spot = formCall[q].spot
                          /\ q # r /\ (~formCall'[q].stale => ~formCall[q].stale /\ v = venue)
  OBVIOUS
<1> DEFINE late == formCall[q].stale \/ v # venue
           c == [formCall[q] EXCEPT !.stale = late]
<1>1. formCall[q] \in FormCall BY DEF FormsTypeOK, FormCall
<1>2. formCall'[q] = IF q = r \/ formCall[q] = NoFormCall THEN NoFormCall ELSE c
  BY DEF Write, Behind
<1>3. late \in BOOLEAN BY Zenon
<1>4. ~late => ~formCall[q].stale /\ v = venue BY Zenon
<1> HIDE DEF late
<1>5. /\ c \in FormCall /\ c.op = formCall[q].op /\ c.step = formCall[q].step
      /\ c.place = formCall[q].place /\ c.spot = formCall[q].spot /\ c.stale = late
  BY <1>1, <1>3 DEF FormCall
<1> HIDE DEF c
<1>6. CASE q = r \/ formCall[q] = NoFormCall
  BY <1>2, <1>6, NoFormCallFacts
<1>7. CASE ~(q = r \/ formCall[q] = NoFormCall)
  <2>1. formCall'[q] = c /\ q # r BY <1>2, <1>7
  <2>2. ~formCall'[q].stale => ~formCall[q].stale /\ v = venue BY <1>4, <1>5, <2>1
  <2> QED BY <1>5, <2>1, <2>2
<1> QED BY <1>6, <1>7

\* Whoever was not behind knows the drive as well as before.
LEMMA FitsAfter ==
    ASSUME FormsInv, NEW r \in FormCalls, NEW v \in Venue, Write(r, v),
           venue.status # "none", v.status # "none"
    PROVE  CallsFit' /\ OneCreates' /\ formCall' \in [FormCalls -> FormCall]
<1> USE DEF FormsInv
<1>1. \A q \in FormCalls :
          /\ formCall'[q] \in FormCall
          /\ \/ formCall'[q].op = "none" /\ formCall'[q].step = "none"
             \/ /\ formCall'[q].op = formCall[q].op /\ formCall'[q].step = formCall[q].step
                /\ formCall'[q].place = formCall[q].place /\ formCall'[q].spot = formCall[q].spot
                /\ q # r /\ (~formCall'[q].stale => ~formCall[q].stale /\ v = venue)
  BY OthersFall
<1>5. venue' = v BY DEF Write
<1>2. formCall' \in [FormCalls -> FormCall]
  BY <1>1 DEF Write, Behind
<1>3. OneCreates' BY <1>1 DEF OneCreates
<1>4. ASSUME NEW q \in FormCalls PROVE CallFits(formCall[q])'
  <2>1. CallFits(formCall[q]) /\ formCall[q].op # "create" BY DEF CallsFit, CallFits
  <2>2. CASE formCall'[q].op = "none" /\ formCall'[q].step = "none"
    BY <1>5, <2>2 DEF CallFits
  <2>3. CASE ~(formCall'[q].op = "none" /\ formCall'[q].step = "none")
    BY <1>1, <1>5, <2>1, <2>3 DEF CallFits
  <2> QED BY <2>2, <2>3
<1> QED BY <1>2, <1>3, <1>4 DEF CallsFit

\* A request writes a drive that is there.
LEMMA WriteKeeps ==
    ASSUME FormsInv, NEW r \in FormCalls, NEW v \in Venue, Write(r, v),
           venue.status # "none", v.status # "none",
           ~overlapped /\ ~formCall[r].stale => v.spot.of = v.place
    PROVE  FormsInv' /\ (overlapped' \/ v.spot.of = v.place)
<1> USE DEF FormsInv
<1>1. venue' = v /\ formCall' = Behind(r, v # venue)
  BY DEF Write
<1>2. overlapped' = (overlapped \/ formCall[r].stale)
  BY DEF Write
<1>3. overlapped' \in BOOLEAN BY <1>2, Zenon
<1>4. ~overlapped' => ~overlapped /\ ~formCall[r].stale BY <1>2, Zenon
<1>5. form' \in [FormTabs -> Places \cup {NoPlace}]
  <2> DEFINE says == IF Editable(v.status) THEN v.place ELSE NoPlace
  <2>1. says \in Places \cup {NoPlace} BY DEF Venue
  <2>2. form' = [form EXCEPT ![formCall[r].tab] = says] BY DEF Write
  <2> HIDE DEF says
  <2> QED BY <2>1, <2>2 DEF FormsTypeOK
<1>6. CallsFit' /\ OneCreates' /\ formCall' \in [FormCalls -> FormCall]
  BY FitsAfter
<1>7. FormsTypeOK' BY <1>1, <1>3, <1>5, <1>6 DEF FormsTypeOK, Venue, FormCall
<1> QED BY <1>1, <1>4, <1>6, <1>7

\* The address written by one that is not behind either was the drive's, or
\* comes with the coordinates found for it.
LEMMA WriteAddressKeeps ==
    ASSUME FormsInv, NEW r \in FormCalls, WriteAddress(r)
    PROVE  /\ FormsInv' /\ (overlapped' \/ venue'.spot.of = venue'.place)
           /\ overlapped' \/ venue.status # "LIVE"
           /\ overlapped' \/ (venue.spot.how = "pin" /\ venue'.spot.how # "pin" => venue'.place # venue.place)
<1> USE DEF FormsInv
<1> DEFINE c == formCall[r]
           at == IF c.spot = NoSpot THEN venue.spot ELSE c.spot
           v == [venue EXCEPT !.place = c.place, !.spot = at]
<1>1. c.op = "save" /\ c.step = "writing" /\ Write(r, v)
  BY DEF WriteAddress
<1>2. c \in FormCall /\ venue \in Venue BY DEF FormsTypeOK, FormCall, Venue
<1>3. at \in Spot BY <1>2 DEF FormCall, Venue
<1>4. CallFits(c) BY DEF CallsFit
<1>5. at = IF c.spot = NoSpot THEN venue.spot ELSE c.spot OBVIOUS
<1> HIDE DEF at
<1>6. v \in Venue /\ v.status = venue.status /\ v.place = c.place /\ v.spot = at
  BY <1>2, <1>3 DEF Venue, FormCall
<1> HIDE DEF v
<1>7. ~overlapped /\ ~c.stale => v.spot.of = v.place
  BY <1>1, <1>4, <1>5, <1>6 DEF CallFits
<1>8. venue.status # "none" BY <1>1, <1>4 DEF CallFits
<1>9. FormsInv' /\ (overlapped' \/ v.spot.of = v.place)
  BY <1>1, <1>6, <1>7, <1>8, WriteKeeps
<1>10. venue' = v BY <1>1 DEF Write
<1>11. overlapped' = (overlapped \/ c.stale) BY <1>1 DEF Write
<1>12. ~overlapped' => ~c.stale BY <1>11, Zenon
<1>13. ~overlapped' => venue.status # "LIVE" BY <1>1, <1>4, <1>12 DEF CallFits, Editable
<1>14. ~overlapped' => (venue.spot.how = "pin" /\ v.spot.how # "pin" => v.place # venue.place)
  BY <1>1, <1>4, <1>5, <1>6, <1>12 DEF CallFits
<1> QED BY <1>9, <1>10, <1>13, <1>14

\* A pin is of the address that was there when it was sent.
LEMMA WritePinKeeps ==
    ASSUME FormsInv, NEW r \in FormCalls, WritePin(r)
    PROVE  /\ FormsInv' /\ (overlapped' \/ venue'.spot.of = venue'.place)
           /\ overlapped' \/ venue'.spot.how = "pin"
           /\ venue'.place = venue.place
<1> USE DEF FormsInv
<1> DEFINE c == formCall[r]
           v == [venue EXCEPT !.spot = c.spot]
<1>1. c.op = "pin" /\ Write(r, v)
  BY DEF WritePin
<1>2. c \in FormCall /\ venue \in Venue BY DEF FormsTypeOK, FormCall, Venue
<1>3. CallFits(c) BY DEF CallsFit
<1>4. v \in Venue /\ v.status = venue.status /\ v.place = venue.place /\ v.spot = c.spot
  BY <1>2 DEF Venue, FormCall
<1> HIDE DEF v
<1>5. ~c.stale => v.spot.of = v.place /\ v.spot.how = "pin"
  BY <1>1, <1>3, <1>4 DEF CallFits
<1>6. venue.status # "none" BY <1>1, <1>3 DEF CallFits
<1>7. FormsInv' /\ (overlapped' \/ v.spot.of = v.place)
  BY <1>1, <1>4, <1>5, <1>6, WriteKeeps
<1>8. venue' = v BY <1>1 DEF Write
<1>9. overlapped' = (overlapped \/ c.stale) BY <1>1 DEF Write
<1>10. ~overlapped' => ~c.stale BY <1>9, Zenon
<1> QED BY <1>4, <1>5, <1>7, <1>8, <1>10

\* Submitting and cancelling move the status alone.
LEMMA WriteMoveKeeps ==
    ASSUME FormsInv, NEW r \in FormCalls, WriteMove(r)
    PROVE  /\ FormsInv' /\ (overlapped' \/ venue'.spot.of = venue'.place)
           /\ venue'.place = venue.place /\ venue'.spot = venue.spot
<1> USE DEF FormsInv
<1> DEFINE nextStatus == IF formCall[r].op = "submit" THEN "PENDING" ELSE "CANCELLED"
           v == [venue EXCEPT !.status = nextStatus]
<1>1. formCall[r].op \in {"submit", "cancel"} /\ Write(r, v)
  BY DEF WriteMove
<1>2. venue \in Venue /\ nextStatus \in {"PENDING", "CANCELLED"} BY DEF FormsTypeOK, Venue
<1> HIDE DEF nextStatus
<1>3. v \in Venue /\ v.status = nextStatus /\ v.place = venue.place /\ v.spot = venue.spot
  BY <1>2 DEF Venue
<1> HIDE DEF v
<1>4. venue.status # "none" BY <1>1 DEF CallsFit, CallFits
<1>5. FormsInv' /\ (overlapped' \/ v.spot.of = v.place)
  BY <1>1, <1>2, <1>3, <1>4, WriteKeeps
<1> QED BY <1>1, <1>3, <1>5 DEF Write

\* The drive is created, by the one request there is.
LEMMA WriteCreateKeeps ==
    ASSUME FormsInv, NEW r \in FormCalls, WriteCreate(r)
    PROVE  FormsInv' /\ venue'.spot.of = venue'.place /\ venue.status = "none"
<1> USE DEF FormsInv
<1> DEFINE c == formCall[r]
           v == [status |-> "DRAFT", place |-> c.place, spot |-> c.spot]
<1>1. /\ c.op = "create" /\ c.step = "writing" /\ venue' = v
      /\ formCall' = [formCall EXCEPT ![r] = NoFormCall] /\ UNCHANGED overlapped
  BY DEF WriteCreate
<1>2. c \in FormCall BY DEF FormsTypeOK, FormCall
<1>3. v \in Venue /\ v.status = "DRAFT" /\ v.place = c.place /\ v.spot = c.spot
  BY <1>2 DEF Venue, FormCall
<1> HIDE DEF v
<1>4. venue.status = "none" /\ c.spot.of = c.place BY <1>1 DEF CallsFit, CallFits
<1>5. form' \in [FormTabs -> Places \cup {NoPlace}]
  BY <1>2 DEF WriteCreate, FormCall
<1>6. \A q \in FormCalls : formCall'[q] = IF q = r THEN NoFormCall ELSE formCall[q]
  BY <1>1 DEF FormsTypeOK
<1>7. \A q \in FormCalls : formCall'[q].op = "none" /\ formCall'[q].step # "locating"
  <2> SUFFICES ASSUME NEW q \in FormCalls, q # r PROVE formCall[q].op = "none" /\ formCall[q].step # "locating"
    BY <1>6, NoFormCallFacts
  <2>1. formCall[q] \in FormCall /\ CallFits(formCall[q]) BY DEF FormsTypeOK, FormCall, CallsFit
  <2>2. formCall[q].op # "create" BY <1>1 DEF OneCreates
  <2>3. formCall[q].op = "none" BY <1>4, <2>1, <2>2 DEF CallFits, FormCall
  <2> QED BY <2>1, <2>3 DEF CallFits
<1>8. CallsFit' /\ OneCreates' BY <1>7 DEF CallsFit, CallFits, OneCreates
<1>9. FormsTypeOK' BY <1>1, <1>3, <1>5, NoFormCallFacts DEF FormsTypeOK, Venue, FormCall
<1> QED BY <1>1, <1>3, <1>4, <1>8, <1>9

\* A review moves the status alone, and every request falls behind.
LEMMA ReviewKeeps ==
    ASSUME FormsInv, NEW to \in {"LIVE", "DRAFT"}, Review(to)
    PROVE  /\ FormsInv' /\ (overlapped' \/ venue'.spot.of = venue'.place)
           /\ venue'.place = venue.place /\ venue'.spot = venue.spot
<1> USE DEF FormsInv
<1> DEFINE v == [venue EXCEPT !.status = to]
           late(q) == [formCall[q] EXCEPT !.stale = TRUE]
<1>1. /\ venue.status = "PENDING" /\ venue' = v /\ UNCHANGED <<form, overlapped>>
      /\ formCall' = [q \in FormCalls |-> IF formCall[q] = NoFormCall THEN NoFormCall ELSE late(q)]
  BY DEF Review
<1>2. v \in Venue /\ v.status = to /\ v.place = venue.place /\ v.spot = venue.spot
  BY DEF FormsTypeOK, Venue
<1> HIDE DEF v
<1>3. \A q \in FormCalls : /\ late(q) \in FormCall /\ late(q).op = formCall[q].op /\ late(q).stale = TRUE
                           /\ late(q).step = formCall[q].step
                           /\ late(q).place = formCall[q].place /\ late(q).spot = formCall[q].spot
  BY DEF FormsTypeOK, FormCall
<1> HIDE DEF late
<1>4. \A q \in FormCalls : formCall'[q] = NoFormCall \/ formCall'[q] = late(q)
  BY <1>1
<1>5. formCall' \in [FormCalls -> FormCall] BY <1>1, <1>3, NoFormCallFacts
<1>6. ASSUME NEW q \in FormCalls PROVE CallFits(formCall[q])'
  <2>1. CallFits(formCall[q]) BY DEF CallsFit
  <2>2. CASE formCall'[q] = NoFormCall BY <2>2, NoFormCallFacts DEF CallFits
  <2>3. CASE formCall'[q] = late(q) BY <1>1, <1>2, <1>3, <2>1, <2>3 DEF CallFits
  <2> QED BY <1>4, <2>2, <2>3
<1>7. OneCreates' BY <1>3, <1>4, NoFormCallFacts DEF OneCreates
<1>8. FormsTypeOK' BY <1>1, <1>2, <1>5 DEF FormsTypeOK, Venue, FormCall
<1> QED BY <1>1, <1>2, <1>6, <1>7, <1>8 DEF CallsFit

\* What the forms show is no request's concern.
LEMMA FormsOnly ==
    ASSUME FormsInv, \/ \E t \in FormTabs : OpenForm(t) \/ \E p \in Places : TypeAddress(t, p)
                     \/ UNCHANGED formVars
    PROVE  FormsInv' /\ UNCHANGED venue
<1> USE DEF FormsInv
<1>1. form' \in [FormTabs -> Places \cup {NoPlace}] /\ UNCHANGED <<venue, formCall, overlapped>>
  <2>1. ASSUME NEW t \in FormTabs, OpenForm(t) PROVE <1>1!:
    <3> DEFINE says == IF Editable(venue.status) THEN venue.place ELSE NoPlace
    <3>1. says \in Places \cup {NoPlace} BY DEF FormsTypeOK
    <3>2. form' = [form EXCEPT ![t] = says] /\ UNCHANGED <<venue, formCall, overlapped>> BY <2>1 DEF OpenForm
    <3> HIDE DEF says
    <3> QED BY <3>1, <3>2 DEF FormsTypeOK
  <2>2. ASSUME NEW t \in FormTabs, NEW p \in Places, TypeAddress(t, p) PROVE <1>1!:
    BY <2>2 DEF TypeAddress, FormsTypeOK
  <2>3. ASSUME UNCHANGED formVars PROVE <1>1!:
    BY <2>3 DEF formVars, FormsTypeOK
  <2> QED BY <2>1, <2>2, <2>3
<1> QED BY <1>1 DEF FormsTypeOK, CallsFit, CallFits, OneCreates

\* What the pages send.
LEMMA SendsKeep ==
    ASSUME FormsInv, NEW r \in FormCalls, NEW t \in FormTabs,
           SendCreate(r, t) \/ SendAddress(r, t) \/ SendPin(r, t)
           \/ \E op \in {"submit", "cancel"} : SendMove(r, t, op)
    PROVE  FormsInv' /\ UNCHANGED venue
<1> USE NoFormCallFacts DEF FormsInv
<1>1. CASE SendCreate(r, t)
  <2> DEFINE c == [NoFormCall EXCEPT !.op = "create", !.step = "locating", !.tab = t, !.place = form[t]]
  <2>1. c \in FormCall /\ c.op = "create" /\ c.step = "locating"
    BY DEF FormCall, FormsTypeOK
  <2>2. Call(r, c) /\ venue.status = "none" /\ \A q \in FormCalls : formCall[q].op # "create"
    BY <1>1 DEF SendCreate
  <2> HIDE DEF c
  <2>3. CallFits(c) BY <2>1, <2>2 DEF CallFits
  <2> QED BY <2>1, <2>2, <2>3, CallKeeps DEF Call
<1>2. CASE SendAddress(r, t)
  <2> DEFINE step == IF Locates(form[t]) THEN "locating" ELSE "writing"
             c == [NoFormCall EXCEPT !.op = "save", !.tab = t, !.place = form[t], !.step = step]
  <2>1. step \in {"locating", "writing"} /\ (step = "locating" <=> form[t] # venue.place)
    BY DEF Locates
  <2>2. Call(r, c) /\ Editable(venue.status) BY <1>2 DEF SendAddress
  <2> HIDE DEF step
  <2>3. c \in FormCall /\ c.op = "save" /\ c.step = step /\ c.place = form[t] /\ c.spot = NoSpot
    BY <2>1 DEF FormCall, FormsTypeOK
  <2> HIDE DEF c
  <2>4. CallFits(c) BY <2>1, <2>2, <2>3 DEF CallFits, Editable
  <2> QED BY <2>2, <2>3, <2>4, CallKeeps DEF Call
<1>3. CASE SendPin(r, t)
  <2> DEFINE at == [how |-> "pin", of |-> venue.place]
             c == [NoFormCall EXCEPT !.op = "pin", !.step = "writing", !.tab = t, !.spot = at]
  <2>1. at \in Spot /\ at.how = "pin" /\ at.of = venue.place BY DEF Spot, FormsTypeOK
  <2>2. Call(r, c) /\ Open(venue.status) BY <1>3 DEF SendPin
  <2> HIDE DEF at
  <2>3. c \in FormCall /\ c.op = "pin" /\ c.step = "writing" /\ c.spot = at
    BY <2>1 DEF FormCall
  <2> HIDE DEF c
  <2>4. CallFits(c) BY <2>1, <2>2, <2>3 DEF CallFits, Open
  <2> QED BY <2>2, <2>3, <2>4, CallKeeps DEF Call
<1>4. ASSUME NEW op \in {"submit", "cancel"}, SendMove(r, t, op) PROVE FormsInv' /\ UNCHANGED venue
  <2> DEFINE c == [NoFormCall EXCEPT !.op = op, !.step = "writing", !.tab = t]
  <2>1. c \in FormCall /\ c.op = op /\ c.step = "writing" BY DEF FormCall
  <2>2. Call(r, c) /\ venue.status # "none" BY <1>4 DEF SendMove, Open
  <2> HIDE DEF c
  <2>3. CallFits(c) BY <2>1, <2>2 DEF CallFits
  <2> QED BY <2>1, <2>2, <2>3, CallKeeps DEF Call
<1> QED BY <1>1, <1>2, <1>3, <1>4

\* A step leaves the invariant as it is, and an address with its coordinates.
LEMMA FormStepsKeep ==
    ASSUME FormsInv, [FormsNext]_formVars
    PROVE  /\ FormsInv'
           /\ \/ overlapped' \/ UNCHANGED venue
              \/ /\ venue'.spot.of = venue'.place
                 /\ venue.spot.how = "pin" /\ venue'.spot.how # "pin" => venue'.place # venue.place
                 /\ venue.status = "LIVE" => venue'.place = venue.place
<1>1. CASE UNCHANGED formVars \/ \E t \in FormTabs : OpenForm(t) \/ \E p \in Places : TypeAddress(t, p)
  BY <1>1, FormsOnly
<1>2. ASSUME NEW r \in FormCalls, NEW t \in FormTabs,
             SendCreate(r, t) \/ SendAddress(r, t) \/ SendPin(r, t)
             \/ \E op \in {"submit", "cancel"} : SendMove(r, t, op)
      PROVE  FormsInv' /\ UNCHANGED venue
  BY <1>2, SendsKeep
<1>3. ASSUME NEW r \in FormCalls, NEW how \in {"geocoded", "centre"}, Locate(r, how)
      PROVE  FormsInv' /\ UNCHANGED venue
  BY <1>3, LocateKeeps DEF Locate
<1>4. ASSUME NEW r \in FormCalls, FailCall(r)
      PROVE  FormsInv' /\ UNCHANGED venue
  BY <1>4, FailKeepsForms DEF FailCall
<1>5. ASSUME NEW r \in FormCalls, WriteCreate(r)
      PROVE  FormsInv' /\ venue'.spot.of = venue'.place /\ venue.spot.how # "pin" /\ venue.status # "LIVE"
  BY <1>5, WriteCreateKeeps DEF FormsInv
<1>6. ASSUME NEW to \in {"LIVE", "DRAFT"}, Review(to)
      PROVE  /\ FormsInv' /\ (overlapped' \/ venue'.spot.of = venue'.place)
             /\ venue'.place = venue.place /\ venue'.spot = venue.spot
  BY <1>6, ReviewKeeps
<1> QED
  BY <1>1, <1>2, <1>3, <1>4, <1>5, <1>6, WriteAddressKeeps, WritePinKeeps, WriteMoveKeeps DEF FormsNext

THEOREM FormsInvariant == FormsSpec => []FormsInv
<1>1. FormsInit => FormsInv
  <2> SUFFICES ASSUME FormsInit PROVE FormsInv OBVIOUS
  <2>1. /\ venue \in Venue /\ venue.status = "none" /\ venue.spot = NoSpot /\ venue.place = NoPlace
        /\ form \in [FormTabs -> Places \cup {NoPlace}]
        /\ formCall \in [FormCalls -> FormCall] /\ \A r \in FormCalls : formCall[r] = NoFormCall
    BY NoFormCallFacts DEF FormsInit, Venue
  <2>2. overlapped \in BOOLEAN BY DEF FormsInit
  <2>3. FormsTypeOK BY <2>1, <2>2 DEF FormsTypeOK, Venue, FormCall
  <2>4. CallsFit /\ OneCreates BY <2>1, NoFormCallFacts DEF CallsFit, CallFits, OneCreates
  <2>5. venue.spot.how # "pin" /\ venue.spot.of = venue.place BY <2>1 DEF NoSpot
  <2> QED BY <2>3, <2>4, <2>5 DEF FormsInv
<1> QED BY <1>1, FormStepsKeep, PTL DEF FormsSpec

\* Every variable of the forms keeps its type.
THEOREM FormsTypeCorrect == FormsSpec => []FormsTypeOK
<1>1. FormsInv => FormsTypeOK BY DEF FormsInv
<1> QED BY <1>1, FormsInvariant, PTL

\* Until two requests overlap a drive's coordinates are of its address, a pin
\* gives way to another address only, and a live drive's address stays.
THEOREM AddressesKeepTheirSpot == FormsSpec => PlacesMoveWithTheirSpot
<1>1. FormsInv /\ [FormsNext]_formVars =>
          [\/ overlapped'
           \/ /\ venue'.spot.of = venue'.place
              /\ venue.spot.how = "pin" /\ venue'.spot.how # "pin" => venue'.place # venue.place
              /\ venue.status = "LIVE" => venue'.place = venue.place]_venue
  BY FormStepsKeep
<1> QED BY <1>1, FormsInvariant, PTL DEF FormsSpec, PlacesMoveWithTheirSpot

-----------------------------------------------------------------------------
(***************************************************************************)
(* Why a verdict fits the questions it was passed on, for every number of  *)
(* questions and however their drafts were typed.  Until a save lands      *)
(* after the approval, a live drive's questions are those its page shows,  *)
(* those a booking is judged by and those it was seated under.             *)
(***************************************************************************)

ScreeningSpec == ScreeningInit /\ [][ScreeningNext]_screeningVars

Types == {"BOOLEAN", "NUMERIC", "SINGLE_CHOICE"}
DraftType == [id : QuestionIds, type : Types, equals : {0, 1}, min : Bounds, max : Bounds,
              options : SUBSET Options, accepted : SUBSET Options]
\* The questions that can be sent: those some draft makes.
Asked == {Question(d) : d \in DraftType}
Shown == [id : QuestionIds, type : Types, options : SUBSET Options]
AnswerType == [type : {"none"} \cup Types, value : Bounds]
AnswersType == [QuestionIds -> AnswerType]
ScreenedVerdicts == [result : {"none", "passed", "failed", "invalid"}, question : QuestionIds \cup {0}]
Seats == [state : {"NONE", "CONFIRMED", "SCREENED_OUT", "WITHDRAWN"}, answers : AnswersType,
          reason : QuestionIds \cup {0}]

EditorFits ==
    /\ drafts \in Seq(DraftType) /\ Len(drafts) <= MaxQuestions
    /\ questions \in Seq(Asked) /\ ValidQuestions(questions)
    /\ saving \in [on : BOOLEAN, questions : Seq(Asked)] /\ ValidQuestions(saving.questions)
    /\ isLive \in BOOLEAN /\ savedOver \in BOOLEAN

PageFits ==
    /\ applyPage \in [open : BOOLEAN, questions : Seq(Shown)]
    /\ answers \in AnswersType /\ judging \in ScreenedVerdicts /\ seated \in Seats
    /\ judging # NoVerdict => applyPage.open

\* Nobody applies for a drive in review.
NotBeforeLive == ~isLive => applyPage = NoPage /\ judging = NoVerdict /\ seated = NotApplied

\* What the page shows and has been answered, and what is judged, is of the
\* drive's questions.
OfOneQuestionnaire ==
    /\ applyPage.open =>
        /\ applyPage.questions = Public(questions)
        /\ \A i \in DOMAIN questions : answers[questions[i].id] \in AnswersTo(questions[i]) \cup {NoAnswer}
    /\ judging # NoVerdict => judging = EvaluateKnockouts(questions, answers)
    /\ NeverInvalid /\ AnswersStillFit

ScreeningInv ==
    /\ EditorFits /\ PageFits /\ NotBeforeLive
    /\ ~savedOver => OfOneQuestionnaire

-----------------------------------------------------------------------------
(* Drafts and questions. *)

\* Opening a question for editing and sending it again keeps it.
LEMMA DraftOfQuestion ==
    ASSUME NEW d \in DraftType
    PROVE  /\ Question(d) \in QuestionType
           /\ Draft(Question(d)) \in DraftType
           /\ Question(Draft(Question(d))) = Question(d)
<1> DEFINE q == Question(d)
           e == Draft(q)
           low == IF d.type = "BOOLEAN" THEN d.equals ELSE IF d.type = "NUMERIC" THEN d.min ELSE Unset
           high == IF d.type = "BOOLEAN" THEN d.equals ELSE IF d.type = "NUMERIC" THEN d.max ELSE Unset
           some == IF d.type = "SINGLE_CHOICE" THEN d.options ELSE {}
           good == IF d.type = "SINGLE_CHOICE" THEN d.accepted \cap d.options ELSE {}
<1>1. q = [id |-> d.id, type |-> d.type, options |-> some, pass |-> [min |-> low, max |-> high, accepted |-> good]]
  BY DEF Question
<1>2. /\ low \in Bounds /\ high \in Bounds /\ some \in SUBSET Options /\ good \in SUBSET some
      /\ d.type = "BOOLEAN" => low = d.equals /\ high = d.equals
      /\ d.type # "BOOLEAN" /\ d.type # "NUMERIC" => low = Unset /\ high = Unset
      /\ d.type # "SINGLE_CHOICE" => some = {}
      /\ d.type \in Types /\ d.id \in QuestionIds /\ d.equals \in {0, 1}
  BY DEF DraftType, Bounds, Types
<1> HIDE DEF low, high, some, good
<1>3. q \in QuestionType BY <1>1, <1>2 DEF QuestionType, Types
<1> DEFINE n == NewDraft(q.id)
           eq == IF q.type = "BOOLEAN" THEN q.pass.min ELSE n.equals
           mn == IF q.type = "NUMERIC" THEN q.pass.min ELSE n.min
           mx == IF q.type = "NUMERIC" THEN q.pass.max ELSE n.max
<1>8. e = [n EXCEPT !.type = q.type, !.equals = eq, !.min = mn, !.max = mx,
                    !.options = q.options, !.accepted = q.pass.accepted]
  BY DEF Draft
<1>9. /\ q.id = d.id /\ q.type = d.type /\ q.options = some /\ q.pass.accepted = good
      /\ q.pass.min = low /\ q.pass.max = high
  BY <1>1
<1>10. /\ n = [id |-> d.id, type |-> "BOOLEAN", equals |-> 1, min |-> Unset, max |-> Unset, options |-> {}, accepted |-> {}]
       /\ n.equals = 1 /\ n.min = Unset /\ n.max = Unset
  BY <1>9 DEF NewDraft
<1>4. e = [id |-> d.id, type |-> d.type, equals |-> eq, min |-> mn, max |-> mx, options |-> some, accepted |-> good]
  <2> HIDE DEF n, eq, mn, mx, q, e
  <2> QED BY <1>8, <1>9, <1>10
<1>5. /\ eq \in {0, 1} /\ mn \in Bounds /\ mx \in Bounds
      /\ d.type = "BOOLEAN" => eq = low
      /\ d.type = "NUMERIC" => mn = low /\ mx = high
  <2> HIDE DEF n, q
  <2> QED BY <1>2, <1>9, <1>10 DEF Bounds
<1> HIDE DEF eq, mn, mx
<1>6. e \in DraftType BY <1>2, <1>4, <1>5 DEF DraftType
<1>7. Question(e) = [id |-> d.id, type |-> d.type, options |-> some, pass |-> [min |-> low, max |-> high, accepted |-> good]]
  <2>1. /\ e.id = d.id /\ e.type = d.type /\ e.equals = eq /\ e.min = mn /\ e.max = mx
        /\ e.options = some /\ e.accepted = good
    BY <1>4
  <2> HIDE DEF e
  <2>2. (IF e.type = "BOOLEAN" THEN e.equals ELSE IF e.type = "NUMERIC" THEN e.min ELSE Unset) = low
    BY <1>2, <1>5, <2>1 DEF Types
  <2>3. (IF e.type = "BOOLEAN" THEN e.equals ELSE IF e.type = "NUMERIC" THEN e.max ELSE Unset) = high
    BY <1>2, <1>5, <2>1 DEF Types
  <2>4. (IF e.type = "SINGLE_CHOICE" THEN e.options ELSE {}) = some
    BY <1>2, <2>1
  <2>5. (IF e.type = "SINGLE_CHOICE" THEN e.accepted \cap e.options ELSE {}) = good
    BY <1>2, <2>1
  <2> QED BY <2>1, <2>2, <2>3, <2>4, <2>5 DEF Question
<1> QED BY <1>1, <1>3, <1>6, <1>7

\* A function on 1..n is a sequence.
LEMMA SeqOver ==
    ASSUME NEW S, NEW n \in Nat, NEW f \in [1..n -> S]
    PROVE  f \in Seq(S) /\ Len(f) = n
  BY IsASeq, LenProperties

\* What an editor shows of questions, it sends again unchanged.
LEMMA DraftsOfQuestions ==
    ASSUME NEW qs \in Seq(Asked)
    PROVE  /\ KnockoutDrafts(qs) \in Seq(DraftType) /\ Len(KnockoutDrafts(qs)) = Len(qs)
           /\ KnockoutQuestions(KnockoutDrafts(qs)) = qs
           /\ \A i \in DOMAIN qs : qs[i] \in QuestionType
           /\ Public(qs) \in Seq(Shown) /\ DOMAIN Public(qs) = DOMAIN qs
<1>1. Len(qs) \in Nat /\ DOMAIN qs = 1..Len(qs) /\ \A i \in 1..Len(qs) : qs[i] \in Asked
  BY LenProperties, ElementOfSeq
<1>2. \A i \in 1..Len(qs) : qs[i] \in QuestionType /\ Draft(qs[i]) \in DraftType /\ Question(Draft(qs[i])) = qs[i]
  BY <1>1, DraftOfQuestion DEF Asked
<1>3. KnockoutDrafts(qs) \in [1..Len(qs) -> DraftType] BY <1>1, <1>2 DEF KnockoutDrafts
<1>4. KnockoutDrafts(qs) \in Seq(DraftType) /\ Len(KnockoutDrafts(qs)) = Len(qs)
  BY <1>1, <1>3, SeqOver
<1>5. KnockoutQuestions(KnockoutDrafts(qs)) = [i \in 1..Len(qs) |-> qs[i]]
  <2>1. DOMAIN KnockoutDrafts(qs) = 1..Len(qs) BY <1>3
  <2>2. \A i \in 1..Len(qs) : KnockoutDrafts(qs)[i] = Draft(qs[i]) BY <1>1 DEF KnockoutDrafts
  <2> QED BY <1>2, <2>1, <2>2 DEF KnockoutQuestions
<1>6. qs \in [1..Len(qs) -> Asked] BY LenProperties
<1>7. qs = [i \in 1..Len(qs) |-> qs[i]] BY <1>6
<1>8. Public(qs) \in [1..Len(qs) -> Shown]
  BY <1>1, <1>2 DEF Public, Shown, QuestionType, Types
<1>9. Public(qs) \in Seq(Shown) /\ DOMAIN Public(qs) = DOMAIN qs
  BY <1>1, <1>8, SeqOver
<1> QED BY <1>1, <1>2, <1>4, <1>5, <1>7, <1>9

\* What is sent is made from drafts.
LEMMA QuestionsOfDrafts ==
    ASSUME NEW ds \in Seq(DraftType)
    PROVE  KnockoutQuestions(ds) \in Seq(Asked) /\ Len(KnockoutQuestions(ds)) = Len(ds)
<1>1. Len(ds) \in Nat /\ DOMAIN ds = 1..Len(ds) /\ \A i \in 1..Len(ds) : ds[i] \in DraftType
  BY LenProperties, ElementOfSeq
<1>2. KnockoutQuestions(ds) \in [1..Len(ds) -> Asked] BY <1>1 DEF KnockoutQuestions, Asked
<1> QED BY <1>1, <1>2, SeqOver

\* No two of a drive's questions have the same id.
LEMMA IdsDiffer ==
    ASSUME NEW qs \in Seq(Asked), ValidQuestions(qs), NEW i \in DOMAIN qs, NEW j \in DOMAIN qs, qs[i].id = qs[j].id
    PROVE  i = j
<1>1. Len(qs) \in Nat /\ DOMAIN qs = 1..Len(qs) BY LenProperties
<1> DEFINE f == [k \in DOMAIN qs |-> qs[k].id]
<1>2. f \in Surjection(DOMAIN qs, Ids(qs)) BY DEF Surjection, Ids
<1>3. IsFiniteSet(DOMAIN qs) /\ Cardinality(DOMAIN qs) = Len(qs)
  <2>1. 1 \in Int /\ Len(qs) \in Int BY <1>1
  <2>2. IsFiniteSet(1..Len(qs)) /\ Cardinality(1..Len(qs)) = IF 1 > Len(qs) THEN 0 ELSE Len(qs) - 1 + 1
    BY <2>1, FS_Interval
  <2> QED BY <1>1, <2>2
<1>4. Cardinality(DOMAIN qs) = Cardinality(Ids(qs)) BY <1>3 DEF ValidQuestions
<1> HIDE DEF f
<1>5. f \in Injection(DOMAIN qs, Ids(qs)) BY <1>2, <1>3, <1>4, FS_SurjSameCardinalityImpliesInj
<1>6. f[i] = f[j] BY DEF f
<1> QED BY <1>5, <1>6 DEF Injection, IsInjective

-----------------------------------------------------------------------------
(* ScreenedVerdicts. *)

\* Answers that are each one a question can be given are never invalid, and
\* who fails does so on a question they were told of.
LEMMA VerdictOf ==
    ASSUME NEW qs \in Seq(Asked), NEW given
    PROVE  LET v == EvaluateKnockouts(qs, given) IN
           /\ v \in ScreenedVerdicts /\ v # NoVerdict
           /\ (\A i \in DOMAIN qs : given[qs[i].id] \in AnswersTo(qs[i])) => v.result # "invalid"
           /\ v.result \in {"passed", "failed", "invalid"}
           /\ v.result = "failed" => \E i \in DOMAIN qs : qs[i].id = v.question /\ ~Accepts(qs[i], given[v.question])
<1> DEFINE fails == {i \in DOMAIN qs : Malformed(qs[i], given[qs[i].id]) \/ ~Accepts(qs[i], given[qs[i].id])}
           first == CHOOSE i \in fails : \A j \in fails : i <= j
           how == IF Malformed(qs[first], given[qs[first].id]) THEN "invalid" ELSE "failed"
           v == EvaluateKnockouts(qs, given)
<1>1. v = IF fails = {} THEN [result |-> "passed", question |-> 0] ELSE [result |-> how, question |-> qs[first].id]
  BY DEF EvaluateKnockouts
<1>2. fails \in SUBSET Nat /\ fails \in SUBSET DOMAIN qs
  BY LenProperties
<1>3. CASE fails = {}
  <2>1. v = [result |-> "passed", question |-> 0] BY <1>1, <1>3
  <2>2. v \in ScreenedVerdicts /\ v # NoVerdict /\ v.result = "passed" BY <2>1 DEF ScreenedVerdicts, NoVerdict
  <2> QED BY <2>2
<1>4. CASE fails # {}
  <2>1. first \in fails
    <3> HIDE DEF fails
    <3>1. \E i \in fails : \A j \in fails : i <= j BY <1>2, <1>4, LeastOf
    <3> QED BY <3>1
  <2>2. first \in DOMAIN qs /\ (Malformed(qs[first], given[qs[first].id]) \/ ~Accepts(qs[first], given[qs[first].id]))
    BY <2>1
  <2> HIDE DEF fails, first
  <2>3. v.result = how /\ v.question = qs[first].id /\ v = [result |-> how, question |-> qs[first].id]
    BY <1>1, <1>4
  <2>4. qs[first].id \in QuestionIds BY <2>2, DraftsOfQuestions DEF QuestionType
  <2>5. \A q, a : a \in AnswersTo(q) => ~Malformed(q, a) BY DEF Malformed, AnswersTo
  <2>6. how \in {"failed", "invalid"} /\ (how = "failed" => ~Malformed(qs[first], given[qs[first].id]))
        /\ (how = "invalid" => Malformed(qs[first], given[qs[first].id]))
    OBVIOUS
  <2> HIDE DEF how
  <2>7. v \in ScreenedVerdicts /\ v # NoVerdict BY <2>3, <2>4, <2>6 DEF ScreenedVerdicts, NoVerdict
  <2> QED BY <2>2, <2>3, <2>5, <2>6, <2>7
<1> QED BY <1>3, <1>4

-----------------------------------------------------------------------------
(* Steps. *)

LEMMA ScreeningConstants ==
    /\ MaxQuestions \in Nat /\ MaxQuestions >= 1
    /\ Nothing \in AnswersType /\ NotApplied \in Seats /\ NotApplied.state = "NONE"
    /\ NoVerdict \in ScreenedVerdicts /\ NoVerdict.result = "none"
    /\ NotSaving \in [on : BOOLEAN, questions : Seq(Asked)] /\ NotSaving.questions = << >>
    /\ NoPage \in [open : BOOLEAN, questions : Seq(Shown)] /\ NoPage.open = FALSE
    /\ \A id \in QuestionIds : Nothing[id] = NoAnswer
<1>1. Nothing \in AnswersType /\ \A id \in QuestionIds : Nothing[id] = NoAnswer
  BY DEF Nothing, AnswersType, AnswerType, NoAnswer, Bounds, Types
<1>2. NotApplied \in Seats /\ NotApplied.state = "NONE" BY <1>1 DEF NotApplied, Seats
<1>3. NoVerdict \in ScreenedVerdicts /\ NoVerdict.result = "none" BY DEF NoVerdict, ScreenedVerdicts
<1>4. << >> \in Seq(Asked) /\ << >> \in Seq(Shown) BY EmptySeq
<1>5. NotSaving \in [on : BOOLEAN, questions : Seq(Asked)] /\ NotSaving.questions = << >> BY <1>4 DEF NotSaving
<1>6. NoPage \in [open : BOOLEAN, questions : Seq(Shown)] /\ NoPage.open = FALSE BY <1>4 DEF NoPage
<1> QED BY <1>1, <1>2, <1>3, <1>5, <1>6, ScreeningAssumption

\* No questions are valid ones.
LEMMA NoQuestionsValid == ValidQuestions(<< >>)
<1>1. DOMAIN << >> = {} /\ Len(<< >>) = 0 BY EmptySeq
<1>2. Ids(<< >>) = {} BY <1>1 DEF Ids
<1>3. Cardinality(Ids(<< >>)) = 0 BY <1>2, FS_EmptySet
<1>4. 0 <= MaxQuestions BY ScreeningConstants
<1> DEFINE qs == << >>
<1>5. Len(qs) <= MaxQuestions /\ Cardinality(Ids(qs)) = Len(qs) /\ \A i \in DOMAIN qs : ValidQuestion(qs[i])
  BY <1>1, <1>3, <1>4
<1> HIDE DEF qs
<1>6. ValidQuestions(qs) BY <1>5 DEF ValidQuestions
<1> QED BY <1>6 DEF qs

\* Typing into the editor touches the drafts alone.
LEMMA EditsKeep ==
    ASSUME ScreeningInv, AddQuestion \/ \E i \in DOMAIN drafts : RemoveQuestion(i) \/ EditQuestion(i)
    PROVE  ScreeningInv'
<1> USE DEF ScreeningInv
<1>1. /\ Len(drafts) \in Nat /\ DOMAIN drafts = 1..Len(drafts) /\ drafts \in [1..Len(drafts) -> DraftType]
      /\ \A i \in DOMAIN drafts : drafts[i] \in DraftType
  BY LenProperties DEF EditorFits
<1>2. UNCHANGED <<questions, isLive, saving, savedOver, applyPage, answers, judging, seated>>
  BY DEF AddQuestion, RemoveQuestion, EditQuestion, SetDrafts, pageVars
<1>3. CASE AddQuestion
  <2>1. PICK id \in QuestionIds : drafts' = Append(drafts, NewDraft(id)) /\ Len(drafts) < MaxQuestions
    BY <1>3 DEF AddQuestion, SetDrafts
  <2>2. NewDraft(id) \in DraftType BY DEF NewDraft, DraftType, Types, Bounds
  <2>3. drafts' \in Seq(DraftType) /\ Len(drafts') = Len(drafts) + 1
    BY <2>1, <2>2, AppendProperties DEF EditorFits
  <2>4. Len(drafts') <= MaxQuestions BY <1>1, <2>1, <2>3, ScreeningConstants
  <2> QED BY <1>2, <2>3, <2>4 DEF EditorFits, PageFits, NotBeforeLive, OfOneQuestionnaire, NeverInvalid, AnswersStillFit
<1>4. ASSUME NEW i \in DOMAIN drafts, RemoveQuestion(i) PROVE ScreeningInv'
  <2>1. drafts' = [j \in 1..(Len(drafts) - 1) |-> drafts[IF j < i THEN j ELSE j + 1]]
    BY <1>4 DEF RemoveQuestion, SetDrafts
  <2>2. Len(drafts) - 1 \in Nat BY <1>1
  <2>3. \A j \in 1..(Len(drafts) - 1) : (IF j < i THEN j ELSE j + 1) \in DOMAIN drafts BY <1>1
  <2>4. drafts' \in [1..(Len(drafts) - 1) -> DraftType] BY <1>1, <2>1, <2>3
  <2>5. drafts' \in Seq(DraftType) /\ Len(drafts') = Len(drafts) - 1 BY <2>2, <2>4, SeqOver
  <2>6. Len(drafts') <= MaxQuestions BY <1>1, <2>5, ScreeningConstants DEF EditorFits
  <2> QED BY <1>2, <2>5, <2>6 DEF EditorFits, PageFits, NotBeforeLive, OfOneQuestionnaire, NeverInvalid, AnswersStillFit
<1>5. ASSUME NEW i \in DOMAIN drafts, EditQuestion(i) PROVE ScreeningInv'
  <2>1. PICK d : /\ drafts' = [drafts EXCEPT ![i] = d]
                 /\ \/ \E t \in Types : d = [drafts[i] EXCEPT !.type = t]
                    \/ d = [drafts[i] EXCEPT !.equals = 1 - drafts[i].equals]
                    \/ \E b \in Bounds : d = [drafts[i] EXCEPT !.min = b] \/ d = [drafts[i] EXCEPT !.max = b]
                    \/ \E os \in SUBSET Options : d = [drafts[i] EXCEPT !.options = os]
                    \/ \E as \in SUBSET drafts[i].options :
                           d = [drafts[i] EXCEPT !.accepted = as \cup (drafts[i].accepted \ drafts[i].options)]
    <3> DEFINE retyped == {[drafts[i] EXCEPT !.type = t] : t \in {"BOOLEAN", "NUMERIC", "SINGLE_CHOICE"}}
               flipped == IF drafts[i].type = "BOOLEAN" THEN {[drafts[i] EXCEPT !.equals = 1 - @]} ELSE {}
               bounded == IF drafts[i].type = "NUMERIC"
                          THEN {[drafts[i] EXCEPT !.min = b] : b \in Bounds} \cup {[drafts[i] EXCEPT !.max = b] : b \in Bounds}
                          ELSE {}
               chosen == IF drafts[i].type = "SINGLE_CHOICE"
                         THEN {[drafts[i] EXCEPT !.options = os] : os \in SUBSET Options}
                              \cup {[drafts[i] EXCEPT !.accepted = as \cup (drafts[i].accepted \ drafts[i].options)] :
                                       as \in SUBSET drafts[i].options}
                         ELSE {}
    <3>1. PICK d \in retyped \cup flipped \cup bounded \cup chosen : SetDrafts([drafts EXCEPT ![i] = d])
      BY <1>5 DEF EditQuestion
    <3>2. drafts' = [drafts EXCEPT ![i] = d] BY <3>1 DEF SetDrafts
    <3>3. CASE d \in retyped BY <3>2, <3>3 DEF Types
    <3>4. CASE d \in flipped BY <3>2, <3>4
    <3>5. CASE d \in bounded BY <3>2, <3>5
    <3>6. CASE d \in chosen BY <3>2, <3>6
    <3> QED BY <3>1, <3>3, <3>4, <3>5, <3>6
  <2>2. drafts[i] \in DraftType BY <1>1
  <2>3. d \in DraftType
    <3>1. ASSUME NEW t \in Types, d = [drafts[i] EXCEPT !.type = t] PROVE d \in DraftType
      BY <2>2, <3>1 DEF DraftType
    <3>2. ASSUME d = [drafts[i] EXCEPT !.equals = 1 - drafts[i].equals] PROVE d \in DraftType
      <4>1. 1 - drafts[i].equals \in {0, 1} BY <2>2 DEF DraftType
      <4> QED BY <2>2, <3>2, <4>1 DEF DraftType
    <3>3. ASSUME NEW b \in Bounds, d = [drafts[i] EXCEPT !.min = b] \/ d = [drafts[i] EXCEPT !.max = b]
          PROVE d \in DraftType
      BY <2>2, <3>3 DEF DraftType
    <3>4. ASSUME NEW os \in SUBSET Options, d = [drafts[i] EXCEPT !.options = os] PROVE d \in DraftType
      BY <2>2, <3>4 DEF DraftType
    <3>5. ASSUME NEW as \in SUBSET drafts[i].options,
                 d = [drafts[i] EXCEPT !.accepted = as \cup (drafts[i].accepted \ drafts[i].options)]
          PROVE d \in DraftType
      BY <2>2, <3>5 DEF DraftType
    <3> QED BY <2>1, <3>1, <3>2, <3>3, <3>4, <3>5
  <2>4. drafts' \in Seq(DraftType) /\ Len(drafts') = Len(drafts)
    BY <1>1, <2>1, <2>3, ExceptSeq DEF EditorFits
  <2> QED BY <1>2, <2>4 DEF EditorFits, PageFits, NotBeforeLive, OfOneQuestionnaire, NeverInvalid, AnswersStillFit
<1> QED BY <1>3, <1>4, <1>5

\* The save and the approval.
LEMMA SavesKeep ==
    ASSUME ScreeningInv, SendSave \/ WriteSave \/ GoLive
    PROVE  ScreeningInv'
<1> USE DEF ScreeningInv
<1>1. CASE SendSave
  <2> DEFINE sent == KnockoutQuestions(drafts)
  <2>1. /\ saving' = [on |-> TRUE, questions |-> sent] /\ ValidQuestions(sent)
        /\ UNCHANGED <<drafts, questions, isLive, savedOver, applyPage, answers, judging, seated>>
    BY <1>1 DEF SendSave, pageVars
  <2>2. sent \in Seq(Asked) BY QuestionsOfDrafts DEF EditorFits
  <2> HIDE DEF sent
  <2>3. saving' \in [on : BOOLEAN, questions : Seq(Asked)] /\ ValidQuestions(saving'.questions)
    BY <2>1, <2>2
  <2> QED BY <2>1, <2>3 DEF EditorFits, PageFits, NotBeforeLive, OfOneQuestionnaire, NeverInvalid, AnswersStillFit, ValidQuestions
<1>2. CASE WriteSave
  <2>1. /\ questions' = saving.questions
        /\ drafts' = IF isLive THEN <<>> ELSE KnockoutDrafts(saving.questions)
        /\ saving' = NotSaving
        /\ UNCHANGED <<isLive, applyPage, answers, judging, seated>>
    BY <1>2 DEF WriteSave, pageVars
  <2>2. savedOver' = (savedOver \/ isLive) BY <1>2 DEF WriteSave
  <2>3. savedOver' \in BOOLEAN BY <2>2, Zenon
  <2>4. ~savedOver' => ~isLive BY <2>2, Zenon
  <2>5. saving.questions \in Seq(Asked) /\ ValidQuestions(saving.questions) BY DEF EditorFits
  <2>6. Len(saving.questions) <= MaxQuestions BY <2>5 DEF ValidQuestions
  <2>7. drafts' \in Seq(DraftType) /\ Len(drafts') <= MaxQuestions
    <3>1. CASE isLive BY <2>1, <3>1, EmptySeq, ScreeningConstants
    <3>2. CASE ~isLive BY <2>1, <2>5, <2>6, <3>2, DraftsOfQuestions
    <3> QED BY <3>1, <3>2
  <2>8. ValidQuestions(questions') /\ ValidQuestions(saving'.questions)
    BY <2>1, <2>5, NoQuestionsValid, ScreeningConstants
  <2>9. EditorFits' BY <2>1, <2>3, <2>5, <2>7, <2>8, ScreeningConstants DEF EditorFits, ValidQuestions
  <2>10. PageFits' /\ NotBeforeLive' BY <2>1 DEF PageFits, NotBeforeLive
  <2>11. ~savedOver' => OfOneQuestionnaire'
    BY <2>1, <2>4, ScreeningConstants
       DEF NotBeforeLive, OfOneQuestionnaire, NeverInvalid, AnswersStillFit
  <2> QED BY <2>9, <2>10, <2>11
<1>3. CASE GoLive
  <2>1. isLive' = TRUE /\ drafts' = << >> /\ UNCHANGED <<questions, saving, savedOver, applyPage, answers, judging, seated>>
    BY <1>3 DEF GoLive, pageVars
  <2>2. drafts' \in Seq(DraftType) /\ Len(drafts') <= MaxQuestions BY <2>1, EmptySeq, ScreeningConstants
  <2>3. isLive' \in BOOLEAN /\ isLive' BY <2>1
  <2> QED BY <2>1, <2>2, <2>3 DEF EditorFits, PageFits, NotBeforeLive, OfOneQuestionnaire, NeverInvalid, AnswersStillFit
<1> QED BY <1>1, <1>2, <1>3

\* The candidate opens the page, and everything is unanswered.
LEMMA OpenKeeps ==
    ASSUME ScreeningInv, OpenPage
    PROVE  ScreeningInv'
<1> USE DEF ScreeningInv
<1>1. /\ isLive /\ judging = NoVerdict /\ answers' = Nothing
      /\ applyPage' = [open |-> TRUE, questions |-> Public(questions)]
      /\ UNCHANGED <<drafts, questions, isLive, saving, savedOver, judging, seated>>
  BY DEF OpenPage, editorVars
<1>2. /\ questions \in Seq(Asked) /\ Public(questions) \in Seq(Shown)
      /\ \A i \in DOMAIN questions : questions[i].id \in QuestionIds
  BY DraftsOfQuestions DEF EditorFits, QuestionType
<1>3. /\ applyPage' \in [open : BOOLEAN, questions : Seq(Shown)]
      /\ applyPage'.open = TRUE /\ applyPage'.questions = Public(questions)
  BY <1>1, <1>2
<1>4. PageFits' BY <1>1, <1>3, ScreeningConstants DEF PageFits
<1>5. EditorFits' /\ NotBeforeLive' BY <1>1 DEF EditorFits, NotBeforeLive
<1>6. \A i \in DOMAIN questions : answers'[questions[i].id] = NoAnswer BY <1>1, <1>2, ScreeningConstants
<1>7. ~savedOver => OfOneQuestionnaire'
  BY <1>1, <1>3, <1>6 DEF OfOneQuestionnaire, NeverInvalid, AnswersStillFit, Public
<1> QED BY <1>1, <1>4, <1>5, <1>7

\* One answer changes, of one question: no other has its id.
LEMMA AnswerKeeps ==
    ASSUME ScreeningInv, NEW i \in DOMAIN applyPage.questions, AnswerQuestion(i)
    PROVE  ScreeningInv'
<1> USE DEF ScreeningInv
<1> DEFINE q == applyPage.questions[i]
<1>1. PICK a \in AnswersTo(q) \cup {NoAnswer} : answers' = [answers EXCEPT ![q.id] = a]
  BY DEF AnswerQuestion
<1>2. judging = NoVerdict /\ UNCHANGED <<drafts, questions, isLive, saving, savedOver, applyPage, judging, seated>>
  BY DEF AnswerQuestion, editorVars
<1>3. q \in Shown
  <2>1. applyPage.questions \in Seq(Shown) BY DEF PageFits
  <2>2. i \in 1..Len(applyPage.questions) BY <2>1, LenProperties
  <2> QED BY <2>1, <2>2, ElementOfSeq
<1>4. a \in AnswerType BY <1>1, <1>3 DEF AnswersTo, AnswerType, NoAnswer, Shown, Bounds, Types, Unset
<1>5. answers' \in AnswersType BY <1>1, <1>4 DEF PageFits, AnswersType
<1>6. PageFits' BY <1>2, <1>5 DEF PageFits
<1>7. EditorFits' BY <1>2 DEF EditorFits
<1>8. isLive
  <2>1. ASSUME applyPage = NoPage PROVE FALSE
    BY <2>1 DEF NoPage
  <2> QED BY <2>1 DEF NotBeforeLive
<1>9. NotBeforeLive' BY <1>2, <1>8 DEF NotBeforeLive
<1>10. ASSUME ~savedOver PROVE OfOneQuestionnaire'
  <2>1. AnswersStillFit' /\ NeverInvalid'
    BY <1>2, <1>10 DEF OfOneQuestionnaire, AnswersStillFit, NeverInvalid
  <2>2. ASSUME applyPage.open, NEW j \in DOMAIN questions
        PROVE  answers'[questions[j].id] \in AnswersTo(questions[j]) \cup {NoAnswer}
    <3>1. questions \in Seq(Asked) /\ DOMAIN Public(questions) = DOMAIN questions
      BY DraftsOfQuestions DEF EditorFits
    <3>2. applyPage.questions = Public(questions) BY <1>10, <2>2 DEF OfOneQuestionnaire
    <3>3. i \in DOMAIN questions BY <3>1, <3>2
    <3>4. q.id = questions[i].id /\ q.type = questions[i].type /\ q.options = questions[i].options
      BY <3>2, <3>3 DEF Public
    <3> HIDE DEF q
    <3>5. AnswersTo(q) = AnswersTo(questions[i]) BY <3>4 DEF AnswersTo
    <3>6. questions[j].id \in QuestionIds BY <3>1, DraftsOfQuestions DEF QuestionType
    <3>7. answers'[questions[j].id] = IF questions[j].id = q.id THEN a ELSE answers[questions[j].id]
      BY <1>1, <3>6 DEF PageFits, AnswersType
    <3>8. questions[j].id = questions[i].id => j = i
      BY <3>1, <3>3, IdsDiffer DEF EditorFits
    <3>9. answers[questions[j].id] \in AnswersTo(questions[j]) \cup {NoAnswer}
      BY <1>10, <2>2 DEF OfOneQuestionnaire
    <3> QED BY <1>1, <3>4, <3>5, <3>7, <3>8, <3>9
  <2> QED BY <1>2, <1>10, <2>1, <2>2 DEF OfOneQuestionnaire
<1> QED BY <1>2, <1>6, <1>7, <1>9, <1>10

\* A complete page is judged, and never found invalid.
LEMMA BookKeeps ==
    ASSUME ScreeningInv, Book
    PROVE  ScreeningInv'
<1> USE DEF ScreeningInv
<1>1. /\ applyPage.open /\ judging' = EvaluateKnockouts(questions, answers)
      /\ \A id \in Ids(applyPage.questions) : answers[id] # NoAnswer
      /\ UNCHANGED <<drafts, questions, isLive, saving, savedOver, applyPage, answers, seated>>
  BY DEF Book, editorVars
<1>2. questions \in Seq(Asked) BY DEF EditorFits
<1>3. judging' \in ScreenedVerdicts BY <1>1, <1>2, VerdictOf
<1>4. EditorFits' /\ PageFits' BY <1>1, <1>3 DEF EditorFits, PageFits
<1>5. NotBeforeLive'
  BY <1>1, ScreeningConstants DEF NotBeforeLive
<1>6. ASSUME ~savedOver PROVE OfOneQuestionnaire'
  <2>1. applyPage.questions = Public(questions) BY <1>1, <1>6 DEF OfOneQuestionnaire
  <2>2. \A i \in DOMAIN questions : answers[questions[i].id] # NoAnswer
    <3> SUFFICES ASSUME NEW i \in DOMAIN questions PROVE questions[i].id \in Ids(applyPage.questions)
      BY <1>1
    <3>1. DOMAIN Public(questions) = DOMAIN questions /\ Public(questions)[i].id = questions[i].id
      BY DEF Public
    <3> QED BY <2>1, <3>1 DEF Ids
  <2>3. \A i \in DOMAIN questions : answers[questions[i].id] \in AnswersTo(questions[i])
    BY <1>1, <1>6, <2>2 DEF OfOneQuestionnaire
  <2>4. judging'.result # "invalid" BY <1>1, <1>2, <2>3, VerdictOf
  <2> QED BY <1>1, <1>6, <2>4 DEF OfOneQuestionnaire, NeverInvalid, AnswersStillFit
<1> QED BY <1>1, <1>4, <1>5, <1>6

\* The verdict becomes the application's, with the answers it was of.
LEMMA CommitKeeps ==
    ASSUME ScreeningInv, CommitBooking
    PROVE  ScreeningInv'
<1> USE DEF ScreeningInv
<1> DEFINE state == IF judging.result = "passed" THEN "CONFIRMED" ELSE "SCREENED_OUT"
           booking == [state |-> state, answers |-> answers, reason |-> judging.question]
           page == [applyPage EXCEPT !.questions = Public(questions)]
<1>1. /\ judging # NoVerdict /\ judging' = NoVerdict /\ applyPage' = page
      /\ seated' = IF judging.result = "invalid" \/ seated.state \in {"CONFIRMED", "SCREENED_OUT"} THEN seated ELSE booking
      /\ UNCHANGED <<drafts, questions, isLive, saving, savedOver, answers>>
  BY DEF CommitBooking, editorVars
<1>2. questions \in Seq(Asked) /\ Public(questions) \in Seq(Shown) BY DraftsOfQuestions DEF EditorFits
<1>3. /\ page \in [open : BOOLEAN, questions : Seq(Shown)] /\ page.open = applyPage.open
      /\ page.questions = Public(questions)
  BY <1>2 DEF PageFits
<1>4. /\ state \in {"CONFIRMED", "SCREENED_OUT"}
      /\ state = "CONFIRMED" => judging.result = "passed"
      /\ state = "SCREENED_OUT" => judging.result # "passed"
  OBVIOUS
<1> HIDE DEF page, state
<1>5. booking \in Seats /\ booking.state = state /\ booking.answers = answers /\ booking.reason = judging.question
  BY <1>4 DEF Seats, PageFits, ScreenedVerdicts
<1> HIDE DEF booking
<1>6. EditorFits' /\ PageFits'
  BY <1>1, <1>3, <1>5, ScreeningConstants DEF EditorFits, PageFits
<1>7. NotBeforeLive' BY <1>1 DEF NotBeforeLive
<1>8. ASSUME ~savedOver PROVE OfOneQuestionnaire'
  <2>1. AnswersStillFit'
    <3>1. CASE seated' = seated BY <1>1, <1>8, <3>1 DEF OfOneQuestionnaire, AnswersStillFit
    <3>2. CASE seated' = booking /\ judging.result # "invalid"
      <4>1. judging = EvaluateKnockouts(questions, answers) BY <1>1, <1>8 DEF OfOneQuestionnaire
      <4>2. judging.result \in {"passed", "failed"} BY <1>2, <3>2, <4>1, VerdictOf
      <4>3. judging.result = "failed" => \E i \in DOMAIN questions :
                questions[i].id = judging.question /\ ~Accepts(questions[i], answers[judging.question])
        BY <1>2, <4>1, VerdictOf
      <4> QED BY <1>1, <1>4, <1>5, <3>2, <4>1, <4>2, <4>3 DEF AnswersStillFit
    <3> QED BY <1>1, <3>1, <3>2
  <2>2. NeverInvalid' BY <1>1, ScreeningConstants DEF NeverInvalid
  <2>3. \A i \in DOMAIN questions : applyPage.open => answers[questions[i].id] \in AnswersTo(questions[i]) \cup {NoAnswer}
    BY <1>8 DEF OfOneQuestionnaire
  <2>4. Public(questions)' = Public(questions) BY <1>1 DEF Public
  <2> QED BY <1>1, <1>3, <2>1, <2>2, <2>3, <2>4 DEF OfOneQuestionnaire
<1> QED BY <1>1, <1>6, <1>7, <1>8

\* A booking is given up.
LEMMA ReleaseKeeps ==
    ASSUME ScreeningInv, ReleaseBooking
    PROVE  ScreeningInv'
<1> USE DEF ScreeningInv
<1> DEFINE booking == [seated EXCEPT !.state = "WITHDRAWN"]
<1>1. /\ seated' = booking /\ seated.state = "CONFIRMED"
      /\ UNCHANGED <<drafts, questions, isLive, saving, savedOver, applyPage, answers, judging>>
  BY DEF ReleaseBooking, editorVars
<1>2. booking \in Seats /\ booking.state = "WITHDRAWN" BY DEF PageFits, Seats
<1> HIDE DEF booking
<1>3. EditorFits' /\ PageFits' BY <1>1, <1>2 DEF EditorFits, PageFits
<1>4. NotBeforeLive' BY <1>1, ScreeningConstants DEF NotBeforeLive
<1>5. ~savedOver => OfOneQuestionnaire'
  BY <1>1, <1>2 DEF OfOneQuestionnaire, NeverInvalid, AnswersStillFit
<1> QED BY <1>1, <1>3, <1>4, <1>5

THEOREM ScreeningInvariant == ScreeningSpec => []ScreeningInv
<1>1. ScreeningInit => ScreeningInv
  <2> SUFFICES ASSUME ScreeningInit PROVE ScreeningInv OBVIOUS
  <2> USE ScreeningConstants DEF ScreeningInit
  <2>1. << >> \in Seq(DraftType) /\ << >> \in Seq(Asked) /\ Len(<< >>) = 0 BY EmptySeq
  <2>2. isLive \in BOOLEAN /\ savedOver \in BOOLEAN OBVIOUS
  <2>3. EditorFits BY <2>1, <2>2, NoQuestionsValid DEF EditorFits
  <2>4. PageFits /\ NotBeforeLive BY DEF PageFits, NotBeforeLive
  <2>5. OfOneQuestionnaire BY DEF OfOneQuestionnaire, NeverInvalid, AnswersStillFit
  <2> QED BY <2>3, <2>4, <2>5 DEF ScreeningInv
<1>2. ScreeningInv /\ [ScreeningNext]_screeningVars => ScreeningInv'
  <2> SUFFICES ASSUME ScreeningInv, [ScreeningNext]_screeningVars PROVE ScreeningInv' OBVIOUS
  <2>1. CASE UNCHANGED screeningVars
    BY <2>1 DEF screeningVars, ScreeningInv, EditorFits, PageFits, NotBeforeLive, OfOneQuestionnaire,
                NeverInvalid, AnswersStillFit, ValidQuestions, Public
  <2> QED BY <2>1, EditsKeep, SavesKeep, OpenKeeps, AnswerKeeps, BookKeeps, CommitKeeps, ReleaseKeeps DEF ScreeningNext
<1> QED BY <1>1, <1>2, PTL DEF ScreeningSpec

\* Every variable of the questions keeps its type, and a drive only questions
\* that pass the schema.
THEOREM ScreeningTypeCorrect == ScreeningSpec => []ScreeningTypeOK
<1>1. ScreeningInv => ScreeningTypeOK
  <2> SUFFICES ASSUME ScreeningInv PROVE ScreeningTypeOK OBVIOUS
  <2>1. \A i \in DOMAIN questions : questions[i] \in QuestionType
    BY DraftsOfQuestions DEF ScreeningInv, EditorFits
  <2> QED BY <2>1 DEF ScreeningInv, EditorFits, PageFits, ScreenedVerdicts, Seats, ScreeningTypeOK
<1> QED BY <1>1, ScreeningInvariant, PTL

\* What a candidate was asked, was judged by and is read by are the same
\* questions, unless a save that began in review landed after the approval.
THEOREM TheVerdictsFit == ScreeningSpec => []VerdictsFit
<1>1. ScreeningInv => VerdictsFit
  BY DraftsOfQuestions DEF ScreeningInv, EditorFits, OfOneQuestionnaire, VerdictsFit, FormKeepsQuestions
<1> QED BY <1>1, ScreeningInvariant, PTL

-----------------------------------------------------------------------------
(***************************************************************************)
(* Why the code at the gate serves: the screen has a valid one as long as  *)
(* its requests are answered in time, and a scan of what it shows counts.  *)
(* For every lifetime, rotation and grace, however many requests overlap.  *)
(* Half of what rotation leaves of a code is spent on its own request, the *)
(* other half is left for the next one.                                    *)
(***************************************************************************)

CodesSpec == CodesInit /\ [][CodesNext]_codeVars

CodeTimes == {Never} \cup 0..EndsAt
Verdicts == {"none", "wrongCode", "codeExpired", "notOpen", "opensAt", "ended", "late", "onTime"}
CodeRequests == [at : {"none", "sent", "issued"}, since : 0..MaxMoment, code : CodeTimes]

\* What the clocks and records hold, and that none is ahead of the time.
CodesFit ==
    /\ moment \in 0..MaxMoment /\ isOpen \in BOOLEAN /\ hampered \in BOOLEAN
    /\ screen \in [code : CodeTimes, nextAt : Nat]
    /\ codeCall \in [CodeCalls -> CodeRequests]
    /\ scan \in [code : CodeTimes, at : 0..MaxMoment, sent : 0..MaxMoment, verdict : Verdicts]
    /\ screen.code <= moment
    /\ \A c \in CodeCalls : codeCall[c].at # "none" => codeCall[c].since <= moment
    /\ \A c \in CodeCalls : codeCall[c].at = "issued" =>
            codeCall[c].since <= codeCall[c].code /\ codeCall[c].code <= moment

\* A scan was of a code that was valid then, and once it is made the screen is dark.
ScansOfShown ==
    /\ scan.code # Never => scan.at < scan.code + TTL /\ scan.at <= moment
    /\ scan.code = Never => scan = NotScanned
    /\ scan # NotScanned => screen.code = Never /\ \A c \in CodeCalls : codeCall[c].at = "none"

\* No request has taken as long as half of what rotation leaves of a code.
RequestsAreQuick ==
    \A c \in CodeCalls : codeCall[c].at # "none" => 2 * (moment - codeCall[c].since) < TTL - Rotate
\* Nor had the one that brought the code shown.
ShownInTime == screen.code # Never => 2 * (screen.nextAt - Rotate - screen.code) < TTL - Rotate
\* Once the next code is overdue a request has been under way since it was due.
NextIsAskedFor ==
    scan = NotScanned /\ moment > screen.nextAt =>
        \E c \in CodeCalls : codeCall[c].at # "none" /\ codeCall[c].since <= screen.nextAt

CodesInv ==
    /\ CodesFit /\ ScansOfShown /\ ScansHonoured
    /\ ~hampered => RequestsAreQuick /\ ShownInTime /\ NextIsAskedFor

LEMMA CodeNumbers ==
    /\ TTL \in Nat /\ Rotate \in Nat /\ Retry \in Nat /\ ScanGrace \in Nat
    /\ OpensAt \in Nat /\ EndsAt \in Nat /\ MaxMoment \in Nat /\ Rotate < TTL
    /\ NoRequest \in CodeRequests /\ NoRequest.at = "none"
    /\ NotScanned \in [code : CodeTimes, at : 0..MaxMoment, sent : 0..MaxMoment, verdict : Verdicts]
    /\ NotScanned.code = Never /\ NotScanned.verdict = "none"
    /\ DarkScreen \in [code : CodeTimes, nextAt : Nat] /\ DarkScreen.code = Never
    /\ DarkScreen.nextAt = 0 /\ Never = -1
  BY CodeAssumption DEF NoRequest, CodeRequests, NotScanned, CodeTimes, Verdicts, DarkScreen, Never

\* The screen asks for the next code.
LEMMA AskKeeps ==
    ASSUME CodesInv, NEW c \in CodeCalls, AskForCode(c)
    PROVE  CodesInv'
<1> USE CodeNumbers DEF CodesInv
<1> DEFINE call == [at |-> "sent", since |-> moment, code |-> Never]
<1>1. /\ scan = NotScanned /\ moment >= screen.nextAt
      /\ codeCall' = [codeCall EXCEPT ![c] = call]
      /\ UNCHANGED <<moment, isOpen, screen, scan, hampered>>
  BY DEF AskForCode, Due
<1>2. call \in CodeRequests /\ call.at = "sent" /\ call.since = moment
  BY DEF CodeRequests, CodeTimes, CodesFit
<1> HIDE DEF call
<1>3. /\ \A d \in CodeCalls : codeCall'[d] = IF d = c THEN call ELSE codeCall[d]
      /\ codeCall[c].at = "none"
  BY <1>1 DEF CodesFit, AskForCode
<1>4. CodesFit' BY <1>1, <1>2, <1>3 DEF CodesFit
<1>5. ScansOfShown' /\ ScansHonoured'
  BY <1>1 DEF ScansOfShown, ScansHonoured
<1>6. ASSUME ~hampered PROVE RequestsAreQuick' /\ ShownInTime' /\ NextIsAskedFor'
  <2>1. RequestsAreQuick' BY <1>1, <1>2, <1>3, <1>6 DEF RequestsAreQuick, CodesFit
  <2>2. ShownInTime' BY <1>1, <1>6 DEF ShownInTime
  <2>3. NextIsAskedFor' BY <1>1, <1>2, <1>3, <1>6 DEF NextIsAskedFor
  <2> QED BY <2>1, <2>2, <2>3
<1> QED BY <1>1, <1>4, <1>5, <1>6

\* The API issues a code.
LEMMA IssueKeeps ==
    ASSUME CodesInv, NEW c \in CodeCalls, IssueCode(c)
    PROVE  CodesInv'
<1> USE CodeNumbers DEF CodesInv
<1> DEFINE call == [codeCall[c] EXCEPT !.at = "issued", !.code = moment]
<1>1. /\ codeCall' = [codeCall EXCEPT ![c].at = "issued", ![c].code = moment]
      /\ codeCall[c].at = "sent" /\ moment < EndsAt
      /\ UNCHANGED <<moment, isOpen, screen, scan, hampered>>
  BY DEF IssueCode
<1>2. /\ call \in CodeRequests /\ call.at = "issued" /\ call.since = codeCall[c].since /\ call.code = moment
      /\ codeCall' = [codeCall EXCEPT ![c] = call]
  <2>1. codeCall[c] \in CodeRequests /\ moment \in CodeTimes
    BY <1>1 DEF CodeTimes, CodesFit
  <2>2. call \in CodeRequests /\ call.at = "issued" /\ call.since = codeCall[c].since /\ call.code = moment
    BY <2>1 DEF CodeRequests
  <2>3. codeCall' = [codeCall EXCEPT ![c] = call]
    BY <1>1 DEF CodesFit
  <2> QED BY <2>2, <2>3
<1> HIDE DEF call
<1>3. \A d \in CodeCalls : codeCall'[d] = IF d = c THEN call ELSE codeCall[d]
  BY <1>2 DEF CodesFit
<1>4. CodesFit' BY <1>1, <1>2, <1>3 DEF CodesFit
<1>5. ScansOfShown' /\ ScansHonoured'
  BY <1>1, <1>2, <1>3 DEF ScansOfShown, ScansHonoured
<1>6. ASSUME ~hampered PROVE RequestsAreQuick' /\ ShownInTime' /\ NextIsAskedFor'
  <2>1. RequestsAreQuick' BY <1>1, <1>2, <1>3, <1>6 DEF RequestsAreQuick
  <2>2. ShownInTime' BY <1>1, <1>6 DEF ShownInTime
  <2>3. NextIsAskedFor'
    <3>1. \A d \in CodeCalls : codeCall'[d].since = codeCall[d].since /\ (codeCall'[d].at # "none" <=> codeCall[d].at # "none")
      BY <1>1, <1>2, <1>3
    <3> QED BY <1>1, <1>6, <3>1 DEF NextIsAskedFor
  <2> QED BY <2>1, <2>2, <2>3
<1> QED BY <1>1, <1>4, <1>5, <1>6

\* An answer is shown, older than the code it replaces or not.
LEMMA ShowKeeps ==
    ASSUME CodesInv, NEW c \in CodeCalls, ShowCode(c)
    PROVE  CodesInv'
<1> USE CodeNumbers DEF CodesInv
<1> DEFINE shown == [code |-> codeCall[c].code, nextAt |-> moment + Rotate]
<1>1. /\ codeCall[c].at = "issued"
      /\ screen' = shown
      /\ codeCall' = [codeCall EXCEPT ![c] = NoRequest]
      /\ UNCHANGED <<moment, isOpen, scan, hampered>>
  BY DEF ShowCode
<1>2. /\ shown \in [code : CodeTimes, nextAt : Nat] /\ shown.code = codeCall[c].code
      /\ shown.nextAt = moment + Rotate
      /\ codeCall[c].since <= codeCall[c].code /\ codeCall[c].code <= moment
      /\ codeCall[c].since \in Nat /\ codeCall[c].code \in Int /\ moment \in Nat
  BY <1>1 DEF CodesFit, CodeTimes, CodeRequests
<1> HIDE DEF shown
<1>3. \A d \in CodeCalls : codeCall'[d] = IF d = c THEN NoRequest ELSE codeCall[d]
  BY <1>1 DEF CodesFit
<1>4. CodesFit' BY <1>1, <1>2, <1>3 DEF CodesFit
<1>5. scan = NotScanned BY <1>1 DEF ScansOfShown
<1>6. ScansOfShown' /\ ScansHonoured'
  BY <1>1, <1>5 DEF ScansOfShown, ScansHonoured
<1>7. ASSUME ~hampered PROVE RequestsAreQuick' /\ ShownInTime' /\ NextIsAskedFor'
  <2>1. RequestsAreQuick' BY <1>1, <1>3, <1>7 DEF RequestsAreQuick
  <2>2. 2 * (moment - codeCall[c].since) < TTL - Rotate
    BY <1>1, <1>7 DEF RequestsAreQuick
  <2>3. ShownInTime'
    BY <1>1, <1>2, <2>2 DEF ShownInTime
  <2>4. NextIsAskedFor' BY <1>1, <1>2 DEF NextIsAskedFor
  <2> QED BY <2>1, <2>3, <2>4
<1> QED BY <1>1, <1>4, <1>6, <1>7

\* A request fails, which hampers the screen.
LEMMA FailKeeps ==
    ASSUME CodesInv, NEW c \in CodeCalls, FailCodeCall(c)
    PROVE  CodesInv'
<1> USE CodeNumbers DEF CodesInv
<1> DEFINE next == [screen EXCEPT !.nextAt = moment + Retry]
<1>1. /\ screen' = next /\ codeCall[c].at # "none" /\ hampered' = TRUE
      /\ codeCall' = [codeCall EXCEPT ![c] = NoRequest]
      /\ UNCHANGED <<moment, isOpen, scan>>
  BY DEF FailCodeCall
<1>2. next \in [code : CodeTimes, nextAt : Nat] /\ next.code = screen.code
  BY DEF CodesFit
<1> HIDE DEF next
<1>3. \A d \in CodeCalls : codeCall'[d] = IF d = c THEN NoRequest ELSE codeCall[d]
  BY <1>1 DEF CodesFit
<1>4. CodesFit' BY <1>1, <1>2, <1>3 DEF CodesFit
<1>5. ScansOfShown' /\ ScansHonoured'
  BY <1>1, <1>2, <1>3 DEF ScansOfShown, ScansHonoured
<1> QED BY <1>1, <1>4, <1>5

\* Time goes on: what took long by then hampers the screen.
LEMMA MomentKeeps ==
    ASSUME CodesInv, MomentPasses
    PROVE  CodesInv'
<1> USE CodeNumbers DEF CodesInv
<1>1. /\ moment < MaxMoment /\ moment' = moment + 1 /\ moment \in Nat
      /\ UNCHANGED <<isOpen, screen, codeCall, scan>>
      /\ scan = NotScanned /\ Due => Asking
  BY DEF MomentPasses, CodesFit
<1>2. hampered' = (hampered \/ \E c \in CodeCalls : TakesLong(c))
  BY DEF MomentPasses
<1>3. hampered' \in BOOLEAN BY <1>2, Zenon
<1>4. CodesFit'
  BY <1>1, <1>3 DEF CodesFit, CodeTimes, CodeRequests
<1>5. ScansOfShown' /\ ScansHonoured'
  BY <1>1 DEF ScansOfShown, ScansHonoured, CodesFit, CodeTimes
<1>6. ASSUME ~hampered' PROVE RequestsAreQuick' /\ ShownInTime' /\ NextIsAskedFor'
  <2>1. ~hampered /\ \A c \in CodeCalls : ~TakesLong(c)
    BY <1>2, <1>6
  <2>2. RequestsAreQuick'
    BY <1>1, <2>1 DEF RequestsAreQuick, TakesLong, CodesFit, CodeRequests
  <2>3. ShownInTime' BY <1>1, <2>1 DEF ShownInTime
  <2>4. NextIsAskedFor'
    <3> SUFFICES ASSUME scan = NotScanned, moment + 1 > screen.nextAt
                 PROVE  \E c \in CodeCalls : codeCall[c].at # "none" /\ codeCall[c].since <= screen.nextAt
      BY <1>1 DEF NextIsAskedFor
    <3>1. screen.nextAt \in Nat BY DEF CodesFit
    <3>2. CASE moment > screen.nextAt BY <2>1, <3>2 DEF NextIsAskedFor
    <3>3. CASE moment = screen.nextAt
      <4>1. PICK c \in CodeCalls : codeCall[c].at # "none" BY <1>1, <3>3 DEF Due, Asking
      <4>2. codeCall[c].since <= moment BY <4>1 DEF CodesFit
      <4> QED BY <3>3, <4>1, <4>2
    <3> QED BY <1>1, <3>1, <3>2, <3>3
  <2> QED BY <2>2, <2>3, <2>4
<1> QED BY <1>4, <1>5, <1>6

\* A candidate scans what the screen shows.
LEMMA TakeKeeps ==
    ASSUME CodesInv, TakeScan
    PROVE  CodesInv'
<1> USE CodeNumbers DEF CodesInv
<1> DEFINE taken == [NotScanned EXCEPT !.code = screen.code, !.at = moment]
<1>1. /\ scan' = taken /\ screen' = DarkScreen /\ codeCall' = NoRequests
      /\ UNCHANGED <<moment, isOpen, hampered>>
      /\ screen.code # Never /\ moment < screen.code + TTL
  BY DEF TakeScan, Lit
<1>2. screen.code \in CodeTimes /\ moment \in 0..MaxMoment
  BY DEF CodesFit
<1>3. /\ taken \in [code : CodeTimes, at : 0..MaxMoment, sent : 0..MaxMoment, verdict : Verdicts]
      /\ taken.code = screen.code /\ taken.at = moment /\ taken.verdict = "none"
  BY <1>2 DEF NotScanned, Verdicts
<1> HIDE DEF taken
<1>4. codeCall' \in [CodeCalls -> CodeRequests] /\ \A c \in CodeCalls : codeCall'[c].at = "none"
  BY <1>1 DEF NoRequests
<1>5. CodesFit' BY <1>1, <1>2, <1>3, <1>4 DEF CodesFit
<1>6. ScansOfShown' /\ ScansHonoured'
  BY <1>1, <1>2, <1>3, <1>4 DEF ScansOfShown, ScansHonoured
<1>7. RequestsAreQuick' /\ ShownInTime' /\ NextIsAskedFor'
  BY <1>1, <1>3, <1>4 DEF RequestsAreQuick, ShownInTime, NextIsAskedFor
<1> QED BY <1>5, <1>6, <1>7

\* The API judges the scan.
LEMMA JudgeKeeps ==
    ASSUME CodesInv, JudgeScan
    PROVE  CodesInv'
<1> USE CodeNumbers DEF CodesInv
<1> DEFINE verdict == Verdict(scan.code)
           judged == [scan EXCEPT !.sent = moment, !.verdict = verdict]
<1>1. /\ scan' = judged /\ scan.code # Never
      /\ UNCHANGED <<moment, isOpen, screen, codeCall, hampered>>
  BY DEF JudgeScan
<1>2. /\ moment \in 0..MaxMoment /\ scan.code \in Nat /\ scan.at \in Nat
      /\ scan.at < scan.code + TTL /\ scan.at <= moment
  BY <1>1 DEF CodesFit, CodeTimes, ScansOfShown
<1>3. verdict \in Verdicts /\ verdict # "none"
  BY DEF Verdict, Verdicts
<1>4. /\ verdict # "notOpen" /\ scan.at >= OpensAt /\ Expiry(scan.code) <= EndsAt
         /\ moment < Expiry(scan.code) + ScanGrace
      => verdict = IF moment <= Expiry(scan.code) THEN "onTime" ELSE "late"
  BY <1>2 DEF Verdict, Expiry, Resolves
<1> HIDE DEF verdict
<1>5. /\ judged \in [code : CodeTimes, at : 0..MaxMoment, sent : 0..MaxMoment, verdict : Verdicts]
      /\ judged.code = scan.code /\ judged.at = scan.at /\ judged.sent = moment /\ judged.verdict = verdict
  BY <1>2, <1>3 DEF CodesFit
<1> HIDE DEF judged
<1>6. CodesFit' BY <1>1, <1>5 DEF CodesFit
<1>7. ScansOfShown'
  BY <1>1, <1>5 DEF ScansOfShown
<1>8. ScansHonoured'
  BY <1>1, <1>4, <1>5 DEF ScansHonoured, Expiry
<1>9. scan # NotScanned BY <1>1
<1>10. scan' # NotScanned BY <1>1, <1>5
<1>11. ASSUME ~hampered PROVE RequestsAreQuick' /\ ShownInTime' /\ NextIsAskedFor'
  BY <1>1, <1>10, <1>11 DEF RequestsAreQuick, ShownInTime, NextIsAskedFor
<1> QED BY <1>1, <1>6, <1>7, <1>8, <1>11

THEOREM CodesInvariant == CodesSpec => []CodesInv
<1>1. CodesInit => CodesInv
  <2> SUFFICES ASSUME CodesInit PROVE CodesInv OBVIOUS
  <2>1. /\ moment = 0 /\ isOpen = TRUE /\ hampered = FALSE /\ screen = DarkScreen /\ scan = NotScanned
        /\ codeCall \in [CodeCalls -> CodeRequests] /\ \A c \in CodeCalls : codeCall[c].at = "none"
    BY CodeNumbers DEF CodesInit, NoRequests
  <2>5. isOpen \in BOOLEAN /\ hampered \in BOOLEAN BY <2>1
  <2>6. moment \in 0..MaxMoment /\ screen.code <= moment BY <2>1, CodeNumbers
  <2>2. CodesFit BY <2>1, <2>5, <2>6, CodeNumbers DEF CodesFit
  <2>3. ScansOfShown /\ ScansHonoured BY <2>1, CodeNumbers DEF ScansOfShown, ScansHonoured
  <2>4. RequestsAreQuick /\ ShownInTime /\ NextIsAskedFor
    BY <2>1, CodeNumbers DEF RequestsAreQuick, ShownInTime, NextIsAskedFor
  <2> QED BY <2>2, <2>3, <2>4 DEF CodesInv
<1>2. CodesInv /\ [CodesNext]_codeVars => CodesInv'
  <2> SUFFICES ASSUME CodesInv, [CodesNext]_codeVars PROVE CodesInv' OBVIOUS
  <2>1. CASE CloseDrive
    BY <2>1 DEF CloseDrive, CodesInv, CodesFit, ScansOfShown, ScansHonoured,
                RequestsAreQuick, ShownInTime, NextIsAskedFor
  <2>2. CASE UNCHANGED codeVars
    BY <2>2 DEF codeVars, CodesInv, CodesFit, ScansOfShown, ScansHonoured,
                RequestsAreQuick, ShownInTime, NextIsAskedFor
  <2> QED BY <2>1, <2>2, AskKeeps, IssueKeeps, ShowKeeps, FailKeeps, MomentKeeps, TakeKeeps, JudgeKeeps
          DEF CodesNext
<1> QED BY <1>1, <1>2, PTL DEF CodesSpec

\* Every variable of the codes keeps its type.
THEOREM CodesTypeCorrect == CodesSpec => []CodesTypeOK
<1>1. CodesInv => CodesTypeOK
  BY DEF CodesInv, CodesFit, CodesTypeOK, CodeTimes, CodeRequests, Verdicts
<1> QED BY <1>1, CodesInvariant, PTL

\* Scans of what the screen shows are honoured, and the screen is dark only when
\* a request of its failed or took long.
THEOREM TheCodesServe == CodesSpec => []CodesServe
<1>1. CodesInv => CodesServe
  <2> USE CodeNumbers
  <2> SUFFICES ASSUME CodesInv, screen.code # Never, ~hampered PROVE Lit
    BY DEF CodesServe, DarkOnlyWhenHampered, CodesInv
  <2>1. /\ moment \in Nat /\ screen.code \in Nat /\ screen.nextAt \in Nat
        /\ \A c \in CodeCalls : codeCall[c].since \in Nat
    BY DEF CodesInv, CodesFit, CodeTimes, CodeRequests
  <2>2. 2 * (screen.nextAt - Rotate - screen.code) < TTL - Rotate
    BY DEF CodesInv, ShownInTime
  <2>3. CASE moment > screen.nextAt
    <3>1. scan = NotScanned BY DEF CodesInv, ScansOfShown
    <3>2. PICK c \in CodeCalls : codeCall[c].at # "none" /\ codeCall[c].since <= screen.nextAt
      BY <2>3, <3>1 DEF CodesInv, NextIsAskedFor
    <3>3. 2 * (moment - codeCall[c].since) < TTL - Rotate
      BY <3>2 DEF CodesInv, RequestsAreQuick
    <3> QED BY <2>1, <2>2, <3>2, <3>3 DEF Lit
  <2>4. CASE moment <= screen.nextAt
    BY <2>1, <2>2, <2>4 DEF Lit
  <2> QED BY <2>1, <2>3, <2>4
<1> QED BY <1>1, CodesInvariant, PTL

-----------------------------------------------------------------------------
(***************************************************************************)
(* However many recruiters reject, and whoever books, withdraws or arrives *)
(* meanwhile: who loses a booked seat is told, and nobody else is.         *)
(*                                                                         *)
(* Inductive with two facts about a request that runs: whoever it is about *)
(* to tell has been rejected, and whoever is booked though it did not read *)
(* them so booked after it had read them.                                  *)
(***************************************************************************)

USE OutsiderAssumption

TellsOnlyRejected == \A d \in Desks : desk[d].telling # Outsider => seat[desk[d].telling] = "REJECTED"

UnreadBookedLater ==
    \A d \in Desks : desk[d].at = "rejecting" =>
        \A c \in desk[d].todo : seat[c] = "CONFIRMED" => c \in desk[d].readAs \cup outrun

\* A page that waits is not telling anybody.
TellsWhileRejecting == \A d \in Desks : desk[d].telling # Outsider => desk[d].at = "rejecting"

ApplicantsInv ==
    ApplicantsTypeOK /\ TellsOnlyRejected /\ UnreadBookedLater /\ TellsWhileRejecting /\ RejectedWereTold

-----------------------------------------------------------------------------
LEMMA ApplicantsInvInit == ApplicantsInit => ApplicantsInv
  BY DEF ApplicantsInit, ApplicantsInv, ApplicantsTypeOK, TellsOnlyRejected, UnreadBookedLater, TellsWhileRejecting,
     RejectedWereTold, IdleDesk, SeatStates, RequestSteps

DeskPage == [list : SUBSET Applying, ticked : SUBSET Applying, at : RequestSteps,
             todo : SUBSET Applying, readAs : SUBSET Applying, telling : Applying \cup {Outsider}]

\* The candidates' own steps and those of the arrivals desk.
LEMMA SeatStep ==
  ASSUME ApplicantsInv, NEW c \in Applying, BookAgain(c) \/ Withdraw(c) \/ ComeIn(c) \/ RejectArrived(c)
  PROVE  ApplicantsInv'
<1> USE DEF ApplicantsInv, Move
<1>1. ApplicantsTypeOK'
  BY DEF ApplicantsTypeOK, SeatStates, BookAgain, Withdraw, ComeIn, RejectArrived
<1>2. /\ \A x \in Applying : seat[x] = "REJECTED" => seat'[x] = "REJECTED"
      /\ desk' = desk /\ told' = told /\ displaced' = displaced /\ outrun \subseteq outrun'
  BY DEF ApplicantsTypeOK, BookAgain, Withdraw, ComeIn, RejectArrived
<1>3. TellsOnlyRejected' /\ TellsWhileRejecting' /\ RejectedWereTold'
  <2>1. \A d \in Desks : desk[d].telling # Outsider => desk[d].telling \in Applying
    BY DEF ApplicantsTypeOK
  <2>2. told \subseteq Applying
    BY DEF ApplicantsTypeOK
  <2>3. QED
    BY <1>2, <2>1, <2>2 DEF TellsOnlyRejected, TellsWhileRejecting, RejectedWereTold
<1>4. UnreadBookedLater'
  <2>1. SUFFICES ASSUME NEW d \in Desks, desk[d].at = "rejecting", NEW x \in desk[d].todo, seat'[x] = "CONFIRMED"
                 PROVE  x \in desk[d].readAs \cup outrun'
    BY <1>2 DEF UnreadBookedLater
  <2>2. CASE seat[x] = "CONFIRMED"
    BY <1>2, <2>1, <2>2 DEF UnreadBookedLater
  <2>3. CASE seat[x] # "CONFIRMED"
    <3>1. x = c /\ BookAgain(c)
      BY <2>1, <2>3 DEF ApplicantsTypeOK, BookAgain, Withdraw, ComeIn, RejectArrived
    <3>2. QED
      BY <2>1, <3>1 DEF BookAgain
  <2>4. QED
    BY <2>2, <2>3
<1>5. QED
  BY <1>1, <1>3, <1>4

\* A page that changes nothing but itself, and is not telling anybody after.
LEMMA PageStep ==
  ASSUME ApplicantsInv, NEW d \in Desks, NEW page \in DeskPage, SetDesk(d, page),
         UNCHANGED <<seat, told, displaced>>, outrun \subseteq outrun', outrun' \subseteq Applying,
         desk[d].telling # Outsider => page.telling = desk[d].telling \/ desk[d].telling \in told' \cup outrun',
         page.telling # Outsider => page.telling = desk[d].telling /\ page.at = "rejecting",
         page.at = "rejecting" => \A c \in page.todo : seat[c] = "CONFIRMED" => c \in page.readAs \cup outrun'
  PROVE  ApplicantsInv'
<1> USE DEF ApplicantsInv
<1>1. \A e \in Desks : desk'[e] = IF e = d THEN page ELSE desk[e]
  BY DEF SetDesk, ApplicantsTypeOK
<1>2. ApplicantsTypeOK'
  BY DEF SetDesk, ApplicantsTypeOK, DeskPage
<1>3. TellsOnlyRejected' /\ TellsWhileRejecting'
  BY <1>1 DEF TellsOnlyRejected, TellsWhileRejecting
<1>4. UnreadBookedLater'
  BY <1>1 DEF UnreadBookedLater
<1>5. RejectedWereTold'
  BY <1>1 DEF RejectedWereTold
<1>6. QED
  BY <1>2, <1>3, <1>4, <1>5

\* Rejecting the next one: who is booked was read as booked, or booked since.
LEMMA RejectStep ==
  ASSUME ApplicantsInv, NEW d \in Desks, NEW c \in Applying, RejectNext(d, c)
  PROVE  ApplicantsInv'
<1> USE DEF ApplicantsInv
<1>1. desk[d].at = "rejecting" /\ desk[d].telling = Outsider /\ c \in desk[d].todo /\ told' = told /\ outrun' = outrun
  BY DEF RejectNext
<1>2. desk[d] \in DeskPage /\ desk \in [Desks -> DeskPage] /\ seat \in [Applying -> SeatStates]
  BY DEF ApplicantsTypeOK, DeskPage
<1>3. CASE seat[c] \in {"CONFIRMED", "CHECKED_IN"}
  <2> DEFINE page == [desk[d] EXCEPT !.todo = @ \ {c}, !.telling = IF Tells(d, c) THEN c ELSE Outsider]
  <2>1. /\ seat' = [seat EXCEPT ![c] = "REJECTED"] /\ desk' = [desk EXCEPT ![d] = page]
        /\ displaced' = IF seat[c] = "CONFIRMED" THEN displaced \cup {c} ELSE displaced
    BY <1>3 DEF RejectNext, SetDesk
  <2>2. /\ page \in DeskPage /\ page.at = "rejecting" /\ page.todo \subseteq desk[d].todo
        /\ page.readAs = desk[d].readAs
        /\ page.telling = IF c \in desk[d].readAs THEN c ELSE Outsider
    BY <1>1, <1>2 DEF DeskPage, Tells
  <2>3. /\ \A e \in Desks : desk'[e] = IF e = d THEN page ELSE desk[e]
        /\ \A x \in Applying : seat'[x] = IF x = c THEN "REJECTED" ELSE seat[x]
    BY <1>2, <2>1
  <2>4. ApplicantsTypeOK'
    BY <1>1, <1>2, <2>1, <2>2 DEF ApplicantsTypeOK, DeskPage, SeatStates
  <2>5. TellsOnlyRejected' /\ TellsWhileRejecting'
    <3>1. \A e \in Desks : desk[e].telling # Outsider => desk[e].telling \in Applying
      BY <1>2 DEF DeskPage
    <3> SUFFICES ASSUME NEW e \in Desks, desk'[e].telling # Outsider
                 PROVE  seat'[desk'[e].telling] = "REJECTED" /\ desk'[e].at = "rejecting"
      BY DEF TellsOnlyRejected, TellsWhileRejecting
    <3>2. CASE e = d
      <4>1. desk'[e].telling = c /\ desk'[e].at = "rejecting"
        BY <2>2, <2>3, <3>2
      <4>2. QED
        BY <2>3, <4>1
    <3>3. CASE e # d
      <4>1. desk'[e] = desk[e]
        BY <2>3, <3>3
      <4>2. QED
        BY <2>3, <3>1, <4>1 DEF TellsOnlyRejected, TellsWhileRejecting
    <3>4. QED
      BY <3>2, <3>3
  <2>6. UnreadBookedLater'
    <3>1. SUFFICES ASSUME NEW e \in Desks, desk'[e].at = "rejecting", NEW x \in desk'[e].todo, seat'[x] = "CONFIRMED"
                   PROVE  x \in desk'[e].readAs \cup outrun
      BY <1>1 DEF UnreadBookedLater
    <3>2. x \in Applying /\ x # c /\ seat[x] = "CONFIRMED" /\ x \in desk[e].todo /\ desk[e].at = "rejecting"
          /\ desk'[e].readAs = desk[e].readAs
      BY <1>1, <1>2, <2>2, <2>3, <3>1 DEF DeskPage
    <3>3. QED
      BY <3>2 DEF UnreadBookedLater
  <2>7. RejectedWereTold'
    <3>1. \A x \in told : seat'[x] = "REJECTED"
      BY <2>3 DEF RejectedWereTold, ApplicantsTypeOK
    <3>2. ASSUME NEW x \in displaced'
          PROVE  x \in told \cup outrun \/ \E e \in Desks : desk'[e].telling = x
      <4>1. CASE x \in displaced
        BY <1>1, <1>2, <2>3, <4>1 DEF RejectedWereTold, ApplicantsTypeOK
      <4>2. CASE x \notin displaced
        <5>1. x = c /\ seat[c] = "CONFIRMED"
          BY <2>1, <3>2, <4>2
        <5>2. c \in desk[d].readAs \cup outrun
          BY <1>1, <5>1 DEF UnreadBookedLater
        <5>3. QED
          BY <2>2, <2>3, <5>1, <5>2
      <4>3. QED
        BY <4>1, <4>2
    <3>3. QED
      BY <1>1, <3>1, <3>2 DEF RejectedWereTold
  <2>8. QED
    BY <2>4, <2>5, <2>6, <2>7
<1>4. CASE seat[c] \notin {"CONFIRMED", "CHECKED_IN"}
  <2> DEFINE page == [desk[d] EXCEPT !.todo = @ \ {c}]
  <2>1. SetDesk(d, page) /\ UNCHANGED <<seat, told, displaced, outrun>>
    BY <1>4 DEF RejectNext
  <2>2. /\ page \in DeskPage /\ page.telling = Outsider /\ page.at = "rejecting"
        /\ page.todo \subseteq desk[d].todo /\ page.readAs = desk[d].readAs
    BY <1>1, <1>2 DEF DeskPage
  <2>3. \A x \in page.todo : seat[x] = "CONFIRMED" => x \in page.readAs \cup outrun'
    BY <1>1, <2>1, <2>2 DEF UnreadBookedLater
  <2>4. outrun' \subseteq Applying
    BY <2>1 DEF ApplicantsTypeOK
  <2>5. QED
    BY <1>1, <2>1, <2>2, <2>3, <2>4, PageStep
<1>5. QED
  BY <1>3, <1>4

\* No step of the candidates, the pages or the requests breaks the invariant.
LEMMA ApplicantsInvStep == ApplicantsInv /\ [ApplicantsNext]_applicantVars => ApplicantsInv'
<1> SUFFICES ASSUME ApplicantsInv, [ApplicantsNext]_applicantVars PROVE ApplicantsInv'
  OBVIOUS
<1>1. /\ desk \in [Desks -> DeskPage] /\ outrun \subseteq Applying /\ ApplicantsTypeOK
      /\ TellsWhileRejecting /\ UnreadBookedLater
  BY DEF ApplicantsInv, ApplicantsTypeOK, DeskPage
<1>2. ASSUME NEW d \in Desks, LoadList(d) PROVE ApplicantsInv'
  <2> DEFINE page == [desk[d] EXCEPT !.list = {c \in Applying : seat[c] # "WITHDRAWN"}]
  <2>1. /\ page \in DeskPage /\ page.telling = desk[d].telling /\ page.at = desk[d].at
        /\ page.todo = desk[d].todo /\ page.readAs = desk[d].readAs
    BY <1>1 DEF DeskPage
  <2>2. SetDesk(d, page) /\ UNCHANGED <<seat, told, displaced, outrun>>
    BY <1>2 DEF LoadList
  <2>3. QED
    BY <1>1, <2>1, <2>2, PageStep DEF TellsWhileRejecting, UnreadBookedLater
<1>3. ASSUME NEW d \in Desks, NEW c \in Applying, Toggle(d, c) PROVE ApplicantsInv'
  <2> DEFINE page == [desk[d] EXCEPT !.ticked = IF c \in @ THEN @ \ {c} ELSE @ \cup {c}]
  <2>1. /\ page \in DeskPage /\ page.telling = desk[d].telling /\ page.at = desk[d].at
        /\ page.todo = desk[d].todo /\ page.readAs = desk[d].readAs
    BY <1>1 DEF DeskPage
  <2>2. SetDesk(d, page) /\ UNCHANGED <<seat, told, displaced, outrun>>
    BY <1>3 DEF Toggle
  <2>3. QED
    BY <1>1, <2>1, <2>2, PageStep DEF TellsWhileRejecting, UnreadBookedLater
<1>4. ASSUME NEW d \in Desks, SendReject(d) PROVE ApplicantsInv'
  <2> DEFINE page == [desk[d] EXCEPT !.at = "reading", !.todo = desk[d].ticked]
  <2>1. page \in DeskPage /\ page.telling = desk[d].telling /\ page.at = "reading" /\ page.telling = Outsider
    BY <1>1, <1>4 DEF DeskPage, SendReject, TellsWhileRejecting, RequestSteps
  <2>2. SetDesk(d, page) /\ UNCHANGED <<seat, told, displaced, outrun>>
    BY <1>4 DEF SendReject
  <2>3. QED
    BY <1>1, <2>1, <2>2, PageStep
<1>5. ASSUME NEW d \in Desks, ReadApplicants(d) PROVE ApplicantsInv'
  <2> DEFINE page == [desk[d] EXCEPT !.at = "rejecting", !.readAs = {c \in desk[d].todo : seat[c] = "CONFIRMED"}]
  <2>1. /\ page \in DeskPage /\ page.telling = desk[d].telling /\ page.telling = Outsider
        /\ page.todo = desk[d].todo /\ page.readAs = {c \in desk[d].todo : seat[c] = "CONFIRMED"}
    BY <1>1, <1>5 DEF DeskPage, ReadApplicants, TellsWhileRejecting, RequestSteps
  <2>2. SetDesk(d, page) /\ UNCHANGED <<seat, told, displaced, outrun>>
    BY <1>5 DEF ReadApplicants
  <2>3. QED
    BY <1>1, <2>1, <2>2, PageStep
<1>6. ASSUME NEW d \in Desks, TellRejected(d) PROVE ApplicantsInv'
  <2> DEFINE c == desk[d].telling
             page == [desk[d] EXCEPT !.telling = Outsider]
  <2>1. /\ page \in DeskPage /\ page.telling = Outsider /\ page.at = desk[d].at
        /\ page.todo = desk[d].todo /\ page.readAs = desk[d].readAs
    BY <1>1 DEF DeskPage
  <2>2. /\ c # Outsider /\ c \in Applying /\ seat[c] = "REJECTED" /\ told' = told \cup {c}
        /\ desk' = [desk EXCEPT ![d] = page] /\ UNCHANGED <<seat, displaced, outrun>>
    BY <1>1, <1>6 DEF TellRejected, SetDesk, DeskPage, ApplicantsInv, TellsOnlyRejected
  <2>3. \A e \in Desks : desk'[e] = IF e = d THEN page ELSE desk[e]
    BY <1>1, <2>2
  <2>4. ApplicantsTypeOK'
    BY <1>1, <2>1, <2>2 DEF ApplicantsTypeOK, DeskPage
  <2>5. TellsOnlyRejected' /\ TellsWhileRejecting' /\ UnreadBookedLater'
    BY <2>1, <2>2, <2>3 DEF ApplicantsInv, TellsOnlyRejected, TellsWhileRejecting, UnreadBookedLater
  <2>6. RejectedWereTold'
    BY <2>1, <2>2, <2>3 DEF ApplicantsInv, RejectedWereTold
  <2>7. QED
    BY <2>4, <2>5, <2>6 DEF ApplicantsInv
<1>7. ASSUME NEW d \in Desks, AnswerReject(d) PROVE ApplicantsInv'
  <2> DEFINE page == [IdleDesk EXCEPT !.list = {c \in Applying : seat[c] # "WITHDRAWN"}]
  <2>1. page \in DeskPage /\ page.telling = Outsider /\ page.at = "idle"
    BY DEF DeskPage, IdleDesk, RequestSteps
  <2>2. SetDesk(d, page) /\ desk[d].telling = Outsider /\ UNCHANGED <<seat, told, displaced, outrun>>
    BY <1>7 DEF AnswerReject
  <2>3. QED
    BY <1>1, <2>1, <2>2, PageStep
<1>8. ASSUME NEW d \in Desks, RejectDies(d) PROVE ApplicantsInv'
  <2> DEFINE page == [desk[d] EXCEPT !.at = "idle", !.todo = {}, !.readAs = {}, !.telling = Outsider]
  <2>1. page \in DeskPage /\ page.telling = Outsider /\ page.at = "idle"
    BY <1>1 DEF DeskPage, RequestSteps
  <2>2. /\ SetDesk(d, page) /\ UNCHANGED <<seat, told, displaced>>
        /\ outrun' = outrun \cup ({desk[d].telling} \ {Outsider})
    BY <1>8 DEF RejectDies
  <2>3. outrun' \subseteq Applying /\ (desk[d].telling # Outsider => desk[d].telling \in outrun')
    BY <1>1, <2>2 DEF DeskPage
  <2>4. QED
    BY <2>1, <2>2, <2>3, PageStep
<1>9. CASE UNCHANGED applicantVars
  BY <1>9 DEF applicantVars, ApplicantsInv, ApplicantsTypeOK, TellsOnlyRejected, UnreadBookedLater,
     TellsWhileRejecting, RejectedWereTold
<1>10. QED
  BY <1>2, <1>3, <1>4, <1>5, <1>6, <1>7, <1>8, <1>9, SeatStep, RejectStep DEF ApplicantsNext

\* Whoever is rejected out of a booked seat is told not to travel, and nobody is
\* who still may: for any candidates and recruiters, however their pages, requests
\* and bookings overlap.
THEOREM RejectedAreTold == ApplicantsSpec => []RejectedWereTold
<1>1. ApplicantsInv => RejectedWereTold
  BY DEF ApplicantsInv
<1>2. QED
  BY ApplicantsInvInit, ApplicantsInvStep, <1>1, PTL DEF ApplicantsSpec

\* Every variable of the lists of applicants has its type.
THEOREM ApplicantsTypeCorrect == ApplicantsSpec => []ApplicantsTypeOK
<1>1. ApplicantsInv => ApplicantsTypeOK
  BY DEF ApplicantsInv
<1>2. QED
  BY ApplicantsInvInit, ApplicantsInvStep, <1>1, PTL DEF ApplicantsSpec

HIDE OutsiderAssumption

-----------------------------------------------------------------------------
(***************************************************************************)
(* Why pages put together are one search, for every number of drives,      *)
(* distances, radii, page sizes and searches at once.  Among the drives    *)
(* that match, those after a cursor are those with more places before      *)
(* them than the cursor's drive, so a page begins where the last ended.    *)
(* And unless the history says strayed, one search at most is under way    *)
(* and the session does not move under it.                                 *)
(***************************************************************************)

SearchSpec == SearchInit /\ [][SearchNext]_searchVars

Origins == {"city", "home"}
Cursors == [away : Int, id : Int]
Lists == [items : Seq(Listed), next : Cursors]
SearchesType == [kind : {"none", "fresh", "more", "home"}, radius : Nat, cursor : Cursors,
                 answered : BOOLEAN, result : Lists]

TypedSearch ==
    /\ SearchTypeOK
    /\ found \in Lists
    /\ searches \in [SearchCalls -> SearchesType]
    /\ \A c \in SearchCalls : searches[c].kind = "none" => searches[c] = NoSearch

\* The list is the beginning of the whole, and its cursor says where it ends.
GoodList(list, from, radius) ==
    LET whole == InOrder(from, Matching(from, radius))
        n == Len(list.items)
    IN  /\ n <= Len(whole) /\ \A i \in 1..n : list.items[i] = whole[i]
        /\ n = Len(whole) => list.next = NoCursor
        /\ n < Len(whole) => n > 0 /\ list.next = [away |-> Away[from][list.items[n]], id |-> list.items[n]]

ShownFrom == IF session = "shown" THEN "home" ELSE "city"

\* Searches that nothing happened to: alone, of the filter that is applied,
\* and answered from the origin that the page is about to show.
OneSearch(c) ==
    LET s == searches[c] IN
    /\ loading
    /\ \A d \in SearchCalls : searches[d] # NoSearch => d = c
    /\ s.kind = "home" <=> session = "searching"
    /\ session # "restored"
    /\ s.radius = filter.applied
    /\ s.cursor = IF s.kind = "more" THEN found.next ELSE NoCursor
    /\ s.kind = "more" => found.next # NoCursor
    /\ s.answered => s.result = Search(Origin, s.radius, s.cursor)

ListInv ==
    /\ TypedSearch
    /\ ~strayed =>
        /\ \A c \in SearchCalls : searches[c] # NoSearch => OneSearch(c)
        /\ (\E c \in SearchCalls : searches[c].kind = "fresh") \/ GoodList(found, ShownFrom, filter.applied)

-----------------------------------------------------------------------------
(* The order. *)

\* Sets with nothing in common add up.
LEMMA ApartAddUp ==
    ASSUME NEW A, NEW B, IsFiniteSet(A), IsFiniteSet(B), A \cap B = {}
    PROVE  Cardinality(A \cup B) = Cardinality(A) + Cardinality(B)
<1>1. Cardinality(A \cap B) = 0
  BY FS_EmptySet
<1>2. Cardinality(A \cup B) = Cardinality(A) + Cardinality(B) - Cardinality(A \cap B)
  BY FS_Union
<1>3. Cardinality(A) \in Nat /\ Cardinality(B) \in Nat
  BY FS_CardinalityType
<1> QED BY <1>1, <1>2, <1>3

\* Distances and ids are numbers, and any set of drives is finite.
LEMMA DrivesAreNumbers ==
    ASSUME NEW from \in Origins, NEW S \in SUBSET Listed
    PROVE  /\ IsFiniteSet(S) /\ Cardinality(S) \in Nat
           /\ \A d \in S : d \in Nat /\ Away[from][d] \in Nat
<1>1. /\ Listed \subseteq Nat /\ IsFiniteSet(Listed)
      /\ Away \in [Origins -> [Listed -> Nat]]
  BY ListedAssumption DEF Origins
<1>2. Away[from] \in [Listed -> Nat]
  BY <1>1
<1> QED BY <1>1, <1>2, FS_Subset, FS_CardinalityType

\* The drives of a set up to one of them.
UpToDrive(from, S, d) == {e \in S : e = d \/ Before(from, e, d)}

\* The order is total, and the places follow it.
LEMMA PlacesFollowOrder ==
    ASSUME NEW from \in Origins, NEW S \in SUBSET Listed
    PROVE  /\ \A d \in S : Rank(from, S, d) \in 1..Cardinality(S)
           /\ \A d, e \in S : Before(from, d, e) => Rank(from, S, d) < Rank(from, S, e)
           /\ \A d, e \in S : d = e \/ Before(from, d, e) \/ Before(from, e, d)
<1> DEFINE Through(d) == UpToDrive(from, S, d)
<1>1. /\ IsFiniteSet(S) /\ Cardinality(S) \in Nat
      /\ \A d \in S : d \in Nat /\ Away[from][d] \in Nat
  BY DrivesAreNumbers
<1>2. \A d \in S : Rank(from, S, d) = Cardinality(Through(d))
  BY DEF Rank, UpToDrive
<1>3. \A d \in S : d \in Through(d) /\ Through(d) \in SUBSET S
  BY DEF UpToDrive
<1>4. ASSUME NEW d \in S PROVE Rank(from, S, d) \in 1..Cardinality(S)
  <2>1. IsFiniteSet(Through(d)) /\ Cardinality(Through(d)) <= Cardinality(S)
    BY <1>1, <1>3, FS_Subset
  <2>2. Cardinality(Through(d)) \in Nat
    BY <2>1, FS_CardinalityType
  <2>3. Cardinality(Through(d)) # 0
    BY <1>3, <2>1, FS_EmptySet
  <2> QED BY <1>1, <1>2, <2>1, <2>2, <2>3
<1>5. ASSUME NEW d \in S, NEW e \in S, Before(from, d, e) PROVE Rank(from, S, d) < Rank(from, S, e)
  <2>1. \A f \in S : Before(from, f, d) => Before(from, f, e)
    BY <1>1, <1>5 DEF Before
  <2>2. Through(d) \in SUBSET Through(e)
    BY <1>5, <2>1 DEF UpToDrive
  <2>3. e \in Through(e) /\ e \notin Through(d)
    BY <1>1, <1>5 DEF UpToDrive, Before
  <2>4. IsFiniteSet(Through(e))
    BY <1>1, <1>3, FS_Subset
  <2>5. Cardinality(Through(d)) <= Cardinality(Through(e)) /\ Cardinality(Through(d)) # Cardinality(Through(e))
    BY <2>2, <2>3, <2>4, FS_Subset
  <2>6. Cardinality(Through(d)) \in Nat /\ Cardinality(Through(e)) \in Nat
    BY <1>1, <1>2, <1>4
  <2> QED BY <1>2, <2>5, <2>6
<1>6. \A d, e \in S : d = e \/ Before(from, d, e) \/ Before(from, e, d)
  BY <1>1 DEF Before
<1> QED BY <1>4, <1>5, <1>6

\* Every place is somebody's, and only one's.
LEMMA EveryPlaceIsTaken ==
    ASSUME NEW from \in Origins, NEW S \in SUBSET Listed
    PROVE  /\ \A n \in 1..Cardinality(S) : \E d \in S : Rank(from, S, d) = n
           /\ \A d, e \in S : Rank(from, S, d) = Rank(from, S, e) => d = e
<1> DEFINE place == [d \in S |-> Rank(from, S, d)]
           N == Cardinality(S)
<1>1. IsFiniteSet(S) /\ N \in Nat
  BY DrivesAreNumbers
<1>2. \A d \in S : Rank(from, S, d) \in 1..N
  BY PlacesFollowOrder
<1>3. \A d, e \in S : Rank(from, S, d) = Rank(from, S, e) => d = e
  <2> SUFFICES ASSUME NEW d \in S, NEW e \in S, d # e PROVE Rank(from, S, d) # Rank(from, S, e)
    OBVIOUS
  <2>1. Before(from, d, e) \/ Before(from, e, d)
    BY PlacesFollowOrder
  <2>2. Rank(from, S, d) < Rank(from, S, e) \/ Rank(from, S, e) < Rank(from, S, d)
    BY <2>1, PlacesFollowOrder
  <2> QED BY <1>1, <1>2, <2>2
<1>4. place \in Injection(S, 1..N)
  BY <1>2, <1>3 DEF Injection, IsInjective
<1>5. IsFiniteSet(1..N) /\ Cardinality(1..N) = N
  <2>1. 1 \in Int /\ N \in Int
    BY <1>1
  <2>2. IsFiniteSet(1..N) /\ Cardinality(1..N) = IF 1 > N THEN 0 ELSE N - 1 + 1
    BY <2>1, FS_Interval
  <2> QED BY <1>1, <2>2
<1>6. place \in Surjection(S, 1..N)
  BY <1>4, <1>5, FS_Injection
<1>7. \A n \in 1..N : \E d \in S : place[d] = n
  BY <1>6 DEF Surjection
<1> QED BY <1>3, <1>7

\* The rows in order: each at its place.
LEMMA RowsInOrder ==
    ASSUME NEW from \in Origins, NEW S \in SUBSET Listed
    PROVE  /\ InOrder(from, S) \in Seq(S) /\ Len(InOrder(from, S)) = Cardinality(S)
           /\ \A n \in 1..Cardinality(S) : InOrder(from, S)[n] \in S /\ Rank(from, S, InOrder(from, S)[n]) = n
           /\ \A d \in S : InOrder(from, S)[Rank(from, S, d)] = d
<1> DEFINE rows == InOrder(from, S)
<1>1. Cardinality(S) \in Nat
  BY DrivesAreNumbers
<1>2. rows = [n \in 1..Cardinality(S) |-> CHOOSE d \in S : Rank(from, S, d) = n]
  BY DEF InOrder
<1>3. \A n \in 1..Cardinality(S) : rows[n] = CHOOSE d \in S : Rank(from, S, d) = n
  BY <1>2
<1>4. \A n \in 1..Cardinality(S) : \E d \in S : Rank(from, S, d) = n
  BY EveryPlaceIsTaken
<1>5. \A n \in 1..Cardinality(S) : rows[n] \in S /\ Rank(from, S, rows[n]) = n
  <2> HIDE DEF rows
  <2> SUFFICES ASSUME NEW n \in 1..Cardinality(S) PROVE rows[n] \in S /\ Rank(from, S, rows[n]) = n
    OBVIOUS
  <2> QED BY <1>3, <1>4, Zenon
<1>6. rows \in [1..Cardinality(S) -> S]
  BY <1>2, <1>5
<1>7. \A d \in S : rows[Rank(from, S, d)] = d
  BY <1>5, PlacesFollowOrder, EveryPlaceIsTaken
<1> HIDE DEF rows
<1>8. rows \in Seq(S) /\ Len(rows) = Cardinality(S)
  BY <1>1, <1>6, SeqOver
<1> QED BY <1>5, <1>7, <1>8 DEF rows

\* The rows after one of them are the rest of the rows.
LEMMA RestInOrder ==
    ASSUME NEW from \in Origins, NEW S \in SUBSET Listed, NEW n \in 1..Cardinality(S), NEW R,
           R = {d \in S : Before(from, InOrder(from, S)[n], d)}
    PROVE  /\ Cardinality(R) = Cardinality(S) - n
           /\ \A k \in 1..Cardinality(R) : InOrder(from, R)[k] = InOrder(from, S)[n + k]
<1> DEFINE last == InOrder(from, S)[n]
           P == UpToDrive(from, S, last)
<1>1. /\ last \in S /\ Rank(from, S, last) = n
      /\ \A d \in S : InOrder(from, S)[Rank(from, S, d)] = d
  BY RowsInOrder
<1>2. /\ IsFiniteSet(S) /\ Cardinality(S) \in Nat /\ n \in Nat
      /\ \A d \in S : d \in Nat /\ Away[from][d] \in Nat
  BY DrivesAreNumbers
<1>3. R \in SUBSET S /\ P \in SUBSET S /\ R \in SUBSET Listed
  BY DEF UpToDrive
<1>4. \A d \in S : d \in R <=> Before(from, last, d)
  OBVIOUS
<1> HIDE DEF last
<1>5. \A d \in S : d \in P <=> d = last \/ Before(from, d, last)
  BY DEF UpToDrive
<1>6. Cardinality(P) = n
  BY <1>1 DEF Rank, UpToDrive
<1>7. IsFiniteSet(P) /\ IsFiniteSet(R) /\ Cardinality(R) \in Nat
  BY <1>2, <1>3, FS_Subset, FS_CardinalityType
<1> HIDE DEF P
<1>8. \A d \in S : d \notin P <=> d \in R
  <2>1. \A d \in S : d = last \/ Before(from, d, last) \/ Before(from, last, d)
    BY <1>1, PlacesFollowOrder
  <2>2. \A d \in S : Before(from, last, d) => d # last /\ ~Before(from, d, last)
    BY <1>1, <1>2 DEF Before
  <2> QED BY <1>4, <1>5, <2>1, <2>2
<1>9. S = P \cup R /\ P \cap R = {}
  BY <1>3, <1>8
<1>10. Cardinality(S) = n + Cardinality(R)
  BY <1>6, <1>7, <1>9, ApartAddUp
<1>11. ASSUME NEW d \in R PROVE Rank(from, S, d) = n + Rank(from, R, d)
  <2> DEFINE before == UpToDrive(from, R, d)
  <2>1. \A e \in S : e = last \/ Before(from, e, last) => Before(from, e, d)
    BY <1>1, <1>2, <1>3, <1>4 DEF Before
  <2>2. UpToDrive(from, S, d) = P \cup before
    BY <1>3, <1>5, <1>9, <2>1 DEF UpToDrive
  <2>3. before \in SUBSET R /\ P \cap before = {}
    BY <1>9 DEF UpToDrive
  <2>4. IsFiniteSet(before) /\ Cardinality(before) \in Nat
    BY <1>7, <2>3, FS_Subset, FS_CardinalityType
  <2>5. Cardinality(P \cup before) = n + Cardinality(before)
    BY <1>6, <1>7, <2>3, <2>4, ApartAddUp
  <2> QED BY <2>2, <2>5 DEF Rank, UpToDrive
<1>12. ASSUME NEW k \in 1..Cardinality(R) PROVE InOrder(from, R)[k] = InOrder(from, S)[n + k]
  <2>1. InOrder(from, R)[k] \in R /\ Rank(from, R, InOrder(from, R)[k]) = k
    BY <1>3, RowsInOrder
  <2>2. Rank(from, S, InOrder(from, R)[k]) = n + k
    BY <1>11, <2>1
  <2> QED BY <1>1, <1>3, <2>1, <2>2
<1> QED BY <1>2, <1>7, <1>10, <1>12

-----------------------------------------------------------------------------
(* A page. *)

\* The drives that a search is about.
AfterIt(from, radius, cursor) == {d \in Matching(from, radius) : After(from, cursor, d)}

\* The first rows, and a cursor if there are more.
CutOf(page, rows, from) ==
    LET n == Len(page.items) IN
    /\ page = [items |-> page.items, next |-> page.next]
    /\ rows \in Seq(Listed) /\ page.items \in Seq(Listed)
    /\ n <= Len(rows) /\ \A i \in 1..n : page.items[i] = rows[i]
    /\ n = Len(rows) => page.next = NoCursor
    /\ n < Len(rows) => n > 0 /\ page.next = [away |-> Away[from][page.items[n]], id |-> page.items[n]]

\* Every page of a search is cut so.
LEMMA PageIsCut ==
    ASSUME NEW from \in Origins, NEW radius, NEW cursor
    PROVE  LET rows == InOrder(from, AfterIt(from, radius, cursor))
           IN  CutOf(Search(from, radius, cursor), rows, from) /\ Len(rows) = Cardinality(AfterIt(from, radius, cursor))
<1> DEFINE R == AfterIt(from, radius, cursor)
           rows == InOrder(from, R)
           page == Search(from, radius, cursor)
           cut == SubSeq(rows, 1, SearchPage)
           items == IF Len(rows) > SearchPage THEN cut ELSE rows
           next == IF Len(rows) > SearchPage
                   THEN [away |-> Away[from][items[Len(items)]], id |-> items[Len(items)]] ELSE NoCursor
<1>1. R \in SUBSET Listed
  BY DEF AfterIt, Matching
<1>2. page = [items |-> items, next |-> next]
  BY DEF Search, AfterIt
<1>3. page.items = items /\ page.next = next
  <2> HIDE DEF page, items, next
  <2> QED BY <1>2
<1>4. rows \in Seq(R) /\ Len(rows) = Cardinality(R) /\ Cardinality(R) \in Nat
  BY <1>1, RowsInOrder, DrivesAreNumbers
<1>5. rows \in Seq(Listed) /\ Len(rows) \in Nat
  BY <1>1, <1>4, SeqMonotonic
<1>6. \A i \in 1..Len(rows) : rows[i] \in Listed
  BY <1>5, ElementOfSeq
<1> HIDE DEF rows, page, R, items, next
<1>7. CASE Len(rows) > SearchPage
  <2>1. SearchPage \in Nat /\ SearchPage > 0
    BY ListedAssumption
  <2>2. \A i \in 1..SearchPage : rows[i] \in Listed
    BY <1>5, <1>6, <1>7, <2>1
  <2>3. cut \in Seq(Listed) /\ Len(cut) = SearchPage /\ \A i \in 1..SearchPage : cut[i] = rows[i]
    <3>1. /\ cut \in Seq(Listed) /\ Len(cut) = IF 1 <= SearchPage THEN SearchPage - 1 + 1 ELSE 0
          /\ \A i \in 1..SearchPage - 1 + 1 : cut[i] = rows[1 + i - 1]
      BY <2>1, <2>2, SubSeqProperties
    <3> QED BY <2>1, <3>1
  <2>4. items = cut
    BY <1>7 DEF items
  <2> HIDE DEF cut
  <2>5. next = [away |-> Away[from][items[Len(items)]], id |-> items[Len(items)]]
    BY <1>7 DEF next
  <2> QED BY <1>2, <1>3, <1>4, <1>5, <1>7, <2>1, <2>3, <2>4, <2>5 DEF rows, page, R, CutOf
<1>8. CASE ~(Len(rows) > SearchPage)
  <2>1. items = rows /\ next = NoCursor
    BY <1>8 DEF items, next
  <2> QED BY <1>2, <1>3, <1>4, <1>5, <2>1 DEF rows, page, R, CutOf
<1> QED BY <1>7, <1>8

LEMMA PagesAreTyped ==
    ASSUME NEW from \in Origins, NEW radius, NEW cursor
    PROVE  Search(from, radius, cursor) \in Lists
<1> DEFINE page == Search(from, radius, cursor)
           n == Len(page.items)
           rows == InOrder(from, AfterIt(from, radius, cursor))
<1> HIDE DEF page, rows
<1>1. CutOf(page, rows, from)
  BY PageIsCut DEF page, rows
<1>2. /\ page = [items |-> page.items, next |-> page.next] /\ page.items \in Seq(Listed)
      /\ rows \in Seq(Listed) /\ n <= Len(rows)
      /\ n = Len(rows) => page.next = NoCursor
      /\ n < Len(rows) => n > 0 /\ page.next = [away |-> Away[from][page.items[n]], id |-> page.items[n]]
  BY <1>1 DEF CutOf
<1>3. n \in Nat /\ Len(rows) \in Nat
  BY <1>2, LenProperties
<1>4. \/ page.next = NoCursor
      \/ n > 0 /\ page.next = [away |-> Away[from][page.items[n]], id |-> page.items[n]]
  BY <1>2, <1>3
<1>5. page.next \in Cursors
  <2>1. NoCursor \in Cursors
    BY DEF NoCursor, Cursors
  <2>2. ASSUME n > 0 PROVE [away |-> Away[from][page.items[n]], id |-> page.items[n]] \in Cursors
    <3>1. page.items[n] \in Listed
      BY <1>2, <1>3, <2>2, ElementOfSeq
    <3>2. page.items[n] \in Nat /\ Away[from][page.items[n]] \in Nat
      BY <3>1, DrivesAreNumbers
    <3> QED BY <3>2 DEF Cursors
  <2> QED BY <1>4, <2>1, <2>2
<1>6. [items |-> page.items, next |-> page.next] \in Lists
  BY <1>2, <1>5 DEF Lists
<1> QED BY <1>2, <1>6 DEF page

\* The first page is the beginning of the list.
LEMMA FirstPage ==
    ASSUME NEW from \in Origins, NEW radius
    PROVE  GoodList(Search(from, radius, NoCursor), from, radius)
<1>1. Matching(from, radius) \in SUBSET Listed
  BY DEF Matching
<1>2. \A d \in Matching(from, radius) : Away[from][d] \in Nat
  BY <1>1, DrivesAreNumbers
<1>3. AfterIt(from, radius, NoCursor) = Matching(from, radius)
  BY <1>2 DEF AfterIt, After, NoCursor
<1> QED BY <1>3, PageIsCut DEF GoodList, CutOf

\* The page after the end of a list goes on with it.
LEMMA NextPage ==
    ASSUME NEW from \in Origins, NEW radius, NEW list,
           list.items \in Seq(Listed), list.next # NoCursor, GoodList(list, from, radius)
    PROVE  GoodList([items |-> list.items \o Search(from, radius, list.next).items,
                     next |-> Search(from, radius, list.next).next], from, radius)
<1> DEFINE S == Matching(from, radius)
           whole == InOrder(from, S)
           items == list.items
           n == Len(items)
           page == Search(from, radius, list.next)
           R == AfterIt(from, radius, list.next)
           rows == InOrder(from, R)
           m == Len(page.items)
           longer == items \o page.items
<1>1. S \in SUBSET Listed /\ R \in SUBSET Listed
  BY DEF Matching, AfterIt
<1>2. /\ Len(whole) = Cardinality(S) /\ Cardinality(S) \in Nat /\ Cardinality(R) \in Nat
      /\ \A i \in 1..Cardinality(S) : whole[i] \in S
  BY <1>1, RowsInOrder, DrivesAreNumbers
<1>3. n \in Nat
  BY LenProperties
<1>4. /\ n <= Len(whole) /\ \A i \in 1..n : items[i] = whole[i]
      /\ n = Len(whole) => list.next = NoCursor
      /\ n < Len(whole) => n > 0 /\ list.next = [away |-> Away[from][items[n]], id |-> items[n]]
  BY DEF GoodList
<1>5. n \in 1..Cardinality(S) /\ list.next = [away |-> Away[from][whole[n]], id |-> whole[n]]
  <2>1. n < Len(whole)
    BY <1>2, <1>3, <1>4
  <2>2. n > 0 /\ list.next = [away |-> Away[from][items[n]], id |-> items[n]]
    BY <1>4, <2>1
  <2>3. n \in 1..Cardinality(S) /\ n \in 1..n
    BY <1>2, <1>3, <1>4, <2>2
  <2>4. items[n] = whole[n]
    BY <1>4, <2>3
  <2> QED BY <2>2, <2>3, <2>4
<1>6. R = {d \in S : Before(from, whole[n], d)}
  <2>1. \A d \in S : After(from, list.next, d) <=> Before(from, whole[n], d)
    <3>1. list.next.away = Away[from][whole[n]] /\ list.next.id = whole[n]
      BY <1>5
    <3>2. whole[n] \in Nat /\ Away[from][whole[n]] \in Nat
      BY <1>1, <1>2, <1>5, DrivesAreNumbers
    <3>3. \A d \in S : d \in Nat /\ Away[from][d] \in Nat
      BY <1>1, DrivesAreNumbers
    <3> HIDE DEF whole, S
    <3> QED BY <3>1, <3>2, <3>3 DEF After, Before
  <2> QED BY <2>1 DEF AfterIt
<1>7. Cardinality(R) = Cardinality(S) - n /\ \A k \in 1..Cardinality(R) : rows[k] = whole[n + k]
  BY <1>1, <1>5, <1>6, RestInOrder
<1>8. /\ Len(rows) = Cardinality(R) /\ page.items \in Seq(Listed)
      /\ m <= Len(rows) /\ \A i \in 1..m : page.items[i] = rows[i]
      /\ m = Len(rows) => page.next = NoCursor
      /\ m < Len(rows) => m > 0 /\ page.next = [away |-> Away[from][page.items[m]], id |-> page.items[m]]
  BY PageIsCut DEF CutOf
<1>9. m \in Nat
  BY <1>8, LenProperties
<1> HIDE DEF whole, S, page, R, rows
<1>10. /\ Len(longer) = n + m
       /\ \A i \in 1..n + m : longer[i] = IF i <= n THEN items[i] ELSE page.items[i - n]
  <2>1. items \in Seq(Listed)
    OBVIOUS
  <2> HIDE DEF items
  <2>2. /\ Len(longer) = Len(items) + Len(page.items)
        /\ \A i \in 1..Len(items) + Len(page.items) :
              longer[i] = IF i <= Len(items) THEN items[i] ELSE page.items[i - Len(items)]
    BY <1>8, <2>1, ConcatProperties
  <2> QED BY <2>2
<1> HIDE DEF longer, items, n, m
<1>11. ASSUME NEW i \in 1..n + m PROVE longer[i] = whole[i]
  <2>1. CASE i <= n
    <3>1. i \in 1..n
      BY <1>3, <1>9, <2>1
    <3> QED BY <1>4, <1>10, <2>1, <3>1
  <2>2. CASE ~(i <= n)
    <3>1. i - n \in 1..m /\ i - n \in 1..Cardinality(R) /\ n + (i - n) = i
      BY <1>2, <1>3, <1>8, <1>9, <2>2
    <3>2. longer[i] = rows[i - n]
      BY <1>8, <1>10, <2>2, <3>1
    <3>3. rows[i - n] = whole[n + (i - n)]
      BY <1>7, <3>1
    <3> QED BY <3>1, <3>2, <3>3
  <2> QED BY <2>1, <2>2
<1>12. n + m <= Len(whole)
  BY <1>2, <1>3, <1>7, <1>8, <1>9
<1>13. n + m = Len(whole) => page.next = NoCursor
  BY <1>2, <1>3, <1>7, <1>8, <1>9
<1>14. ASSUME n + m < Len(whole)
       PROVE  n + m > 0 /\ page.next = [away |-> Away[from][longer[n + m]], id |-> longer[n + m]]
  <2>1. m < Len(rows)
    BY <1>2, <1>3, <1>7, <1>8, <1>9, <1>14
  <2>2. m > 0 /\ page.next = [away |-> Away[from][page.items[m]], id |-> page.items[m]]
    BY <1>8, <2>1
  <2>3. n + m \in 1..n + m /\ ~(n + m <= n) /\ (n + m) - n = m
    BY <1>3, <1>9, <2>2
  <2>4. longer[n + m] = page.items[m]
    BY <1>10, <2>3
  <2> QED BY <1>3, <1>9, <2>2, <2>4
<1> DEFINE new == [items |-> longer, next |-> page.next]
<1>15. new.items = longer /\ new.next = page.next
  OBVIOUS
<1> HIDE DEF new
<1>16. GoodList(new, from, radius)
  <2>1. Len(new.items) = n + m
    BY <1>10, <1>15
  <2> QED BY <1>11, <1>12, <1>13, <1>14, <1>15, <2>1 DEF GoodList, whole, S
<1> QED BY <1>16 DEF new, longer, items, page

-----------------------------------------------------------------------------
(* Every variable has its type. *)

\* A search of this kind, in no state yet.
Query(kind, radius, cursor) == [NoSearch EXCEPT !.kind = kind, !.radius = radius, !.cursor = cursor]

LEMMA AskedIs ==
    ASSUME NEW kind \in {"fresh", "more", "home"}, NEW radius \in Nat, NEW cursor \in Cursors
    PROVE  /\ Query(kind, radius, cursor) \in SearchesType
           /\ Query(kind, radius, cursor).kind = kind /\ Query(kind, radius, cursor).radius = radius
           /\ Query(kind, radius, cursor).cursor = cursor /\ ~Query(kind, radius, cursor).answered
<1>1. NoSearch \in SearchesType /\ ~NoSearch.answered
  <2>1. NoCursor \in Cursors
    BY DEF NoCursor, Cursors
  <2>2. [items |-> <<>>, next |-> NoCursor] \in Lists
    BY <2>1 DEF Lists
  <2> QED BY <2>1, <2>2 DEF NoSearch, SearchesType
<1> QED BY <1>1 DEF SearchesType, Query

LEMMA SearchTypesStart == SearchInit => TypedSearch
<1> SUFFICES ASSUME SearchInit PROVE TypedSearch
  OBVIOUS
<1>1. PICK r \in Radii :
        /\ found = Search("city", r, NoCursor)
        /\ filter = [typed |-> r, applied |-> r, opened |-> r]
        /\ session = "none" /\ searches = [c \in SearchCalls |-> NoSearch]
        /\ loading = FALSE /\ strayed = FALSE
  BY DEF SearchInit
<1>2. found \in Lists
  BY <1>1, PagesAreTyped DEF Origins
<1>3. NoSearch \in SearchesType /\ NoSearch.kind = "none"
  <2>1. NoCursor \in Cursors
    BY DEF NoCursor, Cursors
  <2>2. [items |-> <<>>, next |-> NoCursor] \in Lists
    BY <2>1 DEF Lists
  <2> QED BY <2>1, <2>2 DEF NoSearch, SearchesType
<1>4. found.items \in Seq(Listed)
  BY <1>2 DEF Lists
<1>5. filter \in [typed : Radii, applied : Radii, opened : Radii]
  BY <1>1
<1> QED BY <1>1, <1>2, <1>3, <1>4, <1>5 DEF TypedSearch, SearchTypeOK

\* What is known of every state before a step.
LEMMA TypesOfSearch ==
    ASSUME TypedSearch
    PROVE  /\ found \in Lists /\ found.items \in Seq(Listed) /\ found.next \in Cursors
           /\ filter \in [typed : Radii, applied : Radii, opened : Radii]
           /\ filter.typed \in Radii /\ filter.applied \in Radii /\ filter.opened \in Radii
           /\ session \in {"none", "restored", "searching", "shown"}
           /\ loading \in BOOLEAN /\ strayed \in BOOLEAN
           /\ searches \in [SearchCalls -> SearchesType]
           /\ \A c \in SearchCalls : searches[c].kind = "none" => searches[c] = NoSearch
           /\ Origin \in Origins /\ ShownFrom \in Origins
           /\ NoSearch.kind = "none" /\ ~NoSearch.answered
BY DEF TypedSearch, SearchTypeOK, Lists, Origins, Origin, ShownFrom, NoSearch

\* Searches whose entries are typed are typed.
LEMMA TypesOfSearches ==
    ASSUME NEW now, NEW c \in SearchCalls, NEW s \in SearchesType,
           s.kind = "none" => s = NoSearch,
           searches \in [SearchCalls -> SearchesType],
           \A d \in SearchCalls : searches[d].kind = "none" => searches[d] = NoSearch,
           now = [searches EXCEPT ![c] = s]
    PROVE  /\ now \in [SearchCalls -> SearchesType]
           /\ \A d \in SearchCalls : now[d].kind = "none" => now[d] = NoSearch
           /\ \A d \in SearchCalls : now[d].kind \in {"none", "fresh", "more", "home"}
<1>1. now \in [SearchCalls -> SearchesType]
  OBVIOUS
<1>2. \A d \in SearchCalls : now[d] = IF d = c THEN s ELSE searches[d]
  OBVIOUS
<1>3. \A d \in SearchCalls : now[d].kind \in {"none", "fresh", "more", "home"}
  BY <1>1 DEF SearchesType
<1>4. \A d \in SearchCalls : now[d].kind = "none" => now[d] = NoSearch
  BY <1>2
<1> QED BY <1>1, <1>3, <1>4

\* A search has begun: it is asked, and all else is as it was.
Begun(c, kind, radius, cursor) ==
    /\ loading' = TRUE /\ found' = found
    /\ searches'[c].kind = kind /\ searches'[c].radius = radius
    /\ searches'[c].cursor = cursor /\ ~searches'[c].answered
    /\ \A d \in SearchCalls \ {c} : searches'[d] = searches[d]

\* A search begun takes its place.
LEMMA BegunIsTyped ==
    ASSUME TypedSearch, NEW c \in SearchCalls, NEW kind \in {"fresh", "more", "home"},
           NEW radius \in Radii, NEW cursor \in Cursors, RunSearch(c, kind, radius, cursor)
    PROVE  /\ searches' = [searches EXCEPT ![c] = Query(kind, radius, cursor)]
           /\ searches' \in [SearchCalls -> SearchesType]
           /\ \A d \in SearchCalls : searches'[d].kind = "none" => searches'[d] = NoSearch
           /\ \A d \in SearchCalls : searches'[d].kind \in {"none", "fresh", "more", "home"}
           /\ Begun(c, kind, radius, cursor)
<1> DEFINE s == Query(kind, radius, cursor)
<1>1. radius \in Nat
  BY ListedAssumption
<1>2. s \in SearchesType /\ s.kind = kind /\ s.radius = radius /\ s.cursor = cursor /\ ~s.answered
  BY <1>1, AskedIs
<1>3. searches' = [searches EXCEPT ![c] = s] /\ loading' = TRUE /\ found' = found
  BY DEF RunSearch, Query
<1> HIDE DEF s
<1>4. /\ searches \in [SearchCalls -> SearchesType]
      /\ \A d \in SearchCalls : searches[d].kind = "none" => searches[d] = NoSearch
  BY TypesOfSearch
<1>5. /\ searches' \in [SearchCalls -> SearchesType]
      /\ \A d \in SearchCalls : searches'[d].kind = "none" => searches'[d] = NoSearch
      /\ \A d \in SearchCalls : searches'[d].kind \in {"none", "fresh", "more", "home"}
  <2>1. s.kind = "none" => s = NoSearch
    BY <1>2
  <2> QED BY <1>2, <1>3, <1>4, <2>1, TypesOfSearches
<1>6. searches'[c] = s /\ \A d \in SearchCalls \ {c} : searches'[d] = searches[d]
  BY <1>3, <1>4
<1>7. Begun(c, kind, radius, cursor)
  BY <1>2, <1>3, <1>6 DEF Begun
<1> QED BY <1>3, <1>5, <1>7 DEF s

LEMMA SearchTypesKept == TypedSearch /\ [SearchNext]_searchVars => TypedSearch'
<1> SUFFICES ASSUME TypedSearch, [SearchNext]_searchVars PROVE TypedSearch'
  OBVIOUS
<1>1. /\ found \in Lists /\ found.items \in Seq(Listed) /\ found.next \in Cursors
      /\ filter \in [typed : Radii, applied : Radii, opened : Radii]
      /\ filter.typed \in Radii /\ filter.applied \in Radii /\ filter.opened \in Radii
      /\ session \in {"none", "restored", "searching", "shown"}
      /\ loading \in BOOLEAN /\ strayed \in BOOLEAN
      /\ searches \in [SearchCalls -> SearchesType]
      /\ \A c \in SearchCalls : searches[c].kind = "none" => searches[c] = NoSearch
      /\ Origin \in Origins
  BY TypesOfSearch
<1>2. \A c \in SearchCalls : searches[c].kind \in {"none", "fresh", "more", "home"}
  BY <1>1 DEF SearchesType
<1>3. NoSearch \in SearchesType /\ NoCursor \in Cursors
  <2>1. NoCursor \in Cursors
    BY DEF NoCursor, Cursors
  <2>2. [items |-> <<>>, next |-> NoCursor] \in Lists
    BY <2>1 DEF Lists
  <2> QED BY <2>1, <2>2 DEF NoSearch, SearchesType
<1>4. CASE UNCHANGED searchVars
  BY <1>1, <1>2, <1>4 DEF TypedSearch, SearchTypeOK, searchVars
<1>5. ASSUME NEW r \in Radii, TypeFilter(r) PROVE TypedSearch'
  <2>1. UNCHANGED <<found, session, searches, loading, strayed>>
    BY <1>5 DEF TypeFilter
  <2>2. filter' \in [typed : Radii, applied : Radii, opened : Radii]
    BY <1>1, <1>5 DEF TypeFilter
  <2> QED BY <1>1, <1>2, <2>1, <2>2 DEF TypedSearch, SearchTypeOK
<1>6. CASE RestoreSession
  <2>1. UNCHANGED <<found, filter, searches, loading>> /\ session' = "restored"
    BY <1>6 DEF RestoreSession
  <2>2. strayed' \in BOOLEAN
    BY <1>6, Zenon DEF RestoreSession
  <2> QED BY <1>1, <1>2, <2>1, <2>2 DEF TypedSearch, SearchTypeOK
<1>7. ASSUME NEW c \in SearchCalls, ApplyFilters(c) PROVE TypedSearch'
  <2>1. RunSearch(c, "fresh", filter.typed, NoCursor) /\ session' = session
    BY <1>7 DEF ApplyFilters
  <2>2. filter' \in [typed : Radii, applied : Radii, opened : Radii]
    BY <1>1, <1>7 DEF ApplyFilters
  <2>3. strayed' \in BOOLEAN
    BY <1>7, Zenon DEF ApplyFilters
  <2>4. /\ searches' \in [SearchCalls -> SearchesType]
        /\ \A d \in SearchCalls : searches'[d].kind = "none" => searches'[d] = NoSearch
        /\ \A d \in SearchCalls : searches'[d].kind \in {"none", "fresh", "more", "home"}
        /\ loading' = TRUE /\ found' = found
    BY <1>1, <1>3, <2>1, BegunIsTyped DEF Begun
  <2> QED BY <1>1, <2>1, <2>2, <2>3, <2>4 DEF TypedSearch, SearchTypeOK
<1>8. ASSUME NEW c \in SearchCalls, More(c) PROVE TypedSearch'
  <2>1. RunSearch(c, "more", filter.typed, found.next) /\ UNCHANGED <<filter, session>>
    BY <1>8 DEF More
  <2>2. strayed' \in BOOLEAN
    BY <1>8, Zenon DEF More
  <2>3. /\ searches' \in [SearchCalls -> SearchesType]
        /\ \A d \in SearchCalls : searches'[d].kind = "none" => searches'[d] = NoSearch
        /\ \A d \in SearchCalls : searches'[d].kind \in {"none", "fresh", "more", "home"}
        /\ loading' = TRUE /\ found' = found
    BY <1>1, <2>1, BegunIsTyped DEF Begun
  <2> QED BY <1>1, <2>1, <2>2, <2>3 DEF TypedSearch, SearchTypeOK
<1>9. ASSUME NEW c \in SearchCalls, SearchFromHome(c) PROVE TypedSearch'
  <2>1. RunSearch(c, "home", filter.opened, NoCursor) /\ session' = "searching" /\ filter' = filter
    BY <1>9 DEF SearchFromHome
  <2>2. strayed' \in BOOLEAN
    BY <1>9, Zenon DEF SearchFromHome
  <2>3. /\ searches' \in [SearchCalls -> SearchesType]
        /\ \A d \in SearchCalls : searches'[d].kind = "none" => searches'[d] = NoSearch
        /\ \A d \in SearchCalls : searches'[d].kind \in {"none", "fresh", "more", "home"}
        /\ loading' = TRUE /\ found' = found
    BY <1>1, <1>3, <2>1, BegunIsTyped DEF Begun
  <2> QED BY <1>1, <2>1, <2>2, <2>3 DEF TypedSearch, SearchTypeOK
<1>10. ASSUME NEW c \in SearchCalls, AnswerSearch(c) PROVE TypedSearch'
  <2> DEFINE result == Search(Origin, searches[c].radius, searches[c].cursor)
             s == [searches[c] EXCEPT !.result = result, !.answered = TRUE]
  <2>1. result \in Lists
    BY <1>1, PagesAreTyped
  <2>2. searches' = [searches EXCEPT ![c] = s]
    BY <1>10 DEF AnswerSearch
  <2> HIDE DEF result
  <2>3. s \in SearchesType /\ s.kind # "none"
    BY <1>1, <1>10, <2>1 DEF SearchesType, AnswerSearch
  <2> HIDE DEF s
  <2>4. /\ searches' \in [SearchCalls -> SearchesType]
        /\ \A d \in SearchCalls : searches'[d].kind = "none" => searches'[d] = NoSearch
        /\ \A d \in SearchCalls : searches'[d].kind \in {"none", "fresh", "more", "home"}
    BY <1>1, <2>2, <2>3, TypesOfSearches
  <2>5. UNCHANGED <<found, filter, session, loading, strayed>>
    BY <1>10 DEF AnswerSearch
  <2> QED BY <1>1, <2>4, <2>5 DEF TypedSearch, SearchTypeOK
<1>11. ASSUME NEW c \in SearchCalls, ShowResult(c) \/ FailSearch(c)
       PROVE  /\ searches' = [searches EXCEPT ![c] = NoSearch]
              /\ searches' \in [SearchCalls -> SearchesType]
              /\ \A d \in SearchCalls : searches'[d].kind = "none" => searches'[d] = NoSearch
              /\ \A d \in SearchCalls : searches'[d].kind \in {"none", "fresh", "more", "home"}
              /\ loading' = FALSE /\ filter' = filter
  <2>1. searches' = [searches EXCEPT ![c] = NoSearch] /\ loading' = FALSE /\ filter' = filter
    BY <1>11 DEF ShowResult, FailSearch
  <2>2. /\ searches' \in [SearchCalls -> SearchesType]
        /\ \A d \in SearchCalls : searches'[d].kind = "none" => searches'[d] = NoSearch
        /\ \A d \in SearchCalls : searches'[d].kind \in {"none", "fresh", "more", "home"}
    BY <1>1, <1>3, <2>1, TypesOfSearches
  <2> QED BY <2>1, <2>2
<1>12. ASSUME NEW c \in SearchCalls, ShowResult(c) PROVE TypedSearch'
  <2> DEFINE s == searches[c]
             longer == [items |-> found.items \o s.result.items, next |-> s.result.next]
  <2>1. s.result \in Lists
    BY <1>1 DEF SearchesType
  <2>2. s.result.items \in Seq(Listed) /\ s.result.next \in Cursors
    BY <2>1 DEF Lists
  <2>3. found' = longer \/ found' = s.result
    BY <1>12 DEF ShowResult
  <2>4. found.items \o s.result.items \in Seq(Listed)
    BY <1>1, <2>2, ConcatProperties
  <2>5. longer \in Lists
    BY <2>2, <2>4 DEF Lists
  <2> HIDE DEF longer
  <2>6. found' \in Lists
    BY <2>1, <2>3, <2>5
  <2>7. found'.items \in Seq(Listed)
    BY <2>6 DEF Lists
  <2>8. session' \in {"none", "restored", "searching", "shown"} /\ strayed' = strayed
    BY <1>1, <1>12 DEF ShowResult
  <2> QED BY <1>1, <1>11, <1>12, <2>6, <2>7, <2>8 DEF TypedSearch, SearchTypeOK
<1>13. ASSUME NEW c \in SearchCalls, FailSearch(c) PROVE TypedSearch'
  <2>1. UNCHANGED <<found, session>> /\ strayed' = TRUE
    BY <1>13 DEF FailSearch
  <2> QED BY <1>1, <1>11, <1>13, <2>1 DEF TypedSearch, SearchTypeOK
<1> QED BY <1>4, <1>5, <1>6, <1>7, <1>8, <1>9, <1>10, <1>12, <1>13 DEF SearchNext

-----------------------------------------------------------------------------
(* The list is one search, unless it strayed. *)

LEMMA ListStarts == SearchInit => ListInv
<1> SUFFICES ASSUME SearchInit PROVE ListInv
  OBVIOUS
<1>1. TypedSearch
  BY SearchTypesStart
<1>2. PICK r \in Radii :
        /\ found = Search("city", r, NoCursor)
        /\ filter = [typed |-> r, applied |-> r, opened |-> r]
        /\ session = "none" /\ searches = [c \in SearchCalls |-> NoSearch]
  BY DEF SearchInit
<1>3. GoodList(found, ShownFrom, filter.applied)
  <2>1. ShownFrom = "city" /\ filter.applied = r /\ "city" \in Origins
    BY <1>2 DEF ShownFrom, Origins
  <2>2. GoodList(Search("city", r, NoCursor), "city", r)
    BY <2>1, FirstPage
  <2> QED BY <1>2, <2>1, <2>2
<1> QED BY <1>1, <1>2, <1>3 DEF ListInv

\* A search begun with nothing else under way is the only one.
LEMMA BegunAlone ==
    ASSUME NEW c \in SearchCalls,
           \A d \in SearchCalls : searches[d] = NoSearch,
           \A d \in SearchCalls \ {c} : searches'[d] = searches[d],
           loading' = TRUE, ~searches'[c].answered,
           searches'[c].radius = filter'.applied,
           searches'[c].kind = "home" <=> session' = "searching", session' # "restored",
           searches'[c].cursor = IF searches'[c].kind = "more" THEN found'.next ELSE NoCursor,
           searches'[c].kind = "more" => found'.next # NoCursor
    PROVE  \A d \in SearchCalls : searches'[d] # NoSearch => OneSearch(d)'
<1>1. \A d \in SearchCalls : searches'[d] # NoSearch => d = c
  OBVIOUS
<1>2. OneSearch(c)'
  BY <1>1 DEF OneSearch
<1> QED BY <1>1, <1>2

LEMMA ListStep == ListInv /\ [SearchNext]_searchVars => ListInv'
<1> SUFFICES ASSUME ListInv, [SearchNext]_searchVars, ~strayed'
             PROVE  /\ \A d \in SearchCalls : searches'[d] # NoSearch => OneSearch(d)'
                    /\ \/ \E d \in SearchCalls : searches'[d].kind = "fresh"
                       \/ GoodList(found, ShownFrom, filter.applied)'
  BY SearchTypesKept DEF ListInv
<1>1. TypedSearch
  BY DEF ListInv
<1>2. /\ found \in Lists /\ found.items \in Seq(Listed) /\ found.next \in Cursors
      /\ filter \in [typed : Radii, applied : Radii, opened : Radii]
      /\ filter.typed \in Radii /\ filter.applied \in Radii /\ filter.opened \in Radii
      /\ session \in {"none", "restored", "searching", "shown"}
      /\ loading \in BOOLEAN /\ strayed \in BOOLEAN
      /\ searches \in [SearchCalls -> SearchesType]
      /\ \A c \in SearchCalls : searches[c].kind = "none" => searches[c] = NoSearch
      /\ Origin \in Origins /\ ShownFrom \in Origins
      /\ NoSearch.kind = "none" /\ ~NoSearch.answered
  BY <1>1, TypesOfSearch
<1>3. NoCursor \in Cursors
  BY DEF NoCursor, Cursors
<1>4. ~strayed => /\ \A c \in SearchCalls : searches[c] # NoSearch => OneSearch(c)
                  /\ \/ \E c \in SearchCalls : searches[c].kind = "fresh"
                     \/ GoodList(found, ShownFrom, filter.applied)
  BY DEF ListInv
<1> DEFINE Alone == \A d \in SearchCalls : searches'[d] # NoSearch => OneSearch(d)'
           Still == Alone /\ (\/ \E d \in SearchCalls : searches'[d].kind = "fresh"
                              \/ GoodList(found, ShownFrom, filter.applied)')
<1>5. CASE UNCHANGED searchVars
  <2>1. UNCHANGED <<found, filter, session, searches, loading, strayed>>
    BY <1>5 DEF searchVars
  <2> QED BY <1>4, <2>1 DEF OneSearch, GoodList, ShownFrom, Origin
<1>6. ASSUME NEW r \in Radii, TypeFilter(r) PROVE Still
  <2>1. UNCHANGED <<found, session, searches, loading, strayed>>
    BY <1>6 DEF TypeFilter
  <2>2. filter'.applied = filter.applied
    BY <1>2, <1>6 DEF TypeFilter
  <2> QED BY <1>4, <2>1, <2>2 DEF OneSearch, GoodList, ShownFrom, Origin
<1>7. CASE RestoreSession
  <2>1. /\ UNCHANGED <<found, filter, searches, loading>>
        /\ session = "none" /\ session' = "restored" /\ ~strayed /\ ~UnderWay
    BY <1>7 DEF RestoreSession
  <2>2. \A d \in SearchCalls : searches[d] = NoSearch
    BY <2>1 DEF UnderWay
  <2>3. GoodList(found, ShownFrom, filter.applied)
    BY <1>2, <1>4, <2>1, <2>2
  <2>4. GoodList(found, ShownFrom, filter.applied)'
    BY <2>1, <2>3 DEF GoodList, ShownFrom
  <2> QED BY <2>1, <2>2, <2>4
<1>8. ASSUME NEW c \in SearchCalls, ApplyFilters(c) PROVE Still
  <2>1. /\ RunSearch(c, "fresh", filter.typed, NoCursor) /\ session' = session
        /\ filter' = [filter EXCEPT !.applied = filter.typed] /\ ~Hydrating /\ ~UnderWay
    BY <1>8 DEF ApplyFilters
  <2>2. filter'.applied = filter.typed
    BY <1>2, <2>1
  <2>3. \A d \in SearchCalls : searches[d] = NoSearch
    BY <2>1 DEF UnderWay
  <2>4. session' # "restored" /\ session' # "searching"
    BY <2>1 DEF Hydrating
  <2>5. /\ loading' = TRUE /\ found' = found
        /\ searches'[c].kind = "fresh" /\ searches'[c].radius = filter.typed
        /\ searches'[c].cursor = NoCursor /\ ~searches'[c].answered
        /\ \A d \in SearchCalls \ {c} : searches'[d] = searches[d]
    <3>1. RunSearch(c, "fresh", filter.typed, NoCursor) /\ filter.typed \in Radii /\ NoCursor \in Cursors
      BY <1>2, <1>3, <2>1
    <3>2. "fresh" \in {"fresh", "more", "home"}
      OBVIOUS
    <3>3. Begun(c, "fresh", filter.typed, NoCursor)
      BY <1>1, <3>1, <3>2, BegunIsTyped
    <3> QED BY <3>3 DEF Begun
  <2>6. Alone
    BY <2>2, <2>3, <2>4, <2>5, BegunAlone
  <2> QED BY <2>5, <2>6
<1>9. ASSUME NEW c \in SearchCalls, More(c) PROVE Still
  <2>1. /\ RunSearch(c, "more", filter.typed, found.next) /\ UNCHANGED <<filter, session>>
        /\ ~loading /\ found.next # NoCursor /\ ~strayed /\ filter.typed = filter.applied /\ ~Hydrating
    BY <1>9 DEF More
  <2>2. \A d \in SearchCalls : searches[d] = NoSearch
    BY <1>4, <2>1 DEF OneSearch
  <2>3. session' # "restored" /\ session' # "searching"
    BY <2>1 DEF Hydrating
  <2>4. /\ loading' = TRUE /\ found' = found
        /\ searches'[c].kind = "more" /\ searches'[c].radius = filter.typed
        /\ searches'[c].cursor = found.next /\ ~searches'[c].answered
        /\ \A d \in SearchCalls \ {c} : searches'[d] = searches[d]
    <3>1. RunSearch(c, "more", filter.typed, found.next) /\ filter.typed \in Radii /\ found.next \in Cursors
      BY <1>2, <1>3, <2>1
    <3>2. "more" \in {"fresh", "more", "home"}
      OBVIOUS
    <3>3. Begun(c, "more", filter.typed, found.next)
      BY <1>1, <3>1, <3>2, BegunIsTyped
    <3> QED BY <3>3 DEF Begun
  <2>5. Alone
    BY <2>1, <2>2, <2>3, <2>4, BegunAlone
  <2>6. GoodList(found, ShownFrom, filter.applied)
    BY <1>2, <1>4, <2>1, <2>2
  <2>7. GoodList(found, ShownFrom, filter.applied)'
    BY <2>1, <2>4, <2>6 DEF GoodList, ShownFrom
  <2> QED BY <2>5, <2>7
<1>10. ASSUME NEW c \in SearchCalls, SearchFromHome(c) PROVE Still
  <2>1. /\ RunSearch(c, "home", filter.opened, NoCursor) /\ session = "restored" /\ session' = "searching"
        /\ filter' = filter /\ ~strayed /\ filter.applied = filter.opened
    BY <1>10 DEF SearchFromHome
  <2>2. \A d \in SearchCalls : searches[d] = NoSearch
    BY <1>4, <2>1 DEF OneSearch
  <2>3. /\ loading' = TRUE /\ found' = found
        /\ searches'[c].kind = "home" /\ searches'[c].radius = filter.opened
        /\ searches'[c].cursor = NoCursor /\ ~searches'[c].answered
        /\ \A d \in SearchCalls \ {c} : searches'[d] = searches[d]
    <3>1. RunSearch(c, "home", filter.opened, NoCursor) /\ filter.opened \in Radii /\ NoCursor \in Cursors
      BY <1>2, <1>3, <2>1
    <3>2. "home" \in {"fresh", "more", "home"}
      OBVIOUS
    <3>3. Begun(c, "home", filter.opened, NoCursor)
      BY <1>1, <3>1, <3>2, BegunIsTyped
    <3> QED BY <3>3 DEF Begun
  <2>4. Alone
    BY <2>1, <2>2, <2>3, BegunAlone
  <2>5. GoodList(found, ShownFrom, filter.applied)
    BY <1>2, <1>4, <2>1, <2>2
  <2>6. GoodList(found, ShownFrom, filter.applied)'
    BY <2>1, <2>3, <2>5 DEF GoodList, ShownFrom
  <2> QED BY <2>4, <2>6
<1>11. ASSUME NEW c \in SearchCalls, AnswerSearch(c) PROVE Still
  <2> DEFINE result == Search(Origin, searches[c].radius, searches[c].cursor)
             s == [searches[c] EXCEPT !.result = result, !.answered = TRUE]
  <2>1. /\ searches' = [searches EXCEPT ![c] = s] /\ searches[c].kind # "none"
        /\ UNCHANGED <<found, filter, session, loading, strayed>>
    BY <1>11 DEF AnswerSearch
  <2>2. result \in Lists
    BY <1>2, PagesAreTyped
  <2>3. searches[c] \in SearchesType /\ searches[c] # NoSearch
    BY <1>2, <2>1
  <2>4. OneSearch(c)
    BY <1>4, <2>1, <2>3
  <2>5. Origin' = Origin
    BY <2>1 DEF Origin
  <2>6. /\ s.kind = searches[c].kind /\ s.radius = searches[c].radius /\ s.cursor = searches[c].cursor
        /\ s.result = Search(Origin, s.radius, s.cursor)
    <3> HIDE DEF result
    <3>1. /\ s.kind = searches[c].kind /\ s.radius = searches[c].radius /\ s.cursor = searches[c].cursor
          /\ s.result = result
      BY <2>2, <2>3 DEF SearchesType
    <3> HIDE DEF s
    <3> QED BY <3>1 DEF result
  <2> HIDE DEF result, s
  <2>7. searches'[c] = s /\ \A d \in SearchCalls \ {c} : searches'[d] = searches[d]
    BY <1>2, <2>1
  <2>8. \A d \in SearchCalls : searches'[d] # NoSearch => d = c
    BY <2>4, <2>7 DEF OneSearch
  <2>9. /\ loading /\ (searches[c].kind = "home" <=> session = "searching") /\ session # "restored"
        /\ searches[c].radius = filter.applied
        /\ searches[c].cursor = IF searches[c].kind = "more" THEN found.next ELSE NoCursor
        /\ searches[c].kind = "more" => found.next # NoCursor
    BY <2>4 DEF OneSearch
  <2>10. OneSearch(c)'
    <3>1. searches'[c].result = Search(Origin', searches'[c].radius, searches'[c].cursor)
      BY <2>5, <2>6, <2>7
    <3>2. (Search(Origin, searches[c].radius, searches[c].cursor))' = Search(Origin', searches'[c].radius, searches'[c].cursor)
      OBVIOUS
    <3> QED BY <2>1, <2>6, <2>7, <2>8, <2>9, <3>1 DEF OneSearch
  <2>11. CASE searches[c].kind = "fresh"
    BY <2>6, <2>7, <2>8, <2>10, <2>11
  <2>12. CASE searches[c].kind # "fresh"
    <3>1. \A d \in SearchCalls : searches[d].kind # "fresh"
      BY <1>2, <2>4, <2>12 DEF OneSearch
    <3>2. GoodList(found, ShownFrom, filter.applied)
      BY <1>4, <2>1, <3>1
    <3>3. GoodList(found, ShownFrom, filter.applied)'
      BY <2>1, <3>2 DEF GoodList, ShownFrom
    <3> QED BY <2>8, <2>10, <3>3
  <2> QED BY <2>11, <2>12
<1>12. ASSUME NEW c \in SearchCalls, ShowResult(c) PROVE Still
  <2> DEFINE s == searches[c]
             result == Search(Origin, s.radius, s.cursor)
  <2>1. /\ s.answered /\ searches' = [searches EXCEPT ![c] = NoSearch] /\ UNCHANGED <<filter, strayed>>
        /\ found' = IF s.kind = "more"
                    THEN [items |-> found.items \o s.result.items, next |-> s.result.next] ELSE s.result
        /\ session' = IF s.kind = "home" THEN "shown" ELSE session
    BY <1>12 DEF ShowResult
  <2>2. s # NoSearch /\ s.kind \in {"fresh", "more", "home"}
    BY <1>2, <2>1 DEF SearchesType
  <2>3. OneSearch(c)
    BY <1>4, <2>1, <2>2
  <2>4. /\ (s.kind = "home" <=> session = "searching") /\ session # "restored"
        /\ s.radius = filter.applied /\ s.result = result
        /\ s.cursor = IF s.kind = "more" THEN found.next ELSE NoCursor
        /\ s.kind = "more" => found.next # NoCursor
    BY <2>1, <2>3 DEF OneSearch
  <2>5. \A d \in SearchCalls : searches'[d] = NoSearch
    BY <1>2, <2>1, <2>3 DEF OneSearch
  <2>6. Origin = ShownFrom'
    BY <1>2, <2>1, <2>2, <2>4 DEF Origin, ShownFrom
  <2>7. filter' = filter
    BY <2>1
  <2>8. CASE s.kind = "more"
    <3>1. \A d \in SearchCalls : searches[d].kind # "fresh"
      BY <1>2, <2>3, <2>8 DEF OneSearch
    <3>2. GoodList(found, ShownFrom, filter.applied)
      BY <1>4, <2>1, <3>1
    <3>3. ShownFrom = Origin
      BY <2>1, <2>4, <2>6, <2>8 DEF ShownFrom
    <3>4. s.radius = filter.applied /\ s.cursor = found.next /\ found.next # NoCursor
      BY <2>4, <2>8
    <3>5. GoodList([items |-> found.items \o result.items, next |-> result.next], Origin, filter.applied)
      BY <1>2, <3>2, <3>3, <3>4, NextPage
    <3>6. found' = [items |-> found.items \o result.items, next |-> result.next]
      BY <2>1, <2>4, <2>8
    <3>7. GoodList(found', ShownFrom', filter'.applied)
      BY <2>6, <2>7, <3>5, <3>6
    <3> QED BY <2>5, <3>7 DEF GoodList
  <2>9. CASE s.kind # "more"
    <3>1. s.cursor = NoCursor /\ s.radius = filter.applied /\ found' = result
      BY <2>1, <2>4, <2>9
    <3>2. GoodList(result, Origin, filter.applied)
      BY <1>2, <3>1, FirstPage
    <3>3. GoodList(found', ShownFrom', filter'.applied)
      BY <2>6, <2>7, <3>1, <3>2
    <3> QED BY <2>5, <3>3 DEF GoodList
  <2> QED BY <2>8, <2>9
<1>13. ASSUME NEW c \in SearchCalls, FailSearch(c) PROVE Still
  BY <1>13 DEF FailSearch
<1> QED BY <1>5, <1>6, <1>7, <1>8, <1>9, <1>10, <1>11, <1>12, <1>13 DEF SearchNext

\* The list that the invariant speaks of is the one the property asks for.
LEMMA GoodListsAreOneSearch == ListInv => ListIsOneSearch
<1> SUFFICES ASSUME ListInv, ~strayed, \A c \in SearchCalls : searches[c].kind # "fresh"
             PROVE  ListIsOneSearch
  BY DEF ListIsOneSearch
<1> DEFINE S == Matching(ShownFrom, filter.applied)
           whole == InOrder(ShownFrom, S)
           items == found.items
           n == Len(items)
           head == SubSeq(whole, 1, n)
<1>1. TypedSearch /\ GoodList(found, ShownFrom, filter.applied)
  BY DEF ListInv
<1>2. items \in Seq(Listed) /\ ShownFrom \in Origins /\ S \in SUBSET Listed
  BY <1>1, TypesOfSearch DEF Matching
<1>3. /\ whole \in Seq(S) /\ Len(whole) = Cardinality(S) /\ Cardinality(S) \in Nat
      /\ \A i \in 1..Cardinality(S) : whole[i] \in S
  BY <1>2, RowsInOrder, DrivesAreNumbers
<1>4. n \in Nat
  BY <1>2, LenProperties
<1>5. /\ n <= Len(whole) /\ \A i \in 1..n : items[i] = whole[i]
      /\ n = Len(whole) => found.next = NoCursor
      /\ n < Len(whole) => n > 0 /\ found.next = [away |-> Away[ShownFrom][items[n]], id |-> items[n]]
  BY <1>1 DEF GoodList
<1> HIDE DEF S, whole
<1>6. head \in Seq(Listed) /\ Len(head) = n /\ \A i \in 1..n : head[i] = whole[i]
  <2>1. \A i \in 1..n : whole[i] \in Listed
    BY <1>2, <1>3, <1>4, <1>5
  <2>2. /\ head \in Seq(Listed) /\ Len(head) = IF 1 <= n THEN n - 1 + 1 ELSE 0
        /\ \A i \in 1..n - 1 + 1 : head[i] = whole[1 + i - 1]
    BY <1>4, <2>1, SubSeqProperties
  <2> QED BY <1>4, <2>2
<1> HIDE DEF items, head
<1>7. items = head
  BY <1>2, <1>4, <1>5, <1>6, SeqEqual DEF items
<1>8. n < Len(whole) => found.next # NoCursor
  <2> SUFFICES ASSUME n < Len(whole) PROVE found.next # NoCursor
    OBVIOUS
  <2>1. n > 0 /\ found.next = [away |-> Away[ShownFrom][items[n]], id |-> items[n]]
    BY <1>5
  <2>2. items[n] \in Listed
    BY <1>2, <1>4, <2>1, ElementOfSeq DEF items
  <2>3. items[n] \in Nat
    BY <1>2, <2>2, DrivesAreNumbers
  <2>4. found.next.id \in Nat
    BY <2>1, <2>3
  <2> QED BY <2>4 DEF NoCursor
<1>9. (found.next = NoCursor) = (n = Len(whole))
  BY <1>3, <1>4, <1>5, <1>8
<1> QED BY <1>5, <1>7, <1>9 DEF ListIsOneSearch, ShownFrom, whole, S, head, items

\* The invariant holds: every list is typed, and unless it strayed, it is the
\* beginning of one search with at most one search under way for the rest.
THEOREM SearchInvariant == SearchSpec => []ListInv
<1> QED BY ListStarts, ListStep, PTL DEF SearchSpec

\* Every variable of the public search has its type.
THEOREM SearchTypeCorrect == SearchSpec => []SearchTypeOK
<1>1. ListInv => SearchTypeOK
  BY DEF ListInv, TypedSearch
<1> QED BY <1>1, SearchInvariant, PTL

\* However far someone has paged, the list is the nearest drives that match,
\* each once and none left out: DrivesService.search gives pages whose
\* cursors fit, and the page appends and replaces them as it should.
THEOREM PagesAreOneSearch == SearchSpec => []ListIsOneSearch
<1> QED BY SearchInvariant, GoodListsAreOneSearch, PTL

-----------------------------------------------------------------------------
(***************************************************************************)
(* However bookings, releases, arrivals and reschedules overlap, whoever   *)
(* is booked has a slot the drive still has, and the slots fill the        *)
(* drive's window end to end (module Rescheduling).                        *)
(*                                                                         *)
(* The counts may pass the capacity (a reschedule seats people by counts   *)
(* it read earlier), so the argument rests on the row locks alone: once a  *)
(* reschedule holds the slots' rows no request holds one, and a slot that  *)
(* a request holds is one the drive has.                                   *)
(***************************************************************************)

USE CandidatesAssumption, ProcessAssumption, HandlerAssumption, SlotAssumption, BoundAssumption, MoveAssumption

-----------------------------------------------------------------------------
(* Slots end to end.                                                        *)

\* The slots fill the time from D to E, one each.
Tiles(slots, starts, D, E) ==
    /\ {starts[s] : s \in slots} = D..(E - 1)
    /\ Cardinality(slots) = E - D

\* The start of slots that fill a window is the window's.
LEMMA StartIs ==
  ASSUME NEW slots, NEW starts, NEW D \in Nat, NEW E \in Nat, D < E,
         {starts[s] : s \in slots} = D..(E - 1)
  PROVE  StartOf(slots, starts) = D
  <1>1. D \in {starts[s] : s \in slots} /\ \A s \in slots : D <= starts[s]
    <2>1. \A s \in slots : starts[s] \in D..(E - 1)
      OBVIOUS
    <2> QED
      BY <2>1
  <1>2. \A t \in {starts[s] : s \in slots} : (\A s \in slots : t <= starts[s]) => t = D
    <2> SUFFICES ASSUME NEW t \in D..(E - 1), \A s \in slots : t <= starts[s] PROVE t = D
      OBVIOUS
    <2>1. PICK s \in slots : starts[s] = D
      BY <1>1
    <2>2. t <= D
      BY <2>1
    <2> QED
      BY <2>2
  <1> QED
    BY <1>1, <1>2 DEF StartOf

\* Slots that tile their window have its start, and the window is not empty.
LEMMA TilesFromStart ==
  ASSUME NEW slots \in SUBSET SlotIds, slots # {}, NEW starts \in [SlotIds -> Nat], NEW E \in Nat
  PROVE  LET D == StartOf(slots, starts)
         IN  /\ D \in Nat /\ \A s \in slots : D <= starts[s]
             /\ SlotsTile(slots, starts, E) <=> Tiles(slots, starts, D, E)
             /\ SlotsTile(slots, starts, E) => D < E
  <1> DEFINE T == {starts[s] : s \in slots}
             D == StartOf(slots, starts)
  <1>a. \A s \in slots : starts[s] \in Nat
    OBVIOUS
  <1>b. \E s \in slots : TRUE
    OBVIOUS
  <1>1. T \in SUBSET Nat /\ T # {}
    BY <1>a, <1>b
  <1> HIDE DEF T
  <1>2. \E t \in T : \A u \in T : t <= u
    BY <1>1, LeastOf
  <1>3. \E t \in T : \A s \in slots : t <= starts[s]
    BY <1>2 DEF T
  <1>4. D \in T /\ \A s \in slots : D <= starts[s]
    BY <1>3 DEF StartOf, T
  <1>5. SlotsTile(slots, starts, E) <=> Tiles(slots, starts, D, E)
    BY DEF SlotsTile, Tiles
  <1>6. SlotsTile(slots, starts, E) => T = D..(E - 1)
    BY DEF SlotsTile, T
  <1>7. SlotsTile(slots, starts, E) => D < E
    BY <1>1, <1>4, <1>6
  <1> QED
    BY <1>1, <1>4, <1>5, <1>7

\* Slots that tile have different starts.
LEMMA TilesApart ==
  ASSUME NEW slots, IsFiniteSet(slots), NEW starts, NEW D \in Nat, NEW E \in Nat, D < E,
         Tiles(slots, starts, D, E)
  PROVE  \A s, t \in slots : starts[s] = starts[t] => s = t
  <1> DEFINE f == [s \in slots |-> starts[s]]
  <1>1. {starts[s] : s \in slots} = D..(E - 1) /\ Cardinality(slots) = E - D
    BY DEF Tiles
  <1>2. f \in Surjection(slots, D..(E - 1))
    BY <1>1 DEF Surjection
  <1>3. Cardinality(D..(E - 1)) = E - D
    BY FS_Interval
  <1> HIDE DEF f
  <1>4. f \in Injection(slots, D..(E - 1))
    BY <1>1, <1>2, <1>3, FS_SurjSameCardinalityImpliesInj
  <1> QED
    BY <1>4 DEF Injection, IsInjective, f

\* Different slots that start at every time of a window tile it.
LEMMA ApartTiles ==
  ASSUME NEW slots, IsFiniteSet(slots), NEW starts, NEW D \in Nat, NEW E \in Nat, D <= E,
         {starts[s] : s \in slots} = D..(E - 1),
         \A s, t \in slots : starts[s] = starts[t] => s = t
  PROVE  Tiles(slots, starts, D, E)
  <1> DEFINE f == [s \in slots |-> starts[s]]
  <1>1. f \in Bijection(slots, D..(E - 1))
    BY DEF Bijection, Injection, Surjection, IsInjective
  <1>a. E - 1 \in Int /\ D \in Int
    OBVIOUS
  <1>b. Cardinality(D..(E - 1)) = IF D > E - 1 THEN 0 ELSE E - 1 - D + 1
    BY <1>a, FS_Interval
  <1>2. Cardinality(D..(E - 1)) = E - D
    BY <1>b
  <1> HIDE DEF f
  <1>3. ExistsBijection(slots, D..(E - 1))
    BY <1>1 DEF ExistsBijection
  <1>4. Cardinality(D..(E - 1)) = Cardinality(slots)
    BY <1>3, FS_Bijection
  <1> QED
    BY <1>2, <1>4 DEF Tiles

\* The first n of slots that tile, tile.
LEMMA FirstTile ==
  ASSUME NEW slots, IsFiniteSet(slots), NEW starts, NEW D \in Nat, NEW E \in Nat, D < E,
         Tiles(slots, starts, D, E), NEW n \in Nat, n <= E - D,
         NEW kept, kept = {s \in slots : starts[s] - D + 1 <= n}
  PROVE  Tiles(kept, starts, D, D + n)
  <1>1. {starts[s] : s \in slots} = D..(E - 1)
    BY DEF Tiles
  <1>2. \A s \in slots : starts[s] \in D..(E - 1)
    BY <1>1
  <1>3. \A t \in D..(D + n - 1) : \E s \in slots : starts[s] = t
    <2>1. D..(D + n - 1) \subseteq D..(E - 1)
      OBVIOUS
    <2> QED
      BY <1>1, <2>1
  <1>4. \A t \in D..(D + n - 1) : \E s \in kept : starts[s] = t
    BY <1>3
  <1>5. \A s \in kept : starts[s] \in D..(D + n - 1)
    BY <1>2
  <1>6. {starts[s] : s \in kept} = D..(D + n - 1)
    BY <1>4, <1>5
  <1>7. IsFiniteSet(kept)
    BY FS_Subset
  <1>8. \A s, t \in kept : starts[s] = starts[t] => s = t
    BY TilesApart
  <1>9. D + n \in Nat /\ D <= D + n
    OBVIOUS
  <1> QED
    BY <1>6, <1>7, <1>8, <1>9, ApartTiles

\* Slots that tile still do when all are moved alike.
LEMMA ShiftedTile ==
  ASSUME NEW slots, NEW starts, NEW D \in Nat, NEW E \in Nat, D <= E, Tiles(slots, starts, D, E),
         NEW shift \in Int, D + shift \in Nat,
         NEW after, \A s \in slots : after[s] = starts[s] + shift
  PROVE  Tiles(slots, after, D + shift, E + shift)
  <1>1. {starts[s] : s \in slots} = D..(E - 1) /\ Cardinality(slots) = E - D
    BY DEF Tiles
  <1>2. \A s \in slots : starts[s] \in D..(E - 1)
    BY <1>1
  <1>3. \A s \in slots : after[s] \in (D + shift)..(E + shift - 1)
    BY <1>2
  <1>4. \A t \in (D + shift)..(E + shift - 1) : \E s \in slots : after[s] = t
    <2> SUFFICES ASSUME NEW t \in (D + shift)..(E + shift - 1) PROVE \E s \in slots : after[s] = t
      OBVIOUS
    <2>1. t - shift \in D..(E - 1)
      OBVIOUS
    <2>2. PICK s \in slots : starts[s] = t - shift
      BY <1>1, <2>1
    <2> QED
      BY <2>2
  <1>5. {after[s] : s \in slots} = (D + shift)..(E + shift - 1)
    BY <1>3, <1>4
  <1> QED
    BY <1>1, <1>5 DEF Tiles

\* How many numbers of a set come before one of them.
RankIn(A, s) == Cardinality({t \in A : t < s})

\* The ranks of a set of numbers are the numbers below its size.
LEMMA Ranks ==
  ASSUME NEW A \in SUBSET Nat, IsFiniteSet(A),
         NEW rank, rank = [s \in A |-> Cardinality({t \in A : t < s})]
  PROVE  {rank[s] : s \in A} = 0..(Cardinality(A) - 1) /\ \A s, t \in A : rank[s] = rank[t] => s = t
  <1> DEFINE Below(s) == {t \in A : t < s}
  <1>1. \A s \in A : /\ IsFiniteSet(Below(s)) /\ Below(s) \subseteq A
                     /\ Cardinality(Below(s)) \in Nat /\ Cardinality(Below(s)) <= Cardinality(A)
    BY FS_Subset, FS_CardinalityType
  <1>2. \A s \in A : s \in A /\ s \notin Below(s)
    OBVIOUS
  <1>3. \A s, t \in A : s < t => Below(s) \subseteq Below(t) /\ s \in Below(t)
    <2>1. \A r, s, t \in Nat : r < s /\ s < t => r < t
      OBVIOUS
    <2>2. \A r, s, t \in A : r < s /\ s < t => r < t
      BY <2>1
    <2> QED
      BY <2>2
  <1>4. \A s \in A : rank[s] = Cardinality(Below(s))
    BY Zenon
  <1>5. Cardinality(A) \in Nat
    BY FS_CardinalityType
  <1> HIDE DEF Below
  <1>6. \A s \in A : Cardinality(Below(s)) < Cardinality(A)
    <2> SUFFICES ASSUME NEW s \in A PROVE Cardinality(Below(s)) # Cardinality(A)
      BY <1>1, <1>5
    <2> QED
      BY <1>1, <1>2, FS_Subset
  <1>7. \A s, t \in A : s < t => Cardinality(Below(s)) < Cardinality(Below(t))
    <2> SUFFICES ASSUME NEW s \in A, NEW t \in A, s < t PROVE Cardinality(Below(s)) < Cardinality(Below(t))
      OBVIOUS
    <2>1. Cardinality(Below(s)) <= Cardinality(Below(t)) /\ Cardinality(Below(s)) # Cardinality(Below(t))
      BY <1>1, <1>2, <1>3, FS_Subset
    <2> QED
      BY <1>1, <2>1
  <1>8. \A s, t \in A : rank[s] = rank[t] => s = t
    <2> SUFFICES ASSUME NEW s \in A, NEW t \in A, s # t PROVE rank[s] # rank[t]
      OBVIOUS
    <2>a. s \in Nat /\ t \in Nat
      OBVIOUS
    <2>1. s < t \/ t < s
      BY <2>a
    <2> QED
      BY <1>1, <1>4, <1>7, <2>1
  <1> DEFINE N == Cardinality(A)
             I == 0..(N - 1)
  <1>a. N - 1 \in Int /\ 0 \in Int
    BY <1>5
  <1>b. IsFiniteSet(I) /\ Cardinality(I) = IF 0 > N - 1 THEN 0 ELSE N - 1 - 0 + 1
    BY <1>a, FS_Interval
  <1>9. IsFiniteSet(I) /\ Cardinality(I) = N
    BY <1>5, <1>b
  <1>10. rank \in [A -> I]
    BY <1>1, <1>4, <1>5, <1>6
  <1> HIDE DEF I, N
  <1>11. rank \in Injection(A, I)
    BY <1>8, <1>10 DEF Injection, IsInjective
  <1>12. rank \in Surjection(A, I)
    BY <1>9, <1>11, FS_Injection DEF N
  <1>13. {rank[s] : s \in A} = I
    BY <1>10, <1>12 DEF Surjection
  <1> QED
    BY <1>8, <1>13 DEF I, N

\* Slots added one after another where those that tile end.
LEMMA LongerTile ==
  ASSUME NEW slots, IsFiniteSet(slots), NEW starts, NEW D \in Nat, NEW E \in Nat, D < E,
         Tiles(slots, starts, D, E),
         NEW added \in SUBSET Nat, IsFiniteSet(added), slots \cap added = {},
         \A s \in added : starts[s] = E + RankIn(added, s)
  PROVE  Tiles(slots \cup added, starts, D, E + Cardinality(added))
  <1> DEFINE rank == [s \in added |-> Cardinality({t \in added : t < s})]
             N == Cardinality(added)
  <1>1. {rank[s] : s \in added} = 0..(N - 1) /\ \A s, t \in added : rank[s] = rank[t] => s = t
    BY Ranks
  <1>2. N \in Nat
    BY FS_CardinalityType
  <1>3. \A s \in added : starts[s] = E + rank[s]
    BY DEF RankIn
  <1> HIDE DEF rank, N
  <1>4. \A s \in added : rank[s] \in 0..(N - 1)
    BY <1>1
  <1>5. {starts[s] : s \in slots} = D..(E - 1)
    BY DEF Tiles
  <1>6. \A s \in slots : starts[s] \in D..(E - 1)
    BY <1>5
  <1>7. \A s \in added : starts[s] \in E..(E + N - 1)
    BY <1>2, <1>3, <1>4
  <1>8. \A t \in D..(E + N - 1) : \E s \in slots \cup added : starts[s] = t
    <2> SUFFICES ASSUME NEW t \in D..(E + N - 1) PROVE \E s \in slots \cup added : starts[s] = t
      OBVIOUS
    <2>1. CASE t < E
      <3>1. t \in D..(E - 1)
        BY <1>2, <2>1
      <3> QED
        BY <1>5, <3>1
    <2>2. CASE t >= E
      <3>1. t - E \in 0..(N - 1)
        BY <1>2, <2>2
      <3>2. PICK s \in added : rank[s] = t - E
        BY <1>1, <3>1
      <3>3. starts[s] = t
        BY <1>3, <3>2
      <3> QED
        BY <3>3
    <2> QED
      BY <1>2, <2>1, <2>2
  <1>9. \A s \in slots \cup added : starts[s] \in D..(E + N - 1)
    <2>1. D..(E - 1) \subseteq D..(E + N - 1) /\ E..(E + N - 1) \subseteq D..(E + N - 1)
      BY <1>2
    <2> QED
      BY <1>6, <1>7, <2>1
  <1>11. \A s, t \in slots \cup added : starts[s] = starts[t] => s = t
    <2>1. \A s, t \in slots : starts[s] = starts[t] => s = t
      BY TilesApart
    <2>2. \A s, t \in added : starts[s] = starts[t] => s = t
      BY <1>1, <1>2, <1>3, <1>4
    <2>3. \A s \in slots, t \in added : starts[s] # starts[t]
      BY <1>2, <1>6, <1>7
    <2> QED
      BY <2>1, <2>2, <2>3
  <1>12. IsFiniteSet(slots \cup added)
    BY FS_Union
  <1>13. E + N \in Nat /\ D <= E + N
    BY <1>2
  <1> DEFINE S == slots \cup added
             M == E + N
  <1>a. IsFiniteSet(S) /\ M \in Nat /\ D <= M
    BY <1>12, <1>13
  <1>b. M - 1 = E + N - 1
    BY <1>2
  <1>14. \A s, t \in S : starts[s] = starts[t] => s = t
    BY <1>11
  <1>c. \A t \in D..(M - 1) : \E s \in S : starts[s] = t
    BY <1>8, <1>b
  <1>d. \A s \in S : starts[s] \in D..(M - 1)
    BY <1>9, <1>b
  <1> HIDE DEF S, M
  <1>e. {starts[s] : s \in S} = D..(M - 1)
    BY <1>c, <1>d
  <1>15. Tiles(S, starts, D, M)
    BY <1>a, <1>e, <1>14, ApartTiles
  <1> QED
    BY <1>15 DEF N, S, M

-----------------------------------------------------------------------------
(* The invariant.                                                           *)

\* A request that holds a slot's row holds one the drive has, and a booking
\* asks for a slot; once a reschedule has the slots' rows, no request does.
RowsHeld ==
    /\ \A p \in Procs :
          /\ req[p].held # NoSlot => req[p].held \in schedule.slots
          /\ TakesSeat(req[p]) => req[p].slot # NoSlot
    /\ moving.phase = "locked" => \A p \in Procs : req[p].held = NoSlot

\* The drive has slots, and all of them were given to it at some time.
SlotsKnown == schedule.slots # {} /\ schedule.slots \subseteq moved.used

MoveInv ==
    /\ LockInv /\ RescheduleTypeOK /\ RowsHeld /\ SlotsKnown /\ BookingsSurvive
    /\ moving.phase # "idle" => moved.times < MaxMoves

-----------------------------------------------------------------------------
(* What the requests do to slots.                                           *)

\* A process that starts, fails, ends or goes on holds no row it held before
\* unless the drive has the slot.
RowsOfStep == \A p \in Procs :
    /\ req'[p].held \in {req[p].held, NoSlot} \cup schedule.slots
    /\ TakesSeat(req'[p]) => req'[p].slot # NoSlot

\* Whoever a step books has a slot.
BookedAtASlot == \A c \in Candidates :
    app'[c].state = "CONFIRMED" => app'[c] = app[c] \/ app'[c].slotId # NoSlot

\* A process at rest asks for nothing.
LEMMA IdleAsksNothing == Idle.held = NoSlot /\ ~TakesSeat(Idle)
  BY DEF Idle, TakesSeat

\* One process's step, told from what it writes to its request.
LEMMA StepRows ==
  ASSUME TypeOK, RowsHeld, NEW p \in Procs, NEW r, Step(p, r),
         r.held \in {req[p].held, NoSlot} \cup schedule.slots,
         TakesSeat(r) => r.slot # NoSlot
  PROVE  RowsOfStep
  <1>1. \A q \in Procs : req'[q] = IF q = p THEN r ELSE req[q]
    BY DEF TypeOK, Step
  <1>2. req'[p] = r /\ \A q \in Procs : q # p => req'[q] = req[q]
    BY <1>1
  <1> SUFFICES ASSUME NEW q \in Procs
               PROVE  /\ req'[q].held \in {req[q].held, NoSlot} \cup schedule.slots
                      /\ TakesSeat(req'[q]) => req'[q].slot # NoSlot
    BY Zenon DEF RowsOfStep
  <1>3. CASE q = p
    BY <1>2, <1>3
  <1>4. CASE q # p
    <2>1. req'[q] = req[q]
      BY <1>2, <1>4
    <2>2. req[q].held \in {req[q].held, NoSlot} \cup schedule.slots
      OBVIOUS
    <2>3. TakesSeat(req[q]) => req[q].slot # NoSlot
      BY DEF RowsHeld
    <2> QED
      BY <2>1, <2>2, <2>3 DEF TakesSeat
  <1> QED
    BY <1>3, <1>4

\* What is left of a request that failed asks for nothing.
LEMMA ThrownRows ==
  ASSUME TypeOK, RowsHeld, NEW p \in Procs, NEW e, Throw(p, e)
  PROVE  RowsOfStep
  <1> DEFINE r == [Idle EXCEPT !.op = req[p].op, !.cand = req[p].cand, !.phase = "thrown", !.error = e]
  <1>1. r.held = NoSlot /\ r.to = "NONE"
    BY DEF Idle
  <1>2. Step(p, r)
    BY DEF Throw
  <1> HIDE DEF r
  <1> QED
    BY <1>1, <1>2, StepRows DEF TakesSeat

\* A request that begins holds no row, and asks for a slot if it books.
LEMMA BeginRows ==
  ASSUME TypeOK, RowsHeld, NEW p \in Requests, Begin(p)
  PROVE  RowsOfStep /\ app' = app /\ schedule' = schedule
  <1>1. ASSUME NEW r \in Request, r.held = NoSlot, r.to = "CONFIRMED" => r.slot # NoSlot, Start(p, r)
        PROVE  RowsOfStep /\ app' = app /\ schedule' = schedule
    <2> DEFINE b == [r EXCEPT !.phase = "begun"]
    <2>1. b.held = NoSlot /\ (b.to = "CONFIRMED" => b.slot # NoSlot)
      BY <1>1 DEF Request
    <2>2. Step(p, b) /\ app' = app /\ schedule' = schedule
      BY <1>1 DEF Start, Step, rowVars, driveVars
    <2>3. p \in Procs
      BY DEF Procs
    <2> HIDE DEF b
    <2> QED
      BY <2>1, <2>2, <2>3, StepRows DEF TakesSeat
  <1>2. PICK c \in Candidates :
           \/ \E s \in SlotIds, to \in States : Apply(p, c, s, to)
           \/ Release(p, c)
           \/ \E to \in States : Decide(p, c, to)
           \/ \E unflagged \in BOOLEAN : Scan(p, c, unflagged)
           \/ MarkPresent(p, c)
           \/ ConfirmFlagged(p, c)
    BY DEF Begin, BeginBooking, BeginAtDesk
  <1>3. CASE \E s \in SlotIds, to \in States : Apply(p, c, s, to)
    <2>1. PICK s \in SlotIds, to \in States : Apply(p, c, s, to)
      BY <1>3
    <2> DEFINE r == [Idle EXCEPT !.op = "apply", !.cand = c, !.to = to,
                                 !.slot = IF to = "CONFIRMED" THEN s ELSE NoSlot]
    <2>2. r \in Request /\ r.held = NoSlot /\ (r.to = "CONFIRMED" => r.slot # NoSlot)
      BY DEF Idle, Request, Ops, Phases, States, Methods, Errors, NoSlot
    <2> QED
      BY <1>1, <2>1, <2>2 DEF Apply
  <1>4. CASE Release(p, c)
    <2> DEFINE r == [Idle EXCEPT !.op = "release", !.cand = c, !.to = "WITHDRAWN"]
    <2>1. r \in Request /\ r.held = NoSlot /\ r.to # "CONFIRMED"
      BY DEF Idle, Request, Ops, Phases, States, Methods, Errors, NoSlot
    <2> QED
      BY <1>1, <1>4, <2>1 DEF Release
  <1>5. CASE \E to \in States : Decide(p, c, to)
    <2>1. PICK to \in States : Decide(p, c, to)
      BY <1>5
    <2> DEFINE r == [Idle EXCEPT !.op = "decide", !.cand = c, !.to = to]
    <2>2. r \in Request /\ r.held = NoSlot /\ r.to = to
      BY DEF Idle, Request, Ops, Phases, States, Methods, Errors, NoSlot
    <2> QED
      BY <1>1, <2>1, <2>2 DEF Decide
  <1>6. CASE \E unflagged \in BOOLEAN : Scan(p, c, unflagged)
    <2>1. PICK unflagged \in BOOLEAN : Scan(p, c, unflagged)
      BY <1>6
    <2> DEFINE r == [Idle EXCEPT !.op = "scan", !.cand = c, !.to = "CHECKED_IN",
                                 !.exists = app[c].state # "NONE",
                                 !.method = IF app[c].state = "CONFIRMED" THEN "SCAN" ELSE "WALK_IN",
                                 !.valid = unflagged]
    <2>2. r \in Request /\ r.held = NoSlot /\ r.to = "CHECKED_IN"
      BY DEF Idle, Request, Ops, Phases, States, Methods, Errors, NoSlot
    <2> QED
      BY <1>1, <2>1, <2>2 DEF Scan
  <1>7. CASE MarkPresent(p, c)
    <2> DEFINE r == [Idle EXCEPT !.op = "markPresent", !.cand = c, !.to = "CHECKED_IN",
                                 !.method = "MANUAL", !.valid = TRUE]
    <2>1. r \in Request /\ r.held = NoSlot /\ r.to # "CONFIRMED"
      BY DEF Idle, Request, Ops, Phases, States, Methods, Errors, NoSlot
    <2> QED
      BY <1>1, <1>7, <2>1 DEF MarkPresent
  <1>8. CASE ConfirmFlagged(p, c)
    <2> DEFINE r == [Idle EXCEPT !.op = "confirm", !.cand = c]
    <2>1. r \in Request /\ r.held = NoSlot /\ r.to # "CONFIRMED"
      BY DEF Idle, Request, Ops, Phases, States, Methods, Errors, NoSlot
    <2> QED
      BY <1>1, <1>8, <2>1 DEF ConfirmFlagged
  <1> QED
    BY <1>2, <1>3, <1>4, <1>5, <1>6, <1>7, <1>8

\* A process that goes on holds a row only of a slot the drive has, and a commit
\* books nobody without a slot.
LEMMA AdvanceRows ==
  ASSUME TypeOK, RowsHeld, NEW p \in Procs, Advance(p)
  PROVE  RowsOfStep /\ BookedAtASlot /\ schedule' = schedule
  <1>a. req[p] \in Request
    BY DEF TypeOK
  <1>1. CASE ReadApplication(p)
    <2> DEFINE row == IF req[p].op = "scan" /\ ~req[p].exists THEN NoRow ELSE app[req[p].cand]
               r == [req[p] EXCEPT !.phase = "seen", !.seen = row.state, !.seenSlot = row.slotId]
    <2>1. Step(p, r) \/ Throw(p, "Illegal")
      BY <1>1 DEF ReadApplication
    <2>2. r.held = req[p].held /\ r.to = req[p].to /\ r.slot = req[p].slot
      BY <1>a DEF Request
    <2>3. app' = app /\ schedule' = schedule
      BY <1>1 DEF ReadApplication, rowVars, driveVars
    <2> HIDE DEF r
    <2>4. RowsOfStep
      BY <2>1, <2>2, StepRows, ThrownRows DEF RowsHeld, TakesSeat
    <2> QED
      BY <2>3, <2>4 DEF BookedAtASlot
  <1>2. CASE TakeSeat(p)
    <2> DEFINE r == [req[p] EXCEPT !.phase = "seated", !.held = req[p].slot]
    <2>1. (req[p].slot \in schedule.slots /\ Step(p, r)) \/ Throw(p, "SlotFull")
      BY <1>2 DEF TakeSeat
    <2>2. r.held = req[p].slot /\ r.to = req[p].to /\ r.slot = req[p].slot
      BY <1>a DEF Request
    <2>3. app' = app /\ schedule' = schedule
      BY <1>2 DEF TakeSeat, rowVars, driveVars
    <2> HIDE DEF r
    <2>4. RowsOfStep
      BY <2>1, <2>2, StepRows, ThrownRows DEF RowsHeld, TakesSeat
    <2> QED
      BY <2>3, <2>4 DEF BookedAtASlot
  <1>3. CASE ReleaseSeat(p)
    <2> DEFINE idle == [req[p] EXCEPT !.phase = "seated"]
               r == [req[p] EXCEPT !.phase = "seated", !.held = req[p].seenSlot]
    <2>1. (req[p].seenSlot \in schedule.slots /\ Step(p, r)) \/ Step(p, idle)
      BY <1>3 DEF ReleaseSeat
    <2>2. /\ r.held = req[p].seenSlot /\ r.to = req[p].to /\ r.slot = req[p].slot
          /\ idle.held = req[p].held /\ idle.to = req[p].to /\ idle.slot = req[p].slot
      BY <1>a DEF Request
    <2>3. app' = app /\ schedule' = schedule
      BY <1>3 DEF ReleaseSeat, rowVars, driveVars
    <2> HIDE DEF r, idle
    <2>4. RowsOfStep
      BY <2>1, <2>2, StepRows DEF RowsHeld, TakesSeat
    <2> QED
      BY <2>3, <2>4 DEF BookedAtASlot
  <1>4. CASE CommitMove(p)
    <2> DEFINE c == req[p].cand
               row == [state |-> req[p].to, slotId |-> SlotAfter(req[p])]
    <2>1. Step(p, Idle) /\ schedule' = schedule /\ app' = [app EXCEPT ![c] = row]
      BY <1>4 DEF CommitMove, driveVars
    <2>2. RowsOfStep
      BY <2>1, IdleAsksNothing, StepRows
    <2>3. row.state = "CONFIRMED" => row.slotId # NoSlot
      BY DEF RowsHeld, TakesSeat, SlotAfter, WalkIn
    <2> HIDE DEF row
    <2>4. \A d \in Candidates : app'[d] = app[d] \/ app'[d] = row
      BY <2>1 DEF TypeOK
    <2> QED
      BY <2>1, <2>2, <2>3, <2>4 DEF BookedAtASlot
  <1>5. CASE LoseRace(p)
    <2>1. \E e : Throw(p, e)
      BY <1>5 DEF LoseRace
    <2>2. app' = app /\ schedule' = schedule
      BY <1>5 DEF LoseRace, rowVars, driveVars
    <2> QED
      BY <2>1, <2>2, ThrownRows DEF BookedAtASlot
  <1>6. CASE CommitConfirm(p)
    <2>1. Step(p, Idle) /\ app' = app /\ schedule' = schedule
      BY <1>6 DEF CommitConfirm, driveVars
    <2> QED
      BY <2>1, IdleAsksNothing, StepRows DEF BookedAtASlot
  <1> QED
    BY <1>1, <1>2, <1>3, <1>4, <1>5, <1>6 DEF Advance

\* So for every step of the requests, the job, the drive and the clock.
LEMMA NextRows ==
  ASSUME TypeOK, RowsHeld, Next
  PROVE  RowsOfStep /\ BookedAtASlot /\ schedule' = schedule
  <1>a. Worker \in Procs /\ Requests \subseteq Procs
    BY DEF Procs
  <1>1. ASSUME NEW p \in Requests, Begin(p) PROVE RowsOfStep /\ BookedAtASlot /\ schedule' = schedule
    BY <1>1, BeginRows DEF BookedAtASlot
  <1>2. ASSUME NEW p \in Procs, Step(p, Idle), app' = app, schedule' = schedule
        PROVE  RowsOfStep /\ BookedAtASlot /\ schedule' = schedule
    BY <1>2, IdleAsksNothing, StepRows DEF BookedAtASlot
  <1>3. ASSUME NEW p \in Requests, AnswerError(p) \/ Abandon(p)
        PROVE  RowsOfStep /\ BookedAtASlot /\ schedule' = schedule
    BY <1>a, <1>2, <1>3 DEF AnswerError, Abandon, rowVars, driveVars
  <1>4. ASSUME NEW p \in Procs, Advance(p) PROVE RowsOfStep /\ BookedAtASlot /\ schedule' = schedule
    BY <1>4, AdvanceRows
  <1>5. ASSUME CatchInLoop \/ WorkerCrash PROVE RowsOfStep /\ BookedAtASlot /\ schedule' = schedule
    BY <1>a, <1>2, <1>5 DEF CatchInLoop, WorkerCrash, rowVars, driveVars
  <1>6. ASSUME NEW c \in Candidates, MarkNoShow(c) PROVE RowsOfStep /\ BookedAtASlot /\ schedule' = schedule
    <2> DEFINE r == [Idle EXCEPT !.phase = "begun", !.op = "noShow", !.cand = c, !.to = "NO_SHOW"]
    <2>1. r.held = NoSlot /\ r.to # "CONFIRMED"
      BY DEF Idle
    <2>2. Step(Worker, r) /\ app' = app /\ schedule' = schedule
      BY <1>6 DEF MarkNoShow, rowVars, driveVars
    <2> HIDE DEF r
    <2> QED
      BY <1>a, <2>1, <2>2, StepRows DEF BookedAtASlot, TakesSeat
  <1>7. ASSUME req' = req, app' = app, schedule' = schedule
        PROVE  RowsOfStep /\ BookedAtASlot /\ schedule' = schedule
    BY <1>7 DEF RowsOfStep, RowsHeld, BookedAtASlot, TakesSeat
  <1>8. CASE ExpireDrives \/ FindUnattended \/ FinishRun \/ Tick \/ \E to \in Statuses : MoveDrive(to)
    BY <1>7, <1>8 DEF ExpireDrives, FindUnattended, FinishRun, Tick, MoveDrive, rowVars, driveVars
  <1> QED
    BY <1>1, <1>3, <1>4, <1>5, <1>6, <1>8 DEF Next, RunJob

-----------------------------------------------------------------------------
(* What a reschedule does to slots.                                         *)

\* The slots kept of those that fill D to E, and the slots added, as a reschedule
\* starts them: moved alike, and one after another behind the last.
Relaid(slots, starts, D, E, shift, count, B, F, kept, added, after) ==
    /\ slots \in SUBSET SlotIds /\ starts \in [SlotIds -> Nat]
    /\ D \in Nat /\ E \in Nat /\ D < E /\ Tiles(slots, starts, D, E)
    /\ shift \in Int /\ count \in Nat \ {0} /\ B \in Nat /\ B = D + shift /\ F \in Nat /\ F = B + count
    /\ kept \in SUBSET slots /\ \A s \in slots : s \in kept <=> starts[s] - D + 1 <= count
    /\ added \in SUBSET SlotIds /\ slots \cap added = {}
    /\ Cardinality(added) = IF count > Cardinality(slots) THEN count - Cardinality(slots) ELSE 0
    /\ \A s \in slots : after[s] = starts[s] + shift
    /\ \A s \in added : after[s] = E + shift + RankIn(added, s)

\* They fill the drive's new window.
LEMMA MovedTile ==
  ASSUME NEW slots, NEW starts, NEW D, NEW E, NEW shift, NEW count, NEW B, NEW F, NEW kept, NEW added, NEW after,
         Relaid(slots, starts, D, E, shift, count, B, F, kept, added, after)
  PROVE  Tiles(kept \cup added, after, B, F)
  <1> USE DEF Relaid
  <1>1. IsFiniteSet(slots) /\ IsFiniteSet(added) /\ added \in SUBSET Nat
    BY FS_Subset
  <1>2. Cardinality(slots) = E - D /\ \A s \in slots : starts[s] \in D..(E - 1)
    BY DEF Tiles
  <1>3. CASE count > E - D
    <2>a. \A s \in slots : starts[s] - D + 1 <= count
      BY <1>2, <1>3
    <2>1. kept = slots
      BY <2>a
    <2>2. Cardinality(added) = count - (E - D)
      BY <1>2, <1>3
    <2>b. D <= E /\ \A s \in slots : after[s] = starts[s] + shift
      OBVIOUS
    <2>3. Tiles(slots, after, D + shift, E + shift)
      BY <2>b, ShiftedTile
    <2> DEFINE G == E + shift
    <2>4. G \in Nat /\ B < G /\ Tiles(slots, after, B, G)
      BY <2>3
    <2>5. \A s \in added : after[s] = G + RankIn(added, s)
      OBVIOUS
    <2>6. G + Cardinality(added) = F
      BY <2>2
    <2> HIDE DEF G
    <2>7. Tiles(slots \cup added, after, B, G + Cardinality(added))
      BY <1>1, <2>4, <2>5, LongerTile
    <2> QED
      BY <2>1, <2>6, <2>7
  <1>4. CASE count <= E - D
    <2>1. added = {}
      BY <1>1, <1>2, <1>4, FS_EmptySet
    <2>a. kept = {s \in slots : starts[s] - D + 1 <= count}
      OBVIOUS
    <2>2. Tiles(kept, starts, D, D + count)
      BY <1>1, <1>4, <2>a, FirstTile
    <2> DEFINE G == D + count
    <2>3. G \in Nat /\ D <= G /\ Tiles(kept, starts, D, G)
      BY <2>2
    <2>4. \A s \in kept : after[s] = starts[s] + shift
      OBVIOUS
    <2>5. G + shift = F
      OBVIOUS
    <2> HIDE DEF G
    <2>6. Tiles(kept, after, D + shift, G + shift)
      BY <2>3, <2>4, ShiftedTile
    <2>7. kept \cup added = kept
      BY <2>1
    <2> QED
      BY <2>5, <2>6, <2>7
  <1> QED
    BY <1>2, <1>3, <1>4

\* Slots that fill a window that is not empty tile it as slotsTile asks.
LEMMA TilesAreSlots ==
  ASSUME NEW slots, NEW starts, NEW D \in Nat, NEW E \in Nat, D < E, Tiles(slots, starts, D, E)
  PROVE  SlotsTile(slots, starts, E) /\ slots # {}
  <1>1. {starts[s] : s \in slots} = D..(E - 1) /\ Cardinality(slots) = E - D
    BY DEF Tiles
  <1>2. StartOf(slots, starts) = D
    BY <1>1, StartIs
  <1>3. D \in {starts[s] : s \in slots}
    BY <1>1
  <1>4. SlotsTile(slots, starts, E)
    BY <1>1, <1>2 DEF SlotsTile
  <1>5. slots # {}
    BY <1>3
  <1> QED
    BY <1>4, <1>5

\* A reschedule that commits leaves every variable typed, every slot row free,
\* everybody booked with a slot, and the slots end to end.
LEMMA MoveSlotsKeeps ==
  ASSUME MoveInv, NEW shift \in Int, NEW count \in Nat \ {0}, MoveSlots(shift, count)
  PROVE  MoveInv'
  <1> DEFINE D == DriveStart
             E == schedule.ends
             start == D + shift
             old == Cardinality(schedule.slots)
  <1>1. /\ schedule \in Schedule /\ schedule.slots \in SUBSET SlotIds
        /\ schedule.starts \in [SlotIds -> Nat] /\ E \in Nat
    BY DEF MoveInv, LockInv, TypeOK, Schedule
  <1>a. \A s \in schedule.slots : schedule.starts[s] \in Nat
    BY <1>1
  <1>2. IsFiniteSet(schedule.slots) /\ old \in Nat
    BY <1>1, FS_Subset, FS_CardinalityType
  <1>3. schedule.slots # {} /\ SlotsTile(schedule.slots, schedule.starts, E)
    BY DEF MoveInv, SlotsKnown, BookingsSurvive, SlotsAlwaysTile
  <1>4. /\ D \in Nat /\ \A s \in schedule.slots : D <= schedule.starts[s]
        /\ Tiles(schedule.slots, schedule.starts, D, E) /\ D < E
    BY <1>1, <1>3, TilesFromStart DEF DriveStart
  <1>5. clock \in Nat
    BY DEF MoveInv, LockInv, TypeOK
  <1>6. start \in Nat
    <2>1. IF DriveBegun THEN shift = 0 ELSE start > clock
      BY DEF MoveSlots
    <2> HIDE DEF D
    <2> QED
      BY <1>4, <1>5, <2>1
  <1>7. PICK newSeat \in [Stranded(count) -> Kept(count)], added \in SUBSET (SlotIds \ moved.used) :
        /\ Reseats(newSeat, count, shift)
        /\ Cardinality(added) = IF count > old THEN count - old ELSE 0
        /\ schedule' = [slots |-> Kept(count) \cup added, starts |-> NewStarts(shift, added), ends |-> start + count]
        /\ booked' = [s \in SlotIds |-> IF s \in Dropped(count) THEN 0 ELSE booked[s] + SeatedIn(newSeat, s)]
        /\ app' = [c \in Candidates |->
            IF c \in DOMAIN newSeat THEN [app[c] EXCEPT !.slotId = newSeat[c]]
            ELSE IF app[c].slotId \in Dropped(count) /\ c \notin Stranded(count) THEN [app[c] EXCEPT !.slotId = NoSlot]
            ELSE app[c]]
        /\ moved' = [times |-> moved.times + 1, used |-> moved.used \cup added]
    BY DEF MoveSlots
  <1>8. moving.phase = "locked" /\ moving' = NotMoving /\ UNCHANGED <<checkIn, outcomes, status, clock, jobVars, req>>
    BY DEF MoveSlots
  <1> DEFINE kept == Kept(count)
             after == NewStarts(shift, added)
             ends == start + count
  <1>9. schedule'.slots = kept \cup added /\ schedule'.starts = after /\ schedule'.ends = ends
    BY <1>7
  <1>10. kept = {s \in schedule.slots : schedule.starts[s] - D + 1 <= count}
    <2> HIDE DEF D
    <2>1. \A s \in schedule.slots : schedule.starts[s] - D + 1 \in Int
      BY <1>a, <1>4
    <2> QED
      BY <2>1 DEF Kept, Dropped, Place, D
  <1>11. kept \in SUBSET SlotIds /\ kept \subseteq schedule.slots
    BY <1>1, <1>10
  <1>12. added \in SUBSET SlotIds /\ schedule.slots \cap added = {} /\ IsFiniteSet(added)
    <2>1. schedule.slots \subseteq moved.used
      BY DEF MoveInv, SlotsKnown
    <2>2. added \in SUBSET SlotIds /\ added \cap moved.used = {}
      BY <1>7
    <2> QED
      BY <2>1, <2>2, FS_Subset
  <1>13. \A s \in schedule.slots : after[s] = schedule.starts[s] + shift
    BY <1>1 DEF NewStarts
  <1>14. \A s \in added : after[s] = E + shift + RankIn(added, s)
    BY <1>12 DEF NewStarts, RankIn
  <1>15. \A s \in added : RankIn(added, s) \in Nat
    BY <1>12, FS_Subset, FS_CardinalityType DEF RankIn
  <1>16. after \in [SlotIds -> Nat]
    <2>1. \A s \in SlotIds : s \notin schedule.slots \cup added => after[s] = schedule.starts[s]
      BY DEF NewStarts
    <2>2. DOMAIN after = SlotIds /\ after = [s \in SlotIds |-> after[s]]
      BY DEF NewStarts
    <2> HIDE DEF after, D, E
    <2>3. \A s \in schedule.slots : after[s] \in Nat
      BY <1>a, <1>4, <1>6, <1>13
    <2>b. E + shift \in Nat
      BY <1>1, <1>4, <1>6
    <2>4. \A s \in added : after[s] \in Nat
      BY <2>b, <1>14, <1>15
    <2>5. \A s \in SlotIds : after[s] \in Nat
      BY <1>1, <2>1, <2>3, <2>4
    <2> QED
      BY <2>2, <2>5
  <1>17. ends \in Nat /\ start < ends
    <2> HIDE DEF D
    <2> QED
      BY <1>6
  <1>18. Tiles(kept \cup added, after, start, ends)
    <2>1. Cardinality(added) = IF count > Cardinality(schedule.slots) THEN count - Cardinality(schedule.slots) ELSE 0
      BY <1>7
    <2> DEFINE slots == schedule.slots
               starts == schedule.starts
    <2>2. /\ slots \in SUBSET SlotIds /\ starts \in [SlotIds -> Nat] /\ D \in Nat /\ E \in Nat /\ D < E
          /\ Tiles(slots, starts, D, E) /\ D + shift \in Nat
          /\ kept \in SUBSET slots /\ \A s \in slots : s \in kept <=> starts[s] - D + 1 <= count
      BY <1>1, <1>4, <1>6, <1>10
    <2>3. /\ added \in SUBSET SlotIds /\ slots \cap added = {}
          /\ Cardinality(added) = IF count > Cardinality(slots) THEN count - Cardinality(slots) ELSE 0
          /\ \A s \in slots : after[s] = starts[s] + shift
          /\ \A s \in added : after[s] = E + shift + RankIn(added, s)
      BY <1>12, <1>13, <1>14, <2>1
    <2> HIDE DEF D, E, after, kept, slots, starts
    <2>4. start \in Nat /\ start = D + shift /\ ends \in Nat /\ ends = start + count
      BY <1>6, <1>17
    <2> HIDE DEF start, ends
    <2>5. Relaid(slots, starts, D, E, shift, count, start, ends, kept, added, after)
      BY <2>2, <2>3, <2>4 DEF Relaid
    <2> QED
      BY <2>5, MovedTile
  <1>19. SlotsTile(kept \cup added, after, ends) /\ kept \cup added # {}
    <2> HIDE DEF start, ends, after, kept
    <2> QED
      BY <1>6, <1>17, <1>18, TilesAreSlots
  <1>20. SlotsAlwaysTile'
    BY <1>9, <1>19 DEF SlotsAlwaysTile
  <1>21. SlotsKnown'
    <2>1. kept \cup added \subseteq moved.used \cup added
      BY <1>11 DEF MoveInv, SlotsKnown
    <2>2. moved'.used = moved.used \cup added
      BY <1>7
    <2> QED
      BY <1>9, <1>19, <2>1, <2>2 DEF SlotsKnown
  <1>22. (moved \in [times : 0..MaxMoves, used : SUBSET SlotIds])'
    <2>1. moved \in [times : 0..MaxMoves, used : SUBSET SlotIds] /\ moved.times < MaxMoves
      BY <1>8 DEF MoveInv, RescheduleTypeOK
    <2>a. moved.times \in 0..MaxMoves /\ moved.used \in SUBSET SlotIds /\ moved.times < MaxMoves
      BY <2>1
    <2>2. moved.times + 1 \in 0..MaxMoves
      BY <2>a
    <2>3. moved.used \cup added \in SUBSET SlotIds
      BY <1>12, <2>a
    <2> QED
      BY <1>7, <2>2, <2>3
  <1>23. (moving \in [phase : {"idle", "read", "locked"}, counts : [SlotIds -> Nat]])' /\ moving'.phase = "idle"
    BY <1>8 DEF NotMoving
  <1>24. schedule' \in Schedule
    BY <1>7, <1>11, <1>12, <1>16, <1>17 DEF Schedule
  <1>25. \A c \in Candidates : app[c] \in Application
    BY DEF MoveInv, LockInv, TypeOK
  <1>26. \A s \in SlotIds : booked[s] \in Nat /\ SeatedIn(newSeat, s) \in Nat
    <2>1. \A s : IsFiniteSet({c \in DOMAIN newSeat : newSeat[c] = s})
      BY FS_Subset DEF Stranded
    <2>2. \A s : SeatedIn(newSeat, s) \in Nat
      BY <2>1, FS_CardinalityType DEF SeatedIn
    <2> QED
      BY <2>2 DEF MoveInv, LockInv, TypeOK
  <1>27. booked' \in [SlotIds -> Nat]
    BY <1>7, <1>26
  <1>28. \A c \in Candidates :
            /\ c \in Stranded(count) => app'[c] = [app[c] EXCEPT !.slotId = newSeat[c]]
            /\ c \notin Stranded(count) => app'[c] = app[c] \/ app'[c] = [app[c] EXCEPT !.slotId = NoSlot]
            /\ c \notin Stranded(count) /\ app[c].slotId \notin Dropped(count) => app'[c] = app[c]
    BY <1>7
  <1>29. \A c \in Candidates :
            /\ app'[c] \in Application /\ app'[c].state = app[c].state
            /\ c \in Stranded(count) => app'[c].slotId \in kept
    <2> SUFFICES ASSUME NEW c \in Candidates
                 PROVE  /\ app'[c] \in Application /\ app'[c].state = app[c].state
                        /\ c \in Stranded(count) => app'[c].slotId \in kept
      OBVIOUS
    <2>1. CASE c \in Stranded(count)
      <3>1. newSeat[c] \in kept /\ newSeat[c] \in SlotIds
        BY <1>11, <2>1
      <3>2. app'[c] = [app[c] EXCEPT !.slotId = newSeat[c]]
        BY <1>28, <2>1
      <3> QED
        BY <1>25, <3>1, <3>2 DEF Application
    <2>2. CASE c \notin Stranded(count)
      <3>1. app'[c] = app[c] \/ app'[c] = [app[c] EXCEPT !.slotId = NoSlot]
        BY <1>28, <2>2
      <3> QED
        BY <1>25, <2>2, <3>1 DEF Application
    <2> QED
      BY <2>1, <2>2
  <1>30. app' \in [Candidates -> Application]
    BY <1>7, <1>29
  <1>31. NobodyStranded'
    <2> SUFFICES ASSUME NEW c \in Candidates, app'[c].state = "CONFIRMED" PROVE app'[c].slotId \in kept
      BY <1>9 DEF NobodyStranded
    <2>1. CASE c \in Stranded(count)
      BY <1>29, <2>1
    <2>2. CASE c \notin Stranded(count)
      <3>1. app[c].state = "CONFIRMED"
        BY <1>29
      <3>2. app[c].slotId \in schedule.slots /\ app[c].slotId \notin Dropped(count)
        BY <2>2, <3>1 DEF MoveInv, BookingsSurvive, NobodyStranded, Stranded
      <3>3. app'[c] = app[c]
        BY <1>28, <2>2, <3>2
      <3> QED
        BY <3>2, <3>3 DEF Kept
    <2> QED
      BY <2>1, <2>2
  <1>32. \A p \in Procs : req'[p] = req[p] /\ req[p].held = NoSlot
    BY <1>8 DEF MoveInv, RowsHeld
  <1>33. TypeOK'
    BY <1>8, <1>24, <1>27, <1>30 DEF MoveInv, LockInv, TypeOK, jobVars
  <1>34. (LockedSeat /\ SlotLockExclusive)'
    BY <1>32 DEF MoveInv, LockInv, LockedSeat, SlotLockExclusive
  <1>35. RowsHeld'
    BY <1>23, <1>32 DEF MoveInv, RowsHeld, TakesSeat
  <1> QED
    BY <1>20, <1>21, <1>22, <1>23, <1>31, <1>33, <1>34, <1>35 DEF MoveInv, LockInv, RescheduleTypeOK, BookingsSurvive

\* Whatever the requests do while a reschedule waits or runs, a row it locked
\* stays free, and nobody is booked into a slot that is gone.
LEMMA RequestsKeep ==
  ASSUME MoveInv, Next, WaitsForMove, UNCHANGED moveVars
  PROVE  MoveInv'
  <1>1. LockInv'
    BY NextKeepsLocks DEF MoveInv
  <1>2. RowsOfStep /\ BookedAtASlot /\ schedule' = schedule
    BY NextRows DEF MoveInv, LockInv
  <1>3. moving' = moving /\ moved' = moved
    BY DEF moveVars
  <1>4. (\A p \in Procs :
          /\ req[p].held # NoSlot => req[p].held \in schedule.slots
          /\ TakesSeat(req[p]) => req[p].slot # NoSlot)'
    <2>1. \A p \in Procs : req[p].held # NoSlot => req[p].held \in schedule.slots
      BY DEF MoveInv, RowsHeld
    <2>2. \A p \in Procs : req'[p].held # NoSlot => req'[p].held \in schedule.slots
      BY <1>2, <2>1 DEF RowsOfStep
    <2>3. \A p \in Procs : TakesSeat(req'[p]) => req'[p].slot # NoSlot
      BY <1>2 DEF RowsOfStep
    <2> QED
      BY <1>2, <2>2, <2>3 DEF TakesSeat
  <1>5. (moving.phase = "locked" => \A p \in Procs : req[p].held = NoSlot)'
    BY <1>3 DEF MoveInv, RowsHeld, WaitsForMove
  <1>6. NobodyStranded'
    <2> SUFFICES ASSUME NEW c \in Candidates, app'[c].state = "CONFIRMED"
                 PROVE  app'[c].slotId \in schedule.slots
      BY <1>2 DEF NobodyStranded
    <2>1. app'[c].slotId \in schedule.slots \cup {NoSlot}
      BY DEF WaitsForMove
    <2>2. CASE app'[c] = app[c]
      BY <2>2 DEF MoveInv, BookingsSurvive, NobodyStranded
    <2>3. CASE app'[c].slotId # NoSlot
      BY <2>1, <2>3
    <2> QED
      BY <1>2, <2>2, <2>3 DEF BookedAtASlot
  <1>7. SlotsAlwaysTile' /\ SlotsKnown'
    BY <1>2, <1>3 DEF MoveInv, BookingsSurvive, SlotsAlwaysTile, SlotsKnown
  <1>8. RescheduleTypeOK' /\ (moving.phase # "idle" => moved.times < MaxMoves)'
    BY <1>1, <1>3 DEF MoveInv, LockInv, RescheduleTypeOK
  <1> QED
    BY <1>1, <1>4, <1>5, <1>6, <1>7, <1>8 DEF MoveInv, RowsHeld, BookingsSurvive

\* A step of the reschedule itself that changes no row of the drive.
LEMMA QuietMove ==
  ASSUME MoveInv, UNCHANGED <<vars, moved>>,
         (moving \in [phase : {"idle", "read", "locked"}, counts : [SlotIds -> Nat]])',
         moving'.phase = "locked" => \A p \in Procs : req[p].held = NoSlot,
         moving'.phase # "idle" => moved.times < MaxMoves
  PROVE  MoveInv'
  <1>1. LockInv'
    BY NextKeepsLocks DEF MoveInv
  <1>2. UNCHANGED <<app, schedule, req, moved>>
    BY DEF vars
  <1>3. BookingsSurvive' /\ SlotsKnown'
    BY <1>2 DEF MoveInv, BookingsSurvive, NobodyStranded, SlotsAlwaysTile, SlotsKnown
  <1>4. RowsHeld'
    BY <1>2 DEF MoveInv, RowsHeld, TakesSeat
  <1>5. RescheduleTypeOK' /\ (moving.phase # "idle" => moved.times < MaxMoves)'
    BY <1>1, <1>2 DEF MoveInv, LockInv, RescheduleTypeOK
  <1> QED
    BY <1>1, <1>3, <1>4, <1>5 DEF MoveInv

\* Every step leaves bookings and slots in order.
LEMMA RescheduleNextKeeps == MoveInv /\ [RescheduleNext]_<<vars, moveVars>> => MoveInv'
  <1> SUFFICES ASSUME MoveInv, [RescheduleNext]_<<vars, moveVars>> PROVE MoveInv'
    OBVIOUS
  <1>a. /\ moving \in [phase : {"idle", "read", "locked"}, counts : [SlotIds -> Nat]]
        /\ booked \in [SlotIds -> Nat]
    BY DEF MoveInv, RescheduleTypeOK, TypeOK
  <1>1. CASE Next /\ WaitsForMove /\ UNCHANGED moveVars
    BY <1>1, RequestsKeep
  <1>2. ASSUME NEW p \in Procs, LoseSlot(p) PROVE MoveInv'
    <2>1. Step(p, Idle) /\ UNCHANGED <<rowVars, driveVars, jobVars, moveVars>>
      BY <1>2 DEF LoseSlot
    <2>2. LockInv'
      <3>1. crashes' \in Nat /\ job' \in [phase : {"idle", "expired", "marking"}, batch : SUBSET Candidates]
        BY <2>1 DEF jobVars, MoveInv, LockInv, TypeOK
      <3> QED
        BY <2>1, <3>1, EndKeepsLocks DEF MoveInv
    <2>3. UNCHANGED <<app, schedule, moving, moved>>
      BY <2>1 DEF rowVars, driveVars, moveVars
    <2>4. BookingsSurvive' /\ SlotsKnown'
      BY <2>3 DEF MoveInv, BookingsSurvive, NobodyStranded, SlotsAlwaysTile, SlotsKnown
    <2>5. \A q \in Procs : req'[q] = req[q] \/ req'[q] = Idle
      BY <2>1 DEF Step, MoveInv, LockInv, TypeOK
    <2>6. RowsHeld'
      BY <2>3, <2>5, IdleAsksNothing DEF MoveInv, RowsHeld, TakesSeat
    <2>7. RescheduleTypeOK' /\ (moving.phase # "idle" => moved.times < MaxMoves)'
      BY <2>2, <2>3 DEF MoveInv, LockInv, RescheduleTypeOK
    <2> QED
      BY <2>2, <2>4, <2>6, <2>7 DEF MoveInv
  <1>3. CASE ReadDriveToMove
    <2>1. UNCHANGED <<vars, moved>> /\ moving' = [phase |-> "read", counts |-> booked] /\ moved.times < MaxMoves
      BY <1>3 DEF ReadDriveToMove
    <2> QED
      BY <1>a, <2>1, QuietMove
  <1>4. CASE LockSlots
    <2>1. UNCHANGED <<vars, moved>> /\ moving' = [moving EXCEPT !.phase = "locked"]
      BY <1>4 DEF LockSlots
    <2>2. \A p \in Procs : req[p].held = NoSlot
      BY <1>4 DEF LockSlots, MoveInv, RowsHeld
    <2>3. moved.times < MaxMoves
      BY <1>4 DEF LockSlots, MoveInv
    <2> QED
      BY <1>a, <2>1, <2>2, <2>3, QuietMove
  <1>5. CASE GiveUpMove
    <2>1. UNCHANGED <<vars, moved>> /\ moving' = NotMoving
      BY <1>5 DEF GiveUpMove
    <2>2. NotMoving \in [phase : {"idle", "read", "locked"}, counts : [SlotIds -> Nat]] /\ NotMoving.phase = "idle"
      BY DEF NotMoving
    <2> QED
      BY <2>1, <2>2, QuietMove
  <1>6. ASSUME NEW shift \in -MaxShift..MaxShift, NEW count \in 1..Cardinality(SlotIds), MoveSlots(shift, count)
        PROVE  MoveInv'
    <2>1. Cardinality(SlotIds) \in Nat
      BY FS_CardinalityType
    <2>2. shift \in Int /\ count \in Nat \ {0}
      BY <2>1
    <2> QED
      BY <1>6, <2>2, MoveSlotsKeeps
  <1>7. CASE UNCHANGED <<vars, moveVars>>
    <2>1. UNCHANGED <<vars, moved>> /\ moving' = moving
      BY <1>7 DEF moveVars
    <2>2. moving.phase = "locked" => \A p \in Procs : req[p].held = NoSlot
      BY DEF MoveInv, RowsHeld
    <2>3. moving.phase # "idle" => moved.times < MaxMoves
      BY DEF MoveInv
    <2> QED
      BY <1>a, <2>1, <2>2, <2>3, QuietMove
  <1> QED
    BY <1>1, <1>2, <1>3, <1>4, <1>5, <1>6, <1>7 DEF RescheduleNext

\* A new drive's slots fill its window, and nobody holds one.
LEMMA InitMoveInv == RescheduleInit => MoveInv
  <1> SUFFICES ASSUME RescheduleInit PROVE MoveInv
    OBVIOUS
  <1>1. LockInv
    BY InitSeatInv DEF RescheduleInit, SeatInv, LockInv
  <1>2. RowsHeld
    <2>1. \A p \in Procs : req[p] = Idle
      BY DEF RescheduleInit, Init
    <2> QED
      BY <2>1, IdleAsksNothing DEF RowsHeld
  <1>3. schedule.slots = 1..InitialSlots /\ schedule.ends = InitialSlots + 1 /\ moved.used = 1..InitialSlots
        /\ schedule.starts = [s \in SlotIds |-> s]
    BY DEF RescheduleInit, Init
  <1> DEFINE N == InitialSlots + 1
  <1>4. Tiles(1..InitialSlots, [s \in SlotIds |-> s], 1, N)
    <2>1. IsFiniteSet(1..InitialSlots)
      BY FS_Interval
    <2>2. \A s \in 1..InitialSlots : [t \in SlotIds |-> t][s] = s
      OBVIOUS
    <2> DEFINE f == [s \in SlotIds |-> s]
    <2> HIDE DEF f
    <2>a. \A s \in 1..InitialSlots : f[s] = s
      BY <2>2 DEF f
    <2>b. 1..(N - 1) = 1..InitialSlots
      OBVIOUS
    <2>3. {f[s] : s \in 1..InitialSlots} = 1..(N - 1)
      BY <2>a, <2>b
    <2>4. \A s, t \in 1..InitialSlots : f[s] = f[t] => s = t
      BY <2>2 DEF f
    <2>5. N \in Nat /\ 1 <= N /\ 1 \in Nat
      OBVIOUS
    <2> HIDE DEF N
    <2>6. Tiles(1..InitialSlots, f, 1, N)
      BY <2>1, <2>3, <2>4, <2>5, ApartTiles
    <2> QED
      BY <2>6 DEF f
  <1>5. N \in Nat /\ 1 < N /\ 1 \in Nat
    OBVIOUS
  <1>6. SlotsTile(schedule.slots, schedule.starts, schedule.ends) /\ schedule.slots # {}
    <2> HIDE DEF N
    <2>1. SlotsTile(1..InitialSlots, [s \in SlotIds |-> s], N) /\ 1..InitialSlots # {}
      BY <1>4, <1>5, TilesAreSlots
    <2> QED
      BY <1>3, <2>1 DEF N
  <1>7. SlotsAlwaysTile /\ SlotsKnown
    BY <1>3, <1>6 DEF SlotsAlwaysTile, SlotsKnown
  <1>8. NobodyStranded
    BY DEF RescheduleInit, Init, NobodyStranded, NoRow
  <1>9. RescheduleTypeOK /\ moving.phase = "idle"
    BY <1>1 DEF RescheduleInit, NotMoving, RescheduleTypeOK, LockInv
  <1> QED
    BY <1>1, <1>2, <1>7, <1>8, <1>9 DEF MoveInv, BookingsSurvive

\* However bookings, releases, arrivals and reschedules overlap, their invariant
\* holds (reschedule, takeSeat, transitionApplication).
THEOREM RescheduleInvariant == RescheduleSpec => []MoveInv
  BY InitMoveInv, RescheduleNextKeeps, PTL DEF RescheduleSpec

\* Every variable keeps its type (module Rescheduling).
THEOREM RescheduleTypeCorrect == RescheduleSpec => []RescheduleTypeOK
  <1>1. MoveInv => RescheduleTypeOK
    BY DEF MoveInv
  <1> QED
    BY <1>1, RescheduleInvariant, PTL

\* Whoever is booked has a slot the drive still has, and the slots fill the
\* drive's window, whatever overlaps a reschedule (reschedule, slotsTile).
THEOREM BookingsAlwaysSurvive == RescheduleSpec => []BookingsSurvive
  <1>1. MoveInv => BookingsSurvive
    BY DEF MoveInv
  <1> QED
    BY <1>1, RescheduleInvariant, PTL

-----------------------------------------------------------------------------
(***************************************************************************)
(* What is proved of each component holds in their composition: a          *)
(* behaviour of MCDrives is one of every component, most of them standing  *)
(* still.                                                                  *)
(***************************************************************************)

\* A behaviour of the composition is one of each of the components.
THEOREM DrivesAreTheirParts ==
    DrivesSpec => RescheduleSpec /\ ScreeningSpec /\ FormsSpec /\ CodesSpec /\ ApplicantsSpec /\ SearchSpec
<1>1. DrivesInit => RescheduleInit /\ ScreeningInit /\ FormsInit /\ CodesInit /\ ApplicantsInit /\ SearchInit
  BY DEF DrivesInit
<1>2. ASSUME [DrivesNext]_<<part, vars, moveVars, screeningVars, formVars, codeVars, applicantVars, searchVars>>
      PROVE  /\ [RescheduleNext]_<<vars, moveVars>> /\ [ScreeningNext]_screeningVars /\ [FormsNext]_formVars
             /\ [CodesNext]_codeVars /\ [ApplicantsNext]_applicantVars /\ [SearchNext]_searchVars
  <2>1. CASE DrivesNext
    BY <2>1 DEF DrivesNext, Only
  <2>2. CASE UNCHANGED <<part, vars, moveVars, screeningVars, formVars, codeVars, applicantVars, searchVars>>
    BY <2>2
  <2> QED BY <1>2, <2>1, <2>2
<1> QED
  BY <1>1, <1>2, PTL DEF DrivesSpec, RescheduleSpec, ScreeningSpec, FormsSpec, CodesSpec, ApplicantsSpec, SearchSpec

\* Every variable of a drive's components has its type, in all of them.
THEOREM DrivesTypeCorrect == DrivesSpec => []DrivesTypeOK
<1>1. RescheduleTypeOK /\ ScreeningTypeOK /\ FormsTypeOK /\ CodesTypeOK /\ ApplicantsTypeOK /\ SearchTypeOK
        => DrivesTypeOK
  BY DEF DrivesTypeOK
<1> QED
  BY <1>1, DrivesAreTheirParts, RescheduleTypeCorrect, ScreeningTypeCorrect, FormsTypeCorrect, CodesTypeCorrect,
     ApplicantsTypeCorrect, SearchTypeCorrect, PTL
=============================================================================
