----------------------------- MODULE CompanyProofs ----------------------------
(***************************************************************************)
(* What is proved about a company: modules DriveLifecycle, People, Trust,  *)
(* LiveBoard and TopUps.  It stands on MCServices so that NoticesProofs    *)
(* and CandidatesProofs can end in what holds of all services together.    *)
(***************************************************************************)
EXTENDS MCServices, NumbersLemmas

-----------------------------------------------------------------------------
(***************************************************************************)
(* For any number of drives and requests: every suspension remembers what  *)
(* it must be undone to, and undoing a company's undoes it on every drive. *)
(*                                                                         *)
(* Inductive because only one request at a time moderates the company, so  *)
(* between what a lift found and what it writes nothing else can suspend a *)
(* drive for the company's sake.                                           *)
(***************************************************************************)

USE NoDriveAssumption

OneAtATime == \A p, q \in Requests : req[p].op \in CompanyKinds /\ req[q].op \in CompanyKinds => p = q

\* A request past its check is about a drive, or about the company.
OfADrive == \A p \in Requests : req[p].phase # "idle" /\ req[p].op \notin CompanyKinds => req[p].drive \in Drives

\* A lift of the company finds every drive its suspension holds back.
LiftFindsAll ==
    \A p \in Requests : req[p].phase = "found" /\ req[p].op = "liftCompany" =>
        \A d \in Drives : status[d] = "SUSPENDED" /\ cause[d] = "COMPANY" /\ ~Ended(d) => req[p].found[d] # "none"

LifecycleInv == TypeOK /\ OfADrive /\ OneAtATime /\ LiftFindsAll /\ SuspensionsCanBeLifted

-----------------------------------------------------------------------------
LEMMA LifecycleInit == Init => LifecycleInv
<1> SUFFICES ASSUME Init PROVE LifecycleInv
  OBVIOUS
<1>1. NothingFound \in [Drives -> Suspendable \cup {"none"}]
  BY DEF NothingFound
<1>2. Idle \in Request /\ Idle.op = "none" /\ Idle.phase = "idle"
  BY <1>1 DEF Idle, Request, Ops
<1>3. \A p \in Requests : req[p] = Idle
  BY DEF Init
<1>4. TypeOK
  BY <1>2 DEF Init, TypeOK, DriveStatus, Suspendable
<1>5. OfADrive /\ OneAtATime /\ LiftFindsAll
  BY <1>2, <1>3 DEF OfADrive, OneAtATime, LiftFindsAll, CompanyKinds
<1>6. SuspensionsCanBeLifted
  BY DEF Init, SuspensionsCanBeLifted, SuspensionRemembered, NoDriveLeftBehind
<1>7. QED
  BY <1>4, <1>5, <1>6 DEF LifecycleInv

\* A request that ends, or begins on a drive or the company.
LEMMA StepTyped ==
  ASSUME TypeOK, OfADrive, NEW p \in Requests,
         \/ Step(p, Idle)
         \/ \E op \in Ops, d \in Drives : Step(p, [Idle EXCEPT !.op = op, !.phase = "checked", !.drive = d])
         \/ \E op \in CompanyKinds : Step(p, [Idle EXCEPT !.op = op, !.phase = "checked", !.drive = NoDrive])
  PROVE  req' \in [Requests -> Request] /\ OfADrive'
<1>1. Idle \in Request /\ CompanyKinds \subseteq Ops
  BY DEF Idle, NothingFound, Request, Ops, Kinds, CompanyKinds, Suspendable
<1>2. PICK r \in Request : Step(p, r) /\ (r.phase # "idle" /\ r.op \notin CompanyKinds => r.drive \in Drives)
  <2>1. CASE Step(p, Idle)
    <3>1. Idle.phase = "idle"
      BY DEF Idle
    <3>2. QED
      BY <1>1, <2>1, <3>1
  <2>2. ASSUME NEW op \in Ops, NEW d \in Drives, Step(p, [Idle EXCEPT !.op = op, !.phase = "checked", !.drive = d])
        PROVE  \E r \in Request : Step(p, r) /\ (r.phase # "idle" /\ r.op \notin CompanyKinds => r.drive \in Drives)
    <3> DEFINE r == [Idle EXCEPT !.op = op, !.phase = "checked", !.drive = d]
    <3>1. r \in Request /\ r.drive \in Drives
      BY <1>1 DEF Request, Idle
    <3> HIDE DEF r
    <3>2. Step(p, r)
      BY <2>2 DEF r
    <3>3. QED
      BY <3>1, <3>2
  <2>3. ASSUME NEW op \in CompanyKinds, Step(p, [Idle EXCEPT !.op = op, !.phase = "checked", !.drive = NoDrive])
        PROVE  \E r \in Request : Step(p, r) /\ (r.phase # "idle" /\ r.op \notin CompanyKinds => r.drive \in Drives)
    <3> DEFINE r == [Idle EXCEPT !.op = op, !.phase = "checked", !.drive = NoDrive]
    <3>1. r \in Request /\ r.op \in CompanyKinds
      BY <1>1 DEF Request, Idle
    <3> HIDE DEF r
    <3>2. Step(p, r)
      BY <2>3 DEF r
    <3>3. QED
      BY <3>1, <3>2
  <2>4. QED
    BY <2>1, <2>2, <2>3
<1>3. QED
  BY <1>2 DEF Step, TypeOK, OfADrive

\* What a moderation selects is what its drives may be suspended from or put back to.
LEMMA SelectedTyped ==
  ASSUME TypeOK, NEW r \in Request
  PROVE  Selected(r) \in [Drives -> Suspendable \cup {"none"}]
  BY DEF Selected, TypeOK

\* No step takes a variable out of its type.
LEMMA LifecycleTyped == TypeOK /\ OfADrive /\ [Next]_vars => TypeOK' /\ OfADrive'
<1> SUFFICES ASSUME TypeOK, OfADrive, [Next]_vars PROVE TypeOK' /\ OfADrive'
  OBVIOUS
<1>1. ASSUME NEW p \in Requests, Begin(p) PROVE TypeOK' /\ OfADrive'
  <2>1. UNCHANGED <<status, from, cause, endedAs, suspended>>
    BY <1>1 DEF Begin, Submit, Cancel, Approve, Reject, SuspendDrive, LiftDrive, SuspendCompany, LiftCompany, Check
  <2>2. {"submit", "cancel", "approve", "reject", "suspendDrive", "liftDrive"} \subseteq Ops
        /\ {"suspendCompany", "liftCompany"} = CompanyKinds
    BY DEF Ops, Kinds, CompanyKinds
  <2>3. \/ \E op \in Ops, d \in Drives : Check(p, op, d)
        \/ \E op \in CompanyKinds : Check(p, op, NoDrive)
    <3>1. CASE \E d \in Drives : \/ Submit(p, d) \/ Cancel(p, d) \/ Approve(p, d) \/ Reject(p, d)
                                 \/ SuspendDrive(p, d) \/ LiftDrive(p, d)
      BY <2>2, <3>1 DEF Submit, Cancel, Approve, Reject, SuspendDrive, LiftDrive
    <3>2. CASE SuspendCompany(p) \/ LiftCompany(p)
      BY <2>2, <3>2 DEF SuspendCompany, LiftCompany
    <3>3. QED
      BY <1>1, <3>1, <3>2 DEF Begin
  <2>4. req' \in [Requests -> Request] /\ OfADrive'
    BY <2>3, StepTyped DEF Check
  <2>5. QED
    BY <2>1, <2>4 DEF TypeOK
<1>2. ASSUME NEW p \in Requests, MoveTo(p) \/ Moderate(p) \/ Abandon(p) PROVE TypeOK' /\ OfADrive'
  <2>1. req' \in [Requests -> Request] /\ OfADrive'
    BY <1>2, StepTyped DEF MoveTo, Moderate, Abandon
  <2>2. status' \in [Drives -> DriveStatus]
    BY <1>2 DEF MoveTo, Moderate, Abandon, TypeOK, DriveStatus, Statuses
  <2>3. QED
    BY <1>2, <2>1, <2>2 DEF MoveTo, Moderate, Abandon, TypeOK
<1>3. ASSUME NEW p \in Requests, FindDrives(p) PROVE TypeOK' /\ OfADrive'
  <2>1. req[p] \in Request /\ req[p].phase = "checked" /\ UNCHANGED <<status, from, cause, endedAs, suspended>>
    BY <1>3 DEF FindDrives, TypeOK
  <2>2. CASE Step(p, Idle)
    <3>1. req' \in [Requests -> Request] /\ OfADrive'
      BY <2>2, StepTyped
    <3>2. QED
      BY <2>1, <3>1 DEF TypeOK
  <2>3. CASE Step(p, [req[p] EXCEPT !.phase = "found", !.found = Selected(req[p])])
    <3> DEFINE r == [req[p] EXCEPT !.phase = "found", !.found = Selected(req[p])]
    <3>1. r \in Request /\ r.op = req[p].op /\ r.drive = req[p].drive
      BY <2>1, SelectedTyped DEF Request
    <3> HIDE DEF r
    <3>2. Step(p, r)
      BY <2>3 DEF r
    <3>3. QED
      BY <2>1, <3>1, <3>2 DEF Step, TypeOK, OfADrive
  <2>4. QED
    BY <1>3, <2>2, <2>3 DEF FindDrives
<1>4. ASSUME NEW p \in Requests, CommitModeration(p) PROVE TypeOK' /\ OfADrive'
  <2>1. req' \in [Requests -> Request] /\ OfADrive'
    BY <1>4, StepTyped DEF CommitModeration
  <2>2. \A d \in Drives : req[p].found[d] \in Suspendable \cup {"none"}
    BY DEF TypeOK, Request
  <2>3. status' \in [Drives -> DriveStatus]
    BY <1>4, <2>2 DEF CommitModeration, Unchanged, TypeOK, DriveStatus, Statuses, Suspendable
  <2>4. from' \in [Drives -> Suspendable \cup {"none"}] /\ endedAs' = endedAs
    BY <1>4, <2>2 DEF CommitModeration, TypeOK
  <2>5. cause' \in [Drives -> {"none", "DRIVE", "COMPANY"}]
    BY <1>4 DEF CommitModeration, TypeOK
  <2>6. suspended' \in BOOLEAN
    <3>1. suspended' = suspended \/ suspended' = Suspends(req[p])
      BY <1>4 DEF CommitModeration
    <3>2. Suspends(req[p]) \in BOOLEAN /\ suspended \in BOOLEAN
      BY DEF Suspends, TypeOK
    <3>3. QED
      BY <3>1, <3>2, Zenon
  <2>7. QED
    BY <2>1, <2>3, <2>4, <2>5, <2>6 DEF TypeOK
<1>5. ASSUME NEW d \in Drives, EndDrive(d) PROVE TypeOK' /\ OfADrive'
  BY <1>5 DEF EndDrive, TypeOK, OfADrive
<1>6. CASE ExpireDrives
  BY <1>6 DEF ExpireDrives, TypeOK, OfADrive, DriveStatus, Statuses
<1>7. CASE UNCHANGED vars
  BY <1>7 DEF vars, TypeOK, OfADrive
<1>8. QED
  BY <1>1, <1>2, <1>3, <1>4, <1>5, <1>6, <1>7 DEF Next

\* Every variable of the lifecycle has its type, for any drives and requests.
THEOREM LifecycleTypeCorrect == Spec => []TypeOK
<1>1. Init => TypeOK /\ OfADrive
  BY LifecycleInit DEF LifecycleInv
<1>2. QED
  BY <1>1, LifecycleTyped, PTL DEF Spec

-----------------------------------------------------------------------------
(* One moderation of the company at a time. *)

\* A step that begins or goes on leaves every other request alone.
LEMMA OneStep == TypeOK /\ OneAtATime /\ [Next]_vars => OneAtATime'
<1> SUFFICES ASSUME TypeOK, OneAtATime, [Next]_vars PROVE OneAtATime'
  OBVIOUS
<1>1. req \in [Requests -> Request] /\ Idle.op \notin CompanyKinds
  BY DEF TypeOK, Idle, CompanyKinds
<1>2. ASSUME NEW p \in Requests, NEW r, Step(p, r), r.op \in CompanyKinds => ~CompanyLocked \/ r.op = req[p].op
      PROVE  OneAtATime'
  <2>1. \A q \in Requests : req'[q] = IF q = p THEN r ELSE req[q]
    BY <1>1, <1>2 DEF Step
  <2>2. QED
    BY <1>2, <2>1 DEF OneAtATime, CompanyLocked
<1>3. ASSUME NEW p \in Requests, NEW d \in Drives, Submit(p, d) \/ Cancel(p, d) \/ Approve(p, d) \/ Reject(p, d)
             \/ SuspendDrive(p, d) \/ LiftDrive(p, d)
      PROVE  OneAtATime'
  <2>1. PICK op \in {"submit", "cancel", "approve", "reject", "suspendDrive", "liftDrive"} :
          Step(p, [Idle EXCEPT !.op = op, !.phase = "checked", !.drive = d])
    BY <1>3 DEF Submit, Cancel, Approve, Reject, SuspendDrive, LiftDrive, Check
  <2>2. [Idle EXCEPT !.op = op, !.phase = "checked", !.drive = d].op \notin CompanyKinds
    BY DEF Idle, CompanyKinds
  <2>3. QED
    BY <1>2, <2>1, <2>2
<1>4. ASSUME NEW p \in Requests, SuspendCompany(p) \/ LiftCompany(p) PROVE OneAtATime'
  BY <1>2, <1>4 DEF SuspendCompany, LiftCompany, Check
<1>5. ASSUME NEW p \in Requests, Step(p, Idle) PROVE OneAtATime'
  BY <1>1, <1>2, <1>5
<1>6. ASSUME NEW p \in Requests, FindDrives(p) PROVE OneAtATime'
  <2>1. CASE Step(p, Idle)
    BY <1>5, <2>1
  <2>2. CASE Step(p, [req[p] EXCEPT !.phase = "found", !.found = Selected(req[p])])
    <3>1. [req[p] EXCEPT !.phase = "found", !.found = Selected(req[p])].op = req[p].op
      BY <1>1 DEF Request
    <3>2. QED
      BY <1>2, <2>2, <3>1
  <2>3. QED
    BY <1>6, <2>1, <2>2 DEF FindDrives
<1>7. CASE UNCHANGED req
  BY <1>7 DEF OneAtATime
<1>8. QED
  BY <1>3, <1>4, <1>5, <1>6, <1>7 DEF Next, Begin, MoveTo, Moderate, CommitModeration, Abandon, EndDrive,
     ExpireDrives, vars

-----------------------------------------------------------------------------
(* Every suspension can be undone. *)

\* What a commit does to the drives: those still as found are suspended with
\* what they were and why, or put back; the others stay as they are.
LEMMA CommitWrites ==
  ASSUME TypeOK, NEW p \in Requests, CommitModeration(p), NEW d \in Drives
  PROVE  \/ status'[d] = status[d] /\ from'[d] = from[d] /\ cause'[d] = cause[d] /\ d \notin Unchanged(req[p])
         \/ /\ Suspends(req[p]) /\ from'[d] # "none"
            /\ cause'[d] = IF req[p].op = "suspendCompany" THEN "COMPANY" ELSE "DRIVE"
         \/ ~Suspends(req[p]) /\ status'[d] # "SUSPENDED"
<1>1. req[p].found[d] \in Suspendable \cup {"none"}
  BY DEF TypeOK, Request
<1>2. CASE d \notin Unchanged(req[p])
  BY <1>2 DEF CommitModeration, TypeOK
<1>3. CASE d \in Unchanged(req[p]) /\ Suspends(req[p])
  BY <1>3 DEF CommitModeration, Unchanged
<1>4. CASE d \in Unchanged(req[p]) /\ ~Suspends(req[p])
  <2>1. status'[d] = req[p].found[d] /\ req[p].found[d] # "none"
    BY <1>4 DEF CommitModeration, Unchanged
  <2>2. QED
    BY <1>1, <1>4, <2>1 DEF Suspendable
<1>5. QED
  BY <1>2, <1>3, <1>4

\* Outside a commit nothing is suspended, and nothing forgets why it was.
LEMMA OthersDoNotSuspend ==
  ASSUME TypeOK, [Next]_vars, ~\E p \in Requests : CommitModeration(p), NEW d \in Drives
  PROVE  /\ status'[d] = "SUSPENDED" => status[d] = "SUSPENDED"
         /\ from' = from /\ cause' = cause /\ suspended' = suspended
         /\ Ended(d) => Ended(d)'
<1>1. ASSUME NEW p \in Requests, Begin(p) PROVE UNCHANGED <<status, from, cause, endedAs, suspended>>
  BY <1>1 DEF Begin, Submit, Cancel, Approve, Reject, SuspendDrive, LiftDrive, SuspendCompany, LiftCompany, Check
<1>2. ASSUME NEW p \in Requests, MoveTo(p) \/ Moderate(p)
      PROVE  (status'[d] = "SUSPENDED" => status[d] = "SUSPENDED") /\ UNCHANGED <<from, cause, endedAs, suspended>>
  BY <1>2 DEF MoveTo, Moderate, TypeOK
<1>3. ASSUME NEW p \in Requests, FindDrives(p) \/ Abandon(p) PROVE UNCHANGED <<status, from, cause, endedAs, suspended>>
  BY <1>3 DEF FindDrives, Abandon
<1>4. ASSUME NEW e \in Drives, EndDrive(e)
      PROVE  UNCHANGED <<status, from, cause, suspended>> /\ (Ended(d) => Ended(d)')
  BY <1>4 DEF EndDrive, Ended, TypeOK
<1>5. CASE ExpireDrives
  BY <1>5 DEF ExpireDrives, Ended
<1>6. CASE UNCHANGED vars
  BY <1>6 DEF vars, Ended
<1>7. QED
  BY <1>1, <1>2, <1>3, <1>4, <1>5, <1>6 DEF Next, Ended

LEMMA RememberedStep ==
  ASSUME LifecycleInv, [Next]_vars
  PROVE  SuspensionRemembered'
<1>1. TypeOK /\ SuspensionRemembered
  BY DEF LifecycleInv, SuspensionsCanBeLifted
<1>2. ASSUME NEW p \in Requests, CommitModeration(p) PROVE SuspensionRemembered'
  BY <1>1, <1>2, CommitWrites DEF SuspensionRemembered
<1>3. CASE ~\E p \in Requests : CommitModeration(p)
  BY <1>1, <1>3, OthersDoNotSuspend DEF SuspensionRemembered
<1>4. QED
  BY <1>2, <1>3

\* A lift of the company that is under way misses no drive: what it found stays
\* all there is to lift.
LEMMA LiftFindsStep ==
  ASSUME LifecycleInv, [Next]_vars
  PROVE  LiftFindsAll'
<1>1. TypeOK /\ LiftFindsAll /\ OneAtATime /\ SuspensionRemembered
  BY DEF LifecycleInv, SuspensionsCanBeLifted
<1> SUFFICES ASSUME NEW p \in Requests, req'[p].phase = "found", req'[p].op = "liftCompany",
                    NEW d \in Drives, status'[d] = "SUSPENDED", cause'[d] = "COMPANY", ~Ended(d)'
             PROVE  req'[p].found[d] # "none"
  BY DEF LiftFindsAll
<1>2. CASE FindDrives(p)
  <2>1. req'[p] = [req[p] EXCEPT !.phase = "found", !.found = Selected(req[p])]
    BY <1>1, <1>2 DEF FindDrives, Step, Idle, TypeOK
  <2>2. req[p] \in Request
    BY <1>1 DEF TypeOK
  <2>3. req'[p].found = Selected(req[p]) /\ req[p].op = "liftCompany"
    BY <2>1, <2>2 DEF Request
  <2>4. status[d] = "SUSPENDED" /\ cause[d] = "COMPANY" /\ ~Ended(d) /\ from[d] # "none"
    BY <1>1, <1>2 DEF FindDrives, Ended, SuspensionRemembered
  <2>5. QED
    BY <2>3, <2>4 DEF Selected, Scope, Suspends, CompanyKinds
<1>3. CASE ~FindDrives(p)
  <2>1. req'[p] = req[p]
    <3>1. \A q \in Requests : \A r : Step(q, r) => req'[p] = IF p = q THEN r ELSE req[p]
      BY <1>1 DEF Step, TypeOK
    <3>2. Idle.phase = "idle" /\ \A op, x : [Idle EXCEPT !.op = op, !.phase = "checked", !.drive = x].phase = "checked"
      BY DEF Idle
    <3>3. ASSUME NEW q \in Requests, Begin(q) PROVE req'[p] = req[p]
      <4>1. PICK op, x : Step(q, [Idle EXCEPT !.op = op, !.phase = "checked", !.drive = x])
        BY <3>3 DEF Begin, Submit, Cancel, Approve, Reject, SuspendDrive, LiftDrive, SuspendCompany, LiftCompany, Check
      <4> DEFINE r == [Idle EXCEPT !.op = op, !.phase = "checked", !.drive = x]
      <4>2. Step(q, r) /\ r.phase = "checked"
        BY <3>2, <4>1
      <4> HIDE DEF r
      <4>3. QED
        BY <3>1, <4>2
    <3>4. ASSUME NEW q \in Requests, Step(q, Idle) PROVE req'[p] = req[p]
      BY <3>1, <3>2, <3>4
    <3>5. ASSUME NEW q \in Requests, FindDrives(q) PROVE req'[p] = req[p]
      BY <1>3, <3>1, <3>5 DEF FindDrives
    <3>6. QED
      BY <3>3, <3>4, <3>5 DEF Next, MoveTo, Moderate, CommitModeration, Abandon, EndDrive, ExpireDrives, vars
  <2>2. status[d] = "SUSPENDED" /\ cause[d] = "COMPANY" /\ ~Ended(d)
    <3>1. CASE ~\E q \in Requests : CommitModeration(q)
      BY <1>1, <3>1, OthersDoNotSuspend
    <3>2. ASSUME NEW q \in Requests, CommitModeration(q) PROVE status[d] = "SUSPENDED" /\ cause[d] = "COMPANY" /\ ~Ended(d)
      <4>1. req'[q] = Idle /\ endedAs' = endedAs
        BY <1>1, <3>2 DEF CommitModeration, Step, TypeOK
      <4>2. q # p /\ req[q].op # "suspendCompany"
        BY <1>1, <2>1, <4>1 DEF Idle, OneAtATime, CompanyKinds
      <4>3. QED
        BY <1>1, <3>2, <4>1, <4>2, CommitWrites DEF Ended
    <3>3. QED
      BY <3>1, <3>2
  <2>3. QED
    BY <1>1, <2>1, <2>2 DEF LiftFindsAll
<1>4. QED
  BY <1>2, <1>3

LEMMA LeftBehindStep ==
  ASSUME LifecycleInv, [Next]_vars
  PROVE  NoDriveLeftBehind'
<1>1. TypeOK /\ LiftFindsAll /\ NoDriveLeftBehind
  BY DEF LifecycleInv, SuspensionsCanBeLifted
<1> SUFFICES ASSUME NEW d \in Drives, status'[d] = "SUSPENDED", cause'[d] = "COMPANY", ~suspended'
             PROVE  Ended(d)'
  BY DEF NoDriveLeftBehind
<1>2. CASE ~\E p \in Requests : CommitModeration(p)
  BY <1>1, <1>2, OthersDoNotSuspend DEF NoDriveLeftBehind
<1>3. ASSUME NEW p \in Requests, CommitModeration(p) PROVE Ended(d)'
  <2>1. req[p].op # "suspendCompany" /\ endedAs' = endedAs /\ req[p].phase = "found"
    BY <1>3 DEF CommitModeration, Suspends, CompanyKinds
  <2>2. status[d] = "SUSPENDED" /\ cause[d] = "COMPANY" /\ d \notin Unchanged(req[p])
    BY <1>1, <1>3, <2>1, CommitWrites
  <2>3. CASE req[p].op = "liftCompany"
    <3>1. req[p].found[d] = "none"
      BY <2>2, <2>3 DEF Unchanged, Suspends
    <3>2. QED
      BY <1>1, <2>1, <2>2, <2>3, <3>1 DEF LiftFindsAll, Ended
  <2>4. CASE req[p].op # "liftCompany"
    <3>1. suspended' = suspended
      BY <1>3, <2>1, <2>4 DEF CommitModeration, CompanyKinds
    <3>2. QED
      BY <1>1, <2>1, <2>2, <3>1 DEF NoDriveLeftBehind, Ended
  <2>5. QED
    BY <2>3, <2>4
<1>4. QED
  BY <1>2, <1>3

\* Every suspension remembers what to put back and who may, and once a company is
\* lifted no drive stays suspended for its sake but those that ended meanwhile:
\* for any number of drives and of requests at once, stale writes included.
THEOREM SuspensionsLiftable == Spec => []SuspensionsCanBeLifted
<1>1. LifecycleInv /\ [Next]_vars => LifecycleInv'
  BY LifecycleTyped, OneStep, RememberedStep, LiftFindsStep, LeftBehindStep DEF LifecycleInv, SuspensionsCanBeLifted
<1>2. LifecycleInv => SuspensionsCanBeLifted
  BY DEF LifecycleInv
<1>3. QED
  BY LifecycleInit, <1>1, <1>2, PTL DEF Spec

-----------------------------------------------------------------------------
(* How the status moves, and how it moves once the drive has ended.  A drive *)
(* that was open at its end is never live or pending again, since no request *)
(* that could put it back is in flight when it ends.                         *)

EndedRight == \A d \in Drives :
    /\ status[d] = "EXPIRED" => Ended(d)
    /\ Ended(d) /\ status[d] \in {"LIVE", "EXPIRED"} => endedAs[d] = "LIVE"
    /\ Ended(d) /\ status[d] \in {"DRAFT", "PENDING"} => endedAs[d] \in {"DRAFT", "PENDING"}

CallRight(r) ==
    /\ r.phase # "idle" /\ r.op = "submit" /\ Ended(r.drive) => endedAs[r.drive] \in {"DRAFT", "PENDING"}
    /\ r.phase # "idle" /\ r.op = "approve" => ~Ended(r.drive)
    /\ r.phase = "found" /\ ~Suspends(r) =>
          \A d \in Drives : r.found[d] # "none" => d \in Scope(r) /\ ~Ended(d)

CallsRight == \A p \in Requests : CallRight(req[p])

EndedInv == TypeOK /\ OfADrive /\ EndedRight /\ CallsRight

\* What module Applications relies on, of one drive in one step.
MoveFits(d) ==
    LET move == <<Seen(status[d]), Seen(status'[d])>>
    IN  /\ move[1] = move[2] \/ move \in StatusMoves \/ move = <<"LIVE", "EXPIRED">>
        /\ Ended(d) /\ move[1] # move[2] /\ move[2] \in {"LIVE", "PENDING"} =>
              endedAs[d] \in {"DRAFT", "PENDING"} /\ move[2] = "PENDING"

\* A request that goes on as it may leaves the others as they are.
LEMMA EndedCallStep ==
  ASSUME TypeOK, CallsRight, endedAs' = endedAs, NEW p \in Requests, NEW r, Step(p, r), CallRight(r)
  PROVE  CallsRight'
<1>1. \A q \in Requests : req'[q] = IF q = p THEN r ELSE req[q]
  BY DEF TypeOK, Step
<1>2. \A q \in Requests : CallRight(req'[q])
  BY <1>1 DEF CallsRight
<1>3. QED
  BY <1>2 DEF CallsRight, CallRight, Ended, Suspends, Scope

\* An idle request promises nothing.
LEMMA IdleRight == CallRight(Idle)
  BY DEF CallRight, Idle

\* A request begins on a drive that is as it checked.
LEMMA BeginRight ==
  ASSUME EndedInv, NEW p \in Requests, Begin(p)
  PROVE  UNCHANGED <<status, endedAs>> /\ CallsRight'
<1>1. UNCHANGED <<status, endedAs>>
  BY DEF Begin, Submit, Cancel, Approve, Reject, SuspendDrive, LiftDrive, SuspendCompany, LiftCompany, Check
<1>2. \E op \in Ops, d \in Drives \cup {NoDrive} :
        /\ Check(p, op, d)
        /\ op = "submit" => d \in Drives /\ status[d] = "DRAFT"
        /\ op = "approve" => ~Ended(d)
  <2>1. {"submit", "cancel", "approve", "reject", "suspendDrive", "liftDrive", "suspendCompany", "liftCompany"}
            \subseteq Ops
    BY DEF Ops, Kinds, CompanyKinds
  <2>2. CASE \E d \in Drives : Submit(p, d)
    BY <2>1, <2>2 DEF Submit
  <2>3. CASE \E d \in Drives : Approve(p, d)
    BY <2>1, <2>3 DEF Approve
  <2>4. CASE \E d \in Drives : Cancel(p, d) \/ Reject(p, d) \/ SuspendDrive(p, d) \/ LiftDrive(p, d)
    BY <2>1, <2>4 DEF Cancel, Reject, SuspendDrive, LiftDrive
  <2>5. CASE SuspendCompany(p) \/ LiftCompany(p)
    BY <2>1, <2>5 DEF SuspendCompany, LiftCompany
  <2>6. QED
    BY <2>2, <2>3, <2>4, <2>5 DEF Begin
<1>3. PICK op \in Ops, d \in Drives \cup {NoDrive} :
        /\ Check(p, op, d)
        /\ op = "submit" => d \in Drives /\ status[d] = "DRAFT"
        /\ op = "approve" => ~Ended(d)
  BY <1>2
<1> DEFINE r == [Idle EXCEPT !.op = op, !.phase = "checked", !.drive = d]
<1>4. r.op = op /\ r.phase = "checked" /\ r.drive = d
  BY DEF Idle
<1>5. Step(p, r)
  BY <1>3 DEF Check
<1> HIDE DEF r
<1>6. CallRight(r)
  BY <1>3, <1>4 DEF CallRight, EndedInv, EndedRight
<1>7. CallsRight'
  BY <1>1, <1>5, <1>6, EndedCallStep DEF EndedInv
<1>8. QED
  BY <1>1, <1>7

\* A lift finds only drives that have not ended.
LEMMA FindRight ==
  ASSUME EndedInv, NEW p \in Requests, FindDrives(p)
  PROVE  UNCHANGED <<status, endedAs>> /\ CallsRight'
<1>1. UNCHANGED <<status, endedAs>> /\ req[p] \in Request /\ req[p].op \in Kinds
  BY DEF FindDrives, EndedInv, TypeOK
<1>2. CASE Step(p, Idle)
  BY <1>1, <1>2, IdleRight, EndedCallStep DEF EndedInv
<1>3. CASE Step(p, [req[p] EXCEPT !.phase = "found", !.found = Selected(req[p])])
  <2> DEFINE r == [req[p] EXCEPT !.phase = "found", !.found = Selected(req[p])]
  <2>1. r.op = req[p].op /\ r.drive = req[p].drive /\ r.phase = "found" /\ r.found = Selected(req[p])
    BY <1>1 DEF Request
  <2>2. Step(p, r)
    BY <1>3
  <2> HIDE DEF r
  <2>3. Suspends(r) <=> Suspends(req[p])
    BY <2>1 DEF Suspends
  <2>4. Scope(r) = Scope(req[p])
    BY <2>1 DEF Scope
  <2>5. \A d \in Drives : Selected(req[p])[d] # "none" /\ ~Suspends(req[p]) => d \in Scope(req[p]) /\ ~Ended(d)
    BY DEF Selected
  <2>6. r.op \notin {"submit", "approve"}
    BY <1>1, <2>1 DEF Kinds, CompanyKinds
  <2>7. CallRight(r)
    BY <2>1, <2>3, <2>4, <2>5, <2>6 DEF CallRight
  <2>8. QED
    BY <1>1, <2>2, <2>7, EndedCallStep DEF EndedInv
<1>4. QED
  BY <1>1, <1>2, <1>3 DEF FindDrives

\* A step that ends a request: what it does to a drive's status is one of the
\* moves, and what is known of the drives that have ended stays true.
LEMMA WriteFits ==
  ASSUME EndedInv, NEW p \in Requests, MoveTo(p) \/ Moderate(p) \/ CommitModeration(p), NEW d \in Drives
  PROVE  /\ MoveFits(d)
         /\ status'[d] = "EXPIRED" => Ended(d)
         /\ Ended(d) /\ status'[d] \in {"LIVE", "EXPIRED"} => endedAs[d] = "LIVE"
         /\ Ended(d) /\ status'[d] \in {"DRAFT", "PENDING"} => endedAs[d] \in {"DRAFT", "PENDING"}
<1>1. status[d] \in {"LIVE", "PENDING", "SUSPENDED", "CANCELLED", "EXPIRED", "DRAFT"}
      /\ status \in [Drives -> DriveStatus] /\ req[p] \in Request
  BY DEF EndedInv, TypeOK, DriveStatus, Statuses
<1>2. /\ status[d] = "EXPIRED" => Ended(d)
      /\ Ended(d) /\ status[d] \in {"LIVE", "EXPIRED"} => endedAs[d] = "LIVE"
      /\ Ended(d) /\ status[d] \in {"DRAFT", "PENDING"} => endedAs[d] \in {"DRAFT", "PENDING"}
  BY DEF EndedInv, EndedRight
<1>3. CallRight(req[p])
  BY DEF EndedInv, CallsRight
<1>4. CASE status'[d] = status[d]
  BY <1>2, <1>4 DEF MoveFits
<1>5. CASE MoveTo(p) /\ status'[d] # status[d]
  <2>1. req[p].phase = "checked" /\ req[p].drive = d
        /\ \/ req[p].op = "submit" /\ status'[d] = "PENDING"
           \/ req[p].op = "cancel" /\ status'[d] = "CANCELLED"
    BY <1>1, <1>5 DEF MoveTo
  <2>2. req[p].op = "submit" /\ Ended(d) => endedAs[d] \in {"DRAFT", "PENDING"}
    BY <1>3, <2>1 DEF CallRight
  <2>3. QED
    BY <1>1, <1>2, <2>1, <2>2 DEF MoveFits, Seen, StatusMoves
<1>6. CASE Moderate(p) /\ status'[d] # status[d]
  <2>1. req[p].phase = "checked" /\ req[p].drive = d /\ status[d] = "PENDING"
        /\ \/ req[p].op = "approve" /\ status'[d] = "LIVE"
           \/ req[p].op = "reject" /\ status'[d] = "DRAFT"
    BY <1>1, <1>6 DEF Moderate
  <2>2. req[p].op = "approve" => ~Ended(d)
    BY <1>3, <2>1 DEF CallRight
  <2>3. QED
    BY <1>2, <2>1, <2>2 DEF MoveFits, Seen, StatusMoves
<1>7. CASE CommitModeration(p) /\ status'[d] # status[d]
  <2>1. req[p].phase = "found" /\ req[p].found[d] \in Suspendable \cup {"none"}
    BY <1>1, <1>7 DEF CommitModeration, Request
  <2>2. req[p].found[d] # "none"
        /\ \/ Suspends(req[p]) /\ status[d] = req[p].found[d] /\ status'[d] = "SUSPENDED"
           \/ ~Suspends(req[p]) /\ status[d] = "SUSPENDED" /\ status'[d] = req[p].found[d]
    BY <1>7 DEF CommitModeration, Unchanged
  <2>3. ~Suspends(req[p]) => ~Ended(d)
    BY <1>3, <2>1, <2>2 DEF CallRight
  <2>4. QED
    BY <1>2, <2>1, <2>2, <2>3 DEF MoveFits, Seen, StatusMoves, Suspendable
<1>8. QED
  BY <1>4, <1>5, <1>6, <1>7

\* Every step, on every drive.
LEMMA EndedStep ==
  ASSUME EndedInv, [Next]_vars
  PROVE  (\A d \in Drives : MoveFits(d)) /\ EndedRight' /\ CallsRight'
<1>1. ASSUME UNCHANGED status PROVE \A d \in Drives : MoveFits(d)
  BY <1>1 DEF MoveFits
<1>2. ASSUME UNCHANGED <<status, endedAs>> PROVE (\A d \in Drives : MoveFits(d)) /\ EndedRight'
  BY <1>1, <1>2 DEF EndedInv, EndedRight, Ended
<1>3. CASE UNCHANGED vars
  BY <1>2, <1>3 DEF vars, EndedInv, CallsRight, CallRight, Ended, Suspends, Scope
<1>4. ASSUME NEW p \in Requests, Begin(p) \/ FindDrives(p)
      PROVE  (\A d \in Drives : MoveFits(d)) /\ EndedRight' /\ CallsRight'
  BY <1>2, <1>4, BeginRight, FindRight
<1>5. ASSUME NEW p \in Requests, MoveTo(p) \/ Moderate(p) \/ CommitModeration(p)
      PROVE  (\A d \in Drives : MoveFits(d)) /\ EndedRight' /\ CallsRight'
  <2>1. endedAs' = endedAs /\ Step(p, Idle)
    BY <1>5 DEF MoveTo, Moderate, CommitModeration
  <2>2. CallsRight'
    BY <2>1, IdleRight, EndedCallStep DEF EndedInv
  <2>3. EndedRight'
    BY <1>5, <2>1, WriteFits DEF EndedRight, Ended
  <2>4. QED
    BY <1>5, <2>2, <2>3, WriteFits
<1>6. ASSUME NEW p \in Requests, Abandon(p)
      PROVE  (\A d \in Drives : MoveFits(d)) /\ EndedRight' /\ CallsRight'
  BY <1>2, <1>6, IdleRight, EndedCallStep DEF Abandon, EndedInv
<1>7. ASSUME NEW e \in Drives, EndDrive(e)
      PROVE  (\A d \in Drives : MoveFits(d)) /\ EndedRight' /\ CallsRight'
  <2>1. UNCHANGED <<status, req>> /\ ~Ended(e) /\ ~InFlight(e)
    BY <1>7 DEF EndDrive
  <2>2. \A d \in Drives : endedAs'[d] = IF d = e THEN status[e] ELSE endedAs[d]
    BY <1>7 DEF EndDrive, EndedInv, TypeOK
  <2>3. status[e] # "EXPIRED" /\ status[e] # "none"
    BY <2>1 DEF EndedInv, EndedRight, TypeOK, DriveStatus, Statuses
  <2>4. EndedRight'
    BY <2>1, <2>2, <2>3 DEF EndedInv, EndedRight, Ended
  <2>5. ASSUME NEW p \in Requests PROVE CallRight(req[p])'
    <3>1. CallRight(req[p]) /\ req'[p] = req[p]
      BY <2>1 DEF EndedInv, CallsRight
    <3>2. req[p].phase # "idle" => e \notin Scope(req[p])
      BY <2>1 DEF InFlight
    <3>3. req[p].phase # "idle" /\ req[p].op \in {"submit", "approve"} => req[p].drive # e /\ req[p].drive \in Drives
      BY <3>2 DEF Scope, CompanyKinds, EndedInv, OfADrive
    <3>4. req[p].phase # "idle" /\ req[p].op = "submit" /\ Ended(req[p].drive)' =>
              endedAs'[req[p].drive] \in {"DRAFT", "PENDING"}
      BY <2>2, <3>1, <3>3 DEF CallRight, Ended
    <3>5. req[p].phase # "idle" /\ req[p].op = "approve" => ~(endedAs'[req[p].drive] # "none")
      BY <2>2, <3>1, <3>3 DEF CallRight, Ended
    <3>6. req[p].phase = "found" /\ ~Suspends(req[p]) =>
              \A d \in Drives : req[p].found[d] # "none" => d \in Scope(req[p]) /\ endedAs'[d] = "none"
      BY <2>2, <3>1, <3>2 DEF CallRight, Ended
    <3>7. QED
      BY <3>1, <3>4, <3>5, <3>6 DEF CallRight, Ended, Suspends, Scope
  <2>6. QED
    BY <1>1, <2>1, <2>4, <2>5 DEF CallsRight
<1>8. CASE ExpireDrives
  <2>1. endedAs' = endedAs /\ req' = req
        /\ \A d \in Drives : status'[d] = IF status[d] = "LIVE" /\ Ended(d) THEN "EXPIRED" ELSE status[d]
    BY <1>8 DEF ExpireDrives
  <2>2. \A d \in Drives : MoveFits(d)
    BY <2>1 DEF MoveFits, Seen
  <2>3. EndedRight'
    BY <2>1 DEF EndedInv, EndedRight, Ended
  <2>4. CallsRight'
    BY <2>1 DEF EndedInv, CallsRight, CallRight, Ended, Suspends, Scope
  <2>5. QED
    BY <2>2, <2>3, <2>4
<1>9. QED
  BY <1>3, <1>4, <1>5, <1>6, <1>7, <1>8 DEF Next

\* No drive has ended.
LEMMA InitEnded == Init => EndedInv
<1> SUFFICES ASSUME Init PROVE EndedInv
  OBVIOUS
<1>1. TypeOK /\ OfADrive
  BY LifecycleInit DEF LifecycleInv
<1>2. EndedRight
  BY DEF Init, EndedRight, Ended
<1>3. CallsRight
  BY IdleRight DEF Init, CallsRight
<1>4. QED
  BY <1>1, <1>2, <1>3 DEF EndedInv

\* A drive's status moves only as module Applications lets it, and one that was
\* open or expired when it ended is neither live nor pending again (submit,
\* cancel, moderate, apply, expireDrives).
THEOREM DrivesMoveAsAssumed == Spec => MovesAsApplicationsAssume
<1> DEFINE Fits == \A d \in Drives :
        LET move == <<Seen(status[d]), Seen(status'[d])>>
        IN  /\ move[1] = move[2] \/ move \in StatusMoves \/ move = <<"LIVE", "EXPIRED">>
            /\ Ended(d) /\ move[1] # move[2] /\ move[2] \in {"LIVE", "PENDING"} =>
                  endedAs[d] \in {"DRAFT", "PENDING"} /\ move[2] = "PENDING"
<1>1. EndedInv /\ [Next]_vars => EndedInv'
  BY LifecycleTyped, EndedStep DEF EndedInv
<1>2. EndedInv /\ [Next]_vars => [Fits]_vars
  BY EndedStep DEF MoveFits
<1>3. QED
  BY <1>1, <1>2, InitEnded, PTL DEF Spec, MovesAsApplicationsAssume

HIDE NoDriveAssumption

-----------------------------------------------------------------------------
(***************************************************************************)
(* For any company, any number of people, drives and requests: it keeps an *)
(* owner, whoever joined gave up the seats they could be told about, and a *)
(* drive still to run has someone who runs drives behind it.               *)
(*                                                                         *)
(* What makes these inductive is what a request in flight still promises:  *)
(* an owner it looked up runs drives until the membership changes under    *)
(* it, and whoever accepts holds no seat but one booked since.             *)
(***************************************************************************)

USE PeopleAssumption

\* What a request is about depends on what it asks for.
AskedOf ==
    \A r \in PeopleRequests :
        /\ asked[r].op \in {"invite", "revoke", "changeRole", "remove"} => asked[r].on \in Persons
        /\ asked[r].op \in {"create", "reassign"} => asked[r].on \in CompanyDrives
        /\ asked[r].op # "none" => asked[r].by \in Persons
        /\ asked[r].op = "reassign" => asked[r].to \in Persons

TypeInv == PeopleTypeOK /\ AskedOf

\* Who gets a drive still runs drives unless the membership changed since, and
\* who accepts holds no seat they did not book since.
PromisesHold ==
    \A r \in PeopleRequests :
        /\ asked[r].op = "create" /\ ~asked[r].stale => role[asked[r].by] \in RunsDrives
        /\ asked[r].op = "reassign" /\ ~asked[r].stale => role[asked[r].to] \in RunsDrives
        /\ asked[r].op = "accept" /\ asked[r].by \in seated => asked[r].by \in bookedLate

\* Every drive that was created has somebody's name on it.
DrivesHaveOwners == \A d \in CompanyDrives : driveState[d] # "none" => driveOwner[d] \in Persons

PeopleInv == TypeInv /\ DrivesHaveOwners /\ PromisesHold /\ NothingLeftBehind

-----------------------------------------------------------------------------
(* Types. *)

LEMMA TypedInit == PeopleInit => TypeInv
  BY DEF PeopleInit, TypeInv, PeopleTypeOK, AskedOf, CompanyRoles, NoInvitation, Invitation,
         NothingAsked, Asked, PeopleOps

\* Looking things up writes nothing but the request.
LEMMA AskTyped ==
  ASSUME TypeInv, NEW r \in PeopleRequests,
         NEW op \in PeopleOps, NEW by \in Persons, NEW on \in Persons \cup CompanyDrives,
         NEW x \in CompanyRoles, NEW to \in Persons \cup {NoOne}, Ask(r, AskFor(op, by, on, x, to)),
         op \in {"invite", "revoke", "changeRole", "remove"} => on \in Persons,
         op \in {"create", "reassign"} => on \in CompanyDrives,
         op = "reassign" => to \in Persons,
         UNCHANGED <<role, invited, seated, ownerVars, bookedLate>>
  PROVE  TypeInv'
<1>1. AskFor(op, by, on, x, to) \in Asked
  BY DEF AskFor, Asked
<1>2. PeopleTypeOK'
  BY <1>1 DEF TypeInv, PeopleTypeOK, Ask, ownerVars
<1>3. ASSUME NEW q \in PeopleRequests
      PROVE  asked'[q] = IF q = r THEN AskFor(op, by, on, x, to) ELSE asked[q]
  BY DEF TypeInv, PeopleTypeOK, Ask
<1>4. AskedOf'
  BY <1>3 DEF TypeInv, AskedOf, AskFor
<1>5. QED
  BY <1>2, <1>4 DEF TypeInv

\* A request that ends leaves the others what they were about.
LEMMA DoneTyped ==
  ASSUME TypeInv, NEW r \in PeopleRequests, Done(r) \/ DoneChanging(r)
  PROVE  asked' \in [PeopleRequests -> Asked] /\ AskedOf'
<1>1. NothingAsked \in Asked
  BY DEF NothingAsked, Asked, PeopleOps, CompanyRoles
<1>2. asked \in [PeopleRequests -> Asked] /\ AskedOf
  BY DEF TypeInv, PeopleTypeOK
<1>3. CASE Done(r)
  BY <1>1, <1>2, <1>3 DEF Done, AskedOf, NothingAsked
<1>4. CASE DoneChanging(r)
  <2>1. ASSUME NEW q \in PeopleRequests
        PROVE  /\ asked'[q] \in Asked
               /\ asked'[q] = NothingAsked
                    \/ /\ asked'[q].op = asked[q].op /\ asked'[q].on = asked[q].on
                       /\ asked'[q].by = asked[q].by /\ asked'[q].to = asked[q].to
    BY <1>1, <1>2, <1>4 DEF DoneChanging, Asked
  <2>2. asked' \in [PeopleRequests -> Asked]
    BY <2>1, <1>4 DEF DoneChanging
  <2>3. QED
    BY <2>1, <2>2, <1>2 DEF AskedOf, NothingAsked
<1>5. QED
  BY <1>3, <1>4

LEMMA HandOverTyped ==
  ASSUME TypeInv, NEW a \in Asked, a.on \in Persons, a.by \in Persons, HandOver(a)
  PROVE  /\ driveOwner' \in [CompanyDrives -> Persons \cup {NoOne}] /\ driveState' = driveState
         /\ overtaken' \subseteq CompanyDrives /\ lifted' \subseteq CompanyDrives
<1>1. Successors(a) \subseteq Persons
  BY DEF Successors, Eligible
<1>2. QED
  BY <1>1 DEF HandOver, ownerVars, TypeInv, PeopleTypeOK

\* No step takes a variable out of its type.
LEMMA TypedStep == TypeInv /\ [PeopleNext]_peopleVars => TypeInv'
<1> SUFFICES ASSUME TypeInv, [PeopleNext]_peopleVars PROVE TypeInv'
  OBVIOUS
<1> USE DEF TypeInv, PeopleTypeOK
<1>1. ASSUME NEW r \in PeopleRequests, BeginStaff(r) PROVE TypeInv'
  <2>1. PICK u \in Persons, t \in Persons, x \in CompanyRoles, s \in Persons \cup {NoOne} :
           \/ Ask(r, AskFor("invite", u, t, x, NoOne))
           \/ Ask(r, AskFor("revoke", u, t, "VIEWER", NoOne))
           \/ Ask(r, AskFor("changeRole", u, t, x, s))
           \/ Ask(r, AskFor("remove", u, t, "VIEWER", s))
    BY <1>1 DEF BeginStaff
  <2>2. "VIEWER" \in CompanyRoles /\ {"invite", "revoke", "changeRole", "remove"} \subseteq PeopleOps
    BY DEF CompanyRoles, PeopleOps
  <2>3. UNCHANGED <<role, invited, seated, ownerVars, bookedLate>>
    BY <1>1 DEF BeginStaff
  <2>4. CASE Ask(r, AskFor("invite", u, t, x, NoOne))
    BY <2>2, <2>3, <2>4, AskTyped
  <2>5. CASE Ask(r, AskFor("revoke", u, t, "VIEWER", NoOne))
    BY <2>2, <2>3, <2>5, AskTyped
  <2>6. CASE Ask(r, AskFor("changeRole", u, t, x, s))
    BY <2>2, <2>3, <2>6, AskTyped
  <2>7. CASE Ask(r, AskFor("remove", u, t, "VIEWER", s))
    BY <2>2, <2>3, <2>7, AskTyped
  <2>8. QED
    BY <2>1, <2>4, <2>5, <2>6, <2>7
<1>2. ASSUME NEW r \in PeopleRequests, BeginDrive(r) PROVE TypeInv'
  <2>1. PICK u \in Persons, d \in CompanyDrives, s \in Persons :
           Ask(r, AskFor("create", u, d, "VIEWER", NoOne)) \/ Ask(r, AskFor("reassign", u, d, "VIEWER", s))
    BY <1>2 DEF BeginDrive
  <2>2. "VIEWER" \in CompanyRoles /\ {"create", "reassign"} \subseteq PeopleOps
    BY DEF CompanyRoles, PeopleOps
  <2>3. UNCHANGED <<role, invited, seated, ownerVars, bookedLate>>
    BY <1>2 DEF BeginDrive
  <2>4. CASE Ask(r, AskFor("create", u, d, "VIEWER", NoOne))
    BY <2>2, <2>3, <2>4, AskTyped
  <2>5. CASE Ask(r, AskFor("reassign", u, d, "VIEWER", s))
    BY <2>2, <2>3, <2>5, AskTyped
  <2>6. QED
    BY <2>1, <2>4, <2>5
<1>3. ASSUME NEW r \in PeopleRequests, BeginAccept(r) PROVE TypeInv'
  <2>1. PICK u \in Persons : Ask(r, AskFor("accept", u, u, "VIEWER", NoOne))
    BY <1>3 DEF BeginAccept
  <2>2. "VIEWER" \in CompanyRoles /\ "accept" \in PeopleOps
    BY DEF CompanyRoles, PeopleOps
  <2>3. UNCHANGED <<role, invited, seated, ownerVars, bookedLate>>
    BY <1>3 DEF BeginAccept
  <2>4. QED
    BY <2>1, <2>2, <2>3, AskTyped
<1>4. ASSUME NEW r \in PeopleRequests, Invite(r) \/ Revoke(r) PROVE TypeInv'
  <2>1. asked[r] \in Asked /\ asked[r].on \in Persons
    BY <1>4 DEF AskedOf, Invite, Revoke
  <2>2. invited' \in [Persons -> Invitation]
    BY <1>4, <2>1 DEF Invite, Revoke, Invitation, Asked, NoInvitation, CompanyRoles
  <2>3. QED
    BY <1>4, <2>2, DoneTyped DEF Invite, Revoke, ownerVars
<1>5. ASSUME NEW r \in PeopleRequests, ChangeRole(r) PROVE TypeInv'
  <2>1. asked[r] \in Asked /\ asked[r].on \in Persons /\ asked[r].by \in Persons /\ asked[r].role \in CompanyRoles
    BY <1>5 DEF AskedOf, ChangeRole, Asked
  <2>2. role' \in [Persons -> CompanyRoles \cup {"none"}]
    BY <1>5, <2>1 DEF ChangeRole
  <2>3. UNCHANGED ownerVars \/ HandOver(asked[r])
    BY <1>5 DEF ChangeRole
  <2>4. QED
    BY <1>5, <2>1, <2>2, <2>3, HandOverTyped, DoneTyped DEF ChangeRole, ownerVars
<1>6. ASSUME NEW r \in PeopleRequests, Remove(r) PROVE TypeInv'
  <2>1. asked[r] \in Asked /\ asked[r].on \in Persons /\ asked[r].by \in Persons
    BY <1>6 DEF AskedOf, Remove
  <2>2. role' \in [Persons -> CompanyRoles \cup {"none"}]
    BY <1>6, <2>1 DEF Remove
  <2>3. invited' \in [Persons -> Invitation]
    BY <1>6 DEF Remove, Invitation, NoInvitation, CompanyRoles
  <2>4. QED
    BY <1>6, <2>1, <2>2, <2>3, HandOverTyped, DoneTyped DEF Remove
<1>7. ASSUME NEW r \in PeopleRequests, GiveDrive(r) PROVE TypeInv'
  <2>1. /\ asked[r] \in Asked /\ asked[r].on \in CompanyDrives /\ asked[r].by \in Persons
        /\ asked[r].to \in Persons \cup {NoOne}
    BY <1>7 DEF AskedOf, GiveDrive, Asked
  <2>2. QED
    BY <1>7, <2>1, DoneTyped DEF GiveDrive
<1>8. ASSUME NEW r \in PeopleRequests, Accept(r) PROVE TypeInv'
  <2>1. asked[r].by \in Persons /\ invited[asked[r].by].role \in CompanyRoles
    BY <1>8 DEF AskedOf, Accept, Invitation
  <2>2. NoInvitation \in Invitation
    BY DEF NoInvitation, Invitation, CompanyRoles
  <2>3. QED
    BY <1>8, <2>1, <2>2, DoneTyped DEF Accept, ownerVars
<1>9. ASSUME NEW r \in PeopleRequests, Refuse(r) PROVE TypeInv'
  BY <1>9, DoneTyped DEF Refuse, ownerVars
<1>10. ASSUME NEW u \in Persons, InvitationExpires(u) PROVE TypeInv'
  <2>1. [invited[u] EXCEPT !.state = "expired"] \in Invitation
    BY DEF Invitation
  <2>2. invited' \in [Persons -> Invitation]
    BY <1>10, <2>1 DEF InvitationExpires
  <2>3. QED
    BY <1>10, <2>2 DEF InvitationExpires, ownerVars, AskedOf
<1>11. ASSUME NEW u \in Persons, TakeSeatAsCandidate(u) \/ GiveUpSeat(u) PROVE TypeInv'
  BY <1>11 DEF TakeSeatAsCandidate, GiveUpSeat, ownerVars, AskedOf
<1>12. ASSUME NEW d \in CompanyDrives, DriveMoves(d) PROVE TypeInv'
  BY <1>12 DEF DriveMoves, AskedOf
<1>13. CASE UNCHANGED peopleVars
  BY <1>13 DEF peopleVars, ownerVars, AskedOf
<1>14. QED
  BY <1>1, <1>2, <1>3, <1>4, <1>5, <1>6, <1>7, <1>8, <1>9, <1>10, <1>11, <1>12, <1>13 DEF PeopleNext

\* Every variable of the company's people has its type, however many people,
\* drives and requests there are.
THEOREM PeopleTypeCorrect == PeopleSpec => []PeopleTypeOK
<1>1. TypeInv => PeopleTypeOK
  BY DEF TypeInv
<1>2. QED
  BY TypedInit, TypedStep, <1>1, PTL DEF PeopleSpec

-----------------------------------------------------------------------------
(* An owner always remains. *)

\* Whoever leaves or is demoted was not the only owner, and whoever joins was
\* nobody before.
LEMMA OwnerStep == TypeInv /\ CompanyKeepsAnOwner /\ [PeopleNext]_peopleVars => CompanyKeepsAnOwner'
<1> SUFFICES ASSUME TypeInv, CompanyKeepsAnOwner, [PeopleNext]_peopleVars PROVE CompanyKeepsAnOwner'
  OBVIOUS
<1>1. role \in [Persons -> CompanyRoles \cup {"none"}]
  BY DEF TypeInv, PeopleTypeOK
<1>2. PICK o \in Persons : role[o] = "OWNER"
  BY DEF CompanyKeepsAnOwner
<1>3. ASSUME NEW r \in PeopleRequests, ChangeRole(r) \/ Remove(r) PROVE CompanyKeepsAnOwner'
  <2>1. /\ \A u \in Persons : u # asked[r].on => role'[u] = role[u]
        /\ role[asked[r].on] = "OWNER" => AnotherOwner(asked[r].on, asked[r].by)
    BY <1>1, <1>3 DEF ChangeRole, Remove
  <2>2. PICK u \in Persons : role[u] = "OWNER" /\ u # asked[r].on
    BY <1>2, <2>1 DEF AnotherOwner
  <2>3. QED
    BY <2>1, <2>2 DEF CompanyKeepsAnOwner
<1>4. ASSUME NEW r \in PeopleRequests, Accept(r) PROVE CompanyKeepsAnOwner'
  <2>1. o # asked[r].by
    BY <1>2, <1>4 DEF Accept
  <2>2. role'[o] = role[o]
    BY <1>1, <1>4, <2>1 DEF Accept
  <2>3. QED
    BY <1>2, <2>2 DEF CompanyKeepsAnOwner
<1>5. CASE UNCHANGED role
  BY <1>5, <1>2 DEF CompanyKeepsAnOwner
<1>6. QED
  BY <1>3, <1>4, <1>5 DEF PeopleNext, peopleVars, BeginStaff, BeginDrive, BeginAccept, Invite, Revoke,
     GiveDrive, Refuse, InvitationExpires, TakeSeatAsCandidate, GiveUpSeat, DriveMoves

\* However leaving, removing and demoting overlap, the company keeps an owner.
THEOREM OwnerRemains == PeopleSpec => []CompanyKeepsAnOwner
<1>1. PeopleInit => CompanyKeepsAnOwner
  BY DEF PeopleInit, CompanyKeepsAnOwner
<1>2. QED
  BY TypedInit, TypedStep, OwnerStep, <1>1, PTL DEF PeopleSpec

-----------------------------------------------------------------------------
(* What a request in flight still promises. *)

\* Of the requests in flight, a step leaves every other as it is, or marks it
\* overtaken: whoever is in one stays in it.
LEMMA OthersAsTheyWere ==
  ASSUME TypeInv, NEW r \in PeopleRequests, Done(r) \/ DoneChanging(r), NEW q \in PeopleRequests
  PROVE  \/ asked'[q].op = "none"
         \/ /\ asked'[q].op = asked[q].op /\ asked'[q].by = asked[q].by /\ asked'[q].to = asked[q].to
            /\ asked'[q].on = asked[q].on
            /\ DoneChanging(r) => asked'[q].stale
            /\ ~asked'[q].stale => ~asked[q].stale
<1>1. asked \in [PeopleRequests -> Asked]
  BY DEF TypeInv, PeopleTypeOK
<1>2. asked[q] \in Asked
  BY <1>1
<1>3. CASE DoneChanging(r)
  BY <1>2, <1>3 DEF DoneChanging, NothingAsked, Asked
<1>4. CASE Done(r) /\ ~DoneChanging(r)
  BY <1>1, <1>4 DEF Done, NothingAsked
<1>5. QED
  BY <1>3, <1>4

\* A request that only looked things up makes promises that hold.
LEMMA AskPromises ==
  ASSUME TypeInv, PromisesHold, NEW r \in PeopleRequests,
         NEW op \in PeopleOps, NEW by, NEW on, NEW x, NEW to, Ask(r, AskFor(op, by, on, x, to)),
         op = "create" => role[by] \in RunsDrives,
         op = "reassign" => role[to] \in RunsDrives,
         op = "accept" => by \notin seated,
         UNCHANGED <<role, seated, bookedLate>>
  PROVE  PromisesHold'
<1>1. ASSUME NEW q \in PeopleRequests
      PROVE  asked'[q] = IF q = r THEN AskFor(op, by, on, x, to) ELSE asked[q]
  BY DEF TypeInv, PeopleTypeOK, Ask
<1>2. QED
  BY <1>1 DEF PromisesHold, AskFor

\* What requests in flight promise survives every step: whoever changes the
\* membership marks them overtaken, and a seat taken meanwhile is a late one.
LEMMA PromisesStep == TypeInv /\ PromisesHold /\ [PeopleNext]_peopleVars => PromisesHold'
<1> SUFFICES ASSUME TypeInv, PromisesHold, [PeopleNext]_peopleVars PROVE PromisesHold'
  OBVIOUS
<1>1. ASSUME NEW r \in PeopleRequests, BeginStaff(r) PROVE PromisesHold'
  <2>1. PICK u \in Persons, t \in Persons, x \in CompanyRoles, s \in Persons \cup {NoOne} :
           \/ Ask(r, AskFor("invite", u, t, x, NoOne))
           \/ Ask(r, AskFor("revoke", u, t, "VIEWER", NoOne))
           \/ Ask(r, AskFor("changeRole", u, t, x, s))
           \/ Ask(r, AskFor("remove", u, t, "VIEWER", s))
    BY <1>1 DEF BeginStaff
  <2>2. {"invite", "revoke", "changeRole", "remove"} \subseteq PeopleOps
    BY DEF PeopleOps
  <2>3. UNCHANGED <<role, seated, bookedLate>>
    BY <1>1 DEF BeginStaff
  <2>4. CASE Ask(r, AskFor("invite", u, t, x, NoOne))
    BY <2>2, <2>3, <2>4, AskPromises
  <2>5. CASE Ask(r, AskFor("revoke", u, t, "VIEWER", NoOne))
    BY <2>2, <2>3, <2>5, AskPromises
  <2>6. CASE Ask(r, AskFor("changeRole", u, t, x, s))
    BY <2>2, <2>3, <2>6, AskPromises
  <2>7. CASE Ask(r, AskFor("remove", u, t, "VIEWER", s))
    BY <2>2, <2>3, <2>7, AskPromises
  <2>8. QED
    BY <2>1, <2>4, <2>5, <2>6, <2>7
<1>2. ASSUME NEW r \in PeopleRequests, BeginDrive(r) PROVE PromisesHold'
  <2>1. PICK u \in Persons, d \in CompanyDrives, s \in Persons :
           \/ role[u] \in RunsDrives /\ Ask(r, AskFor("create", u, d, "VIEWER", NoOne))
           \/ role[s] \in RunsDrives /\ Ask(r, AskFor("reassign", u, d, "VIEWER", s))
    BY <1>2 DEF BeginDrive, CompanyCan
  <2>2. {"create", "reassign"} \subseteq PeopleOps
    BY DEF PeopleOps
  <2>3. UNCHANGED <<role, seated, bookedLate>>
    BY <1>2 DEF BeginDrive
  <2>4. CASE role[u] \in RunsDrives /\ Ask(r, AskFor("create", u, d, "VIEWER", NoOne))
    BY <2>2, <2>3, <2>4, AskPromises
  <2>5. CASE role[s] \in RunsDrives /\ Ask(r, AskFor("reassign", u, d, "VIEWER", s))
    BY <2>2, <2>3, <2>5, AskPromises
  <2>6. QED
    BY <2>1, <2>4, <2>5
<1>3. ASSUME NEW r \in PeopleRequests, BeginAccept(r) PROVE PromisesHold'
  <2>1. PICK u \in Persons : u \notin seated /\ Ask(r, AskFor("accept", u, u, "VIEWER", NoOne))
    BY <1>3 DEF BeginAccept, MayJoin
  <2>2. "accept" \in PeopleOps
    BY DEF PeopleOps
  <2>3. UNCHANGED <<role, seated, bookedLate>>
    BY <1>3 DEF BeginAccept
  <2>4. QED
    BY <2>1, <2>2, <2>3, AskPromises
<1>4. ASSUME NEW r \in PeopleRequests, Invite(r) \/ Revoke(r) \/ GiveDrive(r) \/ Refuse(r) PROVE PromisesHold'
  <2>1. Done(r) /\ UNCHANGED <<role, seated, bookedLate>>
    BY <1>4 DEF Invite, Revoke, GiveDrive, Refuse
  <2>2. QED
    BY <2>1, OthersAsTheyWere DEF PromisesHold
<1>5. ASSUME NEW r \in PeopleRequests, ChangeRole(r) \/ Remove(r) \/ Accept(r) PROVE PromisesHold'
  <2>1. DoneChanging(r) /\ UNCHANGED <<seated, bookedLate>>
    BY <1>5 DEF ChangeRole, Remove, Accept
  <2>2. QED
    BY <2>1, OthersAsTheyWere DEF PromisesHold
<1>6. ASSUME NEW u \in Persons, TakeSeatAsCandidate(u) PROVE PromisesHold'
  BY <1>6 DEF TakeSeatAsCandidate, PromisesHold
<1>7. ASSUME NEW u \in Persons, GiveUpSeat(u) PROVE PromisesHold'
  BY <1>7 DEF GiveUpSeat, PromisesHold
<1>8. CASE UNCHANGED <<role, seated, asked, bookedLate>>
  BY <1>8 DEF PromisesHold
<1>9. QED
  BY <1>1, <1>2, <1>3, <1>4, <1>5, <1>6, <1>7, <1>8 DEF PeopleNext, peopleVars, InvitationExpires, DriveMoves

-----------------------------------------------------------------------------
(* Nobody leaves anything behind. *)

\* A drive gets an owner when it is created and only ever another one.
LEMMA OwnedStep == TypeInv /\ DrivesHaveOwners /\ [PeopleNext]_peopleVars => DrivesHaveOwners'
<1> SUFFICES ASSUME TypeInv, DrivesHaveOwners, [PeopleNext]_peopleVars PROVE DrivesHaveOwners'
  OBVIOUS
<1>1. /\ driveState \in [CompanyDrives -> {"none", "open", "suspended", "over"}]
      /\ driveOwner \in [CompanyDrives -> Persons \cup {NoOne}]
  BY DEF TypeInv, PeopleTypeOK
<1>2. ASSUME NEW r \in PeopleRequests, HandOver(asked[r]) PROVE DrivesHaveOwners'
  <2>1. driveState' = driveState
    BY <1>2 DEF HandOver, ownerVars
  <2>2. \A d \in CompanyDrives : driveOwner'[d] = driveOwner[d] \/ driveOwner'[d] \in Persons
    BY <1>1, <1>2 DEF HandOver, ownerVars, Successors, Eligible
  <2>3. QED
    BY <2>1, <2>2 DEF DrivesHaveOwners
<1>3. ASSUME NEW r \in PeopleRequests, GiveDrive(r) PROVE DrivesHaveOwners'
  <2>1. asked[r].on \in CompanyDrives /\ asked[r].by \in Persons /\ (asked[r].op = "reassign" => asked[r].to \in Persons)
    BY <1>3 DEF TypeInv, AskedOf, GiveDrive
  <2>2. \A d \in CompanyDrives :
           \/ driveOwner'[d] \in Persons
           \/ driveState'[d] = driveState[d] /\ driveOwner'[d] = driveOwner[d]
    BY <1>1, <1>3, <2>1 DEF GiveDrive
  <2>3. QED
    BY <2>2 DEF DrivesHaveOwners
<1>4. ASSUME NEW d \in CompanyDrives, DriveMoves(d) PROVE DrivesHaveOwners'
  BY <1>1, <1>4 DEF DriveMoves, DrivesHaveOwners
<1>5. CASE UNCHANGED ownerVars
  BY <1>5 DEF ownerVars, DrivesHaveOwners
<1>6. QED
  BY <1>2, <1>3, <1>4, <1>5 DEF PeopleNext, peopleVars, BeginStaff, BeginDrive, BeginAccept, Invite, Revoke,
     ChangeRole, Remove, Accept, Refuse, InvitationExpires, TakeSeatAsCandidate, GiveUpSeat

\* A handover gives every open drive of whoever goes to someone who stays and
\* runs drives.
LEMMA HandedOver ==
  ASSUME TypeInv, DrivesHaveOwners, AnsweredUnlessOvertaken, NEW r \in PeopleRequests, HandOver(asked[r]),
         asked[r].on \in Persons,
         \A u \in Persons : u # asked[r].on => role'[u] = role[u]
  PROVE  AnsweredUnlessOvertaken'
<1> DEFINE a == asked[r]
           open == OpenDrives(a.on)
<1> SUFFICES ASSUME NEW d \in CompanyDrives, driveState'[d] = "open", d \notin overtaken' \cup lifted'
             PROVE  role'[driveOwner'[d]] \in RunsDrives
  BY DEF AnsweredUnlessOvertaken
<1>1. /\ driveState' = driveState
      /\ overtaken \subseteq overtaken' \cup open /\ lifted \subseteq lifted' \cup open
  BY DEF HandOver, ownerVars
<1>2. CASE d \in open
  <2>1. PICK s \in Successors(a) : driveOwner'[d] = s
    BY <1>2 DEF HandOver
  <2>2. s \in Persons /\ s # a.on /\ role[s] \in RunsDrives
    BY DEF Successors, Eligible
  <2>3. QED
    BY <2>1, <2>2
<1>3. CASE d \notin open
  <2>1. driveOwner'[d] = driveOwner[d] /\ driveOwner[d] # a.on
    BY <1>1, <1>3 DEF HandOver, ownerVars, OpenDrives
  <2>2. role[driveOwner[d]] \in RunsDrives
    BY <1>1, <1>3 DEF AnsweredUnlessOvertaken
  <2>3. driveOwner[d] \in Persons
    BY <1>1 DEF DrivesHaveOwners
  <2>4. QED
    BY <2>1, <2>2, <2>3
<1>4. QED
  BY <1>2, <1>3

\* Every open drive keeps someone behind it, unless the membership changed while
\* a request gave it its owner or it was lifted from a suspension.
LEMMA AnsweredStep ==
  TypeInv /\ DrivesHaveOwners /\ PromisesHold /\ AnsweredUnlessOvertaken /\ [PeopleNext]_peopleVars
    => AnsweredUnlessOvertaken'
<1> SUFFICES ASSUME TypeInv, DrivesHaveOwners, PromisesHold, AnsweredUnlessOvertaken, [PeopleNext]_peopleVars
             PROVE  AnsweredUnlessOvertaken'
  OBVIOUS
<1>1. /\ role \in [Persons -> CompanyRoles \cup {"none"}]
      /\ driveState \in [CompanyDrives -> {"none", "open", "suspended", "over"}]
      /\ driveOwner \in [CompanyDrives -> Persons \cup {NoOne}]
  BY DEF TypeInv, PeopleTypeOK
<1>2. ASSUME NEW r \in PeopleRequests, Remove(r) PROVE AnsweredUnlessOvertaken'
  <2>1. asked[r].on \in Persons /\ \A u \in Persons : u # asked[r].on => role'[u] = role[u]
    BY <1>1, <1>2 DEF Remove, TypeInv, AskedOf
  <2>2. QED
    BY <1>2, <2>1, HandedOver DEF Remove
<1>3. ASSUME NEW r \in PeopleRequests, ChangeRole(r) PROVE AnsweredUnlessOvertaken'
  <2>1. asked[r].on \in Persons /\ \A u \in Persons : u # asked[r].on => role'[u] = role[u]
    BY <1>1, <1>3 DEF ChangeRole, TypeInv, AskedOf
  <2>2. CASE HandOver(asked[r])
    BY <2>1, <2>2, HandedOver
  <2>3. CASE asked[r].role \in RunsDrives /\ UNCHANGED ownerVars
    <3>1. \A u \in Persons : role[u] \in RunsDrives => role'[u] \in RunsDrives
      BY <1>1, <1>3, <2>1, <2>3 DEF ChangeRole
    <3>2. QED
      BY <2>3, <3>1 DEF AnsweredUnlessOvertaken, DrivesHaveOwners, ownerVars
  <2>4. QED
    BY <1>3, <2>2, <2>3 DEF ChangeRole
<1>4. ASSUME NEW r \in PeopleRequests, Accept(r) PROVE AnsweredUnlessOvertaken'
  <2>1. \A u \in Persons : role[u] \in RunsDrives => role'[u] = role[u]
    BY <1>1, <1>4 DEF Accept, RunsDrives
  <2>2. UNCHANGED ownerVars
    BY <1>4 DEF Accept
  <2>3. QED
    BY <2>1, <2>2 DEF AnsweredUnlessOvertaken, DrivesHaveOwners, ownerVars
<1>5. ASSUME NEW r \in PeopleRequests, GiveDrive(r) PROVE AnsweredUnlessOvertaken'
  <2>1. asked[r].on \in CompanyDrives /\ role' = role
    BY <1>5 DEF GiveDrive, TypeInv, AskedOf
  <2>2. ASSUME NEW d \in CompanyDrives, driveState'[d] = "open", d \notin overtaken' \cup lifted'
        PROVE  role[driveOwner'[d]] \in RunsDrives
    <3>1. CASE d = asked[r].on
      <4>1. ~asked[r].stale
        BY <1>5, <2>2, <3>1 DEF GiveDrive
      <4>2. QED
        BY <1>1, <1>5, <2>1, <3>1, <4>1 DEF GiveDrive, PromisesHold
    <3>2. CASE d # asked[r].on
      BY <1>1, <1>5, <2>1, <2>2, <3>2 DEF GiveDrive, AnsweredUnlessOvertaken
    <3>3. QED
      BY <3>1, <3>2
  <2>3. QED
    BY <2>1, <2>2 DEF AnsweredUnlessOvertaken
<1>6. ASSUME NEW d \in CompanyDrives, DriveMoves(d) PROVE AnsweredUnlessOvertaken'
  BY <1>1, <1>6 DEF DriveMoves, AnsweredUnlessOvertaken
<1>7. CASE UNCHANGED <<role, ownerVars>>
  BY <1>7 DEF AnsweredUnlessOvertaken, ownerVars
<1>8. QED
  BY <1>2, <1>3, <1>4, <1>5, <1>6, <1>7 DEF PeopleNext, peopleVars, BeginStaff, BeginDrive, BeginAccept, Invite,
     Revoke, Refuse, InvitationExpires, TakeSeatAsCandidate, GiveUpSeat

\* Whoever joined gave up every seat but one booked since they began to.
LEMMA JoinersStep ==
  TypeInv /\ PromisesHold /\ JoinersGaveUpTheirSeats /\ [PeopleNext]_peopleVars => JoinersGaveUpTheirSeats'
<1> SUFFICES ASSUME TypeInv, PromisesHold, JoinersGaveUpTheirSeats, [PeopleNext]_peopleVars
             PROVE  JoinersGaveUpTheirSeats'
  OBVIOUS
<1>1. role \in [Persons -> CompanyRoles \cup {"none"}]
  BY DEF TypeInv, PeopleTypeOK
<1>2. ASSUME NEW r \in PeopleRequests, ChangeRole(r) \/ Remove(r) PROVE JoinersGaveUpTheirSeats'
  <2>1. \A u \in Persons : role'[u] # "none" => role[u] # "none"
    BY <1>1, <1>2 DEF ChangeRole, Remove
  <2>2. UNCHANGED <<seated, bookedLate>>
    BY <1>2 DEF ChangeRole, Remove
  <2>3. QED
    BY <2>1, <2>2 DEF JoinersGaveUpTheirSeats
<1>3. ASSUME NEW r \in PeopleRequests, Accept(r) PROVE JoinersGaveUpTheirSeats'
  <2>1. \A u \in Persons : u # asked[r].by => role'[u] = role[u]
    BY <1>1, <1>3 DEF Accept
  <2>2. asked[r].by \in seated => asked[r].by \in bookedLate
    BY <1>3 DEF Accept, PromisesHold
  <2>3. UNCHANGED <<seated, bookedLate>>
    BY <1>3 DEF Accept
  <2>4. QED
    BY <2>1, <2>2, <2>3 DEF JoinersGaveUpTheirSeats
<1>4. ASSUME NEW u \in Persons, TakeSeatAsCandidate(u) PROVE JoinersGaveUpTheirSeats'
  BY <1>4 DEF TakeSeatAsCandidate, JoinersGaveUpTheirSeats
<1>5. ASSUME NEW u \in Persons, GiveUpSeat(u) PROVE JoinersGaveUpTheirSeats'
  BY <1>5 DEF GiveUpSeat, JoinersGaveUpTheirSeats
<1>6. CASE UNCHANGED <<role, seated, bookedLate>>
  BY <1>6 DEF JoinersGaveUpTheirSeats
<1>7. QED
  BY <1>2, <1>3, <1>4, <1>5, <1>6 DEF PeopleNext, peopleVars, BeginStaff, BeginDrive, BeginAccept, Invite,
     Revoke, GiveDrive, Refuse, InvitationExpires, DriveMoves

\* Whoever crosses over leaves nothing behind: every drive still to run has
\* someone who runs drives behind it, and nobody who joined sits on a candidate's
\* seat, but for the interleavings the two exceptions name.
THEOREM LeaveNothingBehind == PeopleSpec => []NothingLeftBehind
<1>1. PeopleInit => PeopleInv
  <2>1. PeopleInit => DrivesHaveOwners /\ PromisesHold /\ NothingLeftBehind
    BY DEF PeopleInit, DrivesHaveOwners, PromisesHold, NothingLeftBehind, AnsweredUnlessOvertaken,
       JoinersGaveUpTheirSeats, NothingAsked
  <2>2. QED
    BY <2>1, TypedInit DEF PeopleInv
<1>2. PeopleInv /\ [PeopleNext]_peopleVars => PeopleInv'
  BY TypedStep, OwnedStep, PromisesStep, AnsweredStep, JoinersStep DEF PeopleInv, NothingLeftBehind
<1>3. PeopleInv => NothingLeftBehind
  BY DEF PeopleInv
<1>4. QED
  BY <1>1, <1>2, <1>3, PTL DEF PeopleSpec

HIDE PeopleAssumption

-----------------------------------------------------------------------------
(***************************************************************************)
(* Why a company stands as its reviews say and no report is closed by an   *)
(* action that did not know of it, for every number of requests at once,   *)
(* submissions and reports.                                                *)
(***************************************************************************)

\* What a company's standing says of its submissions.
StandingFits ==
    /\ \A m, n \in Waiting : m = n
    /\ standing = "PENDING" <=> Waiting # {}
    /\ standing = "VERIFIED" => \E n \in Submissions : submission[n] = "APPROVED"

TrustInv == TrustTypeOK /\ StandingFits /\ NoReportClosedUnread

LEMMA NoTrustCallTyped == NoTrustCall \in TrustCall /\ NoReport \in Report /\ NoReport.outcome = "none"
  BY DEF NoTrustCall, TrustCall, Standings, Reporters, NoReport, Report

\* What a request does to its own record leaves the records well typed.
LEMMA CallsTyped ==
    ASSUME TrustTypeOK, NEW r \in TrustCalls, NEW c \in TrustCall, Begins(r, c) \/ Finishes(r)
    PROVE  trustCall' \in [TrustCalls -> TrustCall]
  BY NoTrustCallTyped DEF TrustTypeOK, Begins, Finishes

\* One more submission waits only when none did.
LEMMA SubmitKeeps ==
    ASSUME TrustInv, NEW r \in TrustCalls, SubmitDocuments(r)
    PROVE  TrustInv'
<1> USE DEF TrustInv
<1>1. trustCall' \in [TrustCalls -> TrustCall]
  BY CallsTyped, NoTrustCallTyped DEF SubmitDocuments
<1>2. UNCHANGED <<report, overflow, driveSuspended>>
  BY DEF SubmitDocuments, reportVars
<1>3. CASE MaySubmit(r)
  <2>1. PICK n \in Submissions :
            submission[n] = "none" /\ submission' = [submission EXCEPT ![n] = "AWAITING_REVIEW"]
    BY <1>3 DEF SubmitDocuments
  <2>2. standing' = "PENDING" /\ standing # "PENDING"
    BY <1>3 DEF SubmitDocuments, MaySubmit
  <2>3. \A m \in Submissions : submission'[m] = IF m = n THEN "AWAITING_REVIEW" ELSE submission[m]
    BY <2>1 DEF TrustTypeOK
  <2>4. Waiting = {} BY <2>2 DEF StandingFits
  <2>5. Waiting' = {n} BY <2>3, <2>4 DEF Waiting
  <2>6. StandingFits' BY <2>2, <2>5 DEF StandingFits
  <2>7. TrustTypeOK' BY <1>1, <1>2, <2>1, <2>2 DEF TrustTypeOK, Standings, Reviews
  <2> QED BY <1>2, <2>6, <2>7 DEF NoReportClosedUnread
<1>4. CASE ~MaySubmit(r)
  <2>1. UNCHANGED <<standing, submission>> BY <1>4 DEF SubmitDocuments, verificationVars
  <2> QED BY <1>1, <1>2, <2>1 DEF TrustTypeOK, StandingFits, Waiting, NoReportClosedUnread
<1> QED BY <1>3, <1>4

\* The one submission that waited does no longer.
LEMMA DecideKeeps ==
    ASSUME TrustInv, NEW n \in Submissions, NEW approve \in BOOLEAN, DecideSubmission(n, approve)
    PROVE  TrustInv'
<1> USE DEF TrustInv
<1> DEFINE v == IF approve THEN "APPROVED" ELSE "REJECTED"
<1>1. submission' = [submission EXCEPT ![n] = v] /\ submission[n] = "AWAITING_REVIEW"
  BY DEF DecideSubmission
<1>2. v \in Reviews /\ v # "AWAITING_REVIEW" BY DEF Reviews
<1>3. standing' \in {"VERIFIED", "REJECTED"} /\ (standing' = "VERIFIED" => v = "APPROVED")
  BY DEF DecideSubmission
<1> HIDE DEF v
<1>4. \A m \in Submissions : submission'[m] = IF m = n THEN v ELSE submission[m]
  BY <1>1 DEF TrustTypeOK
<1>5. Waiting' = {} BY <1>1, <1>2, <1>4 DEF Waiting, StandingFits
<1>6. StandingFits' BY <1>3, <1>4, <1>5 DEF StandingFits
<1>7. UNCHANGED <<report, overflow, driveSuspended, trustCall>>
  BY DEF DecideSubmission, reportVars
<1>8. TrustTypeOK' BY <1>1, <1>2, <1>3, <1>7 DEF TrustTypeOK, Standings
<1> QED BY <1>6, <1>7, <1>8 DEF NoReportClosedUnread

\* An action answers the reports it had read, and nothing else.
LEMMA ActKeeps ==
    ASSUME TrustInv, NEW r \in TrustCalls, Act(r)
    PROVE  TrustInv'
<1> USE DEF TrustInv
<1>1. trustCall' \in [TrustCalls -> TrustCall]
  BY CallsTyped, NoTrustCallTyped DEF Act
<1>2. UNCHANGED <<standing, submission>>
  BY DEF Act, verificationVars
<1>3. StandingFits' BY <1>2 DEF StandingFits, Waiting
<1>4. CASE trustCall[r].kind = "SUSPEND_DRIVE" /\ driveSuspended
  <2>1. UNCHANGED <<report, overflow, driveSuspended>> BY <1>4 DEF Act, reportVars
  <2> QED BY <1>1, <1>2, <1>3, <2>1 DEF TrustTypeOK, NoReportClosedUnread
<1>5. CASE ~(trustCall[r].kind = "SUSPEND_DRIVE" /\ driveSuspended)
  <2> DEFINE how == IF trustCall[r].kind = "DISMISS" THEN "DISMISSED" ELSE "ACTIONED"
             closed(n) == [report[n] EXCEPT !.outcome = how, !.known = n \in trustCall[r].open]
  <2>1. /\ report' = [n \in Reports |-> IF n \in trustCall[r].open THEN closed(n) ELSE report[n]]
        /\ UNCHANGED overflow
    BY <1>5 DEF Act, Answered
  <2>2. driveSuspended' = (driveSuspended \/ trustCall[r].kind = "SUSPEND_DRIVE")
    BY <1>5 DEF Act
  <2>3. driveSuspended' \in BOOLEAN BY <2>2, Zenon
  <2>4. how \in {"DISMISSED", "ACTIONED"} OBVIOUS
  <2> HIDE DEF how
  <2>5. \A n \in trustCall[r].open \cap Reports : closed(n) \in Report /\ closed(n).known
    BY <2>4 DEF TrustTypeOK, Report
  <2> HIDE DEF closed
  <2>6. report' \in [Reports -> Report]
    BY <2>1, <2>5 DEF TrustTypeOK
  <2>7. NoReportClosedUnread'
    BY <2>1, <2>5 DEF NoReportClosedUnread
  <2>8. TrustTypeOK' BY <1>1, <1>2, <2>1, <2>3, <2>6 DEF TrustTypeOK
  <2> QED BY <1>3, <2>7, <2>8
<1> QED BY <1>4, <1>5

\* What only reads, files or lifts.
LEMMA RestKeeps ==
    ASSUME TrustInv,
           \/ \E r \in TrustCalls :
                 \/ ReadStanding(r) \/ FileReport(r)
                 \/ \E reporter \in Reporters : CheckReport(r, reporter)
                 \/ \E kind \in {"DISMISS", "WARN", "SUSPEND_DRIVE"} : ReadOpenReports(r, kind)
           \/ LiftSuspension \/ UNCHANGED trustVars
    PROVE  TrustInv'
<1> USE DEF TrustInv
<1>1. ASSUME NEW r \in TrustCalls, ReadStanding(r) PROVE TrustInv'
  <2> DEFINE c == [NoTrustCall EXCEPT !.at = "submit", !.seen = standing]
  <2>1. c \in TrustCall BY NoTrustCallTyped DEF TrustCall, TrustTypeOK
  <2>2. Begins(r, c) /\ UNCHANGED <<standing, submission, report, overflow, driveSuspended>>
    BY <1>1 DEF ReadStanding, verificationVars, reportVars
  <2>3. trustCall' \in [TrustCalls -> TrustCall] BY <2>1, <2>2, CallsTyped
  <2> QED BY <2>2, <2>3 DEF TrustTypeOK, StandingFits, Waiting, NoReportClosedUnread
<1>2. ASSUME NEW r \in TrustCalls, NEW kind \in {"DISMISS", "WARN", "SUSPEND_DRIVE"}, ReadOpenReports(r, kind)
      PROVE TrustInv'
  <2> DEFINE c == [NoTrustCall EXCEPT !.at = "act", !.kind = kind, !.open = OpenReports]
  <2>1. c \in TrustCall
    <3>1. OpenReports \in SUBSET Reports BY DEF OpenReports
    <3> QED BY <3>1, NoTrustCallTyped DEF TrustCall
  <2>2. Begins(r, c) /\ UNCHANGED <<standing, submission, report, overflow, driveSuspended>>
    BY <1>2 DEF ReadOpenReports, verificationVars, reportVars
  <2>3. trustCall' \in [TrustCalls -> TrustCall] BY <2>1, <2>2, CallsTyped
  <2> QED BY <2>2, <2>3 DEF TrustTypeOK, StandingFits, Waiting, NoReportClosedUnread
<1>3. ASSUME NEW r \in TrustCalls, NEW reporter \in Reporters, CheckReport(r, reporter) PROVE TrustInv'
  <2> DEFINE c == [NoTrustCall EXCEPT !.at = "file", !.by = reporter]
  <2>1. c \in TrustCall BY NoTrustCallTyped DEF TrustCall
  <2>2. /\ \/ Begins(r, c) /\ overflow' = overflow
           \/ trustCall' = trustCall /\ overflow' = TRUE
        /\ UNCHANGED <<standing, submission, report, driveSuspended>>
    BY <1>3 DEF CheckReport, verificationVars, reportVars
  <2>3. trustCall' \in [TrustCalls -> TrustCall] BY <2>1, <2>2, CallsTyped DEF TrustTypeOK
  <2> QED BY <2>2, <2>3 DEF TrustTypeOK, StandingFits, Waiting, NoReportClosedUnread
<1>4. ASSUME NEW r \in TrustCalls, FileReport(r) PROVE TrustInv'
  <2> DEFINE filed == [by |-> trustCall[r].by, outcome |-> "open", known |-> FALSE]
  <2>1. filed \in Report /\ filed.outcome = "open" BY DEF Report, TrustTypeOK, TrustCall
  <2>2. PICK n \in Reports : report' = [report EXCEPT ![n] = filed]
    BY <1>4 DEF FileReport
  <2>3. Finishes(r) /\ UNCHANGED <<standing, submission, overflow, driveSuspended>>
    BY <1>4 DEF FileReport, verificationVars
  <2>4. trustCall' \in [TrustCalls -> TrustCall] BY <2>3, CallsTyped, NoTrustCallTyped
  <2> HIDE DEF filed
  <2>5. NoReportClosedUnread'
    BY <2>1, <2>2 DEF NoReportClosedUnread, TrustTypeOK
  <2> QED BY <2>1, <2>2, <2>3, <2>4, <2>5 DEF TrustTypeOK, StandingFits, Waiting
<1>5. CASE LiftSuspension
  BY <1>5 DEF LiftSuspension, verificationVars, TrustTypeOK, StandingFits, Waiting, NoReportClosedUnread
<1>6. CASE UNCHANGED trustVars
  BY <1>6 DEF trustVars, TrustTypeOK, StandingFits, Waiting, NoReportClosedUnread
<1> QED BY <1>1, <1>2, <1>3, <1>4, <1>5, <1>6

THEOREM TrustInvariant == TrustSpec => []TrustInv
<1>1. TrustInit => TrustInv
  BY NoTrustCallTyped
     DEF TrustInit, TrustInv, TrustTypeOK, StandingFits, Waiting, NoReportClosedUnread, Standings, Reviews
<1>2. TrustInv /\ [TrustNext]_trustVars => TrustInv'
  BY SubmitKeeps, DecideKeeps, ActKeeps, RestKeeps DEF TrustNext
<1> QED BY <1>1, <1>2, PTL DEF TrustSpec

\* The verification, report and moderation records keep their types.
THEOREM TrustTypeCorrect == TrustSpec => []TrustTypeOK
<1>1. TrustInv => TrustTypeOK BY DEF TrustInv
<1> QED BY <1>1, TrustInvariant, PTL

\* A company waits for a review exactly while one submission of its waits and is
\* verified only on an approved one; no report is closed by an action that did
\* not know of it.
THEOREM DecisionsAnswerWhatWasRead == TrustSpec => []ReviewsAnswerWhatWasRead
<1>1. TrustInv => ReviewsAnswerWhatWasRead
  <2> SUFFICES ASSUME TrustInv PROVE Cardinality(Waiting) <= 1
    BY DEF TrustInv, StandingFits, ReviewsAnswerWhatWasRead, StandingMatchesReview
  <2>1. CASE Waiting = {} BY <2>1, FS_EmptySet
  <2>2. CASE Waiting # {}
    <3>1. PICK n \in Waiting : TRUE BY <2>2
    <3>2. Waiting = {n} BY <3>1 DEF TrustInv, StandingFits
    <3> QED BY <3>2, FS_Singleton
  <2> QED BY <2>1, <2>2
<1> QED BY <1>1, TrustInvariant, PTL

-----------------------------------------------------------------------------
(***************************************************************************)
(* Why nobody who has left the company watches its arrivals, for every     *)
(* number of screens.  A socket is let in only for a member, and the last  *)
(* step of leaving closes it; between the two the member may be leaving,   *)
(* but never out.                                                          *)
(***************************************************************************)

\* The room holds the sockets whose join has got that far.
RoomIsTheJoined == room = {s \in Screens : socket[s] \in {"joined", "reading", "live"}}

\* A socket that was let in belongs to somebody who is not out.
LetInAreNotOut ==
    \A s \in Screens : socket[s] \in {"allowed", "joined", "reading", "live"} => watcher[s] # "out"

LiveBoardInv == LiveTypeOK /\ RoomIsTheJoined /\ LetInAreNotOut

LEMMA LiveBoardInvInitially == LiveInit => LiveBoardInv
<1> SUFFICES ASSUME LiveInit PROVE LiveBoardInv OBVIOUS
<1>1. LiveTypeOK
  <2>1. /\ arrivals \in Snapshots /\ drops \in 0..MaxSocketDrops /\ room \subseteq Screens
        /\ watcher \in [Screens -> {"member", "leaving", "out"}]
        /\ socket \in [Screens -> {"off", "on", "allowed", "refused", "joined", "reading", "live"}]
        /\ joinAnswer \in [Screens -> Snapshots \cup {NoSnapshot}]
        /\ poll \in [Screens -> Snapshots \cup {NoSnapshot}]
        /\ shown \in [Screens -> Snapshots \cup {NoSnapshot}]
    BY LiveBoardAssumption DEF LiveInit, Snapshots
  <2>2. publish \in [Publishers -> [at : {"idle", "committed", "built"}, snapshot : Snapshots \cup {NoSnapshot}]]
    BY DEF LiveInit
  <2> QED BY <2>1, <2>2 DEF LiveTypeOK
<1> QED BY <1>1 DEF LiveInit, LiveBoardInv, RoomIsTheJoined, LetInAreNotOut

\* Publishing leaves the sockets and the people alone.
LEMMA PublishingLive ==
    ASSUME LiveBoardInv, NEW p \in Publishers,
           ArrivalsChange(p) \/ BuildSnapshot(p) \/ EmitSnapshot(p)
    PROVE  LiveBoardInv'
<1> USE LiveBoardAssumption DEF LiveBoardInv, LiveTypeOK
<1> DEFINE PublishStep == [at : {"idle", "committed", "built"}, snapshot : Snapshots \cup {NoSnapshot}]
<1>1. UNCHANGED <<watcher, socket, room, drops, joinAnswer, poll>>
  BY DEF ArrivalsChange, BuildSnapshot, EmitSnapshot, feedVars
<1>2. RoomIsTheJoined' /\ LetInAreNotOut'
  BY <1>1 DEF RoomIsTheJoined, LetInAreNotOut
<1>3. arrivals' \in Snapshots
  BY DEF ArrivalsChange, BuildSnapshot, EmitSnapshot, Snapshots
<1>4. publish[p] \in PublishStep /\ publish[p].snapshot \in Snapshots \cup {NoSnapshot}
  OBVIOUS
<1>5. publish' \in [Publishers -> PublishStep]
  <2>1. CASE ArrivalsChange(p)
    <3>1. publish' = [publish EXCEPT ![p].at = "committed"] BY <2>1 DEF ArrivalsChange
    <3> QED BY <3>1
  <2>2. CASE BuildSnapshot(p)
    <3> DEFINE built == IF room = {} THEN [at |-> "idle", snapshot |-> NoSnapshot]
                                     ELSE [at |-> "built", snapshot |-> arrivals]
    <3>1. built \in PublishStep OBVIOUS
    <3>2. publish' = [publish EXCEPT ![p] = built] BY <2>2 DEF BuildSnapshot
    <3> QED BY <3>1, <3>2
  <2>3. CASE EmitSnapshot(p)
    <3>1. publish' = [publish EXCEPT ![p] = [at |-> "idle", snapshot |-> NoSnapshot]]
      BY <2>3 DEF EmitSnapshot
    <3> QED BY <3>1
  <2> QED BY <2>1, <2>2, <2>3
<1>6. shown' \in [Screens -> Snapshots \cup {NoSnapshot}]
  <2>1. CASE EmitSnapshot(p)
    <3>1. shown' = [s \in Screens |-> IF s \in room THEN publish[p].snapshot ELSE shown[s]]
      BY <2>1 DEF EmitSnapshot
    <3> QED BY <3>1, <1>4
  <2>2. CASE ~EmitSnapshot(p)
    BY <2>2 DEF ArrivalsChange, BuildSnapshot, feedVars
  <2> QED BY <2>1, <2>2
<1> QED BY <1>1, <1>2, <1>3, <1>5, <1>6

\* The steps of one screen, joining or polling.
LEMMA ScreenStepsLive ==
    ASSUME LiveBoardInv, NEW s \in Screens,
           \/ Connect(s) \/ AskToJoin(s) \/ Joining(s)
           \/ Poll(s) \/ PollAnswered(s)
    PROVE  LiveBoardInv'
<1> USE LiveBoardAssumption DEF LiveBoardInv, LiveTypeOK
<1>1. UNCHANGED <<arrivals, publish, watcher, drops>>
  BY DEF Connect, AskToJoin, Joining, EnterRoom, ReadForJoin, JoinAnswered, Poll, PollAnswered, feedVars
<1>2. PICK step \in {"off", "on", "allowed", "refused", "joined", "reading", "live"} :
          /\ socket' = [socket EXCEPT ![s] = step]
          /\ step \in {"allowed", "joined", "reading", "live"} =>
                 watcher[s] = "member" \/ socket[s] \in {"allowed", "joined", "reading", "live"}
          /\ \/ step \in {"joined", "reading", "live"} /\ room' = room \cup {s}
             \/ step \notin {"joined", "reading", "live"} /\ s \notin room /\ room' = room
  <2>1. CASE Connect(s) BY <2>1 DEF Connect, RoomIsTheJoined
  <2>2. CASE AskToJoin(s)
    <3>1. CASE MayWatch(s) BY <2>2, <3>1 DEF AskToJoin, MayWatch, RoomIsTheJoined
    <3>2. CASE ~MayWatch(s) BY <2>2, <3>2 DEF AskToJoin, RoomIsTheJoined
    <3> QED BY <3>1, <3>2
  <2>3. CASE EnterRoom(s) BY <2>3 DEF EnterRoom
  <2>4. CASE ReadForJoin(s) BY <2>4 DEF ReadForJoin, RoomIsTheJoined
  <2>5. CASE JoinAnswered(s) BY <2>5 DEF JoinAnswered, RoomIsTheJoined
  <2>6. CASE Poll(s) \/ PollAnswered(s)
    <3>1. socket' = [socket EXCEPT ![s] = socket[s]] /\ room' = room
      BY <2>6 DEF Poll, PollAnswered
    <3>2. s \in room <=> socket[s] \in {"joined", "reading", "live"}
      BY DEF RoomIsTheJoined
    <3>3. s \in room => room' = room \cup {s}
      BY <3>1
    <3>4. socket[s] \in {"off", "on", "allowed", "refused", "joined", "reading", "live"}
      OBVIOUS
    <3> DEFINE step == socket[s]
    <3> HIDE DEF step
    <3>5. /\ socket' = [socket EXCEPT ![s] = step]
          /\ step \in {"allowed", "joined", "reading", "live"} =>
                 socket[s] \in {"allowed", "joined", "reading", "live"}
      BY <3>1 DEF step
    <3> QED BY <3>1, <3>2, <3>3, <3>4, <3>5 DEF step
  <2> QED BY <2>1, <2>2, <2>3, <2>4, <2>5, <2>6 DEF Joining
<1>3. RoomIsTheJoined'
  BY <1>2 DEF RoomIsTheJoined
<1>4. LetInAreNotOut'
  BY <1>1, <1>2 DEF LetInAreNotOut
<1>5. /\ joinAnswer' \in [Screens -> Snapshots \cup {NoSnapshot}]
      /\ poll' \in [Screens -> Snapshots \cup {NoSnapshot}]
      /\ shown' \in [Screens -> Snapshots \cup {NoSnapshot}]
  BY DEF Connect, AskToJoin, Joining, EnterRoom, ReadForJoin, JoinAnswered, Poll, PollAnswered, feedVars
<1>6. socket' \in [Screens -> {"off", "on", "allowed", "refused", "joined", "reading", "live"}] /\ room' \subseteq Screens
  BY <1>2
<1> QED BY <1>1, <1>3, <1>4, <1>5, <1>6

\* Losing a socket, and the two steps of leaving.
LEMMA LeavingLive ==
    ASSUME LiveBoardInv, NEW s \in Screens, LoseSocket(s) \/ RemoveWatcher(s) \/ Evict(s)
    PROVE  LiveBoardInv'
<1> USE LiveBoardAssumption DEF LiveBoardInv, LiveTypeOK
<1>1. UNCHANGED <<arrivals, publish, poll, shown>>
  BY DEF LoseSocket, RemoveWatcher, Evict, feedVars
<1>2. drops' \in 0..MaxSocketDrops
  BY DEF LoseSocket, RemoveWatcher, Evict
<1>3. CASE RemoveWatcher(s)
  <2>1. /\ watcher' = [watcher EXCEPT ![s] = "leaving"]
        /\ UNCHANGED <<socket, room, joinAnswer>>
    BY <1>3 DEF RemoveWatcher, feedVars
  <2> QED BY <1>1, <1>2, <2>1 DEF RoomIsTheJoined, LetInAreNotOut
<1>4. CASE LoseSocket(s) \/ Evict(s)
  <2>1. /\ room' = room \ {s} /\ socket' = [socket EXCEPT ![s] = "off"]
        /\ joinAnswer' = [joinAnswer EXCEPT ![s] = NoSnapshot]
        /\ watcher' = watcher \/ watcher' = [watcher EXCEPT ![s] = "out"]
    BY <1>4 DEF LoseSocket, Evict, Closed
  <2> QED BY <1>1, <1>2, <2>1 DEF RoomIsTheJoined, LetInAreNotOut
<1> QED BY <1>3, <1>4

LEMMA LiveBoardInductive == LiveSpec => []LiveBoardInv
<1>1. LiveBoardInv /\ [LiveNext]_liveVars => LiveBoardInv'
  <2> SUFFICES ASSUME LiveBoardInv, [LiveNext]_liveVars PROVE LiveBoardInv' OBVIOUS
  <2>1. CASE LiveNext
    BY <2>1, PublishingLive, ScreenStepsLive, LeavingLive DEF LiveNext, Publishing
  <2>2. CASE UNCHANGED liveVars
    BY <2>2 DEF liveVars, LiveBoardInv, LiveTypeOK, RoomIsTheJoined, LetInAreNotOut
  <2> QED BY <2>1, <2>2
<1> QED BY <1>1, LiveBoardInvInitially, PTL DEF LiveSpec

\* Every variable has its type (LiveGateway, LiveBoardPublisher).
THEOREM LiveBoardTypeCorrect == LiveSpec => []LiveTypeOK
  BY LiveBoardInductive, PTL DEF LiveBoardInv

\* Nobody who has left the company has a socket in the drive's room, whatever
\* token they hold and wherever their join had got to (canWatch, evict).
THEOREM NobodyWatchesAfterLeaving == LiveSpec => []LeaversDoNotWatch
<1>1. LiveBoardInv => LeaversDoNotWatch
  BY DEF LiveBoardInv, RoomIsTheJoined, LetInAreNotOut, LeaversDoNotWatch
<1> QED BY <1>1, LiveBoardInductive, PTL

-----------------------------------------------------------------------------
(***************************************************************************)
(* Whatever is paid, delivered twice, out of order or cut short, for any   *)
(* number of orders, payments and calls: what the ledger was credited with *)
(* is what the orders say was paid.                                        *)
(*                                                                         *)
(* What makes it inductive is what a call in flight still knows: the       *)
(* gateway never takes back a word it gave, and a call that is about to    *)
(* post on an order it saw credited is about the payment that credited it. *)
(***************************************************************************)

USE TopUpsAssumption

\* The gateway's word on a payment is true for good, once it is not "pending".
WordHolds(e) ==
    /\ payment[e.payment] # NotPaid
    /\ e.status # "pending" => payment[e.payment].status = e.status

CallsKnow ==
    \A c \in TopUpCalls : topUpCall[c].at # "none" =>
        /\ topUpCall[c].about \in Event /\ WordHolds(topUpCall[c].about)
        /\ topUpCall[c].at = "post" =>
            /\ topUpCall[c].about.status = "captured" /\ payment[topUpCall[c].about.payment].sum = "ordered"
            /\ topUpCall[c].sawCredit => topUpCall[c].about.payment \in credited

TopUpsInv == TopUpsTypeOK /\ CallsKnow /\ (\A e \in undelivered : WordHolds(e)) /\ CreditsMatchOrders

-----------------------------------------------------------------------------
(* Types. *)

LEMMA TopUpsTypedInit == TopUpsInit => TopUpsTypeOK
  BY DEF TopUpsInit, TopUpsTypeOK, OrderStatuses, NotPaid, NoTopUpCall, TopUpCall, TopUpSteps

\* A call that arrives, goes on or ends is still one.
LEMMA CallTyped ==
  ASSUME TopUpsTypeOK, NEW c \in TopUpCalls,
         \/ \E p \in Payments, as \in PaymentStatuses, by \in {"webhook", "confirm"} : Arrives(c, p, as, by)
         \/ \E step \in TopUpSteps : GoesOn(c, step)
         \/ topUpCall' = [topUpCall EXCEPT ![c] = NoTopUpCall]
  PROVE  topUpCall' \in [TopUpCalls -> TopUpCall]
<1>1. topUpCall \in [TopUpCalls -> TopUpCall] /\ topUpCall[c] \in TopUpCall /\ NoTopUpCall \in TopUpCall
  BY DEF TopUpsTypeOK, NoTopUpCall, TopUpCall, TopUpSteps
<1>2. CASE \E p \in Payments, as \in PaymentStatuses, by \in {"webhook", "confirm"} : Arrives(c, p, as, by)
  <2>1. PICK p \in Payments, as \in PaymentStatuses, by \in {"webhook", "confirm"} : Arrives(c, p, as, by)
    BY <1>2
  <2>2. [payment |-> p, status |-> as] \in Event
    BY DEF Event
  <2>3. [at |-> "read", about |-> [payment |-> p, status |-> as], from |-> by, sawCredit |-> FALSE] \in TopUpCall
    BY <2>2 DEF TopUpCall, TopUpSteps
  <2>4. QED
    BY <1>1, <2>1, <2>3 DEF Arrives
<1>3. CASE \E step \in TopUpSteps : GoesOn(c, step)
  <2>1. PICK step \in TopUpSteps : GoesOn(c, step)
    BY <1>3
  <2>2. [topUpCall[c] EXCEPT !.at = step] \in TopUpCall
    BY <1>1 DEF TopUpCall
  <2>3. QED
    BY <1>1, <2>1, <2>2 DEF GoesOn
<1>4. CASE topUpCall' = [topUpCall EXCEPT ![c] = NoTopUpCall]
  BY <1>1, <1>4
<1>5. QED
  BY <1>2, <1>3, <1>4

\* No step takes a variable out of its type.
LEMMA TopUpsTypedStep == TopUpsTypeOK /\ CallsKnow /\ [TopUpsNext]_topUpVars => TopUpsTypeOK'
<1> SUFFICES ASSUME TopUpsTypeOK, CallsKnow, [TopUpsNext]_topUpVars PROVE TopUpsTypeOK'
  OBVIOUS
<1>1. ASSUME NEW o \in Orders, CreateTopUp(o) PROVE TopUpsTypeOK'
  BY <1>1 DEF CreateTopUp, TopUpsTypeOK, OrderStatuses
<1>2. ASSUME NEW o \in Orders, NEW p \in Payments, Pay(o, p) PROVE TopUpsTypeOK'
  <2>1. PICK sum \in Sums : payment' = [payment EXCEPT ![p] = [status |-> "pending", of |-> o, sum |-> sum]]
    BY <1>2 DEF Pay
  <2>2. [status |-> "pending", of |-> o, sum |-> sum] \in [status : PaymentStatuses, of : Orders, sum : Sums]
    BY DEF PaymentStatuses
  <2>3. payment' \in [Payments -> [status : PaymentStatuses, of : Orders, sum : Sums] \cup {NotPaid}]
    BY <2>1, <2>2 DEF TopUpsTypeOK
  <2>4. QED
    BY <1>2, <2>3 DEF Pay, TopUpsTypeOK
<1>3. ASSUME NEW p \in Payments, NEW as \in {"failed", "captured"}, Settle(p, as) PROVE TopUpsTypeOK'
  <2>1. payment[p] \in [status : PaymentStatuses, of : Orders, sum : Sums]
    BY <1>3 DEF Settle, TopUpsTypeOK, NotPaid
  <2>2. [payment[p] EXCEPT !.status = as] \in [status : PaymentStatuses, of : Orders, sum : Sums]
    BY <2>1 DEF PaymentStatuses
  <2>3. payment' \in [Payments -> [status : PaymentStatuses, of : Orders, sum : Sums] \cup {NotPaid}]
    BY <1>3, <2>2 DEF Settle, TopUpsTypeOK
  <2>4. [payment |-> p, status |-> as] \in Event
    BY DEF Event, PaymentStatuses
  <2>5. QED
    BY <1>3, <2>3, <2>4 DEF Settle, TopUpsTypeOK
<1>4. ASSUME NEW c \in TopUpCalls, NEW e \in Event, HandleWebhook(c, e) PROVE TopUpsTypeOK'
  <2>1. e.payment \in Payments /\ e.status \in PaymentStatuses
    BY DEF Event
  <2>2. topUpCall' \in [TopUpCalls -> TopUpCall]
    BY <1>4, <2>1, CallTyped DEF HandleWebhook
  <2>3. QED
    BY <1>4, <2>2 DEF HandleWebhook, TopUpsTypeOK
<1>5. ASSUME NEW c \in TopUpCalls, NEW p \in Payments, ConfirmTopUp(c, p) PROVE TopUpsTypeOK'
  <2>1. payment[p].status \in PaymentStatuses
    BY <1>5 DEF ConfirmTopUp, TopUpsTypeOK
  <2>2. topUpCall' \in [TopUpCalls -> TopUpCall]
    BY <1>5, <2>1, CallTyped DEF ConfirmTopUp
  <2>3. QED
    BY <1>5, <2>2 DEF ConfirmTopUp, TopUpsTypeOK
<1>6. ASSUME NEW c \in TopUpCalls, ReadOrder(c) PROVE TopUpsTypeOK'
  <2>1. topUpCall \in [TopUpCalls -> TopUpCall] /\ topUpCall[c] \in TopUpCall
    BY DEF TopUpsTypeOK
  <2>2. AfterRead(topUpCall[c].about) \in TopUpSteps
    BY DEF AfterRead, TopUpSteps
  <2>3. \A step \in TopUpSteps, saw \in BOOLEAN :
           [topUpCall[c] EXCEPT !.at = step, !.sawCredit = saw] \in TopUpCall
    BY <2>1 DEF TopUpCall
  <2>4. topUpCall' \in [TopUpCalls -> TopUpCall]
    BY <1>6, <2>1, <2>2, <2>3 DEF ReadOrder
  <2>5. QED
    BY <1>6, <2>4 DEF ReadOrder, TopUpsTypeOK
<1>7. ASSUME NEW c \in TopUpCalls, MarkFailed(c) PROVE TopUpsTypeOK'
  <2>1. topUpCall' \in [TopUpCalls -> TopUpCall]
    BY <1>7, CallTyped DEF MarkFailed, TopUpSteps
  <2>2. QED
    BY <1>7, <2>1 DEF MarkFailed, TopUpsTypeOK, OrderStatuses
<1>8. ASSUME NEW c \in TopUpCalls, PostTopUp(c) PROVE TopUpsTypeOK'
  <2>1. topUpCall' \in [TopUpCalls -> TopUpCall]
    BY <1>8, CallTyped DEF PostTopUp, TopUpSteps
  <2>2. topUpCall[c].about.payment \in Payments
    BY <1>8 DEF PostTopUp, CallsKnow, Event
  <2>3. QED
    BY <1>8, <2>1, <2>2 DEF PostTopUp, TopUpsTypeOK, OrderStatuses
<1>9. ASSUME NEW c \in TopUpCalls, Answer(c) \/ Dies(c) PROVE TopUpsTypeOK'
  <2>1. topUpCall' \in [TopUpCalls -> TopUpCall]
    BY <1>9, CallTyped DEF Answer, Dies
  <2>2. died' \in 0..MaxDied
    BY <1>9 DEF Answer, Dies, TopUpsTypeOK
  <2>3. QED
    BY <1>9, <2>1, <2>2 DEF Answer, Dies, TopUpsTypeOK
<1>10. CASE UNCHANGED topUpVars
  BY <1>10 DEF topUpVars, TopUpsTypeOK
<1>11. QED
  BY <1>1, <1>2, <1>3, <1>4, <1>5, <1>6, <1>7, <1>8, <1>9, <1>10 DEF TopUpsNext, CallStep

-----------------------------------------------------------------------------
(* What is known stays known. *)

\* A payment is settled once, and keeps the order and the sum it was made for.
LEMMA PaymentsKeep ==
  ASSUME TopUpsTypeOK, [TopUpsNext]_topUpVars, NEW p \in Payments, payment[p] # NotPaid
  PROVE  /\ payment[p].of \in Orders
         /\ payment'[p] # NotPaid /\ payment'[p].of = payment[p].of /\ payment'[p].sum = payment[p].sum
         /\ payment[p].status # "pending" => payment'[p].status = payment[p].status
<1>1. /\ payment \in [Payments -> [status : PaymentStatuses, of : Orders, sum : Sums] \cup {NotPaid}]
      /\ payment[p] \in [status : PaymentStatuses, of : Orders, sum : Sums]
  BY DEF TopUpsTypeOK
<1>2. payment[p].of \in Orders
  BY <1>1
<1>3. ASSUME NEW o \in Orders, NEW q \in Payments, Pay(o, q) PROVE payment'[p] = payment[p]
  BY <1>1, <1>3 DEF Pay
<1>4. ASSUME NEW q \in Payments, NEW as \in {"failed", "captured"}, Settle(q, as)
      PROVE  \/ payment'[p] = payment[p]
             \/ payment[p].status = "pending" /\ payment'[p] = [payment[p] EXCEPT !.status = as]
  BY <1>1, <1>4 DEF Settle
<1>5. \/ payment'[p] = payment[p]
      \/ payment[p].status = "pending"
           /\ \E as \in {"failed", "captured"} : payment'[p] = [payment[p] EXCEPT !.status = as]
  BY <1>3, <1>4 DEF TopUpsNext, topUpVars, CallStep, CreateTopUp, HandleWebhook, ConfirmTopUp, ReadOrder,
     MarkFailed, PostTopUp, Answer, Dies
<1>6. QED
  BY <1>1, <1>2, <1>5 DEF NotPaid, PaymentStatuses

\* Nothing that was posted is taken out of the ledger.
LEMMA CreditsKeep == [TopUpsNext]_topUpVars => credited \subseteq credited'
  BY DEF TopUpsNext, topUpVars, CallStep, CreateTopUp, Pay, Settle, HandleWebhook, ConfirmTopUp, ReadOrder,
     MarkFailed, PostTopUp, Answer, Dies

LEMMA WordsKeep ==
  ASSUME TopUpsTypeOK, [TopUpsNext]_topUpVars, NEW e \in Event, WordHolds(e)
  PROVE  WordHolds(e)'
<1>1. e.payment \in Payments
  BY DEF Event
<1>2. QED
  BY <1>1, PaymentsKeep DEF WordHolds

\* The gateway owes us nothing but what is true.
LEMMA UndeliveredStep ==
  ASSUME TopUpsTypeOK, [TopUpsNext]_topUpVars, \A e \in undelivered : WordHolds(e)
  PROVE  \A e \in undelivered' : WordHolds(e)'
<1> SUFFICES ASSUME NEW e \in undelivered' PROVE WordHolds(e)'
  OBVIOUS
<1>1. CASE e \in undelivered
  BY <1>1, WordsKeep DEF TopUpsTypeOK
<1>2. CASE e \notin undelivered
  <2>1. PICK p \in Payments, as \in {"failed", "captured"} :
          Settle(p, as) /\ e = [payment |-> p, status |-> as]
    BY <1>2 DEF TopUpsNext, topUpVars, CallStep, CreateTopUp, Pay, Settle, HandleWebhook, ConfirmTopUp, ReadOrder,
       MarkFailed, PostTopUp, Answer, Dies
  <2>2. payment'[p] = [payment[p] EXCEPT !.status = as] /\ payment[p].status = "pending"
    BY <2>1 DEF Settle, TopUpsTypeOK
  <2>3. payment[p] \in [status : PaymentStatuses, of : Orders, sum : Sums]
    BY <2>2 DEF TopUpsTypeOK, NotPaid
  <2>4. payment'[p].status = as /\ payment'[p] # NotPaid
    <3>1. payment'[p].status = as
      BY <2>2, <2>3
    <3>2. NotPaid.status = "none" /\ as # "none"
      BY DEF NotPaid
    <3> QED BY <3>1, <3>2
  <2>5. QED
    BY <2>1, <2>4 DEF WordHolds
<1>3. QED
  BY <1>1, <1>2

\* What a call knows when it is what it was before the step.
LEMMA CallsKeep ==
  ASSUME TopUpsTypeOK, CallsKnow, [TopUpsNext]_topUpVars, NEW c \in TopUpCalls, topUpCall'[c] = topUpCall[c],
         topUpCall[c].at # "none"
  PROVE  /\ topUpCall'[c].about \in Event /\ WordHolds(topUpCall[c].about)'
         /\ topUpCall'[c].at = "post" =>
              /\ topUpCall'[c].about.status = "captured" /\ payment'[topUpCall'[c].about.payment].sum = "ordered"
              /\ topUpCall'[c].sawCredit => topUpCall'[c].about.payment \in credited'
<1>1. topUpCall[c].about \in Event /\ WordHolds(topUpCall[c].about) /\ topUpCall[c].about.payment \in Payments
  BY DEF CallsKnow, Event
<1>2. WordHolds(topUpCall[c].about)'
  <2>1. payment'[topUpCall[c].about.payment] # NotPaid
        /\ (payment[topUpCall[c].about.payment].status # "pending"
              => payment'[topUpCall[c].about.payment].status = payment[topUpCall[c].about.payment].status)
    BY <1>1, PaymentsKeep DEF WordHolds
  <2>2. QED
    BY <1>1, <2>1 DEF WordHolds
<1>3. topUpCall[c].at = "post" => payment'[topUpCall[c].about.payment].sum = payment[topUpCall[c].about.payment].sum
  BY <1>1, PaymentsKeep DEF WordHolds
<1>4. QED
  BY <1>1, <1>2, <1>3, CreditsKeep DEF CallsKnow

\* What one call knows, and that it still does after a step of it.
Knows(c) ==
    topUpCall[c].at # "none" =>
        /\ topUpCall[c].about \in Event /\ WordHolds(topUpCall[c].about)
        /\ topUpCall[c].at = "post" =>
            /\ topUpCall[c].about.status = "captured" /\ payment[topUpCall[c].about.payment].sum = "ordered"
            /\ topUpCall[c].sawCredit => topUpCall[c].about.payment \in credited

\* A call posts what it read to be owed: money that moved, for the sum asked for,
\* and on an order it saw credited only the payment that credited it.
LEMMA ReadStep ==
  ASSUME TopUpsTypeOK, CallsKnow, PaidMeansCredited, [TopUpsNext]_topUpVars, NEW c \in TopUpCalls, ReadOrder(c)
  PROVE  Knows(c)'
<1> DEFINE e == topUpCall[c].about
<1>1. e \in Event /\ WordHolds(e) /\ e.payment \in Payments
  BY DEF ReadOrder, CallsKnow, Event
<1>2. payment' = payment /\ credited' = credited
  BY DEF ReadOrder
<1>3. /\ topUpCall'[c].about = e /\ topUpCall'[c].at = AfterRead(e)
      /\ topUpCall'[c].sawCredit <=> CreditedFor(OrderOf(e.payment)) # {}
  BY DEF ReadOrder, TopUpsTypeOK, TopUpCall
<1>4. WordHolds(e)'
  <2>1. payment'[e.payment] # NotPaid /\ (e.status # "pending" => payment'[e.payment].status = e.status)
    BY <1>1, <1>2 DEF WordHolds
  <2>2. QED
    BY <1>3, <2>1 DEF WordHolds
<1>5. ASSUME AfterRead(e) = "post"
      PROVE  /\ e.status = "captured" /\ payment[e.payment].sum = "ordered"
             /\ CreditedFor(OrderOf(e.payment)) # {} => e.payment \in credited
  <2>1. /\ e.status = "captured" /\ payment[e.payment].sum = "ordered"
        /\ orderStatus[OrderOf(e.payment)] = "CAPTURED" => paidBy[OrderOf(e.payment)] = e.payment
    BY <1>5 DEF AfterRead
  <2>2. OrderOf(e.payment) \in Orders
    BY <1>1 DEF WordHolds, OrderOf, TopUpsTypeOK
  <2>3. CreditedFor(OrderOf(e.payment)) # {} => paidBy[OrderOf(e.payment)] \in CreditedFor(OrderOf(e.payment))
                                                /\ orderStatus[OrderOf(e.payment)] = "CAPTURED"
    BY <2>2 DEF PaidMeansCredited
  <2>4. QED
    BY <2>1, <2>3 DEF CreditedFor
<1>6. QED
  BY <1>1, <1>2, <1>3, <1>4, <1>5 DEF Knows

LEMMA ArriveStep ==
  ASSUME TopUpsTypeOK, NEW c \in TopUpCalls, NEW p \in Payments, NEW as \in PaymentStatuses,
         NEW by \in {"webhook", "confirm"}, Arrives(c, p, as, by),
         WordHolds([payment |-> p, status |-> as]), UNCHANGED <<payment, credited>>
  PROVE  Knows(c)'
<1>1. /\ topUpCall'[c].about = [payment |-> p, status |-> as] /\ topUpCall'[c].at = "read"
  BY DEF Arrives, TopUpsTypeOK
<1>2. [payment |-> p, status |-> as] \in Event
  BY DEF Event
<1>3. payment'[p] # NotPaid /\ (as # "pending" => payment'[p].status = as)
  BY DEF WordHolds
<1>4. WordHolds(topUpCall[c].about)'
  BY <1>1, <1>3 DEF WordHolds
<1>5. QED
  BY <1>1, <1>2, <1>4 DEF Knows

\* No step makes what a call knows untrue.
LEMMA CallsStep ==
  ASSUME TopUpsInv, [TopUpsNext]_topUpVars
  PROVE  CallsKnow'
<1>1. TopUpsTypeOK /\ CallsKnow /\ PaidMeansCredited /\ (\A e \in undelivered : WordHolds(e))
  BY DEF TopUpsInv, CreditsMatchOrders
<1>2. SUFFICES ASSUME NEW c \in TopUpCalls PROVE Knows(c)'
  BY DEF CallsKnow, Knows
<1>3. CASE topUpCall'[c] = topUpCall[c]
  BY <1>1, <1>3, CallsKeep DEF Knows
<1>4. ASSUME NEW e \in Event, HandleWebhook(c, e) PROVE Knows(c)'
  <2>1. e.payment \in Payments /\ e.status \in PaymentStatuses /\ e = [payment |-> e.payment, status |-> e.status]
    BY DEF Event
  <2>2. QED
    BY <1>1, <1>4, <2>1, ArriveStep DEF HandleWebhook
<1>5. ASSUME NEW p \in Payments, ConfirmTopUp(c, p) PROVE Knows(c)'
  <2>1. payment[p].status \in PaymentStatuses /\ WordHolds([payment |-> p, status |-> payment[p].status])
    BY <1>1, <1>5 DEF ConfirmTopUp, TopUpsTypeOK, WordHolds
  <2>2. QED
    BY <1>1, <1>5, <2>1, ArriveStep DEF ConfirmTopUp
<1>6. CASE ReadOrder(c)
  BY <1>1, <1>6, ReadStep
<1>7. CASE MarkFailed(c) \/ PostTopUp(c)
  <2>1. topUpCall'[c].at = "answer" /\ topUpCall'[c].about = topUpCall[c].about /\ topUpCall[c].at # "none"
    BY <1>1, <1>7 DEF MarkFailed, PostTopUp, GoesOn, TopUpsTypeOK, TopUpCall
  <2>2. topUpCall[c].about \in Event /\ WordHolds(topUpCall[c].about)
    BY <1>1, <2>1 DEF CallsKnow
  <2>3. WordHolds(topUpCall[c].about)'
    <3>1. payment' = payment
      BY <1>7 DEF MarkFailed, PostTopUp
    <3>2. QED
      BY <2>1, <2>2, <3>1 DEF WordHolds
  <2>4. QED
    BY <2>1, <2>2, <2>3 DEF Knows
<1>8. CASE Answer(c) \/ Dies(c)
  BY <1>1, <1>8 DEF Answer, Dies, NoTopUpCall, TopUpsTypeOK, Knows
<1>9. QED
  <2>1. \/ topUpCall' = topUpCall
        \/ \E q \in TopUpCalls : \/ ReadOrder(q) \/ MarkFailed(q) \/ PostTopUp(q) \/ Answer(q) \/ Dies(q)
                                 \/ \E e \in Event : HandleWebhook(q, e)
                                 \/ \E p \in Payments : ConfirmTopUp(q, p)
    BY DEF TopUpsNext, topUpVars, CallStep, CreateTopUp, Pay, Settle
  <2>2. ASSUME NEW q \in TopUpCalls, q # c,
               \/ ReadOrder(q) \/ MarkFailed(q) \/ PostTopUp(q) \/ Answer(q) \/ Dies(q)
               \/ \E e \in Event : HandleWebhook(q, e)
               \/ \E p \in Payments : ConfirmTopUp(q, p)
        PROVE  topUpCall'[c] = topUpCall[c]
    BY <1>1, <2>2 DEF ReadOrder, MarkFailed, PostTopUp, Answer, Dies, HandleWebhook, ConfirmTopUp, Arrives,
       GoesOn, TopUpsTypeOK
  <2>3. QED
    BY <1>3, <1>4, <1>5, <1>6, <1>7, <1>8, <2>1, <2>2

-----------------------------------------------------------------------------
(* The ledger and the orders. *)

\* A posting credits a payment of the order that nothing had credited yet, unless
\* the call read the order before another call posted on it.
LEMMA PostStep ==
  ASSUME TopUpsInv, NEW c \in TopUpCalls, PostTopUp(c)
  PROVE  CreditsMatchOrders'
<1> DEFINE p == topUpCall[c].about.payment
           o == OrderOf(p)
<1>1. TopUpsTypeOK /\ CallsKnow /\ PaidMeansCredited /\ SecondPaymentRefused
  BY DEF TopUpsInv, CreditsMatchOrders
<1>2. /\ p \in Payments /\ o \in Orders /\ payment[p].status = "captured" /\ payment[p].sum = "ordered"
      /\ topUpCall[c].sawCredit => p \in credited
  BY <1>1 DEF PostTopUp, CallsKnow, Event, WordHolds, OrderOf, TopUpsTypeOK
<1>3. payment' = payment
  BY DEF PostTopUp
<1>4. CASE p \in credited
  BY <1>1, <1>3, <1>4 DEF PostTopUp, CreditsMatchOrders, PaidMeansCredited, SecondPaymentRefused, CreditedFor, OrderOf
<1>5. CASE p \notin credited
  <2>1. /\ credited' = credited \cup {p}
        /\ racedCredit' = IF CreditedFor(o) # {} THEN racedCredit \cup {p} ELSE racedCredit
        /\ orderStatus' = [orderStatus EXCEPT ![o] = "CAPTURED"] /\ paidBy' = [paidBy EXCEPT ![o] = p]
    BY <1>2, <1>5 DEF PostTopUp
  <2>2. \A q \in credited : q \in Payments
    BY <1>1 DEF TopUpsTypeOK
  <2>3. ASSUME NEW x \in Orders
        PROVE  IF orderStatus'[x] = "CAPTURED" THEN paidBy'[x] \in CreditedFor(x)' ELSE CreditedFor(x)' = {}
    <3>1. CASE x = o
      BY <1>1, <1>2, <1>3, <2>1, <3>1 DEF TopUpsTypeOK, CreditedFor, OrderOf
    <3>2. CASE x # o
      <4>1. CreditedFor(x)' = CreditedFor(x) /\ orderStatus'[x] = orderStatus[x] /\ paidBy'[x] = paidBy[x]
        BY <1>1, <1>3, <2>1, <3>2 DEF CreditedFor, OrderOf, TopUpsTypeOK
      <4>2. QED
        BY <1>1, <4>1 DEF PaidMeansCredited
    <3>3. QED
      BY <3>1, <3>2
  <2>4. PaidMeansCredited'
    BY <1>1, <1>2, <1>3, <2>1, <2>3 DEF PaidMeansCredited
  <2>5. SecondPaymentRefused'
    BY <1>1, <1>3, <2>1 DEF SecondPaymentRefused, CreditedFor, OrderOf
  <2>6. QED
    BY <2>4, <2>5 DEF CreditsMatchOrders
<1>6. QED
  BY <1>4, <1>5

LEMMA CreditsStep ==
  ASSUME TopUpsInv, [TopUpsNext]_topUpVars
  PROVE  CreditsMatchOrders'
<1>1. TopUpsTypeOK /\ PaidMeansCredited /\ SecondPaymentRefused
  BY DEF TopUpsInv, CreditsMatchOrders
<1>2. ASSUME UNCHANGED <<credited, racedCredit, paidBy>>,
             \A o \in Orders : orderStatus'[o] = "CAPTURED" <=> orderStatus[o] = "CAPTURED"
      PROVE  CreditsMatchOrders'
  <2>1. ASSUME NEW q \in credited
        PROVE  payment'[q].of = payment[q].of /\ payment'[q].status = "captured" /\ payment'[q].sum = "ordered"
    <3>1. q \in Payments /\ payment[q].status = "captured" /\ payment[q].sum = "ordered" /\ payment[q] # NotPaid
      BY <1>1 DEF TopUpsTypeOK, PaidMeansCredited, NotPaid
    <3>2. QED
      BY <1>1, <3>1, PaymentsKeep
  <2>2. \A o : CreditedFor(o)' = CreditedFor(o)
    BY <1>2, <2>1 DEF CreditedFor, OrderOf
  <2>3. QED
    BY <1>1, <1>2, <2>1, <2>2 DEF CreditsMatchOrders, PaidMeansCredited, SecondPaymentRefused, OrderOf
<1>3. ASSUME NEW o \in Orders, CreateTopUp(o) PROVE CreditsMatchOrders'
  <2>1. orderStatus \in [Orders -> OrderStatuses]
    BY <1>1 DEF TopUpsTypeOK
  <2>2. QED
    BY <1>2, <1>3, <2>1 DEF CreateTopUp
<1>4. ASSUME NEW c \in TopUpCalls, MarkFailed(c) PROVE CreditsMatchOrders'
  <2>1. orderStatus \in [Orders -> OrderStatuses]
    BY <1>1 DEF TopUpsTypeOK
  <2>2. QED
    BY <1>2, <1>4, <2>1 DEF MarkFailed, Fails
<1>5. ASSUME NEW c \in TopUpCalls, PostTopUp(c) PROVE CreditsMatchOrders'
  BY <1>5, PostStep
<1>6. CASE UNCHANGED <<orderStatus, credited, racedCredit, paidBy>>
  BY <1>2, <1>6
<1>7. QED
  BY <1>3, <1>4, <1>5, <1>6 DEF TopUpsNext, topUpVars, CallStep, Pay, Settle, HandleWebhook, ConfirmTopUp, ReadOrder,
     Answer, Dies

-----------------------------------------------------------------------------
LEMMA TopUpsInvInit == TopUpsInit => TopUpsInv
<1>1. TopUpsInit => CallsKnow /\ (\A e \in undelivered : WordHolds(e)) /\ CreditsMatchOrders
  BY DEF TopUpsInit, CallsKnow, NoTopUpCall, CreditsMatchOrders, PaidMeansCredited, SecondPaymentRefused, CreditedFor
<1>2. QED
  BY <1>1, TopUpsTypedInit DEF TopUpsInv

LEMMA TopUpsInvStep == TopUpsInv /\ [TopUpsNext]_topUpVars => TopUpsInv'
<1> SUFFICES ASSUME TopUpsInv, [TopUpsNext]_topUpVars PROVE TopUpsInv'
  OBVIOUS
<1>1. TopUpsTypeOK /\ CallsKnow /\ (\A e \in undelivered : WordHolds(e))
  BY DEF TopUpsInv
<1>2. TopUpsTypeOK'
  BY <1>1, TopUpsTypedStep
<1>3. (\A e \in undelivered : WordHolds(e))'
  BY <1>1, UndeliveredStep
<1>4. QED
  BY <1>2, <1>3, CallsStep, CreditsStep DEF TopUpsInv

\* What the ledger was credited with is what the orders say was paid, and a second
\* payment is credited only if it was read before the first was posted: for any
\* orders, payments and calls, repeated, reordered and cut short.
THEOREM LedgerMatchesOrders == TopUpsSpec => []CreditsMatchOrders
<1>1. TopUpsInv => CreditsMatchOrders
  BY DEF TopUpsInv
<1>2. QED
  BY TopUpsInvInit, TopUpsInvStep, <1>1, PTL DEF TopUpsSpec

\* Every variable of the orders, the gateway and the ledger has its type.
THEOREM TopUpsTypeCorrect == TopUpsSpec => []TopUpsTypeOK
<1>1. TopUpsInv => TopUpsTypeOK
  BY DEF TopUpsInv
<1>2. QED
  BY TopUpsInvInit, TopUpsInvStep, <1>1, PTL DEF TopUpsSpec

HIDE TopUpsAssumption
=============================================================================
