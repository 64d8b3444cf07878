--------------------------- MODULE ChargingProofs ---------------------------
(***************************************************************************)
(* What module Charging guarantees for any number of check-ins and worker  *)
(* slots, any prices and any bounds: its type invariant, that a show-up is *)
(* charged at most once, at the price of its arrival however late the      *)
(* charge is made, and that a completed job has left nothing to charge.    *)
(***************************************************************************)
EXTENDS Charging, TLAPS

\* Every action, for the case splits below.
LEMMA NextCases ==
    ASSUME Next
    PROVE  \/ \E c \in CheckIns, state \in {"flagged", "valid"} : Arrive(c, state)
           \/ \E c \in CheckIns : Confirm(c)
           \/ \E price \in Prices, from \in 0..MaxTime : SetPrice(price, from)
           \/ Tick
           \/ \E c \in CheckIns : Deliver(c)
           \/ \E c \in CheckIns : LoseCall(c)
           \/ \E c \in CheckIns : ForgetCompleted(c)
           \/ \E c \in CheckIns : RetryJob(c)
           \/ \E c \in CheckIns : Recover(c)
           \/ \E c \in CheckIns : LoseLock(c)
           \/ \E c \in CheckIns : SweepAdd(c)
           \/ \E w \in Workers : ReadPrice(w)
           \/ \E w \in Workers : CheckFirstRule(w)
           \/ \E w \in Workers : FindPosting(w)
           \/ \E w \in Workers : InsertLegs(w)
           \/ \E w \in Workers : Commit(w)
           \/ \E w \in Workers : Finish(w)
           \/ \E w \in Workers : Fail(w)
           \/ \E w \in Workers : Die(w)
           \/ \E w \in Workers, c \in CheckIns : Take(w, c)
           \/ Sweep
BY Zenon DEF Next, World, Advance

-----------------------------------------------------------------------------
(* Type correctness. *)

\* What the queue's own operators do to the jobs keeps them jobs.
LEMMA AddedType ==
    ASSUME TypeOK, NEW c \in CheckIns
    PROVE  Added(c) \in [CheckIns -> Job]
<1> job[c] \in Job
    BY DEF TypeOK
<1>1. [NoJob EXCEPT !.state = "waiting"] \in Job
    BY NumberAssumption DEF NoJob, Job
<1> QED BY <1>1 DEF Added, TypeOK

\* Taking a job back leaves it a job.
LEMMA TakenBackType ==
    ASSUME TypeOK, NEW c \in CheckIns
    PROVE  TakenBack(c) \in [CheckIns -> Job]
<1> DEFINE stalls == IF job[c].stalls > MaxStalls THEN job[c].stalls ELSE job[c].stalls + 1
<1> job[c] \in Job
    BY DEF TypeOK
<1>1. stalls \in 0..(MaxStalls + 1)
    BY NumberAssumption DEF Job
<1> HIDE DEF stalls
<1>2. [job[c] EXCEPT !.state = IF stalls > MaxStalls THEN "failed" ELSE "waiting",
                     !.stalls = stalls, !.holder = NoWorker] \in Job
    BY <1>1 DEF Job
<1> QED BY <1>2 DEF TakenBack, TypeOK, stalls

\* A failed attempt leaves the job a job.
LEMMA FailedType ==
    ASSUME TypeOK, NEW w \in Workers, run[w].of \in CheckIns, NEW final \in BOOLEAN
    PROVE  Failed(w, final) \in [CheckIns -> Job]
<1> DEFINE c == run[w].of
           tries == IF job[c].tries < Attempts THEN job[c].tries + 1 ELSE Attempts
<1> job[c] \in Job
    BY DEF TypeOK
<1>1. tries \in 0..Attempts
    BY NumberAssumption DEF Job
<1> HIDE DEF tries
<1>2. [job[c] EXCEPT !.state = IF final \/ tries = Attempts THEN "failed" ELSE "waiting",
                     !.tries = tries, !.holder = NoWorker] \in Job
    BY <1>1 DEF Job
<1> QED BY <1>2 DEF Failed, TypeOK, tries

\* A busy slot works on a check-in.
BusyOnCheckIn == \A w \in Workers : run[w].step # "idle" => run[w].of \in CheckIns

\* The types, with what they need of a busy slot.
TypeInv == TypeOK /\ BusyOnCheckIn

\* The first state is of the right type.
LEMMA TypeInit == Init => TypeInv
<1> SUFFICES ASSUME Init PROVE TypeInv
    OBVIOUS
<1>1. arrived \in [CheckIns -> [state : {"none", "flagged", "valid"}, at : Nat]]
    <2>1. NotArrived \in [state : {"none", "flagged", "valid"}, at : Nat]
        BY DEF NotArrived
    <2>2. [state : {"flagged", "valid"}, at : {Launch - 1}]
              \subseteq [state : {"none", "flagged", "valid"}, at : Nat]
        BY NumberAssumption
    <2> QED BY <2>1, <2>2 DEF Init
<1>2. job \in [CheckIns -> Job]
    BY NumberAssumption DEF Init, Job, NoJob
<1>3. run \in [Workers -> Run] /\ BusyOnCheckIn
    BY DEF Init, Run, Steps, Resting, BusyOnCheckIn
<1>4. rules \subseteq [price : Nat, from : Nat, made : Nat] /\ clock \in Nat
    BY NumberAssumption, PriceAssumption DEF Init
<1> QED BY <1>1, <1>2, <1>3, <1>4 DEF Init, TypeInv, TypeOK

\* Every step keeps the types, and a busy slot on a check-in.
LEMMA TypeNext == TypeInv /\ [Next]_vars => TypeInv'
<1> SUFFICES ASSUME TypeInv, [Next]_vars PROVE TypeInv'
    OBVIOUS
<1> USE DEF TypeInv
<1> DEFINE RunsType == run' \in [Workers -> Run] /\ BusyOnCheckIn'
\* A slot that goes on with what it has, and one that stops.
<1>1. ASSUME NEW w \in Workers, NEW step \in Steps, run[w].step # "idle", Reach(w, step)
      PROVE  RunsType
    BY <1>1 DEF Reach, Go, TypeOK, Run, BusyOnCheckIn
<1>2. ASSUME NEW w \in Workers, Go(w, Resting)
      PROVE  RunsType
    BY <1>2 DEF Go, TypeOK, Run, Steps, Resting, BusyOnCheckIn
<1>3. ASSUME UNCHANGED run
      PROVE  RunsType
    BY <1>3 DEF TypeOK, BusyOnCheckIn
<1> HIDE DEF RunsType
<1>4. CASE UNCHANGED vars
    BY <1>4, <1>3 DEF vars, TypeOK, RunsType
<1>5. ASSUME NEW c \in CheckIns, NEW state \in {"flagged", "valid"}, Arrive(c, state)
      PROVE  TypeInv'
    BY <1>5, <1>3 DEF Arrive, QueueCharge, troubles, TypeOK, RunsType
<1>6. ASSUME NEW c \in CheckIns, Confirm(c)
      PROVE  TypeInv'
    BY <1>6, <1>3 DEF Confirm, QueueCharge, troubles, TypeOK, RunsType
<1>7. ASSUME NEW price \in Prices, NEW from \in 0..MaxTime, SetPrice(price, from)
      PROVE  TypeInv'
    <2>1. [price |-> price, from |-> from, made |-> clock] \in [price : Nat, from : Nat, made : Nat]
        BY PriceAssumption, NumberAssumption DEF TypeOK
    <2> QED BY <1>7, <1>3, <2>1 DEF SetPrice, troubles, TypeOK, RunsType
<1>8. CASE Tick
    BY <1>8, <1>3 DEF Tick, troubles, TypeOK, RunsType
<1>9. ASSUME NEW c \in CheckIns, Deliver(c)
      PROVE  TypeInv'
    BY <1>9, <1>3, AddedType DEF Deliver, world, troubles, TypeOK, RunsType
<1>10. ASSUME NEW c \in CheckIns, LoseCall(c)
       PROVE  TypeInv'
    BY <1>10, <1>3 DEF LoseCall, world, troubles, TypeOK, RunsType
<1>11. ASSUME NEW c \in CheckIns, ForgetCompleted(c)
       PROVE  TypeInv'
    <2>1. NoJob \in Job
        BY NumberAssumption DEF NoJob, Job
    <2> QED BY <1>11, <1>3, <2>1 DEF ForgetCompleted, world, troubles, TypeOK, RunsType
<1>12. ASSUME NEW c \in CheckIns, RetryJob(c)
       PROVE  TypeInv'
    <2>1. job' \in [CheckIns -> Job]
        BY <1>12 DEF RetryJob, TypeOK, Job
    <2> QED BY <1>12, <1>3, <2>1 DEF RetryJob, world, troubles, TypeOK, RunsType
<1>13. ASSUME NEW c \in CheckIns, Recover(c)
       PROVE  TypeInv'
    BY <1>13, <1>3, TakenBackType DEF Recover, world, troubles, TypeOK, RunsType
<1>14. ASSUME NEW c \in CheckIns, LoseLock(c)
       PROVE  TypeInv'
    BY <1>14, <1>3, TakenBackType DEF LoseLock, world, TypeOK, RunsType
<1>15. ASSUME NEW c \in CheckIns, SweepAdd(c)
       PROVE  TypeInv'
    BY <1>15, <1>3, AddedType DEF SweepAdd, world, troubles, TypeOK, RunsType
<1>16. ASSUME NEW w \in Workers, NEW c \in CheckIns, Take(w, c)
       PROVE  TypeInv'
    <2>1. job' \in [CheckIns -> Job]
        BY <1>16 DEF Take, TypeOK, Job
    <2>2. RunsType
        BY <1>16 DEF Take, Go, TypeOK, Run, Steps, Resting, BusyOnCheckIn, RunsType
    <2> QED BY <1>16, <2>1, <2>2 DEF Take, world, troubles, TypeOK, RunsType
<1>17. ASSUME NEW w \in Workers, ReadPrice(w)
       PROVE  TypeInv'
    <2>1. CASE Reach(w, "done") \/ Reach(w, "unpriced")
        BY <1>17, <2>1, <1>1 DEF ReadPrice, Steps, world, troubles, TypeOK, RunsType
    <2>2. ASSUME NEW r \in PriceAt(run[w].of),
                 Go(w, [run[w] EXCEPT !.step = "priced", !.price = r.price])
          PROVE  TypeInv'
        <3>1. r.price \in Nat
            BY DEF PriceAt, InEffect, TypeOK
        <3>2. RunsType
            BY <1>17, <2>2, <3>1 DEF ReadPrice, Go, TypeOK, Run, Steps, BusyOnCheckIn, RunsType
        <3> QED BY <1>17, <3>2 DEF ReadPrice, world, troubles, TypeOK, RunsType
    <2> QED BY <1>17, <2>1, <2>2 DEF ReadPrice
<1>18. ASSUME NEW w \in Workers, CheckFirstRule(w)
       PROVE  TypeInv'
    <2>1. run[w].of \in CheckIns
        BY <1>18 DEF CheckFirstRule, BusyOnCheckIn
    <2>2. RunsType
        BY <1>18, <1>1, <1>2 DEF CheckFirstRule, Steps
    <2>3. job' \in [CheckIns -> Job]
        BY <1>18, <2>1, FailedType DEF CheckFirstRule, TypeOK
    <2> QED BY <1>18, <2>2, <2>3 DEF CheckFirstRule, world, troubles, TypeOK, RunsType
<1>19. ASSUME NEW w \in Workers, FindPosting(w)
       PROVE  TypeInv'
    <2>1. RunsType
        BY <1>19, <1>1 DEF FindPosting, Steps
    <2> QED BY <1>19, <2>1 DEF FindPosting, world, troubles, TypeOK, RunsType
<1>20. ASSUME NEW w \in Workers, InsertLegs(w)
       PROVE  TypeInv'
    <2>1. RunsType
        BY <1>20, <1>1 DEF InsertLegs, Steps
    <2> QED BY <1>20, <2>1 DEF InsertLegs, world, troubles, TypeOK, RunsType
<1>21. ASSUME NEW w \in Workers, Commit(w)
       PROVE  TypeInv'
    <2>1. RunsType
        BY <1>21, <1>1 DEF Commit, Steps
    <2>2. ledger' \in [CheckIns -> Seq(Nat)]
        BY <1>21 DEF Commit, TypeOK, Run, BusyOnCheckIn
    <2> QED BY <1>21, <2>1, <2>2 DEF Commit, world, troubles, TypeOK, RunsType
<1>22. ASSUME NEW w \in Workers, Finish(w)
       PROVE  TypeInv'
    <2>1. RunsType
        BY <1>22, <1>2 DEF Finish
    <2>2. run[w].of \in CheckIns
        BY <1>22 DEF Finish, BusyOnCheckIn
    <2>3. [job[run[w].of] EXCEPT !.state = "completed", !.holder = NoWorker] \in Job
        BY <2>2 DEF TypeOK, Job
    <2>4. job' \in [CheckIns -> Job]
        BY <1>22, <2>2, <2>3 DEF Finish, TypeOK
    <2> QED BY <1>22, <2>1, <2>4 DEF Finish, world, troubles, TypeOK, RunsType
<1>23. ASSUME NEW w \in Workers, Fail(w)
       PROVE  TypeInv'
    <2>1. run[w].of \in CheckIns
        BY <1>23 DEF Fail, BusyOnCheckIn
    <2>2. RunsType
        BY <1>23, <1>2 DEF Fail
    <2>3. job' \in [CheckIns -> Job]
        BY <1>23, <2>1, FailedType DEF Fail
    <2>4. failures' \in Nat /\ UNCHANGED <<world, calls, batch, ledger, lapses>>
        BY <1>23 DEF Fail, TypeOK
    <2> QED BY <2>2, <2>3, <2>4 DEF world, TypeOK, RunsType
<1>24. ASSUME NEW w \in Workers, Die(w)
       PROVE  TypeInv'
    BY <1>24, <1>2 DEF Die, world, TypeOK, RunsType
<1>25. CASE Sweep
    BY <1>25, <1>3 DEF Sweep, Uncharged, world, troubles, TypeOK, RunsType
<1>26. CASE Next
    BY <1>26, NextCases, <1>5, <1>6, <1>7, <1>8, <1>9, <1>10, <1>11, <1>12, <1>13, <1>14, <1>15,
       <1>16, <1>17, <1>18, <1>19, <1>20, <1>21, <1>22, <1>23, <1>24, <1>25
<1> QED BY <1>4, <1>26

\* Every variable keeps its type, and a busy slot has a check-in: the form
\* in which the type invariant is inductive.
THEOREM TypeInvariant == Spec => []TypeInv
BY TypeInit, TypeNext, PTL DEF Spec

\* Every variable keeps its type.
THEOREM TypeCorrect == Spec => []TypeOK
<1>1. TypeInv => TypeOK
    BY DEF TypeInv
<1> QED BY <1>1, TypeInvariant, PTL

-----------------------------------------------------------------------------
(* What a step may do to each part of the state. *)

\* A check-in that is valid stays as it is.
LEMMA ValidKept ==
    ASSUME TypeInv, [Next]_vars, NEW c \in CheckIns, Valid(c)
    PROVE  arrived'[c] = arrived[c] /\ Valid(c)'
<1> USE DEF TypeInv
<1>1. ASSUME NEW d \in CheckIns, NEW state \in {"flagged", "valid"}, Arrive(d, state)
      PROVE  arrived'[c] = arrived[c]
    BY <1>1 DEF Arrive, NotArrived, Valid, TypeOK
<1>2. ASSUME NEW d \in CheckIns, Confirm(d)
      PROVE  arrived'[c] = arrived[c]
    BY <1>2 DEF Confirm, Valid, TypeOK
<1>3. arrived'[c] = arrived[c]
    BY <1>1, <1>2, NextCases
       DEF vars, world, SetPrice, Tick, Deliver, LoseCall, ForgetCompleted, RetryJob, Recover, LoseLock,
           SweepAdd, ReadPrice, CheckFirstRule, FindPosting, InsertLegs, Commit, Finish, Fail, Die,
           Take, Sweep
<1> QED BY <1>3 DEF Valid

\* Prices are only ever added, from the day they are made or a little earlier.
LEMMA RulesMove ==
    ASSUME [Next]_vars
    PROVE  \/ UNCHANGED rules
           \/ \E price, from : rules' = rules \cup {[price |-> price, from |-> from, made |-> clock]}
BY NextCases
   DEF vars, world, Arrive, Confirm, SetPrice, Tick, Deliver, LoseCall, ForgetCompleted, RetryJob,
       Recover, LoseLock, SweepAdd, ReadPrice, CheckFirstRule, FindPosting, InsertLegs, Commit,
       Finish, Fail, Die, Take, Sweep

\* A job comes from a call or from the sweep, and is completed by a slot that
\* is done with it.
LEMMA JobMoves ==
    ASSUME TypeInv, [Next]_vars, NEW c \in CheckIns
    PROVE  /\ job'[c].state # "none" => job[c].state # "none" \/ c \in calls \cup batch
           /\ job'[c].state = "completed" =>
                job[c].state = "completed" \/ \E w \in Workers : run[w].step = "done" /\ run[w].of = c
<1> USE DEF TypeInv
<1> DEFINE Ok == /\ job'[c].state # "none" => job[c].state # "none" \/ c \in calls \cup batch
                 /\ job'[c].state = "completed" =>
                      job[c].state = "completed" \/ \E w \in Workers : run[w].step = "done" /\ run[w].of = c
<1>1. ASSUME NEW d \in CheckIns, job' = Added(d), d \in calls \cup batch
      PROVE  Ok
    BY <1>1 DEF Added, TypeOK, Job, NoJob
<1>2. ASSUME NEW d \in CheckIns, job' = TakenBack(d), job[d].state = "active"
      PROVE  Ok
    BY <1>2 DEF TakenBack, TypeOK, Job
<1>3. ASSUME NEW w \in Workers, run[w].of \in CheckIns, NEW final \in BOOLEAN, job' = Failed(w, final)
      PROVE  Ok
    BY <1>3 DEF Failed, TypeOK, Job
<1>4. ASSUME NEW d \in CheckIns, ForgetCompleted(d)
      PROVE  Ok
    BY <1>4 DEF ForgetCompleted, TypeOK, Job, NoJob
<1>5. ASSUME NEW d \in CheckIns, RetryJob(d)
      PROVE  Ok
    BY <1>5 DEF RetryJob, TypeOK, Job
<1>6. ASSUME NEW w \in Workers, NEW d \in CheckIns, Take(w, d)
      PROVE  Ok
    BY <1>6 DEF Take, TypeOK, Job
<1>7. ASSUME NEW w \in Workers, Finish(w)
      PROVE  Ok
    <2>1. run[w].of \in CheckIns
        BY <1>7 DEF Finish, BusyOnCheckIn
    <2> QED BY <1>7, <2>1 DEF Finish, TypeOK, Job
<1>8. ASSUME NEW w \in Workers, CheckFirstRule(w) \/ Fail(w)
      PROVE  Ok
    <2>1. run[w].of \in CheckIns
        BY <1>8 DEF CheckFirstRule, Fail, BusyOnCheckIn
    <2> QED BY <1>8, <2>1, <1>3 DEF CheckFirstRule, Fail
<1>9. ASSUME NEW d \in CheckIns, Deliver(d) \/ SweepAdd(d)
      PROVE  Ok
    BY <1>9, <1>1 DEF Deliver, SweepAdd
<1>10. ASSUME NEW d \in CheckIns, Recover(d) \/ LoseLock(d)
       PROVE  Ok
    BY <1>10, <1>2 DEF Recover, LoseLock
<1>11. CASE UNCHANGED job
    BY <1>11
<1>12. ASSUME NEW d \in CheckIns, NEW state \in {"flagged", "valid"}, Arrive(d, state)
       PROVE  Ok
    BY <1>12, <1>11 DEF Arrive
<1>13. ASSUME NEW price \in Prices, NEW from \in 0..MaxTime, SetPrice(price, from)
       PROVE  Ok
    BY <1>13, <1>11 DEF SetPrice
<1>14. ASSUME NEW d \in CheckIns, Confirm(d) \/ LoseCall(d)
       PROVE  Ok
    BY <1>14, <1>11 DEF Confirm, LoseCall
<1>15. ASSUME NEW w \in Workers, ReadPrice(w) \/ FindPosting(w) \/ InsertLegs(w) \/ Commit(w) \/ Die(w)
       PROVE  Ok
    BY <1>15, <1>11 DEF ReadPrice, FindPosting, InsertLegs, Commit, Die
<1>16. CASE Tick \/ Sweep \/ UNCHANGED vars
    BY <1>16, <1>11 DEF Tick, Sweep, vars
<1>17. CASE Next
    BY <1>17, NextCases, <1>4, <1>5, <1>6, <1>7, <1>8, <1>9, <1>10, <1>12, <1>13, <1>14, <1>15, <1>16
<1> QED BY <1>16, <1>17

\* A slot rests, takes a waiting job, or goes on with the one it has.
LEMMA SlotMoves ==
    ASSUME TypeInv, [Next]_vars, NEW w \in Workers
    PROVE  \/ run'[w] = run[w]
           \/ run'[w] = Resting
           \/ \E c \in CheckIns : /\ job[c].state = "waiting"
                                 /\ run'[w] = [Resting EXCEPT !.step = "begun", !.of = c]
           \/ ReadPrice(w) \/ CheckFirstRule(w) \/ FindPosting(w) \/ InsertLegs(w) \/ Commit(w)
<1> USE DEF TypeInv
<1> DEFINE Ok == \/ run'[w] = run[w]
                 \/ run'[w] = Resting
                 \/ \E c \in CheckIns : /\ job[c].state = "waiting"
                                       /\ run'[w] = [Resting EXCEPT !.step = "begun", !.of = c]
                 \/ ReadPrice(w) \/ CheckFirstRule(w) \/ FindPosting(w) \/ InsertLegs(w) \/ Commit(w)
<1>1. CASE UNCHANGED run
    BY <1>1
<1>2. ASSUME NEW v \in Workers, v # w, NEW r, Go(v, r)
      PROVE  run'[w] = run[w]
    BY <1>2 DEF Go, TypeOK
<1>3. ASSUME NEW v \in Workers, Go(v, Resting)
      PROVE  Ok
    BY <1>2, <1>3 DEF Go, TypeOK
<1>4. ASSUME NEW v \in Workers, NEW c \in CheckIns, Take(v, c)
      PROVE  Ok
    BY <1>4 DEF Take, Go, TypeOK
<1>5. ASSUME NEW v \in Workers, Finish(v) \/ Fail(v) \/ Die(v)
      PROVE  Ok
    BY <1>5, <1>3 DEF Finish, Fail, Die
<1>6. ASSUME NEW v \in Workers, v # w,
             ReadPrice(v) \/ CheckFirstRule(v) \/ FindPosting(v) \/ InsertLegs(v) \/ Commit(v)
      PROVE  run'[w] = run[w]
    BY <1>6, <1>2 DEF ReadPrice, CheckFirstRule, FindPosting, InsertLegs, Commit, Reach
<1>7. ASSUME NEW c \in CheckIns, NEW state \in {"flagged", "valid"}, Arrive(c, state)
      PROVE  Ok
    BY <1>7, <1>1 DEF Arrive
<1>8. ASSUME NEW price \in Prices, NEW from \in 0..MaxTime, SetPrice(price, from)
      PROVE  Ok
    BY <1>8, <1>1 DEF SetPrice
<1>9. ASSUME NEW c \in CheckIns,
             \/ Confirm(c) \/ Deliver(c) \/ LoseCall(c) \/ ForgetCompleted(c) \/ RetryJob(c)
             \/ Recover(c) \/ LoseLock(c) \/ SweepAdd(c)
      PROVE  Ok
    BY <1>9, <1>1
       DEF Confirm, Deliver, LoseCall, ForgetCompleted, RetryJob, Recover, LoseLock, SweepAdd
<1>10. CASE Tick \/ Sweep \/ UNCHANGED vars
    BY <1>10, <1>1 DEF Tick, Sweep, vars
<1>11. CASE Next
    BY <1>11, NextCases, <1>4, <1>5, <1>6, <1>7, <1>8, <1>9, <1>10
<1> QED BY <1>10, <1>11

\* A busy slot keeps its check-in, or has just taken a waiting job.
LEMMA SlotsKeepTheirCheckIn ==
    ASSUME TypeInv, [Next]_vars, NEW w \in Workers, run'[w].step # "idle"
    PROVE  \/ run[w].step # "idle" /\ run'[w].of = run[w].of
           \/ \E c \in CheckIns : job[c].state = "waiting" /\ run'[w].of = c /\ run'[w].step = "begun"
<1> run[w] \in Run
    BY DEF TypeInv, TypeOK
<1>1. CASE run'[w] = run[w] \/ run'[w] = Resting
    BY <1>1 DEF Resting
<1>2. CASE \E c \in CheckIns : /\ job[c].state = "waiting"
                              /\ run'[w] = [Resting EXCEPT !.step = "begun", !.of = c]
    BY <1>2 DEF Resting
<1>3. CASE ReadPrice(w) \/ CheckFirstRule(w) \/ FindPosting(w) \/ InsertLegs(w) \/ Commit(w)
    <2>1. ASSUME NEW r, r.of = run[w].of, Go(w, r)
          PROVE  run'[w].of = run[w].of
        BY <2>1 DEF Go, TypeInv, TypeOK
    <2>2. ASSUME NEW step, Reach(w, step)
          PROVE  run'[w].of = run[w].of
        BY <2>2, <2>1 DEF Reach, Run
    <2>3. ASSUME CheckFirstRule(w)
          PROVE  run'[w].of = run[w].of
        <3>1. ~ Go(w, Resting)
            BY DEF Go, Resting, TypeInv, TypeOK
        <3>2. Reach(w, "done")
            BY <2>3, <3>1, Zenon DEF CheckFirstRule
        <3> QED BY <3>2, <2>2
    <2>4. ASSUME ReadPrice(w)
          PROVE  run'[w].of = run[w].of
        BY <2>4, <2>1, <2>2 DEF ReadPrice, Run
    <2>5. run'[w].of = run[w].of
        BY <1>3, <2>2, <2>3, <2>4 DEF FindPosting, InsertLegs, Commit
    <2> QED BY <1>3, <2>5 DEF ReadPrice, CheckFirstRule, FindPosting, InsertLegs, Commit
<1> QED BY <1>1, <1>2, <1>3, SlotMoves

\* Only a commit posts, and it posts once.
LEMMA LedgerMoves ==
    ASSUME TypeInv, [Next]_vars
    PROVE  UNCHANGED ledger \/ \E w \in Workers : Commit(w)
BY NextCases
   DEF vars, world, Arrive, Confirm, SetPrice, Tick, Deliver, LoseCall, ForgetCompleted, RetryJob,
       Recover, LoseLock, SweepAdd, ReadPrice, CheckFirstRule, FindPosting, InsertLegs,
       Finish, Fail, Die, Take, Sweep

\* A posting that is there stays, and a commit leaves one.
LEMMA CommitPosts ==
    ASSUME TypeInv, NEW w \in Workers, Commit(w)
    PROVE  /\ ledger'[run[w].of] # <<>>
           /\ \A c \in CheckIns : c # run[w].of => ledger'[c] = ledger[c]
<1>1. run[w].of \in CheckIns /\ run[w].price \in Nat /\ ledger[run[w].of] \in Seq(Nat)
    BY DEF Commit, TypeInv, TypeOK, BusyOnCheckIn, Run
<1>2. ledger' = [ledger EXCEPT ![run[w].of] = Append(@, run[w].price)]
    BY DEF Commit
<1>3. \A s \in Seq(Nat), n \in Nat : Append(s, n) # <<>>
    <2> TAKE s \in Seq(Nat), n \in Nat
    <2>1. Len(Append(s, n)) = Len(s) + 1 /\ Len(s) \in Nat
        OBVIOUS
    <2> QED BY <2>1
<1> QED BY <1>1, <1>2, <1>3 DEF TypeInv, TypeOK

\* Only valid check-ins are called for or swept.
LEMMA CallMoves ==
    ASSUME TypeInv, [Next]_vars, NEW c \in calls' \cup batch'
    PROVE  c \in calls \cup batch \/ Valid(c)'
<1> USE DEF TypeInv
<1>1. ASSUME NEW d \in CheckIns, NEW state \in {"flagged", "valid"}, Arrive(d, state)
      PROVE  c \in calls \cup batch \/ Valid(c)'
    BY <1>1 DEF Arrive, QueueCharge, Valid, TypeOK
<1>2. ASSUME NEW d \in CheckIns, Confirm(d)
      PROVE  c \in calls \cup batch \/ Valid(c)'
    BY <1>2 DEF Confirm, QueueCharge, Valid, TypeOK
<1>3. CASE Sweep
    BY <1>3 DEF Sweep, Uncharged, Valid, world
<1> QED
    BY <1>1, <1>2, <1>3, NextCases
       DEF vars, SetPrice, Tick, Deliver, LoseCall, ForgetCompleted, RetryJob, Recover, LoseLock,
           SweepAdd, ReadPrice, CheckFirstRule, FindPosting, InsertLegs, Commit, Finish, Fail, Die, Take

-----------------------------------------------------------------------------
(* The invariants the theorems rest on. *)

\* Calls, jobs, slots and postings only ever concern a valid check-in.
OnlyValid ==
    /\ \A c \in calls \cup batch : Valid(c)
    /\ \A c \in CheckIns : job[c].state # "none" \/ ledger[c] # <<>> => Valid(c)
    /\ \A w \in Workers : run[w].step # "idle" => Valid(run[w].of)

\* Legs are inserted only where nothing is posted, by one slot at a time.
OneInsert ==
    /\ \A c \in CheckIns : Len(ledger[c]) <= 1
    /\ \A w \in Workers : run[w].step = "inserted" => ledger[run[w].of] = <<>>
    /\ \A v, w \in Workers :
          run[v].step = "inserted" /\ run[w].step = "inserted" /\ run[v].of = run[w].of => v = w

\* Time has reached every arrival, and prices differ in when they start and
\* reach back no further than Grace.
RulesInOrder ==
    /\ \A c \in CheckIns : arrived[c].at <= clock
    /\ \A r, q \in rules : r.from = q.from => r = q
    /\ \A r \in rules : r.made <= r.from + Grace

\* A price that may be charged for an arrival at a time.
Fits(price, at) == \E r \in rules :
    /\ r.price = price
    /\ r.from <= at /\ r.made <= at + Grace
    /\ \A q \in rules : q.made < at /\ q.from <= at => q.from <= r.from

PricesFit ==
    /\ \A w \in Workers : run[w].step \in {"priced", "absent", "inserted"} => Fits(run[w].price, arrived[run[w].of].at)
    /\ \A c \in CheckIns : \A i \in DOMAIN ledger[c] : Fits(ledger[c][i], arrived[c].at)

\* Nothing to charge, or only under a price made since.
Settled(c) == ledger[c] # <<>> \/ (\A r \in PriceAt(c) : r.price = 0) \/ RepricedLate(c)

DoneIsSettled ==
    /\ \A w \in Workers : run[w].step = "done" => Settled(run[w].of)
    /\ \A w \in Workers : run[w].step = "unpriced" => PriceAt(run[w].of) = {} \/ RepricedLate(run[w].of)
    /\ \A c \in CheckIns : job[c].state = "completed" => Settled(c)

-----------------------------------------------------------------------------
(* One charge. *)

\* Nothing is called for, queued, worked on or posted that is not a valid
\* check-in (every caller of queueCharge and the sweep ask for is_valid).
THEOREM OnlyValidHolds == Spec => []OnlyValid
<1>1. Init => OnlyValid
    BY DEF Init, OnlyValid, NoJob, Resting
<1>2. ASSUME TypeInv, OnlyValid, [Next]_vars
      PROVE  OnlyValid'
    <2> USE <1>2
    <2>1. ASSUME NEW c \in calls' \cup batch'
          PROVE  Valid(c)'
        <3>1. CASE c \in calls \cup batch
            BY <3>1, ValidKept DEF OnlyValid, TypeInv, TypeOK
        <3> QED BY <3>1, CallMoves
    <2>2. ASSUME NEW c \in CheckIns, job'[c].state # "none"
          PROVE  Valid(c)'
        <3>1. job[c].state # "none" \/ c \in calls \cup batch
            BY <2>2, JobMoves
        <3>2. Valid(c)
            BY <3>1 DEF OnlyValid
        <3> QED BY <3>2, ValidKept
    <2>3. ASSUME NEW c \in CheckIns, ledger'[c] # <<>>
          PROVE  Valid(c)'
        <3>1. Valid(c)
            <4>1. CASE UNCHANGED ledger
                BY <4>1, <2>3 DEF OnlyValid
            <4>2. CASE \E w \in Workers : Commit(w)
                <5> PICK w \in Workers : Commit(w)
                    BY <4>2
                <5>1. Valid(run[w].of)
                    BY DEF Commit, OnlyValid
                <5>2. ledger'[c] = ledger[c] \/ c = run[w].of
                    BY DEF Commit, TypeInv, TypeOK
                <5> QED BY <5>1, <5>2, <2>3 DEF OnlyValid
            <4> QED BY <4>1, <4>2, LedgerMoves
        <3> QED BY <3>1, ValidKept
    <2>4. ASSUME NEW w \in Workers, run'[w].step # "idle"
          PROVE  Valid(run[w].of)'
        <3>1. CASE run[w].step # "idle" /\ run'[w].of = run[w].of
            <4>1. run[w].of \in CheckIns /\ Valid(run[w].of)
                BY <3>1 DEF OnlyValid, TypeInv, BusyOnCheckIn
            <4>2. arrived'[run[w].of] = arrived[run[w].of]
                BY <4>1, ValidKept
            <4> QED BY <3>1, <4>1, <4>2 DEF Valid
        <3>2. CASE \E c \in CheckIns : job[c].state = "waiting" /\ run'[w].of = c /\ run'[w].step = "begun"
            <4> PICK c \in CheckIns : job[c].state = "waiting" /\ run'[w].of = c
                BY <3>2
            <4>1. Valid(c)
                BY DEF OnlyValid
            <4>2. Valid(c)'
                BY <4>1, ValidKept
            <4> QED BY <4>2 DEF Valid
        <3> QED BY <3>1, <3>2, <2>4, SlotsKeepTheirCheckIn
    <2> QED BY <2>1, <2>2, <2>3, <2>4 DEF OnlyValid
<1> QED BY <1>1, <1>2, TypeInvariant, PTL DEF Spec

\* Who has inserted in the new state either had before, or inserts now.
LEMMA InsertMoves ==
    ASSUME TypeInv, [Next]_vars, NEW w \in Workers, run'[w].step = "inserted"
    PROVE  \/ run[w].step = "inserted" /\ ~ Commit(w) /\ run'[w] = run[w]
           \/ /\ InsertLegs(w) /\ ledger[run[w].of] = <<>>
              /\ run'[w].of = run[w].of
<1> run[w] \in Run
    BY DEF TypeInv, TypeOK
<1>1. ASSUME NEW step, Reach(w, step)
      PROVE  run'[w].step = step /\ run'[w].of = run[w].of
    BY <1>1 DEF Reach, Go, TypeInv, TypeOK, Run
<1>2. ~ Commit(w)
    BY <1>1 DEF Commit
<1>3. ~ FindPosting(w)
    BY <1>1 DEF FindPosting
<1>4. ASSUME CheckFirstRule(w)
      PROVE  FALSE
    <2>1. ~ Go(w, Resting)
        BY DEF Go, Resting, TypeInv, TypeOK
    <2>2. Reach(w, "done")
        BY <1>4, <2>1, Zenon DEF CheckFirstRule
    <2> QED BY <2>2, <1>1
<1>5. ASSUME ReadPrice(w)
      PROVE  FALSE
    <2>1. ASSUME NEW r, r.step = "priced", Go(w, r)
          PROVE  FALSE
        BY <2>1 DEF Go, TypeInv, TypeOK
    <2>2. \/ \E step \in {"done", "unpriced"} : Reach(w, step)
          \/ \E r \in rules : Go(w, [run[w] EXCEPT !.step = "priced", !.price = r.price])
        BY <1>5 DEF ReadPrice, PriceAt, InEffect
    <2> QED BY <1>1, <2>1, <2>2 DEF Run
<1>6. ASSUME InsertLegs(w)
      PROVE  ledger[run[w].of] = <<>> /\ run'[w].of = run[w].of
    BY <1>6, <1>1 DEF InsertLegs
<1>7. CASE run'[w] = run[w]
    BY <1>7, <1>2
<1>8. ~ (run'[w] = Resting)
    BY DEF Resting
<1>9. ~ \E c \in CheckIns : run'[w] = [Resting EXCEPT !.step = "begun", !.of = c]
    BY DEF Resting
<1> QED BY <1>2, <1>3, <1>4, <1>5, <1>6, <1>7, <1>8, <1>9, SlotMoves

\* One transaction at most has inserted the legs of a check-in and not yet
\* ended, and none has once they are posted (the unique index of postings).
THEOREM OneInsertHolds == Spec => []OneInsert
<1>1. Init => OneInsert
    BY DEF Init, OneInsert, Resting
<1>2. ASSUME TypeInv, OneInsert, [Next]_vars
      PROVE  OneInsert'
    <2> USE <1>2
    <2>1. ASSUME NEW w \in Workers, Commit(w)
          PROVE  /\ run[w].step = "inserted" /\ run[w].of \in CheckIns
                 /\ ledger[run[w].of] = <<>> /\ run[w].price \in Nat
                 /\ ledger' = [ledger EXCEPT ![run[w].of] = Append(@, run[w].price)]
        BY <2>1 DEF Commit, OneInsert, TypeInv, TypeOK, BusyOnCheckIn, Run
    <2>2. ASSUME NEW c \in CheckIns
          PROVE  Len(ledger'[c]) <= 1
        <3>1. CASE UNCHANGED ledger
            BY <3>1 DEF OneInsert
        <3>2. CASE \E w \in Workers : Commit(w)
            <4> PICK w \in Workers : Commit(w)
                BY <3>2
            <4>1. CASE c = run[w].of
                <5>1. ledger'[c] = Append(<<>>, run[w].price)
                    BY <4>1, <2>1 DEF TypeInv, TypeOK
                <5> QED BY <5>1, <2>1
            <4>2. CASE c # run[w].of
                BY <4>2, <2>1 DEF OneInsert, TypeInv, TypeOK
            <4> QED BY <4>1, <4>2
        <3> QED BY <3>1, <3>2, LedgerMoves
    <2>3. ASSUME NEW w \in Workers, run'[w].step = "inserted"
          PROVE  ledger[run'[w].of] = <<>> /\ run'[w].of = run[w].of /\ ~ Commit(w)
        BY <2>3, InsertMoves DEF OneInsert, InsertLegs, Commit
    <2>4. ASSUME NEW w \in Workers, run'[w].step = "inserted"
          PROVE  ledger'[run'[w].of] = <<>>
        <3>1. CASE UNCHANGED ledger
            BY <3>1, <2>3, <2>4
        <3>2. CASE \E v \in Workers : Commit(v)
            <4> PICK v \in Workers : Commit(v)
                BY <3>2
            <4>1. v # w
                BY <2>3, <2>4
            <4>2. run'[w] = run[w]
                BY <4>1 DEF Commit, Reach, Go, TypeInv, TypeOK
            <4>3. run[v].of # run[w].of
                BY <4>1, <4>2, <2>1, <2>4 DEF OneInsert
            <4>4. run[w].of \in CheckIns
                BY <4>2, <2>4 DEF TypeInv, BusyOnCheckIn
            <4> QED BY <4>2, <4>3, <4>4, <2>1, <2>3, <2>4 DEF TypeInv, TypeOK
        <3> QED BY <3>1, <3>2, LedgerMoves
    <2>5. ASSUME NEW v \in Workers, NEW w \in Workers,
                 run'[v].step = "inserted", run'[w].step = "inserted", run'[v].of = run'[w].of
          PROVE  v = w
        <3>1. CASE run[v].step = "inserted" /\ run[w].step = "inserted"
            BY <3>1, <2>3, <2>5 DEF OneInsert
        <3>2. ASSUME NEW u \in Workers, NEW t \in Workers, u # t, InsertLegs(u), run'[t].step = "inserted",
                     run'[u].step = "inserted", run'[u].of = run'[t].of
              PROVE  FALSE
            <4>1. run'[t] = run[t]
                BY <3>2 DEF InsertLegs, Reach, Go, TypeInv, TypeOK
            <4>2. run[t].of # run[u].of
                BY <3>2, <4>1 DEF InsertLegs
            <4> QED BY <3>2, <4>1, <4>2, <2>3
        <3>3. InsertLegs(v) \/ run[v].step = "inserted"
            BY <2>5, InsertMoves
        <3>4. InsertLegs(w) \/ run[w].step = "inserted"
            BY <2>5, InsertMoves
        <3> QED BY <3>1, <3>2, <3>3, <3>4, <2>5
    <2> QED BY <2>2, <2>4, <2>5 DEF OneInsert
<1> QED BY <1>1, <1>2, TypeInvariant, PTL DEF Spec

\* A show-up is charged once, and not at all while it is flagged.
THEOREM NeverChargedTwice == Spec => []ChargedOnce
<1>1. OnlyValid /\ OneInsert => ChargedOnce
    BY DEF OnlyValid, OneInsert, ChargedOnce
<1> QED BY <1>1, OnlyValidHolds, OneInsertHolds, PTL

-----------------------------------------------------------------------------
(* The right price. *)

\* The clock never goes back, and a rule is only ever added.
LEMMA ClockMoves ==
    ASSUME TypeInv, [Next]_vars
    PROVE  clock' = clock \/ clock' = clock + 1
BY NextCases
   DEF vars, world, Arrive, Confirm, SetPrice, Tick, Deliver, LoseCall, ForgetCompleted, RetryJob,
       Recover, LoseLock, SweepAdd, ReadPrice, CheckFirstRule, FindPosting, InsertLegs, Commit,
       Finish, Fail, Die, Take, Sweep

\* A new price starts at a time of its own, no more than Grace ago.
LEMMA NewRule ==
    ASSUME TypeInv, [Next]_vars, NEW r \in rules', r \notin rules
    PROVE  /\ r.from \in Nat /\ r.made = clock /\ r.from >= clock - Grace
           /\ \A q \in rules : q.from # r.from
           /\ rules' = rules \cup {r}
<1>1. ASSUME NEW price \in Prices, NEW from \in 0..MaxTime, SetPrice(price, from)
      PROVE  /\ r.from \in Nat /\ r.made = clock /\ r.from >= clock - Grace
             /\ \A q \in rules : q.from # r.from
             /\ rules' = rules \cup {r}
    <2>1. r = [price |-> price, from |-> from, made |-> clock]
        BY <1>1 DEF SetPrice
    <2> QED BY <1>1, <2>1, NumberAssumption DEF SetPrice
<1> QED
    BY <1>1, NextCases
       DEF vars, world, Arrive, Confirm, Tick, Deliver, LoseCall, ForgetCompleted, RetryJob,
           Recover, LoseLock, SweepAdd, ReadPrice, CheckFirstRule, FindPosting, InsertLegs, Commit,
           Finish, Fail, Die, Take, Sweep

\* An arrival is set once, when the check-in is made.
LEMMA ArrivalMoves ==
    ASSUME TypeInv, [Next]_vars, NEW c \in CheckIns
    PROVE  arrived'[c].at = arrived[c].at \/ arrived'[c].at = clock
<1> USE DEF TypeInv
<1>1. ASSUME NEW d \in CheckIns, NEW state \in {"flagged", "valid"}, Arrive(d, state)
      PROVE  arrived'[c].at = arrived[c].at \/ arrived'[c].at = clock
    BY <1>1 DEF Arrive, TypeOK
<1>2. ASSUME NEW d \in CheckIns, Confirm(d)
      PROVE  arrived'[c].at = arrived[c].at
    BY <1>2 DEF Confirm, TypeOK
<1> QED
    BY <1>1, <1>2, NextCases
       DEF vars, world, SetPrice, Tick, Deliver, LoseCall, ForgetCompleted, RetryJob, Recover, LoseLock,
           SweepAdd, ReadPrice, CheckFirstRule, FindPosting, InsertLegs, Commit, Finish, Fail, Die,
           Take, Sweep

\* Rules lie in the order in which they were made, none from a time more than
\* Grace before that.
THEOREM RulesStayInOrder == Spec => []RulesInOrder
<1>1. Init => RulesInOrder
    BY NumberAssumption DEF Init, RulesInOrder, NotArrived
<1>2. ASSUME TypeInv, RulesInOrder, [Next]_vars
      PROVE  RulesInOrder'
    <2> USE <1>2
    <2>1. ASSUME NEW c \in CheckIns
          PROVE  arrived'[c].at <= clock'
        <3>1. arrived[c].at \in Nat /\ clock \in Nat /\ arrived[c].at <= clock
            BY DEF TypeInv, TypeOK, RulesInOrder
        <3> QED BY <3>1, ArrivalMoves, ClockMoves
    <2>2. ASSUME NEW r \in rules', NEW q \in rules', r.from = q.from
          PROVE  r = q
        BY <2>2, NewRule DEF RulesInOrder
    <2>3. ASSUME NEW r \in rules'
          PROVE  r.made <= r.from + Grace
        <3>1. CASE r \in rules
            BY <3>1 DEF RulesInOrder
        <3>2. CASE r \notin rules
            <4>1. r.made \in Nat /\ r.made = clock /\ r.from \in Nat /\ r.from >= clock - Grace
                BY <3>2, NewRule DEF TypeInv, TypeOK
            <4> QED BY <4>1, NumberAssumption
        <3> QED BY <3>1, <3>2
    <2> QED BY <2>1, <2>2, <2>3 DEF RulesInOrder
<1> QED BY <1>1, <1>2, TypeInvariant, PTL DEF Spec

\* What fits an arrival goes on fitting it: a rule made later is not made before it.
LEMMA FitsStays ==
    ASSUME TypeInv, RulesInOrder, [Next]_vars, NEW c \in CheckIns, Valid(c), NEW price,
           Fits(price, arrived[c].at)
    PROVE  Fits(price, arrived[c].at)' /\ arrived'[c] = arrived[c]
<1> DEFINE at == arrived[c].at
<1>1. at \in Nat /\ clock \in Nat /\ at <= clock
    BY DEF TypeInv, TypeOK, RulesInOrder
<1>2. arrived'[c] = arrived[c]
    BY ValidKept
<1>3. PICK r \in rules : /\ r.price = price
                         /\ r.from <= at /\ r.made <= at + Grace
                         /\ \A q \in rules : q.made < at /\ q.from <= at => q.from <= r.from
    BY DEF Fits
<1>4. r \in rules'
    BY RulesMove
<1>5. ASSUME NEW q \in rules', q.made < at, q.from <= at
      PROVE  q.from <= r.from
    <2>1. CASE q \in rules
        BY <1>3, <1>5, <2>1
    <2>2. CASE q \notin rules
        <3>1. q.made = clock
            BY <2>2, NewRule
        <3> QED BY <1>1, <1>5, <3>1
    <2> QED BY <2>1, <2>2
<1> QED BY <1>2, <1>3, <1>4, <1>5 DEF Fits

\* A price that is read fits.
LEMMA ReadFits ==
    ASSUME TypeInv, RulesInOrder, NEW c \in CheckIns, NEW r \in PriceAt(c)
    PROVE  Fits(r.price, arrived[c].at)
<1>1. /\ r \in rules /\ r.from <= arrived[c].at
      /\ \A q \in rules : q.from <= arrived[c].at => q.from <= r.from
    BY DEF PriceAt, InEffect
<1>2. r.made <= r.from + Grace /\ r.made \in Nat /\ r.from \in Nat /\ arrived[c].at \in Nat
    BY <1>1 DEF RulesInOrder, TypeInv, TypeOK
<1>3. r.made <= arrived[c].at + Grace
    BY <1>1, <1>2, NumberAssumption
<1> QED BY <1>1, <1>3 DEF Fits

\* How a slot comes to have a price: it kept it, or it reads it now.
LEMMA PriceMoves ==
    ASSUME TypeInv, [Next]_vars, NEW w \in Workers, run'[w].step \in {"priced", "absent", "inserted"}
    PROVE  /\ run[w].step # "idle" /\ run'[w].of = run[w].of
           /\ \/ run[w].step \in {"priced", "absent", "inserted"} /\ run'[w].price = run[w].price
              \/ \E r \in PriceAt(run[w].of) : run'[w].price = r.price
<1> run[w] \in Run
    BY DEF TypeInv, TypeOK
<1>1. ASSUME NEW r, Go(w, r)
      PROVE  run'[w] = r
    BY <1>1 DEF Go, TypeInv, TypeOK
<1>2. ASSUME NEW step, Reach(w, step)
      PROVE  run'[w].step = step /\ run'[w].of = run[w].of /\ run'[w].price = run[w].price
    BY <1>2 DEF Reach, Go, TypeInv, TypeOK, Run
<1>3. ASSUME ReadPrice(w)
      PROVE  /\ run[w].step # "idle" /\ run'[w].of = run[w].of
             /\ \E r \in PriceAt(run[w].of) : run'[w].price = r.price
    <2>1. ~ \E step \in {"done", "unpriced"} : Reach(w, step)
        BY <1>2
    <2>2. PICK r \in PriceAt(run[w].of) : Go(w, [run[w] EXCEPT !.step = "priced", !.price = r.price])
        BY <1>3, <2>1 DEF ReadPrice
    <2>3. run'[w] = [run[w] EXCEPT !.step = "priced", !.price = r.price]
        BY <2>2 DEF Go, TypeInv, TypeOK
    <2>4. run'[w].of = run[w].of /\ run'[w].price = r.price
        BY <2>3 DEF Run
    <2> QED BY <1>3, <2>4 DEF ReadPrice
<1>4. ~ CheckFirstRule(w)
    <2>1. ~ Go(w, Resting)
        BY <1>1 DEF Resting
    <2>2. ~ Reach(w, "done")
        BY <1>2
    <2> QED BY <2>1, <2>2, Zenon DEF CheckFirstRule
<1>5. ~ Commit(w)
    BY <1>2 DEF Commit
<1>6. ASSUME FindPosting(w) \/ InsertLegs(w)
      PROVE  /\ run[w].step \in {"priced", "absent"} /\ run'[w].of = run[w].of
             /\ run'[w].price = run[w].price
    BY <1>6, <1>2 DEF FindPosting, InsertLegs
<1>7. ~ (run'[w] = Resting)
    BY DEF Resting
<1>8. ~ \E c \in CheckIns : run'[w] = [Resting EXCEPT !.step = "begun", !.of = c]
    BY DEF Resting
<1> QED BY <1>3, <1>4, <1>5, <1>6, <1>7, <1>8, SlotMoves

\* A price that a slot has read, or that is posted, is one the arrival may be
\* charged (priceFor, however late it is asked).
THEOREM PricesFitHolds == Spec => []PricesFit
<1>1. Init => PricesFit
    BY DEF Init, PricesFit, Resting
<1>2. ASSUME TypeInv, OnlyValid, RulesInOrder, PricesFit, [Next]_vars
      PROVE  PricesFit'
    <2> USE <1>2
    <2>1. ASSUME NEW c \in CheckIns, Valid(c), NEW price, Fits(price, arrived[c].at)
          PROVE  Fits(price, arrived[c].at)' /\ arrived'[c] = arrived[c]
        BY <2>1, FitsStays
    <2>2. ASSUME NEW w \in Workers, run'[w].step \in {"priced", "absent", "inserted"}
          PROVE  Fits(run[w].price, arrived[run[w].of].at)'
        <3>1. PICK c \in CheckIns : c = run[w].of /\ Valid(c) /\ run'[w].of = c
            BY <2>2, PriceMoves DEF OnlyValid, TypeInv, BusyOnCheckIn
        <3>2. PICK price : price = run'[w].price
            OBVIOUS
        <3>3. Fits(price, arrived[c].at)
            <4>1. CASE run[w].step \in {"priced", "absent", "inserted"} /\ run'[w].price = run[w].price
                BY <3>1, <3>2, <4>1 DEF PricesFit
            <4>2. CASE \E r \in PriceAt(run[w].of) : run'[w].price = r.price
                BY <3>1, <3>2, <4>2, ReadFits
            <4> QED BY <2>2, <4>1, <4>2, PriceMoves
        <3> QED BY <2>1, <3>1, <3>2, <3>3 DEF Fits
    <2>3. ASSUME NEW c \in CheckIns, NEW i \in DOMAIN ledger'[c]
          PROVE  Fits(ledger[c][i], arrived[c].at)'
        <3>1. PICK price : price = ledger'[c][i]
            OBVIOUS
        <3>2. Valid(c) /\ Fits(price, arrived[c].at)
            <4>1. CASE i \in DOMAIN ledger[c] /\ ledger'[c][i] = ledger[c][i]
                BY <3>1, <4>1 DEF PricesFit, OnlyValid, TypeInv, TypeOK
            <4>2. CASE ~ (i \in DOMAIN ledger[c] /\ ledger'[c][i] = ledger[c][i])
                <5>1. PICK w \in Workers : Commit(w)
                    BY <4>2, LedgerMoves
                <5>2. c = run[w].of /\ ledger'[c] = Append(ledger[c], run[w].price)
                    BY <4>2, <5>1 DEF Commit, TypeInv, TypeOK
                <5>3. ledger'[c][i] = run[w].price
                    BY <4>2, <5>1, <5>2 DEF Commit, TypeInv, TypeOK, Run
                <5> QED BY <3>1, <5>1, <5>2, <5>3 DEF Commit, PricesFit, OnlyValid
            <4> QED BY <4>1, <4>2
        <3> QED BY <2>1, <3>1, <3>2 DEF Fits
    <2> QED BY <2>2, <2>3 DEF PricesFit
<1> QED BY <1>1, <1>2, TypeInvariant, OnlyValidHolds, RulesStayInOrder, PTL DEF Spec

\* Whenever the charge is made, it is of the arrival's price.
THEOREM ChargesUseTheArrivalPrice == Spec => []ChargedAtArrivalPrice
<1>1. PricesFit => ChargedAtArrivalPrice
    BY DEF PricesFit, Fits, ChargedAtArrivalPrice
<1> QED BY <1>1, PricesFitHolds, PTL

-----------------------------------------------------------------------------
(* Completed means settled. *)

\* What is settled stays settled.
LEMMA SettledStays ==
    ASSUME TypeInv, RulesInOrder, [Next]_vars, NEW c \in CheckIns, Valid(c)
    PROVE  /\ Settled(c) => Settled(c)'
           /\ PriceAt(c) = {} \/ RepricedLate(c) => (PriceAt(c) = {} \/ RepricedLate(c))'
<1>1. arrived'[c] = arrived[c]
    BY ValidKept
<1>2. arrived[c].at \in Nat /\ arrived[c].at <= clock
    BY DEF TypeInv, TypeOK, RulesInOrder
<1>3. RepricedLate(c) => RepricedLate(c)'
    BY <1>1, RulesMove DEF RepricedLate
<1>4. ledger[c] # <<>> => ledger'[c] # <<>>
    <2>1. ASSUME NEW w \in Workers, Commit(w), ledger[c] # <<>>
          PROVE  ledger'[c] # <<>>
        BY <2>1, CommitPosts
    <2> QED BY <2>1, LedgerMoves
<1>5. RepricedLate(c)' \/ PriceAt(c)' = PriceAt(c)
    <2>1. CASE UNCHANGED rules
        BY <1>1, <2>1 DEF PriceAt, InEffect
    <2>2. CASE \E r \in rules' : r \notin rules
        <3>1. PICK r \in rules' : r \notin rules
            BY <2>2
        <3>2. r.made = clock /\ rules' = rules \cup {r}
            BY <3>1, NewRule
        <3>3. CASE r.from <= arrived[c].at
            BY <1>1, <1>2, <3>2, <3>3 DEF RepricedLate
        <3>4. CASE ~ (r.from <= arrived[c].at)
            BY <1>1, <3>2, <3>4 DEF PriceAt, InEffect
        <3> QED BY <3>3, <3>4
    <2> QED BY <2>1, <2>2, RulesMove
<1>6. (\A r \in PriceAt(c) : r.price = 0) => RepricedLate(c)' \/ (\A r \in PriceAt(c) : r.price = 0)'
    BY <1>5
<1>7. PriceAt(c) = {} => RepricedLate(c)' \/ (PriceAt(c) = {})'
    BY <1>5
<1> QED BY <1>3, <1>4, <1>6, <1>7 DEF Settled

\* A slot that is done with a check-in, and a completed job, leave nothing to
\* charge.
THEOREM DoneIsSettledHolds == Spec => []DoneIsSettled
<1>1. Init => DoneIsSettled
    BY DEF Init, DoneIsSettled, NoJob, Resting
<1>2. ASSUME TypeInv, OnlyValid, OneInsert, RulesInOrder, DoneIsSettled, [Next]_vars
      PROVE  DoneIsSettled'
    <2> USE <1>2
    <2>1. ASSUME NEW w \in Workers, run'[w].step \in {"done", "unpriced"}
          PROVE  \E c \in CheckIns :
                    /\ Valid(c) /\ run'[w].of = c
                    /\ \/ run'[w].step = "done" /\ (Settled(c) \/ ledger'[c] # <<>>)
                       \/ run'[w].step = "unpriced" /\ (PriceAt(c) = {} \/ RepricedLate(c))
        <3> run[w] \in Run
            BY DEF TypeInv, TypeOK
        <3>1. run[w].step # "idle" /\ run'[w].of = run[w].of /\ run[w].of \in CheckIns /\ Valid(run[w].of)
            BY <2>1, SlotsKeepTheirCheckIn DEF OnlyValid, TypeInv, BusyOnCheckIn
        <3>2. ASSUME NEW step, Reach(w, step)
              PROVE  run'[w].step = step
            BY <3>2 DEF Reach, Go, TypeInv, TypeOK, Run
        <3>3. CASE run'[w] = run[w]
            BY <2>1, <3>1, <3>3 DEF DoneIsSettled
        <3>4. CASE ReadPrice(w)
            <4>1. CASE PriceAt(run[w].of) = {} /\ Reach(w, "unpriced")
                BY <3>1, <3>2, <4>1
            <4>2. CASE \E r \in PriceAt(run[w].of) : r.price = 0 /\ Reach(w, "done")
                <5>1. \A r, q \in PriceAt(run[w].of) : r = q
                    BY <3>1 DEF PriceAt, InEffect, RulesInOrder, TypeInv, TypeOK
                <5>2. Settled(run[w].of)
                    BY <4>2, <5>1 DEF Settled
                <5> QED BY <3>1, <3>2, <4>2, <5>2
            <4>3. ASSUME NEW r, r.step = "priced", Go(w, r)
                  PROVE  FALSE
                BY <2>1, <4>3 DEF Go, TypeInv, TypeOK
            <4>4. ~ \E r \in PriceAt(run[w].of) : Go(w, [run[w] EXCEPT !.step = "priced", !.price = r.price])
                BY <4>3 DEF Run
            <4> QED BY <3>1, <3>4, <4>1, <4>2, <4>4 DEF ReadPrice
        <3>5. CASE CheckFirstRule(w)
            <4>1. Reach(w, "done") /\ ~ \E r \in rules : r.from <= arrived[run[w].of].at
                <5>1. ~ Go(w, Resting)
                    BY <2>1 DEF Go, Resting, TypeInv, TypeOK
                <5> QED BY <3>5, <5>1, Zenon DEF CheckFirstRule
            <4>2. PriceAt(run[w].of) = {}
                BY <4>1 DEF PriceAt, InEffect
            <4>3. Settled(run[w].of)
                BY <4>2 DEF Settled
            <4> QED BY <3>1, <3>2, <4>1, <4>3
        <3>6. CASE FindPosting(w) \/ InsertLegs(w)
            BY <2>1, <3>1, <3>2, <3>6 DEF FindPosting, InsertLegs, Settled
        <3>7. CASE Commit(w)
            <4>1. ledger'[run[w].of] # <<>>
                BY <3>7, CommitPosts
            <4> QED BY <3>1, <3>2, <3>7, <4>1 DEF Commit
        <3>8. ~ (run'[w] = Resting)
            BY <2>1 DEF Resting
        <3>9. ~ \E c \in CheckIns : run'[w] = [Resting EXCEPT !.step = "begun", !.of = c]
            BY <2>1 DEF Resting
        <3> QED BY <3>3, <3>4, <3>5, <3>6, <3>7, <3>8, <3>9, SlotMoves
    <2>2. ASSUME NEW w \in Workers
          PROVE  /\ (run[w].step = "done" => Settled(run[w].of))'
                 /\ (run[w].step = "unpriced" => PriceAt(run[w].of) = {} \/ RepricedLate(run[w].of))'
        <3>1. CASE run'[w].step \in {"done", "unpriced"}
            <4>1. PICK c \in CheckIns :
                    /\ Valid(c) /\ run'[w].of = c
                    /\ \/ run'[w].step = "done" /\ (Settled(c) \/ ledger'[c] # <<>>)
                       \/ run'[w].step = "unpriced" /\ (PriceAt(c) = {} \/ RepricedLate(c))
                BY <3>1, <2>1
            <4>2. run'[w].step = "done" => Settled(c)'
                BY <4>1, SettledStays DEF Settled
            <4>3. run'[w].step = "unpriced" => (PriceAt(c) = {} \/ RepricedLate(c))'
                BY <4>1, SettledStays
            <4> QED BY <4>1, <4>2, <4>3 DEF Settled, PriceAt, RepricedLate
        <3> QED BY <3>1
    <2>3. ASSUME NEW c \in CheckIns, job'[c].state = "completed"
          PROVE  Settled(c)'
        <3>1. Settled(c) /\ Valid(c)
            <4>1. CASE job[c].state = "completed"
                BY <4>1 DEF DoneIsSettled, OnlyValid
            <4>2. CASE \E w \in Workers : run[w].step = "done" /\ run[w].of = c
                BY <4>2 DEF DoneIsSettled, OnlyValid
            <4> QED BY <2>3, <4>1, <4>2, JobMoves
        <3> QED BY <3>1, SettledStays
    <2> QED BY <2>2, <2>3 DEF DoneIsSettled
<1> QED BY <1>1, <1>2, TypeInvariant, OnlyValidHolds, OneInsertHolds, RulesStayInOrder, PTL DEF Spec

\* What is dropped while its completed job is remembered had nothing to charge.
THEOREM CompletedIsSettled == Spec => []CompletedMeansSettled
<1>1. DoneIsSettled => CompletedMeansSettled
    BY DEF DoneIsSettled, Settled, CompletedMeansSettled
<1> QED BY <1>1, DoneIsSettledHolds, PTL
=============================================================================
