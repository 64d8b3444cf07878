------------------------------ MODULE Charging ------------------------------
(***************************************************************************)
(* From a verified show-up to its charge in the ledger.                    *)
(*                                                                         *)
(* The check-in has committed before any of this: the API then queues a    *)
(* charge job without waiting for it, so the call may be lost.  A job is   *)
(* identified by its check-in and BullMQ drops an add while a job of that  *)
(* id exists, a completed or failed one included.  The worker reads the    *)
(* check-in and the price, and posts to the ledger in a transaction whose  *)
(* unique txnId rules out a second posting; it may fail, die, or lose its  *)
(* job to another worker at any point.  Every 15 minutes a sweep queues    *)
(* the verified check-ins that have no charge.                             *)
(***************************************************************************)
EXTENDS Integers, FiniteSets, Sequences

CONSTANTS
    CheckIns,     \* ids
    Workers,      \* the slots of the charge worker (its concurrency)
    NoWorker, NoCheckIn,
    Prices,       \* what a price may be set to, in paise
    LaunchPrice,  \* the price the migration put in the table
    Launch,       \* when it ran
    Grace,        \* how far back a new price may reach (60 s), in units of the clock
    Attempts,     \* CHARGE_JOB_OPTIONS.attempts
    MaxStalls,    \* how often BullMQ takes a job back from a worker before it fails it
    SweepBatch,   \* SWEEP_BATCH
    MaxTime, MaxRules, MaxFailures, MaxLapses  \* bounds on the clock, price rows and troubles

ASSUME IdAssumption == NoWorker \notin Workers /\ NoCheckIn \notin CheckIns
ASSUME PriceAssumption == Prices \subseteq Nat /\ LaunchPrice \in Nat
ASSUME NumberAssumption ==
    /\ {Launch, Attempts, SweepBatch} \subseteq Nat \ {0}
    /\ {Grace, MaxStalls, MaxTime, MaxRules, MaxFailures, MaxLapses} \subseteq Nat

VARIABLES
    arrived,   \* check_ins: isValid, and scannedAt
    rules,     \* pricing_rules: pricePaise, effectiveFrom, createdAt
    clock,
    calls,     \* check-ins whose queueCharge has not reached Redis yet
    job,       \* the charge job of each check-in
    run,       \* what each slot of the worker is doing
    batch,     \* the check-ins the running sweep has still to queue
    ledger,    \* the amounts posted under each check-in's txnId, debit and credit alike
    failures, lapses

vars == <<arrived, rules, clock, calls, job, run, batch, ledger, failures, lapses>>
world == <<arrived, rules, clock>>
troubles == <<failures, lapses>>

Steps == {"idle", "begun", "unpriced", "priced", "absent", "inserted", "done"}
Job == [state : {"none", "waiting", "active", "completed", "failed"}, tries : 0..Attempts,
        stalls : 0..(MaxStalls + 1), holder : Workers \cup {NoWorker}]
Run == [step : Steps, of : CheckIns \cup {NoCheckIn}, price : Nat]

NotArrived == [state |-> "none", at |-> 0]
NoJob == [state |-> "none", tries |-> 0, stalls |-> 0, holder |-> NoWorker]
Resting == [step |-> "idle", of |-> NoCheckIn, price |-> 0]

\* The program starts once its migration has run.  Check-ins from before the
\* launch may be there, flagged ones unconfirmed.
Init ==
    /\ arrived \in [CheckIns -> {NotArrived} \cup [state : {"flagged", "valid"}, at : {Launch - 1}]]
    /\ rules = {[price |-> LaunchPrice, from |-> Launch, made |-> Launch]}
    /\ clock = Launch + 1
    /\ calls = {}
    /\ job = [c \in CheckIns |-> NoJob]
    /\ run = [w \in Workers |-> Resting]
    /\ batch = {}
    /\ ledger = [c \in CheckIns |-> <<>>]
    /\ failures = 0 /\ lapses = 0

-----------------------------------------------------------------------------
(* The gate, the desk and the admin. *)

Valid(c) == arrived[c].state = "valid"
QueueCharge(c) == calls' = calls \cup {c}

\* Mutant: a flagged check-in is queued as well.
ArriveQueued(c, state) ==
    /\ arrived[c] = NotArrived
    /\ arrived' = [arrived EXCEPT ![c] = [state |-> state, at |-> clock]]
    /\ QueueCharge(c)
    /\ UNCHANGED <<rules, clock, job, run, batch, ledger, troubles>>

\* checkIn and markPresent, once committed: queueCharge lets a flagged one wait.
Arrive(c, state) ==
    /\ arrived[c] = NotArrived
    /\ arrived' = [arrived EXCEPT ![c] = [state |-> state, at |-> clock]]
    /\ IF state = "valid" THEN QueueCharge(c) ELSE UNCHANGED calls
    /\ UNCHANGED <<rules, clock, job, run, batch, ledger, troubles>>

\* confirmFlagged.
Confirm(c) ==
    /\ arrived[c].state = "flagged"
    /\ arrived' = [arrived EXCEPT ![c].state = "valid"]
    /\ QueueCharge(c)
    /\ UNCHANGED <<rules, clock, job, run, batch, ledger, troubles>>

\* createPricingRule; (event, effectiveFrom) is unique.
SetPrice(price, from) ==
    /\ Cardinality(rules) < MaxRules
    /\ from >= clock - Grace
    /\ \A r \in rules : r.from # from
    /\ rules' = rules \cup {[price |-> price, from |-> from, made |-> clock]}
    /\ UNCHANGED <<arrived, clock, calls, job, run, batch, ledger, troubles>>

Tick ==
    /\ clock < MaxTime
    /\ clock' = clock + 1
    /\ UNCHANGED <<arrived, rules, calls, job, run, batch, ledger, troubles>>

-----------------------------------------------------------------------------
(* The queue. *)

\* Queue.add: an id that is there already drops the job.
Added(c) == [job EXCEPT ![c] = IF @.state = "none" THEN [NoJob EXCEPT !.state = "waiting"] ELSE @]

\* The call gets through, or the API process dies with it.
Deliver(c) ==
    /\ c \in calls
    /\ calls' = calls \ {c}
    /\ job' = Added(c)
    /\ UNCHANGED <<world, run, batch, ledger, troubles>>

LoseCall(c) ==
    /\ c \in calls
    /\ calls' = calls \ {c}
    /\ UNCHANGED <<world, job, run, batch, ledger, troubles>>

\* removeOnComplete: a week later.
ForgetCompleted(c) ==
    /\ job[c].state = "completed"
    /\ job' = [job EXCEPT ![c] = NoJob]
    /\ UNCHANGED <<world, calls, run, batch, ledger, troubles>>

\* The admin panel's retryJob, which gives a job one more attempt.
RetryJob(c) ==
    /\ job[c].state = "failed"
    /\ job' = [job EXCEPT ![c].state = "waiting"]
    /\ UNCHANGED <<world, calls, run, batch, ledger, troubles>>

Holds(w, c) == run[w].step # "idle" /\ run[w].of = c

\* BullMQ takes an active job back once its lock has not been renewed.
TakenBack(c) ==
    LET stalls == IF job[c].stalls > MaxStalls THEN job[c].stalls ELSE job[c].stalls + 1
    IN  [job EXCEPT ![c] = [@ EXCEPT !.state = IF stalls > MaxStalls THEN "failed" ELSE "waiting",
                                     !.stalls = stalls, !.holder = NoWorker]]

\* From a slot that died in the middle of it ...
Recover(c) ==
    /\ job[c].state = "active" /\ ~Holds(job[c].holder, c)
    /\ job' = TakenBack(c)
    /\ UNCHANGED <<world, calls, run, batch, ledger, troubles>>

\* ... and from one that only lost touch with Redis and goes on.
LoseLock(c) ==
    /\ job[c].state = "active" /\ Holds(job[c].holder, c)
    /\ lapses < MaxLapses
    /\ lapses' = lapses + 1
    /\ job' = TakenBack(c)
    /\ UNCHANGED <<world, calls, run, batch, ledger, failures>>

-----------------------------------------------------------------------------
(* The worker: processCharge. *)

Go(w, r) == run' = [run EXCEPT ![w] = r]
Reach(w, step) == Go(w, [run[w] EXCEPT !.step = step])

Take(w, c) ==
    /\ job[c].state = "waiting" /\ run[w].step = "idle"
    /\ job' = [job EXCEPT ![c].state = "active", ![c].holder = w]
    /\ Go(w, [Resting EXCEPT !.step = "begun", !.of = c])
    /\ UNCHANGED <<world, calls, batch, ledger, troubles>>

\* The rules of rows that apply at a time: at most one, effectiveFrom being unique.
InEffect(rows, at) == {r \in rows : r.from <= at /\ \A q \in rows : q.from <= at => q.from <= r.from}

\* Mutant: the price of now.
PriceAtNow(c) == InEffect(rules, clock)
PriceAt(c) == InEffect(rules, arrived[c].at)

\* Nothing to do for a flagged check-in or a free one.
ReadPrice(w) ==
    LET c == run[w].of
    IN  /\ run[w].step = "begun"
        /\ \/ ~Valid(c) /\ Reach(w, "done")
           \/ Valid(c) /\ PriceAt(c) = {} /\ Reach(w, "unpriced")
           \/ /\ Valid(c)
              /\ \E r \in PriceAt(c) :
                    IF r.price = 0 THEN Reach(w, "done")
                    ELSE Go(w, [run[w] EXCEPT !.step = "priced", !.price = r.price])
        /\ UNCHANGED <<world, calls, job, batch, ledger, troubles>>

\* postTransaction's findFirst.
FindPosting(w) ==
    /\ run[w].step = "priced"
    /\ Reach(w, IF ledger[run[w].of] = <<>> THEN "absent" ELSE "done")
    /\ UNCHANGED <<world, calls, job, batch, ledger, troubles>>

\* Mutant: no unique index.
InsertLegsFreely(w) ==
    /\ run[w].step = "absent"
    /\ Reach(w, "inserted")
    /\ UNCHANGED <<world, calls, job, batch, ledger, troubles>>

\* createMany: the unique index makes it wait for another transaction's legs
\* of that txnId, and the loser's P2002 is "already charged".
InsertLegs(w) ==
    LET c == run[w].of
    IN  /\ run[w].step = "absent"
        /\ \A v \in Workers : run[v].step = "inserted" => run[v].of # c
        /\ Reach(w, IF ledger[c] = <<>> THEN "inserted" ELSE "done")
        /\ UNCHANGED <<world, calls, job, batch, ledger, troubles>>

Commit(w) ==
    /\ run[w].step = "inserted"
    /\ ledger' = [ledger EXCEPT ![run[w].of] = Append(@, run[w].price)]
    /\ Reach(w, "done")
    /\ UNCHANGED <<world, calls, job, batch, troubles>>

\* The job is told, if it is still this slot's.
Finish(w) ==
    LET c == run[w].of
    IN  /\ run[w].step = "done"
        /\ job' = IF job[c].state = "active" /\ job[c].holder = w
                  THEN [job EXCEPT ![c].state = "completed", ![c].holder = NoWorker]
                  ELSE job
        /\ Go(w, Resting)
        /\ UNCHANGED <<world, calls, batch, ledger, troubles>>

\* The job after a failed attempt, the last one (or an unrecoverable error)
\* leaving it in the failed set.
Failed(w, final) ==
    LET c == run[w].of
        tries == IF job[c].tries < Attempts THEN job[c].tries + 1 ELSE Attempts
    IN  IF job[c].state = "active" /\ job[c].holder = w
        THEN [job EXCEPT ![c] = [@ EXCEPT !.state = IF final \/ tries = Attempts THEN "failed" ELSE "waiting",
                                          !.tries = tries, !.holder = NoWorker]]
        ELSE job

\* No rule applies: fine if the first one is later than the check-in.
CheckFirstRule(w) ==
    /\ run[w].step = "unpriced"
    /\ IF \E r \in rules : r.from <= arrived[run[w].of].at
       THEN job' = Failed(w, TRUE) /\ Go(w, Resting)
       ELSE Reach(w, "done") /\ UNCHANGED job
    /\ UNCHANGED <<world, calls, batch, ledger, troubles>>

\* The database fails: the attempt rolls back.
Fail(w) ==
    /\ run[w].step \notin {"idle", "done"}
    /\ failures < MaxFailures
    /\ failures' = failures + 1
    /\ job' = Failed(w, FALSE)
    /\ Go(w, Resting)
    /\ UNCHANGED <<world, calls, batch, ledger, lapses>>

\* The process dies, its job still active.
Die(w) ==
    /\ run[w].step # "idle"
    /\ lapses < MaxLapses
    /\ lapses' = lapses + 1
    /\ Go(w, Resting)
    /\ UNCHANGED <<world, calls, job, batch, ledger, failures>>

-----------------------------------------------------------------------------
(* sweepCharges. *)

\* Mutant: whatever is valid since billing began, charged or not.
UnchargedOrNot == {c \in CheckIns : Valid(c) /\ \E r \in rules : r.from <= arrived[c].at}

\* Valid, since billing began, and without a posting.
Uncharged ==
    {c \in CheckIns : Valid(c) /\ ledger[c] = <<>> /\ \E r \in rules : r.from <= arrived[c].at}

\* The oldest SweepBatch of them.
Sweep ==
    /\ batch = {} /\ Uncharged # {}
    /\ batch' \in {S \in SUBSET Uncharged :
                     /\ Cardinality(S) <= SweepBatch
                     /\ Cardinality(S) < SweepBatch => S = Uncharged
                     /\ \A c \in S, d \in Uncharged \ S : arrived[c].at <= arrived[d].at}
    /\ UNCHANGED <<world, calls, job, run, ledger, troubles>>

SweepAdd(c) ==
    /\ c \in batch
    /\ batch' = batch \ {c}
    /\ job' = Added(c)
    /\ UNCHANGED <<world, calls, run, ledger, troubles>>

-----------------------------------------------------------------------------
World ==
    \/ \E c \in CheckIns : \/ \E state \in {"flagged", "valid"} : Arrive(c, state)
                           \/ Confirm(c)
    \/ \E price \in Prices, from \in 0..MaxTime : SetPrice(price, from)
    \/ Tick

Advance(w) ==
    \/ ReadPrice(w) \/ CheckFirstRule(w) \/ FindPosting(w) \/ InsertLegs(w) \/ Commit(w) \/ Finish(w)

Next ==
    \/ World
    \/ \E c \in CheckIns : Deliver(c) \/ LoseCall(c) \/ ForgetCompleted(c) \/ RetryJob(c)
                           \/ Recover(c) \/ LoseLock(c) \/ SweepAdd(c)
    \/ \E w \in Workers : Advance(w) \/ Fail(w) \/ Die(w) \/ \E c \in CheckIns : Take(w, c)
    \/ Sweep

Spec == Init /\ [][Next]_vars

\* The worker goes on with what it has begun, BullMQ runs the stalled check
\* and hands waiting jobs out first come first served, and the sweep's cron
\* entry keeps starting it.  Nothing makes an admin retry a job, and a call
\* that is not awaited need not arrive.
Fairness ==
    /\ \A w \in Workers : WF_vars(Advance(w))
    /\ \A c \in CheckIns : /\ SF_vars(\E w \in Workers : Take(w, c))
                           /\ WF_vars(Recover(c))
                           /\ WF_vars(SweepAdd(c))
    /\ WF_vars(Sweep)

FairSpec == Spec /\ Fairness

-----------------------------------------------------------------------------
(* Properties. *)

\* Every variable has its type.
TypeOK ==
    /\ arrived \in [CheckIns -> [state : {"none", "flagged", "valid"}, at : Nat]]
    /\ rules \subseteq [price : Nat, from : Nat, made : Nat]
    /\ clock \in Nat
    /\ calls \subseteq CheckIns
    /\ job \in [CheckIns -> Job]
    /\ run \in [Workers -> Run]
    /\ batch \subseteq CheckIns
    /\ ledger \in [CheckIns -> Seq(Nat)]
    /\ failures \in Nat /\ lapses \in Nat

\* One verified show-up, one charge (process-charge.ts): never a second one,
\* with the sweep re-queueing, a job redelivered to another worker while the
\* first still runs, retries, and a worker dying between the ledger's commit
\* and the job's completion.  And none at all for a flagged check-in.
ChargedOnce == \A c \in CheckIns :
    /\ Len(ledger[c]) <= 1
    /\ ledger[c] # <<>> => Valid(c)

\* A charge made late still uses the price of the arrival (priceAt): a rule from
\* then or earlier that none made before the arrival overtakes, and that was
\* itself made by then or, as createPricingRule lets a price reach back, within
\* Grace of it.
ChargedAtArrivalPrice == \A c \in CheckIns :
    LET at == arrived[c].at
    IN  \A i \in DOMAIN ledger[c] : \E r \in rules :
            /\ r.price = ledger[c][i]
            /\ r.from <= at /\ r.made <= at + Grace
            /\ \A q \in rules : q.made < at /\ q.from <= at => q.from <= r.from

\* Whether the price at the check-in's arrival was set only after it.
RepricedLate(c) == \E r \in rules : r.from <= arrived[c].at /\ arrived[c].at <= r.made

\* A completed job blocks its id for a week, so it must have left nothing to
\* charge: its check-in is charged, free, or from before billing.
CompletedMeansSettled == \A c \in CheckIns :
    job[c].state = "completed" =>
        \/ ledger[c] # <<>>
        \/ \A r \in PriceAt(c) : r.price = 0
        \/ RepricedLate(c)

Owed(c) == Valid(c) /\ ~RepricedLate(c) /\ \E r \in PriceAt(c) : r.price > 0

\* The job is in the failed set, for an admin to retry: every attempt failed, or
\* its worker lost it more often than BullMQ allows.
GivenUp(c) ==
    /\ job[c].state = "failed"
    /\ job[c].tries = Attempts \/ job[c].stalls > MaxStalls

\* Free and given-up check-ins never leave what the sweep looks at, and may fill
\* all of its batch.
Clogged ==
    SweepBatch <= Cardinality({c \in Uncharged : GivenUp(c) \/ \A r \in PriceAt(c) : r.price = 0})

\* README.md: a charge can be delayed but never lost.  However its call was
\* lost and whatever the sweep and the worker race with, a show-up that is
\* owed is charged in the end, unless its job lies in the failed set, or as
\* many others as a sweep takes have no charge to come.
OwedIsCharged == \A c \in CheckIns :
    Owed(c) ~> ledger[c] # <<>> \/ RepricedLate(c) \/ GivenUp(c) \/ Clogged
=============================================================================
