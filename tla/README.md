# Walkins in TLA+

Walkins runs walk-in interviews: an employer publishes a *drive* with time
slots, candidates book a seat, a code at the gate checks them in, the company
is charged for each verified show-up, and a nightly job marks whoever did not
come. The API (`apps/api`), the worker (`apps/worker`) and the database package
(`packages/db`) share one PostgreSQL database and one Redis with BullMQ queues.
Nothing but row locks, guarded updates, unique indexes and job ids keeps
concurrent requests apart. These modules say what those guards are meant to
achieve, check it on small instances with TLC, and prove the most important
parts with TLAPS for instances of any size.

- [The system](#the-system)
- [Modules](#modules)
- [Runs](#runs)
- [Fairness](#fairness)
- [Proofs](#proofs)
- [Where the code and its documentation disagree](#where-the-code-and-its-documentation-disagree)
- [What is not modelled](#what-is-not-modelled)
- [Plan](#plan)

## The system

| Part | State | Operations | Interacts with | What makes it correct |
|---|---|---|---|---|
| Applications and seats (`packages/db/src/applications.ts`, `applications.service.ts`, `applicants.service.ts`) | `applications.state`, `slotId`; `drive_slots.bookedCount`; `hiring_outcomes` | apply, release, updateByEmployer, bulk reject | check-in and the nightly run move the same rows; drives open and close around them | moves follow the transition table; capacity; counts equal bookings; a hire has an outcome; who is rejected out of a seat is told |
| Check-in (`check-in.service.ts`, `check-in-token.service.ts`) | `check_ins` (one per application, `isValid`); the rotating code's keys | issue, checkIn, markPresent, confirmFlagged | moves the application; queues the charge | check-in row and state agree; charged once; a code that was on the screen is honoured |
| Nightly expiry (`maintenance-jobs.ts`) | `drives.status`, `applications.state` | expireDrives, markNoShows | races with the desk; retried; may die | absentees are marked, nobody else is |
| Rescheduling (`drives.service.ts`) | slots, their times, bookings in them | reschedule | bookings in flight | nobody booked loses their place; slots follow each other |
| Drive lifecycle and moderation (`drives.service.ts`, `moderation.service.ts`, `admin.service.ts`) | `drives.status`, `suspendedFrom`, `suspendedCause`; `company.suspendedAt` | submit, remove, moderateDrive, SUSPEND/LIFT of a drive or a company, expiry | bookings and check-ins look at the status | a suspension can always be undone as it was made |
| Drive forms and venue (`drives.service.ts`, `geocoding.service.ts`, the drive pages) | address, coordinates, `geocodePrecision`; drafts in tabs | create, update, pinLocation, submit, remove | a lookup service; the review | coordinates are of the address; a pin is kept |
| Screening questions (`knockout.ts`, the editor, the booking panel) | questions of a drive; drafts; answers | edit, save, answer, judge | approval and booking | one question means one thing to employer, candidate and server |
| Public search (`drives.service.ts`, `jobs-search-client.tsx`) | a list, a cursor, an origin | search, more, filter, restored session | sessions | every drive once, nearest first |
| Charging (`ledger.ts`, `process-charge.ts`, `jobs.ts`, the sweep) | ledger postings, `pricing_rules`, the charge queue | queueCharge, processCharge, sweepCharges, createPricingRule, retryJob | check-ins, BullMQ | each verified show-up is charged once, at its own price, in the end |
| Top-ups (`billing.service.ts`) | payment orders, ledger | startTopUp, confirm, handleWebhook | payment gateway | one credit per payment, one payment per order, money taken is credited |
| Alerts and fan-outs (`process-alert.ts`, `alert-service.ts`, `maintenance-jobs.ts`) | `notifications` | queue, processAlert, sweepMessages, scanUpcomingDrives, fanOut | queue, Telegram, targeting | at most one send per alert, pages that skip nobody, a fair excuse for an absence |
| People (`people.service.ts`) | company roles, invitations, drive owners | invite, accept, decline, revoke, changeRole, remove, reassign | bookings block accepting | a company keeps an owner; open drives keep someone answerable |
| Sessions (`auth.service.ts`, `api-client.ts`) | refresh tokens, one-time passwords in Redis; a cookie | requestOtp, verifyOtp, refresh, logout | pages sharing a browser | few tries; replay ends every session, and only a replay does |
| Offline check-ins (`offline.ts`, `api-client.ts`, `apps/web/app/checkin/page.tsx`) | a queue in localStorage, tokens in tabs, a cookie | queueCheckIn, flushCheckIns, sign in, log out | sessions, check-in | no scan lost, none sent as somebody else |
| Voice intros and embeddings (`voice-intro.service.ts`, the worker) | rows, objects in storage, a vector | start, complete, transcribe, purge, embed | queues, storage | one current recording; words of a deleted one are gone |
| Messages (`messages.service.ts`) | threads, places, read marks | send, list, read | alerts | read means seen |
| Hiring outcomes (`outcomes.service.ts`) | one row per hire | record, answer | the hire | no fact without the one before it |
| Verification and reports (`verification.service.ts`, `reports.service.ts`, `moderation.service.ts`) | submissions, company status, reports | submit, decide, report, act | moderation | decided is what was read |
| Rate limits (`rate-limiter.service.ts`) | sorted sets in Redis | consume, isExhausted | every route | what is let through, and who is turned away |
| Live board (`live.gateway.ts`, the board page) | sockets in rooms, a snapshot on a screen | publish, join, evict, poll | check-ins, people | screens catch up; leavers do not watch |
| Targeting scores, catalog, analytics, presentation | none of their own | reads | - | - |

What is hard here: requests interleave between any two of their statements
under READ COMMITTED; several of them read before their transaction and write
inside it; a queue call may be lost and a job run twice or half; a worker dies
and starts over; the status of a drive moves under everything else; and pages
keep what they read while others write it, share a cookie and a queue with other
tabs, and get their answers late, out of order or not at all. The hazards are
listed line by line in `PROJECT.json`, with the property that would catch each.

## Modules

| Module | What it models |
|---|---|
| `DriveStatuses` | the statuses of a drive and how they move, shared by the modules below |
| `ApplicationLifecycle` | the abstract specification: one candidate's application, each move of the transition table one atomic step with its check-in and outcome rows |
| `Applications` | the requests that implement it, for all applications, seats and check-ins of one drive |
| `Rescheduling` | extends `Applications` by the transaction that changes the schedule |
| `Applicants` | the applicants page and its bulk rejection |
| `DriveLifecycle` | the drives of one company: employers, admins, moderation, expiry |
| `DriveForms`, `Screening`, `CheckInCodes`, `DriveSearch` | a drive's address and coordinates; its questions; the code at the gate; the public list |
| `Charging` | from a committed check-in to its posting in the ledger |
| `TopUps` | from a payment at the gateway to its posting in the ledger |
| `Alerts`, `Fanout` | one candidate's alerts; one drive's discovery alert |
| `People`, `Trust` | a company's people; verification and reports |
| `Sessions`, `OfflineCheckIns` | signing in; scans kept on a phone |
| `VoiceIntros`, `Outcomes`, `Messages`, `LiveBoard`, `RateLimits` | one component each |
| `MCApplications`, `MCCharging`, `MCRescheduling` | constants and symmetry for TLC |
| `MCServices`, `MCServicesLive`, `MCDrives` | compositions, for TLC |
| `ApplicationsProofs`, `ApplicationSeatsProofs`, `ChargingProofs` | theorems about one component each |
| `CompanyProofs`, `NoticesProofs`, `CandidatesProofs` | theorems about the components of `MCServices`, each about its own module's `Spec`, and about their composition |
| `DrivesProofs` | the same for `MCDrives`, its reschedules included |
| `NumbersLemmas` | finite sets of numbers, used by the proofs above |

**Composition.** `Rescheduling` shares every variable of `Applications` and runs its
actions beside its own. The other components share no rows: what one relies on of
another is an input of the world's choice there and a checked property here
(`MovesAsApplicationsAssume` is the moves of a drive that `Applications` takes for
granted). A product of such components only multiplies their states, so `MCServices`,
`MCServicesLive` and `MCDrives` check them side by side: `part` says which component a
behaviour is of, `Only(p)` lets that one step, and the others stand still in their
initial state.

### Applications

A request is a record in `req[p]` that goes through *phases*, one per place
where another request can come in between:

| Phase, action | Code |
|---|---|
| `Apply`, `Release`, `Decide`, `Scan`, `MarkPresent`, `ConfirmFlagged` | the handler's reads and refusals before its transaction |
| `ReadApplication` | `findUniqueOrThrow` and `assertLegal` in `transitionApplication`, or `assertLegal(null, ...)` in `createApplication` |
| `TakeSeat`, `ReleaseSeat` | the guarded `UPDATE drive_slots`, which holds the row's lock from then on (`held`) and waits for another holder |
| `CommitMove`, `LoseRace` | the compare-and-set on the state (or the insert) with the rows that go with it, committed or rolled back |
| `CommitConfirm` | `confirmFlagged`'s update |
| `AnswerError`, `CatchInLoop` | what becomes of an error in the API and in the nightly loop |
| `Abandon`, `WorkerCrash` | a process that dies: everything uncommitted is gone |

The compare-and-set and the commit are one step: the application row is locked
from the one to the other, nothing else is written after it, and whoever waits
for the row finds it as committed. `apply` looks at the application once more
before it moves it, with the same refusals as the transition table, so that is
one read here. A scan looks at the application *before* its transaction to
decide between moving and creating it, and that read is kept (`exists`).
`INTERESTED` and its rules are left out: nothing creates such an application.

The nightly run is `ExpireDrives`, `FindUnattended`, then one transaction per
row of its list (`MarkNoShow` and the same steps as any request), then
`FinishRun`; an error other than a stale state ends the run, and the next one,
a BullMQ retry or the next night's, starts from `ExpireDrives`.

The drive's status moves by `MoveDrive`, at any time, along `StatusMoves`. That
these are the moves a drive can make is an assumption of this module and a
checked property of `DriveLifecycle` (`MovesAsApplicationsAssume`), stale
submissions and cancellations included. The clock counts slot lengths.

`Rescheduling` adds `ReadDriveToMove` (the drive's `FOR UPDATE` and the read of its
slots with their counts), `LockSlots` (the slots' rows) and `MoveSlots` or `GiveUpMove`
(the new times, who goes where, and the refusals, all worked out from what was
read). The drive's row holds up whatever inserts an application of it
(`WaitsForMove`); a booking that moves an existing application touches only a slot's
row and is not held up. `LoseSlot` is a booking whose slot is deleted under it.

`Applicants` is the recruiters' list (`LoadList`, `Toggle`), the request for what is
ticked (`SendReject`), the read of the states (`ReadApplicants`), and one transaction per
application with the alert queued after it (`RejectNext`, `TellRejected`), while
candidates come, go and book again. `ApplicationsProofs` is about the single moves
these consist of.

### DriveLifecycle

`submit` and `remove` check the status and later write the new one by id
(`MoveTo`); approval and rejection compare and set (`Moderate`). A moderation is
one transaction: check or lock the target (`SuspendDrive`, `LiftDrive`,
`SuspendCompany`, `LiftCompany`), find the drives (`FindDrives`), write those
that are still as found (`CommitModeration`). The guarded update of
`company.suspendedAt` comes first and locks the company row, so two moderations
of a company take turns (`CompanyLocked`), while moderations of single drives do
not wait for them. Verification and balance, which an approval also looks at,
are the world's choice. A drive's end does not fall between a request's check
and its write (seconds against hours).

### What an employer does with a drive

`DriveForms`: a tab holds what it loaded and what was typed (`OpenForm`,
`TypeAddress`); an update reads the row (`SendAddress`), looks the address up if it
differs from what was read (`Locate`, up to five seconds and one at a time in the
code, so anything may come between), and writes by id (`WriteAddress`). `SendPin` and
`WritePin` are `pinLocation`; `SendMove` and `WriteMove` are submit and remove; `Review` is the
admins. `overlapped` is the history of a request writing over what another wrote.

`Screening`: the editor's drafts keep what was typed for other types of question
(`Draft`), saving keeps what belongs to the type (`KnockoutQuestions`), and
`EvaluateKnockouts` judges typed answers; `SendSave` and `WriteSave` are apart, so that
`GoLive` and `OpenPage` fall between.

`CheckInCodes`: a code is the time it was issued at. `AskForCode`, `IssueCode`, `ShowCode` and
`FailCodeCall` are the screen's requests, which overlap; `MomentPasses` is the clock,
`TakeScan` a phone's scan off the screen, and `JudgeScan` the verdict, whenever it
arrives. `DriveSearch`: `Search` is the query with its keyset cursor; `RunSearch`,
`ShowResult`, `More`, `ApplyFilters` and `RestoreSession` are the page's.

### Charging

`job[c]` is BullMQ's job `charge.<c>`: adding one that exists, completed and
failed ones included, changes nothing (`Added`). `Take`, `Finish`, `Fail`,
`Recover` and `LoseLock` are the queue's protocol with a worker slot: a job is
active under a lock, a slot that dies or loses touch with Redis has its job
taken back, and goes on with it if it is alive. The slot's steps are those of
`processCharge`: the check-in and its price (`ReadPrice`, and `CheckFirstRule` if
there is none), `postTransaction`'s look for a posting (`FindPosting`), the
insert, where the unique index makes a second transaction wait (`InsertLegs`),
and the commit. Both legs of a posting carry one amount, which is what `ledger`
holds. `Sweep` selects and `SweepAdd` queues.

### Money, alerts and storage

`TopUps`: a call is a webhook delivery (`HandleWebhook`) or a confirmation
(`ConfirmTopUp`); it reads the order (`ReadOrder`), posts and marks it paid in one
transaction keyed on the payment (`PostTopUp`), or marks it failed (`MarkFailed`), and
answers or dies. The gateway (`Pay`, `Settle`) is outside: a payment is authorized,
captured or failed, of the ordered sum or another.

`Alerts`: an alert is a key, of what it is about and which version of the schedule.
`CheckClaim`, `LoadAlert`, `ClaimAlert`, `SendAlert` and `RecordAnswer` are `processAlert`; jobs are
BullMQ's, as in `Charging`. `Fanout`: `BeginFanOut`, `NextPage` and `EndFanOut` are the loop over
`findCandidatesForDrive`, with candidates who come to match or stop meanwhile.

`VoiceIntros`: `StartUpload`, `CheckUpload`, `CommitIntro` and `QueueTranscription` are the API;
`TakeRecording`, `Transcribe`, `Embed`, `PurgeFinds`, `PurgeObject` and `PurgeRow` the worker, which
may die between any two. An age is a flag (`AgeIntro`), set once at any time.

### People and pages

`People`: every request is a step that reads the caller's role (`BeginStaff`,
`BeginDrive`, `BeginAccept`) and one that is the transaction. `ChangeRole`, `Remove` and the others that
lock the company are true to their reads; `GiveDrive` and `Accept` are not, and `overtaken` and
`bookedLate` are the histories of that.

`Sessions`: a page has one call in flight, in Redis commands (`ReadToken`,
`ConsumeToken`, `IssueToken`; `ListTokens`, `RevokeTokens` on a replay; `TryOtp`, `CountTry`, `DropOtp`);
`Receive` and `LoseAnswer` are what becomes of the answer, cookie included.
`OfflineCheckIns`: code between two awaits is one step: `ListQueue`, `NextScan`, `SendQueued`,
`TakeOff` are `flushCheckIns`; tabs share queue, cookie and stored user, each has its token.

`Messages`: `TakeSeq` is the `UPDATE` that numbers a message and holds the thread's row to
`CommitMessage`; `ReadThread` and `ListMessages` are the two reads of an answer, `ShowThread` the
page, and `MarkRead` what it sends back. `LiveBoard`: a snapshot is the number of the change
it shows; `BuildSnapshot` and `EmitSnapshot` are `publish`, `AskToJoin` to `JoinAnswered` the
join, `Poll` the page's timer. `Outcomes`: `BeginRecord` checks, `CommitRecord` writes one fact.
`Trust`: `ReadStanding` and `SubmitDocuments`, `CheckReport` and `FileReport`, `ReadOpenReports` and
`Act` are reads and writes of one request each. `RateLimits`: `Consume` is the Redis script;
`CheckFailures` asks before a scan and `ResolveCode` counts after it. A log is a set of
entries, a second and a member, like the sorted set it stands for.

## Runs

| Run | Question | Instance | Distinct states |
|---|---|---|---|
| `app_races` | do racing handlers amount to atomic legal moves? | 1 candidate, 2 requests and the nightly run, every handler | 1.2 M |
| `app_overbooked` | do bookings stay within the drive's seats? | 2 candidates, 2 requests, 2 one-seat slots, booking and withdrawing | 0.95 M |
| `app_rebook` | are counts exact and the last seat sold once, if nobody rebooks under another request's read? | the same, with the employer's decisions | 0.9 M |
| `charging_once` | one charge, at the right price, whatever happens to the job? | 1 check-in, both worker slots, 2 failures, 2 deaths or lost locks, prices 0, 1, 2 | 1.9 M |
| `charging_delivered` | is every owed show-up charged in the end? | 2 check-ins, both slots, a sweep of one | 0.16 M |
| `drives` | does a drive come through what its employer, candidates and pages do to it? | `MCDrives`, 6 components | 0.78 M |
| `services_safety` | does each service keep its promises? | `MCServices`, 13 components | 0.49 M |
| `services_live` | does what must happen happen? | `MCServicesLive`, 4 components | 54 k |
| `app_resold`, `reschedule_overbooks`, `fanout_cut_short`, `offline_other_account` | see [below](#where-the-code-and-its-documentation-disagree) | | |

**Properties.** What each passing run checks; each has a mutant in `PROJECT.json`, a
small bug in one definition, written beside it in its module, that makes TLC find
the property violated.

| Run | Property | Says |
|---|---|---|
| `app_races` | `ImplementsLifecycle` | the requests implement `ApplicationLifecycle` (refinement) |
| | `RowsFitState` | check-in and outcome rows agree with the state |
| | `AbsentOnlyAfterExpiry` | nobody is marked absent while the drive goes on (an action property) |
| `app_overbooked` | `DriveNotOverbooked` | the seats of the drive cover everyone who holds one, however stale the slot a request frees |
| `app_rebook` | `SeatsConserved`, `LastSeatSoldOnce` | counts equal bookings; a slot's last seat is sold once |
| `charging_once` | `ChargedOnce`, `ChargedAtArrivalPrice`, `CompletedMeansSettled` | one charge; at the arrival's price; a completed job's id hides nothing owed |
| `charging_delivered` | `OwedIsCharged` | liveness of the sweep and the queue |
| `drives` | `BookingsSurvive` | a reschedule strands nobody who was booked, and slots follow each other |
| | `VerdictsFit` | asked, judged and shown are one set of questions, zeros and drafts of other types included |
| | `CodesServe` | a code scanned off the screen is honoured on time; the screen is dark only when hampered |
| | `RejectedWereTold` | who is rejected out of a seat is told, and only the rejected |
| | `ListIsOneSearch` | pages are one search: nothing twice, nothing left out, ties included |
| | `PlacesMoveWithTheirSpot` | coordinates are of the address; a pin outlives a save (an action property) |
| `services_safety` | `SuspensionsCanBeLifted`, `MovesAsApplicationsAssume` | suspensions can be undone as they were made; a drive moves as `Applications` takes for granted |
| | `TriesBounded`, `ReplayMeansLostAnswer` | tries at a code, counted with those in flight; only a replay signs everybody out |
| | `CompanyKeepsAnOwner`, `NothingLeftBehind` | people who leave, join and are demoted at once |
| | `CreditsMatchOrders` | the ledger and the orders agree; a second payment is refused |
| | `NoSecondCopy`, `HeldAgainstOnlyIfTold` | an alert goes out once; no absence is held against who was not told of the time |
| | `NoScanForgotten`, `SentAsAnotherOnlyAfterSignIn` | what becomes of a scan, and as whom it goes out |
| | `IntrosKeepTheirWord`, `FactsFit`, `ReadMeansSeen`, `LeaversDoNotWatch`, `ReviewsAnswerWhatWasRead`, `PagesSkipNobody`, `LimitsHold` | one promise of each of the other components |
| `services_live` | `AbsenteesAreMarked`, `MoneyTakenIsCredited`, `MessageIsTried`, `EveryScreenCatchesUp` | liveness of the nightly run, the webhook, the sweep of messages and the poll |

Where the code has a known exception, the property names it and a history
variable says when it applies: `overtaken`, `lifted`, `bookedLate` in `People`,
`racedCredit` in `TopUps`, `outrun` in `Applicants`, `overtook` in `OfflineCheckIns`,
`overlapped`, `savedOver` and `strayed` in `DriveForms`, `Screening` and `DriveSearch`. The
mutants break the properties without them, so the exception does not swallow the
rule. `DrivesTypeOK` and `ServicesTypeOK` are the type invariants of the two larger
compositions.

**Bounds, and why they are enough.** Two requests and the worker are three
processes on one row, so one can read, a second move the row, and a third move
it back before the first writes; the shortest overselling needs exactly that.
Two candidates and two one-seat slots are the least in which a seat can go to
the wrong slot and be sold again. `app_races` uses one candidate because the rows
it is about belong to one application each; requests about different
applications meet only in the slots, which the other two runs are about.
`Handlers` limits a run to those that can matter to its properties. One check-in is
enough for charging safely (nothing in a charge looks at another), two for the
sweep's batch. `MaxCrashes`, `MaxFailures` and `MaxLapses` bound how often things go
wrong, `MaxTime` and `MaxRules` the clock and price changes: with `MaxTime` 5 a
rule can be set before, within the grace of, and well after an arrival, and be
read at each of those times. Time in `Applications` ends with the drive, since a
drive that has ended does not come back.

In `drives`: one move (`MaxMoves`) of one slot's length (`MaxShift`), with a slot kept,
dropped and added, and two candidates so that one can lose to the other. One
question, of any type, with three edits (`MaxEdits`): typed, changed of type and
typed again; with more questions the judgement is a conjunction over them. Two
tabs and two calls in the forms, for one to write between the other's read and
write. Codes live 4 moments, are due after 1 and have 2 of grace, so that two or
more are alive at once and a scan can be sent on time, in the grace and after it
(`MaxMoment` 7 is past all of these). Two drives tying from the city and not from home, on
pages of one, put a page's end inside a tie.

In `services_safety` every component has two requests, or runs, at once: each of its
races is between two. Three people with two owners let each remove the other while
the third joins; two payments of one order, two scans, two recordings, two messages, two
submissions and two reports are the least of which one can overtake the other; one
code with two tries can be tried from both pages at once; one lost answer, death or lost lock (`MaxLost`,
`MaxDied`, `MaxAlertFaults`, `MaxVoiceDeaths`, `MaxScanDeaths`, `MaxDrops`, `MaxSocketDrops`)
can fall between any two steps. `MaxVersion` and `MaxSuspensions` are one each: an alert is
stale once. `MaxAsked`, `MaxSignIns`, `MaxMoved`, `LastSecond` and `LastDay` only end a
behaviour. Three candidates on pages of one, of whom two are within the limit
(`NearestOnly`), let one leave a page that was read and one come before it.
`services_live` has one death or lost call in each component.

Deadlock is not checked where a system stops by design: when everything is
charged and the bounds are used up, and in the compositions, when the component
whose turn it is has no more to do within its bounds. It is checked in the runs of
`Applications`, where the nightly run goes on for ever. Runs with symmetry
check invariants and action properties only, and people that play the same part
are all that is permuted; the liveness runs use none, except that `app_races`
checks a refinement whose variables are permuted along.

## Fairness

- A transaction that has begun goes on (`WF` of `Advance`): Prisma and PostgreSQL
  end every transaction, with a timeout of five seconds at the latest, and a
  failed request answers (`WF` of `AnswerError`). Starting a request is nobody's
  duty, so the handlers themselves have no fairness.
- The maintenance queue runs `expire-drives` every night for ever
  (`registerSchedules`), so the run goes on or starts again (`WF` of `RunJob`), and
  time passes (`WF` of `Tick`). `MCServicesLive` calls these `NightsPass`.
- A worker slot goes on with its job (`WF` of `Advance`), BullMQ's stalled check
  runs (`WF` of `Recover`), the sweep's schedule fires (`WF` of `Sweep`, `SweepAdd`).
  Waiting jobs are handed out first come first served, so a job that waits
  again and again is taken (`SF` of `Take`). There is no fairness for `Deliver`: the
  call is not awaited and may be lost. There is none for `RetryJob`: no admin has
  to look.
- `GatewayRepeats`: a call goes on or dies (`WF` of `CallStep`), and the gateway repeats
  an event until it is answered with success (`SF` of `HandleWebhook` for the event, since
  other deliveries may be in the way). There is none for `ConfirmTopUp`: the page
  may be closed.
- `SweepsGoOn`: cron sweeps messages (`WF` of `SweepMessages`), and the worker takes what is
  queued and goes on with it (`WF` of `TakeAlert`, `AlertRunStep`). There is none for
  `QueueAlert`: the API may die before it.
- `ScreensPoll`: an open page polls every 30 seconds and its poll is answered (`WF` of
  `Poll`, `PollAnswered`), and who publishes or joins goes on. There is none for the socket.

## Proofs

Proved with TLAPS for every value of the constants, under the assumptions named
in the modules (finite candidates, positive capacity, distinct ids and the like).
Every safety invariant and every action property of a passing run is a theorem;
what is not proved is listed at the end of this section.

How they are laid out: a component's theorems are about its own specification, in the
order types, inductive invariant, one lemma per group of actions, theorem. An
invariant below is the property with what makes it inductive. Each was checked by TLC
before it was proved.

### Applications

**Capacity and locks** (`ApplicationsProofs`). `NeverOverCapacity` is not inductive: a
commit adds one to whatever the count is then. `SeatInv` adds what makes the
commit safe: a request that holds a slot row found room (or a seat to give back)
when it updated it (`LockedSeat`), nobody else holds that row
(`SlotLockExclusive`), and only holders change counts. So what it found is still
there when it commits. It gives `TypeCorrect`, `CapacityHolds` and `RowLocksExclusive`,
for `Applications` without reschedules; with them capacity can be passed
(`reschedule_overbooks`).

**Refinement** (`Implements`). Every step is a step of `ApplicationLifecycle` or
leaves its variables alone. Only `CommitMove` and `CommitConfirm` are not
stutters; for `CommitMove` one needs that a move past `assertLegal` is in the
transition table for the state it was read in (`MovesLegal`, an invariant of its
own), and the compare-and-set says that state is the present one. `RowsFit` then
follows from the lifecycle alone.

**Absence** (`AbsenceFollowsExpiry`). What the nightly run read stays true: a drive that
is over, ended and expired or cancelled, stays so whatever else moves it (`OverForGood`), so
a row on its list, and a request to mark one absent, are of a drive that is over (`AbsenceInv`).

**Seats** (`ApplicationSeatsProofs`). `SeatsConserved` needs that the slot a request
is about to free is the slot the application points at. The code does not make
sure of that (see `app_resold`), so it is proved under `NoRebookSpec`: no request
books an application while another holds its read of a booking. Under it
`ConservedInv` is inductive: counts equal pointers, and a read of a booking that
would still pass the compare-and-set is still right about the slot. Commits
change one count and one pointer, and the cardinalities follow. `LastSeatIsSoldOnce`
follows with `CapacityHolds`.

**The drive as a whole.** `DriveIsNotOverbooked` needs no such assumption. Its
invariant, `CoverInv`, forgets which slot is counted: there are no more holders of seats than seats
counted (`Covered`), whoever is booked holds one, and a request that read a
booking frees a seat only if its compare-and-set finds someone still holding one (`ReadsCover`).
A stale `slotId` then gives back the wrong slot's seat, but only ever one per holder
who leaves. `SeatsBelongToBookings` comes with it.

**Reschedules** (`DrivesProofs`). `BookingsAlwaysSurvive` rests on `LockInv`, the part of `SeatInv`
that a reschedule leaves true, and on `RowsHeld`: a row that a request holds is of a
slot the drive has, and once the move has locked the slots nobody holds one. So a
slot that goes is in nobody's hands, and whoever was on it is moved along.

### Money

**Charges** (`ChargingProofs`). `NeverChargedTwice` rests on `OneInsert` (at most one
transaction has inserted and not ended, and none once a posting is there: the
unique index) and `OnlyValid` (calls, jobs, slots and postings are only ever of
valid check-ins). `ChargesUseTheArrivalPrice` rests on `RulesInOrder` (a rule never
starts more than the grace before it is made) and `PricesFit` (a price that was
read fits the arrival, and goes on fitting it as rules are added).
`CompletedIsSettled` rests on `DoneIsSettled`: a slot that is done with a
check-in leaves nothing to charge, and what is settled stays so.

**Top-ups** (`CompanyProofs`). `LedgerMatchesOrders` needs `WordHolds` (the gateway does not
take back a settled payment, so an event that is on its way is still true) and
`CallsKnow` (a call about to post has a captured payment of the right sum; if it saw
its order credited, that was by its own payment).

### A drive and its company

**Suspensions** (`CompanyProofs`). `SuspensionsLiftable` needs `OneAtATime` (the lock
on the company's row) and `LiftFindsAll`: between a lift's search and its writes no drive
comes to be suspended for the company's sake, because only the holder of that
lock does that.

**What `Applications` assumes of a drive.** `DrivesMoveAsAssumed` discharges it. `EndedInv` says of a
drive that has ended that it is live or expired only if it was live at its end, and in
draft or in review only if it was that, and of every request under way that what it is
about to write, stale or not, keeps this true.

**Addresses** (`DrivesProofs`). `CallsFit`: a request that is not behind another finds
the drive as it read it, so what it writes is of the address it writes it with; with `OneCreates`, one
request makes the drive. Then `AddressesKeepTheirSpot`.

**Questions.** `ScreeningInv` says, unless a save of before the approval landed after it
(`savedOver`), that what a page shows, what was answered and what is judged are of the
drive's one questionnaire (`OfOneQuestionnaire`); an editor sends again unchanged what
it shows of a question. `TheVerdictsFit` is then that one questionnaire is asked, judged
and shown.

**Codes.** `CodesInv` follows a code from its issue to the screen to a verdict: a scan
was of a code valid when it was made (`ScansOfShown`); while nothing hampers the screen
its requests are quick, and the next code is asked for as soon as it is due
(`NextIsAskedFor`). `TheCodesServe` adds up lifetime, rotation, retry and grace;
`CodeAssumption` says how they must fit together, as the code's constants do.

**The public list.** `ListInv` says, unless searches overlapped while the page was
hydrating (`strayed`), that at most one search is under way, with the filter that is
applied and the cursor the list ends in (`OneSearch`), and that what is shown is the
beginning of all that matches, in rank order, with a cursor that says where it ends
(`GoodList`). The step is `RestInOrder`: the rows after a cursor are the rest of the
rows, ties included, and it rests on `EveryPlaceIsTaken`, a pigeonhole argument that
ranks have no gap. `PagesAreOneSearch` follows.

**Rejections** (`RejectedAreTold`) need `UnreadBookedLater` (who is still to be rejected, and
booked now, was read as booked unless they booked since) and `TellsWhileRejecting`.

**Reviews** (`CompanyProofs`). `DecisionsAnswerWhatWasRead` needs, beside the conditions that
the updates themselves repeat, `StandingFits`: at most one submission waits, exactly while the
company is pending, and a verified company has an approved one.

**The board.** `NobodyWatchesAfterLeaving` needs `RoomIsTheJoined` (who is in the room)
and `LetInAreNotOut`: a socket that was let in belongs to someone who may be leaving but
is not out, because the last step of leaving closes it.

**People.** `OwnerRemains` is inductive with the types and `AskedOf` (a
request is about a person or a drive, as its operation says): who goes or is
demoted under the company's lock leaves another owner, who is a person.
`LeaveNothingBehind` needs what the requests in flight still promise (`PromisesHold`): a
request to create or reassign that nothing has overtaken names someone who runs
drives, and one who is joining and holds a seat booked it late. `Successors` then gives
every open drive of who leaves to someone who stays and runs drives.

### Notices

**Alerts** (`NoticesProofs`). `NothingGoesOutTwice` needs `SendersHoldTheClaim`: whoever is about to
send has the row's claim, and a claim that may have been used is free again for nobody.
`AbsenceCountsIfKnown` needs `ClaimsTell` (a row marked as sent did reach the
candidate) and `BookedAtKnownTimes` (nobody booked at a time that was yet to be set).

**Fan-out.** `FanOutsSkipNobody` needs `FanoutInv`: of those who match throughout,
whoever the cursor has passed has an alert, and a fan-out that has ended has passed all
of them or reached the limit. A page takes the first so many after the cursor, so it is
everybody up to its last (`NumbersLemmas`: a set of numbers has a least and, if finite,
a greatest). That others come and go between pages moves a page's end, not this.

**Messages.** `ReadWasSeen` needs that a thread's row has one
holder (`RowHasOneHolder`), that filled places have no gap (`NoGaps`), that what a page is
about to mark is a prefix it has shown (`PagesShowWhatTheyMark`), and that marks stay
within what was shown (`ReadWasOnScreen`).

### Candidates

All in `CandidatesProofs`.

- `GuessesAreBounded`: tries at a code are counted or about to be (`TriesCounted`), so they
  pass the limit by at most the requests that are under way.
- `OnlyLostAnswersReplay`: until an answer is lost, the key in a page's cookie is unused, and
  no two pages have the same (`CookiesAreFresh`).
- `EveryScanAccountedFor` and `OnlySignInsMislead`: a flush that awaits an answer still has its
  scan to account for (`FlushesFit`), and while nobody has signed in past a tab, its token and its
  flush are of whoever the shared cookie belongs to (`NotOvertaken`).
- `IntrosPlayAndWordsLeave`: the rows and jobs fit (`JobsFit`), and the words in the
  embedding are of the current recording or a job to embed again is waiting, but for the two
  histories (`EmbeddedIsCurrent`).
- `OutcomeFactsFit`: a fact that is about to be written still rests on the one before it.
- `TheLimitsHold`: a log is trimmed only of what no window reaches any more (`LogIsRecent`), so
  counting what is left of it counts the calls of the last window, and any window that ends
  in a call is below the limit.

### Compositions

`ServicesAreTheirParts` and `DrivesAreTheirParts`: a behaviour of `MCServices`, or `MCDrives`, is a
behaviour of each of its components' specifications, since a step moves one of them and
leaves the rest alone. Hence each theorem above holds in what `services_safety` and `drives`
check, and so do their type invariants (`ServicesTypeCorrect`, `DrivesTypeCorrect`).

### What the proofs changed in the models

A type invariant that TLC accepted was often too weak to reason from, and was completed
(`Alerts`, `Fanout`, `Trust`). Two `CASE`s whose arms overlapped said less than was
meant and are now disjoint (`Sessions`, `CheckInCodes`). `RateLimits` summed a log
recursively, and `DriveSearch` sorted its rows; both are now stated by what they mean, a
set of entries and rows ordered by `Rank`. `Applications` has its two ways to begin a
request apart (`BeginBooking`, `BeginAtDesk`).

### Only model-checked

The liveness properties (`AbsenteesAreMarked`, `OwedIsCharged`, `MoneyTakenIsCredited`,
`MessageIsTried` and `EveryScreenCatchesUp`): liveness under fairness is out of the
prover's reach, as is `ENABLED`. What a recursive function computes would need induction
over data, with theorems that take an operator, which the provers cannot instantiate;
the models avoid it where something is proved about them. That the code really can go
wrong where a history variable says so is shown by runs, not by theorems.

## Where the code and its documentation disagree

Four are runs that expect a violation; the trace is the scenario.

- `app_resold`: a seat freed by a stale `slotId` lets a slot's last seat be sold
  twice. Two overlapping requests of one candidate are enough on that side.
- `reschedule_overbooks`: a reschedule reads the slots' counts before it locks them, and
  a booking that commits in between is not counted in the room left.
- `fanout_cut_short`: a fan-out that dies between two pages is not started again once
  an alert of its first pages is written.
- `offline_other_account`: a scan whose owner was checked is sent, after a 401, with the
  session of whoever signed in since in another tab.

Others were met while modelling. The models contain them, as a named exception
of a property or as an action that does what the code does:

*Moderation and drives*

- `DriveLifecycle`: lifting a drive, or approving one in the right window, puts a drive of a
  suspended company live (`docs/TECHNICAL.md:1067`; `moderation.service.ts:280`,
  `admin.service.ts:61`, `drives.service.ts:480`).
- `DriveForms`, `Screening`: an approval checks the status alone, so what a PENDING drive was
  edited to after the admin saw it goes live; a save read in review can land after
  the approval; a stale tab puts back what another changed; overlapping saves leave
  coordinates that are not of the address. `update` lacks `create`'s capacity check.
- `Rescheduling`: a reschedule and a booking can lock slots and applications in opposite order,
  which PostgreSQL ends by aborting one; a release that read its slot before a reschedule leaves a
  count behind in the new one.
- `Trust`: the audit entry of a review may show a "before" that is stale, reports are
  checked for duplicates before they are created, and an action closes reports by id whether
  or not another has closed them.

*Candidates and the desk*

- `Applications`: a candidate the desk checks in at the last second ends the no-show run
  instead of being skipped (`maintenance-jobs.ts:80-83` against 103); later runs make
  up for it.
- `Applicants`: who books again between a bulk rejection's read and its move is rejected
  without being told (`applicants.service.ts:204`); who arrived in between is told not to travel;
  ticks that are not listed any more are sent but not counted in the question. A single
  rejection through `updateByEmployer` tells nobody.
- `CheckInCodes`: an offline scan is refused when its code outlives the drive, or after the
  nightly run closed the drive (`docs/TECHNICAL.md:168-169`); a code's key and its
  grace end together, so a late scan mostly counts as a wrong code.
- `OfflineCheckIns`: a scan queued while a flush runs waits for the next trigger; the page shows the
  last answer for whichever scan is waiting.
- `DriveSearch`: the search after a restored session uses the filters of the first render,
  and overlapping searches can put pages of two origins in one list.

*Money*

- `Charging`: the sweep cannot queue a failed charge again while its job, kept for
  the admin, holds the id (`jobs.ts:81-83`); free and failed check-ins stay in the
  sweep's oldest-first batch, and once they fill it an owed one behind them waits
  (`maintenance-jobs.ts:264`, `docs/TECHNICAL.md:554-557`).
- `TopUps`: two captured payments of one order, both read before either is posted, are both credited.

*People, sessions and messages*

- `People`: creating or reassigning a drive races leaving, and lifting a drive gives it back to
  someone who has left; accepting an invitation races booking.
- `Sessions`: signing out everywhere misses a token issued between the listing and the
  revocation; tries in flight share one reading of the count; `restoreSession` keeps the token in memory.
- `Messages`: a block is looked up before the transaction, so a message can follow it.
- `Alerts`: the version of an alert is checked before it is sent, not with it; the message sweep
  looks back 24 hours. `Fanout`: the limit of an unverified company counts per scan.
- `VoiceIntros`: words of a deleted recording stay in the embedding if a newer one has no
  transcript, or if the worker dies before it asks for the embedding.
- `Outcomes`: recording again that someone started keeps what was recorded of their staying.
- `RateLimits`: asking about the limit and counting against it are apart, so a burst
  passes it. `LiveBoard`: two pushes can overtake each other until the next event or poll.

## What is not modelled

- Analytics, the admin's lists and the reliability score: single statements over
  rows that others write. Targeting scores and embeddings are numbers; only the order
  and the cursor of targeting pages are used.
- Linking a Telegram account, and choosing among channels: an alert has a chat or not.
- Audit rows, which are written in the transactions that are modelled; notes,
  shortlists and warnings, which nothing else reads.
- Fields of a drive other than its address, coordinates, questions, slots and status.
  They are written whole, without being read back.
- The distance between a scan and the venue, which decides whether it is flagged (the
  world chooses); signatures of tokens and webhooks, which are taken to be checked.
- Order among several questions or languages, wording, formatting and translation.
- Changes to the list of drives while someone pages through it.

Two waits are simpler than the database's. A transaction that waits for a slot
row and whose candidate's application was moved meanwhile is not told so until
its compare-and-set, as in PostgreSQL; and the timeouts that end a wait are
`Abandon`. A lock that is held within one step of a model does not appear in it.

## Plan

1. An abstract wallet, credited and charged in atomic steps, that `TopUps` and
   `Charging` both refine, with the refinement as theorems of `CompanyProofs` and `ChargingProofs`.
2. `Screening` with two questions, `DriveSearch` with drives that open and close, and `Sessions` with
   two pages in one browser, with their invariants adapted and proved again.
3. Linking a Telegram account, and the reconnect page's poll, beside `Alerts`.
4. The two hazards that no property covers: a lift that crosses a company's suspension, and a
   check-in during a drive's suspension. Both need a statement of what is meant that the code or its
   documentation does not make yet.
