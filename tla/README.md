# Coding Night, specified

TLA+ models of the contest platform in this repository: what is stored, who may
change it, and what stays true when requests, the judge worker, organizers and
the clock get in each other's way. TLC checks the models on small instances;
TLAPS proves the main results for every value of the constants.

Paths below are relative to the repository; `contest/` stands for `lib/contest/`.

## 1. The system

One Next.js process serves every screen, one worker process judges programs.
They share Postgres (all facts) and Redis (a BullMQ queue). Nothing is computed
in advance: the board is recomputed from the submission log on every request,
and a verdict reaches the database only when somebody looks at the submission.

| component | state it keeps | operations | talks to |
|---|---|---|---|
| submission ledger (`contest/submissions.ts`, `admin.ts`, `score-revisions.ts`) | `Submission`, its `SubmissionScoreRevision` log, its `TestResult` rows | insert, judge result, internal error, override, rejudge, removal | every transaction takes the contest's advisory lock (`locks.ts`) |
| judging protocol (`submissions.ts`, `queue.ts`, `lib/judge/queue.ts`, `worker/index.ts`) | the BullMQ job of each submission; what a handler holds between awaits | submit, reconcile, rejudge; take, complete, throw, stall, evict | Redis, ledger, runner |
| runner (`worker/runner.ts`, `batch-driver.ts`, `docker.ts`) | a workspace of directories, one container at a time, the feeder beside it | build, batch, retry, collect | the worker calls it; its result is the job's |
| contest lifecycle (`contests.ts`, `admin.ts`, `gate.ts`) | `Contest.state`, `startsAt`, `endsAt`, `freezeAt` | publish, start, end, freeze, unfreeze, and the clock run by polls | line-up, sets |
| public board (`standings.ts`, `lib/scoring/`) | a one-second cache of the scoring input, shared by requests in flight | load, invalidate, answer | ledger, roster, contest row |
| scoring (`lib/scoring/`, `score-normalization.ts`, `lib/judge/aggregate.ts`) | none; it replays the log | points, penalties, team means, ranks, as of any instant | board |
| roster and teams (`teams.ts`, `enrolment.ts`) | `Participant`, `Team` | sign-in, move, add, remove, divisions | board, sets |
| line-up and sets (`contests.ts`, `assign-sets.ts`, `set-plan.ts`, `set-build.ts`, `admin/SetPlanner.tsx`) | `ContestProblem`, `ProblemSet`, `Participant.chosenSetId`, the stored plan | place by hand, plan, preview, build, deal, reassign | start gate, bank |
| authoring (`problem-author.ts`, `problem-bank.ts`) | `Problem`, `TestCase`, the test files on disk, the validation stamp | create, edit, delete, validate | line-up, judge |
| live stream and problem page (`stream.ts`, `contest/data/useVerdictStream.ts`) | per connection: announced verdicts; the count of open streams; in the browser: what is watched and shown | open, tick, abort, cancel; submit, fall back, poll | reconcile, board |
| limits (`rate-limit.ts`) | windows, failure count, active and queued checks, in memory | consume, sweep, throttle, run | routes |
| sign-in (`accounts.ts`, `session-store.ts`, `enrolment.ts`, the routes) | `User`, `Session`, `Participant` | link, sign up, log in, choose a contest, enrol, issue, revoke | contest, roster |

**What is hard here, and what makes it correct.**

- *Reconciliation is a read path.* A student's poll, a stream's tick and an
  organizer's console may all be moving the same finished job into the same row,
  each holding a result it read before the lock. Correct: one verdict, written
  once, never over an organizer's; a log that agrees with the row.
- *Two stores, no common transaction.* A row is inserted, then a job enqueued; a
  rejudge clears the row, removes a job, adds a job. Any call may fail and the
  process may die between two of them. Correct: no row waits for a job that will
  never come, or it is given up on after ten minutes.
- *Three processes over two directories.* Judge, driver and feeder hand test
  inputs and results to each other as files, and any container may die between
  two of them. Correct: a verdict is what the program did with the whole of its
  input; nobody waits for a file that nobody will write.
- *Old instants.* Requests read the clock when they arrive and write after they
  have waited for a lock. Correct: a stale request neither ends a contest early
  nor moves the cutoff of a board the room is looking at, nor gets more than its
  share through a limiter.
- *A frozen board is a replay.* Judging goes on, overrides and rejudges too,
  while everybody must see the board as it was. Correct: nothing moves until the
  reveal, and a board as of an instant stays what it was.
- *A cache filled by promises.* A load is cached before it has read anything, and
  requests share it. Correct: a write never hides behind an older load.
- *No lock on accounts.* Callbacks, forms and retries race for one address and
  one subject. Correct: nobody is signed in to somebody else's account, and a
  session of a competitor is of one who is there.
- *Reads that are old when used.* A split of the bank is shown, then built; a
  question is validated for minutes, then stamped; submissions are counted, then
  deleted. Correct: what is written is what was looked at.
- *Disk and database.* A question's files and its row change one after the other.
  Correct: a row always has its files, whatever dies.
- *Connections.* A stream ends by lifetime, abort or cancel, more than once and in
  any order. Correct: its place comes back once, and the page learns the verdict
  from the stream or from polling.

## 2. The modules

    Ledger <--- Judging <--- MCJudging             Pool  (abstract)
                  ^                                 ^  ^
            Judging_proofs                          |  |
                                                    |  |
    Stream <--- VerdictView <--- MCVerdictView -----'  |
                     ^                                 |
              VerdictView_proofs         PasswordGate -'   Runner <--- MCRunner
                                              ^              ^            ^
                                              '-- Clocks_proofs (and      |
                                                     RateLimiter)         |
    Contest <--- Board <--- MCBoard                                       |
         ^        ^           ^            MCClocks = Contest, PasswordGate, MCRunner
         |   Board_proofs     |
         '-- SignIn <---------+-- MCNight = MCBoard, MCStandings, RateLimiter, SignIn
                ^
           SignIn_proofs     Standings <--- MCStandings
                                 ^
                          Standings_proofs ---> Sums <--- Setup_proofs

    Roster <--- MCRoster     Planner     Authoring      MCSetup = all three
                     Setup_proofs = Roster, Planner, Authoring, Sums

An arrow is EXTENDS. `Sums` holds no state: it is what the proofs need of sums over
finite sets. `Judging` extends `Ledger` and implements its specification
over the same tables; `Board` and `SignIn` extend `Contest`; the streams of
`VerdictView` and the checks of `PasswordGate` implement `Pool` with counters.
`Roster`, `Planner` and `Authoring` share no variables: what the start gate calls
"ready" in `Contest` is `ReadyToStart` in `Roster`, and what a new line-up does
to the sets players hold is in `Roster`, which rows it has in `Planner`.

`MCClocks`, `MCNight` and `MCSetup` put parts side by side that do not touch each
other: a variable `part` says which one takes steps in a behaviour, the others
stand still. What a part may do is its module's next-state relation; fairness is
stated of the steps a part takes when it is its turn.

**Ledger** is the database's side of a submission. One action per transaction,
each atomic because it holds the advisory lock from its re-read to its commit:
`InsertRow`, `RecordResult` (persistResult), `RecordGiveUp`
(persistInternalError), `OverrideRow`, `ClearRow` (rejudge), `DeleteRow`, and
`LegacyWrite`, which is what a process of the previous release does during a
rolling deployment. `Preserved` is preserveCurrentScoreRevision. An *answer* is
a verdict with its author and, for a judge's, the run it reports: scores, times
and log pointers come with the answer they belong to. `LedgerSpec` is the
abstract specification of what the judging path may do to the database.

**Judging** is everything around it, one step per await. `req[r]` is what a
handler holds between two steps. createSubmission is `Submit`,
`SubmitEnqueues`/`SubmitEnqueueFails`, `TakeBack`; reconcile is `Poll` or
`ReadRow`, `GetJob`, `GetState` (two round trips in BullMQ: the hash, then the
state), `Persist` or `GiveUp`; rejudgeSubmission is `Rejudge`, `RemoveOldJob`,
`RejudgeEnqueues`/`RejudgeFails`, then the reconcile of its final view. `job[s]`
is the BullMQ job with the submission's id: an add with an id Redis knows is
dropped. The worker is `Take`, `Complete`, `Throw`; BullMQ is `BackoffOver`,
`Stalled`, `Evict`; faults are `RequestDies` and `WorkerDies`. A job carries the
*generation* it was enqueued for (how often the row had been sent back), which
the code does not store; no guard reads it, properties do.

**Runner** is what a worker does with a job: `Judge` is judge() from the build to
the last result (`Build`, `Launch`, `BatchExits`, `JoinFeeder`, `Collect`,
`Retry`, `ReturnsResults`), `Driver` the shell script in the container
(`Compiles`, `SeesInput`, `ProgramEnds`, `DriverGivesUp`), `Feeder` feedInputs
with the two steps of placeInput. `input` and `meta` are `/in` and `/out` of the
batch; a retry has a directory of its own, whose one `.meta` is
`container.wrote`. A *deed* is what a program does on a test, given its whole
input; one that sees half an input may do anything but be right. What goes wrong
on the judge's side is a `Mishap`: a refused container, one killed by somebody
else, a file that cannot be written, a feeder that is late or reaches its half
hour. A `.meta` is written in one step: it is one short write after the program has
ended, and parseMeta reads an unfinished line as none. The container keeps whether
it ran for a while that no `.meta` tells of (`untold`): it was taken away in a test
that may be a `Long` one, waited for an input that did not come, or was cut off by
its limits. Then `BatchExits` may find the times incredible
(selfReportedTimingIsCredible), or not: how long it was is left open. A program
within its time limit, and the check of the syntax, are too short to be missed:
what may be missing is upward of 36 s, a time limit at most 24 s with its
multiplier.

**Contest** is the row's state and window. `Press` is an organizer's button and
`ScreenPolls`/`ReadContestRow` a screen that reconciles the clock; both end in
`SetContestState` under the lock, with the instant and the row they read before
it. `Freeze` and `Unfreeze` are setFrozen. `EditSetup` stands for the line-up
and the dealt sets, of which only "ready or not" matters to a start.

**Board** extends Contest with what the public board is computed from. `Join`,
`Rename`, `Remove` and `Revise` are the writes, each under the lock with an
instant read there; `Commits` leaves an invalidation for a later step, because
the handler drops the cache only after its commit. `GiveUp` is the one write that
leaves none: persistInternalError adds an IE to the log of a row that has no answer
and drops no cached input. `Lookup` is loadScoringInput:
share the cached load, finished or not, or start one and cache it at once.
`ReadContest` and `ReadScores` are the two query rounds of queryScoringInput.
`BoardAt` is computeFor short of adding up and ranking: per player a name and the
score of the revision in force at the cutoff (`ScoreAt`, from
submissionsInWindow). A participant's `joinedAt` is filled in by the database
client when it sends the insert, which is under the lock.

**Standings** is what adds up. `AggregateVerdict` and `AggregateScore` turn tests
into a run's verdict and score, `NormalizeJudgeScore` scales it to the question;
`SubmissionsInWindow` takes, of each submission, the revision in force at an
instant (`Latest`); `Replay` is scoreClassic or scoreIcpc over a player's own
questions, each of the code's running maxima said of the whole sequence (`Best` of
a question, the attempts that `Raises` it, the rejections that are `Charged`);
`GroupOf` replays a group question once for the team, whoever of it answered;
`Row` is the mean with side activities, a function of what it is given, `TeamRow`
that of a team at an instant, `RankDivision` the places.
Around these pure functions run the transactions that write the log
(`PersistResult`, `OverrideVerdict`, `RejudgeSubmission`, `AwardSideActivity`),
so that what is asked of a board is asked of every board a night can reach.
The roster stands still here; Board moves it.

**Stream** is openContestStream for one student among spectators: `Open`,
`Prime`, then a loop of `List`, `View`, `Send` and `Sleeps` per tick, with
`PrimeFails`, `ViewFails` and `TickFails` where a query may throw, and `Abort`,
`Cancel` and the lifetime to end it. **VerdictView** adds the browser: `Submit`
and `Created` on the problem page, `Connect`, `Receive`, `SourceFails`,
`FallsBack`, `AskPoll`, `AnswerPoll`, `PollFails`, `GiveUpWaiting` of
useVerdictStream. `view` is the effect's state, `Status` what the page shows.
**Pool** is what both caps promise: at most so many inside.

**PasswordGate** is ConcurrencyLimiter.run around CredentialBackoff.throttle, as
the sign-in and sign-up routes use them: `Refuse`, `Enter`, `Queue`, `LookAgain`
(every 25 ms, no order), `WaitOver`, `Succeed`, `Fail`. **RateLimiter** is
tryConsume with its sweep; a request takes its instant and gets to the limiter up
to `Lag` later. `allowed` is a history: when each call was let through (`Pass`).

**SignIn** is from a provider's callback, a form or a password to a session.
linkedUserFor is `FindSubject`, `FindEmail`, `Attach`, `Raced`; selfSignUpFromOAuth
adds `Create`, `Resolve`; the forms are `SignUp`, `LogIn`; then `Choose` (read
without a lock), `Enrol` (under it), `Issue`. `Revoke`, `RevokeAll`,
`AdminRemoveParticipant`, `Disable` and `ContestEnds` run beside them. Hints of
which contest is meant, and the twelve hours of a session, are left out.

**Roster** is who competes, on which team, with which problem set, in a contest
that assigns its sets itself (`RANDOM_ASSIGNED`, the default). Every organizer
action re-reads and writes under the advisory lock and is one step:
`AdminCreateTeam`, `AdminDissolveTeam`, `AdminMoveParticipant`,
`AdminSetParticipantDivision`, `AdminReassignSet`, `AdminAddParticipant`.
adminRemoveParticipant is two, because what it would destroy is counted before
the lock: `CountSubmissions`, then `RemoveParticipant` or `RemovalFails`, with
`CreateSubmission`, which takes no lock, in between. `SetContestProblems` is
setContestProblems and the write of applySets (`ReplaceSets`: a set that keeps
its division and letter keeps its row and its holders, the others lose theirs);
`DeleteLastQuestion` is deleteAuthoredProblem. `RunSetAssignment` is the deal,
any assignment that is `Fair`, since which one is the seed's business; `MayHold`
is ensureSetAssigned, with its refusal. `Start` holds only if `ReadyToStart`.
`frozen` is isPublicBoardFrozen and appears by hand or because the clock gets
there; which of the two does not matter to `Mutable`.

**Planner** is what is in a line-up. `Pool` is gatherPool, `Feasible` the checks
before a deal, `Deal` planSets as a function of seed, pool and recipe (a
shuffle is a `Position` per question; which one a seed gives is a constant).
A screen goes through `OpenPlanner`, `ChangeRecipe`, `DealAgain`, `Preview` and
`PressBuild`. Its `grid` is the proposal it holds, and `shows` whether that is what
is displayed: a form nobody touched, over sets that are stored, displays the stored
ones (`ShownUntouched`, showStored) while its proposal waits out of sight. A build reads twice, `ApplyChecks` before the locks and
`ApplyWrites` under them, or is `ApplyRefused`. `SaveLineUp` is the Problems tab,
`CreateQuestion`, `UpdateQuestion`, `DeleteQuestion` and `RosterChanges` what may
change in between. The crowding check of `MayBuild` is the one of contests that
assign sets.

**Authoring** is how one question is written: `Stage`, `PublishFiles`, then
`InsertQuestion` or `Switch`, then `Remove` of the directory before; `Drop` is a
deletion; `BeginValidate`, `JudgeReference`, `Stamp` a validation; `StageFails`,
`SaveFails`, `RemoveFails` and `AuthorDies` the failures between them.

Operators whose comment begins with *Mutant* are deliberate mistakes: each is a
plausible bug of the definition after it, and shows which property would notice.

## 3. What TLC checks

Five runs must pass; each property has a mutant that breaks it.

| run | instance | properties |
|---|---|---|
| `judging` | 1 submission, 2 requests, 1 worker, 2 attempts, 1 stall; any two rare events (override, rejudge, removal, legacy write, a death, a failed call, an eviction) | `JoblessRowIsExplained`, `LogEndsWithRow`, `VerdictIsWriteOnce`, `NeverGivesUpOnLiveJob`, `NoAnswerLost`, `ImplementsLedger`, `EverySubmissionIsAnswered` |
| `stream` | 2 connections for 1 place, 2 submissions of which 2 are recent, a lifetime of one tick, 1 failure or change of mind, 1 poll in flight | `StreamsArePooled`, `PlacesAreReturned`, `EveryWatchEnds` |
| `clocks`, part *contest* | 2 requests, a window from 1 to 3 with and without a scheduled freeze, clock to 4 | `ClockIsNeverEarly`, `CutoffStands`, `OverdueContestEnds` |
| part *gate* | 4 logins, 2 places, 2 waiting, 1 free attempt, 7 arrivals | `GuessingSlowsDown`, `EveryWaiterIsServed` |
| part *judge* | 2 tests, every program over them, three ways to compile, any two mishaps | `VerdictsAreEarned`, `DeathCostsNoTest`, `JudgeEnds` |
| `night`, part *freeze* | 1 player, 2 scores, 2 names, 2 revisions, a scheduled freeze, 1 request that moves the contest | `FrozenBoardStands` |
| part *cache* | a started contest, 2 readers, 2 loads, entries that expire after 1 tick, 2 outstanding invalidations | `CacheIsFresh` |
| part *scores* | a team of two and a team of one, a question of one's own and a team's, 3 kinds of run, both presets, 2 submissions, 2 revisions, 1 award | `PastBoardsStand`, `SecondSolveChangesNothing` |
| part *limiter* | 2 keys, 2 in a window of 3, requests late by 1, a map swept at 2 | `BurstIsBounded` |
| part *sign-in* | 2 requests, 4 identities at one address, one of them hidden, 2 sign-ins, 1 removal, a contest about to end and the practice arena | `SignedInAsOneself`, `SessionsCompete` |
| `setup`, part *roster* | 2 people, 1 team, 1 division, letters A and B in 3 line-ups (for everybody, for the division, for both), 1 organizer who removes, 1 submission each | `TeammatesDiffer`, `DealMakesReady`, `SetsChangeFairly` |
| parts *planner*, *planners* | 4 questions (a draft, a question of the arena), 2 recipes, 2 seeds; 1 organizer and 2 changes of bank, line-up or roster, or 2 organizers and none | `NobodySeesAQuestionTwice`, `BuiltAsPreviewed`, `BuildMeetsRecipe` |
| part *authoring* | 2 requests, 2 contents, 3 versions, 1 death or failure | `RowsHaveFiles`, `LiveQuestionStands` |

What they show:

- **judging.** The frozen board (log) and the live board (row) agree; no racing
  request writes over a verdict; an answer a freeze may need is never lost; a row
  without a job is some handler's work in progress or a fault's doing; nobody
  gives up on a first run that is alive or has left a result, however the two reads
  of a completing job fall; seen from the database every behaviour is the ledger's;
  and every submission that stays is answered.
- **stream.** The counter of streams is a bounded pool, every place comes back,
  and whatever is lost a submission still watched ends with a verdict or an error
  on the page.
- **clocks.** No stale poll starts or ends a contest early, only a freeze or a
  reveal moves the cutoff, an overdue contest ends. Guesses made side by side get
  no more than a pool's worth of free attempts; whoever waits for a place is
  served. A test is accepted or called wrong only for what the program did with
  the whole of its input; a container that is taken away costs a test that had not
  ended nothing, and one that had ended nothing unless the batch was cut off in a
  long test and its times are not believed, when it is TLE; a job accepted by the judge ends, without the feeder's half hour.
- **night.** A request that begins after the invalidations are through gets an
  input that scores every submission as the tables do, live and at any cutoff, and
  has their roster, names and freeze: the IEs the judge's side writes without an
  invalidation change no score; a frozen board stands; a board as of an
  instant stays what it was, whatever is judged, overridden or sent back later; a
  second solve of a group question changes nothing; what a limiter lets through in
  a window's time, less what late instants shift, is at most two limits' worth;
  nobody is signed in to an account that is not theirs; a live session competes
  only for one who is there.
- **setup.** Teammates of a running contest have different questions whatever is
  moved, dealt, corrected or removed; a deal that finds a set for everybody makes
  the roster ready; a set held after the start changes only alone, and a move deals
  a set of the division it leads to. What a build writes is the deal of the seed and
  recipe on its organizer's form and, where the screen showed the proposal, what it
  showed; it is to the recipe, and nobody sees a question twice. A
  question's row always has its files, and a live question stands.

*Why these bounds are enough.* Submissions interact only through the worker's
concurrency, so one is enough for safety; what matters is how many requests hold
a result for it, and a third adds no new kind of step. Rare events are bounded in
number, never in time. Contest windows are short so that polls, presses and
freezes fall before, at and after each end; two requests are enough for one to
overtake the other. Four logins on two places and two waiting are the fewest for
which one is refused, one overtakes and one starves if anything does. Two tests
are a current and a next one, which is all the feeder and the driver ever share;
three tests with one mishap were tried and hold too. The cache part starts in a running
contest, because the cache does not look at the state; the freeze part has no
readers, because what they are sent is a function of the rows. Two members are a
mean, a third repeats the second. Four identities at one address are every way two
sign-ins can collide. The roster's rule is about pairs of teammates, so two people
and one team are enough; which sets are free, two letters in a division and for
everybody already vary from none to both. Two of the three
questions a deal may take must be enough for one plan and too few for another.
Two writers of one question are a save with anything beside it. A connection with
a lifetime of one tick reaches every ending in few steps; the bound on trouble is
one because each trouble is a step of its own kind, and its place in time is free.

*Fairness.* Handlers that are not killed finish. Somebody keeps looking at an
unjudged row (student page, stream, console) and is not kept from it by the
bound on requests, hence strong fairness of `Poll`; the wait list is first in,
first out, hence strong fairness of `Take`; BullMQ's timers fire and time
passes. For the contest: some screen keeps polling, and a request that arrived
gets its read and its lock. At the gate: a waiter looks again (its timer fires;
weak fairness: it looks only at the end of its 25 ms), its wait ends, its check
ends. In the runner the judge, the container's driver and the feeder are three
processes that are not suspended for good, each weakly fair as long as nothing
goes wrong; a program ends because `timeout` ends it. In the stream: the server's
loop and the browser's timers go on, and what was sent arrives; a browser that
keeps trying to connect is answered one way or the other in the end, hence strong
fairness of `Connect \/ ConnectFails`. No fairness is
assumed of organizers, faults, mishaps, retries by hand or new submissions.

*Deadlock* is not checked: a contest that is over, a clock at its bound, a judge
that returned and a page that shows its verdict have nothing left to do.

### Where code and comments disagree

Each of these is a run that must find its one property violated.

| run | property | what happens |
|---|---|---|
| `rejudge_stale` | `RejudgeIsNotDiscarded` | rejudgeSubmission clears the verdict before it removes the old job; a poll in between stores the old result again and the new run is discarded, which its own comment warns of (`contest/admin.ts:345-353`) |
| `verdict_foreign` | `ShowsItsOwnVerdict` | the page shows any verdict frame of the student's stream under the submission it watches (`useVerdictStream.ts:25-26`) |
| `board_leak` | `PublicSeesFreezePoint` | contest row and score log are separate queries; a freeze and a verdict between them show a later score on the public board (`contest/standings.ts:383`) |
| `judge_memory` | `OnlyHogsAreMLE` | the container's out-of-memory flag is given to every test of the batch, because `results.length + 1` is always the test at hand (`worker/runner.ts:456-458`, `:952`) |
| `judge_failures` | `JudgeFailuresAreIE` | a build container the daemon refuses is a compile error, a test nobody could run a runtime error; both are promised to be IE (`worker/preflight.ts:10-11`) |
| `roster_removal` | `RemovalIsConfirmed` | a removal counts submissions before its lock and not again, so one that arrives in between is deleted unconfirmed (`contest/teams.ts:1071-1072`) |
| `stale_stamp` | `StampDescribesContent` | a validation stamps the row by its id after minutes of judging; an edit in between is certified by a run of the version before (`contest/problem-author.ts:1155-1156`) |

Others were met while the modules were written and are stated by no run:

- Stream: a verdict is marked announced before its frame is built, so a failed read
  drops it for this connection (`stream.ts:235` against `:110`, `:184`); the page
  learns it only from polling.
- Runner, one kill: a container's time that is in no `.meta` makes the batch's times
  incredible (`runner.ts:265-286`), and the test it was killed in has none. One kill
  in a long test can therefore turn every right answer before it into TLE (`:958`),
  where the driver's comment says the rest is run again "so partial credit survives"
  (`batch-driver.ts:105-106`) and the check's that "a correct submission is never
  caught by it" (`runner.ts:262-263`). `DeathCostsNoTest` excepts exactly this.
- Runner: a test the feeder never placed gets a `.meta` with the shell's exit code 2
  and is RE, where the driver's comment says the host runs it again
  (`batch-driver.ts:81-82`, `runner.ts:287-288`).
- Ledger: a row sent back to the judge long after it was submitted is given up on at
  once if a poll falls between the removal of its old job and the enqueue of the new
  one, though the grace period is to "stop showing the student a spinner forever"
  (`submissions.ts:332-340`): it counts from the submission. The new run's answer
  replaces that IE. `NeverGivesUpOnLiveJob` is about rows that were not sent back.
- Ledger: the test rows of a rejudged submission stay until the new run's
  (`schema.prisma:730` against `submissions.ts:428`); a row that holds an IE is never
  looked at again, though a real verdict would replace it (`submissions.ts:394`
  against `:316`).
- Roster: deleting the last question of a set leaves the set, and the deal still
  hands it out (`problem-author.ts:1032` against `contests.ts:370-371`).
- Scoring: the division tab ranks by score alone, the board by score and time
  (`team.ts:341` against `:325-328`, `docs/SCORING.md:152`).
- Planner: the pool holds the arena's questions, which a line-up refuses by hand
  (`set-build.ts:248-272` against `contests.ts:293-310`); the Problems tab writes
  rows without the mark of the plan that dealt them (`set-build.ts:46-51`,
  `schema.prisma:640-648`); a stale Problems tab replaces a plan.
- Planner, the stored plan: an organizer who "changes nothing and presses Build gets
  back what they already had" (`SetPlanner.tsx:55-57`, again at `:503-508`). The
  screen shows the stored sets while the form is untouched (`:594-599`), and Build
  sends the hidden proposal (`:688-709`), dealt anew from the stored seed over today's
  bank. After an edit of the bank, a set placed by hand, or the silent new deal that
  follows a 409 (`:714-719`), that is another split, displayed nowhere. TLC refutes
  "an untouched form leaves the line-up as it was" within a few steps, and
  `BuiltAsPreviewed` does not claim it: with stored sets on screen it speaks of seed
  and recipe only.
- Authoring: "publishing requires this stamp" (`schema.prisma:546-548`) is not asked
  by createAuthoredProblem; generated outputs are filled in by position
  (`ProblemBuilder.tsx:1358-1395`).
- Contest, restart: "pressing Start on a RUNNING contest re-anchors deliberately (the
  rehearsal case)" (`contests.ts:455-456`), and setContestState refuses it: RUNNING
  leads to ENDED alone (`:504-511`). The model refuses it too. A build that did as the
  comment says, the mutant of `ClockIsNeverEarly`, would start a contest anew under
  its players.
- Contest: a window may be saved with its end before the start a button gives it
  (`contests.ts:634`); setContestState leaves the board's cache alone
  (`contests.ts:640`, accepted in `standings.ts:94-96`).

## 4. What is proved

The proof modules hold for any submissions, verdicts, requests, attempts, budgets,
plans, callers, players, readers, loads, logins, tests, programs, mishaps,
connections, people, teams, divisions, line-ups, questions, recipes, seeds, awards
and scoring rules. They assume only what the modules assume of their constants:
there is a submission, IE is not a judge's verdict, limits are naturals, a question
has a test, plans are windows createContest accepts, a line-up's sets are a division
and a letter; people, teams, questions, tests and difficulties are finite; what is
entered by hand or found by the judge is what the schemas let in (`VerdictSchema`,
points of no less than none: `AnswersAssumption`); a window of the limiter is longer
than an instant is late. The bounds that keep TLC's runs finite are constants too,
so no proof rests on how large they are.

Every safety property that a passing run checks is stated by a theorem.

- **Ledger** (in `Judging_proofs`). `LedgerInv` adds to the tables' shape that an answer of an older
  process has a verdict (`LegacyHasVerdict`); without it the log of a row such a
  process cleared would not be recovered. Each transaction is one of four ways to
  extend a log, and `RecordKeepsInv` does the work for three of them.
  `LedgerCorrect`: the log ends with the row, the judge follows a gap.
  `LedgerKeepsAnswers`: `NoAnswerLost`.
- **Judging implements Ledger** (`JudgingImplementsLedger`). The inductive
  invariant is `TypeOK` with `RunsExist`: no job and no handler names a run that
  was never asked for. Without it a handler's `Persist` could report a run the
  ledger does not know, and the step would be none of the ledger's. Through the
  refinement the ledger's results hold for any number of racing requests:
  `JudgingLogEndsWithRow`, `JudgingFollowsGap`, `JudgingKeepsAnswers`,
  `JudgingWritesOnce`, and `JudgingTypeCorrect` on its own.
  `JudgingExplainsJobless` needs `JoblessInv`: a row that waits without a job is
  explained by a handler that is busy with it or by a fault already spent;
  `WorkBegan` says that a handler which sends a row back has asked for another
  generation of it, and one that takes a row back has met a failure.
  `JudgingIsPatient` needs `Patience`: while a submission waits for its first
  enqueue it has no job and no age, and one handler makes it; whoever is about to
  give up on a first run has seen that its job is over and left nothing to store, or
  is not coming; and what was once read as garbage stays so (`Unreadable`).
- **Contest** (in `Board_proofs`). `ContestInv` is the type invariant, a window at least one tick
  wide while the contest may still start (`WindowOK`, which gives the type of a
  start's new window), and `ClockCallsOK`: what a clock's request saw on its read
  is still true of the row as long as the state is the one it names.
  `ContestClockIsNeverEarly` follows, and `ContestCutoffStands`.
- **Board.** `BoardInv` adds to `ContestInv` that nobody waits for a load that is
  not there and the cache names none that is not (`LoadsOK`), that a contest
  somebody has read under way does not go back before its start (`SeenStates`),
  that no revision is of a later instant (`StampsOK`), and `CacheIsFresh` itself: an
  input cached while no invalidation is outstanding has seen every write, or scores
  as if it had (`GivenUp`: an IE appended to an unanswered row scores as nothing did,
  at every cutoff). `BoardCacheIsFresh` and `BoardFrozenStands`
  follow; the latter from what each write may do to the part of a log before the
  cutoff.
- **Clocks.** `GateInv` counts what `GuessingSlowsDown` does not: until there is a
  wait, each check that got through without one has failed, and was counted, or
  still holds its place; from the first wait on no more join (`EagerAccounted`).
  `GateIsAPool`: the counter implements `Pool`. `RunnerInv` says of the two
  directories what `VerdictsAreEarned` says of verdicts: what was written about a
  test is what the program does on it or that it did not run, no input is ever
  seen half written, and a retry in flight is of the test whose verdict is next.
  Without the last a retry's answer could be filed under another test. The driver,
  the feeder and the judge each have a lemma that their steps keep it.
  `DeathNeverCostsATest` needs `MildInv`, which holds as long as there was at most
  one kill and the program respects its limits: the feeder is never past the test
  the driver waits for, so no test is run for want of its input, and a test that
  left no .meta was cut off by the one kill, so its retry is undisturbed. Of the tests
  that have one it keeps that they are accepted unless the times are disbelieved, and
  that these are only for a batch cut off in a long test (`Disbelieved`).
  `LimiterBurstIsBounded` needs `LimiterInv`, key by key: a window's calls are the
  last ones let through (`WindowCounts`), and a call a limit before the first of them
  was a stretch, a window less the lag, before it. Where there is no window, because it
  was swept or never opened, the same holds of the present (`NoWindowLeft`): whatever
  instant swept it found it over.
- **Standings.** `StandingsPastBoardsStand`: every row is dated by the clock of its
  write, so what a board of the past reads (`Kept`) is what was there when the clock
  left it; equal inputs give equal rows and places, with no induction over them.
  `StandingsSecondSolve`: one verdict changes what counts by one attempt
  (`WindowGrows`); an attempt worth no more than an earlier one at its question
  changes neither its best, nor which other attempts raise one, nor which are charged
  (`OneMoreBest`, `OneMoreRaises`, `OneMoreCharged`). `StandingsPlaces`: on every board
  a team is placed before another exactly when its row is ahead, level teams share a
  place, no place exceeds the number of teams (`RanksFollowRows`, from "ahead" being a
  strict weak order on the rows a board can have). `JudgedWithinWorth`: a stored score
  is a natural number and at most the question's worth.
- **Sums.** A sum is the community modules' fold, a recursive function that CHOOSE
  picks. That there is one (`SumsExist`), that a sum of naturals is one (`SumsStayIn`),
  that it counts ones (`SumsOfOnes`) and bounds the size of a union (`UnionIsBounded`)
  is shown by a least counterexample among the sizes, since the provers cannot
  instantiate the library's induction theorems.
- **Streams.** `SlotInv`: the counter is the number of connections that hold a
  place, and a place is held exactly while the loop is not closed, so the ways to
  end a connection count once together. `StreamsAreAPool` follows.
- **Sign-in.** `OwnInv`: an address never changes and a link is written only where
  there was none or the same, so what a request saw of an account it is on its way
  to stays true. `NobodyIsSomebodyElse`, `HistoryIsClosed`. `SeatInv`: a
  participant's row goes together with its sessions, and an account is seated once
  in a contest. `NoSessionWithoutASeat`.
- **Roster.** `RosterInv` is the foreign keys with `TeammatesDiffer`. The start
  gate establishes the rule; line-ups are closed by then, so only a change of one
  row can break it (`OneRow`), and what ensureSetAssigned hands out no teammate
  holds (`MayHoldIsFree`). `RosterTeammatesDiffer` follows. `SetChanges` lists the
  ways somebody's set can change, `MoveChanges` those of a move, and
  `RosterSetsChangeFairly` is read off them. `RosterDealMakesReady` is read off
  what a deal leaves behind it (`Fair`): no teammates with the same set.
- **Planner.** `NobodySeesAQuestionTwice` is inductive, because a write draws on a
  pool without the questions that stay; `PlannerBuildsAsPreviewed` needs that a
  screen's grid is the deal it says it is (`GridsAreDeals`): a build is then the deal
  of its form's seed and recipe, and the proposal if that was on screen.
  `PlannerBuildMeetsRecipe`: what a build writes is to its recipe (`RecipesOK`). A
  deck's shuffle is a bijection onto positions (`PositionsFill`), so each set takes as
  many questions of a difficulty as the recipe says (`SlicesFit`) and no two sets take
  the same one. The check in front of a deal does not know which questions the
  divisions' sets will have in common; it is enough that together they take no more
  than their sizes add up to (`SetsTake`), so the team finds its number in what is
  left (`TeamDrawCount`).
- **Authoring.** `AuthoringInv` is who owns which directory: what a request is to
  publish, to switch to or to take away no other request holds and the row does
  not name. `AuthoringRowsHaveFiles`, `AuthoringLiveQuestionStands`.

*Only model-checked.* Liveness (`EverySubmissionIsAnswered`, `PlacesAreReturned`,
`EveryWatchEnds`, `OverdueContestEnds`, `EveryWaiterIsServed`, `JudgeEnds`) and
everything about ENABLED are beyond the prover. The proofs are about the specifications
each part has of its own; that the runs which put parts side by side take no other
steps of them is read off their next-state relations, not proved.

## 5. What is not modelled

The map covers about a ninth of the implementation's lines. Most of the
rest is screens: forms, tables, navigation and styles (`components/`, `app/`), the
schemas that parse requests, the tables of languages and their images, scripts and
configuration. They keep no state that another actor changes, and what they decide
is what their library call decides. Of the parts that do:

- **Runner**: what a program does is any; comparators, snippets, output caps, the
  isolation flags, and a checker that does not exist are left out.
- **Streams**: a spectator's frames carry what Board serves, so a spectator's tick
  only passes time. One poll is in flight at a time, and a page that polls keeps polling
  until an answer, its limit or an error: two polls of one page overlapping are left
  out. A new submission is posted unjudged. Liveness is checked with a lifetime of one
  tick, after which the page polls; with longer ones the stream only repeats its tick.
- **Scoring**: hints, which no code grants; the players' own ranking; the division
  tab. **Roster**: names and join codes; contests where players choose their set.
- **Sign-in**: the exchange with the provider, hashing, cookies, several contests at
  once, expiry after twelve hours. **Authoring**: parsing a form, reading a question
  back into the editor, generating outputs; a COMMIT whose answer is lost, which alone
  would break `RowsHaveFiles` (`problem-author.ts:955`).
- **Not at all**: queue position and heartbeat, rank movement, sample runs and the
  audit log, which no decision reads; the pure gates of problem access; boot checks;
  the practice arena, whose clock nobody reconciles; exports. The reasons are with
  the components in `PROJECT.json`.

## 6. Plan

Done, in the order they were written: Ledger, Judging, Contest, Board, Roster; then
Stream and VerdictView, PasswordGate and RateLimiter, SignIn, Standings, Planner,
Authoring, Runner. What would come next, in order of weight:

1. Judging over Runner instead of over any result, so that a worker's death is a
   death in the middle of a batch and a stalled job's second container meets the
   first one's name;
2. Standings over Board's roster, so that a frozen board is its ranks too;
3. queue position, the heartbeat's lease and the sample runs beside the judge.
