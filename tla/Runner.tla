-------------------------------- MODULE Runner --------------------------------
(***************************************************************************)
(* How one submission is judged: three processes that share two            *)
(* directories.                                                            *)
(*                                                                         *)
(* The judge (worker/runner.ts) starts one container for all tests and     *)
(* waits for it.  The driver inside (worker/batch-driver.ts) takes the     *)
(* tests in turn: it waits for a test's input in /in, runs the program on  *)
(* it and leaves a .meta file in /out.  The feeder, beside the judge,      *)
(* watches for that file, takes the input away and places the next.  A     *)
(* container may die anywhere; what it left unanswered is run again, one   *)
(* test to a container.                                                    *)
(*                                                                         *)
(* What a program does on a test, given its input, is a Deed; comparators  *)
(* and clocks are what a deed stands for.  A runtime that reports its own  *)
(* exhaustion, and a checker that does not exist, are left out: both are   *)
(* read off the test's own output.  So is how results add up (Standings).  *)
(***************************************************************************)
EXTENDS Integers, Sequences, FiniteSets

CONSTANTS
  N,           \* tests of the question
  Programs,    \* what a submission may do on each
  MaxMishaps   \* bounds what goes wrong on the judge's side

Tests == 1 .. N

\* "hog" needs more memory than it may have, "fill" writes more than /out may hold.
Deeds == {"right", "wrong", "late", "crash", "hog", "fill"}

\* What may take longer than the time limit, up to `timeout`'s: an exit code is
\* looked at before the clock, an answer after it.
Long == Deeds \ {"right", "wrong"}

ASSUME RunnerAssumption ==
  /\ N \in Nat \ {0} /\ MaxMishaps \in Nat
  /\ Programs \subseteq [Tests -> Deeds]

VARIABLES
  job,         \* what is judged: its program, and how its language compiles
  host,        \* where judge() is, and what it returned
  container,   \* the one it waits for
  feeder,      \* where feedInputs is
  input,       \* [Tests -> what is in /in under the test's name]
  meta,        \* [Tests -> what the batch left in /out]
  batch,       \* what the judge knows of the batch's end
  results,     \* the tests' verdicts so far
  mishaps      \* how many, and of which kinds

runnerVars == <<job, host, container, feeder, input, meta, batch, results, mishaps>>

-------------------------------------------------------------------------------
\* The job and the containers.

\* No compiler; a parse-only check inside the run; a build in its own container.
Variants == {"plain", "checked", "built"}

Jobs ==
  {j \in [program : Programs, variant : Variants, compiles : BOOLEAN] :
     j.variant = "plain" => j.compiles}

NoJob == [program |-> [t \in Tests |-> "right"], variant |-> "plain", compiles |-> TRUE]

Unrun == "none"

NoContainer ==
  [kind |-> "none", at |-> "exited", test |-> 1, reads |-> Unrun, wrote |-> Unrun,
   failed |-> FALSE, oom |-> FALSE, disk |-> FALSE, timedOut |-> FALSE, untold |-> FALSE]

Calm == UNCHANGED mishaps

Mishap(kind) ==
  /\ mishaps.count < MaxMishaps
  /\ mishaps' = [count |-> mishaps.count + 1, kinds |-> mishaps.kinds \union {kind}]

\* `docker run`.  A daemon that is down, an image that is gone or a name that is
\* taken is an exit code like any other.
RunInContainer(kind, t) ==
  LET compiling == kind = "build" \/ job.variant = "checked"
      started == [NoContainer EXCEPT !.kind = kind, !.test = t,
                                     !.at = IF compiling THEN "compile" ELSE "wait"]
  IN \/ container' = started /\ Calm
     \/ /\ container' = [started EXCEPT !.at = "exited", !.failed = kind = "build"]
        /\ Mishap("refused")

Runs(kind) == container.kind = kind /\ container.at # "exited"
Exited(kind) == container.kind = kind /\ container.at = "exited"

-------------------------------------------------------------------------------
\* The driver, in the container.

DriverLeavesHost == UNCHANGED <<job, host, feeder, input, batch, results>>

\* The compiler: of the build, or of the check a run begins with, a retry's too.
Compiles ==
  /\ container.at = "compile"
  /\ container' = [container EXCEPT
       !.at = IF container.kind = "build" \/ ~job.compiles THEN "exited" ELSE "wait",
       !.failed = ~job.compiles]
  /\ Calm /\ UNCHANGED meta /\ DriverLeavesHost

\* What the shell hands the program on its standard input.
SeesInput ==
  /\ container.at = "wait" /\ input[container.test] # "absent"
  /\ \E deed \in IF input[container.test] = "whole" THEN {job.program[container.test]}
                 ELSE {"wrong", "crash"} :
       container' = [container EXCEPT !.at = "run", !.reads = deed]
  /\ Calm /\ UNCHANGED meta /\ DriverLeavesHost

\* <n>.meta, and the next test.  A retry has its own /out and no next test.
WritesMeta(outcome) ==
  /\ meta' = IF container.kind = "batch" THEN [meta EXCEPT ![container.test] = outcome]
             ELSE meta
  /\ LET last == container.kind = "retry" \/ container.test = N
     IN container' = [container EXCEPT
          !.wrote = outcome, !.reads = Unrun,
          !.at = IF last THEN "exited" ELSE "wait",
          !.test = IF last THEN @ ELSE @ + 1,
          !.oom = @ \/ outcome = "hog",
          !.untold = @ \/ outcome = "unfed"]

\* The program ends, or `timeout` ends it.  One that needs too much memory is
\* killed and the driver goes on.
ProgramEnds ==
  /\ container.at = "run" /\ container.reads # "fill"
  /\ WritesMeta(container.reads)
  /\ Calm /\ DriverLeavesHost

\* The kernel takes the whole container, or the watchdog on /out does.  The time
\* of the test it was on is in no .meta.
ContainerDies ==
  /\ container.at = "run" /\ container.reads \in {"hog", "fill"}
  /\ container' = [container EXCEPT
       !.at = "exited", !.oom = @ \/ container.reads = "hog", !.disk = container.reads = "fill",
       !.untold = TRUE]
  /\ Calm /\ UNCHANGED meta /\ DriverLeavesHost

FeederIsPast(t) == feeder.at = "done" \/ (feeder.at = "watch" /\ feeder.test >= t)

\* Where the feeder has gone past a test it could not place, or comes too late
\* for PTCN_FEED_TIMEOUT polls, the run's redirection fails: the program does not
\* start, the shell's exit code is 2.
DriverGivesUp ==
  /\ container.at = "wait" /\ input[container.test] = "absent"
  /\ \/ FeederIsPast(container.test) /\ Calm
     \/ Mishap("late")
  /\ WritesMeta("unfed")
  /\ DriverLeavesHost

\* The host's timer over the whole batch, which a wait in vain may use up.
Backstop ==
  /\ Runs("batch") /\ container.untold
  /\ container' = [container EXCEPT !.at = "exited", !.timedOut = TRUE]
  /\ Calm /\ UNCHANGED meta /\ DriverLeavesHost

\* Somebody else removes the container: a sweep by another worker, a restart of
\* the daemon.  What it would say of itself may be gone with it, and so is the time
\* of the test it was on.
Killed ==
  /\ container.at # "exited"
  /\ \E oom \in {FALSE, container.oom} :
       container' = [container EXCEPT
         !.at = "exited", !.oom = oom, !.failed = @ \/ container.kind = "build",
         !.untold = @ \/ container.reads \in Long]
  /\ Mishap("killed")
  /\ UNCHANGED meta /\ DriverLeavesHost

-------------------------------------------------------------------------------
\* feedInputs.  A file that cannot be placed is passed over.

FeederLeavesHost == UNCHANGED <<job, host, container, meta, batch, results>>

\* Mutant: a feeder that waits for a .meta whatever became of the container.
NeverStopped == FALSE

\* The judge sets `stopped` when the batch has exited.
Stopped == host.at = "join"

FeederStops ==
  /\ feeder.at = "watch" /\ Stopped
  /\ feeder' = [feeder EXCEPT !.at = "done"]
  /\ Calm /\ UNCHANGED input /\ FeederLeavesHost

\* The test is done with its input.
FeederTakesAway ==
  /\ feeder.at = "watch" /\ ~Stopped
  /\ meta[feeder.test] # Unrun \/ feeder.tired
  /\ input' = [input EXCEPT ![feeder.test] = "absent"]
  /\ feeder' = [feeder EXCEPT !.at = IF feeder.test = N THEN "done" ELSE "write"]
  /\ Calm /\ FeederLeavesHost

\* Mutant: the next input is written under the name the driver looks for.
WritesInPlace(t) == input' = [input EXCEPT ![t] = "partial"]

\* placeInput: under a name of its own first,
WritesPartial(t) == t \in Tests /\ UNCHANGED input

\* and then renamed, whole.
Renames(t) == input' = [input EXCEPT ![t] = "whole"]

FeederPlaces ==
  /\ \/ /\ feeder.at = "write" /\ WritesPartial(feeder.test + 1)
        /\ feeder' = [feeder EXCEPT !.at = "rename"]
        /\ Calm
     \/ /\ feeder.at = "rename" /\ Renames(feeder.test + 1)
        /\ feeder' = [feeder EXCEPT !.at = "watch", !.test = @ + 1]
        /\ Calm
     \/ /\ feeder.at \in {"write", "rename"} /\ UNCHANGED input
        /\ feeder' = [feeder EXCEPT !.at = "watch", !.test = @ + 1]
        /\ Mishap("unplaced")
  /\ FeederLeavesHost

\* After MAX_WAIT_MS it waits for no test any more.
FeederTires ==
  /\ feeder.at = "watch" /\ ~feeder.tired
  /\ feeder' = [feeder EXCEPT !.tired = TRUE]
  /\ Mishap("ceiling")
  /\ UNCHANGED input /\ FeederLeavesHost

-------------------------------------------------------------------------------
\* judge().

Goes(at) == host' = [host EXCEPT !.at = at]

\* A file of the workspace cannot be written: judge() rejects, BullMQ tries again.
Throws ==
  /\ Goes("threw") /\ Mishap("unplaced")
  /\ UNCHANGED <<container, input>>

Accept ==
  /\ host.at = "idle"
  /\ job' \in Jobs
  /\ Goes(IF job'.variant = "built" THEN "build" ELSE "launch")
  /\ Calm /\ UNCHANGED <<container, feeder, input, meta, batch, results>>

Build ==
  /\ host.at = "build"
  /\ RunInContainer("build", 1)
  /\ Goes("building")
  /\ UNCHANGED <<job, feeder, input, meta, batch, results>>

\* An exit code that is not zero is a compile error.
BuildEnds ==
  /\ host.at = "building" /\ Exited("build")
  /\ container' = NoContainer
  /\ host' = IF container.failed THEN [at |-> "returned", says |-> "CE"]
             ELSE [host EXCEPT !.at = "launch"]
  /\ Calm /\ UNCHANGED <<job, feeder, input, meta, batch, results>>

\* The first input is there before the container starts.
Launch ==
  /\ host.at = "launch"
  /\ \/ Throws /\ UNCHANGED feeder
     \/ /\ input' = [input EXCEPT ![1] = "whole"]
        /\ RunInContainer("batch", 1)
        /\ feeder' = [feeder EXCEPT !.at = "watch"]
        /\ Goes("batch")
  /\ UNCHANGED <<job, meta, batch, results>>

\* selfReportedTimingIsCredible: the times in the .meta files are not believed
\* when they leave too much of the container's life unexplained.  A wait in vain is
\* in none of them, nor is a test that was cut off; what is within its limit, and
\* the check before the run, are too short to be missed.
BatchExits ==
  /\ host.at = "batch" /\ Exited("batch")
  /\ \E credible \in IF container.untold THEN BOOLEAN ELSE {TRUE} :
       batch' = [oom |-> container.oom, disk |-> container.disk, timedOut |-> container.timedOut,
                 failed |-> container.failed, credible |-> credible]
  /\ container' = NoContainer
  /\ Goes("join")
  /\ Calm /\ UNCHANGED <<job, feeder, input, meta, results>>

JoinFeeder ==
  /\ host.at = "join" /\ feeder.at = "done"
  /\ host' = IF batch.failed THEN [at |-> "returned", says |-> "CE"]
             ELSE [host EXCEPT !.at = "collect"]
  /\ Calm /\ UNCHANGED <<job, container, feeder, input, meta, batch, results>>

\* verdictFor, in its order.  A program killed for its memory left 137; one that
\* did not start left 2, and one nobody ran left no exit code.
VerdictFor(outcome, run) ==
  IF run.oom THEN "MLE"
  ELSE IF run.disk THEN "RE"
  ELSE IF run.timedOut \/ outcome = "late" THEN "TLE"
  ELSE IF outcome \in {"crash", "hog", "unfed", Unrun} THEN "RE"
  ELSE IF outcome = "right" THEN "AC" ELSE "WA"

Current == Len(results) + 1

\* Mutant: a test without a .meta is not run again.
NothingUnanswered == FALSE

\* readBatchOutcome finds no .meta.
Unanswered == meta[Current] = Unrun

\* The fallback's record, when the batch and the retry both left nothing.
FallbackVerdict == VerdictFor(Unrun, batch)

Collect ==
  /\ host.at = "collect" /\ Current <= N /\ ~Unanswered
  /\ results' = Append(results,
       VerdictFor(meta[Current],
                  [oom |-> batch.oom /\ Current = Len(results) + 1,
                   disk |-> batch.disk, timedOut |-> ~batch.credible]))
  /\ Calm /\ UNCHANGED <<job, host, container, feeder, input, meta, batch>>

\* runSingleTest, to the start of its container and after its end.
Retry ==
  /\ host.at = "collect" /\ Current <= N /\ Unanswered
  /\ \/ Throws
     \/ /\ input' = [input EXCEPT ![Current] = "whole"]
        /\ RunInContainer("retry", Current)
        /\ Goes("retry")
  /\ UNCHANGED <<job, feeder, meta, batch, results>>

RetryEnds ==
  /\ host.at = "retry" /\ Exited("retry")
  /\ results' = Append(results,
       IF container.wrote = Unrun THEN FallbackVerdict
       ELSE VerdictFor(container.wrote, [oom |-> FALSE, disk |-> FALSE, timedOut |-> FALSE]))
  /\ input' = [input EXCEPT ![Current] = "absent"]
  /\ container' = NoContainer
  /\ Goes("collect")
  /\ Calm /\ UNCHANGED <<job, feeder, meta, batch>>

ReturnsResults ==
  /\ host.at = "collect" /\ Current > N
  /\ host' = [at |-> "returned", says |-> "tests"]
  /\ Calm /\ UNCHANGED <<job, container, feeder, input, meta, batch, results>>

-------------------------------------------------------------------------------
RunnerInit ==
  /\ job = NoJob
  /\ host = [at |-> "idle", says |-> "nothing"]
  /\ container = NoContainer
  /\ feeder = [at |-> "off", test |-> 1, tired |-> FALSE]
  /\ input = [t \in Tests |-> "absent"]
  /\ meta = [t \in Tests |-> Unrun]
  /\ batch = [oom |-> FALSE, disk |-> FALSE, timedOut |-> FALSE, failed |-> FALSE,
              credible |-> TRUE]
  /\ results = <<>>
  /\ mishaps = [count |-> 0, kinds |-> {}]

Driver ==
  Compiles \/ SeesInput \/ ProgramEnds \/ ContainerDies \/ DriverGivesUp \/ Backstop

Feeder == FeederStops \/ FeederTakesAway \/ FeederPlaces

Judge ==
  Build \/ BuildEnds \/ Launch \/ BatchExits \/ JoinFeeder \/ Collect \/ Retry \/ RetryEnds
  \/ ReturnsResults

RunnerNext == Accept \/ Judge \/ Driver \/ Feeder \/ FeederTires \/ Killed

RunnerSpec == RunnerInit /\ [][RunnerNext]_runnerVars

\* Three processes that are not suspended for good; the program ends because
\* `timeout` ends it.  Nothing is assumed of what goes wrong.
RunnerFairness ==
  WF_runnerVars(Calm /\ Judge) /\ WF_runnerVars(Calm /\ Driver) /\ WF_runnerVars(Calm /\ Feeder)

-------------------------------------------------------------------------------
RunnerTypeOK ==
  /\ job \in Jobs \union {NoJob}
  /\ host \in [at : {"idle", "build", "building", "launch", "batch", "join", "collect", "retry",
                    "returned", "threw"},
              says : {"nothing", "CE", "tests"}]
  /\ container \in
       [kind : {"none", "build", "batch", "retry"}, at : {"compile", "wait", "run", "exited"},
        test : Tests, reads : Deeds \union {Unrun}, wrote : Deeds \union {"unfed", Unrun},
        failed : BOOLEAN, oom : BOOLEAN, disk : BOOLEAN, timedOut : BOOLEAN, untold : BOOLEAN]
  /\ feeder \in [at : {"off", "watch", "write", "rename", "done"}, test : Tests, tired : BOOLEAN]
  /\ input \in [Tests -> {"absent", "partial", "whole"}]
  /\ meta \in [Tests -> Deeds \union {"unfed", Unrun}]
  /\ batch \in [oom : BOOLEAN, disk : BOOLEAN, timedOut : BOOLEAN, failed : BOOLEAN,
               credible : BOOLEAN]
  /\ results \in Seq({"AC", "WA", "TLE", "MLE", "RE"}) /\ Len(results) <= N
  /\ mishaps \in [count : 0 .. MaxMishaps,
                 kinds : SUBSET {"refused", "killed", "late", "unplaced", "ceiling"}]

\* Whatever dies, is late or cannot be written, and whichever of its two runs a
\* verdict comes from, a test is accepted or called wrong only for what the
\* program did with the whole of that test's input (placeInput's rename, the
\* .meta read by ordinal, the results pushed in order).
VerdictsAreEarned ==
  \A t \in 1 .. Len(results) :
    /\ results[t] = "AC" => job.program[t] = "right"
    /\ results[t] = "WA" => job.program[t] = "wrong"

\* The batch was cut off in a test that may have run for long.
CutOff(t) == meta[t] = Unrun /\ \A u \in 1 .. t - 1 : meta[u] # Unrun
CutInLong == \E t \in Tests : CutOff(t) /\ job.program[t] \in Long

\* A container that is taken away costs the tests it had not finished nothing: one
\* that is right there passes, unless a limit on memory or disk was broken elsewhere
\* or more went wrong (runSingleTest, "partial credit survives").  A test it had
\* finished can lose its points one way only: as TLE, where the container was taken
\* in the middle of a long test and the batch's times are not believed for it.
DeathCostsNoTest ==
  \A t \in 1 .. Len(results) :
    job.compiles /\ job.program[t] = "right" /\ results[t] # "AC"
      => \/ \E u \in Tests : job.program[u] \in {"hog", "fill"}
         \/ mishaps.count > 1 \/ mishaps.kinds # {"killed"}
         \/ results[t] = "TLE" /\ meta[t] # Unrun /\ CutInLong

\* No wait is for something that will never come: the judge does not wait for its
\* feeder, nor the feeder or the driver for a file nobody will write, so a job
\* that was accepted ends (the `stopped` flag, PTCN_FEED_TIMEOUT), without the
\* feeder's half hour.
JudgeEnds == host.at # "idle" ~> host.at \in {"returned", "threw"}

\* A submission over its memory limit on one test keeps what it earned on the
\* others: only such a test is MLE.  The code gives MLE to every test of the
\* batch: results.length + 1 is always the ordinal at hand.
OnlyHogsAreMLE ==
  \A t \in 1 .. Len(results) : results[t] = "MLE" => job.program[t] = "hog"

\* What the judge could not run is the judge's failure, IE, and no verdict on the
\* program: CE is the compiler's word and RE the program's.
JudgeFailuresAreIE ==
  /\ host.says = "CE" => ~job.compiles
  /\ \A t \in 1 .. Len(results) :
       results[t] = "RE" => job.program[t] \in {"crash", "hog", "fill"} \/ ~job.compiles
===============================================================================
