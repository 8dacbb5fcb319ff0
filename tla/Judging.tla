-------------------------------- MODULE Judging -------------------------------
(***************************************************************************)
(* How a submission gets its verdict.                                      *)
(*                                                                         *)
(* Three parties share the work and none of them waits for another:        *)
(*   - the web process inserts the row and enqueues a BullMQ job whose id  *)
(*     is the submission id; every request that shows an unjudged row      *)
(*     (the student's poll, the SSE tick, the organizer's console) runs    *)
(*     reconcile, which moves a finished job's result into the database;   *)
(*   - the judge worker takes jobs, judges them and leaves the result as   *)
(*     the job's return value; it writes nothing to the database;          *)
(*   - an organizer overrides a verdict or sends a submission back.        *)
(*                                                                         *)
(* A request handler is a sequence of awaits.  Each one is a step of its   *)
(* own here, so any other handler, the worker, or the death of the process *)
(* may come in between; what a handler read before an await it still holds *)
(* after it.  The database transactions are those of Ledger.               *)
(***************************************************************************)
EXTENDS Ledger, FiniteSets

CONSTANTS
  Requests,          \* request handlers in flight at the same time
  Concurrency,       \* jobs the worker judges at the same time
  MaxJobAttempts,    \* BullMQ attempts of one job: 2, the run and its one retry
  MaxStalls,         \* times a job may stall before BullMQ fails it: 1
  Budget             \* how often the events below may happen in a run, together

ASSUME LimitsAssumption ==
  /\ Concurrency \in Nat /\ MaxJobAttempts \in Nat /\ MaxStalls \in Nat
  /\ MaxJobAttempts > 0

\* Rare events.  Budget bounds them for the model checker: it is the set of the
\* tallies a run may reach.
\*   override, rejudge, remove   an organizer's action on a row
\*   legacy                      a write of the previous release
\*   crash                       the worker dies, or a request does
\*   outage                      a call to Redis or the database fails
\*   evict                       a finished job is dropped from Redis
Events == {"override", "rejudge", "remove", "legacy", "crash", "outage", "evict"}

ASSUME BudgetAssumption == Budget \subseteq [Events -> Nat]

VARIABLES
  job,       \* [Submissions -> Job], the BullMQ job with that id
  req,       \* [Requests -> Request], where each handler is and what it holds
  overdue,   \* the rows submitted longer than ORPHAN_GRACE_MS ago
  spent      \* [Events -> Nat], the tally of rare events so far

vars == <<status, answer, revisions, tests, generation, job, req, overdue, spent>>

-------------------------------------------------------------------------------
\* Jobs.

\* What the worker may return; "garbage" is a value of another build that
\* JudgeResultSchema does not accept.
Results == Verdicts \union {"garbage"}

\* run is the generation the job was enqueued for, value its return value,
\* attempts BullMQ's attemptsMade, and held whether a worker has its lock.
Jobs == [state : {"missing", "waiting", "active", "delayed", "completed", "failed"},
         run : Nat, value : Results \union {"null"}, attempts : Nat,
         stalls : Nat, held : BOOLEAN]

NoJob == [state |-> "missing", run |-> 0, value |-> "null", attempts |-> 0,
          stalls |-> 0, held |-> FALSE]

NewJob(n) == [NoJob EXCEPT !.state = "waiting", !.run = n]

Live(s) == job[s].state \in {"waiting", "active", "delayed"}

\* Its run has an answer for the row, or may still come to one.
Promising(s) ==
  Live(s) \/ (job[s].state = "completed" /\ job[s].value # "garbage")

\* Request handlers.

Points == {"idle",
           "enqueue", "takeback",                  \* createSubmission
           "read", "getjob", "getstate", "persist", "giveup",   \* reconcile
           "remove", "reenqueue"}                  \* rejudgeSubmission

\* sub is the submission the handler is about, value and run what it last read
\* from Redis, or the generation of the job it is about to enqueue.
Request == [at : Points, sub : Submissions, value : Results \union {"null"}, run : Nat]

Idle == [at |-> "idle", sub |-> CHOOSE s \in Submissions : TRUE, value |-> "null", run |-> 0]

IsAt(r, p) == req[r].at = p
Goto(r, p) == req' = [req EXCEPT ![r].at = p]
Finish(r) == req' = [req EXCEPT ![r] = Idle]
Start(r, p, s, n) ==
  /\ req[r] = Idle
  /\ req' = [req EXCEPT ![r] = [at |-> p, sub |-> s, value |-> "null", run |-> n]]

Spend(e) == spent' = [spent EXCEPT ![e] = @ + 1] /\ spent' \in Budget

-------------------------------------------------------------------------------
\* createSubmission: insert, enqueue, and take the row back if that fails.

Submit(r, s) ==
  /\ Start(r, "enqueue", s, 0)
  /\ InsertRow(s)
  /\ UNCHANGED <<job, overdue, spent>>

\* enqueueJudgeJob: BullMQ silently drops an add whose id it already holds.
Enqueue(r, next) ==
  LET s == req[r].sub IN
  /\ job' = IF job[s].state = "missing"
            THEN [job EXCEPT ![s] = NewJob(req[r].run)] ELSE job
  /\ req' = [req EXCEPT ![r] = IF next = "idle" THEN Idle
                               ELSE [@ EXCEPT !.at = next]]
  /\ UNCHANGED <<ledgerVars, overdue, spent>>

SubmitEnqueues(r) == IsAt(r, "enqueue") /\ Enqueue(r, "idle")

SubmitEnqueueFails(r) ==
  /\ IsAt(r, "enqueue")
  /\ Spend("outage")
  /\ Goto(r, "takeback")
  /\ UNCHANGED <<ledgerVars, job, overdue>>

\* Mutant: the failed enqueue is reported and its row stays.
TakeBackForgotten(r) ==
  /\ IsAt(r, "takeback")
  /\ Finish(r)
  /\ UNCHANGED <<ledgerVars, job, overdue, spent>>

\* The delete's own failure is swallowed and leaves a row with no job; a row
\* that is already gone fails it too.
TakeBack(r) ==
  LET s == req[r].sub IN
  /\ IsAt(r, "takeback")
  /\ Finish(r)
  /\ \/ DeleteRow(s) /\ UNCHANGED spent
     \/ ~Present(s) /\ UNCHANGED <<ledgerVars, spent>>
     \/ Spend("outage") /\ UNCHANGED ledgerVars
  /\ UNCHANGED <<job, overdue>>

-------------------------------------------------------------------------------
\* reconcile: row, job hash, job state, transaction, each its own await.

\* A request that shows an unjudged row reconciles it.  On any other row
\* reconcile returns at once and nothing changes.
Poll(r, s) ==
  /\ Unanswered(s)
  /\ Start(r, "getjob", s, 0)
  /\ UNCHANGED <<ledgerVars, job, overdue, spent>>

\* The same first read, at the end of an override or a rejudge.
ReadRow(r) ==
  /\ IsAt(r, "read")
  /\ IF Unanswered(req[r].sub) THEN Goto(r, "getjob") ELSE Finish(r)
  /\ UNCHANGED <<ledgerVars, job, overdue, spent>>

\* Mutants: a missing job is given up on at once, or never.
GetJobImpatient(r) ==
  LET s == req[r].sub IN
  /\ IsAt(r, "getjob")
  /\ req' = [req EXCEPT ![r] = IF job[s].state = "missing" THEN [@ EXCEPT !.at = "giveup"]
                               ELSE [at |-> "getstate", sub |-> s,
                                     value |-> job[s].value, run |-> job[s].run]]
  /\ UNCHANGED <<ledgerVars, job, overdue, spent>>

GetJobForgiving(r) ==
  LET s == req[r].sub IN
  /\ IsAt(r, "getjob")
  /\ req' = [req EXCEPT ![r] = IF job[s].state = "missing" THEN Idle
                               ELSE [at |-> "getstate", sub |-> s,
                                     value |-> job[s].value, run |-> job[s].run]]
  /\ UNCHANGED <<ledgerVars, job, overdue, spent>>

\* getJob reads the job's hash, return value included.  No job and no verdict:
\* keep waiting until the grace period is over, then give up.
GetJob(r) ==
  LET s == req[r].sub IN
  /\ IsAt(r, "getjob")
  /\ IF job[s].state # "missing"
     THEN req' = [req EXCEPT ![r] = [at |-> "getstate", sub |-> s,
                                     value |-> job[s].value, run |-> job[s].run]]
     ELSE IF s \in overdue THEN Goto(r, "giveup") ELSE Finish(r)
  /\ UNCHANGED <<ledgerVars, job, overdue, spent>>

\* Mutant: a completed job without a value to parse is given up on.
GetStateHasty(r) ==
  LET state == job[req[r].sub].state IN
  /\ IsAt(r, "getstate")
  /\ IF \/ state = "failed"
        \/ state = "completed" /\ req[r].value \in {"garbage", "null"}
     THEN Goto(r, "giveup")
     ELSE IF state = "completed" THEN Goto(r, "persist") ELSE Finish(r)
  /\ UNCHANGED <<ledgerVars, job, overdue, spent>>

\* getState is a second round trip, so it may be newer than the value: then a
\* completed job still shows a null value and reconcile keeps waiting.
GetState(r) ==
  LET state == job[req[r].sub].state IN
  /\ IsAt(r, "getstate")
  /\ IF \/ state = "failed"
        \/ state = "completed" /\ req[r].value = "garbage"
     THEN Goto(r, "giveup")
     ELSE IF state = "completed" /\ req[r].value # "null"
          THEN Goto(r, "persist")
          ELSE Finish(r)
  /\ UNCHANGED <<ledgerVars, job, overdue, spent>>

\* Mutant: the write trusts the row reconcile read before it had the lock.
PersistUnchecked(r) ==
  LET s == req[r].sub IN
  /\ IsAt(r, "persist")
  /\ Record(s, JudgeAnswer(req[r].value, req[r].run))
  /\ Finish(r)
  /\ UNCHANGED <<status, tests, generation, job, overdue, spent>>

Persist(r) ==
  LET s == req[r].sub IN
  /\ IsAt(r, "persist")
  /\ \/ RecordResult(s, req[r].value, req[r].run)
     \/ ~MayRecordResult(s) /\ UNCHANGED ledgerVars
  /\ Finish(r)
  /\ UNCHANGED <<job, overdue, spent>>

GiveUp(r) ==
  LET s == req[r].sub IN
  /\ IsAt(r, "giveup")
  /\ \/ RecordGiveUp(s)
     \/ ~Unanswered(s) /\ UNCHANGED ledgerVars
  /\ Finish(r)
  /\ UNCHANGED <<job, overdue, spent>>

-------------------------------------------------------------------------------
\* Organizers.

Override(r, s, v) ==
  /\ Start(r, "read", s, 0)
  /\ OverrideRow(s, v)
  /\ Spend("override")
  /\ UNCHANGED <<job, overdue>>

\* rejudgeSubmission clears the row first; removing the old job and enqueueing
\* the new one are two more calls, each of which may fail and end the request.
Rejudge(r, s) ==
  /\ Start(r, "remove", s, generation[s] + 1)
  /\ ClearRow(s)
  /\ Spend("rejudge")
  /\ UNCHANGED <<job, overdue>>

\* BullMQ refuses to remove a job a worker has locked.  The lock of a worker
\* that died lives on for a while, so an active job nobody holds goes either way.
RemoveOldJob(r) ==
  LET s == req[r].sub IN
  /\ IsAt(r, "remove")
  /\ \/ /\ ~job[s].held
        /\ job' = [job EXCEPT ![s] = NoJob]
        /\ Goto(r, "reenqueue")
     \/ /\ job[s].state = "active"
        /\ Finish(r)
        /\ UNCHANGED job
  /\ UNCHANGED <<ledgerVars, overdue, spent>>

RejudgeEnqueues(r) == IsAt(r, "reenqueue") /\ Enqueue(r, "read")

\* The queue is unreachable: the organizer gets an error, the row stays cleared.
RejudgeFails(r) ==
  /\ req[r].at \in {"remove", "reenqueue"}
  /\ Spend("outage")
  /\ Finish(r)
  /\ UNCHANGED <<ledgerVars, job, overdue>>

\* adminRemoveParticipant cascades to the participant's submissions.
RemoveParticipant(s) ==
  /\ DeleteRow(s)
  /\ Spend("remove")
  /\ UNCHANGED <<job, req, overdue>>

LegacyWrites(s, v) ==
  /\ LegacyWrite(s, v)
  /\ Spend("legacy")
  /\ UNCHANGED <<job, req, overdue>>

\* The request's process dies and what the handler held is gone.
RequestDies(r) ==
  /\ ~IsAt(r, "idle")
  /\ Spend("crash")
  /\ Finish(r)
  /\ UNCHANGED <<ledgerVars, job, overdue>>

-------------------------------------------------------------------------------
\* The judge worker and BullMQ.

Held == {s \in Submissions : job[s].held}

Take(s) ==
  /\ job[s].state = "waiting"
  /\ Cardinality(Held) < Concurrency
  /\ job' = [job EXCEPT ![s].state = "active", ![s].held = TRUE]
  /\ UNCHANGED <<ledgerVars, req, overdue, spent>>

LastAttempt(s) == job[s].attempts + 1 >= MaxJobAttempts

\* processJob returns a result; an IE only when there is no attempt left.
Complete(s, v) ==
  /\ job[s].held
  /\ v = "IE" => LastAttempt(s)
  /\ job' = [job EXCEPT ![s].state = "completed", ![s].value = v,
                        ![s].attempts = @ + 1, ![s].held = FALSE]
  /\ UNCHANGED <<ledgerVars, req, overdue, spent>>

\* processJob throws: an IE with an attempt left, or a job it cannot parse.
\* BullMQ delays it for the backoff, or fails it when its attempts are used up.
Throw(s) ==
  /\ job[s].held
  /\ job' = [job EXCEPT ![s].state = IF LastAttempt(s) THEN "failed" ELSE "delayed",
                        ![s].attempts = @ + 1, ![s].held = FALSE]
  /\ UNCHANGED <<ledgerVars, req, overdue, spent>>

BackoffOver(s) ==
  /\ job[s].state = "delayed"
  /\ job' = [job EXCEPT ![s].state = "waiting"]
  /\ UNCHANGED <<ledgerVars, req, overdue, spent>>

\* The worker process dies: every job it was judging stays active, unheld.
WorkerDies ==
  /\ Held # {}
  /\ Spend("crash")
  /\ job' = [s \in Submissions |-> [job[s] EXCEPT !.held = FALSE]]
  /\ UNCHANGED <<ledgerVars, req, overdue>>

\* The stalled check puts a job nobody holds back, and fails it the second time.
Stalled(s) ==
  /\ job[s].state = "active" /\ ~job[s].held
  /\ job' = [job EXCEPT ![s].state = IF @ = "active" /\ job[s].stalls >= MaxStalls
                                     THEN "failed" ELSE "waiting",
                        ![s].stalls = @ + 1]
  /\ UNCHANGED <<ledgerVars, req, overdue, spent>>

\* removeOnComplete and removeOnFail keep the last 500 finished jobs.
Evict(s) ==
  /\ job[s].state \in {"completed", "failed"}
  /\ Spend("evict")
  /\ job' = [job EXCEPT ![s] = NoJob]
  /\ UNCHANGED <<ledgerVars, req, overdue>>

\* Ten minutes pass since the submission, far longer than its enqueue takes.
Age(s) ==
  /\ Present(s) /\ s \notin overdue
  /\ \A r \in Requests : req[r].sub = s => req[r].at \notin {"enqueue", "takeback"}
  /\ overdue' = overdue \union {s}
  /\ UNCHANGED <<ledgerVars, job, req, spent>>

-------------------------------------------------------------------------------
\* The system.

Init ==
  /\ LedgerInit
  /\ job = [s \in Submissions |-> NoJob]
  /\ req = [r \in Requests |-> Idle]
  /\ overdue = {}
  /\ spent = [e \in Events |-> 0]

\* A handler already under way takes its next step, or its enqueue fails.
Proceed(r) ==
  \/ SubmitEnqueues(r) \/ TakeBack(r)
  \/ ReadRow(r) \/ GetJob(r) \/ GetState(r) \/ Persist(r) \/ GiveUp(r)
  \/ RemoveOldJob(r) \/ RejudgeEnqueues(r)

Judge(s) == (\E v \in Results : Complete(s, v)) \/ Throw(s)

Next ==
  \/ \E r \in Requests :
       \/ Proceed(r)
       \/ SubmitEnqueueFails(r) \/ RejudgeFails(r) \/ RequestDies(r)
       \/ \E s \in Submissions :
            \/ Submit(r, s) \/ Poll(r, s) \/ Rejudge(r, s)
            \/ \E v \in Verdicts : Override(r, s, v)
  \/ \E s \in Submissions :
       \/ Take(s) \/ Judge(s) \/ BackoffOver(s) \/ Stalled(s) \/ Evict(s) \/ Age(s)
       \/ RemoveParticipant(s)
       \/ \E v \in Verdicts : LegacyWrites(s, v)
  \/ WorkerDies

Spec == Init /\ [][Next]_vars

\* A handler that is not killed finishes; somebody keeps looking at an unjudged
\* row (the student's poll and stream, and adminConsole for the others), and is
\* not kept from it by the size of Requests; the worker is up and its wait list
\* is first in, first out; BullMQ's timers fire; time passes.
Fairness ==
  /\ \A r \in Requests : WF_vars(Proceed(r))
  /\ \A s \in Submissions :
       /\ SF_vars(\E r \in Requests : Poll(r, s))
       /\ SF_vars(Take(s))
       /\ WF_vars(Judge(s)) /\ WF_vars(BackoffOver(s)) /\ WF_vars(Stalled(s))
       /\ WF_vars(Age(s))

FairSpec == Spec /\ Fairness

-------------------------------------------------------------------------------
\* Properties.

\* The shape of the state.
TypeOK ==
  /\ LedgerTypeOK
  /\ job \in [Submissions -> Jobs]
  /\ req \in [Requests -> Request]
  /\ overdue \subseteq Submissions
  /\ spent \in [Events -> Nat]

\* createSubmission and rejudgeSubmission each write the database and then
\* Redis.  A row that waits for a verdict with no job behind it is one some
\* handler is still working on, or the trace of a fault: a death, an eviction,
\* a failed enqueue on a rejudge, or a failed enqueue whose take-back failed too.
JoblessRowIsExplained ==
  \A s \in Submissions :
    Unanswered(s) /\ job[s].state = "missing" =>
      \/ \E r \in Requests :
           req[r].sub = s /\ req[r].at \in {"enqueue", "takeback", "remove", "reenqueue"}
      \/ spent["crash"] > 0 \/ spent["evict"] > 0
      \/ spent["outage"] > (IF generation[s] = 0 THEN 1 ELSE 0)

\* A step leaves a real answer to the organizers and the previous release.
WritesOnce ==
  \A s \in Submissions :
    (/\ answer[s].verdict \notin {"null", "IE"}
     /\ answer'[s] # answer[s]
     /\ Present(s)')
    => answer'[s].by \notin {"judge", "giveup"}

\* A verdict of the judge is write-once: once a row holds an answer other than
\* IE only an organizer or a process of the previous release changes it, however
\* many requests read the finished job while the row was still unjudged.
VerdictIsWriteOnce == [][WritesOnce]_vars

\* Unless the submission was sent back to the judge, reconcile writes an IE of
\* its own only when no run of it is queued, running, waiting to retry or done
\* with a result it could store: the grace period keeps it from a job that is
\* still on its way into Redis, and a return value it does not see yet, though
\* the job has completed, is none it gives up on.
NeverGivesUpOnLiveJob ==
  [][\A s \in Submissions :
       (/\ answer'[s] = GiveUpAnswer /\ answer[s] # GiveUpAnswer
        /\ generation[s] = 0) => ~Promising(s)]_vars

\* What the row owes the ledger, whatever the handlers interleave.
ImplementsLedger == LedgerSpec

\* Nobody is left looking at a spinner: every submission that stays is answered,
\* after a lost job, a dead worker or a failed call too (ORPHAN_GRACE_MS).
EverySubmissionIsAnswered ==
  \A s \in Submissions : Unanswered(s) ~> ~Unanswered(s)

\* Claims of the code's comments that the code does not keep.

\* rejudgeSubmission, "three things that have to happen in order: 1. Remove the
\* old job": the code clears the verdict first, and must not thereby "run the job
\* and then discard its result", keeping an answer of a run before the rejudge.
RejudgeIsNotDiscarded ==
  \A s \in Submissions :
    ~ /\ answer[s].by = "judge" /\ answer[s].run < generation[s]
      /\ job[s].state = "completed" /\ job[s].run = generation[s]
===============================================================================
