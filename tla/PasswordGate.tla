------------------------------ MODULE PasswordGate -----------------------------
(***************************************************************************)
(* What stands before a password check, on sign-in and on sign-up alike: a *)
(* pool of MaxActive checks with a bounded queue, and inside it a wait that *)
(* grows with the failures so far.  ConcurrencyLimiter, CredentialBackoff  *)
(* and the two routes that run one inside the other.                       *)
(*                                                                         *)
(* A waiter looks for a place every 25 ms and the queue has no order, so a *)
(* request that arrives between two looks overtakes it.                    *)
(***************************************************************************)
EXTENDS Naturals, FiniteSets

CONSTANTS
  Logins,       \* requests the process can be serving at once
  MaxActive,      \* checks at a time
  MaxQueued,      \* requests waiting for one
  FreeAttempts,   \* failures before the first wait
  Cap,            \* the longest wait, in steps of stepMs
  MaxFailures,    \* where the failure counter stops
  MaxArrivals     \* bounds the requests that arrive

ASSUME GateAssumption ==
  /\ IsFiniteSet(Logins)
  /\ {MaxActive, MaxQueued, FreeAttempts, Cap, MaxFailures, MaxArrivals} \subseteq Nat
  /\ FreeAttempts < MaxFailures /\ Cap > 0

VARIABLES
  active, queued,    \* the limiter's two counters
  failures,          \* consecutive failures, as the backoff counts them
  stage,             \* [Logins -> Stage]
  arrivals,          \* requests so far
  eager              \* checks let through without a wait since the last success

gateVars == <<active, queued, failures, stage, arrivals, eager>>

GateStages == {"out", "queued", "waiting", "checking"}

Inside == {r \in Logins : stage[r] \in {"waiting", "checking"}}

-------------------------------------------------------------------------------
\* The wait.

\* delayMs, in steps.
Delay ==
  IF failures <= FreeAttempts THEN 0
  ELSE IF failures - FreeAttempts < Cap THEN failures - FreeAttempts ELSE Cap

\* Mutant: the timer is started, its promise not awaited.
ThrottleStarts(r) ==
  /\ stage' = [stage EXCEPT ![r] = "checking"]
  /\ eager' = eager + 1

\* throttle, up to its await.
Throttle(r) ==
  /\ stage' = [stage EXCEPT ![r] = IF Delay = 0 THEN "checking" ELSE "waiting"]
  /\ eager' = IF Delay = 0 THEN eager + 1 ELSE eager

-------------------------------------------------------------------------------
\* The pool.

Arrives(r) ==
  /\ stage[r] = "out"
  /\ arrivals < MaxArrivals
  /\ arrivals' = arrivals + 1

\* "Too many sign-in attempts are in flight", whether or not a place is free.
Refuse(r) ==
  /\ Arrives(r)
  /\ queued >= MaxQueued
  /\ UNCHANGED <<active, queued, failures, stage, eager>>

\* A place is free: through the queue and into the work without an await.
Enter(r) ==
  /\ Arrives(r)
  /\ queued < MaxQueued /\ active < MaxActive
  /\ active' = active + 1
  /\ Throttle(r)
  /\ UNCHANGED <<queued, failures>>

Queue(r) ==
  /\ Arrives(r)
  /\ queued < MaxQueued /\ active >= MaxActive
  /\ queued' = queued + 1
  /\ stage' = [stage EXCEPT ![r] = "queued"]
  /\ UNCHANGED <<active, failures, eager>>

\* The 25 ms are over and there is a place; if there is none the wait goes on.
LookAgain(r) ==
  /\ stage[r] = "queued" /\ active < MaxActive
  /\ active' = active + 1
  /\ queued' = queued - 1
  /\ Throttle(r)
  /\ UNCHANGED <<failures, arrivals>>

-------------------------------------------------------------------------------
\* The work.

\* The timer of the wait.
WaitOver(r) ==
  /\ stage[r] = "waiting"
  /\ stage' = [stage EXCEPT ![r] = "checking"]
  /\ UNCHANGED <<active, queued, failures, arrivals, eager>>

Succeed(r) ==
  /\ stage[r] = "checking"
  /\ stage' = [stage EXCEPT ![r] = "out"]
  /\ active' = active - 1
  /\ failures' = 0 /\ eager' = 0
  /\ UNCHANGED <<queued, arrivals>>

\* Mutant: the place of a check that throws is not given back.
FailHolding(r) ==
  /\ stage[r] = "checking"
  /\ stage' = [stage EXCEPT ![r] = "out"]
  /\ failures' = IF failures < MaxFailures THEN failures + 1 ELSE failures
  /\ UNCHANGED <<active, queued, arrivals, eager>>

\* A wrong password, an address already taken, or an error on the way.
Fail(r) ==
  /\ stage[r] = "checking"
  /\ stage' = [stage EXCEPT ![r] = "out"]
  /\ active' = active - 1
  /\ failures' = IF failures < MaxFailures THEN failures + 1 ELSE failures
  /\ UNCHANGED <<queued, arrivals, eager>>

-------------------------------------------------------------------------------
GateInit ==
  /\ active = 0 /\ queued = 0 /\ failures = 0
  /\ stage = [r \in Logins |-> "out"]
  /\ arrivals = 0 /\ eager = 0

GateNext ==
  \E r \in Logins :
    \/ Refuse(r) \/ Enter(r) \/ Queue(r) \/ LookAgain(r)
    \/ WaitOver(r) \/ Succeed(r) \/ Fail(r)

GateSpec == GateInit /\ [][GateNext]_gateVars

\* Timers fire and a check ends, one way or the other.
GateFairness ==
  \A r \in Logins :
    /\ WF_gateVars(LookAgain(r)) /\ WF_gateVars(WaitOver(r))
    /\ WF_gateVars(Succeed(r) \/ Fail(r))

-------------------------------------------------------------------------------
\* Properties.

\* The counters agree with who is where.  This is the invariant the proofs rest
\* on; the properties below follow from it.
GateTypeOK ==
  /\ stage \in [Logins -> GateStages]
  /\ {failures, arrivals, eager} \subseteq Nat
  /\ active = Cardinality(Inside)
  /\ queued = Cardinality({r \in Logins : stage[r] = "queued"})

Places == INSTANCE Pool WITH Clients <- Logins, Size <- MaxActive, holders <- Inside

\* passwordWork: "a bound on how many expensive operations run AT ONCE".  The
\* counter lets nobody in over it, whoever queues, overtakes, waits or fails.
ChecksArePooled == Places!PoolSpec

\* "After a few consecutive failures every attempt waits."  Attempts made side by
\* side read the counter before their neighbours have failed, so more than
\* FreeAttempts get through without a wait, but never more than that and one
\* pool's worth: the backoff relies on the pool around it.
GuessingSlowsDown == eager <= FreeAttempts + MaxActive

\* "The queue exists so a burst of legitimate sign-ins waits rather than fails":
\* served in no order, everybody in the queue is served once the burst is over.
EveryWaiterIsServed == \A r \in Logins : stage[r] = "queued" ~> stage[r] # "queued"
===============================================================================
