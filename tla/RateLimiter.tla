------------------------------- MODULE RateLimiter ------------------------------
(***************************************************************************)
(* The fixed-window rate limiter of a participant's submissions and sample *)
(* runs.  A request takes its instant when it arrives and reaches the      *)
(* limiter later, after it has read its session and its body, so instants  *)
(* reach it out of order; and a map that has grown is swept of the windows *)
(* that one such instant finds expired.                                    *)
(***************************************************************************)
EXTENDS Integers, Sequences, FiniteSets

CONSTANTS
  Keys,        \* participants
  Limit,       \* calls a window allows
  WindowMs,    \* its length, in ticks
  Crowd,       \* how many windows the map holds before it is swept
  Lag,         \* how late an instant may reach the limiter
  Until        \* the model's clock stops here

ASSUME LimiterAssumption ==
  /\ IsFiniteSet(Keys)
  /\ {Limit, WindowMs, Crowd, Lag, Until} \subseteq Nat /\ Limit > 0 /\ WindowMs > Lag

VARIABLES
  time,        \* the process's clock
  windows,     \* [Keys -> Window or NoWindow], the map
  allowed      \* [Keys -> Seq(0 .. Until)], history: when each call was let through

limiterVars == <<time, windows, allowed>>

NoWindow == [count |-> 0, resetAt |-> -1]

-------------------------------------------------------------------------------
Pass(k) == allowed' = [allowed EXCEPT ![k] = Append(@, time)]

Expired(w, now) == now >= w.resetAt

\* sweep, which looks at the map with the new window in it.
Sweep(map, now) ==
  IF Cardinality({k \in Keys : map[k] # NoWindow}) < Crowd THEN map
  ELSE [k \in Keys |-> IF Expired(map[k], now) THEN NoWindow ELSE map[k]]

\* Mutant: the call that opens a window is not counted.
OpenWindowFree(k, now) ==
  windows' = Sweep([windows EXCEPT ![k] = [count |-> 0, resetAt |-> now + WindowMs]], now)

OpenWindow(k, now) ==
  windows' = Sweep([windows EXCEPT ![k] = [count |-> 1, resetAt |-> now + WindowMs]], now)

\* tryConsume: no window or one that is over, one with room, or one that is full.
TryConsume(k, now) ==
  /\ \/ /\ Expired(windows[k], now)
        /\ OpenWindow(k, now)
        /\ Pass(k)
     \/ /\ ~Expired(windows[k], now) /\ windows[k].count < Limit
        /\ windows' = [windows EXCEPT ![k].count = @ + 1]
        /\ Pass(k)
     \/ /\ ~Expired(windows[k], now) /\ windows[k].count >= Limit
        /\ UNCHANGED <<windows, allowed>>
  /\ UNCHANGED time

TimePasses ==
  /\ time < Until
  /\ time' = time + 1
  /\ UNCHANGED <<windows, allowed>>

LimiterInit ==
  /\ time = 0
  /\ windows = [k \in Keys |-> NoWindow]
  /\ allowed = [k \in Keys |-> <<>>]

LimiterNext ==
  \/ \E k \in Keys, now \in {t \in 0 .. time : t >= time - Lag} : TryConsume(k, now)
  \/ TimePasses

LimiterSpec == LimiterInit /\ [][LimiterNext]_limiterVars

-------------------------------------------------------------------------------
\* Properties.

\* "A stuck retry loop in a browser tab" gets through twice the limit at most in
\* any stretch a window long, less what late instants can shift two windows
\* together: of two calls so many apart the later comes that much later.  A sweep
\* does not help it through.
BurstIsBounded ==
  \A k \in Keys : \A i, j \in DOMAIN allowed[k] :
    j >= i + 2 * Limit => allowed[k][j] >= allowed[k][i] + WindowMs - Lag
===============================================================================
