----------------------------- MODULE Clocks_proofs ----------------------------
(***************************************************************************)
(* Three of the things the room waits for, for every value of the          *)
(* constants: the gate in front of the password checks, the rate limiter,  *)
(* and the judge of a submission.                                          *)
(*                                                                         *)
(* GuessingSlowsDown is not inductive: how many checks got through without *)
(* a wait says nothing by itself.  What is kept is that, as long as there  *)
(* is no wait yet, each of them is either a failure that was counted or a  *)
(* check still holding its place; from the first wait on no more join.     *)
(***************************************************************************)
EXTENDS PasswordGate, Runner, RateLimiter, FiniteSetTheorems, SequenceTheorems, TLAPS

EagerAccounted ==
  IF failures <= FreeAttempts THEN eager <= failures + active
  ELSE eager <= FreeAttempts + MaxActive

GateInv == GateTypeOK /\ active <= MaxActive /\ EagerAccounted

-------------------------------------------------------------------------------
\* Those in one of the stages A, before and after request r alone moves.
Here(A) == {q \in Logins : stage[q] \in A}

Working == {"waiting", "checking"}

Moves(r, s) ==
  /\ stage \in [Logins -> GateStages] /\ stage' \in [Logins -> GateStages]
  /\ stage'[r] = s
  /\ \A q \in Logins \ {r} : stage'[q] = stage[q]

LEMMA FiniteHere ==
  ASSUME NEW A
  PROVE  /\ IsFiniteSet(Here(A)) /\ Cardinality(Here(A)) \in Nat
         /\ Cardinality(Here(A)') \in Nat
  BY GateAssumption, FS_Subset, FS_CardinalityType DEF Here

LEMMA CountsAreHere ==
  /\ Inside = Here(Working) /\ {q \in Logins : stage[q] = "queued"} = Here({"queued"})
  /\ Inside' = Here(Working)' /\ {q \in Logins : stage'[q] = "queued"} = Here({"queued"})'
  BY DEF Inside, Here, Working

LEMMA MovesIn ==
  ASSUME NEW r \in Logins, NEW s, NEW A, Moves(r, s), stage[r] \notin A, s \in A
  PROVE  /\ Here(A)' = Here(A) \union {r} /\ r \notin Here(A)
         /\ Cardinality(Here(A)') = Cardinality(Here(A)) + 1
  <1>1. Here(A)' = Here(A) \union {r} /\ r \notin Here(A)
    BY DEF Here, Moves
  <1> QED
    BY <1>1, FiniteHere, FS_AddElement

LEMMA MovesOut ==
  ASSUME NEW r \in Logins, NEW s, NEW A, Moves(r, s), stage[r] \in A, s \notin A
  PROVE  /\ Here(A)' = Here(A) \ {r} /\ r \in Here(A)
         /\ Cardinality(Here(A)') = Cardinality(Here(A)) - 1
  <1>1. Here(A)' = Here(A) \ {r} /\ r \in Here(A)
    BY DEF Here, Moves
  <1> QED
    BY <1>1, FiniteHere, FS_RemoveElement

LEMMA StaysPut ==
  ASSUME NEW r \in Logins, NEW s, NEW A, Moves(r, s), stage[r] \in A <=> s \in A
  PROVE  Here(A)' = Here(A)
  BY DEF Here, Moves

-------------------------------------------------------------------------------
LEMMA GateInvInit == GateInit => GateInv
  <1> SUFFICES ASSUME GateInit PROVE GateInv
    OBVIOUS
  <1>1. Inside = {} /\ {r \in Logins : stage[r] = "queued"} = {}
    BY DEF GateInit, Inside
  <1> QED
    BY <1>1, FS_EmptySet, GateAssumption DEF GateInit, GateInv, GateTypeOK, GateStages, EagerAccounted

\* What throttle does to a request that has its place.
LEMMA ThrottleGives ==
  ASSUME GateTypeOK, NEW r \in Logins, Throttle(r)
  PROVE  \E s \in Working :
           /\ Moves(r, s)
           /\ \/ failures <= FreeAttempts /\ eager' = eager + 1
              \/ ~(failures <= FreeAttempts) /\ eager' = eager
  <1>1. failures \in Nat /\ FreeAttempts \in Nat /\ Cap \in Nat /\ Cap > 0
    BY GateAssumption DEF GateTypeOK
  <1>2. ASSUME NEW s \in Working, stage' = [stage EXCEPT ![r] = s] PROVE Moves(r, s)
    BY <1>2 DEF GateTypeOK, GateStages, Working, Moves
  <1>3. CASE failures <= FreeAttempts
    <2>1. stage' = [stage EXCEPT ![r] = "checking"] /\ eager' = eager + 1
      BY <1>3 DEF Throttle, Delay
    <2> QED
      BY <1>2, <1>3, <2>1 DEF Working
  <1>4. CASE ~(failures <= FreeAttempts)
    <2>1. Delay # 0
      BY <1>1, <1>4 DEF Delay
    <2>2. stage' = [stage EXCEPT ![r] = "waiting"] /\ eager' = eager
      BY <2>1 DEF Throttle
    <2> QED
      BY <1>2, <1>4, <2>2 DEF Working
  <1> QED
    BY <1>3, <1>4

\* The two counters over the three kinds of moves.
LEMMA StartsWork ==
  ASSUME NEW r \in Logins, NEW s \in Working, Moves(r, s), stage[r] \in {"out", "queued"}
  PROVE  /\ Inside' = Inside \union {r} /\ r \notin Inside
         /\ Cardinality(Inside') = Cardinality(Inside) + 1
  <1>1. stage[r] \notin Working
    BY DEF Working
  <1> QED
    BY <1>1, MovesIn, CountsAreHere

LEMMA EndsWork ==
  ASSUME NEW r \in Logins, Moves(r, "out"), stage[r] = "checking"
  PROVE  /\ Inside' = Inside \ {r} /\ r \in Inside
         /\ Cardinality(Inside') = Cardinality(Inside) - 1
         /\ Here({"queued"})' = Here({"queued"})
  <1>1. stage[r] \in Working /\ "out" \notin Working
    BY DEF Working
  <1>2. stage[r] \in {"queued"} <=> "out" \in {"queued"}
    OBVIOUS
  <1> QED
    BY <1>1, <1>2, MovesOut, StaysPut, CountsAreHere

-------------------------------------------------------------------------------
LEMMA GateInvStep == GateInv /\ [GateNext]_gateVars => GateInv'
  <1> SUFFICES ASSUME GateInv, [GateNext]_gateVars PROVE GateInv'
    OBVIOUS
  <1> DEFINE Queued == Here({"queued"})
  <1>0. Inside = Here(Working) /\ Inside' = Here(Working)'
    BY CountsAreHere
  <1>1. /\ stage \in [Logins -> GateStages] /\ {failures, arrivals, eager} \subseteq Nat
        /\ active = Cardinality(Inside) /\ queued = Cardinality(Queued)
        /\ active \in Nat /\ queued \in Nat /\ active <= MaxActive
        /\ {MaxActive, MaxQueued, FreeAttempts, Cap, MaxFailures} \subseteq Nat
        /\ FreeAttempts < MaxFailures
        /\ EagerAccounted
    BY GateAssumption, FiniteHere, CountsAreHere DEF GateInv, GateTypeOK
  \* The invariant after a step, from what the step says of the counters.
  <1>2. ASSUME stage' \in [Logins -> GateStages], {failures', arrivals', eager'} \subseteq Nat,
               active' = Cardinality(Inside'), queued' = Cardinality(Queued'),
               active' <= MaxActive, EagerAccounted'
        PROVE  GateInv'
    BY <1>2, CountsAreHere DEF GateInv, GateTypeOK
  <1>3. ASSUME NEW r \in Logins, Refuse(r) PROVE GateInv'
    <2>1. Inside' = Inside /\ Queued' = Queued
      BY <1>3 DEF Refuse, Inside, Here
    <2> QED
      BY <1>1, <1>2, <1>3, <2>1 DEF Refuse, Arrives, EagerAccounted
  <1>4. ASSUME NEW r \in Logins, Enter(r) \/ LookAgain(r) PROVE GateInv'
    <2>1. PICK s \in Working :
            /\ Moves(r, s)
            /\ \/ failures <= FreeAttempts /\ eager' = eager + 1
               \/ ~(failures <= FreeAttempts) /\ eager' = eager
      BY <1>4, ThrottleGives DEF Enter, LookAgain, GateInv
    <2>2. /\ active' = active + 1 /\ active < MaxActive
          /\ failures' = failures /\ arrivals' \in Nat
          /\ \/ stage[r] = "out" /\ queued' = queued
             \/ stage[r] = "queued" /\ queued' = queued - 1
      BY <1>1, <1>4 DEF Enter, LookAgain, Arrives
    <2>3. Cardinality(Inside') = Cardinality(Inside) + 1 /\ stage' \in [Logins -> GateStages]
      BY <2>1, <2>2, StartsWork DEF Moves
    <2>4. queued' = Cardinality(Queued')
      <3>1. s \notin {"queued"}
        BY DEF Working
      <3>2. CASE stage[r] = "out" /\ queued' = queued
        BY <1>1, <2>1, <3>1, <3>2, StaysPut
      <3>3. CASE stage[r] = "queued" /\ queued' = queued - 1
        <4>1. stage[r] \in {"queued"}
          BY <3>3
        <4> QED
          BY <1>1, <2>1, <3>1, <3>3, <4>1, MovesOut
      <3> QED
        BY <2>2, <3>2, <3>3
    <2>5. EagerAccounted' /\ eager' \in Nat
      BY <1>1, <2>1, <2>2 DEF EagerAccounted
    <2> QED
      BY <1>1, <1>2, <2>2, <2>3, <2>4, <2>5
  <1>5. ASSUME NEW r \in Logins, Queue(r) PROVE GateInv'
    <2>1. Moves(r, "queued")
      BY <1>1, <1>5 DEF Queue, GateStages, Moves
    <2>2. stage[r] \notin {"queued"} /\ stage[r] \notin Working /\ "queued" \notin Working
      BY <1>5 DEF Queue, Arrives, Working
    <2>3. Cardinality(Queued') = Cardinality(Queued) + 1
      BY <2>1, <2>2, MovesIn
    <2>4. Inside' = Inside
      BY <1>0, <2>1, <2>2, StaysPut
    <2> QED
      BY <1>1, <1>2, <1>5, <2>1, <2>3, <2>4 DEF Queue, Arrives, EagerAccounted, Moves
  <1>6. ASSUME NEW r \in Logins, WaitOver(r) PROVE GateInv'
    <2>1. Moves(r, "checking")
      BY <1>1, <1>6 DEF WaitOver, GateStages, Moves
    <2>2. /\ stage[r] \in Working /\ "checking" \in Working
          /\ stage[r] \notin {"queued"} /\ "checking" \notin {"queued"}
      BY <1>6 DEF WaitOver, Working
    <2>3. Inside' = Inside
      BY <1>0, <2>1, <2>2, StaysPut
    <2>4. Queued' = Queued
      BY <2>1, <2>2, StaysPut
    <2> QED
      BY <1>1, <1>2, <1>6, <2>1, <2>3, <2>4 DEF WaitOver, EagerAccounted, Moves
  <1>7. ASSUME NEW r \in Logins, Succeed(r) \/ Fail(r) PROVE GateInv'
    <2>1. Moves(r, "out") /\ stage[r] = "checking"
      BY <1>1, <1>7 DEF Succeed, Fail, GateStages, Moves
    <2>2. /\ Cardinality(Inside') = Cardinality(Inside) - 1
          /\ Queued' = Queued /\ stage' \in [Logins -> GateStages]
      BY <2>1, EndsWork DEF Moves
    <2>3. active' = active - 1 /\ queued' = queued /\ arrivals' = arrivals
      BY <1>7 DEF Succeed, Fail
    <2>4. active' \in Nat
      BY <1>0, <1>1, <2>2, <2>3, FiniteHere
    <2>5. EagerAccounted' /\ {failures', eager'} \subseteq Nat
      <3>1. CASE Succeed(r)
        BY <1>1, <2>4, <3>1 DEF Succeed, EagerAccounted
      <3>2. CASE Fail(r)
        <4>1. /\ failures' = IF failures < MaxFailures THEN failures + 1 ELSE failures
              /\ eager' = eager
          BY <3>2 DEF Fail
        <4> QED
          BY <1>1, <2>3, <2>4, <4>1 DEF EagerAccounted
      <3> QED
        BY <1>7, <3>1, <3>2
    <2> QED
      BY <1>1, <1>2, <2>2, <2>3, <2>4, <2>5
  <1>8. CASE UNCHANGED gateVars
    BY <1>8 DEF gateVars, GateInv, GateTypeOK, Inside, EagerAccounted
  <1> QED
    BY <1>3, <1>4, <1>5, <1>6, <1>7, <1>8 DEF GateNext

LEMMA GateInvAlways == GateSpec => []GateInv
  BY GateInvInit, GateInvStep, PTL DEF GateSpec

-------------------------------------------------------------------------------
\* The limiter's counters agree with who is where, for any number of requests.
THEOREM GateTypeCorrect == GateSpec => []GateTypeOK
  <1>1. GateInv => GateTypeOK
    BY DEF GateInv
  <1> QED
    BY <1>1, GateInvAlways, PTL

\* CredentialBackoff inside ConcurrencyLimiter: between two successes at most
\* FreeAttempts and one pool's worth of checks go through without a wait.
THEOREM GuessingIsSlowed == GateSpec => []GuessingSlowsDown
  <1>1. GateInv => GuessingSlowsDown
    BY GateAssumption, FiniteHere, CountsAreHere
    DEF GateInv, GateTypeOK, EagerAccounted, GuessingSlowsDown
  <1> QED
    BY <1>1, GateInvAlways, PTL

\* passwordWork implements the bounded pool: whoever queues, overtakes, waits or
\* fails, a step of the gate is one client entering or leaving, or none.
THEOREM GateIsAPool == GateSpec => ChecksArePooled
  <1>1. GateInit => Places!PoolInit
    BY DEF GateInit, Inside, Places!PoolInit
  <1>2. GateInv /\ [GateNext]_gateVars => [Places!PoolNext]_Inside
    <2> SUFFICES ASSUME GateInv, [GateNext]_gateVars
                 PROVE  [Places!PoolNext]_Inside
      OBVIOUS
    <2>0. stage \in [Logins -> GateStages] /\ active = Cardinality(Inside)
      BY DEF GateInv, GateTypeOK
    <2>1. ASSUME NEW r \in Logins, Enter(r) \/ LookAgain(r) PROVE Places!Enter(r)
      <3>1. PICK s \in Working : Moves(r, s)
        BY <2>1, ThrottleGives DEF Enter, LookAgain, GateInv
      <3>2. stage[r] \in {"out", "queued"} /\ Cardinality(Inside) < MaxActive
        BY <2>0, <2>1 DEF Enter, LookAgain, Arrives
      <3>3. Places!Cardinality(Inside) = Cardinality(Inside)
        BY DEF Places!Cardinality, Cardinality, Places!IsFiniteSet, IsFiniteSet
      <3> QED
        BY <3>1, <3>2, <3>3, StartsWork DEF Places!Enter
    <2>2. ASSUME NEW r \in Logins, Succeed(r) \/ Fail(r) PROVE Places!Leave(r)
      <3>1. Moves(r, "out") /\ stage[r] = "checking"
        BY <2>0, <2>2 DEF Succeed, Fail, GateStages, Moves
      <3> QED
        BY <3>1, EndsWork DEF Places!Leave
    <2>3. ASSUME NEW r \in Logins, Refuse(r) \/ Queue(r) \/ WaitOver(r) PROVE Inside' = Inside
      <3>1. CASE Refuse(r)
        BY <3>1 DEF Refuse, Inside
      <3>2. CASE Queue(r) \/ WaitOver(r)
        <4>1. PICK s : Moves(r, s) /\ (stage[r] \in Working <=> s \in Working)
          BY <2>0, <3>2 DEF Queue, WaitOver, Arrives, GateStages, Working, Moves
        <4> QED
          BY <4>1, StaysPut, CountsAreHere
      <3> QED
        BY <2>3, <3>1, <3>2
    <2>4. CASE UNCHANGED gateVars
      BY <2>4 DEF gateVars, Inside
    <2> QED
      BY <2>1, <2>2, <2>3, <2>4 DEF GateNext, Places!PoolNext
  <1> QED
    BY <1>1, <1>2, GateInvAlways, PTL DEF GateSpec, ChecksArePooled, Places!PoolSpec

-------------------------------------------------------------------------------
\* The rate limiter.  Everything about a key is said of its window, of its calls
\* and of the clock, so that a step is an instance of one of four facts.

Windows == [count : 1 .. Limit, resetAt : Nat] \union {NoWindow}

\* What a window stretches over, whatever instants its calls came with.
Stretch == WindowMs - Lag

\* n calls are written down in order.
InOrder(calls, n, t) ==
  /\ \A i, j \in 1 .. n : i <= j => calls[i] <= calls[j]
  /\ \A i \in 1 .. n : calls[i] <= t

\* A window's calls are the last ones.  It ends a stretch after its first call or
\* later, and a stretch lies between the calls of the windows before the last one
\* and its first call, which found the last one over.
WindowCounts(w, calls, n) ==
  w # NoWindow =>
    /\ w.count <= n
    /\ w.resetAt >= calls[n - w.count + 1] + Stretch
    /\ \A i \in 1 .. n :
         i + w.count + Limit <= n + 1 => calls[i] + Stretch <= calls[n - w.count + 1]

\* Without a window the last one is over.
NoWindowLeft(w, calls, n, t) ==
  w = NoWindow => \A i \in 1 .. n : i + Limit <= n + 1 => calls[i] + Stretch <= t

Spread(calls, n) ==
  \A i, j \in 1 .. n : j >= i + 2 * Limit => calls[j] >= calls[i] + Stretch

KeyOK(w, calls, n, t) ==
  /\ InOrder(calls, n, t) /\ WindowCounts(w, calls, n)
  /\ NoWindowLeft(w, calls, n, t) /\ Spread(calls, n)

LimiterTypeOK ==
  /\ time \in 0 .. Until
  /\ windows \in [Keys -> Windows]
  /\ allowed \in [Keys -> Seq(0 .. Until)]

LimiterInv ==
  LimiterTypeOK /\ \A k \in Keys : KeyOK(windows[k], allowed[k], Len(allowed[k]), time)

LEMMA WindowNumbers ==
  /\ Limit \in Nat /\ Limit > 0 /\ WindowMs \in Nat /\ Lag \in Nat /\ Until \in Nat
  /\ Stretch \in Nat /\ Stretch > 0 /\ WindowMs = Stretch + Lag
  BY LimiterAssumption DEF Stretch

LEMMA WindowsAreNumbers ==
  ASSUME NEW w \in Windows, w # NoWindow
  PROVE  w.count \in Nat /\ w.count > 0 /\ w.count <= Limit /\ w.resetAt \in Nat
  BY WindowNumbers DEF Windows

LEMMA CallsAreInstants ==
  ASSUME NEW calls \in Seq(0 .. Until)
  PROVE  Len(calls) \in Nat /\ DOMAIN calls = 1 .. Len(calls) /\ calls \in [1 .. Len(calls) -> Nat]
  BY WindowNumbers

\* Time that passes takes nothing back.
LEMMA KeyWaits ==
  ASSUME NEW w, NEW n \in Nat, NEW calls \in [1 .. n -> Nat], NEW t \in Nat, NEW u \in Nat, t <= u,
         KeyOK(w, calls, n, t)
  PROVE  KeyOK(w, calls, n, u)
  BY WindowNumbers DEF KeyOK, InOrder, NoWindowLeft

\* A window that an instant of the past finds over may be forgotten.
LEMMA KeySwept ==
  ASSUME NEW w \in Windows, NEW n \in Nat, NEW calls \in [1 .. n -> Nat], NEW t \in Nat,
         NEW now \in 0 .. t, KeyOK(w, calls, n, t), Expired(w, now)
  PROVE  KeyOK(NoWindow, calls, n, t)
  <1>1. CASE w = NoWindow
    BY <1>1
  <1>2. CASE w # NoWindow
    <2>1. PICK c \in Nat : c = w.count /\ c > 0 /\ c <= Limit
      BY <1>2, WindowsAreNumbers
    <2>2. w.resetAt \in Nat /\ w.resetAt <= t
      BY <1>2, WindowsAreNumbers DEF Expired
    <2>3. c <= n /\ w.resetAt >= calls[n - c + 1] + Stretch
      BY <1>2, <2>1 DEF KeyOK, WindowCounts
    <2>4. PICK first \in 1 .. n : first = n - c + 1
      BY <2>1, <2>3
    <2>5. calls[first] + Stretch <= t
      BY <2>2, <2>3, <2>4, WindowNumbers
    <2>6. \A i \in 1 .. n : i + Limit <= n + 1 => i <= first
      BY <2>1, <2>4, WindowNumbers
    <2>7. \A i \in 1 .. n : i <= first => calls[i] <= calls[first]
      BY DEF KeyOK, InOrder
    <2>8. \A i \in 1 .. n : i + Limit <= n + 1 => calls[i] + Stretch <= t
      <3> SUFFICES ASSUME NEW i \in 1 .. n, i + Limit <= n + 1 PROVE calls[i] + Stretch <= t
        OBVIOUS
      <3>1. calls[i] <= calls[first]
        BY <2>6, <2>7
      <3> QED BY <2>5, <3>1, WindowNumbers
    <2> QED
      BY <2>8 DEF KeyOK, WindowCounts, NoWindowLeft
  <1> QED BY <1>1, <1>2

\* What one more call does to the list of them.
LEMMA CallAdded ==
  ASSUME NEW calls \in Seq(0 .. Until), NEW t \in 0 .. Until
  PROVE  LET more == Append(calls, t) IN
         /\ more \in Seq(0 .. Until) /\ Len(more) = Len(calls) + 1
         /\ more[Len(calls) + 1] = t
         /\ \A i \in 1 .. Len(calls) : more[i] = calls[i]
  OBVIOUS

LEMMA OneMoreInOrder ==
  ASSUME NEW n \in Nat, NEW calls \in [1 .. n -> Nat], NEW more \in [1 .. n + 1 -> Nat],
         NEW t \in Nat, more[n + 1] = t, \A i \in 1 .. n : more[i] = calls[i],
         InOrder(calls, n, t)
  PROVE  InOrder(more, n + 1, t)
  <1>1. \A i \in 1 .. n + 1 : i = n + 1 \/ i \in 1 .. n
    OBVIOUS
  <1>2. \A i \in 1 .. n + 1 : more[i] <= t
    BY <1>1 DEF InOrder
  <1>3. ASSUME NEW i \in 1 .. n + 1, NEW j \in 1 .. n + 1, i <= j PROVE more[i] <= more[j]
    <2>1. CASE j = n + 1
      BY <1>2, <2>1
    <2>2. CASE j # n + 1
      <3>1. j \in 1 .. n /\ i \in 1 .. n
        BY <1>3, <2>2
      <3> QED BY <1>3, <3>1 DEF InOrder
    <2> QED BY <2>1, <2>2
  <1> QED BY <1>2, <1>3 DEF InOrder

\* The calls twice the limit before one are the ones a stretch before it.
LEMMA OneMoreSpread ==
  ASSUME NEW n \in Nat, NEW calls \in [1 .. n -> Nat], NEW more \in [1 .. n + 1 -> Nat],
         NEW t \in Nat, more[n + 1] = t, \A i \in 1 .. n : more[i] = calls[i],
         Spread(calls, n), \A i \in 1 .. n : i + 2 * Limit <= n + 1 => calls[i] + Stretch <= t
  PROVE  Spread(more, n + 1)
  <1> SUFFICES ASSUME NEW i \in 1 .. n + 1, NEW j \in 1 .. n + 1, j >= i + 2 * Limit
               PROVE  more[j] >= more[i] + Stretch
    BY DEF Spread
  <1>1. i \in 1 .. n
    BY WindowNumbers
  <1>2. CASE j = n + 1
    BY <1>1, <1>2, WindowNumbers
  <1>3. CASE j # n + 1
    <2>1. j \in 1 .. n
      BY <1>3
    <2> QED BY <1>1, <2>1 DEF Spread
  <1> QED BY <1>2, <1>3

\* A call that opens a window, after the last one is over.
LEMMA KeyOpens ==
  ASSUME NEW n \in Nat, NEW calls \in [1 .. n -> Nat], NEW more \in [1 .. n + 1 -> Nat],
         NEW t \in Nat, more[n + 1] = t, \A i \in 1 .. n : more[i] = calls[i],
         NEW now \in 0 .. t, now >= t - Lag, KeyOK(NoWindow, calls, n, t)
  PROVE  LET w == [count |-> 1, resetAt |-> now + WindowMs] IN
         w \in Windows /\ KeyOK(w, more, n + 1, t)
  <1> DEFINE w == [count |-> 1, resetAt |-> now + WindowMs]
  <1>1. w \in Windows /\ w # NoWindow /\ w.count = 1 /\ w.resetAt = now + WindowMs
    BY WindowNumbers DEF Windows, NoWindow
  <1> HIDE DEF w
  <1>2. w.resetAt >= t + Stretch
    BY <1>1, WindowNumbers
  <1>3. \A i \in 1 .. n : i + Limit <= n + 1 => calls[i] + Stretch <= t
    BY DEF KeyOK, NoWindowLeft
  <1>4. \A i \in 1 .. n + 1 : i + 1 + Limit <= n + 2 => more[i] + Stretch <= t
    <2> SUFFICES ASSUME NEW i \in 1 .. n + 1, i + 1 + Limit <= n + 2
                 PROVE  more[i] + Stretch <= t
      OBVIOUS
    <2>1. i \in 1 .. n /\ i + Limit <= n + 1
      BY WindowNumbers
    <2> QED BY <1>3, <2>1
  <1>5. WindowCounts(w, more, n + 1)
    <2>1. (n + 1) - w.count + 1 = n + 1
      BY <1>1
    <2>2. \A i \in 1 .. n + 1 : i + w.count + Limit <= (n + 1) + 1 => more[i] + Stretch <= t
      BY <1>1, <1>4
    <2> QED BY <1>1, <1>2, <2>1, <2>2 DEF WindowCounts
  <1>6. \A i \in 1 .. n : i + 2 * Limit <= n + 1 => calls[i] + Stretch <= t
    BY <1>3, WindowNumbers
  <1>7. InOrder(more, n + 1, t) /\ Spread(more, n + 1)
    BY <1>6, OneMoreInOrder, OneMoreSpread DEF KeyOK
  <1> QED BY <1>1, <1>5, <1>7 DEF KeyOK, NoWindowLeft, w

\* A call that a window has room for.
LEMMA KeyCounts ==
  ASSUME NEW w \in Windows, NEW n \in Nat, NEW calls \in [1 .. n -> Nat],
         NEW more \in [1 .. n + 1 -> Nat], NEW t \in Nat, more[n + 1] = t,
         \A i \in 1 .. n : more[i] = calls[i],
         KeyOK(w, calls, n, t), w # NoWindow, w.count < Limit
  PROVE  LET v == [w EXCEPT !.count = @ + 1] IN
         v \in Windows /\ KeyOK(v, more, n + 1, t)
  <1> DEFINE v == [w EXCEPT !.count = @ + 1]
  <1>1. w \in [count : 1 .. Limit, resetAt : Nat]
    BY DEF Windows
  <1>2. /\ v = [count |-> w.count + 1, resetAt |-> w.resetAt]
        /\ v.count = w.count + 1 /\ v.resetAt = w.resetAt
    BY <1>1
  <1>3. v \in Windows /\ v # NoWindow
    <2>1. w.count + 1 \in 1 .. Limit /\ w.count + 1 # 0 /\ w.resetAt \in Nat
      BY WindowsAreNumbers, WindowNumbers
    <2> QED BY <1>2, <2>1 DEF Windows, NoWindow
  <1> HIDE DEF v
  <1>4. PICK c \in Nat : c = w.count /\ c > 0 /\ c < Limit
    BY WindowsAreNumbers
  <1>5. PICK first \in 1 .. n : first = n - c + 1
    BY <1>4 DEF KeyOK, WindowCounts
  <1>6. /\ w.resetAt >= calls[first] + Stretch
        /\ \A i \in 1 .. n : i + c + Limit <= n + 1 => calls[i] + Stretch <= calls[first]
    BY <1>4, <1>5 DEF KeyOK, WindowCounts
  <1>7. WindowCounts(v, more, n + 1)
    <2>0. v.count = c + 1
      BY <1>2, <1>4
    <2>1. v.count <= n + 1 /\ (n + 1) - v.count + 1 = first
      BY <1>4, <1>5, <2>0
    <2>2. ASSUME NEW i \in 1 .. n + 1, i + v.count + Limit <= (n + 1) + 1
          PROVE  more[i] + Stretch <= more[first]
      <3>1. i \in 1 .. n /\ i + c + Limit <= n + 1
        <4>1. i + (c + 1) + Limit <= (n + 1) + 1
          BY <2>0, <2>2
        <4>2. i \in Nat /\ Limit \in Nat /\ Limit > 0 /\ i >= 1
          BY WindowNumbers
        <4>3. i + c + Limit <= n + 1
          BY <4>1, <4>2
        <4> QED BY <1>4, <4>2, <4>3
      <3> QED BY <1>6, <3>1
    <2> QED BY <1>2, <1>6, <2>1, <2>2 DEF WindowCounts
  <1>8. ASSUME NEW i \in 1 .. n, i + 2 * Limit <= n + 1 PROVE calls[i] + Stretch <= t
    <2>1. i + c + Limit <= n + 1
      BY <1>4, <1>8, WindowNumbers
    <2>2. calls[i] + Stretch <= calls[first]
      BY <1>6, <2>1
    <2>3. calls[first] <= t
      BY DEF KeyOK, InOrder
    <2> QED BY <2>2, <2>3, WindowNumbers
  <1>9. InOrder(more, n + 1, t) /\ Spread(more, n + 1)
    BY <1>8, OneMoreInOrder, OneMoreSpread DEF KeyOK
  <1> QED BY <1>3, <1>7, <1>9 DEF KeyOK, NoWindowLeft, v

LEMMA LimiterStarts == LimiterInit => LimiterInv
  BY WindowNumbers
  DEF LimiterInit, LimiterInv, LimiterTypeOK, Windows, KeyOK, InOrder, WindowCounts, NoWindowLeft, Spread

\* A sweep leaves each window as it is, or takes one that is over.
LEMMA SweepTakesExpired ==
  ASSUME NEW map \in [Keys -> Windows], NEW now
  PROVE  /\ Sweep(map, now) \in [Keys -> Windows]
         /\ \A k \in Keys : \/ Sweep(map, now)[k] = map[k]
                            \/ Sweep(map, now)[k] = NoWindow /\ Expired(map[k], now)
  BY DEF Sweep, Windows

LEMMA LimiterStep == LimiterInv /\ [LimiterNext]_limiterVars => LimiterInv'
  <1> SUFFICES ASSUME LimiterInv, [LimiterNext]_limiterVars PROVE LimiterInv'
    OBVIOUS
  <1> USE DEF LimiterInv, LimiterTypeOK
  <1>0. /\ time \in Nat
        /\ \A k \in Keys : /\ Len(allowed[k]) \in Nat
                           /\ allowed[k] \in [1 .. Len(allowed[k]) -> Nat]
    BY WindowNumbers, CallsAreInstants
  <1>1. CASE UNCHANGED limiterVars
    BY <1>1 DEF limiterVars
  <1>2. CASE TimePasses
    <2>1. time' \in 0 .. Until /\ time' \in Nat /\ time <= time' /\ UNCHANGED <<windows, allowed>>
      BY <1>2, WindowNumbers DEF TimePasses
    <2>2. ASSUME NEW k \in Keys PROVE KeyOK(windows[k], allowed[k], Len(allowed[k]), time')
      BY <1>0, <2>1, KeyWaits
    <2> QED BY <2>1, <2>2
  <1>3. ASSUME NEW k \in Keys, NEW now \in {t \in 0 .. time : t >= time - Lag}, TryConsume(k, now)
        PROVE  LimiterInv'
    <2> DEFINE calls == allowed[k]
               n == Len(allowed[k])
               more == Append(allowed[k], time)
    <2>0. time' = time /\ windows[k] \in Windows /\ now \in 0 .. time /\ now >= time - Lag
      BY <1>3 DEF TryConsume
    <2>1. /\ more \in Seq(0 .. Until) /\ Len(more) = n + 1 /\ more \in [1 .. n + 1 -> Nat]
          /\ more[n + 1] = time /\ \A i \in 1 .. n : more[i] = calls[i]
      BY CallAdded, CallsAreInstants
    <2>2. KeyOK(windows[k], calls, n, time) /\ n \in Nat /\ calls \in [1 .. n -> Nat]
      BY <1>0
    <2>3. Pass(k) => /\ allowed' = [allowed EXCEPT ![k] = more]
                     /\ allowed' \in [Keys -> Seq(0 .. Until)]
      BY <2>1 DEF Pass
    <2>4. CASE Expired(windows[k], now) /\ OpenWindow(k, now) /\ Pass(k)
      <3> DEFINE w == [count |-> 1, resetAt |-> now + WindowMs]
                 map == [windows EXCEPT ![k] = w]
      <3>1. w \in Windows /\ KeyOK(w, more, n + 1, time)
        <4>1. KeyOK(NoWindow, calls, n, time)
          BY <1>0, <2>0, <2>2, <2>4, KeySwept
        <4> HIDE DEF more, n, calls
        <4> QED BY <1>0, <2>0, <2>1, <2>2, <4>1, KeyOpens
      <3>2. map \in [Keys -> Windows] /\ windows' = Sweep(map, now)
        BY <2>4, <3>1 DEF OpenWindow
      <3>3. ASSUME NEW o \in Keys
            PROVE  /\ KeyOK(map[o], allowed'[o], Len(allowed'[o]), time)
                   /\ Len(allowed'[o]) \in Nat /\ allowed'[o] \in [1 .. Len(allowed'[o]) -> Nat]
        <4> HIDE DEF w, more
        <4>1. CASE o = k
          BY <2>1, <2>2, <2>3, <2>4, <3>1, <4>1
        <4>2. CASE o # k
          BY <1>0, <2>3, <2>4, <4>2
        <4> QED BY <4>1, <4>2
      <3> HIDE DEF map
      <3>4. ASSUME NEW o \in Keys PROVE KeyOK(windows'[o], allowed'[o], Len(allowed'[o]), time)
        <4>1. CASE windows'[o] = map[o]
          BY <3>3, <4>1
        <4>2. CASE windows'[o] = NoWindow /\ Expired(map[o], now)
          <5>1. map[o] \in Windows
            BY <3>2
          <5> QED BY <1>0, <2>0, <3>3, <4>2, <5>1, KeySwept
        <4> QED BY <3>2, <4>1, <4>2, SweepTakesExpired
      <3> QED BY <2>0, <2>3, <2>4, <3>2, <3>4, SweepTakesExpired
    <2>5. CASE /\ ~Expired(windows[k], now) /\ windows[k].count < Limit
               /\ windows' = [windows EXCEPT ![k].count = @ + 1]
               /\ Pass(k)
      <3>1. windows[k] # NoWindow
        BY <2>0, <2>5, <1>0 DEF Expired, NoWindow
      <3> DEFINE v == [windows[k] EXCEPT !.count = @ + 1]
      <3>2. v \in Windows /\ KeyOK(v, more, n + 1, time)
        <4> HIDE DEF more, n, calls
        <4> QED BY <1>0, <2>0, <2>1, <2>2, <2>5, <3>1, KeyCounts
      <3>3. windows' = [windows EXCEPT ![k] = v]
        BY <2>5
      <3> HIDE DEF v, more
      <3>4. ASSUME NEW o \in Keys PROVE KeyOK(windows'[o], allowed'[o], Len(allowed'[o]), time)
        <4>1. CASE o = k
          BY <2>1, <2>3, <2>5, <3>2, <3>3, <4>1
        <4>2. CASE o # k
          BY <2>3, <2>5, <3>3, <4>2
        <4> QED BY <4>1, <4>2
      <3> QED BY <2>0, <2>3, <2>5, <3>2, <3>3, <3>4
    <2>6. CASE UNCHANGED <<windows, allowed>>
      BY <2>0, <2>6
    <2> QED BY <1>3, <2>4, <2>5, <2>6 DEF TryConsume
  <1> QED BY <1>1, <1>2, <1>3 DEF LimiterNext

\* However late the instants of its calls and whatever a sweep forgets, a key gets
\* through twice the limit at most in any stretch (RateLimiter.tryConsume, sweep).
THEOREM LimiterBurstIsBounded == LimiterSpec => []BurstIsBounded
  <1>1. LimiterInv => BurstIsBounded
    <2> SUFFICES ASSUME LimiterInv, NEW k \in Keys, NEW i \in DOMAIN allowed[k],
                        NEW j \in DOMAIN allowed[k], j >= i + 2 * Limit
                 PROVE  allowed[k][j] >= allowed[k][i] + WindowMs - Lag
      BY DEF BurstIsBounded
    <2>1. /\ allowed[k][i] \in Nat
          /\ i \in 1 .. Len(allowed[k]) /\ j \in 1 .. Len(allowed[k])
      BY CallsAreInstants DEF LimiterInv, LimiterTypeOK
    <2>2. allowed[k][j] >= allowed[k][i] + Stretch
      BY <2>1 DEF LimiterInv, KeyOK, Spread
    <2> QED BY <2>1, <2>2, WindowNumbers
  <1> QED
    BY <1>1, LimiterStarts, LimiterStep, PTL DEF LimiterSpec

-------------------------------------------------------------------------------
(***************************************************************************)
(* The judge.  VerdictsAreEarned speaks of verdicts; what is inductive is  *)
(* that whatever a driver wrote about a test, in the batch's directory or  *)
(* in its retry's, is what the program does on that test or that it did    *)
(* not run, and that a retry in flight is of the test whose verdict is     *)
(* next.                                                                   *)
(***************************************************************************)
SaidOf(t) == {Unrun, "unfed", job.program[t]} \ {"fill"}

RunnerInv ==
  /\ RunnerTypeOK
  /\ feeder.at \in {"write", "rename"} => feeder.test < N
  /\ host.at = "idle" => container = NoContainer /\ results = <<>> /\ \A t \in Tests : meta[t] = Unrun
  /\ \A t \in Tests : input[t] # "partial" /\ meta[t] \in SaidOf(t)
  /\ container.reads \in {Unrun, job.program[container.test]}
  /\ container.kind = "retry" =>
       /\ host.at = "retry" /\ container.test = Current
       /\ container.wrote \in SaidOf(container.test)
  /\ VerdictsAreEarned

LEMMA RunnerStarts == RunnerInit => RunnerInv
  BY RunnerAssumption, EmptySeq DEF RunnerInit, RunnerInv, RunnerTypeOK, NoJob, NoContainer, Tests, Deeds,
     Unrun, SaidOf, VerdictsAreEarned, Current

\* The job of a started judge is fixed, and its program says something of each test.
LEMMA ProgramsAreTyped ==
  ASSUME RunnerTypeOK
  PROVE  /\ job.program \in [Tests -> Deeds]
         /\ \A t \in Tests : SaidOf(t) \subseteq Deeds \union {"unfed", Unrun}
  BY RunnerAssumption DEF RunnerTypeOK, Jobs, NoJob, SaidOf, Tests, Deeds

\* One more mishap, or none.
LEMMA MishapsAreTyped ==
  ASSUME RunnerTypeOK,
         \/ Calm
         \/ \E kind \in {"refused", "killed", "late", "unplaced", "ceiling"} : Mishap(kind)
  PROVE  mishaps' \in [count : 0 .. MaxMishaps,
                      kinds : SUBSET {"refused", "killed", "late", "unplaced", "ceiling"}]
  BY RunnerAssumption DEF RunnerTypeOK, Calm, Mishap

\* Who may go wrong, and what a container can be.
MishapKinds == {"refused", "killed", "late", "unplaced", "ceiling"}

Containers ==
  [kind : {"none", "build", "batch", "retry"}, at : {"compile", "wait", "run", "exited"},
   test : Tests, reads : Deeds \union {Unrun}, wrote : Deeds \union {"unfed", Unrun},
   failed : BOOLEAN, oom : BOOLEAN, disk : BOOLEAN, timedOut : BOOLEAN, untold : BOOLEAN]

\* A test's end leaves a container.
LEMMA ContainersStayTyped ==
  ASSUME NEW c \in Containers, NEW wrote \in Deeds \union {"unfed", Unrun},
         NEW at \in {"exited", "wait"}, NEW test \in Tests, NEW oom \in BOOLEAN, NEW untold \in BOOLEAN
  PROVE  [c EXCEPT !.wrote = wrote, !.reads = Unrun, !.at = at, !.test = test, !.oom = oom,
                   !.untold = untold] \in Containers
  BY DEF Containers

\* The driver's steps move the container and what it wrote.
LEMMA DriverSteps ==
  ASSUME RunnerInv, Driver \/ Killed
  PROVE  RunnerInv'
  <1>0. /\ job.program \in [Tests -> Deeds] /\ container \in Containers
        /\ \A t \in Tests : SaidOf(t) \subseteq Deeds \union {"unfed", Unrun}
        /\ meta \in [Tests -> Deeds \union {"unfed", Unrun}]
        /\ \A t \in Tests : meta[t] \in SaidOf(t)
        /\ \A t \in Tests : input[t] \in {"absent", "whole"}
        /\ container.reads \in {Unrun, job.program[container.test]}
        /\ container.kind = "retry" => container.wrote \in SaidOf(container.test)
    BY ProgramsAreTyped DEF RunnerInv, RunnerTypeOK, Containers
  <1>1. /\ DriverLeavesHost /\ container.at # "exited"
        /\ Calm \/ \E kind \in MishapKinds : Mishap(kind)
    <2>1. CASE Compiles \/ SeesInput \/ ProgramEnds \/ ContainerDies
      BY <2>1 DEF Compiles, SeesInput, ProgramEnds, ContainerDies
    <2>2. CASE DriverGivesUp
      BY <2>2 DEF DriverGivesUp, MishapKinds
    <2>3. CASE Backstop
      BY <2>3 DEF Backstop, Runs
    <2>4. CASE Killed
      BY <2>4 DEF Killed, MishapKinds
    <2> QED
      BY <2>1, <2>2, <2>3, <2>4 DEF Driver
  <1>2. mishaps' \in [count : 0 .. MaxMishaps, kinds : SUBSET MishapKinds]
    BY <1>1, MishapsAreTyped DEF RunnerInv, MishapKinds
  <1>3. host.at # "idle"
    <2>1. NoContainer.at = "exited"
      BY DEF NoContainer
    <2> QED
      BY <1>1, <2>1 DEF RunnerInv
  <1> SUFFICES
        /\ container' \in Containers
        /\ meta' \in [Tests -> Deeds \union {"unfed", Unrun}]
        /\ \A t \in Tests : meta'[t] \in SaidOf(t)
        /\ container'.reads \in {Unrun, job.program[container'.test]}
        /\ container'.kind = container.kind
        /\ container.kind = "retry" =>
             container'.test = container.test /\ container'.wrote \in SaidOf(container.test)
    BY <1>1, <1>2, <1>3
       DEF DriverLeavesHost, RunnerInv, RunnerTypeOK, SaidOf, VerdictsAreEarned, Current, Containers,
           MishapKinds
  <1>4. CASE Compiles
    <2>1. (~job.compiles) \in BOOLEAN
      OBVIOUS
    <2> QED
      BY <1>0, <1>4, <2>1 DEF Compiles, Containers
  <1>5. CASE SeesInput
    <2>1. PICK deed \in {job.program[container.test]} :
            container' = [container EXCEPT !.at = "run", !.reads = deed]
      BY <1>0, <1>5 DEF SeesInput, Containers
    <2>2. UNCHANGED meta
      BY <1>5 DEF SeesInput
    <2> QED
      BY <1>0, <2>1, <2>2 DEF Containers
  <1>6. CASE ProgramEnds \/ DriverGivesUp
    <2>1. PICK outcome \in SaidOf(container.test) : WritesMeta(outcome)
      BY <1>0, <1>6 DEF ProgramEnds, DriverGivesUp, SaidOf
    <2> DEFINE last == container.kind = "retry" \/ container.test = N
               at == IF last THEN "exited" ELSE "wait"
               test == IF last THEN container.test ELSE container.test + 1
               oom == container.oom \/ outcome = "hog"
               untold == container.untold \/ outcome = "unfed"
               over == [container EXCEPT !.wrote = outcome, !.reads = Unrun, !.at = at,
                                         !.test = test, !.oom = oom, !.untold = untold]
    <2>2. container' = over
      BY <2>1 DEF WritesMeta
    <2>3. outcome \in Deeds \union {"unfed", Unrun} /\ container.test \in Tests
      BY <1>0 DEF Containers
    <2>4. ~last => container.test + 1 \in Tests
      BY <2>3, RunnerAssumption DEF Tests
    <2>5. over \in Containers
      <3>1. /\ at \in {"exited", "wait"} /\ test \in Tests /\ oom \in BOOLEAN /\ untold \in BOOLEAN
        BY <2>3, <2>4
      <3> HIDE DEF at, test, oom, untold
      <3> QED
        BY <1>0, <2>3, <3>1, ContainersStayTyped
    <2>6. /\ over.reads = Unrun /\ over.kind = container.kind /\ over.wrote = outcome
          /\ container.kind = "retry" => over.test = container.test
      BY <1>0 DEF Containers
    <2>7. meta' \in [Tests -> Deeds \union {"unfed", Unrun}] /\ \A t \in Tests : meta'[t] \in SaidOf(t)
      BY <1>0, <2>1, <2>3 DEF WritesMeta
    <2> HIDE DEF over, last
    <2> QED
      BY <2>1, <2>2, <2>5, <2>6, <2>7
  <1>7. CASE ContainerDies
    BY <1>0, <1>7 DEF ContainerDies, Containers
  <1>8. CASE Backstop
    BY <1>0, <1>8 DEF Backstop, Containers
  <1>9. CASE Killed
    <2> DEFINE failed == container.failed \/ container.kind = "build"
               untold == container.untold \/ container.reads \in Long
    <2>1. PICK oom \in BOOLEAN :
            container' = [container EXCEPT
              !.at = "exited", !.oom = oom, !.failed = failed, !.untold = untold]
      BY <1>0, <1>9 DEF Killed, Containers
    <2>3. failed \in BOOLEAN /\ untold \in BOOLEAN
      OBVIOUS
    <2>2. UNCHANGED meta
      BY <1>9 DEF Killed
    <2> HIDE DEF failed, untold
    <2> QED
      BY <1>0, <2>1, <2>2, <2>3 DEF Containers
  <1> QED
    BY <1>4, <1>5, <1>6, <1>7, <1>8, <1>9 DEF Driver

\* The feeder moves itself and what lies in /in, and leaves nothing half written.
LEMMA FeederSteps ==
  ASSUME RunnerInv, Feeder \/ FeederTires
  PROVE  RunnerInv'
  <1>0. /\ feeder \in [at : {"off", "watch", "write", "rename", "done"}, test : Tests, tired : BOOLEAN]
        /\ input \in [Tests -> {"absent", "partial", "whole"}] /\ \A t \in Tests : input[t] # "partial"
        /\ feeder.at \in {"write", "rename"} => feeder.test < N
    BY DEF RunnerInv, RunnerTypeOK
  <1>1. FeederLeavesHost /\ (Calm \/ \E kind \in MishapKinds : Mishap(kind))
    <2>1. CASE FeederStops \/ FeederTakesAway
      BY <2>1 DEF FeederStops, FeederTakesAway
    <2>2. CASE FeederPlaces \/ FeederTires
      BY <2>2 DEF FeederPlaces, FeederTires, MishapKinds
    <2> QED
      BY <2>1, <2>2 DEF Feeder
  <1>2. mishaps' \in [count : 0 .. MaxMishaps, kinds : SUBSET MishapKinds]
    BY <1>1, MishapsAreTyped DEF RunnerInv, MishapKinds
  <1> SUFFICES
        /\ feeder' \in [at : {"off", "watch", "write", "rename", "done"}, test : Tests, tired : BOOLEAN]
        /\ input' \in [Tests -> {"absent", "partial", "whole"}] /\ \A t \in Tests : input'[t] # "partial"
        /\ feeder'.at \in {"write", "rename"} => feeder'.test < N
    BY <1>1, <1>2
       DEF FeederLeavesHost, RunnerInv, RunnerTypeOK, SaidOf, VerdictsAreEarned, Current, MishapKinds
  <1>3. CASE FeederStops
    BY <1>0, <1>3 DEF FeederStops
  <1>4. CASE FeederTakesAway
    <2>1. feeder.test # N => feeder.test < N
      BY <1>0, RunnerAssumption DEF Tests
    <2> QED
      BY <1>0, <1>4, <2>1 DEF FeederTakesAway
  <1>5. CASE FeederPlaces
    <2>1. feeder.at \in {"write", "rename"} => feeder.test + 1 \in Tests
      BY <1>0, RunnerAssumption DEF Tests
    <2>2. /\ input' \in [Tests -> {"absent", "partial", "whole"}]
          /\ \A t \in Tests : input'[t] # "partial"
      BY <1>0, <1>5, <2>1 DEF FeederPlaces, WritesPartial, Renames
    <2>3. \/ feeder.at = "write" /\ feeder' = [feeder EXCEPT !.at = "rename"]
          \/ /\ feeder.at \in {"write", "rename"}
             /\ feeder' = [feeder EXCEPT !.at = "watch", !.test = @ + 1]
      BY <1>5 DEF FeederPlaces
    <2> QED
      BY <1>0, <2>1, <2>2, <2>3
  <1>6. CASE FeederTires
    BY <1>0, <1>6 DEF FeederTires
  <1> QED
    BY <1>3, <1>4, <1>5, <1>6 DEF Feeder

\* What starts is a container of that kind, on that test, which wrote nothing yet.
LEMMA ContainersStart ==
  ASSUME NEW kind \in {"build", "batch", "retry"}, NEW t \in Tests, RunInContainer(kind, t)
  PROVE  /\ container' \in Containers
         /\ container'.kind = kind /\ container'.test = t
         /\ container'.reads = Unrun /\ container'.wrote = Unrun
         /\ Calm \/ Mishap("refused")
  <1>1. PICK at \in {"compile", "wait"} :
          LET started == [NoContainer EXCEPT !.kind = kind, !.test = t, !.at = at]
          IN \/ container' = started /\ Calm
             \/ /\ container' = [started EXCEPT !.at = "exited", !.failed = kind = "build"]
                /\ Mishap("refused")
    BY DEF RunInContainer
  <1> QED
    BY <1>1, RunnerAssumption DEF NoContainer, Containers, Tests

\* Only what ran and was right is accepted, only what ran and was wrong is WA.
LEMMA VerdictsFollowOutcomes ==
  ASSUME NEW outcome, NEW run
  PROVE  /\ VerdictFor(outcome, run) \in {"AC", "WA", "TLE", "MLE", "RE"}
         /\ VerdictFor(outcome, run) = "AC" => outcome = "right"
         /\ VerdictFor(outcome, run) = "WA" =>
              outcome \notin {"crash", "hog", "unfed", Unrun, "right", "late"}
  BY DEF VerdictFor

\* One more verdict, from what was written about its test.
LEMMA VerdictIsAdded ==
  ASSUME RunnerInv, Current <= N, job' = job,
         NEW outcome \in SaidOf(Current), NEW run,
         results' = Append(results, VerdictFor(outcome, run))
  PROVE  /\ results' \in Seq({"AC", "WA", "TLE", "MLE", "RE"}) /\ Len(results') <= N
         /\ VerdictsAreEarned'
  <1> DEFINE verdict == VerdictFor(outcome, run)
  <1>1. results \in Seq({"AC", "WA", "TLE", "MLE", "RE"}) /\ Current \in Tests
    BY RunnerAssumption DEF RunnerInv, RunnerTypeOK, Current, Tests
  <1>2. verdict \in {"AC", "WA", "TLE", "MLE", "RE"}
    BY VerdictsFollowOutcomes
  <1>3. /\ verdict = "AC" => job.program[Current] = "right"
        /\ verdict = "WA" => job.program[Current] = "wrong"
    <2>1. job.program[Current] \in Deeds
      BY <1>1, ProgramsAreTyped DEF RunnerInv
    <2>2. verdict = "AC" => outcome = "right"
      BY VerdictsFollowOutcomes
    <2>3. verdict = "WA" => outcome \notin {"crash", "hog", "unfed", Unrun, "right", "late"}
      BY VerdictsFollowOutcomes
    <2> HIDE DEF verdict
    <2> QED
      BY <2>1, <2>2, <2>3 DEF SaidOf, Deeds, Unrun
  <1> HIDE DEF verdict
  <1>4. results' = Append(results, verdict)
    BY DEF verdict
  <1>5. /\ results' \in Seq({"AC", "WA", "TLE", "MLE", "RE"}) /\ Len(results') = Current
        /\ \A t \in 1 .. Len(results) : results'[t] = results[t]
        /\ results'[Current] = verdict
    BY <1>1, <1>2, <1>4 DEF Current
  <1>6. VerdictsAreEarned'
    <2> SUFFICES ASSUME NEW t \in 1 .. Current
                 PROVE  /\ results'[t] = "AC" => job.program[t] = "right"
                        /\ results'[t] = "WA" => job.program[t] = "wrong"
      BY <1>5 DEF VerdictsAreEarned
    <2>1. CASE t = Current
      BY <1>3, <1>5, <2>1
    <2>2. CASE t # Current
      <3>1. t \in 1 .. Len(results)
        BY <1>1, <2>2 DEF Current
      <3> QED
        BY <1>5, <3>1 DEF RunnerInv, VerdictsAreEarned
    <2> QED
      BY <2>1, <2>2
  <1> QED
    BY <1>1, <1>5, <1>6 DEF Current

\* The judge's steps, from the queue to its answer.
LEMMA JudgeSteps ==
  ASSUME RunnerInv, Judge
  PROVE  RunnerInv'
  <1> DEFINE Sound(c) ==
        /\ c \in Containers /\ c.reads \in {Unrun, job.program[c.test]}
        /\ c.kind = "retry" => c.test = Current /\ c.wrote \in SaidOf(c.test)
  <1>0. /\ job.program \in [Tests -> Deeds] /\ 1 \in Tests /\ Sound(container)
        /\ Current \in Nat /\ input \in [Tests -> {"absent", "partial", "whole"}]
        /\ \A t \in Tests : input[t] # "partial"
    BY ProgramsAreTyped, RunnerAssumption DEF RunnerInv, RunnerTypeOK, Containers, Current, Tests
  <1>1. Sound(NoContainer) /\ NoContainer.kind = "none"
    BY <1>0 DEF NoContainer, Containers
  \* Everything but the results, the containers and the stage they belong to.
  <1> SUFFICES
        /\ host.at # "idle" /\ job' = job /\ meta' = meta
        /\ Calm \/ \E kind \in MishapKinds : Mishap(kind)
        /\ host' \in [at : {"build", "building", "launch", "batch", "join", "collect", "retry",
                            "returned", "threw"},
                      says : {"nothing", "CE", "tests"}]
        /\ feeder' = feeder \/ feeder' = [feeder EXCEPT !.at = "watch"]
        /\ input' \in [Tests -> {"absent", "partial", "whole"}] /\ \A t \in Tests : input'[t] # "partial"
        /\ batch' \in [oom : BOOLEAN, disk : BOOLEAN, timedOut : BOOLEAN, failed : BOOLEAN,
                       credible : BOOLEAN]
        /\ results' \in Seq({"AC", "WA", "TLE", "MLE", "RE"}) /\ Len(results') <= N
        /\ VerdictsAreEarned'
        /\ Sound(container)' /\ (container'.kind = "retry" => host'.at = "retry")
    <2>1. mishaps' \in [count : 0 .. MaxMishaps, kinds : SUBSET MishapKinds]
      BY MishapsAreTyped DEF RunnerInv, MishapKinds
    <2>2. feeder' \in [at : {"off", "watch", "write", "rename", "done"}, test : Tests, tired : BOOLEAN]
      BY DEF RunnerInv, RunnerTypeOK
    <2> QED
      BY <2>1, <2>2 DEF RunnerInv, RunnerTypeOK, Containers, SaidOf, MishapKinds
  <1>2. /\ results \in Seq({"AC", "WA", "TLE", "MLE", "RE"}) /\ Len(results) <= N
        /\ VerdictsAreEarned
        /\ host \in [at : {"idle", "build", "building", "launch", "batch", "join", "collect", "retry",
                           "returned", "threw"},
                     says : {"nothing", "CE", "tests"}]
        /\ batch \in [oom : BOOLEAN, disk : BOOLEAN, timedOut : BOOLEAN, failed : BOOLEAN,
                      credible : BOOLEAN]
        /\ container.kind = "retry" => host.at = "retry"
    BY DEF RunnerInv, RunnerTypeOK
  <1>3. results' = results /\ job' = job => VerdictsAreEarned'
    BY <1>2 DEF VerdictsAreEarned
  <1>4. ASSUME NEW kind \in {"build", "batch", "retry"}, NEW t \in Tests, RunInContainer(kind, t),
               kind = "retry" => t = Current, results' = results, job' = job
        PROVE  /\ Sound(container)' /\ container'.kind = kind
               /\ Calm \/ \E k \in MishapKinds : Mishap(k)
    <2>1. Unrun \in SaidOf(t)'
      BY DEF SaidOf, Unrun
    <2> QED
      BY <1>4, <2>1, ContainersStart DEF MishapKinds, Current
  <1>5. CASE Build
    BY <1>0, <1>2, <1>3, <1>4, <1>5 DEF Build, Goes
  <1>6. CASE BuildEnds
    BY <1>0, <1>1, <1>2, <1>3, <1>6 DEF BuildEnds, SaidOf, Current
  <1>7. CASE Launch
    <2>1. CASE Throws
      BY <1>0, <1>2, <1>3, <1>7, <2>1 DEF Launch, Throws, Goes, MishapKinds, SaidOf, Current
    <2>2. CASE ~Throws
      BY <1>0, <1>2, <1>3, <1>4, <1>7, <2>2 DEF Launch, Goes
    <2> QED
      BY <2>1, <2>2
  <1>8. CASE BatchExits
    <2>1. batch' \in [oom : BOOLEAN, disk : BOOLEAN, timedOut : BOOLEAN, failed : BOOLEAN,
                      credible : BOOLEAN]
      <3>1. /\ container.oom \in BOOLEAN /\ container.disk \in BOOLEAN
            /\ container.timedOut \in BOOLEAN /\ container.failed \in BOOLEAN
        BY <1>0 DEF Containers
      <3>2. PICK credible \in BOOLEAN :
              batch' = [oom |-> container.oom, disk |-> container.disk,
                        timedOut |-> container.timedOut, failed |-> container.failed,
                        credible |-> credible]
        BY <1>8 DEF BatchExits
      <3> QED
        BY <3>1, <3>2
    <2> QED
      BY <1>0, <1>1, <1>2, <1>3, <1>8, <2>1 DEF BatchExits, Goes, SaidOf, Current
  <1>9. CASE JoinFeeder
    BY <1>0, <1>2, <1>3, <1>9 DEF JoinFeeder, SaidOf, Current
  <1>10. CASE Collect
    <2>1. meta[Current] \in SaidOf(Current) /\ Current <= N
      <3>1. Current \in Tests
        BY <1>2, <1>10, RunnerAssumption DEF Collect, Current, Tests
      <3> QED
        BY <3>1, <1>10 DEF Collect, RunnerInv
    <2>2. /\ results' \in Seq({"AC", "WA", "TLE", "MLE", "RE"}) /\ Len(results') <= N
          /\ VerdictsAreEarned'
      BY <1>10, <2>1, VerdictIsAdded DEF Collect
    <2> QED
      BY <1>0, <1>2, <1>10, <2>2 DEF Collect, SaidOf
  <1>11. CASE Retry
    <2>1. Current \in Tests
      BY <1>0, <1>11, RunnerAssumption DEF Retry, Tests, Current
    <2>2. CASE Throws
      BY <1>0, <1>2, <1>3, <1>11, <2>2 DEF Retry, Throws, Goes, MishapKinds, SaidOf, Current
    <2>3. CASE ~Throws
      BY <1>0, <1>2, <1>3, <1>4, <1>11, <2>1, <2>3 DEF Retry, Goes
    <2> QED
      BY <2>2, <2>3
  <1>12. CASE RetryEnds
    <2>1. container.kind = "retry" /\ container.test = Current /\ Current <= N
      BY <1>0, <1>12 DEF RetryEnds, Exited, Containers, Tests
    <2>2. PICK outcome \in SaidOf(Current) :
            \E run : results' = Append(results, VerdictFor(outcome, run))
      BY <1>0, <1>12, <2>1 DEF RetryEnds, FallbackVerdict, SaidOf, Unrun
    <2>3. /\ results' \in Seq({"AC", "WA", "TLE", "MLE", "RE"}) /\ Len(results') <= N
          /\ VerdictsAreEarned'
      BY <1>12, <2>1, <2>2, VerdictIsAdded DEF RetryEnds
    <2> QED
      BY <1>0, <1>1, <1>2, <1>12, <2>3 DEF RetryEnds, Goes, SaidOf
  <1>13. CASE ReturnsResults
    BY <1>0, <1>2, <1>3, <1>13 DEF ReturnsResults, SaidOf, Current
  <1> QED
    BY <1>5, <1>6, <1>7, <1>8, <1>9, <1>10, <1>11, <1>12, <1>13 DEF Judge

\* The strengthening is inductive.
LEMMA RunnerInvAlways == RunnerSpec => []RunnerInv
  <1>1. RunnerInv /\ [RunnerNext]_runnerVars => RunnerInv'
    <2> SUFFICES ASSUME RunnerInv, [RunnerNext]_runnerVars PROVE RunnerInv'
      OBVIOUS
    <2>1. CASE Accept
      <3>1. job' \in Jobs
        BY <2>1 DEF Accept
      <3> QED
        BY <2>1, <3>1 DEF Accept, RunnerInv, RunnerTypeOK, Goes, Calm, SaidOf, VerdictsAreEarned,
           NoContainer, Current, Unrun
    <2>2. CASE UNCHANGED runnerVars
      BY <2>2 DEF runnerVars, RunnerInv, RunnerTypeOK, SaidOf, VerdictsAreEarned, Current
    <2> QED
      BY <2>1, <2>2, DriverSteps, FeederSteps, JudgeSteps DEF RunnerNext
  <1> QED
    BY <1>1, RunnerStarts, PTL DEF RunnerSpec

\* Every state of the judge, its containers and its feeder is of its type.
THEOREM RunnerTypeCorrect == RunnerSpec => []RunnerTypeOK
  BY RunnerInvAlways, PTL DEF RunnerInv

\* A test is accepted, or called wrong, only for what the program did with the
\* whole of that test's input, for any program, any number of tests and whatever
\* goes wrong (placeInput's rename, .meta by ordinal, results in order).
THEOREM VerdictsAreAlwaysEarned == RunnerSpec => []VerdictsAreEarned
  BY RunnerInvAlways, PTL DEF RunnerInv
-------------------------------------------------------------------------------
(***************************************************************************)
(* A container that is taken away.  As long as nothing worse happens than  *)
(* one kill, and the program respects its limits, the batch's .meta files  *)
(* are the tests' outcomes and nothing in them is for want of input: the   *)
(* feeder is never past a test the driver waits for.  A test without one   *)
(* was cut off by the kill, and its retry is not disturbed again.  The     *)
(* judge doubts the batch's times only if it was cut off in a long test.   *)
(***************************************************************************)
Mild ==
  /\ job.compiles /\ \A t \in Tests : job.program[t] \notin {"hog", "fill"}
  /\ mishaps.count <= 1 /\ mishaps.kinds \subseteq {"killed"}

CleanEnd == ~batch.oom /\ ~batch.disk /\ ~batch.timedOut /\ ~batch.failed

\* Containers say nothing of themselves, but a build that was killed; only a batch
\* that was cut off in a long test has time that is told nowhere.
QuietContainer ==
  /\ ~container.oom /\ ~container.disk /\ ~container.timedOut
  /\ container.untold => container.at = "exited" /\ (container.kind = "batch" => CutInLong)
  /\ container.failed => container.kind = "build"
  /\ container.kind = "none" => container.at = "exited"
  /\ container.kind = "build" => container.at \in {"compile", "exited"}
  /\ container.at = "run" => container.reads # Unrun
  /\ container.wrote # "unfed"
  /\ CleanEnd /\ (~batch.credible => CutInLong)

NoneUnfed == ~feeder.tired /\ \A t \in Tests : meta[t] # "unfed"

BeforeBatch ==
  host.at \in {"idle", "build", "building", "launch"} =>
    /\ feeder.at = "off" /\ feeder.test = 1 /\ results = <<>> /\ batch.credible
    /\ \A t \in Tests : meta[t] = Unrun

AllAnsweredOrCut == mishaps.count > 0 \/ \A t \in Tests : meta[t] # Unrun

\* The tests before the container's have run, and the feeder is not past it.
Keeps ==
  /\ \A t \in Tests : meta[t] # Unrun <=> t < container.test
  /\ feeder.at \in {"watch", "write", "rename"}
  /\ feeder.at = "watch" => feeder.test <= container.test /\ input[feeder.test] = "whole"
  /\ feeder.at # "watch" => feeder.test < container.test

InBatch ==
  container.kind = "batch" =>
    /\ host.at = "batch" /\ results = <<>> /\ batch.credible
    /\ container.at = "exited" => AllAnsweredOrCut
    /\ container.at # "exited" => Keeps

AfterBatch ==
  /\ host.at \in {"join", "collect", "retry"} => AllAnsweredOrCut
  /\ host.at \in {"collect", "retry"} => feeder.at = "done"

InRetry ==
  container.kind = "retry" =>
    /\ mishaps.count > 0
    /\ IF container.at = "exited" THEN container.wrote # Unrun
       ELSE input[container.test] = "whole"

InStep == NoneUnfed /\ BeforeBatch /\ InBatch /\ AfterBatch /\ InRetry

Disbelieved(t) == results[t] = "TLE" /\ meta[t] # Unrun /\ CutInLong

RightIsAccepted ==
  \A t \in 1 .. Len(results) :
    job.program[t] = "right" => results[t] = "AC" \/ Disbelieved(t)

MildInv ==
  /\ RunnerInv
  /\ Mild \/ host.at = "idle" => QuietContainer /\ InStep /\ RightIsAccepted

\* Where the batch was cut off is in its files.
LEMMA CutStands ==
  ASSUME UNCHANGED <<job, meta>>
  PROVE  /\ CutInLong' = CutInLong
         /\ UNCHANGED results => (RightIsAccepted => RightIsAccepted')
  BY DEF CutInLong, CutOff, RightIsAccepted, Disbelieved

LEMMA MildStarts == RunnerInit => MildInv
  <1> SUFFICES ASSUME RunnerInit PROVE QuietContainer /\ InStep /\ RightIsAccepted
    BY RunnerStarts DEF MildInv
  <1> QED
    BY RunnerAssumption, EmptySeq
       DEF RunnerInit, NoContainer, QuietContainer, CleanEnd, InStep, NoneUnfed, BeforeBatch, InBatch,
           AfterBatch, InRetry, RightIsAccepted, Tests, Unrun

\* What is mild after a step was mild before it, and only a first kill is.
LEMMA MildBefore ==
  ASSUME RunnerInv, job' = job, Mild', Calm \/ \E kind \in MishapKinds : Mishap(kind)
  PROVE  /\ Mild /\ mishaps.count \in Nat /\ mishaps'.count \in Nat
         /\ mishaps'.count >= mishaps.count
         /\ \A kind : Mishap(kind) =>
              kind = "killed" /\ mishaps.count = 0 /\ mishaps'.count = 1
  <1>1. mishaps.count \in Nat /\ MaxMishaps \in Nat
    BY RunnerAssumption DEF RunnerInv, RunnerTypeOK
  <1>2. CASE Calm
    <2>1. mishaps' = mishaps
      BY <1>2 DEF Calm
    <2>2. ASSUME NEW kind, Mishap(kind) PROVE FALSE
      BY <1>1, <2>1, <2>2 DEF Mishap
    <2> QED
      BY <1>1, <2>1, <2>2 DEF Mild
  <1>3. ASSUME NEW kind \in MishapKinds, Mishap(kind)
        PROVE  /\ Mild /\ mishaps'.count = mishaps.count + 1
               /\ \A other : Mishap(other) => other = "killed"
    <2>1. mishaps' = [count |-> mishaps.count + 1, kinds |-> mishaps.kinds \union {kind}]
      BY <1>3 DEF Mishap
    <2>2. mishaps'.count = mishaps.count + 1 /\ mishaps'.kinds = mishaps.kinds \union {kind}
      BY <2>1
    <2>3. ASSUME NEW other, Mishap(other) PROVE other = "killed"
      <3>1. mishaps' = [count |-> mishaps.count + 1, kinds |-> mishaps.kinds \union {other}]
        BY <2>3 DEF Mishap
      <3>2. other \in mishaps'.kinds
        BY <3>1
      <3> QED
        BY <3>2 DEF Mild
    <2> QED
      BY <1>1, <2>2, <2>3 DEF Mild
  <1> QED
    BY <1>1, <1>2, <1>3 DEF Mild

\* A driver's step, or a kill, is of a running container.
LEMMA DriverMoves ==
  ASSUME Driver \/ Killed
  PROVE  /\ DriverLeavesHost /\ container.at # "exited"
         /\ Calm \/ \E kind \in MishapKinds : Mishap(kind)
  <1>1. CASE Compiles
    BY <1>1 DEF Compiles
  <1>2. CASE SeesInput
    BY <1>2 DEF SeesInput
  <1>3. CASE ProgramEnds
    BY <1>3 DEF ProgramEnds
  <1>4. CASE ContainerDies
    BY <1>4 DEF ContainerDies
  <1>5. CASE DriverGivesUp
    <2>1. Calm \/ Mishap("late")
      BY <1>5 DEF DriverGivesUp
    <2>2. container.at = "wait" /\ DriverLeavesHost
      BY <1>5 DEF DriverGivesUp
    <2> QED
      BY <2>1, <2>2 DEF MishapKinds
  <1>6. CASE Backstop
    BY <1>6 DEF Backstop, Runs
  <1>7. CASE Killed
    <2>1. container.at # "exited" /\ Mishap("killed") /\ DriverLeavesHost
      BY <1>7 DEF Killed
    <2> QED
      BY <2>1 DEF MishapKinds
  <1> QED
    BY <1>1, <1>2, <1>3, <1>4, <1>5, <1>6, <1>7 DEF Driver

\* The driver, and whoever takes its container away.
LEMMA DriverStaysMild ==
  ASSUME MildInv, Driver \/ Killed, Mild'
  PROVE  QuietContainer' /\ InStep' /\ RightIsAccepted'
  <1>0. /\ DriverLeavesHost /\ container.at # "exited"
        /\ Calm \/ \E kind \in MishapKinds : Mishap(kind)
    BY DriverMoves
  <1>1. /\ RunnerInv /\ Mild /\ QuietContainer /\ InStep /\ RightIsAccepted
        /\ mishaps.count \in Nat /\ mishaps'.count \in Nat /\ mishaps'.count >= mishaps.count
        /\ \A kind : Mishap(kind) =>
             kind = "killed" /\ mishaps.count = 0 /\ mishaps'.count = 1
    BY <1>0, MildBefore DEF MildInv, DriverLeavesHost
  <1>2. /\ job.program \in [Tests -> Deeds] /\ container \in Containers /\ container.test \in Tests
        /\ feeder.test \in Tests /\ feeder.at \in {"off", "watch", "write", "rename", "done"}
        /\ meta \in [Tests -> Deeds \union {"unfed", Unrun}]
        /\ \A t \in Tests : input[t] \in {"absent", "whole"}
        /\ container.reads \in {Unrun, job.program[container.test]}
        /\ job.program[container.test] \in Deeds \ {"hog", "fill"}
        /\ Tests = 1 .. N /\ N \in Nat
    BY <1>1, ProgramsAreTyped, RunnerAssumption DEF RunnerInv, RunnerTypeOK, Containers, Mild, Tests
  <1>3. UNCHANGED <<job, host, feeder, input, batch, results>>
    BY <1>0 DEF DriverLeavesHost
  <1>4. UNCHANGED meta => RightIsAccepted' /\ CutInLong' = CutInLong
    BY <1>1, <1>3, CutStands
  <1>5. /\ NoneUnfed /\ BeforeBatch /\ InBatch /\ AfterBatch /\ InRetry
    BY <1>1 DEF InStep
  \* The steps that leave the files alone: what they leave of the container.
  <1> DEFINE Tame ==
        /\ UNCHANGED meta /\ container'.kind = container.kind /\ container'.test = container.test
        /\ ~container'.oom /\ ~container'.disk /\ ~container'.timedOut
        /\ container'.untold =>
             container'.at = "exited" /\ (container.kind = "batch" => CutInLong)
        /\ container'.failed => container.kind = "build"
        /\ container.kind = "none" => container'.at = "exited"
        /\ container.kind = "build" => container'.at \in {"compile", "exited"}
        /\ container'.at = "run" => container'.reads # Unrun
        /\ container'.wrote = container.wrote
        /\ container'.at = "exited" =>
             container.kind = "build" \/ (container.kind = "batch" /\ mishaps'.count > 0)
  <1>6. ASSUME Tame
        PROVE  QuietContainer' /\ InStep' /\ RightIsAccepted'
    <2>1. QuietContainer'
      BY <1>1, <1>3, <1>4, <1>6 DEF QuietContainer, CleanEnd
    <2>2. NoneUnfed' /\ BeforeBatch'
      BY <1>3, <1>5, <1>6 DEF NoneUnfed, BeforeBatch
    <2>3. AllAnsweredOrCut => AllAnsweredOrCut'
      BY <1>1, <1>6 DEF AllAnsweredOrCut
    <2>4. AfterBatch'
      BY <1>3, <1>5, <2>3 DEF AfterBatch
    <2>5. Keeps => Keeps'
      BY <1>3, <1>6 DEF Keeps
    <2>6. InBatch'
      <3>1. container'.at = "exited" /\ container.kind = "batch" => AllAnsweredOrCut'
        BY <1>6 DEF AllAnsweredOrCut
      <3> QED
        BY <1>0, <1>3, <1>5, <1>6, <2>5, <3>1 DEF InBatch
    <2>7. InRetry'
      BY <1>0, <1>1, <1>3, <1>5, <1>6 DEF InRetry
    <2> QED
      BY <1>4, <1>6, <2>1, <2>2, <2>4, <2>6, <2>7 DEF InStep
  <1>7. CASE Compiles
    <2>1. job.compiles = TRUE
      BY <1>1 DEF Mild, RunnerInv, RunnerTypeOK, Jobs, NoJob
    <2>2. /\ container' = [container EXCEPT
               !.at = IF container.kind = "build" THEN "exited" ELSE "wait", !.failed = FALSE]
          /\ UNCHANGED meta
      BY <1>7, <2>1 DEF Compiles
    <2>3. /\ container'.kind = container.kind /\ container'.test = container.test
          /\ container.kind = "build" => container'.at = "exited"
          /\ container.kind # "build" => container'.at = "wait"
          /\ ~container'.failed /\ container'.wrote = container.wrote
          /\ container'.oom = container.oom /\ container'.disk = container.disk
          /\ container'.timedOut = container.timedOut /\ container'.untold = container.untold
      BY <1>2, <2>2 DEF Containers
    <2>4. container.kind # "none"
      BY <1>0, <1>1 DEF QuietContainer
    <2>5. Tame
      BY <1>0, <1>1, <2>2, <2>3, <2>4 DEF QuietContainer
    <2> QED
      BY <1>6, <2>5
  <1>8. CASE SeesInput
    <2>1. /\ container' = [container EXCEPT !.at = "run", !.reads = job.program[container.test]]
          /\ container.at = "wait" /\ UNCHANGED meta
      BY <1>2, <1>8 DEF SeesInput
    <2>2. job.program[container.test] # Unrun
      BY <1>2 DEF Deeds, Unrun
    <2>3. /\ container'.kind = container.kind /\ container'.test = container.test
          /\ container'.at = "run" /\ container'.reads # Unrun
          /\ container'.failed = container.failed /\ container'.wrote = container.wrote
          /\ container'.oom = container.oom /\ container'.disk = container.disk
          /\ container'.timedOut = container.timedOut /\ container'.untold = container.untold
      BY <1>2, <2>1, <2>2 DEF Containers
    <2>4. Tame
      BY <1>0, <1>1, <2>1, <2>3 DEF QuietContainer
    <2> QED
      BY <1>6, <2>4
  <1>9. CASE ProgramEnds
    <2> DEFINE outcome == job.program[container.test]
               last == container.kind = "retry" \/ container.test = N
    <2>1. /\ container.reads = outcome /\ WritesMeta(outcome)
          /\ outcome \notin {"hog", "fill", "unfed", Unrun}
          /\ container.kind \in {"batch", "retry"} /\ Calm /\ container.at = "run"
      BY <1>1, <1>2, <1>9 DEF ProgramEnds, QuietContainer, Deeds, Unrun, Containers
    <2>2. /\ container'.kind = container.kind
          /\ container'.at = IF last THEN "exited" ELSE "wait"
          /\ container'.test = IF last THEN container.test ELSE container.test + 1
          /\ container'.wrote = outcome /\ ~container'.oom /\ ~container'.untold
          /\ container'.failed = container.failed /\ container'.disk = container.disk
          /\ container'.timedOut = container.timedOut
      <3> HIDE DEF outcome
      <3> QED
        BY <1>1, <1>2, <2>1 DEF WritesMeta, Containers, QuietContainer
    <2>3. \A t \in Tests :
            meta'[t] = IF container.kind = "batch" /\ t = container.test THEN outcome ELSE meta[t]
      BY <1>2, <2>1 DEF WritesMeta
    <2> HIDE DEF outcome
    <2>4. container.kind = "retry" => UNCHANGED meta
      BY <2>1 DEF WritesMeta
    <2>9. QuietContainer'
      <3>1. ~batch.credible => container.kind = "retry" /\ CutInLong
        BY <1>1, <1>5, <2>1 DEF QuietContainer, InBatch
      <3> QED
        BY <1>1, <1>3, <1>4, <2>1, <2>2, <2>4, <3>1 DEF QuietContainer, CleanEnd
    <2>10. RightIsAccepted'
      <3>1. CASE container.kind = "retry"
        BY <1>4, <2>4, <3>1
      <3>2. CASE container.kind = "batch"
        <4>1. Len(results') = 0
          BY <1>3, <1>5, <3>2, EmptySeq DEF InBatch
        <4> QED
          BY <4>1 DEF RightIsAccepted
      <3> QED
        BY <2>1, <3>1, <3>2
    <2>5. NoneUnfed'
      BY <1>3, <1>5, <2>1, <2>3 DEF NoneUnfed
    <2>6. InRetry'
      BY <1>1, <1>3, <1>5, <2>1, <2>2 DEF InRetry, Unrun
    <2>7. CASE container.kind = "retry"
      <3>1. \A t \in Tests : meta'[t] = meta[t]
        BY <2>3, <2>7
      <3>2. BeforeBatch'
        BY <1>3, <1>5, <3>1 DEF BeforeBatch
      <3>3. AfterBatch'
        BY <1>1, <1>3, <1>5, <3>1 DEF AfterBatch, AllAnsweredOrCut
      <3>4. InBatch'
        BY <2>2, <2>7 DEF InBatch
      <3> QED
        BY <2>5, <2>6, <2>9, <2>10, <3>2, <3>3, <3>4 DEF InStep
    <2>8. CASE container.kind = "batch"
      <3>1. host.at = "batch" /\ Keeps
        BY <1>0, <1>5, <2>8 DEF InBatch
      <3>2. BeforeBatch' /\ AfterBatch'
        BY <1>3, <3>1 DEF BeforeBatch, AfterBatch
      <3>3. \A t \in Tests : meta'[t] # Unrun <=> t < container.test + 1
        BY <1>2, <2>1, <2>3, <2>8, <3>1 DEF Keeps
      <3>4. ASSUME container.test = N PROVE InBatch'
        <4>1. \A t \in Tests : meta'[t] # Unrun
          BY <1>2, <3>3, <3>4
        <4> QED
          BY <1>3, <1>5, <2>2, <2>8, <3>1, <3>4, <4>1 DEF InBatch, AllAnsweredOrCut
      <3>5. ASSUME container.test # N PROVE InBatch'
        <4>1. container'.test = container.test + 1 /\ container'.at = "wait"
          BY <2>2, <2>8, <3>5
        <4>2. Keeps'
          BY <1>2, <1>3, <3>1, <3>3, <4>1 DEF Keeps
        <4> QED
          BY <1>3, <1>5, <2>8, <3>1, <4>1, <4>2 DEF InBatch
      <3> QED
        BY <2>5, <2>6, <2>9, <2>10, <3>2, <3>4, <3>5 DEF InStep
    <2> QED
      BY <2>1, <2>7, <2>8
  <1>10. CASE ContainerDies
    BY <1>1, <1>2, <1>10 DEF ContainerDies, QuietContainer
  <1>11. CASE DriverGivesUp
    <2>1. /\ container.at = "wait" /\ input[container.test] = "absent"
          /\ FeederIsPast(container.test)
      BY <1>1, <1>11 DEF DriverGivesUp
    <2>2. container.kind \in {"batch", "retry"}
      BY <1>1, <1>2, <2>1 DEF QuietContainer, Containers
    <2>3. CASE container.kind = "retry"
      BY <1>5, <2>1, <2>3 DEF InRetry
    <2>4. CASE container.kind = "batch"
      <3>1. /\ feeder.at \in {"watch", "write", "rename"}
            /\ feeder.at = "watch" => feeder.test <= container.test /\ input[feeder.test] = "whole"
        BY <1>5, <2>1, <2>4 DEF InBatch, Keeps
      <3>2. feeder.at = "watch" /\ feeder.test = container.test
        BY <1>2, <2>1, <3>1 DEF FeederIsPast
      <3> QED
        BY <2>1, <3>1, <3>2
    <2> QED
      BY <2>2, <2>3, <2>4
  <1>12. CASE Backstop
    BY <1>1, <1>12 DEF Backstop, Runs, QuietContainer
  <1>13. CASE Killed
    <2>1. UNCHANGED meta /\ Mishap("killed")
      BY <1>13 DEF Killed
    <2>2. mishaps.count = 0 /\ mishaps'.count = 1
      BY <1>1, <2>1
    <2>3. PICK oom \in {FALSE, container.oom} :
            container' = [container EXCEPT
              !.at = "exited", !.oom = oom, !.failed = @ \/ container.kind = "build",
              !.untold = @ \/ container.reads \in Long]
      BY <1>13 DEF Killed
    <2>4. container.kind \in {"build", "batch"}
      BY <1>0, <1>1, <1>2, <1>5, <2>2 DEF InRetry, QuietContainer, Containers
    <2>5. ~oom /\ container' = [container EXCEPT
              !.at = "exited", !.oom = oom, !.failed = container.failed \/ container.kind = "build",
              !.untold = container.untold \/ container.reads \in Long]
      BY <1>1, <1>2, <2>3 DEF QuietContainer, Containers
    <2>6. /\ container'.kind = container.kind /\ container'.test = container.test
          /\ container'.at = "exited"
          /\ container'.failed => container.failed \/ container.kind = "build"
          /\ container'.wrote = container.wrote
          /\ ~container'.oom /\ container'.disk = container.disk
          /\ container'.timedOut = container.timedOut
          /\ container'.untold => container.untold \/ container.reads \in Long
      BY <1>2, <2>5 DEF Containers
    \* The test it was on is the one the batch was cut off in.
    <2>7. container.kind = "batch" /\ container.reads \in Long => CutInLong
      <3>1. Unrun \notin Long
        BY DEF Long, Deeds, Unrun
      <3> SUFFICES ASSUME container.kind = "batch", container.reads \in Long
                   PROVE  CutOff(container.test) /\ job.program[container.test] \in Long
        BY <1>2 DEF CutInLong
      <3> QED
        BY <1>0, <1>2, <1>5, <3>1 DEF InBatch, Keeps, CutOff
    <2>8. Tame
      BY <1>0, <1>1, <2>1, <2>2, <2>4, <2>6, <2>7 DEF QuietContainer
    <2> QED
      BY <1>6, <2>8
  <1> QED
    BY <1>7, <1>8, <1>9, <1>10, <1>11, <1>12, <1>13 DEF Driver

\* The feeder never gets ahead of the driver.
LEMMA FeederStaysMild ==
  ASSUME MildInv, Feeder \/ FeederTires, Mild'
  PROVE  QuietContainer' /\ InStep' /\ RightIsAccepted'
  <1>0. /\ FeederLeavesHost
        /\ Calm \/ \E kind \in MishapKinds : Mishap(kind)
    <2>1. CASE FeederStops
      BY <2>1 DEF FeederStops
    <2>2. CASE FeederTakesAway
      BY <2>2 DEF FeederTakesAway
    <2>3. CASE FeederPlaces
      <3>1. FeederLeavesHost /\ (Calm \/ Mishap("unplaced"))
        BY <2>3 DEF FeederPlaces
      <3> QED
        BY <3>1 DEF MishapKinds
    <2>4. CASE FeederTires
      <3>1. FeederLeavesHost /\ Mishap("ceiling")
        BY <2>4 DEF FeederTires
      <3> QED
        BY <3>1 DEF MishapKinds
    <2> QED
      BY <2>1, <2>2, <2>3, <2>4 DEF Feeder
  <1>1. /\ RunnerInv /\ Mild /\ QuietContainer /\ InStep /\ RightIsAccepted
        /\ mishaps.count \in Nat /\ mishaps'.count \in Nat /\ mishaps'.count >= mishaps.count
        /\ \A kind : Mishap(kind) =>
             kind = "killed" /\ mishaps.count = 0 /\ mishaps'.count = 1
    BY <1>0, MildBefore DEF MildInv, FeederLeavesHost
  <1>2. UNCHANGED <<job, host, container, meta, batch, results>>
    BY <1>0 DEF FeederLeavesHost
  <1>3. QuietContainer' /\ RightIsAccepted'
    BY <1>1, <1>2, CutStands DEF QuietContainer, CleanEnd
  <1>4. /\ feeder \in [at : {"off", "watch", "write", "rename", "done"}, test : Tests, tired : BOOLEAN]
        /\ input \in [Tests -> {"absent", "partial", "whole"}]
        /\ feeder.at \in {"write", "rename"} => feeder.test < N
        /\ container.test \in Tests /\ Tests = 1 .. N /\ N \in Nat
        /\ container.kind = "retry" => host.at = "retry"
    BY <1>1, RunnerAssumption DEF RunnerInv, RunnerTypeOK, Tests
  <1>5. NoneUnfed /\ BeforeBatch /\ InBatch /\ AfterBatch /\ InRetry
    BY <1>1 DEF InStep
  <1>6. AllAnsweredOrCut => AllAnsweredOrCut'
    BY <1>1, <1>2 DEF AllAnsweredOrCut
  <1>7. CASE FeederStops
    <2>1. host.at = "join" /\ feeder'.at = "done" /\ feeder'.tired = feeder.tired
      BY <1>4, <1>7 DEF FeederStops, Stopped
    <2>2. container.kind # "batch" /\ container.kind # "retry"
      BY <1>4, <1>5, <2>1 DEF InBatch
    <2> QED
      BY <1>2, <1>3, <1>5, <1>6, <2>1, <2>2
         DEF InStep, NoneUnfed, BeforeBatch, InBatch, AfterBatch, InRetry
  \* While it watches or places, the batch is on, or the judge has gone.
  <1>8. feeder.at \in {"watch", "write", "rename"} =>
          /\ host.at \notin {"idle", "build", "building", "launch", "collect", "retry"}
          /\ container.kind # "retry"
    BY <1>4, <1>5 DEF BeforeBatch, AfterBatch
  <1>9. ASSUME feeder.at \in {"watch", "write", "rename"}, feeder'.tired = feeder.tired,
               Keeps => Keeps'
        PROVE  InStep'
    <2>1. NoneUnfed' /\ BeforeBatch' /\ AfterBatch' /\ InRetry'
      BY <1>2, <1>5, <1>6, <1>8, <1>9 DEF NoneUnfed, BeforeBatch, AfterBatch, InRetry
    <2>2. InBatch'
      BY <1>2, <1>5, <1>6, <1>9 DEF InBatch
    <2> QED
      BY <2>1, <2>2 DEF InStep
  <1>10. CASE FeederTakesAway
    <2>1. /\ feeder.at = "watch" /\ meta[feeder.test] # Unrun
          /\ feeder'.test = feeder.test /\ feeder'.tired = feeder.tired
          /\ feeder'.at = IF feeder.test = N THEN "done" ELSE "write"
      BY <1>4, <1>5, <1>10 DEF FeederTakesAway, NoneUnfed
    <2>2. ASSUME Keeps PROVE Keeps'
      <3>1. feeder.test < container.test /\ feeder.test # N
        BY <1>4, <2>1, <2>2 DEF Keeps
      <3> QED
        BY <1>2, <1>4, <2>1, <2>2, <3>1 DEF Keeps
    <2> QED
      BY <1>3, <1>9, <2>1, <2>2
  <1>11. CASE FeederPlaces
    <2>1. /\ feeder.at \in {"write", "rename"} /\ feeder'.tired = feeder.tired
          /\ \/ feeder'.at = "rename" /\ feeder'.test = feeder.test
             \/ /\ feeder'.at = "watch" /\ feeder'.test = feeder.test + 1
                /\ input'[feeder.test + 1] = "whole"
      <3>1. ~Mishap("unplaced")
        BY <1>1
      <3>2. CASE feeder.at = "write" /\ feeder' = [feeder EXCEPT !.at = "rename"]
        BY <1>4, <3>2
      <3>3. CASE /\ feeder.at = "rename" /\ input' = [input EXCEPT ![feeder.test + 1] = "whole"]
                 /\ feeder' = [feeder EXCEPT !.at = "watch", !.test = @ + 1]
        <4>1. feeder.test + 1 \in Tests
          BY <1>4, <3>3
        <4> QED
          BY <1>4, <3>3, <4>1
      <3> QED
        BY <1>11, <3>1, <3>2, <3>3 DEF FeederPlaces, Renames
    <2>2. ASSUME Keeps PROVE Keeps'
      BY <1>2, <1>4, <2>1, <2>2 DEF Keeps
    <2> QED
      BY <1>3, <1>9, <2>1, <2>2
  <1>12. CASE FeederTires
    BY <1>1, <1>12 DEF FeederTires
  <1> QED
    BY <1>7, <1>10, <1>11, <1>12 DEF Feeder

\* A container that is started, and not refused, runs.
LEMMA StartsQuietly ==
  ASSUME NEW kind, NEW t, RunInContainer(kind, t), ~Mishap("refused")
  PROVE  /\ Calm /\ container'.kind = kind /\ container'.test = t
         /\ container'.at = IF kind = "build" \/ job.variant = "checked" THEN "compile" ELSE "wait"
         /\ ~container'.oom /\ ~container'.disk /\ ~container'.timedOut /\ ~container'.untold
         /\ ~container'.failed /\ container'.wrote = Unrun
  BY DEF RunInContainer, NoContainer

\* What is right and was recorded is accepted, unless its time is not believed.
LEMMA RightIsAdded ==
  ASSUME RunnerInv, RightIsAccepted, UNCHANGED <<job, meta>>, Current <= N,
         NEW outcome \in SaidOf(Current), outcome \notin {"unfed", Unrun},
         NEW run, ~run.oom, ~run.disk,
         run.timedOut => meta[Current] # Unrun /\ CutInLong,
         results' = Append(results, VerdictFor(outcome, run))
  PROVE  RightIsAccepted'
  <1>1. results \in Seq({"AC", "WA", "TLE", "MLE", "RE"})
    BY DEF RunnerInv, RunnerTypeOK
  <1>2. job.program[Current] = "right" =>
          VerdictFor(outcome, run) = IF run.timedOut THEN "TLE" ELSE "AC"
    BY DEF SaidOf, VerdictFor, Unrun
  <1> DEFINE verdict == VerdictFor(outcome, run)
  <1>3. verdict \in {"AC", "WA", "TLE", "MLE", "RE"} /\ results' = Append(results, verdict)
    BY VerdictsFollowOutcomes
  <1> HIDE DEF verdict
  <1>4. /\ Len(results') = Current
        /\ \A t \in 1 .. Len(results) : results'[t] = results[t]
        /\ results'[Current] = verdict
    BY <1>1, <1>3 DEF Current
  <1>7. CutInLong' = CutInLong
    BY CutStands
  <1> SUFFICES ASSUME NEW t \in 1 .. Current, job.program[t] = "right"
               PROVE  results'[t] = "AC" \/ (results'[t] = "TLE" /\ meta[t] # Unrun /\ CutInLong)
    BY <1>4, <1>7 DEF RightIsAccepted, Disbelieved
  <1>5. CASE t = Current
    BY <1>2, <1>4, <1>5 DEF verdict
  <1>6. CASE t # Current
    <2>1. t \in 1 .. Len(results)
      BY <1>1, <1>6 DEF Current
    <2> QED
      BY <1>4, <2>1 DEF RightIsAccepted, Disbelieved
  <1> QED
    BY <1>5, <1>6

\* A judge's step is calm or goes wrong.
LEMMA JudgeMayFail ==
  ASSUME RunnerInv, Judge
  PROVE  /\ job' = job /\ meta' = meta /\ (Calm \/ \E kind \in MishapKinds : Mishap(kind))
         /\ host.at # "idle"
  <1>1. ASSUME NEW kind \in {"build", "batch", "retry"}, NEW t \in Tests, RunInContainer(kind, t)
        PROVE  Calm \/ \E k \in MishapKinds : Mishap(k)
    BY <1>1, ContainersStart DEF MishapKinds
  <1>2. 1 \in Tests /\ Current \in Nat /\ Tests = 1 .. N
    BY RunnerAssumption DEF RunnerInv, RunnerTypeOK, Current, Tests
  <1>3. Throws => \E k \in MishapKinds : Mishap(k)
    BY DEF Throws, MishapKinds
  <1>4. CASE Build
    BY <1>1, <1>2, <1>4 DEF Build
  <1>5. CASE Launch
    BY <1>1, <1>2, <1>3, <1>5 DEF Launch
  <1>6. CASE Retry
    <2>1. Current \in Tests
      BY <1>2, <1>6, RunnerAssumption DEF Retry, Current
    <2> QED
      BY <1>1, <1>3, <1>6, <2>1 DEF Retry
  <1>7. CASE BuildEnds
    BY <1>7 DEF BuildEnds
  <1>8. CASE BatchExits
    BY <1>8 DEF BatchExits
  <1>9. CASE JoinFeeder
    BY <1>9 DEF JoinFeeder
  <1>10. CASE Collect
    BY <1>10 DEF Collect
  <1>11. CASE RetryEnds
    BY <1>11 DEF RetryEnds
  <1>12. CASE ReturnsResults
    BY <1>12 DEF ReturnsResults
  <1> QED
    BY <1>4, <1>5, <1>6, <1>7, <1>8, <1>9, <1>10, <1>11, <1>12 DEF Judge

\* The judge: what was cut off it runs again, and nothing disturbs that.
LEMMA JudgeStaysMild ==
  ASSUME MildInv, Judge, Mild'
  PROVE  QuietContainer' /\ InStep' /\ RightIsAccepted'
  <1>1. /\ RunnerInv /\ Mild /\ QuietContainer /\ InStep /\ RightIsAccepted
        /\ \A kind \in {"refused", "unplaced"} : ~Mishap(kind)
        /\ ~Throws /\ job' = job /\ meta' = meta
    <2>1. \A kind : Mishap(kind) => kind = "killed"
      BY MildBefore, JudgeMayFail DEF MildInv
    <2> QED
      BY <2>1, MildBefore, JudgeMayFail DEF MildInv, Throws
  <1>2. /\ 1 \in Tests /\ Tests = 1 .. N /\ N \in Nat /\ Current \in Nat \ {0}
        /\ feeder \in [at : {"off", "watch", "write", "rename", "done"}, test : Tests, tired : BOOLEAN]
        /\ input \in [Tests -> {"absent", "partial", "whole"}]
        /\ \A t \in Tests : meta[t] \in SaidOf(t)
        /\ container.kind = "retry" =>
             container.test = Current /\ container.wrote \in SaidOf(Current) /\ host.at = "retry"
        /\ host \in [at : {"idle", "build", "building", "launch", "batch", "join", "collect", "retry",
                           "returned", "threw"},
                     says : {"nothing", "CE", "tests"}]
    BY <1>1, RunnerAssumption DEF RunnerInv, RunnerTypeOK, Tests, Current
  <1>3. NoneUnfed /\ BeforeBatch /\ InBatch /\ AfterBatch /\ InRetry
    BY <1>1 DEF InStep
  <1>4. (UNCHANGED results => RightIsAccepted') /\ CutInLong' = CutInLong
    BY <1>1, CutStands
  <1>5. feeder'.tired = feeder.tired => NoneUnfed'
    BY <1>1, <1>3 DEF NoneUnfed
  <1>6. Calm => (AllAnsweredOrCut => AllAnsweredOrCut')
    BY <1>1 DEF AllAnsweredOrCut, Calm
  <1>7. container' = NoContainer /\ CleanEnd' /\ (~batch'.credible => CutInLong)
          => QuietContainer' /\ InBatch' /\ InRetry'
    BY <1>4 DEF QuietContainer, NoContainer, InBatch, InRetry, Unrun
  <1>8. ASSUME NEW kind, NEW t, RunInContainer(kind, t), kind # "none", UNCHANGED batch
        PROVE  /\ QuietContainer' /\ Calm /\ container'.kind = kind /\ container'.test = t
               /\ container'.at # "exited"
    <2>1. /\ Calm /\ container'.kind = kind /\ container'.test = t
          /\ container'.at = IF kind = "build" \/ job.variant = "checked" THEN "compile" ELSE "wait"
          /\ ~container'.oom /\ ~container'.disk /\ ~container'.timedOut /\ ~container'.untold
          /\ ~container'.failed /\ container'.wrote = Unrun
      BY <1>1, <1>8, StartsQuietly
    <2> QED
      BY <1>1, <1>4, <1>8, <2>1 DEF QuietContainer, CleanEnd, Unrun
  <1>9. CASE Build
    <2>1. /\ host.at = "build" /\ host'.at = "building" /\ RunInContainer("build", 1)
          /\ UNCHANGED <<job, feeder, input, meta, batch, results>>
      BY <1>2, <1>9 DEF Build, Goes
    <2>2. QuietContainer' /\ container'.kind = "build"
      BY <1>8, <2>1
    <2>3. BeforeBatch' /\ InBatch' /\ AfterBatch' /\ InRetry'
      BY <1>3, <2>1, <2>2 DEF BeforeBatch, InBatch, AfterBatch, InRetry
    <2> QED
      BY <1>4, <1>5, <2>1, <2>2, <2>3 DEF InStep
  <1>10. CASE BuildEnds
    <2>1. /\ host.at = "building" /\ host'.at \in {"launch", "returned"} /\ container' = NoContainer
          /\ UNCHANGED <<job, feeder, input, meta, batch, results>>
      BY <1>2, <1>10 DEF BuildEnds
    <2>2. BeforeBatch' /\ AfterBatch'
      BY <1>3, <2>1 DEF BeforeBatch, AfterBatch
    <2>3. CleanEnd' /\ (~batch'.credible => CutInLong)
      BY <1>1, <2>1 DEF QuietContainer, CleanEnd
    <2> QED
      BY <1>4, <1>5, <1>7, <2>1, <2>2, <2>3 DEF InStep
  <1>11. CASE Launch
    <2>1. /\ host.at = "launch" /\ host'.at = "batch" /\ RunInContainer("batch", 1)
          /\ input' = [input EXCEPT ![1] = "whole"] /\ feeder' = [feeder EXCEPT !.at = "watch"]
          /\ UNCHANGED <<job, meta, batch, results>>
      BY <1>1, <1>2, <1>11 DEF Launch, Goes
    <2>2. /\ QuietContainer' /\ container'.kind = "batch" /\ container'.at # "exited"
          /\ container'.test = 1
      BY <1>8, <2>1
    <2>3. feeder'.at = "watch" /\ feeder'.test = 1 /\ feeder'.tired = feeder.tired /\ input'[1] = "whole"
      BY <1>2, <1>3, <2>1 DEF BeforeBatch
    <2>4. Keeps'
      BY <1>2, <1>3, <2>1, <2>2, <2>3 DEF Keeps, BeforeBatch
    <2>5. BeforeBatch' /\ InBatch' /\ AfterBatch' /\ InRetry'
      BY <1>3, <2>1, <2>2, <2>4 DEF BeforeBatch, InBatch, AfterBatch, InRetry
    <2> QED
      BY <1>4, <1>5, <2>1, <2>2, <2>3, <2>5 DEF InStep
  <1>12. CASE BatchExits
    <2>1. /\ host.at = "batch" /\ host'.at = "join" /\ Calm /\ container.kind = "batch"
          /\ container.at = "exited" /\ container' = NoContainer
          /\ UNCHANGED <<job, feeder, input, meta, results>>
      BY <1>2, <1>12 DEF BatchExits, Exited, Goes
    <2>2. CleanEnd' /\ (~batch'.credible => CutInLong)
      <3>1. PICK credible \in BOOLEAN :
              /\ ~container.untold => credible
              /\ batch' = [oom |-> container.oom, disk |-> container.disk,
                           timedOut |-> container.timedOut, failed |-> container.failed,
                           credible |-> credible]
        BY <1>12 DEF BatchExits
      <3>2. /\ ~container.oom /\ ~container.disk /\ ~container.timedOut /\ ~container.failed
            /\ ~credible => CutInLong
        BY <1>1, <2>1, <3>1 DEF QuietContainer
      <3> QED
        BY <3>1, <3>2 DEF CleanEnd
    <2>3. AllAnsweredOrCut'
      BY <1>3, <1>6, <2>1 DEF InBatch
    <2>4. BeforeBatch' /\ AfterBatch'
      BY <2>1, <2>3 DEF BeforeBatch, AfterBatch
    <2> QED
      BY <1>4, <1>5, <1>7, <2>1, <2>2, <2>4 DEF InStep
  <1>13. CASE JoinFeeder
    <2>1. /\ host.at = "join" /\ feeder.at = "done" /\ Calm
          /\ UNCHANGED <<job, container, feeder, input, meta, batch, results>>
      BY <1>13 DEF JoinFeeder
    <2>2. host'.at = "collect"
      BY <1>1, <1>2, <1>13 DEF JoinFeeder, QuietContainer, CleanEnd
    <2>3. container.kind \notin {"batch", "retry"}
      BY <1>2, <1>3, <2>1 DEF InBatch
    <2>4. BeforeBatch' /\ AfterBatch' /\ InBatch' /\ InRetry'
      BY <1>3, <1>6, <2>1, <2>2, <2>3 DEF BeforeBatch, AfterBatch, InBatch, InRetry
    <2>5. QuietContainer'
      BY <1>1, <1>4, <2>1 DEF QuietContainer, CleanEnd
    <2> QED
      BY <1>4, <1>5, <2>1, <2>4, <2>5 DEF InStep
  <1>14. CASE Collect
    <2>1. /\ host.at = "collect" /\ Current <= N /\ ~Unanswered /\ Calm
          /\ UNCHANGED <<job, host, container, feeder, input, meta, batch>>
      BY <1>14 DEF Collect
    <2>2. Current \in Tests /\ meta[Current] \in SaidOf(Current) /\ meta[Current] \notin {"unfed", Unrun}
      BY <1>2, <1>3, <2>1 DEF NoneUnfed, Unanswered
    <2> DEFINE run == [oom |-> batch.oom /\ Current = Len(results) + 1,
                       disk |-> batch.disk, timedOut |-> ~batch.credible]
    <2>3. ~run.oom /\ ~run.disk /\ (run.timedOut => meta[Current] # Unrun /\ CutInLong)
      BY <1>1, <2>2 DEF QuietContainer, CleanEnd
    <2>4. results' = Append(results, VerdictFor(meta[Current], run))
      BY <1>14 DEF Collect
    <2> HIDE DEF run
    <2>5. RightIsAccepted'
      BY <1>1, <2>1, <2>2, <2>3, <2>4, RightIsAdded
    <2>6. BeforeBatch' /\ AfterBatch' /\ InBatch' /\ InRetry'
      <3>1. container.kind \notin {"batch", "retry"}
        BY <1>2, <1>3, <2>1 DEF InBatch
      <3> QED
        BY <1>3, <1>6, <2>1, <3>1 DEF BeforeBatch, AfterBatch, InBatch, InRetry
    <2>7. QuietContainer'
      BY <1>1, <1>4, <2>1 DEF QuietContainer, CleanEnd
    <2> QED
      BY <1>5, <2>1, <2>5, <2>6, <2>7 DEF InStep
  <1>15. CASE Retry
    <2>1. /\ host.at = "collect" /\ Current <= N /\ Unanswered /\ host'.at = "retry"
          /\ input' = [input EXCEPT ![Current] = "whole"] /\ RunInContainer("retry", Current)
          /\ UNCHANGED <<job, feeder, meta, batch, results>>
      BY <1>1, <1>2, <1>15 DEF Retry, Goes
    <2>2. Current \in Tests /\ mishaps.count > 0
      BY <1>2, <1>3, <2>1 DEF AfterBatch, AllAnsweredOrCut, Unanswered
    <2>3. /\ QuietContainer' /\ Calm /\ container'.kind = "retry" /\ container'.at # "exited"
          /\ container'.test = Current
      BY <1>8, <2>1
    <2>4. input'[container'.test] = "whole" /\ mishaps'.count > 0
      BY <1>2, <2>1, <2>2, <2>3 DEF Calm
    <2>5. BeforeBatch' /\ AfterBatch' /\ InBatch' /\ InRetry'
      BY <1>3, <1>6, <2>1, <2>3, <2>4 DEF BeforeBatch, AfterBatch, InBatch, InRetry
    <2> QED
      BY <1>4, <1>5, <2>1, <2>3, <2>5 DEF InStep
  <1>16. CASE RetryEnds
    <2>1. /\ host.at = "retry" /\ host'.at = "collect" /\ Calm /\ container' = NoContainer
          /\ container.kind = "retry" /\ container.at = "exited"
          /\ UNCHANGED <<job, feeder, meta, batch>>
      BY <1>2, <1>16 DEF RetryEnds, Exited, Goes
    <2>2. /\ container.wrote \in SaidOf(Current) /\ container.wrote \notin {"unfed", Unrun}
          /\ Current <= N
      <3>1. container.test \in Tests
        BY <1>1 DEF RunnerInv, RunnerTypeOK
      <3> QED
        BY <1>1, <1>2, <1>3, <2>1, <3>1 DEF InRetry, QuietContainer
    <2> DEFINE run == [oom |-> FALSE, disk |-> FALSE, timedOut |-> FALSE]
    <2>3. ~run.oom /\ ~run.disk /\ ~run.timedOut
      OBVIOUS
    <2>4. results' = Append(results, VerdictFor(container.wrote, run))
      BY <1>16, <2>2 DEF RetryEnds
    <2> HIDE DEF run
    <2>5. RightIsAccepted'
      BY <1>1, <2>1, <2>2, <2>3, <2>4, RightIsAdded
    <2>6. BeforeBatch' /\ AfterBatch'
      BY <1>3, <1>6, <2>1 DEF BeforeBatch, AfterBatch
    <2>7. CleanEnd' /\ (~batch'.credible => CutInLong)
      BY <1>1, <2>1 DEF QuietContainer, CleanEnd
    <2> QED
      BY <1>5, <1>7, <2>1, <2>5, <2>6, <2>7 DEF InStep
  <1>17. CASE ReturnsResults
    <2>1. /\ host.at = "collect" /\ host'.at = "returned" /\ Calm
          /\ UNCHANGED <<job, container, feeder, input, meta, batch, results>>
      BY <1>17 DEF ReturnsResults
    <2>2. container.kind \notin {"batch", "retry"}
      BY <1>2, <1>3, <2>1 DEF InBatch
    <2>3. BeforeBatch' /\ AfterBatch' /\ InBatch' /\ InRetry'
      BY <2>1, <2>2 DEF BeforeBatch, AfterBatch, InBatch, InRetry
    <2>4. QuietContainer'
      BY <1>1, <1>4, <2>1 DEF QuietContainer, CleanEnd
    <2> QED
      BY <1>4, <1>5, <2>1, <2>3, <2>4 DEF InStep
  <1> QED
    BY <1>9, <1>10, <1>11, <1>12, <1>13, <1>14, <1>15, <1>16, <1>17 DEF Judge

\* A job that is taken finds everything as it was left for it.
LEMMA AcceptIsMild ==
  ASSUME MildInv, Accept
  PROVE  QuietContainer' /\ InStep' /\ RightIsAccepted'
  <1>1. /\ RunnerInv /\ host.at = "idle" /\ QuietContainer /\ InStep
        /\ host'.at \in {"build", "launch"} /\ Calm
        /\ UNCHANGED <<container, feeder, input, meta, batch, results>>
    BY DEF MildInv, Accept, Goes, RunnerInv, RunnerTypeOK
  <1>2. QuietContainer'
    BY <1>1 DEF QuietContainer, CleanEnd, InStep, BeforeBatch, RunnerInv, NoContainer
  <1>3. NoneUnfed /\ BeforeBatch /\ container.kind = "none"
    BY <1>1 DEF InStep, RunnerInv, NoContainer
  <1>4. NoneUnfed' /\ BeforeBatch' /\ InBatch' /\ AfterBatch' /\ InRetry'
    BY <1>1, <1>3 DEF NoneUnfed, BeforeBatch, InBatch, AfterBatch, InRetry
  <1>5. RightIsAccepted'
    BY <1>1, <1>3, EmptySeq DEF BeforeBatch, RightIsAccepted
  <1> QED
    BY <1>2, <1>4, <1>5 DEF InStep

\* Before a job is taken nobody moves, and no step leads back to there.
LEMMA NothingStirsBefore ==
  ASSUME MildInv, Judge \/ Driver \/ Feeder \/ FeederTires \/ Killed
  PROVE  host'.at # "idle"
  <1>1. host \in [at : {"idle", "build", "building", "launch", "batch", "join", "collect", "retry",
                       "returned", "threw"},
                 says : {"nothing", "CE", "tests"}]
    BY DEF MildInv, RunnerInv, RunnerTypeOK
  <1>2. CASE Judge
    <2>1. CASE \/ Build \/ Launch \/ BatchExits \/ RetryEnds
      BY <1>1, <2>1 DEF Build, Launch, BatchExits, RetryEnds, Throws, Goes
    <2>2. CASE BuildEnds
      BY <1>1, <2>2 DEF BuildEnds
    <2>3. CASE JoinFeeder \/ ReturnsResults
      BY <1>1, <2>3 DEF JoinFeeder, ReturnsResults
    <2>4. CASE Collect
      BY <2>4 DEF Collect
    <2>5. CASE Retry
      BY <1>1, <2>5 DEF Retry, Throws, Goes
    <2> QED
      BY <1>2, <2>1, <2>2, <2>3, <2>4, <2>5 DEF Judge
  <1>3. CASE Driver \/ Killed
    <2>1. DriverLeavesHost /\ container.at # "exited"
      BY <1>3, DriverMoves
    <2> QED
      BY <2>1 DEF DriverLeavesHost, MildInv, RunnerInv, NoContainer
  <1>4. CASE Feeder \/ FeederTires
    <2>1. host' = host /\ feeder.at # "off"
      BY <1>4 DEF Feeder, FeederStops, FeederTakesAway, FeederPlaces, FeederTires, FeederLeavesHost
    <2> QED
      BY <2>1 DEF MildInv, InStep, BeforeBatch
  <1> QED
    BY <1>2, <1>3, <1>4

LEMMA MildInvAlways == RunnerSpec => []MildInv
  <1>1. RunnerInv /\ MildInv /\ RunnerInv' /\ [RunnerNext]_runnerVars => MildInv'
    <2> SUFFICES ASSUME RunnerInv, MildInv, RunnerInv', [RunnerNext]_runnerVars
                 PROVE  Mild' \/ host'.at = "idle" =>
                          QuietContainer' /\ InStep' /\ RightIsAccepted'
      BY DEF MildInv
    <2>1. CASE UNCHANGED runnerVars
      BY <2>1 DEF runnerVars, MildInv, Mild, QuietContainer, CleanEnd, InStep, NoneUnfed, BeforeBatch,
         InBatch, Keeps, AllAnsweredOrCut, AfterBatch, InRetry, RightIsAccepted, Disbelieved,
         CutInLong, CutOff
    <2>2. CASE Accept
      BY <2>2, AcceptIsMild
    <2>3. CASE Judge \/ Driver \/ Feeder \/ FeederTires \/ Killed
      BY <2>3, NothingStirsBefore, JudgeStaysMild, DriverStaysMild, FeederStaysMild
    <2> QED
      BY <2>1, <2>2, <2>3 DEF RunnerNext
  <1> QED
    BY <1>1, MildStarts, RunnerInvAlways, PTL DEF RunnerSpec

\* A container that is taken away costs the tests it had not finished nothing, and
\* one it had finished nothing unless the batch's times are not believed for what
\* cut it off: for any program and any number of tests.  What has no .meta is run
\* again, alone, and nobody has taken its input (runSingleTest, "partial credit
\* survives"); what has one is read with selfReportedTimingIsCredible.
THEOREM DeathNeverCostsATest == RunnerSpec => []DeathCostsNoTest
  <1>1. MildInv => DeathCostsNoTest
    <2> SUFFICES ASSUME MildInv, NEW t \in 1 .. Len(results),
                        job.compiles, job.program[t] = "right", results[t] # "AC",
                        \A u \in Tests : job.program[u] \notin {"hog", "fill"},
                        ~(mishaps.count > 1), mishaps.kinds = {"killed"}
                 PROVE  results[t] = "TLE" /\ meta[t] # Unrun /\ CutInLong
      BY DEF DeathCostsNoTest
    <2>1. mishaps.count <= 1
      BY RunnerAssumption DEF MildInv, RunnerInv, RunnerTypeOK
    <2>2. RightIsAccepted
      BY <2>1 DEF MildInv, Mild
    <2> QED
      BY <2>2 DEF RightIsAccepted, Disbelieved
  <1> QED
    BY <1>1, MildInvAlways, PTL
===============================================================================
