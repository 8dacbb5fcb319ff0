------------------------------ MODULE Board_proofs -----------------------------
(***************************************************************************)
(* A contest's clock and its public board: for every set of plans, any     *)
(* number of requests, players, readers and loads, any score log, any time *)
(* to live.                                                                *)
(*                                                                         *)
(* A request of the clock acts on what it read before it had the lock.     *)
(* What makes that safe is that the two facts it rests on are stable: a    *)
(* due start stays due for as long as the contest is SCHEDULED, and a due  *)
(* end for as long as it runs, because the only move that changes a window *)
(* it could hold is a start, and nothing returns to a state before one.    *)
(*                                                                         *)
(* A cached input may be read in two queries with writes in between.  What *)
(* makes it whole again is that a write leaves an invalidation outstanding *)
(* and an invalidation leaves nothing cached, so a load that is cached     *)
(* while none is outstanding has seen every write that did; and that what  *)
(* does not invalidate changes no board: a move of the contest never puts  *)
(* one under way back, and the judge's IE, the latest revision of a log    *)
(* whose last answer counted for nothing, scores as that log did.          *)
(***************************************************************************)
EXTENDS Board, WellFoundedInduction, TLAPS

-------------------------------------------------------------------------------
\* The contest.

\* The window of a contest that has not started is still one of the plans.
WindowOK ==
  contest.state \in {"DRAFT", "SCHEDULED"} =>
    /\ contest.startsAt < contest.endsAt
    /\ contest.freezeAt # NoFreeze => contest.startsAt < contest.freezeAt

\* What the clock's request c saw is still true of the row.
SeenStart(c) ==
  /\ calls[c].only = "SCHEDULED"
  /\ contest.state # "DRAFT"
  /\ contest.state = "SCHEDULED" => contest.startsAt <= calls[c].now

SeenEnd(c) ==
  /\ calls[c].only \in {"RUNNING", "FROZEN"}
  /\ contest.state \in {"RUNNING", "FROZEN", "ENDED"}
  /\ contest.state # "ENDED" => contest.endsAt <= calls[c].now

ClockCallsOK ==
  \A c \in Callers :
    (calls[c].at = "lock" /\ calls[c].only # "any") =>
      \/ calls[c].next = "RUNNING" /\ SeenStart(c)
      \/ calls[c].next = "ENDED" /\ SeenEnd(c)

ContestInv == ContestTypeOK /\ WindowOK /\ ClockCallsOK

\* A contest starts as createContest leaves it, with no request under way.
LEMMA ContestInvInit == ContestInit => ContestInv
  BY PlansAssumption DEF ContestInit, ContestInv, ContestTypeOK, WindowOK, ClockCallsOK, Rows,
     States, Calls, NoCall, NoFreeze

\* The row setContestState leaves is well formed.
LEMMA MovedRow ==
  ASSUME ContestInv, NEW c \in Callers, SetContestState(c)
  PROVE  /\ contest' \in Rows
         /\ contest'.state \notin {"DRAFT", "SCHEDULED"} \/ contest'.startsAt = contest.startsAt
  <1> USE DEF ContestInv, ContestTypeOK
  <1>1. calls[c] \in Calls /\ contest \in Rows
    OBVIOUS
  <1>2. CASE ~MayMove(calls[c])
    BY <1>1, <1>2 DEF SetContestState
  <1>3. CASE MayMove(calls[c]) /\ calls[c].next = "SCHEDULED"
    BY <1>1, <1>3 DEF SetContestState, Rows, States
  <1>4. CASE MayMove(calls[c]) /\ calls[c].next = "RUNNING"
    <2>1. contest.state \in {"DRAFT", "SCHEDULED"}
      BY <1>1, <1>4 DEF MayMove, Allowed, Rows, States
    <2>2. contest' = Started(contest, calls[c].now)
      BY <1>4 DEF SetContestState
    <2> QED
      BY <1>1, <2>1, <2>2 DEF Started, WindowOK, Rows, States, Calls, NoFreeze
  <1>5. CASE MayMove(calls[c]) /\ calls[c].next \notin {"SCHEDULED", "RUNNING"}
    <2>1. contest' = Ended(contest, calls[c].now)
      BY <1>5 DEF SetContestState
    <2> QED
      BY <1>1, <2>1 DEF Ended, Rows, States, Calls, NoFreeze
  <1> QED
    BY <1>2, <1>3, <1>4, <1>5

\* A move leaves every other request of the clock with what it saw: a start
\* takes the row out of SCHEDULED, and an end is an end.
LEMMA MoveKeepsSeen ==
  ASSUME ContestInv, NEW c \in Callers, SetContestState(c)
  PROVE  WindowOK' /\ ClockCallsOK'
  <1> USE DEF ContestInv, ContestTypeOK
  <1>1. calls[c] \in Calls /\ contest \in Rows
    OBVIOUS
  <1>2. calls' = [calls EXCEPT ![c] = NoCall]
    BY DEF SetContestState, Return
  <1>3. SUFFICES ASSUME contest' # contest
                 PROVE  WindowOK' /\ ClockCallsOK'
    <2>1. CASE contest' = contest
      BY <1>2, <2>1 DEF WindowOK, ClockCallsOK, SeenStart, SeenEnd, NoCall
    <2> QED
      BY <2>1
  <1>4. MayMove(calls[c])
    BY <1>3 DEF SetContestState
  <1>5. CASE calls[c].next = "SCHEDULED"
    <2>1. contest.state = "DRAFT" /\ contest' = [contest EXCEPT !.state = "SCHEDULED"]
      BY <1>1, <1>4, <1>5 DEF SetContestState, MayMove, Allowed, Rows, States
    <2> QED
      BY <1>1, <1>2, <2>1 DEF WindowOK, ClockCallsOK, SeenStart, SeenEnd, NoCall, Rows
  <1>6. CASE calls[c].next = "RUNNING"
    <2>1. contest.state \in {"DRAFT", "SCHEDULED"} /\ contest'.state = "RUNNING"
      BY <1>1, <1>4, <1>6 DEF SetContestState, MayMove, Allowed, Rows, States, Started
    <2> QED
      BY <1>1, <1>2, <2>1 DEF WindowOK, ClockCallsOK, SeenStart, SeenEnd, NoCall
  <1>7. CASE calls[c].next \notin {"SCHEDULED", "RUNNING"}
    <2>1. contest' = Ended(contest, calls[c].now) /\ contest'.state = "ENDED"
      BY <1>1, <1>4, <1>7 DEF SetContestState, Ended, Rows
    <2>2. contest.state # "DRAFT"
      BY <1>1, <1>4, <1>7 DEF MayMove, Allowed, Rows, States, Calls
    <2> QED
      BY <1>1, <1>2, <2>1, <2>2 DEF WindowOK, ClockCallsOK, SeenStart, SeenEnd, NoCall
  <1> QED
    BY <1>5, <1>6, <1>7

\* What a poll reads it has seen.
LEMMA ReadKeepsInv ==
  ASSUME ContestInv, NEW c \in Callers, ReadContestRow(c)
  PROVE  ContestInv'
  <1> USE DEF ContestInv, ContestTypeOK
  <1>1. calls[c] \in Calls /\ contest \in Rows /\ UNCHANGED <<clock, contest, setup>>
    BY DEF ReadContestRow
  <1> DEFINE due(next) == [calls[c] EXCEPT !.at = "lock", !.next = next, !.only = contest.state]
  <1>2. CASE DueToStart(contest, calls[c].now) /\ calls' = [calls EXCEPT ![c] = due("RUNNING")]
    BY <1>1, <1>2 DEF DueToStart, WindowOK, ClockCallsOK, SeenStart, SeenEnd, Calls, Rows, States
  <1>3. CASE DueToEnd(contest, calls[c].now) /\ calls' = [calls EXCEPT ![c] = due("ENDED")]
    BY <1>1, <1>3 DEF DueToEnd, WindowOK, ClockCallsOK, SeenStart, SeenEnd, Calls, Rows, States
  <1>4. CASE calls' = [calls EXCEPT ![c] = NoCall]
    BY <1>1, <1>4 DEF WindowOK, ClockCallsOK, SeenStart, SeenEnd, Calls, NoCall, States
  <1> QED
    BY <1>2, <1>3, <1>4 DEF ReadContestRow, Return

\* Every step of the contest keeps the invariant.
LEMMA ContestInvStep ==
  ASSUME ContestInv, [ContestNext]_contestVars
  PROVE  ContestInv'
  <1> USE DEF ContestInv, ContestTypeOK
  <1>1. ASSUME NEW ready \in SUBSET {"lineUp", "sets"}, EditSetup(ready)
        PROVE  ContestInv'
    BY <1>1 DEF EditSetup, WindowOK, ClockCallsOK, SeenStart, SeenEnd
  <1>2. ASSUME NEW c \in Callers, NEW next \in {"SCHEDULED", "RUNNING", "ENDED"}, Press(c, next)
        PROVE  ContestInv'
    BY <1>2 DEF Press, WindowOK, ClockCallsOK, SeenStart, SeenEnd, Calls, States
  <1>3. ASSUME NEW c \in Callers, ScreenPolls(c)
        PROVE  ContestInv'
    <2> DEFINE polled == [NoCall EXCEPT !.at = "read", !.now = clock]
    <2>1. polled \in Calls /\ polled.at = "read" /\ polled.now = clock
      BY DEF Calls, NoCall, States
    <2>2. calls' = [calls EXCEPT ![c] = polled] /\ UNCHANGED <<clock, contest, setup>>
      BY <1>3 DEF ScreenPolls
    <2> HIDE DEF polled
    <2> QED
      BY <2>1, <2>2 DEF WindowOK, ClockCallsOK, SeenStart, SeenEnd
  <1>4. ASSUME NEW c \in Callers, ReadContestRow(c)
        PROVE  ContestInv'
    BY <1>4, ReadKeepsInv
  <1>5. ASSUME NEW c \in Callers, SetContestState(c)
        PROVE  ContestInv'
    <2>1. contest' \in Rows /\ WindowOK' /\ ClockCallsOK'
      BY <1>5, MovedRow, MoveKeepsSeen
    <2>2. UNCHANGED <<clock, setup>> /\ calls' = [calls EXCEPT ![c] = NoCall]
      BY <1>5 DEF SetContestState, Return
    <2> QED
      BY <2>1, <2>2 DEF Calls, NoCall, States
  <1>6. CASE Freeze
    BY <1>6 DEF Freeze, WindowOK, ClockCallsOK, SeenStart, SeenEnd, Rows, States
  <1>7. CASE Unfreeze
    BY <1>7 DEF Unfreeze, ScheduledFreezeIsActive, WindowOK, ClockCallsOK, SeenStart, SeenEnd,
       Rows, States, NoFreeze
  <1>8. CASE Tick
    BY <1>8 DEF Tick, WindowOK, ClockCallsOK, SeenStart, SeenEnd, Calls
  <1>9. CASE UNCHANGED contestVars
    BY <1>9 DEF contestVars, WindowOK, ClockCallsOK, SeenStart, SeenEnd
  <1> HIDE DEF ContestInv, ContestTypeOK
  <1> QED
    BY <1>1, <1>2, <1>3, <1>4, <1>5, <1>6, <1>7, <1>8, <1>9 DEF ContestNext, Serve

\* Whatever requests and organizers do, the row and the requests keep their
\* shape, and what the clock's requests saw stays true until they have the lock.
THEOREM ContestTypeCorrect == ContestSpec => []ContestTypeOK
  <1>1. ContestSpec => []ContestInv
    BY ContestInvInit, ContestInvStep, PTL DEF ContestSpec
  <1>2. ContestInv => ContestTypeOK
    BY DEF ContestInv
  <1> QED
    BY <1>1, <1>2, PTL

\* The invariant, named for the theorems below.
THEOREM ContestCorrect == ContestSpec => []ContestInv
  BY ContestInvInit, ContestInvStep, PTL DEF ContestSpec

\* reconcileContestClock never ends a contest before its stored end nor starts
\* one before its stored start, though it decides on a row and an instant it
\* read before it had the lock.
THEOREM ContestClockIsNeverEarly == ContestSpec => ClockIsNeverEarly
  <1> DEFINE NotEarly(c) ==
        calls[c].only # "any" =>
          /\ Moves(c, "ENDED") => contest.endsAt <= clock
          /\ Moves(c, "RUNNING") => contest.startsAt <= clock
  <1>1. ASSUME ContestInv, ContestInv', [ContestNext]_contestVars, NEW c \in Callers,
               calls[c].only # "any"
        PROVE  NotEarly(c)
    <2> USE DEF ContestInv, ContestTypeOK
    <2>1. calls[c] \in Calls /\ contest \in Rows /\ calls[c].now <= clock /\ clock \in Nat
      BY <1>1
    <2>2. ASSUME Moves(c, "ENDED")
          PROVE  contest.endsAt <= clock
      <3>1. SeenEnd(c) /\ contest.state # "ENDED"
        BY <1>1, <2>2 DEF Moves, ClockCallsOK
      <3> QED
        BY <2>1, <3>1 DEF SeenEnd, Rows, Calls
    <2>3. ASSUME Moves(c, "RUNNING")
          PROVE  contest.startsAt <= clock
      <3>1. SeenStart(c) /\ contest.state # "RUNNING" /\ contest'.state = "RUNNING"
        BY <1>1, <2>3 DEF Moves, ClockCallsOK
      <3>2. contest.state = "SCHEDULED"
        <4>1. calls'[c] # calls[c] /\ calls[c].at = "lock"
          BY <2>3, <2>1 DEF Moves, NoCall
        <4>2. SetContestState(c)
          BY <1>1, <2>1, <4>1, <3>1 DEF ContestNext, Serve, contestVars, EditSetup, Press, ScreenPolls,
             ReadContestRow, Return, SetContestState, Freeze, Unfreeze, Tick, NoCall
        <4> QED
          BY <4>2, <3>1, <2>1, <1>1 DEF SetContestState, MayMove, SeenStart, Started
      <3> QED
        BY <2>1, <3>1, <3>2 DEF SeenStart, Rows, Calls
    <2> QED
      BY <2>2, <2>3
  <1>2. ContestInv /\ ContestInv' /\ [ContestNext]_contestVars
          => [\A c \in Callers : NotEarly(c)]_contestVars
    BY <1>1
  <1> QED
    BY <1>2, ContestCorrect, PTL DEF ContestSpec, ClockIsNeverEarly

\* The cutoff of a frozen board is the one it froze at, until the reveal.
THEOREM ContestCutoffStands == ContestSpec => CutoffStands
  <1> DEFINE Stands ==
        contest.state \in {"RUNNING", "FROZEN"} /\ PublicBoardFrozen(contest', clock')
        => /\ contest.state = "FROZEN" => contest'.state = "FROZEN"
           /\ \/ contest'.freezeAt = contest.freezeAt
              \/ ~PublicBoardFrozen(contest, clock) /\ contest'.freezeAt = clock'
  <1>1. ASSUME ContestInv, ContestNext
        PROVE  Stands
    <2> USE DEF ContestInv, ContestTypeOK
    <2>1. CASE UNCHANGED contest
      BY <2>1
    <2>2. ASSUME NEW c \in Callers, SetContestState(c), contest' # contest
          PROVE  Stands
      <3>1. contest.state \in {"RUNNING", "FROZEN"} => contest'.state = "ENDED"
        BY <2>2 DEF SetContestState, MayMove, Allowed, Ended, Rows, Calls, States
      <3> QED
        BY <3>1 DEF PublicBoardFrozen
    <2>3. CASE Freeze
      BY <2>3 DEF Freeze, ScheduledFreezeIsActive, Rows
    <2>4. CASE Unfreeze
      BY <2>4 DEF Unfreeze, PublicBoardFrozen, Rows
    <2> QED
      BY <1>1, <2>1, <2>2, <2>3, <2>4 DEF ContestNext, EditSetup, Press, ScreenPolls, Serve, ReadContestRow, Tick
  <1>2. ContestInv /\ [ContestNext]_contestVars => [Stands]_contestVars
    BY <1>1
  <1> QED
    BY <1>2, ContestCorrect, PTL DEF ContestSpec, CutoffStands

-------------------------------------------------------------------------------
\* The board.

Logs == [Players -> Seq(Revisions)]

\* queryScoringInput's result, as far as it has come.
LoadRecords ==
  [stage : {"none", "contest"}]
  \union [stage : {"rows"}, contest : Rows, roster : [Players -> Entries]]
  \union [stage : {"done"}, contest : Rows, roster : [Players -> Entries], scores : Logs]

ReaderRecords ==
  [at : {"idle", "asked", "waiting"}, now : Nat, load : Loads \union {Free}]

\* Nobody waits for a load that is not there, and the cache names none.
Named(l) == l # Free => load[l].stage \in LoadStages

RowsOK == roster \in [Players -> Entries] /\ scores \in Logs /\ pending \in 0 .. MaxPending

\* The log holds no revision of a later instant.
StampsOK == \A p \in Players : \A i \in 1 .. Len(scores[p]) : scores[p][i].at <= clock

LoadsOK ==
  /\ load \in [Loads -> LoadRecords]
  /\ cache \in [load : Loads \union {Free}, at : Nat]
  /\ reader \in [Readers -> ReaderRecords]
  /\ Named(cache.load)
  /\ \A r \in Readers : Named(reader[r].load)

\* A contest that somebody has read under way does not go back before its start.
UnderWayStates == {"RUNNING", "FROZEN", "ENDED"}

SeenStates ==
  \A l \in Loads : load[l].stage \in {"rows", "done"} =>
    (load[l].contest.state \in UnderWayStates => contest.state \in UnderWayStates)

BoardInv == ContestInv /\ RowsOK /\ StampsOK /\ LoadsOK /\ SeenStates /\ CacheIsFresh

-------------------------------------------------------------------------------
\* The kinds of steps.

\* What the contest may do in a step, and what it never does.
ContestMoves == [ContestNext]_contestVars /\ ContestInv /\ ContestInv'

LEMMA ContestMonotone ==
  ASSUME ContestMoves
  PROVE  /\ contest.state \in UnderWayStates => contest'.state \in UnderWayStates
         /\ (contest.state \in {"RUNNING", "FROZEN"} /\ contest'.state \in {"RUNNING", "FROZEN"}
             /\ ~Freeze /\ ~Unfreeze) => contest' = contest
  <1> USE DEF ContestMoves, ContestInv, ContestTypeOK
  <1>1. CASE UNCHANGED contest
    BY <1>1
  <1>2. ASSUME NEW c \in Callers, SetContestState(c), contest' # contest
        PROVE  /\ contest.state \in UnderWayStates => contest'.state = "ENDED"
               /\ contest.state \in {"RUNNING", "FROZEN"} => contest'.state = "ENDED"
    BY <1>2 DEF SetContestState, MayMove, Allowed, Ended, Rows, Calls, States, UnderWayStates
  <1>3. CASE Freeze
    BY <1>3 DEF Freeze, Rows, UnderWayStates
  <1>4. CASE Unfreeze
    BY <1>4 DEF Unfreeze, Rows, UnderWayStates
  <1>5. \/ UNCHANGED contest
        \/ \E c \in Callers : SetContestState(c) /\ contest' # contest
        \/ Freeze \/ Unfreeze
    BY DEF ContestNext, contestVars, EditSetup, Press, ScreenPolls, Serve, ReadContestRow, Tick
  <1> QED
    BY <1>1, <1>2, <1>3, <1>4, <1>5 DEF UnderWayStates

\* What the cache and the readers do while nothing is written.
LEMMA DroppedLoads ==
  ASSUME NEW loads \in [Loads -> LoadRecords], NEW entry, NEW readers
  PROVE  /\ Kept(loads, entry, readers) \in [Loads -> LoadRecords]
         /\ \A l \in Loads : Kept(loads, entry, readers)[l] \in {loads[l], NoLoad}
         /\ entry.load \in Loads => Kept(loads, entry, readers)[entry.load] = loads[entry.load]
         /\ \A r \in Readers : readers[r].load \in Loads =>
              Kept(loads, entry, readers)[readers[r].load] = loads[readers[r].load]
  BY DEF Kept, NoLoad, LoadRecords

LEMMA StampsStand ==
  ASSUME BoardInv, ContestMoves, UNCHANGED scores
  PROVE  StampsOK'
  <1>1. clock' \in {clock, clock + 1} /\ clock \in Nat
    BY DEF ContestMoves, ContestInv, ContestTypeOK, ContestNext, contestVars, EditSetup, Press, ScreenPolls,
           Serve, ReadContestRow, SetContestState, Freeze, Unfreeze, Tick
  <1>2. \A p \in Players : \A i \in 1 .. Len(scores[p]) : scores[p][i].at \in Nat
    <2> SUFFICES ASSUME NEW p \in Players, NEW i \in 1 .. Len(scores[p]) PROVE scores[p][i].at \in Nat
      OBVIOUS
    <2>1. scores[p] \in Seq(Revisions)
      BY DEF BoardInv, RowsOK, Logs
    <2>2. scores[p][i] \in Revisions
      BY <2>1
    <2> QED
      BY <2>2 DEF Revisions
  <1> QED
    BY <1>1, <1>2 DEF BoardInv, StampsOK

\* A log that grows by a revision of this instant.
LEMMA StampedNow ==
  ASSUME BoardInv, NEW p \in Players, NEW score \in Scores \union {Nothing}, Revised(p, score)
  PROVE  scores' \in Logs /\ roster' = roster /\ UNCHANGED contestVars /\ StampsOK'
  <1> DEFINE revision == [score |-> score, at |-> clock]
             longer == Append(scores[p], revision)
  <1>0. scores \in Logs /\ clock \in Nat
    BY DEF BoardInv, RowsOK, ContestInv, ContestTypeOK
  <1>1. revision \in Revisions /\ revision.at = clock
    BY <1>0 DEF Revisions
  <1> HIDE DEF revision
  <1>2. /\ longer \in Seq(Revisions) /\ Len(longer) = Len(scores[p]) + 1 /\ Len(scores[p]) \in Nat
        /\ longer[Len(scores[p]) + 1] = revision
        /\ \A i \in 1 .. Len(scores[p]) : longer[i] = scores[p][i]
    BY <1>0, <1>1 DEF Logs
  <1>3. scores' = [scores EXCEPT ![p] = longer] /\ roster' = roster /\ UNCHANGED contestVars
    BY DEF Revised, revision
  <1> HIDE DEF longer
  <1>4. scores' \in Logs /\ scores'[p] = longer /\ \A q \in Players \ {p} : scores'[q] = scores[q]
    BY <1>0, <1>2, <1>3 DEF Logs
  <1>5. clock' = clock
    BY <1>3 DEF contestVars
  <1>6. \A i \in 1 .. Len(longer) : longer[i].at <= clock
    <2>1. \A i \in 1 .. Len(longer) : i \in 1 .. Len(scores[p]) \/ i = Len(scores[p]) + 1
      BY <1>2
    <2> QED
      BY <1>0, <1>1, <1>2, <2>1 DEF BoardInv, StampsOK
  <1>7. StampsOK'
    BY <1>4, <1>5, <1>6 DEF BoardInv, StampsOK
  <1> QED
    BY <1>3, <1>4, <1>7

LEMMA CommitStep ==
  ASSUME BoardInv, Commits, RowsOK', StampsOK', ContestMoves
  PROVE  BoardInv'
  <1>1. UNCHANGED <<load, cache, reader>> /\ pending' = pending + 1
    BY DEF Commits
  <1>2. pending' # 0
    BY <1>1 DEF BoardInv, RowsOK
  <1>3. LoadsOK'
    BY <1>1 DEF BoardInv, LoadsOK, Named
  <1>4. SeenStates'
    BY <1>1, ContestMonotone DEF BoardInv, SeenStates
  <1>5. CacheIsFresh'
    BY <1>2 DEF CacheIsFresh
  <1> QED
    BY <1>3, <1>4, <1>5 DEF BoardInv, ContestMoves

\* A write to the roster or to the log keeps its type.
LEMMA WritesTyped ==
  ASSUME BoardInv, NEW p \in Players,
         \/ \E name \in Names : Join(p, name) \/ Rename(p, name)
         \/ Remove(p)
         \/ \E score \in Scores \union {Nothing} : Revise(p, score)
  PROVE  RowsOK' /\ StampsOK' /\ Commits /\ UNCHANGED contestVars
  <1>0. /\ roster \in [Players -> Entries] /\ scores \in Logs /\ clock \in Nat
        /\ pending \in 0 .. MaxPending /\ MaxPending \in Nat
    BY BoardLimits DEF BoardInv, RowsOK, ContestInv, ContestTypeOK
  <1>1. ASSUME Commits PROVE pending' \in 0 .. MaxPending
    BY <1>0, <1>1 DEF Commits
  <1>2. ASSUME NEW name \in Names, Join(p, name) \/ Rename(p, name)
        PROVE  RowsOK' /\ StampsOK' /\ Commits /\ UNCHANGED contestVars
    <2>1. [joined |-> clock, name |-> name] \in Entries
      BY <1>0 DEF Entries
    <2>2. [roster[p] EXCEPT !.name = name] \in Entries
      BY <1>0 DEF Entries
    <2>3. RowsOK' /\ Commits /\ UNCHANGED <<contestVars, scores>>
      BY <1>0, <1>1, <1>2, <2>1, <2>2 DEF Join, Rename, RowsOK
    <2>4. StampsOK'
      BY <2>3 DEF BoardInv, StampsOK, contestVars
    <2> QED
      BY <2>3, <2>4
  <1>3. CASE Remove(p)
    <2>1. [roster[p] EXCEPT !.joined = Absent] \in Entries
      BY <1>0 DEF Entries
    <2>2. <<>> \in Seq(Revisions) /\ Len(<<>>) = 0
      OBVIOUS
    <2>3. RowsOK' /\ Commits /\ UNCHANGED contestVars
      BY <1>0, <1>1, <1>3, <2>1, <2>2 DEF Remove, RowsOK, Logs
    <2>4. clock' = clock /\ \A q \in Players : scores'[q] = scores[q] \/ scores'[q] = <<>>
      BY <1>0, <1>3, <2>3 DEF Remove, Logs, contestVars
    <2>5. StampsOK'
      BY <2>2, <2>4 DEF BoardInv, StampsOK
    <2> QED
      BY <2>3, <2>5
  <1>4. ASSUME NEW score \in Scores \union {Nothing}, Revise(p, score)
        PROVE  RowsOK' /\ StampsOK' /\ Commits /\ UNCHANGED contestVars
    <2>1. Commits /\ scores' \in Logs /\ roster' = roster /\ UNCHANGED contestVars /\ StampsOK'
      BY <1>4, StampedNow DEF Revise
    <2> QED
      BY <1>0, <1>1, <2>1 DEF RowsOK
  <1> QED
    BY <1>2, <1>3, <1>4

LEMMA FreezeStep ==
  ASSUME BoardInv, SetFrozen, ContestMoves
  PROVE  BoardInv'
  <1>1. Commits /\ UNCHANGED <<roster, scores>>
    BY DEF SetFrozen
  <1>2. RowsOK'
    BY <1>1, BoardLimits DEF Commits, BoardInv, RowsOK
  <1> QED
    BY <1>1, <1>2, StampsStand, CommitStep

\* setContestState does not invalidate, and need not: it never moves a contest
\* from one state under way to another.
LEMMA MoveStep ==
  ASSUME BoardInv, MoveContest, ContestMoves
  PROVE  BoardInv'
  <1>1. UNCHANGED boardVars
    BY DEF MoveContest
  <1>2. (contest.state \in UnderWayStates /\ contest'.state \in {"RUNNING", "FROZEN"})
          => contest' = contest
    <2>1. \/ UNCHANGED contest
          \/ \E c \in Callers : SetContestState(c)
      BY DEF MoveContest, EditSetup, Press, ScreenPolls, Serve, ReadContestRow, Tick
    <2>2. ASSUME NEW c \in Callers, SetContestState(c)
          PROVE  contest' = contest \/ contest'.state = "ENDED" \/ contest.state \in {"DRAFT", "SCHEDULED"}
      BY <2>2 DEF BoardInv, ContestInv, ContestTypeOK, SetContestState, MayMove, Allowed, Ended,
                  Rows, Calls, States
    <2> QED
      BY <2>1, <2>2 DEF UnderWayStates
  <1>3. RowsOK' /\ StampsOK' /\ LoadsOK'
    <2>1. StampsOK'
      BY <1>1, StampsStand DEF boardVars
    <2> QED
      BY <1>1, <2>1 DEF boardVars, BoardInv, RowsOK, LoadsOK, Named
  <1>4. SeenStates'
    BY <1>1, ContestMonotone DEF boardVars, BoardInv, SeenStates
  <1>5. CacheIsFresh'
    <2> SUFFICES ASSUME cache.load # Free, pending = 0
                 PROVE  LET seen == load[cache.load] IN
                        /\ seen.stage \in {"rows", "done"} =>
                             /\ seen.roster = roster
                             /\ {contest'.state, seen.contest.state} \subseteq {"RUNNING", "FROZEN"}
                                  => seen.contest = contest'
                        /\ seen.stage = "done" => SameScores(seen.scores, scores)
      BY <1>1 DEF boardVars, CacheIsFresh
    <2>1. cache.load \in Loads
      BY DEF BoardInv, LoadsOK
    <2> DEFINE seen == load[cache.load]
    <2>2. /\ seen.stage \in {"rows", "done"} =>
               /\ seen.roster = roster
               /\ {contest.state, seen.contest.state} \subseteq {"RUNNING", "FROZEN"}
                    => seen.contest = contest
          /\ seen.stage = "done" => SameScores(seen.scores, scores)
      BY DEF BoardInv, CacheIsFresh
    <2>3. ASSUME seen.stage \in {"rows", "done"}, contest'.state \in {"RUNNING", "FROZEN"},
                 seen.contest.state \in {"RUNNING", "FROZEN"}
          PROVE  seen.contest = contest'
      <3>1. contest.state \in UnderWayStates
        BY <2>1, <2>3 DEF BoardInv, SeenStates, UnderWayStates
      <3> QED
        BY <1>2, <2>2, <2>3, <3>1
    <2> QED
      BY <2>2, <2>3
  <1> QED
    BY <1>3, <1>4, <1>5 DEF BoardInv, ContestMoves

LEMMA InvalidateStep ==
  ASSUME BoardInv, Invalidate
  PROVE  BoardInv'
  <1>1. /\ cache' = NoEntry /\ load' = Kept(load, NoEntry, reader) /\ pending' = pending - 1
        /\ pending > 0 /\ UNCHANGED <<contestVars, roster, scores, reader>>
    BY DEF Invalidate
  <1>2. load \in [Loads -> LoadRecords] /\ reader \in [Readers -> ReaderRecords]
    BY DEF BoardInv, LoadsOK
  <1>3. RowsOK' /\ StampsOK'
    BY <1>1, BoardLimits DEF BoardInv, RowsOK, StampsOK, contestVars
  <1>4. LoadsOK'
    <2>1. load' \in [Loads -> LoadRecords]
      BY <1>1, <1>2, DroppedLoads
    <2>2. \A r \in Readers : reader[r].load \in Loads => load'[reader[r].load] = load[reader[r].load]
      BY <1>1, <1>2, DroppedLoads
    <2>3. cache' \in [load : Loads \union {Free}, at : Nat] /\ cache'.load = Free
      BY <1>1 DEF NoEntry
    <2>4. \A r \in Readers : reader[r].load \in Loads \union {Free}
      BY <1>2 DEF ReaderRecords
    <2> QED
      BY <1>1, <2>1, <2>2, <2>3, <2>4 DEF BoardInv, LoadsOK, Named
  <1>5. SeenStates'
    BY <1>1, <1>2, DroppedLoads DEF BoardInv, SeenStates, NoLoad, contestVars
  <1>6. CacheIsFresh'
    BY <1>1 DEF CacheIsFresh, NoEntry
  <1>7. ContestInv'
    BY <1>1 DEF BoardInv, ContestInv, ContestTypeOK, WindowOK, ClockCallsOK, SeenStart, SeenEnd, contestVars
  <1> QED
    BY <1>3, <1>4, <1>5, <1>6, <1>7 DEF BoardInv

-------------------------------------------------------------------------------
\* Reading.

LEMMA ContestStands ==
  ASSUME BoardInv, UNCHANGED <<contestVars, roster, scores, pending>>
  PROVE  ContestInv' /\ RowsOK' /\ StampsOK'
  BY DEF BoardInv, ContestInv, ContestTypeOK, WindowOK, ClockCallsOK, SeenStart, SeenEnd,
         contestVars, RowsOK, StampsOK

\* A step of the readers: what is named is there, what was seen has been seen, and
\* what is cached is what was cached, has nothing read yet, or is what now stands.
LEMMA ReadingStep ==
  ASSUME BoardInv, UNCHANGED <<contestVars, roster, scores, pending>>, LoadsOK',
         \A l \in Loads : load'[l].stage \in {"rows", "done"} =>
           \/ load'[l].contest = contest
           \/ load[l].stage \in {"rows", "done"} /\ load'[l].contest = load[l].contest,
         \/ cache'.load = Free
         \/ load'[cache'.load].stage = "contest"
         \/ cache'.load = cache.load /\ load'[cache.load] = load[cache.load]
         \/ /\ load'[cache'.load].stage = "rows"
            /\ load'[cache'.load].contest = contest /\ load'[cache'.load].roster = roster
         \/ /\ cache'.load = cache.load /\ load[cache.load].stage = "rows"
            /\ load'[cache.load].stage = "done"
            /\ load'[cache.load].contest = load[cache.load].contest
            /\ load'[cache.load].roster = load[cache.load].roster
            /\ load'[cache.load].scores = scores
  PROVE  BoardInv'
  <1>1. contest' = contest /\ UNCHANGED <<roster, scores, pending>>
    BY DEF contestVars
  <1>2. SeenStates'
    BY <1>1 DEF BoardInv, SeenStates
  <1>3. SameScores(scores, scores)
    BY DEF SameScores
  <1>4. CacheIsFresh'
    <2>1. \A logs : SameScores(logs, scores)' = SameScores(logs', scores)
      BY <1>1 DEF SameScores
    <2> QED
      BY <1>1, <1>3, <2>1 DEF BoardInv, CacheIsFresh
  <1> QED
    BY <1>2, <1>4, ContestStands DEF BoardInv

LEMMA AskStep ==
  ASSUME BoardInv, NEW r \in Readers, Ask(r)
  PROVE  BoardInv'
  <1>1. clock \in Nat
    BY DEF BoardInv, ContestInv, ContestTypeOK
  <1> DEFINE asked == [NoReader EXCEPT !.at = "asked", !.now = clock]
  <1>2. asked \in ReaderRecords /\ asked.load = Free
    BY <1>1 DEF NoReader, ReaderRecords
  <1>3. /\ reader' = [reader EXCEPT ![r] = asked]
        /\ UNCHANGED <<contestVars, roster, scores, pending, load, cache>>
    BY DEF Ask
  <1> HIDE DEF asked
  <1>4. LoadsOK'
    BY <1>2, <1>3 DEF BoardInv, LoadsOK, Named
  <1>5. cache'.load = cache.load /\ load' = load
    BY <1>3
  <1> QED
    BY <1>3, <1>4, <1>5, ReadingStep

LEMMA AnswerStep ==
  ASSUME BoardInv, NEW r \in Readers, Answer(r)
  PROVE  BoardInv'
  <1>1. /\ reader' = [reader EXCEPT ![r] = NoReader] /\ load' = Kept(load, cache, reader')
        /\ UNCHANGED <<contestVars, roster, scores, pending, cache>>
    BY DEF Answer
  <1>2. /\ load \in [Loads -> LoadRecords] /\ reader \in [Readers -> ReaderRecords]
        /\ cache.load \in Loads \union {Free}
    BY DEF BoardInv, LoadsOK
  <1>3. NoReader \in ReaderRecords /\ NoReader.load = Free
    BY DEF NoReader, ReaderRecords
  <1>4. /\ load' \in [Loads -> LoadRecords]
        /\ \A l \in Loads : load'[l] \in {load[l], NoLoad}
        /\ cache.load \in Loads => load'[cache.load] = load[cache.load]
        /\ \A q \in Readers : reader'[q].load \in Loads => load'[reader'[q].load] = load[reader'[q].load]
    <2> DEFINE kept == Kept(load, cache, reader')
    <2>1. /\ kept \in [Loads -> LoadRecords]
          /\ \A l \in Loads : kept[l] \in {load[l], NoLoad}
          /\ cache.load \in Loads => kept[cache.load] = load[cache.load]
          /\ \A q \in Readers : reader'[q].load \in Loads => kept[reader'[q].load] = load[reader'[q].load]
      BY <1>2, DroppedLoads
    <2>2. load' = kept
      BY <1>1
    <2> HIDE DEF kept
    <2> QED
      BY <2>1, <2>2
  <1>5. \A q \in Readers : reader'[q].load \in {reader[q].load, Free} /\ reader[q].load \in Loads \union {Free}
    BY <1>1, <1>2, <1>3 DEF ReaderRecords
  <1>6. LoadsOK'
    BY <1>1, <1>2, <1>3, <1>4, <1>5 DEF BoardInv, LoadsOK, Named
  <1>7. \A l \in Loads : load'[l].stage \in {"rows", "done"} => load'[l] = load[l]
    BY <1>4 DEF NoLoad
  <1> QED
    BY <1>1, <1>2, <1>4, <1>6, <1>7, ReadingStep

LEMMA LookupStep ==
  ASSUME BoardInv, NEW r \in Readers, Lookup(r)
  PROVE  BoardInv'
  <1>0. /\ load \in [Loads -> LoadRecords] /\ reader \in [Readers -> ReaderRecords]
        /\ cache \in [load : Loads \union {Free}, at : Nat] /\ Named(cache.load)
        /\ UNCHANGED <<contestVars, roster, scores, pending>>
    BY DEF BoardInv, LoadsOK, Lookup
  <1>1. ASSUME NEW l \in Loads, Waits(r, l)
        PROVE  /\ reader' \in [Readers -> ReaderRecords]
               /\ reader'[r].load = l
               /\ \A q \in Readers \ {r} : reader'[q] = reader[q]
    BY <1>0, <1>1 DEF Waits, ReaderRecords
  <1>2. CASE cache.load # Free /\ Waits(r, cache.load) /\ UNCHANGED <<load, cache>>
    <2>1. cache.load \in Loads
      BY <1>0, <1>2
    <2>2. LoadsOK'
      BY <1>0, <1>1, <1>2, <2>1 DEF BoardInv, LoadsOK, Named
    <2> QED
      BY <1>0, <1>2, <2>2, ReadingStep
  <1>3. ASSUME NEW l \in Loads, \A q \in Readers : reader[q].load # l, Waits(r, l),
               cache' = [load |-> l, at |-> reader[r].now],
               load' = [Kept(load, cache', reader') EXCEPT ![l] = [stage |-> "contest"]]
        PROVE  BoardInv'
    <2> DEFINE kept == Kept(load, cache', reader')
    <2>1. /\ kept \in [Loads -> LoadRecords]
          /\ \A k \in Loads : kept[k] \in {load[k], NoLoad}
          /\ \A q \in Readers : reader'[q].load \in Loads => kept[reader'[q].load] = load[reader'[q].load]
      BY <1>0, DroppedLoads
    <2>2. [stage |-> "contest"] \in LoadRecords
      BY DEF LoadRecords
    <2> HIDE DEF kept
    <2>3. /\ load' \in [Loads -> LoadRecords] /\ load'[l] = [stage |-> "contest"]
          /\ \A k \in Loads \ {l} : load'[k] = kept[k]
      BY <1>3, <2>1, <2>2 DEF kept
    <2>4. cache' \in [load : Loads \union {Free}, at : Nat] /\ cache'.load = l
      BY <1>0, <1>3 DEF ReaderRecords
    <2>5. \A q \in Readers \ {r} : reader'[q] = reader[q] /\ reader[q].load # l
      BY <1>1, <1>3
    <2>6. \A q \in Readers : reader'[q].load # Free => load'[reader'[q].load].stage \in LoadStages
      <3>1. load'[reader'[r].load].stage \in LoadStages
        BY <1>1, <1>3, <2>3 DEF LoadStages
      <3>2. ASSUME NEW q \in Readers \ {r}, reader'[q].load # Free
            PROVE  load'[reader'[q].load].stage \in LoadStages
        <4>1. reader'[q].load \in Loads /\ reader'[q].load # l /\ reader'[q] = reader[q]
          BY <1>0, <2>5, <3>2 DEF ReaderRecords
        <4>2. load'[reader'[q].load] = load[reader[q].load]
          BY <2>1, <2>3, <4>1
        <4> QED
          BY <3>2, <4>1, <4>2 DEF BoardInv, LoadsOK, Named
      <3> QED
        BY <3>1, <3>2
    <2>7. LoadsOK'
      BY <1>1, <1>3, <2>3, <2>4, <2>6 DEF LoadsOK, Named, LoadStages
    <2>8. \A k \in Loads : load'[k].stage \in {"rows", "done"} => load'[k] = load[k]
      BY <2>1, <2>3 DEF NoLoad
    <2>9. load'[cache'.load].stage = "contest"
      BY <2>3, <2>4
    <2> QED
      BY <1>0, <2>7, <2>8, <2>9, ReadingStep
  <1> QED
    BY <1>2, <1>3 DEF Lookup

LEMMA ReadSteps ==
  ASSUME BoardInv, NEW l \in Loads, ReadContest(l) \/ ReadScores(l)
  PROVE  BoardInv'
  <1>0. /\ load[l] \in LoadRecords /\ load \in [Loads -> LoadRecords]
        /\ contest \in Rows /\ roster \in [Players -> Entries] /\ scores \in Logs
        /\ UNCHANGED <<contestVars, roster, scores, pending, cache, reader>>
    BY DEF BoardInv, RowsOK, LoadsOK, ContestInv, ContestTypeOK, ReadContest, ReadScores
  <1>1. CASE ReadContest(l)
    <2> DEFINE seen == [stage |-> "rows", contest |-> contest, roster |-> roster]
    <2>1. load' = [load EXCEPT ![l] = seen] /\ load[l].stage = "contest"
      BY <1>1 DEF ReadContest
    <2>2. seen \in LoadRecords /\ seen.stage = "rows" /\ seen.contest = contest /\ seen.roster = roster
      BY <1>0 DEF LoadRecords
    <2> HIDE DEF seen
    <2>3. LoadsOK'
      BY <1>0, <2>1, <2>2 DEF BoardInv, LoadsOK, Named, LoadStages
    <2>4. \/ cache'.load = Free
          \/ cache'.load = cache.load /\ load'[cache.load] = load[cache.load]
          \/ load'[cache'.load] = seen
      BY <1>0, <2>1 DEF BoardInv, LoadsOK
    <2>5. \A k \in Loads : load'[k] = load[k] \/ load'[k] = seen
      BY <1>0, <2>1
    <2> QED
      BY <1>0, <2>2, <2>3, <2>4, <2>5, ReadingStep
  <1>2. CASE ReadScores(l)
    <2> DEFINE seen == [stage |-> "done", contest |-> load[l].contest,
                        roster |-> load[l].roster, scores |-> scores]
    <2>1. load' = [load EXCEPT ![l] = seen] /\ load[l].stage = "rows"
      BY <1>2 DEF ReadScores
    <2>2. /\ seen \in LoadRecords /\ seen.stage = "done" /\ seen.contest = load[l].contest
          /\ seen.roster = load[l].roster /\ seen.scores = scores
      BY <1>0, <2>1 DEF LoadRecords
    <2> HIDE DEF seen
    <2>3. LoadsOK'
      BY <1>0, <2>1, <2>2 DEF BoardInv, LoadsOK, Named, LoadStages
    <2>4. \/ cache'.load = Free
          \/ cache'.load = cache.load /\ load'[cache.load] = load[cache.load]
          \/ cache'.load = cache.load /\ cache.load = l /\ load'[cache.load] = seen
      BY <1>0, <2>1 DEF BoardInv, LoadsOK
    <2>5. \A k \in Loads : load'[k] = load[k] \/ (k = l /\ load'[k] = seen)
      BY <1>0, <2>1
    <2> QED
      BY <1>0, <2>1, <2>2, <2>3, <2>4, <2>5, ReadingStep
  <1> QED
    BY <1>1, <1>2

LEMMA LoadFailsStep ==
  ASSUME BoardInv, NEW l \in Loads, LoadFails(l)
  PROVE  BoardInv'
  <1>1. /\ cache' = NoEntry
        /\ reader' = [r \in Readers |-> IF reader[r].load = l THEN NoReader ELSE reader[r]]
        /\ load' = Kept(load, cache', reader')
        /\ UNCHANGED <<contestVars, roster, scores, pending>>
    BY DEF LoadFails
  <1>2. load \in [Loads -> LoadRecords] /\ reader \in [Readers -> ReaderRecords]
    BY DEF BoardInv, LoadsOK
  <1>3. NoReader \in ReaderRecords /\ NoReader.load = Free
    BY DEF NoReader, ReaderRecords
  <1>4. /\ load' \in [Loads -> LoadRecords]
        /\ \A k \in Loads : load'[k] \in {load[k], NoLoad}
        /\ \A q \in Readers : reader'[q].load \in Loads => load'[reader'[q].load] = load[reader'[q].load]
    <2> DEFINE kept == Kept(load, cache', reader')
    <2>1. /\ kept \in [Loads -> LoadRecords]
          /\ \A k \in Loads : kept[k] \in {load[k], NoLoad}
          /\ \A q \in Readers : reader'[q].load \in Loads => kept[reader'[q].load] = load[reader'[q].load]
      BY <1>2, DroppedLoads
    <2>2. load' = kept
      BY <1>1
    <2> HIDE DEF kept
    <2> QED
      BY <2>1, <2>2
  <1>5. \A q \in Readers : reader'[q].load \in {reader[q].load, Free} /\ reader[q].load \in Loads \union {Free}
    BY <1>1, <1>2, <1>3 DEF ReaderRecords
  <1>6. cache'.load = Free /\ cache' \in [load : Loads \union {Free}, at : Nat]
    BY <1>1 DEF NoEntry
  <1>7. LoadsOK'
    BY <1>1, <1>2, <1>3, <1>4, <1>5, <1>6 DEF BoardInv, LoadsOK, Named
  <1>8. \A k \in Loads : load'[k].stage \in {"rows", "done"} => load'[k] = load[k]
    BY <1>4 DEF NoLoad
  <1> QED
    BY <1>1, <1>6, <1>7, <1>8, ReadingStep

-------------------------------------------------------------------------------
\* The judge gives up.

\* Of the places of a finite log, one is the last.
LEMMA LastExists ==
  ASSUME NEW n \in Nat, NEW S, S \subseteq 1 .. n, S # {}
  PROVE  \E i \in S : \A j \in S : j <= i
  <1> DEFINE before == {m \in Nat \X Nat : m[1] < m[2]}
             T == {n - i : i \in S}
  <1>1. IsWellFoundedOn(before, Nat)
    BY NatLessThanWellFounded DEF OpToRel
  <1>2. T \subseteq Nat /\ T # {}
    <2>1. \A i \in S : i \in Int /\ n - i \in Nat
      OBVIOUS
    <2>2. PICK i \in S : TRUE
      OBVIOUS
    <2>3. n - i \in T
      BY <2>2
    <2> QED
      BY <2>1, <2>3
  <1>3. PICK x \in T : \A y \in T : <<y, x>> \notin before
    <2> HIDE DEF before, T
    <2> QED
      BY <1>1, <1>2, WFMin
  <1>4. PICK i \in S : x = n - i
    OBVIOUS
  <1>5. ASSUME NEW j \in S PROVE j <= i
    <2>1. n - j \in T /\ n - j \in Nat /\ x \in Nat
      BY <1>2
    <2>2. ~(n - j < x)
      BY <1>3, <2>1
    <2> QED
      BY <1>4, <2>2
  <1> QED
    BY <1>5

\* What is stamped after the cutoff is not on the board.
LEMMA LateRevision ==
  ASSUME NEW log \in Seq(Revisions), NEW revision \in Revisions, NEW upTo \in Nat,
         upTo # Live, ~(revision.at <= upTo)
  PROVE  ScoreAt(Append(log, revision), upTo) = ScoreAt(log, upTo)
  <1> DEFINE longer == Append(log, revision)
  <1>1. /\ Len(longer) = Len(log) + 1 /\ Len(log) \in Nat /\ longer[Len(log) + 1] = revision
        /\ \A i \in 1 .. Len(log) : longer[i] = log[i]
    OBVIOUS
  <1> HIDE DEF longer
  <1>2. {i \in 1 .. Len(longer) : Within(longer[i].at, upTo)} = {i \in 1 .. Len(log) : Within(log[i].at, upTo)}
    <2>1. ~Within(longer[Len(log) + 1].at, upTo)
      BY <1>1 DEF Within
    <2>2. \A i \in 1 .. Len(longer) : i \in 1 .. Len(log) \/ i = Len(log) + 1
      BY <1>1
    <2> QED
      BY <1>1, <2>1, <2>2
  <1> DEFINE window == {i \in 1 .. Len(log) : Within(log[i].at, upTo)}
             last == CHOOSE i \in window : \A j \in window : j <= i
  <1>3. CASE window = {}
    BY <1>2, <1>3 DEF ScoreAt, longer
  <1>4. CASE window # {} /\ last \in window
    <2>1. longer[last] = log[last]
      BY <1>1, <1>4
    <2>2. ScoreAt(log, upTo) = log[last].score
      BY <1>4 DEF ScoreAt
    <2> DEFINE wider == {i \in 1 .. Len(longer) : Within(longer[i].at, upTo)}
    <2>3. wider = window
      BY <1>2
    <2>4. ScoreAt(longer, upTo) = longer[CHOOSE i \in wider : \A j \in wider : j <= i].score
      BY <1>4, <2>3 DEF ScoreAt
    <2> HIDE DEF wider, window
    <2>5. ScoreAt(longer, upTo) = longer[last].score
      BY <2>3, <2>4
    <2> QED
      BY <2>1, <2>2, <2>5 DEF longer
  <1>5. window # {} => last \in window
    <2> SUFFICES ASSUME window # {} PROVE \E i \in window : \A j \in window : j <= i
      OBVIOUS
    <2>1. window \subseteq 1 .. Len(log) /\ Len(log) \in Nat
      BY <1>1
    <2> HIDE DEF window
    <2> QED
      BY <2>1, LastExists
  <1> QED
    BY <1>3, <1>4, <1>5

\* Whatever existed at the cutoff, the last of it counts.
LEMMA LastCounts ==
  ASSUME NEW log \in Seq(Revisions), NEW upTo, log # <<>>,
         \A i \in 1 .. Len(log) : Within(log[i].at, upTo)
  PROVE  ScoreAt(log, upTo) = log[Len(log)].score
  <1> DEFINE window == {i \in 1 .. Len(log) : Within(log[i].at, upTo)}
  <1>1. window = 1 .. Len(log) /\ Len(log) \in Nat /\ Len(log) # 0
    OBVIOUS
  <1> HIDE DEF window
  <1>2. Len(log) \in window /\ \A i \in window : i \in Nat /\ i <= Len(log)
    BY <1>1
  <1>3. (CHOOSE i \in window : \A j \in window : j <= i) = Len(log)
    <2>1. \A i \in window : (\A j \in window : j <= i) => i = Len(log)
      BY <1>1, <1>2
    <2> QED
      BY <1>2, <2>1
  <1> QED
    BY <1>2, <1>3 DEF ScoreAt, window

\* An answer that counts for nothing, given last to a row without an answer,
\* leaves its score at every cutoff what it was.
LEMMA GivenUp ==
  ASSUME NEW log \in Seq(Revisions), NEW revision \in Revisions, revision.score = Nothing,
         \A i \in 1 .. Len(log) : log[i].at <= revision.at, Unanswered(log),
         NEW upTo \in {Live} \union Nat
  PROVE  ScoreAt(Append(log, revision), upTo) = ScoreAt(log, upTo)
  <1>1. CASE ~Within(revision.at, upTo)
    BY <1>1, LateRevision DEF Within
  <1>2. CASE Within(revision.at, upTo)
    <2> DEFINE longer == Append(log, revision)
    <2>1. /\ longer \in Seq(Revisions) /\ longer # <<>> /\ Len(longer) = Len(log) + 1 /\ Len(log) \in Nat
          /\ longer[Len(log) + 1] = revision
          /\ \A i \in 1 .. Len(log) : longer[i] = log[i]
      OBVIOUS
    <2>2. \A i \in 1 .. Len(log) : Within(log[i].at, upTo)
      <3> SUFFICES ASSUME NEW i \in 1 .. Len(log) PROVE Within(log[i].at, upTo)
        OBVIOUS
      <3>1. log[i] \in Revisions /\ log[i].at <= revision.at
        OBVIOUS
      <3>2. log[i].at \in Nat /\ revision.at \in Nat
        BY <3>1 DEF Revisions
      <3> QED
        BY <1>2, <3>1, <3>2 DEF Within, Live
    <2> HIDE DEF longer
    <2>3. \A i \in 1 .. Len(longer) : Within(longer[i].at, upTo)
      <3>1. \A i \in 1 .. Len(longer) : i \in 1 .. Len(log) \/ i = Len(log) + 1
        BY <2>1
      <3> QED
        BY <1>2, <2>1, <2>2, <3>1
    <2>4. ScoreAt(longer, upTo) = Nothing
      BY <2>1, <2>3, LastCounts
    <2>5. ScoreAt(log, upTo) = Nothing
      <3>1. CASE log = <<>>
        BY <3>1 DEF ScoreAt
      <3>2. CASE log # <<>>
        BY <2>2, <3>2, LastCounts DEF Unanswered
      <3> QED
        BY <3>1, <3>2
    <2> QED
      BY <2>4, <2>5 DEF longer
  <1> QED
    BY <1>1, <1>2

LEMMA GiveUpStep ==
  ASSUME BoardInv, NEW p \in Players, GiveUp(p), ContestMoves
  PROVE  BoardInv'
  <1> DEFINE revision == [score |-> Nothing, at |-> clock]
  <1>0. scores \in Logs /\ clock \in Nat
    BY DEF BoardInv, RowsOK, ContestInv, ContestTypeOK
  <1>1. /\ scores' \in Logs /\ roster' = roster /\ UNCHANGED contestVars /\ StampsOK'
        /\ UNCHANGED <<pending, load, cache, reader>>
    BY StampedNow DEF GiveUp
  <1>2. RowsOK' /\ LoadsOK' /\ SeenStates'
    BY <1>1 DEF BoardInv, RowsOK, LoadsOK, Named, SeenStates, contestVars
  <1>3. \A q \in Players, upTo \in {Live} \union Nat :
          ScoreAt(scores'[q], upTo) = ScoreAt(scores[q], upTo)
    <2>1. scores' = [scores EXCEPT ![p] = Append(scores[p], revision)] /\ Unanswered(scores[p])
      BY DEF GiveUp, Revised
    <2>2. revision \in Revisions /\ revision.score = Nothing /\ revision.at = clock
      BY <1>0 DEF Revisions
    <2> HIDE DEF revision
    <2>3. ASSUME NEW upTo \in {Live} \union Nat
          PROVE  ScoreAt(Append(scores[p], revision), upTo) = ScoreAt(scores[p], upTo)
      <3>1. scores[p] \in Seq(Revisions) /\ \A i \in 1 .. Len(scores[p]) : scores[p][i].at <= revision.at
        BY <1>0, <2>2 DEF Logs, BoardInv, StampsOK
      <3> QED
        BY <2>1, <2>2, <3>1, GivenUp
    <2> QED
      BY <1>0, <2>1, <2>3 DEF Logs
  <1>4. CacheIsFresh'
    <2>1. \A logs : SameScores(logs, scores) => SameScores(logs, scores')
      BY <1>3, MaxTimeAssumption DEF SameScores
    <2>2. \A logs : SameScores(logs, scores)' = SameScores(logs', scores')
      BY DEF SameScores
    <2>3. contest' = contest
      BY <1>1 DEF contestVars
    <2> QED
      BY <1>1, <2>1, <2>2, <2>3 DEF BoardInv, CacheIsFresh
  <1> QED
    BY <1>1, <1>2, <1>4 DEF BoardInv, ContestMoves

-------------------------------------------------------------------------------
LEMMA BoardInvInit == Init => BoardInv
  <1> SUFFICES ASSUME Init PROVE BoardInv
    OBVIOUS
  <1>1. ContestInv
    BY ContestInvInit DEF Init
  <1>2. RowsOK /\ StampsOK
    <2>1. (CHOOSE n \in Names : TRUE) \in Names
      BY BoardAssumption
    <2>2. roster \in [Players -> Entries]
      BY <2>1 DEF Init, BoardInit, Entries
    <2>3. <<>> \in Seq(Revisions) /\ Len(<<>>) = 0
      OBVIOUS
    <2> QED
      BY <2>2, <2>3, BoardLimits DEF Init, BoardInit, RowsOK, StampsOK, Logs
  <1>3. LoadsOK /\ SeenStates /\ CacheIsFresh
    <2>1. /\ load = [l \in Loads |-> NoLoad] /\ cache = NoEntry /\ reader = [r \in Readers |-> NoReader]
          /\ NoLoad \in LoadRecords /\ NoLoad.stage = "none"
          /\ cache \in [load : Loads \union {Free}, at : Nat] /\ cache.load = Free
          /\ NoReader \in ReaderRecords /\ NoReader.load = Free
      BY DEF Init, BoardInit, NoLoad, NoEntry, NoReader, LoadRecords, ReaderRecords
    <2> QED
      BY <2>1 DEF LoadsOK, Named, SeenStates, CacheIsFresh
  <1> QED
    BY <1>1, <1>2, <1>3 DEF BoardInv

LEMMA NextMovesContest ==
  ASSUME BoardInv, [Next]_vars
  PROVE  ContestMoves
  <1>1. [ContestNext]_contestVars
    BY DEF Next, vars, MoveContest, SetFrozen, Invalidate, Join, Rename, Remove, Revise, Revised,
           GiveUp, Ask, Lookup, Answer, ReadContest, ReadScores, LoadFails, ContestNext, contestVars
  <1> QED
    BY <1>1, ContestInvStep DEF ContestMoves, BoardInv

LEMMA BoardInvStep == BoardInv /\ [Next]_vars => BoardInv'
  <1> SUFFICES ASSUME BoardInv, [Next]_vars PROVE BoardInv'
    OBVIOUS
  <1>0. ContestMoves
    BY NextMovesContest
  <1>1. CASE MoveContest
    BY <1>0, <1>1, MoveStep
  <1>2. CASE SetFrozen
    BY <1>0, <1>2, FreezeStep
  <1>3. CASE Invalidate
    BY <1>3, InvalidateStep
  <1>4. ASSUME NEW p \in Players,
               \/ \E name \in Names : Join(p, name) \/ Rename(p, name)
               \/ Remove(p)
               \/ \E score \in Scores \union {Nothing} : Revise(p, score)
               \/ GiveUp(p)
        PROVE  BoardInv'
    BY <1>0, <1>4, WritesTyped, CommitStep, GiveUpStep
  <1>5. ASSUME NEW r \in Readers, Ask(r) \/ Lookup(r) \/ Answer(r)
        PROVE  BoardInv'
    BY <1>5, AskStep, LookupStep, AnswerStep
  <1>6. ASSUME NEW l \in Loads, ReadContest(l) \/ ReadScores(l) \/ LoadFails(l)
        PROVE  BoardInv'
    BY <1>6, ReadSteps, LoadFailsStep
  <1>7. CASE UNCHANGED vars
    <2>1. UNCHANGED <<contestVars, roster, scores, pending, load, cache, reader>>
      BY <1>7 DEF vars, boardVars
    <2>2. LoadsOK'
      BY <2>1 DEF BoardInv, LoadsOK, Named
    <2> QED
      BY <2>1, <2>2, ReadingStep
  <1> QED
    BY <1>1, <1>2, <1>3, <1>4, <1>5, <1>6, <1>7 DEF Next

LEMMA BoardInvAlways == Spec => []BoardInv
  BY BoardInvInit, BoardInvStep, PTL DEF Spec

\* Nobody waits for a load that is gone, and the cache names none, whatever fails
\* or is invalidated in between.
THEOREM BoardTypeCorrect == Spec => []BoardTypeOK
  <1>1. BoardInv => BoardTypeOK
    <2> SUFFICES ASSUME BoardInv PROVE BoardTypeOK
      OBVIOUS
    <2>1. \A p \in Players : \A i \in 1 .. Len(scores[p]) : scores[p][i] \in Revisions
      BY DEF BoardInv, RowsOK, Logs
    <2>2. \A l \in Loads : load[l].stage \in LoadStages \union {"none"}
      BY DEF BoardInv, LoadsOK, LoadRecords, LoadStages
    <2>3. \A l \in {cache.load} \union {reader[r].load : r \in Readers} :
            l # Free => l \in Loads /\ load[l].stage \in LoadStages
      BY DEF BoardInv, LoadsOK, Named, ReaderRecords
    <2> QED
      BY <2>1, <2>2, <2>3 DEF BoardTypeOK, BoardInv, RowsOK, ContestInv
  <1> QED
    BY <1>1, BoardInvAlways, PTL

\* loadScoringInput never shares an input that would give another board than the
\* rows that stand, once the writes' invalidations are through: the one revision
\* that invalidates nothing, persistInternalError's, scores no submission
\* differently, live or at any cutoff.
THEOREM BoardCacheIsFresh == Spec => []CacheIsFresh
  <1>1. BoardInv => CacheIsFresh
    BY DEF BoardInv
  <1> QED
    BY <1>1, BoardInvAlways, PTL

-------------------------------------------------------------------------------
\* The frozen board.

\* A frozen contest has a cutoff, and it moves only with the contest's freeze.
LEMMA CutoffOfFrozen ==
  ASSUME NEW row \in Rows, NEW now \in Nat, PublicBoardFrozen(row, now)
  PROVE  Cutoff(row, now) \in Nat /\ Cutoff(row, now) # Live
  <1>1. Cutoff(row, now) = IF row.freezeAt = NoFreeze THEN row.startsAt ELSE row.freezeAt
    BY DEF Cutoff
  <1>2. Cutoff(row, now) \in Nat
    BY <1>1 DEF Rows
  <1> QED
    BY <1>2 DEF Live

LEMMA CutoffUnmoved ==
  ASSUME ContestMoves, PublicBoardFrozen(contest, clock), PublicBoardFrozen(contest', clock'),
         contest'.freezeAt = contest.freezeAt
  PROVE  Cutoff(contest', clock') = Cutoff(contest, clock)
  <1> USE DEF ContestMoves, ContestInv, ContestTypeOK
  <1>1. /\ Cutoff(contest, clock) = IF contest.freezeAt = NoFreeze THEN contest.startsAt ELSE contest.freezeAt
        /\ Cutoff(contest', clock') = IF contest'.freezeAt = NoFreeze THEN contest'.startsAt ELSE contest'.freezeAt
    BY DEF Cutoff
  <1>2. SUFFICES ASSUME contest.freezeAt = NoFreeze PROVE contest'.startsAt = contest.startsAt
    BY <1>1
  <1>3. contest.state = "FROZEN"
    BY <1>2 DEF PublicBoardFrozen
  <1>4. CASE UNCHANGED contest
    BY <1>4
  <1>5. ASSUME NEW c \in Callers, SetContestState(c), contest' # contest
        PROVE  FALSE
    <2>1. contest'.state = "ENDED"
      BY <1>3, <1>5 DEF SetContestState, MayMove, Allowed, Ended, Rows, Calls, States
    <2> QED
      BY <2>1 DEF PublicBoardFrozen
  <1>6. CASE Freeze \/ Unfreeze
    BY <1>3, <1>6 DEF Freeze, Unfreeze, Rows
  <1> QED
    BY <1>4, <1>5, <1>6
    DEF ContestNext, contestVars, EditSetup, Press, ScreenPolls, Serve, ReadContestRow, Tick

\* What the public sees of the rows, at a cutoff that is over.
LEMMA FrozenStep ==
  ASSUME BoardInv, [Next]_vars,
         PublicBoardFrozen(contest, clock), PublicBoardFrozen(contest', clock'),
         contest'.freezeAt = contest.freezeAt, Cutoff(contest, clock) < clock
  PROVE  PublicBoard' = PublicBoard
  <1> DEFINE upTo == Cutoff(contest, clock)
  <1>0. clock \in Nat /\ contest \in Rows /\ roster \in [Players -> Entries] /\ scores \in Logs
    BY DEF BoardInv, ContestInv, ContestTypeOK, RowsOK
  <1>1. Cutoff(contest', clock') = upTo
    BY NextMovesContest, CutoffUnmoved
  <1>2. upTo \in Nat /\ upTo # Live /\ ~(clock <= upTo)
    BY <1>0, CutoffOfFrozen
  <1>3. /\ PublicBoard = BoardAt(roster, scores, upTo)
        /\ PublicBoard' = BoardAt(roster', scores', upTo)
    BY <1>1 DEF PublicBoard
  <1> HIDE DEF upTo
  <1>4. CASE UNCHANGED <<roster, scores>>
    BY <1>3, <1>4
  <1>5. ASSUME NEW p \in Players, NEW name \in Names, Join(p, name)
        PROVE  PublicBoard' = PublicBoard
    <2>1. /\ roster[p].joined = Absent /\ scores' = scores
          /\ roster' = [roster EXCEPT ![p] = [joined |-> clock, name |-> name]]
      BY <1>5 DEF Join
    <2>2. On(roster', upTo) = On(roster, upTo)
      BY <1>0, <1>2, <2>1 DEF On, Within
    <2>3. \A q \in On(roster, upTo) : roster'[q] = roster[q]
      BY <1>0, <2>1 DEF On
    <2> QED
      BY <1>3, <2>1, <2>2, <2>3 DEF BoardAt
  <1>6. ASSUME NEW p \in Players, Remove(p) \/ \E name \in Names : Rename(p, name)
        PROVE  FALSE
    BY <1>6 DEF Remove, Rename, MayMutateRoster
  <1>7. ASSUME NEW p \in Players, NEW score \in Scores \union {Nothing}, Revised(p, score)
        PROVE  PublicBoard' = PublicBoard
    <2> DEFINE revision == [score |-> score, at |-> clock]
    <2>1. roster' = roster /\ scores' = [scores EXCEPT ![p] = Append(scores[p], revision)]
      BY <1>7 DEF Revised
    <2>2. revision \in Revisions /\ ~(revision.at <= upTo)
      BY <1>0, <1>2 DEF Revisions
    <2> HIDE DEF revision
    <2>3. \A q \in Players : ScoreAt(scores'[q], upTo) = ScoreAt(scores[q], upTo)
      <3>1. ScoreAt(Append(scores[p], revision), upTo) = ScoreAt(scores[p], upTo)
        BY <1>0, <1>2, <2>2, LateRevision DEF Logs
      <3> QED
        BY <1>0, <2>1, <3>1 DEF Logs
    <2>4. On(roster, upTo) \subseteq Players
      BY DEF On
    <2> QED
      BY <1>3, <2>1, <2>3, <2>4 DEF BoardAt
  <1>8. \/ UNCHANGED <<roster, scores>>
        \/ \E p \in Players :
             \/ \E name \in Names : Join(p, name) \/ Rename(p, name)
             \/ Remove(p)
             \/ \E score \in Scores \union {Nothing} : Revised(p, score)
    BY DEF Next, vars, boardVars, Revise, GiveUp, MoveContest, SetFrozen, Invalidate, Ask, Lookup, Answer, ReadContest,
           ReadScores, LoadFails
  <1> QED
    BY <1>4, <1>5, <1>6, <1>7, <1>8

\* "A frozen board is a view of the whole contest at one instant": nothing that
\* happens to the roster, to the scores or to the contest changes it.
THEOREM BoardFrozenStands == Spec => FrozenBoardStands
  <1>1. BoardInv /\ [Next]_vars =>
          [(/\ PublicBoardFrozen(contest, clock) /\ PublicBoardFrozen(contest', clock')
            /\ contest'.freezeAt = contest.freezeAt
            /\ Cutoff(contest, clock) < clock)
           => PublicBoard' = PublicBoard]_vars
    BY FrozenStep
  <1> QED
    BY <1>1, BoardInvAlways, PTL DEF Spec, FrozenBoardStands
===============================================================================
