--------------------------------- MODULE Board --------------------------------
(***************************************************************************)
(* The public leaderboard: the rows it is computed from, the freeze that   *)
(* shows it as of an earlier instant, and the one-second cache in front of *)
(* the queries.                                                            *)
(*                                                                         *)
(* A write to a standings input takes the contest's lock, stamps what it   *)
(* writes with a clock read under that lock, commits, and then drops the   *)
(* cached input; another request may run between those last two.  Two      *)
(* writes drop nothing: a move of the contest, and the IE the judge gives  *)
(* a submission it gave up on.  A reader holds the instant its request     *)
(* arrived, waits for a load that it may share with others, and computes   *)
(* the board from what that load read: the contest row with the roster     *)
(* first, the score log in a later query.                                  *)
(***************************************************************************)
EXTENDS Contest, Sequences

CONSTANTS
  Players,        \* accounts that may take part, one submission each
  Scores,         \* what a verdict may be worth
  Nothing,        \* what unjudged, IE and sent back to the judge all count for
  Names,          \* what a player may be called
  Readers,        \* requests for the public board in flight
  Loads,          \* loads of the scoring input in flight
  TTL,            \* INPUT_TTL_MS in ticks of the clock
  MaxRevisions,   \* bounds the score log of one submission
  MaxPending      \* bounds the writes whose invalidation is still to come

ASSUME BoardLimits == TTL \in Nat /\ MaxRevisions \in Nat /\ MaxPending \in Nat
ASSUME BoardAssumption == Nothing \notin Scores /\ Names # {} /\ "free" \notin Loads

VARIABLES
  roster,     \* [Players -> Entry], the Participant rows
  scores,     \* [Players -> Seq(Revision)], the SubmissionScoreRevision log
  pending,    \* writes committed whose invalidateScoringInput has not run
  load,       \* [Loads -> Load], the scoring inputs being read
  cache,      \* inputCache's entry for the contest
  reader      \* [Readers -> Reader], the requests for the public board

boardVars == <<roster, scores, pending, load, cache, reader>>
vars == <<contestVars, boardVars>>

-------------------------------------------------------------------------------
\* Rows.

Absent == -1

\* joined is when the row was created; the name, and the team with it, has no
\* history.
Entries == [joined : Nat \union {Absent}, name : Names]

Revisions == [score : Scores \union {Nothing}, at : Nat]

\* What queryScoringInput has read so far.
NoLoad == [stage |-> "none"]
LoadStages == {"contest", "rows", "done"}

Free == "free"
NoEntry == [load |-> Free, at |-> 0]
NoReader == [at |-> "idle", now |-> 0, load |-> Free]

-------------------------------------------------------------------------------
\* The board at an instant.

Live == -1
Within(at, upTo) == upTo = Live \/ at <= upTo

\* cutoffFor the public; the fallback to startsAt fails closed.
Cutoff(row, now) ==
  IF ~PublicBoardFrozen(row, now) THEN Live
  ELSE IF row.freezeAt = NoFreeze THEN row.startsAt ELSE row.freezeAt

\* Mutant: the submission's current answer, shown if it is old enough.
ScoreOfRow(log, upTo) ==
  IF log = <<>> THEN Nothing
  ELSE IF Within(log[Len(log)].at, upTo) THEN log[Len(log)].score ELSE Nothing

\* submissionsInWindow: of the revisions that existed by the cutoff, the last.
ScoreAt(log, upTo) ==
  LET window == {i \in 1 .. Len(log) : Within(log[i].at, upTo)} IN
  IF window = {} THEN Nothing
  ELSE log[CHOOSE i \in window : \A j \in window : j <= i].score

\* participantsAt: whoever had joined by the cutoff.
On(people, upTo) ==
  {p \in Players : people[p].joined # Absent /\ Within(people[p].joined, upTo)}

\* computeStandings, short of adding up and ranking.
BoardAt(people, logs, upTo) ==
  [p \in On(people, upTo) |-> [name |-> people[p].name, score |-> ScoreAt(logs[p], upTo)]]

PublicBoard == BoardAt(roster, scores, Cutoff(contest, clock))

-------------------------------------------------------------------------------
\* Writes to the standings inputs.

\* Mutant: the write forgets the cache.
CommitsQuietly == pending < MaxPending /\ UNCHANGED <<pending, load, cache, reader>>

\* Commit now, invalidate later.
Commits ==
  /\ pending < MaxPending
  /\ pending' = pending + 1
  /\ UNCHANGED <<load, cache, reader>>

\* The entry and the loads that nobody waits for and nobody can find are gone.
Kept(loads, entry, readers) ==
  [l \in Loads |-> IF entry.load = l \/ \E r \in Readers : readers[r].load = l
                   THEN loads[l] ELSE NoLoad]

Invalidate ==
  /\ pending > 0
  /\ pending' = pending - 1
  /\ cache' = NoEntry
  /\ load' = Kept(load, NoEntry, reader)
  /\ UNCHANGED <<contestVars, roster, scores, reader>>

\* ensureEnrolled's re-check under the lock: sign-in stays open during a freeze.
OpenForJoining ==
  /\ contest.endsAt > clock
  /\ \/ contest.state = "SCHEDULED"
     \/ contest.state \in {"RUNNING", "FROZEN"} /\ contest.startsAt <= clock

\* assertCanMutateStandingsInputs, which every roster mutation calls.
MayMutateRoster == contest.state # "ENDED" /\ ~PublicBoardFrozen(contest, clock)

\* A player signs in, or an organizer adds one.
Join(p, name) ==
  /\ roster[p].joined = Absent
  /\ OpenForJoining \/ MayMutateRoster
  /\ roster' = [roster EXCEPT ![p] = [joined |-> clock, name |-> name]]
  /\ Commits
  /\ UNCHANGED <<contestVars, scores>>

\* A player's own rename, or an organizer's move to another team.
Rename(p, name) ==
  /\ roster[p].joined # Absent
  /\ MayMutateRoster
  /\ roster' = [roster EXCEPT ![p].name = name]
  /\ Commits
  /\ UNCHANGED <<contestVars, scores>>

\* adminRemoveParticipant: the submissions and their revisions cascade.
Remove(p) ==
  /\ roster[p].joined # Absent
  /\ MayMutateRoster
  /\ roster' = [roster EXCEPT ![p].joined = Absent]
  /\ scores' = [scores EXCEPT ![p] = <<>>]
  /\ Commits
  /\ UNCHANGED contestVars

Revised(p, score) ==
  /\ roster[p].joined # Absent
  /\ contest.state \in {"RUNNING", "FROZEN", "ENDED"}
  /\ Len(scores[p]) < MaxRevisions
  /\ scores' = [scores EXCEPT ![p] = Append(@, [score |-> score, at |-> clock])]
  /\ UNCHANGED <<contestVars, roster>>

\* A verdict, an override or a rejudge's tombstone, all of which append a
\* revision; a freeze does not hold any of them up, nor does the end.
Revise(p, score) == Revised(p, score) /\ Commits

Unanswered(log) == log # <<>> => log[Len(log)].score = Nothing

\* persistInternalError: a row that still has no verdict gets IE.  The revision
\* it appends invalidates nothing.
GiveUp(p) ==
  /\ Unanswered(scores[p])
  /\ Revised(p, Nothing)
  /\ UNCHANGED <<pending, load, cache, reader>>

\* setFrozen invalidates as well, on a retry that changed nothing too.
SetFrozen ==
  /\ \/ Freeze
     \/ Unfreeze
     \/ contest.state = "FROZEN" /\ UNCHANGED contestVars
  /\ Commits
  /\ UNCHANGED <<roster, scores>>

\* setContestState does not invalidate: the next second may still see the old row.
MoveContest ==
  /\ \/ \E ready \in SUBSET {"lineUp", "sets"} : EditSetup(ready)
     \/ \E c \in Callers :
          (\E next \in {"SCHEDULED", "RUNNING", "ENDED"} : Press(c, next)) \/ ScreenPolls(c) \/ Serve(c)
     \/ Tick
  /\ UNCHANGED boardVars

-------------------------------------------------------------------------------
\* Reading the board.

\* The request takes its instant; its session and the clock come before the board.
Ask(r) ==
  /\ reader[r] = NoReader
  /\ reader' = [reader EXCEPT ![r] = [NoReader EXCEPT !.at = "asked", !.now = clock]]
  /\ UNCHANGED <<contestVars, roster, scores, pending, load, cache>>

Waits(r, l) == reader' = [reader EXCEPT ![r].at = "waiting", ![r].load = l]

\* loadScoringInput: share the cached load, finished or not, while it is young
\* enough, or start another and cache it at once.
Lookup(r) ==
  LET fresh == cache.load # Free /\ reader[r].now - cache.at < TTL IN
  /\ reader[r].at = "asked"
  /\ \/ fresh /\ Waits(r, cache.load) /\ UNCHANGED <<load, cache>>
     \/ /\ ~fresh
        /\ \E l \in Loads :
             /\ \A q \in Readers : reader[q].load # l
             /\ Waits(r, l)
             /\ cache' = [load |-> l, at |-> reader[r].now]
             /\ load' = [Kept(load, cache', reader') EXCEPT ![l] = [stage |-> "contest"]]
  /\ UNCHANGED <<contestVars, roster, scores, pending>>

\* The first query: the contest row, and the participants with it.
ReadContest(l) ==
  /\ load[l].stage = "contest"
  /\ load' = [load EXCEPT ![l] = [stage |-> "rows", contest |-> contest, roster |-> roster]]
  /\ UNCHANGED <<contestVars, roster, scores, pending, cache, reader>>

\* The second: the score log.
ReadScores(l) ==
  /\ load[l].stage = "rows"
  /\ load' = [load EXCEPT ![l] = [stage |-> "done", contest |-> load[l].contest,
                                  roster |-> load[l].roster, scores |-> scores]]
  /\ UNCHANGED <<contestVars, roster, scores, pending, cache, reader>>

\* A query fails: whoever waited gets an error, and the contest's cache entry
\* goes, whichever load it names by now.
LoadFails(l) ==
  /\ load[l].stage \in {"contest", "rows"}
  /\ cache' = NoEntry
  /\ reader' = [r \in Readers |-> IF reader[r].load = l THEN NoReader ELSE reader[r]]
  /\ load' = Kept(load, cache', reader')
  /\ UNCHANGED <<contestVars, roster, scores, pending>>

Ready(r) == reader[r].at = "waiting" /\ load[reader[r].load].stage = "done"

\* What the request is about to be sent.
Served(r) ==
  LET seen == load[reader[r].load] IN
  BoardAt(seen.roster, seen.scores, Cutoff(seen.contest, reader[r].now))

Answer(r) ==
  /\ Ready(r)
  /\ reader' = [reader EXCEPT ![r] = NoReader]
  /\ load' = Kept(load, cache, reader')
  /\ UNCHANGED <<contestVars, roster, scores, pending, cache>>

-------------------------------------------------------------------------------
\* The board and its readers.

BoardInit ==
  /\ roster \in [Players -> [joined : {Absent}, name : {CHOOSE n \in Names : TRUE}]]
  /\ scores = [p \in Players |-> <<>>]
  /\ pending = 0
  /\ load = [l \in Loads |-> NoLoad]
  /\ cache = NoEntry
  /\ reader = [r \in Readers |-> NoReader]

Init == ContestInit /\ BoardInit

Next ==
  \/ MoveContest
  \/ SetFrozen
  \/ Invalidate
  \/ \E p \in Players :
       \/ \E name \in Names : Join(p, name) \/ Rename(p, name)
       \/ Remove(p)
       \/ \E score \in Scores \union {Nothing} : Revise(p, score)
       \/ GiveUp(p)
  \/ \E r \in Readers : Ask(r) \/ Lookup(r) \/ Answer(r)
  \/ \E l \in Loads : ReadContest(l) \/ ReadScores(l) \/ LoadFails(l)

Spec == Init /\ [][Next]_vars

-------------------------------------------------------------------------------
\* Properties.

\* The shape of the state: a request waits only for a load that is under way or
\* done, and the cache names no other.
BoardTypeOK ==
  /\ ContestTypeOK
  /\ roster \in [Players -> Entries]
  /\ \A p \in Players : \A i \in 1 .. Len(scores[p]) : scores[p][i] \in Revisions
  /\ pending \in 0 .. MaxPending
  /\ \A l \in Loads : load[l].stage \in LoadStages \union {"none"}
  /\ \A l \in {cache.load} \union {reader[r].load : r \in Readers} :
       l # Free => l \in Loads /\ load[l].stage \in LoadStages

\* "A frozen board is a view of the whole contest at one instant": once the
\* clock is past the cutoff, no verdict, override, rejudge, late sign-in, rename
\* or removal changes a place, a name or a score on it until the reveal.
FrozenBoardStands ==
  [][(/\ PublicBoardFrozen(contest, clock) /\ PublicBoardFrozen(contest', clock')
      /\ contest'.freezeAt = contest.freezeAt
      /\ Cutoff(contest, clock) < clock)
     => PublicBoard' = PublicBoard]_vars

\* The board, live or as of any instant, scores both logs alike.
SameScores(logs1, logs2) ==
  \A p \in Players, upTo \in {Live} \union 0 .. MaxTime :
    ScoreAt(logs1[p], upTo) = ScoreAt(logs2[p], upTo)

\* A write that can change the board drops the cached input after it commits, and
\* a load is cached before it reads: so once no invalidation is outstanding, the
\* input a new request would share has missed no write to the roster, no freeze
\* or reveal of a contest that is still under way, and of the score log at most
\* the judge's own IE, which scores no submission differently at any cutoff.
CacheIsFresh ==
  (cache.load # Free /\ pending = 0) =>
    LET seen == load[cache.load] IN
    /\ seen.stage \in {"rows", "done"} =>
         /\ seen.roster = roster
         /\ {contest.state, seen.contest.state} \subseteq {"RUNNING", "FROZEN"}
              => seen.contest = contest
    /\ seen.stage = "done" => SameScores(seen.scores, scores)

\* A claim of the code's comments that the code does not keep.

\* cutoffFor, "Organizers always see live truth. The public board sees the
\* freeze point": while an organizer has the contest frozen, no public request is
\* sent a score that did not stand at the cutoff or before.
PublicSeesFreezePoint ==
  \A r \in Readers :
    Ready(r) /\ contest.state = "FROZEN" =>
      LET log(p) == load[reader[r].load].scores[p] IN
      \A p \in DOMAIN Served(r) :
        \/ Served(r)[p].score = Nothing
        \/ \E i \in 1 .. Len(log(p)) :
             log(p)[i].score = Served(r)[p].score /\ log(p)[i].at <= contest.freezeAt
===============================================================================
