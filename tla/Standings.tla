------------------------------- MODULE Standings ------------------------------
(***************************************************************************)
(* From the judge's tests to the places on the team board.                 *)
(*                                                                         *)
(* Nothing of a board is stored: lib/scoring replays the log of judged     *)
(* submissions each time, as of any instant it is asked about.  A          *)
(* submission has several revisions (a verdict, an override, a rejudge's   *)
(* tombstone, the next verdict); a player's own questions count for the    *)
(* player, a group question counts once for the whole team, and the mean   *)
(* of what a team's members have, with what was awarded off screen, ranks  *)
(* it.  Points are whole, team scores hundredths of a point.  No code      *)
(* grants hints, so their deduction, always zero, is left out; the roster  *)
(* stands still (Board moves it).                                          *)
(***************************************************************************)
EXTENDS Integers, Sequences, FiniteSets, Functions, FiniteSetsExt

CONSTANTS
  People, ScoredTeams, TeamOf,        \* who plays for which team
  Problems, Group, Base,              \* the questions, the team's, what each is worth
  Points,                             \* what each test of a question is worth
  Runs,                               \* what the judge may find: tests to verdicts
  Overrides, Awards,                  \* what organizers may enter by hand
  Rules,                              \* the contest's settings: [icpc, inMean, flat]
  MaxSubmissions, MaxScoreRevisions, MaxAwards,  \* bounds the log
  Horizon                             \* the last instant looked at

ASSUME StandingsAssumption ==
  /\ IsFiniteSet(People) /\ IsFiniteSet(ScoredTeams) /\ IsFiniteSet(Problems)
  /\ TeamOf \in [People -> ScoredTeams] /\ Group \subseteq Problems
  /\ Base \in [Problems -> Nat] /\ Horizon \in Nat

VARIABLES
  now,        \* the clock
  rules,      \* one of Rules
  submissions,  \* Seq([who, problem, at]), in the order of (submittedAt, id)
  log,        \* Seq([of, at, verdict, score]), the SubmissionScoreRevision rows
  awards,     \* Seq([team, points, at]), the TeamSideActivity rows
  left        \* history: the board as it stood when the clock left each instant

standingsVars == <<now, rules, submissions, log, awards, left>>

-------------------------------------------------------------------------------
\* The judge's result.

Tombstone == "unjudged"
Precedence == <<"IE", "CE", "RE", "MLE", "TLE", "WA", "AC">>   \* worst first
Verdicts == Range(Precedence)

\* What the schemas let in: whole points of no less than none, verdicts of the
\* question's own tests.
ASSUME AnswersAssumption ==
  /\ IsFiniteSet(DOMAIN Points) /\ Points \in [DOMAIN Points -> Nat]
  /\ \A run \in Runs : DOMAIN run \subseteq DOMAIN Points /\ run \in [DOMAIN run -> Verdicts]
  /\ Overrides \subseteq [verdict : Verdicts, score : Nat] /\ Awards \subseteq Int

AggregateVerdict(run) ==
  IF DOMAIN run = {} THEN "IE"
  ELSE Precedence[Min({CHOOSE i \in DOMAIN Precedence : Precedence[i] = run[t] :
                         t \in DOMAIN run})]

\* The sum of a function's values.
Total(f) == MapThenSumSet(LAMBDA x : f[x], DOMAIN f)

AggregateScore(run) ==
  IF AggregateVerdict(run) = "IE" THEN 0
  ELSE Total(Restrict(Points, {t \in DOMAIN run : run[t] = "AC"}))

\* The half rounds away from zero.
DivideRounded(n, d) ==
  IF d = 0 THEN 0 ELSE IF n < 0 THEN -((-2 * n + d) \div (2 * d)) ELSE (2 * n + d) \div (2 * d)

\* An accepted answer has the question's full worth, whatever its tests add up to.
NormalizeJudgeScore(raw, achievable, base, accepted) ==
  IF accepted THEN base
  ELSE IF raw = 0 \/ achievable = 0 \/ base = 0 THEN 0
  ELSE DivideRounded(Min({raw, achievable}) * base, achievable)

Achievable == Total(Points)

Judged(run, problem) ==
  LET verdict == AggregateVerdict(run) IN
  [verdict |-> verdict,
   score |-> NormalizeJudgeScore(AggregateScore(run), Achievable, Base[problem], verdict = "AC")]

IsScorable(verdict) == verdict \notin {Tombstone, "IE"}
IsRejection(verdict) == verdict \notin {"AC", "IE"}

-------------------------------------------------------------------------------
\* Replaying the log.

\* What is known of a submission at an instant: the revisions that exist.
RevisionsOf(s, upTo) ==
  [i \in {j \in DOMAIN log : log[j].of = s /\ log[j].at <= upTo} |->
     [verdict |-> log[i].verdict, score |-> log[i].score]]

\* Of these the last; the answer of none is that there is none.
LastOf(revisions) ==
  IF DOMAIN revisions = {} THEN [verdict |-> Tombstone, score |-> 0]
  ELSE revisions[Max(DOMAIN revisions)]

\* Mutant: the last revision there is, counted if it is old enough.
LatestOfAll(s, upTo) ==
  LastOf(Restrict(RevisionsOf(s, upTo),
                  {i \in DOMAIN RevisionsOf(s, upTo) : i = Max(DOMAIN RevisionsOf(s, now))}))

Latest(s, upTo) == LastOf(RevisionsOf(s, upTo))

\* submissionsInWindow: what counts, by the submissions' order, oldest first.
SubmissionsInWindow(upTo) ==
  [s \in {r \in DOMAIN submissions : /\ submissions[r].submitted <= upTo
                                     /\ IsScorable(Latest(r, upTo).verdict)} |->
     [who |-> submissions[s].who, problem |-> submissions[s].problem,
      submitted |-> submissions[s].submitted,
      verdict |-> Latest(s, upTo).verdict, score |-> Latest(s, upTo).score]]

Never == Horizon + 1      \* no score yet ranks behind every instant

Last(gains) == IF gains \subseteq {Never} THEN Never ELSE Max(gains \ {Never})

Worth(settings, a) ==
  IF settings.icpc THEN (IF a.verdict = "AC" THEN 1 ELSE 0) ELSE a.score

\* The attempts on question q, and of these what is worth most.
AttemptsOn(attempts, q) == {k \in DOMAIN attempts : attempts[k].problem = q}

Best(settings, attempts, q) ==
  Max({0} \union {Worth(settings, attempts[k]) : k \in AttemptsOn(attempts, q)})

Before(attempts, k) == {j \in AttemptsOn(attempts, attempts[k].problem) : j < k}

\* Attempts that raise the best of their question.
Raises(settings, attempts) ==
  {k \in DOMAIN attempts :
     /\ Worth(settings, attempts[k]) > 0
     /\ \A j \in Before(attempts, k) : Worth(settings, attempts[j]) < Worth(settings, attempts[k])}

\* Rejections that cost minutes: on a question that was scored in the end, and in
\* ICPC only before the solve.
Charged(settings, attempts) ==
  {k \in DOMAIN attempts :
     /\ IsRejection(attempts[k].verdict)
     /\ \E j \in AttemptsOn(attempts, attempts[k].problem) : Worth(settings, attempts[j]) > 0
     /\ settings.icpc => \A j \in Before(attempts, k) : Worth(settings, attempts[j]) = 0}

\* scoreClassic and scoreIcpc: the best of each question, the minutes, and the
\* instant of the last attempt that raised a best.
Replay(settings, attempts) ==
  [score |-> Total([q \in Problems |-> Best(settings, attempts, q)]),
   penalty |-> Cardinality(Charged(settings, attempts)) * IF settings.icpc THEN 20 ELSE 5,
   last |-> Last({attempts[k].submitted : k \in Raises(settings, attempts)})]

-------------------------------------------------------------------------------
\* The rows of the team board, from the attempts that count.

MembersOf(t) == {p \in People : TeamOf[p] = t}

Individual(settings, p, attempts) ==
  Replay(settings,
         Restrict(attempts, {k \in DOMAIN attempts :
                               attempts[k].who = p /\ attempts[k].problem \notin Group}))

\* Mutant: each member's group attempts are replayed apart and the best kept.
GroupByMember(settings, t, attempts) ==
  LET Of(p) == Replay(settings, Restrict(attempts, {k \in DOMAIN attempts :
                                   attempts[k].who = p /\ attempts[k].problem \in Group}))
  IN  [score |-> Max({0} \union {Of(p).score : p \in MembersOf(t)}),
       penalty |-> Total([p \in MembersOf(t) |-> Of(p).penalty]),
       last |-> Last({Of(p).last : p \in MembersOf(t)})]

\* The team's group attempts are replayed as if one player had made them all.
GroupOf(settings, t, attempts) ==
  Replay(settings,
         Restrict(attempts, {k \in DOMAIN attempts :
                               TeamOf[attempts[k].who] = t /\ attempts[k].problem \in Group}))

\* What team t was awarded, each award by its place in the table.
SideActivities(t, upTo) ==
  [i \in {j \in DOMAIN awards : awards[j].team = t /\ awards[j].at <= upTo} |-> awards[i].points]

\* The mean of what the members have and the team earned together, to a hundredth.
Row(settings, own, group, side) ==
  LET size == Cardinality(DOMAIN own)
      pool == 100 * (Total([p \in DOMAIN own |-> own[p].score])
                     + IF settings.inMean THEN group.score ELSE 0)
  IN  [score |-> DivideRounded(pool, size)
                 + (IF settings.inMean THEN 0 ELSE 100 * group.score)
                 + (IF settings.flat THEN 100 * side ELSE DivideRounded(100 * side, size)),
       penalty |-> Total([p \in DOMAIN own |-> own[p].penalty]) + group.penalty,
       last |-> Last({own[p].last : p \in DOMAIN own} \union {group.last})]

TeamRow(t, upTo) ==
  LET attempts == SubmissionsInWindow(upTo) IN
  Row(rules, [p \in MembersOf(t) |-> Individual(rules, p, attempts)],
      GroupOf(rules, t, attempts), Total(SideActivities(t, upTo)))

-------------------------------------------------------------------------------
\* Places.

Ahead(a, b) ==
  \/ a.score > b.score
  \/ a.score = b.score /\ a.penalty < b.penalty
  \/ a.score = b.score /\ a.penalty = b.penalty /\ a.last < b.last

\* rankDivision: level rows share a rank, and the ranks they take up are skipped.
RankDivision(rows) ==
  [t \in DOMAIN rows |-> 1 + Cardinality({u \in DOMAIN rows : Ahead(rows[u], rows[t])})]

\* computeTeamStandings: each team's score, penalty, last gain and place.
TeamStandings(upTo) ==
  LET rows == [t \in ScoredTeams |-> TeamRow(t, upTo)] IN
  [row |-> rows, rank |-> RankDivision(rows)]

-------------------------------------------------------------------------------
\* The writers.  All but Submit hold the contest's lock and read their instant
\* under it; Submit's is its request's, and an unjudged row counts for nothing.

\* A submission's row holds its last revision's answer; none is dated later than now.
CurrentVerdict(s) == LastOf(RevisionsOf(s, now)).verdict

Submit(p, q) ==
  /\ Len(submissions) < MaxSubmissions
  /\ submissions' = Append(submissions, [who |-> p, problem |-> q, submitted |-> now])
  /\ UNCHANGED <<now, rules, log, awards, left>>

AppendRevision(s, answer) ==
  /\ Len(log) < MaxScoreRevisions
  /\ log' = Append(log, [of |-> s, at |-> now, verdict |-> answer.verdict, score |-> answer.score])
  /\ UNCHANGED <<now, rules, submissions, awards, left>>

\* persistResult: a verdict stands, unless it is the judge's own failure.
PersistResult(s, run) ==
  /\ CurrentVerdict(s) \in {Tombstone, "IE"}
  /\ AppendRevision(s, Judged(run, submissions[s].problem))

OverrideVerdict(s, answer) == AppendRevision(s, answer)

RejudgeSubmission(s) ==
  CurrentVerdict(s) # Tombstone /\ AppendRevision(s, [verdict |-> Tombstone, score |-> 0])

AwardSideActivity(t, points) ==
  /\ Len(awards) < MaxAwards
  /\ awards' = Append(awards, [team |-> t, points |-> points, at |-> now])
  /\ UNCHANGED <<now, rules, submissions, log, left>>

Passes ==
  /\ now < Horizon
  /\ now' = now + 1
  /\ left' = Append(left, TeamStandings(now))
  /\ UNCHANGED <<rules, submissions, log, awards>>

StandingsInit ==
  /\ now = 0
  /\ rules \in Rules
  /\ submissions = <<>> /\ log = <<>> /\ awards = <<>> /\ left = <<>>

StandingsNext ==
  \/ Passes
  \/ \E p \in People, q \in Problems : Submit(p, q)
  \/ \E s \in DOMAIN submissions :
       \/ \E run \in Runs : PersistResult(s, run)
       \/ \E answer \in Overrides : OverrideVerdict(s, answer)
       \/ RejudgeSubmission(s)
  \/ \E t \in ScoredTeams, points \in Awards : AwardSideActivity(t, points)

StandingsSpec == StandingsInit /\ [][StandingsNext]_standingsVars

-------------------------------------------------------------------------------
\* Properties.

\* "recomputing standings from the raw submission log": whatever is judged,
\* overridden, sent back or awarded later, the board as of an instant that has
\* gone by keeps every score, penalty, last gain and place it had.
PastBoardsStand == \A then \in 0 .. now - 1 : TeamStandings(then) = left[then + 1]

\* Submission s is an answer of team t to question q, accepted for that much.
Solves(s, t, q, score) ==
  /\ submissions[s].problem = q /\ TeamOf[submissions[s].who] = t
  /\ Latest(s, now).verdict = "AC" /\ Latest(s, now).score >= score

\* "a second teammate's equal AC is not another team score increase": a verdict
\* that accepts an answer to a group question changes nothing of the team's row
\* when a teammate's earlier answer, or one's own, was accepted for no less.
SecondSolveChangesNothing ==
  [][\A t \in ScoredTeams, q \in Group, s, earlier \in DOMAIN submissions :
       (/\ log' # log /\ earlier < s
        /\ ~IsScorable(CurrentVerdict(s)) /\ Solves(s, t, q, 0)'
        /\ Solves(earlier, t, q, Latest(s, now).score'))
       => TeamRow(t, now)' = TeamRow(t, now)]_standingsVars
===============================================================================
