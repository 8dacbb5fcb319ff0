---------------------------- MODULE Standings_proofs ---------------------------
(***************************************************************************)
(* The team board, for any teams, questions, runs, awards and rules, and   *)
(* a log of any length.                                                    *)
(*                                                                         *)
(* Past boards: a row of any table is dated by the clock when it is        *)
(* written, so what is on record up to an instant that has gone by, Kept,  *)
(* is all that its board reads, and no step changes it.                    *)
(*                                                                         *)
(* A second solve: a verdict changes what counts by one attempt.  One that *)
(* is worth no more than an earlier attempt at its question raises no      *)
(* best, is no rejection, and decides of no other attempt whether it does  *)
(* or is, so the team's replay comes out the same.                         *)
(***************************************************************************)
EXTENDS Standings, Sums, SequenceTheorems

-------------------------------------------------------------------------------
\* Sums.

LEMMA TotalIsSums ==
  ASSUME NEW f PROVE Total(f) = Sums(f)[DOMAIN f]
  BY SumIsSums DEF Total

LEMMA TotalIsNat ==
  ASSUME NEW f, IsFiniteSet(DOMAIN f), f \in [DOMAIN f -> Nat]
  PROVE  Total(f) \in Nat
  <1>1. 0 \in Nat /\ \A x, y \in Nat : x + y \in Nat
    OBVIOUS
  <1> QED BY <1>1, SumsStayIn, TotalIsSums

LEMMA TotalIsInt ==
  ASSUME NEW f, IsFiniteSet(DOMAIN f), f \in [DOMAIN f -> Int]
  PROVE  Total(f) \in Int
  <1>1. 0 \in Int /\ \A x, y \in Int : x + y \in Int
    OBVIOUS
  <1> QED BY <1>1, SumsStayIn, TotalIsSums

-------------------------------------------------------------------------------
\* The judge's answers.

Answers == [verdict : Verdicts \union {Tombstone}, score : Nat]

LEMMA VerdictsAre == Verdicts = {"IE", "CE", "RE", "MLE", "TLE", "WA", "AC"}
  BY DEF Verdicts, Range, Precedence

LEMMA MinIs ==
  ASSUME NEW a \in Int, NEW b \in Int
  PROVE  Min({a, b}) = IF a <= b THEN a ELSE b
  BY DEF Min

LEMMA AggregateIsVerdict ==
  ASSUME NEW run \in Runs
  PROVE  AggregateVerdict(run) \in Verdicts
  <1> DEFINE Place(v) == CHOOSE i \in DOMAIN Precedence : Precedence[i] = v
             places == {Place(run[t]) : t \in DOMAIN run}
  <1>1. CASE DOMAIN run = {}
    BY <1>1, VerdictsAre DEF AggregateVerdict
  <1>2. CASE DOMAIN run # {}
    <2>1. DOMAIN Precedence = 1 .. 7
      BY DEF Precedence
    <2>2. \A v \in Verdicts : Place(v) \in 1 .. 7
      BY <2>1 DEF Verdicts, Range
    <2>3. places \subseteq 1 .. 7 /\ places # {}
      <3>1. \A t \in DOMAIN run : run[t] \in Verdicts
        BY AnswersAssumption
      <3> HIDE DEF Place
      <3> QED BY <1>2, <2>2, <3>1
    <2> HIDE DEF places
    <2>4. \E i \in places : \A j \in places : i <= j
      BY <2>3, LeastNumber
    <2>5. Min(places) \in places
      BY <2>4 DEF Min
    <2>6. Precedence[Min(places)] \in Verdicts
      BY <2>1, <2>3, <2>5 DEF Verdicts, Range
    <2> QED BY <1>2, <2>6 DEF AggregateVerdict, places
  <1> QED BY <1>1, <1>2

LEMMA ScoresAreNat ==
  ASSUME NEW run \in Runs
  PROVE  AggregateScore(run) \in Nat /\ Achievable \in Nat
  <1> DEFINE accepted == {t \in DOMAIN run : run[t] = "AC"}
             earned == Restrict(Points, accepted)
  <1>1. Achievable \in Nat
    BY AnswersAssumption, TotalIsNat DEF Achievable
  <1>2. accepted \subseteq DOMAIN Points
    BY AnswersAssumption
  <1>3. DOMAIN earned = accepted /\ earned \in [DOMAIN earned -> Nat]
    BY <1>2, AnswersAssumption DEF Restrict
  <1>4. IsFiniteSet(DOMAIN earned)
    BY <1>2, <1>3, AnswersAssumption, FS_Subset
  <1>5. Total(earned) \in Nat
    <2> HIDE DEF earned
    <2> QED BY <1>3, <1>4, TotalIsNat
  <1> QED BY <1>1, <1>5 DEF AggregateScore

\* A part of a whole, rounded, is at most the whole.
LEMMA ShareIsBounded ==
  ASSUME NEW m \in Nat, NEW d \in Nat, NEW base \in Nat, d # 0, m <= d
  PROVE  DivideRounded(m * base, d) \in 0 .. base
  <1> DEFINE n == m * base
  <1>1. n \in Nat /\ n <= d * base /\ d * base \in Nat
    BY Z3
  <1> HIDE DEF n
  <1>2. 2 * n + d < 2 * d * (base + 1)
    <2>1. 2 * d * (base + 1) = 2 * (d * base) + 2 * d
      BY Z3
    <2> QED BY <1>1, <2>1
  <1>3. (2 * n + d) \div (2 * d) \in 0 .. base
    <2> DEFINE a == 2 * n + d
               b == 2 * d
    <2>1. a \in Nat /\ b \in Nat /\ b > 0 /\ a < b * (base + 1)
      BY <1>1, <1>2
    <2> HIDE DEF a, b
    <2>2. a \div b \in 0 .. base
      BY <2>1, Z3
    <2> QED BY <2>2 DEF a, b
  <1> QED BY <1>1, <1>3 DEF DivideRounded, n

\* What a judged answer is worth lies between nothing and the question's worth.
THEOREM JudgedWithinWorth ==
  ASSUME NEW run \in Runs, NEW q \in Problems
  PROVE  /\ Judged(run, q) \in Answers
         /\ Judged(run, q).score \in 0 .. Base[q]
         /\ Judged(run, q).verdict = "AC" => Judged(run, q).score = Base[q]
  <1> DEFINE raw == AggregateScore(run)
             base == Base[q]
             least == Min({raw, Achievable})
  <1>1. raw \in Nat /\ Achievable \in Nat /\ base \in Nat
    BY ScoresAreNat, StandingsAssumption
  <1>2. least \in Nat /\ least <= Achievable
    BY <1>1, MinIs
  <1>3. Achievable # 0 => DivideRounded(least * base, Achievable) \in 0 .. base
    <2> HIDE DEF least, base
    <2> QED BY <1>1, <1>2, ShareIsBounded
  <1>4. \A accepted \in BOOLEAN :
          /\ NormalizeJudgeScore(raw, Achievable, base, accepted) \in 0 .. base
          /\ accepted => NormalizeJudgeScore(raw, Achievable, base, accepted) = base
    <2> HIDE DEF raw, base
    <2> QED BY <1>1, <1>3 DEF NormalizeJudgeScore
  <1> DEFINE accepted == AggregateVerdict(run) = "AC"
             score == NormalizeJudgeScore(raw, Achievable, base, accepted)
  <1>5. score \in 0 .. base /\ (accepted => score = base)
    <2> HIDE DEF raw, base
    <2>1. accepted \in BOOLEAN
      OBVIOUS
    <2> HIDE DEF accepted
    <2> QED BY <1>4, <2>1
  <1>6. Judged(run, q) = [verdict |-> AggregateVerdict(run), score |-> score]
    BY DEF Judged
  <1> HIDE DEF score, base
  <1>7. score \in Nat
    BY <1>1, <1>5
  <1> QED BY <1>5, <1>6, <1>7, AggregateIsVerdict DEF Answers, base

-------------------------------------------------------------------------------
\* The log.

SubmissionRows == [who : People, problem : Problems, submitted : Nat]
RevisionRows == [of : Nat, at : Nat, verdict : Verdicts \union {Tombstone}, score : Nat]
AwardRows == [team : ScoredTeams, points : Awards, at : Nat]

StandingsInv ==
  /\ now \in Nat /\ submissions \in Seq(SubmissionRows)
  /\ log \in Seq(RevisionRows) /\ awards \in Seq(AwardRows)
  /\ \A s \in DOMAIN submissions : submissions[s].submitted <= now
  /\ left = [i \in 1 .. now |-> TeamStandings(i - 1)]

\* Rows only come at the end of a table, dated now.
LEMMA Appended ==
  ASSUME NEW S, NEW table \in Seq(S), NEW row \in S
  PROVE  LET more == Append(table, row) n == Len(table) + 1 IN
         /\ more \in Seq(S) /\ DOMAIN more = DOMAIN table \union {n} /\ n \notin DOMAIN table
         /\ DOMAIN table = 1 .. Len(table) /\ Len(table) \in Nat
         /\ more[n] = row /\ \A i \in DOMAIN table : more[i] = table[i]
  OBVIOUS

LEMMA RowsAre ==
  ASSUME NEW S, NEW table \in Seq(S), NEW i \in DOMAIN table
  PROVE  table[i] \in S
  OBVIOUS

\* A table gains at most a last row, of that instant.
Appends(table, more, time) ==
  \/ more = table
  \/ \E n : /\ DOMAIN more = DOMAIN table \union {n} /\ n \notin DOMAIN table
            /\ \A i \in DOMAIN table : more[i] = table[i] /\ i < n
            /\ n \in Nat /\ DOMAIN table \subseteq Nat
            /\ more[n].at = time

\* What a step does to the tables.
Extends ==
  /\ rules' = rules /\ now \in Nat /\ now' \in {now, now + 1}
  /\ Appends(log, log', now)
  /\ Appends(awards, awards', now)
  /\ \/ submissions' = submissions
     \/ \E n : /\ DOMAIN submissions' = DOMAIN submissions \union {n} /\ n \notin DOMAIN submissions
               /\ \A s \in DOMAIN submissions : submissions'[s] = submissions[s]
               /\ submissions'[n].submitted = now

LEMMA AnswersAppend ==
  ASSUME StandingsInv, NEW s \in DOMAIN submissions, NEW answer \in Answers,
         AppendRevision(s, answer)
  PROVE  /\ log' \in Seq(RevisionRows) /\ Appends(log, log', now)
         /\ UNCHANGED <<now, rules, submissions, awards, left>>
  <1> DEFINE row == [of |-> s, at |-> now, verdict |-> answer.verdict, score |-> answer.score]
  <1>1. row \in RevisionRows
    BY DEF StandingsInv, Answers, RevisionRows
  <1>2. log' = Append(log, row) /\ UNCHANGED <<now, rules, submissions, awards, left>>
    BY DEF AppendRevision
  <1>3. row.at = now
    OBVIOUS
  <1> HIDE DEF row
  <1>4. Appends(log, Append(log, row), now)
    <2> DEFINE n == Len(log) + 1
    <2>1. log \in Seq(RevisionRows)
      BY DEF StandingsInv
    <2>2. /\ DOMAIN Append(log, row) = DOMAIN log \union {n} /\ n \notin DOMAIN log
          /\ Append(log, row)[n] = row /\ n \in Nat /\ DOMAIN log \subseteq Nat
          /\ \A i \in DOMAIN log : Append(log, row)[i] = log[i] /\ i < n
      BY <1>1, <2>1, Appended
    <2> HIDE DEF n
    <2> QED BY <1>3, <2>2 DEF Appends
  <1>5. Append(log, row) \in Seq(RevisionRows)
    BY <1>1, Appended DEF StandingsInv
  <1> QED BY <1>2, <1>4, <1>5

LEMMA JudgeAppends ==
  ASSUME StandingsInv, NEW s \in DOMAIN submissions,
         \/ \E run \in Runs : PersistResult(s, run)
         \/ \E answer \in Overrides : OverrideVerdict(s, answer)
         \/ RejudgeSubmission(s)
  PROVE  \E answer \in Answers : AppendRevision(s, answer)
  <1>1. submissions[s].problem \in Problems
    <2>1. submissions \in Seq(SubmissionRows)
      BY DEF StandingsInv
    <2>2. submissions[s] \in SubmissionRows
      BY <2>1, RowsAre
    <2> QED BY <2>2 DEF SubmissionRows
  <1>2. Overrides \subseteq Answers
    BY AnswersAssumption DEF Answers
  <1>3. [verdict |-> Tombstone, score |-> 0] \in Answers
    BY DEF Answers
  <1>4. \A run \in Runs : Judged(run, submissions[s].problem) \in Answers
    BY <1>1, JudgedWithinWorth
  <1> QED BY <1>2, <1>3, <1>4 DEF PersistResult, OverrideVerdict, RejudgeSubmission

LEMMA StepExtends ==
  ASSUME StandingsInv, [StandingsNext]_standingsVars
  PROVE  /\ Extends
         /\ submissions' \in Seq(SubmissionRows) /\ log' \in Seq(RevisionRows)
         /\ awards' \in Seq(AwardRows)
         /\ \A s \in DOMAIN submissions' : submissions'[s].submitted <= now'
         /\ \/ UNCHANGED <<now, left>>
            \/ Passes /\ UNCHANGED <<rules, submissions, log, awards>>
  <1> USE DEF StandingsInv
  <1>1. CASE UNCHANGED standingsVars
    BY <1>1 DEF standingsVars, Extends, Appends
  <1>2. CASE Passes
    <2>1. now' = now + 1 /\ UNCHANGED <<rules, submissions, log, awards>>
      BY <1>2 DEF Passes
    <2>2. \A s \in DOMAIN submissions : submissions[s].submitted \in Nat
      <3> TAKE s \in DOMAIN submissions
      <3>1. submissions \in Seq(SubmissionRows)
        OBVIOUS
      <3>2. submissions[s] \in SubmissionRows
        BY <3>1, RowsAre
      <3> QED BY <3>2 DEF SubmissionRows
    <2>3. Extends
      BY <2>1 DEF Extends, Appends
    <2> QED BY <1>2, <2>1, <2>2, <2>3
  <1>3. ASSUME NEW p \in People, NEW q \in Problems, Submit(p, q)
        PROVE  /\ Extends /\ submissions' \in Seq(SubmissionRows)
               /\ UNCHANGED <<now, log, awards, left>>
               /\ \A s \in DOMAIN submissions' : submissions'[s].submitted <= now'
    <2> DEFINE row == [who |-> p, problem |-> q, submitted |-> now]
               n == Len(submissions) + 1
    <2>1. row \in SubmissionRows
      BY DEF SubmissionRows
    <2>2. submissions' = Append(submissions, row) /\ UNCHANGED <<now, rules, log, awards, left>>
      BY <1>3 DEF Submit
    <2>3. row.submitted = now
      OBVIOUS
    <2> HIDE DEF row
    <2>4. /\ DOMAIN submissions' = DOMAIN submissions \union {n} /\ n \notin DOMAIN submissions
          /\ submissions'[n] = row /\ submissions' \in Seq(SubmissionRows)
          /\ \A i \in DOMAIN submissions : submissions'[i] = submissions[i]
      BY <2>1, <2>2, Appended
    <2> HIDE DEF n
    <2>5. Extends
      BY <2>2, <2>3, <2>4 DEF Extends, Appends
    <2>6. \A s \in DOMAIN submissions' : submissions'[s].submitted <= now'
      BY <2>2, <2>3, <2>4
    <2> QED BY <2>2, <2>4, <2>5, <2>6
  <1>4. ASSUME NEW s \in DOMAIN submissions, NEW answer \in Answers, AppendRevision(s, answer)
        PROVE  /\ Extends /\ log' \in Seq(RevisionRows)
               /\ UNCHANGED <<now, submissions, awards, left>>
    <2>1. log' \in Seq(RevisionRows) /\ Appends(log, log', now) /\ UNCHANGED <<now, rules, submissions, awards, left>>
      BY <1>4, AnswersAppend
    <2>2. Extends
      <3> HIDE DEF StandingsInv
      <3>1. now \in Nat /\ Appends(awards, awards', now)
        BY <2>1 DEF StandingsInv, Appends
      <3> QED BY <2>1, <3>1 DEF Extends
    <2> QED BY <2>1, <2>2
  <1>5. ASSUME NEW t \in ScoredTeams, NEW points \in Awards, AwardSideActivity(t, points)
        PROVE  /\ Extends /\ awards' \in Seq(AwardRows)
               /\ UNCHANGED <<now, submissions, log, left>>
    <2> DEFINE row == [team |-> t, points |-> points, at |-> now]
               n == Len(awards) + 1
    <2>1. row \in AwardRows
      BY DEF AwardRows
    <2>2. awards' = Append(awards, row) /\ UNCHANGED <<now, rules, submissions, log, left>>
      BY <1>5 DEF AwardSideActivity
    <2>3. row.at = now
      OBVIOUS
    <2> HIDE DEF row
    <2>4. /\ DOMAIN awards' = DOMAIN awards \union {n} /\ n \notin DOMAIN awards
          /\ awards'[n] = row /\ awards' \in Seq(AwardRows) /\ n \in Nat /\ DOMAIN awards \subseteq Nat
          /\ \A i \in DOMAIN awards : awards'[i] = awards[i] /\ i < n
      BY <2>1, <2>2, Appended
    <2> HIDE DEF n
    <2>5. Appends(awards, awards', now)
      BY <2>3, <2>4 DEF Appends
    <2>6. Extends
      BY <2>2, <2>5 DEF Extends, Appends
    <2> QED BY <2>2, <2>4, <2>6
  <1> HIDE DEF StandingsInv
  <1>6. ASSUME NEW s \in DOMAIN submissions,
               \/ \E run \in Runs : PersistResult(s, run)
               \/ \E answer \in Overrides : OverrideVerdict(s, answer)
               \/ RejudgeSubmission(s)
        PROVE  \E answer \in Answers : AppendRevision(s, answer)
    BY <1>6, JudgeAppends
  <1> QED BY <1>1, <1>2, <1>3, <1>4, <1>5, <1>6 DEF StandingsNext, StandingsInv

-------------------------------------------------------------------------------
\* What is on record up to an instant, and stays so.

\* A table's rows up to u are the same before and after.
SameUpTo(table, more, u) ==
  /\ {j \in DOMAIN more : more[j].at <= u} = {j \in DOMAIN table : table[j].at <= u}
  /\ \A j \in DOMAIN table : table[j].at <= u => more[j] = table[j]

Kept(u) ==
  /\ rules' = rules /\ SameUpTo(log, log', u) /\ SameUpTo(awards, awards', u)
  /\ {s \in DOMAIN submissions' : submissions'[s].submitted <= u}
       = {s \in DOMAIN submissions : submissions[s].submitted <= u}
  /\ \A s \in DOMAIN submissions :
       submissions[s].submitted <= u => submissions'[s] = submissions[s]

LEMMA AppendsKeep ==
  ASSUME NEW table, NEW more, NEW time \in Nat, Appends(table, more, time),
         NEW u \in 0 .. time - 1
  PROVE  SameUpTo(table, more, u)
  <1>1. ~(time <= u)
    OBVIOUS
  <1>2. CASE more = table
    BY <1>2 DEF SameUpTo
  <1>3. ASSUME NEW n, DOMAIN more = DOMAIN table \union {n}, n \notin DOMAIN table,
               \A i \in DOMAIN table : more[i] = table[i], more[n].at = time
        PROVE  SameUpTo(table, more, u)
    BY <1>1, <1>3 DEF SameUpTo
  <1> QED BY <1>2, <1>3 DEF Appends

LEMMA PastIsKept ==
  ASSUME Extends, NEW u \in 0 .. now - 1 PROVE Kept(u)
  <1>1. now \in Nat /\ ~(now <= u)
    BY DEF Extends
  <1>2. SameUpTo(log, log', u) /\ SameUpTo(awards, awards', u)
    BY <1>1, AppendsKeep DEF Extends
  <1>3. CASE submissions' = submissions
    BY <1>2, <1>3 DEF Kept, Extends
  <1>4. ASSUME NEW n, DOMAIN submissions' = DOMAIN submissions \union {n},
               n \notin DOMAIN submissions, submissions'[n].submitted = now,
               \A s \in DOMAIN submissions : submissions'[s] = submissions[s]
        PROVE  Kept(u)
    BY <1>1, <1>2, <1>4 DEF Kept, Extends
  <1> QED BY <1>3, <1>4 DEF Extends

LEMMA UnchangedIsKept ==
  ASSUME UNCHANGED <<rules, submissions, log, awards>>, NEW u PROVE Kept(u)
  BY DEF Kept, SameUpTo

LEMMA KeptRevisions ==
  ASSUME NEW u, Kept(u), NEW s
  PROVE  RevisionsOf(s, u)' = RevisionsOf(s, u)
  <1> DEFINE old == {j \in DOMAIN log : log[j].of = s /\ log[j].at <= u}
             new == {j \in DOMAIN log' : log'[j].of = s /\ log'[j].at <= u}
  <1>2. new = old /\ \A j \in old : log'[j] = log[j]
    BY DEF Kept, SameUpTo
  <1>3. /\ RevisionsOf(s, u) = [i \in old |-> [verdict |-> log[i].verdict, score |-> log[i].score]]
        /\ RevisionsOf(s, u)' = [i \in new |-> [verdict |-> log'[i].verdict, score |-> log'[i].score]]
    BY DEF RevisionsOf
  <1> HIDE DEF old, new
  <1> QED BY <1>2, <1>3

LEMMA KeptWindow ==
  ASSUME NEW u, Kept(u)
  PROVE  SubmissionsInWindow(u)' = SubmissionsInWindow(u)
  <1> DEFINE old == {r \in DOMAIN submissions : /\ submissions[r].submitted <= u
                                                /\ IsScorable(Latest(r, u).verdict)}
             new == {r \in DOMAIN submissions' : /\ submissions'[r].submitted <= u
                                                 /\ IsScorable(Latest(r, u)'.verdict)}
             Counted(table, s, answer) ==
               [who |-> table[s].who, problem |-> table[s].problem,
                submitted |-> table[s].submitted,
                verdict |-> answer.verdict, score |-> answer.score]
  <1>2. \A s : Latest(s, u)' = Latest(s, u)
    BY KeptRevisions DEF Latest, LastOf
  <1>3. new = old /\ \A s \in old : submissions'[s] = submissions[s]
    BY <1>2 DEF Kept
  <1>4. /\ SubmissionsInWindow(u) = [s \in old |-> Counted(submissions, s, Latest(s, u))]
        /\ SubmissionsInWindow(u)' = [s \in new |-> Counted(submissions', s, Latest(s, u)')]
    BY DEF SubmissionsInWindow, IsScorable
  <1>5. \A s \in old : Counted(submissions', s, Latest(s, u)') = Counted(submissions, s, Latest(s, u))
    BY <1>2, <1>3
  <1> HIDE DEF old, new, Counted
  <1> QED BY <1>3, <1>4, <1>5

LEMMA KeptAwards ==
  ASSUME NEW u, Kept(u), NEW t
  PROVE  SideActivities(t, u)' = SideActivities(t, u)
  <1> DEFINE old == {j \in DOMAIN awards : awards[j].team = t /\ awards[j].at <= u}
             new == {j \in DOMAIN awards' : awards'[j].team = t /\ awards'[j].at <= u}
  <1>2. new = old /\ \A j \in old : awards'[j] = awards[j]
    BY DEF Kept, SameUpTo
  <1>3. /\ SideActivities(t, u) = [i \in old |-> awards[i].points]
        /\ SideActivities(t, u)' = [i \in new |-> awards'[i].points]
    BY DEF SideActivities
  <1> HIDE DEF old, new
  <1> QED BY <1>2, <1>3

\* A team's row is a function of what counts, of its awards and of the rules.
RowFrom(settings, attempts, side, t) ==
  Row(settings, [p \in MembersOf(t) |-> Individual(settings, p, attempts)],
      GroupOf(settings, t, attempts), Total(side))

LEMMA KeptBoard ==
  ASSUME NEW u, Kept(u)
  PROVE  TeamStandings(u)' = TeamStandings(u)
  <1>1. /\ \A t : TeamRow(t, u) = RowFrom(rules, SubmissionsInWindow(u), SideActivities(t, u), t)
        /\ \A t : TeamRow(t, u)' = RowFrom(rules', SubmissionsInWindow(u)', SideActivities(t, u)', t)
    BY DEF TeamRow, RowFrom
  <1>2. \A t : TeamRow(t, u)' = TeamRow(t, u)
    <2> TAKE t
    <2>1. rules' = rules /\ SubmissionsInWindow(u)' = SubmissionsInWindow(u)
          /\ SideActivities(t, u)' = SideActivities(t, u)
      BY KeptWindow, KeptAwards DEF Kept
    <2> QED BY <1>1, <2>1
  <1> DEFINE rows == [t \in ScoredTeams |-> TeamRow(t, u)]
  <1>3. rows' = rows
    BY <1>2
  <1>4. TeamStandings(u) = [row |-> rows, rank |-> RankDivision(rows)]
    BY DEF TeamStandings
  <1>5. TeamStandings(u)' = [row |-> rows', rank |-> RankDivision(rows')]
    BY DEF TeamStandings, RankDivision
  <1> QED BY <1>3, <1>4, <1>5

LEMMA LeftStep ==
  ASSUME StandingsInv, [StandingsNext]_standingsVars
  PROVE  left' = [i \in 1 .. now' |-> TeamStandings(i - 1)']
  <1>1. /\ Extends /\ now \in Nat
        /\ \/ UNCHANGED <<now, left>>
           \/ Passes /\ UNCHANGED <<rules, submissions, log, awards>>
    BY StepExtends DEF StandingsInv
  <1>2. left = [i \in 1 .. now |-> TeamStandings(i - 1)]
    BY DEF StandingsInv
  <1>3. \A i \in 1 .. now : TeamStandings(i - 1)' = TeamStandings(i - 1)
    <2> TAKE i \in 1 .. now
    <2>1. i - 1 \in 0 .. now - 1
      BY <1>1
    <2> DEFINE u == i - 1
    <2> HIDE DEF u
    <2>2. TeamStandings(u)' = TeamStandings(u)
      BY <1>1, <2>1, PastIsKept, KeptBoard DEF u
    <2> QED BY <2>2 DEF u
  <1>4. CASE UNCHANGED <<now, left>>
    BY <1>2, <1>3, <1>4
  <1>5. CASE Passes /\ UNCHANGED <<rules, submissions, log, awards>>
    <2> DEFINE today == TeamStandings(now)
               S == {TeamStandings(i - 1) : i \in 1 .. now} \union {today}
               more == Append(left, today)
    <2>1. now' = now + 1 /\ left' = more
      BY <1>5 DEF Passes
    <2>2. left \in Seq(S) /\ today \in S /\ Len(left) = now
      BY <1>1, <1>2
    <2>3. /\ more \in Seq(S) /\ DOMAIN more = 1 .. now + 1
          /\ more[now + 1] = today /\ \A i \in 1 .. now : more[i] = left[i]
      <3> HIDE DEF S, today
      <3>1. Append(left, today) \in Seq(S) /\ Len(Append(left, today)) = Len(left) + 1
            /\ Append(left, today)[Len(left) + 1] = today
            /\ \A i \in 1 .. Len(left) : Append(left, today)[i] = left[i]
        BY <2>2, AppendProperties
      <3>2. DOMAIN more = 1 .. Len(more)
        BY <3>1
      <3> QED BY <2>2, <3>1, <3>2
    <2>4. \A u : u = now => TeamStandings(u)' = today
      BY <1>5, UnchangedIsKept, KeptBoard
    <2>5. \A i \in 1 .. now' : more[i] = TeamStandings(i - 1)'
      <3> TAKE i \in 1 .. now'
      <3>1. CASE i = now + 1
        <4>1. PICK u : u = i - 1
          OBVIOUS
        <4>2. TeamStandings(u)' = today
          BY <1>1, <2>4, <3>1, <4>1
        <4> QED BY <2>3, <3>1, <4>1, <4>2
      <3>2. CASE i # now + 1
        <4>1. i \in 1 .. now
          BY <1>1, <2>1, <3>2
        <4> QED BY <1>2, <1>3, <2>3, <4>1
      <3> QED BY <3>1, <3>2
    <2>6. more = [i \in DOMAIN more |-> more[i]]
      <3>1. \E n \in Nat : more \in [1 .. n -> S]
        <4> HIDE DEF more, S
        <4> QED BY <2>3, SeqDef
      <3> HIDE DEF more, S
      <3> QED BY <3>1
    <2> HIDE DEF more, today, S
    <2> QED BY <2>1, <2>3, <2>5, <2>6
  <1> QED BY <1>1, <1>4, <1>5

LEMMA StandingsInvStep ==
  ASSUME StandingsInv, [StandingsNext]_standingsVars PROVE StandingsInv'
  BY StepExtends, LeftStep DEF StandingsInv, Extends

LEMMA StandingsInvariant == StandingsSpec => []StandingsInv
  <1>1. StandingsInit => StandingsInv
    <2> SUFFICES ASSUME StandingsInit PROVE StandingsInv
      OBVIOUS
    <2>1. /\ now = 0 /\ submissions = <<>> /\ log = <<>> /\ awards = <<>> /\ left = <<>>
      BY DEF StandingsInit
    <2>2. left = [i \in 1 .. now |-> TeamStandings(i - 1)]
      BY <2>1
    <2> QED BY <2>1, <2>2 DEF StandingsInv
  <1> QED BY <1>1, StandingsInvStep, PTL DEF StandingsSpec

\* The board as of an instant that has gone by keeps every score, penalty, last gain
\* and place, whatever is written later.
THEOREM StandingsPastBoardsStand == StandingsSpec => []PastBoardsStand
  <1>1. StandingsInv => PastBoardsStand
    BY DEF StandingsInv, PastBoardsStand
  <1> QED BY <1>1, StandingsInvariant, PTL

-------------------------------------------------------------------------------
\* One more attempt that is worth no more than an earlier one of its question.

LEMMA MaxOfMore ==
  ASSUME NEW S \in SUBSET Int, NEW x \in Int, NEW y \in S, x <= y
  PROVE  Max(S \union {x}) = Max(S)
  <1>1. \A m : (m \in S \union {x} /\ \A n \in S \union {x} : m >= n)
               <=> (m \in S /\ \A n \in S : m >= n)
    <2> TAKE m
    <2>1. CASE m \in S
      BY <2>1
    <2>2. CASE m \notin S
      BY <2>2
    <2> QED BY <2>1, <2>2
  <1> QED BY <1>1 DEF Max

\* b has one attempt more than a: s, accepted, and worth no more than e before it.
OneMore(settings, a, b, s, e) ==
  /\ DOMAIN b = DOMAIN a \union {s} /\ s \notin DOMAIN a /\ DOMAIN b \subseteq Nat
  /\ \A k \in DOMAIN a : b[k] = a[k]
  /\ \A k \in DOMAIN b : Worth(settings, b[k]) \in Nat
  /\ e \in DOMAIN a /\ e < s
  /\ b[s].problem = a[e].problem
  /\ b[s].verdict = "AC" /\ Worth(settings, b[s]) <= Worth(settings, a[e])
  /\ settings.icpc => Worth(settings, a[e]) = 1

LEMMA OneMoreBest ==
  ASSUME NEW settings, NEW a, NEW b, NEW s, NEW e, OneMore(settings, a, b, s, e), NEW q
  PROVE  Best(settings, b, q) = Best(settings, a, q)
  <1> USE DEF OneMore
  <1> DEFINE old == {0} \union {Worth(settings, a[k]) : k \in AttemptsOn(a, q)}
             new == {0} \union {Worth(settings, b[k]) : k \in AttemptsOn(b, q)}
             w == Worth(settings, b[s])
  <1>1. CASE q # b[s].problem
    <2>1. AttemptsOn(b, q) = AttemptsOn(a, q)
      BY <1>1 DEF AttemptsOn
    <2>2. \A k \in AttemptsOn(a, q) : Worth(settings, b[k]) = Worth(settings, a[k])
      BY DEF AttemptsOn
    <2>3. new = old
      BY <2>1, <2>2
    <2> QED BY <2>3 DEF Best
  <1>2. CASE q = b[s].problem
    <2>1. AttemptsOn(b, q) = AttemptsOn(a, q) \union {s} /\ e \in AttemptsOn(a, q)
      BY <1>2 DEF AttemptsOn
    <2>2. \A k \in AttemptsOn(a, q) : /\ Worth(settings, b[k]) = Worth(settings, a[k])
                                      /\ Worth(settings, a[k]) \in Nat
      BY DEF AttemptsOn
    <2>3. new = old \union {w}
      BY <2>1, <2>2
    <2>4. old \in SUBSET Int /\ w \in Int /\ Worth(settings, a[e]) \in old
      BY <2>1, <2>2
    <2>5. w <= Worth(settings, a[e])
      OBVIOUS
    <2> HIDE DEF old, new, w, OneMore
    <2>6. Max(new) = Max(old)
      BY <2>3, <2>4, <2>5, MaxOfMore
    <2> QED BY <2>6 DEF Best, old, new
  <1> QED BY <1>1, <1>2

LEMMA OneMoreRaises ==
  ASSUME NEW settings, NEW a, NEW b, NEW s, NEW e, OneMore(settings, a, b, s, e)
  PROVE  Raises(settings, b) = Raises(settings, a)
  <1> DEFINE W(k) == Worth(settings, b[k])
             old == {k \in DOMAIN a : /\ W(k) > 0
                                      /\ \A j \in DOMAIN a : b[j].problem = b[k].problem /\ j < k => W(j) < W(k)}
             new == {k \in DOMAIN b : /\ W(k) > 0
                                      /\ \A j \in DOMAIN b : b[j].problem = b[k].problem /\ j < k => W(j) < W(k)}
  <1>1. Raises(settings, a) = old /\ Raises(settings, b) = new
    BY DEF Raises, Before, AttemptsOn, OneMore
  <1>2. /\ DOMAIN b = DOMAIN a \union {s} /\ s \notin DOMAIN a /\ DOMAIN b \subseteq Nat
        /\ \A k \in DOMAIN b : W(k) \in Nat
        /\ e \in DOMAIN a /\ e < s /\ b[s].problem = b[e].problem /\ W(s) <= W(e)
    BY DEF OneMore
  <1> HIDE DEF W
  <1>3. s \notin new
    BY <1>2
  <1>4. ASSUME NEW k \in DOMAIN a PROVE k \in new <=> k \in old
    <2>1. k \in new => k \in old
      BY <1>2
    <2>2. ASSUME k \in old PROVE k \in new
      <3>1. ASSUME b[s].problem = b[k].problem, s < k PROVE W(s) < W(k)
        <4>1. e < k /\ b[e].problem = b[k].problem
          BY <1>2, <3>1
        <4>2. W(e) < W(k)
          BY <1>2, <2>2, <4>1
        <4> QED BY <1>2, <4>2
      <3> QED BY <1>2, <2>2, <3>1
    <2> QED BY <2>1, <2>2
  <1>5. new \subseteq DOMAIN b /\ old \subseteq DOMAIN a
    OBVIOUS
  <1> HIDE DEF old, new
  <1> QED BY <1>1, <1>2, <1>3, <1>4, <1>5

LEMMA OneMoreCharged ==
  ASSUME NEW settings, NEW a, NEW b, NEW s, NEW e, OneMore(settings, a, b, s, e)
  PROVE  Charged(settings, b) = Charged(settings, a)
  <1> DEFINE W(k) == Worth(settings, b[k])
             InTime(d, k) == settings.icpc =>
               \A j \in d : b[j].problem = b[k].problem /\ j < k => W(j) = 0
             Scored(d, k) == \E j \in d : b[j].problem = b[k].problem /\ W(j) > 0
             Costs(d) == {k \in d : IsRejection(b[k].verdict) /\ Scored(d, k) /\ InTime(d, k)}
  <1>1. Charged(settings, a) = Costs(DOMAIN a) /\ Charged(settings, b) = Costs(DOMAIN b)
    <2>1. Charged(settings, b) = Costs(DOMAIN b)
      BY DEF Charged, Before, AttemptsOn
    <2>2. \A k \in DOMAIN a : b[k] = a[k]
      BY DEF OneMore
    <2>3. Charged(settings, a) = Costs(DOMAIN a)
      BY <2>2 DEF Charged, Before, AttemptsOn, OneMore
    <2> QED BY <2>1, <2>3
  <1>2. /\ DOMAIN b = DOMAIN a \union {s} /\ s \notin DOMAIN a /\ DOMAIN b \subseteq Nat
        /\ \A k \in DOMAIN b : W(k) \in Nat
        /\ e \in DOMAIN a /\ e < s /\ b[s].problem = b[e].problem /\ W(s) <= W(e)
        /\ ~IsRejection(b[s].verdict) /\ (settings.icpc => W(e) = 1)
    BY DEF OneMore, IsRejection
  <1> HIDE DEF W
  <1>3. ASSUME NEW k \in DOMAIN a
        PROVE  /\ Scored(DOMAIN b, k) <=> Scored(DOMAIN a, k)
               /\ InTime(DOMAIN b, k) <=> InTime(DOMAIN a, k)
    <2>1. W(s) > 0 => W(e) > 0
      BY <1>2
    <2>2. Scored(DOMAIN b, k) <=> Scored(DOMAIN a, k)
      BY <1>2, <2>1
    <2>3. InTime(DOMAIN b, k) => InTime(DOMAIN a, k)
      BY <1>2
    <2>4. ASSUME InTime(DOMAIN a, k), settings.icpc,
                 b[s].problem = b[k].problem, s < k
          PROVE  FALSE
      <3>1. e < k /\ b[e].problem = b[k].problem
        BY <1>2, <2>4
      <3> QED BY <1>2, <2>4, <3>1
    <2>5. InTime(DOMAIN a, k) => InTime(DOMAIN b, k)
      BY <1>2, <2>4
    <2> QED BY <2>2, <2>3, <2>5
  <1>4. s \notin Costs(DOMAIN b)
    BY <1>2
  <1>5. \A k \in DOMAIN a : k \in Costs(DOMAIN b) <=> k \in Costs(DOMAIN a)
    <2> TAKE k \in DOMAIN a
    <2>1. k \in DOMAIN b
      BY <1>2
    <2> HIDE DEF Scored, InTime
    <2> QED BY <1>3, <2>1
  <1>6. Costs(DOMAIN b) \subseteq DOMAIN b /\ Costs(DOMAIN a) \subseteq DOMAIN a
    OBVIOUS
  <1> HIDE DEF Costs
  <1> QED BY <1>1, <1>2, <1>4, <1>5, <1>6

LEMMA OneMoreReplays ==
  ASSUME NEW settings, NEW a, NEW b, NEW s, NEW e, OneMore(settings, a, b, s, e)
  PROVE  Replay(settings, b) = Replay(settings, a)
  <1>1. [q \in Problems |-> Best(settings, b, q)] = [q \in Problems |-> Best(settings, a, q)]
    BY OneMoreBest
  <1>2. Charged(settings, b) = Charged(settings, a)
    BY OneMoreCharged
  <1>3. {b[k].submitted : k \in Raises(settings, b)} = {a[k].submitted : k \in Raises(settings, a)}
    <2>1. Raises(settings, b) = Raises(settings, a)
      BY OneMoreRaises
    <2>2. \A k \in Raises(settings, a) : b[k] = a[k]
      BY DEF Raises, OneMore
    <2> QED BY <2>1, <2>2
  <1> QED BY <1>1, <1>2, <1>3 DEF Replay

-------------------------------------------------------------------------------
\* A second solve.

LEMMA LatestIsAnswer ==
  ASSUME StandingsInv, NEW s
  PROVE  Latest(s, now) \in Answers
  <1> DEFINE rows == {j \in DOMAIN log : log[j].of = s /\ log[j].at <= now}
  <1>1. log \in Seq(RevisionRows) /\ Len(log) \in Nat /\ DOMAIN log = 1 .. Len(log)
    BY DEF StandingsInv
  <1>2. \A i \in DOMAIN log : log[i] \in RevisionRows
    BY <1>1, RowsAre
  <1>3. DOMAIN RevisionsOf(s, now) = rows
    BY DEF RevisionsOf
  <1>4. CASE rows = {}
    BY <1>3, <1>4 DEF Latest, LastOf, Answers
  <1>5. CASE rows # {}
    <2>1. Max(rows) \in rows
      <3>1. rows \in SUBSET (1 .. Len(log)) /\ rows \in SUBSET Int
        BY <1>1
      <3>2. IsFiniteSet(rows)
        <4> HIDE DEF rows
        <4>1. IsFiniteSet(1 .. Len(log))
          BY <1>1, FS_Interval
        <4> QED BY <3>1, <4>1, FS_Subset
      <3> HIDE DEF rows
      <3> QED BY <1>5, <3>1, <3>2, MaxIsIn
    <2>2. RevisionsOf(s, now)[Max(rows)] =
            [verdict |-> log[Max(rows)].verdict, score |-> log[Max(rows)].score]
      BY <2>1 DEF RevisionsOf
    <2>3. log[Max(rows)] \in RevisionRows
      BY <1>2, <2>1
    <2>4. RevisionsOf(s, now)[Max(rows)] \in Answers
      BY <2>2, <2>3 DEF RevisionRows, Answers
    <2> HIDE DEF rows
    <2> QED BY <1>3, <1>5, <2>4 DEF Latest, LastOf
  <1> QED BY <1>4, <1>5

LEMMA LatestIsAnswerNext == StandingsInv' => \A s : Latest(s, now)' \in Answers
  <1>1. StandingsInv => \A s : Latest(s, now) \in Answers
    BY LatestIsAnswer
  <1>2. StandingsInv' => (\A s : Latest(s, now) \in Answers)'
    BY <1>1, PTL
  <1> QED BY <1>2

\* The log grows by an answer to one submission; the others keep their latest.
LEMMA LogGrows ==
  ASSUME StandingsInv, [StandingsNext]_standingsVars, log' # log
  PROVE  /\ UNCHANGED <<now, rules, submissions, awards>>
         /\ \E r \in DOMAIN submissions : \A s : s # r => Latest(s, now)' = Latest(s, now)
  <1>1. PICK r \in DOMAIN submissions, answer \in Answers : AppendRevision(r, answer)
    <2>1. ~Passes /\ log' # log /\ ~UNCHANGED standingsVars
      BY DEF Passes, standingsVars
    <2> QED BY <2>1, JudgeAppends DEF StandingsNext, Submit, AwardSideActivity
  <1> DEFINE row == [of |-> r, at |-> now, verdict |-> answer.verdict, score |-> answer.score]
             n == Len(log) + 1
  <1>2. log' = Append(log, row) /\ UNCHANGED <<now, rules, submissions, awards, left>>
    BY <1>1 DEF AppendRevision
  <1>3. row \in RevisionRows /\ row.of = r
    BY DEF StandingsInv, Answers, RevisionRows
  <1> HIDE DEF row
  <1>4. /\ DOMAIN log' = DOMAIN log \union {n} /\ n \notin DOMAIN log /\ log'[n].of = r
        /\ \A i \in DOMAIN log : log'[i] = log[i]
    BY <1>2, <1>3, Appended DEF StandingsInv
  <1>5. ASSUME NEW s, s # r PROVE Latest(s, now)' = Latest(s, now)
    <2> DEFINE old == {j \in DOMAIN log : log[j].of = s /\ log[j].at <= now}
               new == {j \in DOMAIN log' : log'[j].of = s /\ log'[j].at <= now'}
    <2>1. new = old /\ \A j \in old : log'[j] = log[j]
      BY <1>2, <1>4, <1>5
    <2>2. /\ RevisionsOf(s, now) = [i \in old |-> [verdict |-> log[i].verdict, score |-> log[i].score]]
          /\ RevisionsOf(s, now)' = [i \in new |-> [verdict |-> log'[i].verdict, score |-> log'[i].score]]
      BY DEF RevisionsOf
    <2>3. RevisionsOf(s, now)' = RevisionsOf(s, now)
      <3> HIDE DEF old, new
      <3> QED BY <2>1, <2>2
    <2> QED BY <2>3 DEF Latest, LastOf
  <1> QED BY <1>2, <1>5

\* What counts after a submission got its verdict.
LEMMA WindowGrows ==
  ASSUME StandingsInv, UNCHANGED <<now, submissions>>, NEW s \in DOMAIN submissions,
         ~IsScorable(Latest(s, now).verdict), IsScorable(Latest(s, now)'.verdict),
         \A k : k # s => Latest(k, now)' = Latest(k, now)
  PROVE  LET a == SubmissionsInWindow(now) b == SubmissionsInWindow(now)' IN
         /\ DOMAIN b = DOMAIN a \union {s} /\ s \notin DOMAIN a
         /\ \A k \in DOMAIN a : b[k] = a[k]
         /\ b[s] = [who |-> submissions[s].who, problem |-> submissions[s].problem,
                    submitted |-> submissions[s].submitted,
                    verdict |-> Latest(s, now)'.verdict, score |-> Latest(s, now)'.score]
  <1> DEFINE old == {r \in DOMAIN submissions : /\ submissions[r].submitted <= now
                                                /\ IsScorable(Latest(r, now).verdict)}
             new == {r \in DOMAIN submissions : /\ submissions[r].submitted <= now
                                                /\ IsScorable(Latest(r, now)'.verdict)}
             Counted(k, answer) ==
               [who |-> submissions[k].who, problem |-> submissions[k].problem,
                submitted |-> submissions[k].submitted,
                verdict |-> answer.verdict, score |-> answer.score]
  <1>1. new = old \union {s} /\ s \notin old
    BY DEF StandingsInv
  <1>2. /\ SubmissionsInWindow(now) = [k \in old |-> Counted(k, Latest(k, now))]
        /\ SubmissionsInWindow(now)' = [k \in new |-> Counted(k, Latest(k, now)')]
    BY DEF SubmissionsInWindow, IsScorable
  <1>3. \A k \in old : Counted(k, Latest(k, now)') = Counted(k, Latest(k, now))
    BY <1>1
  <1>4. Counted(s, Latest(s, now)') =
          [who |-> submissions[s].who, problem |-> submissions[s].problem,
           submitted |-> submissions[s].submitted,
           verdict |-> Latest(s, now)'.verdict, score |-> Latest(s, now)'.score]
    OBVIOUS
  <1> HIDE DEF old, new, Counted
  <1> QED BY <1>1, <1>2, <1>3, <1>4

\* The attempts that count for a team on its group questions, and for a member alone.
TeamsOwn(t, attempts) ==
  {k \in DOMAIN attempts : TeamOf[attempts[k].who] = t /\ attempts[k].problem \in Group}
OnesOwn(p, attempts) ==
  {k \in DOMAIN attempts : attempts[k].who = p /\ attempts[k].problem \notin Group}

\* A team's row before and after a step, when only what counts of its group differs.
LEMMA RowStands ==
  ASSUME UNCHANGED <<now, rules, awards>>, NEW t,
         \A p : Individual(rules, p, SubmissionsInWindow(now)')
                  = Individual(rules, p, SubmissionsInWindow(now)),
         GroupOf(rules, t, SubmissionsInWindow(now)') = GroupOf(rules, t, SubmissionsInWindow(now))
  PROVE  TeamRow(t, now)' = TeamRow(t, now)
  <1> DEFINE a == SubmissionsInWindow(now)
             b == SubmissionsInWindow(now)'
             side == SideActivities(t, now)
  <1>1. /\ TeamRow(t, now) = RowFrom(rules, a, side, t)
        /\ TeamRow(t, now)' = RowFrom(rules', b, side', t)
    BY DEF TeamRow, RowFrom
  <1>2. side' = side
    BY DEF SideActivities
  <1>3. [p \in MembersOf(t) |-> Individual(rules, p, b)] = [p \in MembersOf(t) |-> Individual(rules, p, a)]
    OBVIOUS
  <1>4. RowFrom(rules, b, side, t) = RowFrom(rules, a, side, t)
    <2> HIDE DEF side
    <2> QED BY <1>3 DEF RowFrom
  <1> QED BY <1>1, <1>2, <1>4

\* The step of the theorem below: what counts gains s, of which a member's own attempts
\* see nothing, and the team's replay comes out as if it were not there.
LEMMA SecondSolveStep ==
  ASSUME StandingsInv, [StandingsNext]_standingsVars,
         NEW t \in ScoredTeams, NEW q \in Group,
         NEW s \in DOMAIN submissions, NEW e \in DOMAIN submissions,
         log' # log, e < s, ~IsScorable(CurrentVerdict(s)), Solves(s, t, q, 0)',
         Solves(e, t, q, Latest(s, now).score')
  PROVE  TeamRow(t, now)' = TeamRow(t, now)
  <1> DEFINE a == SubmissionsInWindow(now)
             b == SubmissionsInWindow(now)'
             answer == Latest(s, now)'
  <1>1. UNCHANGED <<now, rules, submissions, awards>>
    BY LogGrows
  <1>2. PICK r \in DOMAIN submissions : \A k : k # r => Latest(k, now)' = Latest(k, now)
    BY LogGrows
  <1>3. ~IsScorable(Latest(s, now).verdict)
    BY DEF CurrentVerdict, Latest
  <1>4. /\ submissions[s].problem = q /\ TeamOf[submissions[s].who] = t
        /\ answer.verdict = "AC"
    BY <1>1 DEF Solves
  <1>5. /\ submissions[e].problem = q /\ TeamOf[submissions[e].who] = t
        /\ Latest(e, now).verdict = "AC" /\ Latest(e, now).score >= answer.score
    BY DEF Solves
  <1>6. IsScorable("AC") /\ r = s
    BY <1>2, <1>3, <1>4 DEF IsScorable, Tombstone
  <1>7. /\ DOMAIN b = DOMAIN a \union {s} /\ s \notin DOMAIN a
        /\ \A k \in DOMAIN a : b[k] = a[k]
        /\ b[s].who = submissions[s].who /\ b[s].problem = q
        /\ b[s].verdict = "AC" /\ b[s].score = answer.score
    <2>1. IsScorable(Latest(s, now)'.verdict) /\ \A k : k # s => Latest(k, now)' = Latest(k, now)
      BY <1>2, <1>4, <1>6
    <2>2. UNCHANGED <<now, submissions>>
      BY <1>1
    <2>3. /\ DOMAIN b = DOMAIN a \union {s} /\ s \notin DOMAIN a
          /\ \A k \in DOMAIN a : b[k] = a[k]
          /\ b[s] = [who |-> submissions[s].who, problem |-> submissions[s].problem,
                     submitted |-> submissions[s].submitted,
                     verdict |-> Latest(s, now)'.verdict, score |-> Latest(s, now)'.score]
      BY <1>3, <2>1, <2>2, WindowGrows
    <2> HIDE DEF a, b
    <2> QED BY <1>4, <2>3
  <1>8. /\ e \in DOMAIN a /\ TeamOf[a[e].who] = t /\ a[e].problem = q
        /\ a[e].verdict = "AC" /\ a[e].score >= answer.score
    <2>1. submissions[e].submitted <= now
      BY DEF StandingsInv
    <2> QED BY <1>5, <1>6, <2>1 DEF SubmissionsInWindow
  <1>9. /\ DOMAIN b \subseteq Nat
        /\ \A k \in DOMAIN b : b[k].score \in Nat
    <2>1. DOMAIN submissions' \subseteq Nat /\ \A k : Latest(k, now)' \in Answers
      <3>1. StandingsInv'
        BY StandingsInvStep
      <3>2. DOMAIN submissions \subseteq Nat
        BY DEF StandingsInv
      <3> QED BY <1>1, <3>1, <3>2, LatestIsAnswerNext
    <2> QED
      BY <2>1 DEF SubmissionsInWindow, Answers
  <1> HIDE DEF a, b, answer
  <1>10. \A p : Individual(rules, p, b) = Individual(rules, p, a)
    <2> TAKE p
    <2>1. OnesOwn(p, b) = OnesOwn(p, a) /\ \A k \in OnesOwn(p, a) : b[k] = a[k]
      BY <1>7 DEF OnesOwn
    <2>2. Restrict(b, OnesOwn(p, b)) = Restrict(a, OnesOwn(p, a))
      BY <2>1 DEF Restrict
    <2> QED BY <2>2 DEF Individual, OnesOwn
  <1>11. GroupOf(rules, t, b) = GroupOf(rules, t, a)
    <2> DEFINE ga == Restrict(a, TeamsOwn(t, a))
               gb == Restrict(b, TeamsOwn(t, b))
    <2>1. /\ TeamsOwn(t, b) = TeamsOwn(t, a) \union {s} /\ e \in TeamsOwn(t, a)
          /\ s \notin TeamsOwn(t, a) /\ TeamsOwn(t, b) \subseteq DOMAIN b
          /\ TeamsOwn(t, a) \subseteq DOMAIN a
      BY <1>4, <1>7, <1>8 DEF TeamsOwn
    <2>2. /\ DOMAIN ga = TeamsOwn(t, a) /\ DOMAIN gb = TeamsOwn(t, b)
          /\ \A k \in TeamsOwn(t, a) : ga[k] = a[k]
          /\ \A k \in TeamsOwn(t, b) : gb[k] = b[k]
      BY DEF Restrict
    <2> HIDE DEF ga, gb
    <2>3. \A k \in DOMAIN gb : Worth(rules, gb[k]) \in Nat
      BY <1>9, <2>1, <2>2 DEF Worth
    <2>4. Worth(rules, gb[s]) <= Worth(rules, ga[e]) /\ (rules.icpc => Worth(rules, ga[e]) = 1)
      BY <1>7, <1>8, <1>9, <2>1, <2>2 DEF Worth
    <2>5. OneMore(rules, ga, gb, s, e)
      BY <1>7, <1>8, <1>9, <2>1, <2>2, <2>3, <2>4 DEF OneMore
    <2> QED BY <2>5, OneMoreReplays DEF GroupOf, TeamsOwn, ga, gb
  <1> QED BY <1>1, <1>10, <1>11, RowStands DEF a, b

\* A teammate's later solve of a group question, worth no more, leaves the team's row.
THEOREM StandingsSecondSolve == StandingsSpec => SecondSolveChangesNothing
  <1>1. StandingsInv /\ [StandingsNext]_standingsVars =>
          \A t \in ScoredTeams, q \in Group, s, earlier \in DOMAIN submissions :
            (/\ log' # log /\ earlier < s
             /\ ~IsScorable(CurrentVerdict(s)) /\ Solves(s, t, q, 0)'
             /\ Solves(earlier, t, q, Latest(s, now).score'))
            => TeamRow(t, now)' = TeamRow(t, now)
    BY SecondSolveStep
  <1> QED BY <1>1, StandingsInvariant, PTL DEF StandingsSpec, SecondSolveChangesNothing

-------------------------------------------------------------------------------
\* Places.

BoardRows == [score : Int, penalty : Int, last : Int]

LEMMA AheadIsOrder ==
  ASSUME NEW a \in BoardRows, NEW b \in BoardRows, NEW c \in BoardRows
  PROVE  /\ ~Ahead(a, a)
         /\ Ahead(a, b) /\ Ahead(b, c) => Ahead(a, c)
         /\ Ahead(a, b) => ~Ahead(b, a)
         /\ Ahead(c, a) /\ ~Ahead(b, a) => Ahead(c, b)
  BY DEF Ahead, BoardRows

\* A team is placed before another exactly when it is ahead of it, whatever the rows.
THEOREM RanksFollowRows ==
  ASSUME NEW teams, IsFiniteSet(teams), NEW rows \in [teams -> BoardRows],
         NEW t \in teams, NEW u \in teams
  PROVE  /\ RankDivision(rows)[t] \in 1 .. Cardinality(teams)
         /\ RankDivision(rows)[t] < RankDivision(rows)[u] <=> Ahead(rows[t], rows[u])
  <1> DEFINE AheadOf(x) == {v \in teams : Ahead(rows[v], rows[x])}
             rank == RankDivision(rows)
  <1>1. \A x \in teams : /\ rank[x] = 1 + Cardinality(AheadOf(x))
                         /\ IsFiniteSet(AheadOf(x)) /\ Cardinality(AheadOf(x)) \in Nat
                         /\ AheadOf(x) \subseteq teams \ {x}
    <2> TAKE x \in teams
    <2>1. rank[x] = 1 + Cardinality(AheadOf(x))
      BY DEF RankDivision
    <2>2. AheadOf(x) \subseteq teams \ {x}
      BY AheadIsOrder
    <2> HIDE DEF AheadOf
    <2>3. IsFiniteSet(AheadOf(x)) /\ Cardinality(AheadOf(x)) \in Nat
      BY <2>2, FS_Subset, FS_CardinalityType
    <2> QED BY <2>1, <2>2, <2>3
  <1>2. rank[t] \in 1 .. Cardinality(teams)
    <2> DEFINE others == teams \ {t}
    <2>1. /\ IsFiniteSet(others) /\ Cardinality(others) = Cardinality(teams) - 1
          /\ Cardinality(teams) \in Nat /\ Cardinality(others) \in Nat
      BY FS_RemoveElement, FS_CardinalityType
    <2>2. AheadOf(t) \in SUBSET others
      BY <1>1
    <2> HIDE DEF others, AheadOf, rank
    <2>3. Cardinality(AheadOf(t)) <= Cardinality(others)
      BY <2>1, <2>2, FS_Subset
    <2> QED BY <1>1, <2>1, <2>3
  <1>3. ASSUME NEW x \in teams, NEW y \in teams, ~Ahead(rows[y], rows[x])
        PROVE  /\ rank[x] <= rank[y]
               /\ Ahead(rows[x], rows[y]) => rank[x] < rank[y]
    <2>1. AheadOf(x) \subseteq AheadOf(y)
      BY <1>3, AheadIsOrder
    <2>2. Ahead(rows[x], rows[y]) => AheadOf(x) # AheadOf(y)
      BY AheadIsOrder
    <2> HIDE DEF AheadOf, rank
    <2>3. /\ Cardinality(AheadOf(x)) <= Cardinality(AheadOf(y))
          /\ Cardinality(AheadOf(x)) = Cardinality(AheadOf(y)) => AheadOf(x) = AheadOf(y)
      BY <1>1, <2>1, FS_Subset
    <2> QED BY <1>1, <2>2, <2>3
  <1>4. CASE Ahead(rows[t], rows[u])
    <2>1. ~Ahead(rows[u], rows[t])
      BY <1>4, AheadIsOrder
    <2>2. rank[t] < rank[u]
      BY <1>3, <1>4, <2>1
    <2> QED BY <1>2, <1>4, <2>2
  <1>5. CASE ~Ahead(rows[t], rows[u])
    <2>1. rank[u] <= rank[t]
      BY <1>3, <1>5
    <2>2. rank[u] \in Nat /\ rank[t] \in Nat
      <3> HIDE DEF AheadOf, rank
      <3> QED BY <1>1
    <2> HIDE DEF rank
    <2> QED BY <1>2, <1>5, <2>1, <2>2 DEF rank
  <1> HIDE DEF rank
  <1> QED BY <1>2, <1>4, <1>5 DEF rank

\* Of the instants up to one, the last.
LEMMA LastIsInstant ==
  ASSUME NEW n \in Nat, NEW gains \in SUBSET (0 .. n \union {Never})
  PROVE  Last(gains) \in 0 .. n \union {Never}
  <1> DEFINE kept == gains \ {Never}
  <1>1. CASE gains \subseteq {Never}
    BY <1>1 DEF Last
  <1>2. CASE ~(gains \subseteq {Never})
    <2>1. kept \in SUBSET (0 .. n) /\ kept # {}
      BY <1>2
    <2> HIDE DEF kept
    <2>2. kept \in SUBSET Int
      BY <2>1
    <2>3. IsFiniteSet(0 .. n)
      BY FS_Interval
    <2>4. IsFiniteSet(kept)
      BY <2>1, <2>3, FS_Subset
    <2>5. Max(kept) \in kept
      BY <2>1, <2>2, <2>4, MaxIsIn
    <2> QED BY <1>2, <2>1, <2>5 DEF Last, kept
  <1> QED BY <1>1, <1>2

LEMMA RoundedIsInt ==
  ASSUME NEW n \in Int, NEW d \in Nat PROVE DivideRounded(n, d) \in Int
  <1>1. \A a \in Int, b \in Nat : b > 0 => a \div b \in Int
    OBVIOUS
  <1>2. CASE d = 0
    BY <1>2 DEF DivideRounded
  <1>3. CASE d # 0
    <2>1. 2 * d \in Nat /\ 2 * d > 0 /\ 2 * n + d \in Int /\ -2 * n + d \in Int
      BY <1>3
    <2> QED BY <1>1, <1>3, <2>1 DEF DivideRounded
  <1> QED BY <1>2, <1>3

\* Attempts made by an instant, and what a replay of them comes to.
Attempts(n) ==
  [who : People, problem : Problems, submitted : 0 .. n,
   verdict : Verdicts \union {Tombstone}, score : Nat]

Results(n) == [score : Nat, penalty : Nat, last : 0 .. n \union {Never}]

LEMMA ReplayIsResult ==
  ASSUME NEW n \in Nat, NEW settings, NEW a, a \in [DOMAIN a -> Attempts(n)], IsFiniteSet(DOMAIN a)
  PROVE  Replay(settings, a) \in Results(n)
  <1>1. \A k \in DOMAIN a : Worth(settings, a[k]) \in Nat /\ a[k].submitted \in 0 .. n
    BY DEF Worth, Attempts
  <1>2. ASSUME NEW q PROVE Best(settings, a, q) \in Nat
    <2> DEFINE W == [k \in AttemptsOn(a, q) |-> Worth(settings, a[k])]
               worths == {W[k] : k \in DOMAIN W}
    <2>1. DOMAIN W \in SUBSET DOMAIN a
      BY DEF AttemptsOn
    <2>2. worths \in SUBSET Nat
      BY <1>1, <2>1
    <2>3. Best(settings, a, q) = Max(worths \union {0})
      <3>1. {0} \union {Worth(settings, a[k]) : k \in AttemptsOn(a, q)} = worths \union {0}
        OBVIOUS
      <3> QED BY <3>1 DEF Best
    <2> HIDE DEF W
    <2>4. IsFiniteSet(worths)
      BY <2>1, FS_Subset, ImageIsFinite
    <2> HIDE DEF worths
    <2>5. IsFiniteSet(worths \union {0})
      BY <2>4, FS_AddElement
    <2>6. Max(worths \union {0}) \in worths \union {0}
      BY <2>2, <2>5, MaxIsIn
    <2> QED BY <2>2, <2>3, <2>6
  <1>3. Total([q \in Problems |-> Best(settings, a, q)]) \in Nat
    <2> DEFINE bests == [q \in Problems |-> Best(settings, a, q)]
    <2>1. bests \in [DOMAIN bests -> Nat] /\ DOMAIN bests = Problems
      BY <1>2
    <2> HIDE DEF bests
    <2> QED BY <2>1, TotalIsNat, StandingsAssumption DEF bests
  <1>4. Cardinality(Charged(settings, a)) \in Nat
    BY FS_Subset, FS_CardinalityType DEF Charged
  <1>5. Last({a[k].submitted : k \in Raises(settings, a)}) \in 0 .. n \union {Never}
    <2> DEFINE gains == {a[k].submitted : k \in Raises(settings, a)}
    <2>1. gains \in SUBSET (0 .. n \union {Never})
      BY <1>1 DEF Raises
    <2> HIDE DEF gains
    <2> QED BY <2>1, LastIsInstant DEF gains
  <1> QED BY <1>3, <1>4, <1>5 DEF Replay, Results

LEMMA RowIsBoardRow ==
  ASSUME NEW n \in Nat, NEW settings, NEW members, IsFiniteSet(members),
         NEW own \in [members -> Results(n)], NEW group \in Results(n), NEW side \in Int
  PROVE  Row(settings, own, group, side) \in BoardRows
  <1> DEFINE size == Cardinality(members)
             scores == [p \in members |-> own[p].score]
             penalties == [p \in members |-> own[p].penalty]
             gains == {own[p].last : p \in members} \union {group.last}
             pool == 100 * (Total(scores) + IF settings.inMean THEN group.score ELSE 0)
             flat == IF settings.flat THEN 100 * side ELSE DivideRounded(100 * side, size)
             kept == IF settings.inMean THEN 0 ELSE 100 * group.score
  <1>1. /\ \A p \in members : /\ own[p].score \in Nat /\ own[p].penalty \in Nat
                              /\ own[p].last \in 0 .. n \union {Never}
        /\ group.score \in Nat /\ group.penalty \in Nat /\ group.last \in 0 .. n \union {Never}
    BY DEF Results
  <1>2. size \in Nat
    BY FS_CardinalityType
  <1>3. Total(scores) \in Nat /\ Total(penalties) \in Nat
    <2>1. /\ DOMAIN scores = members /\ scores \in [members -> Nat]
          /\ DOMAIN penalties = members /\ penalties \in [members -> Nat]
      BY <1>1
    <2> HIDE DEF scores, penalties
    <2> QED BY <2>1, TotalIsNat
  <1>4. Last(gains) \in 0 .. n \union {Never}
    <2>1. gains \in SUBSET (0 .. n \union {Never})
      BY <1>1
    <2> HIDE DEF gains
    <2> QED BY <2>1, LastIsInstant
  <1>5. Row(settings, own, group, side) =
          [score |-> DivideRounded(pool, size) + kept + flat,
           penalty |-> Total(penalties) + group.penalty, last |-> Last(gains)]
    BY DEF Row
  <1> HIDE DEF size, scores, penalties, gains
  <1>6. pool \in Int /\ 100 * side \in Int /\ kept \in Int
    BY <1>1, <1>3
  <1>7. DivideRounded(pool, size) \in Int /\ flat \in Int
    <2> HIDE DEF pool
    <2> QED BY <1>2, <1>6, RoundedIsInt
  <1> HIDE DEF pool, flat, kept
  <1>8. Last(gains) \in Int
    <2>1. Never \in Int
      BY StandingsAssumption DEF Never
    <2> QED BY <1>4, <2>1
  <1> QED BY <1>1, <1>3, <1>5, <1>6, <1>7, <1>8 DEF BoardRows

LEMMA WindowIsAttempts ==
  ASSUME StandingsInv
  PROVE  LET a == SubmissionsInWindow(now) IN
         a \in [DOMAIN a -> Attempts(now)] /\ IsFiniteSet(DOMAIN a)
  <1> DEFINE a == SubmissionsInWindow(now)
             counted == {r \in DOMAIN submissions : /\ submissions[r].submitted <= now
                                                    /\ IsScorable(Latest(r, now).verdict)}
  <1>1. submissions \in Seq(SubmissionRows) /\ now \in Nat
    BY DEF StandingsInv
  <1>2. \A s \in DOMAIN submissions : submissions[s] \in SubmissionRows
    BY <1>1, RowsAre
  <1>3. IsFiniteSet(DOMAIN submissions)
    BY <1>1, FS_Interval
  <1>4. \A s : Latest(s, now) \in Answers
    BY LatestIsAnswer
  <1>5. \A s \in counted :
          [who |-> submissions[s].who, problem |-> submissions[s].problem,
           submitted |-> submissions[s].submitted,
           verdict |-> Latest(s, now).verdict, score |-> Latest(s, now).score] \in Attempts(now)
    BY <1>1, <1>2, <1>4 DEF SubmissionRows, Answers, Attempts
  <1>6. a = [s \in counted |->
               [who |-> submissions[s].who, problem |-> submissions[s].problem,
                submitted |-> submissions[s].submitted,
                verdict |-> Latest(s, now).verdict, score |-> Latest(s, now).score]]
    BY DEF SubmissionsInWindow
  <1>7. IsFiniteSet(counted)
    BY <1>3, FS_Subset
  <1> HIDE DEF a, counted
  <1> QED BY <1>5, <1>6, <1>7 DEF a

LEMMA BoardIsTyped ==
  ASSUME StandingsInv, NEW t \in ScoredTeams
  PROVE  TeamRow(t, now) \in BoardRows
  <1> DEFINE a == SubmissionsInWindow(now)
             own == [p \in MembersOf(t) |-> Individual(rules, p, a)]
             side == SideActivities(t, now)
  <1>1. now \in Nat /\ a \in [DOMAIN a -> Attempts(now)] /\ IsFiniteSet(DOMAIN a)
    BY WindowIsAttempts DEF StandingsInv
  <1>2. ASSUME NEW kept \in SUBSET DOMAIN a
        PROVE  Replay(rules, Restrict(a, kept)) \in Results(now)
    <2> HIDE DEF a
    <2> DEFINE part == Restrict(a, kept)
    <2>1. DOMAIN part = kept /\ \A k \in kept : part[k] = a[k]
      BY DEF Restrict
    <2>2. part \in [DOMAIN part -> Attempts(now)] /\ IsFiniteSet(DOMAIN part)
      BY <1>1, <2>1, FS_Subset DEF Restrict
    <2> HIDE DEF part
    <2> QED BY <1>1, <2>2, ReplayIsResult DEF part
  <1>3. own \in [MembersOf(t) -> Results(now)] /\ GroupOf(rules, t, a) \in Results(now)
    <2>1. \A p : Individual(rules, p, a) \in Results(now)
      <3> TAKE p
      <3>1. OnesOwn(p, a) \in SUBSET DOMAIN a
        BY DEF OnesOwn
      <3> QED BY <1>2, <3>1 DEF Individual, OnesOwn
    <2>2. TeamsOwn(t, a) \in SUBSET DOMAIN a
      BY DEF TeamsOwn
    <2>3. GroupOf(rules, t, a) \in Results(now)
      BY <1>2, <2>2 DEF GroupOf, TeamsOwn
    <2> HIDE DEF a
    <2> QED BY <2>1, <2>3
  <1>4. IsFiniteSet(MembersOf(t))
    BY StandingsAssumption, FS_Subset DEF MembersOf
  <1>5. Total(side) \in Int
    <2>1. awards \in Seq(AwardRows) /\ IsFiniteSet(DOMAIN awards)
      BY FS_Interval DEF StandingsInv
    <2>2. \A i \in DOMAIN awards : awards[i].points \in Int
      <3> TAKE i \in DOMAIN awards
      <3>1. awards[i] \in AwardRows
        BY <2>1, RowsAre
      <3> QED BY <3>1, AnswersAssumption DEF AwardRows
    <2>3. DOMAIN side \in SUBSET DOMAIN awards /\ side \in [DOMAIN side -> Int]
      BY <2>2 DEF SideActivities
    <2> HIDE DEF side
    <2>4. IsFiniteSet(DOMAIN side)
      BY <2>1, <2>3, FS_Subset
    <2> QED BY <2>3, <2>4, TotalIsInt
  <1>6. TeamRow(t, now) = Row(rules, own, GroupOf(rules, t, a), Total(side))
    BY DEF TeamRow
  <1> HIDE DEF own, side, a
  <1> QED BY <1>1, <1>3, <1>4, <1>5, <1>6, RowIsBoardRow

\* What a place says of the rows: of two teams the one ahead is placed before, and
\* level teams share a place, that of the first of as many as there are teams.
PlacesFollowRows ==
  \A t, u \in ScoredTeams :
    LET board == TeamStandings(now) IN
    /\ board.rank[t] \in 1 .. Cardinality(ScoredTeams)
    /\ board.rank[t] < board.rank[u] <=> Ahead(board.row[t], board.row[u])

\* Places follow rows on every board the program computes.
THEOREM StandingsPlaces == StandingsSpec => []PlacesFollowRows
  <1>1. ASSUME StandingsInv PROVE PlacesFollowRows
    <2> DEFINE rows == [t \in ScoredTeams |-> TeamRow(t, now)]
    <2>1. rows \in [ScoredTeams -> BoardRows]
      BY <1>1, BoardIsTyped
    <2>2. TeamStandings(now) = [row |-> rows, rank |-> RankDivision(rows)]
      BY DEF TeamStandings
    <2> HIDE DEF rows
    <2>3. TeamStandings(now).row = rows /\ TeamStandings(now).rank = RankDivision(rows)
      BY <2>2
    <2> QED BY <2>1, <2>3, StandingsAssumption, RanksFollowRows DEF PlacesFollowRows
  <1> QED BY <1>1, StandingsInvariant, PTL
===============================================================================
