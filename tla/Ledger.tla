-------------------------------- MODULE Ledger --------------------------------
(***************************************************************************)
(* The submission ledger: the Submission rows of the contest database, the *)
(* append-only SubmissionScoreRevision log behind each row, its TestResult *)
(* rows, and the transactions that change them.                            *)
(*                                                                         *)
(* Every transaction here takes the contest's advisory lock (locks.ts),    *)
(* re-reads the row and only then writes, so each one is a single atomic   *)
(* step.  What may happen between two of them is the subject of Judging,   *)
(* whose request handlers call these transactions; what a legal sequence   *)
(* of them promises is LedgerSpec, which Judging implements.               *)
(*                                                                         *)
(* An answer is the score-bearing part of a row.  The score, the run time  *)
(* and the log pointer all come with the answer they belong to, so the     *)
(* model keeps only the verdict, who wrote it and, for a judge's answer,   *)
(* which enqueued run it reports.                                          *)
(***************************************************************************)
EXTENDS Naturals, Sequences

CONSTANTS
  Submissions,     \* submission ids
  JudgeVerdicts    \* what a judge run may say of a program: AC, WA, ..., not IE

ASSUME SubmissionsAssumption == Submissions # {}
ASSUME VerdictsAssumption == "IE" \notin JudgeVerdicts /\ "null" \notin JudgeVerdicts

VARIABLES
  status,       \* [Submissions -> {"absent", "present", "deleted"}], the row itself
  answer,       \* the row's current verdict, as an answer
  revisions,    \* the row's SubmissionScoreRevision log, oldest first
  tests,        \* which answer's TestResult rows are stored
  generation    \* how many times the row has been sent back to the judge

ledgerVars == <<status, answer, revisions, tests, generation>>

-------------------------------------------------------------------------------
\* Answers.

\* The Verdict enum, IE included: IE is the judge's own failure.
Verdicts == JudgeVerdicts \union {"IE"}

Authors == {"nobody", "judge", "giveup", "admin", "legacy"}

Answers == [verdict : Verdicts \union {"null"}, by : Authors, run : Nat]

\* A row nobody has judged, which is also what a rejudge leaves behind.
Unjudged == [verdict |-> "null", by |-> "nobody", run |-> 0]

\* A judge run's own answer, and the IE written when no run will answer.
JudgeAnswer(v, n) == [verdict |-> v, by |-> "judge", run |-> n]
GiveUpAnswer == [verdict |-> "IE", by |-> "giveup", run |-> 0]
AdminAnswer(v) == [verdict |-> v, by |-> "admin", run |-> 0]

\* Written by a process of the previous release, which keeps no revision log.
\* It differs in verdict or score from every answer of this release.
LegacyAnswer(v) == [verdict |-> v, by |-> "legacy", run |-> 0]

NoTests == Unjudged

-------------------------------------------------------------------------------
\* Transactions.

Present(s) == status[s] = "present"
Unanswered(s) == Present(s) /\ answer[s].verdict = "null"

\* Mutant: nothing keeps the answer an older process wrote.
PreservedNothing(s) == revisions[s]

\* preserveCurrentScoreRevision: the log of s with the row's current answer in
\* it, appended unless the row is unjudged or its latest revision says the same.
Preserved(s) ==
  LET log == revisions[s] IN
  IF \/ answer[s].verdict = "null"
     \/ log # <<>> /\ log[Len(log)] = answer[s]
  THEN log
  ELSE Append(log, answer[s])

\* The row takes answer a and the log records it, after what was there before.
Record(s, a) ==
  /\ answer' = [answer EXCEPT ![s] = a]
  /\ revisions' = [revisions EXCEPT ![s] = Append(Preserved(s), a)]

\* createSubmission inserts the row: no verdict, no revision.
InsertRow(s) ==
  /\ status[s] = "absent"
  /\ status' = [status EXCEPT ![s] = "present"]
  /\ UNCHANGED <<answer, revisions, tests, generation>>

\* Mutant: no re-read, the guard having been passed before the lock.
MayRecordAnyway(s) == Present(s)

\* persistResult's re-read under the lock: a real verdict is write-once.
MayRecordResult(s) == Present(s) /\ answer[s].verdict \in {"null", "IE"}

\* persistResult: the judge's answer, its revision, and its TestResult rows.
\* A compile error ran no test and has none; skipDuplicates keeps the rows an
\* earlier run left for the same test cases.
RecordResult(s, v, n) ==
  /\ MayRecordResult(s)
  /\ Record(s, JudgeAnswer(v, n))
  /\ tests' = IF v = "CE" \/ tests[s] # NoTests
              THEN tests
              ELSE [tests EXCEPT ![s] = JudgeAnswer(v, n)]
  /\ UNCHANGED <<status, generation>>

\* Mutant: the IE leaves no revision.
RecordGiveUpUnlogged(s) ==
  /\ Unanswered(s)
  /\ answer' = [answer EXCEPT ![s] = GiveUpAnswer]
  /\ UNCHANGED <<status, revisions, tests, generation>>

\* persistInternalError: only a row that is still unjudged.
RecordGiveUp(s) ==
  /\ Unanswered(s)
  /\ answer' = [answer EXCEPT ![s] = GiveUpAnswer]
  /\ revisions' = [revisions EXCEPT ![s] = Append(@, GiveUpAnswer)]
  /\ UNCHANGED <<status, tests, generation>>

\* overrideVerdict: an organizer's answer, whatever the row held.
OverrideRow(s, v) ==
  /\ Present(s)
  /\ Record(s, AdminAnswer(v))
  /\ UNCHANGED <<status, tests, generation>>

\* rejudgeSubmission's transaction: clear the verdict behind a null tombstone.
\* The TestResult rows of the old run stay.
ClearRow(s) ==
  /\ Present(s)
  /\ Record(s, Unjudged)
  /\ generation' = [generation EXCEPT ![s] = @ + 1]
  /\ UNCHANGED <<status, tests>>

\* The row goes and its revisions and test results cascade: createSubmission
\* taking a row back, or an organizer removing the participant.
DeleteRow(s) ==
  /\ Present(s)
  /\ status' = [status EXCEPT ![s] = "deleted"]
  /\ answer' = [answer EXCEPT ![s] = Unjudged]
  /\ revisions' = [revisions EXCEPT ![s] = <<>>]
  /\ tests' = [tests EXCEPT ![s] = NoTests]
  /\ UNCHANGED generation

\* A rolling deployment: a process of the previous release writes the row and
\* appends no revision.
LegacyWrite(s, v) ==
  /\ Present(s)
  /\ answer' = [answer EXCEPT ![s] = LegacyAnswer(v)]
  /\ UNCHANGED <<status, revisions, tests, generation>>

-------------------------------------------------------------------------------
\* The specification of the ledger on its own.

LedgerInit ==
  /\ status = [s \in Submissions |-> "absent"]
  /\ answer = [s \in Submissions |-> Unjudged]
  /\ revisions = [s \in Submissions |-> <<>>]
  /\ tests = [s \in Submissions |-> NoTests]
  /\ generation = [s \in Submissions |-> 0]

LedgerNext ==
  \E s \in Submissions :
    \/ InsertRow(s)
    \/ \E v \in Verdicts, n \in 0 .. generation[s] : RecordResult(s, v, n)
    \/ RecordGiveUp(s)
    \/ \E v \in Verdicts : OverrideRow(s, v)
    \/ ClearRow(s)
    \/ DeleteRow(s)
    \/ \E v \in Verdicts : LegacyWrite(s, v)

\* What Judging must implement: whatever its handlers interleave, the database
\* only ever sees one of these transactions at a time.
LedgerSpec == LedgerInit /\ [][LedgerNext]_ledgerVars

-------------------------------------------------------------------------------
\* Properties.

\* The shape of the tables.
LedgerTypeOK ==
  /\ status \in [Submissions -> {"absent", "present", "deleted"}]
  /\ answer \in [Submissions -> Answers]
  /\ revisions \in [Submissions -> Seq(Answers)]
  /\ tests \in [Submissions -> Answers]
  /\ generation \in [Submissions -> Nat]

\* A row that holds ans, seen from its log, and a log in the judge's order.
RowEnds(ans, log) ==
  ans.by # "legacy" => IF log = <<>> THEN ans = Unjudged ELSE log[Len(log)] = ans

RowGaps(log) ==
  \A i \in 2 .. Len(log) :
    /\ log[i].by = "judge" => log[i - 1].verdict \in {"null", "IE"}
    /\ log[i].by = "giveup" => log[i - 1].verdict = "null"

\* The frozen board replays the log and the live board reads the row, so the
\* two must agree: unless a process of the previous release wrote the row last,
\* its answer is the newest revision, and an empty log means it was never
\* judged.
LogEndsWithRow == \A s \in Submissions : RowEnds(answer[s], revisions[s])

\* "Every other verdict stays write-once": in the log, an answer of the judge
\* only ever follows nothing, a rejudge's tombstone or an IE, and an IE written
\* for want of an answer never follows an answer.  Two requests persisting the
\* same finished job, or a result arriving after an override, would break it.
JudgeFollowsGap == \A s \in Submissions : RowGaps(revisions[s])

\* A step that replaces a non-null answer of s leaves it in the log.
KeepsAnswer(s) ==
  (/\ Present(s) /\ Present(s)'
   /\ answer[s].verdict # "null"
   /\ answer'[s] # answer[s]
   /\ answer'[s].by # "legacy")
  => \E i \in 1 .. Len(revisions'[s]) : revisions'[s][i] = answer[s]

AnswersKept == \A s \in Submissions : KeepsAnswer(s)

\* score-revisions.ts: no answer that was ever current disappears unrecorded.
\* Whatever replaces a non-null answer, except a process of the previous
\* release, leaves it in the log, so a freeze taken earlier can still find it.
NoAnswerLost == [][AnswersKept]_ledgerVars
===============================================================================
