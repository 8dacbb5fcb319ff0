---------------------------- MODULE Judging_proofs ----------------------------
(***************************************************************************)
(* First, what every sequence of the ledger's transactions keeps true, for *)
(* any number of submissions and rejudges.                                 *)
(*                                                                         *)
(* Then the judging path implements the ledger: whatever requests, the     *)
(* worker, organizers and faults interleave, every step is one ledger      *)
(* transaction or none.  The ledger's theorems therefore hold of it, for   *)
(* any number of submissions, requests and workers.                        *)
(***************************************************************************)
EXTENDS Judging, TLAPS

\* Every answer a transaction writes is an answer.
LEMMA AnswersTyped ==
  /\ Unjudged \in Answers
  /\ GiveUpAnswer \in Answers
  /\ \A v \in Verdicts : /\ AdminAnswer(v) \in Answers
                         /\ LegacyAnswer(v) \in Answers
                         /\ \A n \in Nat : JudgeAnswer(v, n) \in Answers
BY DEF Unjudged, GiveUpAnswer, AdminAnswer, LegacyAnswer, JudgeAnswer, Answers,
       Authors, Verdicts

\* preserveCurrentScoreRevision leaves a log that ends with the row's answer,
\* unless the row is unjudged, in which case it leaves the log alone.
LEMMA PreservedFact ==
  ASSUME LedgerTypeOK, NEW s \in Submissions
  PROVE  /\ Preserved(s) \in Seq(Answers)
         /\ Preserved(s) = revisions[s] \/ Preserved(s) = Append(revisions[s], answer[s])
         /\ answer[s].verdict = "null" => Preserved(s) = revisions[s]
         /\ answer[s].verdict # "null" =>
              /\ Preserved(s) # <<>>
              /\ Preserved(s)[Len(Preserved(s))] = answer[s]
<1> DEFINE log == revisions[s]
<1>1. log \in Seq(Answers) /\ answer[s] \in Answers
  BY DEF LedgerTypeOK
<1>2. CASE answer[s].verdict = "null" \/ (log # <<>> /\ log[Len(log)] = answer[s])
  BY <1>1, <1>2 DEF Preserved
<1>3. CASE ~(answer[s].verdict = "null" \/ (log # <<>> /\ log[Len(log)] = answer[s]))
  BY <1>1, <1>3 DEF Preserved
<1> QED BY <1>2, <1>3

\* Record writes one row and appends its answer after the preserved log.
LEMMA RecordTyped ==
  ASSUME LedgerTypeOK, NEW s \in Submissions, NEW a \in Answers, Record(s, a)
  PROVE  /\ answer' \in [Submissions -> Answers]
         /\ revisions' \in [Submissions -> Seq(Answers)]
<1>1. Append(Preserved(s), a) \in Seq(Answers)
  BY PreservedFact
<1> QED BY <1>1 DEF Record, LedgerTypeOK

-------------------------------------------------------------------------------

\* The tables keep their shape under every transaction.
THEOREM LedgerTypeStep == LedgerTypeOK /\ [LedgerNext]_ledgerVars => LedgerTypeOK'
<1> SUFFICES ASSUME LedgerTypeOK, [LedgerNext]_ledgerVars PROVE LedgerTypeOK'
  OBVIOUS
<1>1. CASE UNCHANGED ledgerVars
  BY <1>1 DEF ledgerVars, LedgerTypeOK
<1>2. ASSUME NEW s \in Submissions, InsertRow(s) PROVE LedgerTypeOK'
  BY <1>2 DEF InsertRow, LedgerTypeOK
<1>3. ASSUME NEW s \in Submissions, NEW v \in Verdicts, NEW n \in 0 .. generation[s],
             RecordResult(s, v, n)
      PROVE  LedgerTypeOK'
  <2>1. n \in Nat
    BY DEF LedgerTypeOK
  <2>2. JudgeAnswer(v, n) \in Answers
    BY <2>1, AnswersTyped
  <2>3. tests' \in [Submissions -> Answers]
    BY <1>3, <2>2 DEF RecordResult, LedgerTypeOK
  <2> QED BY <1>3, <2>2, <2>3, RecordTyped DEF RecordResult, LedgerTypeOK
<1>4. ASSUME NEW s \in Submissions, RecordGiveUp(s) PROVE LedgerTypeOK'
  <2>1. Append(revisions[s], GiveUpAnswer) \in Seq(Answers)
    BY AnswersTyped DEF LedgerTypeOK
  <2> QED BY <1>4, <2>1, AnswersTyped DEF RecordGiveUp, LedgerTypeOK
<1>5. ASSUME NEW s \in Submissions, NEW v \in Verdicts, OverrideRow(s, v)
      PROVE  LedgerTypeOK'
  BY <1>5, AnswersTyped, RecordTyped DEF OverrideRow, LedgerTypeOK
<1>6. ASSUME NEW s \in Submissions, ClearRow(s) PROVE LedgerTypeOK'
  BY <1>6, AnswersTyped, RecordTyped DEF ClearRow, LedgerTypeOK
<1>7. ASSUME NEW s \in Submissions, DeleteRow(s) PROVE LedgerTypeOK'
  BY <1>7, AnswersTyped DEF DeleteRow, LedgerTypeOK, NoTests
<1>8. ASSUME NEW s \in Submissions, NEW v \in Verdicts, LegacyWrite(s, v)
      PROVE  LedgerTypeOK'
  BY <1>8, AnswersTyped DEF LegacyWrite, LedgerTypeOK
<1> QED BY <1>1, <1>2, <1>3, <1>4, <1>5, <1>6, <1>7, <1>8 DEF LedgerNext

\* An empty ledger has the tables' shape.
THEOREM LedgerTypeInit == LedgerInit => LedgerTypeOK
BY AnswersTyped DEF LedgerInit, LedgerTypeOK, NoTests

\* In a ledger whose logs end with their rows, preserving appends nothing but
\* the answer of a process of the previous release.
LEMMA PreservedAppendsLegacy ==
  ASSUME LedgerTypeOK, LogEndsWithRow, NEW s \in Submissions
  PROVE  \/ Preserved(s) = revisions[s]
         \/ answer[s].by = "legacy" /\ Preserved(s) = Append(revisions[s], answer[s])
<1>1. CASE answer[s].by = "legacy"
  BY <1>1, PreservedFact
<1>2. CASE answer[s].by # "legacy"
  BY <1>2 DEF LogEndsWithRow, RowEnds, Preserved, Unjudged
<1> QED BY <1>1, <1>2

\* A process of the previous release never writes a null verdict.
LegacyHasVerdict ==
  \A s \in Submissions : answer[s].by = "legacy" => answer[s].verdict # "null"

LedgerInv == LedgerTypeOK /\ LegacyHasVerdict /\ LogEndsWithRow /\ JudgeFollowsGap

\* An empty ledger has no log to disagree with its row.
LEMMA LedgerInvInit == LedgerInit => LedgerInv
<1> SUFFICES ASSUME LedgerInit PROVE LedgerInv
  OBVIOUS
<1>1. LedgerTypeOK
  BY LedgerTypeInit
<1> QED BY <1>1 DEF LedgerInit, LedgerInv, LegacyHasVerdict, LogEndsWithRow,
                    JudgeFollowsGap, RowEnds, RowGaps, Unjudged

\* Appending an answer to a log keeps its gaps, if the answer may follow the last.
LEMMA AppendKeepsGaps ==
  ASSUME NEW log \in Seq(Answers), NEW a \in Answers, RowGaps(log),
         log # <<>> /\ a.by = "judge" => log[Len(log)].verdict \in {"null", "IE"},
         log # <<>> /\ a.by = "giveup" => log[Len(log)].verdict = "null"
  PROVE  RowGaps(Append(log, a)) /\ RowEnds(a, Append(log, a))
<1> DEFINE longer == Append(log, a)
<1>1. /\ longer \in Seq(Answers) /\ Len(longer) = Len(log) + 1 /\ Len(log) \in Nat
      /\ longer[Len(log) + 1] = a
      /\ \A i \in 1 .. Len(log) : longer[i] = log[i]
      /\ log # <<>> <=> Len(log) > 0
  OBVIOUS
<1> HIDE DEF longer
<1>2. longer # <<>>
  BY <1>1
<1>3. ASSUME NEW i \in 2 .. Len(longer)
      PROVE  /\ longer[i].by = "judge" => longer[i - 1].verdict \in {"null", "IE"}
             /\ longer[i].by = "giveup" => longer[i - 1].verdict = "null"
  <2>1. CASE i \in 2 .. Len(log)
    <3>1. longer[i] = log[i] /\ longer[i - 1] = log[i - 1]
      BY <1>1, <2>1
    <3> QED BY <2>1, <3>1 DEF RowGaps
  <2>2. CASE i = Len(log) + 1
    <3>1. longer[i] = a /\ longer[i - 1] = log[Len(log)] /\ log # <<>>
      BY <1>1, <2>2
    <3> QED BY <3>1
  <2> QED BY <1>1, <2>1, <2>2
<1>4. RowEnds(a, longer)
  BY <1>1, <1>2 DEF RowEnds
<1> QED BY <1>3, <1>4 DEF RowGaps, longer

\* Record keeps the row's log in order, if a judge's answer replaces none but
\* null or IE.
LEMMA RecordKeepsLog ==
  ASSUME LedgerInv, NEW s \in Submissions, NEW a \in Answers, Record(s, a),
         a.by = "judge" => answer[s].verdict \in {"null", "IE"},
         a.by # "giveup"
  PROVE  RowEnds(answer'[s], revisions'[s]) /\ RowGaps(revisions'[s])
<1> DEFINE kept == Preserved(s)
<1>1. LedgerTypeOK /\ LogEndsWithRow /\ LegacyHasVerdict
  BY DEF LedgerInv
<1>2. kept \in Seq(Answers) /\ revisions[s] \in Seq(Answers) /\ answer[s] \in Answers
  BY <1>1, PreservedFact DEF LedgerTypeOK
<1>3. RowGaps(revisions[s])
  BY DEF LedgerInv, JudgeFollowsGap
<1>4. RowGaps(kept)
  <2>1. CASE kept = revisions[s]
    BY <1>3, <2>1
  <2>2. CASE answer[s].by = "legacy" /\ kept = Append(revisions[s], answer[s])
    BY <1>2, <1>3, <2>2, AppendKeepsGaps
  <2> QED BY <1>1, <2>1, <2>2, PreservedAppendsLegacy
<1>5. kept # <<>> => kept[Len(kept)] = answer[s]
  <2>1. CASE answer[s].verdict = "null"
    <3>1. answer[s].by # "legacy" /\ kept = revisions[s]
      BY <1>1, <2>1, PreservedFact DEF LegacyHasVerdict
    <3> QED BY <1>1, <3>1 DEF LogEndsWithRow, RowEnds
  <2>2. CASE answer[s].verdict # "null"
    BY <1>1, <2>2, PreservedFact
  <2> QED BY <2>1, <2>2
<1>6. answer'[s] = a /\ revisions'[s] = Append(kept, a)
  BY <1>1 DEF Record, LedgerTypeOK
<1> HIDE DEF kept
<1>7. RowGaps(Append(kept, a)) /\ RowEnds(a, Append(kept, a))
  BY <1>2, <1>4, <1>5, AppendKeepsGaps
<1> QED BY <1>6, <1>7

-------------------------------------------------------------------------------

\* A transaction on row s leaves every other row's answer and log alone.
LEMMA OtherRows ==
  ASSUME LedgerInv, NEW s \in Submissions,
         \A t \in Submissions \ {s} : answer'[t] = answer[t] /\ revisions'[t] = revisions[t],
         LedgerTypeOK',
         RowEnds(answer'[s], revisions'[s]), RowGaps(revisions'[s]),
         answer'[s].by = "legacy" => answer'[s].verdict # "null"
  PROVE  LedgerInv'
BY DEF LedgerInv, LegacyHasVerdict, LogEndsWithRow, JudgeFollowsGap

\* The row's own log after Record, with the other rows untouched.
LEMMA RecordKeepsInv ==
  ASSUME LedgerInv, LedgerTypeOK', NEW s \in Submissions, NEW a \in Answers, Record(s, a),
         a.by = "judge" => answer[s].verdict \in {"null", "IE"},
         a.by \notin {"giveup", "legacy"}
  PROVE  LedgerInv'
<1>1. RowEnds(answer'[s], revisions'[s]) /\ RowGaps(revisions'[s])
  BY RecordKeepsLog
<1>2. \A t \in Submissions \ {s} : answer'[t] = answer[t] /\ revisions'[t] = revisions[t]
  BY DEF Record, LedgerInv, LedgerTypeOK
<1>3. answer'[s] = a
  BY DEF Record, LedgerInv, LedgerTypeOK
<1> QED BY <1>1, <1>2, <1>3, OtherRows

\* Every transaction keeps the logs in step with the rows and in the judge's order.
LEMMA LedgerInvStep == LedgerInv /\ [LedgerNext]_ledgerVars => LedgerInv'
<1> SUFFICES ASSUME LedgerInv, [LedgerNext]_ledgerVars PROVE LedgerInv'
  OBVIOUS
<1>0. LedgerTypeOK /\ LedgerTypeOK'
  BY LedgerTypeStep DEF LedgerInv
<1>1. CASE UNCHANGED ledgerVars
  BY <1>0, <1>1 DEF LedgerInv, ledgerVars, LegacyHasVerdict, LogEndsWithRow, JudgeFollowsGap
<1>2. ASSUME NEW s \in Submissions, InsertRow(s) PROVE LedgerInv'
  BY <1>0, <1>2 DEF LedgerInv, InsertRow, LegacyHasVerdict, LogEndsWithRow, JudgeFollowsGap
<1>3. ASSUME NEW s \in Submissions, NEW v \in Verdicts, NEW n \in 0 .. generation[s],
             RecordResult(s, v, n)
      PROVE  LedgerInv'
  <2>1. n \in Nat
    BY <1>0 DEF LedgerTypeOK
  <2>2. JudgeAnswer(v, n) \in Answers /\ JudgeAnswer(v, n).by = "judge"
    BY <2>1, AnswersTyped DEF JudgeAnswer
  <2>3. Record(s, JudgeAnswer(v, n)) /\ answer[s].verdict \in {"null", "IE"}
    BY <1>3 DEF RecordResult, MayRecordResult
  <2> QED BY <1>0, <2>2, <2>3, RecordKeepsInv
<1>4. ASSUME NEW s \in Submissions, RecordGiveUp(s) PROVE LedgerInv'
  <2> DEFINE log == revisions[s]
  <2>1. log \in Seq(Answers) /\ RowGaps(log) /\ answer[s].verdict = "null"
    BY <1>0, <1>4 DEF LedgerTypeOK, LedgerInv, JudgeFollowsGap, RecordGiveUp, Unanswered
  <2>2. log # <<>> => log[Len(log)].verdict = "null"
    BY <2>1 DEF LedgerInv, LogEndsWithRow, RowEnds, LegacyHasVerdict
  <2>3. answer'[s] = GiveUpAnswer /\ revisions'[s] = Append(log, GiveUpAnswer)
    BY <1>0, <1>4 DEF LedgerTypeOK, RecordGiveUp
  <2>4. GiveUpAnswer \in Answers /\ GiveUpAnswer.by = "giveup"
    BY AnswersTyped DEF GiveUpAnswer
  <2> HIDE DEF log
  <2>5. RowGaps(Append(log, GiveUpAnswer)) /\ RowEnds(GiveUpAnswer, Append(log, GiveUpAnswer))
    BY <2>1, <2>2, <2>4, AppendKeepsGaps
  <2>6. \A t \in Submissions \ {s} : answer'[t] = answer[t] /\ revisions'[t] = revisions[t]
    BY <1>0, <1>4 DEF LedgerTypeOK, RecordGiveUp
  <2> QED BY <1>0, <2>3, <2>4, <2>5, <2>6, OtherRows
<1>5. ASSUME NEW s \in Submissions, NEW v \in Verdicts, OverrideRow(s, v)
      PROVE  LedgerInv'
  <2>1. AdminAnswer(v) \in Answers /\ AdminAnswer(v).by = "admin"
    BY AnswersTyped DEF AdminAnswer
  <2> QED BY <1>0, <1>5, <2>1, RecordKeepsInv DEF OverrideRow
<1>6. ASSUME NEW s \in Submissions, ClearRow(s) PROVE LedgerInv'
  <2>1. Unjudged \in Answers /\ Unjudged.by = "nobody"
    BY AnswersTyped DEF Unjudged
  <2> QED BY <1>0, <1>6, <2>1, RecordKeepsInv DEF ClearRow
<1>7. ASSUME NEW s \in Submissions, DeleteRow(s) PROVE LedgerInv'
  <2>1. answer'[s] = Unjudged /\ revisions'[s] = <<>>
    BY <1>0, <1>7 DEF LedgerTypeOK, DeleteRow
  <2>2. RowEnds(Unjudged, <<>>) /\ RowGaps(<<>>) /\ Unjudged.by # "legacy"
    BY DEF RowEnds, RowGaps, Unjudged
  <2>3. \A t \in Submissions \ {s} : answer'[t] = answer[t] /\ revisions'[t] = revisions[t]
    BY <1>0, <1>7 DEF LedgerTypeOK, DeleteRow
  <2> QED BY <1>0, <2>1, <2>2, <2>3, OtherRows
<1>8. ASSUME NEW s \in Submissions, NEW v \in Verdicts, LegacyWrite(s, v)
      PROVE  LedgerInv'
  <2>1. answer'[s] = LegacyAnswer(v) /\ revisions' = revisions
    BY <1>0, <1>8 DEF LedgerTypeOK, LegacyWrite
  <2>2. v # "null"
    BY VerdictsAssumption DEF Verdicts
  <2>3. /\ RowEnds(answer'[s], revisions'[s]) /\ RowGaps(revisions'[s])
        /\ answer'[s].verdict # "null"
    BY <2>1, <2>2 DEF LegacyAnswer, RowEnds, LedgerInv, JudgeFollowsGap
  <2>4. \A t \in Submissions \ {s} : answer'[t] = answer[t] /\ revisions'[t] = revisions[t]
    BY <1>0, <1>8 DEF LedgerTypeOK, LegacyWrite
  <2> QED BY <1>0, <2>3, <2>4, OtherRows
<1> QED BY <1>1, <1>2, <1>3, <1>4, <1>5, <1>6, <1>7, <1>8 DEF LedgerNext

\* For any submissions, verdicts and number of rejudges, and whatever order the
\* transactions come in: the tables keep their shape, every log ends with its
\* row's answer, and the judge never writes over an answer that stands.
THEOREM LedgerCorrect ==
  LedgerSpec => [](LedgerTypeOK /\ LogEndsWithRow /\ JudgeFollowsGap)
<1>1. LedgerSpec => []LedgerInv
  BY LedgerInvInit, LedgerInvStep, PTL DEF LedgerSpec
<1>2. LedgerInv => LedgerTypeOK /\ LogEndsWithRow /\ JudgeFollowsGap
  BY DEF LedgerInv
<1> QED BY <1>1, <1>2, PTL

-------------------------------------------------------------------------------

\* Record finds the answer it replaces in the log, or puts it there.
LEMMA RecordKeepsAnswer ==
  ASSUME LedgerInv, NEW s \in Submissions, NEW a \in Answers, Record(s, a),
         answer[s].verdict # "null"
  PROVE  \E i \in 1 .. Len(revisions'[s]) : revisions'[s][i] = answer[s]
<1> DEFINE kept == Preserved(s)
<1>1. /\ kept \in Seq(Answers) /\ kept # <<>> /\ kept[Len(kept)] = answer[s]
      /\ revisions'[s] = Append(kept, a)
  BY PreservedFact DEF LedgerInv, Record, LedgerTypeOK
<1> HIDE DEF kept
<1>2. /\ Len(kept) \in 1 .. Len(Append(kept, a))
      /\ Append(kept, a)[Len(kept)] = kept[Len(kept)]
  BY <1>1
<1> QED BY <1>1, <1>2

\* A row whose answer a step leaves alone needs nothing of its log.
LEMMA SameAnswerKept ==
  ASSUME NEW t \in Submissions, answer'[t] = answer[t]
  PROVE  KeepsAnswer(t)
BY DEF KeepsAnswer

\* No transaction drops an answer that was current, save a legacy process's.
THEOREM LedgerKeepsAnswers == LedgerSpec => NoAnswerLost
<1>1. ASSUME LedgerInv, LedgerNext, NEW t \in Submissions PROVE KeepsAnswer(t)
  <2>0. LedgerTypeOK
    BY <1>1 DEF LedgerInv
  <2>1. ASSUME NEW s \in Submissions, NEW a \in Answers, Record(s, a)
        PROVE  KeepsAnswer(t)
    <3>1. CASE t = s
      BY <1>1, <2>1, <3>1, RecordKeepsAnswer DEF KeepsAnswer
    <3>2. CASE t # s
      BY <2>0, <2>1, <3>2, SameAnswerKept DEF Record, LedgerTypeOK
    <3> QED BY <3>1, <3>2
  <2>2. ASSUME NEW s \in Submissions, InsertRow(s) PROVE KeepsAnswer(t)
    BY <2>2, SameAnswerKept DEF InsertRow
  <2>3. ASSUME NEW s \in Submissions, NEW v \in Verdicts, NEW n \in 0 .. generation[s],
               RecordResult(s, v, n)
        PROVE  KeepsAnswer(t)
    <3>1. n \in Nat
      BY <2>0 DEF LedgerTypeOK
    <3> QED BY <2>1, <2>3, <3>1, AnswersTyped DEF RecordResult
  <2>4. ASSUME NEW s \in Submissions, RecordGiveUp(s) PROVE KeepsAnswer(t)
    BY <2>0, <2>4 DEF RecordGiveUp, Unanswered, KeepsAnswer, LedgerTypeOK
  <2>5. ASSUME NEW s \in Submissions, NEW v \in Verdicts, OverrideRow(s, v)
        PROVE  KeepsAnswer(t)
    BY <2>1, <2>5, AnswersTyped DEF OverrideRow
  <2>6. ASSUME NEW s \in Submissions, ClearRow(s) PROVE KeepsAnswer(t)
    BY <2>1, <2>6, AnswersTyped DEF ClearRow
  <2>7. ASSUME NEW s \in Submissions, DeleteRow(s) PROVE KeepsAnswer(t)
    BY <2>0, <2>7 DEF DeleteRow, KeepsAnswer, Present, LedgerTypeOK
  <2>8. ASSUME NEW s \in Submissions, NEW v \in Verdicts, LegacyWrite(s, v)
        PROVE  KeepsAnswer(t)
    BY <2>0, <2>8 DEF LegacyWrite, LegacyAnswer, KeepsAnswer, LedgerTypeOK
  <2> QED BY <1>1, <2>2, <2>3, <2>4, <2>5, <2>6, <2>7, <2>8 DEF LedgerNext
<1>2. LedgerInv /\ [LedgerNext]_ledgerVars => [AnswersKept]_ledgerVars
  BY <1>1 DEF AnswersKept
<1>3. LedgerSpec => []LedgerInv
  BY LedgerInvInit, LedgerInvStep, PTL DEF LedgerSpec
<1> QED BY <1>2, <1>3, PTL DEF LedgerSpec, NoAnswerLost

-------------------------------------------------------------------------------

\* No job, and no result or enqueue a handler holds, is of a generation that
\* nobody asked for yet; what a handler is about to persist is a verdict.
RunsExist ==
  /\ \A s \in Submissions : job[s].run <= generation[s]
  /\ \A r \in Requests :
       /\ req[r].run <= generation[req[r].sub]
       /\ req[r].at = "persist" => req[r].value \in Verdicts

JudgingInv == TypeOK /\ RunsExist

\* An idle handler and an unknown job are states of their kinds, and enqueueing
\* for a generation gives a job.
LEMMA IdleTyped ==
  /\ Idle \in Request /\ Idle.at = "idle" /\ Idle.run = 0
  /\ Idle.sub \in Submissions
  /\ NoJob \in Jobs /\ NoJob.run = 0
  /\ \A n \in Nat : NewJob(n) \in Jobs /\ NewJob(n).run = n
<1>1. (CHOOSE s \in Submissions : TRUE) \in Submissions
  BY SubmissionsAssumption
<1> QED BY <1>1 DEF Idle, Request, Points, NoJob, Jobs, NewJob

\* Nothing is submitted, queued or under way at the start.
LEMMA JudgingInvInit == Init => JudgingInv
<1> SUFFICES ASSUME Init PROVE JudgingInv
  OBVIOUS
<1>1. LedgerTypeOK
  BY LedgerTypeInit DEF Init
<1>2. TypeOK
  BY <1>1, IdleTyped DEF Init, TypeOK
<1>3. RunsExist
  BY <1>2, IdleTyped DEF Init, LedgerInit, RunsExist
<1> QED BY <1>2, <1>3 DEF JudgingInv

-------------------------------------------------------------------------------
\* Every step is a transaction of the ledger, or leaves it alone.

\* A handler's next step commits at most one transaction.
LEMMA ProceedIsLedgerStep ==
  ASSUME JudgingInv, NEW r \in Requests, Proceed(r)
  PROVE  [LedgerNext]_ledgerVars
<1> DEFINE s == req[r].sub
<1>0. s \in Submissions /\ LedgerTypeOK
  BY DEF JudgingInv, TypeOK, Request
<1>1. CASE Persist(r)
  <2>1. CASE RecordResult(s, req[r].value, req[r].run)
    <3>1. req[r].value \in Verdicts /\ req[r].run \in 0 .. generation[s]
      BY <1>0, <1>1 DEF JudgingInv, TypeOK, Request, RunsExist, Persist, IsAt, LedgerTypeOK
    <3> QED BY <1>0, <2>1, <3>1 DEF LedgerNext
  <2>2. CASE UNCHANGED ledgerVars
    BY <2>2
  <2> QED BY <1>1, <2>1, <2>2 DEF Persist
<1>2. CASE GiveUp(r)
  BY <1>0, <1>2 DEF GiveUp, LedgerNext
<1>3. CASE TakeBack(r)
  BY <1>0, <1>3 DEF TakeBack, LedgerNext
<1>4. CASE \/ SubmitEnqueues(r) \/ ReadRow(r) \/ GetJob(r) \/ GetState(r)
           \/ RemoveOldJob(r) \/ RejudgeEnqueues(r)
  BY <1>4 DEF SubmitEnqueues, ReadRow, GetJob, GetState, RemoveOldJob, RejudgeEnqueues, Enqueue
<1> QED BY <1>1, <1>2, <1>3, <1>4 DEF Proceed

\* So does every step of requests, organizers, worker, BullMQ and time.
LEMMA StepIsLedgerStep == JudgingInv /\ [Next]_vars => [LedgerNext]_ledgerVars
<1> SUFFICES ASSUME JudgingInv, [Next]_vars PROVE [LedgerNext]_ledgerVars
  OBVIOUS
<1>1. CASE UNCHANGED vars
  BY <1>1 DEF vars, ledgerVars
<1>2. ASSUME NEW r \in Requests, Proceed(r) PROVE [LedgerNext]_ledgerVars
  BY <1>2, ProceedIsLedgerStep
<1>3. ASSUME NEW r \in Requests,
             SubmitEnqueueFails(r) \/ RejudgeFails(r) \/ RequestDies(r)
      PROVE  [LedgerNext]_ledgerVars
  BY <1>3 DEF SubmitEnqueueFails, RejudgeFails, RequestDies
<1>4. ASSUME NEW r \in Requests, NEW s \in Submissions,
             \/ Submit(r, s) \/ Poll(r, s) \/ Rejudge(r, s)
             \/ \E v \in Verdicts : Override(r, s, v)
      PROVE  [LedgerNext]_ledgerVars
  BY <1>4 DEF Submit, Poll, Rejudge, Override, LedgerNext
<1>5. ASSUME NEW s \in Submissions,
             \/ Take(s) \/ Judge(s) \/ BackoffOver(s) \/ Stalled(s) \/ Evict(s) \/ Age(s)
      PROVE  [LedgerNext]_ledgerVars
  BY <1>5 DEF Take, Judge, Complete, Throw, BackoffOver, Stalled, Evict, Age
<1>6. ASSUME NEW s \in Submissions,
             RemoveParticipant(s) \/ \E v \in Verdicts : LegacyWrites(s, v)
      PROVE  [LedgerNext]_ledgerVars
  BY <1>6 DEF RemoveParticipant, LegacyWrites, LedgerNext
<1>7. CASE WorkerDies
  BY <1>7 DEF WorkerDies
<1> QED BY <1>1, <1>2, <1>3, <1>4, <1>5, <1>6, <1>7 DEF Next

-------------------------------------------------------------------------------
\* The invariant, one lemma per party.

\* A handler that moves on keeps what it holds, or is about a result it read.
LEMMA ReqStep ==
  ASSUME JudgingInv, LedgerTypeOK', TypeOK', NEW r \in Requests, NEW q \in Request,
         req' = [req EXCEPT ![r] = q],
         generation' = generation,
         \A s \in Submissions : job'[s].run <= generation[s],
         q.run <= generation[q.sub],
         q.at = "persist" => q.value \in Verdicts
  PROVE  JudgingInv'
<1>1. ASSUME NEW o \in Requests
      PROVE  /\ req'[o].run <= generation'[req'[o].sub]
             /\ req'[o].at = "persist" => req'[o].value \in Verdicts
  <2>1. CASE o = r
    BY <2>1 DEF JudgingInv, TypeOK
  <2>2. CASE o # r
    <3>1. req'[o] = req[o] /\ req[o] \in Request
      BY <2>2 DEF JudgingInv, TypeOK
    <3> QED BY <3>1 DEF JudgingInv, RunsExist
  <2> QED BY <2>1, <2>2
<1> QED BY <1>1 DEF JudgingInv, RunsExist

\* The requests keep the invariant: each writes the ledger, then its own state.
LEMMA RequestsKeepInv ==
  ASSUME JudgingInv, LedgerTypeOK', NEW r \in Requests,
         \/ Proceed(r) \/ SubmitEnqueueFails(r) \/ RejudgeFails(r) \/ RequestDies(r)
  PROVE  JudgingInv'
<1> DEFINE s == req[r].sub
<1>0. /\ s \in Submissions /\ req[r] \in Request /\ req \in [Requests -> Request]
      /\ job \in [Submissions -> Jobs] /\ spent \in [Events -> Nat]
      /\ generation \in [Submissions -> Nat] /\ overdue \subseteq Submissions
      /\ \A t \in Submissions : job[t].run <= generation[t]
      /\ req[r].run <= generation[s]
  BY DEF JudgingInv, TypeOK, Request, LedgerTypeOK, RunsExist
<1>a. Idle \in Request /\ Idle.run <= generation[Idle.sub] /\ Idle.at # "persist"
  BY <1>0, IdleTyped
<1>1. CASE SubmitEnqueues(r) \/ RejudgeEnqueues(r)
  <2>1. /\ NewJob(req[r].run) \in Jobs /\ NewJob(req[r].run).run = req[r].run
    BY <1>0, IdleTyped DEF Request
  <2>2. job' \in [Submissions -> Jobs] /\ \A t \in Submissions : job'[t].run <= generation[t]
    BY <1>0, <1>1, <2>1 DEF SubmitEnqueues, RejudgeEnqueues, Enqueue
  <2>3. PICK q \in Request : /\ req' = [req EXCEPT ![r] = q]
                             /\ q.run <= generation[q.sub] /\ q.at # "persist"
    <3>1. [req[r] EXCEPT !.at = "read"] \in Request
      BY <1>0 DEF Request, Points
    <3> QED BY <1>0, <1>a, <1>1, <3>1 DEF SubmitEnqueues, RejudgeEnqueues, Enqueue, Request
  <2>4. UNCHANGED <<ledgerVars, overdue, spent>>
    BY <1>1 DEF SubmitEnqueues, RejudgeEnqueues, Enqueue
  <2>5. TypeOK'
    BY <1>0, <2>2, <2>3, <2>4 DEF TypeOK, ledgerVars
  <2> QED BY <1>0, <2>2, <2>3, <2>4, <2>5, ReqStep DEF ledgerVars
<1>2. CASE \/ TakeBack(r) \/ Persist(r) \/ GiveUp(r) \/ RejudgeFails(r) \/ RequestDies(r)
  <2>1. UNCHANGED <<generation, job, overdue>> \/ generation' # generation
    BY <1>2 DEF TakeBack, Persist, GiveUp, RejudgeFails, RequestDies
  <2>2. UNCHANGED <<generation, job, overdue>>
    BY <1>2 DEF TakeBack, Persist, GiveUp, RejudgeFails, RequestDies, DeleteRow,
                RecordResult, RecordGiveUp, ledgerVars
  <2>3. req' = [req EXCEPT ![r] = Idle]
    BY <1>2 DEF TakeBack, Persist, GiveUp, RejudgeFails, RequestDies, Finish
  <2>4. spent' \in [Events -> Nat]
    BY <1>0, <1>2 DEF TakeBack, Persist, GiveUp, RejudgeFails, RequestDies, Spend, Events
  <2>5. TypeOK'
    BY <1>0, <1>a, <2>2, <2>3, <2>4 DEF TypeOK
  <2> QED BY <1>0, <1>a, <2>2, <2>3, <2>5, ReqStep
<1>3. CASE ReadRow(r) \/ SubmitEnqueueFails(r)
  <2>1. UNCHANGED <<ledgerVars, job, overdue>> /\ spent' \in [Events -> Nat]
    BY <1>0, <1>3 DEF ReadRow, SubmitEnqueueFails, Spend, Events
  <2>2. PICK q \in Request : /\ req' = [req EXCEPT ![r] = q]
                             /\ q.run <= generation[q.sub] /\ q.at # "persist"
    <3>1. \A p \in Points : [req[r] EXCEPT !.at = p] \in Request
      BY <1>0 DEF Request
    <3> QED BY <1>0, <1>a, <1>3, <3>1
            DEF ReadRow, SubmitEnqueueFails, Goto, Finish, Points, Request
  <2>3. TypeOK'
    BY <1>0, <2>1, <2>2 DEF TypeOK
  <2> QED BY <1>0, <2>1, <2>2, <2>3, ReqStep DEF ledgerVars
<1>4. CASE GetJob(r)
  <2>1. UNCHANGED <<ledgerVars, job, overdue, spent>>
    BY <1>4 DEF GetJob
  <2>2. PICK q \in Request : /\ req' = [req EXCEPT ![r] = q]
                             /\ q.run <= generation[q.sub] /\ q.at # "persist"
    <3> DEFINE seen == [at |-> "getstate", sub |-> s, value |-> job[s].value, run |-> job[s].run]
    <3>1. seen \in Request /\ [req[r] EXCEPT !.at = "giveup"] \in Request
      BY <1>0 DEF Request, Points, Jobs
    <3> QED BY <1>0, <1>a, <1>4, <3>1 DEF GetJob, Goto, Finish, Request
  <2>3. TypeOK'
    BY <1>0, <2>1, <2>2 DEF TypeOK
  <2> QED BY <1>0, <2>1, <2>2, <2>3, ReqStep DEF ledgerVars
<1>5. CASE GetState(r)
  <2>1. UNCHANGED <<ledgerVars, job, overdue, spent>>
    BY <1>5 DEF GetState
  <2>2. PICK q \in Request : /\ req' = [req EXCEPT ![r] = q]
                             /\ q.run <= generation[q.sub]
                             /\ q.at = "persist" => q.value \in Verdicts
    <3>1. \A p \in Points : [req[r] EXCEPT !.at = p] \in Request
      BY <1>0 DEF Request
    <3>2. req[r].value \notin {"null", "garbage"} => req[r].value \in Verdicts
      BY <1>0 DEF Request, Results
    <3> QED BY <1>0, <1>a, <1>5, <3>1, <3>2 DEF GetState, Goto, Finish, Points, Request
  <2>3. TypeOK'
    BY <1>0, <2>1, <2>2 DEF TypeOK
  <2> QED BY <1>0, <2>1, <2>2, <2>3, ReqStep DEF ledgerVars
<1>6. CASE RemoveOldJob(r)
  <2>1. UNCHANGED <<ledgerVars, overdue, spent>>
    BY <1>6 DEF RemoveOldJob
  <2>2. job' \in [Submissions -> Jobs] /\ \A t \in Submissions : job'[t].run <= generation[t]
    BY <1>0, <1>6, IdleTyped DEF RemoveOldJob
  <2>3. PICK q \in Request : /\ req' = [req EXCEPT ![r] = q]
                             /\ q.run <= generation[q.sub] /\ q.at # "persist"
    <3>1. [req[r] EXCEPT !.at = "reenqueue"] \in Request
      BY <1>0 DEF Request, Points
    <3> QED BY <1>0, <1>a, <1>6, <3>1 DEF RemoveOldJob, Goto, Finish, Request
  <2>4. TypeOK'
    BY <1>0, <2>1, <2>2, <2>3 DEF TypeOK
  <2> QED BY <1>0, <2>1, <2>2, <2>3, <2>4, ReqStep DEF ledgerVars
<1> QED BY <1>1, <1>2, <1>3, <1>4, <1>5, <1>6 DEF Proceed

\* A request that starts: the row is written, and the handler holds s and,
\* for a rejudge, the generation it has just asked for.
LEMMA StartsKeepInv ==
  ASSUME JudgingInv, LedgerTypeOK', NEW r \in Requests, NEW s \in Submissions,
         \/ Submit(r, s) \/ Poll(r, s) \/ Rejudge(r, s)
         \/ \E v \in Verdicts : Override(r, s, v)
  PROVE  JudgingInv'
<1>0. /\ req \in [Requests -> Request] /\ job \in [Submissions -> Jobs]
      /\ spent \in [Events -> Nat] /\ overdue \subseteq Submissions
      /\ generation \in [Submissions -> Nat]
      /\ \A t \in Submissions : job[t].run <= generation[t]
  BY DEF JudgingInv, TypeOK, LedgerTypeOK, RunsExist
<1>1. UNCHANGED <<job, overdue>> /\ spent' \in [Events -> Nat]
  BY <1>0 DEF Submit, Poll, Rejudge, Override, Spend, Events
<1>2. ASSUME NEW p \in Points, NEW n \in Nat, Start(r, p, s, n) PROVE TypeOK'
  <2>1. [at |-> p, sub |-> s, value |-> "null", run |-> n] \in Request
    BY DEF Request
  <2> QED BY <1>0, <1>1, <1>2, <2>1 DEF Start, TypeOK
<1>3. CASE Submit(r, s) \/ Poll(r, s) \/ \E v \in Verdicts : Override(r, s, v)
  <2>1. PICK p \in Points \ {"persist"} : Start(r, p, s, 0)
    BY <1>3 DEF Submit, Poll, Override, Points
  <2>2. [at |-> p, sub |-> s, value |-> "null", run |-> 0] \in Request
    BY DEF Request
  <2>3. generation' = generation
    BY <1>3 DEF Submit, Poll, Override, InsertRow, OverrideRow, ledgerVars
  <2>4. TypeOK'
    BY <1>2, <2>1
  <2>5. 0 <= generation[s]
    BY <1>0
  <2> DEFINE q == [at |-> p, sub |-> s, value |-> "null", run |-> 0]
  <2>6. req' = [req EXCEPT ![r] = q] /\ q.run = 0 /\ q.sub = s /\ q.at # "persist"
    BY <2>1 DEF Start
  <2> HIDE DEF q
  <2> QED BY <1>0, <1>1, <2>2, <2>3, <2>4, <2>5, <2>6, ReqStep DEF q
<1>4. CASE Rejudge(r, s)
  <2>1. /\ Start(r, "remove", s, generation[s] + 1)
        /\ generation' = [generation EXCEPT ![s] = @ + 1]
    BY <1>4 DEF Rejudge, ClearRow
  <2>2. TypeOK'
    BY <1>0, <1>2, <2>1 DEF Points
  <2>3. ASSUME NEW o \in Requests
        PROVE  /\ req'[o].run <= generation'[req'[o].sub]
               /\ req'[o].at = "persist" => req'[o].value \in Verdicts
    <3>1. CASE o = r
      BY <1>0, <2>1, <3>1 DEF Start
    <3>2. CASE o # r
      <4>1. req'[o] = req[o] /\ req[o] \in Request
        BY <1>0, <2>1, <3>2 DEF Start
      <4>2. req[o].sub \in Submissions /\ req[o].run \in Nat
        BY <4>1 DEF Request
      <4> QED BY <1>0, <2>1, <4>1, <4>2 DEF JudgingInv, RunsExist
    <3> QED BY <3>1, <3>2
  <2>4. \A t \in Submissions : job'[t].run <= generation'[t]
    BY <1>0, <1>1, <2>1 DEF Jobs
  <2> QED BY <2>2, <2>3, <2>4 DEF JudgingInv, RunsExist
<1> QED BY <1>3, <1>4

\* The worker, BullMQ and time: only jobs move, and no job changes its run
\* except to vanish.
LEMMA JobsKeepInv ==
  ASSUME JudgingInv, UNCHANGED <<ledgerVars, req>>,
         overdue' \subseteq Submissions, spent' \in [Events -> Nat],
         job' \in [Submissions -> Jobs],
         \A t \in Submissions : job'[t].run = job[t].run \/ job'[t].run = 0
  PROVE  JudgingInv'
<1>1. TypeOK'
  BY DEF JudgingInv, TypeOK, ledgerVars, LedgerTypeOK
<1>2. ASSUME NEW t \in Submissions PROVE job'[t].run <= generation'[t]
  <2>1. generation'[t] = generation[t] /\ generation[t] \in Nat
    BY DEF JudgingInv, TypeOK, ledgerVars, LedgerTypeOK
  <2>2. job[t].run <= generation[t]
    BY DEF JudgingInv, RunsExist
  <2>3. job'[t].run = job[t].run \/ job'[t].run = 0
    OBVIOUS
  <2> QED BY <2>1, <2>2, <2>3
<1> QED BY <1>1, <1>2 DEF JudgingInv, RunsExist, ledgerVars

\* The worker and BullMQ change a job's state, never the run it was enqueued for.
LEMMA WorkerKeepsInv ==
  ASSUME JudgingInv,
         \/ \E s \in Submissions :
              \/ Take(s) \/ Judge(s) \/ BackoffOver(s) \/ Stalled(s) \/ Evict(s) \/ Age(s)
         \/ WorkerDies
  PROVE  JudgingInv'
<1>0. /\ job \in [Submissions -> Jobs] /\ spent \in [Events -> Nat]
      /\ overdue \subseteq Submissions
  BY DEF JudgingInv, TypeOK
<1>1. ASSUME NEW s \in Submissions, Take(s) \/ BackoffOver(s) \/ Stalled(s) PROVE JudgingInv'
  <2>1. job' \in [Submissions -> Jobs] /\ \A t \in Submissions : job'[t].run = job[t].run
    BY <1>0, <1>1 DEF Take, BackoffOver, Stalled, Jobs
  <2> QED BY <1>0, <1>1, <2>1, JobsKeepInv DEF Take, BackoffOver, Stalled
<1>2. ASSUME NEW s \in Submissions, Judge(s) PROVE JudgingInv'
  <2>1. job' \in [Submissions -> Jobs] /\ \A t \in Submissions : job'[t].run = job[t].run
    <3>1. CASE Throw(s)
      BY <1>0, <3>1 DEF Throw, Jobs
    <3>2. ASSUME NEW v \in Results, Complete(s, v)
          PROVE  job' \in [Submissions -> Jobs] /\ \A t \in Submissions : job'[t].run = job[t].run
      BY <1>0, <3>2 DEF Complete, Jobs
    <3> QED BY <1>2, <3>1, <3>2 DEF Judge
  <2> QED BY <1>0, <1>2, <2>1, JobsKeepInv DEF Judge, Complete, Throw
<1>3. ASSUME NEW s \in Submissions, Evict(s) PROVE JudgingInv'
  <2>1. /\ job' \in [Submissions -> Jobs]
        /\ \A t \in Submissions : job'[t].run = job[t].run \/ job'[t].run = 0
    BY <1>0, <1>3, IdleTyped DEF Evict
  <2>2. spent' \in [Events -> Nat]
    BY <1>0, <1>3 DEF Evict, Spend, Events
  <2> QED BY <1>0, <1>3, <2>1, <2>2, JobsKeepInv DEF Evict
<1>4. ASSUME NEW s \in Submissions, Age(s) PROVE JudgingInv'
  BY <1>0, <1>4, JobsKeepInv DEF Age
<1>5. CASE WorkerDies
  <2>1. job' \in [Submissions -> Jobs] /\ \A t \in Submissions : job'[t].run = job[t].run
    BY <1>0, <1>5 DEF WorkerDies, Jobs
  <2>2. spent' \in [Events -> Nat]
    BY <1>0, <1>5 DEF WorkerDies, Spend, Events
  <2> QED BY <1>0, <1>5, <2>1, <2>2, JobsKeepInv DEF WorkerDies
<1> QED BY <1>1, <1>2, <1>3, <1>4, <1>5

\* Removal and the previous release touch the row and no job or request.
LEMMA RowsKeepInv ==
  ASSUME JudgingInv, LedgerTypeOK', NEW s \in Submissions,
         RemoveParticipant(s) \/ \E v \in Verdicts : LegacyWrites(s, v)
  PROVE  JudgingInv'
<1>1. UNCHANGED <<job, req, overdue, generation>>
  BY DEF RemoveParticipant, LegacyWrites, DeleteRow, LegacyWrite
<1>2. spent' \in [Events -> Nat]
  BY DEF RemoveParticipant, LegacyWrites, Spend, Events, JudgingInv, TypeOK
<1> QED BY <1>1, <1>2 DEF JudgingInv, TypeOK, RunsExist

\* Every step keeps types, and keeps every run within its row's generation.
LEMMA JudgingInvStep == JudgingInv /\ [Next]_vars => JudgingInv'
<1> SUFFICES ASSUME JudgingInv, [Next]_vars PROVE JudgingInv'
  OBVIOUS
<1>0. LedgerTypeOK'
  BY StepIsLedgerStep, LedgerTypeStep DEF JudgingInv, TypeOK
<1>1. CASE UNCHANGED vars
  BY <1>0, <1>1 DEF JudgingInv, TypeOK, RunsExist, vars
<1>2. CASE Next
  BY <1>0, <1>2, RequestsKeepInv, StartsKeepInv, WorkerKeepsInv, RowsKeepInv DEF Next
<1> QED BY <1>1, <1>2

-------------------------------------------------------------------------------

\* Every variable of the judging path keeps its type, for any number of
\* submissions, requests, workers, attempts and rare events.
THEOREM JudgingTypeCorrect == Spec => []TypeOK
<1>1. JudgingInv => TypeOK
  BY DEF JudgingInv
<1> QED BY <1>1, JudgingInvInit, JudgingInvStep, PTL DEF Spec

\* Refinement: the requests, the worker and the faults implement the ledger.
THEOREM JudgingImplementsLedger == Spec => ImplementsLedger
<1>1. Init => LedgerInit
  BY DEF Init
<1> QED BY <1>1, JudgingInvInit, JudgingInvStep, StepIsLedgerStep, PTL
        DEF Spec, ImplementsLedger, LedgerSpec

\* The row and its revision log agree, through every interleaving.
THEOREM JudgingLogEndsWithRow == Spec => []LogEndsWithRow
BY JudgingImplementsLedger, LedgerCorrect, PTL DEF ImplementsLedger

\* No judge's answer follows one that stands, whoever else was persisting.
THEOREM JudgingFollowsGap == Spec => []JudgeFollowsGap
BY JudgingImplementsLedger, LedgerCorrect, PTL DEF ImplementsLedger

\* No answer a reader could have seen leaves the log unrecorded.
THEOREM JudgingKeepsAnswers == Spec => NoAnswerLost
BY JudgingImplementsLedger, LedgerKeepsAnswers, PTL DEF ImplementsLedger

\* A ledger transaction that replaces a real answer is not the judge's.
LEMMA TransactionWritesOnce == LedgerTypeOK /\ [LedgerNext]_ledgerVars => WritesOnce
<1> SUFFICES ASSUME LedgerTypeOK, [LedgerNext]_ledgerVars, NEW t \in Submissions,
                    answer[t].verdict \notin {"null", "IE"}, answer'[t] # answer[t],
                    Present(t)'
             PROVE  answer'[t].by \notin {"judge", "giveup"}
  BY DEF WritesOnce
<1>1. CASE UNCHANGED ledgerVars
  BY <1>1 DEF ledgerVars
<1>a. answer \in [Submissions -> Answers] /\ answer[t] \in Answers
  BY DEF LedgerTypeOK
<1>2. ASSUME NEW s \in Submissions, InsertRow(s) \/ RecordGiveUp(s) \/ DeleteRow(s)
      PROVE  answer'[t].by \notin {"judge", "giveup"}
  BY <1>2, <1>a DEF InsertRow, RecordGiveUp, Unanswered, DeleteRow, Unjudged
<1>b. ASSUME NEW s \in Submissions, NEW v \in Verdicts,
             OverrideRow(s, v) \/ LegacyWrite(s, v)
      PROVE  answer'[t].by \notin {"judge", "giveup"}
  <2>1. PICK a \in {AdminAnswer(v), LegacyAnswer(v)} :
          answer' = [answer EXCEPT ![s] = a]
    BY <1>b DEF OverrideRow, LegacyWrite, Record
  <2>2. a.by \notin {"judge", "giveup"}
    BY <2>1 DEF AdminAnswer, LegacyAnswer
  <2> QED BY <1>a, <2>1, <2>2
<1>3. ASSUME NEW s \in Submissions, NEW v \in Verdicts, NEW n \in 0 .. generation[s],
             RecordResult(s, v, n)
      PROVE  answer'[t].by \notin {"judge", "giveup"}
  <2>1. t # s
    BY <1>3 DEF RecordResult, MayRecordResult
  <2> QED BY <1>3, <2>1 DEF LedgerTypeOK, RecordResult, Record
<1>4. ASSUME NEW s \in Submissions, ClearRow(s) PROVE answer'[t].by \notin {"judge", "giveup"}
  BY <1>4, <1>a DEF ClearRow, Record, Unjudged
<1> QED BY <1>1, <1>2, <1>b, <1>3, <1>4 DEF LedgerNext

\* A verdict of the judge is write-once, however many requests read the job.
THEOREM JudgingWritesOnce == Spec => VerdictIsWriteOnce
<1>1. JudgingInv /\ [Next]_vars => [WritesOnce]_vars
  BY StepIsLedgerStep, TransactionWritesOnce DEF JudgingInv, TypeOK
<1> QED BY <1>1, JudgingInvInit, JudgingInvStep, PTL DEF Spec, VerdictIsWriteOnce

-------------------------------------------------------------------------------
\* No row waits for nothing.

Work == {"enqueue", "takeback", "remove", "reenqueue"}

Busy(r, t) == req[r].sub = t /\ req[r].at \in Work

Waits(t) == Unanswered(t) /\ job[t].state = "missing"

Faults(t) ==
  \/ spent["crash"] > 0 \/ spent["evict"] > 0
  \/ spent["outage"] > (IF generation[t] = 0 THEN 1 ELSE 0)

Explained(t) == Faults(t) \/ \E r \in Requests : Busy(r, t)

\* A handler that sends a submission back has asked for another generation; one
\* that takes a row back has met one failure already.
WorkBegan ==
  \A r \in Requests :
    /\ req[r].at \in {"remove", "reenqueue"} => generation[req[r].sub] > 0
    /\ req[r].at = "takeback" => spent["outage"] > 0

JoblessInv == JudgingInv /\ WorkBegan /\ \A t \in Submissions : Waits(t) => Explained(t)

LEMMA SpendAdds ==
  ASSUME spent \in [Events -> Nat], NEW e \in Events, Spend(e)
  PROVE  spent' = [spent EXCEPT ![e] = spent[e] + 1]
BY DEF Spend

\* Tallies and generations only grow.
LEMMA TalliesGrow ==
  ASSUME JudgingInv, [Next]_vars
  PROVE  /\ \A e \in Events : spent'[e] \in Nat /\ spent[e] \in Nat /\ spent'[e] >= spent[e]
         /\ \A t \in Submissions :
              generation'[t] \in Nat /\ generation[t] \in Nat /\ generation'[t] >= generation[t]
<1>1. spent \in [Events -> Nat] /\ generation \in [Submissions -> Nat]
  BY DEF JudgingInv, TypeOK, LedgerTypeOK
<1>2. spent' = spent \/ \E e \in Events : Spend(e)
  <2>1. CASE UNCHANGED vars
    BY <2>1 DEF vars
  <2>2. ASSUME NEW r \in Requests, Proceed(r) PROVE spent' = spent \/ \E e \in Events : Spend(e)
    BY <2>2 DEF Proceed, SubmitEnqueues, TakeBack, ReadRow, GetJob, GetState, Persist, GiveUp,
                RemoveOldJob, RejudgeEnqueues, Enqueue, Events
  <2>3. ASSUME NEW r \in Requests, SubmitEnqueueFails(r) \/ RejudgeFails(r) \/ RequestDies(r)
        PROVE  spent' = spent \/ \E e \in Events : Spend(e)
    BY <2>3 DEF SubmitEnqueueFails, RejudgeFails, RequestDies, Events
  <2>4. ASSUME NEW r \in Requests, NEW s \in Submissions,
               \/ Submit(r, s) \/ Poll(r, s) \/ Rejudge(r, s)
               \/ \E v \in Verdicts : Override(r, s, v)
        PROVE  spent' = spent \/ \E e \in Events : Spend(e)
    BY <2>4 DEF Submit, Poll, Rejudge, Override, Events
  <2>5. ASSUME NEW s \in Submissions,
               \/ Take(s) \/ Judge(s) \/ BackoffOver(s) \/ Stalled(s) \/ Evict(s) \/ Age(s)
               \/ RemoveParticipant(s) \/ \E v \in Verdicts : LegacyWrites(s, v)
        PROVE  spent' = spent \/ \E e \in Events : Spend(e)
    BY <2>5 DEF Take, Judge, Complete, Throw, BackoffOver, Stalled, Evict, Age, RemoveParticipant,
                LegacyWrites, Events
  <2>6. CASE WorkerDies
    BY <2>6 DEF WorkerDies, Events
  <2> QED BY <2>1, <2>2, <2>3, <2>4, <2>5, <2>6 DEF Next
<1>3. \A e \in Events : spent'[e] \in Nat /\ spent[e] \in Nat /\ spent'[e] >= spent[e]
  BY <1>1, <1>2, SpendAdds
<1>4. generation' = generation
      \/ \E s \in Submissions : generation' = [generation EXCEPT ![s] = @ + 1]
  BY StepIsLedgerStep
  DEF LedgerNext, InsertRow, RecordResult, RecordGiveUp, OverrideRow, ClearRow, DeleteRow,
      LegacyWrite, ledgerVars
<1> QED BY <1>1, <1>3, <1>4

LEMMA FaultsStand ==
  ASSUME JudgingInv, [Next]_vars, NEW t \in Submissions, Faults(t)
  PROVE  Faults(t)'
<1>1. /\ \A e \in {"crash", "evict", "outage"} :
           spent'[e] \in Nat /\ spent[e] \in Nat /\ spent'[e] >= spent[e]
      /\ generation'[t] \in Nat /\ generation[t] \in Nat /\ generation'[t] >= generation[t]
  BY TalliesGrow DEF Events
<1> QED BY <1>1 DEF Faults

\* A step of handler r, or of none, that makes nobody wait and by which r does
\* not abandon t: what explained t, or another handler, still does.
LEMMA ExplainedStands ==
  ASSUME JoblessInv, [Next]_vars, NEW t \in Submissions, Waits(t), NEW r \in Requests,
         \A o \in Requests \ {r} : req'[o] = req[o],
         Busy(r, t) => Explained(t)'
  PROVE  Explained(t)'
<1>1. Explained(t) /\ JudgingInv
  BY DEF JoblessInv
<1>2. CASE Faults(t)
  BY <1>1, <1>2, FaultsStand DEF Explained
<1>3. ASSUME NEW o \in Requests, Busy(o, t) PROVE Explained(t)'
  BY <1>3 DEF Busy, Explained
<1> QED BY <1>1, <1>2, <1>3 DEF Explained

\* Handlers.
LEMMA HandlersExplain ==
  ASSUME JoblessInv, [Next]_vars, NEW r \in Requests, NEW t \in Submissions, Waits(t)',
         Proceed(r) \/ SubmitEnqueueFails(r) \/ RejudgeFails(r) \/ RequestDies(r)
  PROVE  Explained(t)'
<1> DEFINE s == req[r].sub
<1>0. /\ s \in Submissions /\ req \in [Requests -> Request] /\ JudgingInv /\ WorkBegan
      /\ job \in [Submissions -> Jobs] /\ spent \in [Events -> Nat]
      /\ generation \in [Submissions -> Nat] /\ {"crash", "evict", "outage"} \subseteq Events
      /\ status \in [Submissions -> {"absent", "present", "deleted"}]
      /\ answer \in [Submissions -> Answers]
  BY DEF JoblessInv, JudgingInv, TypeOK, LedgerTypeOK, Request, Events
<1>1. \A o \in Requests \ {r} : req'[o] = req[o]
  BY <1>0 DEF Proceed, SubmitEnqueues, TakeBack, ReadRow, GetJob, GetState, Persist, GiveUp,
              RemoveOldJob, RejudgeEnqueues, Enqueue, Goto, Finish, SubmitEnqueueFails,
              RejudgeFails, RequestDies
<1>2. CASE SubmitEnqueues(r) \/ RejudgeEnqueues(r)
  <2>1. UNCHANGED ledgerVars /\ job'[s].state # "missing" /\ (t # s => job'[t] = job[t])
    <3>1. \A n \in Nat : NewJob(n).state = "waiting"
      BY DEF NewJob, NoJob
    <3>2. /\ UNCHANGED ledgerVars /\ req[r].run \in Nat
          /\ job' = IF job[s].state = "missing" THEN [job EXCEPT ![s] = NewJob(req[r].run)] ELSE job
      BY <1>0, <1>2 DEF SubmitEnqueues, RejudgeEnqueues, Enqueue, Request
    <3> QED BY <1>0, <3>1, <3>2
  <2>2. Waits(t) /\ ~Busy(r, t)
    BY <2>1 DEF Waits, Unanswered, Present, ledgerVars, Busy
  <2> QED BY <1>1, <2>2, ExplainedStands
<1>3. CASE TakeBack(r)
  <2>1. CASE Spend("outage") /\ UNCHANGED <<ledgerVars, job>> /\ t = s
    <3>1. spent["outage"] > 0 /\ spent["outage"] \in Nat
      BY <1>0, <1>3 DEF TakeBack, IsAt, WorkBegan
    <3>2. spent'["outage"] = spent["outage"] + 1
      BY <1>0, <2>1, SpendAdds
    <3> QED BY <3>1, <3>2 DEF Explained, Faults
  <2>2. CASE t # s \/ ~Present(t)'
    <3>1. Waits(t) /\ t # s
      BY <1>0, <1>3, <2>2 DEF TakeBack, DeleteRow, Waits, Unanswered, Present, ledgerVars
    <3> QED BY <1>1, <3>1, ExplainedStands DEF Busy
  <2> QED BY <1>0, <1>3, <2>1, <2>2 DEF TakeBack, DeleteRow, Present, ledgerVars
<1>4. CASE ReadRow(r) \/ GetJob(r) \/ GetState(r) \/ Persist(r) \/ GiveUp(r)
  <2>1. ~Busy(r, t)
    BY <1>4 DEF ReadRow, GetJob, GetState, Persist, GiveUp, IsAt, Busy, Work
  <2>2. Waits(t)
    <3>1. CASE UNCHANGED ledgerVars
      BY <1>4, <3>1 DEF ReadRow, GetJob, GetState, Persist, GiveUp, Waits, Unanswered, Present, ledgerVars
    <3>2. CASE Persist(r) /\ RecordResult(s, req[r].value, req[r].run)
      <4>1. req[r].value \in Verdicts
        BY <1>0, <3>2 DEF JudgingInv, RunsExist, Persist, IsAt
      <4>2. UNCHANGED <<status, job>> /\ answer' = [answer EXCEPT ![s] = JudgeAnswer(req[r].value, req[r].run)]
        BY <3>2 DEF Persist, RecordResult, Record
      <4>3. JudgeAnswer(req[r].value, req[r].run).verdict # "null"
        BY <4>1, VerdictsAssumption DEF JudgeAnswer, Verdicts
      <4> QED BY <1>0, <4>2, <4>3 DEF Waits, Unanswered, Present
    <3>3. CASE GiveUp(r) /\ RecordGiveUp(s)
      BY <1>0, <3>3 DEF GiveUp, RecordGiveUp, GiveUpAnswer, Waits, Unanswered, Present
    <3> QED BY <1>4, <3>1, <3>2, <3>3 DEF ReadRow, GetJob, GetState, Persist, GiveUp
  <2> QED BY <1>1, <2>1, <2>2, ExplainedStands
<1>5. CASE RemoveOldJob(r)
  <2>1. CASE t = s /\ Goto(r, "reenqueue")
    BY <1>0, <2>1 DEF Goto, Explained, Busy, Work
  <2>2. CASE t = s /\ ~Goto(r, "reenqueue")
    BY <1>0, <1>5, <2>2 DEF RemoveOldJob, Waits
  <2>3. CASE t # s
    <3>1. Waits(t)
      BY <1>0, <1>5, <2>3 DEF RemoveOldJob, Waits, Unanswered, Present, ledgerVars
    <3> QED BY <1>1, <2>3, <3>1, ExplainedStands DEF Busy
  <2> QED BY <2>1, <2>2, <2>3
<1>6. CASE SubmitEnqueueFails(r) \/ RejudgeFails(r) \/ RequestDies(r)
  <2>1. Waits(t)
    BY <1>6 DEF SubmitEnqueueFails, RejudgeFails, RequestDies, Waits, Unanswered, Present, ledgerVars
  <2>2. Busy(r, t) => Explained(t)'
    <3>1. CASE SubmitEnqueueFails(r)
      BY <1>0, <3>1 DEF SubmitEnqueueFails, Goto, Busy, Work, Explained
    <3>2. CASE RequestDies(r)
      <4>1. spent'["crash"] = spent["crash"] + 1
        BY <1>0, <3>2, SpendAdds DEF RequestDies
      <4> QED BY <1>0, <4>1 DEF Explained, Faults
    <3>3. ASSUME RejudgeFails(r), Busy(r, t) PROVE Explained(t)'
      <4>1. spent'["outage"] = spent["outage"] + 1 /\ generation' = generation
        BY <1>0, <3>3, SpendAdds DEF RejudgeFails, ledgerVars
      <4>2. generation[t] > 0 /\ generation[t] \in Nat /\ spent["outage"] \in Nat
        BY <1>0, <3>3 DEF RejudgeFails, Busy, WorkBegan
      <4> QED BY <4>1, <4>2 DEF Explained, Faults
    <3> QED BY <1>6, <3>1, <3>2, <3>3
  <2> QED BY <1>1, <2>1, <2>2, ExplainedStands
<1> QED BY <1>2, <1>3, <1>4, <1>5, <1>6 DEF Proceed

\* Requests that start: the row they make wait is the one they work on.
LEMMA StartsExplain ==
  ASSUME JoblessInv, [Next]_vars, NEW r \in Requests, NEW s \in Submissions, NEW t \in Submissions,
         Waits(t)',
         \/ Submit(r, s) \/ Poll(r, s) \/ Rejudge(r, s)
         \/ \E v \in Verdicts : Override(r, s, v)
  PROVE  Explained(t)'
<1>0. /\ req \in [Requests -> Request] /\ status \in [Submissions -> {"absent", "present", "deleted"}]
      /\ answer \in [Submissions -> Answers] /\ generation \in [Submissions -> Nat]
  BY DEF JoblessInv, JudgingInv, TypeOK, LedgerTypeOK
<1>1. PICK p \in Points, n \in Nat : Start(r, p, s, n) /\ UNCHANGED job
                             /\ (Submit(r, s) => p = "enqueue") /\ (Rejudge(r, s) => p = "remove")
  <2>1. CASE Submit(r, s) /\ ~Rejudge(r, s)
    BY <2>1 DEF Submit, Points
  <2>2. CASE Rejudge(r, s) /\ ~Submit(r, s)
    BY <1>0, <2>2 DEF Rejudge, Points
  <2>3. CASE ~Rejudge(r, s) /\ ~Submit(r, s)
    BY <2>3 DEF Poll, Override, Points
  <2>4. ~(Submit(r, s) /\ Rejudge(r, s))
    BY <1>0 DEF Submit, Rejudge, InsertRow, ClearRow, Present
  <2> QED BY <2>1, <2>2, <2>3, <2>4
<1>2. req[r].at = "idle" /\ (\A o \in Requests \ {r} : req'[o] = req[o])
      /\ req'[r].at = p /\ req'[r].sub = s
  BY <1>0, <1>1, IdleTyped DEF Start
<1>3. CASE t = s /\ (Submit(r, s) \/ Rejudge(r, s))
  BY <1>1, <1>2, <1>3 DEF Explained, Busy, Work
<1>4. CASE t # s \/ ~(Submit(r, s) \/ Rejudge(r, s))
  <2>1. Waits(t)
    <3>1. CASE t # s
      BY <1>0, <1>1, <3>1 DEF Submit, Poll, Rejudge, Override, InsertRow, ClearRow, OverrideRow, Record,
         Waits, Unanswered, Present, ledgerVars
    <3>2. ASSUME NEW v \in Verdicts, Override(r, s, v), t = s PROVE FALSE
      <4>1. answer' = [answer EXCEPT ![s] = AdminAnswer(v)] /\ v # "null"
        BY <3>2, VerdictsAssumption DEF Verdicts, Override, OverrideRow, Record
      <4> QED BY <1>0, <3>2, <4>1 DEF AdminAnswer, Waits, Unanswered
    <3>3. CASE Poll(r, s)
      BY <3>3 DEF Poll, Waits, Unanswered, Present, ledgerVars
    <3> QED BY <1>4, <3>1, <3>2, <3>3
  <2>2. ~Busy(r, t)
    BY <1>2 DEF Busy, Work
  <2> QED BY <1>2, <2>1, <2>2, ExplainedStands
<1> QED BY <1>3, <1>4

\* Everything else starts and ends no handler.
LEMMA OthersExplain ==
  ASSUME JoblessInv, [Next]_vars, NEW s \in Submissions, NEW t \in Submissions, Waits(t)',
         \/ Take(s) \/ Judge(s) \/ BackoffOver(s) \/ Stalled(s) \/ Evict(s) \/ Age(s)
         \/ RemoveParticipant(s) \/ (\E v \in Verdicts : LegacyWrites(s, v)) \/ WorkerDies
  PROVE  Explained(t)'
<1>0. /\ job \in [Submissions -> Jobs] /\ spent \in [Events -> Nat] /\ JudgingInv
      /\ status \in [Submissions -> {"absent", "present", "deleted"}]
      /\ answer \in [Submissions -> Answers]
  BY DEF JoblessInv, JudgingInv, TypeOK, LedgerTypeOK
<1>1. UNCHANGED req
  BY DEF Take, Judge, Complete, Throw, BackoffOver, Stalled, Evict, Age, RemoveParticipant,
         LegacyWrites, WorkerDies
<1>2. CASE Evict(s)
  <2>1. spent'["evict"] = spent["evict"] + 1 /\ spent["evict"] \in Nat
    BY <1>0, <1>2, SpendAdds DEF Evict, Events
  <2> QED BY <2>1 DEF Explained, Faults
<1>3. CASE ~Evict(s)
  <2>1. Waits(t)
    <3>1. CASE Take(s) \/ BackoffOver(s) \/ Stalled(s)
      BY <1>0, <3>1 DEF Take, BackoffOver, Stalled, Jobs, Waits, Unanswered, Present, ledgerVars
    <3>2. CASE Throw(s)
      BY <1>0, <3>2 DEF Throw, Jobs, Waits, Unanswered, Present, ledgerVars
    <3>3. ASSUME NEW v \in Results, Complete(s, v) PROVE Waits(t)
      BY <1>0, <3>3 DEF Complete, Jobs, Waits, Unanswered, Present, ledgerVars
    <3>4. CASE Age(s)
      BY <3>4 DEF Age, Waits, Unanswered, Present, ledgerVars
    <3>5. CASE RemoveParticipant(s)
      BY <1>0, <3>5 DEF RemoveParticipant, DeleteRow, Waits, Unanswered, Present
    <3>6. ASSUME NEW v \in Verdicts, LegacyWrites(s, v) PROVE Waits(t)
      <4>1. v # "null" /\ LegacyAnswer(v).verdict = v
        BY VerdictsAssumption DEF LegacyAnswer, Verdicts
      <4> QED BY <1>0, <3>6, <4>1 DEF LegacyWrites, LegacyWrite, Waits, Unanswered, Present
    <3>7. CASE WorkerDies
      BY <1>0, <3>7 DEF WorkerDies, Jobs, Waits, Unanswered, Present, ledgerVars
    <3> QED BY <1>3, <3>1, <3>2, <3>3, <3>4, <3>5, <3>6, <3>7 DEF Judge
  <2>2. Explained(t)
    BY <2>1 DEF JoblessInv
  <2>3. Faults(t) => Faults(t)'
    BY <1>0, FaultsStand
  <2> QED BY <1>1, <2>2, <2>3 DEF Explained, Busy
<1> QED BY <1>2, <1>3

\* What a handler has begun stays begun.
LEMMA WorkStaysBegun ==
  ASSUME JoblessInv, [Next]_vars
  PROVE  WorkBegan'
<1>0. /\ req \in [Requests -> Request] /\ spent \in [Events -> Nat] /\ JudgingInv /\ WorkBegan
      /\ generation \in [Submissions -> Nat] /\ "outage" \in Events
      /\ \A q \in Requests : req[q].sub \in Submissions
  BY DEF JoblessInv, JudgingInv, TypeOK, LedgerTypeOK, Request, Events
<1>1. /\ spent'["outage"] \in Nat /\ spent["outage"] \in Nat /\ spent'["outage"] >= spent["outage"]
      /\ \A t \in Submissions :
           generation'[t] \in Nat /\ generation[t] \in Nat /\ generation'[t] >= generation[t]
  BY <1>0, TalliesGrow
<1>2. ASSUME NEW q \in Requests, req'[q] = req[q]
      PROVE  /\ req'[q].at \in {"remove", "reenqueue"} => generation'[req'[q].sub] > 0
             /\ req'[q].at = "takeback" => spent'["outage"] > 0
  BY <1>0, <1>1, <1>2 DEF WorkBegan
<1>3. ASSUME NEW r \in Requests, \A o \in Requests \ {r} : req'[o] = req[o],
             /\ req'[r].at \in {"remove", "reenqueue"} => generation'[req'[r].sub] > 0
             /\ req'[r].at = "takeback" => spent'["outage"] > 0
      PROVE  WorkBegan'
  BY <1>2, <1>3 DEF WorkBegan
<1>4. CASE UNCHANGED req
  BY <1>2, <1>4 DEF WorkBegan
<1>5. ASSUME NEW r \in Requests, Proceed(r) \/ RejudgeFails(r) \/ RequestDies(r)
      PROVE  WorkBegan'
  <2>1. CASE RemoveOldJob(r) /\ Goto(r, "reenqueue")
    <3>1. generation[req[r].sub] > 0
      BY <1>0, <2>1 DEF RemoveOldJob, IsAt, WorkBegan
    <3>2. /\ req'[r].at = "reenqueue" /\ req'[r].sub = req[r].sub
          /\ \A o \in Requests \ {r} : req'[o] = req[o]
      BY <1>0, <2>1 DEF Goto
    <3> QED BY <1>0, <1>1, <1>3, <3>1, <3>2
  <2>2. CASE ~(RemoveOldJob(r) /\ Goto(r, "reenqueue"))
    <3>1. CASE SubmitEnqueues(r) \/ RejudgeEnqueues(r)
      <4>1. \E q : req' = [req EXCEPT ![r] = q] /\ q.at \in {"idle", "read"}
        <5>1. [req[r] EXCEPT !.at = "read"].at = "read"
          BY <1>0 DEF Request
        <5> QED BY <1>0, <3>1, <5>1, IdleTyped DEF SubmitEnqueues, RejudgeEnqueues, Enqueue
      <4> QED BY <1>0, <1>3, <4>1
    <3>2. CASE ReadRow(r) \/ GetJob(r) \/ GetState(r)
      <4>1. \E q : req' = [req EXCEPT ![r] = q] /\ q.at \notin {"remove", "reenqueue", "takeback"}
        <5>1. \A p : [req[r] EXCEPT !.at = p].at = p
          BY <1>0 DEF Request
        <5>2. \/ \E p \in {"getjob", "giveup", "persist"} : Goto(r, p)
              \/ Finish(r)
              \/ \E u, v, w : req' = [req EXCEPT ![r] = [at |-> "getstate", sub |-> u, value |-> v, run |-> w]]
          BY <3>2 DEF ReadRow, GetJob, GetState
        <5>3. ASSUME NEW p \in {"getjob", "giveup", "persist"}, Goto(r, p)
              PROVE  req' = [req EXCEPT ![r] = [req[r] EXCEPT !.at = p]]
          BY <1>0, <5>3 DEF Goto
        <5>4. Finish(r) => req' = [req EXCEPT ![r] = Idle] /\ Idle.at = "idle"
          BY IdleTyped DEF Finish
        <5>5. ASSUME NEW u, NEW v, NEW w,
                     req' = [req EXCEPT ![r] = [at |-> "getstate", sub |-> u, value |-> v, run |-> w]]
              PROVE  \E q : req' = [req EXCEPT ![r] = q] /\ q.at \notin {"remove", "reenqueue", "takeback"}
          <6> DEFINE q == [at |-> "getstate", sub |-> u, value |-> v, run |-> w]
          <6>1. req' = [req EXCEPT ![r] = q] /\ q.at = "getstate"
            BY <5>5
          <6> HIDE DEF q
          <6> QED BY <6>1
        <5>6. ASSUME NEW p \in {"getjob", "giveup", "persist"}, Goto(r, p)
              PROVE  \E q : req' = [req EXCEPT ![r] = q] /\ q.at \notin {"remove", "reenqueue", "takeback"}
          <6> DEFINE q == [req[r] EXCEPT !.at = p]
          <6>1. req' = [req EXCEPT ![r] = q] /\ q.at = p
            BY <5>1, <5>3, <5>6
          <6> HIDE DEF q
          <6> QED BY <6>1
        <5> QED BY <5>2, <5>4, <5>5, <5>6
      <4> QED BY <1>0, <1>3, <4>1
    <3>3. CASE TakeBack(r) \/ Persist(r) \/ GiveUp(r) \/ RejudgeFails(r) \/ RequestDies(r)
               \/ (RemoveOldJob(r) /\ Finish(r))
      <4>1. req' = [req EXCEPT ![r] = Idle]
        BY <3>3 DEF TakeBack, Persist, GiveUp, RejudgeFails, RequestDies, Finish
      <4> QED BY <1>0, <1>3, <4>1, IdleTyped
    <3> QED BY <1>5, <2>2, <3>1, <3>2, <3>3 DEF Proceed, RemoveOldJob
  <2> QED BY <2>1, <2>2
<1>6. ASSUME NEW r \in Requests, SubmitEnqueueFails(r) PROVE WorkBegan'
  <2>1. spent'["outage"] = spent["outage"] + 1
    BY <1>0, <1>6, SpendAdds DEF SubmitEnqueueFails
  <2>2. req'[r].at = "takeback" /\ \A o \in Requests \ {r} : req'[o] = req[o]
    BY <1>0, <1>6 DEF SubmitEnqueueFails, Goto
  <2> QED BY <1>1, <1>3, <2>1, <2>2
<1>7. ASSUME NEW r \in Requests, NEW s \in Submissions,
             Submit(r, s) \/ Poll(r, s) \/ (\E v \in Verdicts : Override(r, s, v))
      PROVE  WorkBegan'
  <2>1. req'[r].at \in {"enqueue", "getjob", "read"} /\ \A o \in Requests \ {r} : req'[o] = req[o]
    BY <1>0, <1>7 DEF Submit, Poll, Override, Start
  <2> QED BY <1>3, <2>1
<1>8. ASSUME NEW r \in Requests, NEW s \in Submissions, Rejudge(r, s) PROVE WorkBegan'
  <2>1. /\ req'[r].at = "remove" /\ req'[r].sub = s
        /\ \A o \in Requests \ {r} : req'[o] = req[o]
        /\ generation'[s] = generation[s] + 1
    BY <1>0, <1>8 DEF Rejudge, Start, ClearRow
  <2> QED BY <1>1, <1>3, <2>1
<1>9. CASE \/ \E s \in Submissions :
                \/ Take(s) \/ Judge(s) \/ BackoffOver(s) \/ Stalled(s) \/ Evict(s) \/ Age(s)
                \/ RemoveParticipant(s) \/ \E v \in Verdicts : LegacyWrites(s, v)
           \/ WorkerDies
  <2>1. UNCHANGED req
    BY <1>9 DEF Take, Judge, Complete, Throw, BackoffOver, Stalled, Evict, Age, RemoveParticipant,
         LegacyWrites, WorkerDies
  <2> QED BY <1>4, <2>1
<1>10. CASE UNCHANGED vars
  BY <1>4, <1>10 DEF vars
<1> QED BY <1>5, <1>6, <1>7, <1>8, <1>9, <1>10 DEF Next

\* Nobody waits at the start.
LEMMA JoblessInit == Init => JoblessInv
<1> SUFFICES ASSUME Init PROVE JoblessInv
  OBVIOUS
<1>1. JudgingInv
  BY JudgingInvInit
<1>2. WorkBegan
  BY IdleTyped DEF Init, WorkBegan
<1>3. \A t \in Submissions : ~Waits(t)
  BY DEF Init, LedgerInit, Waits, Unanswered, Present
<1> QED BY <1>1, <1>2, <1>3 DEF JoblessInv

LEMMA JoblessStep == JoblessInv /\ [Next]_vars => JoblessInv'
<1> SUFFICES ASSUME JoblessInv, [Next]_vars PROVE JoblessInv'
  OBVIOUS
<1>1. JudgingInv' /\ WorkBegan'
  BY JudgingInvStep, WorkStaysBegun DEF JoblessInv
<1>2. ASSUME NEW t \in Submissions, Waits(t)' PROVE Explained(t)'
  <2>1. CASE UNCHANGED vars
    BY <1>2, <2>1 DEF vars, JoblessInv, Waits, Unanswered, Present, Explained, Faults, Busy
  <2>2. CASE Next
    BY <1>2, <2>2, HandlersExplain, StartsExplain, OthersExplain DEF Next
  <2> QED BY <2>1, <2>2
<1> QED BY <1>1, <1>2 DEF JoblessInv

\* createSubmission and rejudgeSubmission write the database and then Redis, with
\* any number of other handlers and faults in between: a row that waits with no
\* job behind it is somebody's work or a fault's.
THEOREM JudgingExplainsJobless == Spec => []JoblessRowIsExplained
<1>1. JoblessInv => JoblessRowIsExplained
  BY DEF JoblessInv, Waits, Explained, Faults, Busy, Work, JoblessRowIsExplained
<1> QED BY <1>1, JoblessInit, JoblessStep, PTL DEF Spec

-------------------------------------------------------------------------------
\* Patience.

\* An enqueue is still to come for s.
Enqueuing(r, s) == req[r].sub = s /\ req[r].at = "enqueue"

\* Its run is over, and left nothing a request can store.
Unreadable(s) ==
  \/ job[s].state = "missing"
  \/ job[s].state = "completed" /\ job[s].value = "garbage"

\* What BullMQ sees to: only a running job is held, only a finished one has
\* a return value that does not parse.
WellKept(j) ==
  /\ j.held => j.state = "active"
  /\ j.value = "garbage" => j.state = "completed"

\* A handler's row was inserted, and one that was not has no job and no age; a
\* first run that was read as garbage stays so.  While a submission waits for its
\* first enqueue it has neither job nor age, and only one handler is to make it.
\* So whoever is about to give up on a first run has seen that it is over and
\* left nothing to store, or that it is not coming.
Patience ==
  /\ \A s \in Submissions : WellKept(job[s])
  /\ \A r \in Requests :
       req[r].at = "getstate" /\ req[r].value = "garbage" /\ generation[req[r].sub] = 0 =>
         /\ Unreadable(req[r].sub)
         /\ \A o \in Requests : ~Enqueuing(o, req[r].sub)
  /\ \A r \in Requests : req[r].at # "idle" => status[req[r].sub] # "absent"
  /\ \A s \in Submissions :
       generation[s] = 0 /\ status[s] = "absent" =>
         job[s].state = "missing" /\ s \notin overdue
  /\ \A r \in Requests, s \in Submissions :
       Enqueuing(r, s) /\ generation[s] = 0 =>
         /\ job[s].state = "missing" /\ s \notin overdue
         /\ \A o \in Requests \ {r} : ~Enqueuing(o, s)
  /\ \A r \in Requests :
       req[r].at = "giveup" /\ generation[req[r].sub] = 0 =>
         /\ ~Promising(req[r].sub)
         /\ \A o \in Requests : ~Enqueuing(o, req[r].sub)

PatientInv == JoblessInv /\ Patience

\* A step that lets nobody be about to enqueue anew, wakes no job of a first run
\* and leaves handlers on rows that exist keeps all of it.
LEMMA PatienceStands ==
  ASSUME PatientInv, [Next]_vars, NEW r, req \in [Requests -> Request],
         \A o \in Requests \ {r} : req'[o] = req[o],
         \A s \in Submissions : WellKept(job'[s]),
         \A s \in Submissions : generation[s] = 0 =>
           /\ job[s].state = "missing" => job'[s].state = "missing"
           /\ Promising(s)' => Promising(s)
           /\ Unreadable(s) => Unreadable(s)',
         \A s \in overdue' \ overdue :
           status[s] # "absent" /\ \A o \in Requests : ~Enqueuing(o, s),
         \/ req'[r] = req[r]
         \/ /\ req'[r].at # "enqueue"
            /\ req'[r].at # "idle" => status[req'[r].sub] # "absent"
            /\ req'[r].at = "getstate" /\ req'[r].value = "garbage" =>
                 /\ req'[r].sub \in Submissions
                 /\ Unreadable(req'[r].sub) /\ job[req'[r].sub].state # "missing"
            /\ req'[r].at = "giveup" /\ generation[req'[r].sub] = 0 =>
                 /\ req'[r].sub \in Submissions
                 /\ ~Promising(req'[r].sub)
                 /\ job[req'[r].sub].state # "missing" \/ req'[r].sub \in overdue
  PROVE  Patience'
<1>1. /\ \A s \in Submissions : generation[s] \in Nat /\ (generation'[s] = 0 => generation[s] = 0)
      /\ \A s \in Submissions : status'[s] = "absent" => status[s] = "absent"
      /\ \A o \in Requests : req[o].sub \in Submissions
  <2>1. \A s \in Submissions :
          generation'[s] \in Nat /\ generation[s] \in Nat /\ generation'[s] >= generation[s]
    BY TalliesGrow DEF PatientInv, JoblessInv
  <2>2. \A s \in Submissions : status'[s] = "absent" => status[s] = "absent"
    <3>1. status \in [Submissions -> {"absent", "present", "deleted"}]
      BY DEF PatientInv, JoblessInv, JudgingInv, TypeOK, LedgerTypeOK
    <3> QED BY <3>1, StepIsLedgerStep DEF PatientInv, JoblessInv, LedgerNext, InsertRow, RecordResult, RecordGiveUp,
         OverrideRow, ClearRow, DeleteRow, LegacyWrite, ledgerVars
  <2> QED BY <2>1, <2>2 DEF Request
<1>2. ASSUME NEW o \in Requests, req'[o].at # "idle" PROVE status'[req'[o].sub] # "absent"
  <2>1. CASE req'[o] = req[o]
    BY <1>1, <1>2, <2>1 DEF PatientInv, Patience
  <2>2. CASE o = r /\ req'[r] # req[r]
    <3>1. req'[r].sub \in Submissions
      BY <2>2, JudgingInvStep DEF PatientInv, JoblessInv, JudgingInv, TypeOK, Request
    <3> QED BY <1>1, <1>2, <2>2, <3>1
  <2> QED BY <2>1, <2>2
<1>3. ASSUME NEW s \in Submissions, generation'[s] = 0, status'[s] = "absent"
      PROVE  job'[s].state = "missing" /\ s \notin overdue'
  BY <1>1, <1>3 DEF PatientInv, Patience
<1>4. ASSUME NEW o \in Requests, NEW s \in Submissions PROVE Enqueuing(o, s)' => Enqueuing(o, s)
  BY DEF Enqueuing
<1>5. ASSUME NEW o \in Requests, NEW s \in Submissions, Enqueuing(o, s)', generation'[s] = 0
      PROVE  /\ job'[s].state = "missing" /\ s \notin overdue'
             /\ \A q \in Requests \ {o} : ~Enqueuing(q, s)'
  <2>1. Enqueuing(o, s) /\ generation[s] = 0
    BY <1>1, <1>4, <1>5
  <2>2. /\ job[s].state = "missing" /\ s \notin overdue
        /\ \A q \in Requests \ {o} : ~Enqueuing(q, s)
    BY <2>1 DEF PatientInv, Patience
  <2> QED BY <1>4, <2>1, <2>2
<1>6. ASSUME NEW o \in Requests, NEW s \in Submissions,
             req'[o].at = "giveup", req'[o].sub = s, generation'[s] = 0
      PROVE  ~Promising(s)' /\ \A q \in Requests : ~Enqueuing(q, s)'
  <2>1. generation[s] = 0
    BY <1>1, <1>6
  <2>2. ~Promising(s) /\ \A q \in Requests : ~Enqueuing(q, s)
    <3>1. CASE req'[o] = req[o]
      BY <1>6, <2>1, <3>1 DEF PatientInv, Patience
    <3>2. CASE o = r /\ req'[r] # req[r]
      BY <1>6, <2>1, <3>2 DEF PatientInv, Patience
    <3> QED BY <3>1, <3>2
  <2> QED BY <1>4, <2>1, <2>2
<1>7. \A o \in Requests : req'[o].sub \in Submissions
  BY JudgingInvStep DEF PatientInv, JoblessInv, JudgingInv, TypeOK, Request
<1>8. ASSUME NEW o \in Requests, req'[o].at = "giveup", generation'[req'[o].sub] = 0
      PROVE  /\ ~Promising(req[o].sub)'
             /\ \A q \in Requests : ~Enqueuing(q, req[o].sub)'
  BY <1>6, <1>7, <1>8 DEF Live, Promising, Enqueuing
<1>9. ASSUME NEW o \in Requests, NEW s \in Submissions, req'[o].sub = s, generation'[s] = 0,
             req'[o].at = "getstate", req'[o].value = "garbage"
      PROVE  Unreadable(s)' /\ \A q \in Requests : ~Enqueuing(q, s)'
  <2>1. generation[s] = 0
    BY <1>1, <1>9
  <2>2. Unreadable(s) /\ \A q \in Requests : ~Enqueuing(q, s)
    <3>1. CASE req'[o] = req[o]
      BY <1>9, <2>1, <3>1 DEF PatientInv, Patience
    <3>2. CASE o = r /\ req'[r] # req[r]
      BY <1>9, <2>1, <3>2 DEF PatientInv, Patience
    <3> QED BY <3>1, <3>2
  <2> QED BY <1>4, <2>1, <2>2
<1>10. ASSUME NEW o \in Requests, req'[o].at = "getstate", req'[o].value = "garbage",
              generation'[req'[o].sub] = 0
       PROVE  /\ Unreadable(req[o].sub)'
              /\ \A q \in Requests : ~Enqueuing(q, req[o].sub)'
  BY <1>7, <1>9, <1>10 DEF Unreadable, Enqueuing
<1> QED BY <1>2, <1>3, <1>5, <1>8, <1>10 DEF Patience
\* What the steps below read of the state.
LEMMA PatientFacts ==
  ASSUME PatientInv
  PROVE  /\ req \in [Requests -> Request] /\ job \in [Submissions -> Jobs]
         /\ \A r \in Requests : req[r].sub \in Submissions /\ req[r].run \in Nat
         /\ \A s \in Submissions : WellKept(job[s])
         /\ \A r \in Requests : req[r].at # "idle" => status[req[r].sub] # "absent"
         /\ status \in [Submissions -> {"absent", "present", "deleted"}]
         /\ generation \in [Submissions -> Nat]
         /\ JudgingInv /\ WorkBegan
BY DEF PatientInv, Patience, JoblessInv, JudgingInv, TypeOK, LedgerTypeOK, Request

\* Handlers under way, but for the first enqueue.
LEMMA HandlersStayPatient ==
  ASSUME PatientInv, [Next]_vars, NEW r \in Requests,
         \/ Proceed(r) /\ ~SubmitEnqueues(r)
         \/ SubmitEnqueueFails(r) \/ RejudgeFails(r) \/ RequestDies(r)
  PROVE  Patience'
<1> DEFINE s == req[r].sub
<1>0. /\ req \in [Requests -> Request] /\ job \in [Submissions -> Jobs]
      /\ s \in Submissions /\ req[r].run \in Nat
      /\ \A t \in Submissions : WellKept(job[t])
      /\ req[r].at # "idle" => status[s] # "absent"
      /\ JudgingInv /\ WorkBegan
  BY PatientFacts
<1>1. CASE TakeBack(r) \/ Persist(r) \/ GiveUp(r) \/ RejudgeFails(r) \/ RequestDies(r)
  <2>1. req' = [req EXCEPT ![r] = Idle] /\ UNCHANGED <<job, overdue>>
    BY <1>1 DEF TakeBack, Persist, GiveUp, RejudgeFails, RequestDies, Finish
  <2>2. req'[r].at = "idle" /\ \A o \in Requests \ {r} : req'[o] = req[o]
    BY <1>0, <2>1, IdleTyped
  <2> QED BY <1>0, <2>1, <2>2, PatienceStands DEF Live, Promising, Unreadable
<1>2. CASE ReadRow(r) \/ SubmitEnqueueFails(r)
  <2>1. UNCHANGED <<job, overdue>> /\ req[r].at # "idle"
    BY <1>2 DEF ReadRow, SubmitEnqueueFails, IsAt
  <2>2. /\ \A o \in Requests \ {r} : req'[o] = req[o]
        /\ \/ req'[r].at = "idle"
           \/ req'[r].at \in {"getjob", "takeback"} /\ req'[r].sub = s
    BY <1>0, <1>2, IdleTyped DEF ReadRow, SubmitEnqueueFails, Goto, Finish, Request
  <2> QED BY <1>0, <2>1, <2>2, PatienceStands DEF Live, Promising, Unreadable
<1>3. CASE GetJob(r)
  <2>1. UNCHANGED <<job, overdue>> /\ req[r].at # "idle"
    BY <1>3 DEF GetJob, IsAt
  <2>2. /\ \A o \in Requests \ {r} : req'[o] = req[o]
        /\ \/ req'[r].at = "idle"
           \/ /\ req'[r].at = "getstate" /\ req'[r].sub = s
              /\ req'[r].value = job[s].value
           \/ /\ req'[r].at = "giveup" /\ req'[r].sub = s
              /\ job[s].state = "missing" /\ s \in overdue
    BY <1>0, <1>3, IdleTyped DEF GetJob, Goto, Finish, Request
  <2>3. job[s].value = "garbage" => Unreadable(s) /\ job[s].state # "missing"
    BY <1>0 DEF WellKept, Unreadable
  <2>4. job[s].state = "missing" => ~Promising(s)
    BY DEF Live, Promising
  <2> QED BY <1>0, <2>1, <2>2, <2>3, <2>4, PatienceStands DEF Live, Promising, Unreadable
<1>4. CASE GetState(r)
  <2>1. UNCHANGED <<job, overdue>> /\ req[r].at # "idle"
    BY <1>4 DEF GetState, IsAt
  <2>2. /\ \A o \in Requests \ {r} : req'[o] = req[o]
        /\ \/ req'[r].at = "idle"
           \/ req'[r].at = "persist" /\ req'[r].sub = s
           \/ /\ req'[r].at = "giveup" /\ req'[r].sub = s
              /\ \/ job[s].state = "failed"
                 \/ job[s].state = "completed" /\ req[r].value = "garbage"
    BY <1>0, <1>4, IdleTyped DEF GetState, Goto, Finish, Request
  <2>3. ASSUME req'[r].at = "giveup", generation[s] = 0
        PROVE  ~Promising(s) /\ job[s].state # "missing"
    <3>1. req[r].at = "getstate" /\ (req[r].value = "garbage" => Unreadable(s))
      BY <1>4, <2>3 DEF PatientInv, Patience, GetState, IsAt
    <3> QED BY <2>2, <2>3, <3>1 DEF Live, Promising, Unreadable
  <2> QED BY <1>0, <2>1, <2>2, <2>3, PatienceStands DEF Live, Promising, Unreadable
<1>5. CASE RemoveOldJob(r)
  <2>1. UNCHANGED overdue /\ req[r].at # "idle"
    BY <1>5 DEF RemoveOldJob, IsAt
  <2>2. /\ \A o \in Requests \ {r} : req'[o] = req[o]
        /\ \/ req'[r].at = "idle"
           \/ req'[r].at = "reenqueue" /\ req'[r].sub = s
    BY <1>0, <1>5, IdleTyped DEF RemoveOldJob, Goto, Finish, Request
  <2>3. \A t \in Submissions : job'[t] = job[t] \/ job'[t] = NoJob
    BY <1>0, <1>5 DEF RemoveOldJob
  <2>4. NoJob.state = "missing" /\ WellKept(NoJob)
    BY DEF NoJob, WellKept
  <2>5. /\ \A t \in Submissions : WellKept(job'[t])
        /\ \A t \in Submissions : generation[t] = 0 =>
             /\ job[t].state = "missing" => job'[t].state = "missing"
             /\ Promising(t)' => Promising(t)
             /\ Unreadable(t) => Unreadable(t)'
    BY <1>0, <2>3, <2>4 DEF Live, Promising, Unreadable
  <2> QED BY <1>0, <2>1, <2>2, <2>5, PatienceStands
<1>6. CASE RejudgeEnqueues(r)
  <2>1. UNCHANGED overdue /\ req[r].at # "idle" /\ generation[s] > 0
    BY <1>0, <1>6 DEF RejudgeEnqueues, Enqueue, IsAt, WorkBegan
  <2>2. /\ \A o \in Requests \ {r} : req'[o] = req[o]
        /\ req'[r].at = "read" /\ req'[r].sub = s
    BY <1>0, <1>6 DEF RejudgeEnqueues, Enqueue, Request
  <2>3. \A t \in Submissions : job'[t] = job[t] \/ (t = s /\ job'[t] = NewJob(req[r].run))
    BY <1>0, <1>6 DEF RejudgeEnqueues, Enqueue
  <2>4. WellKept(NewJob(req[r].run))
    BY DEF NewJob, NoJob, WellKept
  <2>5. /\ \A t \in Submissions : WellKept(job'[t])
        /\ \A t \in Submissions : generation[t] = 0 =>
             /\ job[t].state = "missing" => job'[t].state = "missing"
             /\ Promising(t)' => Promising(t)
             /\ Unreadable(t) => Unreadable(t)'
    BY <1>0, <2>1, <2>3, <2>4 DEF Live, Promising, Unreadable
  <2> QED BY <1>0, <2>1, <2>2, <2>5, PatienceStands
<1> QED BY <1>1, <1>2, <1>3, <1>4, <1>5, <1>6 DEF Proceed

\* Handlers that start on a row that is there.
LEMMA StartsStayPatient ==
  ASSUME PatientInv, [Next]_vars, NEW r \in Requests, NEW s \in Submissions,
         Poll(r, s) \/ Rejudge(r, s) \/ \E v \in Verdicts : Override(r, s, v)
  PROVE  Patience'
<1>0. /\ req \in [Requests -> Request]
      /\ \A t \in Submissions : WellKept(job[t])
  BY PatientFacts
<1>1. UNCHANGED <<job, overdue>> /\ status[s] # "absent"
  BY DEF Poll, Rejudge, Override, Unanswered, Present, ClearRow, OverrideRow
<1>2. /\ \A o \in Requests \ {r} : req'[o] = req[o]
      /\ req'[r].at \in {"getjob", "remove", "read"} /\ req'[r].sub = s
  BY <1>0 DEF Poll, Rejudge, Override, Start
<1> QED BY <1>0, <1>1, <1>2, PatienceStands DEF Live, Promising, Unreadable

\* The worker, BullMQ, time, organizers and the previous release.
Elsewhere ==
  \/ \E s \in Submissions :
       \/ Take(s) \/ Judge(s) \/ BackoffOver(s) \/ Stalled(s) \/ Evict(s) \/ Age(s)
       \/ RemoveParticipant(s)
       \/ \E v \in Verdicts : LegacyWrites(s, v)
  \/ WorkerDies
  \/ UNCHANGED vars

LEMMA OthersStayPatient ==
  ASSUME PatientInv, [Next]_vars, Elsewhere
  PROVE  Patience'
<1>0. /\ req \in [Requests -> Request] /\ job \in [Submissions -> Jobs]
      /\ \A t \in Submissions : WellKept(job[t])
  BY PatientFacts
<1>1. UNCHANGED req /\ \A s \in overdue' \ overdue :
        status[s] # "absent" /\ \A o \in Requests : ~Enqueuing(o, s)
  <2>1. CASE UNCHANGED vars \/ WorkerDies
    BY <2>1 DEF vars, WorkerDies
  <2>2. ASSUME NEW s \in Submissions,
               Take(s) \/ Throw(s) \/ BackoffOver(s) \/ Stalled(s) \/ Evict(s)
        PROVE  UNCHANGED <<req, overdue>>
    BY <2>2 DEF Take, Throw, BackoffOver, Stalled, Evict
  <2>5. ASSUME NEW s \in Submissions, NEW v \in Results, Complete(s, v)
        PROVE  UNCHANGED <<req, overdue>>
    BY <2>5 DEF Complete
  <2>3. ASSUME NEW s \in Submissions,
               RemoveParticipant(s) \/ \E v \in Verdicts : LegacyWrites(s, v)
        PROVE  UNCHANGED <<req, overdue>>
    BY <2>3 DEF RemoveParticipant, LegacyWrites
  <2>4. ASSUME NEW s \in Submissions, Age(s)
        PROVE  /\ UNCHANGED req /\ overdue' = overdue \union {s} /\ status[s] # "absent"
               /\ \A o \in Requests : ~Enqueuing(o, s)
    BY <2>4 DEF Age, Present, Enqueuing
  <2> QED BY <2>1, <2>2, <2>3, <2>4, <2>5 DEF Elsewhere, Judge
<1>3. ASSUME NEW t \in Submissions
      PROVE  /\ WellKept(job'[t])
             /\ job[t].state = "missing" => job'[t].state = "missing"
             /\ Promising(t)' => Promising(t)
             /\ Unreadable(t) => Unreadable(t)'
  <2>1. NoJob.state = "missing" /\ WellKept(NoJob)
    BY DEF NoJob, WellKept
  <2>2. CASE UNCHANGED job
    BY <1>0, <2>2 DEF Live, Promising, Unreadable
  <2>3. ASSUME NEW s \in Submissions, Take(s) \/ BackoffOver(s) \/ Stalled(s) \/ Throw(s)
        PROVE  /\ WellKept(job'[t])
               /\ job[t].state = "missing" => job'[t].state = "missing"
               /\ Promising(t)' => Promising(t)
               /\ Unreadable(t) => Unreadable(t)'
    BY <1>0, <2>3 DEF Take, BackoffOver, Stalled, Throw, Live, Promising, Unreadable, WellKept, Jobs
  <2>4. ASSUME NEW s \in Submissions, Evict(s)
        PROVE  /\ WellKept(job'[t])
               /\ job[t].state = "missing" => job'[t].state = "missing"
               /\ Promising(t)' => Promising(t)
               /\ Unreadable(t) => Unreadable(t)'
    BY <1>0, <2>1, <2>4 DEF Evict, Live, Promising, Unreadable, WellKept, Jobs
  <2>7. ASSUME NEW s \in Submissions, NEW v \in Results, Complete(s, v)
        PROVE  /\ WellKept(job'[t])
               /\ job[t].state = "missing" => job'[t].state = "missing"
               /\ Promising(t)' => Promising(t)
               /\ Unreadable(t) => Unreadable(t)'
    BY <1>0, <2>7 DEF Complete, Live, Promising, Unreadable, WellKept, Jobs
  <2>5. CASE WorkerDies
    BY <1>0, <2>5 DEF WorkerDies, Live, Promising, Unreadable, WellKept, Jobs
  <2>6. (UNCHANGED vars \/ \E s \in Submissions : Age(s) \/ RemoveParticipant(s)
           \/ \E v \in Verdicts : LegacyWrites(s, v)) => UNCHANGED job
    BY DEF vars, Age, RemoveParticipant, LegacyWrites
  <2> QED BY <2>2, <2>3, <2>4, <2>5, <2>6, <2>7 DEF Elsewhere, Judge
<1> QED BY <1>0, <1>1, <1>3, PatienceStands
\* A submission: its row was never there, so nobody else is about it.
LEMMA SubmitIsPatient ==
  ASSUME PatientInv, [Next]_vars, NEW r \in Requests, NEW s \in Submissions, Submit(r, s)
  PROVE  Patience'
<1>1. /\ req \in [Requests -> Request] /\ Idle.at = "idle"
      /\ status \in [Submissions -> {"absent", "present", "deleted"}]
  BY PatientFacts, IdleTyped
<1>2. /\ UNCHANGED <<job, overdue, generation>>
      /\ status[s] = "absent" /\ status' = [status EXCEPT ![s] = "present"]
      /\ req[r].at = "idle" /\ req'[r].at = "enqueue" /\ req'[r].sub = s
      /\ \A o \in Requests \ {r} : req'[o] = req[o]
  BY <1>1 DEF Submit, Start, InsertRow
<1>3. \A o \in Requests : req[o].at # "idle" => req[o].sub # s
  BY <1>2 DEF PatientInv, Patience
<1>4. /\ \A t \in Submissions : WellKept(job[t])
      /\ \A o \in Requests : req[o].at # "idle" => status[req[o].sub] # "absent"
      /\ \A t \in Submissions :
           generation[t] = 0 /\ status[t] = "absent" =>
             job[t].state = "missing" /\ t \notin overdue
  BY DEF PatientInv, Patience
<1>5. \A o \in Requests \ {r} : ~Enqueuing(o, s) /\ ~Enqueuing(o, s)'
  BY <1>2, <1>3 DEF Enqueuing
<1>6. \A o \in Requests, t \in Submissions \ {s} : Enqueuing(o, t)' => Enqueuing(o, t)
  BY <1>2 DEF Enqueuing
<1>7. ASSUME NEW o \in Requests, NEW t \in Submissions, Enqueuing(o, t)', generation'[t] = 0
      PROVE  /\ job'[t].state = "missing" /\ t \notin overdue'
             /\ \A q \in Requests \ {o} : ~Enqueuing(q, t)'
  <2>1. CASE t = s
    BY <1>2, <1>4, <1>5, <1>7, <2>1
  <2>2. CASE t # s
    <3>1. Enqueuing(o, t) /\ generation[t] = 0
      BY <1>2, <1>6, <1>7, <2>2
    <3>2. /\ job[t].state = "missing" /\ t \notin overdue
          /\ \A q \in Requests \ {o} : ~Enqueuing(q, t)
      BY <3>1 DEF PatientInv, Patience
    <3> QED BY <1>2, <1>6, <2>2, <3>2
  <2> QED BY <2>1, <2>2
<1>8. ASSUME NEW o \in Requests, req'[o].at = "giveup", generation'[req'[o].sub] = 0
      PROVE  ~Promising(req[o].sub)' /\ \A q \in Requests : ~Enqueuing(q, req[o].sub)'
  <2>1. o # r /\ req'[o] = req[o] /\ req[o].sub # s /\ req[o].sub \in Submissions
    BY <1>1, <1>2, <1>3, <1>8 DEF Request
  <2>2. ~Promising(req[o].sub) /\ \A q \in Requests : ~Enqueuing(q, req[o].sub)
    BY <1>2, <1>8, <2>1 DEF PatientInv, Patience
  <2>3. job'[req'[o].sub] = job[req[o].sub]
    BY <1>2, <2>1
  <2>4. \A q \in Requests : ~(req'[q].sub = req[o].sub /\ req'[q].at = "enqueue")
    BY <1>2, <2>1, <2>2 DEF Enqueuing
  <2> QED BY <2>1, <2>2, <2>3, <2>4 DEF Live, Promising, Enqueuing
<1>9. ASSUME NEW o \in Requests, req'[o].at # "idle" PROVE status'[req'[o].sub] # "absent"
  <2>1. CASE o = r
    BY <1>1, <1>2, <2>1
  <2>2. CASE o # r
    <3>1. req'[o] = req[o] /\ req[o].sub \in Submissions
      BY <1>1, <1>2, <2>2 DEF Request
    <3> QED BY <1>1, <1>2, <1>4, <1>9, <3>1
  <2> QED BY <2>1, <2>2
<1>10. ASSUME NEW t \in Submissions, generation'[t] = 0, status'[t] = "absent"
       PROVE  job'[t].state = "missing" /\ t \notin overdue'
  BY <1>1, <1>2, <1>4, <1>10
<1>11. \A t \in Submissions : WellKept(job'[t])
  BY <1>2, <1>4
<1>12. ASSUME NEW o \in Requests, req'[o].at = "getstate", req'[o].value = "garbage",
              generation'[req'[o].sub] = 0
       PROVE  /\ Unreadable(req[o].sub)'
              /\ \A q \in Requests : ~Enqueuing(q, req[o].sub)'
  <2>1. o # r /\ req'[o] = req[o] /\ req[o].sub # s /\ req[o].sub \in Submissions
    BY <1>1, <1>2, <1>3, <1>12 DEF Request
  <2>2. Unreadable(req[o].sub) /\ \A q \in Requests : ~Enqueuing(q, req[o].sub)
    BY <1>2, <1>12, <2>1 DEF PatientInv, Patience
  <2>3. job'[req'[o].sub] = job[req[o].sub]
    BY <1>2, <2>1
  <2>4. \A q \in Requests : ~(req'[q].sub = req[o].sub /\ req'[q].at = "enqueue")
    BY <1>2, <2>1, <2>2 DEF Enqueuing
  <2> QED BY <2>1, <2>2, <2>3, <2>4 DEF Unreadable, Enqueuing
<1> QED BY <1>7, <1>8, <1>9, <1>10, <1>11, <1>12 DEF Patience

\* Its enqueue: nobody had given up on the job it makes.
LEMMA EnqueueIsPatient ==
  ASSUME PatientInv, [Next]_vars, NEW r \in Requests, SubmitEnqueues(r)
  PROVE  Patience'
<1> DEFINE s == req[r].sub
<1>1. /\ req \in [Requests -> Request] /\ job \in [Submissions -> Jobs]
      /\ s \in Submissions /\ req[r].run \in Nat /\ Idle.at = "idle"
      /\ \A o \in Requests : req[o].sub \in Submissions
  BY PatientFacts, IdleTyped
<1>2. /\ UNCHANGED <<status, generation, overdue>> /\ Enqueuing(r, s) /\ req[r].at # "idle"
      /\ req' = [req EXCEPT ![r] = Idle]
      /\ \A t \in Submissions : job'[t] = job[t] \/ (t = s /\ job'[t] = NewJob(req[r].run))
  BY <1>1 DEF SubmitEnqueues, Enqueue, IsAt, Enqueuing, ledgerVars
<1>3. req'[r].at = "idle" /\ \A o \in Requests \ {r} : req'[o] = req[o]
  BY <1>1, <1>2
<1>4. WellKept(NewJob(req[r].run))
  BY DEF NewJob, NoJob, WellKept
<1>5. \A t \in Submissions : WellKept(job'[t])
  BY <1>2, <1>4 DEF PatientInv, Patience
<1>6. \A o \in Requests : req'[o].at # "idle" => status'[req'[o].sub] # "absent"
  BY <1>2, <1>3 DEF PatientInv, Patience
<1>7. ASSUME NEW t \in Submissions, generation'[t] = 0, status'[t] = "absent"
      PROVE  job'[t].state = "missing" /\ t \notin overdue'
  <2>1. t # s
    BY <1>1, <1>2, <1>7 DEF PatientInv, Patience
  <2> QED BY <1>2, <1>7, <2>1 DEF PatientInv, Patience
<1>8. \A o \in Requests, t \in Submissions : Enqueuing(o, t)' => o # r /\ Enqueuing(o, t)
  BY <1>3 DEF Enqueuing
<1>9. ASSUME NEW o \in Requests, NEW t \in Submissions, Enqueuing(o, t)', generation'[t] = 0
      PROVE  /\ job'[t].state = "missing" /\ t \notin overdue'
             /\ \A q \in Requests \ {o} : ~Enqueuing(q, t)'
  <2>1. o # r /\ Enqueuing(o, t) /\ generation[t] = 0
    BY <1>2, <1>8, <1>9
  <2>2. /\ job[t].state = "missing" /\ t \notin overdue
        /\ \A q \in Requests \ {o} : ~Enqueuing(q, t)
    BY <2>1 DEF PatientInv, Patience
  <2>3. t # s
    BY <1>2, <2>1, <2>2
  <2> QED BY <1>2, <1>8, <2>2, <2>3
<1>10. ASSUME NEW o \in Requests, req'[o].at = "giveup", generation'[req'[o].sub] = 0
       PROVE  ~Promising(req[o].sub)' /\ \A q \in Requests : ~Enqueuing(q, req[o].sub)'
  <2>1. o # r /\ req'[o] = req[o] /\ req[o].sub \in Submissions
    BY <1>1, <1>3, <1>10
  <2>2. ~Promising(req[o].sub) /\ \A q \in Requests : ~Enqueuing(q, req[o].sub)
    BY <1>2, <1>10, <2>1 DEF PatientInv, Patience
  <2>3. req[o].sub # s
    BY <1>2, <2>2
  <2>4. job'[req'[o].sub] = job[req[o].sub]
    BY <1>2, <2>1, <2>3
  <2>5. \A q \in Requests : ~(req'[q].sub = req[o].sub /\ req'[q].at = "enqueue")
    BY <1>3, <2>2 DEF Enqueuing
  <2> QED BY <2>1, <2>2, <2>4, <2>5 DEF Live, Promising, Enqueuing
<1>11. ASSUME NEW o \in Requests, req'[o].at = "getstate", req'[o].value = "garbage",
              generation'[req'[o].sub] = 0
       PROVE  /\ Unreadable(req[o].sub)'
              /\ \A q \in Requests : ~Enqueuing(q, req[o].sub)'
  <2>1. o # r /\ req'[o] = req[o] /\ req[o].sub \in Submissions
    BY <1>1, <1>3, <1>11
  <2>2. Unreadable(req[o].sub) /\ \A q \in Requests : ~Enqueuing(q, req[o].sub)
    BY <1>2, <1>11, <2>1 DEF PatientInv, Patience
  <2>3. req[o].sub # s
    BY <1>2, <2>2
  <2>4. job'[req'[o].sub] = job[req[o].sub]
    BY <1>2, <2>1, <2>3
  <2>5. \A q \in Requests : ~(req'[q].sub = req[o].sub /\ req'[q].at = "enqueue")
    BY <1>3, <2>2 DEF Enqueuing
  <2> QED BY <2>1, <2>2, <2>4, <2>5 DEF Unreadable, Enqueuing
<1> QED BY <1>5, <1>6, <1>7, <1>9, <1>10, <1>11 DEF Patience

LEMMA PatientStep == PatientInv /\ [Next]_vars => Patience'
<1> SUFFICES ASSUME PatientInv, [Next]_vars PROVE Patience'
  OBVIOUS
<1>1. CASE Elsewhere
  BY <1>1, OthersStayPatient
<1>2. ASSUME NEW r \in Requests,
             Proceed(r) \/ SubmitEnqueueFails(r) \/ RejudgeFails(r) \/ RequestDies(r)
      PROVE  Patience'
  BY <1>2, HandlersStayPatient, EnqueueIsPatient
<1>3. ASSUME NEW r \in Requests, NEW s \in Submissions,
             \/ Submit(r, s) \/ Poll(r, s) \/ Rejudge(r, s)
             \/ \E v \in Verdicts : Override(r, s, v)
      PROVE  Patience'
  BY <1>3, StartsStayPatient, SubmitIsPatient
<1> QED BY <1>1, <1>2, <1>3 DEF Next, Elsewhere

\* Only a handler that is about to gives up.
LEMMA GivesUpAtGiveUp ==
  ASSUME JudgingInv, [Next]_vars, NEW s \in Submissions,
         answer'[s] = GiveUpAnswer, answer[s] # GiveUpAnswer
  PROVE  \E r \in Requests : req[r].at = "giveup" /\ req[r].sub = s
<1>0. answer \in [Submissions -> Answers] /\ GiveUpAnswer.by = "giveup"
  BY DEF JudgingInv, TypeOK, LedgerTypeOK, GiveUpAnswer
<1>1. answer' # answer
  BY <1>0
<1>2. ASSUME NEW r \in Requests, Proceed(r)
      PROVE  req[r].at = "giveup" /\ req[r].sub = s
  <2>1. CASE GiveUp(r)
    BY <1>0, <2>1 DEF GiveUp, IsAt, RecordGiveUp, ledgerVars
  <2>2. CASE Persist(r)
    <3>1. RecordResult(req[r].sub, req[r].value, req[r].run)
      BY <1>1, <2>2 DEF Persist, ledgerVars
    <3>2. JudgeAnswer(req[r].value, req[r].run).by # GiveUpAnswer.by
      BY DEF JudgeAnswer, GiveUpAnswer
    <3> QED BY <1>0, <3>1, <3>2 DEF RecordResult, Record
  <2>3. CASE TakeBack(r)
    <3>1. DeleteRow(req[r].sub) /\ Unjudged.by # GiveUpAnswer.by
      BY <1>1, <2>3 DEF TakeBack, ledgerVars, Unjudged, GiveUpAnswer
    <3> QED BY <1>0, <3>1 DEF DeleteRow
  <2>4. CASE \/ SubmitEnqueues(r) \/ ReadRow(r) \/ GetJob(r) \/ GetState(r)
             \/ RemoveOldJob(r) \/ RejudgeEnqueues(r)
    BY <1>1, <2>4 DEF SubmitEnqueues, ReadRow, GetJob, GetState, RemoveOldJob, RejudgeEnqueues,
                      Enqueue, ledgerVars
  <2> QED BY <1>2, <2>1, <2>2, <2>3, <2>4 DEF Proceed
<1>3. ASSUME NEW r \in Requests,
             SubmitEnqueueFails(r) \/ RejudgeFails(r) \/ RequestDies(r)
      PROVE  FALSE
  BY <1>1, <1>3 DEF SubmitEnqueueFails, RejudgeFails, RequestDies, ledgerVars
<1>4. ASSUME NEW r \in Requests, NEW t \in Submissions,
             \/ Submit(r, t) \/ Poll(r, t) \/ Rejudge(r, t)
             \/ \E v \in Verdicts : Override(r, t, v)
      PROVE  FALSE
  <2>1. Unjudged.by # "giveup" /\ \A v : AdminAnswer(v).by # "giveup"
    BY DEF Unjudged, AdminAnswer
  <2> QED BY <1>0, <1>1, <1>4, <2>1
          DEF Submit, Poll, Rejudge, Override, InsertRow, ClearRow, OverrideRow, Record, ledgerVars
<1>5. ASSUME Elsewhere PROVE FALSE
  <2>1. ASSUME NEW t \in Submissions, RemoveParticipant(t) PROVE FALSE
    BY <1>0, <1>1, <2>1 DEF RemoveParticipant, DeleteRow, Unjudged
  <2>2. ASSUME NEW t \in Submissions, NEW v \in Verdicts, LegacyWrites(t, v) PROVE FALSE
    BY <1>0, <1>1, <2>2 DEF LegacyWrites, LegacyWrite, LegacyAnswer
  <2>3. CASE WorkerDies \/ UNCHANGED vars
    BY <1>1, <2>3 DEF WorkerDies, vars, ledgerVars
  <2>4. ASSUME NEW t \in Submissions,
               Take(t) \/ Throw(t) \/ BackoffOver(t) \/ Stalled(t) \/ Evict(t) \/ Age(t)
        PROVE  FALSE
    BY <1>1, <2>4 DEF Take, Throw, BackoffOver, Stalled, Evict, Age, ledgerVars
  <2>5. ASSUME NEW t \in Submissions, NEW v \in Results, Complete(t, v) PROVE FALSE
    BY <1>1, <2>5 DEF Complete, ledgerVars
  <2> QED BY <1>5, <2>1, <2>2, <2>3, <2>4, <2>5 DEF Elsewhere, Judge
<1> QED BY <1>2, <1>3, <1>4, <1>5 DEF Next, Elsewhere

\* Nobody gives up on a first run that is queued, running, waiting to retry or
\* done with a result that parses, however many handlers look at it and whatever
\* dies.
THEOREM JudgingIsPatient == Spec => NeverGivesUpOnLiveJob
<1>1. Init => PatientInv
  <2> SUFFICES ASSUME Init PROVE PatientInv
    OBVIOUS
  <2>1. Patience
    BY IdleTyped DEF Init, LedgerInit, NoJob, Patience, WellKept, Enqueuing
  <2> QED BY <2>1, JoblessInit DEF PatientInv
<1>2. PatientInv /\ [Next]_vars => PatientInv'
  BY PatientStep, JoblessStep DEF PatientInv
<1>3. PatientInv /\ [Next]_vars =>
        \A s \in Submissions :
          (/\ answer'[s] = GiveUpAnswer /\ answer[s] # GiveUpAnswer
           /\ generation[s] = 0) => ~Promising(s)
  BY GivesUpAtGiveUp DEF PatientInv, JoblessInv, Patience
<1>4. PatientInv /\ [Next]_vars =>
        [\A s \in Submissions :
           (/\ answer'[s] = GiveUpAnswer /\ answer[s] # GiveUpAnswer
            /\ generation[s] = 0) => ~Promising(s)]_vars
  BY <1>3
<1> QED BY <1>1, <1>2, <1>4, PTL DEF Spec, NeverGivesUpOnLiveJob
===============================================================================
