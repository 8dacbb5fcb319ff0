------------------------------- MODULE VerdictView ------------------------------
(***************************************************************************)
(* A student's problem page beside the server's live stream: they submit,  *)
(* and useVerdictStream shows what becomes of the submission they watch.   *)
(*                                                                         *)
(* The page watches one submission at a time but listens to a stream of    *)
(* all of the student's.  It starts with the stream; the first error, end  *)
(* or refusal hands over to polling, for that submission, for good.        *)
(* Effects, frames and answers interleave: what arrives may belong to a    *)
(* submission or an effect that is over.                                   *)
(***************************************************************************)
EXTENDS Stream

CONSTANT Polls      \* requests a page may have in flight at once

VARIABLES
  posting,    \* the submission whose POST is in flight, or 0
  view,       \* the hook's state and its effect's
  poll        \* [Polls -> Poll], the GETs of the effect under way

pageVars == <<posting, view, poll>>
vars == <<streamVars, pageVars>>

-------------------------------------------------------------------------------
\* The hook's state.

None == "none"
Connecting == "connecting"

\* `update` is tagged with the submission it was shown for; `of`, which the code
\* drops, is the submission it was about.
NoUpdate == [id |-> 0, of |-> 0, answer |-> Unjudged]
NoPoll == [at |-> "idle", answer |-> Unjudged]

\* The POST's answer has no verdict, so neither has the seed.
Shown == IF view.update.id = view.watched THEN view.update.answer ELSE Unjudged

Status ==
  IF view.watched = 0 THEN "idle"
  ELSE IF view.failed = view.watched THEN "error"
  ELSE IF Shown = Unjudged THEN "waiting" ELSE "settled"

IdlePolls == [q \in Polls |-> NoPoll]

\* The effect's cleanup: the source closed, the answers of open polls ignored.
LetGoOfSource ==
  conn' = IF view.source \in Connections
          THEN [conn EXCEPT ![view.source] = LetGo(view.source)] ELSE conn

-------------------------------------------------------------------------------
\* Submitting.

\* The button waits for the verdict; the editor's keyboard shortcut does not.
Submit ==
  /\ posting = 0
  /\ Insert
  /\ posting' = made'
  /\ UNCHANGED <<view, poll>>

\* A new seed: the old effect is cleaned up and the new one opens a stream.
Created ==
  /\ posting # 0
  /\ posting' = 0
  /\ view' = [view EXCEPT !.watched = posting, !.source = Connecting, !.timer = FALSE]
  /\ poll' = IdlePolls
  /\ LetGoOfSource
  /\ UNCHANGED <<made, row, openStreams, trouble>>

\* The answer is lost, though the row may well be there.
SubmitFails ==
  /\ posting # 0
  /\ GoesWrong
  /\ posting' = 0
  /\ UNCHANGED <<made, row, openStreams, conn, view, poll>>

-------------------------------------------------------------------------------
\* The stream.

Connect ==
  /\ view.source = Connecting
  /\ \E c \in Connections :
       /\ Open(c, TRUE)
       /\ view' = [view EXCEPT !.source = c]
  /\ UNCHANGED <<posting, poll>>

\* The effect runs again, in polling mode.
FallsBack == view' = [view EXCEPT !.source = None, !.timer = TRUE]

\* The stream is refused, or the request never gets there.
ConnectFails ==
  /\ view.source = Connecting
  /\ (~Room /\ UNCHANGED trouble) \/ GoesWrong
  /\ FallsBack
  /\ UNCHANGED <<made, row, openStreams, conn, posting, poll>>

\* onerror: start failed, the stream ended and nothing is left to read, or the
\* network let go of it.
SourceFails ==
  /\ view.source \in Connections
  /\ LET c == view.source IN
       \/ conn[c].at = "dead" /\ UNCHANGED trouble
       \/ conn[c].at = "ended" /\ conn[c].wire = <<>> /\ UNCHANGED trouble
       \/ conn[c].at \notin {"dead", "ended"} /\ GoesWrong
  /\ FallsBack
  /\ LetGoOfSource
  /\ UNCHANGED <<made, row, openStreams, posting, poll>>

\* A verdict frame goes on show under the submission watched now, whichever it
\* is about; a verdict stops the stream.
Receive ==
  /\ view.source \in Connections
  /\ conn[view.source].wire # <<>>
  /\ LET c == view.source
         frame == Head(conn[c].wire)
         seen == [id |-> view.watched, of |-> frame.sub, answer |-> frame.answer]
     IN IF frame.answer = Unjudged
        THEN /\ view' = [view EXCEPT !.update = seen]
             /\ conn' = [conn EXCEPT ![c].wire = Tail(@)]
        ELSE /\ view' = [view EXCEPT !.update = seen, !.source = None]
             /\ LetGoOfSource
  /\ UNCHANGED <<made, row, openStreams, trouble, posting, poll>>

-------------------------------------------------------------------------------
\* Polling.

\* The first at once, then one every second, answered or not.
AskPoll(q) ==
  /\ view.timer
  /\ poll[q] = NoPoll
  /\ poll' = [poll EXCEPT ![q].at = "asked"]
  /\ UNCHANGED <<streamVars, posting, view>>

\* getSubmissionView, after its reconcile.
ReadPoll(q) ==
  /\ poll[q].at = "asked"
  /\ poll' = [poll EXCEPT ![q] = [at |-> "read", answer |-> row[view.watched]]]
  /\ UNCHANGED <<streamVars, posting, view>>

\* Answers are taken in the order they arrive; a verdict stops the timer.
AnswerPoll(q) ==
  /\ poll[q].at = "read"
  /\ LET seen == [id |-> view.watched, of |-> view.watched, answer |-> poll[q].answer] IN
     view' = [view EXCEPT !.update = seen, !.timer = @ /\ poll[q].answer = Unjudged]
  /\ poll' = [poll EXCEPT ![q] = NoPoll]
  /\ UNCHANGED <<streamVars, posting>>

\* One failed poll is an error on the page, and the last.
PollFails(q) ==
  /\ poll[q].at = "asked"
  /\ GoesWrong
  /\ poll' = [poll EXCEPT ![q] = NoPoll]
  /\ view' = [view EXCEPT !.failed = view.watched, !.timer = FALSE]
  /\ UNCHANGED <<made, row, openStreams, conn, posting>>

\* MAX_WAIT_MS: "Tell an organizer."
GiveUpWaiting ==
  /\ view.timer
  /\ view' = [view EXCEPT !.failed = view.watched, !.timer = FALSE]
  /\ UNCHANGED <<streamVars, posting, poll>>

-------------------------------------------------------------------------------
\* Everybody else in the room.

SpectatorOpens ==
  /\ \E c \in Connections : Open(c, FALSE)
  /\ UNCHANGED pageVars

SpectatorLeaves ==
  /\ \E c \in Connections :
       /\ conn[c].at # "free" /\ ~conn[c].gone /\ c # view.source
       /\ conn' = [conn EXCEPT ![c] = LetGo(c)]
  /\ UNCHANGED <<made, row, openStreams, trouble, pageVars>>

-------------------------------------------------------------------------------
\* The page, the server and the room.

Init ==
  /\ StreamInit
  /\ posting = 0
  /\ view = [watched |-> 0, update |-> NoUpdate, failed |-> 0,
             source |-> None, timer |-> FALSE]
  /\ poll = IdlePolls

Next ==
  \/ ServerStep /\ UNCHANGED pageVars
  \/ Submit \/ Created \/ SubmitFails
  \/ Connect \/ ConnectFails \/ SourceFails \/ Receive
  \/ \E q \in Polls : AskPoll(q) \/ ReadPoll(q) \/ AnswerPoll(q) \/ PollFails(q)
  \/ GiveUpWaiting
  \/ SpectatorOpens \/ SpectatorLeaves

Spec == Init /\ [][Next]_vars

\* Requests are answered and events delivered.  Nothing is assumed of the student,
\* of the room or of the five minutes.
Fairness ==
  /\ \A s \in Subs : WF_vars(Judge(s) /\ UNCHANGED pageVars)
  /\ \A c \in Connections :
       /\ WF_vars(LoopStep(c) /\ UNCHANGED pageVars)
       /\ WF_vars(Abort(c) /\ UNCHANGED pageVars)
  /\ SF_vars(Connect \/ ConnectFails) /\ WF_vars(SourceFails) /\ WF_vars(Receive)
  /\ \A q \in Polls : WF_vars(AskPoll(q)) /\ WF_vars(ReadPoll(q)) /\ WF_vars(AnswerPoll(q))

FairSpec == Spec /\ Fairness

-------------------------------------------------------------------------------
\* Properties.

\* The shape of the state.  What is announced is a verdict, a page has one
\* transport at a time, and a connection that holds no place is over or closed.
StreamTypeOK ==
  /\ made \in 0 .. Most
  /\ row \in [Subs -> Answers \union {Unjudged}]
  /\ trouble \in 0 .. MaxTrouble
  /\ \A c \in Connections :
       /\ conn[c].at \in Stages
       /\ {conn[c].mine, conn[c].closed, conn[c].holds, conn[c].gone} \subseteq BOOLEAN
       /\ conn[c].announced \in [Subs -> Answers \union {Unjudged}]
       /\ conn[c].left \in [Subs -> Answers \union {Unjudged}]
       /\ \A i \in DOMAIN conn[c].wire : conn[c].wire[i] \in Frames
       /\ conn[c].holds = ~conn[c].closed
  /\ {posting, view.watched, view.failed} \subseteq 0 .. made
  /\ view.source \in Connections \union {None, Connecting}
  /\ ~(view.timer /\ view.source # None)

\* `openStreams` counts the connections that hold a place, whichever of the
\* lifetime, the abort and the cancel ends them, and however often.
SlotsAreCounted == openStreams = Cardinality(Holders)

\* Whatever way connections open and end, the streams are a bounded pool: no more
\* than MAX_CONCURRENT_STREAMS at once.
StreamsArePooled == Slots!PoolSpec

\* A connection whose client has gone, or whose start failed, gives its place
\* back.
PlacesAreReturned == \A c \in Connections : Gone(c) ~> ~conn[c].holds

\* "A stream that dies must not leave a student looking at a half-judged
\* submission": whatever is lost on the way, the page of a submission that is
\* still watched ends with a verdict or an error.
EveryWatchEnds ==
  \A s \in Subs : view.watched = s ~> (view.watched # s \/ Status \in {"settled", "error"})

\* Claims of the code's comments that the code does not keep.

\* useVerdictStream, "It also removes the frame where the *previous* submission's
\* verdict is still on screen under the new one's heading": what is shown for a
\* submission is about that submission.
ShowsItsOwnVerdict == view.update.id = view.watched => view.update.of = view.update.id
===============================================================================
