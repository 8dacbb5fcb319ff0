--------------------------------- MODULE Stream --------------------------------
(***************************************************************************)
(* The live stream of a contest, as the server runs it: one loop per open  *)
(* connection, which every two seconds looks at the student's newest       *)
(* submissions and sends a frame for each verdict it has not announced on  *)
(* this connection.                                                        *)
(*                                                                         *)
(* A loop suspends at every await, and the rows change under it: verdicts  *)
(* arrive, an organizer overrides one or sends it back.  A query may fail  *)
(* in any tick.  A connection ends by its lifetime, by the abort of its    *)
(* request, or by the runtime's cancel, in any order and more than once,   *)
(* and each must give its place among the open streams back exactly once.  *)
(***************************************************************************)
EXTENDS Naturals, Sequences, FiniteSets

CONSTANTS
  Connections,    \* connections the process can have at once
  MaxStreams,     \* MAX_CONCURRENT_STREAMS
  Most,           \* submissions the student makes; bounds the rows
  Newest,         \* WATCHED_SUBMISSIONS, how many a tick looks at
  Lifetime,       \* MAX_LIFETIME_MS, in ticks
  Answers,        \* a verdict with its score: what a signature is made of
  Unjudged,       \* a row without a verdict
  MaxTrouble      \* bounds failed queries, broken connections and second thoughts

ASSUME StreamAssumption ==
  /\ IsFiniteSet(Connections) /\ Unjudged \notin Answers
  /\ {MaxStreams, Most, Newest, Lifetime, MaxTrouble} \subseteq Nat

VARIABLES
  made,           \* submissions made so far; they are 1 .. made, in that order
  row,            \* [1 .. Most -> Answers or Unjudged], the Submission rows
  openStreams,    \* the counter behind the cap
  conn,           \* [Connections -> Connection]
  trouble         \* how much has gone wrong so far

streamVars == <<made, row, openStreams, conn, trouble>>

-------------------------------------------------------------------------------
\* Connections.

Subs == 1 .. Most

Untold == [s \in Subs |-> Unjudged]

\* What one connection holds.  `closed` and `holds` (not yet released) are the
\* loop's own; `gone` is the client's end.  `frames` are the tick's, `wire` those
\* on their way.
NoConn ==
  [at |-> "free", mine |-> FALSE, closed |-> TRUE, holds |-> FALSE, gone |-> TRUE,
   announced |-> Untold, left |-> Untold, frames |-> <<>>, wire |-> <<>>,
   ticks |-> 0]

Stages == {"free", "priming", "dead", "tick", "viewing", "ended"}

Frames == [sub : Subs, answer : Answers \union {Unjudged}]

\* recentSubmissions
Recent == {s \in 1 .. made : s > made - Newest}

GoesWrong == trouble < MaxTrouble /\ trouble' = trouble + 1

Holders == {c \in Connections : conn[c].holds}

-------------------------------------------------------------------------------
\* The rows.

\* createSubmission's insert.
Insert ==
  /\ made < Most
  /\ made' = made + 1
  /\ UNCHANGED <<row, openStreams, conn, trouble>>

\* Somebody's reconcile, this stream's own included, stores the judge's result.
Judge(s) ==
  /\ s \in 1 .. made /\ row[s] = Unjudged
  /\ \E a \in Answers : row' = [row EXCEPT ![s] = a]
  /\ UNCHANGED <<made, openStreams, conn, trouble>>

\* An organizer overrides a verdict or sends the row back to the judge.
SecondThought(s) ==
  /\ row[s] # Unjudged
  /\ GoesWrong
  /\ \E a \in (Answers \union {Unjudged}) \ {row[s]} : row' = [row EXCEPT ![s] = a]
  /\ UNCHANGED <<made, openStreams, conn>>

-------------------------------------------------------------------------------
\* Opening a connection.

\* Mutant: the comparison lets one more in.
RoomForOneMore == openStreams <= MaxStreams

Room == openStreams < MaxStreams

\* openContestStream.  A spectator has nothing to prime.
Open(c, mine) ==
  /\ conn[c] = NoConn
  /\ Room
  /\ openStreams' = openStreams + 1
  /\ conn' = [conn EXCEPT ![c] =
       [NoConn EXCEPT !.at = IF mine THEN "priming" ELSE "tick", !.mine = mine,
                      !.closed = FALSE, !.holds = TRUE, !.gone = FALSE]]
  /\ UNCHANGED <<made, row, trouble>>

\* A verdict that stands when the stream opens is taken for known.
Prime(c) ==
  /\ conn[c].at = "priming"
  /\ conn' = [conn EXCEPT ![c].at = "tick",
                          ![c].announced = [s \in Subs |-> IF s \in Recent THEN row[s] ELSE Unjudged]]
  /\ UNCHANGED <<made, row, openStreams, trouble>>

\* The query is outside the loop's try: start rejects, the response breaks off,
\* and the place is given back only by the request's abort.
PrimeFails(c) ==
  /\ conn[c].at = "priming"
  /\ GoesWrong
  /\ conn' = [conn EXCEPT ![c] = IF @.closed THEN NoConn ELSE [@ EXCEPT !.at = "dead"]]
  /\ UNCHANGED <<made, row, openStreams>>

-------------------------------------------------------------------------------
\* A tick.

\* release, idempotent.
Released(c, after) ==
  /\ openStreams' = IF conn[c].holds THEN openStreams - 1 ELSE openStreams
  /\ conn' = [conn EXCEPT ![c] = after]

\* A student's client has the rest of the wire to read.
Over(k) ==
  IF k.gone \/ ~k.mine THEN NoConn
  ELSE [NoConn EXCEPT !.at = "ended", !.gone = FALSE, !.wire = k.wire]

\* Mutant: the lifetime is forgotten.
SleepsForEver(c, k) == conn' = [conn EXCEPT ![c] = [k EXCEPT !.at = "tick"]] /\ UNCHANGED openStreams

\* After a tick the connection is recycled if its time is up, or it sleeps.
Sleeps(c, k) ==
  IF k.ticks = Lifetime THEN Released(c, Over(k))
  ELSE /\ conn' = [conn EXCEPT ![c] = [k EXCEPT !.at = "tick", !.ticks = @ + 1]]
       /\ UNCHANGED openStreams

Ticking(c) == conn[c].at = "tick" /\ ~conn[c].closed

\* The head of the loop, on a connection that was closed.
LoopEnds(c) ==
  /\ conn[c].at = "tick" /\ conn[c].closed
  /\ Released(c, Over(conn[c]))
  /\ UNCHANGED <<made, row, trouble>>

\* A spectator is sent the contest's state and the standings, of which nothing
\* remains but the lifetime.
SpectatorTick(c) ==
  /\ Ticking(c) /\ ~conn[c].mine
  /\ Released(c, Over(conn[c]))
  /\ UNCHANGED <<made, row, trouble>>

\* After those two, and after the rows without a verdict are reconciled, comes the
\* list the frames are made from: what is judged and not yet announced so.
List(c) ==
  /\ Ticking(c) /\ conn[c].mine
  /\ conn' = [conn EXCEPT ![c].at = "viewing",
       ![c].left = [s \in Subs |-> IF s \in Recent /\ row[s] # conn[c].announced[s]
                                   THEN row[s] ELSE Unjudged]]
  /\ UNCHANGED <<made, row, openStreams, trouble>>

\* One of the queries before that fails.
TickFails(c) ==
  /\ Ticking(c) /\ conn[c].mine
  /\ GoesWrong
  /\ Sleeps(c, conn[c])
  /\ UNCHANGED <<made, row>>

\* Newest first.
Latest(c, s) ==
  /\ conn[c].at = "viewing"
  /\ conn[c].left[s] # Unjudged
  /\ \A t \in Subs : t > s => conn[c].left[t] = Unjudged

\* The verdict is marked announced, then its view is read: a newer one, perhaps.
View(c) ==
  /\ \E s \in Subs :
       /\ Latest(c, s)
       /\ conn' = [conn EXCEPT ![c].announced[s] = conn[c].left[s],
                               ![c].left[s] = Unjudged,
                               ![c].frames = Append(@, [sub |-> s, answer |-> row[s]])]
  /\ UNCHANGED <<made, row, openStreams, trouble>>

\* The read fails, and with it the whole tick: no frame of it is sent.
ViewFails(c) ==
  /\ GoesWrong
  /\ \E s \in Subs :
       /\ Latest(c, s)
       /\ Sleeps(c, [conn[c] EXCEPT !.announced[s] = conn[c].left[s],
                                    !.left = Untold, !.frames = <<>>])
  /\ UNCHANGED <<made, row>>

\* The frames go out together, unless the stream was closed meanwhile.
Send(c) ==
  /\ conn[c].at = "viewing" /\ conn[c].left = Untold
  /\ LET out == IF conn[c].closed THEN <<>> ELSE conn[c].frames IN
     Sleeps(c, [conn[c] EXCEPT !.frames = <<>>, !.wire = @ \o out])
  /\ UNCHANGED <<made, row, trouble>>

-------------------------------------------------------------------------------
\* The other end.

\* Nobody reads the connection any more, or there is nothing to read.
Gone(c) == (conn[c].gone \/ conn[c].at = "dead") /\ conn[c].at \notin {"free", "ended"}

Stopped(c) == [conn[c] EXCEPT !.closed = TRUE, !.holds = FALSE, !.wire = <<>>]

\* Mutant: the listener is registered after the priming query.
AbortLate(c) ==
  /\ Gone(c) /\ ~conn[c].closed
  /\ conn[c].at \notin {"priming", "dead"}
  /\ Released(c, Stopped(c))
  /\ UNCHANGED <<made, row, trouble>>

\* The request's abort runs finish.  A loop under way ends at its next head; one
\* whose start has failed is over.
Abort(c) ==
  /\ Gone(c) /\ ~conn[c].closed
  /\ Released(c, IF conn[c].at = "dead" THEN Over(conn[c]) ELSE Stopped(c))
  /\ UNCHANGED <<made, row, trouble>>

\* The runtime cancels the stream, before the abort or after it.
Cancel(c) ==
  /\ Gone(c) /\ conn[c].at # "dead"
  /\ Released(c, Stopped(c))
  /\ UNCHANGED <<made, row, trouble>>

\* The client closes its end, or lets go of a stream that has ended.
LetGo(c) == IF conn[c].at \in {"free", "ended"} THEN NoConn ELSE [conn[c] EXCEPT !.gone = TRUE]

-------------------------------------------------------------------------------
\* Every place is held once: seen through its holders, the counter is a pool.

Slots == INSTANCE Pool WITH Clients <- Connections, Size <- MaxStreams, holders <- Holders

StreamInit ==
  /\ made = 0
  /\ row = Untold
  /\ openStreams = 0
  /\ conn = [c \in Connections |-> NoConn]
  /\ trouble = 0

\* One step of the server, whoever is at the other end.
ServerStep ==
  \/ \E s \in Subs : Judge(s) \/ SecondThought(s)
  \/ \E c \in Connections :
       \/ Prime(c) \/ PrimeFails(c) \/ LoopEnds(c) \/ SpectatorTick(c) \/ List(c)
       \/ TickFails(c) \/ View(c) \/ ViewFails(c) \/ Send(c) \/ Abort(c) \/ Cancel(c)

\* Its loop goes on while its awaits return.
LoopStep(c) ==
  Prime(c) \/ LoopEnds(c) \/ SpectatorTick(c) \/ List(c) \/ View(c) \/ Send(c)
===============================================================================
