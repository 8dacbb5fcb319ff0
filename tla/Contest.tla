-------------------------------- MODULE Contest -------------------------------
(***************************************************************************)
(* The life of one contest: its state column, its window, and the clock    *)
(* that moves both.                                                        *)
(*                                                                         *)
(* Two kinds of caller reach setContestState: an organizer's button, and   *)
(* reconcileContestClock, which every screen that polls runs on behalf of  *)
(* the clock.  Both take "now" when the request arrives and then wait, the *)
(* poll for a read of the row and each of them for the contest's advisory  *)
(* lock, so the instant they write is older than the instant they write    *)
(* it.  Freezing and unfreezing take theirs inside the lock.               *)
(*                                                                         *)
(* The contest modelled is a scored one, so reconcileContestClockById's    *)
(* practice exception never applies.  Nothing in the code writes ARCHIVED. *)
(***************************************************************************)
EXTENDS Integers

CONSTANTS
  Plans,       \* the windows an organizer may give the contest
  Callers,     \* requests in flight that may move the contest
  MaxTime      \* the model's clock stops here

NoFreeze == -1

\* createContest: "The contest must end after it starts", and "Freeze must fall
\* inside the contest window".
ASSUME PlansAssumption ==
  /\ Plans \subseteq [startsAt : Nat, endsAt : Nat, freezeAt : Nat \union {NoFreeze}]
  /\ \A p \in Plans :
       /\ p.startsAt < p.endsAt
       /\ p.freezeAt # NoFreeze => p.startsAt < p.freezeAt /\ p.freezeAt <= p.endsAt

ASSUME MaxTimeAssumption == MaxTime \in Nat

VARIABLES
  clock,       \* the server's clock
  contest,     \* the Contest row
  setup,       \* what of the line-up and the roster is ready for a start
  calls        \* [Callers -> Call], the requests on their way to setContestState

contestVars == <<clock, contest, setup, calls>>

-------------------------------------------------------------------------------
\* The row and the requests.

States == {"DRAFT", "SCHEDULED", "RUNNING", "FROZEN", "ENDED"}

Rows == [state : States, startsAt : Nat, endsAt : Nat, freezeAt : Nat \union {NoFreeze}]

\* now is the instant the request took on arrival, only its onlyFromState.
Calls == [at : {"idle", "read", "lock"}, next : States, now : Nat, only : States \union {"any"}]

NoCall == [at |-> "idle", next |-> "DRAFT", now |-> 0, only |-> "any"]

Return(c) == calls' = [calls EXCEPT ![c] = NoCall]

\* isPublicBoardFrozen.
PublicBoardFrozen(row, now) ==
  \/ row.state = "FROZEN"
  \/ /\ row.state \in {"RUNNING", "SCHEDULED"}
     /\ row.freezeAt # NoFreeze
     /\ now >= row.freezeAt

-------------------------------------------------------------------------------
\* Getting the contest ready.

\* setContestProblems replaces the line-up of a contest that has not started,
\* runSetAssignment deals its sets: either may leave either ready or not.
EditSetup(ready) ==
  /\ contest.state \in {"DRAFT", "SCHEDULED"}
  /\ setup' = ready
  /\ UNCHANGED <<clock, contest, calls>>

-------------------------------------------------------------------------------
\* Moving the contest.

\* An organizer's button: publish, start or end, sent whatever the state is.
Press(c, next) ==
  /\ calls[c] = NoCall
  /\ calls' = [calls EXCEPT ![c] = [at |-> "lock", next |-> next, now |-> clock, only |-> "any"]]
  /\ UNCHANGED <<clock, contest, setup>>

\* A screen polls: reconcileContestClockById will read the row in a moment.
ScreenPolls(c) ==
  /\ calls[c] = NoCall
  /\ calls' = [calls EXCEPT ![c] = [NoCall EXCEPT !.at = "read", !.now = clock]]
  /\ UNCHANGED <<clock, contest, setup>>

\* What the clock owes the row, seen at the instant now.
DueToStart(row, now) ==
  row.state = "SCHEDULED" /\ row.startsAt <= now /\ now < row.endsAt

DueToEnd(row, now) ==
  row.state \in {"RUNNING", "FROZEN"} /\ row.endsAt <= now

\* reconcileContestClock decides on the row it read, before it has the lock.
ReadContestRow(c) ==
  LET due(next) == [calls[c] EXCEPT !.at = "lock", !.next = next, !.only = contest.state] IN
  /\ calls[c].at = "read"
  /\ \/ /\ DueToStart(contest, calls[c].now)
        /\ calls' = [calls EXCEPT ![c] = due("RUNNING")]
     \/ /\ DueToEnd(contest, calls[c].now)
        /\ calls' = [calls EXCEPT ![c] = due("ENDED")]
     \/ /\ ~DueToStart(contest, calls[c].now) /\ ~DueToEnd(contest, calls[c].now)
        /\ Return(c)
  /\ UNCHANGED <<clock, contest, setup>>

\* Mutant: "pressing Start on a RUNNING contest re-anchors deliberately".
AllowedRestart ==
  [DRAFT |-> {"SCHEDULED", "RUNNING"}, SCHEDULED |-> {"RUNNING", "ENDED"},
   RUNNING |-> {"RUNNING", "ENDED"}, FROZEN |-> {"ENDED"}, ENDED |-> {}]

Allowed == [DRAFT |-> {"SCHEDULED", "RUNNING"}, SCHEDULED |-> {"RUNNING", "ENDED"},
            RUNNING |-> {"ENDED"}, FROZEN |-> {"ENDED"}, ENDED |-> {}]

\* A start anchors the whole window, the freeze with it, at the instant pressed.
Started(row, now) ==
  [state |-> "RUNNING", startsAt |-> now, endsAt |-> now + (row.endsAt - row.startsAt),
   freezeAt |-> IF row.freezeAt = NoFreeze THEN NoFreeze
                ELSE now + (row.freezeAt - row.startsAt)]

\* Ending early pulls endsAt back and erases a freeze that never happened.
Ended(row, now) ==
  LET early == row.endsAt > now IN
  [row EXCEPT !.state = "ENDED",
              !.endsAt = IF early THEN now ELSE @,
              !.freezeAt = IF early /\ @ > now THEN NoFreeze ELSE @]

\* What setContestState checks before it writes, under the lock.
MayMove(call) ==
  /\ call.only \in {"any", contest.state}
  /\ call.next \in Allowed[contest.state]
  /\ call.next # "ENDED" => "lineUp" \in setup
  /\ call.next = "RUNNING" => "sets" \in setup

\* setContestState's transaction: it moves the row, or refuses and changes nothing.
SetContestState(c) ==
  /\ calls[c].at = "lock"
  /\ contest' = IF ~MayMove(calls[c]) THEN contest
                ELSE CASE calls[c].next = "SCHEDULED" -> [contest EXCEPT !.state = "SCHEDULED"]
                       [] calls[c].next = "RUNNING" -> Started(contest, calls[c].now)
                       [] OTHER -> Ended(contest, calls[c].now)
  /\ Return(c)
  /\ UNCHANGED <<clock, setup>>

-------------------------------------------------------------------------------
\* setFrozen.

ScheduledFreezeIsActive ==
  contest.state = "RUNNING" /\ PublicBoardFrozen(contest, clock)

\* Mutant: freezing a board that is already frozen by schedule restamps it.
FreezeNow ==
  /\ contest.state = "RUNNING"
  /\ contest' = [contest EXCEPT !.state = "FROZEN", !.freezeAt = clock]
  /\ UNCHANGED <<clock, setup, calls>>

\* A frozen contest keeps its cutoff: a retry changes nothing.
Freeze ==
  /\ contest.state = "RUNNING"
  /\ contest' = [contest EXCEPT !.state = "FROZEN",
                                !.freezeAt = IF ScheduledFreezeIsActive THEN @ ELSE clock]
  /\ UNCHANGED <<clock, setup, calls>>

\* Mutant: an unfreeze always resumes the contest.
UnfreezeResumes ==
  /\ contest.state = "FROZEN" \/ ScheduledFreezeIsActive
  /\ contest' = [contest EXCEPT !.state = "RUNNING", !.freezeAt = NoFreeze]
  /\ UNCHANGED <<clock, setup, calls>>

\* Unfreezing clears the cutoff, and a contest past its end goes on to ENDED.
Unfreeze ==
  /\ contest.state = "FROZEN" \/ ScheduledFreezeIsActive
  /\ contest' = [contest EXCEPT !.state = IF clock >= contest.endsAt THEN "ENDED" ELSE "RUNNING",
                                !.freezeAt = NoFreeze]
  /\ UNCHANGED <<clock, setup, calls>>

Tick ==
  /\ clock < MaxTime
  /\ clock' = clock + 1
  /\ UNCHANGED <<contest, setup, calls>>

-------------------------------------------------------------------------------
\* The contest on its own.

ContestInit ==
  /\ clock = 0
  /\ \E p \in Plans :
       contest = [state |-> "DRAFT", startsAt |-> p.startsAt, endsAt |-> p.endsAt,
                  freezeAt |-> p.freezeAt]
  /\ setup = {}
  /\ calls = [c \in Callers |-> NoCall]

Serve(c) == ReadContestRow(c) \/ SetContestState(c)

ContestNext ==
  \/ \E ready \in SUBSET {"lineUp", "sets"} : EditSetup(ready)
  \/ \E c \in Callers :
       \/ \E next \in {"SCHEDULED", "RUNNING", "ENDED"} : Press(c, next)
       \/ ScreenPolls(c)
       \/ Serve(c)
  \/ Freeze \/ Unfreeze
  \/ Tick

ContestSpec == ContestInit /\ [][ContestNext]_contestVars

\* Time passes, some screen keeps polling whatever organizers do meanwhile, and
\* a request that arrived gets its read and its lock.
ContestFairness ==
  /\ WF_contestVars(Tick)
  /\ SF_contestVars(\E c \in Callers : ScreenPolls(c))
  /\ \A c \in Callers : WF_contestVars(Serve(c))

FairContestSpec == ContestSpec /\ ContestFairness

-------------------------------------------------------------------------------
\* Properties.

\* The shape of the row and of the requests.
ContestTypeOK ==
  /\ clock \in Nat
  /\ contest \in Rows
  /\ setup \subseteq {"lineUp", "sets"}
  /\ calls \in [Callers -> Calls]
  /\ \A c \in Callers : calls[c].now <= clock

\* The move that c's request makes in this step, if it makes one.
Moves(c, next) ==
  /\ calls[c].at = "lock" /\ calls[c].next = next
  /\ calls'[c] = NoCall
  /\ contest'.state = next /\ contest.state # next

\* The clock acts on a row it read before it had the lock, and on an instant
\* older still, and yet never ends a running contest before its stored end nor
\* opens a scheduled one before its stored start: no transition that keeps a
\* contest where the clock would find it moves its window.
ClockIsNeverEarly ==
  [][\A c \in Callers :
       calls[c].only # "any" =>
         /\ Moves(c, "ENDED") => contest.endsAt <= clock
         /\ Moves(c, "RUNNING") => contest.startsAt <= clock]_contestVars

\* The board of a running contest freezes when an organizer freezes it, at that
\* instant, or when the clock reaches the scheduled one, and by nothing else: no
\* retry, early materialisation or stale request moves the cutoff of a board the
\* room is already looking at, and a reveal is a reveal.
CutoffStands ==
  [][contest.state \in {"RUNNING", "FROZEN"} /\ PublicBoardFrozen(contest', clock')
     => /\ contest.state = "FROZEN" => contest'.state = "FROZEN"
        /\ \/ contest'.freezeAt = contest.freezeAt
           \/ ~PublicBoardFrozen(contest, clock) /\ contest'.freezeAt = clock']_contestVars

\* "RUNNING or FROZEN past endsAt: end it": however organizers freeze and reveal
\* the board meanwhile, a contest past its end does not stay open.
OverdueContestEnds ==
  (contest.state \in {"RUNNING", "FROZEN"} /\ clock >= contest.endsAt)
    ~> contest.state = "ENDED"
===============================================================================
