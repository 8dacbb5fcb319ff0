------------------------------- MODULE MCClocks -------------------------------
(***************************************************************************)
(* Three things the room waits for: the end of a contest, which comes with *)
(* the clock, a place among the password checks, and the judge.  They      *)
(* share no state: one part takes steps in a behaviour and the others      *)
(* stand still, so the modules' fairness is stated of the steps a part     *)
(* takes when it is its turn.                                              *)
(***************************************************************************)
EXTENDS Contest, PasswordGate, MCRunner, TLC

VARIABLE part

clocksVars == <<contestVars, gateVars, runnerVars, part>>

\* A contest with a scheduled freeze and one without, short enough to be over
\* before the clock stops.
Window(startsAt, freezeAt, endsAt) ==
  [startsAt |-> startsAt, endsAt |-> endsAt, freezeAt |-> freezeAt]

ShortPlans == {Window(1, 2, 3), Window(1, NoFreeze, 3)}

Turn(p, Action) ==
  /\ part = p /\ UNCHANGED part
  /\ Action
  /\ p # "contest" => UNCHANGED contestVars
  /\ p # "gate" => UNCHANGED gateVars
  /\ p # "judge" => UNCHANGED runnerVars

ClocksInit ==
  /\ part \in {"contest", "gate", "judge"}
  /\ ContestInit /\ GateInit /\ RunnerInit
  /\ part # "contest" => contest.freezeAt = NoFreeze

ClocksNext ==
  \/ Turn("contest", ContestNext)
  \/ Turn("gate", GateNext)
  \/ Turn("judge", RunnerNext)

ClocksFairness ==
  /\ WF_clocksVars(Turn("contest", Tick))
  /\ SF_clocksVars(Turn("contest", \E c \in Callers : ScreenPolls(c)))
  /\ \A c \in Callers : WF_clocksVars(Turn("contest", Serve(c)))
  /\ \A r \in Logins :
       /\ WF_clocksVars(Turn("gate", LookAgain(r)))
       /\ WF_clocksVars(Turn("gate", WaitOver(r)))
       /\ WF_clocksVars(Turn("gate", Succeed(r) \/ Fail(r)))
  /\ WF_clocksVars(Turn("judge", Calm /\ Judge))
  /\ WF_clocksVars(Turn("judge", Calm /\ Driver))
  /\ WF_clocksVars(Turn("judge", Calm /\ Feeder))

ClocksSpec == ClocksInit /\ [][ClocksNext]_clocksVars /\ ClocksFairness
===============================================================================
