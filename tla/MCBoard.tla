-------------------------------- MODULE MCBoard -------------------------------
(***************************************************************************)
(* Instances of Board for TLC: short contests, one caller to move them.    *)
(***************************************************************************)
EXTENDS Board, TLC

FreezingPlan == {[startsAt |-> 0, endsAt |-> 3, freezeAt |-> 1]}
OpenPlan == {[startsAt |-> 0, endsAt |-> 3, freezeAt |-> NoFreeze]}

\* A contest that has been started.
UnderWay(instant, endsAt) ==
  /\ clock = instant
  /\ contest = Started([startsAt |-> 0, endsAt |-> endsAt, freezeAt |-> NoFreeze], 0)
  /\ setup = {"lineUp", "sets"}
  /\ calls = [c \in Callers |-> NoCall]

ReaderSymmetry == Permutations(Readers) \union Permutations(Loads)
===============================================================================
