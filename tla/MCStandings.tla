------------------------------ MODULE MCStandings -----------------------------
(***************************************************************************)
(* An instance of Standings for TLC: a team of two and a team of one,      *)
(* with a question of their own and one for the team.                      *)
(***************************************************************************)
EXTENDS Standings, TLC

TwoAndOne == "ann" :> "duo" @@ "bob" :> "duo" @@ "eve" :> "solo"
Worths == "own" :> 10 @@ "shared" :> 15
TestPoints == "t1" :> 1 @@ "t2" :> 3

FullRun == "t1" :> "AC" @@ "t2" :> "AC"
PartRun == "t1" :> "AC" @@ "t2" :> "WA"
LostRun == "t1" :> "AC" @@ "t2" :> "IE"
SomeRuns == {FullRun, PartRun, LostRun}

ByHand == {[verdict |-> "AC", score |-> 15]}
Corrections == {-5}
NightRules == {[icpc |-> i, inMean |-> TRUE, flat |-> TRUE] : i \in BOOLEAN}
===============================================================================
