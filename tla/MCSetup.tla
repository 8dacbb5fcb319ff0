--------------------------------- MODULE MCSetup --------------------------------
(***************************************************************************)
(* Setting a contest up, for TLC: the roster, the line-up with the bank    *)
(* and the set planner, and the writing of a question, each on an instance *)
(* of its own.  One part takes steps in a behaviour, the others stand      *)
(* still.                                                                  *)
(***************************************************************************)
EXTENDS MCRoster, Planner, Authoring

CONSTANTS d2, first, second, one, two, three, four

VARIABLE part

\* "planner" is one organizer at the planner while the bank changes twice;
\* "planners" is two of them while nothing else changes.
Parts == {"roster", "planner", "planners", "authoring"}

others(p) ==
  /\ p # "roster" => UNCHANGED rosterVars
  /\ p \notin {"planner", "planners"} => UNCHANGED plannerVars
  /\ p # "authoring" => UNCHANGED authoringVars

setupInstanceVars == <<rosterVars, plannerVars, authoringVars, part>>

-------------------------------------------------------------------------------
\* Three easy questions, one of them a draft, and a medium one of the arena.
SmallBank ==
  LET Entry(ready, level) == [ready |-> ready, level |-> level] IN
  (one :> Entry(TRUE, "E")) @@ (two :> Entry(TRUE, "E")) @@
  (three :> Entry(FALSE, "E")) @@ (four :> Entry(TRUE, "M"))

Recipe(n, t) ==
  [counts |-> [l \in Levels |-> IF l = "E" THEN 1 ELSE 0], sets |-> n, team |-> t]

\* Two sets of one easy question each; or one, and a question for the team.
TwoRecipes == {Recipe(2, 0), Recipe(1, 1)}

\* The second seed deals in the order the first one does not.
Order == (one :> 1) @@ (two :> 2) @@ (three :> 3) @@ (four :> 4)

TwoSeeds ==
  [s \in {first, second} |-> [d \in Decks |-> [q \in Questions |->
     IF (s = first) = (d \in {d1, Team}) THEN Order[q] ELSE 5 - Order[q]]]]

ByHand(q, d, place) == [question |-> q, division |-> d, place |-> place, byPlan |-> FALSE]

\* A question for every team, and one in a set of a division.
HandPlaced == {ByHand(two, Everyone, Team), ByHand(one, d1, 0)}

-------------------------------------------------------------------------------
SetupInit == part \in Parts /\ RosterInit /\ PlannerInit /\ AuthoringInit

\* Only one organizer opens the planner.
Alone ==
  \E o \in Planners : \A p \in Planners \ {o} : screen[p].at = "away" /\ screen'[p].at = "away"

SetupNext ==
  /\ UNCHANGED part
  /\ others(part)
  /\ \/ part = "roster" /\ RosterNext
     \/ part = "planner" /\ PlannerNext /\ Alone
     \/ part = "planners" /\ PlannerNext /\ changes' = 0
     \/ part = "authoring" /\ AuthoringNext

SetupSpec == SetupInit /\ [][SetupNext]_setupInstanceVars
===============================================================================
