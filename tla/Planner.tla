--------------------------------- MODULE Planner --------------------------------
(***************************************************************************)
(* What is in a contest's line-up: the question bank, the set planner that *)
(* deals from it, and the Problems tab where organizers place questions by *)
(* hand.                                                                   *)
(*                                                                         *)
(* The planner holds a proposed split and builds it on request; the bank   *)
(* and the line-up change in between, and two organizers may plan at once. *)
(* What an organizer reads is the proposal, or, until the form is touched, *)
(* the sets the contest has.  The deal is pure: the same seed, pool and    *)
(* recipe give the same split.  What it reads, the pool and the contest,   *)
(* is read once before the locks and again under them.                     *)
(*                                                                         *)
(* Points, slot labels and titles are left out: the first two are for the  *)
(* organizer to choose, and an edit of a title only refuses a build more.  *)
(* What a new line-up does to the players' sets is in Roster.              *)
(***************************************************************************)
EXTENDS Integers, FiniteSetsExt

CONSTANTS
  Questions,      \* the Problem rows there may be
  Practice,       \* those of the practice arena (practiceOnly)
  Levels,         \* difficulties
  PlanDivisions,  \* the contest's divisions; it may have none
  Recipes,        \* what organizers may ask for
  Seeds,
  Shuffle,        \* [Seeds -> [Decks -> [Questions -> Nat]]], the sort keys of a seed,
                  \* a hash of it, the division and the question
  HandRows,       \* rows an organizer may place by hand
  Imported,       \* the bank as it was imported
  Planners,       \* organizers at the planner
  Team,           \* the place of a GROUP row, which is in no set
  Nil,            \* no question, no seed, no plan, no split
  MaxTeamSize,    \* bounds the roster
  MaxChanges      \* bounds edits of the bank and of the line-up, and changes of the roster

NoLevel == "unrated"
Everyone == "everyone"   \* a null divisionId

\* The deals of a plan: one per division, or a single one, then the team's.
Scopes == IF PlanDivisions = {} THEN {Everyone} ELSE PlanDivisions
Decks == Scopes \union {Team}

ASSUME PlannerAssumption ==
  /\ IsFiniteSet(Questions) /\ IsFiniteSet(PlanDivisions) /\ IsFiniteSet(Levels)
  /\ Practice \subseteq Questions
  /\ NoLevel \notin Levels /\ {Everyone, Team} \intersect PlanDivisions = {}
  /\ Team # Everyone /\ Team \notin Nat
  /\ Nil \notin Seeds
  /\ Recipes \subseteq [counts : [Levels -> Nat], sets : Nat \ {0}, team : Nat]
  /\ Shuffle \in [Seeds -> [Decks -> [Questions -> Nat]]]
  /\ \A s \in Seeds, d \in Decks, p, q \in Questions :
       Shuffle[s][d][p] = Shuffle[s][d][q] => p = q
  /\ {MaxTeamSize, MaxChanges} \subseteq Nat

\* ContestProblem.  A place is the column of a set, or the team.
Rows ==
  [question : Questions, division : PlanDivisions \union {Everyone},
   place : Nat \union {Team}, byPlan : BOOLEAN]

ASSUME HandAssumption == HandRows \subseteq Rows /\ \A r \in HandRows : ~r.byPlan

\* Problem: published with a statement and tests, or a draft.
Entries == [ready : BOOLEAN, level : Levels \union {NoLevel}]

ASSUME ImportAssumption ==
  Imported \in [Questions -> Entries \union {Nil}]

VARIABLES
  bank,      \* [Questions -> Entries or Nil]
  lineUp,    \* the contest's rows
  plan,      \* Contest.setComposition, setCount, setGroupCount and setPlanSeed
  begun,     \* the contest has started
  largest,   \* members of the largest team within a division
  screen,    \* [Planners -> Screens]
  changes    \* how many there were

setupVars == <<bank, lineUp, plan, begun, largest>>
plannerVars == <<setupVars, screen, changes>>

-------------------------------------------------------------------------------
\* The deal (planSets).

\* Questions that a plan may draw on, with their difficulties (gatherPool).
HandPicked == {r.question : r \in {s \in lineUp : s.place = Team /\ ~s.byPlan}}

\* Mutant: a question already placed by hand is dealt again.
PoolWithHandPicked ==
  LET usable == {q \in Questions :
                   bank[q] # Nil /\ bank[q].ready /\ bank[q].level # NoLevel}
  IN [q \in usable |-> bank[q].level]

Pool ==
  LET usable == {q \in Questions \ HandPicked :
                   bank[q] # Nil /\ bank[q].ready /\ bank[q].level # NoLevel}
  IN [q \in usable |-> bank[q].level]

Candidates(pool, level) == {q \in DOMAIN pool : pool[q] = level}

\* Where q lies in a deck: seededShuffle sorts it by the seed's keys, and by the
\* question where two are the same.
Position(keys, deck, q) == Cardinality({o \in deck : keys[o] < keys[q]})

SetSize(recipe) == MapThenSumSet(LAMBDA l : recipe.counts[l], Levels)

\* checkFeasibility and checkGroupFeasibility, which assumes that no two deals
\* overlap.
Feasible(recipe, pool) ==
  /\ \E l \in Levels : recipe.counts[l] > 0
  /\ \A l \in Levels : Cardinality(Candidates(pool, l)) >= recipe.counts[l] * recipe.sets
  /\ recipe.team > 0 =>
       Cardinality(DOMAIN pool) - Cardinality(Scopes) * SetSize(recipe) * recipe.sets
         >= recipe.team

DealtRow(q, d, place) == [question |-> q, division |-> d, place |-> place, byPlan |-> TRUE]

\* Each difficulty's deck is dealt set by set, from the top.
Columns(seed, recipe, pool) ==
  LET At(d, q) == Position(Shuffle[seed][d], Candidates(pool, pool[q]), q)
      Dealt == {x \in Scopes \X DOMAIN pool :
                  At(x[1], x[2]) < recipe.counts[pool[x[2]]] * recipe.sets}
  IN {DealtRow(x[2], x[1], At(x[1], x[2]) \div recipe.counts[pool[x[2]]]) : x \in Dealt}

\* The team's questions, from what no set took.
TeamDraw(seed, recipe, pool) ==
  LET left == DOMAIN pool \ {r.question : r \in Columns(seed, recipe, pool)}
  IN {DealtRow(q, Everyone, Team) :
        q \in {o \in left : Position(Shuffle[seed][Team], left, o) < recipe.team}}

Deal(seed, recipe, pool) == Columns(seed, recipe, pool) \union TeamDraw(seed, recipe, pool)

-------------------------------------------------------------------------------
\* The bank.

Change == changes < MaxChanges /\ changes' = changes + 1

InLineUp(q) == \E r \in lineUp : r.question = q

\* assertEditable, assertDeletable: no live contest uses it, and the arena, which
\* is one, uses the practice questions.
Free(q) == q \notin Practice /\ ~(begun /\ InLineUp(q))

CreateQuestion(q, level) ==
  /\ bank[q] = Nil
  /\ Change
  /\ bank' = [bank EXCEPT ![q] = [ready |-> TRUE, level |-> level]]
  /\ UNCHANGED <<lineUp, plan, begun, largest, screen>>

\* A draft that is edited is published.
UpdateQuestion(q, level) ==
  /\ bank[q] # Nil /\ Free(q)
  /\ Change
  /\ bank' = [bank EXCEPT ![q] = [ready |-> TRUE, level |-> level]]
  /\ UNCHANGED <<lineUp, plan, begun, largest, screen>>

\* Its rows of the line-up go with it.
DeleteQuestion(q) ==
  /\ bank[q] # Nil /\ Free(q)
  /\ Change
  /\ bank' = [bank EXCEPT ![q] = Nil]
  /\ lineUp' = {r \in lineUp : r.question # q}
  /\ UNCHANGED <<plan, begun, largest, screen>>

-------------------------------------------------------------------------------
\* The line-up, by hand.

Overlap(d, e) == d = Everyone \/ e = Everyone \/ d = e

\* Rows that would show one question twice to the same players.
Conflict(r, s) == r # s /\ r.question = s.question /\ Overlap(r.division, s.division)

\* setContestProblems replaces the whole line-up, and every row is now placed by
\* hand.
SaveLineUp(rows) ==
  LET byHand == {[r EXCEPT !.byPlan = FALSE] : r \in rows} IN
  /\ ~begun
  /\ \A r, s \in byHand : ~Conflict(r, s)
  /\ \A r \in byHand : bank[r.question] # Nil /\ r.question \notin Practice
  /\ Change
  /\ lineUp' = byHand
  /\ UNCHANGED <<bank, plan, begun, largest, screen>>

\* Teams grow and shrink.
RosterChanges(size) ==
  /\ Change
  /\ largest' = size
  /\ UNCHANGED <<bank, lineUp, plan, begun, screen>>

\* setContestState's gate knows the questions' state, not where they come from.
StartContest ==
  /\ ~begun
  /\ lineUp # {}
  /\ \A r \in lineUp : bank[r.question].ready
  /\ begun' = TRUE
  /\ UNCHANGED <<bank, lineUp, plan, largest, screen, changes>>

-------------------------------------------------------------------------------
\* The planner's screen.  `grid` is the preview it holds: what it was asked for,
\* the pool, of which the screen holds a fingerprint, and the split.  An untouched
\* form of a contest that has sets shows those sets; otherwise the screen shows
\* the proposal, which is the preview.

Refreshed(o, seed, grid, shows) ==
  screen' = [screen EXCEPT ![o].at = "open", ![o].seed = seed, ![o].grid = grid, ![o].shows = shows]

\* showStored, for an untouched form.  Sets all of whose questions were deleted
\* count as none here; the property below then asks for more.
ShownUntouched == IF \E r \in lineUp : r.place # Team THEN "stored" ELSE "proposal"

\* On arrival the form holds the stored recipe, or one for the roster, and asks
\* for the stored seed.
OpenPlanner(o) ==
  /\ screen[o].at = "away"
  /\ \E recipe \in IF plan = Nil THEN Recipes ELSE {plan.recipe} :
       screen' = [screen EXCEPT ![o] =
         [at |-> "open", recipe |-> recipe, grid |-> Nil, read |-> Nil,
          seed |-> IF plan = Nil THEN Nil ELSE plan.seed,
          shows |-> ShownUntouched]]
  /\ UNCHANGED <<setupVars, changes>>

ChangeRecipe(o, recipe) ==
  /\ screen[o].at = "open"
  /\ screen' = [screen EXCEPT ![o].recipe = recipe, ![o].shows = "proposal"]
  /\ UNCHANGED <<setupVars, changes>>

DealAgain(o) ==
  /\ screen[o].at = "open"
  /\ Refreshed(o, Nil, Nil, "proposal")
  /\ UNCHANGED <<setupVars, changes>>

GridMatches(o) == screen[o].grid # Nil /\ screen[o].grid.recipe = screen[o].recipe

\* previewSets, for a form whose grid is not its recipe's; what it holds then need
\* not be what it shows.
Preview(o) ==
  LET recipe == screen[o].recipe IN
  /\ screen[o].at = "open" /\ ~GridMatches(o)
  /\ \/ /\ ~Feasible(recipe, Pool)
        /\ Refreshed(o, Nil, Nil, screen[o].shows)
     \/ /\ Feasible(recipe, Pool)
        /\ \E s \in IF screen[o].seed = Nil THEN Seeds ELSE {screen[o].seed} :
             Refreshed(o, s, [recipe |-> recipe, seed |-> s, pool |-> Pool,
                              rows |-> Deal(s, recipe, Pool)], screen[o].shows)
  /\ UNCHANGED <<setupVars, changes>>

\* Build asks for the preview, whatever the screen shows.
PressBuild(o) ==
  /\ screen[o].at = "open" /\ GridMatches(o)
  /\ screen' = [screen EXCEPT ![o].at = "asked"]
  /\ UNCHANGED <<setupVars, changes>>

-------------------------------------------------------------------------------
\* applySets.

\* What both reads of the contest ask for.
MayBuild(o) == ~begun /\ largest <= screen[o].grid.recipe.sets

\* Mutant: the deal is made from whatever is usable now.
ApplyChecksNothing(o) ==
  /\ screen[o].at = "asked"
  /\ MayBuild(o)
  /\ Feasible(screen[o].grid.recipe, Pool)
  /\ screen' = [screen EXCEPT ![o].at = "checked", ![o].read = Pool]
  /\ UNCHANGED <<setupVars, changes>>

\* Before the locks: the pool must be the one of the preview.
ApplyChecks(o) ==
  /\ screen[o].at = "asked"
  /\ MayBuild(o)
  /\ Pool = screen[o].grid.pool
  /\ Feasible(screen[o].grid.recipe, Pool)
  /\ screen' = [screen EXCEPT ![o].at = "checked", ![o].read = Pool]
  /\ UNCHANGED <<setupVars, changes>>

\* The rows a build replaces are the individual ones and those of a plan.
Survive == {r \in lineUp : r.place = Team /\ ~r.byPlan}

\* Mutant: what was checked before the locks is not checked again.
ApplyUnchecked(o) ==
  LET grid == screen[o].grid IN
  /\ screen[o].at = "checked"
  /\ MayBuild(o)
  /\ lineUp' = Survive \union Deal(grid.seed, grid.recipe, screen[o].read)
  /\ plan' = [recipe |-> grid.recipe, seed |-> grid.seed]
  /\ Refreshed(o, grid.seed, Nil, "stored")
  /\ UNCHANGED <<bank, begun, largest, changes>>

\* With the planned questions and the contest locked.  The screen then reads its
\* form back from the contest, and shows what it wrote.
ApplyWrites(o) ==
  LET grid == screen[o].grid IN
  /\ screen[o].at = "checked"
  /\ MayBuild(o)
  /\ Pool = screen[o].read
  /\ lineUp' = Survive \union Deal(grid.seed, grid.recipe, screen[o].read)
  /\ plan' = [recipe |-> grid.recipe, seed |-> grid.seed]
  /\ Refreshed(o, grid.seed, Nil, "stored")
  /\ UNCHANGED <<bank, begun, largest, changes>>

\* Too many teammates leave the grid up; any other refusal takes it down.
ApplyRefused(o) ==
  LET grid == screen[o].grid
      stale == Pool # (IF screen[o].at = "asked" THEN grid.pool ELSE screen[o].read) IN
  /\ screen[o].at \in {"asked", "checked"}
  /\ ~MayBuild(o) \/ stale
  /\ Refreshed(o, grid.seed, IF ~begun /\ largest > grid.recipe.sets THEN grid ELSE Nil,
               screen[o].shows)
  /\ UNCHANGED <<setupVars, changes>>

-------------------------------------------------------------------------------
PlannerInit ==
  /\ bank = Imported /\ lineUp = {} /\ plan = Nil
  /\ begun = FALSE /\ largest = 0 /\ changes = 0
  /\ screen \in [Planners -> {[at |-> "away", recipe |-> r, seed |-> Nil, grid |-> Nil, read |-> Nil,
                               shows |-> "proposal"] : r \in {CHOOSE r \in Recipes : TRUE}}]

AuthorStep ==
  \E q \in Questions :
    \/ \E level \in Levels \union {NoLevel} : CreateQuestion(q, level) \/ UpdateQuestion(q, level)
    \/ DeleteQuestion(q)

\* Saving the line-up as it is, from scratch, or with questions added.
SaveStep == \E kept \in {lineUp, {}}, added \in SUBSET HandRows : SaveLineUp(kept \union added)

PlannerStep ==
  \E o \in Planners :
    \/ OpenPlanner(o) \/ DealAgain(o) \/ Preview(o) \/ PressBuild(o)
    \/ \E recipe \in Recipes : ChangeRecipe(o, recipe)
    \/ ApplyChecks(o) \/ ApplyWrites(o) \/ ApplyRefused(o)

PlannerNext ==
  \/ AuthorStep \/ SaveStep \/ PlannerStep \/ StartContest
  \/ \E size \in 0 .. MaxTeamSize : RosterChanges(size)

PlannerSpec == PlannerInit /\ [][PlannerNext]_plannerVars

-------------------------------------------------------------------------------
\* Properties.

\* "A student would then see the same question in two slots, both submittable,
\* both worth points": no plan, no save and no order of the two makes a line-up
\* that shows one question twice to the same players.
NobodySeesAQuestionTwice == \A r, s \in lineUp : ~Conflict(r, s)

\* "The plan an organizer approved is produced by exactly the code that then
\* stores it": where the screen showed the proposal, what a build writes is that
\* proposal.  Whatever it showed, what is written is the deal of the form's own
\* recipe and seed from the questions usable at that moment; over the stored sets
\* of an untouched form that need not be the sets on the screen.
BuiltAsPreviewed ==
  [][\A o \in Planners :
       ApplyWrites(o) =>
         LET form == screen[o]
             written == {r \in lineUp' : r.byPlan} IN
         /\ form.shows = "proposal" => written = form.grid.rows
         /\ written = Deal(form.seed, form.recipe, Pool)]_plannerVars

HoldsOf(rows, level) ==
  {r \in rows : bank[r.question] \in [ready : {TRUE}, level : {level}]}

\* Every column of every division holds what the recipe says.
ColumnsFull(dealt, recipe) ==
  \A d \in Scopes, c \in 0 .. recipe.sets - 1, l \in Levels :
    Cardinality(HoldsOf({r \in dealt : r.division = d /\ r.place = c}, l)) = recipe.counts[l]

\* "A recipe that passes the check can always draw its group questions, whatever
\* the seed happens to deal": once it is written, every column of every division
\* holds what the recipe says, of questions that are ready and of that difficulty
\* now, and the team gets its number.
BuildMeetsRecipe ==
  [][\A o \in Planners :
       ApplyWrites(o) =>
         LET recipe == screen[o].grid.recipe
             dealt == {r \in lineUp' : r.byPlan} IN
         /\ ColumnsFull(dealt, recipe)
         /\ Cardinality({r \in dealt : r.place = Team}) = recipe.team]_plannerVars
===============================================================================
