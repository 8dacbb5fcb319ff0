--------------------------------- MODULE Roster --------------------------------
(***************************************************************************)
(* Who competes, on which team, and with which problem set.                *)
(*                                                                         *)
(* Every organizer action takes the contest's advisory lock, reads again   *)
(* and writes, so it is one step here; what was read before the lock and   *)
(* not again (what a removal would destroy) is a step of its own.  The     *)
(* line-up, the dealing of sets, the moves and the start gate each know a  *)
(* part of one rule, that no two teammates work on the same questions.     *)
(*                                                                         *)
(* The contest assigns its sets (RANDOM_ASSIGNED, the default, which no    *)
(* code changes).  A set is its division and its letter: a set that        *)
(* survives a new line-up keeps its row.  Left out: names and join codes,  *)
(* maxTeamSize, which binds no organizer, and the window of the contest,   *)
(* of which only "started", "frozen" and "over" matter here.               *)
(***************************************************************************)
EXTENDS Integers

CONSTANTS
  Participants,  \* Participant rows that may ever be made: an account back after a
                 \* removal is another one
  Teams,
  Divisions,     \* the divisions of the contest; it may have none
  Labels,        \* the letters of its sets
  LineUps,       \* the sets of the line-ups organizers may write
  Organizers,    \* organizers who may be removing somebody
  MaxWork,       \* submissions per participant
  None           \* no team, no division, no set

Sets == [division : Divisions \union {None}, label : Labels]

ASSUME LineUpsAssumption == LineUps \subseteq SUBSET Sets
ASSUME NoneAssumption == None \notin Teams \union Divisions \union Sets
ASSUME MaxWorkAssumption == MaxWork \in Nat

\* adminMoveParticipant's divisionId, left out of the request.
Unsaid == "unsaid"
ASSUME UnsaidAssumption == Unsaid \notin Divisions \union {None}

VARIABLES
  state,       \* Contest.state; RUNNING stands for FROZEN too
  frozen,      \* isPublicBoardFrozen, by hand or by schedule
  sets,        \* the ProblemSet rows
  questions,   \* the sets with an individual question in the line-up
  dealt,       \* Contest.setAssignmentSeed is not null
  teams,       \* the Team rows
  teamOf,      \* [Teams -> division], Team.divisionId
  competing,   \* the Participant rows
  removed,     \* participants whose row was deleted
  member,      \* [Participants -> Members], what their row says
  work,        \* [Participants -> Nat], their submissions
  removal      \* [Organizers -> Removals], removals that passed their check

lifeVars == <<state, frozen>>
lineUpVars == <<sets, questions, dealt>>
teamVars == <<teams, teamOf>>
peopleVars == <<competing, removed, work, removal>>
rosterVars == <<lifeVars, lineUpVars, teamVars, peopleVars, member>>

-------------------------------------------------------------------------------
\* What the actions read.

Members == [team : Teams \union {None}, division : Divisions \union {None},
            set : Sets \union {None}]

NewMember == [team |-> None, division |-> None, set |-> None]

Removals == [who : Participants \union {None}, confirmed : BOOLEAN]
NoRemoval == [who |-> None, confirmed |-> FALSE]

HasStarted == state \in {"RUNNING", "ENDED"}

\* assertCanMutateStandingsInputs.
Mutable == state # "ENDED" /\ ~frozen

Teammates(p, t) == {q \in competing \ {p} : t # None /\ member[q].team = t}

Taken(p, t) == {member[q].set : q \in Teammates(p, t)} \ {None}

SetsOf(d) == {s \in sets : s.division = d}

\* Mutant: a set a teammate already holds stays put as well.
StaysAnyway(p, t, d) == member[p].set \in SetsOf(d)

\* A set of p's division d that is free in team t stays put.
StaysPut(p, t, d) == member[p].set \in SetsOf(d) \ Taken(p, t)

\* Mutant: the deal of a set does not look whether the contest has started.
ReplaceableAnyway(p) == p \in Participants

\* What p holds may be replaced, or p holds nothing.
Replaceable(p) == HasStarted => member[p].set = None

\* ensureSetAssigned: participant p of division d, on team t, may now hold s.  A
\* set that cannot stay is kept if nothing can be dealt and no teammate has it,
\* or replaced by a free one, any of them as far as the seed goes.  If p may hold
\* nothing, not even no set, the move is refused.
MayHold(p, t, d, s) ==
  \/ StaysPut(p, t, d) /\ s = member[p].set
  \/ /\ ~StaysPut(p, t, d) /\ Replaceable(p)
     /\ \/ /\ ~dealt \/ SetsOf(d) = {}
           /\ s = member[p].set /\ s \notin Taken(p, t)
        \/ dealt /\ s \in SetsOf(d) \ Taken(p, t)

-------------------------------------------------------------------------------
\* The line-up and the deal, before the start.

\* Sets the new line-up does not name are deleted, which leaves their players
\* without one (SetNull), and a seed for other sets is forgotten.
ReplaceSets(new) ==
  /\ sets' = new
  /\ questions' = new
  /\ dealt' = (dealt /\ new = sets)
  /\ member' = [p \in Participants |->
       [member[p] EXCEPT !.set = IF @ \in new THEN @ ELSE None]]

\* setContestProblems.  applySets, the planner's way to write a line-up, makes
\* the same writes under stricter guards.
SetContestProblems(new) ==
  /\ ~HasStarted
  /\ ReplaceSets(new)
  /\ UNCHANGED <<lifeVars, teamVars, peopleVars>>

\* deleteAuthoredProblem takes the last question of a set out of the line-up: the
\* ProblemSet row stays.
DeleteLastQuestion(s) ==
  /\ ~HasStarted
  /\ s \in questions
  /\ questions' = questions \ {s}
  /\ UNCHANGED <<lifeVars, sets, dealt, teamVars, peopleVars, member>>

\* Players whose division has sets; the others are skipped.
Dealable == {p \in competing : SetsOf(member[p].division) # {}}

\* Mutant: naive random, which "would sometimes hand teammates the same set".
FairNaive(deal) ==
  \A p \in Dealable : deal[p].division = member[p].division

\* assignSets, once per division: teammates of one division get different sets.
\* No deal is fair to a team with more members than sets, which is refused.
Fair(deal) ==
  /\ \A p \in Dealable : deal[p].division = member[p].division
  /\ \A p, q \in Dealable :
       p # q /\ member[p].team # None /\ member[p].team = member[q].team
         => deal[p] # deal[q]

\* runSetAssignment, for the first time or again, when it is asked for.
RunSetAssignment ==
  /\ ~HasStarted
  /\ sets # {}
  /\ \E deal \in [Dealable -> sets] :
       /\ Fair(deal)
       /\ member' = [p \in Participants |->
            IF p \in Dealable THEN [member[p] EXCEPT !.set = deal[p]] ELSE member[p]]
  /\ dealt' = TRUE
  /\ UNCHANGED <<lifeVars, sets, questions, teamVars, peopleVars>>

-------------------------------------------------------------------------------
\* The roster.

AdminCreateTeam(t, d) ==
  /\ Mutable
  /\ t \notin teams
  /\ teams' = teams \union {t}
  /\ teamOf' = [teamOf EXCEPT ![t] = d]
  /\ UNCHANGED <<lifeVars, lineUpVars, peopleVars, member>>

\* Members become teamless and keep their sets.
AdminDissolveTeam(t) ==
  /\ Mutable
  /\ t \in teams
  /\ teams' = teams \ {t}
  /\ teamOf' = [teamOf EXCEPT ![t] = None]
  /\ member' = [p \in Participants |->
       [member[p] EXCEPT !.team = IF @ = t THEN None ELSE @]]
  /\ UNCHANGED <<lifeVars, lineUpVars, peopleVars>>

\* The division a move leaves p in: the one asked for, or the team's own.
DivisionAfter(p, t, d) ==
  CASE d # Unsaid -> d
    [] d = Unsaid /\ t # None /\ teamOf[t] # None -> teamOf[t]
    [] OTHER -> member[p].division

\* Mutant: the set is dealt before the division is changed.
DealtFirst(p, t, d, s) ==
  IF t = None THEN s = member[p].set ELSE MayHold(p, t, member[p].division, s)

\* A move onto a team deals a set of the new division; off a team, none.
DealtByMove(p, t, d, s) ==
  IF t = None THEN s = member[p].set ELSE MayHold(p, t, DivisionAfter(p, t, d), s)

\* adminMoveParticipant, to a team, off one, or to another division in place.
AdminMoveParticipant(p, t, d) ==
  /\ Mutable
  /\ p \in competing
  /\ t \in teams \union {None}
  /\ t # member[p].team \/ DivisionAfter(p, t, d) # member[p].division
  /\ \E s \in sets \union {None} :
       /\ DealtByMove(p, t, d, s)
       /\ member' = [member EXCEPT
            ![p] = [team |-> t, division |-> DivisionAfter(p, t, d), set |-> s]]
  /\ UNCHANGED <<lifeVars, lineUpVars, teamVars, peopleVars>>

\* "Deliberately does not touch chosenSetId."
AdminSetParticipantDivision(p, d) ==
  /\ Mutable
  /\ p \in competing
  /\ member[p].division # d
  /\ member' = [member EXCEPT ![p].division = d]
  /\ UNCHANGED <<lifeVars, lineUpVars, teamVars, peopleVars>>

\* The escape hatch: any set but a teammate's, of whatever division.
AdminReassignSet(p, s) ==
  /\ Mutable
  /\ p \in competing
  /\ s \in (sets \union {None}) \ Taken(p, member[p].team)
  /\ member' = [member EXCEPT ![p].set = s]
  /\ UNCHANGED <<lifeVars, lineUpVars, teamVars, peopleVars>>

\* A new row has no team.
Joins(p) ==
  /\ p \notin competing \union removed
  /\ competing' = competing \union {p}
  /\ UNCHANGED <<lifeVars, lineUpVars, teamVars, removed, work, removal, member>>

AdminAddParticipant(p) == Mutable /\ Joins(p)

\* ensureEnrolled, at sign-in: a published contest that is not over, frozen or not.
EnsureEnrolled(p) == state \in {"SCHEDULED", "RUNNING"} /\ Joins(p)

\* createSubmission, which takes no lock.
CreateSubmission(p) ==
  /\ state = "RUNNING"
  /\ p \in competing
  /\ work[p] < MaxWork
  /\ work' = [work EXCEPT ![p] = @ + 1]
  /\ UNCHANGED <<lifeVars, lineUpVars, teamVars, competing, removed, removal, member>>

\* adminRemoveParticipant's check, before it has the lock: somebody with
\* submissions is removed only if the organizer confirmed that.
CountSubmissions(o, p, confirmed) ==
  /\ removal[o] = NoRemoval
  /\ p \in competing
  /\ work[p] > 0 => confirmed
  /\ removal' = [removal EXCEPT ![o] = [who |-> p, confirmed |-> confirmed]]
  /\ UNCHANGED <<lifeVars, lineUpVars, teamVars, competing, removed, work, member>>

\* Its transaction: the row goes, and the submissions with it.
RemoveParticipant(o) ==
  LET p == removal[o].who IN
  /\ p \in competing
  /\ Mutable
  /\ competing' = competing \ {p}
  /\ removed' = removed \union {p}
  /\ work' = [work EXCEPT ![p] = 0]
  /\ member' = [member EXCEPT ![p] = NewMember]
  /\ removal' = [removal EXCEPT ![o] = NoRemoval]
  /\ UNCHANGED <<lifeVars, lineUpVars, teamVars>>

\* The transaction refuses, or finds no row to delete and rolls back.
RemovalFails(o) ==
  /\ removal[o] # NoRemoval
  /\ removal[o].who \notin competing \/ ~Mutable
  /\ removal' = [removal EXCEPT ![o] = NoRemoval]
  /\ UNCHANGED <<lifeVars, lineUpVars, teamVars, competing, removed, work, member>>

-------------------------------------------------------------------------------
\* The contest.

\* setContestState's start gate: every member of a team holds a set of the
\* line-up, and no teammate the same one.  A line-up of group questions only asks
\* for nothing.
ReadyToStart ==
  questions # {} =>
    \A p \in competing :
      member[p].team # None =>
        member[p].set \in questions \ Taken(p, member[p].team)

\* Whether there is a line-up to publish is Contest's concern.
Publish == state = "DRAFT" /\ state' = "SCHEDULED" /\ UNCHANGED frozen

\* A start moves the window, and a scheduled freeze with it.
Start ==
  /\ state \in {"DRAFT", "SCHEDULED"}
  /\ ReadyToStart
  /\ state' = "RUNNING"
  /\ frozen' = FALSE

End == state \in {"SCHEDULED", "RUNNING"} /\ state' = "ENDED" /\ frozen' = FALSE

\* By hand, or because the clock reaches freezeAt.
BoardFreezes == state \in {"SCHEDULED", "RUNNING"} /\ ~frozen /\ frozen' = TRUE /\ UNCHANGED state

BoardReveals == state = "RUNNING" /\ frozen /\ frozen' = FALSE /\ UNCHANGED state

-------------------------------------------------------------------------------
RosterInit ==
  /\ state = "DRAFT" /\ frozen = FALSE
  /\ sets = {} /\ questions = {} /\ dealt = FALSE
  /\ teams = {} /\ teamOf = [t \in Teams |-> None]
  /\ competing = {} /\ removed = {}
  /\ member = [p \in Participants |-> NewMember]
  /\ work = [p \in Participants |-> 0]
  /\ removal = [o \in Organizers |-> NoRemoval]

Prepare ==
  \/ \E new \in LineUps : SetContestProblems(new)
  \/ \E s \in Sets : DeleteLastQuestion(s)
  \/ RunSetAssignment

Organize ==
  \/ \E t \in Teams :
       \/ \E d \in Divisions \union {None} : AdminCreateTeam(t, d)
       \/ AdminDissolveTeam(t)
  \/ \E p \in Participants :
       \/ AdminAddParticipant(p)
       \/ \E t \in Teams \union {None}, d \in Divisions \union {None, Unsaid} :
            AdminMoveParticipant(p, t, d)
       \/ \E d \in Divisions \union {None} : AdminSetParticipantDivision(p, d)
       \/ \E s \in Sets \union {None} : AdminReassignSet(p, s)
       \/ \E o \in Organizers, confirmed \in BOOLEAN : CountSubmissions(o, p, confirmed)
  \/ \E o \in Organizers : RemoveParticipant(o) \/ RemovalFails(o)

Compete == \E p \in Participants : EnsureEnrolled(p) \/ CreateSubmission(p)

Proceed ==
  /\ Publish \/ Start \/ End \/ BoardFreezes \/ BoardReveals
  /\ UNCHANGED <<lineUpVars, teamVars, peopleVars, member>>

RosterNext == Prepare \/ Organize \/ Compete \/ Proceed

RosterSpec == RosterInit /\ [][RosterNext]_rosterVars

-------------------------------------------------------------------------------
\* Properties.

\* Shapes and foreign keys: nobody is on a team or a set that is gone, and a
\* deleted participant leaves nothing behind.
RosterTypeOK ==
  /\ state \in {"DRAFT", "SCHEDULED", "RUNNING", "ENDED"} /\ frozen \in BOOLEAN
  /\ sets \subseteq Sets /\ questions \subseteq sets /\ dealt \in BOOLEAN
  /\ teams \subseteq Teams /\ teamOf \in [Teams -> Divisions \union {None}]
  /\ competing \subseteq Participants /\ removed \subseteq Participants \ competing
  /\ member \in [Participants -> Members]
  /\ \A p \in Participants :
       /\ member[p].team \in teams \union {None}
       /\ member[p].set \in sets \union {None}
  /\ work \in [Participants -> Nat]
  /\ \A p \in Participants \ competing : member[p] = NewMember /\ work[p] = 0
  /\ removal \in [Organizers -> Removals]

\* "Teammates need different sets": while a contest runs, no two members of a
\* team hold the same questions, whoever was moved, added, removed, given another
\* division or another set since it started.
TeammatesDiffer ==
  state = "RUNNING" =>
    \A p, q \in competing :
      p # q /\ member[p].team # None /\ member[p].team = member[q].team
        => member[p].set # member[q].set \/ member[p].set \notin questions

\* A deal that finds a set for everybody on a team leaves the roster fit to start,
\* whatever divisions its members mix.
DealMakesReady ==
  [][(/\ questions = sets
      /\ \A p \in competing : member[p].team # None => p \in Dealable
      /\ RunSetAssignment)
     => ReadyToStart']_rosterVars

\* "That move would change this student's problem set after the contest started":
\* from then on a set that somebody holds changes only on its own, never with a
\* team, a division or a line-up, and never together with anybody else's.
StartedSetsStand ==
  [][\A p \in competing \intersect competing' :
       HasStarted /\ member[p].set # None /\ member'[p].set # member[p].set
         => member' = [member EXCEPT ![p].set = member'[p].set]]_rosterVars

\* A move that gives somebody another set gives one of the division it leaves
\* them in, which no teammate there holds.
MovesDealFairly ==
  [][\A p \in competing \intersect competing' :
       (/\ member'[p].set # member[p].set
        /\ \/ member'[p].team # member[p].team
           \/ member'[p].division # member[p].division)
         => /\ member'[p].set \in SetsOf(member'[p].division)
            /\ member'[p].set \notin Taken(p, member'[p].team)]_rosterVars

\* What anybody may count on about the set they hold, whatever organizers change.
SetsChangeFairly == StartedSetsStand /\ MovesDealFairly

\* A claim of the code's comments that the code does not keep.

\* adminRemoveParticipant: "a participant with no submissions is removed outright,
\* and one with submissions is refused until the caller passes deleteSubmissions".
RemovalIsConfirmed ==
  [][\A o \in Organizers :
       RemoveParticipant(o) /\ work[removal[o].who] > 0 => removal[o].confirmed]_rosterVars
===============================================================================
