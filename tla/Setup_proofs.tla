------------------------------ MODULE Setup_proofs ------------------------------
(***************************************************************************)
(* Setting a contest up, for any people, teams, divisions, line-ups,       *)
(* questions, recipes, seeds and requests.                                 *)
(*                                                                         *)
(* Roster: that teammates hold different questions is inductive together   *)
(* with the foreign keys: the start gate establishes it, no edit of the    *)
(* line-up can follow a start, and every later write of a team or a set    *)
(* looks at what the teammates hold under the same lock.                   *)
(*                                                                         *)
(* Planner: that no player sees a question twice is inductive by itself,   *)
(* because the write draws on a pool without the questions that stay.      *)
(* That a build writes its proposal needs what a screen holds: its grid is *)
(* the deal it says it is, of the form's recipe and seed, and a request    *)
(* that read the pool read the grid's.  That it fills every set needs that *)
(* a shuffle is a bijection from a deck to positions, of which each set    *)
(* takes a slice; that enough is left for the team, that the sets take no  *)
(* more than their sizes add up to, however much the deals of two          *)
(* divisions overlap.                                                      *)
(*                                                                         *)
(* Authoring: that a row's files are there needs who owns which directory: *)
(* a request in flight holds one that no other request holds and the row   *)
(* does not name, with the content it is about to give the row.            *)
(***************************************************************************)
EXTENDS Roster, Planner, Authoring, Sums, TLAPS

USE NoneAssumption

\* An empty contest is well formed.
LEMMA TypeInit == RosterInit => RosterTypeOK
  <1> SUFFICES ASSUME RosterInit PROVE RosterTypeOK
    OBVIOUS
  <1>1. NewMember \in Members /\ NoRemoval \in Removals
    BY DEF Members, NewMember, Removals, NoRemoval
  <1>2. NewMember.team = None /\ NewMember.set = None
    BY DEF NewMember
  <1> QED
    BY <1>1, <1>2 DEF RosterInit, RosterTypeOK

\* The edits of the line-up keep the foreign keys: holders of a set that
\* is deleted lose it, and a deal hands out sets that exist.
LEMMA PrepareType ==
  ASSUME RosterTypeOK, Prepare
  PROVE  RosterTypeOK'
  <1> USE DEF RosterTypeOK, lifeVars, teamVars, peopleVars
  <1>1. CASE \E new \in LineUps : SetContestProblems(new)
    <2>1. PICK new \in LineUps : SetContestProblems(new)
      BY <1>1
    <2>2. new \subseteq Sets
      BY LineUpsAssumption
    <2>3. member' \in [Participants -> Members]
      BY <2>1, <2>2 DEF SetContestProblems, ReplaceSets, Members
    <2>4. \A p \in Participants : /\ member'[p].team = member[p].team
                                  /\ member'[p].set \in sets' \union {None}
                                  /\ member[p] = NewMember => member'[p] = NewMember
      BY <2>1 DEF SetContestProblems, ReplaceSets, Members, NewMember
    <2> QED
      BY <2>1, <2>2, <2>3, <2>4 DEF SetContestProblems, ReplaceSets
  <1>2. CASE \E s \in Sets : DeleteLastQuestion(s)
    BY <1>2 DEF DeleteLastQuestion
  <1>3. CASE RunSetAssignment
    <2>1. PICK deal \in [Dealable -> sets] :
            member' = [p \in Participants |->
              IF p \in Dealable THEN [member[p] EXCEPT !.set = deal[p]] ELSE member[p]]
      BY <1>3 DEF RunSetAssignment
    <2>2. \A p \in Participants : /\ member'[p] \in Members
                                  /\ member'[p].team = member[p].team
                                  /\ member'[p].set \in sets \union {None}
                                  /\ p \notin competing => member'[p] = member[p]
      <3> TAKE p \in Participants
      <3>1. CASE p \in Dealable
        <4>1. member'[p] = [member[p] EXCEPT !.set = deal[p]] /\ deal[p] \in sets
          BY <2>1, <3>1
        <4>2. p \in competing /\ member[p] \in Members
          BY <3>1 DEF Dealable
        <4> QED
          BY <4>1, <4>2 DEF Members
      <3>2. CASE p \notin Dealable
        <4>1. member'[p] = member[p]
          BY <2>1, <3>2
        <4> QED
          BY <4>1
      <3> QED
        BY <3>1, <3>2
    <2>3. member' \in [Participants -> Members]
      BY <2>1, <2>2
    <2>4. /\ dealt' = TRUE
          /\ UNCHANGED <<lifeVars, sets, questions, teamVars, peopleVars>>
      BY <1>3 DEF RunSetAssignment
    <2>5. \A p \in Participants \ competing' : member'[p] = NewMember /\ work'[p] = 0
      BY <2>2, <2>4
    <2>6. \A p \in Participants : /\ member'[p].team \in teams' \union {None}
                                  /\ member'[p].set \in sets' \union {None}
      BY <2>2, <2>4
    <2> QED
      BY <2>3, <2>4, <2>5, <2>6
  <1> QED
    BY <1>1, <1>2, <1>3 DEF Prepare

\* The division a move leaves somebody in is one of the contest's, or none.
LEMMA DivisionType ==
  ASSUME RosterTypeOK, NEW p \in Participants, NEW t \in Teams \union {None},
         NEW d \in Divisions \union {None, Unsaid}
  PROVE  DivisionAfter(p, t, d) \in Divisions \union {None}
  BY DEF RosterTypeOK, Members, DivisionAfter

\* Each action of an organizer on the roster keeps the types.
LEMMA OrganizeType ==
  ASSUME RosterTypeOK, Organize
  PROVE  RosterTypeOK'
  <1> USE DEF RosterTypeOK, lifeVars, lineUpVars, teamVars, peopleVars
  <1>1. ASSUME NEW t \in Teams, NEW d \in Divisions \union {None}, AdminCreateTeam(t, d)
        PROVE  RosterTypeOK'
    BY <1>1 DEF AdminCreateTeam
  <1>2. ASSUME NEW t \in Teams, AdminDissolveTeam(t)
        PROVE  RosterTypeOK'
    <2>1. \A p \in Participants : /\ member'[p] \in Members
                                  /\ member'[p].team \in teams' \union {None}
                                  /\ member'[p].set = member[p].set
                                  /\ member[p] = NewMember => member'[p] = NewMember
      BY <1>2 DEF AdminDissolveTeam, Members, NewMember
    <2>2. member' \in [Participants -> Members]
      BY <1>2, <2>1 DEF AdminDissolveTeam
    <2> QED
      BY <1>2, <2>1, <2>2 DEF AdminDissolveTeam
  <1>3. ASSUME NEW p \in Participants, Joins(p)
        PROVE  RosterTypeOK'
    BY <1>3 DEF Joins
  <1>4. ASSUME NEW p \in Participants, NEW t \in Teams \union {None},
               NEW d \in Divisions \union {None, Unsaid}, AdminMoveParticipant(p, t, d)
        PROVE  RosterTypeOK'
    <2>1. PICK s \in sets \union {None} :
            member' = [member EXCEPT
              ![p] = [team |-> t, division |-> DivisionAfter(p, t, d), set |-> s]]
      BY <1>4 DEF AdminMoveParticipant
    <2>2. p \in competing /\ t \in teams \union {None}
      BY <1>4 DEF AdminMoveParticipant
    <2>3. [team |-> t, division |-> DivisionAfter(p, t, d), set |-> s] \in Members
      BY DivisionType DEF Members
    <2> QED
      BY <1>4, <2>1, <2>2, <2>3 DEF AdminMoveParticipant
  <1>5. ASSUME NEW p \in Participants, NEW d \in Divisions \union {None},
               AdminSetParticipantDivision(p, d)
        PROVE  RosterTypeOK'
    BY <1>5 DEF AdminSetParticipantDivision, Members
  <1>6. ASSUME NEW p \in Participants, NEW s \in Sets \union {None}, AdminReassignSet(p, s)
        PROVE  RosterTypeOK'
    BY <1>6 DEF AdminReassignSet, Members
  <1>7. ASSUME NEW o \in Organizers, NEW p \in Participants, NEW confirmed \in BOOLEAN,
               CountSubmissions(o, p, confirmed)
        PROVE  RosterTypeOK'
    BY <1>7 DEF CountSubmissions, Removals
  <1>8. ASSUME NEW o \in Organizers, RemoveParticipant(o)
        PROVE  RosterTypeOK'
    <2>1. NewMember \in Members /\ NoRemoval \in Removals
      BY DEF NewMember, NoRemoval, Members, Removals
    <2> QED
      BY <1>8, <2>1 DEF RemoveParticipant, NewMember
  <1>9. ASSUME NEW o \in Organizers, RemovalFails(o)
        PROVE  RosterTypeOK'
    BY <1>9 DEF RemovalFails, Removals, NoRemoval
  <1> QED
    BY <1>1, <1>2, <1>3, <1>4, <1>5, <1>6, <1>7, <1>8, <1>9 DEF Organize, AdminAddParticipant

\* So does every step.
LEMMA StepType ==
  ASSUME RosterTypeOK, [RosterNext]_rosterVars
  PROVE  RosterTypeOK'
  <1>1. CASE Compete
    BY <1>1, MaxWorkAssumption DEF Compete, EnsureEnrolled, Joins, CreateSubmission, RosterTypeOK,
       lifeVars, lineUpVars, teamVars
  <1>2. CASE Proceed
    BY <1>2 DEF Proceed, Publish, Start, End, BoardFreezes, BoardReveals, RosterTypeOK,
       lineUpVars, teamVars, peopleVars
  <1>3. CASE UNCHANGED rosterVars
    BY <1>3 DEF rosterVars, lifeVars, lineUpVars, teamVars, peopleVars, RosterTypeOK
  <1> QED
    BY <1>1, <1>2, <1>3, PrepareType, OrganizeType DEF RosterNext

\* The roster and the line-up keep their shape and their foreign keys: nobody is
\* on a team or a set that was deleted, whatever organizers do at once.
THEOREM RosterTypeCorrect == RosterSpec => []RosterTypeOK
  BY TypeInit, StepType, PTL DEF RosterSpec

-------------------------------------------------------------------------------
\* Teammates.

RosterInv == RosterTypeOK /\ TeammatesDiffer

\* What a move may give p no teammate on the team it joins has.
LEMMA MayHoldIsFree ==
  ASSUME NEW p \in Participants, NEW t \in Teams, NEW d, NEW s, MayHold(p, t, d, s)
  PROVE  s \notin Taken(p, t)
  BY DEF MayHold, StaysPut

\* A write of one participant's row keeps teammates apart, if the set it leaves p
\* with is none of those p's teammates hold.
LEMMA OneRow ==
  ASSUME RosterInv, NEW p \in Participants, NEW row \in Members,
         member' = [member EXCEPT ![p] = row],
         competing' \subseteq competing,
         UNCHANGED <<state, sets, questions>>,
         row.team # None => row.set \notin Taken(p, row.team)
  PROVE  TeammatesDiffer'
  <1> USE DEF RosterInv, RosterTypeOK
  <1> SUFFICES ASSUME state = "RUNNING", NEW q \in competing, NEW r \in competing,
                      q # r, member'[q].team # None, member'[q].team = member'[r].team,
                      member'[q].set = member'[r].set, member'[q].set \in questions
               PROVE  FALSE
    BY DEF TeammatesDiffer
  <1>1. CASE q # p /\ r # p
    BY <1>1 DEF TeammatesDiffer
  <1>2. ASSUME NEW u \in competing, u # p, member[u].team = row.team, row.team # None,
               row.set = member[u].set, row.set \in questions
        PROVE  FALSE
    BY <1>2 DEF Taken, Teammates
  <1>3. CASE q = p
    BY <1>2, <1>3
  <1>4. CASE r = p
    BY <1>2, <1>4
  <1> QED
    BY <1>1, <1>3, <1>4

\* No action of an organizer on the roster puts two teammates on the same questions.
LEMMA OrganizeDiffer ==
  ASSUME RosterInv, Organize
  PROVE  TeammatesDiffer'
  <1> USE DEF RosterInv, lifeVars, lineUpVars, teamVars, peopleVars
  <1>1. ASSUME NEW t \in Teams, AdminDissolveTeam(t)
        PROVE  TeammatesDiffer'
    <2>1. \A p \in competing : /\ member'[p].set = member[p].set
                              /\ member'[p].team \in {None, member[p].team}
      BY <1>1 DEF AdminDissolveTeam, RosterTypeOK, Members
    <2> QED
      BY <1>1, <2>1 DEF AdminDissolveTeam, TeammatesDiffer
  <1>2. ASSUME NEW p \in Participants, Joins(p)
        PROVE  TeammatesDiffer'
    <2>1. member[p].team = None
      BY <1>2 DEF Joins, RosterTypeOK, NewMember
    <2> QED
      BY <1>2, <2>1 DEF Joins, TeammatesDiffer
  <1>3. ASSUME NEW p \in Participants, NEW t \in Teams \union {None},
               NEW d \in Divisions \union {None, Unsaid}, AdminMoveParticipant(p, t, d)
        PROVE  TeammatesDiffer'
    <2>1. PICK s \in sets \union {None} :
            /\ DealtByMove(p, t, d, s)
            /\ member' = [member EXCEPT
                 ![p] = [team |-> t, division |-> DivisionAfter(p, t, d), set |-> s]]
      BY <1>3 DEF AdminMoveParticipant
    <2> DEFINE row == [team |-> t, division |-> DivisionAfter(p, t, d), set |-> s]
    <2>2. row \in Members
      BY DivisionType DEF Members, RosterTypeOK
    <2>3. t # None => s \notin Taken(p, t)
      BY <2>1, MayHoldIsFree DEF DealtByMove
    <2>4. UNCHANGED <<state, sets, questions, competing>>
      BY <1>3 DEF AdminMoveParticipant
    <2> QED
      BY <2>1, <2>2, <2>3, <2>4, OneRow
  <1>4. ASSUME NEW p \in Participants, NEW d \in Divisions \union {None},
               AdminSetParticipantDivision(p, d)
        PROVE  TeammatesDiffer'
    BY <1>4 DEF AdminSetParticipantDivision, TeammatesDiffer, RosterTypeOK, Members
  <1>5. ASSUME NEW p \in Participants, NEW s \in Sets \union {None}, AdminReassignSet(p, s)
        PROVE  TeammatesDiffer'
    <2> DEFINE row == [member[p] EXCEPT !.set = s]
    <2>1. row \in Members /\ row.team = member[p].team /\ row.set = s
      BY DEF RosterTypeOK, Members
    <2>2. /\ member' = [member EXCEPT ![p] = row]
          /\ UNCHANGED <<state, sets, questions, competing>>
          /\ s \notin Taken(p, row.team)
      BY <1>5, <2>1 DEF AdminReassignSet
    <2> QED
      BY <2>1, <2>2, OneRow
  <1>6. ASSUME NEW o \in Organizers, RemoveParticipant(o)
        PROVE  TeammatesDiffer'
    BY <1>6 DEF RemoveParticipant, TeammatesDiffer, RosterTypeOK
  <1>7. ASSUME UNCHANGED <<state, questions, competing, member>>
        PROVE  TeammatesDiffer'
    BY <1>7 DEF TeammatesDiffer
  <1> QED
    BY <1>1, <1>2, <1>3, <1>4, <1>5, <1>6, <1>7
    DEF Organize, AdminAddParticipant, AdminCreateTeam, CountSubmissions, RemovalFails

\* Nor does any other step: the line-up only changes before the start, and the
\* start gate looks.
LEMMA StepDiffer ==
  ASSUME RosterInv, [RosterNext]_rosterVars
  PROVE  TeammatesDiffer'
  <1> USE DEF RosterInv, lifeVars, lineUpVars, teamVars, peopleVars
  <1>1. CASE Prepare
    BY <1>1 DEF Prepare, SetContestProblems, DeleteLastQuestion, RunSetAssignment, HasStarted,
       TeammatesDiffer
  <1>2. CASE Compete
    <2>1. ASSUME NEW p \in Participants, Joins(p)
          PROVE  TeammatesDiffer'
      BY <2>1 DEF Joins, RosterTypeOK, NewMember, TeammatesDiffer
    <2>2. ASSUME NEW p \in Participants, CreateSubmission(p)
          PROVE  TeammatesDiffer'
      BY <2>2 DEF CreateSubmission, TeammatesDiffer
    <2> QED
      BY <1>2, <2>1, <2>2 DEF Compete, EnsureEnrolled
  <1>3. CASE Proceed
    <2>1. UNCHANGED <<questions, competing, member>>
      BY <1>3 DEF Proceed
    <2>2. CASE Start
      <3> SUFFICES ASSUME NEW p \in competing, NEW q \in competing, p # q,
                          member[p].team # None, member[p].team = member[q].team,
                          member[p].set = member[q].set, member[p].set \in questions
                   PROVE  FALSE
        BY <2>1 DEF TeammatesDiffer
      <3>1. member[p].set \notin Taken(p, member[p].team)
        BY <2>2 DEF Start, ReadyToStart
      <3>2. member[q].set # None
        BY DEF RosterTypeOK
      <3> QED
        BY <3>1, <3>2 DEF Taken, Teammates
    <2>3. CASE Publish \/ End
      BY <2>3 DEF Publish, End, TeammatesDiffer
    <2>4. CASE BoardFreezes \/ BoardReveals
      BY <2>1, <2>4 DEF BoardFreezes, BoardReveals, TeammatesDiffer
    <2> QED
      BY <1>3, <2>2, <2>3, <2>4 DEF Proceed
  <1>4. CASE UNCHANGED rosterVars
    <2>1. UNCHANGED <<state, questions, competing, member>>
      BY <1>4 DEF rosterVars
    <2> QED
      BY <2>1 DEF TeammatesDiffer
  <1> QED
    BY <1>1, <1>2, <1>3, <1>4, OrganizeDiffer DEF RosterNext

\* While a contest runs no two teammates have the same questions, whatever
\* organizers do to teams, divisions and sets once it has started.
THEOREM RosterTeammatesDiffer == RosterSpec => []TeammatesDiffer
  <1>1. RosterInit => RosterInv
    BY TypeInit DEF RosterInit, RosterInv, TeammatesDiffer
  <1>2. RosterInv /\ [RosterNext]_rosterVars => RosterInv'
    BY StepType, StepDiffer DEF RosterInv
  <1>3. RosterInv => TeammatesDiffer
    BY DEF RosterInv
  <1> QED
    BY <1>1, <1>2, <1>3, PTL DEF RosterSpec

-------------------------------------------------------------------------------
\* What a step may do to a set.

\* The row of p after a step that changes its set, if p is still on the roster: the
\* line-up or the deal changed it, before the start; a move did; or the correction,
\* which changes nothing else.
LEMMA SetChanges ==
  ASSUME RosterTypeOK, [RosterNext]_rosterVars,
         NEW p \in competing \intersect competing',
         member'[p].set # member[p].set
  PROVE  \/ /\ ~HasStarted
            /\ member'[p].team = member[p].team /\ member'[p].division = member[p].division
         \/ \E t \in Teams \union {None}, d \in Divisions \union {None, Unsaid} :
              AdminMoveParticipant(p, t, d)
         \/ member' = [member EXCEPT ![p].set = member'[p].set]
  <1> USE DEF RosterTypeOK
  <1>1. CASE Prepare
    <2>1. ASSUME NEW new \in LineUps, SetContestProblems(new)
          PROVE  member'[p].team = member[p].team /\ member'[p].division = member[p].division
      BY <2>1 DEF SetContestProblems, ReplaceSets, Members
    <2>2. ASSUME RunSetAssignment
          PROVE  member'[p].team = member[p].team /\ member'[p].division = member[p].division
      <3>1. PICK deal \in [Dealable -> sets] :
              member' = [q \in Participants |->
                IF q \in Dealable THEN [member[q] EXCEPT !.set = deal[q]] ELSE member[q]]
        BY <2>2 DEF RunSetAssignment
      <3>2. member'[p] = [member[p] EXCEPT !.set = deal[p]] \/ member'[p] = member[p]
        BY <3>1
      <3> QED
        BY <3>2 DEF Members
    <2>3. ~(\E s \in Sets : DeleteLastQuestion(s))
      BY DEF DeleteLastQuestion
    <2>4. ~HasStarted
      BY <1>1 DEF Prepare, SetContestProblems, DeleteLastQuestion, RunSetAssignment
    <2> QED
      BY <1>1, <2>1, <2>2, <2>3, <2>4 DEF Prepare
  <1>2. CASE Organize
    <2>1. ASSUME NEW t \in Teams, AdminDissolveTeam(t)
          PROVE  FALSE
      BY <2>1 DEF AdminDissolveTeam, Members
    <2>2. ASSUME NEW q \in Participants, NEW t \in Teams \union {None},
                 NEW d \in Divisions \union {None, Unsaid}, AdminMoveParticipant(q, t, d)
          PROVE  q = p
      BY <2>2 DEF AdminMoveParticipant
    <2>3. ASSUME NEW q \in Participants, NEW d \in Divisions \union {None},
                 AdminSetParticipantDivision(q, d)
          PROVE  FALSE
      BY <2>3 DEF AdminSetParticipantDivision, Members
    <2>4. ASSUME NEW q \in Participants, NEW s \in Sets \union {None}, AdminReassignSet(q, s)
          PROVE  member' = [member EXCEPT ![p].set = member'[p].set]
      <3>1. member' = [member EXCEPT ![q].set = s]
        BY <2>4 DEF AdminReassignSet
      <3>2. q = p
        BY <3>1
      <3>3. member'[p].set = s
        BY <3>1, <3>2 DEF Members
      <3> QED
        BY <3>1, <3>2, <3>3
    <2>5. ASSUME NEW o \in Organizers, RemoveParticipant(o)
          PROVE  FALSE
      BY <2>5 DEF RemoveParticipant
    <2>6. ASSUME member' = member
          PROVE  FALSE
      BY <2>6
    <2> QED
      BY <1>2, <2>1, <2>2, <2>3, <2>4, <2>5, <2>6
      DEF Organize, AdminAddParticipant, Joins, AdminCreateTeam, CountSubmissions, RemovalFails
  <1>3. member' # member
    OBVIOUS
  <1>4. ~Compete /\ ~Proceed /\ ~UNCHANGED rosterVars
    BY <1>3 DEF Compete, EnsureEnrolled, Joins, CreateSubmission, Proceed, rosterVars
  <1> QED
    BY <1>1, <1>2, <1>4 DEF RosterNext

\* What a move that changes the set of p does, and that it needs a set not held or
\* a contest that has not started.
LEMMA MoveChanges ==
  ASSUME RosterTypeOK, NEW p \in competing, NEW t \in Teams \union {None},
         NEW d \in Divisions \union {None, Unsaid}, AdminMoveParticipant(p, t, d),
         member'[p].set # member[p].set
  PROVE  /\ HasStarted => member[p].set = None
         /\ member'[p].set \in SetsOf(member'[p].division) \ Taken(p, member'[p].team)
  <1>1. PICK s \in sets \union {None} :
          /\ DealtByMove(p, t, d, s)
          /\ member' = [member EXCEPT
               ![p] = [team |-> t, division |-> DivisionAfter(p, t, d), set |-> s]]
    BY DEF AdminMoveParticipant
  <1>2. member'[p] = [team |-> t, division |-> DivisionAfter(p, t, d), set |-> s]
    BY <1>1 DEF RosterTypeOK
  <1>3. s # member[p].set
    BY <1>2
  <1>4. MayHold(p, t, DivisionAfter(p, t, d), s)
    BY <1>1, <1>3 DEF DealtByMove
  <1>5. /\ HasStarted => member[p].set = None
        /\ s \in SetsOf(DivisionAfter(p, t, d)) \ Taken(p, t)
    BY <1>3, <1>4 DEF MayHold, Replaceable
  <1> QED
    BY <1>2, <1>5

\* Once the contest has started a set that somebody holds changes only by the
\* explicit correction, and nothing else changes with it.
THEOREM RosterSetsStand == RosterSpec => StartedSetsStand
  <1>1. RosterTypeOK /\ [RosterNext]_rosterVars =>
          \A p \in competing \intersect competing' :
            HasStarted /\ member[p].set # None /\ member'[p].set # member[p].set
              => member' = [member EXCEPT ![p].set = member'[p].set]
    BY SetChanges, MoveChanges
  <1> QED
    BY <1>1, RosterTypeCorrect, PTL DEF RosterSpec, StartedSetsStand

\* A move never gives a set of another division, nor one a teammate holds.
THEOREM RosterMovesDealFairly == RosterSpec => MovesDealFairly
  <1>1. ASSUME RosterTypeOK, [RosterNext]_rosterVars,
               NEW p \in competing \intersect competing',
               member'[p].set # member[p].set,
               \/ member'[p].team # member[p].team
               \/ member'[p].division # member[p].division
        PROVE  /\ member'[p].set \in SetsOf(member'[p].division)
               /\ member'[p].set \notin Taken(p, member'[p].team)
    <2>1. \E t \in Teams \union {None}, d \in Divisions \union {None, Unsaid} :
            AdminMoveParticipant(p, t, d)
      <3>1. member' # [member EXCEPT ![p].set = member'[p].set]
        BY <1>1 DEF RosterTypeOK, Members
      <3> QED
        BY <1>1, <3>1, SetChanges
    <2> QED
      BY <1>1, <2>1, MoveChanges
  <1>2. RosterTypeOK /\ [RosterNext]_rosterVars =>
          \A p \in competing \intersect competing' :
            (/\ member'[p].set # member[p].set
             /\ \/ member'[p].team # member[p].team
                \/ member'[p].division # member[p].division)
              => /\ member'[p].set \in SetsOf(member'[p].division)
                 /\ member'[p].set \notin Taken(p, member'[p].team)
    BY <1>1
  <1> QED
    BY <1>2, RosterTypeCorrect, PTL DEF RosterSpec, MovesDealFairly

\* Both, for any roster.
THEOREM RosterSetsChangeFairly == RosterSpec => SetsChangeFairly
  BY RosterSetsStand, RosterMovesDealFairly DEF SetsChangeFairly

\* A deal that finds a set for everybody on a team leaves the roster fit to start,
\* for any roster and whatever divisions a team mixes.
THEOREM RosterDealMakesReady == RosterSpec => DealMakesReady
<1>1. ASSUME RosterTypeOK, questions = sets, RunSetAssignment,
             \A p \in competing : member[p].team # None => p \in Dealable
      PROVE  ReadyToStart'
  <2>1. PICK deal \in [Dealable -> sets] :
          /\ Fair(deal)
          /\ member' = [p \in Participants |->
               IF p \in Dealable THEN [member[p] EXCEPT !.set = deal[p]] ELSE member[p]]
    BY <1>1 DEF RunSetAssignment
  <2>2. UNCHANGED <<sets, questions, competing>> /\ competing \subseteq Participants
    BY <1>1 DEF RunSetAssignment, peopleVars, RosterTypeOK
  <2>3. ASSUME NEW p \in competing
        PROVE  /\ member'[p].team = member[p].team
               /\ member[p].team # None => p \in Dealable /\ member'[p].set = deal[p]
    <3>1. member[p] \in Members /\ p \in Participants
      BY <1>1, <2>2, <2>3 DEF RosterTypeOK
    <3> QED BY <1>1, <2>1, <3>1 DEF Members
  <2>4. ASSUME NEW p \in competing, member'[p].team # None
        PROVE  /\ member'[p].set \in sets
               /\ \A q \in competing \ {p} :
                    member'[q].team = member'[p].team => member'[q].set # member'[p].set
    <3>1. p \in Dealable /\ deal[p] \in sets /\ member'[p].set = deal[p]
      BY <2>1, <2>3, <2>4
    <3>2. ASSUME NEW q \in competing \ {p}, member'[q].team = member'[p].team
          PROVE  member'[q].set # member'[p].set
      <4>1. q \in Dealable /\ member'[q].set = deal[q] /\ member[q].team = member[p].team
        BY <2>3, <2>4, <3>2
      <4> QED BY <2>1, <2>3, <2>4, <3>1, <4>1 DEF Fair
    <3> QED BY <3>1, <3>2
  <2> QED BY <1>1, <2>2, <2>4 DEF ReadyToStart, Taken, Teammates
<1>2. RosterTypeOK =>
        [(/\ questions = sets
          /\ \A p \in competing : member[p].team # None => p \in Dealable
          /\ RunSetAssignment) => ReadyToStart']_rosterVars
  BY <1>1
<1> QED BY <1>2, RosterTypeCorrect, PTL DEF DealMakesReady

-------------------------------------------------------------------------------
\* The planner.

\* One division is one deal, and everybody's is nobody's own.
LEMMA ScopesApart ==
  ASSUME NEW d \in Scopes, NEW e \in Scopes, d # e
  PROVE  ~Overlap(d, e)
  BY PlannerAssumption DEF Scopes, Overlap

\* A set's row is a question of the pool; the team's is one that no set took.
LEMMA ColumnRow ==
  ASSUME NEW seed, NEW recipe, NEW pool, NEW r \in Columns(seed, recipe, pool)
  PROVE  \E d \in Scopes, q \in DOMAIN pool :
           r = DealtRow(q, d, Position(Shuffle[seed][d], Candidates(pool, pool[q]), q)
                                \div recipe.counts[pool[q]])
  BY DEF Columns

LEMMA TeamRow ==
  ASSUME NEW seed, NEW recipe, NEW pool, NEW r \in TeamDraw(seed, recipe, pool)
  PROVE  \E q \in DOMAIN pool \ {c.question : c \in Columns(seed, recipe, pool)} :
           r = DealtRow(q, Everyone, Team)
  BY DEF TeamDraw

\* Two rows of one deal that hold the same question are of different divisions:
\* a division's deck is dealt from the top, so a question has one place in it, and
\* the team draws what no set took.
LEMMA DealIsApart ==
  ASSUME NEW seed, NEW recipe, NEW pool,
         NEW r \in Deal(seed, recipe, pool), NEW s \in Deal(seed, recipe, pool)
  PROVE  ~Conflict(r, s)
  <1> SUFFICES ASSUME r # s, r.question = s.question
               PROVE  ~Overlap(r.division, s.division)
    BY DEF Conflict
  <1>1. CASE r \in Columns(seed, recipe, pool) /\ s \in Columns(seed, recipe, pool)
    <2> DEFINE Place(d, q) == Position(Shuffle[seed][d], Candidates(pool, pool[q]), q)
                                \div recipe.counts[pool[q]]
    <2> HIDE DEF Place
    <2>1. PICK d \in Scopes, q \in DOMAIN pool : r = DealtRow(q, d, Place(d, q))
      BY <1>1, ColumnRow DEF Place
    <2>2. PICK e \in Scopes, p \in DOMAIN pool : s = DealtRow(p, e, Place(e, p))
      BY <1>1, ColumnRow DEF Place
    <2>3. r.question = q /\ r.division = d /\ s.question = p /\ s.division = e
      BY <2>1, <2>2 DEF DealtRow
    <2> QED
      BY <2>1, <2>2, <2>3, ScopesApart
  <1>2. CASE r \in TeamDraw(seed, recipe, pool) /\ s \in TeamDraw(seed, recipe, pool)
    <2>1. PICK q : r = DealtRow(q, Everyone, Team)
      BY <1>2, TeamRow
    <2>2. PICK p : s = DealtRow(p, Everyone, Team)
      BY <1>2, TeamRow
    <2> QED
      BY <2>1, <2>2 DEF DealtRow
  <1>3. ASSUME NEW c \in Columns(seed, recipe, pool), NEW t \in TeamDraw(seed, recipe, pool)
        PROVE  c.question # t.question
    <2>1. PICK q \in DOMAIN pool \ {k.question : k \in Columns(seed, recipe, pool)} :
            t = DealtRow(q, Everyone, Team)
      BY TeamRow
    <2>2. t.question = q
      BY <2>1 DEF DealtRow
    <2> QED
      BY <2>1, <2>2
  <1> QED
    BY <1>1, <1>2, <1>3 DEF Deal

\* A deal draws on its pool, and its rows are the plan's.
LEMMA DealFromPool ==
  ASSUME NEW seed, NEW recipe, NEW pool, NEW r \in Deal(seed, recipe, pool)
  PROVE  r.question \in DOMAIN pool /\ r.byPlan
  <1>1. CASE r \in Columns(seed, recipe, pool)
    <2>1. PICK d \in Scopes, q \in DOMAIN pool : \E n : r = DealtRow(q, d, n)
      BY <1>1, ColumnRow
    <2> QED
      BY <2>1 DEF DealtRow
  <1>2. CASE r \in TeamDraw(seed, recipe, pool)
    <2>1. PICK q \in DOMAIN pool : r = DealtRow(q, Everyone, Team)
      BY <1>2, TeamRow
    <2> QED
      BY <2>1 DEF DealtRow
  <1> QED
    BY <1>1, <1>2 DEF Deal

LEMMA PoolIsFree ==
  ASSUME NEW q \in DOMAIN Pool
  PROVE  q \notin HandPicked
  BY DEF Pool

LEMMA BuildIsApart ==
  ASSUME NobodySeesAQuestionTwice, NEW o \in Planners, ApplyWrites(o)
  PROVE  NobodySeesAQuestionTwice'
  <1> DEFINE grid == screen[o].grid
             deal == Deal(grid.seed, grid.recipe, Pool)
  <1>1. lineUp' = Survive \union deal
    BY DEF ApplyWrites
  <1>2. \A r \in Survive, s \in deal : r.question # s.question
    BY DealFromPool, PoolIsFree DEF Survive, HandPicked
  <1>3. Survive \subseteq lineUp
    BY DEF Survive
  <1>4. \A r, s \in Survive \union deal : ~Conflict(r, s)
    BY <1>2, <1>3, DealIsApart DEF NobodySeesAQuestionTwice, Conflict
  <1> QED
    BY <1>1, <1>4 DEF NobodySeesAQuestionTwice

LEMMA StepIsApart ==
  ASSUME NobodySeesAQuestionTwice, [PlannerNext]_plannerVars
  PROVE  NobodySeesAQuestionTwice'
  <1>1. CASE lineUp' \subseteq lineUp
    BY <1>1 DEF NobodySeesAQuestionTwice, Conflict, Overlap
  <1>2. CASE AuthorStep
    BY <1>1, <1>2 DEF AuthorStep, CreateQuestion, UpdateQuestion, DeleteQuestion
  <1>3. CASE SaveStep
    BY <1>3 DEF SaveStep, SaveLineUp, NobodySeesAQuestionTwice
  <1>4. CASE PlannerStep
    <2>1. CASE \E o \in Planners : ApplyWrites(o)
      BY <2>1, BuildIsApart
    <2>2. CASE ~ \E o \in Planners : ApplyWrites(o)
      BY <1>1, <1>4, <2>2
         DEF PlannerStep, OpenPlanner, DealAgain, Preview, PressBuild, ChangeRecipe,
             ApplyChecks, ApplyRefused, setupVars
    <2> QED
      BY <2>1, <2>2
  <1>5. CASE StartContest \/ \E size \in 0 .. MaxTeamSize : RosterChanges(size)
    BY <1>1, <1>5 DEF StartContest, RosterChanges
  <1>6. CASE UNCHANGED plannerVars
    BY <1>1, <1>6 DEF plannerVars, setupVars
  <1> QED
    BY <1>2, <1>3, <1>4, <1>5, <1>6 DEF PlannerNext

\* For any bank, recipes, seeds, divisions and organizers, no order of builds,
\* saves and edits shows a player one question in two slots.
THEOREM PlannerShowsQuestionsOnce == PlannerSpec => []NobodySeesAQuestionTwice
  <1>1. PlannerInit => NobodySeesAQuestionTwice
    BY DEF PlannerInit, NobodySeesAQuestionTwice
  <1> QED
    BY <1>1, StepIsApart, PTL DEF PlannerSpec

-------------------------------------------------------------------------------
\* What a build writes is the preview its planner holds.

Fields == {"at", "recipe", "seed", "grid", "read", "shows"}

\* A grid is the deal it says it is, from the form's seed; a form that was sent has
\* one of its own recipe, and what its request then read is the pool of that grid.
GridsAreDeals ==
  /\ DOMAIN screen = Planners
  /\ \A o \in Planners :
       LET s == screen[o] IN
       /\ DOMAIN s = Fields
       /\ s.grid # Nil => s.grid.rows = Deal(s.grid.seed, s.grid.recipe, s.grid.pool)
       /\ s.grid # Nil => s.grid.seed = s.seed
       /\ s.at \in {"asked", "checked"} => s.grid # Nil /\ s.grid.recipe = s.recipe
       /\ s.at = "checked" => s.read = s.grid.pool

LEMMA GridsInit == PlannerInit => GridsAreDeals
  BY DEF PlannerInit, GridsAreDeals, Fields

LEMMA GridsStep ==
  ASSUME GridsAreDeals, [PlannerNext]_plannerVars
  PROVE  GridsAreDeals'
  <1> USE DEF GridsAreDeals, Fields
  <1>1. CASE UNCHANGED screen
    BY <1>1
  <1>2. ASSUME NEW o \in Planners, OpenPlanner(o) PROVE GridsAreDeals'
    BY <1>2 DEF OpenPlanner
  <1>3. ASSUME NEW o \in Planners, NEW recipe \in Recipes, ChangeRecipe(o, recipe)
        PROVE  GridsAreDeals'
    BY <1>3 DEF ChangeRecipe
  <1>4. ASSUME NEW o \in Planners, DealAgain(o) PROVE GridsAreDeals'
    BY <1>4 DEF DealAgain, Refreshed
  <1>5. ASSUME NEW o \in Planners, Preview(o) PROVE GridsAreDeals'
    <2>1. CASE Refreshed(o, Nil, Nil, screen[o].shows)
      BY <2>1 DEF Refreshed
    <2>2. ASSUME NEW seed, Refreshed(o, seed, [recipe |-> screen[o].recipe, seed |-> seed,
                             pool |-> Pool, rows |-> Deal(seed, screen[o].recipe, Pool)], screen[o].shows)
          PROVE  GridsAreDeals'
      <3> DEFINE grid == [recipe |-> screen[o].recipe, seed |-> seed, pool |-> Pool,
                          rows |-> Deal(seed, screen[o].recipe, Pool)]
      <3>1. grid.rows = Deal(grid.seed, grid.recipe, grid.pool) /\ grid.seed = seed
        OBVIOUS
      <3> HIDE DEF grid
      <3>2. Refreshed(o, seed, grid, screen[o].shows)
        BY <2>2 DEF grid
      <3> QED
        BY <3>1, <3>2 DEF Refreshed
    <2> QED
      BY <1>5, <2>1, <2>2 DEF Preview
  <1>6. ASSUME NEW o \in Planners, PressBuild(o) PROVE GridsAreDeals'
    BY <1>6 DEF PressBuild, GridMatches
  <1>7. ASSUME NEW o \in Planners, ApplyChecks(o) PROVE GridsAreDeals'
    BY <1>7 DEF ApplyChecks
  <1>8. ASSUME NEW o \in Planners, ApplyWrites(o) PROVE GridsAreDeals'
    BY <1>8 DEF ApplyWrites, Refreshed
  <1>9. ASSUME NEW o \in Planners, ApplyRefused(o) PROVE GridsAreDeals'
    BY <1>9 DEF ApplyRefused, Refreshed
  <1>10. CASE AuthorStep \/ SaveStep \/ StartContest
              \/ (\E size \in 0 .. MaxTeamSize : RosterChanges(size)) \/ UNCHANGED plannerVars
    BY <1>1, <1>10
       DEF AuthorStep, CreateQuestion, UpdateQuestion, DeleteQuestion, SaveStep, SaveLineUp,
           StartContest, RosterChanges, plannerVars, setupVars
  <1> QED
    BY <1>2, <1>3, <1>4, <1>5, <1>6, <1>7, <1>8, <1>9, <1>10 DEF PlannerNext, PlannerStep

LEMMA BuildWritesGrid ==
  ASSUME GridsAreDeals, NEW o \in Planners, ApplyWrites(o)
  PROVE  /\ {r \in lineUp' : r.byPlan} = screen[o].grid.rows
         /\ {r \in lineUp' : r.byPlan} = Deal(screen[o].seed, screen[o].recipe, Pool)
  <1> DEFINE grid == screen[o].grid
             deal == Deal(grid.seed, grid.recipe, grid.pool)
  <1>1. lineUp' = Survive \union deal /\ grid.rows = deal
    BY DEF ApplyWrites, GridsAreDeals
  <1>2. grid.seed = screen[o].seed /\ grid.recipe = screen[o].recipe /\ grid.pool = Pool
    BY DEF ApplyWrites, GridsAreDeals
  <1>3. \A r \in deal : r.byPlan
    BY DealFromPool
  <1>4. \A r \in Survive : ~r.byPlan
    BY DEF Survive
  <1>5. {r \in lineUp' : r.byPlan} = deal
    BY <1>1, <1>3, <1>4
  <1> QED
    BY <1>1, <1>2, <1>5

\* For any number of organizers: a build writes the proposal that was on its
\* organizer's screen, if it was the proposal that the screen showed, and in any
\* case the deal of the form's recipe and seed from the questions usable then.
THEOREM PlannerBuildsAsPreviewed == PlannerSpec => BuiltAsPreviewed
  <1>1. PlannerSpec => []GridsAreDeals
    BY GridsInit, GridsStep, PTL DEF PlannerSpec
  <1>2. GridsAreDeals /\ [PlannerNext]_plannerVars =>
          \A o \in Planners :
            ApplyWrites(o) =>
              LET form == screen[o]
                  written == {r \in lineUp' : r.byPlan} IN
              /\ form.shows = "proposal" => written = form.grid.rows
              /\ written = Deal(form.seed, form.recipe, Pool)
    BY BuildWritesGrid
  <1> QED
    BY <1>1, <1>2, PTL DEF PlannerSpec, BuiltAsPreviewed
-------------------------------------------------------------------------------
\* What a build writes is to its recipe.

HIDE NoneAssumption

\* A shuffle puts the questions of a deck one behind the other.
LEMMA PositionsFill ==
  ASSUME NEW deck, IsFiniteSet(deck), NEW keys, \A q \in deck : keys[q] \in Nat,
         \A p, q \in deck : keys[p] = keys[q] => p = q
  PROVE  /\ Cardinality(deck) \in Nat
         /\ [q \in deck |-> Position(keys, deck, q)]
              \in Bijection(deck, 0 .. Cardinality(deck) - 1)
  <1> DEFINE n == Cardinality(deck)
             Before(q) == {o \in deck : keys[o] < keys[q]}
             f == [q \in deck |-> Position(keys, deck, q)]
  <1>1. n \in Nat
    BY FS_CardinalityType
  <1>2. ASSUME NEW q \in deck
        PROVE  IsFiniteSet(Before(q)) /\ Cardinality(Before(q)) \in 0 .. n - 1
    <2>1. Before(q) \in SUBSET deck /\ Before(q) # deck
      OBVIOUS
    <2>2. IsFiniteSet(Before(q)) /\ Cardinality(Before(q)) <= n /\ Cardinality(Before(q)) # n
      BY <2>1, FS_Subset
    <2>3. Cardinality(Before(q)) \in Nat
      BY <2>2, FS_CardinalityType
    <2> QED
      BY <1>1, <2>2, <2>3
  <1>3. ASSUME NEW p \in deck, NEW q \in deck, keys[p] < keys[q]
        PROVE  Cardinality(Before(p)) # Cardinality(Before(q))
    <2>1. Before(p) \in SUBSET Before(q) /\ p \in Before(q) /\ p \notin Before(p)
      BY <1>3
    <2> QED
      BY <1>2, <2>1, FS_Subset
  <1>4. \A q \in deck : f[q] = Cardinality(Before(q))
    BY DEF Position
  <1> HIDE DEF f, Before
  <1>5. f \in [deck -> 0 .. n - 1]
    BY <1>2, <1>4 DEF f
  <1>6. IsInjective(f)
    BY <1>3, <1>4, <1>5 DEF IsInjective
  <1>7. f \in Injection(deck, 0 .. n - 1)
    BY <1>5, <1>6 DEF Injection
  <1>8. IsFiniteSet(0 .. n - 1) /\ Cardinality(0 .. n - 1) = n
    BY <1>1, FS_Interval
  <1>9. f \in Surjection(deck, 0 .. n - 1)
    BY <1>7, <1>8, FS_Injection
  <1> QED
    BY <1>1, <1>7, <1>9 DEF Bijection, f

\* As many questions lie between two positions as there are positions.
LEMMA SlicesCount ==
  ASSUME NEW deck, IsFiniteSet(deck), NEW keys, \A q \in deck : keys[q] \in Nat,
         \A p, q \in deck : keys[p] = keys[q] => p = q,
         NEW low \in Nat, NEW high \in Nat, low <= high, high <= Cardinality(deck)
  PROVE  LET slice == {q \in deck : low <= Position(keys, deck, q) /\ Position(keys, deck, q) < high}
         IN IsFiniteSet(slice) /\ Cardinality(slice) = high - low
  <1> DEFINE n == Cardinality(deck)
             f == [q \in deck |-> Position(keys, deck, q)]
             slice == {q \in deck : low <= Position(keys, deck, q) /\ Position(keys, deck, q) < high}
             g == [q \in slice |-> f[q]]
  <1>1. n \in Nat /\ f \in Bijection(deck, 0 .. n - 1)
    BY PositionsFill
  <1>2. slice = {q \in deck : low <= f[q] /\ f[q] < high}
    OBVIOUS
  <1> HIDE DEF f, slice
  <1>3. /\ f \in [deck -> 0 .. n - 1] /\ \A i \in 0 .. n - 1 : \E q \in deck : f[q] = i
        /\ \A p, q \in deck : f[p] = f[q] => p = q
    BY <1>1 DEF Bijection, Injection, Surjection, IsInjective
  <1>4. g \in [slice -> low .. high - 1]
    BY <1>2, <1>3
  <1>5. \A p, q \in slice : g[p] = g[q] => p = q
    BY <1>2, <1>3
  <1>6. \A i \in low .. high - 1 : \E q \in slice : g[q] = i
    <2> SUFFICES ASSUME NEW i \in low .. high - 1 PROVE \E q \in slice : g[q] = i
      OBVIOUS
    <2>1. i \in 0 .. n - 1
      BY <1>1
    <2>2. PICK q \in deck : f[q] = i
      BY <1>3, <2>1
    <2> QED
      BY <1>2, <2>2
  <1> HIDE DEF g
  <1>7. g \in Bijection(slice, low .. high - 1)
    BY <1>4, <1>5, <1>6 DEF Bijection, Injection, Surjection, IsInjective
  <1>8. IsFiniteSet(slice)
    BY <1>2, FS_Subset
  <1>9. Cardinality(slice) = Cardinality(low .. high - 1)
    BY <1>7, <1>8, FS_Bijection DEF ExistsBijection
  <1>10. Cardinality(low .. high - 1) = high - low
    BY FS_Interval
  <1> QED
    BY <1>8, <1>9, <1>10 DEF slice

\* A set takes the positions of its column.
LEMMA DivisionIsASlice ==
  ASSUME NEW i \in Nat, NEW k \in Nat \ {0}, NEW c \in Nat
  PROVE  i \div k = c <=> c * k <= i /\ i < c * k + k
  BY SMT

\* The last set's slice still lies in a deck that is large enough.
LEMMA SlicesFit ==
  ASSUME NEW k \in Nat, NEW c \in Nat, NEW s \in Nat, c <= s - 1
  PROVE  c * k \in Nat /\ c * k + k \in Nat /\ c * k + k <= k * s
  BY SMT

\* The sort keys of a seed are different.
LEMMA KeysOrder ==
  ASSUME NEW seed \in Seeds, NEW d \in Decks
  PROVE  /\ \A q \in Questions : Shuffle[seed][d][q] \in Nat
         /\ \A p, q \in Questions : Shuffle[seed][d][p] = Shuffle[seed][d][q] => p = q
  BY PlannerAssumption

\* The rows of one difficulty in one set of one division are a slice of its deck,
\* nothing of the team's is among them.
LEMMA ColumnsAreSlices ==
  ASSUME NEW seed \in Seeds, NEW recipe \in Recipes, NEW pool, DOMAIN pool \subseteq Questions,
         NEW d \in Scopes, NEW c \in 0 .. recipe.sets - 1, NEW l \in Levels
  PROVE  LET k == recipe.counts[l]
             deck == Candidates(pool, l)
             slice == {q \in deck : c * k <= Position(Shuffle[seed][d], deck, q)
                                      /\ Position(Shuffle[seed][d], deck, q) < c * k + k}
         IN {r \in Deal(seed, recipe, pool) : /\ r.division = d /\ r.place = c
                                              /\ pool[r.question] = l}
              = {DealtRow(q, d, c) : q \in slice}
  <1> DEFINE k == recipe.counts[l]
             deck == Candidates(pool, l)
             At(q) == Position(Shuffle[seed][d], deck, q)
             slice == {q \in deck : c * k <= At(q) /\ At(q) < c * k + k}
             column == {r \in Deal(seed, recipe, pool) :
                          r.division = d /\ r.place = c /\ pool[r.question] = l}
  <1>1. /\ k \in Nat /\ recipe.sets \in Nat /\ c \in Nat /\ c <= recipe.sets - 1 /\ c # Team
        /\ c * k \in Nat /\ c * k + k \in Nat /\ c * k + k <= k * recipe.sets
    <2>1. /\ k \in Nat /\ recipe.sets \in Nat /\ Team \notin Nat
      BY PlannerAssumption
    <2>2. c \in Nat /\ c <= recipe.sets - 1
      BY <2>1
    <2> HIDE DEF k
    <2> QED
      BY <2>1, <2>2, SlicesFit
  <1>2. deck \subseteq Questions /\ deck \subseteq DOMAIN pool /\ \A q \in deck : pool[q] = l
    BY DEF Candidates
  <1>3. \A q \in deck : At(q) \in Nat
    <2>1. IsFiniteSet(deck)
      BY <1>2, PlannerAssumption, FS_Subset
    <2>2. d \in Decks
      BY DEF Decks
    <2> DEFINE f == [q \in deck |-> At(q)]
    <2>3. f \in Bijection(deck, 0 .. Cardinality(deck) - 1)
      BY <1>2, <2>1, <2>2, KeysOrder, PositionsFill
    <2>4. \A q \in deck : f[q] \in 0 .. Cardinality(deck) - 1
      BY <2>3 DEF Bijection, Injection
    <2>5. \A q \in deck : f[q] = At(q)
      OBVIOUS
    <2> HIDE DEF f, At
    <2> QED
      BY <2>1, <2>4, <2>5, FS_CardinalityType
  <1>4. ASSUME NEW q \in deck
        PROVE  q \in slice <=> At(q) < k * recipe.sets /\ k # 0 /\ At(q) \div k = c
    <2>1. At(q) \in Nat
      BY <1>3
    <2> HIDE DEF At, k
    <2>2. CASE k = 0
      BY <1>1, <2>1, <2>2
    <2>3. CASE k # 0
      <3>1. At(q) \div k = c <=> c * k <= At(q) /\ At(q) < c * k + k
        BY <1>1, <2>1, <2>3, DivisionIsASlice
      <3> DEFINE low == c * k
                 high == c * k + k
                 top == k * recipe.sets
                 set == At(q) \div k
      <3>2. low \in Nat /\ high \in Nat /\ top \in Int /\ high <= top
        BY <1>1
      <3>3. set = c <=> low <= At(q) /\ At(q) < high
        BY <3>1
      <3> HIDE DEF low, high, top, set
      <3>4. low <= At(q) /\ At(q) < high <=> At(q) < top /\ set = c
        BY <2>1, <3>2, <3>3
      <3> QED
        BY <2>3, <3>4 DEF low, high, top, set
    <2> QED
      BY <2>2, <2>3
  <1>5. ASSUME NEW r \in column PROVE \E q \in slice : r = DealtRow(q, d, c)
    <2>1. r \in Columns(seed, recipe, pool)
      <3>1. ASSUME r \in TeamDraw(seed, recipe, pool) PROVE FALSE
        <4>1. PICK q : r = DealtRow(q, Everyone, Team)
          BY <3>1 DEF TeamDraw
        <4>2. r.place = Team /\ r.place = c
          BY <4>1 DEF DealtRow
        <4> QED
          BY <1>1, <4>2
      <3> QED
        BY <3>1 DEF Deal
    <2> DEFINE Ranked(e, q) == Position(Shuffle[seed][e], Candidates(pool, pool[q]), q)
    <2>2. PICK e \in Scopes, q \in DOMAIN pool :
            /\ Ranked(e, q) < recipe.counts[pool[q]] * recipe.sets
            /\ r = DealtRow(q, e, Ranked(e, q) \div recipe.counts[pool[q]])
      BY <2>1 DEF Columns
    <2>3. e = d /\ pool[q] = l /\ Ranked(e, q) \div recipe.counts[pool[q]] = c
      BY <2>2 DEF DealtRow
    <2>4. q \in deck /\ At(q) < k * recipe.sets /\ At(q) \div k = c
      BY <2>2, <2>3 DEF Candidates
    <2>5. k # 0
      <3>1. At(q) \in Nat /\ recipe.sets \in Nat /\ At(q) < k * recipe.sets
        BY <1>1, <1>3, <2>4
      <3> HIDE DEF At, k
      <3> QED
        BY <3>1
    <2> QED
      BY <1>4, <2>2, <2>3, <2>4, <2>5
  <1>6. ASSUME NEW q \in slice PROVE DealtRow(q, d, c) \in column
    <2>1. q \in deck /\ At(q) < k * recipe.sets /\ At(q) \div k = c /\ pool[q] = l
      BY <1>2, <1>4
    <2>2. <<d, q>> \in Scopes \X DOMAIN pool
      BY <1>2, <2>1
    <2>3. DealtRow(q, d, c) \in Columns(seed, recipe, pool)
      BY <2>1, <2>2 DEF Columns
    <2> QED
      BY <2>1, <2>3 DEF Deal, DealtRow
  <1> QED
    BY <1>5, <1>6

\* What passes checkFeasibility fills every set, whatever the seed.
LEMMA ColumnsAreFull ==
  ASSUME NEW seed \in Seeds, NEW recipe \in Recipes, NEW pool, DOMAIN pool \subseteq Questions,
         Feasible(recipe, pool),
         NEW d \in Scopes, NEW c \in 0 .. recipe.sets - 1, NEW l \in Levels
  PROVE  Cardinality({r \in Deal(seed, recipe, pool) :
                        r.division = d /\ r.place = c /\ pool[r.question] = l})
           = recipe.counts[l]
  <1> DEFINE k == recipe.counts[l]
             deck == Candidates(pool, l)
             keys == Shuffle[seed][d]
             slice == {q \in deck : c * k <= Position(keys, deck, q)
                                      /\ Position(keys, deck, q) < c * k + k}
             rows == {DealtRow(q, d, c) : q \in slice}
             f == [q \in slice |-> DealtRow(q, d, c)]
  <1>1. /\ k \in Nat /\ c * k \in Nat /\ c * k + k \in Nat /\ c * k + k <= k * recipe.sets
    <2>1. k \in Nat /\ recipe.sets \in Nat
      BY PlannerAssumption
    <2>2. c \in Nat /\ c <= recipe.sets - 1
      BY <2>1
    <2> HIDE DEF k
    <2> QED
      BY <2>1, <2>2, SlicesFit
  <1>2. deck \subseteq Questions /\ IsFiniteSet(deck)
    BY PlannerAssumption, FS_Subset DEF Candidates
  <1>3. /\ Cardinality(deck) \in Nat /\ c * k + k <= Cardinality(deck)
    <2>1. Cardinality(deck) \in Nat /\ Cardinality(deck) >= k * recipe.sets
      BY <1>2, FS_CardinalityType DEF Feasible
    <2>2. k * recipe.sets \in Nat
      BY <1>1, PlannerAssumption
    <2> HIDE DEF k, deck
    <2> QED
      BY <1>1, <2>1, <2>2
  <1>4. IsFiniteSet(slice) /\ Cardinality(slice) = k
    <2>1. /\ \A q \in deck : keys[q] \in Nat
          /\ \A p, q \in deck : keys[p] = keys[q] => p = q
      BY <1>2, KeysOrder DEF Decks
    <2> DEFINE low == c * k
               high == c * k + k
    <2>2. low \in Nat /\ high \in Nat /\ low <= high /\ high - low = k /\ high <= Cardinality(deck)
      BY <1>1, <1>3
    <2>3. slice = {q \in deck : low <= Position(keys, deck, q) /\ Position(keys, deck, q) < high}
      OBVIOUS
    <2> HIDE DEF low, high, keys, deck, slice, k
    <2> QED
      BY <1>2, <2>1, <2>2, <2>3, SlicesCount
  <1> HIDE DEF slice
  <1>5. f \in Bijection(slice, rows)
    BY DEF Bijection, Injection, Surjection, IsInjective, DealtRow
  <1>6. Cardinality(rows) = k
    BY <1>4, <1>5, FS_Bijection DEF ExistsBijection
  <1>7. {r \in Deal(seed, recipe, pool) : r.division = d /\ r.place = c /\ pool[r.question] = l}
          = rows
    BY ColumnsAreSlices DEF slice
  <1> HIDE DEF rows, k
  <1> QED
    BY <1>6, <1>7 DEF k

\* What one difficulty gives to the sets of a division: the top of its deck.
LEMMA TopOfDeck ==
  ASSUME NEW seed \in Seeds, NEW recipe \in Recipes, NEW pool, DOMAIN pool \subseteq Questions,
         Feasible(recipe, pool), NEW d \in Scopes, NEW l \in Levels
  PROVE  LET top == {q \in Candidates(pool, l) :
                       Position(Shuffle[seed][d], Candidates(pool, l), q) < recipe.counts[l] * recipe.sets}
         IN IsFiniteSet(top) /\ Cardinality(top) = recipe.counts[l] * recipe.sets
  <1> DEFINE deck == Candidates(pool, l)
             keys == Shuffle[seed][d]
             n == recipe.counts[l] * recipe.sets
  <1>1. deck \subseteq Questions /\ IsFiniteSet(deck) /\ Cardinality(deck) \in Nat
    BY PlannerAssumption, FS_Subset, FS_CardinalityType DEF Candidates
  <1>2. n \in Nat
    <2>1. recipe.counts[l] \in Nat /\ recipe.sets \in Nat
      BY PlannerAssumption
    <2> QED
      BY <2>1
  <1>3. n <= Cardinality(deck)
    <2>1. Cardinality(deck) >= n
      BY DEF Feasible
    <2> HIDE DEF n, deck
    <2> QED
      BY <1>1, <1>2, <2>1
  <1>4. /\ \A q \in deck : keys[q] \in Nat
        /\ \A p, q \in deck : keys[p] = keys[q] => p = q
    BY <1>1, KeysOrder DEF Decks
  <1>5. \A q \in deck : Position(keys, deck, q) \in Nat
    <2> DEFINE f == [q \in deck |-> Position(keys, deck, q)]
    <2>1. f \in Bijection(deck, 0 .. Cardinality(deck) - 1)
      BY <1>1, <1>4, PositionsFill
    <2>2. \A q \in deck : f[q] \in 0 .. Cardinality(deck) - 1
      BY <2>1 DEF Bijection, Injection
    <2>3. \A q \in deck : f[q] = Position(keys, deck, q)
      OBVIOUS
    <2> HIDE DEF f
    <2> QED
      BY <1>1, <2>2, <2>3
  <1> DEFINE slice == {q \in deck : 0 <= Position(keys, deck, q) /\ Position(keys, deck, q) < n}
  <1>6. slice = {q \in deck : Position(keys, deck, q) < n}
    BY <1>2, <1>5
  <1> HIDE DEF deck, keys, n
  <1>7. 0 \in Nat /\ 0 <= n /\ n - 0 = n
    BY <1>2
  <1>8. IsFiniteSet(slice) /\ Cardinality(slice) = n - 0
    BY <1>1, <1>2, <1>3, <1>4, <1>7, SlicesCount
  <1> HIDE DEF slice
  <1>9. Cardinality(slice) = n
    BY <1>7, <1>8
  <1> QED
    BY <1>6, <1>8, <1>9 DEF deck, keys, n

\* The sets of one division take no more than a set's size for each set.
LEMMA DivisionTakes ==
  ASSUME NEW seed \in Seeds, NEW recipe \in Recipes, NEW pool, DOMAIN pool \subseteq Questions,
         Feasible(recipe, pool), NEW d \in Scopes
  PROVE  LET top(l) == {q \in Candidates(pool, l) :
                          Position(Shuffle[seed][d], Candidates(pool, l), q) < recipe.counts[l] * recipe.sets}
             all == UNION {top(l) : l \in Levels}
         IN IsFiniteSet(all) /\ Cardinality(all) <= SetSize(recipe) * recipe.sets
  <1> DEFINE top(l) == {q \in Candidates(pool, l) :
                          Position(Shuffle[seed][d], Candidates(pool, l), q) < recipe.counts[l] * recipe.sets}
             parts == [l \in Levels |-> top(l)]
             f == recipe.counts
             k == recipe.sets
  <1>1. DOMAIN f = Levels /\ f \in [DOMAIN f -> Nat] /\ k \in Nat /\ IsFiniteSet(DOMAIN f)
    BY PlannerAssumption
  <1>2. \A l \in Levels : IsFiniteSet(top(l)) /\ Cardinality(top(l)) = f[l] * k
    BY TopOfDeck
  <1>3. \A l \in DOMAIN f : parts[l] = top(l) /\ f[l] * k \in Nat
    BY <1>1
  <1>4. SetSize(recipe) = Sums(f)[DOMAIN f]
    BY <1>1, SumIsSums DEF SetSize
  <1>5. UNION {top(l) : l \in Levels} = UNION {parts[l] : l \in DOMAIN f}
    BY <1>1
  <1> HIDE DEF top, f, k
  <1>6. \A l \in DOMAIN f : IsFiniteSet(parts[l]) /\ Cardinality(parts[l]) <= f[l] * k
    BY <1>1, <1>2, <1>3
  <1> HIDE DEF parts
  <1>7. /\ IsFiniteSet(UNION {parts[l] : l \in DOMAIN f})
        /\ Cardinality(UNION {parts[l] : l \in DOMAIN f}) <= Sums(f)[DOMAIN f] * k
    BY <1>1, <1>6, UnionIsBounded
  <1> QED
    BY <1>4, <1>5, <1>7 DEF top, k

LEMMA SetSizeIsCount ==
  ASSUME NEW recipe \in Recipes
  PROVE  SetSize(recipe) \in Nat
  <1> DEFINE f == recipe.counts
  <1>1. DOMAIN f = Levels /\ f \in [DOMAIN f -> Nat] /\ IsFiniteSet(DOMAIN f)
    BY PlannerAssumption
  <1>2. SetSize(recipe) = Sums(f)[DOMAIN f]
    BY <1>1, SumIsSums DEF SetSize
  <1>3. 0 \in Nat /\ \A x, y \in Nat : x + y \in Nat
    OBVIOUS
  <1> HIDE DEF f
  <1>4. \A s \in SUBSET DOMAIN f : Sums(f)[s] \in Nat
    BY <1>1, <1>3, SumsStayIn
  <1> QED
    BY <1>2, <1>4

\* What the sets of all divisions take, which may overlap.
LEMMA SetsTake ==
  ASSUME NEW seed \in Seeds, NEW recipe \in Recipes, NEW pool, DOMAIN pool \subseteq Questions,
         \A q \in DOMAIN pool : pool[q] \in Levels, Feasible(recipe, pool)
  PROVE  LET taken == {r.question : r \in Columns(seed, recipe, pool)}
         IN /\ taken \subseteq DOMAIN pool /\ IsFiniteSet(taken) /\ IsFiniteSet(Scopes)
            /\ Cardinality(taken) <= Cardinality(Scopes) * (SetSize(recipe) * recipe.sets)
  <1> DEFINE taken == {r.question : r \in Columns(seed, recipe, pool)}
             top(d, l) == {q \in Candidates(pool, l) :
                             Position(Shuffle[seed][d], Candidates(pool, l), q) < recipe.counts[l] * recipe.sets}
             share(d) == UNION {top(d, l) : l \in Levels}
             parts == [d \in Scopes |-> share(d)]
             f == [d \in Scopes |-> 1]
             k == SetSize(recipe) * recipe.sets
             all == UNION {parts[d] : d \in Scopes}
  <1>1. IsFiniteSet(Scopes)
    <2>1. IsFiniteSet({Everyone})
      BY FS_Singleton
    <2> QED
      BY <2>1, PlannerAssumption DEF Scopes
  <1>2. SetSize(recipe) \in Nat /\ recipe.sets \in Nat
    BY SetSizeIsCount, PlannerAssumption
  <1>3. k \in Nat
    BY <1>2
  <1>4. \A d \in Scopes : IsFiniteSet(share(d)) /\ Cardinality(share(d)) <= k
    BY DivisionTakes
  <1>5. DOMAIN f = Scopes /\ f \in [Scopes -> Nat] /\ \A d \in Scopes : f[d] * k = k
    <2> HIDE DEF k
    <2> QED
      BY <1>3
  <1>6. \A d \in Scopes : parts[d] = share(d)
    OBVIOUS
  <1>7. Sums(f)[Scopes] = Cardinality(Scopes)
    BY <1>1, SumsOfOnes
  <1>8. IsFiniteSet(all) /\ Cardinality(all) <= Sums(f)[Scopes] * k
    <2> HIDE DEF f, k, parts, share
    <2>1. \A d \in DOMAIN f : IsFiniteSet(parts[d]) /\ Cardinality(parts[d]) <= f[d] * k
      BY <1>4, <1>5, <1>6
    <2>2. IsFiniteSet(DOMAIN f) /\ f \in [DOMAIN f -> Nat]
      BY <1>1, <1>5
    <2>3. /\ IsFiniteSet(UNION {parts[d] : d \in DOMAIN f})
          /\ Cardinality(UNION {parts[d] : d \in DOMAIN f}) <= Sums(f)[DOMAIN f] * k
      BY <1>3, <2>1, <2>2, UnionIsBounded
    <2> QED
      BY <1>5, <2>3
  <1>9. taken \subseteq all /\ taken \subseteq DOMAIN pool
    <2> SUFFICES ASSUME NEW r \in Columns(seed, recipe, pool)
                 PROVE  r.question \in all /\ r.question \in DOMAIN pool
      OBVIOUS
    <2> DEFINE Ranked(e, q) == Position(Shuffle[seed][e], Candidates(pool, pool[q]), q)
    <2>1. PICK d \in Scopes, q \in DOMAIN pool :
            /\ Ranked(d, q) < recipe.counts[pool[q]] * recipe.sets
            /\ r = DealtRow(q, d, Ranked(d, q) \div recipe.counts[pool[q]])
      BY DEF Columns
    <2>2. r.question = q
      BY <2>1 DEF DealtRow
    <2>3. q \in top(d, pool[q]) /\ pool[q] \in Levels
      BY <2>1 DEF Candidates
    <2>4. q \in share(d)
      BY <2>3
    <2> HIDE DEF share
    <2> QED
      BY <1>6, <2>1, <2>2, <2>4
  <1> HIDE DEF all, k, taken, f
  <1>10. /\ IsFiniteSet(taken) /\ Cardinality(taken) <= Cardinality(all)
         /\ Cardinality(taken) \in Nat /\ Cardinality(all) \in Nat
    BY <1>8, <1>9, FS_Subset, FS_CardinalityType
  <1>11. Cardinality(taken) <= Cardinality(Scopes) * k
    <2>1. Cardinality(Scopes) * k \in Nat
      BY <1>1, <1>3, FS_CardinalityType
    <2> QED
      BY <1>7, <1>8, <1>10, <2>1
  <1> QED
    BY <1>1, <1>9, <1>10, <1>11 DEF taken, k

\* So what no set took is enough for the team, whatever the seed.
LEMMA TeamDrawCount ==
  ASSUME NEW seed \in Seeds, NEW recipe \in Recipes, NEW pool, DOMAIN pool \subseteq Questions,
         \A q \in DOMAIN pool : pool[q] \in Levels, Feasible(recipe, pool)
  PROVE  Cardinality(TeamDraw(seed, recipe, pool)) = recipe.team
  <1> DEFINE taken == {r.question : r \in Columns(seed, recipe, pool)}
             left == DOMAIN pool \ taken
             keys == Shuffle[seed][Team]
             n == recipe.team
             drawn == {q \in left : Position(keys, left, q) < n}
             slice == {q \in left : 0 <= Position(keys, left, q) /\ Position(keys, left, q) < n}
             rows == {DealtRow(q, Everyone, Team) : q \in drawn}
             f == [q \in drawn |-> DealtRow(q, Everyone, Team)]
             most == Cardinality(Scopes) * (SetSize(recipe) * recipe.sets)
  <1>1. /\ taken \subseteq DOMAIN pool /\ IsFiniteSet(taken) /\ IsFiniteSet(Scopes)
        /\ Cardinality(taken) <= most
    BY SetsTake
  <1>2. /\ n \in Nat /\ most \in Nat
        /\ most = Cardinality(Scopes) * SetSize(recipe) * recipe.sets
    <2>1. /\ n \in Nat /\ SetSize(recipe) \in Nat /\ recipe.sets \in Nat
          /\ Cardinality(Scopes) \in Nat
      BY <1>1, SetSizeIsCount, PlannerAssumption, FS_CardinalityType
    <2> QED
      BY <2>1
  <1>3. IsFiniteSet(DOMAIN pool) /\ Cardinality(DOMAIN pool) \in Nat
    BY PlannerAssumption, FS_Subset, FS_CardinalityType
  <1>4. n > 0 => Cardinality(DOMAIN pool) - most >= n
    BY <1>2 DEF Feasible
  <1>5. /\ left \subseteq Questions /\ IsFiniteSet(left) /\ Cardinality(left) \in Nat
        /\ Cardinality(left) = Cardinality(DOMAIN pool) - Cardinality(taken)
    <2> DEFINE D == DOMAIN pool
    <2>1. D \cap taken = taken /\ IsFiniteSet(D) /\ D \subseteq Questions
      BY <1>1, <1>3
    <2> HIDE DEF D, taken
    <2>2. IsFiniteSet(D \ taken) /\ Cardinality(D \ taken) = Cardinality(D) - Cardinality(taken)
      BY <1>1, <2>1, FS_Difference
    <2> QED
      BY <2>1, <2>2, FS_CardinalityType DEF D
  <1>6. n <= Cardinality(left)
    <2>1. Cardinality(taken) \in Nat
      BY <1>1, FS_CardinalityType
    <2> HIDE DEF taken, left, n, most
    <2> QED
      BY <1>1, <1>2, <1>3, <1>4, <1>5, <2>1
  <1>7. /\ \A q \in left : keys[q] \in Nat
        /\ \A p, q \in left : keys[p] = keys[q] => p = q
    BY <1>5, KeysOrder DEF Decks
  <1>8. \A q \in left : Position(keys, left, q) \in Nat
    <2> DEFINE g == [q \in left |-> Position(keys, left, q)]
    <2> HIDE DEF left, keys
    <2>1. g \in Bijection(left, 0 .. Cardinality(left) - 1)
      BY <1>5, <1>7, PositionsFill
    <2>2. \A q \in left : g[q] \in 0 .. Cardinality(left) - 1
      BY <2>1 DEF Bijection, Injection
    <2>3. \A q \in left : g[q] = Position(keys, left, q)
      OBVIOUS
    <2> HIDE DEF g
    <2> QED
      BY <1>5, <2>2, <2>3
  <1>9. slice = drawn
    <2> HIDE DEF left, keys, n
    <2> QED
      BY <1>2, <1>8
  <1>10. IsFiniteSet(slice) /\ Cardinality(slice) = n - 0
    <2> HIDE DEF left, keys, n
    <2>1. 0 \in Nat /\ 0 <= n /\ n \in Nat
      BY <1>2
    <2>2. IsFiniteSet(left)
      BY <1>5
    <2> QED
      BY <1>6, <1>7, <2>1, <2>2, SlicesCount
  <1>11. TeamDraw(seed, recipe, pool) = rows
    BY DEF TeamDraw
  <1> HIDE DEF drawn, slice
  <1>12. f \in Bijection(drawn, rows)
    BY DEF Bijection, Injection, Surjection, IsInjective, DealtRow
  <1>13. Cardinality(rows) = Cardinality(drawn)
    BY <1>9, <1>10, <1>12, FS_Bijection DEF ExistsBijection
  <1> HIDE DEF rows
  <1> QED
    BY <1>2, <1>9, <1>10, <1>11, <1>13

\* A form asks for what it may ask for, a grid was dealt from a seed, and a request
\* that has read the pool found it large enough.
RecipesOK ==
  /\ bank \in [Questions -> Entries \union {Nil}]
  /\ plan # Nil => plan.recipe \in Recipes /\ plan.seed \in Seeds
  /\ \A o \in Planners :
       LET s == screen[o] IN
       /\ s.at \in {"away", "open", "asked", "checked"}
       /\ s.at # "away" => s.recipe \in Recipes
       /\ s.seed \in Seeds \union {Nil}
       /\ s.grid # Nil => s.grid.recipe \in Recipes /\ s.grid.seed \in Seeds
       /\ s.at = "checked" => Feasible(s.grid.recipe, s.read)

LEMMA RecipesInit == PlannerInit => RecipesOK
  BY ImportAssumption DEF PlannerInit, RecipesOK

\* One screen changes: what it now holds must be sound.
LEMMA OneScreenChanges ==
  ASSUME GridsAreDeals, RecipesOK, UNCHANGED bank, NEW o \in Planners,
         plan' # Nil => plan'.recipe \in Recipes /\ plan'.seed \in Seeds,
         \A p \in Planners : p # o => screen'[p] = screen[p],
         screen'[o].at \in {"away", "open", "asked", "checked"},
         screen'[o].at # "away" => screen'[o].recipe \in Recipes,
         screen'[o].seed \in Seeds \union {Nil},
         screen'[o].grid # Nil => screen'[o].grid.recipe \in Recipes /\ screen'[o].grid.seed \in Seeds,
         screen'[o].at = "checked" => Feasible(screen'[o].grid.recipe, screen'[o].read)
  PROVE  RecipesOK'
  <1> SUFFICES ASSUME NEW p \in Planners
               PROVE  LET s == screen'[p] IN
                      /\ s.at \in {"away", "open", "asked", "checked"}
                      /\ s.at # "away" => s.recipe \in Recipes
                      /\ s.seed \in Seeds \union {Nil}
                      /\ s.grid # Nil => s.grid.recipe \in Recipes /\ s.grid.seed \in Seeds
                      /\ s.at = "checked" => Feasible(s.grid.recipe, s.read)
    BY DEF RecipesOK
  <1> QED
    BY DEF RecipesOK

\* Only a preview deals, only from a seed; only what passed the check is written.
LEMMA RecipesStep ==
  ASSUME GridsAreDeals, RecipesOK, [PlannerNext]_plannerVars
  PROVE  RecipesOK'
  <1>1. ASSUME UNCHANGED <<plan, screen>>, bank' \in [Questions -> Entries \union {Nil}]
        PROVE  RecipesOK'
    BY <1>1 DEF RecipesOK
  <1>2. CASE AuthorStep
    <2>1. PICK q \in Questions :
            /\ UNCHANGED <<plan, screen>>
            /\ \/ \E level \in Levels \union {NoLevel} :
                    bank' = [bank EXCEPT ![q] = [ready |-> TRUE, level |-> level]]
               \/ bank' = [bank EXCEPT ![q] = Nil]
      BY <1>2 DEF AuthorStep, CreateQuestion, UpdateQuestion, DeleteQuestion
    <2>2. \A level \in Levels \union {NoLevel} : [ready |-> TRUE, level |-> level] \in Entries
      BY DEF Entries
    <2>3. bank' \in [Questions -> Entries \union {Nil}]
      BY <2>1, <2>2 DEF RecipesOK
    <2> QED
      BY <1>1, <2>1, <2>3
  <1>3. CASE SaveStep \/ StartContest \/ (\E size \in 0 .. MaxTeamSize : RosterChanges(size))
              \/ UNCHANGED plannerVars
    <2>1. UNCHANGED <<plan, screen, bank>>
      BY <1>3 DEF SaveStep, SaveLineUp, StartContest, RosterChanges, plannerVars, setupVars
    <2> QED
      BY <1>1, <2>1 DEF RecipesOK
  <1>4. ASSUME NEW o \in Planners, OpenPlanner(o) PROVE RecipesOK'
    <2>1. PICK recipe \in IF plan = Nil THEN Recipes ELSE {plan.recipe} :
            screen' = [screen EXCEPT ![o] =
              [at |-> "open", recipe |-> recipe, grid |-> Nil, read |-> Nil,
               seed |-> IF plan = Nil THEN Nil ELSE plan.seed,
               shows |-> ShownUntouched]]
      BY <1>4 DEF OpenPlanner
    <2>2. recipe \in Recipes /\ UNCHANGED <<bank, plan>>
      BY <1>4 DEF RecipesOK, OpenPlanner, setupVars
    <2>3. /\ \A p \in Planners : p # o => screen'[p] = screen[p]
          /\ screen'[o] = [at |-> "open", recipe |-> recipe, grid |-> Nil, read |-> Nil,
                           seed |-> IF plan = Nil THEN Nil ELSE plan.seed,
                           shows |-> ShownUntouched]
      BY <2>1 DEF GridsAreDeals
    <2> QED
      BY <2>2, <2>3, OneScreenChanges DEF RecipesOK
  <1>5. ASSUME NEW o \in Planners, NEW recipe \in Recipes, ChangeRecipe(o, recipe)
        PROVE  RecipesOK'
    <2>1. /\ screen' = [screen EXCEPT ![o].recipe = recipe, ![o].shows = "proposal"] /\ screen[o].at = "open"
          /\ UNCHANGED <<bank, plan>>
      BY <1>5 DEF ChangeRecipe, setupVars
    <2>2. /\ \A p \in Planners : p # o => screen'[p] = screen[p]
          /\ screen'[o].at = "open" /\ screen'[o].recipe = recipe /\ screen'[o].seed = screen[o].seed
          /\ screen'[o].grid = screen[o].grid
      BY <2>1 DEF GridsAreDeals, Fields
    <2> QED
      BY <2>1, <2>2, OneScreenChanges DEF RecipesOK
  \* A screen that is shown anew, with a split or without.
  <1>6. ASSUME NEW o \in Planners, NEW seed \in Seeds \union {Nil}, NEW grid, NEW shows,
               Refreshed(o, seed, grid, shows),
               grid # Nil => grid.recipe \in Recipes /\ grid.seed \in Seeds,
               screen[o].at # "away", UNCHANGED bank,
               plan' # Nil => plan'.recipe \in Recipes /\ plan'.seed \in Seeds
        PROVE  RecipesOK'
    <2>1. /\ \A p \in Planners : p # o => screen'[p] = screen[p]
          /\ screen'[o].at = "open" /\ screen'[o].recipe = screen[o].recipe
          /\ screen'[o].seed = seed /\ screen'[o].grid = grid
      BY <1>6 DEF Refreshed, GridsAreDeals, Fields
    <2>2. screen[o].recipe \in Recipes
      BY <1>6 DEF RecipesOK
    <2> QED
      BY <1>6, <2>1, <2>2, OneScreenChanges
  <1>7. ASSUME NEW o \in Planners, DealAgain(o) PROVE RecipesOK'
    BY <1>6, <1>7 DEF DealAgain, setupVars, RecipesOK
  <1>8. ASSUME NEW o \in Planners, Preview(o) PROVE RecipesOK'
    <2>1. screen[o].at = "open" /\ UNCHANGED <<bank, plan>> /\ screen[o].recipe \in Recipes
      BY <1>8 DEF Preview, setupVars, RecipesOK
    <2>2. CASE Refreshed(o, Nil, Nil, screen[o].shows)
      BY <1>6, <2>1, <2>2 DEF RecipesOK
    <2>3. ASSUME NEW s \in IF screen[o].seed = Nil THEN Seeds ELSE {screen[o].seed},
                 Refreshed(o, s, [recipe |-> screen[o].recipe, seed |-> s, pool |-> Pool,
                                  rows |-> Deal(s, screen[o].recipe, Pool)], screen[o].shows)
          PROVE  RecipesOK'
      <3> DEFINE grid == [recipe |-> screen[o].recipe, seed |-> s, pool |-> Pool,
                          rows |-> Deal(s, screen[o].recipe, Pool)]
      <3>1. s \in Seeds
        BY DEF RecipesOK
      <3>2. grid.recipe \in Recipes /\ grid.seed \in Seeds
        BY <2>1, <3>1
      <3>3. Refreshed(o, s, grid, screen[o].shows)
        BY <2>3
      <3> HIDE DEF grid
      <3> QED
        BY <1>6, <2>1, <3>1, <3>2, <3>3 DEF RecipesOK
    <2> QED
      BY <1>8, <2>2, <2>3 DEF Preview
  <1>9. ASSUME NEW o \in Planners, PressBuild(o) PROVE RecipesOK'
    <2>1. /\ screen' = [screen EXCEPT ![o].at = "asked"] /\ screen[o].at = "open"
          /\ UNCHANGED <<bank, plan>>
      BY <1>9 DEF PressBuild, setupVars
    <2>2. /\ \A p \in Planners : p # o => screen'[p] = screen[p]
          /\ screen'[o].at = "asked" /\ screen'[o].recipe = screen[o].recipe
          /\ screen'[o].seed = screen[o].seed /\ screen'[o].grid = screen[o].grid
      BY <2>1 DEF GridsAreDeals, Fields
    <2> QED
      BY <2>1, <2>2, OneScreenChanges DEF RecipesOK
  <1>10. ASSUME NEW o \in Planners, ApplyChecks(o) PROVE RecipesOK'
    <2>1. /\ screen' = [screen EXCEPT ![o].at = "checked", ![o].read = Pool] /\ screen[o].at = "asked"
          /\ Feasible(screen[o].grid.recipe, Pool) /\ UNCHANGED <<bank, plan>>
      BY <1>10 DEF ApplyChecks, setupVars
    <2>2. /\ \A p \in Planners : p # o => screen'[p] = screen[p]
          /\ screen'[o].at = "checked" /\ screen'[o].recipe = screen[o].recipe
          /\ screen'[o].seed = screen[o].seed /\ screen'[o].grid = screen[o].grid
          /\ screen'[o].read = Pool
      BY <2>1 DEF GridsAreDeals, Fields
    <2> QED
      BY <2>1, <2>2, OneScreenChanges DEF RecipesOK
  <1>11. ASSUME NEW o \in Planners, ApplyWrites(o) PROVE RecipesOK'
    <2>1. /\ screen[o].at = "checked" /\ Refreshed(o, screen[o].grid.seed, Nil, "stored") /\ UNCHANGED bank
          /\ plan' = [recipe |-> screen[o].grid.recipe, seed |-> screen[o].grid.seed]
      BY <1>11 DEF ApplyWrites
    <2>2. screen[o].grid.recipe \in Recipes /\ screen[o].grid.seed \in Seeds
      BY <2>1 DEF GridsAreDeals, RecipesOK
    <2> QED
      BY <1>6, <2>1, <2>2
  <1>12. ASSUME NEW o \in Planners, ApplyRefused(o) PROVE RecipesOK'
    <2> DEFINE grid == screen[o].grid
               left == IF ~begun /\ largest > grid.recipe.sets THEN grid ELSE Nil
    <2>1. /\ screen[o].at \in {"asked", "checked"} /\ Refreshed(o, grid.seed, left, screen[o].shows)
          /\ UNCHANGED <<bank, plan>>
      BY <1>12 DEF ApplyRefused, setupVars
    <2>2. grid.recipe \in Recipes /\ grid.seed \in Seeds
      BY <2>1 DEF GridsAreDeals, RecipesOK
    <2>3. left \in {grid, Nil}
      OBVIOUS
    <2> HIDE DEF left
    <2> QED
      BY <1>6, <2>1, <2>2, <2>3 DEF RecipesOK
  <1> QED
    BY <1>2, <1>3, <1>4, <1>5, <1>7, <1>8, <1>9, <1>10, <1>11, <1>12 DEF PlannerNext, PlannerStep

\* What was feasible when it was read is written from the pool that was read.
LEMMA BuildFillsColumns ==
  ASSUME GridsAreDeals, RecipesOK, NEW o \in Planners, ApplyWrites(o)
  PROVE  ColumnsFull({r \in lineUp' : r.byPlan}, screen[o].grid.recipe)
  <1> DEFINE grid == screen[o].grid
             deal == Deal(grid.seed, grid.recipe, Pool)
  <1>1. /\ screen[o].at = "checked" /\ Pool = screen[o].read /\ grid # Nil
        /\ grid.recipe \in Recipes /\ grid.seed \in Seeds /\ Feasible(grid.recipe, Pool)
        /\ {r \in lineUp' : r.byPlan} = deal
    BY BuildWritesGrid DEF ApplyWrites, GridsAreDeals, RecipesOK
  <1>2. /\ DOMAIN Pool \subseteq Questions
        /\ \A q \in DOMAIN Pool :
             /\ bank[q] # Nil /\ bank[q].ready /\ Pool[q] = bank[q].level
    BY DEF Pool
  <1>3. ASSUME NEW r \in deal, NEW l \in Levels
        PROVE  bank[r.question] \in [ready : {TRUE}, level : {l}] <=> Pool[r.question] = l
    <2>1. r.question \in DOMAIN Pool
      BY DealFromPool
    <2>2. bank[r.question] \in Entries /\ bank[r.question].ready /\ Pool[r.question] = bank[r.question].level
      BY <1>2, <2>1 DEF RecipesOK
    <2> QED
      BY <2>2 DEF Entries
  <1>4. ASSUME NEW d \in Scopes, NEW c \in 0 .. grid.recipe.sets - 1, NEW l \in Levels
        PROVE  Cardinality(HoldsOf({r \in deal : r.division = d /\ r.place = c}, l))
                 = grid.recipe.counts[l]
    <2>1. HoldsOf({r \in deal : r.division = d /\ r.place = c}, l)
            = {r \in deal : r.division = d /\ r.place = c /\ Pool[r.question] = l}
      BY <1>3 DEF HoldsOf
    <2>2. Cardinality({r \in deal : r.division = d /\ r.place = c /\ Pool[r.question] = l})
            = grid.recipe.counts[l]
      BY <1>1, <1>2, ColumnsAreFull
    <2> QED
      BY <2>1, <2>2
  <1> HIDE DEF deal
  <1> QED
    BY <1>1, <1>4 DEF ColumnsFull

\* Which rows of a deal are the team's.
LEMMA TeamRows ==
  ASSUME NEW seed \in Seeds, NEW recipe \in Recipes, NEW pool, DOMAIN pool \subseteq Questions,
         \A q \in DOMAIN pool : pool[q] \in Levels
  PROVE  {r \in Deal(seed, recipe, pool) : r.place = Team} = TeamDraw(seed, recipe, pool)
  <1>1. ASSUME NEW r \in Columns(seed, recipe, pool) PROVE r.place # Team
    <2> DEFINE Ranked(e, q) == Position(Shuffle[seed][e], Candidates(pool, pool[q]), q)
    <2>1. PICK d \in Scopes, q \in DOMAIN pool :
            /\ Ranked(d, q) < recipe.counts[pool[q]] * recipe.sets
            /\ r = DealtRow(q, d, Ranked(d, q) \div recipe.counts[pool[q]])
      BY DEF Columns
    <2> DEFINE k == recipe.counts[pool[q]]
               deck == Candidates(pool, pool[q])
               keys == Shuffle[seed][d]
               n == Ranked(d, q)
    <2>2. k \in Nat /\ recipe.sets \in Nat
      BY PlannerAssumption
    <2>3. n \in Nat
      <3>1. deck \subseteq Questions /\ IsFiniteSet(deck) /\ q \in deck
        BY PlannerAssumption, FS_Subset DEF Candidates
      <3>2. /\ \A p \in deck : keys[p] \in Nat
            /\ \A p, o \in deck : keys[p] = keys[o] => p = o
        BY <3>1, KeysOrder DEF Decks
      <3> DEFINE f == [p \in deck |-> Position(keys, deck, p)]
      <3>3. f \in Bijection(deck, 0 .. Cardinality(deck) - 1) /\ Cardinality(deck) \in Nat
        <4> HIDE DEF deck, keys
        <4> QED
          BY <3>1, <3>2, PositionsFill
      <3>4. \A p \in deck : f[p] \in 0 .. Cardinality(deck) - 1
        BY <3>3 DEF Bijection, Injection
      <3>5. f[q] = n
        BY <3>1
      <3> HIDE DEF f, deck, n
      <3> QED
        BY <3>1, <3>3, <3>4, <3>5
    <2> HIDE DEF k, n
    <2>4. n < k * recipe.sets
      BY <2>1 DEF k, n
    <2>5. k # 0
      BY <2>2, <2>3, <2>4
    <2>6. n \div k \in Nat
      BY <2>2, <2>3, <2>5
    <2>7. r.place = n \div k
      BY <2>1 DEF DealtRow, k, n
    <2> QED
      BY <2>6, <2>7, PlannerAssumption
  <1>2. ASSUME NEW r \in TeamDraw(seed, recipe, pool) PROVE r.place = Team
    BY TeamRow DEF DealtRow
  <1> QED
    BY <1>1, <1>2 DEF Deal

\* And it holds as many questions for the team.
LEMMA BuildDrawsTeam ==
  ASSUME GridsAreDeals, RecipesOK, NEW o \in Planners, ApplyWrites(o)
  PROVE  Cardinality({r \in {s \in lineUp' : s.byPlan} : r.place = Team}) = screen[o].grid.recipe.team
  <1> DEFINE grid == screen[o].grid
             deal == Deal(grid.seed, grid.recipe, Pool)
  <1>1. /\ grid.recipe \in Recipes /\ grid.seed \in Seeds /\ Feasible(grid.recipe, Pool)
        /\ {r \in lineUp' : r.byPlan} = deal
    BY BuildWritesGrid DEF ApplyWrites, GridsAreDeals, RecipesOK
  <1>2. DOMAIN Pool \subseteq Questions /\ \A q \in DOMAIN Pool : Pool[q] \in Levels
    <2> SUFFICES ASSUME NEW q \in DOMAIN Pool PROVE q \in Questions /\ Pool[q] \in Levels
      OBVIOUS
    <2>1. /\ q \in Questions /\ bank[q] # Nil /\ bank[q].level # NoLevel
          /\ Pool[q] = bank[q].level
      BY DEF Pool
    <2>2. bank[q] \in Entries
      BY <2>1 DEF RecipesOK
    <2> QED
      BY <2>1, <2>2 DEF Entries
  <1> HIDE DEF deal
  <1>3. {r \in deal : r.place = Team} = TeamDraw(grid.seed, grid.recipe, Pool)
    BY <1>1, <1>2, TeamRows DEF deal
  <1>4. Cardinality(TeamDraw(grid.seed, grid.recipe, Pool)) = grid.recipe.team
    BY <1>1, <1>2, TeamDrawCount
  <1> QED
    BY <1>1, <1>3, <1>4

\* For any bank, recipes, seeds, divisions and organizers: a build gives every set
\* of every division what the recipe says, of questions that are ready and of that
\* difficulty when it is written, and the team its number, although the check never
\* sees which questions the sets take (planSets, checkFeasibility,
\* checkGroupFeasibility, applySets).
THEOREM PlannerBuildMeetsRecipe == PlannerSpec => BuildMeetsRecipe
  <1>1. PlannerInit => GridsAreDeals /\ RecipesOK
    BY GridsInit, RecipesInit
  <1>2. GridsAreDeals /\ RecipesOK /\ [PlannerNext]_plannerVars => GridsAreDeals' /\ RecipesOK'
    BY GridsStep, RecipesStep
  <1>3. ASSUME GridsAreDeals, RecipesOK, NEW o \in Planners, ApplyWrites(o)
        PROVE  LET recipe == screen[o].grid.recipe
                   planned == {r \in lineUp' : r.byPlan} IN
               /\ ColumnsFull(planned, recipe)
               /\ Cardinality({r \in planned : r.place = Team}) = recipe.team
    BY <1>3, BuildFillsColumns, BuildDrawsTeam
  <1>4. GridsAreDeals /\ RecipesOK /\ [PlannerNext]_plannerVars =>
          [\A o \in Planners :
             ApplyWrites(o) =>
               LET recipe == screen[o].grid.recipe
                   planned == {r \in lineUp' : r.byPlan} IN
               /\ ColumnsFull(planned, recipe)
               /\ Cardinality({r \in planned : r.place = Team}) = recipe.team]_plannerVars
    BY <1>3
  <1> QED
    BY <1>1, <1>2, <1>4, PTL DEF PlannerSpec, BuildMeetsRecipe
-------------------------------------------------------------------------------
\* The writing of a question.

\* Requests that have a directory to publish, to switch to or to take away.
Holding == {"publish", "write", "discard", "sweep"}

Holds(r) == author[r].at \in Holding

\* What a request holds is its own: a directory nobody else holds and the row does
\* not name, with the content it is about to give the row.
RequestsOK ==
  /\ author \in [Authors -> AuthorRequests]
  /\ \A r \in Authors :
       /\ author[r].at \in {"stage", "publish", "write"} => author[r].content \in Contents
       /\ Holds(r) => /\ author[r].dir \in 1 .. saved
                      /\ question # NoQuestion => author[r].dir # question.dir
       /\ Is(r, "publish") =>
            disk[author[r].dir] = [is |-> "staged", content |-> author[r].content]
       /\ Is(r, "write") =>
            disk[author[r].dir] = [is |-> "published", content |-> author[r].content]
  /\ \A r, s \in Authors : r # s /\ Holds(r) /\ Holds(s) => author[r].dir # author[s].dir

QuestionOK ==
  /\ question \in QuestionRows \union {NoQuestion}
  /\ disk \in [Versions -> Directories]
  /\ saved \in 0 .. MaxVersions
  /\ question # NoQuestion => question.dir <= saved
  /\ usage = "live" => question # NoQuestion
  /\ RowsHaveFiles

AuthoringInv == QuestionOK /\ RequestsOK

LEMMA AuthoringInvInit == AuthoringInit => AuthoringInv
  <1> SUFFICES ASSUME AuthoringInit PROVE AuthoringInv
    OBVIOUS
  <1>1. Absent \in Directories /\ Resting \in AuthorRequests
    BY DEF Absent, Directories, Resting, AuthorRequests, Places
  <1>2. Resting.at = "idle"
    BY DEF Resting
  <1>3. QuestionOK
    BY <1>1, AuthoringAssumption DEF AuthoringInit, QuestionOK, RowsHaveFiles
  <1>4. RequestsOK
    BY <1>1, <1>2 DEF AuthoringInit, RequestsOK, Holds, Holding, Is
  <1> QED
    BY <1>3, <1>4 DEF AuthoringInv

\* One request moves: what it now holds must be its own, and what the others hold
\* must be left alone.
LEMMA OneRequestMoves ==
  ASSUME RequestsOK, saved \in Nat, saved' \in Nat, saved <= saved',
         NEW r \in Authors, NEW request \in AuthorRequests,
         author' = [author EXCEPT ![r] = request],
         request.at \in {"stage", "publish", "write"} => request.content \in Contents,
         request.at \in Holding =>
           /\ request.dir \in 1 .. saved'
           /\ question' # NoQuestion => request.dir # question'.dir,
         request.at = "publish" =>
           disk'[request.dir] = [is |-> "staged", content |-> request.content],
         request.at = "write" =>
           disk'[request.dir] = [is |-> "published", content |-> request.content],
         \A s \in Authors : s # r /\ Holds(s) =>
           /\ disk'[author[s].dir] = disk[author[s].dir]
           /\ question' # NoQuestion => author[s].dir # question'.dir
           /\ request.at \in Holding => author[s].dir # request.dir
  PROVE  RequestsOK'
  <1>1. author' \in [Authors -> AuthorRequests]
    BY DEF RequestsOK
  <1>2. author'[r] = request /\ \A s \in Authors : s # r => author'[s] = author[s]
    BY DEF RequestsOK
  <1>3. \A s \in Authors : s # r => (Holds(s)' <=> Holds(s))
    BY <1>2 DEF Holds
  <1>4. \A s, t \in Authors : s # t /\ Holds(s)' /\ Holds(t)' => author'[s].dir # author'[t].dir
    BY <1>2, <1>3 DEF RequestsOK, Holds
  <1>5. ASSUME NEW s \in Authors
        PROVE  /\ author'[s].at \in {"stage", "publish", "write"} => author'[s].content \in Contents
               /\ Holds(s)' => /\ author'[s].dir \in 1 .. saved'
                               /\ question' # NoQuestion => author'[s].dir # question'.dir
               /\ Is(s, "publish")' =>
                    disk'[author'[s].dir] = [is |-> "staged", content |-> author'[s].content]
               /\ Is(s, "write")' =>
                    disk'[author'[s].dir] = [is |-> "published", content |-> author'[s].content]
    <2>1. CASE s = r
      BY <1>2, <2>1 DEF Holds, Is
    <2>2. CASE s # r
      <3>1. author'[s] = author[s] /\ (Holds(s)' <=> Holds(s))
        BY <1>2, <1>3, <2>2
      <3>2. (Is(s, "publish")' \/ Is(s, "write")') => Holds(s)
        BY <3>1 DEF Is, Holds, Holding
      <3> QED
        BY <3>1, <3>2, <2>2 DEF RequestsOK, Is
    <2> QED
      BY <2>1, <2>2
  <1> QED
    BY <1>1, <1>4, <1>5 DEF RequestsOK

\* A request goes on with a directory.
LEMMA RequestHolds ==
  ASSUME RequestsOK, saved \in Nat, saved' \in Nat, saved <= saved',
         NEW r \in Authors, NEW request \in AuthorRequests,
         author' = [author EXCEPT ![r] = request],
         request.at \in Holding,
         request.at \in {"publish", "write"} =>
           /\ request.content \in Contents
           /\ disk'[request.dir] =
                [is |-> IF request.at = "write" THEN "published" ELSE "staged",
                 content |-> request.content],
         request.dir \in 1 .. saved',
         question' # NoQuestion => request.dir # question'.dir,
         \A s \in Authors : s # r /\ Holds(s) =>
           /\ disk'[author[s].dir] = disk[author[s].dir]
           /\ question' # NoQuestion => author[s].dir # question'.dir
           /\ author[s].dir # request.dir
  PROVE  RequestsOK'
  <1>1. request.at \in {"stage", "publish", "write"} => request.content \in Contents
    BY DEF Holding
  <1>2. request.at = "publish" =>
           disk'[request.dir] = [is |-> "staged", content |-> request.content]
    OBVIOUS
  <1>3. request.at = "write" =>
           disk'[request.dir] = [is |-> "published", content |-> request.content]
    OBVIOUS
  <1>4. request.at \in Holding =>
           /\ request.dir \in 1 .. saved'
           /\ question' # NoQuestion => request.dir # question'.dir
    OBVIOUS
  <1>5. \A s \in Authors : s # r /\ Holds(s) =>
           /\ disk'[author[s].dir] = disk[author[s].dir]
           /\ question' # NoQuestion => author[s].dir # question'.dir
           /\ request.at \in Holding => author[s].dir # request.dir
    OBVIOUS
  <1> QED
    BY <1>1, <1>2, <1>3, <1>4, <1>5, OneRequestMoves

\* A request that ends holds nothing.
LEMMA RequestEnds ==
  ASSUME RequestsOK, saved \in Nat, saved' \in Nat, saved <= saved',
         NEW r \in Authors, Ends(r),
         \A s \in Authors : s # r /\ Holds(s) =>
           /\ disk'[author[s].dir] = disk[author[s].dir]
           /\ question' # NoQuestion => author[s].dir # question'.dir
  PROVE  RequestsOK'
  <1>1. Resting \in AuthorRequests /\ Resting.at = "idle"
    BY DEF Resting, AuthorRequests, Places
  <1> QED
    BY <1>1, OneRequestMoves DEF Ends, Holding

\* A request that holds nothing waits for something.
LEMMA RequestWaits ==
  ASSUME RequestsOK, saved \in Nat,
         NEW r \in Authors, NEW request \in AuthorRequests,
         author' = [author EXCEPT ![r] = request],
         request.at \notin Holding, request.at # "stage",
         UNCHANGED <<disk, saved>>,
         question' # NoQuestion => question # NoQuestion /\ question'.dir = question.dir
  PROVE  RequestsOK'
  <1>1. request.at # "publish" /\ request.at # "write"
    BY DEF Holding
  <1>2. saved' \in Nat /\ saved <= saved'
    OBVIOUS
  <1>3. \A s \in Authors : s # r /\ Holds(s) =>
           /\ disk'[author[s].dir] = disk[author[s].dir]
           /\ question' # NoQuestion => author[s].dir # question'.dir
    BY DEF RequestsOK
  <1> QED
    BY <1>1, <1>2, <1>3, OneRequestMoves

\* A new directory is nobody's.
LEMMA NewDirectoryIsFree ==
  ASSUME AuthoringInv, NEW r \in Authors, NewDirectory(r), author[r].content \in Contents
  PROVE  /\ saved' \in 1 .. MaxVersions /\ saved' = saved + 1
         /\ disk' \in [Versions -> Directories]
         /\ disk'[saved'] = [is |-> "staged", content |-> author[r].content]
         /\ \A d \in 1 .. saved : disk'[d] = disk[d]
  <1>1. saved' \in Versions /\ saved' = saved + 1 /\ saved \in Nat
    BY AuthoringAssumption DEF NewDirectory, AuthoringInv, QuestionOK, Versions
  <1>2. [is |-> "staged", content |-> author[r].content] \in Directories
    BY DEF Directories
  <1> QED
    BY <1>1, <1>2 DEF NewDirectory, AuthoringInv, QuestionOK, Versions

\* The steps of a save.
LEMMA SaveKeepsInv ==
  ASSUME AuthoringInv, NEW r \in Authors, SaveSteps(r)
  PROVE  AuthoringInv'
  <1>a. /\ RequestsOK /\ author[r] \in AuthorRequests /\ saved \in Nat
        /\ \A s \in Authors : Holds(s) => author[s].dir \in 1 .. saved
        /\ \A s \in Authors : Holds(s) /\ question # NoQuestion => author[s].dir # question.dir
        /\ \A s, t \in Authors : s # t /\ Holds(s) /\ Holds(t) => author[s].dir # author[t].dir
    <2>1. RequestsOK /\ saved \in Nat
      BY AuthoringAssumption DEF AuthoringInv, QuestionOK
    <2> QED
      BY <2>1 DEF RequestsOK
  <1>b. /\ question \in QuestionRows \union {NoQuestion}
        /\ disk \in [Versions -> Directories]
        /\ saved \in 0 .. MaxVersions /\ MaxVersions \in Nat
        /\ question # NoQuestion => question.dir \in 1 .. saved
        /\ usage = "live" => question # NoQuestion
        /\ question # NoQuestion =>
             disk[question.dir] = [is |-> "published", content |-> question.content]
    BY AuthoringAssumption DEF AuthoringInv, QuestionOK, RowsHaveFiles, QuestionRows, Versions
  <1>1. ASSUME NEW c \in Contents, BeginCreate(r, c) \/ BeginUpdate(r, c) PROVE AuthoringInv'
    <2>2. PICK request \in AuthorRequests :
            /\ author' = [author EXCEPT ![r] = request]
            /\ request.at = "stage" /\ request.content = c
      <3>1. CASE BeginCreate(r, c)
        <4>1. [Resting EXCEPT !.at = "stage", !.content = c] \in AuthorRequests
          BY DEF Resting, AuthorRequests, Places
        <4> QED
          BY <3>1, <4>1 DEF BeginCreate, Begins, Resting
      <3>2. CASE BeginUpdate(r, c)
        <4>1. question.id \in Versions
          BY <1>b, <3>2 DEF BeginUpdate, QuestionRows
        <4>2. [Resting EXCEPT !.at = "stage", !.id = question.id, !.content = c] \in AuthorRequests
          BY <4>1 DEF Resting, AuthorRequests, Places
        <4> QED
          BY <3>2, <4>2 DEF BeginUpdate, Begins, Resting
      <3> QED
        BY <1>1, <3>1, <3>2
    <2>3. UNCHANGED <<question, usage, disk, saved>>
      BY <1>1 DEF BeginCreate, BeginUpdate
    <2>4. RequestsOK'
      <3>1. saved' \in Nat /\ saved <= saved'
        BY <1>a, <2>3
      <3>2. /\ request.at \notin Holding /\ request.content \in Contents
            /\ request.at # "publish" /\ request.at # "write"
        BY <2>2 DEF Holding
      <3>3. \A s \in Authors : s # r /\ Holds(s) =>
              /\ disk'[author[s].dir] = disk[author[s].dir]
              /\ question' # NoQuestion => author[s].dir # question'.dir
        BY <1>a, <2>3
      <3> QED
        BY <1>a, <2>2, <3>1, <3>2, <3>3, OneRequestMoves
    <2> QED
      BY AuthoringAssumption, <1>b, <2>3, <2>4
         DEF AuthoringInv, QuestionOK, RowsHaveFiles, Versions, QuestionRows
  <1>2. CASE Stage(r)
    <2>1. author[r].content \in Contents /\ NewDirectory(r) /\ UNCHANGED <<question, usage>>
      BY <1>a, <1>b, <1>2 DEF Stage, Is, Moves, RequestsOK
    <2>2. /\ saved' \in 1 .. MaxVersions /\ saved' = saved + 1
          /\ disk' \in [Versions -> Directories]
          /\ disk'[saved'] = [is |-> "staged", content |-> author[r].content]
          /\ \A d \in 1 .. saved : disk'[d] = disk[d]
      BY <2>1, NewDirectoryIsFree
    <2>3. [author[r] EXCEPT !.at = "publish", !.dir = saved'] \in AuthorRequests
      BY <1>a, <1>b, <2>2 DEF AuthorRequests, Places, Versions
    <2>4. PICK request \in AuthorRequests :
            /\ author' = [author EXCEPT ![r] = request] /\ request.at = "publish"
            /\ request.dir = saved' /\ request.content = author[r].content
      BY <1>a, <1>2, <2>3 DEF Stage, RequestsOK, AuthorRequests
    <2>5. question # NoQuestion => question.dir \in 1 .. saved
      BY <1>b
    <2>6. RequestsOK'
      <3>1. saved' \in Nat /\ saved <= saved'
        BY <1>a, <1>b, <2>1, <2>2, <2>3, <2>4, <2>5
      <3>2. request.at \in Holding
        BY <2>1, <2>2, <2>3, <2>4, <2>5 DEF Holding
      <3>3. request.dir \in 1 .. saved' /\ (question' # NoQuestion => request.dir # question'.dir)
        BY <1>a, <1>b, <2>1, <2>2, <2>3, <2>4, <2>5
      <3>4. \A s \in Authors : s # r /\ Holds(s) =>
              /\ disk'[author[s].dir] = disk[author[s].dir]
              /\ question' # NoQuestion => author[s].dir # question'.dir
              /\ author[s].dir # request.dir
        BY <1>a, <1>b, <2>1, <2>2, <2>3, <2>4, <2>5 DEF Versions
      <3>5. request.at \in {"publish", "write"} =>
              /\ request.content \in Contents
              /\ disk'[request.dir] =
                   [is |-> IF request.at = "write" THEN "published" ELSE "staged",
                    content |-> request.content]
        BY <2>1, <2>2, <2>3, <2>4, <2>5
      <3> QED
        BY <1>a, <2>3, <2>4, <3>1, <3>2, <3>3, <3>4, <3>5, RequestHolds
    <2> QED
      BY AuthoringAssumption, <1>b, <2>1, <2>2, <2>5, <2>6
         DEF AuthoringInv, QuestionOK, RowsHaveFiles, Versions, QuestionRows
  <1>3. CASE StageFails(r)
    <2>1. author[r].content \in Contents /\ NewDirectory(r) /\ UNCHANGED <<question, usage>>
          /\ Ends(r)
      BY <1>a, <1>b, <1>3 DEF StageFails, Is, Moves, RequestsOK
    <2>2. /\ saved' \in 1 .. MaxVersions /\ saved' = saved + 1
          /\ disk' \in [Versions -> Directories]
          /\ \A d \in 1 .. saved : disk'[d] = disk[d]
      BY <2>1, NewDirectoryIsFree
    <2>3. question # NoQuestion => question.dir \in 1 .. saved
      BY <1>b
    <2>4. RequestsOK'
      BY <1>a, <2>1, <2>2, RequestEnds
    <2> QED
      BY AuthoringAssumption, <1>b, <2>1, <2>2, <2>3, <2>4
         DEF AuthoringInv, QuestionOK, RowsHaveFiles, Versions, QuestionRows
  <1>4. CASE PublishFiles(r)
    <2>1. /\ Holds(r) /\ author[r].content \in Contents
          /\ disk[author[r].dir] = [is |-> "staged", content |-> author[r].content]
      BY <1>a, <1>b, <1>4 DEF PublishFiles, Is, Moves, RequestsOK, Holds, Holding
    <2>2. disk' = [disk EXCEPT ![author[r].dir].is = "published"]
          /\ UNCHANGED <<question, usage, saved>>
      BY <1>4 DEF PublishFiles
    <2>3. author[r].dir \in Versions
      BY <1>a, <1>b, <2>1 DEF Versions
    <2>4. /\ disk'[author[r].dir] = [is |-> "published", content |-> author[r].content]
          /\ \A d \in Versions : d # author[r].dir => disk'[d] = disk[d]
      BY <1>b, <2>1, <2>2, <2>3 DEF Directories
    <2>5. disk' \in [Versions -> Directories]
      BY <1>b, <2>1, <2>2, <2>3, <2>4 DEF Directories
    <2>6. PICK request \in AuthorRequests :
            /\ author' = [author EXCEPT ![r] = request] /\ request.at = "write"
            /\ request.dir = author[r].dir /\ request.content = author[r].content
      <3>1. [author[r] EXCEPT !.at = "write"] \in AuthorRequests
        BY <1>a DEF AuthorRequests, Places
      <3> QED
        BY <1>a, <1>4, <3>1 DEF PublishFiles, Moves, RequestsOK, AuthorRequests
    <2>7. RequestsOK'
      <3>1. saved' \in Nat /\ saved <= saved'
        BY <1>a, <1>b, <2>1, <2>2, <2>4, <2>6
      <3>2. request.at \in Holding
        BY <2>1, <2>2, <2>4, <2>6 DEF Holding
      <3>3. request.dir \in 1 .. saved' /\ (question' # NoQuestion => request.dir # question'.dir)
        BY <1>a, <1>b, <2>1, <2>2, <2>4, <2>6
      <3>4. \A s \in Authors : s # r /\ Holds(s) =>
              /\ disk'[author[s].dir] = disk[author[s].dir]
              /\ question' # NoQuestion => author[s].dir # question'.dir
              /\ author[s].dir # request.dir
        BY <1>a, <1>b, <2>1, <2>2, <2>4, <2>6 DEF Versions
      <3>5. request.at \in {"publish", "write"} =>
              /\ request.content \in Contents
              /\ disk'[request.dir] =
                   [is |-> IF request.at = "write" THEN "published" ELSE "staged",
                    content |-> request.content]
        BY <2>1, <2>2, <2>4, <2>6
      <3> QED
        BY <1>a, <2>2, <2>6, <3>1, <3>2, <3>3, <3>4, <3>5, RequestHolds
    <2> QED
      BY AuthoringAssumption, <1>b, <1>a, <2>1, <2>2, <2>4, <2>5, <2>7
         DEF AuthoringInv, QuestionOK, RowsHaveFiles, Versions, QuestionRows
  <1>5. CASE InsertQuestion(r)
    <2>1. /\ Holds(r) /\ author[r].content \in Contents
          /\ disk[author[r].dir] = [is |-> "published", content |-> author[r].content]
      BY <1>a, <1>b, <1>5 DEF InsertQuestion, Is, Moves, RequestsOK, Holds, Holding
    <2>2. /\ question' = [id |-> author[r].dir, content |-> author[r].content,
                          dir |-> author[r].dir, stamp |-> NoContent]
          /\ Ends(r) /\ usage' = "free" /\ UNCHANGED <<disk, saved>>
      BY <1>5 DEF InsertQuestion, Is, Moves, NewRow
    <2>3. author[r].dir \in 1 .. saved /\ author[r].dir \in Versions
      BY <1>a, <1>b, <2>1 DEF Versions
    <2>4. question' \in QuestionRows
      BY <2>1, <2>2, <2>3 DEF QuestionRows
    <2>5. RequestsOK'
      BY <1>a, <2>1, <2>2, RequestEnds
    <2> QED
      BY AuthoringAssumption, <1>b, <2>1, <2>2, <2>3, <2>4, <2>5
         DEF AuthoringInv, QuestionOK, RowsHaveFiles, Versions, QuestionRows
  <1>6. CASE Switch(r)
    <2>1. /\ Holds(r) /\ author[r].content \in Contents /\ question \in QuestionRows
          /\ disk[author[r].dir] = [is |-> "published", content |-> author[r].content]
      BY <1>a, <1>b, <1>6 DEF Switch, Is, Moves, RequestsOK, Holds, Holding, Found
    <2>2. /\ question' = [id |-> question.id, content |-> author[r].content,
                          dir |-> author[r].dir, stamp |-> NoContent]
          /\ UNCHANGED <<usage, disk, saved>>
      BY <1>6, <1>a DEF Switch, Is, Moves, NewRow, RequestsOK
    <2>3. author[r].dir \in 1 .. saved /\ author[r].dir \in Versions
          /\ question.dir \in 1 .. saved /\ question # NoQuestion
      BY AuthoringAssumption, <1>a, <1>b, <2>1 DEF Versions
    <2>4. question' \in QuestionRows
      BY <2>1, <2>2, <2>3 DEF QuestionRows
    <2>5. PICK request \in AuthorRequests :
            /\ author' = [author EXCEPT ![r] = request] /\ request.at = "sweep"
            /\ request.dir = question.dir
      <3>0. question.dir \in Versions
        BY <2>1 DEF QuestionRows
      <3>1. [author[r] EXCEPT !.at = "sweep", !.dir = question.dir] \in AuthorRequests
        BY <1>a, <3>0 DEF AuthorRequests, Places
      <3> QED
        BY <1>a, <1>6, <3>1 DEF Switch, RequestsOK, AuthorRequests
    <2>6. question'.dir = author[r].dir
      BY <2>2
    <2>7. RequestsOK'
      <3>1. saved' \in Nat /\ saved <= saved'
        BY <1>a, <1>b, <2>1, <2>2, <2>3, <2>5, <2>6
      <3>2. request.at \in Holding
        BY <2>1, <2>2, <2>3, <2>5, <2>6 DEF Holding
      <3>3. request.dir \in 1 .. saved' /\ (question' # NoQuestion => request.dir # question'.dir)
        BY <1>a, <1>b, <2>1, <2>2, <2>3, <2>5, <2>6
      <3>4. \A s \in Authors : s # r /\ Holds(s) =>
              /\ disk'[author[s].dir] = disk[author[s].dir]
              /\ question' # NoQuestion => author[s].dir # question'.dir
              /\ author[s].dir # request.dir
        BY <1>a, <1>b, <2>1, <2>2, <2>3, <2>5, <2>6 DEF Versions
      <3>5. request.at \in {"publish", "write"} =>
              /\ request.content \in Contents
              /\ disk'[request.dir] =
                   [is |-> IF request.at = "write" THEN "published" ELSE "staged",
                    content |-> request.content]
        BY <2>1, <2>2, <2>5
      <3> QED
        BY <1>a, <2>1, <2>2, <2>3, <2>5, <2>6, <3>1, <3>2, <3>3, <3>4, <3>5, RequestHolds
    <2> QED
      BY AuthoringAssumption, <1>b, <2>1, <2>2, <2>3, <2>4, <2>7
         DEF AuthoringInv, QuestionOK, RowsHaveFiles, Versions, QuestionRows
  <1>7. CASE SaveFails(r)
    <2>1. Holds(r)
      BY <1>7 DEF SaveFails, Is, Moves, Holds, Holding
    <2>2. UNCHANGED <<question, usage, disk, saved>>
      BY <1>7 DEF SaveFails
    <2>3. PICK request \in AuthorRequests :
            /\ author' = [author EXCEPT ![r] = request] /\ request.at = "discard"
            /\ request.dir = author[r].dir
      <3>1. [author[r] EXCEPT !.at = "discard"] \in AuthorRequests
        BY <1>a DEF AuthorRequests, Places
      <3> QED
        BY <1>a, <1>7, <3>1 DEF SaveFails, Moves, RequestsOK, AuthorRequests
    <2>4. RequestsOK'
      <3>1. saved' \in Nat /\ saved <= saved'
        BY <1>a, <1>b, <2>1, <2>2, <2>3
      <3>2. request.at \in Holding
        BY <2>1, <2>2, <2>3 DEF Holding
      <3>3. request.dir \in 1 .. saved' /\ (question' # NoQuestion => request.dir # question'.dir)
        BY <1>a, <1>b, <2>1, <2>2, <2>3
      <3>4. \A s \in Authors : s # r /\ Holds(s) =>
              /\ disk'[author[s].dir] = disk[author[s].dir]
              /\ question' # NoQuestion => author[s].dir # question'.dir
              /\ author[s].dir # request.dir
        BY <1>a, <1>b, <2>1, <2>2, <2>3 DEF Versions
      <3>5. request.at \in {"publish", "write"} =>
              /\ request.content \in Contents
              /\ disk'[request.dir] =
                   [is |-> IF request.at = "write" THEN "published" ELSE "staged",
                    content |-> request.content]
        BY <2>1, <2>2, <2>3
      <3> QED
        BY <1>a, <2>2, <2>3, <3>1, <3>2, <3>3, <3>4, <3>5, RequestHolds
    <2> QED
      BY AuthoringAssumption, <1>b, <2>2, <2>4
         DEF AuthoringInv, QuestionOK, RowsHaveFiles, Versions, QuestionRows
  <1>8. CASE Remove(r)
    <2>1. Holds(r) /\ Ends(r) /\ UNCHANGED <<question, usage, saved>>
          /\ disk' = [disk EXCEPT ![author[r].dir] = Absent]
      BY <1>8 DEF Remove, Is, Moves, Holds, Holding
    <2>2. Absent \in Directories
      BY DEF Absent, Directories
    <2>3. disk' \in [Versions -> Directories]
          /\ \A d \in Versions : d # author[r].dir => disk'[d] = disk[d]
      BY <1>a, <1>b, <2>1, <2>2
    <2>4. RequestsOK'
      BY <1>a, <2>1, <2>3, RequestEnds
    <2> QED
      BY AuthoringAssumption, <1>b, <1>a, <2>1, <2>3, <2>4
         DEF AuthoringInv, QuestionOK, RowsHaveFiles, Versions, QuestionRows
  <1>9. CASE RemoveFails(r)
    <2>1. Ends(r) /\ UNCHANGED <<question, usage, disk, saved>>
      BY <1>9 DEF RemoveFails
    <2>2. RequestsOK'
      BY <1>a, <2>1, RequestEnds
    <2> QED
      BY AuthoringAssumption, <1>b, <2>1, <2>2
         DEF AuthoringInv, QuestionOK, RowsHaveFiles, Versions, QuestionRows
  <1> QED
    BY <1>1, <1>2, <1>3, <1>4, <1>5, <1>6, <1>7, <1>8, <1>9 DEF SaveSteps

\* A deletion, a validation, a death.
LEMMA OtherStepsKeepInv ==
  ASSUME AuthoringInv, NEW r \in Authors,
         \/ BeginDelete(r) \/ Drop(r) \/ DropRefused(r)
         \/ BeginValidate(r) \/ JudgeReference(r) \/ Stamp(r)
         \/ AuthorDies(r)
  PROVE  AuthoringInv'
  <1>a. /\ RequestsOK /\ author[r] \in AuthorRequests /\ saved \in Nat
        /\ \A s \in Authors : Holds(s) => author[s].dir \in 1 .. saved
        /\ \A s \in Authors : Holds(s) /\ question # NoQuestion => author[s].dir # question.dir
        /\ \A s, t \in Authors : s # t /\ Holds(s) /\ Holds(t) => author[s].dir # author[t].dir
    <2>1. RequestsOK /\ saved \in Nat
      BY AuthoringAssumption DEF AuthoringInv, QuestionOK
    <2> QED
      BY <2>1 DEF RequestsOK
  <1>b. /\ question \in QuestionRows \union {NoQuestion}
        /\ disk \in [Versions -> Directories]
        /\ saved \in 0 .. MaxVersions /\ MaxVersions \in Nat
        /\ question # NoQuestion => question.dir \in 1 .. saved
        /\ usage = "live" => question # NoQuestion
        /\ question # NoQuestion =>
             disk[question.dir] = [is |-> "published", content |-> question.content]
    BY AuthoringAssumption DEF AuthoringInv, QuestionOK, RowsHaveFiles, QuestionRows, Versions
  <1>1. CASE BeginDelete(r) \/ BeginValidate(r) \/ JudgeReference(r)
    <2>1. UNCHANGED <<question, usage, disk, saved>>
      BY <1>1 DEF BeginDelete, BeginValidate, JudgeReference
    <2>a. /\ UNCHANGED <<disk, saved>>
          /\ question' # NoQuestion => question # NoQuestion /\ question'.dir = question.dir
      BY <2>1
    <2>2. ASSUME BeginDelete(r) PROVE RequestsOK'
      <3>1. question.id \in Versions
        BY <1>b, <2>2 DEF BeginDelete, QuestionRows
      <3>2. [Resting EXCEPT !.at = "drop", !.id = question.id] \in AuthorRequests
        BY <3>1 DEF Resting, AuthorRequests, Places
      <3>3. PICK request \in AuthorRequests :
              author' = [author EXCEPT ![r] = request] /\ request.at = "drop"
        BY <2>2, <3>2 DEF BeginDelete, Begins, Resting
      <3>4. request.at \notin Holding /\ request.at # "stage"
        BY <3>3 DEF Holding
      <3> QED
        BY <1>a, <2>a, <3>3, <3>4, RequestWaits
    <2>3. ASSUME BeginValidate(r) PROVE RequestsOK'
      <3>1. question.id \in Versions /\ question.dir \in Versions /\ question.content \in Contents
        BY <1>b, <2>3 DEF BeginValidate, QuestionRows
      <3>2. [Resting EXCEPT !.at = "judge", !.id = question.id, !.dir = question.dir,
                            !.content = question.content] \in AuthorRequests
        BY <3>1 DEF Resting, AuthorRequests, Places
      <3>3. PICK request \in AuthorRequests :
              author' = [author EXCEPT ![r] = request] /\ request.at = "judge"
        BY <2>3, <3>2 DEF BeginValidate, Begins, Resting
      <3>4. request.at \notin Holding /\ request.at # "stage"
        BY <3>3 DEF Holding
      <3> QED
        BY <1>a, <2>a, <3>3, <3>4, RequestWaits
    <2>4. ASSUME JudgeReference(r) PROVE RequestsOK'
      <3>1. PICK pass \in BOOLEAN :
              author' = [author EXCEPT ![r].at = "stamp", ![r].passed = pass]
        BY <2>4 DEF JudgeReference
      <3>2. [author[r] EXCEPT !.at = "stamp", !.passed = pass] \in AuthorRequests
        BY <1>a DEF AuthorRequests, Places
      <3>3. PICK request \in AuthorRequests :
              author' = [author EXCEPT ![r] = request] /\ request.at = "stamp"
        BY <1>a, <3>1, <3>2 DEF RequestsOK, AuthorRequests
      <3>4. request.at \notin Holding /\ request.at # "stage"
        BY <3>3 DEF Holding
      <3> QED
        BY <1>a, <2>a, <3>3, <3>4, RequestWaits
    <2>5. RequestsOK'
      BY <1>1, <2>2, <2>3, <2>4
    <2> QED
      BY <1>b, <2>1, <2>5 DEF AuthoringInv, QuestionOK, RowsHaveFiles
  <1>2. CASE Drop(r)
    <2>1. /\ question # NoQuestion /\ question' = NoQuestion /\ usage = "free"
          /\ UNCHANGED <<usage, disk, saved>> /\ ~Holds(r)
      BY <1>2 DEF Drop, Found, Changeable, Is, Holds, Holding
    <2>2. question.dir \in Versions /\ question.dir \in 1 .. saved
      BY <1>b, <2>1 DEF Versions
    <2>3. [author[r] EXCEPT !.at = "sweep", !.dir = question.dir] \in AuthorRequests
      BY <1>a, <2>2 DEF AuthorRequests, Places
    <2>4. PICK request \in AuthorRequests :
            /\ author' = [author EXCEPT ![r] = request] /\ request.at = "sweep"
            /\ request.dir = question.dir
      BY <1>a, <1>2, <2>3 DEF Drop, RequestsOK, AuthorRequests
    <2>5. request.at \in Holding /\ request.at \notin {"publish", "write"}
      BY <2>4 DEF Holding
    <2>6. saved' \in Nat /\ saved <= saved' /\ request.dir \in 1 .. saved'
      BY <1>a, <2>1, <2>2, <2>4
    <2>7. \A s \in Authors : s # r /\ Holds(s) =>
            /\ disk'[author[s].dir] = disk[author[s].dir]
            /\ author[s].dir # request.dir
      BY <1>a, <2>1, <2>4
    <2>8. RequestsOK'
      BY <1>a, <2>1, <2>4, <2>5, <2>6, <2>7, RequestHolds
    <2> QED
      BY <1>b, <2>1, <2>8 DEF AuthoringInv, QuestionOK, RowsHaveFiles
  <1>3. CASE DropRefused(r) \/ AuthorDies(r)
    <2>1. Ends(r) /\ UNCHANGED <<question, usage, disk, saved>>
      BY <1>3 DEF DropRefused, AuthorDies
    <2>2. RequestsOK'
      BY <1>a, <2>1, RequestEnds
    <2> QED
      BY <1>b, <2>1, <2>2 DEF AuthoringInv, QuestionOK, RowsHaveFiles
  <1>4. CASE Stamp(r)
    <2>1. Ends(r) /\ UNCHANGED <<usage, disk, saved>>
      BY <1>4 DEF Stamp
    <2>2. CASE UNCHANGED question
      <3>1. RequestsOK'
        BY <1>a, <2>1, <2>2, RequestEnds
      <3> QED
        BY <1>b, <2>1, <2>2, <3>1 DEF AuthoringInv, QuestionOK, RowsHaveFiles
    <2>3. ASSUME NEW stamp \in Contents \union {NoContent},
                 question \in QuestionRows, question' = [question EXCEPT !.stamp = stamp]
          PROVE  AuthoringInv'
      <3>1. /\ question' \in QuestionRows /\ question'.dir = question.dir
            /\ question'.content = question.content
            /\ question # NoQuestion /\ question' # NoQuestion
        BY <2>3, AuthoringAssumption DEF QuestionRows
      <3>2. RequestsOK'
        BY <1>a, <2>1, <3>1, RequestEnds
      <3>3. question.dir <= saved
            /\ disk[question.dir] = [is |-> "published", content |-> question.content]
        BY <1>a, <1>b, <3>1
      <3>4. RowsHaveFiles'
        BY <2>1, <3>1, <3>3 DEF RowsHaveFiles
      <3> QED
        BY <1>b, <2>1, <3>1, <3>2, <3>3, <3>4 DEF AuthoringInv, QuestionOK
    <2>4. author[r].content \in Contents \union {NoContent}
      BY <1>a DEF AuthorRequests
    <2>5. \/ UNCHANGED question
          \/ \E stamp \in Contents \union {NoContent} :
               question \in QuestionRows /\ question' = [question EXCEPT !.stamp = stamp]
      BY <1>b, <1>4, <2>4 DEF Stamp, Found
    <2> QED
      BY <2>2, <2>3, <2>5
  <1> QED
    BY <1>1, <1>2, <1>3, <1>4

LEMMA AuthoringKeepsInv ==
  ASSUME AuthoringInv, [AuthoringNext]_authoringVars
  PROVE  AuthoringInv'
  <1>1. CASE \E r \in Authors : SaveSteps(r)
    BY <1>1, SaveKeepsInv
  <1>2. CASE \E r \in Authors : \/ BeginDelete(r) \/ Drop(r) \/ DropRefused(r)
                              \/ BeginValidate(r) \/ JudgeReference(r) \/ Stamp(r)
                              \/ AuthorDies(r)
    BY <1>2, OtherStepsKeepInv
  <1>3. CASE ContestOfQuestion \/ UNCHANGED authoringVars
    BY <1>3
       DEF ContestOfQuestion, authoringVars, AuthoringInv, QuestionOK, RequestsOK, RowsHaveFiles,
           Holds, Is
  <1> QED
    BY <1>1, <1>2, <1>3 DEF AuthoringNext

\* For any number of requests, deaths and failures, what a request is to publish,
\* switch to or take away is its own directory: no other request's, nor the row's.
THEOREM AuthoringInvHolds == AuthoringSpec => []AuthoringInv
  BY AuthoringInvInit, AuthoringKeepsInv, PTL DEF AuthoringSpec

\* For any number of saves, deletions, validations, deaths and failures of disk and
\* database, a question's row names a directory that is whole and is its own.
THEOREM AuthoringRowsHaveFiles == AuthoringSpec => []RowsHaveFiles
  <1>1. AuthoringInv => RowsHaveFiles
    BY DEF AuthoringInv, QuestionOK
  <1> QED
    BY <1>1, AuthoringInvHolds, PTL

\* While a contest with the question is live, no step of any request moves it.
LEMMA LiveStepStands ==
  ASSUME AuthoringInv, [AuthoringNext]_authoringVars, usage = "live", usage' = "live"
  PROVE  /\ question' # NoQuestion
         /\ question'.dir = question.dir /\ question'.content = question.content
  <1>1. question # NoQuestion /\ question \in QuestionRows
    BY DEF AuthoringInv, QuestionOK
  <1>2. CASE UNCHANGED question
    BY <1>1, <1>2
  <1>3. ASSUME NEW r \in Authors, SaveSteps(r)
        PROVE  UNCHANGED question
    BY <1>3
       DEF SaveSteps, BeginCreate, BeginUpdate, Stage, StageFails, PublishFiles, InsertQuestion,
           Switch, SaveFails, Remove, RemoveFails, Changeable
  <1>4. ASSUME NEW r \in Authors, Stamp(r)
        PROVE  UNCHANGED question \/ \E stamp : question' = [question EXCEPT !.stamp = stamp]
    BY <1>4 DEF Stamp
  <1>5. CASE \E stamp : question' = [question EXCEPT !.stamp = stamp]
    <2>1. PICK stamp : question' = [question EXCEPT !.stamp = stamp]
      BY <1>5
    <2>2. question'.dir = question.dir /\ question'.content = question.content
      BY <1>1, <2>1 DEF QuestionRows
    <2>3. question' # NoQuestion
      BY AuthoringKeepsInv DEF AuthoringInv, QuestionOK
    <2> QED
      BY <2>2, <2>3
  <1>6. ASSUME NEW r \in Authors,
               \/ BeginDelete(r) \/ Drop(r) \/ DropRefused(r)
               \/ BeginValidate(r) \/ JudgeReference(r) \/ AuthorDies(r)
        PROVE  UNCHANGED question
    BY <1>6
       DEF BeginDelete, Drop, DropRefused, BeginValidate, JudgeReference, AuthorDies, Changeable
  <1>7. CASE ContestOfQuestion \/ UNCHANGED authoringVars
    BY <1>2, <1>7 DEF ContestOfQuestion, authoringVars
  <1> QED
    BY <1>2, <1>3, <1>4, <1>5, <1>6, <1>7 DEF AuthoringNext

\* For any number of requests that began before the start, a live question stands.
THEOREM AuthoringLiveQuestionStands == AuthoringSpec => LiveQuestionStands
  BY AuthoringInvHolds, LiveStepStands, PTL DEF AuthoringSpec, LiveQuestionStands
===============================================================================
