-------------------------------- MODULE Authoring -------------------------------
(***************************************************************************)
(* How a question is written: its row in the database, its test files on   *)
(* the disk the judge reads, and the stamp that says its reference         *)
(* solution passed them.                                                   *)
(*                                                                         *)
(* A save writes a new directory, publishes it with one rename, and then   *)
(* switches the row to it in a transaction; the directory of before goes   *)
(* last.  A validation reads the row, waits for the judge, and stamps.     *)
(* Every await is a step, and a request may die at any of them.            *)
(*                                                                         *)
(* One question, at one slug: a save under a slug that is taken is another *)
(* question.  Its content is all that the stamp is about: reference,       *)
(* cases, limits and comparator.  A transaction that fails has changed     *)
(* nothing.                                                                *)
(***************************************************************************)
EXTENDS Integers

CONSTANTS
  Contents,       \* what a question may say
  Authors,        \* requests of organizers in flight
  NoContent,      \* no stamp
  NoQuestion,     \* no row, and no directory
  MaxVersions,    \* bounds the saves
  MaxMishaps      \* bounds deaths and failures of disk, database and judge

Versions == 1 .. MaxVersions

\* Problem and its TestCase rows.  `id` is the version it was created with; stamp
\* is referenceValidatedAt, with what the judge saw.
QuestionRows ==
  [id : Versions, content : Contents, dir : Versions, stamp : Contents \union {NoContent}]

Directories == [is : {"absent", "staged", "published"}, content : Contents \union {NoContent}]
Absent == [is |-> "absent", content |-> NoContent]

ASSUME AuthoringAssumption ==
  /\ NoContent \notin Contents
  /\ NoQuestion \notin QuestionRows \union Versions
  /\ {MaxVersions, MaxMishaps} \subseteq Nat

VARIABLES
  question,   \* the question's row, or NoQuestion
  usage,      \* of the question: "free", in a "live" contest, or "used", with submissions
  disk,       \* [Versions -> Directories]
  saved,      \* directories made so far
  author,     \* [Authors -> Request], where each request is and what it holds
  mishaps     \* how many there were

authoringVars == <<question, usage, disk, saved, author, mishaps>>

Places == {"idle", "stage", "publish", "write", "discard", "sweep",   \* a save
           "drop",                                                    \* a deletion
           "judge", "stamp"}                                          \* a validation

\* id is the question's, or NoQuestion for a new one; dir the directory a save has
\* made, or the one its sweep takes away; passed what the judge said.
AuthorRequests ==
  [at : Places, id : Versions \union {NoQuestion}, content : Contents \union {NoContent},
   dir : Versions \union {NoQuestion}, passed : BOOLEAN]

Resting == [at |-> "idle", id |-> NoQuestion, content |-> NoContent, dir |-> NoQuestion,
            passed |-> FALSE]

-------------------------------------------------------------------------------
Is(r, p) == author[r].at = p
Moves(r, p) == author' = [author EXCEPT ![r].at = p]
Ends(r) == author' = [author EXCEPT ![r] = Resting]
Begins(r, request) == Is(r, "idle") /\ author' = [author EXCEPT ![r] = request]

Mishap == mishaps < MaxMishaps /\ mishaps' = mishaps + 1

\* assertEditable and assertDeletable: no live contest uses it, nobody submitted to it.
Changeable == usage = "free"

\* The row that request r is about is still there: a new question of the same
\* slug is another row.
Found(r) == question # NoQuestion /\ question.id = author[r].id

-------------------------------------------------------------------------------
\* createAuthoredProblem and updateAuthoredProblem.

BeginCreate(r, c) ==
  /\ question = NoQuestion
  /\ Begins(r, [Resting EXCEPT !.at = "stage", !.content = c])
  /\ UNCHANGED <<question, usage, disk, saved, mishaps>>

BeginUpdate(r, c) ==
  /\ question # NoQuestion /\ Changeable
  /\ Begins(r, [Resting EXCEPT !.at = "stage", !.id = question.id, !.content = c])
  /\ UNCHANGED <<question, usage, disk, saved, mishaps>>

NewDirectory(r) ==
  /\ saved < MaxVersions
  /\ saved' = saved + 1
  /\ disk' = [disk EXCEPT ![saved'] = [is |-> "staged", content |-> author[r].content]]

\* stageTestFiles.
Stage(r) ==
  /\ Is(r, "stage")
  /\ NewDirectory(r)
  /\ author' = [author EXCEPT ![r].at = "publish", ![r].dir = saved']
  /\ UNCHANGED <<question, usage, mishaps>>

\* A failure there is outside the try, and what was written stays.
StageFails(r) ==
  /\ Is(r, "stage")
  /\ NewDirectory(r)
  /\ Mishap /\ Ends(r)
  /\ UNCHANGED <<question, usage>>

\* Mutant: the row is switched first, and the directory published after.
PublishLater(r) ==
  /\ Is(r, "publish")
  /\ Moves(r, "write")
  /\ UNCHANGED <<question, usage, disk, saved, mishaps>>

\* The rename.
PublishFiles(r) ==
  /\ Is(r, "publish")
  /\ disk' = [disk EXCEPT ![author[r].dir].is = "published"]
  /\ Moves(r, "write")
  /\ UNCHANGED <<question, usage, saved, mishaps>>

NewRow(r, id) ==
  question' = [id |-> id, content |-> author[r].content, dir |-> author[r].dir,
               stamp |-> NoContent]

InsertQuestion(r) ==
  /\ Is(r, "write") /\ author[r].id = NoQuestion
  /\ question = NoQuestion
  /\ NewRow(r, author[r].dir)
  /\ usage' = "free"
  /\ Ends(r)
  /\ UNCHANGED <<disk, saved, mishaps>>

\* Mutant: only the read before the locks asks whether it may be edited.
SwitchAnyway(r) ==
  /\ Is(r, "write") /\ Found(r)
  /\ NewRow(r, question.id)
  /\ author' = [author EXCEPT ![r].at = "sweep", ![r].dir = question.dir]
  /\ UNCHANGED <<usage, disk, saved, mishaps>>

\* Under the locks of the question and of its contests.
Switch(r) ==
  /\ Is(r, "write") /\ Found(r)
  /\ Changeable
  /\ NewRow(r, question.id)
  /\ author' = [author EXCEPT ![r].at = "sweep", ![r].dir = question.dir]
  /\ UNCHANGED <<usage, disk, saved, mishaps>>

\* The slug is taken, the question is gone or not to be changed; or the rename or
\* the transaction fails.
SaveFails(r) ==
  /\ \/ /\ Is(r, "write") /\ UNCHANGED mishaps
        /\ IF author[r].id = NoQuestion THEN question # NoQuestion
                                        ELSE ~Found(r) \/ ~Changeable
     \/ author[r].at \in {"publish", "write"} /\ Mishap
  /\ Moves(r, "discard")
  /\ UNCHANGED <<question, usage, disk, saved>>

\* discard takes away what this save made, the sweep what the row had before.
Remove(r) ==
  /\ author[r].at \in {"discard", "sweep"}
  /\ disk' = [disk EXCEPT ![author[r].dir] = Absent]
  /\ Ends(r)
  /\ UNCHANGED <<question, usage, saved, mishaps>>

\* removeStoredFiles swallows its errors.
RemoveFails(r) ==
  /\ author[r].at \in {"discard", "sweep"}
  /\ Mishap /\ Ends(r)
  /\ UNCHANGED <<question, usage, disk, saved>>

-------------------------------------------------------------------------------
\* deleteAuthoredProblem.

BeginDelete(r) ==
  /\ question # NoQuestion /\ Changeable
  /\ Begins(r, [Resting EXCEPT !.at = "drop", !.id = question.id])
  /\ UNCHANGED <<question, usage, disk, saved, mishaps>>

Drop(r) ==
  /\ Is(r, "drop") /\ Found(r) /\ Changeable
  /\ question' = NoQuestion
  /\ author' = [author EXCEPT ![r].at = "sweep", ![r].dir = question.dir]
  /\ UNCHANGED <<usage, disk, saved, mishaps>>

DropRefused(r) ==
  /\ Is(r, "drop")
  /\ ~Found(r) \/ ~Changeable
  /\ Ends(r)
  /\ UNCHANGED <<question, usage, disk, saved, mishaps>>

-------------------------------------------------------------------------------
\* validateAuthoredProblem.

BeginValidate(r) ==
  /\ question # NoQuestion
  /\ Begins(r, [Resting EXCEPT !.at = "judge", !.id = question.id, !.dir = question.dir,
                               !.content = question.content])
  /\ UNCHANGED <<question, usage, disk, saved, mishaps>>

\* The worker reads the files the row named; without them nothing passes.
JudgeReference(r) ==
  /\ Is(r, "judge")
  /\ \E pass \in BOOLEAN :
       /\ pass => disk[author[r].dir].is = "published"
       /\ author' = [author EXCEPT ![r].at = "stamp", ![r].passed = pass]
  /\ UNCHANGED <<question, usage, disk, saved, mishaps>>

\* The update names the row, and nothing of what was judged.
Stamp(r) ==
  /\ Is(r, "stamp")
  /\ Ends(r)
  /\ \/ /\ Found(r)
        /\ question' = [question EXCEPT !.stamp = IF author[r].passed THEN author[r].content
                                                                       ELSE NoContent]
     \/ ~Found(r) /\ UNCHANGED question
  /\ UNCHANGED <<usage, disk, saved, mishaps>>

-------------------------------------------------------------------------------
\* A request dies, or its judge job times out.
AuthorDies(r) ==
  /\ ~Is(r, "idle")
  /\ Mishap /\ Ends(r)
  /\ UNCHANGED <<question, usage, disk, saved>>

\* A contest with the question starts, and ends with submissions or without.
ContestOfQuestion ==
  /\ question # NoQuestion
  /\ \/ usage = "free" /\ usage' = "live"
     \/ usage = "live" /\ usage' \in {"free", "used"}
  /\ UNCHANGED <<question, disk, saved, author, mishaps>>

AuthoringInit ==
  /\ question = NoQuestion /\ usage = "free"
  /\ disk = [d \in Versions |-> Absent] /\ saved = 0
  /\ author = [r \in Authors |-> Resting]
  /\ mishaps = 0

SaveSteps(r) ==
  \/ \E c \in Contents : BeginCreate(r, c) \/ BeginUpdate(r, c)
  \/ Stage(r) \/ StageFails(r) \/ PublishFiles(r)
  \/ InsertQuestion(r) \/ Switch(r) \/ SaveFails(r) \/ Remove(r) \/ RemoveFails(r)

AuthoringNext ==
  \/ \E r \in Authors :
       \/ SaveSteps(r)
       \/ BeginDelete(r) \/ Drop(r) \/ DropRefused(r)
       \/ BeginValidate(r) \/ JudgeReference(r) \/ Stamp(r)
       \/ AuthorDies(r)
  \/ ContestOfQuestion

AuthoringSpec == AuthoringInit /\ [][AuthoringNext]_authoringVars

-------------------------------------------------------------------------------
\* Properties.

\* "A crash can leave an unreferenced directory, but can never leave committed
\* rows pointing at half-renamed files": whatever saves, deletions and deaths run
\* into each other, the row's files are there and are the ones it was saved with.
RowsHaveFiles ==
  question # NoQuestion =>
    disk[question.dir] = [is |-> "published", content |-> question.content]

\* A save that began before a contest went live does not "move the question
\* underneath students": while it is live its cases stay what they are.
LiveQuestionStands ==
  [][usage = "live" /\ usage' = "live" =>
       /\ question' # NoQuestion
       /\ question'.dir = question.dir /\ question'.content = question.content]_authoringVars

\* Claims of the code's comments that the code does not keep.

\* "The stamp must always describe the current content", and an edit clears it so
\* that no "stale green check outlives the thing it certified".
StampDescribesContent ==
  question # NoQuestion /\ question.stamp # NoContent => question.stamp = question.content
===============================================================================
