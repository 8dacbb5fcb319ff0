--------------------------------- MODULE SignIn --------------------------------
(***************************************************************************)
(* From a provider's callback, a sign-up form or a password to an account, *)
(* from the account to a place in tonight's contest, and from there to a   *)
(* session.                                                                *)
(*                                                                         *)
(* Nothing holds a lock on accounts: a callback looks for its subject, then *)
(* for its verified email, then links or creates, and every other request  *)
(* may do the same in between.  A contest may end between the choice of it *)
(* and the enrolment, and an organizer may remove the participant between  *)
(* the enrolment and the session.                                          *)
(*                                                                         *)
(* The contest is Contest's, of which only its end matters here: it is     *)
(* open to a sign-in from its publication on, started or not.              *)
(***************************************************************************)
EXTENDS Contest, Sequences, FiniteSets

CONSTANTS
  Handlers,      \* sign-in requests in flight
  Identities,    \* what a provider says of somebody
  Emails,        \* addresses
  NoEmail,       \* none, or one the provider has not verified
  HasArena,      \* whether there is a practice arena
  MaxSignIns,    \* bounds the requests that arrive
  MaxRemovals    \* bounds removals, revocations and disabled accounts

Providers == {"google", "github"}

ASSUME SignInAssumption ==
  /\ NoEmail \notin Emails
  /\ \A i \in Identities :
       i.provider \in Providers /\ i.subject # NoEmail /\ i.email \in Emails \union {NoEmail}
  /\ HasArena \in BOOLEAN
  /\ {MaxSignIns, MaxRemovals} \subseteq Nat

VARIABLES
  users,          \* the User rows, in the order they were made
  participants,   \* the Participant rows; one removed leaves its place empty
  sessions,       \* the Session rows
  req,            \* [Handlers -> Request]
  signIns,        \* requests so far
  removals        \* removals so far

signInVars == <<users, participants, sessions, req, signIns, removals>>

-------------------------------------------------------------------------------
\* Rows and requests.

Unlinked == [p \in Providers |-> NoEmail]

User(role, email, password, links) ==
  [role |-> role, email |-> email, password |-> password, links |-> links, disabled |-> FALSE]

\* `by` is the identity of a callback, or the address of a form under the
\* provider "password"; user and pid are rows, 0 for none.
NoRequest == [at |-> "out", by |-> [provider |-> "password", subject |-> NoEmail, email |-> NoEmail],
              user |-> 0, pid |-> 0, contest |-> "none"]

Goes(r, at) == req' = [req EXCEPT ![r].at = at]

Finds(r, at, u) == req' = [req EXCEPT ![r].at = at, ![r].user = u]

\* Every refusal, told on the page the request came from.
Refused(r) == req' = [req EXCEPT ![r] = NoRequest]

\* The account behind a stable subject, and the one behind an address; 0 if none.
BySubject(i) ==
  LET linked == {u \in DOMAIN users : users[u].links[i.provider] = i.subject} IN
  IF linked = {} THEN 0 ELSE CHOOSE u \in linked : TRUE

ByEmail(e) ==
  LET owners == {u \in DOMAIN users : users[u].email = e /\ e # NoEmail} IN
  IF owners = {} THEN 0 ELSE CHOOSE u \in owners : TRUE

\* authenticated
Admits(r, u) == IF users[u].disabled THEN Refused(r) ELSE Finds(r, "choose", u)

SameRows == UNCHANGED <<users, participants, sessions, signIns, removals>>

-------------------------------------------------------------------------------
\* A provider's callback.

Arrival(r) ==
  /\ req[r] = NoRequest
  /\ signIns < MaxSignIns
  /\ signIns' = signIns + 1

\* The route up to identityFromCode.
Callback(r, i) ==
  /\ Arrival(r)
  /\ req' = [req EXCEPT ![r] = [NoRequest EXCEPT !.at = "subject", !.by = i]]
  /\ UNCHANGED <<users, participants, sessions, removals>>

\* linkedUserFor, 1: "The stable subject id is the only key trusted for this."
FindSubject(r) ==
  /\ req[r].at = "subject"
  /\ LET u == BySubject(req[r].by) IN
     IF u # 0 THEN Admits(r, u)
     ELSE Goes(r, IF req[r].by.email = NoEmail THEN "create" ELSE "email")
  /\ SameRows

\* linkedUserFor, 2: only a verified email is matched to an account.
FindEmail(r) ==
  /\ req[r].at = "email"
  /\ LET i == req[r].by
         u == ByEmail(i.email)
     IN \/ u = 0 /\ Goes(r, "create")
        \/ /\ u # 0
           /\ IF users[u].disabled \/ users[u].links[i.provider] \notin {NoEmail, i.subject}
              THEN Refused(r) ELSE Finds(r, "attach", u)
  /\ SameRows

Linked(u, i) == [users EXCEPT ![u].links[i.provider] = i.subject]

\* Mutant: the predicate of the read is not repeated in the write.
AttachUnguarded(r) ==
  /\ req[r].at = "attach"
  /\ LET i == req[r].by IN
     IF BySubject(i) \notin {0, req[r].user}
     THEN Goes(r, "raced") /\ UNCHANGED users
     ELSE users' = Linked(req[r].user, i) /\ Goes(r, "choose")
  /\ UNCHANGED <<participants, sessions, signIns, removals>>

\* The guarded update: nothing matches and the account is linked elsewhere, or
\* the subject is and its unique key says so, or the link is made.
Attach(r) ==
  /\ req[r].at = "attach"
  /\ LET i == req[r].by IN
     IF users[req[r].user].links[i.provider] \notin {NoEmail, i.subject}
     THEN Refused(r) /\ UNCHANGED users
     ELSE IF BySubject(i) \notin {0, req[r].user}
     THEN Goes(r, "raced") /\ UNCHANGED users
     ELSE users' = Linked(req[r].user, i) /\ Goes(r, "choose")
  /\ UNCHANGED <<participants, sessions, signIns, removals>>

\* "Subject identity is authoritative": the account the race went to.
Raced(r) ==
  /\ req[r].at = "raced"
  /\ LET u == BySubject(req[r].by) IN IF u = 0 THEN Refused(r) ELSE Admits(r, u)
  /\ SameRows

\* selfSignUpFromOAuth's insert, dropped if the subject or the address is taken.
Create(r) ==
  /\ req[r].at = "create"
  /\ LET i == req[r].by IN
     users' = IF BySubject(i) # 0 \/ ByEmail(i.email) # 0 THEN users
              ELSE Append(users, User("COMPETITOR", i.email, FALSE,
                                      [Unlinked EXCEPT ![i.provider] = i.subject]))
  /\ Goes(r, "resolve")
  /\ UNCHANGED <<participants, sessions, signIns, removals>>

\* Whoever has the subject now; or, if the address was taken by another provider
\* or a form, the resolver once more.
Resolve(r) ==
  /\ req[r].at = "resolve"
  /\ LET u == BySubject(req[r].by) IN
     IF u # 0 THEN Admits(r, u)
     ELSE IF req[r].by.email # NoEmail THEN Goes(r, "subject") ELSE Refused(r)
  /\ SameRows

-------------------------------------------------------------------------------
\* The forms.

Form(e) == [NoRequest.by EXCEPT !.email = e]

\* createCompetitorAccount: the unique address decides.
SignUp(r, e) ==
  /\ Arrival(r)
  /\ IF ByEmail(e) # 0 THEN UNCHANGED <<users, req>>
     ELSE /\ users' = Append(users, User("COMPETITOR", e, TRUE, Unlinked))
          /\ req' = [req EXCEPT ![r] = [NoRequest EXCEPT !.at = "choose", !.by = Form(e),
                                                        !.user = Len(users')]]
  /\ UNCHANGED <<participants, sessions, removals>>

\* authenticateWithPassword with the right password: what it knows of the account
\* it read before the check, which takes its time.
LogIn(r, e) ==
  /\ Arrival(r)
  /\ LET u == ByEmail(e) IN
     IF u = 0 \/ ~users[u].password \/ users[u].disabled THEN UNCHANGED req
     ELSE req' = [req EXCEPT ![r] = [NoRequest EXCEPT !.at = "choose", !.by = Form(e), !.user = u]]
  /\ UNCHANGED <<users, participants, sessions, removals>>

-------------------------------------------------------------------------------
\* A place in the contest.

\* What contestsForUser asks of a contest, and the enrolment again.
Joinable(row, now) ==
  /\ row.endsAt > now
  /\ \/ row.state = "SCHEDULED"
     \/ row.state \in {"RUNNING", "FROZEN"} /\ row.startsAt <= now

\* ensureEnrolled's choice: a real contest before the arena, which is always open.
\* An organizer is enrolled nowhere.
Choose(r) ==
  /\ req[r].at = "choose"
  /\ IF users[req[r].user].role = "ADMIN" THEN Goes(r, "issue")
     ELSE IF Joinable(contest, clock) THEN req' = [req EXCEPT ![r].at = "enrol", ![r].contest = "tonight"]
     ELSE IF HasArena THEN req' = [req EXCEPT ![r].at = "enrol", ![r].contest = "arena"]
     ELSE Refused(r)
  /\ SameRows

\* The account's participant in a contest.
Place(u, c) ==
  {p \in DOMAIN participants :
     participants[p].there /\ participants[p].user = u /\ participants[p].contest = c}

Seated(r, p) == req' = [req EXCEPT ![r].at = "issue", ![r].pid = p]

Enrolled(r) ==
  /\ participants' = Append(participants, [user |-> req[r].user, contest |-> req[r].contest, there |-> TRUE])
  /\ Seated(r, Len(participants'))

\* The transaction, with the row and the instant read under the contest's lock.
Enrol(r) ==
  /\ req[r].at = "enrol"
  /\ LET place == Place(req[r].user, req[r].contest) IN
     IF place # {} THEN Seated(r, CHOOSE p \in place : TRUE) /\ UNCHANGED participants
     ELSE IF req[r].contest = "arena" \/ Joinable(contest, clock) THEN Enrolled(r)
     ELSE Refused(r) /\ UNCHANGED participants
  /\ UNCHANGED <<users, sessions, signIns, removals>>

\* issueSession, whose insert fails if the participant is no longer there.
Issue(r) ==
  /\ req[r].at = "issue"
  /\ LET p == req[r].pid IN
     sessions' = IF p # 0 /\ ~participants[p].there THEN sessions
                 ELSE Append(sessions, [by |-> req[r].by, user |-> req[r].user, pid |-> p,
                                        contest |-> req[r].contest, live |-> TRUE])
  /\ Refused(r)
  /\ UNCHANGED <<users, participants, signIns, removals>>

-------------------------------------------------------------------------------
\* Getting rid of somebody.

Removal == removals < MaxRemovals /\ removals' = removals + 1

Dead(S) == [s \in DOMAIN sessions |-> [sessions[s] EXCEPT !.live = @ /\ s \notin S]]

SessionsOf(p) == {s \in DOMAIN sessions : sessions[s].pid = p}

\* revokeSession, revokeSessionByToken
Revoke(s) ==
  /\ Removal
  /\ sessions[s].live
  /\ sessions' = Dead({s})
  /\ UNCHANGED <<users, participants, req, signIns>>

\* revokeParticipantSessions
RevokeAll(p) ==
  /\ Removal
  /\ sessions' = Dead(SessionsOf(p))
  /\ UNCHANGED <<users, participants, req, signIns>>

\* Mutant: the sessions stay when their participant goes.
AdminRemoveParticipantOnly(p) ==
  /\ Removal
  /\ participants[p].there
  /\ participants' = [participants EXCEPT ![p].there = FALSE]
  /\ UNCHANGED <<users, sessions, req, signIns>>

\* adminRemoveParticipant; the sessions go with the row.
AdminRemoveParticipant(p) ==
  /\ Removal
  /\ participants[p].there
  /\ participants' = [participants EXCEPT ![p].there = FALSE]
  /\ sessions' = Dead(SessionsOf(p))
  /\ UNCHANGED <<users, req, signIns>>

\* Done in the database: no route of the program disables an account.
Disable(u) ==
  /\ Removal
  /\ ~users[u].disabled
  /\ users' = [users EXCEPT ![u].disabled = TRUE]
  /\ UNCHANGED <<participants, sessions, req, signIns>>

-------------------------------------------------------------------------------
\* Contest's one transaction that matters here, by an organizer's button or by the
\* clock: a contest that was open, or soon to be, is over.
ContestEnds ==
  /\ contest.state \in {"SCHEDULED", "RUNNING", "FROZEN"}
  /\ contest' = Ended(contest, clock)
  /\ UNCHANGED <<clock, setup, calls>>

\* An organizer may have given somebody an account by hand.
SignInInit ==
  /\ \/ users = <<>>
     \/ \E role \in {"ADMIN", "COMPETITOR"}, e \in Emails : users = <<User(role, e, TRUE, Unlinked)>>
  /\ participants = <<>> /\ sessions = <<>>
  /\ req = [r \in Handlers |-> NoRequest]
  /\ signIns = 0 /\ removals = 0

Resolving(r) ==
  FindSubject(r) \/ FindEmail(r) \/ Attach(r) \/ Raced(r) \/ Create(r) \/ Resolve(r)

Entering(r) == Choose(r) \/ Enrol(r) \/ Issue(r)

SignInStep ==
  \/ \E r \in Handlers :
       \/ \E i \in Identities : Callback(r, i)
       \/ \E e \in Emails : SignUp(r, e) \/ LogIn(r, e)
       \/ Resolving(r) \/ Entering(r)
  \/ \E s \in DOMAIN sessions : Revoke(s)
  \/ \E p \in DOMAIN participants : RevokeAll(p) \/ AdminRemoveParticipant(p)
  \/ \E u \in DOMAIN users : Disable(u)

SignInNext ==
  \/ SignInStep /\ UNCHANGED contestVars
  \/ (ContestEnds \/ Tick) /\ UNCHANGED signInVars

\* On any night, whatever has become of the contest by then.
SignInSpec == SignInInit /\ [][SignInNext]_<<contestVars, signInVars>>

-------------------------------------------------------------------------------
\* Properties.

\* Whoever is on the way in, or is in, is in the account that holds the subject
\* the provider vouched for, or the address that was typed: no race between
\* providers, forms and retries signs anybody into somebody else's account, and
\* no later sign-in takes a link away from the account it was made for.
Owns(u, by) ==
  IF by.provider = "password" THEN users[u].email = by.email
  ELSE users[u].links[by.provider] = by.subject

SignedInAsOneself ==
  /\ \A r \in Handlers : req[r].at \in {"choose", "enrol", "issue"} => Owns(req[r].user, req[r].by)
  /\ \A s \in DOMAIN sessions : Owns(sessions[s].user, sessions[s].by)

\* ensureEnrolled: "Do not mint a new row into history after the choice query has
\* gone stale."  Nobody becomes a participant of a contest that is over, however
\* long the callback waited for the lock.
NobodyEntersHistory ==
  [][\A p \in DOMAIN participants' \ DOMAIN participants :
       participants'[p].contest = "arena" \/ (contest.state # "ENDED" /\ clock < contest.endsAt)]_signInVars

\* "A session that cannot compete must not be minted at all": a live session of a
\* competitor is the session of a participant who is there, is of that account,
\* and competes in that contest, and an account has one such place per contest.
SessionsCompete ==
  \A s \in DOMAIN sessions : sessions[s].live /\ users[sessions[s].user].role = "COMPETITOR" =>
    sessions[s].pid # 0 /\ Place(sessions[s].user, sessions[s].contest) = {sessions[s].pid}
===============================================================================
