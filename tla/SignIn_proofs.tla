------------------------------ MODULE SignIn_proofs ----------------------------
(***************************************************************************)
(* Who ends up in whose account, and in which contest, for any number of   *)
(* requests, identities, accounts and removals.                            *)
(*                                                                         *)
(* There is no lock on accounts.  What carries a request over its awaits   *)
(* is that ownership, once there, stays: an address is never changed, and  *)
(* a link is written only where there was none or the same.  What carries  *)
(* a session is that a participant's row and its sessions go together, and *)
(* that an account is seated once in a contest.                            *)
(***************************************************************************)
EXTENDS SignIn, TLAPS

Subjects == {i.subject : i \in Identities} \union {NoEmail}

UserRecords ==
  [role : {"ADMIN", "COMPETITOR"}, email : Emails \union {NoEmail}, password : BOOLEAN,
   links : [Providers -> Subjects], disabled : BOOLEAN]

Forms == {Form(e) : e \in Emails \union {NoEmail}}

RequestRecords ==
  [at : {"out", "subject", "email", "attach", "raced", "create", "resolve", "choose", "enrol", "issue"},
   by : Identities \union Forms, user : Nat, pid : Nat, contest : {"none", "tonight", "arena"}]

ParticipantRecords == [user : Nat, contest : {"none", "tonight", "arena"}, there : BOOLEAN]

SessionRecords ==
  [by : Identities \union Forms, user : Nat, pid : Nat, contest : {"none", "tonight", "arena"},
   live : BOOLEAN]

SignInTypeOK ==
  /\ users \in Seq(UserRecords)
  /\ participants \in Seq(ParticipantRecords)
  /\ sessions \in Seq(SessionRecords)
  /\ req \in [Handlers -> RequestRecords]

\* A request that has an account has one of those there are; it has a right to it
\* once it has been admitted.
Admitted(q) == q.at \in {"choose", "enrol", "issue"}

RequestOK(q) ==
  /\ q.at \in {"subject", "email", "attach", "raced", "create", "resolve"} => q.by \in Identities
  /\ q.at \in {"attach", "raced"} => q.user \in DOMAIN users
  /\ Admitted(q) => q.user \in DOMAIN users /\ Owns(q.user, q.by)

SessionOK(s) == s.user \in DOMAIN users /\ Owns(s.user, s.by)

OwnInv ==
  /\ SignInTypeOK
  /\ \A r \in Handlers : RequestOK(req[r])
  /\ \A s \in DOMAIN sessions : SessionOK(sessions[s])

-------------------------------------------------------------------------------
\* Accounts.

\* What no step does to an account: it stays, with its role and its address, and a
\* link once made is never another's.
AccountsStand ==
  \A u \in DOMAIN users :
    /\ u \in DOMAIN users'
    /\ users'[u].role = users[u].role
    /\ users'[u].email = users[u].email
    /\ \A p \in Providers : users[u].links[p] # NoEmail => users'[u].links[p] = users[u].links[p]

LEMMA FormsArePasswords ==
  ASSUME NEW f \in Forms
  PROVE  f.provider = "password"
  BY DEF Forms, Form, NoRequest

LEMMA OwnershipStands ==
  ASSUME SignInTypeOK, AccountsStand, NEW u \in DOMAIN users, NEW by \in Identities \union Forms,
         Owns(u, by)
  PROVE  u \in DOMAIN users' /\ Owns(u, by)'
  <1>1. CASE by.provider = "password"
    BY <1>1 DEF Owns, AccountsStand
  <1>2. CASE by.provider # "password"
    <2>1. by \in Identities /\ by.provider \in Providers /\ by.subject # NoEmail
      BY <1>2, FormsArePasswords, SignInAssumption
    <2>2. users[u].links[by.provider] = by.subject
      BY <1>2 DEF Owns
    <2>3. users'[u].links[by.provider] = by.subject
      BY <2>1, <2>2 DEF AccountsStand
    <2> QED
      BY <1>2, <2>3 DEF Owns, AccountsStand
  <1> QED
    BY <1>1, <1>2

\* The lookups find what they name.
LEMMA SubjectFound ==
  ASSUME SignInTypeOK, NEW i \in Identities, BySubject(i) # 0
  PROVE  BySubject(i) \in DOMAIN users /\ Owns(BySubject(i), i)
  <1> DEFINE linked == {u \in DOMAIN users : users[u].links[i.provider] = i.subject}
  <1>1. linked # {}
    BY DEF BySubject
  <1>2. BySubject(i) = CHOOSE u \in linked : TRUE
    BY <1>1 DEF BySubject
  <1>3. BySubject(i) \in linked
    BY <1>1, <1>2
  <1>4. i.provider # "password"
    BY SignInAssumption DEF Providers
  <1> QED
    BY <1>3, <1>4 DEF Owns

LEMMA AddressFound ==
  ASSUME NEW e, ByEmail(e) # 0
  PROVE  ByEmail(e) \in DOMAIN users /\ users[ByEmail(e)].email = e
  <1> DEFINE owners == {u \in DOMAIN users : users[u].email = e /\ e # NoEmail}
  <1>1. owners # {}
    BY DEF ByEmail
  <1>2. ByEmail(e) = CHOOSE u \in owners : TRUE
    BY <1>1 DEF ByEmail
  <1>3. ByEmail(e) \in owners
    BY <1>1, <1>2
  <1> QED
    BY <1>3

\* A new account, or one linked.
LEMMA AccountAdded ==
  ASSUME SignInTypeOK, NEW user \in UserRecords, users' = Append(users, user)
  PROVE  /\ users' \in Seq(UserRecords) /\ AccountsStand
         /\ Len(users') \in DOMAIN users' /\ users'[Len(users')] = user
  BY DEF SignInTypeOK, AccountsStand

LEMMA AccountsUnchanged ==
  ASSUME SignInTypeOK, users' = users
  PROVE  users' \in Seq(UserRecords) /\ AccountsStand
  BY DEF SignInTypeOK, AccountsStand

LEMMA AccountLinked ==
  ASSUME SignInTypeOK, NEW i \in Identities, NEW u \in DOMAIN users,
         users[u].links[i.provider] \in {NoEmail, i.subject}, users' = Linked(u, i)
  PROVE  users' \in Seq(UserRecords) /\ AccountsStand /\ u \in DOMAIN users' /\ Owns(u, i)'
  <1> DEFINE links == [users[u].links EXCEPT ![i.provider] = i.subject]
             user == [users[u] EXCEPT !.links = links]
  <1>1. i.provider \in Providers /\ i.provider # "password" /\ i.subject \in Subjects
    BY SignInAssumption DEF Providers, Subjects
  <1>2. users[u] \in UserRecords /\ users \in Seq(UserRecords)
    BY DEF SignInTypeOK
  <1>3. /\ links \in [Providers -> Subjects] /\ links[i.provider] = i.subject
        /\ \A p \in Providers : users[u].links[p] # NoEmail => links[p] = users[u].links[p]
    BY <1>1, <1>2 DEF UserRecords
  <1>4. users' = [users EXCEPT ![u] = user]
    BY <1>2 DEF Linked
  <1> HIDE DEF links
  <1>5. /\ user \in UserRecords /\ user.links = links
        /\ user.role = users[u].role /\ user.email = users[u].email
    BY <1>2, <1>3 DEF UserRecords
  <1> HIDE DEF user
  <1>6. users' \in Seq(UserRecords) /\ DOMAIN users' = DOMAIN users /\ users'[u] = user
        /\ \A v \in DOMAIN users \ {u} : users'[v] = users[v]
    BY <1>2, <1>4, <1>5
  <1>7. AccountsStand
    BY <1>3, <1>5, <1>6 DEF AccountsStand
  <1> QED
    BY <1>1, <1>3, <1>5, <1>6, <1>7 DEF Owns

-------------------------------------------------------------------------------
\* Requests.

\* What held of a request or a session still holds.
LEMMA StillOK ==
  ASSUME SignInTypeOK, AccountsStand
  PROVE  /\ \A q \in RequestRecords : RequestOK(q) => RequestOK(q)'
         /\ \A s \in SessionRecords : SessionOK(s) => SessionOK(s)'
  <1>1. ASSUME NEW q \in RequestRecords, RequestOK(q) PROVE RequestOK(q)'
    <2>1. Admitted(q) => q.user \in DOMAIN users' /\ Owns(q.user, q.by)'
      BY <1>1, OwnershipStands DEF RequestOK, RequestRecords
    <2>2. q.at \in {"attach", "raced"} => q.user \in DOMAIN users'
      BY <1>1 DEF RequestOK, AccountsStand
    <2> QED
      BY <1>1, <2>1, <2>2 DEF RequestOK, Admitted
  <1>2. ASSUME NEW s \in SessionRecords, SessionOK(s) PROVE SessionOK(s)'
    BY <1>2, OwnershipStands DEF SessionOK, SessionRecords
  <1> QED
    BY <1>1, <1>2

\* A step of request r, into k.
LEMMA RequestStep ==
  ASSUME OwnInv, AccountsStand, users' \in Seq(UserRecords),
         participants' \in Seq(ParticipantRecords), UNCHANGED sessions,
         NEW r \in Handlers, NEW k \in RequestRecords,
         req' = [req EXCEPT ![r] = k], RequestOK(k)'
  PROVE  OwnInv'
  <1>1. /\ req \in [Handlers -> RequestRecords] /\ sessions \in Seq(SessionRecords)
        /\ \A q \in Handlers : RequestOK(req[q])
        /\ \A s \in DOMAIN sessions : SessionOK(sessions[s])
        /\ SignInTypeOK
    BY DEF OwnInv, SignInTypeOK
  <1>2. SignInTypeOK'
    BY <1>1 DEF SignInTypeOK
  <1>3. ASSUME NEW q \in Handlers PROVE RequestOK(req[q])'
    <2>1. CASE q = r
      <3>1. req'[q] = k
        BY <1>1, <2>1
      <3> QED
        BY <3>1 DEF RequestOK, Owns, Admitted
    <2>2. CASE q # r
      <3>1. req'[q] = req[q] /\ req[q] \in RequestRecords /\ RequestOK(req[q])
        BY <1>1, <2>2
      <3> DEFINE old == req[q]
      <3>2. old \in RequestRecords /\ RequestOK(old) /\ req'[q] = old
        BY <3>1
      <3> HIDE DEF old
      <3>3. PICK o : o = old
        OBVIOUS
      <3>4. RequestOK(o)'
        BY <1>1, <3>2, <3>3, StillOK
      <3> QED
        BY <3>2, <3>3, <3>4 DEF RequestOK, Owns, Admitted
    <2> QED
      BY <2>1, <2>2
  <1>4. ASSUME NEW s \in DOMAIN sessions' PROVE SessionOK(sessions[s])'
    <2>1. PICK o \in SessionRecords : o = sessions[s] /\ sessions'[s] = o /\ SessionOK(o)
      BY <1>1
    <2>2. SessionOK(o)'
      BY <1>1, <2>1, StillOK
    <2> QED
      BY <2>1, <2>2 DEF SessionOK, Owns
  <1> QED
    BY <1>2, <1>3, <1>4 DEF OwnInv

\* The ways a request moves.
Steps == {"out", "subject", "email", "attach", "raced", "create", "resolve", "choose", "enrol", "issue"}

LEMMA RequestGoes ==
  ASSUME OwnInv, NEW r \in Handlers, NEW at \in Steps, Goes(r, at)
  PROVE  \E k \in RequestRecords :
           /\ req' = [req EXCEPT ![r] = k]
           /\ k.at = at /\ k.by = req[r].by /\ k.user = req[r].user
  <1> DEFINE k == [req[r] EXCEPT !.at = at]
  <1>1. req \in [Handlers -> RequestRecords]
    BY DEF OwnInv, SignInTypeOK
  <1>2. k \in RequestRecords /\ k.at = at /\ k.by = req[r].by /\ k.user = req[r].user
    BY <1>1 DEF RequestRecords, Steps
  <1>3. req' = [req EXCEPT ![r] = k]
    BY <1>1 DEF Goes
  <1> QED
    BY <1>2, <1>3

LEMMA RequestFinds ==
  ASSUME OwnInv, NEW r \in Handlers, NEW at \in Steps, NEW u \in Nat, Finds(r, at, u)
  PROVE  \E k \in RequestRecords :
           /\ req' = [req EXCEPT ![r] = k]
           /\ k.at = at /\ k.by = req[r].by /\ k.user = u
  <1> DEFINE k == [req[r] EXCEPT !.at = at, !.user = u]
  <1>1. req \in [Handlers -> RequestRecords]
    BY DEF OwnInv, SignInTypeOK
  <1>2. k \in RequestRecords /\ k.at = at /\ k.by = req[r].by /\ k.user = u
    BY <1>1 DEF RequestRecords, Steps
  <1>3. req' = [req EXCEPT ![r] = k]
    BY <1>1 DEF Finds
  <1> QED
    BY <1>2, <1>3

LEMMA NoRequestOK ==
  NoRequest \in RequestRecords /\ NoRequest.at = "out" /\ RequestOK(NoRequest)'
  <1>1. NoRequest.by = Form(NoEmail)
    BY DEF Form, NoRequest
  <1>2. NoRequest.by \in Forms
    BY <1>1 DEF Forms
  <1>3. NoRequest \in RequestRecords
    BY <1>2 DEF NoRequest, RequestRecords
  <1> QED
    BY <1>3 DEF NoRequest, RequestOK, Admitted

\* Nothing changes but where request r stands.
LEMMA SameAccounts ==
  ASSUME OwnInv, UNCHANGED <<users, participants, sessions>>, NEW r \in Handlers,
         NEW k \in RequestRecords, req' = [req EXCEPT ![r] = k], RequestOK(k)
  PROVE  OwnInv'
  <1>1. SignInTypeOK /\ participants' \in Seq(ParticipantRecords)
    BY DEF OwnInv, SignInTypeOK
  <1>2. users' \in Seq(UserRecords) /\ AccountsStand
    BY <1>1, AccountsUnchanged
  <1>3. RequestOK(k)'
    BY <1>1, <1>2, StillOK
  <1> QED
    BY <1>1, <1>2, <1>3, RequestStep

LEMMA RefusedOK ==
  ASSUME OwnInv, UNCHANGED <<users, participants, sessions>>, NEW r \in Handlers, Refused(r)
  PROVE  OwnInv'
  <1>1. RequestOK(NoRequest)
    BY DEF NoRequest, RequestOK, Admitted
  <1> QED
    BY <1>1, NoRequestOK, SameAccounts DEF Refused

LEMMA AdmitsOK ==
  ASSUME OwnInv, UNCHANGED <<users, participants, sessions>>, NEW r \in Handlers,
         NEW u \in DOMAIN users, Owns(u, req[r].by), Admits(r, u)
  PROVE  OwnInv'
  <1>1. CASE users[u].disabled
    BY <1>1, RefusedOK DEF Admits
  <1>2. CASE ~users[u].disabled
    <2>1. u \in Nat /\ Finds(r, "choose", u)
      BY <1>2 DEF Admits, OwnInv, SignInTypeOK
    <2>2. PICK k \in RequestRecords : /\ req' = [req EXCEPT ![r] = k]
                                      /\ k.at = "choose" /\ k.by = req[r].by /\ k.user = u
      BY <2>1, RequestFinds DEF Steps
    <2>3. RequestOK(k)
      BY <2>2 DEF RequestOK, Admitted
    <2> QED
      BY <2>2, <2>3, SameAccounts
  <1> QED
    BY <1>1, <1>2

\* On to a step of the resolver that asks for no account.
LEMMA SearchesOK ==
  ASSUME OwnInv, UNCHANGED <<users, participants, sessions>>, NEW r \in Handlers,
         req[r].by \in Identities, NEW at \in {"subject", "email", "create", "resolve"}, Goes(r, at)
  PROVE  OwnInv'
  <1>1. PICK k \in RequestRecords : req' = [req EXCEPT ![r] = k] /\ k.at = at /\ k.by = req[r].by
    BY RequestGoes DEF Steps
  <1>2. RequestOK(k)
    BY <1>1 DEF RequestOK, Admitted
  <1> QED
    BY <1>1, <1>2, SameAccounts

-------------------------------------------------------------------------------
\* The actions of a request.

LEMMA CallbackOK ==
  ASSUME OwnInv, NEW r \in Handlers, NEW i \in Identities, Callback(r, i)
  PROVE  OwnInv'
  <1> DEFINE k == [NoRequest EXCEPT !.at = "subject", !.by = i]
  <1>1. k \in RequestRecords /\ k.at = "subject" /\ k.by = i
    BY NoRequestOK DEF RequestRecords, NoRequest
  <1>2. req' = [req EXCEPT ![r] = k] /\ UNCHANGED <<users, participants, sessions>>
    BY DEF Callback
  <1> HIDE DEF k
  <1>3. RequestOK(k)
    BY <1>1 DEF RequestOK, Admitted
  <1> QED
    BY <1>1, <1>2, <1>3, SameAccounts

LEMMA FindSubjectOK ==
  ASSUME OwnInv, NEW r \in Handlers, FindSubject(r)
  PROVE  OwnInv'
  <1>1. /\ req[r].by \in Identities /\ SignInTypeOK
        /\ UNCHANGED <<users, participants, sessions>>
    BY DEF FindSubject, SameRows, OwnInv, RequestOK
  <1>2. CASE BySubject(req[r].by) # 0
    <2>1. /\ BySubject(req[r].by) \in DOMAIN users
          /\ Owns(BySubject(req[r].by), req[r].by)
      BY <1>1, <1>2, SubjectFound
    <2>2. Admits(r, BySubject(req[r].by))
      BY <1>2 DEF FindSubject
    <2> QED
      BY <1>1, <2>1, <2>2, AdmitsOK
  <1>3. CASE BySubject(req[r].by) = 0
    <2>1. Goes(r, "create") \/ Goes(r, "email")
      BY <1>3 DEF FindSubject
    <2> QED
      BY <1>1, <2>1, SearchesOK
  <1> QED
    BY <1>2, <1>3

LEMMA FindEmailOK ==
  ASSUME OwnInv, NEW r \in Handlers, FindEmail(r)
  PROVE  OwnInv'
  <1> DEFINE u == ByEmail(req[r].by.email)
  <1>1. /\ req[r].by \in Identities /\ SignInTypeOK
        /\ UNCHANGED <<users, participants, sessions>>
    BY DEF FindEmail, SameRows, OwnInv, RequestOK
  <1>2. Goes(r, "create") \/ Refused(r) \/ (u # 0 /\ Finds(r, "attach", u))
    BY DEF FindEmail
  <1>3. CASE u # 0 /\ Finds(r, "attach", u)
    <2>1. u \in DOMAIN users /\ u \in Nat
      BY <1>1, <1>3, AddressFound DEF SignInTypeOK
    <2>2. PICK k \in RequestRecords : /\ req' = [req EXCEPT ![r] = k]
                                      /\ k.at = "attach" /\ k.by = req[r].by /\ k.user = u
      BY <1>3, <2>1, RequestFinds DEF Steps
    <2>3. RequestOK(k)
      BY <1>1, <2>1, <2>2 DEF RequestOK, Admitted
    <2> QED
      BY <1>1, <2>2, <2>3, SameAccounts
  <1> QED
    BY <1>1, <1>2, <1>3, SearchesOK, RefusedOK

LEMMA AttachOK ==
  ASSUME OwnInv, NEW r \in Handlers, Attach(r)
  PROVE  OwnInv' /\ AccountsStand
  <1> DEFINE i == req[r].by
             u == req[r].user
  <1>1. /\ i \in Identities /\ u \in DOMAIN users /\ SignInTypeOK
        /\ UNCHANGED <<participants, sessions>> /\ participants' \in Seq(ParticipantRecords)
    BY DEF Attach, OwnInv, RequestOK, SignInTypeOK
  <1>2. \/ Refused(r) /\ UNCHANGED users
        \/ Goes(r, "raced") /\ UNCHANGED users
        \/ /\ users[u].links[i.provider] \in {NoEmail, i.subject}
           /\ users' = Linked(u, i) /\ Goes(r, "choose")
    BY DEF Attach
  <1>3. CASE Goes(r, "raced") /\ UNCHANGED users
    <2>1. PICK k \in RequestRecords : /\ req' = [req EXCEPT ![r] = k]
                                      /\ k.at = "raced" /\ k.by = i /\ k.user = u
      BY <1>3, RequestGoes DEF Steps
    <2>2. RequestOK(k)
      BY <1>1, <2>1 DEF RequestOK, Admitted
    <2> QED
      BY <1>1, <1>3, <2>1, <2>2, SameAccounts, AccountsUnchanged
  <1>4. CASE /\ users[u].links[i.provider] \in {NoEmail, i.subject}
             /\ users' = Linked(u, i) /\ Goes(r, "choose")
    <2>1. PICK k \in RequestRecords : /\ req' = [req EXCEPT ![r] = k]
                                      /\ k.at = "choose" /\ k.by = i /\ k.user = u
      BY <1>4, RequestGoes DEF Steps
    <2>2. PICK v \in DOMAIN users : v = u
      BY <1>1
    <2>3. PICK j \in Identities : j = i
      BY <1>1
    <2>4. users' \in Seq(UserRecords) /\ AccountsStand /\ v \in DOMAIN users' /\ Owns(v, j)'
      BY <1>1, <1>4, <2>2, <2>3, AccountLinked
    <2>5. RequestOK(k)'
      BY <2>1, <2>2, <2>3, <2>4 DEF RequestOK, Admitted, Owns
    <2> QED
      BY <1>1, <2>1, <2>4, <2>5, RequestStep
  <1> QED
    BY <1>1, <1>2, <1>3, <1>4, RefusedOK, AccountsUnchanged

LEMMA RacedOK ==
  ASSUME OwnInv, NEW r \in Handlers, Raced(r)
  PROVE  OwnInv'
  <1>1. /\ req[r].by \in Identities /\ SignInTypeOK
        /\ UNCHANGED <<users, participants, sessions>>
    BY DEF Raced, SameRows, OwnInv, RequestOK
  <1>2. \/ Refused(r)
        \/ BySubject(req[r].by) # 0 /\ Admits(r, BySubject(req[r].by))
    BY DEF Raced
  <1> QED
    BY <1>1, <1>2, RefusedOK, AdmitsOK, SubjectFound

LEMMA ResolveOK ==
  ASSUME OwnInv, NEW r \in Handlers, Resolve(r)
  PROVE  OwnInv'
  <1>1. /\ req[r].by \in Identities /\ SignInTypeOK
        /\ UNCHANGED <<users, participants, sessions>>
    BY DEF Resolve, SameRows, OwnInv, RequestOK
  <1>2. \/ Refused(r) \/ Goes(r, "subject")
        \/ BySubject(req[r].by) # 0 /\ Admits(r, BySubject(req[r].by))
    BY DEF Resolve
  <1> QED
    BY <1>1, <1>2, RefusedOK, AdmitsOK, SubjectFound, SearchesOK

LEMMA CreateOK ==
  ASSUME OwnInv, NEW r \in Handlers, Create(r)
  PROVE  OwnInv' /\ AccountsStand
  <1> DEFINE i == req[r].by
             links == [Unlinked EXCEPT ![i.provider] = i.subject]
             user == User("COMPETITOR", i.email, FALSE, links)
  <1>1. /\ i \in Identities /\ SignInTypeOK
        /\ UNCHANGED <<participants, sessions>> /\ participants' \in Seq(ParticipantRecords)
        /\ Goes(r, "resolve") /\ users' \in {users, Append(users, user)}
    BY DEF Create, OwnInv, RequestOK, SignInTypeOK
  <1>2. links \in [Providers -> Subjects]
    BY <1>1, SignInAssumption DEF Subjects, Unlinked
  <1> HIDE DEF links
  <1>3. user \in UserRecords
    BY <1>1, <1>2, SignInAssumption DEF User, UserRecords
  <1> HIDE DEF user
  <1>4. users' \in Seq(UserRecords) /\ AccountsStand
    BY <1>1, <1>3, AccountAdded, AccountsUnchanged
  <1>5. PICK k \in RequestRecords : req' = [req EXCEPT ![r] = k] /\ k.at = "resolve" /\ k.by = i
    BY <1>1, RequestGoes DEF Steps
  <1>6. RequestOK(k)'
    BY <1>1, <1>5 DEF RequestOK, Admitted
  <1> QED
    BY <1>1, <1>4, <1>5, <1>6, RequestStep

\* A form's request, admitted to account n.
ByForm(e, n) == [NoRequest EXCEPT !.at = "choose", !.by = Form(e), !.user = n]

LEMMA ByFormIs ==
  ASSUME NEW e \in Emails, NEW n \in Nat
  PROVE  /\ ByForm(e, n) \in RequestRecords /\ ByForm(e, n).at = "choose"
         /\ ByForm(e, n).by = Form(e) /\ ByForm(e, n).user = n
         /\ Form(e).provider = "password" /\ Form(e).email = e
  <1>1. Form(e) \in Forms /\ Form(e).email = e /\ Form(e).provider = "password"
    BY DEF Forms, Form, NoRequest
  <1>2. PICK q \in RequestRecords : q = NoRequest
    BY NoRequestOK
  <1>3. ByForm(e, n) = [q EXCEPT !.at = "choose", !.by = Form(e), !.user = n]
    BY <1>2 DEF ByForm
  <1> QED
    BY <1>1, <1>3 DEF RequestRecords

LEMMA SignUpOK ==
  ASSUME OwnInv, NEW r \in Handlers, NEW e \in Emails, SignUp(r, e)
  PROVE  OwnInv' /\ AccountsStand
  <1> DEFINE user == User("COMPETITOR", e, TRUE, Unlinked)
  <1>1. /\ SignInTypeOK /\ req \in [Handlers -> RequestRecords]
        /\ UNCHANGED <<participants, sessions>> /\ participants' \in Seq(ParticipantRecords)
    BY DEF SignUp, OwnInv, SignInTypeOK
  <1>2. \/ UNCHANGED <<users, req>>
        \/ users' = Append(users, user) /\ req' = [req EXCEPT ![r] = ByForm(e, Len(users'))]
    BY DEF SignUp, ByForm
  <1>3. CASE UNCHANGED <<users, req>>
    <2>1. PICK q \in RequestRecords : q = req[r] /\ req' = [req EXCEPT ![r] = q]
      BY <1>1, <1>3
    <2>2. RequestOK(q)
      BY <2>1 DEF OwnInv
    <2> QED
      BY <1>1, <1>3, <2>1, <2>2, SameAccounts, AccountsUnchanged
  <1>4. CASE users' = Append(users, user) /\ req' = [req EXCEPT ![r] = ByForm(e, Len(users'))]
    <2>1. /\ user \in UserRecords /\ user.email = e
      BY DEF User, UserRecords, Unlinked, Subjects
    <2> HIDE DEF user
    <2>2. /\ users' \in Seq(UserRecords) /\ AccountsStand
          /\ Len(users') \in DOMAIN users' /\ users'[Len(users')] = user
      BY <1>1, <1>4, <2>1, AccountAdded
    <2>3. PICK n \in Nat : n = Len(users')
      BY <2>2
    <2>4. PICK q \in RequestRecords : q = ByForm(e, n)
      BY ByFormIs
    <2>5. /\ q.at = "choose" /\ q.by = Form(e) /\ q.user = n
          /\ q.by.provider = "password" /\ q.by.email = e
      BY <2>4, ByFormIs
    <2>6. req' = [req EXCEPT ![r] = q]
      BY <1>4, <2>3, <2>4
    <2>7. RequestOK(q)'
      BY <2>1, <2>2, <2>3, <2>5 DEF RequestOK, Admitted, Owns
    <2> QED
      BY <1>1, <2>2, <2>6, <2>7, RequestStep
  <1> QED
    BY <1>2, <1>3, <1>4

LEMMA LogInOK ==
  ASSUME OwnInv, NEW r \in Handlers, NEW e \in Emails, LogIn(r, e)
  PROVE  OwnInv'
  <1> DEFINE u == ByEmail(e)
  <1>1. /\ SignInTypeOK /\ req \in [Handlers -> RequestRecords]
        /\ UNCHANGED <<users, participants, sessions>>
    BY DEF LogIn, OwnInv, SignInTypeOK
  <1>2. UNCHANGED req \/ (u # 0 /\ req' = [req EXCEPT ![r] = ByForm(e, u)])
    BY DEF LogIn, ByForm
  <1>3. CASE UNCHANGED req
    <2>1. PICK q \in RequestRecords : q = req[r] /\ req' = [req EXCEPT ![r] = q]
      BY <1>1, <1>3
    <2>2. RequestOK(q)
      BY <2>1 DEF OwnInv
    <2> QED
      BY <1>1, <2>1, <2>2, SameAccounts
  <1>4. CASE u # 0 /\ req' = [req EXCEPT ![r] = ByForm(e, u)]
    <2>1. u \in DOMAIN users /\ users[u].email = e /\ u \in Nat
      BY <1>1, <1>4, AddressFound DEF SignInTypeOK
    <2> HIDE DEF u
    <2>2. PICK q \in RequestRecords : q = ByForm(e, u)
      BY <2>1, ByFormIs
    <2>3. /\ q.at = "choose" /\ q.by = Form(e) /\ q.user = u
          /\ q.by.provider = "password" /\ q.by.email = e
      BY <2>1, <2>2, ByFormIs
    <2>4. RequestOK(q)
      BY <2>1, <2>3 DEF RequestOK, Admitted, Owns
    <2> QED
      BY <1>1, <1>4, <2>2, <2>4, SameAccounts
  <1> QED
    BY <1>2, <1>3, <1>4

\* A request that has been admitted keeps its account while it is given a place.
LEMMA ChooseOK ==
  ASSUME OwnInv, NEW r \in Handlers, Choose(r)
  PROVE  OwnInv'
  <1>1. /\ req \in [Handlers -> RequestRecords] /\ RequestOK(req[r]) /\ req[r].at = "choose"
        /\ UNCHANGED <<users, participants, sessions>>
    BY DEF Choose, SameRows, OwnInv, SignInTypeOK
  <1>2. \/ Refused(r) \/ Goes(r, "issue")
        \/ \E c \in {"tonight", "arena"} : req' = [req EXCEPT ![r].at = "enrol", ![r].contest = c]
    BY DEF Choose
  <1>3. CASE Goes(r, "issue")
    <2>1. PICK k \in RequestRecords : /\ req' = [req EXCEPT ![r] = k]
                                      /\ k.at = "issue" /\ k.by = req[r].by /\ k.user = req[r].user
      BY <1>3, RequestGoes DEF Steps
    <2>2. RequestOK(k)
      BY <1>1, <2>1 DEF RequestOK, Admitted
    <2> QED
      BY <1>1, <2>1, <2>2, SameAccounts
  <1>4. ASSUME NEW c \in {"tonight", "arena"}, req' = [req EXCEPT ![r].at = "enrol", ![r].contest = c]
        PROVE  OwnInv'
    <2> DEFINE k == [req[r] EXCEPT !.at = "enrol", !.contest = c]
    <2>1. k \in RequestRecords /\ k.at = "enrol" /\ k.by = req[r].by /\ k.user = req[r].user
      BY <1>1 DEF RequestRecords
    <2>2. req' = [req EXCEPT ![r] = k]
      BY <1>1, <1>4
    <2> HIDE DEF k
    <2>3. RequestOK(k)
      BY <1>1, <2>1 DEF RequestOK, Admitted
    <2> QED
      BY <1>1, <2>1, <2>2, <2>3, SameAccounts
  <1> QED
    BY <1>1, <1>2, <1>3, <1>4, RefusedOK

LEMMA EnrolOK ==
  ASSUME OwnInv, NEW r \in Handlers, Enrol(r)
  PROVE  OwnInv'
  <1>1. /\ SignInTypeOK /\ req \in [Handlers -> RequestRecords]
        /\ RequestOK(req[r]) /\ req[r].at = "enrol" /\ UNCHANGED <<users, sessions>>
    BY DEF Enrol, OwnInv, SignInTypeOK
  <1> DEFINE row == [user |-> req[r].user, contest |-> req[r].contest, there |-> TRUE]
  <1>2. \/ \E p \in DOMAIN participants : Seated(r, p) /\ UNCHANGED participants
        \/ participants' = Append(participants, row) /\ Seated(r, Len(participants'))
        \/ Refused(r) /\ UNCHANGED participants
    <2> DEFINE place == Place(req[r].user, req[r].contest)
    <2>1. place # {} => (CHOOSE p \in place : TRUE) \in DOMAIN participants
      BY DEF Place
    <2> QED
      BY <2>1 DEF Enrol, Enrolled
  <1>3. row \in ParticipantRecords
    BY <1>1 DEF RequestRecords, ParticipantRecords
  <1> HIDE DEF row
  <1>4. CASE Refused(r) /\ UNCHANGED participants
    BY <1>1, <1>4, RefusedOK
  <1>5. ASSUME NEW p \in Nat, Seated(r, p), participants' \in Seq(ParticipantRecords)
        PROVE  OwnInv'
    <2> DEFINE k == [req[r] EXCEPT !.at = "issue", !.pid = p]
    <2>1. k \in RequestRecords /\ k.at = "issue" /\ k.by = req[r].by /\ k.user = req[r].user
      BY <1>1 DEF RequestRecords
    <2>2. req' = [req EXCEPT ![r] = k]
      BY <1>1, <1>5 DEF Seated
    <2> HIDE DEF k
    <2>3. RequestOK(k)
      BY <1>1, <2>1 DEF RequestOK, Admitted
    <2>4. users' \in Seq(UserRecords) /\ AccountsStand
      BY <1>1, AccountsUnchanged
    <2>5. PICK q \in RequestRecords : q = k
      BY <2>1
    <2>6. RequestOK(q)'
      BY <1>1, <2>3, <2>4, <2>5, StillOK
    <2>7. UNCHANGED sessions /\ req' = [req EXCEPT ![r] = q]
      BY <1>1, <2>2, <2>5
    <2> QED
      BY <1>5, <2>4, <2>6, <2>7, RequestStep
  <1>6. ASSUME NEW p \in DOMAIN participants, Seated(r, p), UNCHANGED participants
        PROVE  OwnInv'
    BY <1>1, <1>5, <1>6 DEF SignInTypeOK
  <1>7. CASE participants' = Append(participants, row) /\ Seated(r, Len(participants'))
    <2>1. participants' \in Seq(ParticipantRecords) /\ Len(participants') \in Nat
      BY <1>1, <1>3, <1>7 DEF SignInTypeOK
    <2>2. PICK n \in Nat : n = Len(participants')
      BY <2>1
    <2> QED
      BY <1>5, <1>7, <2>1, <2>2
  <1> QED
    BY <1>2, <1>4, <1>6, <1>7

-------------------------------------------------------------------------------
\* Sessions made and ended, and accounts disabled.

\* Accounts stand still.
LEMMA SessionsStep ==
  ASSUME OwnInv, UNCHANGED users, participants' \in Seq(ParticipantRecords),
         req' \in [Handlers -> RequestRecords], \A r \in Handlers : RequestOK(req'[r]),
         sessions' \in Seq(SessionRecords), \A s \in DOMAIN sessions' : SessionOK(sessions'[s])
  PROVE  OwnInv'
  <1>1. SignInTypeOK'
    BY DEF OwnInv, SignInTypeOK
  <1>2. \A r \in Handlers : RequestOK(req[r])'
    BY DEF RequestOK, Owns, Admitted
  <1>3. \A s \in DOMAIN sessions' : SessionOK(sessions[s])'
    BY DEF SessionOK, Owns
  <1> QED
    BY <1>1, <1>2, <1>3 DEF OwnInv

LEMMA IssueOK ==
  ASSUME OwnInv, NEW r \in Handlers, Issue(r)
  PROVE  OwnInv'
  <1> DEFINE session == [by |-> req[r].by, user |-> req[r].user, pid |-> req[r].pid,
                         contest |-> req[r].contest, live |-> TRUE]
  <1>1. /\ req \in [Handlers -> RequestRecords] /\ sessions \in Seq(SessionRecords)
        /\ RequestOK(req[r]) /\ req[r].at = "issue" /\ UNCHANGED <<users, participants>>
        /\ participants' \in Seq(ParticipantRecords)
        /\ \A q \in Handlers : RequestOK(req[q])
        /\ \A s \in DOMAIN sessions : SessionOK(sessions[s])
    BY DEF Issue, OwnInv, SignInTypeOK
  <1>2. /\ sessions' = sessions \/ sessions' = Append(sessions, session)
        /\ req' = [req EXCEPT ![r] = NoRequest]
    BY DEF Issue, Refused
  <1>3. session \in SessionRecords /\ SessionOK(session)
    BY <1>1 DEF RequestRecords, SessionRecords, RequestOK, Admitted, SessionOK
  <1> HIDE DEF session
  <1>4. sessions' \in Seq(SessionRecords) /\ \A s \in DOMAIN sessions' : SessionOK(sessions'[s])
    <2>1. CASE sessions' = sessions
      BY <1>1, <2>1
    <2>2. CASE sessions' = Append(sessions, session)
      <3>1. sessions' \in Seq(SessionRecords) /\ Len(sessions') = Len(sessions) + 1
        BY <1>1, <1>3, <2>2
      <3>2. \A s \in DOMAIN sessions' :
              sessions'[s] = session \/ (s \in DOMAIN sessions /\ sessions'[s] = sessions[s])
        BY <1>1, <2>2
      <3> QED
        BY <1>1, <1>3, <3>1, <3>2
    <2> QED
      BY <1>2, <2>1, <2>2
  <1>5. RequestOK(NoRequest) /\ NoRequest \in RequestRecords
    BY NoRequestOK DEF NoRequest, RequestOK, Admitted
  <1>6. req' \in [Handlers -> RequestRecords] /\ \A q \in Handlers : RequestOK(req'[q])
    BY <1>1, <1>2, <1>5
  <1> QED
    BY <1>1, <1>4, <1>6, SessionsStep

\* Sessions die; nothing else happens to them.
LEMMA SessionsDie ==
  ASSUME sessions \in Seq(SessionRecords), NEW S
  PROVE  /\ Dead(S) \in Seq(SessionRecords) /\ DOMAIN Dead(S) = DOMAIN sessions
         /\ \A s \in DOMAIN sessions :
              /\ Dead(S)[s].by = sessions[s].by /\ Dead(S)[s].user = sessions[s].user
              /\ Dead(S)[s].pid = sessions[s].pid /\ Dead(S)[s].contest = sessions[s].contest
              /\ Dead(S)[s].live <=> (sessions[s].live /\ s \notin S)
  <1> DEFINE dead(s) == [sessions[s] EXCEPT !.live = @ /\ s \notin S]
  <1>1. ASSUME NEW s \in DOMAIN sessions
        PROVE  /\ dead(s) \in SessionRecords
               /\ dead(s).by = sessions[s].by /\ dead(s).user = sessions[s].user
               /\ dead(s).pid = sessions[s].pid /\ dead(s).contest = sessions[s].contest
               /\ dead(s).live <=> (sessions[s].live /\ s \notin S)
    <2>1. PICK o \in SessionRecords : o = sessions[s]
      BY <1>1
    <2>2. PICK b \in BOOLEAN : b <=> s \notin S
      OBVIOUS
    <2>3. dead(s) = [o EXCEPT !.live = o.live /\ s \notin S]
      BY <2>1
    <2>4. [o EXCEPT !.live = o.live /\ s \notin S]
            = [by |-> o.by, user |-> o.user, pid |-> o.pid, contest |-> o.contest,
               live |-> o.live /\ s \notin S]
      BY DEF SessionRecords
    <2> QED
      BY <2>1, <2>3, <2>4 DEF SessionRecords
  <1>2. Dead(S) = [s \in DOMAIN sessions |-> dead(s)]
    BY DEF Dead
  <1> HIDE DEF dead
  <1>3. DOMAIN sessions = 1..Len(sessions) /\ Len(sessions) \in Nat
    OBVIOUS
  <1> QED
    BY <1>1, <1>2, <1>3

LEMMA DeadOK ==
  ASSUME OwnInv, UNCHANGED <<users, req>>, participants' \in Seq(ParticipantRecords),
         NEW S, sessions' = Dead(S)
  PROVE  OwnInv'
  <1>1. /\ req \in [Handlers -> RequestRecords] /\ sessions \in Seq(SessionRecords)
        /\ \A q \in Handlers : RequestOK(req[q])
        /\ \A s \in DOMAIN sessions : SessionOK(sessions[s])
    BY DEF OwnInv, SignInTypeOK
  <1>2. \A s \in DOMAIN sessions' : SessionOK(sessions'[s])
    BY <1>1, SessionsDie DEF SessionOK
  <1>3. sessions' \in Seq(SessionRecords)
    BY <1>1, SessionsDie
  <1> QED
    BY <1>1, <1>2, <1>3, SessionsStep

\* A participant's row goes, and no other row changes.
RowGone(p) == participants' = [participants EXCEPT ![p].there = FALSE]

LEMMA RowGoes ==
  ASSUME participants \in Seq(ParticipantRecords), NEW p \in DOMAIN participants, RowGone(p)
  PROVE  /\ participants' \in Seq(ParticipantRecords) /\ DOMAIN participants' = DOMAIN participants
         /\ \A q \in DOMAIN participants :
              /\ participants'[q].user = participants[q].user
              /\ participants'[q].contest = participants[q].contest
              /\ participants'[q].there <=> (participants[q].there /\ q # p)
  <1> DEFINE gone == [participants[p] EXCEPT !.there = FALSE]
  <1>1. /\ gone \in ParticipantRecords /\ gone.there = FALSE
        /\ gone.user = participants[p].user /\ gone.contest = participants[p].contest
    <2>1. PICK o \in ParticipantRecords : o = participants[p]
      OBVIOUS
    <2> QED
      BY <2>1 DEF ParticipantRecords
  <1>2. participants' = [participants EXCEPT ![p] = gone]
    BY DEF RowGone
  <1> HIDE DEF gone
  <1>3. /\ participants' \in Seq(ParticipantRecords) /\ DOMAIN participants' = DOMAIN participants
        /\ participants'[p] = gone
        /\ \A q \in DOMAIN participants \ {p} : participants'[q] = participants[q]
    BY <1>1, <1>2
  <1> QED
    BY <1>1, <1>3

LEMMA DisableOK ==
  ASSUME OwnInv, NEW u \in DOMAIN users, Disable(u)
  PROVE  OwnInv' /\ AccountsStand
  <1> DEFINE user == [users[u] EXCEPT !.disabled = TRUE]
  <1>1. /\ SignInTypeOK /\ users \in Seq(UserRecords) /\ UNCHANGED <<participants, sessions, req>>
        /\ users' = [users EXCEPT ![u] = user]
    BY DEF Disable, OwnInv, SignInTypeOK
  <1>2. /\ user \in UserRecords /\ user.role = users[u].role /\ user.email = users[u].email
        /\ user.links = users[u].links
    <2>1. PICK o \in UserRecords : o = users[u]
      BY <1>1
    <2> QED
      BY <2>1 DEF UserRecords
  <1> HIDE DEF user
  <1>3. /\ users' \in Seq(UserRecords) /\ DOMAIN users' = DOMAIN users /\ users'[u] = user
        /\ \A v \in DOMAIN users \ {u} : users'[v] = users[v]
    BY <1>1, <1>2
  <1>4. AccountsStand
    BY <1>2, <1>3 DEF AccountsStand
  <1>5. SignInTypeOK'
    BY <1>1, <1>3 DEF SignInTypeOK
  <1>6. ASSUME NEW r \in Handlers PROVE RequestOK(req[r])'
    <2>1. PICK o \in RequestRecords : o = req[r] /\ o = req'[r] /\ RequestOK(o)
      BY <1>1 DEF OwnInv, SignInTypeOK
    <2>2. RequestOK(o)'
      BY <1>1, <1>4, <2>1, StillOK
    <2> QED
      BY <2>1, <2>2 DEF RequestOK, Owns, Admitted
  <1>7. ASSUME NEW s \in DOMAIN sessions' PROVE SessionOK(sessions[s])'
    <2>1. PICK o \in SessionRecords : o = sessions[s] /\ o = sessions'[s] /\ SessionOK(o)
      BY <1>1 DEF OwnInv, SignInTypeOK
    <2>2. SessionOK(o)'
      BY <1>1, <1>4, <2>1, StillOK
    <2> QED
      BY <2>1, <2>2 DEF SessionOK, Owns
  <1> QED
    BY <1>4, <1>5, <1>6, <1>7 DEF OwnInv

-------------------------------------------------------------------------------
LEMMA SignInStarts ==
  ASSUME SignInInit
  PROVE  OwnInv
  <1>1. users \in Seq(UserRecords)
    <2>1. ASSUME NEW role \in {"ADMIN", "COMPETITOR"}, NEW e \in Emails
          PROVE  User(role, e, TRUE, Unlinked) \in UserRecords
      BY DEF User, UserRecords, Unlinked, Subjects
    <2>2. ASSUME NEW u \in UserRecords PROVE <<u>> \in Seq(UserRecords)
      OBVIOUS
    <2>3. <<>> \in Seq(UserRecords)
      OBVIOUS
    <2>4. \/ users = <<>>
          \/ \E role \in {"ADMIN", "COMPETITOR"}, e \in Emails : users = <<User(role, e, TRUE, Unlinked)>>
      BY DEF SignInInit
    <2> QED
      BY <2>1, <2>2, <2>3, <2>4
  <1>2. participants \in Seq(ParticipantRecords) /\ sessions \in Seq(SessionRecords) /\ DOMAIN sessions = {}
    BY DEF SignInInit
  <1>3. req \in [Handlers -> RequestRecords] /\ \A r \in Handlers : req[r] = NoRequest
    BY NoRequestOK DEF SignInInit
  <1>4. RequestOK(NoRequest)
    BY DEF NoRequest, RequestOK, Admitted
  <1> QED
    BY <1>1, <1>2, <1>3, <1>4 DEF OwnInv, SignInTypeOK

LEMMA SignInKeepsOwn ==
  ASSUME OwnInv, [SignInNext]_<<contestVars, signInVars>>
  PROVE  OwnInv'
  <1>1. CASE UNCHANGED signInVars
    BY <1>1 DEF signInVars, OwnInv, SignInTypeOK, RequestOK, SessionOK, Owns, Admitted
  <1>2. CASE SignInStep
    <2>1. ASSUME NEW r \in Handlers, NEW i \in Identities, Callback(r, i) PROVE OwnInv'
      BY <2>1, CallbackOK
    <2>2. ASSUME NEW r \in Handlers, NEW e \in Emails, SignUp(r, e) \/ LogIn(r, e) PROVE OwnInv'
      BY <2>2, SignUpOK, LogInOK
    <2>3. ASSUME NEW r \in Handlers, Resolving(r) PROVE OwnInv'
      BY <2>3, FindSubjectOK, FindEmailOK, AttachOK, RacedOK, CreateOK, ResolveOK DEF Resolving
    <2>4. ASSUME NEW r \in Handlers, Entering(r) PROVE OwnInv'
      BY <2>4, ChooseOK, EnrolOK, IssueOK DEF Entering
    <2>5. ASSUME NEW s \in DOMAIN sessions, Revoke(s) PROVE OwnInv'
      BY <2>5, DeadOK DEF Revoke, OwnInv, SignInTypeOK
    <2>6. ASSUME NEW p \in DOMAIN participants, RevokeAll(p) PROVE OwnInv'
      BY <2>6, DeadOK DEF RevokeAll, OwnInv, SignInTypeOK
    <2>7. ASSUME NEW p \in DOMAIN participants, AdminRemoveParticipant(p) PROVE OwnInv'
      BY <2>7, DeadOK, RowGoes DEF RowGone, AdminRemoveParticipant, OwnInv, SignInTypeOK
    <2>8. ASSUME NEW u \in DOMAIN users, Disable(u) PROVE OwnInv'
      BY <2>8, DisableOK
    <2> QED
      BY <1>2, <2>1, <2>2, <2>3, <2>4, <2>5, <2>6, <2>7, <2>8 DEF SignInStep
  <1> QED
    BY <1>1, <1>2 DEF SignInNext, signInVars

\* "The stable subject id is the only key trusted for this": on every way in, with
\* any number of requests between each other's steps, who comes in is in the
\* account of the subject or address that was shown, and so is every session.
THEOREM NobodyIsSomebodyElse == SignInSpec => []SignedInAsOneself
  <1>1. OwnInv => SignedInAsOneself
    BY DEF OwnInv, RequestOK, SessionOK, Admitted, SignedInAsOneself
  <1> QED
    BY <1>1, SignInStarts, SignInKeepsOwn, PTL DEF SignInSpec

\* ensureEnrolled's re-check under the lock, for every schedule: no step of
\* anybody's sign-in adds a participant to a contest that is over.
THEOREM HistoryIsClosed == SignInSpec => NobodyEntersHistory
  <1>1. ASSUME OwnInv, [SignInNext]_<<contestVars, signInVars>>,
               signInVars' # signInVars, NEW p \in DOMAIN participants' \ DOMAIN participants
        PROVE  participants'[p].contest = "arena" \/ (contest.state # "ENDED" /\ clock < contest.endsAt)
    <2>1. participants \in Seq(ParticipantRecords) /\ SignInStep
      BY <1>1 DEF OwnInv, SignInTypeOK, SignInNext
    <2>2. participants' # participants
      BY <1>1
    <2>3. ~\E q \in DOMAIN participants : AdminRemoveParticipant(q)
      BY <1>1, <2>1, RowGoes DEF RowGone, AdminRemoveParticipant
    <2>4. PICK r \in Handlers : Enrol(r)
      BY <2>1, <2>2, <2>3 DEF SignInStep, Callback, SignUp, LogIn, Resolving, Entering, FindSubject,
         FindEmail, Attach, Raced, Create, Resolve, Choose, Issue, Revoke, RevokeAll, Disable, SameRows
    <2>5. Enrolled(r) /\ (req[r].contest = "arena" \/ Joinable(contest, clock))
      BY <2>2, <2>4 DEF Enrol
    <2>6. participants'[p].contest = req[r].contest
      BY <1>1, <2>1, <2>5 DEF Enrolled
    <2>7. CASE Joinable(contest, clock)
      <3>1. contest.endsAt > clock /\ contest.state # "ENDED"
        BY <2>7 DEF Joinable
      <3> QED
        BY <3>1, SMT
    <2> QED
      BY <2>5, <2>6, <2>7
  <1>2. OwnInv /\ [SignInNext]_<<contestVars, signInVars>>
          => [\A p \in DOMAIN participants' \ DOMAIN participants :
                participants'[p].contest = "arena" \/ (contest.state # "ENDED" /\ clock < contest.endsAt)]_signInVars
    BY <1>1
  <1> QED
    BY <1>2, SignInStarts, SignInKeepsOwn, PTL DEF SignInSpec, NobodyEntersHistory

-------------------------------------------------------------------------------
\* Places.

OnePlaceEach ==
  \A p, q \in DOMAIN participants :
    (/\ participants[p].there /\ participants[q].there
     /\ participants[p].user = participants[q].user
     /\ participants[p].contest = participants[q].contest) => p = q

\* What a request about to have a session, or a session, says of its place.
Matches(x) ==
  users[x.user].role = "COMPETITOR" =>
    /\ x.pid \in DOMAIN participants
    /\ participants[x.pid].user = x.user /\ participants[x.pid].contest = x.contest

HasSeat(s) ==
  s.live => (Matches(s) /\ (users[s.user].role = "COMPETITOR" => participants[s.pid].there))

SeatInv ==
  /\ OwnInv
  /\ OnePlaceEach
  /\ \A r \in Handlers : req[r].at = "issue" => Matches(req[r])
  /\ \A s \in DOMAIN sessions : HasSeat(sessions[s])

\* Rows are never given to anybody else.
RowsStand ==
  \A p \in DOMAIN participants :
    /\ p \in DOMAIN participants'
    /\ participants'[p].user = participants[p].user
    /\ participants'[p].contest = participants[p].contest

LEMMA MatchStands ==
  ASSUME AccountsStand, RowsStand, NEW x, x.user \in DOMAIN users, Matches(x)
  PROVE  Matches(x)'
  BY DEF AccountsStand, RowsStand, Matches

\* The account of whoever is at the last step, or in, is there.
LEMMA AccountsThere ==
  ASSUME OwnInv
  PROVE  /\ \A r \in Handlers : req[r].at = "issue" => req[r].user \in DOMAIN users
         /\ \A s \in DOMAIN sessions : sessions[s].user \in DOMAIN users
  BY DEF OwnInv, RequestOK, SessionOK, Admitted

\* A step to the last step is by the holder of a place, or by an organizer.
Arrives(r) ==
  req'[r].at = "issue" =>
    req'[r] = req[r] \/ (req'[r].user \in DOMAIN users /\ users[req'[r].user].role = "ADMIN")

LEMMA SeatsKept ==
  ASSUME SeatInv, OwnInv', UNCHANGED <<participants, sessions>>, AccountsStand,
         \A r \in Handlers : Arrives(r)
  PROVE  SeatInv'
  <1>1. RowsStand
    BY DEF RowsStand
  <1>2. OnePlaceEach'
    BY DEF SeatInv, OnePlaceEach
  <1>3. ASSUME NEW r \in Handlers, req'[r].at = "issue" PROVE Matches(req[r])'
    <2>1. CASE req'[r] = req[r]
      <3>1. PICK o : o = req[r] /\ o = req'[r]
        BY <2>1
      <3>2. o.user \in DOMAIN users /\ Matches(o)
        BY <1>3, <3>1, AccountsThere DEF SeatInv
      <3>3. Matches(o)'
        BY <1>1, <3>2, MatchStands
      <3> QED
        BY <3>1, <3>3 DEF Matches
    <2>2. CASE req'[r].user \in DOMAIN users /\ users[req'[r].user].role = "ADMIN"
      <3>1. users'[req'[r].user].role = "ADMIN"
        BY <2>2 DEF AccountsStand
      <3> QED
        BY <3>1 DEF Matches
    <2> QED
      BY <1>3, <2>1, <2>2 DEF Arrives
  <1>4. ASSUME NEW s \in DOMAIN sessions' PROVE HasSeat(sessions[s])'
    <2>1. PICK o : o = sessions[s] /\ o = sessions'[s]
      BY <1>4
    <2>2. o.user \in DOMAIN users /\ HasSeat(o)
      BY <1>4, <2>1, AccountsThere DEF SeatInv
    <2>3. o.live => Matches(o)'
      BY <1>1, <2>2, MatchStands DEF HasSeat
    <2>4. users'[o.user].role = users[o.user].role
      BY <2>2 DEF AccountsStand
    <2> QED
      BY <2>1, <2>2, <2>3, <2>4 DEF HasSeat, Matches
  <1> QED
    BY <1>2, <1>3, <1>4 DEF SeatInv

\* The steps that go to no last step.
LEMMA ElsewhereArrives ==
  ASSUME OwnInv, NEW r \in Handlers,
         \/ \E at \in Steps \ {"issue"} : Goes(r, at)
         \/ \E at \in Steps \ {"issue"}, u \in Nat : Finds(r, at, u)
         \/ Refused(r)
         \/ \E k \in RequestRecords : req' = [req EXCEPT ![r] = k] /\ k.at # "issue"
         \/ UNCHANGED req
  PROVE  \A q \in Handlers : Arrives(q)
  <1>1. req \in [Handlers -> RequestRecords]
    BY DEF OwnInv, SignInTypeOK
  <1>2. ASSUME NEW k \in RequestRecords, req' = [req EXCEPT ![r] = k], k.at # "issue"
        PROVE  \A q \in Handlers : Arrives(q)
    BY <1>1, <1>2 DEF Arrives
  <1>3. ASSUME NEW at \in Steps \ {"issue"}, Goes(r, at) PROVE \A q \in Handlers : Arrives(q)
    BY <1>2, <1>3, RequestGoes
  <1>4. ASSUME NEW at \in Steps \ {"issue"}, NEW u \in Nat, Finds(r, at, u)
        PROVE  \A q \in Handlers : Arrives(q)
    BY <1>2, <1>4, RequestFinds
  <1>5. CASE Refused(r)
    BY <1>2, <1>5, NoRequestOK DEF Refused
  <1>6. CASE UNCHANGED req
    BY <1>6 DEF Arrives
  <1> QED
    BY <1>2, <1>3, <1>4, <1>5, <1>6

\* What the resolver finds, it finds in the table.
LEMMA FoundIsRow ==
  ASSUME OwnInv
  PROVE  /\ \A i \in Identities : BySubject(i) \in Nat
         /\ \A e : ByEmail(e) \in Nat
  <1>1. SignInTypeOK /\ DOMAIN users \subseteq Nat
    BY DEF OwnInv, SignInTypeOK
  <1>2. ASSUME NEW i \in Identities PROVE BySubject(i) \in Nat
    <2>1. CASE BySubject(i) # 0
      BY <1>1, <2>1, SubjectFound
    <2>2. CASE BySubject(i) = 0
      BY <2>2
    <2> QED
      BY <2>1, <2>2
  <1>3. ASSUME NEW e PROVE ByEmail(e) \in Nat
    <2>1. CASE ByEmail(e) # 0
      BY <1>1, <2>1, AddressFound
    <2>2. CASE ByEmail(e) = 0
      BY <2>2
    <2> QED
      BY <2>1, <2>2
  <1> QED
    BY <1>2, <1>3

LEMMA ResolvingSeats ==
  ASSUME SeatInv, OwnInv', NEW r \in Handlers, Resolving(r), AccountsStand
  PROVE  SeatInv'
  <1>1. req[r].at \in {"subject", "email", "attach", "raced", "create", "resolve"}
    BY DEF Resolving, FindSubject, FindEmail, Attach, Raced, Create, Resolve
  <1>2. OwnInv /\ req[r].by \in Identities
    BY <1>1 DEF SeatInv, OwnInv, RequestOK
  <1>3. BySubject(req[r].by) \in Nat /\ ByEmail(req[r].by.email) \in Nat
    BY <1>2, FoundIsRow
  <1>4. \/ \E at \in Steps \ {"issue"} : Goes(r, at)
        \/ \E at \in Steps \ {"issue"}, u \in Nat : Finds(r, at, u)
        \/ Refused(r)
    <2>1. CASE FindSubject(r)
      BY <1>3, <2>1 DEF FindSubject, Admits, Steps
    <2>2. CASE FindEmail(r)
      BY <1>3, <2>2 DEF FindEmail, Steps
    <2>3. CASE Attach(r)
      BY <2>3 DEF Attach, Steps
    <2>4. CASE Raced(r)
      BY <1>3, <2>4 DEF Raced, Admits, Steps
    <2>5. CASE Create(r)
      BY <2>5 DEF Create, Steps
    <2>6. CASE Resolve(r)
      BY <1>3, <2>6 DEF Resolve, Admits, Steps
    <2> QED
      BY <2>1, <2>2, <2>3, <2>4, <2>5, <2>6 DEF Resolving
  <1>5. \A q \in Handlers : Arrives(q)
    BY <1>2, <1>4, ElsewhereArrives
  <1>6. UNCHANGED <<participants, sessions>>
    BY DEF Resolving, FindSubject, FindEmail, Attach, Raced, Create, Resolve, SameRows
  <1> QED
    BY <1>5, <1>6, SeatsKept

LEMMA FormSeats ==
  ASSUME SeatInv, OwnInv', NEW r \in Handlers, NEW e \in Emails, SignUp(r, e) \/ LogIn(r, e),
         AccountsStand
  PROVE  SeatInv'
  <1>1. OwnInv /\ UNCHANGED <<participants, sessions>>
    BY DEF SeatInv, SignUp, LogIn
  <1>2. UNCHANGED req \/ \E n \in Nat : req' = [req EXCEPT ![r] = ByForm(e, n)]
    <2>1. CASE SignUp(r, e)
      <3>1. UNCHANGED req \/ req' = [req EXCEPT ![r] = ByForm(e, Len(users'))]
        BY <2>1 DEF SignUp, ByForm
      <3>2. Len(users') \in Nat
        BY DEF OwnInv, SignInTypeOK
      <3> QED
        BY <3>1, <3>2
    <2>2. CASE LogIn(r, e)
      BY <1>1, <2>2, FoundIsRow DEF LogIn, ByForm
    <2> QED
      BY <2>1, <2>2
  <1>3. \A q \in Handlers : Arrives(q)
    <2>1. ASSUME NEW n \in Nat, req' = [req EXCEPT ![r] = ByForm(e, n)]
          PROVE  \A q \in Handlers : Arrives(q)
      BY <1>1, <2>1, ByFormIs, ElsewhereArrives
    <2> QED
      BY <1>1, <1>2, <2>1, ElsewhereArrives
  <1> QED
    BY <1>1, <1>3, SeatsKept

LEMMA CallbackSeats ==
  ASSUME SeatInv, OwnInv', NEW r \in Handlers, NEW i \in Identities, Callback(r, i)
  PROVE  SeatInv'
  <1> DEFINE k == [NoRequest EXCEPT !.at = "subject", !.by = i]
  <1>1. OwnInv /\ UNCHANGED <<users, participants, sessions>> /\ req' = [req EXCEPT ![r] = k]
    BY DEF SeatInv, Callback
  <1>2. AccountsStand
    BY <1>1, AccountsUnchanged DEF OwnInv
  <1>3. k \in RequestRecords /\ k.at = "subject"
    <2>1. PICK q \in RequestRecords : q = NoRequest
      BY NoRequestOK
    <2> QED
      BY <2>1 DEF RequestRecords
  <1> HIDE DEF k
  <1>4. \A q \in Handlers : Arrives(q)
    BY <1>1, <1>3, ElsewhereArrives
  <1> QED
    BY <1>1, <1>2, <1>4, SeatsKept

LEMMA ChooseSeats ==
  ASSUME SeatInv, OwnInv', NEW r \in Handlers, Choose(r)
  PROVE  SeatInv'
  <1>1. /\ OwnInv /\ UNCHANGED <<users, participants, sessions>>
        /\ req \in [Handlers -> RequestRecords] /\ req[r].user \in DOMAIN users
    BY DEF SeatInv, Choose, SameRows, OwnInv, SignInTypeOK, RequestOK, Admitted
  <1>2. AccountsStand
    BY <1>1, AccountsUnchanged DEF OwnInv
  <1>3. \/ users[req[r].user].role = "ADMIN" /\ Goes(r, "issue")
        \/ \E c \in {"tonight", "arena"} : req' = [req EXCEPT ![r].at = "enrol", ![r].contest = c]
        \/ Refused(r)
    BY DEF Choose
  <1>4. ASSUME NEW c \in {"tonight", "arena"}, req' = [req EXCEPT ![r].at = "enrol", ![r].contest = c]
        PROVE  \A q \in Handlers : Arrives(q)
    <2> DEFINE k == [req[r] EXCEPT !.at = "enrol", !.contest = c]
    <2>1. k \in RequestRecords /\ k.at = "enrol"
      BY <1>1 DEF RequestRecords
    <2>2. req' = [req EXCEPT ![r] = k]
      BY <1>1, <1>4
    <2> HIDE DEF k
    <2> QED
      BY <1>1, <2>1, <2>2, ElsewhereArrives
  <1>5. \A q \in Handlers : Arrives(q)
    <2>1. CASE users[req[r].user].role = "ADMIN" /\ Goes(r, "issue")
      <3>1. PICK k \in RequestRecords : req' = [req EXCEPT ![r] = k] /\ k.user = req[r].user
        BY <1>1, <2>1, RequestGoes DEF Steps
      <3> QED
        BY <1>1, <2>1, <3>1 DEF Arrives
    <2> QED
      BY <1>1, <1>3, <1>4, <2>1, ElsewhereArrives
  <1> QED
    BY <1>1, <1>2, <1>5, SeatsKept

\* Under the lock, one row for the account, which it had or is given.
LEMMA EnrolSeats ==
  ASSUME SeatInv, OwnInv', NEW r \in Handlers, Enrol(r)
  PROVE  SeatInv'
  <1> DEFINE row == [user |-> req[r].user, contest |-> req[r].contest, there |-> TRUE]
             place == Place(req[r].user, req[r].contest)
  <1>1. /\ OwnInv /\ UNCHANGED <<users, sessions>>
        /\ req \in [Handlers -> RequestRecords] /\ participants \in Seq(ParticipantRecords)
        /\ OnePlaceEach
        /\ \A q \in Handlers : req[q].at = "issue" => Matches(req[q])
        /\ \A s \in DOMAIN sessions : HasSeat(sessions[s])
    BY DEF SeatInv, Enrol, OwnInv, SignInTypeOK
  <1>2. AccountsStand
    BY <1>1, AccountsUnchanged DEF OwnInv
  <1>3. \/ Refused(r) /\ UNCHANGED participants
        \/ \E p \in place : Seated(r, p) /\ UNCHANGED participants
        \/ place = {} /\ participants' = Append(participants, row) /\ Seated(r, Len(participants'))
    BY DEF Enrol, Enrolled
  <1>4. CASE Refused(r) /\ UNCHANGED participants
    BY <1>1, <1>2, <1>4, ElsewhereArrives, SeatsKept
  <1>5. ASSUME NEW p \in DOMAIN participants', Seated(r, p), RowsStand, OnePlaceEach',
               participants'[p].user = req[r].user, participants'[p].contest = req[r].contest,
               \A q \in DOMAIN participants : participants'[q] = participants[q]
        PROVE  SeatInv'
    <2> DEFINE k == [req[r] EXCEPT !.at = "issue", !.pid = p]
    <2>1. k.user = req[r].user /\ k.contest = req[r].contest /\ k.pid = p
      BY <1>1 DEF RequestRecords
    <2>2. req' = [req EXCEPT ![r] = k]
      BY <1>1, <1>5 DEF Seated
    <2> HIDE DEF k
    <2>3. ASSUME NEW q \in Handlers, req'[q].at = "issue" PROVE Matches(req[q])'
      <3>1. CASE q = r
        <4>1. req'[q] = k
          BY <1>1, <2>2, <3>1
        <4> QED
          BY <1>5, <2>1, <4>1 DEF Matches
      <3>2. CASE q # r
        <4>1. PICK o : o = req[q] /\ o = req'[q]
          BY <1>1, <2>2, <3>2
        <4>2. o.user \in DOMAIN users /\ Matches(o)
          BY <1>1, <2>3, <4>1, AccountsThere
        <4>3. Matches(o)'
          BY <1>2, <1>5, <4>2, MatchStands
        <4> QED
          BY <4>1, <4>3 DEF Matches
      <3> QED
        BY <3>1, <3>2
    <2>4. ASSUME NEW s \in DOMAIN sessions' PROVE HasSeat(sessions[s])'
      <3>1. PICK o : o = sessions[s] /\ o = sessions'[s]
        BY <1>1
      <3>2. s \in DOMAIN sessions
        BY <1>1
      <3>3. o.user \in DOMAIN users /\ HasSeat(o)
        BY <1>1, <3>1, <3>2, AccountsThere
      <3>4. o.live => Matches(o)'
        BY <1>2, <1>5, <3>3, MatchStands DEF HasSeat
      <3>5. HasSeat(o)'
        BY <1>1, <1>5, <3>3, <3>4 DEF HasSeat, Matches
      <3> QED
        BY <3>1, <3>5 DEF HasSeat, Matches
    <2> QED
      BY <1>5, <2>3, <2>4 DEF SeatInv
  <1>6. ASSUME NEW p \in place, Seated(r, p), UNCHANGED participants PROVE SeatInv'
    <2>1. /\ p \in DOMAIN participants /\ participants[p].user = req[r].user
          /\ participants[p].contest = req[r].contest
      BY DEF Place
    <2>2. RowsStand /\ OnePlaceEach'
      BY <1>1, <1>6 DEF RowsStand, OnePlaceEach
    <2> QED
      BY <1>5, <1>6, <2>1, <2>2
  <1>7. CASE place = {} /\ participants' = Append(participants, row) /\ Seated(r, Len(participants'))
    <2>1. row \in ParticipantRecords
      BY <1>1 DEF RequestRecords, ParticipantRecords
    <2>2. row.user = req[r].user /\ row.contest = req[r].contest
      OBVIOUS
    <2>3. ASSUME NEW p \in DOMAIN participants, participants[p].there
          PROVE  participants[p].user # row.user \/ participants[p].contest # row.contest
      BY <1>7, <2>2, <2>3 DEF Place
    <2> HIDE DEF row
    <2>4. PICK n \in Nat : n = Len(participants')
      BY <1>1, <1>7, <2>1
    <2>5. /\ n \in DOMAIN participants' /\ participants'[n] = row
          /\ DOMAIN participants' = DOMAIN participants \union {n}
          /\ \A q \in DOMAIN participants : participants'[q] = participants[q]
      BY <1>1, <1>7, <2>1, <2>4
    <2>6. RowsStand
      BY <2>5 DEF RowsStand
    <2>7. OnePlaceEach'
      BY <1>1, <2>3, <2>5 DEF OnePlaceEach
    <2> QED
      BY <1>5, <1>7, <2>2, <2>4, <2>5, <2>6, <2>7
  <1> QED
    BY <1>3, <1>4, <1>6, <1>7

\* "A session that cannot compete must not be minted at all": its row is there.
LEMMA IssueSeats ==
  ASSUME SeatInv, OwnInv', NEW r \in Handlers, Issue(r)
  PROVE  SeatInv'
  <1> DEFINE session == [by |-> req[r].by, user |-> req[r].user, pid |-> req[r].pid,
                         contest |-> req[r].contest, live |-> TRUE]
  <1>1. /\ OwnInv /\ UNCHANGED <<users, participants>> /\ OnePlaceEach
        /\ req \in [Handlers -> RequestRecords] /\ sessions \in Seq(SessionRecords)
        /\ participants \in Seq(ParticipantRecords)
        /\ req[r].at = "issue" /\ Matches(req[r])
        /\ \A q \in Handlers : req[q].at = "issue" => Matches(req[q])
        /\ \A s \in DOMAIN sessions : HasSeat(sessions[s])
    BY DEF SeatInv, Issue, OwnInv, SignInTypeOK
  <1>2. /\ sessions' = sessions
           \/ (/\ req[r].pid = 0 \/ participants[req[r].pid].there
               /\ sessions' = Append(sessions, session))
        /\ req' = [req EXCEPT ![r] = NoRequest]
    BY DEF Issue, Refused
  <1>3. session.user = req[r].user /\ session.pid = req[r].pid /\ session.contest = req[r].contest
    OBVIOUS
  <1>4. session \in SessionRecords
    BY <1>1 DEF RequestRecords, SessionRecords
  <1> HIDE DEF session
  <1>5. Matches(session)
    BY <1>1, <1>3 DEF Matches
  <1>6. 0 \notin DOMAIN participants
    BY <1>1
  <1>7. req[r].pid = 0 \/ participants[req[r].pid].there => HasSeat(session)
    BY <1>3, <1>5, <1>6 DEF HasSeat, Matches
  <1>8. \A s \in DOMAIN sessions' : HasSeat(sessions'[s])
    <2>1. CASE sessions' = sessions
      BY <1>1, <2>1
    <2>2. CASE sessions' = Append(sessions, session) /\ HasSeat(session)
      <3>1. \A s \in DOMAIN sessions' :
              sessions'[s] = session \/ (s \in DOMAIN sessions /\ sessions'[s] = sessions[s])
        BY <1>1, <1>4, <2>2
      <3> QED
        BY <1>1, <2>2, <3>1
    <2> QED
      BY <1>2, <1>7, <2>1, <2>2
  <1>9. \A q \in Handlers : req'[q].at = "issue" => Matches(req'[q])
    <2>1. NoRequest.at = "out"
      BY DEF NoRequest
    <2> QED
      BY <1>1, <1>2, <2>1
  <1>10. OnePlaceEach'
    BY <1>1 DEF OnePlaceEach
  <1>11. \A q \in Handlers : (req[q].at = "issue" => Matches(req[q]))'
    BY <1>1, <1>9 DEF Matches
  <1>12. \A s \in DOMAIN sessions' : HasSeat(sessions[s])'
    BY <1>1, <1>8 DEF HasSeat, Matches
  <1> QED
    BY <1>10, <1>11, <1>12 DEF SeatInv

\* Sessions end, with a participant's row or without.
LEMMA DeadSeats ==
  ASSUME SeatInv, OwnInv', UNCHANGED <<users, req>>, RowsStand, OnePlaceEach',
         DOMAIN participants' = DOMAIN participants, NEW S, sessions' = Dead(S),
         \A s \in DOMAIN sessions \ S :
           sessions[s].pid \in DOMAIN participants /\ participants[sessions[s].pid].there
             => participants'[sessions[s].pid].there
  PROVE  SeatInv'
  <1>1. OwnInv /\ sessions \in Seq(SessionRecords)
    BY DEF SeatInv, OwnInv, SignInTypeOK
  <1>2. AccountsStand
    BY <1>1, AccountsUnchanged DEF OwnInv
  <1>3. ASSUME NEW q \in Handlers, req'[q].at = "issue" PROVE Matches(req[q])'
    <2>1. PICK o : o = req[q] /\ o = req'[q]
      OBVIOUS
    <2>2. o.user \in DOMAIN users /\ Matches(o)
      BY <1>1, <1>3, <2>1, AccountsThere DEF SeatInv
    <2>3. Matches(o)'
      BY <1>2, <2>2, MatchStands
    <2> QED
      BY <2>1, <2>3 DEF Matches
  <1>4. ASSUME NEW s \in DOMAIN sessions' PROVE HasSeat(sessions[s])'
    <2>1. /\ s \in DOMAIN sessions
          /\ sessions'[s].user = sessions[s].user /\ sessions'[s].pid = sessions[s].pid
          /\ sessions'[s].contest = sessions[s].contest
          /\ sessions'[s].live <=> (sessions[s].live /\ s \notin S)
      BY <1>1, <1>4, SessionsDie
    <2>2. SUFFICES ASSUME sessions[s].live, s \notin S, users'[sessions'[s].user].role = "COMPETITOR"
                   PROVE  /\ sessions'[s].pid \in DOMAIN participants'
                          /\ participants'[sessions'[s].pid].user = sessions'[s].user
                          /\ participants'[sessions'[s].pid].contest = sessions'[s].contest
                          /\ participants'[sessions'[s].pid].there
      BY <2>1 DEF HasSeat, Matches
    <2>3. /\ sessions[s].pid \in DOMAIN participants
          /\ participants[sessions[s].pid].user = sessions[s].user
          /\ participants[sessions[s].pid].contest = sessions[s].contest
          /\ participants[sessions[s].pid].there
      BY <2>1, <2>2 DEF SeatInv, HasSeat, Matches
    <2> QED
      BY <2>1, <2>2, <2>3 DEF RowsStand
  <1> QED
    BY <1>3, <1>4 DEF SeatInv

LEMMA RemovalSeats ==
  ASSUME SeatInv, OwnInv', NEW p \in DOMAIN participants, AdminRemoveParticipant(p)
  PROVE  SeatInv'
  <1>1. /\ participants \in Seq(ParticipantRecords) /\ RowGone(p)
        /\ UNCHANGED <<users, req>> /\ sessions' = Dead(SessionsOf(p)) /\ OnePlaceEach
    BY DEF SeatInv, OwnInv, SignInTypeOK, AdminRemoveParticipant, RowGone
  <1>2. RowsStand /\ DOMAIN participants' = DOMAIN participants
    BY <1>1, RowGoes DEF RowsStand
  <1>3. OnePlaceEach'
    BY <1>1, RowGoes DEF OnePlaceEach
  <1>4. ASSUME NEW s \in DOMAIN sessions \ SessionsOf(p), sessions[s].pid \in DOMAIN participants,
               participants[sessions[s].pid].there
        PROVE  participants'[sessions[s].pid].there
    <2>1. sessions[s].pid # p
      BY <1>4 DEF SessionsOf
    <2> QED
      BY <1>1, <1>4, <2>1, RowGoes
  <1> QED
    BY <1>1, <1>2, <1>3, <1>4, DeadSeats

LEMMA SignInKeepsSeats ==
  ASSUME SeatInv, [SignInNext]_<<contestVars, signInVars>>
  PROVE  SeatInv'
  <1>1. OwnInv /\ OwnInv'
    BY SignInKeepsOwn DEF SeatInv
  <1>2. CASE UNCHANGED signInVars
    BY <1>1, <1>2 DEF signInVars, SeatInv, OnePlaceEach, Matches, HasSeat
  <1>3. CASE SignInStep
    <2>1. ASSUME NEW r \in Handlers, NEW i \in Identities, Callback(r, i) PROVE SeatInv'
      BY <1>1, <2>1, CallbackSeats
    <2>2. ASSUME NEW r \in Handlers, NEW e \in Emails, SignUp(r, e) PROVE SeatInv'
      BY <1>1, <2>2, SignUpOK, FormSeats
    <2>3. ASSUME NEW r \in Handlers, NEW e \in Emails, LogIn(r, e) PROVE SeatInv'
      BY <1>1, <2>3, AccountsUnchanged, FormSeats DEF OwnInv, LogIn
    <2>4. ASSUME NEW r \in Handlers, Resolving(r) PROVE SeatInv'
      <3>1. AccountsStand
        BY <1>1, <2>4, AttachOK, CreateOK, AccountsUnchanged
        DEF OwnInv, Resolving, FindSubject, FindEmail, Raced, Resolve, SameRows
      <3> QED
        BY <1>1, <2>4, <3>1, ResolvingSeats
    <2>5. ASSUME NEW r \in Handlers, Entering(r) PROVE SeatInv'
      BY <1>1, <2>5, ChooseSeats, EnrolSeats, IssueSeats DEF Entering
    <2>6. ASSUME NEW S, UNCHANGED <<users, participants, req>>, sessions' = Dead(S) PROVE SeatInv'
      <3>1. RowsStand /\ OnePlaceEach'
        BY <2>6 DEF RowsStand, SeatInv, OnePlaceEach
      <3> QED
        BY <1>1, <2>6, <3>1, DeadSeats
    <2>7. ASSUME NEW p \in DOMAIN participants, AdminRemoveParticipant(p) PROVE SeatInv'
      BY <1>1, <2>7, RemovalSeats
    <2>8. ASSUME NEW u \in DOMAIN users, Disable(u) PROVE SeatInv'
      <3>1. UNCHANGED <<participants, sessions, req>> /\ AccountsStand
        BY <1>1, <2>8, DisableOK DEF Disable
      <3>2. \A r \in Handlers : Arrives(r)
        BY <3>1 DEF Arrives
      <3> QED
        BY <1>1, <3>1, <3>2, SeatsKept
    <2> QED
      BY <1>3, <2>1, <2>2, <2>3, <2>4, <2>5, <2>6, <2>7, <2>8 DEF SignInStep, Revoke, RevokeAll
  <1> QED
    BY <1>2, <1>3 DEF SignInNext, signInVars

\* For any number of sign-ins and removals between each other's steps: a live
\* session of a competitor is of one who is there, in that contest, and once.
THEOREM NoSessionWithoutASeat == SignInSpec => []SessionsCompete
  <1>1. SignInInit => SeatInv
    <2> SUFFICES ASSUME SignInInit PROVE SeatInv
      OBVIOUS
    <2>1. OwnInv
      BY SignInStarts
    <2>2. DOMAIN participants = {} /\ DOMAIN sessions = {}
      BY DEF SignInInit
    <2>3. \A r \in Handlers : req[r].at # "issue"
      BY DEF SignInInit, NoRequest
    <2> QED
      BY <2>1, <2>2, <2>3 DEF SeatInv, OnePlaceEach
  <1>2. SeatInv => SessionsCompete
    <2> SUFFICES ASSUME SeatInv, NEW s \in DOMAIN sessions, sessions[s].live,
                        users[sessions[s].user].role = "COMPETITOR"
                 PROVE  /\ sessions[s].pid # 0
                        /\ Place(sessions[s].user, sessions[s].contest) = {sessions[s].pid}
      BY DEF SessionsCompete
    <2>1. participants \in Seq(ParticipantRecords)
      BY DEF SeatInv, OwnInv, SignInTypeOK
    <2>2. /\ sessions[s].pid \in DOMAIN participants
          /\ participants[sessions[s].pid].user = sessions[s].user
          /\ participants[sessions[s].pid].contest = sessions[s].contest
          /\ participants[sessions[s].pid].there
      BY DEF SeatInv, HasSeat, Matches
    <2>3. OnePlaceEach
      BY DEF SeatInv
    <2> QED
      BY <2>1, <2>2, <2>3 DEF Place, OnePlaceEach
  <1> QED
    BY <1>1, <1>2, SignInKeepsSeats, PTL DEF SignInSpec
===============================================================================
