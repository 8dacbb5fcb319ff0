-------------------------------- MODULE MCNight -------------------------------
(***************************************************************************)
(* The components around a contest that share little or no state, each on  *)
(* an instance of its own: one part takes steps in a behaviour, the others *)
(* stand still.  What a part may do is its module's next-state relation;   *)
(* where the instance is smaller than the constants, which all parts       *)
(* share, the bound is a guard here.                                       *)
(***************************************************************************)
EXTENDS MCBoard, MCStandings, RateLimiter, SignIn

VARIABLE part

Parts == {"freeze", "cache", "scores", "limiter", "sign-in"}

others(p) ==
  /\ p \notin {"freeze", "cache", "sign-in"} => UNCHANGED contestVars
  /\ p \notin {"freeze", "cache"} => UNCHANGED boardVars
  /\ p # "scores" => UNCHANGED standingsVars
  /\ p # "limiter" => UNCHANGED limiterVars
  /\ p # "sign-in" => UNCHANGED signInVars

nightVars == <<vars, standingsVars, limiterVars, signInVars, part>>

-------------------------------------------------------------------------------
\* Who signs in: two accounts of one provider and one of another that all give
\* the same address, or none.
Identity(provider, subject, email) ==
  [provider |-> provider, subject |-> subject, email |-> email]

SharedAddress ==
  {Identity("google", "g1", "e1"), Identity("google", "g2", "e1"),
   Identity("github", "h1", "e1"), Identity("github", "h1", NoEmail)}

NightInit ==
  /\ part \in Parts
  /\ CASE part = "freeze" -> ContestInit
       [] part = "sign-in" -> UnderWay(1, 2)
       [] OTHER -> UnderWay(0, 3)
  /\ BoardInit /\ StandingsInit /\ LimiterInit /\ SignInInit
  /\ part # "scores" => rules = CHOOSE r \in Rules : TRUE
  /\ part # "sign-in" => users = <<>>

\* An organizer works on a contest that freezes by schedule, or by hand.
FreezePart ==
  \/ MoveContest
  \/ Invalidate
  \/ /\ pending = 0
     /\ \/ SetFrozen
        \/ \E p \in Players :
             \/ \E name \in Names : Join(p, name) \/ Rename(p, name)
             \/ Remove(p)
             \/ \E score \in Scores \union {Nothing} : Revise(p, score)
             \/ GiveUp(p)

\* Two requests for the board of an open contest, and a submission judged once.
CachePart ==
  \/ clock < 1 /\ Tick /\ UNCHANGED boardVars
  \/ SetFrozen
  \/ Invalidate
  \/ \E p \in Players :
       \/ Join(p, CHOOSE n \in Names : TRUE)
       \/ Remove(p)
       \/ scores[p] = <<>> /\ \E score \in {CHOOSE s \in Scores : TRUE, Nothing} : Revise(p, score)
       \/ GiveUp(p)
  \/ \E r \in Readers : Ask(r) \/ Lookup(r) \/ Answer(r)
  \/ \E l \in Loads : ReadContest(l) \/ ReadScores(l) \/ LoadFails(l)

SignInPart == (clock = 2 => UNCHANGED clock) /\ SignInNext

NightNext ==
  /\ UNCHANGED part
  /\ others(part)
  /\ \/ part = "freeze" /\ FreezePart
     \/ part = "cache" /\ CachePart
     \/ part = "scores" /\ StandingsNext
     \/ part = "limiter" /\ LimiterNext
     \/ part = "sign-in" /\ SignInPart

NightSpec == NightInit /\ [][NightNext]_nightVars
===============================================================================
