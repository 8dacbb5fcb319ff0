------------------------------- MODULE MCJudging ------------------------------
(***************************************************************************)
(* Instances of Judging for TLC.  The rare events of a run may come in any *)
(* combination and at any time; the numbers bound how many there are.      *)
(***************************************************************************)
EXTENDS Judging

LOCAL INSTANCE Functions

AtMost(n, tally) == FoldFunction(LAMBDA count, sum : count + sum, 0, tally) <= n

\* Any two events; of one kind only two deaths of a handler or two failed calls.
RareEvents ==
  {tally \in [Events -> 0 .. 2] :
     AtMost(2, tally) /\ \A e \in Events \ {"crash", "outage"} : tally[e] <= 1}

\* One rejudge and nothing else.
OneRejudge == {tally \in [Events -> 0 .. 1] : \A e \in Events \ {"rejudge"} : tally[e] = 0}
===============================================================================
