------------------------------- MODULE MCRunner -------------------------------
(***************************************************************************)
(* The judge of one submission on a small instance: a program may do       *)
(* anything on each of its tests.                                          *)
(***************************************************************************)
EXTENDS Runner

AnyProgram == [Tests -> Deeds]
===============================================================================
