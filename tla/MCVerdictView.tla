------------------------------ MODULE MCVerdictView -----------------------------
(***************************************************************************)
(* Instances of VerdictView for TLC: a server with room for one stream or  *)
(* two, a student with two submissions and a page.                         *)
(***************************************************************************)
EXTENDS VerdictView
===============================================================================
