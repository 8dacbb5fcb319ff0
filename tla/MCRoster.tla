-------------------------------- MODULE MCRoster -------------------------------
(***************************************************************************)
(* Instances of Roster for TLC.                                            *)
(***************************************************************************)
EXTENDS Roster, TLC

CONSTANTS d1, A, B

\* Line-ups with letters for everybody, for one division, and for both.
Open(label) == [division |-> None, label |-> label]
Own(label) == [division |-> d1, label |-> label]
MixedLineUps == {{Open(A), Open(B)}, {Own(A), Own(B)}, {Open(A), Own(A), Own(B)}}

RosterSymmetry == Permutations(Participants) \union Permutations(Teams)
===============================================================================
