---------------------------------- MODULE Pool ---------------------------------
(***************************************************************************)
(* A bounded pool, the promise behind every cap in this code: at most Size *)
(* clients are inside at any moment.  The open streams of the live board   *)
(* (contest/stream.ts) and the password checks of a sign-in                *)
(* (contest/rate-limit.ts) both implement it with a counter.               *)
(***************************************************************************)
EXTENDS Naturals, FiniteSets

CONSTANTS
  Clients,    \* whoever may hold a place, a finite set
  Size        \* how many may hold one at a time

VARIABLE holders    \* those inside

Enter(c) ==
  /\ c \notin holders
  /\ Cardinality(holders) < Size
  /\ holders' = holders \union {c}

Leave(c) ==
  /\ c \in holders
  /\ holders' = holders \ {c}

PoolInit == holders = {}

PoolNext == \E c \in Clients : Enter(c) \/ Leave(c)

PoolSpec == PoolInit /\ [][PoolNext]_holders

===============================================================================
