--------------------------- MODULE VerdictView_proofs --------------------------
(***************************************************************************)
(* The places among the open streams, for any number of connections and    *)
(* submissions, and whatever fails: the counter is the number of           *)
(* connections that hold one, so the streams are the bounded pool.         *)
(*                                                                         *)
(* A connection may give its place back in four ways and more than once.   *)
(* That it counts once rests on two facts that hold between any two steps: *)
(* a place is held exactly while the loop is not closed, and nobody holds  *)
(* one on a connection that is over.                                       *)
(***************************************************************************)
EXTENDS VerdictView, FiniteSetTheorems, SequenceTheorems, TLAPS

Signatures == Answers \union {Unjudged}

ConnRecords ==
  [at : Stages, mine : BOOLEAN, closed : BOOLEAN, holds : BOOLEAN, gone : BOOLEAN,
   announced : [Subs -> Signatures], left : [Subs -> Signatures],
   frames : Seq(Frames), wire : Seq(Frames), ticks : Nat]

Consistent(k) ==
  /\ k.holds = ~k.closed
  /\ k.at \in {"free", "ended"} => ~k.holds

SlotInv ==
  /\ made \in 0 .. Most
  /\ row \in [Subs -> Signatures]
  /\ conn \in [Connections -> ConnRecords]
  /\ \A c \in Connections : Consistent(conn[c])
  /\ SlotsAreCounted
  /\ openStreams <= MaxStreams

-------------------------------------------------------------------------------
\* How a step may treat the places.

\* Connection c alone changes, into the record k.
Becomes(c, k) == k \in ConnRecords /\ Consistent(k) /\ conn' = [conn EXCEPT ![c] = k]

RowsStand == made' \in 0 .. Most /\ row' \in [Subs -> Signatures]

LEMMA HoldersFinite == IsFiniteSet(Holders) /\ Cardinality(Holders) \in Nat
  BY StreamAssumption, FS_Subset, FS_CardinalityType DEF Holders

LEMMA SameCount == \A S : Slots!Cardinality(S) = Cardinality(S)
  BY DEF Slots!Cardinality, Cardinality, Slots!IsFiniteSet, IsFiniteSet

\* It keeps what it has.
LEMMA KeepsPlace ==
  ASSUME SlotInv, RowsStand, NEW c \in Connections, NEW k, Becomes(c, k),
         k.holds = conn[c].holds, openStreams' = openStreams
  PROVE  SlotInv' /\ Holders' = Holders
  <1>1. Holders' = Holders
    BY DEF SlotInv, Holders, Becomes
  <1> QED
    BY <1>1 DEF SlotInv, RowsStand, Becomes, SlotsAreCounted

\* It is released, if it was held.
LEMMA GivesPlaceBack ==
  ASSUME SlotInv, RowsStand, NEW c \in Connections, NEW k, Becomes(c, k), ~k.holds,
         Released(c, k)
  PROVE  SlotInv' /\ (Holders' = Holders \/ Slots!Leave(c))
  <1>1. CASE conn[c].holds
    <2>1. Holders' = Holders \ {c} /\ c \in Holders
      BY <1>1 DEF SlotInv, Holders, Becomes
    <2>2. Cardinality(Holders') = Cardinality(Holders) - 1
      BY <2>1, HoldersFinite, FS_RemoveElement
    <2>3. openStreams' = openStreams - 1
      BY <1>1 DEF Released
    <2>4. SlotInv'
      BY <2>2, <2>3, HoldersFinite, StreamAssumption
      DEF SlotInv, RowsStand, Becomes, SlotsAreCounted
    <2> QED
      BY <2>1, <2>4 DEF Slots!Leave
  <1>2. CASE ~conn[c].holds
    <2>1. Holders' = Holders /\ openStreams' = openStreams
      BY <1>2 DEF SlotInv, Holders, Becomes, Released
    <2> QED
      BY <2>1 DEF SlotInv, RowsStand, Becomes, SlotsAreCounted
  <1> QED
    BY <1>1, <1>2

\* A step that touches no connection.
LEMMA LeavesPlaces ==
  ASSUME SlotInv, RowsStand, UNCHANGED <<openStreams, conn>>
  PROVE  SlotInv' /\ Holders' = Holders
  BY DEF SlotInv, RowsStand, Holders, SlotsAreCounted

-------------------------------------------------------------------------------
\* The records the actions make.

LEMMA NoConnRecord == NoConn \in ConnRecords /\ Consistent(NoConn) /\ ~NoConn.holds
  <1>1. Untold \in [Subs -> Signatures]
    BY DEF Untold, Signatures
  <1>2. <<>> \in Seq(Frames) /\ {} \in SUBSET Subs /\ "free" \in Stages /\ 0 \in Nat
    BY DEF Stages
  <1> QED
    BY <1>1, <1>2 DEF NoConn, ConnRecords, Consistent

LEMMA OverRecord ==
  ASSUME NEW k \in ConnRecords
  PROVE  Over(k) \in ConnRecords /\ Consistent(Over(k)) /\ ~Over(k).holds
  <1>1. CASE k.gone \/ ~k.mine
    BY <1>1, NoConnRecord DEF Over
  <1>2. CASE ~(k.gone \/ ~k.mine)
    <2>1. Over(k) = [NoConn EXCEPT !.at = "ended", !.gone = FALSE, !.wire = k.wire]
      BY <1>2 DEF Over
    <2>2. "ended" \in Stages /\ k.wire \in Seq(Frames)
      BY DEF Stages, ConnRecords
    <2> HIDE DEF NoConn
    <2> QED
      BY <2>1, <2>2, NoConnRecord DEF ConnRecords, Consistent
  <1> QED
    BY <1>1, <1>2

LEMMA LetGoRecord ==
  ASSUME SlotInv, NEW c \in Connections
  PROVE  LetGo(c) \in ConnRecords /\ Consistent(LetGo(c)) /\ LetGo(c).holds = conn[c].holds
  <1>1. conn[c] \in ConnRecords /\ Consistent(conn[c])
    BY DEF SlotInv
  <1>2. CASE conn[c].at \in {"free", "ended"}
    BY <1>1, <1>2, NoConnRecord DEF LetGo, Consistent, ConnRecords
  <1>3. CASE conn[c].at \notin {"free", "ended"}
    BY <1>1, <1>3 DEF LetGo, Consistent, ConnRecords
  <1> QED
    BY <1>2, <1>3

LEMMA StoppedRecord ==
  ASSUME SlotInv, NEW c \in Connections
  PROVE  Stopped(c) \in ConnRecords /\ Consistent(Stopped(c)) /\ ~Stopped(c).holds
  <1>1. conn[c] \in ConnRecords /\ <<>> \in Seq(Frames)
    BY DEF SlotInv
  <1> QED
    BY <1>1 DEF Stopped, ConnRecords, Consistent

\* What one step does to the pool.
PlaceStep == SlotInv' /\ [Slots!PoolNext]_Holders

LEMMA KeepsOrGivesBack ==
  ASSUME SlotInv, RowsStand, NEW c \in Connections, NEW k, Becomes(c, k),
         \/ k.holds = conn[c].holds /\ openStreams' = openStreams
         \/ ~k.holds /\ Released(c, k)
  PROVE  PlaceStep
  BY KeepsPlace, GivesPlaceBack DEF PlaceStep, Slots!PoolNext

\* After a tick, whatever it came to.
LEMMA SleepsStep ==
  ASSUME SlotInv, RowsStand, NEW c \in Connections, NEW k \in ConnRecords,
         k.holds = conn[c].holds, k.holds = ~k.closed, Sleeps(c, k)
  PROVE  PlaceStep
  <1>1. CASE k.ticks = Lifetime
    <2>1. Released(c, Over(k))
      BY <1>1 DEF Sleeps
    <2>2. Becomes(c, Over(k)) /\ ~Over(k).holds
      BY <2>1, OverRecord DEF Released, Becomes
    <2> QED
      BY <2>1, <2>2, KeepsOrGivesBack
  <1>2. CASE k.ticks # Lifetime
    <2> DEFINE later == [k EXCEPT !.at = "tick", !.ticks = @ + 1]
    <2>1. conn' = [conn EXCEPT ![c] = later] /\ openStreams' = openStreams
      BY <1>2 DEF Sleeps
    <2>2. later \in ConnRecords /\ Consistent(later) /\ later.holds = k.holds
      <3>1. "tick" \in Stages /\ k.ticks + 1 \in Nat
        BY DEF ConnRecords, Stages
      <3>2. later \in ConnRecords
        BY <3>1 DEF ConnRecords
      <3>3. later.holds = k.holds /\ later.closed = k.closed /\ later.at = "tick"
        BY DEF ConnRecords
      <3> HIDE DEF later
      <3> QED
        BY <3>2, <3>3 DEF Consistent
    <2>3. Becomes(c, later)
      BY <2>1, <2>2 DEF Becomes
    <2> HIDE DEF later
    <2> QED
      BY <2>1, <2>2, <2>3, KeepsOrGivesBack
  <1> QED
    BY <1>1, <1>2

\* A step that changes one record in place and lets nobody in or out.
LEMMA InPlaceStep ==
  ASSUME SlotInv, RowsStand, openStreams' = openStreams, NEW c \in Connections,
         NEW k \in ConnRecords, conn' = [conn EXCEPT ![c] = k],
         k.holds = conn[c].holds, k.closed = conn[c].closed, k.at \notin {"free", "ended"}
  PROVE  PlaceStep
  <1>1. Becomes(c, k)
    BY DEF SlotInv, Becomes, Consistent
  <1> QED
    BY <1>1, KeepsOrGivesBack

-------------------------------------------------------------------------------
\* The steps of the server.

LEMMA RowSteps ==
  ASSUME SlotInv, NEW s \in Subs, Judge(s) \/ SecondThought(s)
  PROVE  PlaceStep
  <1>1. RowsStand /\ UNCHANGED <<openStreams, conn>>
    BY DEF Judge, SecondThought, SlotInv, RowsStand, Signatures
  <1> QED
    BY <1>1, LeavesPlaces DEF PlaceStep

LEMMA InsertStep ==
  ASSUME SlotInv, Insert
  PROVE  PlaceStep
  <1>1. RowsStand /\ UNCHANGED <<openStreams, conn>>
    BY StreamAssumption DEF Insert, SlotInv, RowsStand
  <1> QED
    BY <1>1, LeavesPlaces DEF PlaceStep

LEMMA OpenStep ==
  ASSUME SlotInv, NEW c \in Connections, NEW mine \in BOOLEAN, Open(c, mine)
  PROVE  PlaceStep
  <1> DEFINE k == [NoConn EXCEPT !.at = IF mine THEN "priming" ELSE "tick", !.mine = mine,
                                 !.closed = FALSE, !.holds = TRUE, !.gone = FALSE]
  <1>1. /\ conn[c] = NoConn /\ openStreams < MaxStreams /\ openStreams' = openStreams + 1
        /\ conn' = [conn EXCEPT ![c] = k] /\ RowsStand
    BY DEF Open, Room, SlotInv, RowsStand
  <1>2. k \in ConnRecords /\ Consistent(k) /\ k.holds
    <2>1. "priming" \in Stages /\ "tick" \in Stages
      BY DEF Stages
    <2> HIDE DEF NoConn
    <2> QED
      BY <2>1, NoConnRecord DEF ConnRecords, Consistent
  <1> HIDE DEF k
  <1>3. Holders' = Holders \union {c} /\ c \notin Holders
    BY <1>1, <1>2, NoConnRecord DEF SlotInv, Holders
  <1>4. Cardinality(Holders') = Cardinality(Holders) + 1
    BY <1>3, HoldersFinite, FS_AddElement
  <1>5. SlotInv'
    BY <1>1, <1>2, <1>4, HoldersFinite, StreamAssumption
    DEF SlotInv, RowsStand, SlotsAreCounted
  <1>6. Slots!Enter(c)
    BY <1>1, <1>3, SameCount DEF Slots!Enter, SlotInv, SlotsAreCounted
  <1> QED
    BY <1>5, <1>6 DEF PlaceStep, Slots!PoolNext

LEMMA PrimeSteps ==
  ASSUME SlotInv, NEW c \in Connections, Prime(c) \/ PrimeFails(c)
  PROVE  PlaceStep
  <1>0. conn[c] \in ConnRecords /\ Consistent(conn[c]) /\ RowsStand
    BY DEF SlotInv, Prime, PrimeFails, RowsStand
  <1>1. CASE Prime(c)
    <2> DEFINE known == [s \in Subs |-> IF s \in Recent THEN row[s] ELSE Unjudged]
               k == [conn[c] EXCEPT !.at = "tick", !.announced = known]
    <2>1. known \in [Subs -> Signatures]
      BY DEF SlotInv, Signatures
    <2>2. conn' = [conn EXCEPT ![c] = k] /\ openStreams' = openStreams
      BY <1>1 DEF Prime, SlotInv
    <2> HIDE DEF known
    <2>3. /\ k \in ConnRecords /\ k.holds = conn[c].holds /\ k.closed = conn[c].closed
          /\ k.at = "tick"
      BY <1>0, <2>1 DEF ConnRecords, Stages
    <2> HIDE DEF k
    <2> QED
      BY <1>0, <2>2, <2>3, InPlaceStep
  <1>2. CASE PrimeFails(c)
    <2>1. openStreams' = openStreams
      BY <1>2 DEF PrimeFails
    <2>2. CASE conn[c].closed
      <3>1. Becomes(c, NoConn) /\ NoConn.holds = conn[c].holds
        BY <1>0, <1>2, <2>2, NoConnRecord DEF PrimeFails, SlotInv, Becomes, Consistent
      <3> QED
        BY <1>0, <2>1, <3>1, KeepsOrGivesBack
    <2>3. CASE ~conn[c].closed
      <3> DEFINE k == [conn[c] EXCEPT !.at = "dead"]
      <3>1. conn' = [conn EXCEPT ![c] = k]
        BY <1>2, <2>3 DEF PrimeFails, SlotInv
      <3>2. /\ k \in ConnRecords /\ k.holds = conn[c].holds /\ k.closed = conn[c].closed
            /\ k.at = "dead"
        BY <1>0 DEF ConnRecords, Stages
      <3> HIDE DEF k
      <3> QED
        BY <1>0, <2>1, <3>1, <3>2, InPlaceStep
    <2> QED
      BY <2>2, <2>3
  <1> QED
    BY <1>1, <1>2

\* A loop, a start or a request that is over.
LEMMA EndSteps ==
  ASSUME SlotInv, NEW c \in Connections, LoopEnds(c) \/ SpectatorTick(c) \/ Abort(c) \/ Cancel(c)
  PROVE  PlaceStep
  <1>1. RowsStand /\ (Released(c, Over(conn[c])) \/ Released(c, Stopped(c)))
    BY DEF SlotInv, RowsStand, LoopEnds, SpectatorTick, Abort, Cancel
  <1>2. conn[c] \in ConnRecords
    BY DEF SlotInv
  <1>3. CASE Released(c, Over(conn[c]))
    <2>1. Becomes(c, Over(conn[c])) /\ ~Over(conn[c]).holds
      BY <1>2, <1>3, OverRecord DEF Released, Becomes
    <2> QED
      BY <1>1, <1>3, <2>1, KeepsOrGivesBack
  <1>4. CASE Released(c, Stopped(c))
    <2>1. Becomes(c, Stopped(c)) /\ ~Stopped(c).holds
      BY <1>4, StoppedRecord DEF Released, Becomes
    <2> QED
      BY <1>1, <1>4, <2>1, KeepsOrGivesBack
  <1> QED
    BY <1>1, <1>3, <1>4

\* A tick of a student's stream, up to and including its frames.
LEMMA TickSteps ==
  ASSUME SlotInv, NEW c \in Connections,
         List(c) \/ TickFails(c) \/ View(c) \/ ViewFails(c) \/ Send(c)
  PROVE  PlaceStep
  <1>0. conn[c] \in ConnRecords /\ Consistent(conn[c]) /\ RowsStand
    BY DEF SlotInv, RowsStand, List, TickFails, View, ViewFails, Send
  <1>1. CASE List(c)
    <2> DEFINE todo == [s \in Subs |-> IF s \in Recent /\ row[s] # conn[c].announced[s]
                                       THEN row[s] ELSE Unjudged]
               k == [conn[c] EXCEPT !.at = "viewing", !.left = todo]
    <2>1. todo \in [Subs -> Signatures]
      BY DEF SlotInv, Signatures
    <2>2. conn' = [conn EXCEPT ![c] = k] /\ openStreams' = openStreams
      BY <1>1 DEF List, SlotInv
    <2> HIDE DEF todo
    <2>3. /\ k \in ConnRecords /\ k.holds = conn[c].holds /\ k.closed = conn[c].closed
          /\ k.at = "viewing"
      BY <1>0, <2>1 DEF ConnRecords, Stages
    <2> HIDE DEF k
    <2> QED
      BY <1>0, <2>2, <2>3, InPlaceStep
  <1>2. CASE TickFails(c)
    BY <1>0, <1>2, SleepsStep DEF TickFails, Consistent
  <1>3. CASE View(c)
    <2>1. PICK s \in Subs :
            conn' = [conn EXCEPT ![c].announced[s] = conn[c].left[s],
                                 ![c].left[s] = Unjudged,
                                 ![c].frames = Append(@, [sub |-> s, answer |-> row[s]])]
      BY <1>3 DEF View
    <2> DEFINE frame == [sub |-> s, answer |-> row[s]]
               announced == [conn[c].announced EXCEPT ![s] = conn[c].left[s]]
               left == [conn[c].left EXCEPT ![s] = Unjudged]
               frames == Append(conn[c].frames, frame)
               k == [conn[c] EXCEPT !.announced = announced, !.left = left, !.frames = frames]
    <2>2. frame \in Frames
      BY DEF SlotInv, Frames, Signatures
    <2>3. frames \in Seq(Frames)
      <3> HIDE DEF frame
      <3> QED
        BY <1>0, <2>2 DEF ConnRecords
    <2>4. announced \in [Subs -> Signatures] /\ left \in [Subs -> Signatures]
      BY <1>0 DEF ConnRecords, Signatures
    <2>5. conn' = [conn EXCEPT ![c] = k] /\ openStreams' = openStreams
      BY <1>0, <1>3, <2>1 DEF View, SlotInv, ConnRecords
    <2> HIDE DEF announced, left, frames
    <2>6. /\ k \in ConnRecords /\ k.holds = conn[c].holds /\ k.closed = conn[c].closed
          /\ k.at = conn[c].at
      BY <1>0, <2>3, <2>4 DEF ConnRecords
    <2>7. conn[c].at = "viewing"
      BY <1>3 DEF View, Latest
    <2> HIDE DEF k
    <2> QED
      BY <1>0, <2>5, <2>6, <2>7, InPlaceStep
  <1>4. CASE ViewFails(c)
    <2>1. PICK s \in Subs :
            Sleeps(c, [conn[c] EXCEPT !.announced[s] = conn[c].left[s],
                                      !.left = Untold, !.frames = <<>>])
      BY <1>4 DEF ViewFails
    <2> DEFINE k == [conn[c] EXCEPT !.announced[s] = conn[c].left[s],
                                    !.left = Untold, !.frames = <<>>]
    <2>2. Untold \in [Subs -> Signatures] /\ <<>> \in Seq(Frames)
      BY DEF Untold, Signatures
    <2>3. k \in ConnRecords /\ k.holds = conn[c].holds /\ k.closed = conn[c].closed
      BY <1>0, <2>2 DEF ConnRecords
    <2> HIDE DEF k
    <2>4. Sleeps(c, k)
      BY <2>1 DEF k
    <2> QED
      BY <1>0, <2>3, <2>4, SleepsStep DEF Consistent
  <1>5. CASE Send(c)
    <2> DEFINE out == IF conn[c].closed THEN <<>> ELSE conn[c].frames
               k == [conn[c] EXCEPT !.frames = <<>>, !.wire = @ \o out]
    <2>1. out \in Seq(Frames)
      BY <1>0 DEF ConnRecords
    <2>2. conn[c].wire \o out \in Seq(Frames) /\ <<>> \in Seq(Frames)
      BY <1>0, <2>1, ConcatProperties DEF ConnRecords
    <2>3. Sleeps(c, k)
      BY <1>5 DEF Send
    <2> HIDE DEF out
    <2>4. k \in ConnRecords /\ k.holds = conn[c].holds /\ k.closed = conn[c].closed
      BY <1>0, <2>2 DEF ConnRecords
    <2> HIDE DEF k
    <2> QED
      BY <1>0, <2>3, <2>4, SleepsStep DEF Consistent
  <1> QED
    BY <1>1, <1>2, <1>3, <1>4, <1>5

LEMMA ServerSteps == SlotInv /\ ServerStep => PlaceStep
  BY RowSteps, PrimeSteps, EndSteps, TickSteps DEF ServerStep

-------------------------------------------------------------------------------
\* The steps of the page and of the room.

\* The client lets go of a connection; what it held it still holds.
LEMMA LetGoStep ==
  ASSUME SlotInv, RowsStand, openStreams' = openStreams, NEW c \in Connections,
         conn' = [conn EXCEPT ![c] = LetGo(c)]
  PROVE  PlaceStep
  <1>1. Becomes(c, LetGo(c)) /\ LetGo(c).holds = conn[c].holds
    BY LetGoRecord DEF Becomes
  <1> QED
    BY <1>1, KeepsOrGivesBack

LEMMA LetGoOfSourceStep ==
  ASSUME SlotInv, RowsStand, openStreams' = openStreams, LetGoOfSource
  PROVE  PlaceStep
  <1>1. CASE view.source \in Connections
    BY <1>1, LetGoStep DEF LetGoOfSource
  <1>2. CASE view.source \notin Connections
    BY <1>2, LeavesPlaces DEF LetGoOfSource, PlaceStep
  <1> QED
    BY <1>1, <1>2

LEMMA ReceiveStep ==
  ASSUME SlotInv, Receive
  PROVE  PlaceStep
  <1> DEFINE c == view.source
             k == [conn[c] EXCEPT !.wire = Tail(@)]
  <1>1. /\ c \in Connections /\ conn[c].wire # <<>>
        /\ RowsStand /\ openStreams' = openStreams
    BY DEF Receive, SlotInv, RowsStand
  <1>2. conn[c] \in ConnRecords /\ Consistent(conn[c])
    BY <1>1 DEF SlotInv
  <1>3. LetGoOfSource \/ conn' = [conn EXCEPT ![c] = k]
    BY DEF Receive, SlotInv
  <1>4. CASE LetGoOfSource
    BY <1>1, <1>4, LetGoOfSourceStep
  <1>5. CASE conn' = [conn EXCEPT ![c] = k]
    <2>1. Tail(conn[c].wire) \in Seq(Frames)
      BY <1>1, <1>2, HeadTailProperties DEF ConnRecords
    <2>2. /\ k \in ConnRecords /\ k.holds = conn[c].holds /\ k.closed = conn[c].closed
          /\ k.at = conn[c].at
      BY <1>2, <2>1 DEF ConnRecords
    <2> HIDE DEF k
    <2>3. Becomes(c, k)
      BY <1>2, <1>5, <2>2 DEF Becomes, Consistent
    <2> QED
      BY <1>1, <2>2, <2>3, KeepsOrGivesBack
  <1> QED
    BY <1>3, <1>4, <1>5

LEMMA PageSteps ==
  ASSUME SlotInv,
         \/ Submit \/ Created \/ SubmitFails
         \/ Connect \/ ConnectFails \/ SourceFails \/ Receive
         \/ \E q \in Polls : AskPoll(q) \/ ReadPoll(q) \/ AnswerPoll(q) \/ PollFails(q)
         \/ GiveUpWaiting
         \/ SpectatorOpens \/ SpectatorLeaves
  PROVE  PlaceStep
  <1>1. CASE Submit
    BY <1>1, InsertStep DEF Submit
  <1>2. CASE Created \/ SourceFails
    BY <1>2, LetGoOfSourceStep DEF Created, SourceFails, SlotInv, RowsStand
  <1>3. CASE Connect \/ SpectatorOpens
    BY <1>3, OpenStep DEF Connect, SpectatorOpens
  <1>4. CASE Receive
    BY <1>4, ReceiveStep
  <1>5. CASE SpectatorLeaves
    <2>1. PICK c \in Connections : conn' = [conn EXCEPT ![c] = LetGo(c)]
      BY <1>5 DEF SpectatorLeaves
    <2>2. RowsStand /\ openStreams' = openStreams
      BY <1>5 DEF SpectatorLeaves, SlotInv, RowsStand
    <2> QED
      BY <2>1, <2>2, LetGoStep
  <1>6. CASE \/ SubmitFails \/ ConnectFails \/ GiveUpWaiting
             \/ \E q \in Polls : AskPoll(q) \/ ReadPoll(q) \/ AnswerPoll(q) \/ PollFails(q)
    <2>1. UNCHANGED <<made, row, openStreams, conn>>
      BY <1>6 DEF SubmitFails, ConnectFails, GiveUpWaiting, AskPoll, ReadPoll, AnswerPoll,
                  PollFails, streamVars
    <2>2. RowsStand
      BY <2>1 DEF SlotInv, RowsStand
    <2> QED
      BY <2>1, <2>2, LeavesPlaces DEF PlaceStep
  <1> QED
    BY <1>1, <1>2, <1>3, <1>4, <1>5, <1>6

-------------------------------------------------------------------------------
LEMMA SlotInvInit == Init => SlotInv /\ Slots!PoolInit
  <1> SUFFICES ASSUME Init PROVE SlotInv /\ Slots!PoolInit
    OBVIOUS
  <1>1. Holders = {}
    BY DEF Init, StreamInit, Holders, NoConn
  <1>2. conn \in [Connections -> ConnRecords] /\ \A c \in Connections : Consistent(conn[c])
    BY NoConnRecord DEF Init, StreamInit
  <1>3. row \in [Subs -> Signatures]
    BY DEF Init, StreamInit, Untold, Signatures
  <1> QED
    BY <1>1, <1>2, <1>3, FS_EmptySet, StreamAssumption
    DEF Init, StreamInit, SlotInv, SlotsAreCounted, Slots!PoolInit

LEMMA SlotInvStep == SlotInv /\ [Next]_vars => PlaceStep
  <1> SUFFICES ASSUME SlotInv, [Next]_vars PROVE PlaceStep
    OBVIOUS
  <1>1. CASE ServerStep
    BY <1>1, ServerSteps
  <1>2. CASE UNCHANGED vars
    <2>1. RowsStand /\ UNCHANGED <<openStreams, conn>>
      BY <1>2 DEF vars, streamVars, SlotInv, RowsStand
    <2> QED
      BY <2>1, LeavesPlaces DEF PlaceStep
  <1> QED
    BY <1>1, <1>2, PageSteps DEF Next

LEMMA SlotInvAlways == Spec => []SlotInv
  <1>1. SlotInv /\ [Next]_vars => SlotInv'
    BY SlotInvStep DEF PlaceStep
  <1> QED
    BY <1>1, SlotInvInit, PTL DEF Spec

\* openContestStream's counter: whatever fails, and however often a connection is
\* released, it is the number of connections that hold a place.
THEOREM SlotsCounted == Spec => []SlotsAreCounted
  <1>1. SlotInv => SlotsAreCounted
    BY DEF SlotInv
  <1> QED
    BY <1>1, SlotInvAlways, PTL

\* The streams implement the bounded pool: every step of the page and the server
\* lets one connection in under the cap, lets one out, or is none of the pool's.
THEOREM StreamsAreAPool == Spec => StreamsArePooled
  <1>1. SlotInv /\ [Next]_vars => [Slots!PoolNext]_Holders
    BY SlotInvStep DEF PlaceStep
  <1> QED
    BY <1>1, SlotInvInit, SlotInvAlways, PTL DEF Spec, StreamsArePooled, Slots!PoolSpec
===============================================================================
