---------------------------- MODULE TunnelProofs ----------------------------
(***************************************************************************)
(* Proofs about Tunnel, for any number of sessions, any capacities of the  *)
(* channels and any number of packets.                                     *)
(***************************************************************************)
EXTENDS Tunnel, FiniteSetTheorems, TLAPS

-----------------------------------------------------------------------------
(* Sequences. *)

LEMMA AppendElements ==
    ASSUME NEW S, NEW q \in Seq(S), NEW e \in S
    PROVE  ToSet(Append(q, e)) = ToSet(q) \cup {e}
<1>1. /\ DOMAIN Append(q, e) = 1 .. Len(q) + 1 /\ DOMAIN q = 1 .. Len(q) /\ Len(q) \in Nat
      /\ \A i \in 1 .. Len(q) : Append(q, e)[i] = q[i]
      /\ Append(q, e)[Len(q) + 1] = e
  OBVIOUS
<1>2. 1 .. Len(q) + 1 = 1 .. Len(q) \cup {Len(q) + 1}
  BY <1>1
<1> QED
  BY <1>1, <1>2 DEF ToSet

LEMMA TailElements ==
    ASSUME NEW S, NEW q \in Seq(S), q /= <<>>
    PROVE  /\ ToSet(q) = {Head(q)} \cup ToSet(Tail(q))
           /\ Head(q) \in S /\ Tail(q) \in Seq(S)
<1>1. /\ Head(q) = q[1] /\ 1 \in DOMAIN q /\ Len(q) \in Nat \ {0}
      /\ Tail(q) \in Seq(S) /\ Len(Tail(q)) = Len(q) - 1
      /\ \A i \in 1 .. Len(q) - 1 : Tail(q)[i] = q[i + 1]
  OBVIOUS
<1>2. ASSUME NEW x \in ToSet(q) PROVE x \in {Head(q)} \cup ToSet(Tail(q))
  <2>1. PICK i \in 1 .. Len(q) : x = q[i]
    BY DEF ToSet
  <2>2. CASE i = 1
    BY <1>1, <2>1, <2>2
  <2>3. CASE i /= 1
    <3>1. i - 1 \in 1 .. Len(q) - 1 /\ (i - 1) + 1 = i
      BY <1>1, <2>1, <2>3
    <3>2. x = Tail(q)[i - 1] /\ DOMAIN Tail(q) = 1 .. Len(q) - 1
      BY <1>1, <2>1, <3>1
    <3> QED
      BY <3>1, <3>2 DEF ToSet
  <2> QED
    BY <2>2, <2>3
<1>3. ToSet(Tail(q)) \subseteq ToSet(q)
  <2>1. ASSUME NEW i \in 1 .. Len(q) - 1 PROVE i + 1 \in 1 .. Len(q) /\ Tail(q)[i] = q[i + 1]
    BY <1>1
  <2>2. DOMAIN Tail(q) = 1 .. Len(q) - 1 /\ DOMAIN q = 1 .. Len(q)
    BY <1>1
  <2> QED
    BY <2>1, <2>2 DEF ToSet
<1>4. Head(q) \in ToSet(q)
  BY <1>1 DEF ToSet
<1>5. Head(q) \in S
  BY <1>1
<1> QED
  BY <1>1, <1>2, <1>3, <1>4, <1>5

LEMMA WiderSeq ==
    ASSUME NEW S, NEW T, S \subseteq T, NEW q \in Seq(S)
    PROVE  q \in Seq(T)
<1>1. Len(q) \in Nat /\ DOMAIN q = 1 .. Len(q) /\ \A i \in 1 .. Len(q) : q[i] \in T
  OBVIOUS
<1>2. q = [i \in 1 .. Len(q) |-> q[i]]
  OBVIOUS
<1> QED
  BY <1>1, <1>2

LEMMA EmptyElements == ToSet(<<>>) = {}
  BY DEF ToSet

LEMMA ElementsTyped ==
    ASSUME NEW S, NEW q \in Seq(S)
    PROVE  ToSet(q) \subseteq S
  BY DEF ToSet

\* Increasing: the packets of a channel are in the order they were accepted.
Increasing(q) == \A i, j \in DOMAIN q : i < j => q[i] < q[j]

LEMMA AppendIncreasing ==
    ASSUME NEW q \in Seq(Int), NEW e \in Int, Increasing(q), \A p \in ToSet(q) : p < e
    PROVE  Increasing(Append(q, e))
<1>1. DOMAIN Append(q, e) = 1 .. Len(q) + 1 /\ DOMAIN q = 1 .. Len(q) /\ Len(q) \in Nat
  OBVIOUS
<1>2. \A i \in 1 .. Len(q) : Append(q, e)[i] = q[i] /\ q[i] \in ToSet(q)
  BY DEF ToSet
<1>3. Append(q, e)[Len(q) + 1] = e
  OBVIOUS
<1> QED
  BY <1>1, <1>2, <1>3 DEF Increasing

LEMMA TailIncreasing ==
    ASSUME NEW q \in Seq(Int), q /= <<>>, Increasing(q)
    PROVE  /\ Increasing(Tail(q))
           /\ \A p \in ToSet(Tail(q)) : Head(q) < p
<1>1. /\ Head(q) = q[1] /\ Len(q) \in Nat \ {0}
      /\ DOMAIN q = 1 .. Len(q) /\ DOMAIN Tail(q) = 1 .. Len(q) - 1
      /\ \A i \in 1 .. Len(q) - 1 : Tail(q)[i] = q[i + 1]
  OBVIOUS
<1>2. Increasing(Tail(q))
  BY <1>1 DEF Increasing
<1>3. \A i \in 1 .. Len(q) - 1 : Head(q) < Tail(q)[i]
  BY <1>1 DEF Increasing
<1> QED
  BY <1>1, <1>2, <1>3 DEF ToSet

-----------------------------------------------------------------------------
(* Types. *)

\* readLoop has a datagram in its hands.
Holding == rlPc = "route" \/ rlPc = "search"

\* The datagrams that readLoop is done with.
Routed == IF Holding THEN upCount - 1 ELSE upCount

\* What the tasks hold at each place, and that the turn is taken once a datagram.
Shape ==
    /\ rlPkt = IF Holding THEN upCount ELSE NoPkt
    /\ Holding => upCount \in Up
    /\ rrIndex <= IF rlPc = "search" THEN upCount ELSE Routed
    /\ \A s \in Sessions : /\ spc[s] = "write" => hand[s] \in Up
                           /\ spc[s] = "return" => hand[s] \in Down
    /\ wlItem \in IF wlPc = "recv" THEN {NoItem} ELSE Items

LEMMA ShapeInit == Init => TypeOK /\ Shape
<1> SUFFICES ASSUME Init PROVE TypeOK /\ Shape
  OBVIOUS
<1>1. /\ rlPc \in RlPcs /\ rlPkt \in Up \cup {NoPkt} /\ clientKnown \in BOOLEAN
      /\ wlPc \in WlPcs /\ wlItem \in Items \cup {NoItem}
  BY DEF Init, RlPcs, WlPcs
<1>2. /\ workers \in Seq(Sessions) /\ rrIndex \in 0 .. MaxUp
      /\ upCount \in 0 .. MaxUp /\ downCount \in 0 .. MaxDown
       /\ idx \in Nat /\ tried \in Nat /\ fullAtTurn \subseteq Sessions
  BY TunnelAssumption DEF Init
<1>3. /\ spc \in [Sessions -> SPcs] /\ hand \in [Sessions -> 0 .. (MaxUp + MaxDown)]
      /\ sendCh \in [Sessions -> Seq(Up)] /\ returnCh \in Seq(Items)
      /\ toPeer \in [Sessions -> Seq(Up)] /\ toApp \in [Sessions -> Seq(Down)]
  BY TunnelAssumption DEF Init, SPcs, NoPkt
<1>4. Len(returnCh) <= ReturnBuf /\ \A s \in Sessions : Len(sendCh[s]) <= SendBuf
  BY TunnelAssumption DEF Init
<1>5. Shape
  BY DEF Init, Shape, Routed, Holding, NoPkt
<1> QED
  BY <1>1, <1>3, <1>4, <1>5, <1>2 DEF TypeOK

\* What Unregister leaves is a sequence of the others.
LEMMA Retained ==
    ASSUME NEW s \in Sessions, workers \in Seq(Sessions), Unregister(s)
    PROVE  /\ workers' \in Seq(Sessions)
           /\ ToSet(workers') \subseteq ToSet(workers) \ {s}
           /\ IsInjective(workers) => IsInjective(workers')
<1> DEFINE kept == {i \in DOMAIN workers : workers[i] /= s}
<1>1. PICK at \in [1 .. Cardinality(kept) -> kept] :
         /\ \A i, j \in DOMAIN at : i < j => at[i] < at[j]
         /\ workers' = [i \in DOMAIN at |-> workers[at[i]]]
  BY DEF Unregister, Without
<1>2. Cardinality(kept) \in Nat
  <2>1. IsFiniteSet(1 .. Len(workers))
    BY FS_Interval
  <2>2. kept \subseteq 1 .. Len(workers)
    OBVIOUS
  <2> QED
    BY <2>1, <2>2, FS_Subset, FS_CardinalityType
<1>3. \A i \in 1 .. Cardinality(kept) :
         /\ at[i] \in 1 .. Len(workers) /\ workers[at[i]] \in Sessions \ {s}
         /\ workers'[i] = workers[at[i]]
  BY <1>1
<1> HIDE DEF kept
<1>4. workers' \in Seq(Sessions) /\ DOMAIN workers' = 1 .. Cardinality(kept)
  BY <1>1, <1>2, <1>3
<1>5. ToSet(workers') \subseteq ToSet(workers) \ {s}
  BY <1>3, <1>4 DEF ToSet
<1>6. ASSUME IsInjective(workers) PROVE IsInjective(workers')
  <2>1. ASSUME NEW i \in 1 .. Cardinality(kept), NEW j \in 1 .. Cardinality(kept),
               workers'[i] = workers'[j]
        PROVE  i = j
    <3>1. at[i] = at[j]
      BY <1>3, <1>6, <2>1 DEF IsInjective
    <3>2. DOMAIN at = 1 .. Cardinality(kept)
      BY <1>1
    <3>3. ~(i < j) /\ ~(j < i)
      BY <1>1, <1>3, <3>1, <3>2
    <3> QED
      BY <1>2, <3>3
  <2> QED
    BY <1>4, <2>1 DEF IsInjective
<1> QED
  BY <1>4, <1>5, <1>6

\* What is tried is a slot.
LEMMA CandidateIsWorker ==
    ASSUME TypeOK, workers /= <<>>, NEW i \in Nat
    PROVE  Candidate(i) \in Sessions /\ Candidate(i) \in ToSet(workers)
<1>1. Len(workers) \in Nat \ {0} /\ idx \in Nat
  BY DEF TypeOK
<1>2. ((idx + i) % Len(workers)) + 1 \in 1 .. Len(workers)
  BY <1>1
<1> DEFINE k == ((idx + i) % Len(workers)) + 1
<1>3. Candidate(i) = workers[k] /\ k \in 1 .. Len(workers) /\ workers \in Seq(Sessions)
  BY <1>2 DEF Candidate, TypeOK
<1> HIDE DEF k
<1> QED
  BY <1>3 DEF ToSet

\* The search starts at a slot.
LEMMA TurnIsSlot ==
    ASSUME TypeOK, RouteTurn
    PROVE  idx' \in 0 .. Len(workers) - 1
<1>1. rrIndex \in Nat /\ ChunkSize \in Nat \ {0}
  BY TunnelAssumption DEF TypeOK
<1>2. (rrIndex \div ChunkSize) \in Nat
  BY <1>1
<1>3. Len(workers) \in Nat \ {0}
  BY DEF RouteTurn, TypeOK
<1> DEFINE turn == rrIndex \div ChunkSize
<1>4. idx' = turn % Len(workers) /\ turn \in Nat
  BY <1>2 DEF RouteTurn
<1> HIDE DEF turn
<1> QED
  BY <1>3, <1>4

\* A try_send that succeeds adds the datagram to the channel of a slot that had room.
LEMMA RouteToChannel ==
    ASSUME TypeOK, RouteTo
    PROVE  \E c \in ToSet(workers) : /\ c \in Sessions /\ HasRoom(c)
                                     /\ sendCh' = [sendCh EXCEPT ![c] = Append(@, rlPkt)]
<1>1. workers /= <<>> /\ tried \in Nat
  BY DEF RouteTo, TypeOK
<1> QED
  BY <1>1, CandidateIsWorker DEF RouteTo

LEMMA ShapeStep == TypeOK /\ Shape /\ [Next]_vars => TypeOK' /\ Shape'
<1> SUFFICES ASSUME TypeOK, Shape, [Next]_vars PROVE TypeOK' /\ Shape'
  OBVIOUS
<1> USE TunnelAssumption
<1> USE DEF RlPcs, WlPcs, SPcs, Up, Down, NoPkt
<1>1. CASE RecvLocal
  BY <1>1 DEF RecvLocal, TypeOK, Shape, Routed, Holding, search, sessVars, wlVars
<1>2. CASE RecvError
  BY <1>2 DEF RecvError, TypeOK, Shape, Routed, Holding, search, sessVars, wlVars
<1>3. CASE Shutdown
  BY <1>3 DEF Shutdown, TypeOK, Shape, Routed, Holding, search, sessVars, wlVars
<1>4. CASE RouteNobody
  BY <1>4 DEF RouteNobody, TypeOK, Shape, Routed, Holding, search, sessVars, wlVars
<1>5. CASE RouteTo
  <2>1. PICK c \in ToSet(workers) :
           /\ c \in Sessions /\ HasRoom(c)
           /\ sendCh' = [sendCh EXCEPT ![c] = Append(@, rlPkt)]
    BY <1>5, RouteToChannel
  <2>2. rlPkt \in Up
    BY <1>5 DEF RouteTo, TypeOK, Shape, Routed, Holding
  <2>3. Append(sendCh[c], rlPkt) \in Seq(Up) /\ Len(Append(sendCh[c], rlPkt)) <= SendBuf
    <3>1. sendCh[c] \in Seq(Up) /\ Len(sendCh[c]) < SendBuf
      BY <2>1 DEF TypeOK, HasRoom
    <3> QED
      BY <2>2, <3>1
  <2>4. sendCh' \in [Sessions -> Seq(Up)] /\ \A s \in Sessions : Len(sendCh'[s]) <= SendBuf
    BY <2>1, <2>3 DEF TypeOK
  <2>5. rlPc = "search" /\ rlPc' = "recv" /\ rlPkt' = NoPkt /\ SearchEnds
    BY <1>5 DEF RouteTo, SearchEnds
  <2>6. UNCHANGED <<clientKnown, workers, rrIndex, sessVars, returnCh, wlVars>>
    BY <1>5 DEF RouteTo
  <2>7. Shape'
    BY <2>5, <2>6 DEF TypeOK, Shape, Routed, Holding, SearchEnds, sessVars, wlVars
  <2> QED
    BY <2>4, <2>5, <2>6, <2>7 DEF TypeOK, SearchEnds, sessVars, wlVars
<1>6. CASE RouteTurn \/ RouteRefused \/ RouteDrop
  <2>1. CASE RouteTurn
    <3>1. idx' \in 0 .. Len(workers) - 1
      BY <2>1, TurnIsSlot
    <3>2. idx' \in Nat
      BY <3>1
    <3>3. fullAtTurn' \subseteq Sessions
      BY <2>1, ElementsTyped DEF RouteTurn, TypeOK
    <3> QED
      BY <2>1, <3>2, <3>3 DEF RouteTurn, TypeOK, Shape, Routed, Holding, sessVars, wlVars
  <2>2. CASE RouteRefused
    BY <2>2 DEF RouteRefused, TypeOK, Shape, Routed, Holding, sessVars, wlVars
  <2>3. CASE RouteDrop
    BY <2>3 DEF RouteDrop, SearchEnds, TypeOK, Shape, Routed, Holding, sessVars, wlVars
  <2> QED
    BY <1>6, <2>1, <2>2, <2>3
<1>7. ASSUME NEW s \in Sessions, Register(s) PROVE TypeOK' /\ Shape'
  <2>1. workers' \in Seq(Sessions)
    BY <1>7 DEF Register, TypeOK
  <2>2. sendCh' \in [Sessions -> Seq(Up)] /\ \A t \in Sessions : Len(sendCh'[t]) <= SendBuf
    BY <1>7 DEF Register, TypeOK
  <2> QED
    BY <1>7, <2>1, <2>2 DEF Register, SessionAt, TypeOK, Shape, Routed, Holding, rlVars, search, wlVars
<1>8. ASSUME NEW s \in Sessions, TakeUp(s) PROVE TypeOK' /\ Shape'
  <2>1. /\ Head(sendCh[s]) \in Up /\ Tail(sendCh[s]) \in Seq(Up)
        /\ Len(Tail(sendCh[s])) <= SendBuf
    BY <1>8 DEF TakeUp, TypeOK
  <2> QED
    BY <1>8, <2>1 DEF TakeUp, SessionAt, TypeOK, Shape, Routed, Holding, rlVars, search, wlVars
<1>9. ASSUME NEW s \in Sessions, WritePeer(s) PROVE TypeOK' /\ Shape'
  BY <1>9 DEF WritePeer, SessionAt, TypeOK, Shape, Routed, Holding, rlVars, search, wlVars
<1>10. ASSUME NEW s \in Sessions, WritePeerFails(s) PROVE TypeOK' /\ Shape'
  BY <1>10 DEF WritePeerFails, SessionAt, TypeOK, Shape, Routed, Holding, rlVars, search, wlVars
<1>11. ASSUME NEW s \in Sessions, ReadPeer(s) PROVE TypeOK' /\ Shape'
  BY <1>11 DEF ReadPeer, SessionAt, TypeOK, Shape, Routed, Holding, rlVars, search, wlVars
<1>12. ASSUME NEW s \in Sessions, Return(s) PROVE TypeOK' /\ Shape'
  <2>1. [from |-> s, pkt |-> hand[s]] \in Items
    BY <1>12 DEF Return, SessionAt, Shape, Items
  <2>2. returnCh' \in Seq(Items) /\ Len(returnCh') <= ReturnBuf
    BY <1>12, <2>1 DEF Return, TypeOK
  <2> QED
    BY <1>12, <2>2 DEF Return, SessionAt, TypeOK, Shape, Routed, Holding, rlVars, search, wlVars
<1>13. ASSUME NEW s \in Sessions, Breaks(s) PROVE TypeOK' /\ Shape'
  BY <1>13 DEF Breaks, SessionAt, TypeOK, Shape, Routed, Holding, rlVars, search, wlVars
<1>14. ASSUME NEW s \in Sessions, Unregister(s) PROVE TypeOK' /\ Shape'
  <2>1. workers' \in Seq(Sessions)
    BY <1>14, Retained DEF TypeOK
  <2> QED
    BY <1>14, <2>1 DEF Unregister, SessionAt, TypeOK, Shape, Routed, Holding, rlVars, search, wlVars
<1>15. ASSUME NEW s \in Sessions, Close(s) PROVE TypeOK' /\ Shape'
  BY <1>15 DEF Close, SessionAt, TypeOK, Shape, Routed, Holding, rlVars, search, wlVars
<1>16. CASE WlTake
  BY <1>16 DEF WlTake, TypeOK, Shape, Routed, Holding, rlVars, search, sessVars
<1>17. CASE WlNoClient
  BY <1>17 DEF WlNoClient, TypeOK, Shape, Routed, Holding, rlVars, search, sessVars
<1>18. CASE WlClient
  BY <1>18 DEF WlClient, TypeOK, Shape, Routed, Holding, rlVars, search, sessVars
<1>19. CASE WlSend
  BY <1>19 DEF WlSend, TypeOK, Shape, Routed, Holding, rlVars, search, sessVars, Items
<1>20. CASE WlSendFails
  BY <1>20 DEF WlSendFails, TypeOK, Shape, Routed, Holding, rlVars, search, sessVars
<1>21. CASE WlRetryFails
  BY <1>21 DEF WlRetryFails, TypeOK, Shape, Routed, Holding, rlVars, search, sessVars
<1>22. CASE UNCHANGED vars
  BY <1>22 DEF vars, search, TypeOK, Shape, Routed, Holding
<1> QED
  BY <1>1, <1>2, <1>3, <1>4, <1>5, <1>6, <1>7, <1>8, <1>9, <1>10, <1>11, <1>12, <1>13,
     <1>14, <1>15, <1>16, <1>17, <1>18, <1>19, <1>20, <1>21, <1>22
  DEF Next, RlStep, WlStep, Environment, SessionStep

\* Type correctness. With it: the channels hold no more than their capacity, and a
\* task holds a packet exactly where the code has one in its hands.
THEOREM TypeCorrect == Spec => []TypeOK
<1>1. TypeOK /\ Shape /\ [Next]_vars => TypeOK' /\ Shape'
  BY ShapeStep
<1>2. Spec => [](TypeOK /\ Shape)
  BY ShapeInit, <1>1, PTL DEF Spec
<1> QED
  BY <1>2, PTL

-----------------------------------------------------------------------------
(* Slots. *)

LEMMA AppendDistinct ==
    ASSUME NEW S, NEW q \in Seq(S), NEW e \in S, IsInjective(q), e \notin ToSet(q)
    PROVE  IsInjective(Append(q, e))
<1>1. DOMAIN Append(q, e) = 1 .. Len(q) + 1 /\ DOMAIN q = 1 .. Len(q) /\ Len(q) \in Nat
  OBVIOUS
<1>2. \A i \in 1 .. Len(q) : Append(q, e)[i] = q[i] /\ q[i] /= e
  BY DEF ToSet
<1>3. Append(q, e)[Len(q) + 1] = e
  OBVIOUS
<1> QED
  BY <1>1, <1>2, <1>3 DEF IsInjective

LEMMA SlotsInit == Init => SlotsAreLive
  BY DEF Init, SlotsAreLive, ToSet, IsInjective

LEMMA SlotsStep == TypeOK /\ SlotsAreLive /\ [Next]_vars => SlotsAreLive'
<1> SUFFICES ASSUME TypeOK, SlotsAreLive, [Next]_vars PROVE SlotsAreLive'
  OBVIOUS
<1>1. CASE UNCHANGED <<workers, spc>>
  BY <1>1 DEF SlotsAreLive
<1>2. ASSUME NEW s \in Sessions, Register(s) PROVE SlotsAreLive'
  <2>1. s \notin ToSet(workers) /\ workers' = Append(workers, s) /\ spc' = [spc EXCEPT ![s] = "loop"]
    BY <1>2 DEF Register, SessionAt, SlotsAreLive
  <2>2. ToSet(workers') = ToSet(workers) \cup {s} /\ IsInjective(workers')
    BY <2>1, AppendElements, AppendDistinct DEF TypeOK, SlotsAreLive
  <2>3. ToSet(workers) \subseteq Sessions
    BY ElementsTyped DEF TypeOK
  <2> QED
    BY <2>1, <2>2, <2>3 DEF TypeOK, SlotsAreLive
<1>3. ASSUME NEW s \in Sessions, Unregister(s) PROVE SlotsAreLive'
  <2>1. ToSet(workers') \subseteq ToSet(workers) \ {s} /\ IsInjective(workers')
    BY <1>3, Retained DEF TypeOK, SlotsAreLive
  <2>2. ToSet(workers) \subseteq Sessions
    BY ElementsTyped DEF TypeOK
  <2>3. \A t \in Sessions \ {s} : spc'[t] = spc[t]
    BY <1>3 DEF Unregister, SessionAt, TypeOK
  <2> QED
    BY <2>1, <2>2, <2>3 DEF SlotsAreLive
<1>4. ASSUME NEW s \in Sessions, NEW from \in {"loop", "write", "return", "close"},
             NEW to \in SPcs \ {"close"}, SessionAt(s, from, to), from = "close" \/ to /= "off",
             UNCHANGED workers
      PROVE  SlotsAreLive'
  <2>1. ToSet(workers) \subseteq Sessions
    BY ElementsTyped DEF TypeOK
  <2>2. \A t \in Sessions : spc'[t] = IF t = s THEN to ELSE spc[t]
    BY <1>4 DEF SessionAt, TypeOK
  <2> QED
    BY <1>4, <2>1, <2>2 DEF SlotsAreLive, SessionAt, SPcs
<1>5. ASSUME NEW s \in Sessions,
             TakeUp(s) \/ WritePeer(s) \/ WritePeerFails(s) \/ ReadPeer(s) \/ Return(s)
               \/ Breaks(s) \/ Close(s)
      PROVE  SlotsAreLive'
  BY <1>4, <1>5
  DEF TakeUp, WritePeer, WritePeerFails, ReadPeer, Return, Breaks, Close, SPcs
<1>6. CASE RlStep \/ WlStep \/ RecvLocal \/ RecvError \/ Shutdown \/ UNCHANGED vars
  BY <1>1, <1>6
  DEF RlStep, WlStep, RecvLocal, RecvError, Shutdown, RouteNobody, RouteTurn, RouteTo,
      RouteRefused, RouteDrop, WlTake, WlNoClient, WlClient, WlSend, WlSendFails, WlRetryFails, sessVars, vars
<1> QED
  BY <1>2, <1>3, <1>5, <1>6 DEF Next, Environment, SessionStep

\* A slot never outlives its session's receiver, and no session has two slots.
THEOREM LiveSlots == Spec => []SlotsAreLive
<1>1. TypeOK /\ SlotsAreLive /\ [Next]_vars => SlotsAreLive'
  BY SlotsStep
<1> QED
  BY SlotsInit, <1>1, TypeCorrect, PTL DEF Spec

-----------------------------------------------------------------------------
(* The search for a channel. *)

\* Whatever slot n slots are counted from, going round passes every one of them.
LEMMA GoingRound ==
    ASSUME NEW n \in Nat \ {0}, NEW from \in 0 .. n - 1, NEW k \in 1 .. n
    PROVE  \E i \in 0 .. n - 1 : ((from + i) % n) + 1 = k
<1>1. CASE k - 1 >= from
  <2>1. k - 1 - from \in 0 .. n - 1 /\ from + (k - 1 - from) = k - 1
    BY <1>1
  <2>2. (k - 1) % n = k - 1
    OBVIOUS
  <2> QED
    BY <2>1, <2>2
<1>2. CASE k - 1 < from
  <2> DEFINE i == k - 1 - from + n
  <2>1. i \in 0 .. n - 1 /\ from + i = (k - 1) + n
    BY <1>2
  <2>2. ((k - 1) + n) % n = k - 1
    OBVIOUS
  <2>3. ((from + i) % n) + 1 = k
    <3> HIDE DEF i
    <3> QED
      BY <2>1, <2>2
  <2> QED
    BY <2>1, <2>3
<1> QED
  BY <1>1, <1>2

\* Once as many candidates were tried as there are slots, every slot was.
LEMMA CandidatesAreAll ==
    ASSUME workers \in Seq(Sessions), workers /= <<>>, idx \in 0 .. Len(workers) - 1,
           NEW s \in ToSet(workers)
    PROVE  \E i \in 0 .. Len(workers) - 1 : s = Candidate(i)
<1>1. PICK k \in 1 .. Len(workers) : s = workers[k]
  BY DEF ToSet
<1>2. Len(workers) \in Nat \ {0}
  OBVIOUS
<1>3. PICK i \in 0 .. Len(workers) - 1 : ((idx + i) % Len(workers)) + 1 = k
  BY <1>2, GoingRound
<1> QED
  BY <1>1, <1>3 DEF Candidate

\* What has been tried was full when the search began, and whatever had room then has
\* room still: only readLoop fills these channels.
Searching ==
    rlPc = "search" =>
        /\ workers /= <<>>
        /\ idx \in 0 .. Len(workers) - 1
        /\ \A i \in 0 .. tried - 1 : Candidate(i) \in fullAtTurn
        /\ \A s \in ToSet(workers) : s \in fullAtTurn \/ HasRoom(s)

\* Outside a search nothing has been tried.
NothingTried == rlPc /= "search" => tried = 0

SearchInv == Searching /\ NothingTried

LEMMA SearchInit == Init => SearchInv
  BY DEF Init, SearchInv, Searching, NothingTried

LEMMA SearchStep == TypeOK /\ SearchInv /\ [Next]_vars => SearchInv'
<1> SUFFICES ASSUME TypeOK, SearchInv, [Next]_vars PROVE SearchInv'
  OBVIOUS
<1>1. CASE RouteTurn
  <2>2. idx' \in 0 .. Len(workers) - 1
    BY <1>1, TurnIsSlot
  <2>3. tried' = 0 /\ workers' = workers /\ sendCh' = sendCh
    BY <1>1 DEF RouteTurn, SearchInv, NothingTried
  <2>4. \A s \in ToSet(workers)' : s \in fullAtTurn' \/ HasRoom(s)'
    BY <1>1, <2>3 DEF RouteTurn, HasRoom
  <2> QED
    BY <1>1, <2>2, <2>3, <2>4 DEF RouteTurn, SearchInv, Searching, NothingTried
<1>2. CASE RouteRefused
  <2>1. /\ rlPc = "search" /\ workers /= <<>> /\ tried \in Nat
        /\ tried' = tried + 1 /\ rlPc' = rlPc
        /\ UNCHANGED <<workers, idx, fullAtTurn, sendCh>>
    BY <1>2 DEF RouteRefused, SearchInv, Searching, TypeOK
  <2>2. Candidate(tried) \in fullAtTurn
    BY <1>2, <2>1, CandidateIsWorker DEF RouteRefused, SearchInv, Searching
  <2>3. \A i \in 0 .. tried' - 1 : Candidate(i)' \in fullAtTurn'
    <3>1. \A i \in 0 .. tried' - 1 : i \in 0 .. tried - 1 \/ i = tried
      BY <2>1
    <3>2. \A i : Candidate(i)' = Candidate(i)
      BY <2>1 DEF Candidate
    <3> QED
      BY <2>1, <2>2, <3>1, <3>2 DEF SearchInv, Searching
  <2> QED
    BY <2>1, <2>3 DEF SearchInv, Searching, NothingTried, HasRoom
<1>3. CASE RouteTo \/ RouteDrop
  BY <1>3 DEF RouteTo, RouteDrop, SearchEnds, SearchInv, Searching, NothingTried
<1>4. CASE RouteNobody \/ RecvLocal \/ RecvError \/ Shutdown
  BY <1>4
  DEF RouteNobody, RecvLocal, RecvError, Shutdown, search, SearchInv, Searching, NothingTried
<1>5. ASSUME UNCHANGED <<rlPc, idx, tried, fullAtTurn>>,
             rlPc = "search" => /\ workers' = workers
                                /\ \A s \in ToSet(workers) : HasRoom(s) => HasRoom(s)'
      PROVE  SearchInv'
  <2>1. rlPc = "search" => \A i : Candidate(i)' = Candidate(i)
    BY <1>5 DEF Candidate
  <2> QED
    BY <1>5, <2>1 DEF SearchInv, Searching, NothingTried
<1>6. ASSUME NEW s \in Sessions, Register(s) \/ Unregister(s) PROVE SearchInv'
  BY <1>5, <1>6 DEF Register, Unregister, SlotsLocked, rlVars, search
<1>7. ASSUME NEW s \in Sessions, TakeUp(s) \/ Close(s) PROVE SearchInv'
  <2>1. UNCHANGED <<rlPc, idx, tried, fullAtTurn, workers>>
    BY <1>7 DEF TakeUp, Close, rlVars, search
  <2>2. \A t \in Sessions : Len(sendCh'[t]) <= Len(sendCh[t]) /\ Len(sendCh'[t]) \in Nat
    <3>1. \A t \in Sessions \ {s} : sendCh'[t] = sendCh[t]
      BY <1>7 DEF TakeUp, Close, TypeOK
    <3>2. CASE TakeUp(s)
      <4>1. /\ sendCh[s] \in Seq(Up) /\ sendCh[s] /= <<>> /\ sendCh'[s] = Tail(sendCh[s])
            /\ \A t \in Sessions : sendCh[t] \in Seq(Up)
        BY <3>2 DEF TakeUp, TypeOK
      <4>2. Len(sendCh'[s]) <= Len(sendCh[s]) /\ Len(sendCh'[s]) \in Nat
        BY <4>1
      <4>3. ASSUME NEW t \in Sessions \ {s}
            PROVE  Len(sendCh'[t]) <= Len(sendCh[t]) /\ Len(sendCh'[t]) \in Nat
        <5>1. Len(sendCh[t]) \in Nat
          BY <4>1
        <5> QED
          BY <3>1, <5>1
      <4> QED
        BY <4>2, <4>3
    <3>3. CASE Close(s)
      <4>1. sendCh'[s] = <<>> /\ \A t \in Sessions : sendCh[t] \in Seq(Up)
        BY <3>3 DEF Close, TypeOK
      <4> QED
        BY <3>1, <4>1
    <3> QED
      BY <1>7, <3>2, <3>3
  <2>3. ToSet(workers) \subseteq Sessions
    BY ElementsTyped DEF TypeOK
  <2>4. \A t \in Sessions : Len(sendCh[t]) \in Nat
    BY DEF TypeOK
  <2>5. \A t \in ToSet(workers) : HasRoom(t) => HasRoom(t)'
    BY <2>2, <2>3, <2>4, TunnelAssumption DEF HasRoom
  <2> QED
    BY <1>5, <2>1, <2>5
<1>8. ASSUME NEW s \in Sessions,
             WritePeer(s) \/ WritePeerFails(s) \/ ReadPeer(s) \/ Return(s) \/ Breaks(s)
      PROVE  SearchInv'
  BY <1>5, <1>8
  DEF WritePeer, WritePeerFails, ReadPeer, Return, Breaks, HasRoom, rlVars, search
<1>9. CASE WlStep \/ UNCHANGED vars
  BY <1>5, <1>9
  DEF WlStep, WlTake, WlNoClient, WlClient, WlSend, WlSendFails, WlRetryFails, HasRoom,
      rlVars, search, vars
<1> QED
  BY <1>1, <1>2, <1>3, <1>4, <1>6, <1>7, <1>8, <1>9
  DEF Next, RlStep, Environment, SessionStep

\* The search of readLoop is complete: wherever it starts, and whatever the sessions
\* take from their channels meanwhile, a datagram is dropped only if all channels were
\* full when its turn was taken.
THEOREM SearchIsComplete == Spec => DropOnlyWhenAllFull
<1> DEFINE Act ==
      rlPc = "search" /\ rlPc' = "recv"
        => \/ \E s \in ToSet(workers) : sendCh' = [sendCh EXCEPT ![s] = Append(@, rlPkt)]
           \/ ToSet(workers) \subseteq fullAtTurn
<1>1. TypeOK /\ SearchInv /\ [Next]_vars => [Act]_vars
  <2> SUFFICES ASSUME TypeOK, SearchInv, Next, rlPc = "search", rlPc' = "recv"
               PROVE  \/ \E s \in ToSet(workers) :
                            sendCh' = [sendCh EXCEPT ![s] = Append(@, rlPkt)]
                      \/ ToSet(workers) \subseteq fullAtTurn
    OBVIOUS
  <2>1. RouteTo \/ RouteDrop
    BY DEF Next, RlStep, WlStep, Environment, SessionStep, RecvLocal, RecvError, Shutdown,
           RouteNobody, RouteTurn, RouteRefused, Register, TakeUp, WritePeer, WritePeerFails,
           ReadPeer, Return, Breaks, Unregister, Close, WlTake, WlNoClient, WlClient, WlSend,
           WlSendFails, WlRetryFails, rlVars
  <2>2. CASE RouteTo
    BY <2>2, RouteToChannel
  <2>3. CASE RouteDrop
    <3>1. /\ workers \in Seq(Sessions) /\ workers /= <<>> /\ idx \in 0 .. Len(workers) - 1
          /\ \A i \in 0 .. tried - 1 : Candidate(i) \in fullAtTurn
      BY DEF SearchInv, Searching, TypeOK
    <3>2. tried >= Len(workers) /\ tried \in Nat /\ Len(workers) \in Nat
      BY <2>3, <3>1 DEF RouteDrop, TypeOK
    <3>3. \A i \in 0 .. Len(workers) - 1 : Candidate(i) \in fullAtTurn
      BY <3>1, <3>2
    <3>4. ASSUME NEW s \in ToSet(workers) PROVE s \in fullAtTurn
      BY <3>1, <3>3, CandidatesAreAll
    <3> QED
      BY <3>4
  <2> QED
    BY <2>1, <2>2, <2>3
<1>2. TypeOK /\ Shape /\ SearchInv /\ [Next]_vars => TypeOK' /\ Shape' /\ SearchInv'
  BY ShapeStep, SearchStep
<1>3. Spec => [](TypeOK /\ Shape /\ SearchInv)
  BY ShapeInit, SearchInit, <1>2, PTL DEF Spec
<1> QED
  BY <1>1, <1>3, PTL DEF Spec, DropOnlyWhenAllFull

-----------------------------------------------------------------------------
(* Towards the peers. What a session still has to write is what it has in hand *)
(* and then its channel; all of it was routed after what it has written, and   *)
(* no two sessions have a datagram in common.                                  *)

UpHand(s)  == IF spc[s] = "write" THEN {hand[s]} ELSE {}
UpQueue(s) == UpHand(s) \cup ToSet(sendCh[s])

UpOrder(s) ==
    /\ Increasing(sendCh[s])
    /\ \A p \in ToSet(sendCh[s]) : \A q \in UpHand(s) : q < p
    /\ \A p \in UpQueue(s) : \A q \in ToSet(toPeer[s]) : q < p
    /\ \A p \in UpQueue(s) : p <= Routed
    /\ \A p \in ToSet(toPeer[s]) : p <= Routed

UpApart == \A s, t \in Sessions : s /= t => UpQueue(s) \cap UpQueue(t) = {}

UpInv == UpApart /\ \A s \in Sessions : UpOrder(s)

LEMMA UpTyped ==
    ASSUME TypeOK, Shape
    PROVE  /\ \A s \in Sessions : UpHand(s) \subseteq Up /\ ToSet(sendCh[s]) \subseteq Up
                                  /\ UpQueue(s) \subseteq Up /\ ToSet(toPeer[s]) \subseteq Up
           /\ Up \subseteq Nat /\ NoPkt \notin Up /\ Routed \in Int /\ upCount \in Nat
<1>1. \A s \in Sessions : UpHand(s) \subseteq Up
  BY DEF UpHand, Shape
<1>2. \A s \in Sessions : ToSet(sendCh[s]) \subseteq Up /\ ToSet(toPeer[s]) \subseteq Up
  BY ElementsTyped DEF TypeOK
<1>3. Up \subseteq Nat /\ NoPkt \notin Up /\ Routed \in Int /\ upCount \in Nat
  BY TunnelAssumption DEF Up, NoPkt, Routed, Holding, TypeOK
<1> QED
  BY <1>1, <1>2, <1>3 DEF UpQueue

\* What is on its way is what readLoop holds and what the sessions have to write.
UpPendingSplit ==
    \A p : p \in UpPending <=> \/ p = rlPkt /\ p /= NoPkt
                              \/ \E s \in Sessions : p \in UpQueue(s)

LEMMA UpPendingIs == TypeOK /\ Shape => UpPendingSplit
<1> SUFFICES ASSUME TypeOK, Shape
             PROVE  UpPendingSplit
  OBVIOUS
<1>1. UNION {ToSet(sendCh[s]) : s \in Sessions} = {p \in Up : \E s \in Sessions : p \in ToSet(sendCh[s])}
  BY UpTyped
<1>2. \A p : p \in {hand[s] : s \in {t \in Sessions : spc[t] = "write"}}
               <=> \E s \in Sessions : p \in UpHand(s)
  BY DEF UpHand
<1> DEFINE queued == UNION {ToSet(sendCh[s]) : s \in Sessions}
           held == {hand[s] : s \in {t \in Sessions : spc[t] = "write"}}
<1>3. \A p : (\E s \in Sessions : p \in UpQueue(s)) <=> p \in queued \/ p \in held
  BY <1>1, <1>2, UpTyped DEF UpQueue
<1>4. UpPending = ({rlPkt} \cup queued \cup held) \ {NoPkt}
  BY DEF UpPending
<1>5. \A s \in Sessions : NoPkt \notin UpQueue(s)
  BY UpTyped
<1> HIDE DEF queued, held
<1> QED
  BY <1>4, <1>3, <1>5 DEF UpPendingSplit

\* A step after which no session has more to write.
UpFewer ==
    /\ \A t \in Sessions : UpHand(t)' \subseteq UpHand(t) /\ sendCh'[t] \in {sendCh[t], <<>>}
    /\ Routed' >= Routed
    /\ UNCHANGED toPeer

LEMMA UpSteps ==
    ASSUME TypeOK, Shape, Next
    PROVE  \/ RecvLocal
           \/ RouteTo
           \/ \E s \in Sessions : TakeUp(s) \/ WritePeer(s)
           \/ UpFewer /\ UNCHANGED upCount /\ rlPkt' \in {rlPkt, NoPkt}
<1>1. \A s \in Sessions : spc[s] \in SPcs
  BY DEF TypeOK
<1>2. ASSUME UNCHANGED <<spc, hand, sendCh, toPeer, upCount>>, Holding' => Holding,
             rlPkt' \in {rlPkt, NoPkt}
      PROVE  UpFewer /\ UNCHANGED upCount /\ rlPkt' \in {rlPkt, NoPkt}
  BY <1>2 DEF UpFewer, UpHand, Routed, Holding, TypeOK
<1>3. ASSUME UNCHANGED <<rlVars, spc, hand, sendCh, toPeer>>
      PROVE  UpFewer /\ UNCHANGED upCount /\ rlPkt' \in {rlPkt, NoPkt}
  BY <1>3 DEF UpFewer, UpHand, Routed, Holding, TypeOK, rlVars, search
<1>4. ASSUME NEW s \in Sessions, NEW to \in SPcs \ {"write"}, spc' = [spc EXCEPT ![s] = to],
             \A t \in Sessions \ {s} : hand'[t] = hand[t] /\ sendCh'[t] = sendCh[t],
             sendCh'[s] \in {sendCh[s], <<>>}, UNCHANGED <<rlVars, toPeer>>
      PROVE  UpFewer /\ UNCHANGED upCount /\ rlPkt' \in {rlPkt, NoPkt}
  <2>1. \A t \in Sessions : UpHand(t)' \subseteq UpHand(t)
    BY <1>4 DEF UpHand, TypeOK
  <2>2. Routed' = Routed /\ Routed \in Int
    BY <1>4 DEF Routed, Holding, rlVars, search, TypeOK
  <2> QED
    BY <1>4, <2>1, <2>2 DEF UpFewer, rlVars, search
<1>5. CASE RecvError \/ Shutdown \/ RouteNobody \/ RouteTurn \/ RouteRefused \/ RouteDrop
  BY <1>2, <1>5
  DEF RecvError, Shutdown, RouteNobody, RouteTurn, RouteRefused, RouteDrop, SearchEnds,
      Holding, sessVars
<1>6. CASE WlStep
  BY <1>3, <1>6
  DEF WlStep, WlTake, WlNoClient, WlClient, WlSend, WlSendFails, WlRetryFails, sessVars
<1>7. ASSUME NEW s \in Sessions,
             \/ Register(s) \/ WritePeerFails(s) \/ ReadPeer(s) \/ Return(s)
             \/ Breaks(s) \/ Unregister(s) \/ Close(s)
      PROVE  UpFewer /\ UNCHANGED upCount /\ rlPkt' \in {rlPkt, NoPkt}
  <2>1. /\ \A t \in Sessions \ {s} : hand'[t] = hand[t] /\ sendCh'[t] = sendCh[t]
        /\ sendCh'[s] \in {sendCh[s], <<>>} /\ UNCHANGED <<rlVars, toPeer>>
    BY <1>7
    DEF Register, WritePeerFails, ReadPeer, Return, Breaks, Unregister, Close, TypeOK
  <2>2. \E to \in SPcs \ {"write"} : spc' = [spc EXCEPT ![s] = to]
    BY <1>7
    DEF Register, WritePeerFails, ReadPeer, Return, Breaks, Unregister, Close, SessionAt, SPcs
  <2> QED
    BY <1>4, <2>1, <2>2
<1> QED
  BY <1>5, <1>6, <1>7 DEF Next, RlStep, Environment, SessionStep

LEMMA UpInit == Init => UpInv
<1> SUFFICES ASSUME Init PROVE UpInv
  OBVIOUS
<1>1. \A s \in Sessions : sendCh[s] = <<>> /\ toPeer[s] = <<>> /\ UpHand(s) = {}
  BY DEF Init, UpHand
<1> QED
  BY <1>1, EmptyElements DEF UpInv, UpApart, UpOrder, UpQueue, Increasing

LEMMA UpStep == TypeOK /\ Shape /\ UpInv /\ [Next]_vars => UpInv'
<1> SUFFICES ASSUME TypeOK, Shape, UpInv, [Next]_vars PROVE UpInv'
  OBVIOUS
<1>1. TypeOK' /\ Shape'
  BY ShapeStep
<1>2. CASE UpFewer
  <2>1. ASSUME NEW t \in Sessions
        PROVE  /\ UpHand(t)' \subseteq UpHand(t)
               /\ ToSet(sendCh[t])' \subseteq ToSet(sendCh[t])
               /\ UpQueue(t)' \subseteq UpQueue(t)
               /\ Increasing(sendCh[t])' 
               /\ UNCHANGED ToSet(toPeer[t])
    BY <1>2, EmptyElements DEF UpFewer, UpQueue, UpInv, UpOrder, Increasing
  <2>2. UpApart'
    BY <2>1 DEF UpInv, UpApart
  <2>3. Routed \in Int /\ Routed' \in Int /\ Routed <= Routed'
    <3>1. upCount \in Int /\ upCount' \in Int
      BY <1>1 DEF TypeOK
    <3>2. Routed \in Int /\ Routed' \in Int
      BY <3>1 DEF Routed, Holding
    <3> QED
      BY <1>2, <3>2 DEF UpFewer
  <2>4. ASSUME NEW t \in Sessions PROVE UpOrder(t)'
    BY <2>1, <2>3, UpTyped DEF UpInv, UpOrder
  <2> QED
    BY <2>2, <2>4 DEF UpInv
<1>3. CASE RecvLocal
  <2>1. Routed' = Routed
    BY <1>3 DEF RecvLocal, Routed, Holding, TypeOK
  <2>2. UNCHANGED <<sendCh, spc, hand, toPeer>>
    BY <1>3 DEF RecvLocal, sessVars
  <2> QED
    BY <2>1, <2>2 DEF UpInv, UpApart, UpOrder, UpQueue, UpHand
<1>4. CASE RouteTo
  <2>2. PICK c \in Sessions : sendCh' = [sendCh EXCEPT ![c] = Append(@, rlPkt)]
    BY <1>4, RouteToChannel
  <2>3. /\ rlPkt \in Up /\ Routed = rlPkt - 1 /\ Routed' = rlPkt
        /\ UNCHANGED <<spc, hand, toPeer>>
    BY <1>4 DEF RouteTo, SearchEnds, Routed, Holding, Shape, TypeOK, sessVars, Up, NoPkt
  <2>4. \A t \in Sessions : UpHand(t)' = UpHand(t) /\ toPeer'[t] = toPeer[t]
    BY <2>3 DEF UpHand
  <2>5. \A t \in Sessions : sendCh[t] \in Seq(Int) /\ sendCh[t] \in Seq(Up)
    <3>1. \A t \in Sessions : sendCh[t] \in Seq(Up)
      BY DEF TypeOK
    <3>2. Up \subseteq Int
      BY UpTyped
    <3> QED
      BY <3>1, <3>2, WiderSeq
  <2>6. ASSUME NEW t \in Sessions, NEW p \in UpQueue(t) \cup ToSet(toPeer[t])
        PROVE  p < rlPkt /\ p <= rlPkt /\ p \in Int
    <3>1. p <= Routed
      BY DEF UpInv, UpOrder
    <3>2. p \in Int /\ rlPkt \in Int
      BY <2>3, UpTyped
    <3> QED
      BY <2>3, <3>1, <3>2
  <2>7. Increasing(sendCh'[c]) /\ ToSet(sendCh'[c]) = ToSet(sendCh[c]) \cup {rlPkt}
    <3>1. sendCh'[c] = Append(sendCh[c], rlPkt)
      BY <2>2 DEF TypeOK
    <3>2. \A p \in ToSet(sendCh[c]) : p < rlPkt
      BY <2>6 DEF UpQueue
    <3>3. rlPkt \in Int /\ Increasing(sendCh[c])
      BY <2>3, UpTyped DEF UpInv, UpOrder
    <3> QED
      BY <2>3, <2>5, <3>1, <3>2, <3>3, AppendIncreasing, AppendElements
  <2>8. \A t \in Sessions \ {c} : sendCh'[t] = sendCh[t] /\ UpQueue(t)' = UpQueue(t)
    BY <2>2, <2>4 DEF UpQueue, TypeOK
  <2>9. UpQueue(c)' = UpQueue(c) \cup {rlPkt}
    BY <2>4, <2>7 DEF UpQueue
  <2>10. UpApart'
    <3>1. \A t \in Sessions : rlPkt \notin UpQueue(t)
      BY <2>6
    <3> QED
      BY <2>8, <2>9, <3>1 DEF UpInv, UpApart
  <2>11. ASSUME NEW t \in Sessions \ {c} PROVE UpOrder(t)'
    BY <2>3, <2>4, <2>8, <2>6 DEF UpInv, UpOrder
  <2>12. UpOrder(c)'
    <3>1. \A p \in ToSet(sendCh'[c]) : \A q \in UpHand(c)' : q < p
      BY <2>4, <2>7, <2>6 DEF UpInv, UpOrder, UpQueue
    <3>2. \A p \in UpQueue(c)' : \A q \in ToSet(toPeer'[c]) : q < p
      BY <2>4, <2>9, <2>6 DEF UpInv, UpOrder
    <3>3. rlPkt \in Int
      BY <2>3, UpTyped
    <3>4. \A p \in UpQueue(c)' \cup ToSet(toPeer'[c]) : p <= Routed'
      BY <2>3, <2>4, <2>9, <2>6, <3>3
    <3> QED
      BY <2>7, <3>1, <3>2, <3>4 DEF UpOrder
  <2> QED
    BY <2>10, <2>11, <2>12 DEF UpInv
<1>5. ASSUME NEW s \in Sessions, TakeUp(s) PROVE UpInv'
  <2>1. /\ sendCh[s] /= <<>> /\ sendCh[s] \in Seq(Up) /\ sendCh[s] \in Seq(Int)
        /\ sendCh'[s] = Tail(sendCh[s]) /\ hand'[s] = Head(sendCh[s])
        /\ spc[s] = "loop" /\ spc'[s] = "write" /\ Routed' = Routed /\ toPeer' = toPeer
    BY <1>5, UpTyped DEF TakeUp, SessionAt, TypeOK, Routed, Holding, rlVars, search
  <2>2. \A t \in Sessions \ {s} : UpHand(t)' = UpHand(t) /\ sendCh'[t] = sendCh[t]
    BY <1>5 DEF TakeUp, SessionAt, TypeOK, UpHand
  <2>3. UpHand(s) = {} /\ UpHand(s)' = {Head(sendCh[s])}
    BY <2>1 DEF UpHand
  <2>4. \A t \in Sessions : UpQueue(t)' = UpQueue(t)
    BY <2>1, <2>2, <2>3, TailElements DEF UpQueue
  <2>5. Increasing(sendCh'[s]) /\ \A p \in ToSet(sendCh'[s]) : Head(sendCh[s]) < p
    BY <2>1, TailIncreasing DEF UpInv, UpOrder
  <2>6. UpOrder(s)'
    BY <2>1, <2>3, <2>4, <2>5 DEF UpInv, UpOrder
  <2>7. ASSUME NEW t \in Sessions \ {s} PROVE UpOrder(t)'
    BY <2>1, <2>2, <2>4 DEF UpInv, UpOrder
  <2> QED
    BY <2>4, <2>6, <2>7 DEF UpInv, UpApart
<1>6. ASSUME NEW s \in Sessions, WritePeer(s) PROVE UpInv'
  <2>1. /\ hand[s] \in Up /\ UpHand(s) = {hand[s]} /\ UpHand(s)' = {}
        /\ toPeer'[s] = Append(toPeer[s], hand[s]) /\ toPeer[s] \in Seq(Up)
        /\ sendCh' = sendCh /\ Routed' = Routed
    BY <1>6 DEF WritePeer, SessionAt, TypeOK, Shape, UpHand, Routed, Holding, rlVars, search
  <2>2. \A t \in Sessions \ {s} : UpHand(t)' = UpHand(t) /\ toPeer'[t] = toPeer[t]
    BY <1>6 DEF WritePeer, SessionAt, TypeOK, UpHand
  <2>3. ToSet(toPeer'[s]) = ToSet(toPeer[s]) \cup {hand[s]}
    BY <2>1, AppendElements
  <2>4. UpQueue(s)' = ToSet(sendCh[s]) /\ \A t \in Sessions \ {s} : UpQueue(t)' = UpQueue(t)
    BY <2>1, <2>2 DEF UpQueue
  <2>5. UpQueue(s) = {hand[s]} \cup ToSet(sendCh[s])
    BY <2>1 DEF UpQueue
  <2>6. UpOrder(s)'
    BY <2>1, <2>3, <2>4, <2>5 DEF UpInv, UpOrder
  <2>7. ASSUME NEW t \in Sessions \ {s} PROVE UpOrder(t)'
    BY <2>1, <2>2, <2>4 DEF UpInv, UpOrder
  <2>8. UpApart'
    BY <2>4, <2>5 DEF UpInv, UpApart
  <2> QED
    BY <2>6, <2>7, <2>8 DEF UpInv
<1>7. CASE UNCHANGED vars
  BY <1>7 DEF vars, search, UpInv, UpApart, UpOrder, UpQueue, UpHand, Routed, Holding
<1> QED
  BY <1>2, <1>3, <1>4, <1>5, <1>6, <1>7, UpSteps

LEMMA UpRelayStep == TypeOK /\ Shape /\ UpInv /\ [Next]_vars => [UpLink!Next]_UpLink!vars
<1> SUFFICES ASSUME TypeOK, Shape, UpInv, [Next]_vars
             PROVE  UpLink!Next \/ UNCHANGED <<upCount, UpPending, toPeer>>
  BY DEF UpLink!vars
<1>1. TypeOK' /\ Shape'
  BY ShapeStep
<1>2. UpPendingSplit /\ UpPendingSplit'
  BY <1>1, UpPendingIs, PTL
<1>3. CASE UpFewer /\ UNCHANGED upCount /\ rlPkt' \in {rlPkt, NoPkt}
  <2>1. \A s \in Sessions : UpQueue(s)' \subseteq UpQueue(s)
    BY <1>3, EmptyElements DEF UpFewer, UpQueue
  <2>2. UpPending' \subseteq UpPending
    BY <1>2, <1>3, <2>1 DEF UpPendingSplit
  <2>3. UpPending \ UpPending' \in SUBSET UpPending
        /\ UpPending' = UpPending \ (UpPending \ UpPending')
    BY <2>2
  <2>4. UNCHANGED <<upCount, toPeer>>
    BY <1>3 DEF UpFewer
  <2>5. UpLink!Lose
    BY <2>3, <2>4 DEF UpLink!Lose
  <2> QED
    BY <2>5 DEF UpLink!Next
<1>4. CASE RecvLocal
  <2>1. rlPkt = NoPkt /\ rlPkt' = upCount + 1 /\ upCount' = upCount + 1 /\ upCount + 1 /= NoPkt
    BY <1>4, UpTyped DEF RecvLocal, Shape, Holding, NoPkt
  <2>2. UNCHANGED <<sendCh, spc, hand, toPeer>>
    BY <1>4 DEF RecvLocal, sessVars
  <2>3. \A s \in Sessions : UpQueue(s)' = UpQueue(s)
    BY <2>2 DEF UpQueue, UpHand
  <2>4. UpPending' = UpPending \cup {upCount'}
    BY <1>2, <2>1, <2>3 DEF UpPendingSplit
  <2> QED
    BY <2>1, <2>2, <2>4 DEF UpLink!Next, UpLink!Accept
<1>5. CASE RouteTo
  <2>1. rlPkt \in Up /\ rlPkt' = NoPkt /\ UNCHANGED <<upCount, spc, hand, toPeer>>
    BY <1>5 DEF RouteTo, SearchEnds, Shape, TypeOK, sessVars, Routed, Holding, Up, NoPkt
  <2>3. PICK c \in Sessions : sendCh' = [sendCh EXCEPT ![c] = Append(@, rlPkt)]
    BY <1>5, RouteToChannel
  <2>4. ToSet(sendCh'[c]) = ToSet(sendCh[c]) \cup {rlPkt}
        /\ \A t \in Sessions \ {c} : sendCh'[t] = sendCh[t]
    BY <2>1, <2>3, AppendElements DEF TypeOK
  <2>5. /\ UpQueue(c)' = UpQueue(c) \cup {rlPkt}
        /\ \A t \in Sessions \ {c} : UpQueue(t)' = UpQueue(t)
    BY <2>1, <2>4 DEF UpQueue, UpHand
  <2>6. UpPending' = UpPending
    <3>1. NoPkt \notin Up
      BY UpTyped
    <3>2. \A p : p \in UpPending' <=> p \in UpPending
      BY <1>2, <2>1, <2>5, <3>1 DEF UpPendingSplit
    <3> QED
      BY <3>2
  <2> QED
    BY <2>1, <2>6
<1>6. ASSUME NEW s \in Sessions, TakeUp(s) PROVE UNCHANGED <<upCount, UpPending, toPeer>>
  <2>1. /\ sendCh[s] /= <<>> /\ sendCh[s] \in Seq(Up)
        /\ sendCh'[s] = Tail(sendCh[s]) /\ hand'[s] = Head(sendCh[s])
        /\ spc[s] = "loop" /\ spc'[s] = "write" /\ UNCHANGED <<rlPkt, upCount, toPeer>>
        /\ \A t \in Sessions \ {s} : UpQueue(t)' = UpQueue(t)
    BY <1>6 DEF TakeUp, SessionAt, TypeOK, rlVars, search, UpQueue, UpHand
  <2>2. UpQueue(s)' = UpQueue(s)
    BY <2>1, TailElements DEF UpQueue, UpHand
  <2>3. UpPending' = UpPending
    BY <1>2, <2>1, <2>2 DEF UpPendingSplit
  <2> QED
    BY <2>1, <2>3
<1>7. ASSUME NEW s \in Sessions, WritePeer(s) PROVE UpLink!Next
  <2>1. /\ hand[s] \in Up /\ spc[s] = "write" /\ UpHand(s) = {hand[s]} /\ UpHand(s)' = {}
        /\ toPeer' = [toPeer EXCEPT ![s] = Append(@, hand[s])] /\ UNCHANGED <<rlPkt, upCount>>
        /\ sendCh' = sendCh /\ \A t \in Sessions \ {s} : UpQueue(t)' = UpQueue(t)
    BY <1>7 DEF WritePeer, SessionAt, TypeOK, Shape, UpHand, UpQueue, rlVars, search
  <2>2. hand[s] \in UpQueue(s)
    BY <2>1 DEF UpQueue
  <2>3. \A i \in DOMAIN toPeer[s] : toPeer[s][i] < hand[s]
    BY <2>2 DEF UpInv, UpOrder, ToSet
  <2>4. hand[s] /= rlPkt
    <3>1. hand[s] <= Routed /\ hand[s] \in Int
      BY <2>1, <2>2, UpTyped DEF UpInv, UpOrder
    <3> QED
      BY <2>1, <3>1, UpTyped DEF Shape, Routed, Holding
  <2>5. UpQueue(s)' = UpQueue(s) \ {hand[s]}
    <3>1. hand[s] \in ToSet(sendCh[s]) => hand[s] < hand[s]
      BY <2>1 DEF UpInv, UpOrder
    <3>2. hand[s] \in Nat
      BY <2>1, UpTyped
    <3> QED
      BY <2>1, <3>1, <3>2 DEF UpQueue
  <2>6. \A t \in Sessions \ {s} : hand[s] \notin UpQueue(t)
    BY <2>2 DEF UpInv, UpApart
  <2>7. UpPending' = UpPending \ {hand[s]} /\ hand[s] \in UpPending
    BY <1>2, <2>1, <2>2, <2>4, <2>5, <2>6 DEF UpPendingSplit
  <2>8. UpLink!Deliver
    BY <2>1, <2>3, <2>7 DEF UpLink!Deliver
  <2> QED
    BY <2>8 DEF UpLink!Next
<1>8. CASE UNCHANGED vars
  BY <1>8 DEF vars, search, UpPending
<1> QED
  BY <1>3, <1>4, <1>5, <1>6, <1>7, <1>8, UpSteps

\* Towards the peers the tunnel implements the relay: whichever channels are full,
\* whenever sessions come, break and go, no datagram is sent twice or by two
\* sessions, and a session sends in the order of the application.
THEOREM UpRelay == Spec => UpIsRelay
<1>1. Init => UpLink!Init
  <2> SUFFICES ASSUME Init PROVE UpLink!Init
    OBVIOUS
  <2>1. \A p : p \notin UpPending
    <3>1. TypeOK /\ Shape
      BY ShapeInit
    <3>2. rlPkt = NoPkt /\ \A s \in Sessions : UpQueue(s) = {}
      BY EmptyElements DEF Init, UpQueue, UpHand
    <3> QED
      BY <3>1, <3>2, UpPendingIs DEF UpPendingSplit
  <2> QED
    BY <2>1 DEF Init, UpLink!Init
<1>2. TypeOK /\ Shape /\ UpInv /\ [Next]_vars => TypeOK' /\ Shape' /\ UpInv'
  BY ShapeStep, UpStep
<1>3. Spec => [](TypeOK /\ Shape /\ UpInv)
  BY ShapeInit, UpInit, <1>2, PTL DEF Spec
<1> QED
  BY <1>1, <1>3, UpRelayStep, PTL DEF Spec, UpIsRelay, UpLink!Spec

-----------------------------------------------------------------------------
(* Towards the application. A packet goes from a session's hands through the   *)
(* shared channel into the hands of writeLoop: of two packets of one session   *)
(* the one that is further on was read first, and no packet is in two places.  *)

HandItems == {[from |-> s, pkt |-> hand[s]] : s \in {t \in Sessions : spc[t] = "return"}}
WlItems   == IF wlPc = "recv" THEN {} ELSE {wlItem}
OnWay     == HandItems \cup ToSet(returnCh) \cup WlItems

\* b was read after a, or by another session.
Follows(a, b) == a.pkt /= b.pkt /\ (a.from = b.from => a.pkt < b.pkt)

InOrder(q) == \A i, j \in DOMAIN q : i < j => Follows(q[i], q[j])

DownInv ==
    /\ InOrder(returnCh)
    /\ \A a \in WlItems : \A b \in ToSet(returnCh) : Follows(a, b)
    /\ \A a \in WlItems \cup ToSet(returnCh) : \A b \in HandItems : Follows(a, b)
    /\ \A a, b \in HandItems : a /= b => a.pkt /= b.pkt
    /\ \A b \in OnWay : \A q \in ToSet(toApp[b.from]) : q < b.pkt
    /\ \A b \in OnWay : b.pkt <= downCount
    /\ \A s \in Sessions : \A q \in ToSet(toApp[s]) : q <= downCount

LEMMA AppendInOrder ==
    ASSUME NEW q \in Seq(Items), NEW e \in Items, InOrder(q), \A a \in ToSet(q) : Follows(a, e)
    PROVE  InOrder(Append(q, e))
<1>1. DOMAIN Append(q, e) = 1 .. Len(q) + 1 /\ DOMAIN q = 1 .. Len(q) /\ Len(q) \in Nat
  OBVIOUS
<1>2. \A i \in 1 .. Len(q) : Append(q, e)[i] = q[i] /\ q[i] \in ToSet(q)
  BY DEF ToSet
<1>3. Append(q, e)[Len(q) + 1] = e
  OBVIOUS
<1> QED
  BY <1>1, <1>2, <1>3 DEF InOrder

LEMMA TailInOrder ==
    ASSUME NEW q \in Seq(Items), q /= <<>>, InOrder(q)
    PROVE  /\ InOrder(Tail(q))
           /\ \A b \in ToSet(Tail(q)) : Follows(Head(q), b)
<1>1. /\ Head(q) = q[1] /\ Len(q) \in Nat \ {0}
      /\ DOMAIN q = 1 .. Len(q) /\ DOMAIN Tail(q) = 1 .. Len(q) - 1
      /\ \A i \in 1 .. Len(q) - 1 : Tail(q)[i] = q[i + 1]
  OBVIOUS
<1>2. InOrder(Tail(q))
  BY <1>1 DEF InOrder
<1>3. \A i \in 1 .. Len(q) - 1 : Follows(Head(q), Tail(q)[i])
  BY <1>1 DEF InOrder
<1> QED
  BY <1>1, <1>2, <1>3 DEF ToSet

LEMMA DownTyped ==
    ASSUME TypeOK, Shape
    PROVE  /\ HandItems \subseteq Items /\ ToSet(returnCh) \subseteq Items
           /\ WlItems \subseteq Items /\ OnWay \subseteq Items
           /\ \A s \in Sessions : ToSet(toApp[s]) \subseteq Down
           /\ Down \subseteq Nat /\ NoPkt \notin Down /\ downCount \in Nat
           /\ \A a \in Items : a.pkt \in Down /\ a.from \in Sessions
<1>1. HandItems \subseteq Items
  BY DEF HandItems, Shape, Items
<1>2. ToSet(returnCh) \subseteq Items
  BY ElementsTyped DEF TypeOK
<1>3. WlItems \subseteq Items
  BY DEF WlItems, Shape
<1>4. \A s \in Sessions : ToSet(toApp[s]) \subseteq Down
  BY ElementsTyped DEF TypeOK
<1>5. Down \subseteq Nat /\ NoPkt \notin Down /\ downCount \in Nat
  BY TunnelAssumption DEF Down, NoPkt, TypeOK
<1>6. \A a \in Items : a.pkt \in Down /\ a.from \in Sessions
  BY DEF Items
<1> QED
  BY <1>1, <1>2, <1>3, <1>4, <1>5, <1>6 DEF OnWay

\* What is on its way is what the items of the three places carry.
DownPendingSplit == DownPending = {a.pkt : a \in OnWay}

LEMMA DownPendingIs == TypeOK /\ Shape => DownPendingSplit
<1> SUFFICES ASSUME TypeOK, Shape PROVE DownPendingSplit
  OBVIOUS
<1>1. {hand[s] : s \in {t \in Sessions : spc[t] = "return"}} = {a.pkt : a \in HandItems}
  <2>1. ASSUME NEW s \in Sessions, spc[s] = "return"
        PROVE  hand[s] \in {a.pkt : a \in HandItems}
    <3>1. [from |-> s, pkt |-> hand[s]] \in HandItems /\ [from |-> s, pkt |-> hand[s]].pkt = hand[s]
      BY <2>1 DEF HandItems
    <3> QED
      BY <3>1
  <2>2. ASSUME NEW a \in HandItems
        PROVE  \E s \in Sessions : spc[s] = "return" /\ a.pkt = hand[s]
    BY DEF HandItems
  <2> QED
    BY <2>1, <2>2
<1>2. {it.pkt : it \in ToSet(returnCh) \cup {wlItem}} \ {NoPkt}
         = {a.pkt : a \in ToSet(returnCh) \cup WlItems} \ {NoPkt}
  BY DEF WlItems, Shape, NoItem
<1>3. NoPkt \notin {a.pkt : a \in OnWay}
  BY DownTyped
<1>4. {a.pkt : a \in OnWay} = {a.pkt : a \in HandItems} \cup {a.pkt : a \in ToSet(returnCh) \cup WlItems}
  BY DEF OnWay
<1> QED
  BY <1>1, <1>2, <1>3, <1>4 DEF DownPending, DownPendingSplit

\* A step after which writeLoop may have less in its hands, and all else is as it was.
DownFewer ==
    /\ WlItems' \subseteq WlItems
    /\ UNCHANGED <<HandItems, returnCh, toApp, downCount>>

LEMMA DownSteps ==
    ASSUME TypeOK, Shape, Next
    PROVE  \/ WlTake
           \/ WlSend
           \/ \E s \in Sessions : ReadPeer(s) \/ Return(s)
           \/ DownFewer
<1>1. ASSUME UNCHANGED <<spc, hand, returnCh, wlVars, downCount>> PROVE DownFewer
  BY <1>1 DEF DownFewer, HandItems, WlItems, wlVars
<1>2. ASSUME NEW s \in Sessions, NEW to \in SPcs \ {"return"}, spc' = [spc EXCEPT ![s] = to],
             spc[s] /= "return", \A t \in Sessions \ {s} : hand'[t] = hand[t],
             UNCHANGED <<returnCh, wlVars, downCount>>
      PROVE  DownFewer
  <2>1. \A t \in Sessions : (spc'[t] = "return" <=> spc[t] = "return")
                            /\ (spc[t] = "return" => hand'[t] = hand[t])
    BY <1>2 DEF TypeOK
  <2>2. HandItems' = HandItems
    BY <2>1 DEF HandItems
  <2> QED
    BY <1>2, <2>2 DEF DownFewer, WlItems, wlVars
<1>3. CASE RlStep \/ RecvLocal \/ RecvError \/ Shutdown
  BY <1>1, <1>3
  DEF RlStep, RouteNobody, RouteTurn, RouteTo, RouteRefused, RouteDrop, RecvLocal, RecvError,
      Shutdown, sessVars
<1>4. CASE WlNoClient \/ WlClient \/ WlSendFails \/ WlRetryFails
  BY <1>4
  DEF WlNoClient, WlClient, WlSendFails, WlRetryFails, DownFewer, HandItems, WlItems, sessVars
<1>5. ASSUME NEW s \in Sessions,
             \/ Register(s) \/ TakeUp(s) \/ WritePeer(s) \/ WritePeerFails(s)
             \/ Breaks(s) \/ Unregister(s) \/ Close(s)
      PROVE  DownFewer
  <2>1. /\ \A t \in Sessions \ {s} : hand'[t] = hand[t]
        /\ UNCHANGED <<returnCh, wlVars, downCount>>
    BY <1>5
    DEF Register, TakeUp, WritePeer, WritePeerFails, Breaks, Unregister, Close, TypeOK
  <2>2. spc[s] /= "return" /\ \E to \in SPcs \ {"return"} : spc' = [spc EXCEPT ![s] = to]
    BY <1>5
    DEF Register, TakeUp, WritePeer, WritePeerFails, Breaks, Unregister, Close, SessionAt, SPcs
  <2> QED
    BY <1>2, <2>1, <2>2
<1> QED
  BY <1>3, <1>4, <1>5 DEF Next, WlStep, Environment, SessionStep

LEMMA ReadPeerItems ==
    ASSUME TypeOK, NEW s \in Sessions, ReadPeer(s)
    PROVE  HandItems' = HandItems \cup {[from |-> s, pkt |-> downCount + 1]}
<1>1. spc[s] = "loop" /\ spc'[s] = "return" /\ hand'[s] = downCount + 1
  BY DEF ReadPeer, SessionAt, TypeOK
<1>2. \A t \in Sessions \ {s} : spc'[t] = spc[t] /\ hand'[t] = hand[t]
  BY DEF ReadPeer, SessionAt, TypeOK
<1> QED
  BY <1>1, <1>2 DEF HandItems

LEMMA ReturnItems ==
    ASSUME TypeOK, Shape, NEW s \in Sessions, Return(s)
    PROVE  LET it == [from |-> s, pkt |-> hand[s]]
           IN  it \in HandItems /\ it \in Items /\ HandItems' = HandItems \ {it}
<1>1. spc[s] = "return" /\ spc'[s] = "loop"
  BY DEF Return, SessionAt, TypeOK
<1>2. \A t \in Sessions \ {s} : spc'[t] = spc[t] /\ hand'[t] = hand[t]
  BY DEF Return, SessionAt, TypeOK
<1>3. [from |-> s, pkt |-> hand[s]] \in HandItems /\ HandItems \subseteq Items
  BY <1>1, DownTyped DEF HandItems
<1>4. HandItems' = HandItems \ {[from |-> s, pkt |-> hand[s]]}
  BY <1>1, <1>2 DEF HandItems
<1> QED
  BY <1>3, <1>4

LEMMA DownInit == Init => DownInv
<1> SUFFICES ASSUME Init PROVE DownInv
  OBVIOUS
<1>1. HandItems = {} /\ WlItems = {} /\ returnCh = <<>> /\ \A s \in Sessions : toApp[s] = <<>>
  BY DEF Init, HandItems, WlItems
<1> QED
  BY <1>1, EmptyElements DEF DownInv, OnWay, InOrder

LEMMA DownStep == TypeOK /\ Shape /\ DownInv /\ [Next]_vars => DownInv'
<1> SUFFICES ASSUME TypeOK, Shape, DownInv, [Next]_vars PROVE DownInv'
  OBVIOUS
<1>1. CASE DownFewer
  <2>1. OnWay' \subseteq OnWay
    BY <1>1 DEF DownFewer, OnWay
  <2> QED
    BY <1>1, <2>1 DEF DownFewer, DownInv
<1>2. ASSUME NEW s \in Sessions, ReadPeer(s) PROVE DownInv'
  <2> DEFINE new == [from |-> s, pkt |-> downCount + 1]
  <2>1. downCount' = downCount + 1 /\ UNCHANGED <<returnCh, wlPc, wlItem, toApp>>
    BY <1>2 DEF ReadPeer, wlVars
  <2>2. HandItems' = HandItems \cup {new}
    BY <1>2, ReadPeerItems
  <2>3. WlItems' = WlItems /\ OnWay' = OnWay \cup {new}
    BY <2>1, <2>2 DEF WlItems, OnWay
  <2>4. \A a \in OnWay : a.pkt < new.pkt /\ a.pkt \in Nat
    BY DownTyped DEF DownInv
  <2>5. \A a \in OnWay : Follows(a, new)
    BY <2>4 DEF Follows
  <2>6. new.pkt = downCount' /\ new.from = s /\ downCount \in Nat
    BY <2>1, DownTyped
  <2>7. \A t \in Sessions : \A q \in ToSet(toApp[t]) : q < new.pkt /\ q <= downCount'
    <3>1. ASSUME NEW t \in Sessions, NEW q \in ToSet(toApp[t]) PROVE q <= downCount /\ q \in Nat
      BY DownTyped DEF DownInv
    <3> QED
      BY <2>1, <2>6, <3>1
  <2> HIDE DEF new
  <2>8. \A a, b \in HandItems' : a /= b => a.pkt /= b.pkt
    BY <2>2, <2>4, <2>5 DEF DownInv, OnWay, Follows
  <2>9. \A b \in OnWay' : b.pkt <= downCount'
    BY <2>1, <2>3, <2>4, <2>6
  <2>10. \A a \in WlItems' \cup ToSet(returnCh') : \A b \in HandItems' : Follows(a, b)
    BY <2>1, <2>2, <2>3, <2>5 DEF DownInv, OnWay
  <2>11. \A b \in OnWay' : \A q \in ToSet(toApp'[b.from]) : q < b.pkt
    BY <2>1, <2>3, <2>6, <2>7 DEF DownInv
  <2>12. \A t \in Sessions : \A q \in ToSet(toApp'[t]) : q <= downCount'
    BY <2>1, <2>7
  <2>13. InOrder(returnCh') /\ \A a \in WlItems' : \A b \in ToSet(returnCh') : Follows(a, b)
    BY <2>1, <2>3 DEF DownInv
  <2> QED
    BY <2>8, <2>9, <2>10, <2>11, <2>12, <2>13 DEF DownInv
<1>3. ASSUME NEW s \in Sessions, Return(s) PROVE DownInv'
  <2> DEFINE it == [from |-> s, pkt |-> hand[s]]
  <2>1. returnCh' = Append(returnCh, it) /\ UNCHANGED <<downCount, wlPc, wlItem, toApp>>
    BY <1>3 DEF Return, wlVars
  <2>2. it \in HandItems /\ it \in Items
    BY <1>3, ReturnItems
  <2>3. HandItems' = HandItems \ {it}
    BY <1>3, ReturnItems
  <2> HIDE DEF it
  <2>4. ToSet(returnCh') = ToSet(returnCh) \cup {it} /\ WlItems' = WlItems
    BY <2>1, <2>2, AppendElements DEF TypeOK, WlItems
  <2>5. OnWay' = OnWay
    BY <2>2, <2>3, <2>4 DEF OnWay
  <2>6. InOrder(returnCh')
    BY <2>1, <2>2, AppendInOrder DEF TypeOK, DownInv
  <2>7. \A b \in HandItems' : Follows(it, b)
    <3>1. ASSUME NEW b \in HandItems' PROVE b.from /= it.from
      <4>1. PICK t \in Sessions : b = [from |-> t, pkt |-> hand[t]]
        BY <2>3 DEF HandItems
      <4> QED
        BY <2>3, <4>1 DEF it
    <3>2. \A b \in HandItems' : it.pkt /= b.pkt
      BY <2>2, <2>3 DEF DownInv
    <3> QED
      BY <3>1, <3>2 DEF Follows
  <2>8. \A a \in WlItems' \cup ToSet(returnCh') : \A b \in HandItems' : Follows(a, b)
    BY <2>3, <2>4, <2>7 DEF DownInv
  <2>9. \A a \in WlItems' : \A b \in ToSet(returnCh') : Follows(a, b)
    BY <2>2, <2>4 DEF DownInv
  <2> QED
    BY <2>1, <2>3, <2>5, <2>6, <2>8, <2>9 DEF DownInv
<1>4. CASE WlTake
  <2>1. /\ returnCh /= <<>> /\ returnCh \in Seq(Items) /\ returnCh' = Tail(returnCh)
        /\ WlItems = {} /\ WlItems' = {Head(returnCh)}
        /\ UNCHANGED <<HandItems, toApp, downCount>>
    BY <1>4 DEF WlTake, TypeOK, WlItems, HandItems, sessVars
  <2>2. ToSet(returnCh) = {Head(returnCh)} \cup ToSet(returnCh')
    BY <2>1, TailElements
  <2>3. InOrder(returnCh') /\ \A b \in ToSet(returnCh') : Follows(Head(returnCh), b)
    BY <2>1, TailInOrder DEF DownInv
  <2>4. OnWay' = OnWay
    BY <2>1, <2>2 DEF OnWay
  <2> QED
    BY <2>1, <2>2, <2>3, <2>4 DEF DownInv
<1>5. CASE WlSend
  <2>1. /\ wlItem \in Items /\ WlItems = {wlItem} /\ WlItems' = {}
        /\ toApp' = [toApp EXCEPT ![wlItem.from] = Append(@, wlItem.pkt)]
        /\ UNCHANGED <<HandItems, returnCh, downCount>>
    BY <1>5 DEF WlSend, Shape, WlItems, HandItems, sessVars
  <2> DEFINE l == wlItem.from
  <2>2. l \in Sessions /\ wlItem.pkt \in Down /\ wlItem \in OnWay /\ wlItem.pkt \in Int
    BY <2>1, DownTyped DEF OnWay
  <2>3. /\ ToSet(toApp'[l]) = ToSet(toApp[l]) \cup {wlItem.pkt}
        /\ \A t \in Sessions \ {l} : toApp'[t] = toApp[t]
    BY <2>1, <2>2, AppendElements DEF TypeOK
  <2> HIDE DEF l
  <2>4. OnWay' \subseteq OnWay
    BY <2>1 DEF OnWay
  <2>5. \A b \in OnWay' : Follows(wlItem, b)
    BY <2>1 DEF DownInv, OnWay
  <2>6. \A b \in OnWay' : \A q \in ToSet(toApp'[b.from]) : q < b.pkt
    <3>1. \A b \in OnWay' : b.from \in Sessions
      BY <2>4, DownTyped
    <3>2. ASSUME NEW b \in OnWay', NEW q \in ToSet(toApp'[b.from]) PROVE q < b.pkt
      <4>1. CASE q \in ToSet(toApp[b.from])
        BY <2>4, <4>1 DEF DownInv
      <4>2. CASE q \notin ToSet(toApp[b.from])
        <5>1. b.from = l /\ q = wlItem.pkt
          BY <2>3, <3>1, <3>2, <4>2
        <5> QED
          BY <2>5, <5>1 DEF Follows, l
      <4> QED
        BY <4>1, <4>2
    <3> QED
      BY <3>2
  <2>7. \A t \in Sessions : \A q \in ToSet(toApp'[t]) : q <= downCount'
    BY <2>1, <2>2, <2>3 DEF DownInv
  <2>8. \A b \in OnWay' : b.pkt <= downCount'
    BY <2>1, <2>4 DEF DownInv
  <2> QED
    BY <2>1, <2>6, <2>7, <2>8 DEF DownInv
<1>6. CASE UNCHANGED vars
  BY <1>6 DEF vars, search, DownInv, OnWay, HandItems, WlItems
<1> QED
  BY <1>1, <1>2, <1>3, <1>4, <1>5, <1>6, DownSteps

LEMMA DownRelayStep == TypeOK /\ Shape /\ DownInv /\ [Next]_vars => [DownLink!Next]_DownLink!vars
<1> SUFFICES ASSUME TypeOK, Shape, DownInv, [Next]_vars
             PROVE  DownLink!Next \/ UNCHANGED <<downCount, DownPending, toApp>>
  BY DEF DownLink!vars
<1>1. TypeOK' /\ Shape'
  BY ShapeStep
<1>2. DownPendingSplit /\ DownPendingSplit'
  BY <1>1, DownPendingIs, PTL
<1>3. CASE DownFewer
  <2>1. OnWay' \subseteq OnWay /\ UNCHANGED <<downCount, toApp>>
    BY <1>3 DEF DownFewer, OnWay
  <2>2. DownPending' \subseteq DownPending
    BY <1>2, <2>1 DEF DownPendingSplit
  <2>3. DownPending \ DownPending' \in SUBSET DownPending
        /\ DownPending' = DownPending \ (DownPending \ DownPending')
    BY <2>2
  <2>4. DownLink!Lose
    BY <2>1, <2>3 DEF DownLink!Lose
  <2> QED
    BY <2>4 DEF DownLink!Next
<1>4. ASSUME NEW s \in Sessions, ReadPeer(s) PROVE DownLink!Next
  <2> DEFINE new == [from |-> s, pkt |-> downCount + 1]
  <2>1. downCount' = downCount + 1 /\ UNCHANGED <<returnCh, wlPc, wlItem, toApp>>
    BY <1>4 DEF ReadPeer, wlVars
  <2>2. HandItems' = HandItems \cup {new}
    BY <1>4, ReadPeerItems
  <2>3. OnWay' = OnWay \cup {new} /\ new.pkt = downCount'
    BY <2>1, <2>2 DEF WlItems, OnWay
  <2> HIDE DEF new
  <2>4. DownPending' = DownPending \cup {downCount'}
    BY <1>2, <2>3 DEF DownPendingSplit
  <2> QED
    BY <2>1, <2>4 DEF DownLink!Next, DownLink!Accept
<1>5. ASSUME NEW s \in Sessions, Return(s) PROVE UNCHANGED <<downCount, DownPending, toApp>>
  <2> DEFINE it == [from |-> s, pkt |-> hand[s]]
  <2>1. returnCh' = Append(returnCh, it) /\ UNCHANGED <<downCount, wlPc, wlItem, toApp>>
    BY <1>5 DEF Return, wlVars
  <2>2. it \in HandItems /\ it \in Items
    BY <1>5, ReturnItems
  <2>3. HandItems' = HandItems \ {it}
    BY <1>5, ReturnItems
  <2> HIDE DEF it
  <2>4. ToSet(returnCh') = ToSet(returnCh) \cup {it} /\ WlItems' = WlItems
    BY <2>1, <2>2, AppendElements DEF TypeOK, WlItems
  <2>5. OnWay' = OnWay
    BY <2>2, <2>3, <2>4 DEF OnWay
  <2> QED
    BY <1>2, <2>1, <2>5 DEF DownPendingSplit
<1>6. CASE WlTake
  <2>1. /\ returnCh /= <<>> /\ returnCh \in Seq(Items) /\ returnCh' = Tail(returnCh)
        /\ WlItems = {} /\ WlItems' = {Head(returnCh)}
        /\ UNCHANGED <<HandItems, toApp, downCount>>
    BY <1>6 DEF WlTake, TypeOK, WlItems, HandItems, sessVars
  <2>2. ToSet(returnCh) = {Head(returnCh)} \cup ToSet(returnCh')
    BY <2>1, TailElements
  <2>3. OnWay' = OnWay
    BY <2>1, <2>2 DEF OnWay
  <2> QED
    BY <1>2, <2>1, <2>3 DEF DownPendingSplit
<1>7. CASE WlSend
  <2>1. /\ wlItem \in Items /\ WlItems = {wlItem} /\ WlItems' = {}
        /\ toApp' = [toApp EXCEPT ![wlItem.from] = Append(@, wlItem.pkt)]
        /\ UNCHANGED <<HandItems, returnCh, downCount>>
    BY <1>7 DEF WlSend, Shape, WlItems, HandItems, sessVars
  <2>2. wlItem \in OnWay /\ wlItem.from \in Sessions
    BY <2>1, DownTyped DEF OnWay
  <2>3. \A i \in DOMAIN toApp[wlItem.from] : toApp[wlItem.from][i] < wlItem.pkt
    BY <2>2 DEF DownInv, ToSet
  <2>4. OnWay = OnWay' \cup {wlItem} /\ \A b \in OnWay' : b.pkt /= wlItem.pkt
    BY <2>1 DEF OnWay, DownInv, Follows
  <2>5. DownPending' = DownPending \ {wlItem.pkt} /\ wlItem.pkt \in DownPending
    BY <1>2, <2>4 DEF DownPendingSplit
  <2>6. DownLink!Deliver
    BY <2>1, <2>2, <2>3, <2>5 DEF DownLink!Deliver
  <2> QED
    BY <2>6 DEF DownLink!Next
<1>8. CASE UNCHANGED vars
  BY <1>8 DEF vars, search, DownPending
<1> QED
  BY <1>3, <1>4, <1>5, <1>6, <1>7, <1>8, DownSteps

\* Towards the application the tunnel implements the relay: however the sessions and
\* writeLoop interleave and whichever sends are tried again, no packet is delivered
\* twice, and those of one session arrive in the order it read them.
THEOREM DownRelay == Spec => DownIsRelay
<1>1. Init => DownLink!Init
  <2> SUFFICES ASSUME Init PROVE DownLink!Init
    OBVIOUS
  <2>1. DownPending = {}
    BY EmptyElements DEF Init, DownPending, NoItem
  <2> QED
    BY <2>1 DEF Init, DownLink!Init
<1>2. TypeOK /\ Shape /\ DownInv /\ [Next]_vars => TypeOK' /\ Shape' /\ DownInv'
  BY ShapeStep, DownStep
<1>3. Spec => [](TypeOK /\ Shape /\ DownInv)
  BY ShapeInit, DownInit, <1>2, PTL DEF Spec
<1> QED
  BY <1>1, <1>3, DownRelayStep, PTL DEF Spec, DownIsRelay, DownLink!Spec

=============================================================================
