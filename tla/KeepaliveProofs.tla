--------------------------- MODULE KeepaliveProofs ---------------------------
(* Proofs about Keepalive, for every interval shorter than the read timeout. *)
EXTENDS Keepalive, TLAPS

\* The age of the read and the time to the next tick share one interval.
IInv == TypeOK /\ readAge + toTick <= KeepaliveInterval

\* The clocks stay in range and together never exceed the interval.
THEOREM ClocksShareInterval == Spec => []IInv
<1> USE KeepaliveAssumption DEF IInv, TypeOK
<1>1. Init => IInv
  BY DEF Init
<1>2. IInv /\ [Next]_vars => IInv'
  <2> SUFFICES ASSUME IInv, [Next]_vars PROVE IInv'
    OBVIOUS
  <2>1. CASE TimePasses
    BY <2>1 DEF TimePasses
  <2>2. CASE AppSends \/ PeerSends
    BY <2>2 DEF AppSends, PeerSends
  <2>3. CASE KeepaliveTick
    BY <2>3 DEF KeepaliveTick
  <2>4. CASE WriteFails \/ ReadEnds
    <3>1. alive' \in BOOLEAN
      BY <2>4, Zenon DEF WriteFails, ReadEnds
    <3>2. UNCHANGED <<peer, readAge, toTick>>
      BY <2>4 DEF WriteFails, ReadEnds
    <3> QED
      BY <3>1, <3>2
  <2>5. CASE PeerCloses \/ PeerVanishes
    BY <2>5 DEF PeerCloses, PeerVanishes
  <2>6. CASE UNCHANGED vars
    BY <2>6 DEF vars
  <2> QED
    BY <2>1, <2>2, <2>3, <2>4, <2>5, <2>6 DEF Next
<1> QED
  BY <1>1, <1>2, PTL DEF Spec

\* No clock leaves its range: time never passes a due tick or a due timeout.
THEOREM TypeCorrect == Spec => []TypeOK
  BY ClocksShareInterval, PTL DEF IInv

\* Whenever the keepalive interval is shorter than the read timeout, no read
\* ever lives to its timeout, whatever the traffic: a silent peer is not noticed.
THEOREM ReadNeverTimesOut == Spec => [](ReadIsRestarted /\ readAge < ReadTimeout)
<1>1. IInv => ReadIsRestarted /\ readAge < ReadTimeout
  BY KeepaliveAssumption DEF IInv, TypeOK, ReadIsRestarted
<1> QED
  BY <1>1, ClocksShareInterval, PTL

=============================================================================
