---------------------------- MODULE ClientProofs ----------------------------
(***************************************************************************)
(* Proofs about Client, for any number of groups and of workers per group. *)
(***************************************************************************)
EXTENDS Client, FiniteSetTheorems, TLAPS

\* a * n does not decrease when a grows.
LEMMA ProductMonotone ==
    ASSUME NEW a \in Nat, NEW b \in Nat, NEW n \in Nat, a <= b
    PROVE  a * n <= b * n
  BY SMT

\* The ids main() hands out are distinct: Unregister by id removes one slot.
LEMMA IDInjective ==
    ASSUME NEW v \in Workers, NEW w \in Workers, ID(v) = ID(w)
    PROVE  v = w
<1> DEFINE W == WorkersPerGroup
<1>1. /\ v[1] \in Nat /\ w[1] \in Nat /\ W \in Nat
      /\ v[2] \in 0 .. W - 1 /\ w[2] \in 0 .. W - 1
  BY ClientAssumption DEF Workers, Groups, Slots
<1>2. ASSUME NEW x \in Workers, NEW y \in Workers, ID(x) = ID(y), x[1] < y[1]
      PROVE  FALSE
  <2>1. /\ x[1] \in Nat /\ y[1] \in Nat /\ x[2] \in 0 .. W - 1 /\ y[2] \in 0 .. W - 1
    BY ClientAssumption DEF Workers, Groups, Slots
  <2>2. (x[1] + 1) * W <= y[1] * W
    BY <1>1, <1>2, <2>1, ProductMonotone
  <2>3. (x[1] + 1) * W = x[1] * W + W
    BY <1>1, <2>1
  <2>4. x[1] * W \in Nat /\ y[1] * W \in Nat
    BY <1>1, <2>1
  <2> QED
    BY <1>1, <1>2, <2>1, <2>2, <2>3, <2>4 DEF ID
<1>3. v[1] = w[1]
  BY <1>1, <1>2
<1>4. v[2] = w[2]
  BY <1>1, <1>3 DEF ID
<1> QED
  BY <1>3, <1>4 DEF Workers

\* Distinct groups have distinct keys in the credentials cache.
LEMMA CacheKeyInjective ==
    ASSUME NEW g \in Groups, NEW h \in Groups, CacheKey(g) = CacheKey(h)
    PROVE  g = h
<1> DEFINE S == StreamStride
           C == StreamsPerCache
<1>1. S \in Nat /\ C \in Nat /\ C > 0 /\ S >= C
  BY ClientAssumption
<1>2. ASSUME NEW x \in Groups, NEW y \in Groups, x < y
      PROVE  CacheKey(x) < CacheKey(y)
  <2>1. x \in Nat /\ y \in Nat
    BY ClientAssumption DEF Groups
  <2>2. (x + 1) * S <= y * S
    BY <1>1, <1>2, <2>1, ProductMonotone
  <2>3. x * S \in Nat /\ y * S \in Nat /\ x * S + C <= y * S
    <3>1. (x + 1) * S = x * S + S
      BY <1>1, <2>1
    <3> QED
      BY <1>1, <2>1, <2>2, <3>1
  <2>4. ASSUME NEW p \in Nat, NEW q \in Nat, p + C <= q
        PROVE  p \div C < q \div C
    BY <1>1, <2>4
  <2> HIDE DEF S, C
  <2>5. (x * S) \div C < (y * S) \div C
    BY <2>3, <2>4
  <2> QED
    BY <2>5 DEF CacheKey, S, C
<1>3. g \in Nat /\ h \in Nat
  BY ClientAssumption DEF Groups
<1>4. CASE g < h
  <2>1. CacheKey(g) < CacheKey(h)
    BY <1>2, <1>4
  <2>2. CacheKey(g) \in Int
    BY <1>1, <1>3 DEF CacheKey
  <2> QED
    BY <2>1, <2>2
<1>5. CASE h < g
  <2>1. CacheKey(h) < CacheKey(g)
    BY <1>2, <1>5
  <2>2. CacheKey(g) \in Int
    BY <1>1, <1>3 DEF CacheKey
  <2> QED
    BY <2>1, <2>2
<1> QED
  BY <1>3, <1>4, <1>5

-----------------------------------------------------------------------------
\* One step of the client, as the list of its actions.
LEMMA StepCases ==
    ASSUME Next
    PROVE  \/ LaunchGroup \/ FinishLaunch \/ SeeCancelled \/ JoinGroups \/ Stop
           \/ CtrlC \/ Pause \/ Resume \/ StopLine \/ EndOfInput
           \/ SaveConfig \/ Exited
           \/ \E g \in Groups : GroupStep(g)
           \/ \E w \in Workers : WorkerStep(w) \/ SessionBreaks(w)
  BY DEF Next, MainStep, UserStep

\* Every variable keeps its type: no counter, no pc and no channel leaves the
\* range the code relies on, in particular spawned[g] never passes the number of
\* workers of a group and the config channel never holds more than it can.
THEOREM TypeCorrect == Spec => []TypeOK
<1>1. Init => TypeOK
  <2> SUFFICES ASSUME Init PROVE TypeOK
    OBVIOUS
  <2>1. /\ mainPc \in MainPcs /\ launched \in 0 .. NumGroups
        /\ gpc \in [Groups -> GroupPcs] /\ spawned \in [Groups -> 0 .. WorkersPerGroup]
        /\ wpc \in [Workers -> WorkerPcs]
        /\ active \in Int /\ configCh \in 0 .. 1 /\ saves \in Nat
    BY ClientAssumption, SMT DEF Init, MainPcs, GroupPcs, WorkerPcs
  <2>2. /\ configOnce \in [Groups -> BOOLEAN] /\ wantConfig \in [Workers -> BOOLEAN]
        /\ cancelled \in BOOLEAN /\ paused \in BOOLEAN /\ stdinOpen \in BOOLEAN
        /\ credCache \subseteq {CacheKey(g) : g \in Groups} /\ registered \subseteq Workers
    BY Zenon DEF Init
  <2> QED
    BY <2>1, <2>2 DEF TypeOK
<1>2. TypeOK /\ [Next]_vars => TypeOK'
  <2> SUFFICES ASSUME TypeOK, [Next]_vars
               PROVE  TypeOK'
    OBVIOUS
  <2> USE DEF TypeOK, mainVars, sessVars, configVars, userVars
  <2>1. CASE LaunchGroup
    BY <2>1, ClientAssumption DEF LaunchGroup, Groups, GroupPcs
  <2>2. CASE FinishLaunch \/ SeeCancelled \/ JoinGroups \/ Stop \/ CtrlC
    BY <2>2 DEF FinishLaunch, SeeCancelled, JoinGroups, Stop, CtrlC, MainPcs
  <2>3. CASE Pause \/ Resume \/ StopLine \/ EndOfInput
    BY <2>3, Zenon DEF Pause, Resume, StopLine, EndOfInput
  <2>7. CASE SaveConfig
    BY <2>7 DEF SaveConfig
  <2>8. CASE Exited
    BY <2>8 DEF Exited, vars
  <2>4. ASSUME NEW g \in Groups, GroupStep(g)
        PROVE  TypeOK'
    <3> USE DEF GroupAt, GroupPcs
    <3>1. CASE GroupSpawn(g)
      <4>1. spawned[g] + 1 \in 0 .. WorkersPerGroup
        BY <3>1, ClientAssumption DEF GroupSpawn
      <4>2. spawned' \in [Groups -> 0 .. WorkersPerGroup]
        BY <3>1, <4>1 DEF GroupSpawn
      <4>3. wpc' \in [Workers -> WorkerPcs]
        BY <3>1 DEF GroupSpawn, WorkerPcs
      <4> QED
        BY <3>1, <4>2, <4>3 DEF GroupSpawn
    <3>2. CASE GroupGetsCreds(g)
      BY <3>2 DEF GroupGetsCreds
    <3>3. CASE ~GroupSpawn(g) /\ ~GroupGetsCreds(g)
      BY <2>4, <3>3 DEF GroupStep, GroupGate, GroupPausedWake,
         GroupPausedCancelled, GroupNoCreds, GroupSpawned, GroupJoin
    <3> QED
      BY <3>1, <3>2, <3>3
  <2>5. ASSUME NEW w \in Workers, WorkerStep(w) \/ SessionBreaks(w)
        PROVE  TypeOK'
    <3>1. wpc' \in [Workers -> WorkerPcs]
      BY <2>5 DEF WorkerStep, WorkerAt, WorkerPcs, WorkerTop, WorkerGatePaused,
         WorkerAttempt, WorkerPausedWake, WorkerPausedCancelled, WorkerRetry,
         WorkerBackoffCancelled, WorkerFatal, SessionConnected,
         SessionNotConnected, GetconfAnswered, GetconfNoconf, GetconfDenied,
         GetconfFailed, SendConfig, SessionReady, Register, SessionBreaks,
         SessionLeaves, Unregister, SessionClosed
    <3>2. /\ UNCHANGED <<mainPc, launched, gpc, spawned, paused, stdinOpen, saves>>
          /\ credCache' \subseteq credCache
          /\ configCh' \in 0 .. 1
      BY <2>5, SMT DEF WorkerStep, WorkerTop, WorkerGatePaused,
         WorkerAttempt, WorkerPausedWake, WorkerPausedCancelled, WorkerRetry,
         WorkerBackoffCancelled, WorkerFatal, SessionConnected,
         SessionNotConnected, GetconfAnswered, GetconfNoconf, GetconfDenied,
         GetconfFailed, SendConfig, SessionReady, Register, SessionBreaks,
         SessionLeaves, Unregister, SessionClosed, handleAuthError
    <3>3. /\ configOnce' \in [Groups -> BOOLEAN]
          /\ wantConfig' \in [Workers -> BOOLEAN]
          /\ cancelled' \in BOOLEAN
      <4>1. CASE WorkerAttempt(w)
        <5>1. w[1] \in Groups
          BY DEF Workers
        <5>2. configOnce[w[1]] \in BOOLEAN
          BY <5>1
        <5> QED
          BY <4>1, <5>1, <5>2, Zenon DEF WorkerAttempt
      <4>2. CASE WorkerFatal(w)
        BY <4>2, Zenon DEF WorkerFatal
      <4>3. CASE ~WorkerAttempt(w) /\ ~WorkerFatal(w)
        BY <2>5, <4>3, SMT DEF WorkerStep, WorkerTop, WorkerGatePaused,
           WorkerPausedWake, WorkerPausedCancelled, WorkerRetry,
           WorkerBackoffCancelled, SessionConnected, SessionNotConnected,
           GetconfAnswered, GetconfNoconf, GetconfDenied, GetconfFailed,
           SendConfig, SessionReady, Register, SessionBreaks, SessionLeaves,
           Unregister, SessionClosed
      <4> QED
        BY <4>1, <4>2, <4>3
    <3>4. active' \in Int /\ registered' \subseteq Workers
      BY <2>5 DEF WorkerStep, WorkerTop, WorkerGatePaused,
         WorkerAttempt, WorkerPausedWake, WorkerPausedCancelled, WorkerRetry,
         WorkerBackoffCancelled, WorkerFatal, SessionConnected,
         SessionNotConnected, GetconfAnswered, GetconfNoconf, GetconfDenied,
         GetconfFailed, SendConfig, SessionReady, Register, SessionBreaks,
         SessionLeaves, Unregister, SessionClosed
    <3> QED
      BY <3>1, <3>2, <3>3, <3>4
  <2>6. CASE UNCHANGED vars
    BY <2>6 DEF vars
  <2> QED
    BY <2>1, <2>2, <2>3, <2>4, <2>5, <2>6, <2>7, <2>8, StepCases
<1> QED
  BY <1>1, <1>2, PTL DEF Spec

-----------------------------------------------------------------------------
(* The inductive invariant. Which workers a group can have is a matter of    *)
(* how far its task is; the properties follow from that and from TypeOK.     *)

\* A group has spawned nothing before it has its credentials, and it is done
\* only when every worker it spawned is.
GroupShape ==
    \A g \in Groups :
        /\ g >= launched => gpc[g] = "unborn"
        /\ gpc[g] \in {"unborn", "gate", "paused", "creds"} => spawned[g] = 0
        /\ \A n \in Slots : n >= spawned[g] => wpc[<<g, n>>] = "unborn"
        /\ gpc[g] = "done" => \A n \in Slots : wpc[<<g, n>>] \in {"unborn", "done"}

\* main() goes on to join only after the token is cancelled, and past the join
\* only when every group is done.
MainShape ==
    /\ mainPc \in {"join", "shutdown", "stopped"} => cancelled
    /\ mainPc \in {"shutdown", "stopped"} => \A g \in Groups : gpc[g] = "done"

IInv == TypeOK /\ GroupShape /\ MainShape /\ RegisteredExactly /\ ActiveMatchesSessions

\* What every step of a worker does to the pcs.
LEMMA WorkerMoves ==
    ASSUME NEW w \in Workers, WorkerStep(w) \/ SessionBreaks(w)
    PROVE  /\ Running
           /\ wpc[w] \notin {"unborn", "done"}
           /\ \E to \in WorkerPcs \ {"unborn"} : wpc' = [wpc EXCEPT ![w] = to]
           /\ UNCHANGED <<mainPc, launched, gpc, spawned>>
           /\ cancelled => cancelled'
  BY Z3 DEF WorkerStep, WorkerAt, WorkerPcs, mainVars, WorkerTop, WorkerGatePaused,
     WorkerAttempt, WorkerPausedWake, WorkerPausedCancelled, WorkerRetry,
     WorkerBackoffCancelled, WorkerFatal, SessionConnected,
     SessionNotConnected, GetconfAnswered, GetconfNoconf, GetconfDenied,
     GetconfFailed, SendConfig, SessionReady, Register, SessionBreaks,
     SessionLeaves, Unregister, SessionClosed

LEMMA GroupShapeKept ==
    ASSUME TypeOK, GroupShape, [Next]_vars
    PROVE  GroupShape'
<1> USE DEF TypeOK, mainVars
<1>1. CASE LaunchGroup
  <2> SUFFICES ASSUME NEW g \in Groups PROVE GroupShape!(g)'
    BY DEF GroupShape
  <2>1. launched \in Groups
    BY <1>1, ClientAssumption DEF LaunchGroup, Groups
  <2>2. g \in Int /\ launched \in Int /\ launched' = launched + 1
    BY <1>1, ClientAssumption DEF Groups, LaunchGroup
  <2>3. spawned' = spawned /\ wpc' = wpc /\ gpc' = [gpc EXCEPT ![launched] = "gate"]
    BY <1>1 DEF LaunchGroup
  <2>4. CASE g = launched
    BY <2>1, <2>2, <2>3, <2>4 DEF GroupShape
  <2>5. CASE g /= launched
    BY <2>1, <2>2, <2>3, <2>5 DEF GroupShape
  <2> QED
    BY <2>4, <2>5
<1>2. ASSUME NEW g \in Groups, GroupStep(g)
      PROVE  GroupShape'
  <2> SUFFICES ASSUME NEW h \in Groups PROVE GroupShape!(h)'
    BY DEF GroupShape
  <2>1. launched' = launched /\ gpc[g] /= "unborn"
    BY <1>2 DEF GroupStep, GroupAt, GroupGate, GroupPausedWake, GroupPausedCancelled,
       GroupGetsCreds, GroupNoCreds, GroupSpawn, GroupSpawned, GroupJoin
  <2>2. launched > g /\ g \in Int /\ launched \in Int
    BY <2>1, ClientAssumption DEF GroupShape, Groups
  <2>3. CASE GroupSpawn(g)
    <3>1. /\ gpc' = gpc /\ gpc[g] = "spawn"
          /\ spawned' = [spawned EXCEPT ![g] = @ + 1]
          /\ wpc' = [wpc EXCEPT ![<<g, spawned[g]>>] = "top"]
          /\ spawned[g] \in Slots
      BY <2>3, ClientAssumption DEF GroupSpawn, GroupAt, Slots
    <3>2. \A n \in Slots : n >= spawned'[h] => wpc'[<<h, n>>] = "unborn"
      <4> TAKE n \in Slots
      <4>1. n \in Int /\ spawned[h] \in Int
        BY ClientAssumption DEF Slots
      <4>2. n >= spawned'[h] => n >= spawned[h] /\ <<h, n>> /= <<g, spawned[g]>>
        BY <3>1, <4>1
      <4>3. <<h, n>> \in Workers
        BY DEF Workers
      <4> QED
        BY <3>1, <4>2, <4>3 DEF GroupShape
    <3>3. gpc[h] = "done" => \A n \in Slots : wpc'[<<h, n>>] = wpc[<<h, n>>]
      BY <3>1 DEF Workers
    <3> QED
      BY <2>1, <3>1, <3>2, <3>3 DEF GroupShape
  <2>4. CASE ~GroupSpawn(g)
    <3>1. wpc' = wpc /\ spawned' = spawned
      BY <1>2, <2>4 DEF GroupStep, GroupGate, GroupPausedWake, GroupPausedCancelled,
         GroupGetsCreds, GroupNoCreds, GroupSpawned, GroupJoin
    <3>2. CASE GroupJoin(g)
      BY <2>1, <2>2, <3>1, <3>2 DEF GroupJoin, GroupAt, GroupShape
    <3>3. CASE GroupGate(g) \/ GroupPausedWake(g) \/ GroupGetsCreds(g) \/ GroupSpawned(g)
      BY <2>1, <2>2, <3>1, <3>3 DEF GroupGate, GroupPausedWake,
         GroupGetsCreds, GroupSpawned, GroupAt, GroupShape
    <3>4. CASE GroupPausedCancelled(g) \/ GroupNoCreds(g)
      <4>1. \A n \in Slots : wpc[<<g, n>>] = "unborn"
        BY <3>4, ClientAssumption
           DEF GroupPausedCancelled, GroupNoCreds, GroupAt, GroupShape, Slots
      <4> QED
        BY <2>1, <2>2, <3>1, <3>4, <4>1
           DEF GroupPausedCancelled, GroupNoCreds, GroupAt, GroupShape
    <3> QED
      BY <1>2, <2>4, <3>2, <3>3, <3>4 DEF GroupStep
  <2> QED
    BY <2>3, <2>4
<1>3. ASSUME NEW w \in Workers, WorkerStep(w) \/ SessionBreaks(w)
      PROVE  GroupShape'
  <2> SUFFICES ASSUME NEW h \in Groups PROVE GroupShape!(h)'
    BY DEF GroupShape
  <2>1. /\ wpc[w] \notin {"unborn", "done"} /\ gpc' = gpc
        /\ launched' = launched /\ spawned' = spawned
    BY <1>3, WorkerMoves
  <2>2. \A n \in Slots : wpc[<<h, n>>] \in {"unborn", "done"}
                            => wpc'[<<h, n>>] = wpc[<<h, n>>]
    <3> TAKE n \in Slots
    <3>1. PICK to \in WorkerPcs : wpc' = [wpc EXCEPT ![w] = to]
      BY <1>3, WorkerMoves
    <3>2. <<h, n>> \in Workers
      BY DEF Workers
    <3> QED
      BY <2>1, <3>1, <3>2
  <2> QED
    BY <2>1, <2>2 DEF GroupShape
<1>4. CASE UNCHANGED <<launched, gpc, spawned, wpc>>
  BY <1>4 DEF GroupShape
<1>5. CASE UNCHANGED vars \/ FinishLaunch \/ SeeCancelled \/ JoinGroups \/ Stop
           \/ CtrlC \/ Pause \/ Resume \/ StopLine \/ EndOfInput \/ SaveConfig \/ Exited
  BY <1>4, <1>5 DEF vars, FinishLaunch, SeeCancelled, JoinGroups, Stop, CtrlC,
     Pause, Resume, StopLine, EndOfInput, SaveConfig, Exited
<1> QED
  BY <1>1, <1>2, <1>3, <1>5, StepCases

LEMMA MainShapeKept ==
    ASSUME TypeOK, MainShape, [Next]_vars
    PROVE  MainShape'
<1> USE DEF TypeOK, MainShape, mainVars
<1>1. CASE LaunchGroup \/ FinishLaunch \/ SeeCancelled \/ JoinGroups \/ Stop \/ CtrlC
  BY <1>1 DEF LaunchGroup, FinishLaunch, SeeCancelled, JoinGroups, Stop, CtrlC
<1>2. CASE Pause \/ Resume \/ StopLine \/ EndOfInput \/ SaveConfig \/ Exited
           \/ UNCHANGED vars
  BY <1>2 DEF Pause, Resume, StopLine, EndOfInput, SaveConfig, Exited, vars
<1>3. ASSUME NEW g \in Groups, GroupStep(g)
      PROVE  MainShape'
  <2>1. mainPc' = mainPc /\ cancelled' = cancelled /\ gpc[g] /= "done"
    BY <1>3 DEF GroupStep, GroupAt, GroupGate, GroupPausedWake, GroupPausedCancelled,
       GroupGetsCreds, GroupNoCreds, GroupSpawn, GroupSpawned, GroupJoin
  <2> QED
    BY <2>1
<1>4. ASSUME NEW w \in Workers, WorkerStep(w) \/ SessionBreaks(w)
      PROVE  MainShape'
  BY <1>4, WorkerMoves
<1> QED
  BY <1>1, <1>2, <1>3, <1>4, StepCases

-----------------------------------------------------------------------------
(* Slots and the count of sessions. *)

\* A step that neither registers, unregisters nor counts a session leaves every
\* worker on the side of "registered" and of "counted" where it was.
LEMMA OtherStepsKeepSides ==
    ASSUME TypeOK, GroupShape, [Next]_vars,
           \A w \in Workers : ~Register(w) /\ ~Unregister(w)
                                /\ ~SessionReady(w) /\ ~SessionLeaves(w)
    PROVE  /\ UNCHANGED <<registered, active>>
           /\ \A v \in Workers : /\ wpc'[v] \in RegisteredPcs <=> wpc[v] \in RegisteredPcs
                                 /\ wpc'[v] \in CountedPcs <=> wpc[v] \in CountedPcs
<1> USE DEF TypeOK, sessVars, RegisteredPcs, CountedPcs
<1>1. CASE LaunchGroup \/ FinishLaunch \/ SeeCancelled \/ JoinGroups \/ Stop \/ CtrlC
           \/ Pause \/ Resume \/ StopLine \/ EndOfInput \/ SaveConfig \/ Exited
           \/ UNCHANGED vars
  BY <1>1 DEF LaunchGroup, FinishLaunch, SeeCancelled, JoinGroups, Stop, CtrlC,
     Pause, Resume, StopLine, EndOfInput, SaveConfig, Exited, vars
<1>2. ASSUME NEW g \in Groups, GroupStep(g)
      PROVE  /\ UNCHANGED <<registered, active>>
             /\ \A v \in Workers : /\ wpc'[v] \in RegisteredPcs <=> wpc[v] \in RegisteredPcs
                                   /\ wpc'[v] \in CountedPcs <=> wpc[v] \in CountedPcs
  <2>1. CASE GroupSpawn(g)
    <3>1. /\ spawned[g] \in Slots
          /\ wpc' = [wpc EXCEPT ![<<g, spawned[g]>>] = "top"]
          /\ UNCHANGED <<registered, active>>
      BY <2>1, ClientAssumption DEF GroupSpawn, Slots
    <3>2. wpc[<<g, spawned[g]>>] = "unborn" /\ <<g, spawned[g]>> \in Workers
      BY <3>1 DEF GroupShape, Workers, Slots
    <3> QED
      BY <3>1, <3>2
  <2>2. CASE ~GroupSpawn(g)
    BY <1>2, <2>2 DEF GroupStep, GroupGate, GroupPausedWake, GroupPausedCancelled,
       GroupGetsCreds, GroupNoCreds, GroupSpawned, GroupJoin
  <2> QED
    BY <2>1, <2>2
<1>3. ASSUME NEW w \in Workers, WorkerStep(w) \/ SessionBreaks(w)
      PROVE  /\ UNCHANGED <<registered, active>>
             /\ \A v \in Workers : /\ wpc'[v] \in RegisteredPcs <=> wpc[v] \in RegisteredPcs
                                   /\ wpc'[v] \in CountedPcs <=> wpc[v] \in CountedPcs
  BY <1>3, Z3 DEF WorkerStep, WorkerAt, WorkerTop, WorkerGatePaused,
     WorkerAttempt, WorkerPausedWake, WorkerPausedCancelled, WorkerRetry,
     WorkerBackoffCancelled, WorkerFatal, SessionConnected,
     SessionNotConnected, GetconfAnswered, GetconfNoconf, GetconfDenied,
     GetconfFailed, SendConfig, SessionBreaks, SessionClosed
<1> QED
  BY <1>1, <1>2, <1>3, StepCases

LEMMA RegisteredKept ==
    ASSUME TypeOK, GroupShape, RegisteredExactly, [Next]_vars
    PROVE  RegisteredExactly'
<1> USE DEF TypeOK
<1>1. CASE \A w \in Workers : ~Register(w) /\ ~Unregister(w)
                                /\ ~SessionReady(w) /\ ~SessionLeaves(w)
  BY <1>1, OtherStepsKeepSides DEF RegisteredExactly
<1>2. ASSUME NEW w \in Workers, Register(w)
      PROVE  RegisteredExactly'
  BY <1>2 DEF Register, WorkerAt, RegisteredExactly, RegisteredPcs
<1>3. ASSUME NEW w \in Workers, Unregister(w)
      PROVE  RegisteredExactly'
  <2>1. registered' = registered \ {w}
    BY <1>3, IDInjective DEF Unregister
  <2> QED
    BY <1>3, <2>1 DEF Unregister, WorkerAt, RegisteredExactly, RegisteredPcs
<1>4. ASSUME NEW w \in Workers, SessionReady(w) \/ SessionLeaves(w)
      PROVE  RegisteredExactly'
  BY <1>4 DEF SessionReady, SessionLeaves, WorkerAt, RegisteredExactly, RegisteredPcs
<1> QED
  BY <1>1, <1>2, <1>3, <1>4

LEMMA WorkersFinite == IsFiniteSet(Workers)
<1>1. IsFiniteSet(Groups) /\ IsFiniteSet(Slots)
  BY ClientAssumption, FS_Interval DEF Groups, Slots
<1> QED
  BY <1>1, FS_Product DEF Workers

LEMMA ActiveKept ==
    ASSUME TypeOK, GroupShape, ActiveMatchesSessions, [Next]_vars
    PROVE  ActiveMatchesSessions'
<1> DEFINE Counted == {w \in Workers : wpc[w] \in CountedPcs}
<1> USE DEF TypeOK
<1>1. IsFiniteSet(Counted) /\ Cardinality(Counted) \in Nat
  <2>1. IsFiniteSet(Counted)
    BY WorkersFinite, FS_Subset
  <2> QED
    BY <2>1, FS_CardinalityType
<1>2. CASE \A w \in Workers : ~Register(w) /\ ~Unregister(w)
                                /\ ~SessionReady(w) /\ ~SessionLeaves(w)
  <2>1. active' = active /\ Counted' = Counted
    BY <1>2, OtherStepsKeepSides
  <2> QED
    BY <2>1 DEF ActiveMatchesSessions
<1>3. ASSUME NEW w \in Workers, Register(w) \/ Unregister(w)
      PROVE  ActiveMatchesSessions'
  <2>1. active' = active /\ Counted' = Counted
    BY <1>3 DEF Register, Unregister, WorkerAt, CountedPcs
  <2> QED
    BY <2>1 DEF ActiveMatchesSessions
<1>4. ASSUME NEW w \in Workers, SessionReady(w)
      PROVE  ActiveMatchesSessions'
  <2>1. active' = active + 1 /\ Counted' = Counted \cup {w} /\ w \notin Counted
    BY <1>4 DEF SessionReady, WorkerAt, CountedPcs
  <2>2. Cardinality(Counted \cup {w}) = Cardinality(Counted) + 1
    BY <1>1, <2>1, FS_AddElement
  <2> QED
    BY <2>1, <2>2 DEF ActiveMatchesSessions
<1>5. ASSUME NEW w \in Workers, SessionLeaves(w)
      PROVE  ActiveMatchesSessions'
  <2>1. active' = active - 1 /\ Counted' = Counted \ {w} /\ w \in Counted
    BY <1>5 DEF SessionLeaves, WorkerAt, CountedPcs
  <2>2. Cardinality(Counted \ {w}) = Cardinality(Counted) - 1
    BY <1>1, <2>1, FS_RemoveElement
  <2> QED
    BY <2>1, <2>2 DEF ActiveMatchesSessions
<1> QED
  BY <1>2, <1>3, <1>4, <1>5

\* The invariant holds initially and is preserved by every step.
THEOREM InductiveInvariant == Spec => []IInv
<1>1. Init /\ TypeOK => IInv
  <2> SUFFICES ASSUME Init, TypeOK PROVE GroupShape /\ MainShape
                                         /\ RegisteredExactly /\ ActiveMatchesSessions
    BY DEF IInv
  <2>1. GroupShape /\ MainShape
    BY ClientAssumption DEF Init, GroupShape, MainShape, Workers
  <2>2. \A w \in Workers : wpc[w] = "unborn"
    BY DEF Init
  <2>3. RegisteredExactly
    BY <2>2 DEF Init, RegisteredExactly, RegisteredPcs
  <2>4. {w \in Workers : wpc[w] \in CountedPcs} = {}
    BY <2>2 DEF CountedPcs
  <2>5. ActiveMatchesSessions
    BY <2>4, FS_EmptySet DEF Init, ActiveMatchesSessions
  <2> QED
    BY <2>1, <2>3, <2>5
<1>2. IInv /\ TypeOK' /\ [Next]_vars => IInv'
  BY GroupShapeKept, MainShapeKept, RegisteredKept, ActiveKept DEF IInv
<1> QED
  BY <1>1, <1>2, TypeCorrect, PTL DEF Spec

\* At any time the dispatcher holds the slots of exactly the live sessions.
THEOREM SlotsOfLiveSessions == Spec => []RegisteredExactly
  BY InductiveInvariant, PTL DEF IInv

\* ActiveConnections never drifts from the number of sessions.
THEOREM ActiveIsExact == Spec => []ActiveMatchesSessions
  BY InductiveInvariant, PTL DEF IInv

\* main() returns only after a stop was asked for and with nothing alive.
THEOREM QuietWhenStopped == Spec => []StoppedIsQuiet
<1>1. IInv => StoppedIsQuiet
  <2> SUFFICES ASSUME IInv, mainPc = "stopped"
               PROVE  /\ cancelled
                      /\ \A w \in Workers : wpc[w] \in {"unborn", "done"}
                      /\ registered = {} /\ active = 0
    BY DEF StoppedIsQuiet
  <2>1. cancelled /\ \A g \in Groups : gpc[g] = "done"
    BY DEF IInv, MainShape
  <2>2. \A w \in Workers : wpc[w] \in {"unborn", "done"}
    BY <2>1 DEF IInv, GroupShape, Workers
  <2>3. registered = {}
    BY <2>2 DEF IInv, RegisteredExactly, RegisteredPcs
  <2>4. {w \in Workers : wpc[w] \in CountedPcs} = {}
    BY <2>2 DEF CountedPcs
  <2>5. active = 0
    BY <2>4, FS_EmptySet DEF IInv, ActiveMatchesSessions
  <2> QED
    BY <2>1, <2>2, <2>3, <2>5
<1> QED
  BY <1>1, InductiveInvariant, PTL

-----------------------------------------------------------------------------
(* The credentials cache. *)

\* No group ever finds another group's credentials in the cache.
THEOREM CredentialsAreOwn == Spec => []OwnCredentials
<1>1. Init => OwnCredentials
  BY DEF Init, OwnCredentials
<1>2. IInv /\ OwnCredentials /\ [Next]_vars => OwnCredentials'
  <2> SUFFICES ASSUME IInv, OwnCredentials, [Next]_vars,
                      NEW h \in Groups, CacheKey(h) \in credCache'
               PROVE  gpc'[h] \in {"spawn", "join", "done"}
    BY DEF OwnCredentials
  <2> USE DEF IInv, TypeOK, OwnCredentials, mainVars
  <2>1. CASE LaunchGroup
    <3>1. credCache' = credCache /\ launched \in Int
      BY <2>1 DEF LaunchGroup
    <3>2. CASE h = launched
      <4>1. h >= launched
        BY <3>1, <3>2
      <4>2. gpc[h] = "unborn"
        BY <4>1 DEF GroupShape
      <4>3. gpc[h] \in {"spawn", "join", "done"}
        BY <3>1
      <4> QED
        BY <4>2, <4>3
    <3>3. CASE h /= launched
      BY <2>1, <3>1, <3>3 DEF LaunchGroup
    <3> QED
      BY <3>2, <3>3
  <2>2. CASE FinishLaunch \/ SeeCancelled \/ JoinGroups \/ Stop \/ CtrlC
             \/ Pause \/ Resume \/ StopLine \/ EndOfInput \/ SaveConfig \/ Exited
             \/ UNCHANGED vars
    BY <2>2 DEF FinishLaunch, SeeCancelled, JoinGroups, Stop, CtrlC, Pause, Resume,
       StopLine, EndOfInput, SaveConfig, Exited, vars
  <2>3. ASSUME NEW g \in Groups, GroupStep(g)
        PROVE  gpc'[h] \in {"spawn", "join", "done"}
    <3>1. CASE GroupGetsCreds(g)
      <4>1. credCache' = credCache \cup {CacheKey(g)}
            /\ gpc' = [gpc EXCEPT ![g] = "spawn"]
        BY <3>1 DEF GroupGetsCreds, GroupAt
      <4>2. CacheKey(h) \in credCache \/ h = g
        BY <4>1, CacheKeyInjective
      <4> QED
        BY <4>1, <4>2
    <3>2. CASE ~GroupGetsCreds(g)
      BY <2>3, <3>2 DEF GroupStep, GroupAt, GroupGate, GroupPausedWake,
         GroupPausedCancelled, GroupNoCreds, GroupSpawn, GroupSpawned, GroupJoin
    <3> QED
      BY <3>1, <3>2
  <2>4. ASSUME NEW w \in Workers, WorkerStep(w) \/ SessionBreaks(w)
        PROVE  gpc'[h] \in {"spawn", "join", "done"}
    <3>1. credCache' \subseteq credCache
      BY <2>4 DEF WorkerStep, WorkerTop, WorkerGatePaused,
         WorkerAttempt, WorkerPausedWake, WorkerPausedCancelled, WorkerRetry,
         WorkerBackoffCancelled, WorkerFatal, SessionConnected,
         SessionNotConnected, GetconfAnswered, GetconfNoconf, GetconfDenied,
         GetconfFailed, SendConfig, SessionReady, Register, SessionBreaks,
         SessionLeaves, Unregister, SessionClosed, handleAuthError
    <3> QED
      BY <2>4, <3>1, WorkerMoves
  <2> QED
    BY <2>1, <2>2, <2>3, <2>4, StepCases
<1> QED
  BY <1>1, <1>2, InductiveInvariant, PTL DEF Spec

\* What leaves the cache leaves it through a refused session of its own group.
THEOREM EvictionIsOwn == Spec => EvictsOwnGroup
<1> DEFINE Own ==
      \A g \in Groups :
          CacheKey(g) \in credCache \ credCache' =>
             \E n \in Slots : /\ wpc[<<g, n>>] \in {"getconf", "loop"}
                              /\ wpc'[<<g, n>>] \in {"fatal", "leave"}
<1>1. TypeOK /\ [Next]_vars => Own
  <2> SUFFICES ASSUME TypeOK, [Next]_vars,
                      NEW g \in Groups, CacheKey(g) \in credCache \ credCache'
               PROVE  \E n \in Slots : /\ wpc[<<g, n>>] \in {"getconf", "loop"}
                                       /\ wpc'[<<g, n>>] \in {"fatal", "leave"}
    OBVIOUS
  <2>1. PICK w \in Workers : GetconfDenied(w) \/ SessionBreaks(w)
    <3>1. ~(UNCHANGED credCache)
      OBVIOUS
    <3>2. ~(LaunchGroup \/ FinishLaunch \/ SeeCancelled \/ JoinGroups \/ Stop
            \/ CtrlC \/ Pause \/ Resume \/ StopLine \/ EndOfInput \/ SaveConfig
            \/ Exited \/ UNCHANGED vars)
      BY <3>1 DEF LaunchGroup, FinishLaunch, SeeCancelled, JoinGroups, Stop, CtrlC,
         Pause, Resume, StopLine, EndOfInput, SaveConfig, Exited, vars
    <3>3. \A h \in Groups : ~GroupStep(h)
      BY <3>1 DEF GroupStep, GroupGate, GroupPausedWake, GroupPausedCancelled,
         GroupGetsCreds, GroupNoCreds, GroupSpawn, GroupSpawned, GroupJoin
    <3>4. PICK w \in Workers : WorkerStep(w) \/ SessionBreaks(w)
      BY <3>2, <3>3, StepCases
    <3>5. GetconfDenied(w) \/ SessionBreaks(w)
      BY <3>1, <3>4 DEF WorkerStep, WorkerTop, WorkerGatePaused,
         WorkerAttempt, WorkerPausedWake, WorkerPausedCancelled, WorkerRetry,
         WorkerBackoffCancelled, WorkerFatal, SessionConnected,
         SessionNotConnected, GetconfAnswered, GetconfNoconf, GetconfFailed,
         SendConfig, SessionReady, Register, SessionLeaves, Unregister, SessionClosed
    <3> QED
      BY <3>5
  <2>2. CacheKey(g) = CacheKey(w[1])
    BY <2>1 DEF GetconfDenied, SessionBreaks, handleAuthError
  <2>3. w[1] \in Groups /\ w[2] \in Slots /\ w = <<w[1], w[2]>>
    BY DEF Workers
  <2>4. w[1] = g
    BY <2>2, <2>3, CacheKeyInjective
  <2>5. wpc[w] \in {"getconf", "loop"} /\ wpc'[w] \in {"fatal", "leave"}
    BY <2>1 DEF GetconfDenied, SessionBreaks, WorkerAt, TypeOK
  <2> QED
    BY <2>3, <2>4, <2>5
<1>2. TypeOK /\ [Next]_vars => [Own]_vars
  BY <1>1
<1> QED
  BY <1>2, TypeCorrect, PTL DEF Spec, EvictsOwnGroup

-----------------------------------------------------------------------------
(* Refinement. *)

\* The client implements Lifecycle: it reports that it stopped only with every
\* session torn down, and no session appears after that.
THEOREM ClientKeepsLifecycle == Spec => LifecycleKept
<1> DEFINE Up == {w \in Workers : wpc[w] \in CountedPcs \cup RegisteredPcs}
<1> USE DEF CountedPcs, RegisteredPcs
<1>1. Init => Lifecycle!Init
  BY DEF Init, Lifecycle!Init
<1>2. IInv /\ [Next]_vars => [Lifecycle!Next]_(Lifecycle!vars)
  <2> SUFFICES ASSUME IInv, [Next]_vars
               PROVE  Lifecycle!Next \/ UNCHANGED Lifecycle!vars
    OBVIOUS
  <2> USE DEF IInv, TypeOK, Lifecycle!vars
  <2>1. CASE UNCHANGED <<wpc, cancelled, mainPc>>
    BY <2>1
  <2>2. CASE LaunchGroup \/ Pause \/ Resume \/ EndOfInput \/ SaveConfig \/ Exited
             \/ UNCHANGED vars
    <3>1. UNCHANGED <<wpc, cancelled, mainPc>>
      BY <2>2 DEF LaunchGroup, Pause, Resume, EndOfInput, SaveConfig, Exited, vars, mainVars
    <3> QED
      BY <2>1, <3>1
  <2>3. CASE FinishLaunch \/ SeeCancelled \/ JoinGroups
    BY <2>3 DEF FinishLaunch, SeeCancelled, JoinGroups
  <2>4. CASE CtrlC \/ StopLine
    <3>1. /\ mainPc /= "stopped" /\ mainPc' /= "stopped"
          /\ cancelled' = TRUE /\ wpc' = wpc
      BY <2>4 DEF CtrlC, StopLine, Running, mainVars
    <3>2. Lifecycle!AskToStop
      BY <3>1 DEF Lifecycle!AskToStop
    <3> QED
      BY <3>2 DEF Lifecycle!Next
  <2>5. CASE Stop
    <3>1. mainPc = "shutdown" /\ mainPc' = "stopped" /\ UNCHANGED <<wpc, cancelled>>
      BY <2>5 DEF Stop
    <3>2. cancelled /\ \A w \in Workers : wpc[w] \in {"unborn", "done"}
      BY <3>1 DEF MainShape, GroupShape, Workers
    <3>3. Up = {}
      BY <3>2
    <3>4. Lifecycle!ReportStopped
      BY <3>1, <3>2, <3>3 DEF Lifecycle!ReportStopped
    <3> QED
      BY <3>4 DEF Lifecycle!Next
  <2>6. ASSUME NEW g \in Groups, GroupStep(g)
        PROVE  Lifecycle!Next \/ UNCHANGED Lifecycle!vars
    <3>1. CASE GroupSpawn(g)
      <4>1. /\ spawned[g] \in Slots
            /\ wpc' = [wpc EXCEPT ![<<g, spawned[g]>>] = "top"]
            /\ UNCHANGED <<mainPc, cancelled>>
        BY <3>1, ClientAssumption DEF GroupSpawn, Slots, mainVars
      <4>2. wpc[<<g, spawned[g]>>] = "unborn" /\ <<g, spawned[g]>> \in Workers
        BY <4>1 DEF GroupShape, Workers, Slots
      <4>3. Up' = Up
        BY <4>1, <4>2
      <4> QED
        BY <4>1, <4>3
    <3>2. CASE ~GroupSpawn(g)
      BY <2>1, <2>6, <3>2 DEF GroupStep, GroupGate, GroupPausedWake, mainVars,
         GroupPausedCancelled, GroupGetsCreds, GroupNoCreds, GroupSpawned, GroupJoin
    <3> QED
      BY <3>1, <3>2
  <2>7. ASSUME NEW w \in Workers, WorkerStep(w) \/ SessionBreaks(w)
        PROVE  Lifecycle!Next \/ UNCHANGED Lifecycle!vars
    <3>1. mainPc /= "stopped" /\ mainPc' = mainPc
      BY <2>7, WorkerMoves DEF Running
    <3>2. CASE SessionReady(w)
      <4>1. w \notin Up /\ Up' = Up \cup {w} /\ cancelled' = cancelled
        BY <3>2 DEF SessionReady, WorkerAt
      <4>2. Lifecycle!Establish
        BY <3>1, <4>1 DEF Lifecycle!Establish
      <4> QED
        BY <4>2 DEF Lifecycle!Next
    <3>3. CASE Unregister(w)
      <4>1. w \in Up /\ Up' = Up \ {w} /\ cancelled' = cancelled
        BY <3>3 DEF Unregister, WorkerAt
      <4>2. Lifecycle!TearDown
        BY <3>1, <4>1 DEF Lifecycle!TearDown
      <4> QED
        BY <4>2 DEF Lifecycle!Next
    <3>4. CASE WorkerFatal(w)
      <4>1. Up' = Up /\ cancelled' = TRUE
        BY <3>4 DEF WorkerFatal, WorkerAt
      <4>2. Lifecycle!AskToStop
        BY <3>1, <4>1 DEF Lifecycle!AskToStop
      <4> QED
        BY <4>2 DEF Lifecycle!Next
    <3>5. CASE ~SessionReady(w) /\ ~Unregister(w) /\ ~WorkerFatal(w)
      <4>1. cancelled' = cancelled
        BY <2>7, <3>5 DEF WorkerStep, WorkerTop, WorkerGatePaused,
           WorkerAttempt, WorkerPausedWake, WorkerPausedCancelled, WorkerRetry,
           WorkerBackoffCancelled, SessionConnected, SessionNotConnected,
           GetconfAnswered, GetconfNoconf, GetconfDenied, GetconfFailed,
           SendConfig, Register, SessionBreaks, SessionLeaves, SessionClosed
      <4>2. \A v \in Workers : v \in Up' <=> v \in Up
        BY <2>7, <3>5, Z3 DEF WorkerStep, WorkerAt, WorkerTop, WorkerGatePaused,
           WorkerAttempt, WorkerPausedWake, WorkerPausedCancelled, WorkerRetry,
           WorkerBackoffCancelled, SessionConnected, SessionNotConnected,
           GetconfAnswered, GetconfNoconf, GetconfDenied, GetconfFailed,
           SendConfig, Register, SessionBreaks, SessionLeaves, SessionClosed
      <4>3. Up' = Up
        BY <4>2
      <4> QED
        BY <3>1, <4>1, <4>3
    <3> QED
      BY <3>2, <3>3, <3>4, <3>5
  <2> QED
    BY <2>2, <2>3, <2>4, <2>5, <2>6, <2>7, StepCases
<1> QED
  BY <1>1, <1>2, InductiveInvariant, PTL DEF Spec, LifecycleKept, Lifecycle!Spec

-----------------------------------------------------------------------------
(* The right to fetch the config. *)

\* Where the right can be: nowhere before group 0 has its credentials, then in
\* the flag of group 0, with one asking worker, or spent.
TokenPlace ==
    /\ \A g \in Groups : configOnce[g] => g = 0
    /\ \A w \in Workers : wpc[w] \in {"getconf", "sendcfg"} => wantConfig[w]
    /\ \A v, w \in Workers : Asking(v) /\ Asking(w) => v = w
    /\ \A w \in Workers : Asking(w) => ~configOnce[0] /\ configCh + saves = 0
    /\ configCh + saves <= 1
    /\ configCh + saves > 0 => ~configOnce[0]
    /\ gpc[0] \in {"unborn", "gate", "paused", "creds"} =>
          /\ ~configOnce[0] /\ configCh + saves = 0
          /\ \A w \in Workers : ~Asking(w)

LEMMA TokenPlaceInit == Init => TokenPlace
<1> SUFFICES ASSUME Init PROVE TokenPlace
  OBVIOUS
<1>1. \A w \in Workers : wpc[w] = "unborn" /\ ~Asking(w)
  BY DEF Init, Asking
<1>2. 0 \in Groups /\ configCh + saves = 0 /\ \A g \in Groups : ~configOnce[g]
  BY ClientAssumption DEF Init, Groups
<1> QED
  BY <1>1, <1>2 DEF TokenPlace

\* No step of main(), of a user or of a group but one moves the right.
LEMMA TokenKeptByGroups ==
    ASSUME TypeOK, TokenPlace, NEW g \in Groups, GroupStep(g)
    PROVE  TokenPlace'
<1> USE DEF TypeOK, GroupAt
<1>1. CASE GroupGetsCreds(g)
  <2>1. /\ UNCHANGED <<wpc, wantConfig, configCh, saves>>
        /\ configOnce' = [configOnce EXCEPT ![g] = (g = 0)]
        /\ gpc[g] = "creds" /\ gpc' = [gpc EXCEPT ![g] = "spawn"]
    BY <1>1 DEF GroupGetsCreds, configVars
  <2>2. CASE g = 0
    BY <2>1, <2>2 DEF TokenPlace, Asking
  <2>3. CASE g /= 0
    <3>1. configOnce'[0] = configOnce[0] /\ gpc'[0] = gpc[0]
      BY <2>1, <2>3
    <3>2. \A h \in Groups : configOnce'[h] => h = 0
      BY <2>1, <2>3 DEF TokenPlace
    <3> QED
      BY <2>1, <3>1, <3>2 DEF TokenPlace, Asking
  <2> QED
    BY <2>2, <2>3
<1>2. CASE GroupSpawn(g)
  <2>1. /\ UNCHANGED <<configOnce, wantConfig, configCh, saves>>
        /\ wpc' = [wpc EXCEPT ![<<g, spawned[g]>>] = "top"]
        /\ gpc' = gpc
    BY <1>2 DEF GroupSpawn, configVars
  <2>2. \A w \in Workers : wpc'[w] = wpc[w] \/ wpc'[w] = "top"
    BY <2>1
  <2>3. \A w \in Workers : Asking(w)' => Asking(w)
    BY <2>1, <2>2 DEF Asking
  <2> QED
    BY <2>1, <2>2, <2>3 DEF TokenPlace
<1>3. CASE ~GroupGetsCreds(g) /\ ~GroupSpawn(g)
  <2>1. /\ UNCHANGED <<configOnce, wantConfig, wpc, configCh, saves>>
        /\ gpc'[0] \in {"unborn", "gate", "paused", "creds"} =>
               gpc[0] \in {"unborn", "gate", "paused", "creds"}
    <3>1. UNCHANGED <<configOnce, wantConfig, wpc, configCh, saves>>
      BY <1>3 DEF GroupStep, GroupGate, GroupPausedWake, GroupPausedCancelled,
         GroupNoCreds, GroupSpawned, GroupJoin, configVars
    <3>2. PICK to \in GroupPcs :
             /\ gpc' = [gpc EXCEPT ![g] = to]
             /\ to \in {"unborn", "gate", "paused", "creds"} =>
                  gpc[g] \in {"unborn", "gate", "paused", "creds"}
      BY <1>3, SMT DEF GroupStep, GroupGate, GroupPausedWake, GroupPausedCancelled,
         GroupNoCreds, GroupSpawned, GroupJoin, GroupPcs
    <3>3. 0 \in Groups
      BY ClientAssumption DEF Groups
    <3> QED
      BY <3>1, <3>2, <3>3
  <2> QED
    BY <2>1 DEF TokenPlace, Asking
<1> QED
  BY <1>1, <1>2, <1>3

\* A worker takes the right from its group's flag, spends it, or loses it.
LEMMA TokenKeptByWorkers ==
    ASSUME TypeOK, TokenPlace, NEW w \in Workers, WorkerStep(w) \/ SessionBreaks(w)
    PROVE  TokenPlace'
<1> USE DEF TypeOK
<1>1. CASE WorkerAttempt(w)
  <2>1. /\ UNCHANGED <<gpc, configCh, saves>>
        /\ wpc' = [wpc EXCEPT ![w] = "connect"]
        /\ wantConfig' = [wantConfig EXCEPT ![w] = configOnce[w[1]]]
        /\ configOnce' = [configOnce EXCEPT ![w[1]] = FALSE]
    BY <1>1 DEF WorkerAttempt, WorkerAt, configVars
  <2>2. w[1] \in Groups /\ 0 \in Groups
    BY ClientAssumption DEF Workers, Groups
  <2>3. wantConfig'[w] => configOnce[0] /\ w[1] = 0
    BY <2>1, <2>2, Zenon DEF TokenPlace
  <2>4. \A v \in Workers : v /= w => wpc'[v] = wpc[v] /\ wantConfig'[v] = wantConfig[v]
    BY <2>1, Zenon
  <2>5. \A h \in Groups : configOnce'[h] => configOnce[h]
    BY <2>1, <2>2, Zenon
  <2>6. wantConfig'[w] => ~configOnce'[0]
    BY <2>1, <2>2, <2>3, Zenon
  <2>7. wpc'[w] = "connect"
    BY <2>1, Zenon
  <2>8. \A v \in Workers : v /= w => (Asking(v)' <=> Asking(v))
    BY <2>4, Zenon DEF Asking
  <2>9. Asking(w)' => configOnce[0]
    BY <2>3, Zenon DEF Asking
  <2>10. \A v \in Workers : wpc'[v] \in {"getconf", "sendcfg"} => wantConfig'[v]
    BY <2>4, <2>7 DEF TokenPlace
  <2>11. \A u, v \in Workers : Asking(u)' /\ Asking(v)' => u = v
    BY <2>8, <2>9, Zenon DEF TokenPlace
  <2>12. \A v \in Workers : Asking(v)' => ~configOnce'[0] /\ configCh' + saves' = 0
    <3> SUFFICES ASSUME NEW v \in Workers, Asking(v)'
                 PROVE  ~configOnce'[0] /\ configCh' + saves' = 0
      OBVIOUS
    <3>1. CASE v = w
      <4>1. configOnce[0] /\ ~configOnce'[0]
        BY <2>6, <2>9, <3>1, Zenon DEF Asking
      <4>2. configCh + saves = 0
        BY <4>1 DEF TokenPlace
      <4> QED
        BY <2>1, <4>1, <4>2
    <3>2. CASE v /= w
      BY <2>1, <2>2, <2>5, <2>8, <3>2 DEF TokenPlace
    <3> QED
      BY <3>1, <3>2
  <2> QED
    BY <2>1, <2>2, <2>5, <2>8, <2>9, <2>10, <2>11, <2>12 DEF TokenPlace
<1>2. CASE SendConfig(w)
  <2>1. /\ UNCHANGED <<gpc, configOnce, wantConfig, saves>>
        /\ wpc[w] = "sendcfg" /\ wpc' = [wpc EXCEPT ![w] = "ready"]
        /\ configCh' = configCh + 1
    BY <1>2 DEF SendConfig, WorkerAt
  <2>2. Asking(w) /\ ~Asking(w)' /\ wpc'[w] = "ready"
    BY <2>1 DEF TokenPlace, Asking
  <2>3. \A v \in Workers : v /= w => wpc'[v] = wpc[v] /\ (Asking(v)' <=> Asking(v))
    BY <2>1 DEF Asking
  <2>4. configCh + saves = 0 /\ ~configOnce[0] /\ \A v \in Workers : ~Asking(v)'
    BY <2>2, <2>3 DEF TokenPlace
  <2>5. configCh' + saves' = 1
    BY <2>1, <2>4
  <2> QED
    BY <2>1, <2>2, <2>3, <2>4, <2>5 DEF TokenPlace
<1>3. CASE ~WorkerAttempt(w) /\ ~SendConfig(w)
  <2>1. UNCHANGED <<gpc, configOnce, wantConfig, configCh, saves>>
    BY <1>3 DEF WorkerStep, WorkerTop, WorkerGatePaused, WorkerPausedWake,
       WorkerPausedCancelled, WorkerRetry, WorkerBackoffCancelled, WorkerFatal,
       SessionConnected, SessionNotConnected, GetconfAnswered, GetconfNoconf,
       GetconfDenied, GetconfFailed, SessionReady, Register, SessionBreaks,
       SessionLeaves, Unregister, SessionClosed, configVars
  <2>2. \E from, to \in WorkerPcs :
           /\ wpc[w] = from /\ wpc' = [wpc EXCEPT ![w] = to]
           /\ to \in {"getconf", "sendcfg"} => wantConfig[w]
           /\ to \in {"connect", "getconf", "sendcfg"} =>
                 from \in {"connect", "getconf", "sendcfg"}
    BY <1>3, SMT DEF TokenPlace, WorkerPcs, WorkerAt, WorkerStep, WorkerTop,
       WorkerGatePaused, WorkerPausedWake, WorkerPausedCancelled, WorkerRetry,
       WorkerBackoffCancelled, WorkerFatal, SessionConnected, SessionNotConnected,
       GetconfAnswered, GetconfNoconf, GetconfDenied, GetconfFailed, SessionReady,
       Register, SessionBreaks, SessionLeaves, Unregister, SessionClosed
  <2>3. \A v \in Workers : Asking(v)' => Asking(v)
    BY <2>1, <2>2 DEF Asking
  <2>4. \A v \in Workers : wpc'[v] \in {"getconf", "sendcfg"} => wantConfig'[v]
    BY <2>1, <2>2 DEF TokenPlace
  <2> QED
    BY <2>1, <2>3, <2>4 DEF TokenPlace
<1> QED
  BY <1>1, <1>2, <1>3

\* What TokenPlace says is in one place, counted.
LEMMA OneTokenCounts == TypeOK /\ TokenPlace => ConfigAskedOnce
<1> SUFFICES ASSUME TypeOK, TokenPlace PROVE ConfigAskedOnce
  OBVIOUS
<1> DEFINE F == {g \in Groups : configOnce[g]}
           A == {w \in Workers : Asking(w)}
<1>1. 0 \in Groups /\ configCh \in Nat /\ saves \in Nat
  BY ClientAssumption DEF Groups, TypeOK
<1>2. F = IF configOnce[0] THEN {0} ELSE {}
  BY <1>1 DEF TokenPlace
<1>3. Cardinality(F) = IF configOnce[0] THEN 1 ELSE 0
  BY <1>2, FS_EmptySet, FS_Singleton
<1>4. A = {} \/ \E w \in Workers : A = {w}
  <2> SUFFICES ASSUME NEW w \in A PROVE A = {w}
    OBVIOUS
  <2>1. ASSUME NEW v \in A PROVE v = w
    <3>1. v \in Workers /\ w \in Workers /\ Asking(v) /\ Asking(w)
      OBVIOUS
    <3> QED
      BY <3>1, Zenon DEF TokenPlace
  <2> QED
    BY <2>1
<1>5. CASE A = {}
  <2>1. Cardinality(A) = 0
    BY <1>5, FS_EmptySet
  <2> QED
    BY <1>1, <1>3, <2>1 DEF TokenPlace, ConfigAskedOnce
<1>6. ASSUME NEW w \in Workers, A = {w}
      PROVE  ConfigAskedOnce
  <2>1. Cardinality(A) = 1
    BY <1>6, FS_Singleton
  <2>2. Asking(w)
    BY <1>6
  <2>3. ~configOnce[0] /\ configCh + saves = 0
    BY <2>2 DEF TokenPlace
  <2> QED
    BY <1>1, <1>3, <2>1, <2>3 DEF TokenPlace, ConfigAskedOnce, TypeOK
<1> QED
  BY <1>4, <1>5, <1>6

\* However many groups and workers retry, the right to fetch the config is in one
\* place at most: it is not held by two workers, nor by one while a config is there.
THEOREM ConfigIsAskedOnce == Spec => []ConfigAskedOnce
<1>1. IInv /\ TokenPlace /\ [Next]_vars => TokenPlace'
  <2> SUFFICES ASSUME TypeOK, GroupShape, TokenPlace, [Next]_vars PROVE TokenPlace'
    BY DEF IInv
  <2>1. CASE LaunchGroup
    <3>1. /\ UNCHANGED <<wpc, configOnce, wantConfig, configCh, saves>>
          /\ gpc' = [gpc EXCEPT ![launched] = "gate"] /\ launched \in 0 .. NumGroups
      BY <2>1 DEF LaunchGroup, configVars, TypeOK
    <3>2. 0 \in Groups /\ (launched = 0 => gpc[0] = "unborn")
      BY ClientAssumption DEF GroupShape, Groups
    <3>3. gpc'[0] \in {"unborn", "gate", "paused", "creds"} =>
             gpc[0] \in {"unborn", "gate", "paused", "creds"}
      BY <3>1, <3>2 DEF TypeOK
    <3> QED
      BY <3>1, <3>3 DEF TokenPlace, Asking
  <2>2. CASE SaveConfig
    <3>1. /\ UNCHANGED <<gpc, wpc, configOnce, wantConfig>>
          /\ configCh' + saves' = configCh + saves
      BY <2>2 DEF SaveConfig, TypeOK
    <3> QED
      BY <3>1 DEF TokenPlace, Asking
  <2>3. CASE \/ FinishLaunch \/ SeeCancelled \/ JoinGroups \/ Stop \/ CtrlC
             \/ Pause \/ Resume \/ StopLine \/ EndOfInput \/ Exited \/ UNCHANGED vars
    <3>1. UNCHANGED <<gpc, wpc, configOnce, wantConfig, configCh, saves>>
      BY <2>3 DEF FinishLaunch, SeeCancelled, JoinGroups, Stop, CtrlC, Pause, Resume,
         StopLine, EndOfInput, Exited, vars, configVars
    <3> QED
      BY <3>1 DEF TokenPlace, Asking
  <2> QED
    BY <2>1, <2>2, <2>3, StepCases, TokenKeptByGroups, TokenKeptByWorkers
<1> QED
  BY <1>1, TokenPlaceInit, OneTokenCounts, InductiveInvariant, PTL DEF Spec, IInv

=============================================================================
