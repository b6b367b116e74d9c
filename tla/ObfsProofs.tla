----------------------------- MODULE ObfsProofs -----------------------------
(***************************************************************************)
(* What holds of Obfs for every value of the constants that the            *)
(* assumptions of Obfs allow, those of the code among them.                *)
(***************************************************************************)
EXTENDS Obfs, TLAPS

LEMMA DivMod ==
    ASSUME NEW m \in Nat \ {0}, NEW x \in Int
    PROVE  /\ x = m * (x \div m) + (x % m)
           /\ x \div m \in Int
           /\ x % m \in 0 .. m - 1
  OBVIOUS

\* Numbers that agree modulo m differ by a multiple of m.
LEMMA EqualMod ==
    ASSUME NEW m \in Nat \ {0}, NEW x \in Int, NEW y \in Int, x % m = y % m
    PROVE  \E k \in Int : x - y = m * k
<1>1. x = m * (x \div m) + (x % m) /\ y = m * (y \div m) + (y % m)
  BY DivMod
<1>2. x \div m \in Int /\ y \div m \in Int /\ x % m \in Int
  BY DivMod
<1>3. ASSUME NEW p \in Int, NEW q \in Int, NEW r \in Int, x = m * p + r, y = m * q + r
      PROVE  \E k \in Int : x - y = m * k
  <2>1. x - y = m * (p - q) /\ p - q \in Int
    BY <1>3
  <2> QED BY <2>1
<1> QED BY <1>1, <1>2, <1>3

\* A multiple of m that is smaller than m is zero.
LEMMA SmallMultiple ==
    ASSUME NEW m \in Nat \ {0}, NEW k \in Int, m * k < m, -m < m * k
    PROVE  k = 0
<1>1. CASE k >= 1
  <2>1. m * k >= m
    BY <1>1
  <2> QED BY <2>1
<1>2. CASE k <= -1
  <2>1. m * k <= -m
    BY <1>2
  <2> QED BY <2>1
<1> QED BY <1>1, <1>2

\* A number with an inverse modulo m has no multiple divisible by m but those of m.
LEMMA Cancel ==
    ASSUME NEW m \in Nat \ {0}, NEW a \in Int, NEW inv \in Int, NEW j \in Int,
           NEW e \in Int, NEW k \in Int,
           inv * a = 1 + m * j, e * a = m * k
    PROVE  e = m * (inv * k - e * j)
<1>1. e * (inv * a) = inv * (e * a)
  OBVIOUS
<1>2. e * (1 + m * j) = inv * (m * k)
  BY <1>1
<1>3. e * (1 + m * j) = e + m * (e * j)
  OBVIOUS
<1>4. inv * (m * k) = m * (inv * k)
  OBVIOUS
<1>5. m * (inv * k - e * j) = m * (inv * k) - m * (e * j)
  OBVIOUS
<1> QED BY <1>2, <1>3, <1>4, <1>5

\* Two counters of one session that agree on the nonce are the same.
LEMMA NonceInjective ==
    ASSUME initSeq \in Int, initTs \in Int,
           NEW c \in 0 .. MaxPackets - 1, NEW d \in 0 .. MaxPackets - 1,
           NonceOf(c) = NonceOf(d)
    PROVE  c = d
<1> DEFINE ca == c % SeqMod
           cb == c \div SeqMod
           da == d % SeqMod
           db == d \div SeqMod
           a  == TsStep * SeqMod + 1
           e  == cb - db
<1>0. SeqMod \in Nat \ {0} /\ TsMod \in Nat \ {0} /\ TsStep \in Nat /\ MaxPackets \in Nat
      /\ MaxPackets <= SeqMod * TsMod /\ c \in Int /\ d \in Int
  BY ObfsAssumption, NonceAssumption
<1>1. /\ ca \in 0 .. SeqMod - 1 /\ cb \in Int /\ c = SeqMod * cb + ca
      /\ da \in 0 .. SeqMod - 1 /\ db \in Int /\ d = SeqMod * db + da
  BY <1>0, DivMod
<1>2. (initSeq + c) % SeqMod = (initSeq + d) % SeqMod
      /\ (initTs + c * TsStep + cb) % TsMod = (initTs + d * TsStep + db) % TsMod
  BY DEF NonceOf, Seqno, Timestamp
<1> HIDE DEF ca, cb, da, db
<1>3. ca = da
  <2>1. PICK k \in Int : (initSeq + c) - (initSeq + d) = SeqMod * k
    <3>1. initSeq + c \in Int /\ initSeq + d \in Int
      BY <1>0
    <3> QED BY <1>0, <1>2, <3>1, EqualMod
  <2>2. c - d = SeqMod * k
    BY <2>1, <1>0
  <2>3. (SeqMod * cb + ca) - (SeqMod * db + da) = SeqMod * (cb - db) + (ca - da)
    BY <1>0, <1>1
  <2>4. SeqMod * (k - (cb - db)) = SeqMod * k - SeqMod * (cb - db)
    BY <1>0, <1>1
  <2>5. ca - da = SeqMod * (k - (cb - db))
    BY <1>0, <1>1, <2>2, <2>3, <2>4
  <2>6. ca - da < SeqMod /\ -SeqMod < ca - da
    BY <1>0, <1>1
  <2>7. k - (cb - db) \in Int
    BY <1>1
  <2>8. k - (cb - db) = 0
    BY <1>0, <2>5, <2>6, <2>7, SmallMultiple
  <2> QED BY <1>0, <1>1, <2>5, <2>8
<1>4. \E k \in Int : e * a = TsMod * k
  <2>1. PICK k \in Int :
          (initTs + c * TsStep + cb) - (initTs + d * TsStep + db) = TsMod * k
    <3>1. initTs + c * TsStep + cb \in Int /\ initTs + d * TsStep + db \in Int
      BY <1>0, <1>1
    <3> QED BY <1>0, <1>2, <3>1, EqualMod
  <2>2. c * TsStep = SeqMod * cb * TsStep + ca * TsStep
        /\ d * TsStep = SeqMod * db * TsStep + ca * TsStep
    BY <1>0, <1>1, <1>3
  <2>3. e * a = (SeqMod * cb * TsStep + cb) - (SeqMod * db * TsStep + db)
    BY <1>0, <1>1
  <2>4. (initTs + (SeqMod * cb * TsStep + ca * TsStep) + cb)
          - (initTs + (SeqMod * db * TsStep + ca * TsStep) + db)
        = (SeqMod * cb * TsStep + cb) - (SeqMod * db * TsStep + db)
    BY <1>0, <1>1
  <2> QED BY <2>1, <2>2, <2>3, <2>4
<1>5. e < TsMod /\ -TsMod < e
  <2>1. \A x \in Int : x < SeqMod * TsMod /\ x >= 0 =>
           x \div SeqMod >= 0 /\ x \div SeqMod < TsMod
    <3> SUFFICES ASSUME NEW x \in Int, x < SeqMod * TsMod, x >= 0
                 PROVE  x \div SeqMod >= 0 /\ x \div SeqMod < TsMod
      OBVIOUS
    <3>1. PICK q \in Int, r \in 0 .. SeqMod - 1 :
             x = SeqMod * q + r /\ q = x \div SeqMod
      BY <1>0, DivMod
    <3>2. q >= 0
      <4>1. ASSUME q <= -1 PROVE SeqMod * q <= -SeqMod
        BY <1>0, <4>1
      <4> QED BY <1>0, <3>1, <4>1
    <3>3. q < TsMod
      <4>1. ASSUME q >= TsMod PROVE SeqMod * q >= SeqMod * TsMod
        <5>1. SeqMod * q = SeqMod * TsMod + SeqMod * (q - TsMod)
          BY <1>0
        <5>2. SeqMod * (q - TsMod) >= 0
          BY <1>0, <4>1
        <5> QED BY <1>0, <5>1, <5>2
      <4> QED BY <1>0, <3>1, <4>1
    <3> QED BY <3>1, <3>2, <3>3
  <2>2. c < SeqMod * TsMod /\ d < SeqMod * TsMod /\ SeqMod * TsMod \in Int
    BY <1>0
  <2>3. cb >= 0 /\ cb < TsMod /\ db >= 0 /\ db < TsMod
    BY <1>0, <2>1, <2>2 DEF cb, db
  <2> QED BY <1>0, <1>1, <2>3
<1>6. e = 0
  <2>1. PICK inv \in 0 .. TsMod - 1 : (inv * a) % TsMod = 1
    BY NonceAssumption
  <2>2. inv \in Int /\ a \in Int /\ inv * a \in Int
    BY <1>0, <2>1
  <2>3. \E j \in Int : inv * a = 1 + TsMod * j
    <3>1. inv * a = TsMod * ((inv * a) \div TsMod) + ((inv * a) % TsMod)
          /\ (inv * a) \div TsMod \in Int
      BY <1>0, <2>2, DivMod
    <3>2. inv * a = 1 + TsMod * ((inv * a) \div TsMod)
      <4>1. TsMod * ((inv * a) \div TsMod) \in Int
        BY <1>0, <3>1
      <4> HIDE DEF a
      <4> QED BY <2>1, <2>2, <3>1, <4>1
    <3> HIDE DEF a
    <3> QED BY <3>1, <3>2
  <2>4. PICK j \in Int : inv * a = 1 + TsMod * j
    BY <2>3
  <2>5. PICK k \in Int : e * a = TsMod * k
    BY <1>4
  <2>6. e \in Int
    BY <1>1
  <2> HIDE DEF a, e
  <2>7. e = TsMod * (inv * k - e * j)
    BY <1>0, <2>2, <2>4, <2>5, <2>6, Cancel
  <2>8. inv * k - e * j \in Int
    BY <2>2, <2>6
  <2>9. inv * k - e * j = 0
    BY <1>0, <1>5, <2>7, <2>8, SmallMultiple
  <2> QED BY <1>0, <2>7, <2>9
<1>7. cb = db
  BY <1>1, <1>6
<1> QED BY <1>1, <1>3, <1>7

-----------------------------------------------------------------------------
(* The counters behind the nonces. *)

\* A counter that a task holds was handed out and to nobody else; every nonce
\* used so far is that of a counter that was handed out and is held no more.
Counters ==
    /\ \A t \in Senders : holding[t] < count
    /\ \A t, u \in Senders : holding[t] = holding[u] /\ holding[t] /= Free => t = u
    /\ \A n \in used : \E c \in 0 .. count - 1 :
          n = NonceOf(c) /\ \A t \in Senders : holding[t] /= c

\* Whatever is on the wire was made by obfsWrapPacket.
WireIsWrapped ==
    wire /= Nothing =>
        \E size \in Sizes, pad \in 1 .. PaddingMax : wire = Wrap(size, pad)

IInv == TypeOK /\ Counters /\ NoNonceReuse /\ WireIsWrapped /\ RoundTrip

LEMMA WrapIsWire ==
    ASSUME NEW size \in Sizes, NEW pad \in 1 .. PaddingMax
    PROVE  /\ Wrap(size, pad) \in Wires
           /\ Wrap(size, pad) /= Nothing
           /\ Wrap(size, pad).last = pad
           /\ Wrap(size, pad).len = HeaderLen + size + TagLen + pad
           /\ Wrap(size, pad).sealed = size + TagLen
           /\ Wrap(size, pad).size = size
<1>1. size \in Nat /\ size >= 1 /\ pad \in 1 .. 255
  BY ObfsAssumption
<1>2. pad % 256 = pad
  BY <1>1
<1>3. HeaderLen + size + TagLen + pad > 0
  BY <1>1 DEF HeaderLen, TagLen
<1> QED BY <1>1, <1>2, <1>3 DEF Wrap, Wires, Nothing, HeaderLen, TagLen

LEMMA NonceInRange ==
    ASSUME TypeOK, NEW c \in Int
    PROVE  NonceOf(c) \in (0 .. SeqMod - 1) \X (0 .. TsMod - 1)
<1>1. initSeq \in Int /\ initTs \in Int /\ SeqMod \in Nat \ {0} /\ TsMod \in Nat \ {0}
      /\ TsStep \in Nat
  BY ObfsAssumption DEF TypeOK
<1>2. (initSeq + c) % SeqMod \in 0 .. SeqMod - 1
  BY <1>1, DivMod
<1>3. initTs + c * TsStep + c \div SeqMod \in Int
  BY <1>1, DivMod
<1>4. (initTs + c * TsStep + c \div SeqMod) % TsMod \in 0 .. TsMod - 1
  BY <1>1, <1>3, DivMod
<1> QED BY <1>2, <1>4 DEF NonceOf, Seqno, Timestamp

LEMMA Starts == Init => IInv
<1> SUFFICES ASSUME Init PROVE IInv
  OBVIOUS
<1>1. TypeOK
  <2>1. holding \in [Senders -> {Free} \cup 0 .. MaxPackets - 1]
    BY DEF Init
  <2>2. 0 \in 0 .. MaxPackets
    BY ObfsAssumption
  <2> QED BY <2>1, <2>2 DEF Init, TypeOK
<1>2. Counters
  BY DEF Init, Counters, Free
<1> QED BY <1>1, <1>2 DEF Init, IInv, NoNonceReuse, WireIsWrapped, RoundTrip

LEMMA TakeKeeps ==
    ASSUME IInv, NEW t \in Senders, Take(t) PROVE IInv'
<1> USE DEF IInv, Take, Free
<1>0. count \in Nat /\ MaxPackets \in Nat
  BY ObfsAssumption DEF TypeOK
<1>1. TypeOK'
  BY <1>0 DEF TypeOK
<1>2. Counters'
  <2>1. \A u \in Senders : holding'[u] = IF u = t THEN count ELSE holding[u]
    BY DEF TypeOK
  <2>2. \A u \in Senders : holding[u] \in Int /\ holding[u] < count
    BY DEF TypeOK, Counters
  <2>3. \A u \in Senders : holding'[u] < count'
    BY <1>0, <2>1, <2>2
  <2>4. \A u, v \in Senders :
           holding'[u] = holding'[v] /\ holding'[u] /= Free => u = v
    BY <1>0, <2>1, <2>2 DEF Counters
  <2>5. ASSUME NEW n \in used'
        PROVE  \E c \in 0 .. count' - 1 :
                  n = NonceOf(c)' /\ \A u \in Senders : holding'[u] /= c
    <3>1. PICK c \in 0 .. count - 1 :
              n = NonceOf(c) /\ \A u \in Senders : holding[u] /= c
      BY DEF Counters
    <3>2. c \in 0 .. count' - 1 /\ c /= count
      BY <1>0
    <3>3. NonceOf(c)' = NonceOf(c)
      BY DEF NonceOf, Seqno, Timestamp
    <3> QED BY <2>1, <3>1, <3>2, <3>3
  <2> QED BY <2>3, <2>4, <2>5 DEF Counters
<1> QED BY <1>1, <1>2 DEF NoNonceReuse, WireIsWrapped, RoundTrip

LEMMA SendKeeps ==
    ASSUME IInv, NEW t \in Senders, Send(t) PROVE IInv'
<1> DEFINE c == holding[t]
<1>0. /\ c \in 0 .. count - 1 /\ count \in 0 .. MaxPackets /\ MaxPackets \in Nat
      /\ c \in 0 .. MaxPackets - 1
      /\ initSeq \in Int /\ initTs \in Int
  BY ObfsAssumption DEF IInv, TypeOK, Counters, Send, Free
<1>1. \A u \in Senders : holding'[u] = IF u = t THEN Free ELSE holding[u]
  BY DEF IInv, TypeOK, Send
<1>2. PICK size \in Sizes, pad \in 1 .. PaddingMax : wire' = Wrap(size, pad)
  BY DEF Send
<1>3. TypeOK'
  <2>1. NonceOf(c) \in (0 .. SeqMod - 1) \X (0 .. TsMod - 1)
    BY <1>0, NonceInRange DEF IInv
  <2>2. wire' \in Wires
    BY <1>2, WrapIsWire
  <2> QED BY <2>1, <2>2 DEF IInv, TypeOK, Send
<1>4. \A x : NonceOf(x)' = NonceOf(x)
  BY DEF NonceOf, Seqno, Timestamp, Send
<1>5. Counters'
  <2>1. \A u \in Senders : holding'[u] < count'
    BY <1>0, <1>1 DEF IInv, Counters, Send, Free
  <2>2. \A u, v \in Senders :
           holding'[u] = holding'[v] /\ holding'[u] /= Free => u = v
    BY <1>1 DEF IInv, Counters
  <2>3. ASSUME NEW n \in used'
        PROVE  \E x \in 0 .. count' - 1 :
                  n = NonceOf(x)' /\ \A u \in Senders : holding'[u] /= x
    <3>1. CASE n = NonceOf(c)
      <4>1. \A u \in Senders : holding'[u] /= c
        BY <1>0, <1>1 DEF IInv, Counters, Free
      <4> QED BY <1>0, <1>4, <3>1, <4>1 DEF Send
    <3>2. CASE n \in used
      <4>1. PICK x \in 0 .. count - 1 :
                n = NonceOf(x) /\ \A u \in Senders : holding[u] /= x
        BY <3>2 DEF IInv, Counters
      <4>2. \A u \in Senders : holding'[u] /= x
        BY <1>1, <4>1 DEF Free
      <4> QED BY <1>4, <4>1, <4>2 DEF Send
    <3> QED BY <3>1, <3>2 DEF Send
  <2> QED BY <2>1, <2>2, <2>3 DEF Counters
<1>6. NoNonceReuse'
  <2>1. NonceOf(c) \notin used
    <3> SUFFICES ASSUME NonceOf(c) \in used PROVE FALSE
      OBVIOUS
    <3>1. PICK x \in 0 .. count - 1 :
              NonceOf(c) = NonceOf(x) /\ \A u \in Senders : holding[u] /= x
      BY DEF IInv, Counters
    <3>2. x \in 0 .. MaxPackets - 1
      BY <1>0
    <3>3. c = x
      BY <1>0, <3>1, <3>2, NonceInjective
    <3> QED BY <3>1, <3>3
  <2> QED BY <2>1 DEF IInv, NoNonceReuse, Send
<1>7. WireIsWrapped'
  BY <1>2 DEF WireIsWrapped, Wrap
<1>8. RoundTrip'
  BY DEF IInv, RoundTrip, Send
<1> QED BY <1>3, <1>5, <1>6, <1>7, <1>8 DEF IInv

LEMMA ReceiveKeeps ==
    ASSUME IInv, Receive PROVE IInv'
<1>1. PICK size \in Sizes, pad \in 1 .. PaddingMax : wire = Wrap(size, pad)
  BY DEF IInv, WireIsWrapped, Receive
<1>2. /\ size \in Nat /\ size >= 1 /\ pad \in Nat /\ pad >= 1 /\ RecvBuf \in Nat
      /\ wire.last = pad /\ wire.size = size
      /\ wire.len = 28 + size + pad /\ wire.sealed = size + 16
  BY <1>1, ObfsAssumption, WrapIsWire DEF HeaderLen, TagLen
<1> DEFINE cut == wire.len > RecvBuf
           len == IF cut THEN RecvBuf ELSE wire.len
<1>3. PICK last \in IF cut THEN 0 .. 255 ELSE {wire.last} :
         fate' = [len |-> wire.len, size |-> wire.size,
                  got |-> IF Opens(len, last) THEN len - last - HeaderLen - TagLen
                          ELSE Dropped]
  BY DEF Receive
<1>4. last \in Int /\ len \in Int
  BY <1>2, <1>3
<1>5. fate'.len = wire.len /\ fate'.size = size
      /\ fate'.got = (IF Opens(len, last) THEN len - last - HeaderLen - TagLen ELSE Dropped)
  BY <1>2, <1>3
<1>6. Opens(len, last) => len - last - HeaderLen - TagLen = size
  BY <1>2, <1>4 DEF Opens, HeaderLen, TagLen
<1>7. ~cut => Opens(len, last)
  BY <1>2, <1>3 DEF Opens, HeaderLen
<1>8. RoundTrip'
  BY <1>2, <1>5, <1>6, <1>7 DEF RoundTrip
<1>9. fate' \in Fates
  BY <1>2, <1>3, <1>4 DEF Fates, Dropped, HeaderLen, TagLen
<1>10. TypeOK'
  BY <1>9 DEF IInv, TypeOK, Receive, sendVars
<1>11. Counters'
  BY DEF IInv, Counters, Receive, sendVars, NonceOf, Seqno, Timestamp
<1> QED BY <1>8, <1>10, <1>11 DEF IInv, NoNonceReuse, WireIsWrapped, Receive, sendVars

LEMMA NewSessionKeeps ==
    ASSUME NewSession PROVE IInv'
<1>1. TypeOK'
  <2>1. holding' \in [Senders -> {Free} \cup 0 .. MaxPackets - 1]
    BY DEF NewSession
  <2>2. 0 \in 0 .. MaxPackets
    BY ObfsAssumption
  <2> QED BY <2>1, <2>2 DEF NewSession, TypeOK
<1>2. Counters'
  BY DEF NewSession, Counters, Free
<1> QED BY <1>1, <1>2 DEF NewSession, IInv, NoNonceReuse, WireIsWrapped, RoundTrip

\* The invariant under which the counters of a session are handed out once.
LEMMA InductiveInvariant == Spec => []IInv
<1>1. Init => IInv
  BY Starts
<1>2. IInv /\ [Next]_vars => IInv'
  <2> SUFFICES ASSUME IInv, [Next]_vars PROVE IInv'
    OBVIOUS
  <2>1. ASSUME NEW t \in Senders, Take(t) PROVE IInv'
    BY <2>1, TakeKeeps
  <2>2. ASSUME NEW t \in Senders, Send(t) PROVE IInv'
    BY <2>2, SendKeeps
  <2>3. CASE Receive
    BY <2>3, ReceiveKeeps
  <2>4. CASE NewSession
    BY <2>4, NewSessionKeeps
  <2>5. CASE UNCHANGED vars
    BY <2>5 DEF vars, sendVars, IInv, TypeOK, Counters, NoNonceReuse, WireIsWrapped,
                RoundTrip, NonceOf, Seqno, Timestamp
  <2> QED BY <2>1, <2>2, <2>3, <2>4, <2>5 DEF Next
<1> QED BY <1>1, <1>2, PTL DEF Spec

\* No nonce is used twice in a session, for every number of senders and every
\* width of seq and ts for which NonceAssumption holds, those of the code included.
THEOREM NoncesAreFresh == Spec => []NoNonceReuse
<1>1. IInv => NoNonceReuse
  BY DEF IInv
<1> QED BY <1>1, InductiveInvariant, PTL

\* A packet that fits the receive buffer is delivered with the size it was sent
\* with; no other size is ever delivered. For every padding up to 255.
THEOREM PacketsAreWhole == Spec => []RoundTrip
<1>1. IInv => RoundTrip
  BY DEF IInv
<1> QED BY <1>1, InductiveInvariant, PTL

\* The counter a task holds is one below the bound, and what is on the wire and
\* delivered has the shape the unwrapping relies on.
THEOREM TypeCorrect == Spec => []TypeOK
  BY InductiveInvariant, PTL DEF IInv

=============================================================================
