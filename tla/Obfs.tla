-------------------------------- MODULE Obfs --------------------------------
(***************************************************************************)
(* The packet wrapper between DTLS and the TURN relay: RelayDtlsConn with  *)
(* a key, obfsWrapPacket and obfsUnwrapPacket. The tasks of one session    *)
(* (its select loop and the DTLS connection's own) send through one        *)
(* ObfsState. A packet is sealed with a nonce made of the sequence number  *)
(* and the timestamp of a fake RTP header, both computed from one counter  *)
(* with wrap-around; then a random padding is appended whose last byte is  *)
(* its length. The receiver is the same code at the other end.             *)
(***************************************************************************)
EXTENDS Integers

CONSTANTS
    Senders,     \* tasks that send through the connection
    SeqMod,      \* 2^16, the range of seq
    TsMod,       \* 2^32, the range of ts
    TsStep,      \* 960
    InitSeqs,    \* the random initSeq is one of these
    InitTss,     \* the random initTs is one of these
    PaddingMax,  \* cfg.PaddingMax (24, or 60 for video)
    RecvBuf,     \* READ_BUF_SIZE + 80 (1680)
    Sizes,       \* sizes of the packets that DTLS sends
    MaxPackets   \* bound: packets sent in one session

ASSUME ObfsAssumption ==
    /\ SeqMod \in Nat \ {0} /\ TsMod \in Nat \ {0} /\ TsStep \in Nat
    /\ InitSeqs \subseteq 0 .. SeqMod - 1
    /\ InitTss \subseteq 0 .. TsMod - 1
    /\ PaddingMax \in 1 .. 255
    /\ RecvBuf \in Nat
    /\ Sizes \subseteq Nat \ {0}
    /\ MaxPackets \in Nat

\* The arithmetic of the nonce: 960 * 2^16 + 1 is odd, so it has an inverse modulo
\* 2^32; and a session sends at most 2^48 packets.
ASSUME NonceAssumption ==
    /\ \E inv \in 0 .. TsMod - 1 : (inv * (TsStep * SeqMod + 1)) % TsMod = 1
    /\ MaxPackets <= SeqMod * TsMod

HeaderLen == 12
TagLen    == 16

VARIABLES
    initSeq, initTs,  \* ObfsState
    count,            \* ObfsState.count
    holding,          \* holding[t]: the counter t took and has not used, or Free
    used,             \* nonces this session's packets were sealed with
    reused,           \* some nonce was used twice
    wire,             \* the packet the network carries, or Nothing
    fate              \* what became of the packet received last, or Nothing

sendVars == <<initSeq, initTs, count, holding, used, reused>>
vars == <<sendVars, wire, fate>>

Free    == -1
Dropped == -1
Nothing == [len |-> 0]

Wires == [size : Sizes, len : Nat, last : 0 .. 255, sealed : Nat]
Fates == [len : Nat, size : Sizes, got : Int]

TypeOK ==
    /\ initSeq \in InitSeqs /\ initTs \in InitTss
    /\ count \in 0 .. MaxPackets
    /\ holding \in [Senders -> {Free} \cup 0 .. MaxPackets - 1]
    /\ used \subseteq (0 .. SeqMod - 1) \X (0 .. TsMod - 1)
    /\ reused \in BOOLEAN
    /\ wire \in Wires \cup {Nothing} /\ fate \in Fates \cup {Nothing}

Init ==
    /\ initSeq \in InitSeqs /\ initTs \in InitTss
    /\ count = 0
    /\ holding = [t \in Senders |-> Free]
    /\ used = {} /\ reused = FALSE
    /\ wire = Nothing /\ fate = Nothing

-----------------------------------------------------------------------------
(* obfsWrapPacket *)

\* seq = initSeq + c as u16, wrapping.
Seqno(c) == (initSeq + c) % SeqMod

\* Fault: the carry of the sequence number is left out.
Timestamp_NoCarry(c) == (initTs + c * TsStep) % TsMod

\* ts = initTs + (c as u32) * 960 + (c >> 16) as u32, wrapping.
Timestamp(c) == (initTs + c * TsStep + c \div SeqMod) % TsMod

\* obfsBuildNonce; the SSRC is the same for all packets of a session.
NonceOf(c) == <<Seqno(c), Timestamp(c)>>

\* Fault: the padding byte counts the random bytes only.
Wrap_PadShort(size, pad) ==
    [size |-> size, len |-> HeaderLen + size + TagLen + pad, last |-> pad - 1,
     sealed |-> size + TagLen]

\* The wire packet: its length, its last byte (pad as u8), the sealed part.
Wrap(size, pad) ==
    [size |-> size, len |-> HeaderLen + size + TagLen + pad, last |-> pad % 256,
     sealed |-> size + TagLen]

\* Fault: the counter starts at one, not at zero.
Take_IncrementsFirst(t) ==
    /\ holding[t] = Free
    /\ count < MaxPackets
    /\ count' = count + 1
    /\ holding' = [holding EXCEPT ![t] = count']
    /\ UNCHANGED <<initSeq, initTs, used, reused, wire, fate>>

\* The counter is read and incremented under its mutex.
Take(t) ==
    /\ holding[t] = Free
    /\ count < MaxPackets
    /\ count' = count + 1
    /\ holding' = [holding EXCEPT ![t] = count]
    /\ UNCHANGED <<initSeq, initTs, used, reused, wire, fate>>

\* The packet is sealed and handed to the relay. The network carries the packet
\* sent last; an earlier one that has not arrived is lost.
Send(t) ==
    /\ holding[t] /= Free
    /\ \E size \in Sizes, pad \in 1 .. PaddingMax : wire' = Wrap(size, pad)
    /\ used' = used \cup {NonceOf(holding[t])}
    /\ reused' = (reused \/ NonceOf(holding[t]) \in used)
    /\ holding' = [holding EXCEPT ![t] = Free]
    /\ UNCHANGED <<initSeq, initTs, count, fate>>

-----------------------------------------------------------------------------
(* RelayDtlsConn::recv *)

\* obfsUnwrapPacket of len bytes, the last of them being last. Opening succeeds
\* only on the very bytes that were sealed.
Opens(len, last) ==
    /\ len >= HeaderLen + 1
    /\ last /= 0 /\ last <= len - HeaderLen
    /\ len - last - HeaderLen = wire.sealed

\* recv_from cuts a packet to the buffer; a cut packet may end in any byte.
\* What does not open is dropped and the next packet is awaited.
Receive ==
    /\ wire /= Nothing
    /\ LET cut == wire.len > RecvBuf
           len == IF cut THEN RecvBuf ELSE wire.len
       IN  \E last \in IF cut THEN 0 .. 255 ELSE {wire.last} :
              fate' = [len |-> wire.len, size |-> wire.size,
                       got |-> IF Opens(len, last) THEN len - last - HeaderLen - TagLen
                               ELSE Dropped]
    /\ wire' = Nothing
    /\ UNCHANGED sendVars

\* RunSession ends; the next one has a new SSRC and a new ObfsState.
NewSession ==
    /\ initSeq' \in InitSeqs /\ initTs' \in InitTss
    /\ count' = 0
    /\ holding' = [t \in Senders |-> Free]
    /\ used' = {} /\ reused' = FALSE
    /\ wire' = Nothing /\ fate' = Nothing

Next ==
    \/ \E t \in Senders : Take(t) \/ Send(t)
    \/ Receive \/ NewSession

Spec == Init /\ [][Next]_vars

-----------------------------------------------------------------------------
(* Properties. *)

\* No two packets of a session are sealed with one nonce, although seq and ts
\* both wrap around many times, and in whatever order the tasks that took a
\* counter get to use it. With the constants of the code this holds for the
\* first 2^48 packets; the carry term of ts is what it rests on.
NoNonceReuse == ~reused

\* What is delivered is the packet that was sent, never a shorter or a longer
\* one, and a packet that fits the receive buffer is delivered, for every size
\* and every padding. One that does not fit is dropped unless the cut leaves a
\* padding byte that happens to count the bytes left.
RoundTrip ==
    fate /= Nothing =>
        /\ fate.got \in {fate.size, Dropped}
        /\ fate.len <= RecvBuf => fate.got = fate.size

=============================================================================
