------------------------------ MODULE Keepalive ------------------------------
(***************************************************************************)
(* The clocks of a session's select loop. Every turn of the loop builds a  *)
(* new dtls.read() future, and with it a new read timeout, while the       *)
(* keepalive timer lives outside the loop.                                 *)
(*                                                                         *)
(* Time advances in steps, and only when no timer is due.                  *)
(***************************************************************************)
EXTENDS Integers

CONSTANTS
    KeepaliveInterval,  \* KEEPALIVE_INTERVAL_SECS (15)
    ReadTimeout         \* SESSION_READ_TIMEOUT_SECS (1800)

ASSUME KeepaliveAssumption ==
    /\ KeepaliveInterval \in Nat \ {0}
    /\ ReadTimeout \in Nat
    /\ KeepaliveInterval < ReadTimeout

VARIABLES
    alive,    \* the select loop is running
    peer,     \* "up", "closed" (it said so, by a DTLS alert) or "silent" (it is gone)
    readAge,  \* how long the present dtls.read() has been waiting
    toTick    \* time to the next tick of the keepalive timer

vars == <<alive, peer, readAge, toTick>>

TypeOK ==
    /\ alive \in BOOLEAN
    /\ peer \in {"up", "closed", "silent"}
    /\ readAge \in 0 .. ReadTimeout
    /\ toTick \in 0 .. KeepaliveInterval

\* The first tick of an interval() is due at once.
Init == alive = TRUE /\ peer = "up" /\ readAge = 0 /\ toTick = 0

\* Fault: a due tick is not served before time goes on.
TimePasses_TickMissed ==
    /\ alive
    /\ readAge < ReadTimeout
    /\ readAge' = readAge + 1
    /\ toTick' = toTick - 1
    /\ UNCHANGED <<alive, peer>>

TimePasses ==
    /\ alive
    /\ toTick > 0 /\ readAge < ReadTimeout
    /\ readAge' = readAge + 1
    /\ toTick' = toTick - 1
    /\ UNCHANGED <<alive, peer>>

\* A packet of the application wins the select and is written to the peer.
AppSends ==
    /\ alive
    /\ readAge' = 0
    /\ UNCHANGED <<alive, peer, toTick>>

PeerSends ==
    /\ alive /\ peer = "up"
    /\ readAge' = 0
    /\ UNCHANGED <<alive, peer, toTick>>

\* Fault: one read() is kept across the turns of the loop that a tick causes.
KeepaliveTick_KeepsRead ==
    /\ alive /\ toTick = 0
    /\ readAge' = readAge
    /\ toTick' = KeepaliveInterval
    /\ UNCHANGED <<alive, peer>>

\* The keepalive byte is written; a datagram to a dead peer is no error.
KeepaliveTick ==
    /\ alive /\ toTick = 0
    /\ readAge' = 0
    /\ toTick' = KeepaliveInterval
    /\ UNCHANGED <<alive, peer>>

\* The network refuses a packet or a keepalive.
WriteFails ==
    /\ alive
    /\ alive' = FALSE
    /\ UNCHANGED <<peer, readAge, toTick>>

\* dtls.read() fails: the connection was closed, or the read timed out.
ReadEnds ==
    /\ alive
    /\ peer = "closed" \/ readAge = ReadTimeout
    /\ alive' = FALSE
    /\ UNCHANGED <<peer, readAge, toTick>>

PeerCloses ==
    /\ peer = "up" /\ peer' = "closed"
    /\ UNCHANGED <<alive, readAge, toTick>>

PeerVanishes ==
    /\ peer = "up" /\ peer' = "silent"
    /\ UNCHANGED <<alive, readAge, toTick>>

Next ==
    \/ TimePasses \/ AppSends \/ PeerSends \/ KeepaliveTick
    \/ WriteFails \/ ReadEnds \/ PeerCloses \/ PeerVanishes

Spec == Init /\ [][Next]_vars

\* Time passes, a due timer fires and an error that read() has is seen.
FairSpec == Spec /\ WF_vars(TimePasses \/ KeepaliveTick) /\ WF_vars(ReadEnds)

-----------------------------------------------------------------------------
(* Properties. *)

\* The keepalive tick restarts the read, so no read waits longer than one
\* keepalive interval: the timeout of 1800 s is never reached.
ReadIsRestarted == readAge <= KeepaliveInterval

\* SESSION_READ_TIMEOUT_SECS: a session whose peer is silent ends in the end.
SilentPeerNoticed == peer = "silent" ~> ~alive

=============================================================================
