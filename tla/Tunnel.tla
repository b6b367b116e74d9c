------------------------------- MODULE Tunnel -------------------------------
(***************************************************************************)
(* The data plane: the Dispatcher's readLoop and writeLoop, and the select *)
(* loop of every session. Datagrams of the local application are spread    *)
(* over the registered sessions; what the sessions read from the peer goes *)
(* through one bounded channel back to the application.                    *)
(*                                                                         *)
(* A packet is a number, in the order in which its direction accepted it.  *)
(* One pc value is one place where a task of the code can be suspended.    *)
(* A definition named Def_Fault is a plausible mistake in Def; it is not   *)
(* part of the model.                                                      *)
(***************************************************************************)
EXTENDS Integers, Sequences, FiniteSets, SequencesExt

CONSTANTS
    Sessions,   \* the workers' sessions
    ChunkSize,  \* CHUNK_SIZE (12)
    SendBuf,    \* WORKER_SEND_BUF (128)
    ReturnBuf,  \* RETURN_CH_BUF (512)
    MaxUp,      \* bound: datagrams the application sends
    MaxDown     \* bound: packets the peer sends

ASSUME TunnelAssumption ==
    /\ ChunkSize \in Nat \ {0} /\ SendBuf \in Nat \ {0} /\ ReturnBuf \in Nat \ {0}
    /\ MaxUp \in Nat /\ MaxDown \in Nat

NoPkt == 0

VARIABLES
    rlPc, rlPkt,          \* readLoop and the datagram it holds
    clientKnown,          \* clientAddr is Some: the application was heard from
    workers,              \* registered sessions, oldest first
    rrIndex,              \* the round-robin counter
    idx, tried,           \* the search for a channel: where it starts, how many refused
    fullAtTurn,           \* history: the slots that were full when the search began
    spc, hand,            \* each session's place and the packet it holds
    sendCh,               \* each session's channel of capacity SendBuf
    returnCh,             \* the shared channel of capacity ReturnBuf
    wlPc, wlItem,         \* writeLoop and the packet it holds
    upCount, downCount,   \* packets accepted in each direction
    toPeer,               \* toPeer[s]: what session s wrote to its peer
    toApp                 \* toApp[s]: what of s's packets was sent to the application

search   == <<idx, tried, fullAtTurn>>
rlVars   == <<rlPc, rlPkt, upCount, search>>
wlVars   == <<wlPc, wlItem, toApp>>
sessVars == <<spc, hand, toPeer, downCount>>
vars == <<rlPc, rlPkt, clientKnown, workers, rrIndex, search, spc, hand, sendCh, returnCh,
          wlPc, wlItem, upCount, downCount, toPeer, toApp>>

RlPcs == {"recv", "route", "search", "shutwait", "done"}
WlPcs == {"recv", "addr", "send", "retry"}
SPcs  == {"off", "loop", "write", "return", "leave", "close"}
Up    == 1 .. MaxUp
Down  == 1 .. MaxDown
Items == [from : Sessions, pkt : Down]
NoItem == [pkt |-> NoPkt]

TypeOK ==
    /\ rlPc \in RlPcs /\ rlPkt \in Up \cup {NoPkt}
    /\ clientKnown \in BOOLEAN
    /\ workers \in Seq(Sessions)
    /\ rrIndex \in 0 .. MaxUp
    /\ idx \in Nat /\ tried \in Nat /\ fullAtTurn \subseteq Sessions
    /\ spc \in [Sessions -> SPcs]
    /\ hand \in [Sessions -> 0 .. (MaxUp + MaxDown)]
    /\ sendCh \in [Sessions -> Seq(Up)]
    /\ \A s \in Sessions : Len(sendCh[s]) <= SendBuf
    /\ returnCh \in Seq(Items) /\ Len(returnCh) <= ReturnBuf
    /\ wlPc \in WlPcs /\ wlItem \in Items \cup {NoItem}
    /\ upCount \in 0 .. MaxUp /\ downCount \in 0 .. MaxDown
    /\ toPeer \in [Sessions -> Seq(Up)] /\ toApp \in [Sessions -> Seq(Down)]

Init ==
    /\ rlPc = "recv" /\ rlPkt = NoPkt
    /\ clientKnown = FALSE
    /\ workers = <<>>
    /\ rrIndex = 0
    /\ idx = 0 /\ tried = 0 /\ fullAtTurn = {}
    /\ spc = [s \in Sessions |-> "off"]
    /\ hand = [s \in Sessions |-> NoPkt]
    /\ sendCh = [s \in Sessions |-> <<>>]
    /\ returnCh = <<>>
    /\ wlPc = "recv" /\ wlItem = NoItem
    /\ upCount = 0 /\ downCount = 0
    /\ toPeer = [s \in Sessions |-> <<>>]
    /\ toApp = [s \in Sessions |-> <<>>]

-----------------------------------------------------------------------------
(* readLoop *)

\* recv_from succeeds: the sender becomes the client the replies go to. Which
\* address that is matters to nothing below.
RecvLocal ==
    /\ rlPc = "recv"
    /\ upCount < MaxUp
    /\ clientKnown' = TRUE
    /\ upCount' = upCount + 1
    /\ rlPkt' = upCount'
    /\ rlPc' = "route"
    /\ UNCHANGED <<workers, rrIndex, search, sessVars, sendCh, returnCh, wlVars>>

\* recv_from fails: shutdown_closed() subscribes to the watch channel and waits
\* for a value sent from now on, whether or not Shutdown was called before.
RecvError ==
    /\ rlPc = "recv"
    /\ rlPc' = "shutwait"
    /\ UNCHANGED <<rlPkt, upCount, search, clientKnown, workers, rrIndex, sessVars,
                   sendCh, returnCh, wlVars>>

\* watch::Sender::send reaches only a subscriber that already waits; at any
\* other time it fails, and its result is ignored.
Shutdown ==
    /\ rlPc = "shutwait"
    /\ rlPc' = "done"
    /\ UNCHANGED <<rlPkt, upCount, search, clientKnown, workers, rrIndex, sessVars,
                   sendCh, returnCh, wlVars>>

\* The lock of the slots is held in read mode from the test for emptiness to the
\* last try_send. It keeps Register and Unregister waiting, and nobody else: the
\* sessions, on other threads, go on taking from their channels.
SlotsLocked == rlPc = "search"

RouteNobody ==
    /\ rlPc = "route"
    /\ workers = <<>>
    /\ rlPc' = "recv" /\ rlPkt' = NoPkt
    /\ UNCHANGED <<upCount, search, clientKnown, workers, rrIndex, sessVars, sendCh,
                   returnCh, wlVars>>

HasRoom(s) == Len(sendCh[s]) < SendBuf

\* The turn is taken, whatever becomes of the datagram.
RouteTurn ==
    /\ rlPc = "route"
    /\ workers /= <<>>
    /\ rlPc' = "search"
    /\ idx' = (rrIndex \div ChunkSize) % Len(workers)
    /\ rrIndex' = rrIndex + 1
    /\ fullAtTurn' = {s \in ToSet(workers) : ~HasRoom(s)}
    /\ UNCHANGED <<rlPkt, upCount, tried, clientKnown, workers, sessVars, sendCh,
                   returnCh, wlVars>>

\* The i-th slot tried, counted from the slot whose turn it is.
Candidate(i) == workers[((idx + i) % Len(workers)) + 1]

SearchEnds ==
    /\ rlPc' = "recv" /\ rlPkt' = NoPkt
    /\ idx' = 0 /\ tried' = 0 /\ fullAtTurn' = {}
    /\ UNCHANGED upCount

\* Fault: the search goes on after a channel accepted the packet.
RouteTo_NoBreak ==
    /\ rlPc = "search"
    /\ tried < Len(workers)
    /\ HasRoom(Candidate(tried))
    /\ sendCh' = [sendCh EXCEPT ![Candidate(tried)] = Append(@, rlPkt)]
    /\ tried' = tried + 1
    /\ UNCHANGED <<rlPc, rlPkt, upCount, idx, fullAtTurn, clientKnown, workers, rrIndex,
                   sessVars, returnCh, wlVars>>

\* try_send succeeds: the datagram is in the channel, and the lock is released.
RouteTo ==
    /\ rlPc = "search"
    /\ tried < Len(workers)
    /\ HasRoom(Candidate(tried))
    /\ sendCh' = [sendCh EXCEPT ![Candidate(tried)] = Append(@, rlPkt)]
    /\ SearchEnds
    /\ UNCHANGED <<clientKnown, workers, rrIndex, sessVars, returnCh, wlVars>>

\* try_send fails: the next slot is tried.
RouteRefused ==
    /\ rlPc = "search"
    /\ tried < Len(workers)
    /\ ~HasRoom(Candidate(tried))
    /\ tried' = tried + 1
    /\ UNCHANGED <<rlPc, rlPkt, upCount, idx, fullAtTurn, clientKnown, workers, rrIndex,
                   sessVars, sendCh, returnCh, wlVars>>

\* The loop has run out of slots: the datagram is dropped, even if one of them
\* has room again by now.
RouteDrop ==
    /\ rlPc = "search"
    /\ tried >= Len(workers)
    /\ SearchEnds
    /\ UNCHANGED <<clientKnown, workers, rrIndex, sessVars, sendCh, returnCh, wlVars>>

-----------------------------------------------------------------------------
(* A session, from the moment it is ready. *)

SessionAt(s, from, to) ==
    /\ spc[s] = from
    /\ spc' = [spc EXCEPT ![s] = to]

\* The session is ready: a fresh channel, whose sender goes into the slot.
Register(s) ==
    /\ SessionAt(s, "off", "loop")
    /\ ~SlotsLocked
    /\ workers' = Append(workers, s)
    /\ sendCh' = [sendCh EXCEPT ![s] = <<>>]
    /\ UNCHANGED <<rlVars, clientKnown, rrIndex, hand, toPeer, downCount,
                   returnCh, wlVars>>

\* rx.recv() wins the select.
TakeUp(s) ==
    /\ SessionAt(s, "loop", "write")
    /\ sendCh[s] /= <<>>
    /\ hand' = [hand EXCEPT ![s] = Head(sendCh[s])]
    /\ sendCh' = [sendCh EXCEPT ![s] = Tail(@)]
    /\ UNCHANGED <<rlVars, clientKnown, workers, rrIndex, toPeer, downCount,
                   returnCh, wlVars>>

WritePeer(s) ==
    /\ SessionAt(s, "write", "loop")
    /\ toPeer' = [toPeer EXCEPT ![s] = Append(@, hand[s])]
    /\ hand' = [hand EXCEPT ![s] = NoPkt]
    /\ UNCHANGED <<rlVars, clientKnown, workers, rrIndex, downCount, sendCh,
                   returnCh, wlVars>>

\* The packet in hand is lost and the loop ends.
WritePeerFails(s) ==
    /\ SessionAt(s, "write", "leave")
    /\ hand' = [hand EXCEPT ![s] = NoPkt]
    /\ UNCHANGED <<rlVars, clientKnown, workers, rrIndex, toPeer, downCount, sendCh,
                   returnCh, wlVars>>

\* dtls.read() wins the select.
ReadPeer(s) ==
    /\ downCount < MaxDown
    /\ SessionAt(s, "loop", "return")
    /\ downCount' = downCount + 1
    /\ hand' = [hand EXCEPT ![s] = downCount']
    /\ UNCHANGED <<rlVars, clientKnown, workers, rrIndex, toPeer, sendCh, returnCh,
                   wlVars>>

\* Fault: the packet is queued without waiting for room.
Return_NoWait(s) ==
    /\ SessionAt(s, "return", "loop")
    /\ returnCh' = Append(returnCh, [from |-> s, pkt |-> hand[s]])
    /\ hand' = [hand EXCEPT ![s] = NoPkt]
    /\ UNCHANGED <<rlVars, clientKnown, workers, rrIndex, toPeer, downCount, sendCh,
                   wlVars>>

\* ReturnCh.send().await: the session waits here while the channel is full.
Return(s) ==
    /\ Len(returnCh) < ReturnBuf
    /\ SessionAt(s, "return", "loop")
    /\ returnCh' = Append(returnCh, [from |-> s, pkt |-> hand[s]])
    /\ hand' = [hand EXCEPT ![s] = NoPkt]
    /\ UNCHANGED <<rlVars, clientKnown, workers, rrIndex, toPeer, downCount, sendCh,
                   wlVars>>

\* Fault: an error in the loop returns at once, past Unregister.
Breaks_EarlyReturn(s) ==
    /\ SessionAt(s, "loop", "off")
    /\ sendCh' = [sendCh EXCEPT ![s] = <<>>]
    /\ UNCHANGED <<rlVars, clientKnown, workers, rrIndex, hand, toPeer, downCount,
                   returnCh, wlVars>>

\* A read error or a keepalive that cannot be written.
Breaks(s) ==
    /\ SessionAt(s, "loop", "leave")
    /\ UNCHANGED <<rlVars, clientKnown, workers, rrIndex, hand, toPeer, downCount,
                   sendCh, returnCh, wlVars>>

\* retain keeps the slots of the others, in their order.
Without(s) ==
    LET kept == {i \in DOMAIN workers : workers[i] /= s}
    IN  \E at \in [1 .. Cardinality(kept) -> kept] :
           /\ \A i, j \in DOMAIN at : i < j => at[i] < at[j]
           /\ workers' = [i \in DOMAIN at |-> workers[at[i]]]

\* Fault: the slots change while readLoop walks them.
Unregister_NoLock(s) ==
    /\ SessionAt(s, "leave", "close")
    /\ Without(s)
    /\ UNCHANGED <<rlVars, clientKnown, rrIndex, hand, toPeer, downCount, sendCh,
                   returnCh, wlVars>>

Unregister(s) ==
    /\ SessionAt(s, "leave", "close")
    /\ ~SlotsLocked
    /\ Without(s)
    /\ UNCHANGED <<rlVars, clientKnown, rrIndex, hand, toPeer, downCount, sendCh,
                   returnCh, wlVars>>

\* Fault: the receiver outlives the session, and what is queued stays queued.
Close_KeepsQueue(s) ==
    /\ SessionAt(s, "close", "off")
    /\ UNCHANGED <<rlVars, clientKnown, workers, rrIndex, hand, toPeer, downCount,
                   sendCh, returnCh, wlVars>>

\* RunSession returns: the receiver is dropped with what is still in the channel.
Close(s) ==
    /\ SessionAt(s, "close", "off")
    /\ sendCh' = [sendCh EXCEPT ![s] = <<>>]
    /\ UNCHANGED <<rlVars, clientKnown, workers, rrIndex, hand, toPeer, downCount,
                   returnCh, wlVars>>

-----------------------------------------------------------------------------
(* writeLoop. Its channel never closes: the Dispatcher itself holds a sender. *)

WlTake ==
    /\ wlPc = "recv"
    /\ returnCh /= <<>>
    /\ wlItem' = Head(returnCh)
    /\ returnCh' = Tail(returnCh)
    /\ wlPc' = "addr"
    /\ UNCHANGED <<rlVars, clientKnown, workers, rrIndex, sessVars, sendCh, toApp>>

\* Fault: writeLoop returns when there is no client yet.
WlNoClient_Returns ==
    /\ wlPc = "addr"
    /\ ~clientKnown
    /\ wlPc' = "done" /\ wlItem' = NoItem
    /\ UNCHANGED <<rlVars, clientKnown, workers, rrIndex, sessVars, sendCh, returnCh, toApp>>

\* clientAddr is None: the packet is dropped.
WlNoClient ==
    /\ wlPc = "addr"
    /\ ~clientKnown
    /\ wlPc' = "recv" /\ wlItem' = NoItem
    /\ UNCHANGED <<rlVars, clientKnown, workers, rrIndex, sessVars, sendCh, returnCh, toApp>>

WlClient ==
    /\ wlPc = "addr"
    /\ clientKnown
    /\ wlPc' = "send"
    /\ UNCHANGED <<rlVars, clientKnown, workers, rrIndex, sessVars, sendCh, returnCh,
                   wlItem, toApp>>

\* Fault: the second send is not made conditional on the first one's failure.
WlSend_Twice ==
    /\ wlPc \in {"send", "retry"}
    /\ toApp' = [toApp EXCEPT ![wlItem.from] = Append(@, wlItem.pkt)]
    /\ wlPc' = IF wlPc = "send" THEN "retry" ELSE "recv"
    /\ UNCHANGED <<rlVars, clientKnown, workers, rrIndex, sessVars, sendCh, returnCh, wlItem>>

\* send_to succeeds, the first time or after the pause of 10 ms.
WlSend ==
    /\ wlPc \in {"send", "retry"}
    /\ toApp' = [toApp EXCEPT ![wlItem.from] = Append(@, wlItem.pkt)]
    /\ wlPc' = "recv" /\ wlItem' = NoItem
    /\ UNCHANGED <<rlVars, clientKnown, workers, rrIndex, sessVars, sendCh, returnCh>>

WlSendFails ==
    /\ wlPc = "send"
    /\ wlPc' = "retry"
    /\ UNCHANGED <<rlVars, clientKnown, workers, rrIndex, sessVars, sendCh, returnCh,
                   wlItem, toApp>>

\* The result of the second send_to is ignored.
WlRetryFails ==
    /\ wlPc = "retry"
    /\ wlPc' = "recv" /\ wlItem' = NoItem
    /\ UNCHANGED <<rlVars, clientKnown, workers, rrIndex, sessVars, sendCh, returnCh, toApp>>

-----------------------------------------------------------------------------
RlStep == RouteNobody \/ RouteTurn \/ RouteTo \/ RouteRefused \/ RouteDrop

WlStep == WlTake \/ WlNoClient \/ WlClient \/ WlSend \/ WlSendFails \/ WlRetryFails

\* What a session does without its peer or the network having to act.
SessionStep(s) ==
    \/ TakeUp(s) \/ WritePeer(s) \/ WritePeerFails(s) \/ Return(s)
    \/ Unregister(s) \/ Close(s)

\* What the application, the peers, the workers and main() may do.
Environment ==
    \/ RecvLocal \/ RecvError \/ Shutdown
    \/ \E s \in Sessions : Register(s) \/ ReadPeer(s) \/ Breaks(s)

Next == RlStep \/ WlStep \/ Environment \/ \E s \in Sessions : SessionStep(s)

Spec == Init /\ [][Next]_vars

\* tokio polls every ready task; a write to the peer and a send_to end, with
\* success or not; select! does not starve a branch that stays ready. Sessions
\* need not come up, break, or hear from the peer.
Fairness ==
    /\ WF_vars(RlStep) /\ WF_vars(WlStep)
    /\ \A s \in Sessions : WF_vars(SessionStep(s))

FairSpec == Spec /\ Fairness

-----------------------------------------------------------------------------
(* Properties. *)

\* Every registered slot has a live receiver and no session has two: a datagram
\* handed to a slot is in a channel somebody will read, unless that session ends.
SlotsAreLive ==
    /\ \A s \in ToSet(workers) : spc[s] \in {"loop", "write", "return", "leave"}
    /\ IsInjective(workers)

\* A datagram is dropped only if every registered session's channel was full at the
\* moment its turn was taken: wherever the search starts, it passes nobody over, and
\* no session comes or goes and no channel fills up before it is done.
DropOnlyWhenAllFull ==
    [][rlPc = "search" /\ rlPc' = "recv"
         => \/ \E s \in ToSet(workers) : sendCh' = [sendCh EXCEPT ![s] = Append(@, rlPkt)]
            \/ ToSet(workers) \subseteq fullAtTurn]_vars

\* The datagrams of the application that are on their way to a peer.
UpPending ==
    ({rlPkt} \cup (UNION {ToSet(sendCh[s]) : s \in Sessions})
         \cup {hand[s] : s \in {t \in Sessions : spc[t] = "write"}}) \ {NoPkt}

\* The packets of the peers that are on their way to the application.
DownPending ==
    ({hand[s] : s \in {t \in Sessions : spc[t] = "return"}}
         \cup {it.pkt : it \in ToSet(returnCh) \cup {wlItem}}) \ {NoPkt}

UpLink == INSTANCE LossyRelay WITH
    Lanes <- Sessions, accepted <- upCount, pending <- UpPending, out <- toPeer

DownLink == INSTANCE LossyRelay WITH
    Lanes <- Sessions, accepted <- downCount, pending <- DownPending, out <- toApp

\* Towards the peers no datagram is duplicated, also when the first channel was
\* full, and what one session writes is in the order the application sent it.
UpIsRelay == UpLink!Spec

\* Towards the application no packet is duplicated, also when send_to is tried
\* again, and the packets of one session arrive in the order it read them.
DownIsRelay == DownLink!Spec

\* No packet stays in a channel or in a task's hands for ever: sessions that
\* wait for room in the shared channel get it, and then go on reading their own.
UpResolves   == \A p \in Up : p \in UpPending ~> p \notin UpPending
DownResolves == \A p \in Down : p \in DownPending ~> p \notin DownPending

\* "if shutdown_closed() { return } continue": after an error of recv_from the
\* loop goes on receiving unless the dispatcher is shut down.
ReadLoopRecovers == rlPc = "shutwait" ~> rlPc \in {"recv", "done"}

=============================================================================
