------------------------------ MODULE Lifecycle ------------------------------
(***************************************************************************)
(* What the client promises to whoever runs it: sessions come and go one   *)
(* at a time; a stop, once asked for, is never taken back; and the client  *)
(* has stopped only after a stop was asked for and with every session torn *)
(* down, after which no session ever appears.                              *)
(***************************************************************************)
CONSTANT Sessions

VARIABLES
    up,        \* the sessions that are established
    stopping,  \* a stop was asked for
    stopped    \* the client has reported that it stopped

vars == <<up, stopping, stopped>>

Init == up = {} /\ stopping = FALSE /\ stopped = FALSE

Establish ==
    /\ ~stopped
    /\ \E s \in Sessions \ up : up' = up \cup {s}
    /\ UNCHANGED <<stopping, stopped>>

TearDown ==
    /\ ~stopped
    /\ \E s \in up : up' = up \ {s}
    /\ UNCHANGED <<stopping, stopped>>

AskToStop ==
    /\ ~stopped
    /\ stopping' = TRUE
    /\ UNCHANGED <<up, stopped>>

ReportStopped ==
    /\ stopping /\ up = {} /\ ~stopped
    /\ stopped' = TRUE
    /\ UNCHANGED <<up, stopping>>

Next == Establish \/ TearDown \/ AskToStop \/ ReportStopped

Spec == Init /\ [][Next]_vars

=============================================================================
