----------------------------- MODULE LossyRelay -----------------------------
(***************************************************************************)
(* What one direction of the tunnel promises about packets: a packet that  *)
(* was accepted leaves on at most one lane, at most once; the packets of   *)
(* one lane leave in the order they were accepted; nothing leaves that was *)
(* not accepted. Packets may be lost, and different lanes may overtake     *)
(* each other: the WireGuard traffic inside copes with both.               *)
(***************************************************************************)
EXTENDS Naturals, Sequences

CONSTANT Lanes

VARIABLES
    accepted,  \* how many packets were accepted; they are numbered from 1
    pending,   \* the packets that are on their way
    out        \* out[l]: what has left on lane l

vars == <<accepted, pending, out>>

Init ==
    /\ accepted = 0
    /\ pending = {}
    /\ out = [l \in Lanes |-> <<>>]

Accept ==
    /\ accepted' = accepted + 1
    /\ pending' = pending \cup {accepted'}
    /\ UNCHANGED out

Lose ==
    /\ \E lost \in SUBSET pending : pending' = pending \ lost
    /\ UNCHANGED <<accepted, out>>

Deliver ==
    \E p \in pending, l \in Lanes :
        /\ \A i \in DOMAIN out[l] : out[l][i] < p
        /\ out' = [out EXCEPT ![l] = Append(@, p)]
        /\ pending' = pending \ {p}
        /\ UNCHANGED accepted

Next == Accept \/ Lose \/ Deliver

Spec == Init /\ [][Next]_vars

=============================================================================
