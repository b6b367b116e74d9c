----------------------------- MODULE MCWgConfig -----------------------------
(* Every config of up to MaxAny lines, and longer ones with an interface of   *)
(* one setting and a peer of up to MaxPeer lines, another peer among them.    *)
EXTENDS WgConfig

CONSTANTS MaxAny, MaxPeer

MCConfigs ==
    BoundedSeq(Lines, MaxAny)
        \cup {<<"[Interface]", a, "[Peer]">> \o b :
                a \in Lines \ {"[Interface]"},
                b \in BoundedSeq(Lines \ {"MTU", "[Interface]"}, MaxPeer)}

=============================================================================
