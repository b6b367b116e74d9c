------------------------------ MODULE MCTunnel ------------------------------
(* The instances of Tunnel that TLC checks, each described in its cfg. *)
EXTENDS Tunnel

\* Sessions differ by name only.
SessionSymmetry == Permutations(Sessions)

=============================================================================
