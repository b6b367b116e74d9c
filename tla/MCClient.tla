------------------------------ MODULE MCClient ------------------------------
(* The instances of Client that TLC checks: the constants come from the     *)
(* cfgs, the program's own being 12 groups of 9, a stride of 100 and 10     *)
(* streams to a cache entry.                                                *)
EXTENDS Client

=============================================================================
