---------------------------- MODULE MCCredentials ----------------------------
(* Three callers, two of one link and one of another, whose streams all     *)
(* fall under one key. In the program itself streams are multiples of 100   *)
(* and share no key; callers of the library may choose theirs like this.    *)
EXTENDS Credentials, TLC

CONSTANTS c1, c2, c3, linkA, linkB

MCLinkOf   == c1 :> linkA @@ c2 :> linkA @@ c3 :> linkB
MCStreamOf == c1 :> 1 @@ c2 :> 2 @@ c3 :> 3

=============================================================================
