---------------------------- MODULE MCUserDetail ----------------------------
(* Two users, the first of whom has devices, for TLC.                       *)
EXTENDS UserDetail

CONSTANTS u1, d1

OwnerOf == [d \in Device |-> u1]
=============================================================================
