----------------------------- MODULE MCTraffic -----------------------------
(* One user with two devices on two nodes, for TLC.                         *)
EXTENDS Traffic

CONSTANTS u1, d1, d2, n1, n2

TwoNodes == <<n1, n2>>
OneOwner == [d \in Device |-> u1]
Bytes    == [d \in Device |-> IF d = d1 THEN 3 ELSE 2]
ThreeBytes == [d \in Device |-> 3]
LimitTwo == [u \in User |-> 2]

(* Every device is a client of one node, or of both. *)
HomeNode  == [d \in Device |-> IF d = d1 THEN {n1} ELSE {n2}]
BothNodes == [d \in Device |-> {n1, n2}]
=============================================================================
