---------------------------- MODULE MCConfigSync ----------------------------
(* Small deployments of ConfigSync for TLC: links, profiles and enrolled    *)
(* devices of one or two users over two nodes.                              *)
EXTENDS ConfigSync

CONSTANTS u1, u2, h1, h2

AllNodes == [u \in User |-> Node]
NoNodes  == [u \in User |-> {}]

(* u1 is linked to both nodes, u2 has node 2 through its profile only. *)
MixedLinks    == [u \in User |-> IF u = u1 THEN {1, 2} ELSE {}]
MixedProfiles == [u \in User |-> IF u = u1 THEN {} ELSE {2}]

(* One device of u1, already active; or one for each of two users. *)
Nobody == {}
OneDevice  == {[id |-> 1, user |-> u1, hwid |-> h1, status |-> "active"]}
TwoDevices == OneDevice \cup {[id |-> 2, user |-> u2, hwid |-> h1, status |-> "active"]}

NoFaults   == {}
SshFaults  == {"ssh"}
AllFaults  == {"ssh", "restart"}
Everything == {"register", "remove", "patch", "user", "node", "apply", "verify", "enforce"}
=============================================================================
