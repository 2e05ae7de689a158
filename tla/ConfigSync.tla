----------------------------- MODULE ConfigSync -----------------------------
(***************************************************************************)
(* The admin backend keeps users, HWID devices and nodes in PostgreSQL and *)
(* pushes to every node the list of Xray clients that follows from them.   *)
(* A request handler changes rows in its own transaction, renders the      *)
(* client lists from what that transaction sees, awaits SSH on one node    *)
(* after the other and only then commits or rolls back.  All handlers are  *)
(* coroutines of one asyncio event loop that calls PostgreSQL              *)
(* synchronously, so they interleave at the SSH awaits and nowhere else.   *)
(*                                                                         *)
(* A coroutine that needs a row another in-flight transaction has changed  *)
(* blocks inside the database driver.  That stops the loop, and with it    *)
(* the coroutine that would release the row: `blocked' records it, and     *)
(* only a restart of the process ends it.                                  *)
(*                                                                         *)
(* Abstracted: a device's UUID is a number handed out once, a config file  *)
(* is the set of UUIDs it lists, the SSH command sequence of one apply is  *)
(* one write of that set with an outcome, Xray is installed on every node, *)
(* and expiry by the clock is the scheduler's choice of a user.  A node's  *)
(* status is "online", "failed" (a probe failed, so draft and installing   *)
(* too) or "disabled" (off by an admin, maintenance too).                  *)
(***************************************************************************)
EXTENDS Integers, FiniteSets

CONSTANTS
  User,         (* VPN users                                               *)
  Hwid,         (* hashes of the x-hwid headers clients send               *)
  Node,         (* VPS nodes, numbered in the order an apply visits them   *)
  Request,      (* slots for requests in flight at the same time           *)
  Explicit,     (* [User -> SUBSET Node]: the vpn_user_nodes links         *)
  Profile,      (* [User -> SUBSET Node]: the access profile's nodes       *)
  DeviceLimit,  (* device_limit of every user                              *)
  MaxDevices,   (* bound: device rows ever inserted                        *)
  Enrolled,     (* the device rows at the start                            *)
  Workload,     (* the operations clients and admins issue                 *)
  Faults        (* subset of {"ssh", "restart"}: what may go wrong         *)

ASSUME NodeAssumption == Node \subseteq Nat
ASSUME LinkAssumption ==
  /\ Explicit \in [User -> SUBSET Node]
  /\ Profile \in [User -> SUBSET Node]
ASSUME BoundAssumption == DeviceLimit \in Nat /\ MaxDevices \in Nat

VARIABLES
  userStatus,   (* committed vpn_users.status                              *)
  devices,      (* committed vpn_user_devices rows                         *)
  nodeStatus,   (* committed vps_nodes.status                              *)
  applyStatus,  (* committed vps_nodes.last_config_apply_status            *)
  nextId,       (* the next UUID, never reused, also after a rollback      *)
  conf,         (* conf[n]: clients in node n's config.json                *)
  backup,       (* backup[n]: the newest config.json.akfa.bak.* of n       *)
  txn,          (* txn[r]: uncommitted writes of r's transaction           *)
  held,         (* held[r]: rows r's flushes have locked                   *)
  flow,         (* flow[r]: the local state of r's coroutine               *)
  due,          (* users the scheduler's sweep has read and will write     *)
  blocked       (* the event loop waits inside the database driver         *)

database == <<userStatus, devices, nodeStatus, applyStatus>>
vars     == <<userStatus, devices, nodeStatus, applyStatus, nextId, conf,
              backup, txn, held, flow, due, blocked>>

-----------------------------------------------------------------------------
DeviceId     == 1..MaxDevices
DeviceStatus == {"active", "revoked"}
UserStatus   == {"active", "disabled", "expired", "deleted"}
NodeStatus   == {"online", "failed", "disabled"}
ApplyStatus  == {"none", "success", "failed"}

Device == [id: DeviceId, user: User, hwid: Hwid, status: DeviceStatus]

SameKey(d, e) == d.user = e.user /\ d.hwid = e.hwid

(* UUIDs are handed out once, and a user has one row per hardware id. *)
ASSUME EnrolledAssumption ==
  /\ Enrolled \subseteq Device
  /\ Cardinality(Enrolled) \in 0..MaxDevices
  /\ \A d \in Enrolled : d.id <= Cardinality(Enrolled)
  /\ \A d, e \in Enrolled : SameKey(d, e) \/ d.id = e.id => d = e

(* Database rows two transactions can compete for.  (Variant: without the  *)
(* unique constraint, every insertion has a key of its own.)               *)
HwidRowLoose(u, h) == <<"hwid", u, nextId>>

DeviceRow(d)  == <<"device", d.id>>
HwidRow(u, h) == <<"hwid", u, h>>
UserRow(u)    == <<"user", u>>
NodeRow(n)    == <<"node", n>>
Row == {<<"device", i>> : i \in DeviceId}
         \cup {<<"hwid", u, h>> : u \in User, h \in Hwid}
         \cup {<<"user", u>> : u \in User}
         \cup {<<"node", n>> : n \in Node}

(* What a transaction has written: device rows added and removed (a changed *)
(* row is both), and columns, "keep" where it wrote none.                   *)
Txn == [add: SUBSET Device, del: SUBSET Device,
        users: [User -> UserStatus \cup {"keep"}],
        nodes: [Node -> NodeStatus \cup {"keep"}],
        applies: [Node -> ApplyStatus \cup {"keep"}]]

NoWrites == [add |-> {}, del |-> {}, users |-> [u \in User |-> "keep"],
             nodes |-> [n \in Node |-> "keep"],
             applies |-> [n \in Node |-> "keep"]]

(* A coroutine's locals.  pc: idle, awaiting the apply ("ssh") or the       *)
(* verify ("verify") of node `at', or stuck on a row.  strict is require_success, anyNode is   *)
(* allow_non_online, todo the nodes still to visit, tried those whose row   *)
(* the commit updates, snapshot the users loaded by _fresh_users, clients   *)
(* the list rendered for `at', status and applied the columns of `at' when  *)
(* it was loaded, wrote how far the write on the node got, ok that no node  *)
(* failed or was skipped.                                                   *)
Flow == [pc: {"idle", "ssh", "verify", "stuck"}, strict: BOOLEAN, anyNode: BOOLEAN,
         todo: SUBSET Node, at: SUBSET Node, tried: SUBSET Node,
         snapshot: SUBSET Device, clients: SUBSET DeviceId,
         status: NodeStatus, applied: ApplyStatus,
         wrote: {"no", "yes", "restored"}, ok: BOOLEAN]

Idle == [pc |-> "idle", strict |-> FALSE, anyNode |-> FALSE, todo |-> {},
         at |-> {}, tried |-> {}, snapshot |-> {}, clients |-> {},
         status |-> "online", applied |-> "none", wrote |-> "no", ok |-> TRUE]

-----------------------------------------------------------------------------
(* effective_node_ids: explicit links win, else the profile's nodes. *)
Effective(u) == IF Explicit[u] # {} THEN Explicit[u] ELSE Profile[u]

(* What transaction t reads: READ COMMITTED plus its own writes. *)
SeenDevices(t) == (devices \ t.del) \cup t.add
SeenUser(t, u) == IF t.users[u] = "keep" THEN userStatus[u] ELSE t.users[u]
SeenNode(t, n) == IF t.nodes[n] = "keep" THEN nodeStatus[n] ELSE t.nodes[n]

(* _fresh_users, cut down to the rows that can be rendered.  (Variant:     *)
(* active_users left out.)                                                 *)
FreshAnyUsers(t) == {d \in SeenDevices(t) : d.status = "active"}

FreshUsers(t) ==
  {d \in SeenDevices(t) : d.status = "active" /\ SeenUser(t, d.user) = "active"}

(* active_hwid_devices_for_node: an empty list unless the node is online.  *)
(* (Variant: a list that would be empty gets a client without a UUID.)     *)
RenderPlaceholder(snapshot, n, status) ==
  LET ids == {d.id : d \in {e \in snapshot : n \in Effective(e.user)}}
  IN IF status = "online" /\ ids # {} THEN ids ELSE {0}

Render(snapshot, n, status) ==
  IF status = "online"
    THEN {d.id : d \in {e \in snapshot : n \in Effective(e.user)}}
    ELSE {}

(* The client list that follows from the committed database. *)
Desired(n) == Render(FreshUsers(NoWrites), n, nodeStatus[n])


(* No other coroutine has the rows locked.  (Variant: no row locks.) *)
FreeAlways(r, rows) == TRUE

Free(r, rows) == \A s \in Request \ {r} : held[s] \cap rows = {}

-----------------------------------------------------------------------------
(* The loop waits for a row that a coroutine of the same loop holds. *)
Block(r) ==
  /\ blocked' = TRUE
  /\ flow' = [flow EXCEPT ![r].pc = "stuck"]
  /\ UNCHANGED <<database, txn, held>>

(* The transaction and the coroutine are over.  (Variant: the session is   *)
(* not closed and its row locks stay.)                                     *)
EndRequestKeepsLocks(r) ==
  /\ txn'  = [txn EXCEPT ![r] = NoWrites]
  /\ flow' = [flow EXCEPT ![r] = Idle]
  /\ UNCHANGED held

EndRequest(r) ==
  /\ txn'  = [txn EXCEPT ![r] = NoWrites]
  /\ held' = [held EXCEPT ![r] = {}]
  /\ flow' = [flow EXCEPT ![r] = Idle]

(* db.commit(): flushes the columns set since the last flush, which needs  *)
(* the rows of the nodes tried, and publishes the writes.                  *)
Commit(r, t, f) ==
  IF Free(r, {NodeRow(n) : n \in f.tried})
    THEN /\ devices' = (devices \ t.del) \cup t.add
         /\ userStatus' = [u \in User |-> SeenUser(t, u)]
         /\ nodeStatus' = [n \in Node |-> SeenNode(t, n)]
         /\ applyStatus' = [n \in Node |-> IF t.applies[n] = "keep"
                                             THEN applyStatus[n] ELSE t.applies[n]]
         /\ EndRequest(r)
         /\ UNCHANGED blocked
    ELSE Block(r)

(* db.rollback(), or the session is closed with writes pending. *)
Rollback(r) == EndRequest(r) /\ UNCHANGED <<database, blocked>>

(* ConfigApplyRequiredError when require_success and a node failed or was  *)
(* skipped: the caller rolls back.  Everybody else commits.  (Variant: the *)
(* summary is not looked at.)                                              *)
SettleAlways(r, t, f) == Commit(r, t, f)

Settle(r, t, f) ==
  IF f.strict /\ ~f.ok THEN Rollback(r) ELSE Commit(r, t, f)

(* The loop of apply_to_nodes up to its next await: nodes that are not     *)
(* online are skipped, the next one is loaded, rendered and contacted.     *)
Resume(r, t, f, rows) ==
  LET ready == {n \in f.todo : f.anyNode \/ SeenNode(t, n) = "online"}
  IN  \/ /\ ready = {}
         /\ Settle(r, t, [f EXCEPT !.ok = f.ok /\ f.todo = {}])
      \/ \E n \in ready :
           /\ \A m \in ready : n <= m
           /\ flow' = [flow EXCEPT ![r] =
                [f EXCEPT !.pc = "ssh", !.at = {n},
                          !.todo = {m \in f.todo : m > n},
                          !.ok = f.ok /\ \A m \in f.todo : n <= m,
                          !.clients = Render(f.snapshot, n, SeenNode(t, n)),
                          !.status = SeenNode(t, n),
                          !.applied = applyStatus[n],
                          !.wrote = "no"]]
           /\ txn'  = [txn EXCEPT ![r] = t]
           /\ held' = [held EXCEPT ![r] = rows]
           /\ UNCHANGED <<database, blocked>>

(* A handler up to its first await: flush the writes t, which locks rows,  *)
(* then apply_to_nodes(todo).                                              *)
Launch(r, t, rows, todo, strict, anyNode) ==
  IF Free(r, rows)
    THEN Resume(r, t, [Idle EXCEPT !.strict = strict, !.anyNode = anyNode,
                                   !.todo = todo, !.snapshot = FreshUsers(t)],
                rows)
    ELSE Block(r)

Ready(r, op) == op \in Workload /\ flow[r].pc = "idle" /\ ~blocked

-----------------------------------------------------------------------------
(* used_devices >= device_limit refuses.  (Variant: off by one.) *)
SlotFreeOff(used) == Cardinality(used) <= DeviceLimit

SlotFree(used) == Cardinality(used) < DeviceLimit

(* GET /sub/{token} with an x-hwid that has no active device: a revoked    *)
(* row is deleted, the limit is checked against what this transaction      *)
(* sees, the new device is inserted and pushed to every effective node.    *)
(* The refusals (403) leave no trace and are not modelled.                 *)
RegisterDevice(r, u, h) ==
  LET mine  == {d \in devices : d.user = u}
      stale == {d \in mine : d.hwid = h}
      d     == [id |-> nextId, user |-> u, hwid |-> h, status |-> "active"]
      used  == {e \in mine \ stale : e.status = "active"}
  IN  /\ Ready(r, "register")
      /\ userStatus[u] = "active"
      /\ \A e \in stale : e.status # "active"
      /\ nextId \in DeviceId
      /\ IF Free(r, {DeviceRow(e) : e \in stale})
           THEN /\ SlotFree(used)
                /\ Effective(u) # {}
                /\ Launch(r, [NoWrites EXCEPT !.add = {d}, !.del = stale],
                          {DeviceRow(e) : e \in stale} \cup {HwidRow(u, h)},
                          Effective(u), TRUE, FALSE)
                /\ nextId' = nextId + 1
           ELSE Block(r) /\ UNCHANGED nextId
      /\ UNCHANGED <<conf, backup, due>>

(* GET /sub/{token} with the x-hwid of an active device updates last_seen  *)
(* and answers at once; its one effect here is to wait for a row that      *)
(* another coroutine is deleting or changing.                              *)
RefreshDevice(r, u, h) ==
  /\ Ready(r, "register")
  /\ userStatus[u] = "active"
  /\ \E d \in devices : /\ d.user = u /\ d.hwid = h /\ d.status = "active"
                        /\ ~Free(r, {DeviceRow(d)})
  /\ Block(r)
  /\ UNCHANGED <<nextId, conf, backup, due>>

(* Removal of one device, by its user on the connect page or by an admin.  *)
(* (Variant: only the explicitly linked nodes are visited.)                *)
RemoveDeviceExplicit(r, d) ==
  /\ Ready(r, "remove")
  /\ Launch(r, [NoWrites EXCEPT !.del = {d}], {DeviceRow(d)},
            Explicit[d.user], TRUE, FALSE)
  /\ UNCHANGED <<nextId, conf, backup, due>>

RemoveDevice(r, d) ==
  /\ Ready(r, "remove")
  /\ Launch(r, [NoWrites EXCEPT !.del = {d}], {DeviceRow(d)},
            Effective(d.user), TRUE, FALSE)
  /\ UNCHANGED <<nextId, conf, backup, due>>

ResetDevices(r, u) ==
  LET mine == {d \in devices : d.user = u}
  IN  /\ Ready(r, "remove")
      /\ mine # {}
      /\ Launch(r, [NoWrites EXCEPT !.del = mine], {DeviceRow(d) : d \in mine},
                Effective(u), TRUE, FALSE)
      /\ UNCHANGED <<nextId, conf, backup, due>>

(* PATCH of a device's status: whatever the apply does, it is committed,   *)
(* and only the explicitly linked nodes are visited.                       *)
PatchDevice(r, d, s) ==
  /\ Ready(r, "patch")
  /\ s # d.status
  /\ Launch(r, [NoWrites EXCEPT !.del = {d}, !.add = {[d EXCEPT !.status = s]}],
            {DeviceRow(d)}, Explicit[d.user], FALSE, FALSE)
  /\ UNCHANGED <<nextId, conf, backup, due>>

(* enable_user and disable_user visit the explicitly linked nodes,         *)
(* delete_user the effective ones.  An unchanged column is not written.    *)
SetUserStatus(r, u, s, todo) ==
  /\ LET same == userStatus[u] = s
     IN  Launch(r, IF same THEN NoWrites ELSE [NoWrites EXCEPT !.users[u] = s],
                IF same THEN {} ELSE {UserRow(u)}, todo, FALSE, FALSE)
  /\ UNCHANGED <<nextId, conf, backup, due>>

EnableUser(r, u) ==
  Ready(r, "user") /\ SetUserStatus(r, u, "active", Explicit[u])
DisableUser(r, u) ==
  Ready(r, "user") /\ SetUserStatus(r, u, "disabled", Explicit[u])
(* (Variant: a deletion that pushes nothing.) *)
DeleteUserSilent(r, u) ==
  /\ Ready(r, "user") /\ userStatus[u] # "deleted"
  /\ SetUserStatus(r, u, "deleted", {})

DeleteUser(r, u) ==
  /\ Ready(r, "user") /\ userStatus[u] # "deleted"
  /\ SetUserStatus(r, u, "deleted", Effective(u))

(* disable_node (maintenance_node alike) pushes an empty list although the *)
(* node is not online; enable_node marks it online and pushes its clients. *)
SetNodeStatus(r, n, s, anyNode) ==
  /\ Ready(r, "node")
  /\ LET same == nodeStatus[n] = s
     IN  Launch(r, IF same THEN NoWrites ELSE [NoWrites EXCEPT !.nodes[n] = s],
                IF same THEN {} ELSE {NodeRow(n)}, {n}, FALSE, anyNode)
  /\ UNCHANGED <<nextId, conf, backup, due>>

DisableNode(r, n) == SetNodeStatus(r, n, "disabled", TRUE)
EnableNode(r, n)  == SetNodeStatus(r, n, "online", FALSE)

(* POST /nodes/{id}/apply-config, whatever the node's status is. *)
ApplyNodeConfig(r, n) ==
  /\ Ready(r, "apply")
  /\ Launch(r, NoWrites, {}, {n}, FALSE, TRUE)
  /\ UNCHANGED <<nextId, conf, backup, due>>

(* POST /nodes/{id}/verify probes first and writes the status afterwards. *)
VerifyNode(r, n) ==
  /\ Ready(r, "verify")
  /\ flow' = [flow EXCEPT ![r] = [Idle EXCEPT !.pc = "verify", !.at = {n},
                                              !.tried = {n},
                                              !.status = nodeStatus[n]]]
  /\ UNCHANGED <<database, nextId, conf, backup, txn, held, due, blocked>>

VerifyReturns(r, s) ==
  /\ flow[r].pc = "verify" /\ ~blocked
  /\ s = "failed" => "ssh" \in Faults
  /\ Commit(r, [txn[r] EXCEPT !.nodes =
                  [n \in Node |-> IF n \in flow[r].at /\ flow[r].status # s
                                    THEN s ELSE txn[r].nodes[n]]],
            flow[r])
  /\ UNCHANGED <<nextId, conf, backup, due>>

-----------------------------------------------------------------------------
(* On the node: the new file is copied over config.json after a backup of  *)
(* the old one.  A command already sent runs even while the loop is stuck. *)
WriteLands(r) ==
  /\ flow[r].pc = "ssh" /\ flow[r].wrote = "no"
  /\ conf'   = [n \in Node |-> IF n \in flow[r].at THEN flow[r].clients ELSE conf[n]]
  /\ backup' = [n \in Node |-> IF n \in flow[r].at THEN conf[n] ELSE backup[n]]
  /\ flow'   = [flow EXCEPT ![r].wrote = "yes"]
  /\ UNCHANGED <<database, nextId, txn, held, due, blocked>>

(* Xray did not come up with the new file: the newest backup is restored. *)
RestoreLands(r) ==
  /\ "ssh" \in Faults
  /\ flow[r].pc = "ssh" /\ flow[r].wrote = "yes"
  /\ conf' = [n \in Node |-> IF n \in flow[r].at THEN backup[n] ELSE conf[n]]
  /\ flow' = [flow EXCEPT ![r].wrote = "restored"]
  /\ UNCHANGED <<database, nextId, backup, txn, held, due, blocked>>

(* apply_config came back with ok: the node is recorded as online unless   *)
(* the status loaded before the await was an admin's, then the loop goes   *)
(* on.  A column whose loaded value is unchanged is not written.           *)
ApplyReturns(r) ==
  LET f == flow[r]
      t == [txn[r] EXCEPT
              !.nodes = [n \in Node |->
                 IF n \in f.at /\ f.status = "failed" THEN "online" ELSE txn[r].nodes[n]],
              !.applies = [n \in Node |->
                 IF n \in f.at /\ f.applied # "success" THEN "success" ELSE txn[r].applies[n]]]
  IN  /\ f.pc = "ssh" /\ f.wrote = "yes" /\ ~blocked
      /\ Resume(r, t, [f EXCEPT !.tried = f.tried \cup f.at, !.at = {}], held[r])
      /\ UNCHANGED <<nextId, conf, backup, due>>

(* apply_config came back without ok (the node refused, the connection     *)
(* broke, Xray was rolled back), or, with late, the 25 seconds of the      *)
(* whole flow ran out and every node left is marked failed untouched.      *)
ApplyFails(r, late) ==
  LET f == flow[r]
      lost == f.at \cup IF late THEN f.todo ELSE {}
      t == [txn[r] EXCEPT !.applies = [n \in Node |->
              IF n \in lost /\ (n \in f.at => f.applied # "failed")
                            /\ (n \notin f.at => applyStatus[n] # "failed")
                THEN "failed" ELSE txn[r].applies[n]]]
  IN  /\ "ssh" \in Faults
      /\ f.pc = "ssh" /\ ~blocked
      /\ Resume(r, t, [f EXCEPT !.tried = f.tried \cup lost, !.at = {},
                                !.todo = f.todo \ lost, !.ok = FALSE], held[r])
      /\ UNCHANGED <<nextId, conf, backup, due>>

-----------------------------------------------------------------------------
(* enforce_expiration_and_limits runs in a worker thread: it reads the     *)
(* active users, and its UPDATEs wait for rows that handlers hold without  *)
(* stopping the loop, then overwrite whatever was committed in between.    *)
(* It pushes nothing to any node.                                          *)
EnforceSelect(us) ==
  /\ "enforce" \in Workload
  /\ due = {} /\ us # {}
  /\ \A u \in us : userStatus[u] = "active"
  /\ due' = us
  /\ UNCHANGED <<database, nextId, conf, backup, txn, held, flow, blocked>>

EnforceCommit ==
  /\ due # {}
  /\ \A r \in Request : held[r] \cap {UserRow(u) : u \in due} = {}
  /\ userStatus' = [u \in User |-> IF u \in due THEN "expired" ELSE userStatus[u]]
  /\ due' = {}
  /\ UNCHANGED <<devices, nodeStatus, applyStatus, nextId, conf, backup, txn,
                 held, flow, blocked>>

(* The process restarts: transactions roll back, coroutines are gone, what *)
(* reached the nodes stays.  The watchdog restarts a loop that hangs.      *)
Restart ==
  /\ txn'  = [r \in Request |-> NoWrites]
  /\ held' = [r \in Request |-> {}]
  /\ flow' = [r \in Request |-> Idle]
  /\ due' = {}
  /\ blocked' = FALSE
  /\ UNCHANGED <<database, nextId, conf, backup>>

(* (Variant: only a crash of the process restarts it.) *)
WatchdogSleeps == blocked /\ "restart" \in Faults /\ Restart

WatchdogRestart == blocked /\ Restart
CrashRestart    == "restart" \in Faults /\ Restart

-----------------------------------------------------------------------------
(* A synchronised deployment of active users, some with devices already. *)
Init ==
  /\ userStatus = [u \in User |-> "active"]
  /\ nodeStatus = [n \in Node |-> "online"]
  /\ applyStatus = [n \in Node |-> "success"]
  /\ devices = Enrolled
  /\ nextId = Cardinality(Enrolled) + 1
  /\ conf = [n \in Node |-> Desired(n)]
  /\ backup = [n \in Node |-> {}]
  /\ txn = [r \in Request |-> NoWrites]
  /\ held = [r \in Request |-> {}]
  /\ flow = [r \in Request |-> Idle]
  /\ due = {}
  /\ blocked = FALSE

Handler(r) ==
  \/ \E u \in User, h \in Hwid : RegisterDevice(r, u, h) \/ RefreshDevice(r, u, h)
  \/ \E d \in devices : RemoveDevice(r, d)
  \/ \E d \in devices, s \in DeviceStatus : PatchDevice(r, d, s)
  \/ \E u \in User : \/ ResetDevices(r, u)
                     \/ EnableUser(r, u)
                     \/ DisableUser(r, u)
                     \/ DeleteUser(r, u)
  \/ \E n \in Node : \/ DisableNode(r, n)
                     \/ EnableNode(r, n)
                     \/ ApplyNodeConfig(r, n)
                     \/ VerifyNode(r, n)

Await(r) ==
  \/ WriteLands(r)
  \/ RestoreLands(r)
  \/ ApplyReturns(r)
  \/ \E late \in BOOLEAN : ApplyFails(r, late)
  \/ \E s \in {"online", "failed"} : VerifyReturns(r, s)

Next ==
  \/ \E r \in Request : Handler(r) \/ Await(r)
  \/ \E us \in SUBSET User : EnforceSelect(us)
  \/ EnforceCommit
  \/ WatchdogRestart
  \/ CrashRestart

Spec == Init /\ [][Next]_vars

(* The node or the 25-second deadline answers every await, and the         *)
(* watchdog timer restarts a backend whose health check hangs.  PostgreSQL *)
(* queues the waiters of a row lock, so the sweep's turn comes even if     *)
(* handlers keep taking the rows.                                          *)
FairSpec == /\ Spec
            /\ \A r \in Request : WF_vars(Await(r))
            /\ WF_vars(WatchdogRestart)
            /\ SF_vars(EnforceCommit)

-----------------------------------------------------------------------------
(* Properties.                                                             *)

(* The shape of the state. *)
TypeOK ==
  /\ userStatus \in [User -> UserStatus]
  /\ devices \subseteq Device
  /\ nodeStatus \in [Node -> NodeStatus]
  /\ applyStatus \in [Node -> ApplyStatus]
  /\ nextId \in 1..(MaxDevices + 1)
  /\ conf \in [Node -> SUBSET DeviceId]
  /\ backup \in [Node -> SUBSET DeviceId]
  /\ txn \in [Request -> Txn]
  /\ held \in [Request -> SUBSET Row]
  /\ flow \in [Request -> Flow]
  /\ due \subseteq User
  /\ blocked \in BOOLEAN

Quiescent == \A r \in Request : flow[r].pc = "idle"

(* The row locks of concurrent registrations, removals and edits keep one  *)
(* row per user and hardware id in what is committed, and no UUID is ever  *)
(* given to two rows.                                                      *)
UniqueDevices == \A d, e \in devices : SameKey(d, e) \/ d.id = e.id => d = e

(* Writes t under row locks `rows' cannot collide with what is committed    *)
(* or with any other request's writes, whatever commits first.             *)
Protected(r, t, rows) ==
  /\ Free(r, rows)
  /\ \A d \in t.del : d \in devices /\ DeviceRow(d) \in rows
  /\ \A a, b \in t.add : a = b
  /\ \A a \in t.add :
       /\ \A d \in devices : SameKey(d, a) \/ d.id = a.id => d \in t.del
       /\ HwidRow(a.user, a.hwid) \in rows \/ \E d \in t.del : SameKey(d, a)
       /\ \A s \in Request \ {r} : \A b \in txn[s].add : a.id # b.id

(* UniqueDevices made inductive: every transaction in flight is protected  *)
(* by the rows it holds, and every UUID in use was handed out before.      *)
LockInv ==
  /\ UniqueDevices
  /\ \A r \in Request : Protected(r, txn[r], held[r])
  /\ \A d \in devices : d.id < nextId
  /\ \A r \in Request : \A a \in txn[r].add : a.id < nextId

(* A user never has more active devices than device_limit: subscription    *)
(* checks the count before it awaits the apply and commits after it.       *)
LimitRespected ==
  \A u \in User :
    Cardinality({d \in devices : d.user = u /\ d.status = "active"}) <= DeviceLimit

(* A device that a subscription request commits is accepted by every node  *)
(* its user may use at that moment: a config is only handed out for a      *)
(* device that works.                                                      *)
CommitServed ==
  [][\A d \in devices' : (\A e \in devices : e.id # d.id) =>
       \A n \in Effective(d.user) : d.id \in conf'[n]]_vars

(* A device whose removal is committed is accepted by no node its user may *)
(* use: removing a device cuts it off.                                     *)
RemovalServed ==
  [][\A d \in devices : (\A e \in devices' : e.id # d.id) =>
       \A n \in Effective(d.user) : d.id \notin conf'[n]]_vars

(* When no request is in flight, every node that answers serves exactly    *)
(* the clients that follow from the database, whatever succeeded, was      *)
(* rejected or was rolled back before.                                     *)
QuiescentSync ==
  Quiescent => \A n \in Node : nodeStatus[n] # "failed" => conf[n] = Desired(n)

(* When no request is in flight, a user whom an admin disabled or deleted  *)
(* is accepted by no node.                                                 *)
InactiveExcluded ==
  Quiescent => \A d \in devices, n \in Node :
    userStatus[d.user] \in {"disabled", "deleted"} => d.id \notin conf[n]

(* No request waits for a row inside the event loop: the second request    *)
(* for the same hardware id is answered with the first one's device.       *)
NobodyStuck == \A r \in Request : flow[r].pc # "stuck"

(* Every request ends: with an answer, or with a restart of the backend    *)
(* when the loop waits for itself.                                         *)
RequestsEnd == \A r \in Request : flow[r].pc # "idle" ~> flow[r].pc = "idle"

(* The scheduler's sweep gets its rows in the end. *)
SweepEnds == due # {} ~> due = {}
=============================================================================
