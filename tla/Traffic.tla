------------------------------ MODULE Traffic ------------------------------
(***************************************************************************)
(* Traffic accounting.  Xray on a node counts the bytes of each client and *)
(* of the inbound they use; the counters start from zero whenever Xray     *)
(* restarts, which every applied configuration causes.  collect_traffic    *)
(* asks the nodes one after the other and turns the counters into deltas   *)
(* against the last value stored; collect_nodes_metrics does the same with *)
(* the inbound counter.  Both are coroutines that await SSH and commit     *)
(* once, at the end.                                                       *)
(*                                                                         *)
(* A coroutine works on the objects of its session: the rows of a user are *)
(* read when one of its devices is first found in an answer, changed in    *)
(* memory, and written at the commit with the values computed in memory,   *)
(* an UPDATE naming the columns that differ from what was read.            *)
(*                                                                         *)
(* Abstracted: upload and download are one counter, every node is online,  *)
(* clients carry device emails (legacy username clients are left out), and *)
(* the row locks of the flush, which ConfigSync models.                    *)
(***************************************************************************)
EXTENDS Integers, Sequences, FiniteSetsExt

CONSTANTS
  User,       (* VPN users                                                *)
  Device,     (* their devices                                            *)
  Node,       (* VPS nodes                                                *)
  Order,      (* the nodes in the order a collection visits them          *)
  Owner,      (* [Device -> User]                                         *)
  Usable,     (* [Device -> SUBSET Node]: where the device is a client    *)
  Limit,      (* [User -> Nat]: traffic_limit_bytes, 0 for none           *)
  MaxBytes,   (* [Device -> Nat], bound: bytes each device ever sends     *)
  Collector,  (* slots for traffic collections in flight at the same time *)
  Meter       (* slots for metrics requests in flight at the same time    *)

(* Without nodes both requests return at once. *)
ASSUME TrafficAssumption ==
  /\ Order \in Seq(Node) /\ Order # << >>
  /\ Owner \in [Device -> User]
  /\ Usable \in [Device -> SUBSET Node]
  /\ Limit \in [User -> Nat]
  /\ MaxBytes \in [Device -> Nat]
  /\ IsFiniteSet(Device)

VARIABLES
  counter,  (* [Node -> [Device -> Nat]]: Xray's user counters            *)
  inbound,  (* [Node -> Nat]: Xray's inbound counter                      *)
  rows,     (* the devices whose row exists                               *)
  db,       (* committed device and user columns; the columns of a        *)
            (* removed row keep their last values and are not used again  *)
  nodes,    (* committed node columns                                     *)
  history,  (* traffic_snapshots summed per node: .user, .node (user NULL)*)
  collect,  (* the session of each collection                             *)
  measure,  (* the session of each metrics request                        *)
  sent,     (* history variable: bytes each device has sent               *)
  carried   (* history variable: bytes each node has carried              *)

vars == <<counter, inbound, rows, db, nodes, history, collect, measure, sent, carried>>

-----------------------------------------------------------------------------
UserStatus == {"active", "limited", "disabled"}

Ledger == [raw: [Device -> Nat], total: [Device -> Nat],
           used: [User -> Nat], status: [User -> UserStatus]]
Blank  == [raw |-> [d \in Device |-> 0], total |-> [d \in Device |-> 0],
           used |-> [u \in User |-> 0], status |-> [u \in User |-> "active"]]

NodeLedger == [raw: Nat, total: Nat]
NoTraffic  == [raw |-> 0, total |-> 0]

Silent == [d \in Device |-> 0]
None   == [n \in Node |-> 0]

(* pc: "idle", about to ask the first node of todo ("ask"), its answer in  *)
(* hand while the connection closes ("apply").  hit: devices found so far. *)
IdleCollect == [pc |-> "idle", todo |-> << >>, answer |-> Silent, hit |-> {},
                base |-> Blank, mine |-> Blank, snaps |-> None]
IdleMeasure == [pc |-> "idle", todo |-> << >>, answer |-> 0, snaps |-> None,
                base |-> [n \in Node |-> NoTraffic], mine |-> [n \in Node |-> NoTraffic]]

Total(f, S) == MapThenSumSet(LAMBDA x : f[x], S)

(* The columns of users P from ledger a, of all other users from b. *)
Overlay(P, a, b) ==
  [raw    |-> [d \in Device |-> IF Owner[d] \in P THEN a.raw[d] ELSE b.raw[d]],
   total  |-> [d \in Device |-> IF Owner[d] \in P THEN a.total[d] ELSE b.total[d]],
   used   |-> [u \in User |-> IF u \in P THEN a.used[u] ELSE b.used[u]],
   status |-> [u \in User |-> IF u \in P THEN a.status[u] ELSE b.status[u]]]

(* What a flush leaves of `now': columns that differ from the value read   *)
(* are overwritten.                                                        *)
Flush(base, mine, now) ==
  [x \in DOMAIN now |-> IF mine[x] # base[x] THEN mine[x] ELSE now[x]]

(* An UPDATE changes rows that exist. *)
InRows(new, old) == [d \in Device |-> IF d \in rows THEN new[d] ELSE old[d]]

-----------------------------------------------------------------------------
(* The clients and Xray.                                                   *)

SendByte(d, n) ==
  /\ d \in rows /\ n \in Usable[d] /\ sent[d] < MaxBytes[d]
  /\ counter' = [counter EXCEPT ![n][d] = @ + 1]
  /\ inbound' = [inbound EXCEPT ![n] = @ + 1]
  /\ sent' = [sent EXCEPT ![d] = @ + 1]
  /\ carried' = [carried EXCEPT ![n] = @ + 1]
  /\ UNCHANGED <<rows, db, nodes, history, collect, measure>>

RestartXray(n) ==
  /\ counter' = [counter EXCEPT ![n] = Silent]
  /\ inbound' = [inbound EXCEPT ![n] = 0]
  /\ UNCHANGED <<rows, db, nodes, history, collect, measure, sent, carried>>

-----------------------------------------------------------------------------
(* The delta rule, the same for devices and for nodes.                     *)

(* (Variants of the next operator: the value is charged as it is; a reset  *)
(* goes unnoticed.)                                                        *)
DeltaUnbased(old, raw) == raw
DeltaSigned(old, raw)  == raw - old

(* A counter below the stored value was reset: nothing is charged. *)
Delta(old, raw) == IF raw < old THEN 0 ELSE raw - old

(* apply_device_raw_counters for every device of `hits', on ledger v. *)
Charged(v, hits, answer) ==
  LET delta == [d \in Device |-> IF d \in hits THEN Delta(v.raw[d], answer[d]) ELSE 0]
      used  == [u \in User |-> v.used[u] + Total(delta, {d \in hits : Owner[d] = u})]
  IN [raw    |-> [d \in Device |-> IF d \in hits THEN answer[d] ELSE v.raw[d]],
      total  |-> [d \in Device |-> v.total[d] + delta[d]],
      used   |-> used,
      status |-> [u \in User |->
                    IF /\ \E d \in hits : Owner[d] = u
                       /\ Limit[u] > 0 /\ used[u] >= Limit[u]
                      THEN "limited" ELSE v.status[u]]]

(* (Variant: what Xray reported is recorded.) *)
RecordedRaw(v, hits, answer) == Total(answer, hits)

(* The bytes apply_xray_stats records in snapshots of the node. *)
Recorded(v, hits, answer) ==
  Total([d \in Device |-> Delta(v.raw[d], answer[d])], hits)

Hits(c)   == {d \in rows : collect[c].answer[d] > 0}
Pinned(c) == {Owner[d] : d \in collect[c].hit}
View(c)   == Overlay(Pinned(c), collect[c].mine, db)

(* Devices whose columns the flush writes. *)
Changed(s) == {d \in s.hit : s.mine.raw[d] # s.base.raw[d] \/ s.mine.total[d] # s.base.total[d]}

-----------------------------------------------------------------------------
(* collect_traffic.                                                        *)

StartCollect(c, todo) ==
  /\ collect[c].pc = "idle"
  /\ collect' = [collect EXCEPT ![c] = [IdleCollect EXCEPT !.pc = "ask", !.todo = todo]]
  /\ UNCHANGED <<counter, inbound, rows, db, nodes, history, measure, sent, carried>>

(* (Variant: a missing row goes unnoticed.) *)
CommitsAlways(s) == TRUE

(* An UPDATE of a row that has been deleted since raises StaleDataError;   *)
(* last_seen_delta_bytes is written as well, so that an unchanged device   *)
(* that was found may or may not need one.                                 *)
MayCommit(s) == Changed(s) \subseteq rows

Commit(c, s) ==
  /\ MayCommit(s)
  /\ db' = [raw    |-> InRows(Flush(s.base.raw, s.mine.raw, db.raw), db.raw),
            total  |-> InRows(Flush(s.base.total, s.mine.total, db.total), db.total),
            used   |-> Flush(s.base.used, s.mine.used, db.used),
            status |-> Flush(s.base.status, s.mine.status, db.status)]
  /\ history' = [n \in Node |-> [history[n] EXCEPT !.user = @ + s.snaps[n]]]
  /\ collect' = [collect EXCEPT ![c] = IdleCollect]

Abort(c, s) ==
  /\ ~(s.hit \subseteq rows)
  /\ collect' = [collect EXCEPT ![c] = IdleCollect]
  /\ UNCHANGED <<db, history>>

(* On to the next node, or to the only commit. *)
Proceed(c, s) ==
  \/ /\ s.todo # << >>
     /\ collect' = [collect EXCEPT ![c] = s]
     /\ UNCHANGED <<db, history>>
  \/ s.todo = << >> /\ (Commit(c, s) \/ Abort(c, s))

AskXray(c) ==
  /\ collect[c].pc = "ask"
  /\ collect' = [collect EXCEPT ![c] =
                   [@ EXCEPT !.pc = "apply", !.answer = counter[Head(collect[c].todo)]]]
  /\ UNCHANGED <<counter, inbound, rows, db, nodes, history, measure, sent, carried>>

(* SSH or the stats command failed: the node is skipped. *)
SkipNode(c) ==
  /\ collect[c].pc = "ask"
  /\ Proceed(c, [collect[c] EXCEPT !.todo = Tail(@)])
  /\ UNCHANGED <<counter, inbound, rows, nodes, measure, sent, carried>>

(* apply_xray_stats. *)
ApplyStats(c) ==
  /\ collect[c].pc = "apply"
  /\ LET s      == collect[c]
         hit    == s.hit \cup Hits(c)
         users  == {Owner[d] : d \in hit}
     IN Proceed(c,
          [pc     |-> "ask",
           todo   |-> Tail(s.todo),
           answer |-> Silent,
           hit    |-> hit,
           base   |-> Overlay(users, Overlay(Pinned(c), s.base, db), Blank),
           mine   |-> Overlay(users, Charged(View(c), Hits(c), s.answer), Blank),
           snaps  |-> [s.snaps EXCEPT ![Head(s.todo)] =
                         @ + Recorded(View(c), Hits(c), s.answer)]])
  /\ UNCHANGED <<counter, inbound, rows, nodes, measure, sent, carried>>

-----------------------------------------------------------------------------
(* collect_nodes_metrics: the node rows are read before the first SSH.     *)

StartMeasure(m) ==
  /\ measure[m].pc = "idle"
  /\ measure' = [measure EXCEPT ![m] = [IdleMeasure EXCEPT
                   !.pc = "ask", !.todo = Order, !.base = nodes, !.mine = nodes]]
  /\ UNCHANGED <<counter, inbound, rows, db, nodes, history, collect, sent, carried>>

AskInbound(m) ==
  /\ measure[m].pc = "ask"
  /\ measure' = [measure EXCEPT ![m] =
                   [@ EXCEPT !.pc = "apply", !.answer = inbound[Head(measure[m].todo)]]]
  /\ UNCHANGED <<counter, inbound, rows, db, nodes, history, collect, sent, carried>>

(* (Variant: the counter read is not stored.) *)
MeteredUnbased(old, raw) ==
  IF raw = 0 THEN old ELSE [raw |-> old.raw, total |-> old.total + Delta(old.raw, raw)]

(* apply_node_raw_counters, unless the answer is zero. *)
Metered(old, raw) ==
  IF raw = 0 THEN old ELSE [raw |-> raw, total |-> old.total + Delta(old.raw, raw)]

(* (Variant of the next operator: snapshots are stored node by node.) *)
MeasureNextEager(m, s) ==
  /\ history' = [n \in Node |-> [history[n] EXCEPT !.node = @ + s.snaps[n]]]
  /\ IF s.todo # << >>
       THEN measure' = [measure EXCEPT ![m] = [s EXCEPT !.snaps = None]] /\ UNCHANGED nodes
       ELSE /\ nodes' = [n \in Node |-> Flush(s.base[n], s.mine[n], nodes[n])]
            /\ measure' = [measure EXCEPT ![m] = IdleMeasure]

(* The next node, or the commit. *)
MeasureNext(m, s) ==
  IF s.todo # << >>
    THEN measure' = [measure EXCEPT ![m] = s] /\ UNCHANGED <<nodes, history>>
    ELSE /\ nodes' = [n \in Node |-> Flush(s.base[n], s.mine[n], nodes[n])]
         /\ history' = [n \in Node |-> [history[n] EXCEPT !.node = @ + s.snaps[n]]]
         /\ measure' = [measure EXCEPT ![m] = IdleMeasure]

SkipMeasure(m) ==
  /\ measure[m].pc = "ask"
  /\ MeasureNext(m, [measure[m] EXCEPT !.todo = Tail(@)])
  /\ UNCHANGED <<counter, inbound, rows, db, collect, sent, carried>>

ApplyInbound(m) ==
  /\ measure[m].pc = "apply"
  /\ LET s   == measure[m]
         n   == Head(s.todo)
         new == Metered(s.mine[n], s.answer)
     IN MeasureNext(m, [s EXCEPT !.pc = "ask", !.answer = 0, !.todo = Tail(@),
                          !.mine[n] = new,
                          !.snaps[n] = @ + (new.total - s.mine[n].total)])
  /\ UNCHANGED <<counter, inbound, rows, db, collect, sent, carried>>

-----------------------------------------------------------------------------
(* Handlers that change the same rows.                                     *)

RemoveDevice(d) ==
  /\ d \in rows
  /\ rows' = rows \ {d}
  /\ UNCHANGED <<counter, inbound, db, nodes, history, collect, measure, sent, carried>>

(* reset_user_traffic: the user's columns only. *)
ResetTraffic(u) ==
  /\ db' = [db EXCEPT !.used[u] = 0,
                      !.status[u] = IF @ = "limited" THEN "active" ELSE @]
  /\ UNCHANGED <<counter, inbound, rows, nodes, history, collect, measure, sent, carried>>

DisableUser(u) ==
  /\ db' = [db EXCEPT !.status[u] = "disabled"]
  /\ UNCHANGED <<counter, inbound, rows, nodes, history, collect, measure, sent, carried>>

EnableUser(u) ==
  /\ db' = [db EXCEPT !.status[u] = "active"]
  /\ UNCHANGED <<counter, inbound, rows, nodes, history, collect, measure, sent, carried>>

OverLimit(u) == Limit[u] > 0 /\ db.used[u] >= Limit[u]

(* (Variant of the next action: the limit itself is still allowed.) *)
EnforceStrict ==
  LET Over(u) == db.status[u] = "active" /\ OverLimit(u) /\ db.used[u] # Limit[u]
  IN /\ \E u \in User : Over(u)
     /\ db' = [db EXCEPT !.status =
                 [u \in User |-> IF Over(u) THEN "limited" ELSE @[u]]]
     /\ UNCHANGED <<counter, inbound, rows, nodes, history, collect, measure, sent, carried>>

(* enforce_expiration_and_limits, every five minutes. *)
Enforce ==
  /\ \E u \in User : db.status[u] = "active" /\ OverLimit(u)
  /\ db' = [db EXCEPT !.status =
              [u \in User |-> IF @[u] = "active" /\ OverLimit(u) THEN "limited" ELSE @[u]]]
  /\ UNCHANGED <<counter, inbound, rows, nodes, history, collect, measure, sent, carried>>

(* The process restarts: nothing uncommitted is left. *)
Restart ==
  /\ collect' = [c \in Collector |-> IdleCollect]
  /\ measure' = [m \in Meter |-> IdleMeasure]
  /\ UNCHANGED <<counter, inbound, rows, db, nodes, history, sent, carried>>

-----------------------------------------------------------------------------
Init ==
  /\ counter = [n \in Node |-> Silent]
  /\ inbound = None
  /\ rows = Device
  /\ db = Blank
  /\ nodes = [n \in Node |-> NoTraffic]
  /\ history = [n \in Node |-> [user |-> 0, node |-> 0]]
  /\ collect = [c \in Collector |-> IdleCollect]
  /\ measure = [m \in Meter |-> IdleMeasure]
  /\ sent = Silent
  /\ carried = None

Collection(c) ==
  \/ StartCollect(c, Order) \/ \E n \in Node : StartCollect(c, <<n>>)
  \/ AskXray(c) \/ SkipNode(c) \/ ApplyStats(c)

Metering(m) == StartMeasure(m) \/ AskInbound(m) \/ SkipMeasure(m) \/ ApplyInbound(m)

Next ==
  \/ \E d \in Device : RemoveDevice(d) \/ \E n \in Node : SendByte(d, n)
  \/ \E n \in Node : RestartXray(n)
  \/ \E c \in Collector : Collection(c)
  \/ \E m \in Meter : Metering(m)
  \/ \E u \in User : ResetTraffic(u) \/ DisableUser(u) \/ EnableUser(u)
  \/ Enforce
  \/ Restart

Spec == Init /\ [][Next]_vars

(* The scheduler runs enforce_expiration_and_limits forever. *)
FairSpec == Spec /\ WF_vars(Enforce)

-----------------------------------------------------------------------------
(* Properties.                                                             *)

Session == [pc: {"idle", "ask", "apply"}, todo: Seq(Node), answer: [Device -> Nat],
            hit: SUBSET Device, base: Ledger, mine: Ledger, snaps: [Node -> Nat]]
Metrics == [pc: {"idle", "ask", "apply"}, todo: Seq(Node), answer: Nat,
            base: [Node -> NodeLedger], mine: [Node -> NodeLedger], snaps: [Node -> Nat]]

(* The shape of the state. *)
TypeOK ==
  /\ counter \in [Node -> [Device -> Nat]]
  /\ inbound \in [Node -> Nat]
  /\ rows \in SUBSET Device
  /\ db \in Ledger
  /\ nodes \in [Node -> NodeLedger]
  /\ history \in [Node -> [user: Nat, node: Nat]]
  /\ collect \in [Collector -> Session]
  /\ measure \in [Meter -> Metrics]
  /\ \A c \in Collector : collect[c].pc # "idle" => collect[c].todo # << >>
  /\ \A m \in Meter : measure[m].pc # "idle" => measure[m].todo # << >>
  /\ sent \in [Device -> Nat]
  /\ carried \in [Node -> Nat]

(* A device is never charged a byte it did not send, whatever restarts,    *)
(* skipped nodes, aborted collections and resets come in between.          *)
DeviceNotOvercharged == \A d \in Device : db.total[d] <= sent[d]

(* What a device or a node has been charged is never taken back, not when  *)
(* a counter falls nor when a collection commits over a traffic reset.     *)
TotalsGrow ==
  [][/\ \A d \in Device : db.total[d] <= db'.total[d]
     /\ \A n \in Node : nodes[n].total <= nodes'[n].total]_vars

(* The VPN traffic a node card starts from never exceeds what it carried.  *)
NodeNotOvercharged == \A n \in Node : nodes[n].total <= carried[n]

(* A user is never charged more than the user's devices, present and past. *)
UserWithinDevices ==
  \A u \in User : db.used[u] <= Total(db.total, {d \in Device : Owner[d] = u})

(* The snapshots of a node add up to what was charged for it: to the       *)
(* devices that are clients there, and to the node itself.                 *)
HistoryMatches ==
  \A n \in Node :
    /\ history[n].user = Total(db.total, {d \in Device : n \in Usable[d]})
    /\ history[n].node = nodes[n].total

(* A user is never charged more than the user's devices have sent. *)
UserNotOvercharged ==
  \A u \in User : db.used[u] <= Total(sent, {d \in Device : Owner[d] = u})

(* An active user at or over the limit does not stay that way.             *)
OverLimitCaught ==
  \A u \in User : (db.status[u] = "active" /\ OverLimit(u))
                    ~> ~(db.status[u] = "active" /\ OverLimit(u))
=============================================================================
