-------------------------- MODULE ConfigSyncProofs --------------------------
(***************************************************************************)
(* What holds of ConfigSync for every deployment, limit, workload and set  *)
(* of faults: types, locks and unique devices however many requests are in *)
(* flight; what commits promise of the nodes for one request at a time     *)
(* (OneAtATime), and the synchronised quiet state besides only where no    *)
(* apply can fail (CleanWork), because the code promises no more.          *)
(***************************************************************************)
EXTENDS ConfigSync, TLAPS

(* The two halves of TypeOK: what commits, rollbacks and flushes write, and *)
(* the rest.                                                                *)
TypeDb ==
  /\ userStatus \in [User -> UserStatus]
  /\ devices \subseteq Device
  /\ nodeStatus \in [Node -> NodeStatus]
  /\ applyStatus \in [Node -> ApplyStatus]
  /\ txn \in [Request -> Txn]
  /\ held \in [Request -> SUBSET Row]
  /\ flow \in [Request -> Flow]
  /\ blocked \in BOOLEAN

TypeRest ==
  /\ nextId \in 1..(MaxDevices + 1)
  /\ conf \in [Node -> SUBSET DeviceId]
  /\ backup \in [Node -> SUBSET DeviceId]
  /\ due \subseteq User

-----------------------------------------------------------------------------
(* The initial locals and the empty set of writes are well typed. *)
LEMMA IdleType == Idle \in Flow
  BY DEF Idle, Flow, NodeStatus, ApplyStatus

(* An empty transaction is a transaction. *)
LEMMA NoWritesType == NoWrites \in Txn
  BY DEF NoWrites, Txn

(* The users loaded by _fresh_users have device rows. *)
LEMMA FreshUsersType ==
  ASSUME TypeDb, NEW t \in Txn
  PROVE  FreshUsers(t) \subseteq Device
  BY DEF TypeDb, FreshUsers, SeenDevices, Txn

(* A rendered config lists UUIDs. *)
LEMMA RenderType ==
  ASSUME NEW snapshot \in SUBSET Device, NEW n, NEW status
  PROVE  Render(snapshot, n, status) \subseteq DeviceId
  BY DEF Render, Device

(* What a transaction reads of a status column is a status. *)
LEMMA SeenType ==
  ASSUME TypeDb, NEW t \in Txn
  PROVE  /\ \A u \in User : SeenUser(t, u) \in UserStatus
         /\ \A n \in Node : SeenNode(t, n) \in NodeStatus
         /\ SeenDevices(t) \subseteq Device
  BY DEF TypeDb, Txn, SeenUser, SeenNode, SeenDevices, UserStatus, NodeStatus

-----------------------------------------------------------------------------
(* Whatever ends a request keeps the types: a commit, a rollback, waiting. *)
LEMMA EndType ==
  ASSUME TypeDb, NEW r \in Request, EndRequest(r)
  PROVE  /\ txn' \in [Request -> Txn]
         /\ held' \in [Request -> SUBSET Row]
         /\ flow' \in [Request -> Flow]
  BY IdleType, NoWritesType DEF TypeDb, EndRequest

(* A handler that waits for a row changes no value's type. *)
LEMMA BlockType ==
  ASSUME TypeDb, NEW r \in Request, Block(r)
  PROVE  TypeDb'
<1>1. flow' \in [Request -> Flow]
  BY DEF TypeDb, Block, Flow
<1> QED
  BY <1>1 DEF TypeDb, Block, database

(* A commit writes rows and columns of the declared shape. *)
LEMMA CommitType ==
  ASSUME TypeDb, NEW r \in Request, NEW t \in Txn, NEW f, Commit(r, t, f)
  PROVE  TypeDb'
<1>1. CASE Free(r, {NodeRow(n) : n \in f.tried})
  <2>1. applyStatus' \in [Node -> ApplyStatus]
    BY <1>1 DEF TypeDb, Commit, Txn, ApplyStatus
  <2>2. devices' \subseteq Device
    BY <1>1 DEF TypeDb, Commit, Txn
  <2>3. EndRequest(r) /\ blocked' = blocked
    BY <1>1 DEF Commit
  <2>4. userStatus' \in [User -> UserStatus] /\ nodeStatus' \in [Node -> NodeStatus]
    BY <1>1, SeenType DEF Commit
  <2> QED
    BY <2>1, <2>2, <2>3, <2>4, EndType DEF TypeDb
<1>2. CASE ~Free(r, {NodeRow(n) : n \in f.tried})
  BY <1>2, BlockType DEF Commit
<1> QED
  BY <1>1, <1>2

(* So does the end of a handler, by commit or rollback. *)
LEMMA SettleType ==
  ASSUME TypeDb, NEW r \in Request, NEW t \in Txn, NEW f, Settle(r, t, f)
  PROVE  TypeDb'
<1>1. CASE Rollback(r)
  BY <1>1, EndType DEF Rollback, database, TypeDb
<1> QED
  BY <1>1, CommitType DEF Settle

(* So does the loop of apply_to_nodes between two awaits. *)
LEMMA ResumeType ==
  ASSUME TypeDb, NEW r \in Request, NEW t \in Txn, NEW f \in Flow,
         NEW rows \in SUBSET Row, Resume(r, t, f, rows)
  PROVE  TypeDb'
<1> DEFINE ready == {n \in f.todo : f.anyNode \/ SeenNode(t, n) = "online"}
<1>1. CASE ready = {} /\ Settle(r, t, [f EXCEPT !.ok = f.ok /\ f.todo = {}])
  BY <1>1, SettleType
<1>2. ASSUME NEW n \in ready,
             flow' = [flow EXCEPT ![r] =
                [f EXCEPT !.pc = "ssh", !.at = {n},
                          !.todo = {m \in f.todo : m > n},
                          !.ok = f.ok /\ \A m \in f.todo : n <= m,
                          !.clients = Render(f.snapshot, n, SeenNode(t, n)),
                          !.status = SeenNode(t, n),
                          !.applied = applyStatus[n],
                          !.wrote = "no"]],
             txn' = [txn EXCEPT ![r] = t],
             held' = [held EXCEPT ![r] = rows],
             UNCHANGED <<database, blocked>>
      PROVE  TypeDb'
  <2>1. n \in Node
    BY DEF Flow
  <2>2. SeenNode(t, n) \in NodeStatus /\ applyStatus[n] \in ApplyStatus
    BY <2>1, SeenType DEF TypeDb
  <2>3. Render(f.snapshot, n, SeenNode(t, n)) \in SUBSET DeviceId
    BY RenderType DEF Flow
  <2>4. {m \in f.todo : m > n} \in SUBSET Node /\ {n} \in SUBSET Node
    BY <2>1 DEF Flow
  <2>5. (f.ok /\ \A m \in f.todo : n <= m) \in BOOLEAN
    OBVIOUS
  <2>6. flow'[r] \in Flow
    BY <1>2, <2>2, <2>3, <2>4, <2>5 DEF TypeDb, Flow
  <2>7. flow' \in [Request -> Flow]
    BY <1>2, <2>6 DEF TypeDb
  <2> QED
    BY <1>2, <2>7 DEF TypeDb, database
<1> QED
  BY <1>1, <1>2 DEF Resume

(* So does the start of an apply, or the wait for a row in its place. *)
LEMMA LaunchType ==
  ASSUME TypeDb, NEW r \in Request, NEW t \in Txn, NEW rows \in SUBSET Row,
         NEW todo \in SUBSET Node, NEW strict \in BOOLEAN, NEW anyNode \in BOOLEAN,
         Launch(r, t, rows, todo, strict, anyNode)
  PROVE  TypeDb'
<1> DEFINE f == [Idle EXCEPT !.strict = strict, !.anyNode = anyNode,
                             !.todo = todo, !.snapshot = FreshUsers(t)]
<1>1. f \in Flow
  BY IdleType, FreshUsersType DEF Flow
<1>2. CASE Resume(r, t, f, rows)
  BY <1>1, <1>2, ResumeType
<1> QED
  BY <1>2, BlockType DEF Launch

-----------------------------------------------------------------------------
(* The rows a handler locks and the writes it makes are well typed. *)
LEMMA RowsType ==
  ASSUME NEW S \in SUBSET Device
  PROVE  {DeviceRow(d) : d \in S} \in SUBSET Row
  BY DEF DeviceRow, Row, Device

(* Devices to add and to delete make a transaction. *)
LEMMA WritesType ==
  ASSUME NEW A \in SUBSET Device, NEW D \in SUBSET Device
  PROVE  [NoWrites EXCEPT !.add = A, !.del = D] \in Txn
  BY NoWritesType DEF Txn

(* Every handler, up to its first await, keeps the types. *)
LEMMA HandlerType ==
  ASSUME TypeDb, TypeRest, NEW r \in Request, Handler(r)
  PROVE  TypeDb' /\ TypeRest'
<1>1. ASSUME NEW u \in User, NEW h \in Hwid, RegisterDevice(r, u, h)
      PROVE  TypeDb' /\ TypeRest'
  <2> DEFINE stale == {e \in {d \in devices : d.user = u} : e.hwid = h}
             d == [id |-> nextId, user |-> u, hwid |-> h, status |-> "active"]
             t == [NoWrites EXCEPT !.add = {d}, !.del = stale]
             rows == {DeviceRow(e) : e \in stale} \cup {HwidRow(u, h)}
  <2>1. d \in Device /\ stale \in SUBSET Device
    BY <1>1 DEF RegisterDevice, Device, DeviceStatus, TypeDb
  <2>2. t \in Txn
    BY <2>1, WritesType
  <2>3. HwidRow(u, h) \in Row
    BY DEF HwidRow, Row
  <2>4. rows \in SUBSET Row
    BY <2>1, <2>3, RowsType
  <2>5. Effective(u) \in SUBSET Node
    BY LinkAssumption DEF Effective
  <2>6. CASE Launch(r, t, rows, Effective(u), TRUE, FALSE) /\ nextId' = nextId + 1
    <3>1. TypeDb'
      BY <2>2, <2>4, <2>5, <2>6, LaunchType
    <3>2. nextId' \in 1..(MaxDevices + 1)
      BY <1>1, <2>6, BoundAssumption DEF RegisterDevice, DeviceId
    <3> QED
      BY <1>1, <3>1, <3>2 DEF RegisterDevice, TypeRest
  <2>7. CASE Block(r) /\ UNCHANGED nextId
    BY <1>1, <2>7, BlockType DEF RegisterDevice, TypeRest
  <2> QED
    BY <1>1, <2>6, <2>7 DEF RegisterDevice
<1>2. ASSUME NEW u \in User, NEW h \in Hwid, RefreshDevice(r, u, h)
      PROVE  TypeDb' /\ TypeRest'
  BY <1>2, BlockType DEF RefreshDevice, TypeRest
<1>3. ASSUME NEW d \in devices, RemoveDevice(r, d)
      PROVE  TypeDb' /\ TypeRest'
  <2>1. d \in Device
    BY DEF TypeDb
  <2>2. [NoWrites EXCEPT !.del = {d}] \in Txn
    BY <2>1, NoWritesType DEF Txn
  <2>3. {DeviceRow(d)} \in SUBSET Row
    BY <2>1 DEF DeviceRow, Row, Device
  <2>4. Effective(d.user) \in SUBSET Node
    BY <2>1, LinkAssumption DEF Effective, Device
  <2>5. TypeDb'
    BY <1>3, <2>2, <2>3, <2>4, LaunchType DEF RemoveDevice
  <2> QED
    BY <1>3, <2>5 DEF RemoveDevice, TypeRest
<1>4. ASSUME NEW d \in devices, NEW s \in DeviceStatus, PatchDevice(r, d, s)
      PROVE  TypeDb' /\ TypeRest'
  <2>1. d \in Device /\ [d EXCEPT !.status = s] \in Device
    BY DEF TypeDb, Device
  <2>2. [NoWrites EXCEPT !.del = {d}, !.add = {[d EXCEPT !.status = s]}] \in Txn
    BY <2>1, NoWritesType DEF Txn
  <2>3. {DeviceRow(d)} \in SUBSET Row
    BY <2>1 DEF DeviceRow, Row, Device
  <2>4. Explicit[d.user] \in SUBSET Node
    BY <2>1, LinkAssumption DEF Device
  <2>5. TypeDb'
    BY <1>4, <2>2, <2>3, <2>4, LaunchType DEF PatchDevice
  <2> QED
    BY <1>4, <2>5 DEF PatchDevice, TypeRest
<1>5. ASSUME NEW u \in User, ResetDevices(r, u)
      PROVE  TypeDb' /\ TypeRest'
  <2> DEFINE mine == {d \in devices : d.user = u}
  <2>1. mine \in SUBSET Device
    BY DEF TypeDb
  <2>2. [NoWrites EXCEPT !.del = mine] \in Txn
    BY <2>1, NoWritesType DEF Txn
  <2>3. Effective(u) \in SUBSET Node
    BY LinkAssumption DEF Effective
  <2>4. TypeDb'
    <3> HIDE DEF mine
    <3>1. {DeviceRow(d) : d \in mine} \in SUBSET Row
      BY <2>1, RowsType
    <3>2. Launch(r, [NoWrites EXCEPT !.del = mine], {DeviceRow(d) : d \in mine},
                 Effective(u), TRUE, FALSE)
      BY <1>5 DEF ResetDevices, mine
    <3> QED
      BY <2>2, <2>3, <3>1, <3>2, LaunchType
  <2> QED
    BY <1>5, <2>4 DEF ResetDevices, TypeRest
<1>6. ASSUME NEW u \in User, EnableUser(r, u) \/ DisableUser(r, u) \/ DeleteUser(r, u)
      PROVE  TypeDb' /\ TypeRest'
  <2>1. PICK s \in UserStatus, todo \in SUBSET Node : SetUserStatus(r, u, s, todo)
    BY <1>6, LinkAssumption DEF EnableUser, DisableUser, DeleteUser, UserStatus, Effective
  <2> DEFINE same == userStatus[u] = s
             t == IF same THEN NoWrites ELSE [NoWrites EXCEPT !.users[u] = s]
             rows == IF same THEN {} ELSE {UserRow(u)}
  <2>2. t \in Txn
    BY NoWritesType DEF Txn, NoWrites
  <2>3. rows \in SUBSET Row
    BY DEF UserRow, Row
  <2>4. TypeDb'
    BY <2>1, <2>2, <2>3, LaunchType DEF SetUserStatus
  <2> QED
    BY <2>1, <2>4 DEF SetUserStatus, TypeRest
<1>7. ASSUME NEW n \in Node, DisableNode(r, n) \/ EnableNode(r, n)
      PROVE  TypeDb' /\ TypeRest'
  <2>1. PICK s \in NodeStatus, any \in BOOLEAN : SetNodeStatus(r, n, s, any)
    BY <1>7 DEF DisableNode, EnableNode, NodeStatus
  <2> DEFINE same == nodeStatus[n] = s
             t == IF same THEN NoWrites ELSE [NoWrites EXCEPT !.nodes[n] = s]
             rows == IF same THEN {} ELSE {NodeRow(n)}
  <2>2. t \in Txn
    BY NoWritesType DEF Txn, NoWrites
  <2>3. rows \in SUBSET Row
    BY DEF NodeRow, Row
  <2>4. TypeDb'
    BY <2>1, <2>2, <2>3, LaunchType DEF SetNodeStatus
  <2> QED
    BY <2>1, <2>4 DEF SetNodeStatus, TypeRest
<1>8. ASSUME NEW n \in Node, ApplyNodeConfig(r, n)
      PROVE  TypeDb' /\ TypeRest'
  <2>1. TypeDb'
    BY <1>8, NoWritesType, LaunchType DEF ApplyNodeConfig
  <2> QED
    BY <1>8, <2>1 DEF ApplyNodeConfig, TypeRest
<1>9. ASSUME NEW n \in Node, VerifyNode(r, n)
      PROVE  TypeDb' /\ TypeRest'
  <2>1. flow' \in [Request -> Flow]
    BY <1>9, IdleType DEF VerifyNode, TypeDb, Flow
  <2> QED
    BY <1>9, <2>1 DEF VerifyNode, TypeDb, TypeRest, database
<1> QED
  BY <1>1, <1>2, <1>3, <1>4, <1>5, <1>6, <1>7, <1>8, <1>9 DEF Handler

(* Whatever an await comes back with, the types are kept. *)
LEMMA AwaitType ==
  ASSUME TypeDb, TypeRest, NEW r \in Request, Await(r)
  PROVE  TypeDb' /\ TypeRest'
<1> DEFINE f == flow[r]
<1>0. f \in Flow /\ txn[r] \in Txn /\ held[r] \in SUBSET Row
  BY DEF TypeDb
<1>1. CASE WriteLands(r)
  <2>1. flow' \in [Request -> Flow]
    BY <1>1, <1>0 DEF WriteLands, TypeDb, Flow
  <2>2. conf' \in [Node -> SUBSET DeviceId] /\ backup' \in [Node -> SUBSET DeviceId]
    BY <1>1, <1>0 DEF WriteLands, TypeRest, Flow
  <2> QED
    BY <1>1, <2>1, <2>2 DEF WriteLands, TypeDb, TypeRest, database
<1>2. CASE RestoreLands(r)
  <2>1. flow' \in [Request -> Flow]
    BY <1>2, <1>0 DEF RestoreLands, TypeDb, Flow
  <2>2. conf' \in [Node -> SUBSET DeviceId]
    BY <1>2, <1>0 DEF RestoreLands, TypeRest, Flow
  <2> QED
    BY <1>2, <2>1, <2>2 DEF RestoreLands, TypeDb, TypeRest, database
<1>3. CASE ApplyReturns(r)
  <2> DEFINE t == [txn[r] EXCEPT
              !.nodes = [n \in Node |->
                 IF n \in f.at /\ f.status = "failed" THEN "online" ELSE txn[r].nodes[n]],
              !.applies = [n \in Node |->
                 IF n \in f.at /\ f.applied # "success" THEN "success" ELSE txn[r].applies[n]]]
             g == [f EXCEPT !.tried = f.tried \cup f.at, !.at = {}]
  <2>1. t \in Txn
    BY <1>0 DEF Txn, NodeStatus, ApplyStatus
  <2>2. g \in Flow
    BY <1>0 DEF Flow
  <2>3. Resume(r, t, g, held[r])
    BY <1>3 DEF ApplyReturns
  <2>4. TypeDb'
    BY <1>0, <2>1, <2>2, <2>3, ResumeType
  <2> QED
    BY <1>3, <2>4 DEF ApplyReturns, TypeRest
<1>4. ASSUME NEW late \in BOOLEAN, ApplyFails(r, late)
      PROVE  TypeDb' /\ TypeRest'
  <2> DEFINE lost == f.at \cup IF late THEN f.todo ELSE {}
             t == [txn[r] EXCEPT !.applies = [n \in Node |->
              IF n \in lost /\ (n \in f.at => f.applied # "failed")
                            /\ (n \notin f.at => applyStatus[n] # "failed")
                THEN "failed" ELSE txn[r].applies[n]]]
             g == [f EXCEPT !.tried = f.tried \cup lost, !.at = {},
                            !.todo = f.todo \ lost, !.ok = FALSE]
  <2>1. t \in Txn
    BY <1>0 DEF Txn, ApplyStatus
  <2>2. g \in Flow
    BY <1>0 DEF Flow
  <2>3. Resume(r, t, g, held[r])
    BY <1>4 DEF ApplyFails
  <2>4. TypeDb'
    BY <1>0, <2>1, <2>2, <2>3, ResumeType
  <2> QED
    BY <1>4, <2>4 DEF ApplyFails, TypeRest
<1>5. ASSUME NEW s \in {"online", "failed"}, VerifyReturns(r, s)
      PROVE  TypeDb' /\ TypeRest'
  <2> DEFINE t == [txn[r] EXCEPT !.nodes =
                     [n \in Node |-> IF n \in flow[r].at /\ flow[r].status # s
                                       THEN s ELSE txn[r].nodes[n]]]
  <2>1. t \in Txn
    BY <1>0 DEF Txn, NodeStatus
  <2>2. TypeDb'
    BY <1>5, <2>1, CommitType DEF VerifyReturns
  <2> QED
    BY <1>5, <2>2 DEF VerifyReturns, TypeRest
<1> QED
  BY <1>1, <1>2, <1>3, <1>4, <1>5 DEF Await

(* A restart of the backend keeps the types. *)
LEMMA RestartType ==
  ASSUME TypeDb, TypeRest, Restart
  PROVE  TypeDb' /\ TypeRest'
  BY IdleType, NoWritesType DEF Restart, TypeDb, TypeRest, database

(* The enforcement sweep keeps the types. *)
LEMMA EnforceType ==
  ASSUME TypeDb, TypeRest, (\E us \in SUBSET User : EnforceSelect(us)) \/ EnforceCommit
  PROVE  TypeDb' /\ TypeRest'
<1>1. CASE \E us \in SUBSET User : EnforceSelect(us)
  BY <1>1 DEF EnforceSelect, TypeDb, TypeRest, database
<1>2. CASE EnforceCommit
  BY <1>2 DEF EnforceCommit, TypeDb, TypeRest, UserStatus
<1> QED
  BY <1>1, <1>2

(* Every reachable state has the declared shape: no handler, outcome of an *)
(* await, restart or sweep writes a value outside its column's domain.     *)
THEOREM TypeCorrect == Spec => []TypeOK
<1>1. TypeOK <=> TypeDb /\ TypeRest
  BY DEF TypeOK, TypeDb, TypeRest
<1>2. Init => TypeDb /\ TypeRest
  <2> SUFFICES ASSUME Init PROVE TypeDb /\ TypeRest
    OBVIOUS
  <2>1. TypeDb
    BY EnrolledAssumption, IdleType, NoWritesType
    DEF Init, TypeDb, UserStatus, NodeStatus, ApplyStatus
  <2>2. \A n \in Node : Desired(n) \in SUBSET DeviceId
    BY <2>1, NoWritesType, FreshUsersType, RenderType DEF Desired
  <2>3. nextId \in 1..(MaxDevices + 1)
    BY EnrolledAssumption, BoundAssumption DEF Init
  <2> QED
    BY <2>1, <2>2, <2>3 DEF Init, TypeRest
<1>3. TypeDb /\ TypeRest /\ [Next]_vars => TypeDb' /\ TypeRest'
  <2> SUFFICES ASSUME TypeDb, TypeRest, [Next]_vars PROVE TypeDb' /\ TypeRest'
    OBVIOUS
  <2>1. CASE UNCHANGED vars
    BY <2>1 DEF vars, TypeDb, TypeRest
  <2>2. CASE Next
    BY <2>2, HandlerType, AwaitType, RestartType, EnforceType
    DEF Next, WatchdogRestart, CrashRestart
  <2> QED
    BY <2>1, <2>2
<1> QED
  BY <1>1, <1>2, <1>3, PTL DEF Spec

-----------------------------------------------------------------------------
(* UniqueDevices.  The invariant LockInv says what the row locks buy; each  *)
(* lemma shows that one way to end a segment of a handler keeps it.         *)

LocksOK == UniqueDevices /\ \A r \in Request : Protected(r, txn[r], held[r])

IdsBelow(k) ==
  /\ \A d \in devices : d.id < k
  /\ \A r \in Request : \A a \in txn[r].add : a.id < k

(* A row lock has one holder, so no two requests write the same row. *)
LEMMA FreeRows ==
  ASSUME NEW r \in Request, NEW s \in Request \ {r}, NEW rows, NEW row,
         Free(r, rows), row \in rows
  PROVE  row \notin held[s]
  BY DEF Free

(* Two protected transactions never touch rows with the same key. *)
LEMMA NoCollision ==
  ASSUME NEW r \in Request, NEW t, NEW rows, Protected(r, t, rows),
         NEW s \in Request \ {r}, Protected(s, txn[s], held[s])
  PROVE  /\ t.del \cap txn[s].del = {}
         /\ \A a \in t.add, b \in txn[s].add : ~SameKey(a, b) /\ a.id # b.id
<1>1. t.del \cap txn[s].del = {}
  BY FreeRows DEF Protected
<1>2. ASSUME NEW a \in t.add, NEW b \in txn[s].add, SameKey(a, b)
      PROVE  FALSE
  <2>1. CASE \E d \in t.del : SameKey(d, a)
    BY <1>1, <1>2, <2>1 DEF Protected, SameKey
  <2>2. CASE \E d \in txn[s].del : SameKey(d, b)
    BY <1>1, <1>2, <2>2 DEF Protected, SameKey
  <2>3. CASE HwidRow(a.user, a.hwid) \in rows /\ HwidRow(b.user, b.hwid) \in held[s]
    <3>1. HwidRow(a.user, a.hwid) = HwidRow(b.user, b.hwid)
      BY <1>2 DEF SameKey
    <3> QED
      BY <2>3, <3>1, FreeRows DEF Protected
  <2> QED
    BY <2>1, <2>2, <2>3 DEF Protected
<1> QED
  BY <1>1, <1>2 DEF Protected

(* Publishing one protected transaction keeps rows unique and every other  *)
(* transaction protected.                                                  *)
LEMMA PublishLocks ==
  ASSUME TypeDb, LocksOK, NEW r \in Request, NEW t, NEW rows, Protected(r, t, rows),
         devices' = (devices \ t.del) \cup t.add, EndRequest(r)
  PROVE  LocksOK'
<1>1. UniqueDevices'
  BY DEF LocksOK, UniqueDevices, Protected, SameKey
<1>2. ASSUME NEW s \in Request
      PROVE  Protected(s, txn[s], held[s])'
  <2>1. CASE s = r
    <3>1. txn'[s] = NoWrites /\ held'[s] = {}
      BY <2>1 DEF EndRequest, TypeDb
    <3> QED
      BY <3>1 DEF Protected, Free, NoWrites
  <2>2. CASE s # r
    <3>1. txn'[s] = txn[s] /\ held'[s] = held[s]
      BY <2>2 DEF EndRequest, TypeDb
    <3>2. Protected(s, txn[s], held[s])
      BY DEF LocksOK
    <3>3. Free(s, held[s])'
      BY <3>1, <3>2 DEF Protected, Free, EndRequest, TypeDb
    <3>4. \A d \in txn[s].del : d \in devices' /\ DeviceRow(d) \in held[s]
      BY <2>2, <3>2, NoCollision DEF Protected
    <3>5. \A a \in txn[s].add : \A d \in devices' :
             SameKey(d, a) \/ d.id = a.id => d \in txn[s].del
      BY <2>2, <3>2, NoCollision DEF Protected
    <3>6. \A a \in txn[s].add : \A q \in Request \ {s} : \A b \in txn'[q].add : a.id # b.id
      BY <3>2 DEF Protected, EndRequest, TypeDb, NoWrites
    <3> QED
      BY <3>1, <3>2, <3>3, <3>4, <3>5, <3>6 DEF Protected, DeviceRow
  <2> QED
    BY <2>1, <2>2
<1> QED
  BY <1>1, <1>2 DEF LocksOK

(* A transaction without writes needs no locks. *)
LEMMA EmptyProtected ==
  ASSUME NEW r \in Request
  PROVE  Protected(r, NoWrites, {})
  BY DEF Protected, NoWrites, Free

(* A commit of protected writes keeps devices unique and locks disjoint. *)
LEMMA CommitLocks ==
  ASSUME TypeDb, LocksOK, NEW k, IdsBelow(k), NEW r \in Request, NEW t, NEW rows, NEW f,
         Protected(r, t, rows), \A a \in t.add : a.id < k, Commit(r, t, f)
  PROVE  LocksOK' /\ IdsBelow(k)'
<1>1. CASE Free(r, {NodeRow(n) : n \in f.tried})
  <2>1. devices' = (devices \ t.del) \cup t.add /\ EndRequest(r)
    BY <1>1 DEF Commit
  <2>2. LocksOK'
    BY <2>1, PublishLocks
  <2>3. IdsBelow(k)'
    BY <2>1 DEF IdsBelow, EndRequest, TypeDb, NoWrites
  <2> QED
    BY <2>2, <2>3
<1>2. CASE ~Free(r, {NodeRow(n) : n \in f.tried})
  BY <1>2 DEF Commit, Block, database, LocksOK, IdsBelow, UniqueDevices, Protected, Free,
              SameKey, DeviceRow, HwidRow
<1> QED
  BY <1>1, <1>2

(* A rollback does so too. *)
LEMMA RollbackLocks ==
  ASSUME TypeDb, LocksOK, NEW k, IdsBelow(k), NEW r \in Request, Rollback(r)
  PROVE  LocksOK' /\ IdsBelow(k)'
<1>1. devices' = (devices \ NoWrites.del) \cup NoWrites.add /\ EndRequest(r)
  BY DEF Rollback, database, NoWrites
<1>2. LocksOK'
  BY <1>1, EmptyProtected, PublishLocks
<1>3. IdsBelow(k)'
  BY <1>1 DEF IdsBelow, EndRequest, TypeDb, NoWrites
<1> QED
  BY <1>2, <1>3

(* The loop between two awaits hands its protected writes on, or ends. *)
LEMMA ResumeLocks ==
  ASSUME TypeDb, LocksOK, NEW k, IdsBelow(k), NEW r \in Request, NEW t, NEW rows, NEW f,
         Protected(r, t, rows), \A a \in t.add : a.id < k, Resume(r, t, f, rows)
  PROVE  LocksOK' /\ IdsBelow(k)'
<1>1. CASE \E g : Settle(r, t, g)
  BY <1>1, CommitLocks, RollbackLocks DEF Settle
<1>2. CASE /\ txn' = [txn EXCEPT ![r] = t]
           /\ held' = [held EXCEPT ![r] = rows]
           /\ UNCHANGED database
  <2>1. devices' = devices /\ UniqueDevices'
    BY <1>2 DEF database, LocksOK, UniqueDevices, SameKey
  <2>2. IdsBelow(k)'
    BY <1>2, <2>1 DEF IdsBelow, TypeDb
  <2>3. txn'[r] = t /\ held'[r] = rows
    BY <1>2 DEF TypeDb
  <2>4. Protected(r, txn[r], held[r])'
    BY <1>2, <2>1, <2>3 DEF Protected, Free, TypeDb, SameKey, DeviceRow, HwidRow
  <2>5. ASSUME NEW s \in Request \ {r}
        PROVE  Protected(s, txn[s], held[s])'
    <3>1. txn'[s] = txn[s] /\ held'[s] = held[s] /\ Protected(s, txn[s], held[s])
      BY <1>2 DEF TypeDb, LocksOK
    <3>2. Free(s, held[s])'
      BY <1>2, <2>3, <3>1 DEF Protected, Free, TypeDb
    <3>3. \A a \in txn[s].add : \A q \in Request \ {s} : \A b \in txn'[q].add : a.id # b.id
      BY <1>2, <2>3, <3>1 DEF Protected, TypeDb
    <3> QED
      BY <2>1, <3>1, <3>2, <3>3 DEF Protected, SameKey, DeviceRow, HwidRow
  <2> QED
    BY <2>1, <2>2, <2>4, <2>5 DEF LocksOK
<1> QED
  BY <1>1, <1>2 DEF Resume, database

(* A step that touches no device, transaction or lock breaks none of this. *)
LEMMA SameLocks ==
  ASSUME LocksOK, NEW k, IdsBelow(k), UNCHANGED <<devices, txn, held>>
  PROVE  LocksOK' /\ IdsBelow(k)'
  BY DEF LocksOK, IdsBelow, UniqueDevices, Protected, Free, SameKey, DeviceRow, HwidRow

(* An apply is launched with protected writes, or waits for their rows. *)
LEMMA LaunchLocks ==
  ASSUME TypeDb, LocksOK, NEW k, IdsBelow(k), NEW r \in Request, NEW t, NEW rows,
         NEW todo, NEW strict, NEW anyNode,
         Free(r, rows) => Protected(r, t, rows), \A a \in t.add : a.id < k,
         Launch(r, t, rows, todo, strict, anyNode)
  PROVE  LocksOK' /\ IdsBelow(k)'
  BY ResumeLocks, SameLocks DEF Launch, Block, database

(* A handler that only removes or changes committed rows it locks. *)
LEMMA EditProtected ==
  ASSUME TypeDb, LocksOK, NEW r \in Request, NEW t,
         t.del \subseteq devices, NEW rows, \A d \in t.del : DeviceRow(d) \in rows,
         \A a, b \in t.add : a = b,
         \A a \in t.add : \E d \in t.del : SameKey(d, a) /\ d.id = a.id,
         Free(r, rows)
  PROVE  Protected(r, t, rows)
<1>1. \A a \in t.add : \A d \in devices : SameKey(d, a) \/ d.id = a.id => d \in t.del
  BY DEF LocksOK, UniqueDevices, SameKey
<1>2. ASSUME NEW a \in t.add, NEW s \in Request \ {r}, NEW b \in txn[s].add, a.id = b.id
      PROVE  FALSE
  <2>1. PICK d \in t.del : d.id = a.id
    OBVIOUS
  <2>2. d \in txn[s].del
    BY <1>2, <2>1 DEF LocksOK, Protected
  <2>3. DeviceRow(d) \in held[s]
    BY <2>2 DEF LocksOK, Protected
  <2> QED
    BY <2>1, <2>3, FreeRows
<1> QED
  BY <1>1, <1>2 DEF Protected

(* Every handler locks the rows it writes before its first await. *)
LEMMA HandlerLocks ==
  ASSUME TypeDb, TypeRest, LocksOK, IdsBelow(nextId), NEW r \in Request, Handler(r)
  PROVE  LocksOK' /\ IdsBelow(nextId)'
<1>0. nextId \in Int /\ \A d \in devices : d.id \in Int
  BY BoundAssumption DEF TypeRest, TypeDb, Device, DeviceId
<1>12. \A t \in {NoWrites} : t.add = {} /\ t.del = {}
  BY DEF NoWrites
<1>1. ASSUME NEW u \in User, NEW h \in Hwid, RegisterDevice(r, u, h)
      PROVE  LocksOK' /\ IdsBelow(nextId)'
  <2> DEFINE stale == {e \in {d \in devices : d.user = u} : e.hwid = h}
             d == [id |-> nextId, user |-> u, hwid |-> h, status |-> "active"]
             t == [NoWrites EXCEPT !.add = {d}, !.del = stale]
             rows == {DeviceRow(e) : e \in stale} \cup {HwidRow(u, h)}
  <2>1. CASE Launch(r, t, rows, Effective(u), TRUE, FALSE) /\ nextId' = nextId + 1
    <3>1. PICK k \in Int : k = nextId + 1
      BY <1>0
    <3>2. t.add = {d} /\ t.del = stale
      BY DEF NoWrites
    <3>3. IdsBelow(k) /\ \A a \in t.add : a.id < k
      <4>1. \A i \in Int : i < nextId => i < k
        BY <1>0, <3>1
      <4>2. \A s \in Request : \A a \in txn[s].add : a.id \in Int
        BY BoundAssumption DEF TypeDb, Txn, Device, DeviceId
      <4> QED
        BY <1>0, <3>1, <3>2, <4>1, <4>2 DEF IdsBelow
    <3>4. ASSUME Free(r, rows)
          PROVE  Protected(r, t, rows)
      <4>1. \A e \in stale : e \in devices /\ DeviceRow(e) \in rows
        OBVIOUS
      <4>2. \A e \in devices : SameKey(e, d) \/ e.id = d.id => e \in stale
        BY <1>0 DEF SameKey, IdsBelow
      <4>3. \A s \in Request \ {r} : \A b \in txn[s].add : d.id # b.id
        BY <1>0 DEF IdsBelow
      <4>4. HwidRow(d.user, d.hwid) \in rows
        OBVIOUS
      <4> QED
        BY <3>2, <3>4, <4>1, <4>2, <4>3, <4>4 DEF Protected
    <3>5. LocksOK' /\ IdsBelow(k)'
      <4> HIDE DEF t, rows
      <4> QED
        BY <2>1, <3>3, <3>4, LaunchLocks
    <3> QED
      BY <2>1, <3>1, <3>5 DEF IdsBelow
  <2>2. CASE Block(r) /\ UNCHANGED nextId
    <3>1. UNCHANGED <<devices, txn, held>>
      BY <2>2 DEF Block, database
    <3>2. PICK k : k = nextId
      OBVIOUS
    <3>3. LocksOK' /\ IdsBelow(k)'
      BY <3>1, <3>2, SameLocks
    <3> QED
      BY <2>2, <3>2, <3>3 DEF IdsBelow
  <2> QED
    BY <1>1, <2>1, <2>2 DEF RegisterDevice
<1>2. ASSUME \E t, rows, todo, strict, anyNode :
                /\ Launch(r, t, rows, todo, strict, anyNode)
                /\ Free(r, rows) => Protected(r, t, rows)
                /\ \A a \in t.add : \E d \in devices : a.id = d.id,
             nextId' = nextId
      PROVE  LocksOK' /\ IdsBelow(nextId)'
  <2>1. PICK k : k = nextId
    OBVIOUS
  <2>2. IdsBelow(k) /\ \A d \in devices : d.id < k
    BY <2>1 DEF IdsBelow
  <2>3. LocksOK' /\ IdsBelow(k)'
    BY <1>2, <2>2, LaunchLocks
  <2> QED
    BY <1>2, <2>1, <2>3 DEF IdsBelow
<1>3. ASSUME NEW u \in User, NEW h \in Hwid, RefreshDevice(r, u, h)
      PROVE  LocksOK' /\ IdsBelow(nextId)'
  <2>1. PICK k : k = nextId
    OBVIOUS
  <2>2. LocksOK' /\ IdsBelow(k)'
    BY <1>3, <2>1, SameLocks DEF RefreshDevice, Block, database
  <2> QED
    BY <1>3, <2>1, <2>2 DEF RefreshDevice, IdsBelow
<1>4. ASSUME NEW d \in devices, RemoveDevice(r, d)
      PROVE  LocksOK' /\ IdsBelow(nextId)'
  <2> DEFINE t == [NoWrites EXCEPT !.del = {d}]
  <2>1. t.add = {} /\ t.del = {d}
    BY DEF NoWrites
  <2>2. Free(r, {DeviceRow(d)}) => Protected(r, t, {DeviceRow(d)})
    BY <2>1, EditProtected
  <2> QED
    BY <1>2, <1>4, <2>1, <2>2 DEF RemoveDevice
<1>5. ASSUME NEW d \in devices, NEW s \in DeviceStatus, PatchDevice(r, d, s)
      PROVE  LocksOK' /\ IdsBelow(nextId)'
  <2> DEFINE e == [d EXCEPT !.status = s]
             t == [NoWrites EXCEPT !.del = {d}, !.add = {e}]
  <2>1. t.add = {e} /\ t.del = {d} /\ SameKey(d, e) /\ d.id = e.id
    BY DEF NoWrites, SameKey, TypeDb, Device
  <2>2. Free(r, {DeviceRow(d)}) => Protected(r, t, {DeviceRow(d)})
    <3> HIDE DEF t, e
    <3> QED
      BY <2>1, EditProtected
  <2> QED
    BY <1>2, <1>5, <2>1, <2>2 DEF PatchDevice
<1>6. ASSUME NEW u \in User, ResetDevices(r, u)
      PROVE  LocksOK' /\ IdsBelow(nextId)'
  <2> DEFINE mine == {d \in devices : d.user = u}
             rows == {DeviceRow(d) : d \in mine}
             t == [NoWrites EXCEPT !.del = mine]
  <2>1. t.add = {} /\ t.del = mine
    BY DEF NoWrites
  <2>2. Free(r, rows) => Protected(r, t, rows)
    <3>1. t.del \subseteq devices /\ \A d \in t.del : DeviceRow(d) \in rows
      BY <2>1
    <3> HIDE DEF t, rows
    <3> QED
      BY <2>1, <3>1, EditProtected
  <2> QED
    BY <1>2, <1>6, <2>1, <2>2 DEF ResetDevices
<1>7. ASSUME NEW t, t.add = {}, t.del = {}, NEW rows
      PROVE  Free(r, rows) => Protected(r, t, rows)
  BY <1>7, EditProtected
<1>8. ASSUME NEW u \in User, EnableUser(r, u) \/ DisableUser(r, u) \/ DeleteUser(r, u)
      PROVE  LocksOK' /\ IdsBelow(nextId)'
  <2>1. PICK s, todo : SetUserStatus(r, u, s, todo)
    BY <1>8 DEF EnableUser, DisableUser, DeleteUser
  <2> DEFINE same == userStatus[u] = s
             t == IF same THEN NoWrites ELSE [NoWrites EXCEPT !.users[u] = s]
             rows == IF same THEN {} ELSE {UserRow(u)}
  <2>2. t.add = {} /\ t.del = {}
    BY DEF NoWrites
  <2>3. Launch(r, t, rows, todo, FALSE, FALSE) /\ nextId' = nextId
    BY <2>1 DEF SetUserStatus
  <2> HIDE DEF t, rows
  <2> QED
    BY <1>2, <1>7, <2>2, <2>3
<1>9. ASSUME NEW n \in Node, DisableNode(r, n) \/ EnableNode(r, n)
      PROVE  LocksOK' /\ IdsBelow(nextId)'
  <2>1. PICK s, any : SetNodeStatus(r, n, s, any)
    BY <1>9 DEF DisableNode, EnableNode
  <2> DEFINE same == nodeStatus[n] = s
             t == IF same THEN NoWrites ELSE [NoWrites EXCEPT !.nodes[n] = s]
             rows == IF same THEN {} ELSE {NodeRow(n)}
  <2>2. t.add = {} /\ t.del = {}
    BY DEF NoWrites
  <2>3. Launch(r, t, rows, {n}, FALSE, any) /\ nextId' = nextId
    BY <2>1 DEF SetNodeStatus
  <2> HIDE DEF t, rows
  <2> QED
    BY <1>2, <1>7, <2>2, <2>3
<1>10. ASSUME NEW n \in Node, ApplyNodeConfig(r, n)
       PROVE  LocksOK' /\ IdsBelow(nextId)'
  BY <1>12, <1>2, <1>7, <1>10 DEF ApplyNodeConfig
<1>11. ASSUME NEW n \in Node, VerifyNode(r, n)
       PROVE  LocksOK' /\ IdsBelow(nextId)'
  <2>1. PICK k : k = nextId
    OBVIOUS
  <2>2. LocksOK' /\ IdsBelow(k)'
    BY <1>11, <2>1, SameLocks DEF VerifyNode, database
  <2> QED
    BY <1>11, <2>1, <2>2 DEF VerifyNode, IdsBelow
<1> QED
  BY <1>1, <1>3, <1>4, <1>5, <1>6, <1>8, <1>9, <1>10, <1>11 DEF Handler

(* A coroutine that is resumed keeps its locks until it commits or rolls back. *)
LEMMA AwaitLocks ==
  ASSUME TypeDb, TypeRest, LocksOK, IdsBelow(nextId), NEW r \in Request, Await(r)
  PROVE  LocksOK' /\ IdsBelow(nextId)'
<1>1. PICK k : k = nextId
  OBVIOUS
<1>2. nextId' = nextId
  BY DEF Await, WriteLands, RestoreLands, ApplyReturns, ApplyFails, VerifyReturns
<1>3. CASE WriteLands(r) \/ RestoreLands(r)
  <2>1. LocksOK' /\ IdsBelow(k)'
    BY <1>1, <1>3, SameLocks DEF WriteLands, RestoreLands, database
  <2> QED
    BY <1>1, <1>2, <2>1 DEF IdsBelow
<1>4. Protected(r, txn[r], held[r]) /\ \A a \in txn[r].add : a.id < k
  BY <1>1 DEF LocksOK, IdsBelow
<1>5. ASSUME NEW t, t.add = txn[r].add, t.del = txn[r].del
      PROVE  Protected(r, t, held[r]) /\ \A a \in t.add : a.id < k
  BY <1>4, <1>5 DEF Protected
<1>6. ASSUME NEW t, NEW f, t.add = txn[r].add, t.del = txn[r].del,
             Resume(r, t, f, held[r]) \/ Commit(r, t, f)
      PROVE  LocksOK' /\ IdsBelow(nextId)'
  <2>1. LocksOK' /\ IdsBelow(k)'
    BY <1>1, <1>5, <1>6, ResumeLocks, CommitLocks
  <2> QED
    BY <1>1, <1>2, <2>1 DEF IdsBelow
<1>7. \A g : /\ [txn[r] EXCEPT !.nodes = g].add = txn[r].add
             /\ [txn[r] EXCEPT !.nodes = g].del = txn[r].del
             /\ [txn[r] EXCEPT !.applies = g].add = txn[r].add
             /\ [txn[r] EXCEPT !.applies = g].del = txn[r].del
  BY DEF TypeDb, Txn
<1>8. \A g, h : /\ [txn[r] EXCEPT !.nodes = g, !.applies = h].add = txn[r].add
                /\ [txn[r] EXCEPT !.nodes = g, !.applies = h].del = txn[r].del
  BY DEF TypeDb, Txn
<1>9. CASE ApplyReturns(r)
  <2> DEFINE f == flow[r]
             g == [n \in Node |->
                 IF n \in f.at /\ f.status = "failed" THEN "online" ELSE txn[r].nodes[n]]
             h == [n \in Node |->
                 IF n \in f.at /\ f.applied # "success" THEN "success" ELSE txn[r].applies[n]]
             t == [txn[r] EXCEPT !.nodes = g, !.applies = h]
             c == [f EXCEPT !.tried = f.tried \cup f.at, !.at = {}]
  <2>1. Resume(r, t, c, held[r])
    BY <1>9 DEF ApplyReturns
  <2>2. t.add = txn[r].add /\ t.del = txn[r].del
    BY <1>8
  <2> HIDE DEF t, c
  <2> QED
    BY <1>6, <2>1, <2>2
<1>10. ASSUME NEW late \in BOOLEAN, ApplyFails(r, late)
       PROVE  LocksOK' /\ IdsBelow(nextId)'
  BY <1>6, <1>7, <1>10 DEF ApplyFails
<1>11. ASSUME NEW s, VerifyReturns(r, s)
       PROVE  LocksOK' /\ IdsBelow(nextId)'
  BY <1>6, <1>7, <1>11 DEF VerifyReturns
<1> QED
  BY <1>3, <1>9, <1>10, <1>11 DEF Await

(* Restarts free every lock; the sweep takes and frees only users' rows. *)
LEMMA OtherLocks ==
  ASSUME TypeDb, LocksOK, IdsBelow(nextId),
         Restart \/ (\E us \in SUBSET User : EnforceSelect(us)) \/ EnforceCommit \/ UNCHANGED vars
  PROVE  LocksOK' /\ IdsBelow(nextId)'
<1>1. PICK k : k = nextId
  OBVIOUS
<1>2. CASE Restart
  <2>1. \A r \in Request : txn'[r] = NoWrites /\ held'[r] = {}
    BY <1>2 DEF Restart
  <2>2. \A r \in Request : Protected(r, txn[r], held[r])'
    BY <2>1 DEF Protected, Free, NoWrites
  <2>3. UniqueDevices' /\ devices' = devices /\ nextId' = nextId
    BY <1>2 DEF Restart, database, LocksOK, UniqueDevices, SameKey
  <2>4. IdsBelow(nextId)'
    BY <2>1, <2>3 DEF IdsBelow, NoWrites
  <2> QED
    BY <2>2, <2>3, <2>4 DEF LocksOK
<1>3. CASE UNCHANGED <<devices, txn, held, nextId>>
  <2>1. LocksOK' /\ IdsBelow(k)'
    <3>1. IdsBelow(k)
      BY <1>1
    <3> QED
      BY <1>3, <3>1, SameLocks
  <2> QED
    BY <1>1, <1>3, <2>1 DEF IdsBelow
<1> QED
  BY <1>2, <1>3 DEF EnforceSelect, EnforceCommit, vars, database

(* In every reachable state each transaction in flight is protected by the  *)
(* rows it holds: no order of commits, failures and restarts can bring two  *)
(* writers of the same device row or of the same hardware id together.      *)
THEOREM LocksProtect == Spec => []LockInv
<1>1. Spec => [](TypeDb /\ TypeRest)
  <2>1. TypeOK => TypeDb /\ TypeRest
    BY DEF TypeOK, TypeDb, TypeRest
  <2> QED
    BY <2>1, TypeCorrect, PTL
<1>2. Init => LocksOK /\ IdsBelow(nextId)
  <2> SUFFICES ASSUME Init PROVE LocksOK /\ IdsBelow(nextId)
    OBVIOUS
  <2>1. UniqueDevices
    BY EnrolledAssumption DEF Init, UniqueDevices
  <2>2. \A r \in Request : Protected(r, txn[r], held[r])
    BY EmptyProtected DEF Init
  <2>3. \A d \in devices : d.id < nextId
    BY EnrolledAssumption, BoundAssumption DEF Init, Device, DeviceId
  <2> QED
    BY <2>1, <2>2, <2>3 DEF Init, NoWrites, LocksOK, IdsBelow
<1>3. TypeDb /\ TypeRest /\ LocksOK /\ IdsBelow(nextId) /\ [Next]_vars
        => LocksOK' /\ IdsBelow(nextId)'
  BY HandlerLocks, AwaitLocks, OtherLocks DEF Next, WatchdogRestart, CrashRestart
<1>4. LocksOK /\ IdsBelow(nextId) => LockInv
  BY DEF LocksOK, IdsBelow, LockInv
<1> QED
  BY <1>1, <1>2, <1>3, <1>4, PTL DEF Spec

(* However many registrations, removals and edits are in flight, and       *)
(* whichever of them commits, fails or dies with the process: a user has   *)
(* one row per hardware id, and a UUID belongs to one row.                 *)
THEOREM DevicesUnique == Spec => []UniqueDevices
<1>1. LockInv => UniqueDevices
  BY DEF LockInv
<1> QED
  BY <1>1, LocksProtect, PTL

-----------------------------------------------------------------------------
(* A device that a request brings or takes, and the nodes. *)

(* Devices that the writes t bring in, and devices that they take away.     *)
Coming(t) == {a \in t.add : \A e \in t.del : e.id # a.id}
Going(t)  == {d \in t.del : \A a \in t.add : a.id # d.id}

(* Every node of a user is behind the apply, before it or under it.         *)
Covered(f, u) == Effective(u) \subseteq f.tried \cup f.at \cup f.todo

(* A device that is coming is on every node done, one that is going is not. *)
Delivered(f, a) ==
  /\ a \in f.snapshot /\ Covered(f, a.user)
  /\ \A n \in Effective(a.user) :
       /\ n \in f.tried => a.id \in conf[n]
       /\ n \in f.at => a.id \in f.clients /\ (f.wrote = "yes" => a.id \in conf[n])

Withdrawn(f, d) ==
  /\ \A e \in f.snapshot : e.id # d.id
  /\ Covered(f, d.user)
  /\ \A n \in Effective(d.user) :
       /\ n \in f.tried => d.id \notin conf[n]
       /\ n \in f.at => d.id \notin f.clients /\ (f.wrote = "yes" => d.id \notin conf[n])

(* Only a strict apply brings or takes devices, and as long as no node has  *)
(* failed or was skipped, the nodes behind it show the change.             *)
Serves(t, f) ==
  /\ f.tried \cap (f.at \cup f.todo) = {} /\ f.at \cap f.todo = {}
  /\ Coming(t) \cup Going(t) # {} => f.strict /\ ~f.anyNode
  /\ f.ok => /\ \A a \in Coming(t) : Delivered(f, a)
             /\ \A d \in Going(t) : Withdrawn(f, d)

ServeInv ==
  \A r \in Request :
    /\ flow[r].pc = "ssh" => Serves(txn[r], flow[r])
    /\ flow[r].pc \in {"idle", "verify"} => Coming(txn[r]) \cup Going(txn[r]) = {}

(* The requests do not overlap.  With two at a time a device can be        *)
(* committed that a concurrent apply has just taken off a node.            *)
OneAtATime == \A r, s \in Request : r = s

(* The two properties, of one step. *)
NextServed ==
  /\ \A d \in devices' : (\A e \in devices : e.id # d.id) =>
       \A n \in Effective(d.user) : d.id \in conf'[n]
  /\ \A d \in devices : (\A e \in devices' : e.id # d.id) =>
       \A n \in Effective(d.user) : d.id \notin conf'[n]

(* What is known of a state before the step. *)
ServeState == TypeDb /\ TypeRest /\ LocksOK /\ ServeInv

-----------------------------------------------------------------------------
(* Steps that change no device row. *)
LEMMA SameDevices ==
  ASSUME UNCHANGED devices
  PROVE  NextServed
BY DEF NextServed

(* The commit of writes whose nodes are all done. *)
LEMMA CommitServes ==
  ASSUME ServeState, OneAtATime, NEW r \in Request, NEW t, NEW f,
         t.del \subseteq devices, UNCHANGED conf,
         \A a \in Coming(t) : \A n \in Effective(a.user) : a.id \in conf[n],
         \A d \in Going(t) : \A n \in Effective(d.user) : d.id \notin conf[n],
         Commit(r, t, f)
  PROVE  ServeInv' /\ NextServed
<1>1. Free(r, {NodeRow(n) : n \in f.tried})
  BY DEF OneAtATime, Free
<1>2. devices' = (devices \ t.del) \cup t.add /\ EndRequest(r)
  BY <1>1 DEF Commit
<1>3. ServeInv'
  BY <1>2 DEF EndRequest, ServeState, TypeDb, ServeInv, OneAtATime, Coming, Going, NoWrites, Idle
<1>4. ASSUME NEW d \in devices', \A e \in devices : e.id # d.id
      PROVE  d \in Coming(t)
  BY <1>2, <1>4 DEF Coming
<1>5. ASSUME NEW d \in devices, \A e \in devices' : e.id # d.id
      PROVE  d \in Going(t)
  BY <1>2, <1>5 DEF Going
<1> QED
  BY <1>3, <1>4, <1>5 DEF NextServed

(* A rollback takes no row away. *)
LEMMA RollbackServes ==
  ASSUME ServeState, OneAtATime, NEW r \in Request, Rollback(r)
  PROVE  ServeInv' /\ NextServed
BY SameDevices DEF Rollback, EndRequest, ServeState, TypeDb, ServeInv, OneAtATime, Coming, Going,
   NoWrites, Idle, database

(* The loop of apply_to_nodes goes on, or ends. *)
LEMMA ResumeServes ==
  ASSUME ServeState, OneAtATime, NEW r \in Request, NEW t \in Txn, NEW f \in Flow, NEW rows,
         t.del \subseteq devices, UNCHANGED conf,
         f.at = {}, Serves(t, f), Resume(r, t, f, rows)
  PROVE  ServeInv' /\ NextServed
<1> DEFINE ready == {n \in f.todo : f.anyNode \/ SeenNode(t, n) = "online"}
           g == [f EXCEPT !.ok = f.ok /\ f.todo = {}]
<1>1. CASE ready = {} /\ Settle(r, t, g)
  <2>1. g.ok = (f.ok /\ f.todo = {}) /\ g.strict = f.strict
    BY DEF Flow
  <2>2. CASE Rollback(r)
    BY <2>2, RollbackServes
  <2>3. CASE Commit(r, t, g) /\ ~(g.strict /\ ~g.ok)
    <3>1. \A a \in Coming(t) : \A n \in Effective(a.user) : a.id \in conf[n]
      BY <2>1, <2>3 DEF Serves, Delivered, Covered
    <3>2. \A d \in Going(t) : \A n \in Effective(d.user) : d.id \notin conf[n]
      BY <2>1, <2>3 DEF Serves, Withdrawn, Covered
    <3> HIDE DEF g
    <3> QED
      BY <2>3, <3>1, <3>2, CommitServes
  <2> QED
    BY <1>1, <2>2, <2>3 DEF Settle
<1>2. ASSUME NEW n \in ready, \A m \in ready : n <= m,
             flow' = [flow EXCEPT ![r] =
                [f EXCEPT !.pc = "ssh", !.at = {n},
                          !.todo = {m \in f.todo : m > n},
                          !.ok = f.ok /\ \A m \in f.todo : n <= m,
                          !.clients = Render(f.snapshot, n, SeenNode(t, n)),
                          !.status = SeenNode(t, n),
                          !.applied = applyStatus[n],
                          !.wrote = "no"]],
             txn' = [txn EXCEPT ![r] = t],
             UNCHANGED database
      PROVE  ServeInv' /\ NextServed
  <2> DEFINE later == {m \in f.todo : m > n}
             fine  == f.ok /\ \A m \in f.todo : n <= m
             list  == Render(f.snapshot, n, SeenNode(t, n))
  <2>1. PICK h : h = flow'[r]
    OBVIOUS
  <2>2. /\ h.pc = "ssh" /\ h.at = {n} /\ h.todo = later /\ h.ok = fine /\ h.clients = list
        /\ h.wrote = "no" /\ h.strict = f.strict /\ h.anyNode = f.anyNode
        /\ h.tried = f.tried /\ h.snapshot = f.snapshot
    BY <1>2, <2>1 DEF ServeState, TypeDb, Flow
  <2>3. txn'[r] = t
    BY <1>2 DEF ServeState, TypeDb
  <2>4. (\A m \in f.todo : m \in Int) /\ n \in f.todo
    <3>1. f.todo \subseteq Node
      BY DEF Flow
    <3>2. \A m \in Node : m \in Int
      BY NodeAssumption
    <3>3. n \in f.todo
      OBVIOUS
    <3> QED
      BY <3>1, <3>2, <3>3
  <2>5. h.tried \cap (h.at \cup h.todo) = {} /\ h.at \cap h.todo = {}
    BY <2>2, <2>4 DEF Serves
  <2>6. fine => f.todo = {n} \cup later
    BY <2>4
  <2>7. ASSUME h.ok, NEW u, Covered(f, u)
        PROVE  Covered(h, u)
    BY <2>2, <2>6, <2>7 DEF Covered
  <2>8. ~f.anyNode => list = {d.id : d \in {e \in f.snapshot : n \in Effective(e.user)}}
    BY DEF Render
  <2>9. ASSUME h.ok, NEW a \in Coming(t)
        PROVE  Delivered(h, a)'
    <3>1. Delivered(f, a) /\ ~f.anyNode
      BY <2>2, <2>9 DEF Serves
    <3>2. n \in Effective(a.user) => a.id \in list
      BY <2>8, <3>1 DEF Delivered
    <3> QED
      BY <2>2, <2>7, <2>9, <3>1, <3>2 DEF Delivered, Covered
  <2>10. ASSUME h.ok, NEW d \in Going(t)
         PROVE  Withdrawn(h, d)'
    <3>1. Withdrawn(f, d) /\ ~f.anyNode
      BY <2>2, <2>10 DEF Serves
    <3>2. d.id \notin list
      BY <2>8, <3>1 DEF Withdrawn
    <3> QED
      BY <2>2, <2>7, <2>10, <3>1, <3>2 DEF Withdrawn, Covered
  <2>11. Serves(t, h)'
    BY <2>2, <2>5, <2>9, <2>10 DEF Serves, Coming, Going
  <2>12. ServeInv'
    BY <2>1, <2>2, <2>3, <2>11 DEF ServeInv, OneAtATime, Serves, Delivered, Withdrawn, Covered
  <2> QED
    BY <1>2, <2>12, SameDevices DEF database
<1> QED
  BY <1>1, <1>2 DEF Resume

(* A handler whose writes bring and take devices only along a strict apply  *)
(* to every node of their users.                                           *)
LEMMA LaunchServes ==
  ASSUME ServeState, OneAtATime, NEW r \in Request, NEW t \in Txn, NEW rows,
         NEW todo \in SUBSET Node, NEW strict \in BOOLEAN, NEW anyNode \in BOOLEAN,
         t.del \subseteq devices, UNCHANGED conf,
         Coming(t) \cup Going(t) # {} => strict /\ ~anyNode,
         \A a \in Coming(t) : a \in FreshUsers(t) /\ Effective(a.user) \subseteq todo,
         \A d \in Going(t) : Effective(d.user) \subseteq todo,
         Launch(r, t, rows, todo, strict, anyNode)
  PROVE  ServeInv' /\ NextServed
<1> DEFINE f == [Idle EXCEPT !.strict = strict, !.anyNode = anyNode,
                             !.todo = todo, !.snapshot = FreshUsers(t)]
<1>1. f \in Flow
  BY IdleType, FreshUsersType DEF Flow, ServeState
<1>2. /\ f.tried = {} /\ f.at = {} /\ f.todo = todo /\ f.snapshot = FreshUsers(t)
      /\ f.strict = strict /\ f.anyNode = anyNode
  BY DEF Idle
<1>3. Resume(r, t, f, rows)
  BY DEF Launch, Free, OneAtATime
<1>4. \A a \in Coming(t) : Delivered(f, a)
  BY <1>2 DEF Delivered, Covered
<1>5. ASSUME NEW d \in Going(t), NEW e \in FreshUsers(t)
      PROVE  e.id # d.id
  <2>1. e \in (devices \ t.del) \cup t.add /\ d \in t.del /\ \A a \in t.add : a.id # d.id
    BY DEF FreshUsers, SeenDevices, Going
  <2> QED
    BY <2>1 DEF ServeState, LocksOK, UniqueDevices
<1>6. \A d \in Going(t) : Withdrawn(f, d)
  BY <1>2, <1>5 DEF Withdrawn, Covered
<1>7. Serves(t, f)
  BY <1>2, <1>4, <1>6 DEF Serves
<1> HIDE DEF f
<1> QED
  BY <1>1, <1>2, <1>3, <1>7, ResumeServes

(* A handler without device writes, or one that waits: only its flow moves. *)
LEMMA BlockServes ==
  ASSUME ServeState, OneAtATime, NEW r \in Request, Block(r)
  PROVE  ServeInv' /\ NextServed
BY SameDevices DEF Block, ServeState, TypeDb, ServeInv, OneAtATime, database, Flow

(* Every handler, up to its first await. *)
LEMMA HandlerServes ==
  ASSUME ServeState, OneAtATime, NEW r \in Request, Handler(r)
  PROVE  ServeInv' /\ NextServed
<1>0. /\ Coming(NoWrites) = {} /\ Going(NoWrites) = {} /\ NoWrites.del = {}
      /\ NoWrites \in Txn
  BY NoWritesType DEF Coming, Going, NoWrites
<1>1. ASSUME NEW u \in User, NEW h \in Hwid, RegisterDevice(r, u, h)
      PROVE  ServeInv' /\ NextServed
  <2> DEFINE stale == {e \in {d \in devices : d.user = u} : e.hwid = h}
             d == [id |-> nextId, user |-> u, hwid |-> h, status |-> "active"]
             t == [NoWrites EXCEPT !.add = {d}, !.del = stale]
             rows == {DeviceRow(e) : e \in stale} \cup {HwidRow(u, h)}
  <2>1. CASE Launch(r, t, rows, Effective(u), TRUE, FALSE) /\ UNCHANGED conf
    <3>1. d \in Device /\ stale \in SUBSET Device
      BY <1>1 DEF RegisterDevice, Device, DeviceStatus, TypeDb, ServeState
    <3>2. t \in Txn
      BY <3>1, WritesType
    <3>3. t.add = {d} /\ t.del = stale /\ t.users[u] = "keep"
      BY DEF NoWrites
    <3>4. d \in FreshUsers(t)
      BY <1>1, <3>3 DEF RegisterDevice, FreshUsers, SeenDevices, SeenUser
    <3>5. Effective(u) \in SUBSET Node
      BY LinkAssumption DEF Effective
    <3>6. \A a \in Coming(t) : a \in FreshUsers(t) /\ Effective(a.user) \subseteq Effective(u)
      BY <3>3, <3>4 DEF Coming
    <3>7. \A e \in Going(t) : Effective(e.user) \subseteq Effective(u)
      BY <3>3 DEF Going
    <3>8. t.del \subseteq devices
      BY <3>3
    <3> HIDE DEF t, rows
    <3> QED
      BY <2>1, <3>2, <3>5, <3>6, <3>7, <3>8, LaunchServes
  <2>2. CASE Block(r)
    BY <2>2, BlockServes
  <2> QED
    BY <1>1, <2>1, <2>2 DEF RegisterDevice
<1>2. ASSUME NEW u \in User, NEW h \in Hwid, RefreshDevice(r, u, h)
      PROVE  ServeInv' /\ NextServed
  BY <1>2, BlockServes DEF RefreshDevice
<1>3. ASSUME NEW gone \in SUBSET devices, NEW u \in User, \A d \in gone : d.user = u, NEW rows,
             UNCHANGED conf, Launch(r, [NoWrites EXCEPT !.del = gone], rows, Effective(u), TRUE, FALSE)
      PROVE  ServeInv' /\ NextServed
  <2>1. PICK t : t = [NoWrites EXCEPT !.del = gone]
    OBVIOUS
  <2>2. t \in Txn /\ t.add = {} /\ t.del = gone
    BY <2>1, NoWritesType DEF Txn, NoWrites, ServeState, TypeDb
  <2>3. Effective(u) \in SUBSET Node
    BY LinkAssumption DEF Effective
  <2>4. Coming(t) = {} /\ \A d \in Going(t) : Effective(d.user) \subseteq Effective(u)
    BY <1>3, <2>2 DEF Coming, Going
  <2> QED
    BY <1>3, <2>1, <2>2, <2>3, <2>4, LaunchServes
<1>4. ASSUME NEW d \in devices, RemoveDevice(r, d)
      PROVE  ServeInv' /\ NextServed
  <2>1. d.user \in User /\ {d} \in SUBSET devices
    BY DEF ServeState, TypeDb, Device
  <2> QED
    BY <1>3, <1>4, <2>1 DEF RemoveDevice
<1>5. ASSUME NEW u \in User, ResetDevices(r, u)
      PROVE  ServeInv' /\ NextServed
  <2>1. PICK mine \in SUBSET devices : mine = {d \in devices : d.user = u}
    OBVIOUS
  <2> QED
    BY <1>3, <1>5, <2>1 DEF ResetDevices
<1>6. ASSUME NEW t \in Txn, NEW rows, NEW todo \in SUBSET Node, NEW any \in BOOLEAN,
             t.del \subseteq devices, Coming(t) = {}, Going(t) = {}, UNCHANGED conf,
             Launch(r, t, rows, todo, FALSE, any)
      PROVE  ServeInv' /\ NextServed
  <2>1. PICK strict \in BOOLEAN : strict = FALSE
    OBVIOUS
  <2>2. Launch(r, t, rows, todo, strict, any)
    BY <1>6, <2>1
  <2> QED
    BY <1>6, <2>2, LaunchServes
<1>7. ASSUME NEW d \in devices, NEW s \in DeviceStatus, PatchDevice(r, d, s)
      PROVE  ServeInv' /\ NextServed
  <2>1. PICK e : e = [d EXCEPT !.status = s]
    OBVIOUS
  <2>2. d \in Device /\ e \in Device /\ e.id = d.id
    BY <2>1 DEF ServeState, TypeDb, Device
  <2>3. PICK t : t = [NoWrites EXCEPT !.del = {d}, !.add = {e}]
    OBVIOUS
  <2>4. t \in Txn /\ t.add = {e} /\ t.del = {d}
    BY <2>2, <2>3, NoWritesType DEF Txn, NoWrites
  <2>5. Coming(t) = {} /\ Going(t) = {}
    BY <2>2, <2>4 DEF Coming, Going
  <2>6. Explicit[d.user] \in SUBSET Node
    BY <2>2, LinkAssumption DEF Device
  <2>7. Launch(r, t, {DeviceRow(d)}, Explicit[d.user], FALSE, FALSE) /\ UNCHANGED conf
    BY <1>7, <2>1, <2>3 DEF PatchDevice
  <2> QED
    BY <1>6, <2>4, <2>5, <2>6, <2>7
<1>8. ASSUME NEW u \in User, EnableUser(r, u) \/ DisableUser(r, u) \/ DeleteUser(r, u)
      PROVE  ServeInv' /\ NextServed
  <2>1. PICK s \in UserStatus, todo \in SUBSET Node : SetUserStatus(r, u, s, todo)
    BY <1>8, LinkAssumption DEF EnableUser, DisableUser, DeleteUser, UserStatus, Effective
  <2>2. PICK t : t = IF userStatus[u] = s THEN NoWrites ELSE [NoWrites EXCEPT !.users[u] = s]
    OBVIOUS
  <2>3. t \in Txn /\ t.add = {} /\ t.del = {}
    BY <2>2, NoWritesType DEF Txn, NoWrites
  <2> QED
    BY <1>6, <2>1, <2>2, <2>3 DEF SetUserStatus, Coming, Going
<1>9. ASSUME NEW n \in Node, DisableNode(r, n) \/ EnableNode(r, n)
      PROVE  ServeInv' /\ NextServed
  <2>1. PICK s \in NodeStatus, any \in BOOLEAN : SetNodeStatus(r, n, s, any)
    BY <1>9 DEF DisableNode, EnableNode, NodeStatus
  <2>2. PICK t : t = IF nodeStatus[n] = s THEN NoWrites ELSE [NoWrites EXCEPT !.nodes[n] = s]
    OBVIOUS
  <2>3. t \in Txn /\ t.add = {} /\ t.del = {}
    BY <2>2, NoWritesType DEF Txn, NoWrites
  <2> QED
    BY <1>6, <2>1, <2>2, <2>3 DEF SetNodeStatus, Coming, Going
<1>10. ASSUME NEW n \in Node, ApplyNodeConfig(r, n)
       PROVE  ServeInv' /\ NextServed
  BY <1>0, <1>6, <1>10 DEF ApplyNodeConfig
<1>11. ASSUME NEW n \in Node, VerifyNode(r, n)
       PROVE  ServeInv' /\ NextServed
  <2>1. flow'[r].pc = "verify" /\ UNCHANGED <<devices, txn>>
    BY <1>11, IdleType DEF VerifyNode, ServeState, TypeDb, Flow, database
  <2>2. Coming(txn[r]) \cup Going(txn[r]) = {}
    BY <1>11 DEF VerifyNode, Ready, ServeState, ServeInv
  <2> QED
    BY <2>1, <2>2, SameDevices DEF ServeInv, OneAtATime
<1> QED
  BY <1>1, <1>2, <1>4, <1>5, <1>7, <1>8, <1>9, <1>10, <1>11 DEF Handler

(* Only the flow and the nodes change while the apply is under way.         *)
LEMMA AwaitServes ==
  ASSUME ServeState, OneAtATime, NEW r \in Request, Await(r)
  PROVE  ServeInv' /\ NextServed
<1> DEFINE f == flow[r]
<1>0. f \in Flow /\ txn[r] \in Txn /\ txn[r].del \subseteq devices
  BY DEF ServeState, TypeDb, LocksOK, Protected
<1>1. CASE WriteLands(r)
  <2>1. Serves(txn[r], f)
    BY <1>1 DEF WriteLands, ServeState, ServeInv
  <2>2. PICK g : g = flow'[r]
    OBVIOUS
  <2>3. /\ g.pc = "ssh" /\ g.wrote = "yes" /\ g.at = f.at /\ g.todo = f.todo /\ g.ok = f.ok
        /\ g.clients = f.clients /\ g.strict = f.strict /\ g.anyNode = f.anyNode
        /\ g.tried = f.tried /\ g.snapshot = f.snapshot
    BY <1>0, <1>1, <2>2 DEF WriteLands, Flow, ServeState, TypeDb
  <2>4. \A n \in Node : conf'[n] = IF n \in f.at THEN f.clients ELSE conf[n]
    BY <1>1 DEF WriteLands
  <2>5. f.at \subseteq Node /\ f.tried \subseteq Node
    BY <1>0 DEF Flow
  <2>6. ASSUME NEW a, Delivered(f, a), f.tried \cap f.at = {}
        PROVE  Delivered(g, a)'
    BY <2>3, <2>4, <2>5, <2>6 DEF Delivered, Covered
  <2>7. ASSUME NEW d, Withdrawn(f, d), f.tried \cap f.at = {}
        PROVE  Withdrawn(g, d)'
    BY <2>3, <2>4, <2>5, <2>7 DEF Withdrawn, Covered
  <2>8. PICK t : t = txn[r] /\ t = txn'[r]
    BY <1>1 DEF WriteLands
  <2>9. Serves(t, g)'
    BY <2>1, <2>3, <2>6, <2>7, <2>8 DEF Serves, Coming, Going
  <2>10. ServeInv'
    BY <2>2, <2>3, <2>8, <2>9 DEF ServeInv, OneAtATime, Serves, Delivered, Withdrawn, Covered
  <2> QED
    BY <1>1, <2>10, SameDevices DEF WriteLands, database
<1>2. CASE RestoreLands(r)
  <2>1. Serves(txn[r], f)
    BY <1>2 DEF RestoreLands, ServeState, ServeInv
  <2>2. PICK g : g = flow'[r]
    OBVIOUS
  <2>3. /\ g.pc = "ssh" /\ g.wrote = "restored" /\ g.at = f.at /\ g.todo = f.todo /\ g.ok = f.ok
        /\ g.clients = f.clients /\ g.strict = f.strict /\ g.anyNode = f.anyNode
        /\ g.tried = f.tried /\ g.snapshot = f.snapshot
    BY <1>0, <1>2, <2>2 DEF RestoreLands, Flow, ServeState, TypeDb
  <2>4. \A n \in Node : n \notin f.at => conf'[n] = conf[n]
    BY <1>2 DEF RestoreLands
  <2>5. f.at \subseteq Node /\ f.tried \subseteq Node
    BY <1>0 DEF Flow
  <2>6. ASSUME NEW a, Delivered(f, a), f.tried \cap f.at = {}
        PROVE  Delivered(g, a)'
    BY <2>3, <2>4, <2>5, <2>6 DEF Delivered, Covered
  <2>7. ASSUME NEW d, Withdrawn(f, d), f.tried \cap f.at = {}
        PROVE  Withdrawn(g, d)'
    BY <2>3, <2>4, <2>5, <2>7 DEF Withdrawn, Covered
  <2>8. PICK t : t = txn[r] /\ t = txn'[r]
    BY <1>2 DEF RestoreLands
  <2>9. Serves(t, g)'
    BY <2>1, <2>3, <2>6, <2>7, <2>8 DEF Serves, Coming, Going
  <2>10. ServeInv'
    BY <2>2, <2>3, <2>8, <2>9 DEF ServeInv, OneAtATime, Serves, Delivered, Withdrawn, Covered
  <2> QED
    BY <1>2, <2>10, SameDevices DEF RestoreLands, database
<1>3. CASE ApplyReturns(r)
  <2>1. PICK c : c = [f EXCEPT !.tried = f.tried \cup f.at, !.at = {}]
    OBVIOUS
  <2>2. /\ c \in Flow /\ c.at = {} /\ c.tried = f.tried \cup f.at /\ c.todo = f.todo
        /\ c.ok = f.ok /\ c.snapshot = f.snapshot /\ c.strict = f.strict /\ c.anyNode = f.anyNode
    BY <1>0, <2>1 DEF Flow
  <2>3. PICK t \in Txn : t.add = txn[r].add /\ t.del = txn[r].del /\ Resume(r, t, c, held[r])
    <3> DEFINE g == [n \in Node |->
                 IF n \in f.at /\ f.status = "failed" THEN "online" ELSE txn[r].nodes[n]]
               h == [n \in Node |->
                 IF n \in f.at /\ f.applied # "success" THEN "success" ELSE txn[r].applies[n]]
    <3>1. g \in [Node -> NodeStatus \cup {"keep"}] /\ h \in [Node -> ApplyStatus \cup {"keep"}]
      BY <1>0 DEF Txn, NodeStatus, ApplyStatus
    <3>2. PICK t : t = [txn[r] EXCEPT !.nodes = g, !.applies = h]
      OBVIOUS
    <3>3. t \in Txn /\ t.add = txn[r].add /\ t.del = txn[r].del
      BY <1>0, <3>1, <3>2 DEF Txn
    <3>4. Resume(r, t, c, held[r])
      BY <1>3, <2>1, <3>2 DEF ApplyReturns
    <3> QED
      BY <3>3, <3>4
  <2>4. Serves(txn[r], f) /\ f.wrote = "yes"
    BY <1>3 DEF ApplyReturns, ServeState, ServeInv
  <2>5. \A a : Delivered(f, a) => Delivered(c, a)
    BY <2>2, <2>4 DEF Delivered, Covered
  <2>6. \A d : Withdrawn(f, d) => Withdrawn(c, d)
    BY <2>2, <2>4 DEF Withdrawn, Covered
  <2>7. Serves(t, c)
    BY <2>2, <2>3, <2>4, <2>5, <2>6 DEF Serves, Coming, Going
  <2> QED
    BY <1>0, <1>3, <2>2, <2>3, <2>7, ResumeServes DEF ApplyReturns
<1>4. ASSUME NEW late \in BOOLEAN, ApplyFails(r, late)
      PROVE  ServeInv' /\ NextServed
  <2> DEFINE lost == f.at \cup IF late THEN f.todo ELSE {}
  <2>1. PICK c : c = [f EXCEPT !.tried = f.tried \cup lost, !.at = {}, !.todo = f.todo \ lost, !.ok = FALSE]
    OBVIOUS
  <2>2. /\ c \in Flow /\ c.at = {} /\ c.tried = f.tried \cup lost /\ c.todo = f.todo \ lost
        /\ ~c.ok /\ c.strict = f.strict /\ c.anyNode = f.anyNode
    BY <1>0, <2>1 DEF Flow
  <2>3. PICK t \in Txn : t.add = txn[r].add /\ t.del = txn[r].del /\ Resume(r, t, c, held[r])
    <3> DEFINE h == [n \in Node |->
              IF n \in lost /\ (n \in f.at => f.applied # "failed")
                            /\ (n \notin f.at => applyStatus[n] # "failed")
                THEN "failed" ELSE txn[r].applies[n]]
    <3>1. h \in [Node -> ApplyStatus \cup {"keep"}]
      BY <1>0 DEF Txn, ApplyStatus
    <3>2. PICK t : t = [txn[r] EXCEPT !.applies = h]
      OBVIOUS
    <3>3. t \in Txn /\ t.add = txn[r].add /\ t.del = txn[r].del
      BY <1>0, <3>1, <3>2 DEF Txn
    <3>4. Resume(r, t, c, held[r])
      BY <1>4, <2>1, <3>2 DEF ApplyFails
    <3> QED
      BY <3>3, <3>4
  <2>4. Serves(txn[r], f)
    BY <1>4 DEF ApplyFails, ServeState, ServeInv
  <2>5. Serves(t, c)
    BY <2>2, <2>3, <2>4 DEF Serves, Coming, Going
  <2> QED
    BY <1>0, <1>4, <2>2, <2>3, <2>5, ResumeServes DEF ApplyFails
<1>5. ASSUME NEW s \in {"online", "failed"}, VerifyReturns(r, s)
      PROVE  ServeInv' /\ NextServed
  <2>1. Coming(txn[r]) = {} /\ Going(txn[r]) = {}
    BY <1>5 DEF VerifyReturns, ServeState, ServeInv
  <2>2. PICK t : /\ t.add = txn[r].add /\ t.del = txn[r].del
                 /\ Commit(r, t, f)
    BY <1>0, <1>5 DEF VerifyReturns, Txn
  <2>3. Coming(t) = {} /\ Going(t) = {}
    BY <2>1, <2>2 DEF Coming, Going
  <2> QED
    BY <1>0, <1>5, <2>2, <2>3, CommitServes DEF VerifyReturns
<1> QED
  BY <1>1, <1>2, <1>3, <1>4, <1>5 DEF Await

(* The sweep, a restart: no device row changes, and no file of a node.      *)
LEMMA OtherServes ==
  ASSUME ServeState,
         Restart \/ (\E us \in SUBSET User : EnforceSelect(us)) \/ EnforceCommit \/ UNCHANGED vars
  PROVE  ServeInv' /\ NextServed
<1>1. CASE Restart
  BY <1>1, SameDevices DEF Restart, database, ServeInv, NoWrites, Idle, Coming, Going
<1>2. CASE UNCHANGED <<devices, conf, txn, flow>>
  BY <1>2, SameDevices DEF ServeState, ServeInv, Serves, Delivered, Withdrawn, Covered
<1> QED
  BY <1>1, <1>2 DEF EnforceSelect, EnforceCommit, vars, database

(* Every step of a behaviour without overlapping requests. *)
LEMMA StepServes ==
  ASSUME OneAtATime
  PROVE  Spec => [][ServeInv' /\ NextServed]_vars
<1>1. Spec => [](TypeDb /\ TypeRest /\ LocksOK)
  <2>1. TypeOK => TypeDb /\ TypeRest
    BY DEF TypeOK, TypeDb, TypeRest
  <2>2. LockInv => LocksOK
    BY DEF LockInv, LocksOK
  <2> QED
    BY <2>1, <2>2, TypeCorrect, LocksProtect, PTL
<1>2. Init => ServeInv
  BY DEF Init, ServeInv, Idle, NoWrites, Coming, Going
<1>3. TypeDb /\ TypeRest /\ LocksOK /\ ServeInv /\ [Next]_vars => ServeInv' /\ NextServed
  BY HandlerServes, AwaitServes, OtherServes DEF Next, WatchdogRestart, CrashRestart, ServeState
<1> QED
  BY <1>1, <1>2, <1>3, PTL DEF Spec

(* For every deployment, workload and fault, with one request at a time: a  *)
(* new device is committed only when every node its user may use accepts   *)
(* it, a handler that failed half-way included.                            *)
THEOREM CommitsServed ==
  ASSUME OneAtATime
  PROVE  Spec => CommitServed
<1>1. ServeInv' /\ NextServed =>
        \A d \in devices' : (\A e \in devices : e.id # d.id) =>
          \A n \in Effective(d.user) : d.id \in conf'[n]
  BY DEF NextServed
<1> QED
  BY <1>1, StepServes, PTL DEF CommitServed

(* Likewise a removed device: no node its user may use accepts it any more. *)
THEOREM RemovalsServed ==
  ASSUME OneAtATime
  PROVE  Spec => RemovalServed
<1>1. ServeInv' /\ NextServed =>
        \A d \in devices : (\A e \in devices' : e.id # d.id) =>
          \A n \in Effective(d.user) : d.id \notin conf'[n]
  BY DEF NextServed
<1> QED
  BY <1>1, StepServes, PTL DEF RemovalServed

-----------------------------------------------------------------------------
(* The files of the nodes, and the database. *)

(* The file that the users of a snapshot make of an online node. *)
File(snapshot, n) == Render(snapshot, n, "online")

(* An apply under way: the nodes behind it, and those it does not concern, *)
(* hold what its transaction will have committed.                          *)
SyncFlow(t, f) ==
  /\ f.ok /\ f.snapshot = FreshUsers(t) /\ f.wrote # "restored"
  /\ f.at \cap f.todo = {}
  /\ \A n \in Node :
       /\ n \in f.at => f.status = "online" /\ f.clients = File(f.snapshot, n)
       /\ n \notin f.todo /\ (n \in f.at => f.wrote = "yes") => conf[n] = File(f.snapshot, n)

(* Between requests, what the database asks for. *)
SyncInv ==
  /\ due = {} /\ ~blocked
  /\ \A n \in Node : nodeStatus[n] = "online"
  /\ \A r \in Request :
       /\ \A n \in Node : SeenNode(txn[r], n) = "online"
       /\ flow[r].pc # "stuck"
       /\ flow[r].pc = "ssh" => SyncFlow(txn[r], flow[r])
       /\ flow[r].pc = "verify" => flow[r].status = "online"
       /\ flow[r].pc # "ssh" => txn[r] = NoWrites
  /\ (\A r \in Request : flow[r].pc # "ssh") => \A n \in Node : conf[n] = Desired(n)

(* No fault, no sweep, no administration of nodes, and no user whose nodes  *)
(* come from the profile alone.                                            *)
CleanWork ==
  /\ OneAtATime /\ Faults = {}
  /\ "node" \notin Workload /\ "enforce" \notin Workload
  /\ \A u \in User : Explicit[u] = Effective(u)

(* What is known of a state before the step. *)
SyncState == TypeDb /\ TypeRest /\ SyncInv

-----------------------------------------------------------------------------
(* Files rendered from users that a node does not tell apart are the same.  *)
LEMMA SameFile ==
  ASSUME NEW S, NEW T, NEW n, \A e : n \in Effective(e.user) => (e \in S <=> e \in T)
  PROVE  File(S, n) = File(T, n)
<1>1. {e \in S : n \in Effective(e.user)} = {e \in T : n \in Effective(e.user)}
  OBVIOUS
<1> QED
  BY <1>1 DEF File, Render

(* The commit makes what the transaction has rendered the desired state.    *)
LEMMA CommitSyncs ==
  ASSUME SyncState, OneAtATime, NEW r \in Request, NEW t \in Txn, NEW f,
         UNCHANGED <<conf, due>>, Commit(r, t, f),
         \A n \in Node : SeenNode(t, n) = "online",
         \A n \in Node : conf[n] = File(FreshUsers(t), n)
  PROVE  SyncInv'
<1>1. Free(r, {NodeRow(n) : n \in f.tried})
  BY DEF OneAtATime, Free
<1>2. /\ devices' = SeenDevices(t)
      /\ userStatus' = [u \in User |-> SeenUser(t, u)]
      /\ nodeStatus' = [n \in Node |-> SeenNode(t, n)]
      /\ EndRequest(r) /\ UNCHANGED blocked
  BY <1>1 DEF Commit, SeenDevices
<1>3. \A d \in SeenDevices(t) : d.user \in User
  BY SeenType DEF SyncState, Device
<1>4. SeenDevices(NoWrites)' = SeenDevices(t)
  BY <1>2 DEF SeenDevices, NoWrites
<1>5. \A u \in User : SeenUser(NoWrites, u)' = SeenUser(t, u)
  BY <1>2 DEF SeenUser, NoWrites
<1>6. FreshUsers(NoWrites)' = FreshUsers(t)
  BY <1>3, <1>4, <1>5 DEF FreshUsers
<1>7. \A n \in Node : nodeStatus'[n] = "online" /\ SeenNode(NoWrites, n)' = "online"
  BY <1>2 DEF SeenNode, NoWrites
<1>8. \A n \in Node : conf'[n] = Desired(n)'
  BY <1>6, <1>7 DEF Desired, File
<1>9. \A s \in Request : txn'[s] = NoWrites /\ flow'[s].pc = "idle"
  BY <1>2 DEF EndRequest, SyncState, TypeDb, OneAtATime, Idle
<1> QED
  BY <1>2, <1>7, <1>8, <1>9 DEF SyncState, SyncInv

(* The loop goes on, or ends with a commit: no node is skipped or fails.    *)
LEMMA ResumeSyncs ==
  ASSUME SyncState, OneAtATime, NEW r \in Request, NEW t \in Txn, NEW f \in Flow, NEW rows,
         UNCHANGED <<conf, due>>,
         f.at = {}, f.ok, f.snapshot = FreshUsers(t),
         \A n \in Node : SeenNode(t, n) = "online",
         \A n \in Node \ f.todo : conf[n] = File(f.snapshot, n),
         Resume(r, t, f, rows)
  PROVE  SyncInv'
<1> DEFINE ready == {n \in f.todo : f.anyNode \/ SeenNode(t, n) = "online"}
           g == [f EXCEPT !.ok = f.ok /\ f.todo = {}]
<1>1. ready = f.todo /\ f.todo \subseteq Node
  BY DEF Flow
<1>2. CASE ready = {} /\ Settle(r, t, g)
  <2>1. g.ok
    BY <1>1, <1>2 DEF Flow
  <2>2. Commit(r, t, g)
    BY <1>2, <2>1 DEF Settle
  <2>3. \A n \in Node : conf[n] = File(FreshUsers(t), n)
    BY <1>1, <1>2
  <2> HIDE DEF g
  <2> QED
    BY <2>2, <2>3, CommitSyncs
<1>3. ASSUME NEW n \in ready, \A m \in ready : n <= m,
             flow' = [flow EXCEPT ![r] =
                [f EXCEPT !.pc = "ssh", !.at = {n},
                          !.todo = {m \in f.todo : m > n},
                          !.ok = f.ok /\ \A m \in f.todo : n <= m,
                          !.clients = Render(f.snapshot, n, SeenNode(t, n)),
                          !.status = SeenNode(t, n),
                          !.applied = applyStatus[n],
                          !.wrote = "no"]],
             txn' = [txn EXCEPT ![r] = t],
             UNCHANGED <<database, blocked>>
      PROVE  SyncInv'
  <2> DEFINE later == {m \in f.todo : m > n}
             fine  == f.ok /\ \A m \in f.todo : n <= m
             list  == Render(f.snapshot, n, SeenNode(t, n))
  <2>1. PICK h : h = flow'[r]
    OBVIOUS
  <2>2. /\ h.pc = "ssh" /\ h.at = {n} /\ h.todo = later /\ h.ok = fine /\ h.clients = list
        /\ h.wrote = "no" /\ h.snapshot = f.snapshot /\ h.status = SeenNode(t, n)
    BY <1>3, <2>1 DEF SyncState, TypeDb, Flow
  <2>3. txn'[r] = t
    BY <1>3 DEF SyncState, TypeDb
  <2>4. n \in f.todo /\ n \in Node /\ \A m \in Node : m \in Int
    BY <1>1, NodeAssumption
  <2>5. fine /\ f.todo = {n} \cup later /\ n \notin later
    BY <1>1, <1>3, <2>4
  <2>6. list = File(f.snapshot, n) /\ h.status = "online"
    BY <2>2, <2>4 DEF File
  <2>7. FreshUsers(t)' = FreshUsers(t) /\ \A m \in Node : SeenNode(t, m)' = "online"
    BY <1>3 DEF FreshUsers, SeenDevices, SeenUser, SeenNode, database
  <2>8. SyncFlow(t, h)'
    <3>1. \A m \in Node : m \notin h.todo /\ (m \in h.at => h.wrote = "yes") => m \notin f.todo
      BY <2>2, <2>5
    <3>2. \A m \in Node : m \in h.at => h.status = "online" /\ h.clients = File(h.snapshot, m)
      BY <2>2, <2>6
    <3> QED
      BY <2>2, <2>5, <2>7, <3>1, <3>2 DEF SyncFlow
  <2>9. \A m \in Node : nodeStatus'[m] = "online"
    BY <1>3 DEF SyncState, SyncInv, database
  <2>10. due' = {} /\ ~blocked'
    BY <1>3 DEF SyncState, SyncInv
  <2>11. \A s \in Request : flow'[s] = h /\ txn'[s] = t
    BY <2>1, <2>3 DEF OneAtATime
  <2>12. h.pc = "ssh"
    BY <2>2
  <2>13. \A m \in Node : SeenNode(t, m)' = "online"
    BY <2>7
  <2> QED
    BY <2>8, <2>9, <2>10, <2>11, <2>12, <2>13 DEF SyncInv, SyncFlow, FreshUsers, SeenDevices, SeenUser, SeenNode
<1> QED
  BY <1>2, <1>3 DEF Resume

(* A handler that visits every node of the users it concerns.               *)
LEMMA LaunchSyncs ==
  ASSUME SyncState, OneAtATime, NEW r \in Request, flow[r].pc = "idle", NEW t \in Txn, NEW rows,
         NEW todo \in SUBSET Node, NEW strict \in BOOLEAN, NEW anyNode \in BOOLEAN,
         UNCHANGED <<conf, due>>, t.nodes = NoWrites.nodes,
         \A d : d \in FreshUsers(t) <=> d \notin FreshUsers(NoWrites)
                  => Effective(d.user) \subseteq todo,
         Launch(r, t, rows, todo, strict, anyNode)
  PROVE  SyncInv'
<1> DEFINE f == [Idle EXCEPT !.strict = strict, !.anyNode = anyNode,
                             !.todo = todo, !.snapshot = FreshUsers(t)]
<1>1. f \in Flow
  BY IdleType, FreshUsersType DEF Flow, SyncState
<1>2. f.at = {} /\ f.todo = todo /\ f.snapshot = FreshUsers(t) /\ f.ok
  BY DEF Idle
<1>3. Resume(r, t, f, rows)
  BY DEF Launch, Free, OneAtATime
<1>4. \A n \in Node : SeenNode(t, n) = "online" /\ conf[n] = File(FreshUsers(NoWrites), n)
  <2>1. \A s \in Request : flow[s].pc # "ssh"
    BY DEF OneAtATime
  <2> QED
    BY <2>1 DEF SyncState, SyncInv, SeenNode, NoWrites, Desired, File
<1>5. \A n \in Node \ todo : conf[n] = File(FreshUsers(t), n)
  BY <1>4, SameFile
<1> HIDE DEF f
<1> QED
  BY <1>1, <1>2, <1>3, <1>4, <1>5, ResumeSyncs

(* Every handler, up to its first await. *)
LEMMA HandlerSyncs ==
  ASSUME SyncState, CleanWork, NEW r \in Request, Handler(r)
  PROVE  SyncInv'
<1>0. /\ OneAtATime
      /\ SeenDevices(NoWrites) = devices /\ \A u \in User : SeenUser(NoWrites, u) = userStatus[u]
      /\ \A u \in User : Explicit[u] = Effective(u) /\ Explicit[u] \in SUBSET Node
  BY LinkAssumption DEF CleanWork, SeenDevices, SeenUser, NoWrites
<1>a. \A d \in devices : d \in Device /\ d.user \in User
  BY DEF SyncState, TypeDb, Device
<1>1. ASSUME NEW u \in User, NEW h \in Hwid, RegisterDevice(r, u, h)
      PROVE  SyncInv'
  <2> DEFINE stale == {e \in {d \in devices : d.user = u} : e.hwid = h}
             d == [id |-> nextId, user |-> u, hwid |-> h, status |-> "active"]
             t == [NoWrites EXCEPT !.add = {d}, !.del = stale]
             rows == {DeviceRow(e) : e \in stale} \cup {HwidRow(u, h)}
  <2>1. d \in Device /\ stale \in SUBSET Device
    BY <1>1 DEF RegisterDevice, Device, DeviceStatus, TypeDb, SyncState
  <2>2. t \in Txn
    BY <2>1, WritesType
  <2>3. t.add = {d} /\ t.del = stale /\ t.users = NoWrites.users /\ t.nodes = NoWrites.nodes
    BY DEF NoWrites
  <2>4. Launch(r, t, rows, Effective(u), TRUE, FALSE)
    BY <1>1 DEF RegisterDevice, CleanWork, OneAtATime, Free
  <2>5. ASSUME NEW e, e.user # u
        PROVE  e \in FreshUsers(t) <=> e \in FreshUsers(NoWrites)
    BY <1>0, <2>3, <2>5 DEF FreshUsers, SeenDevices, SeenUser
  <2>6. \A e : (e \in FreshUsers(t) <=> e \notin FreshUsers(NoWrites)) => Effective(e.user) \subseteq Effective(u)
    BY <2>5
  <2>7. UNCHANGED <<conf, due>> /\ flow[r].pc = "idle"
    BY <1>1 DEF RegisterDevice, Ready
  <2> HIDE DEF t, rows
  <2> QED
    BY <1>0, <2>2, <2>3, <2>4, <2>6, <2>7, LaunchSyncs
<1>2. ASSUME NEW u \in User, NEW h \in Hwid, RefreshDevice(r, u, h)
      PROVE  FALSE
  BY <1>2 DEF RefreshDevice, CleanWork, OneAtATime, Free
<1>3. ASSUME NEW t \in Txn, NEW u \in User, \A d \in t.del \cup t.add : d.user = u,
             t.users = NoWrites.users, t.nodes = NoWrites.nodes,
             NEW rows, NEW strict \in BOOLEAN, NEW any \in BOOLEAN, flow[r].pc = "idle",
             UNCHANGED <<conf, due>>, Launch(r, t, rows, Effective(u), strict, any)
      PROVE  SyncInv'
  <2>1. ASSUME NEW e, e.user # u
        PROVE  e \in FreshUsers(t) <=> e \in FreshUsers(NoWrites)
    BY <1>0, <1>3, <2>1 DEF FreshUsers, SeenDevices, SeenUser
  <2>2. \A e : (e \in FreshUsers(t) <=> e \notin FreshUsers(NoWrites)) => Effective(e.user) \subseteq Effective(u)
    BY <2>1
  <2> QED
    BY <1>0, <1>3, <2>2, LaunchSyncs
<1>4. \A gone \in SUBSET devices : \A t : t = [NoWrites EXCEPT !.del = gone]
        => /\ t \in Txn /\ t.del = gone /\ t.add = {}
           /\ t.users = NoWrites.users /\ t.nodes = NoWrites.nodes
  BY <1>a, NoWritesType DEF Txn, NoWrites
<1>5. ASSUME NEW u \in User, NEW gone \in SUBSET devices, \A d \in gone : d.user = u, NEW rows,
             Ready(r, "remove"), UNCHANGED <<conf, due>>,
             Launch(r, [NoWrites EXCEPT !.del = gone], rows, Effective(u), TRUE, FALSE)
      PROVE  SyncInv'
  <2>1. PICK t : t = [NoWrites EXCEPT !.del = gone]
    OBVIOUS
  <2>2. PICK strict \in BOOLEAN, any \in BOOLEAN : strict /\ ~any
    OBVIOUS
  <2>3. Launch(r, t, rows, Effective(u), strict, any) /\ flow[r].pc = "idle"
    BY <1>5, <2>1, <2>2 DEF Ready
  <2>4. t \in Txn /\ t.del = gone /\ t.add = {} /\ t.users = NoWrites.users /\ t.nodes = NoWrites.nodes
    BY <1>4, <2>1
  <2> QED
    BY <1>3, <1>5, <2>3, <2>4
<1>12. ASSUME NEW d \in devices, RemoveDevice(r, d)
       PROVE  SyncInv'
  <2>1. d.user \in User /\ {d} \in SUBSET devices
    BY <1>a
  <2> QED
    BY <1>5, <1>12, <2>1 DEF RemoveDevice
<1>13. ASSUME NEW u \in User, ResetDevices(r, u)
       PROVE  SyncInv'
  <2>1. PICK mine \in SUBSET devices : mine = {d \in devices : d.user = u}
    OBVIOUS
  <2> QED
    BY <1>5, <1>13, <2>1 DEF ResetDevices
<1>6. ASSUME NEW d \in devices, NEW s \in DeviceStatus, PatchDevice(r, d, s)
      PROVE  SyncInv'
  <2>1. PICK e : e = [d EXCEPT !.status = s]
    OBVIOUS
  <2>2. e \in Device /\ e.user = d.user /\ d.user \in User
    BY <1>a, <2>1 DEF Device
  <2>3. PICK t : t = [NoWrites EXCEPT !.del = {d}, !.add = {e}]
    OBVIOUS
  <2>4. t \in Txn /\ t.del = {d} /\ t.add = {e} /\ t.users = NoWrites.users /\ t.nodes = NoWrites.nodes
    BY <1>a, <2>2, <2>3, NoWritesType DEF Txn, NoWrites
  <2>5. PICK strict \in BOOLEAN, any \in BOOLEAN : ~strict /\ ~any
    OBVIOUS
  <2>6. /\ Launch(r, t, {DeviceRow(d)}, Effective(d.user), strict, any)
        /\ flow[r].pc = "idle" /\ UNCHANGED <<conf, due>>
    BY <1>0, <1>6, <2>1, <2>2, <2>3, <2>5 DEF PatchDevice, Ready
  <2> QED
    BY <1>3, <2>2, <2>4, <2>6
<1>7. ASSUME NEW u \in User, NEW s \in UserStatus, flow[r].pc = "idle",
             SetUserStatus(r, u, s, Effective(u))
      PROVE  SyncInv'
  <2>1. PICK t : t = IF userStatus[u] = s THEN NoWrites ELSE [NoWrites EXCEPT !.users[u] = s]
    OBVIOUS
  <2>2. /\ t \in Txn /\ t.add = NoWrites.add /\ t.del = NoWrites.del /\ t.nodes = NoWrites.nodes
        /\ \A v \in User : v # u => t.users[v] = NoWrites.users[v]
    BY <2>1, NoWritesType DEF Txn, NoWrites
  <2>3. SeenDevices(t) = devices /\ \A v \in User : v # u => SeenUser(t, v) = userStatus[v]
    BY <1>0, <2>2 DEF SeenDevices, SeenUser, NoWrites
  <2>4. ASSUME NEW e, e.user # u
        PROVE  e \in FreshUsers(t) <=> e \in FreshUsers(NoWrites)
    BY <1>0, <1>a, <2>3, <2>4 DEF FreshUsers
  <2>5. \A e : (e \in FreshUsers(t) <=> e \notin FreshUsers(NoWrites)) => Effective(e.user) \subseteq Effective(u)
    BY <2>4
  <2> QED
    BY <1>0, <1>7, <2>1, <2>2, <2>5, LaunchSyncs DEF SetUserStatus
<1>8. ASSUME NEW u \in User, EnableUser(r, u) \/ DisableUser(r, u) \/ DeleteUser(r, u)
      PROVE  SyncInv'
  BY <1>0, <1>7, <1>8 DEF EnableUser, DisableUser, DeleteUser, UserStatus, Ready
<1>9. ASSUME NEW n \in Node, ApplyNodeConfig(r, n)
      PROVE  SyncInv'
  BY <1>0, <1>9, NoWritesType, LaunchSyncs DEF ApplyNodeConfig, Ready
<1>10. ASSUME NEW n \in Node, VerifyNode(r, n)
       PROVE  SyncInv'
  <2>1. flow'[r].pc = "verify" /\ flow'[r].status = nodeStatus[n] /\ UNCHANGED <<database, conf, txn, due, blocked>>
    BY <1>10, IdleType DEF VerifyNode, SyncState, TypeDb, Flow
  <2>2. flow[r].pc = "idle"
    BY <1>10 DEF VerifyNode, Ready
  <2> QED
    BY <1>0, <2>1, <2>2 DEF SyncState, SyncInv, OneAtATime, database, SeenNode, Desired, FreshUsers, SeenDevices, SeenUser
<1>11. ASSUME NEW n \in Node, DisableNode(r, n) \/ EnableNode(r, n)
       PROVE  FALSE
  BY <1>11 DEF DisableNode, EnableNode, SetNodeStatus, Ready, CleanWork
<1> QED
  BY <1>1, <1>2, <1>6, <1>8, <1>9, <1>10, <1>11, <1>12, <1>13 DEF Handler

(* Every answer of a node. *)
LEMMA AwaitSyncs ==
  ASSUME SyncState, CleanWork, NEW r \in Request, Await(r)
  PROVE  SyncInv'
<1> DEFINE f == flow[r]
<1>0. f \in Flow /\ txn[r] \in Txn /\ OneAtATime
  BY DEF SyncState, TypeDb, CleanWork
<1>1. CASE WriteLands(r)
  <2>1. SyncFlow(txn[r], f)
    BY <1>1 DEF WriteLands, SyncState, SyncInv
  <2>2. PICK g : g = flow'[r]
    OBVIOUS
  <2>3. /\ g.pc = "ssh" /\ g.wrote = "yes" /\ g.at = f.at /\ g.todo = f.todo /\ g.ok = f.ok
        /\ g.clients = f.clients /\ g.snapshot = f.snapshot /\ g.status = f.status
    BY <1>0, <1>1, <2>2 DEF WriteLands, Flow, SyncState, TypeDb
  <2>4. \A n \in Node : conf'[n] = IF n \in f.at THEN f.clients ELSE conf[n]
    BY <1>1 DEF WriteLands
  <2>5. PICK t : t = txn[r] /\ t = txn'[r]
    BY <1>1 DEF WriteLands
  <2>6. FreshUsers(t)' = FreshUsers(t) /\ \A m \in Node : SeenNode(t, m)' = "online"
    BY <1>1, <2>5 DEF WriteLands, SyncState, SyncInv, FreshUsers, SeenDevices, SeenUser, SeenNode, database
  <2>7. SyncFlow(t, g)'
    BY <2>1, <2>3, <2>4, <2>5, <2>6 DEF SyncFlow
  <2>8. due' = {} /\ ~blocked' /\ \A m \in Node : nodeStatus'[m] = "online"
    BY <1>1 DEF WriteLands, SyncState, SyncInv, database
  <2>9. \A s \in Request : flow'[s] = g /\ txn'[s] = t
    BY <1>0, <2>2, <2>5 DEF OneAtATime
  <2>10. g.pc = "ssh"
    BY <2>3
  <2>11. \A m \in Node : SeenNode(t, m)' = "online"
    BY <2>6
  <2>12. \E s \in Request : flow'[s].pc = "ssh"
    BY <2>9, <2>10
  <2>13. \A s \in Request : SyncFlow(txn[s], flow[s])'
    <3>1. \A s \in Request : FreshUsers(txn[s])' = FreshUsers(t)'
      BY <2>9 DEF FreshUsers, SeenDevices, SeenUser
    <3> QED
      BY <2>7, <2>9, <3>1 DEF SyncFlow
  <2>14. \A s \in Request : \A n \in Node : SeenNode(txn[s], n)' = "online"
    BY <2>9, <2>11 DEF SeenNode
  <2> QED
    BY <2>8, <2>9, <2>10, <2>12, <2>13, <2>14 DEF SyncInv
<1>2. CASE ApplyReturns(r)
  <2>1. PICK c : c = [f EXCEPT !.tried = f.tried \cup f.at, !.at = {}]
    OBVIOUS
  <2>2. c \in Flow /\ c.at = {} /\ c.todo = f.todo /\ c.ok = f.ok /\ c.snapshot = f.snapshot
    BY <1>0, <2>1 DEF Flow
  <2>3. SyncFlow(txn[r], f) /\ f.wrote = "yes" /\ \A n \in Node : SeenNode(txn[r], n) = "online"
    BY <1>2 DEF ApplyReturns, SyncState, SyncInv
  <2>4. PICK t \in Txn : /\ t.add = txn[r].add /\ t.del = txn[r].del /\ t.users = txn[r].users
                         /\ \A n \in Node : t.nodes[n] = txn[r].nodes[n]
                         /\ Resume(r, t, c, held[r])
    <3> DEFINE g == [n \in Node |->
                 IF n \in f.at /\ f.status = "failed" THEN "online" ELSE txn[r].nodes[n]]
               h == [n \in Node |->
                 IF n \in f.at /\ f.applied # "success" THEN "success" ELSE txn[r].applies[n]]
    <3>1. g \in [Node -> NodeStatus \cup {"keep"}] /\ h \in [Node -> ApplyStatus \cup {"keep"}]
      BY <1>0 DEF Txn, NodeStatus, ApplyStatus
    <3>2. \A n \in Node : g[n] = txn[r].nodes[n]
      BY <2>3 DEF SyncFlow
    <3>3. PICK t : t = [txn[r] EXCEPT !.nodes = g, !.applies = h]
      OBVIOUS
    <3>4. t.nodes = g /\ t \in Txn /\ t.add = txn[r].add /\ t.del = txn[r].del /\ t.users = txn[r].users
      BY <1>0, <3>1, <3>3 DEF Txn
    <3>5. Resume(r, t, c, held[r])
      BY <1>2, <2>1, <3>3 DEF ApplyReturns
    <3> HIDE DEF g, h
    <3> QED
      BY <3>2, <3>4, <3>5
  <2>5. FreshUsers(t) = FreshUsers(txn[r]) /\ \A n \in Node : SeenNode(t, n) = "online"
    BY <2>3, <2>4 DEF FreshUsers, SeenDevices, SeenUser, SeenNode
  <2>6. c.ok /\ c.snapshot = FreshUsers(t) /\ \A n \in Node \ c.todo : conf[n] = File(c.snapshot, n)
    BY <2>2, <2>3, <2>5 DEF SyncFlow
  <2> QED
    BY <1>0, <1>2, <2>2, <2>4, <2>5, <2>6, ResumeSyncs DEF ApplyReturns
<1>3. ASSUME NEW s \in {"online", "failed"}, VerifyReturns(r, s)
      PROVE  SyncInv'
  <2>1. s = "online" /\ f.status = "online" /\ txn[r] = NoWrites /\ \A n \in Node : conf[n] = Desired(n)
    <3>1. \A q \in Request : flow[q].pc # "ssh"
      BY <1>0, <1>3 DEF VerifyReturns, OneAtATime
    <3> QED
      BY <1>3, <3>1 DEF VerifyReturns, CleanWork, SyncState, SyncInv
  <2> DEFINE g == [n \in Node |-> IF n \in f.at /\ f.status # s THEN s ELSE txn[r].nodes[n]]
  <2>2. g = NoWrites.nodes
    BY <2>1 DEF NoWrites
  <2>3. PICK t : t = [txn[r] EXCEPT !.nodes = g]
    OBVIOUS
  <2>4. t = NoWrites
    BY <2>1, <2>2, <2>3 DEF NoWrites
  <2>5. Commit(r, NoWrites, f)
    BY <1>3, <2>3, <2>4 DEF VerifyReturns
  <2>6. \A n \in Node : conf[n] = File(FreshUsers(NoWrites), n) /\ SeenNode(NoWrites, n) = "online"
    BY <2>1 DEF Desired, File, SyncState, SyncInv
  <2> QED
    BY <1>0, <1>3, <2>5, <2>6, NoWritesType, CommitSyncs DEF VerifyReturns
<1> QED
  BY <1>1, <1>2, <1>3 DEF Await, RestoreLands, ApplyFails, CleanWork

(* Clean work keeps the nodes synchronised, on every deployment and however *)
(* long it goes on: between requests each node serves exactly the clients  *)
(* that follow from the database.                                          *)
THEOREM Synchronised ==
  ASSUME CleanWork
  PROVE  Spec => []QuiescentSync
<1>1. Spec => [](TypeDb /\ TypeRest)
  <2>1. TypeOK => TypeDb /\ TypeRest
    BY DEF TypeOK, TypeDb, TypeRest
  <2> QED
    BY <2>1, TypeCorrect, PTL
<1>2. Init => SyncInv
  BY DEF Init, SyncInv, Idle, NoWrites, SeenNode
<1>3. TypeDb /\ TypeRest /\ SyncInv /\ [Next]_vars => SyncInv'
  <2> SUFFICES ASSUME SyncState, [Next]_vars PROVE SyncInv'
    BY DEF SyncState
  <2>1. CASE UNCHANGED vars
    BY <2>1 DEF vars, SyncState, SyncInv, SyncFlow, SeenNode, Desired, FreshUsers, SeenDevices, SeenUser
  <2>2. ~(\E us \in SUBSET User : EnforceSelect(us)) /\ ~EnforceCommit /\ ~WatchdogRestart /\ ~CrashRestart
    BY DEF EnforceSelect, EnforceCommit, WatchdogRestart, CrashRestart, CleanWork, SyncState, SyncInv
  <2> QED
    BY <2>1, <2>2, HandlerSyncs, AwaitSyncs DEF Next
<1>4. SyncInv => QuiescentSync
  <2> SUFFICES ASSUME SyncInv, Quiescent, NEW n \in Node PROVE conf[n] = Desired(n)
    BY DEF QuiescentSync
  <2> QED
    BY DEF SyncInv, Quiescent
<1> QED
  BY <1>1, <1>2, <1>3, <1>4, PTL DEF Spec
=============================================================================
