--------------------------- MODULE TrafficProofs ---------------------------
(***************************************************************************)
(* Proofs about Traffic.  With one collection at a time, whatever restarts,*)
(* skipped nodes, removed devices and resets come in between:              *)
(*   - no total of a device goes down, and no user is charged more than    *)
(*     the user's devices, present and past;                               *)
(*   - if every device is a client of at most one node, no device and no   *)
(*     user is charged a byte that was not sent, and the snapshots of a    *)
(*     node add up to what was charged.                                    *)
(* With one metrics request at a time, no node is charged a byte it did    *)
(* not carry.  The types need no such hypothesis.                          *)
(***************************************************************************)
EXTENDS Traffic, FiniteSetTheorems, WellFoundedInduction, TLAPS

OneCollector == \A c, e \in Collector : c = e
OneHome      == \A d \in Device : \A n, m \in Usable[d] : n = m
OneMeter     == \A m, k \in Meter : m = k

-----------------------------------------------------------------------------
(* Devices.                                                                *)

(* Charged `total' so far with `raw' stored, d was not overcharged, nor    *)
(* will the next answer overcharge it.                                     *)
Fits(total, raw, d) ==
  /\ total <= sent[d]
  /\ \A n \in Usable[d] : total + Delta(raw, counter[n][d]) <= sent[d]

Columns(l) ==
  /\ l = [raw |-> l.raw, total |-> l.total, used |-> l.used, status |-> l.status]
  /\ l.raw \in [Device -> Nat]
  /\ l.total \in [Device -> Nat]

(* A session between two nodes. *)
Shape(s) == s.hit \subseteq Device /\ Columns(s.base) /\ Columns(s.mine)
Between(s) ==
  /\ s = [pc |-> "ask", todo |-> s.todo, answer |-> s.answer, hit |-> s.hit,
          base |-> s.base, mine |-> s.mine, snaps |-> s.snaps]
  /\ s.todo \in Seq(Node) /\ s.answer \in [Device -> Nat]
  /\ Shape(s)

(* The users it has read are as they are in the database and are charged   *)
(* what fits, all others are untouched.                                    *)
Sound(s) ==
  /\ Shape(s)
  /\ \A d \in Device :
       IF Owner[d] \in {Owner[e] : e \in s.hit}
         THEN /\ s.base.raw[d] = db.raw[d] /\ s.base.total[d] = db.total[d]
              /\ Fits(s.mine.total[d], s.mine.raw[d], d)
         ELSE s.base.raw[d] = s.mine.raw[d] /\ s.base.total[d] = s.mine.total[d]

(* Its answer, once applied, fits too. *)
AnswerFits(c, d) ==
  Fits(View(c).total[d] + Delta(View(c).raw[d], collect[c].answer[d]),
       collect[c].answer[d], d)

DeviceTypes ==
  /\ counter \in [Node -> [Device -> Nat]]
  /\ sent \in [Device -> Nat]
  /\ rows \subseteq Device
  /\ Columns(db)
  /\ collect = [c \in Collector |-> collect[c]]
  /\ \A c \in Collector :
       /\ collect[c] = [pc |-> collect[c].pc, todo |-> collect[c].todo,
                        answer |-> collect[c].answer, hit |-> collect[c].hit,
                        base |-> collect[c].base, mine |-> collect[c].mine,
                        snaps |-> collect[c].snaps]
       /\ collect[c].answer \in [Device -> Nat]
       /\ collect[c].todo \in Seq(Node)
       /\ collect[c].pc # "idle" => collect[c].todo # << >>

DeviceInv ==
  /\ DeviceTypes
  /\ \A n \in Node, d \in Device : counter[n][d] > 0 => n \in Usable[d]
  /\ \A d \in Device : Fits(db.total[d], db.raw[d], d)
  /\ \A c \in Collector : Sound(collect[c])
  /\ \A c \in Collector, d \in Device :
       collect[c].pc = "apply" /\ collect[c].answer[d] > 0 => AnswerFits(c, d)

(* Delta is a natural number. *)
LEMMA DeltaNat == ASSUME NEW a \in Nat, NEW b \in Nat PROVE Delta(a, b) \in Nat
BY DEF Delta

(* What a session computes with: the rows it has read, as it has changed   *)
(* them, and the committed ones of all other users.                        *)
LEMMA ViewTyped ==
  ASSUME DeviceTypes, NEW c \in Collector, Shape(collect[c])
  PROVE  /\ Columns(View(c))
         /\ \A d \in Device : Owner[d] \in Pinned(c) =>
              View(c).raw[d] = collect[c].mine.raw[d] /\ View(c).total[d] = collect[c].mine.total[d]
         /\ \A d \in Device : Owner[d] \notin Pinned(c) =>
              View(c).raw[d] = db.raw[d] /\ View(c).total[d] = db.total[d]
<1>1. /\ View(c).raw = [d \in Device |-> IF Owner[d] \in Pinned(c)
                          THEN collect[c].mine.raw[d] ELSE db.raw[d]]
      /\ View(c).total = [d \in Device |-> IF Owner[d] \in Pinned(c)
                          THEN collect[c].mine.total[d] ELSE db.total[d]]
      /\ View(c) = [raw |-> View(c).raw, total |-> View(c).total,
                    used |-> View(c).used, status |-> View(c).status]
  BY DEF View, Overlay
<1>2. Columns(db) /\ Columns(collect[c].mine)
  BY DEF DeviceTypes, Shape
<1>3. Columns(View(c))
  BY <1>1, <1>2 DEF Columns
<1> QED BY <1>1, <1>3

(* All of it fits. *)
LEMMA ViewColumns ==
  ASSUME DeviceInv, NEW c \in Collector
  PROVE  /\ Columns(View(c))
         /\ \A d \in Device : Fits(View(c).total[d], View(c).raw[d], d)
<1>1. DeviceTypes /\ Sound(collect[c]) /\ Shape(collect[c])
  BY DEF DeviceInv, Sound
<1>2. ASSUME NEW d \in Device
      PROVE  Fits(View(c).total[d], View(c).raw[d], d)
  <2>1. CASE Owner[d] \in Pinned(c)
    <3>1. Fits(collect[c].mine.total[d], collect[c].mine.raw[d], d)
      BY <1>1, <2>1 DEF Sound, Pinned
    <3> QED BY <1>1, <2>1, <3>1, ViewTyped
  <2>2. CASE Owner[d] \notin Pinned(c)
    <3>1. Fits(db.total[d], db.raw[d], d)
      BY DEF DeviceInv
    <3>2. View(c).total[d] = db.total[d] /\ View(c).raw[d] = db.raw[d]
      BY <1>1, <2>2, ViewTyped
    <3> QED BY <3>1, <3>2
  <2> QED BY <2>1, <2>2
<1> QED BY <1>1, <1>2, ViewTyped

(* An idle session is sound. *)
LEMMA IdleSound ==
  /\ Columns(Blank)
  /\ Sound(IdleCollect)
  /\ IdleCollect.pc = "idle" /\ IdleCollect.todo = << >> /\ IdleCollect.hit = {}
  /\ IdleCollect.answer \in [Device -> Nat] /\ IdleCollect.snaps = None
  /\ IdleCollect.base = Blank /\ IdleCollect.mine = Blank
<1>1. Columns(Blank)
  BY DEF Columns, Blank
<1>2. /\ IdleCollect.hit = {} /\ IdleCollect.base = Blank /\ IdleCollect.mine = Blank
      /\ IdleCollect.pc = "idle" /\ IdleCollect.todo = << >>
      /\ IdleCollect.answer \in [Device -> Nat] /\ IdleCollect.snaps = None
  BY DEF IdleCollect, Silent
<1> QED BY <1>1, <1>2 DEF Sound, Shape

(* After a commit, an abort or a restart every session is idle.            *)
LEMMA IdleTypes ==
  ASSUME DeviceTypes, collect' = [e \in Collector |-> IdleCollect], Columns(db'),
         UNCHANGED <<counter, rows, sent>>
  PROVE  DeviceTypes'
<1>1. /\ IdleCollect.pc = "idle" /\ IdleCollect.todo = << >> /\ << >> \in Seq(Node)
      /\ IdleCollect.answer \in [Device -> Nat]
      /\ IdleCollect = [pc |-> IdleCollect.pc, todo |-> IdleCollect.todo,
                        answer |-> IdleCollect.answer, hit |-> IdleCollect.hit,
                        base |-> IdleCollect.base, mine |-> IdleCollect.mine,
                        snaps |-> IdleCollect.snaps]
  BY IdleSound DEF IdleCollect
<1>2. Columns(db)'
  BY DEF Columns
<1>3. \A e \in Collector : collect'[e] = IdleCollect
  OBVIOUS
<1>4. /\ counter' \in [Node -> [Device -> Nat]] /\ sent' \in [Device -> Nat]
      /\ rows' \subseteq Device /\ collect' = [e \in Collector |-> collect'[e]]
  BY DEF DeviceTypes
<1> QED BY <1>1, <1>2, <1>3, <1>4 DEF DeviceTypes

(* A commit writes what the session has changed of the rows that exist.    *)
Written(s) ==
  /\ db'.raw = [d \in Device |-> IF d \in rows /\ s.mine.raw[d] # s.base.raw[d]
                  THEN s.mine.raw[d] ELSE db.raw[d]]
  /\ db'.total = [d \in Device |-> IF d \in rows /\ s.mine.total[d] # s.base.total[d]
                    THEN s.mine.total[d] ELSE db.total[d]]

(* A session goes on to its next node, commits or aborts.                  *)
LEMMA Proceeded ==
  ASSUME OneCollector, DeviceTypes, NEW c \in Collector, NEW s, Between(s),
         Proceed(c, s), UNCHANGED <<counter, rows, sent>>
  PROVE  /\ DeviceTypes'
         /\ \/ db' = db /\ collect' = [e \in Collector |-> s]
            \/ collect' = [e \in Collector |-> IdleCollect] /\ (db' = db \/ Written(s))
<1>1. /\ Columns(db) /\ Shape(s) /\ s.pc = "ask"
      /\ \A x : [collect EXCEPT ![c] = x] = [e \in Collector |-> x]
  <2>1. \A e \in Collector : e = c
    BY DEF OneCollector
  <2>2. collect = [e \in Collector |-> collect[e]] /\ Columns(db)
    BY DEF DeviceTypes
  <2>3. \A x : [collect EXCEPT ![c] = x] = [e \in Collector |-> x]
    BY <2>1, <2>2
  <2>4. s.pc = "ask" /\ Shape(s)
    BY DEF Between
  <2> QED BY <2>2, <2>3, <2>4
<1>2. CASE s.todo # << >> /\ collect' = [collect EXCEPT ![c] = s] /\ db' = db
  <2>1. collect' = [e \in Collector |-> s]
    BY <1>1, <1>2
  <2>2. DeviceTypes'
    BY <1>1, <1>2, <2>1 DEF Columns, DeviceTypes, Between
  <2> QED BY <1>2, <2>1, <2>2
<1>3. CASE Abort(c, s)
  BY <1>1, <1>3, IdleTypes DEF Abort
<1>4. CASE Commit(c, s)
  <2>1. collect' = [e \in Collector |-> IdleCollect]
    BY <1>1, <1>4 DEF Commit
  <2>2. /\ Written(s)
        /\ db' = [raw |-> db'.raw, total |-> db'.total, used |-> db'.used,
                  status |-> db'.status]
    BY <1>1, <1>4 DEF Commit, InRows, Flush, Columns, Written
  <2>3. Columns(db')
    BY <1>1, <2>2 DEF Columns, Written, Shape
  <2> QED BY <2>1, <2>2, <2>3, IdleTypes
<1> QED BY <1>2, <1>3, <1>4 DEF Proceed

(* A session that goes on keeps what fits.                                 *)
LEMMA ProceedKeeps ==
  ASSUME OneCollector, DeviceInv, NEW c \in Collector, NEW s, Between(s), Sound(s),
         Proceed(c, s), UNCHANGED <<counter, rows, sent>>
  PROVE  DeviceInv'
<1>1. /\ DeviceTypes /\ DeviceTypes'
      /\ \A n \in Node, d \in Device : counter'[n][d] > 0 => n \in Usable[d]
      /\ \A d \in Device : Fits(db.total[d], db.raw[d], d)
      /\ \/ db' = db /\ collect' = [e \in Collector |-> s]
         \/ collect' = [e \in Collector |-> IdleCollect] /\ (db' = db \/ Written(s))
  BY Proceeded DEF DeviceInv
<1>2. CASE db' = db /\ collect' = [e \in Collector |-> s]
  <2>1. Sound(s)'
    BY <1>2 DEF Sound, Shape, Columns, Fits
  <2>2. \A e \in Collector : Sound(collect[e])'
    BY <1>2, <2>1 DEF Sound, Shape, Columns, Fits
  <2>3. \A d \in Device : Fits(db.total[d], db.raw[d], d)'
    BY <1>1, <1>2 DEF Fits
  <2>4. \A e \in Collector : collect'[e].pc = "ask"
    BY <1>2 DEF Between
  <2> QED BY <1>1, <2>2, <2>3, <2>4 DEF DeviceInv
<1>3. CASE collect' = [e \in Collector |-> IdleCollect] /\ (db' = db \/ Written(s))
  <2>1. \A e \in Collector : collect'[e] = IdleCollect
    BY <1>3
  <2>2. \A e \in Collector : Sound(collect[e])'
    BY <2>1, IdleSound DEF Sound, Shape, Columns, Fits
  <2>3. ASSUME NEW d \in Device
        PROVE  Fits(db'.total[d], db'.raw[d], d)
    <3>1. CASE db' = db \/ ~(d \in rows /\ Owner[d] \in {Owner[e] : e \in s.hit})
      BY <1>1, <1>3, <3>1 DEF Sound, Written
    <3>2. CASE Written(s) /\ d \in rows /\ Owner[d] \in {Owner[e] : e \in s.hit}
      BY <1>1, <3>2 DEF Sound, Written
    <3> QED BY <1>3, <3>1, <3>2
  <2>4. \A d \in Device : Fits(db.total[d], db.raw[d], d)'
    BY <2>3 DEF Fits
  <2>5. \A e \in Collector : collect'[e].pc = "idle"
    BY <2>1, IdleSound
  <2> QED BY <1>1, <2>2, <2>4, <2>5 DEF DeviceInv
<1> QED BY <1>1, <1>2, <1>3

(* A step that leaves sessions and stored device columns alone, and after  *)
(* which everything that fitted still fits.                                *)
LEMMA OutsideKeeps ==
  ASSUME DeviceInv, DeviceTypes', collect' = collect,
         db'.raw = db.raw, db'.total = db.total,
         (\A n \in Node, d \in Device : counter[n][d] > 0 => n \in Usable[d])',
         \A t, r \in Nat, d \in Device : Fits(t, r, d) => Fits(t, r, d)'
  PROVE  DeviceInv'
<1>1. DeviceTypes /\ Columns(db)
  BY DEF DeviceInv, DeviceTypes
<1>2. \A d \in Device : Fits(db.total[d], db.raw[d], d)'
  <2>1. \A d \in Device : Fits(db.total[d], db.raw[d], d) => Fits(db.total[d], db.raw[d], d)'
    <3> TAKE d \in Device
    <3>1. db.total[d] \in Nat /\ db.raw[d] \in Nat
      BY <1>1 DEF Columns
    <3>2. PICK t, r \in Nat : t = db.total[d] /\ r = db.raw[d]
      BY <3>1
    <3>3. t = db'.total[d] /\ r = db'.raw[d]
      BY <3>2
    <3>4. Fits(t, r, d) => Fits(t, r, d)'
      OBVIOUS
    <3> QED BY <3>2, <3>3, <3>4 DEF Fits
  <2> QED BY <2>1 DEF DeviceInv
<1>3. \A c \in Collector : Sound(collect[c])'
  <2> TAKE c \in Collector
  <2>1. PICK s : s = collect[c]
    OBVIOUS
  <2>2. Sound(s) /\ Columns(s.mine)
    BY <2>1 DEF DeviceInv, Sound, Shape
  <2>3. \A d \in Device : s.mine.total[d] \in Nat /\ s.mine.raw[d] \in Nat
    BY <2>2 DEF Columns
  <2>4. \A d \in Device : Fits(s.mine.total[d], s.mine.raw[d], d)
                            => Fits(s.mine.total[d], s.mine.raw[d], d)'
    BY <2>3
  <2>5. Sound(s)'
    BY <2>2, <2>4 DEF Sound, Shape, Columns
  <2> QED BY <2>1, <2>5 DEF Sound, Shape, Columns, Fits
<1>4. \A c \in Collector, d \in Device :
        (collect[c].pc = "apply" /\ collect[c].answer[d] > 0 => AnswerFits(c, d))'
  <2> TAKE c \in Collector, d \in Device
  <2>1. /\ View(c).total[d] \in Nat /\ View(c).raw[d] \in Nat
        /\ collect[c].answer[d] \in Nat
    BY <1>1, ViewColumns DEF Columns, DeviceTypes
  <2>2. /\ View(c).total[d] + Delta(View(c).raw[d], collect[c].answer[d]) \in Nat
        /\ collect[c].answer[d] \in Nat
    <3>1. Delta(View(c).raw[d], collect[c].answer[d]) \in Nat
      BY <2>1, DeltaNat
    <3>2. \A a, b \in Nat : a + b \in Nat
      OBVIOUS
    <3> QED BY <2>1, <3>1, <3>2
  <2>3. PICK t, r \in Nat :
          /\ t = View(c).total[d] + Delta(View(c).raw[d], collect[c].answer[d])
          /\ r = collect[c].answer[d]
    BY <2>2
  <2>4. Fits(t, r, d) => Fits(t, r, d)'
    OBVIOUS
  <2>5. View(c)'.total[d] = View(c).total[d] /\ View(c)'.raw[d] = View(c).raw[d]
    BY DEF View, Overlay, Pinned
  <2>6. t = (View(c).total[d] + Delta(View(c).raw[d], collect[c].answer[d]))'
    BY <2>3, <2>5 DEF Delta
  <2>7. AnswerFits(c, d) => AnswerFits(c, d)'
    BY <2>3, <2>4, <2>6 DEF AnswerFits, Fits
  <2> QED BY <2>7 DEF DeviceInv
<1> QED BY <1>2, <1>3, <1>4 DEF DeviceInv

(* A byte sent is counted and was really sent. *)
LEMMA SendKeeps ==
  ASSUME TrafficAssumption, DeviceInv, NEW e \in Device, NEW m \in Node, SendByte(e, m)
  PROVE  DeviceInv'
<1>1. DeviceTypes /\ counter' = [counter EXCEPT ![m][e] = @ + 1]
      /\ sent' = [sent EXCEPT ![e] = @ + 1] /\ m \in Usable[e]
      /\ UNCHANGED <<rows, db, collect>>
  BY DEF SendByte, DeviceInv
<1>2. /\ counter' \in [Node -> [Device -> Nat]] /\ sent' \in [Device -> Nat]
      /\ counter \in [Node -> [Device -> Nat]] /\ sent \in [Device -> Nat]
  BY <1>1 DEF DeviceTypes
<1>3. DeviceTypes'
  BY <1>1, <1>2 DEF DeviceTypes, Columns
<1>4. (\A n \in Node, d \in Device : counter[n][d] > 0 => n \in Usable[d])'
  BY <1>1, <1>2 DEF DeviceInv
<1>5. \A t, r \in Nat, d \in Device : Fits(t, r, d) => Fits(t, r, d)'
  <2> TAKE t, r \in Nat, d \in Device
  <2>1. \A n \in Usable[d] :
          /\ n \in Node /\ counter[n][d] \in Nat /\ counter'[n][d] \in Nat
          /\ counter'[n][d] = counter[n][d]
             \/ (d = e /\ counter'[n][d] = counter[n][d] + 1)
    BY <1>1, <1>2 DEF TrafficAssumption
  <2>2. sent[d] \in Nat /\ sent'[d] = IF d = e THEN sent[d] + 1 ELSE sent[d]
    BY <1>1, <1>2
  <2>3. ASSUME t <= sent[d] PROVE t <= sent'[d]
    BY <2>2, <2>3
  <2>4. ASSUME NEW n \in Usable[d], t + Delta(r, counter[n][d]) <= sent[d], t <= sent[d]
        PROVE  t + Delta(r, counter'[n][d]) <= sent'[d]
    <3>1. CASE counter'[n][d] = counter[n][d]
      BY <2>1, <2>2, <2>4, <3>1 DEF Delta
    <3>2. CASE d = e /\ counter'[n][d] = counter[n][d] + 1
      <4>1. counter[n][d] \in Nat
        BY <2>1
      <4> QED BY <2>2, <2>4, <3>2, <4>1 DEF Delta
    <3> QED BY <2>1, <3>1, <3>2
  <2> QED BY <2>3, <2>4 DEF Fits
<1> QED BY <1>1, <1>3, <1>4, <1>5, OutsideKeeps

(* A counter that is reset charges nothing. *)
LEMMA RestartXrayKeeps ==
  ASSUME TrafficAssumption, DeviceInv, NEW m \in Node, RestartXray(m)
  PROVE  DeviceInv'
<1>1. DeviceTypes /\ counter' = [counter EXCEPT ![m] = Silent]
      /\ UNCHANGED <<rows, db, collect, sent>>
  BY DEF RestartXray, DeviceInv
<1>2. Silent \in [Device -> Nat] /\ \A d \in Device : Silent[d] = 0
  BY DEF Silent
<1>3. /\ counter' \in [Node -> [Device -> Nat]]
      /\ counter \in [Node -> [Device -> Nat]] /\ sent \in [Device -> Nat]
  BY <1>1, <1>2 DEF DeviceTypes
<1>4. DeviceTypes'
  BY <1>1, <1>3 DEF DeviceTypes, Columns
<1>5. (\A n \in Node, d \in Device : counter[n][d] > 0 => n \in Usable[d])'
  BY <1>1, <1>2, <1>3 DEF DeviceInv
<1>6. \A t, r \in Nat, d \in Device : Fits(t, r, d) => Fits(t, r, d)'
  <2> TAKE t, r \in Nat, d \in Device
  <2>1. \A n \in Usable[d] :
          /\ n \in Node /\ counter[n][d] \in Nat
          /\ counter'[n][d] = counter[n][d] \/ counter'[n][d] = 0
    BY <1>1, <1>2, <1>3 DEF TrafficAssumption
  <2>2. ASSUME NEW n \in Usable[d], t + Delta(r, counter[n][d]) <= sent[d], t <= sent[d]
        PROVE  t + Delta(r, counter'[n][d]) <= sent[d]
    <3>1. CASE counter'[n][d] = counter[n][d]
      BY <2>2, <3>1
    <3>2. CASE counter'[n][d] = 0
      BY <2>2, <3>2, <1>3 DEF Delta
    <3> QED BY <2>1, <3>1, <3>2
  <2> QED BY <1>1, <2>2 DEF Fits
<1> QED BY <1>1, <1>4, <1>5, <1>6, OutsideKeeps

(* Steps of everybody who leaves the device counters alone. *)
LEMMA ElsewhereKeeps ==
  ASSUME DeviceInv, UNCHANGED <<counter, sent, collect>>, rows' \subseteq Device,
         db' = [raw |-> db.raw, total |-> db.total, used |-> db'.used, status |-> db'.status]
  PROVE  DeviceInv'
<1>1. DeviceTypes'
  BY DEF DeviceInv, DeviceTypes, Columns
<1>2. \A t, r \in Nat, d \in Device : Fits(t, r, d) => Fits(t, r, d)'
  BY DEF Fits
<1> QED BY <1>1, <1>2, OutsideKeeps DEF DeviceInv

-----------------------------------------------------------------------------
(* The steps of a collection.                                              *)

(* A collection starts with nothing read. *)
LEMMA Started ==
  ASSUME NEW c \in Collector, NEW todo \in Seq(Node), todo # << >>, StartCollect(c, todo)
  PROVE  \E s : /\ Between(s) /\ Proceed(c, s) /\ UNCHANGED <<counter, rows, sent>>
               /\ s.hit = {} /\ s.base = Blank /\ s.mine = Blank
<1>1. PICK s : s = [IdleCollect EXCEPT !.pc = "ask", !.todo = todo]
  OBVIOUS
<1>2. /\ s = [pc |-> "ask", todo |-> todo, answer |-> s.answer, hit |-> s.hit,
              base |-> s.base, mine |-> s.mine, snaps |-> s.snaps]
      /\ s.answer = IdleCollect.answer /\ s.hit = {} /\ s.base = Blank /\ s.mine = Blank
  BY <1>1 DEF IdleCollect
<1>3. Between(s)
  BY <1>2, IdleSound DEF Between, Shape
<1>4. Proceed(c, s) /\ UNCHANGED <<counter, rows, sent>>
  BY <1>1, <1>2 DEF StartCollect, Proceed
<1> QED BY <1>2, <1>3, <1>4

(* A new session is sound.                                                 *)
LEMMA StartKeeps ==
  ASSUME OneCollector, DeviceInv, NEW c \in Collector,
         NEW todo \in Seq(Node), todo # << >>, StartCollect(c, todo)
  PROVE  DeviceInv'
<1>1. PICK s : /\ Between(s) /\ Proceed(c, s) /\ UNCHANGED <<counter, rows, sent>>
               /\ s.hit = {} /\ s.base = Blank /\ s.mine = Blank
  BY Started
<1>2. Sound(s)
  BY <1>1 DEF Sound, Between
<1> QED BY <1>1, <1>2, ProceedKeeps

(* The answer of Xray is what it has counted. *)
LEMMA Asked ==
  ASSUME OneCollector, DeviceTypes, NEW c \in Collector, AskXray(c)
  PROVE  /\ DeviceTypes' /\ UNCHANGED <<counter, rows, sent, db>>
         /\ Head(collect[c].todo) \in Node
         /\ collect' = [e \in Collector |-> collect'[c]]
         /\ collect'[c] = [pc |-> "apply", todo |-> collect[c].todo,
                           answer |-> counter[Head(collect[c].todo)],
                           hit |-> collect[c].hit, base |-> collect[c].base,
                           mine |-> collect[c].mine, snaps |-> collect[c].snaps]
<1> DEFINE h == Head(collect[c].todo)
<1>1. /\ DeviceTypes /\ collect[c].pc = "ask" /\ h \in Node
      /\ counter \in [Node -> [Device -> Nat]] /\ sent \in [Device -> Nat]
      /\ \A e \in Collector : e = c
      /\ UNCHANGED <<counter, rows, sent, db>>
  BY DEF AskXray, DeviceTypes, OneCollector
<1>2. /\ collect' = [e \in Collector |-> collect'[c]]
      /\ collect'[c] = [pc |-> "apply", todo |-> collect[c].todo, answer |-> counter[h],
                        hit |-> collect[c].hit, base |-> collect[c].base,
                        mine |-> collect[c].mine, snaps |-> collect[c].snaps]
  <2>1. PICK o : o = collect[c]
    OBVIOUS
  <2>2. /\ collect = [e \in Collector |-> o]
        /\ o = [pc |-> o.pc, todo |-> o.todo, answer |-> o.answer, hit |-> o.hit,
                base |-> o.base, mine |-> o.mine, snaps |-> o.snaps]
    <3>1. collect = [e \in Collector |-> collect[e]] /\ o = collect[c]
      BY <1>1, <2>1 DEF DeviceTypes
    <3>2. \A e \in Collector : collect[e] = o
      BY <1>1, <2>1
    <3>3. o = [pc |-> o.pc, todo |-> o.todo, answer |-> o.answer, hit |-> o.hit,
               base |-> o.base, mine |-> o.mine, snaps |-> o.snaps]
      BY <1>1, <2>1 DEF DeviceTypes
    <3> QED BY <3>1, <3>2, <3>3
  <2>3. collect' = [collect EXCEPT ![c] = [o EXCEPT !.pc = "apply", !.answer = counter[h]]]
    <3>1. collect' = [collect EXCEPT ![c] =
                       [collect[c] EXCEPT !.pc = "apply", !.answer = counter[h]]]
      BY <2>2 DEF AskXray
    <3> QED BY <2>1, <3>1
  <2>4. PICK r : r = [o EXCEPT !.pc = "apply", !.answer = counter[h]]
    OBVIOUS
  <2>5. r = [pc |-> "apply", todo |-> o.todo, answer |-> counter[h], hit |-> o.hit,
             base |-> o.base, mine |-> o.mine, snaps |-> o.snaps]
    BY <2>2, <2>4
  <2>6. collect' = [e \in Collector |-> [pc |-> "apply", todo |-> o.todo, answer |-> counter[h],
                      hit |-> o.hit, base |-> o.base, mine |-> o.mine, snaps |-> o.snaps]]
    <3>1. \A e \in Collector : e = c
      BY <1>1
    <3>2. collect' = [collect EXCEPT ![c] = r]
      BY <2>3, <2>4
    <3> QED BY <2>2, <2>5, <3>1, <3>2
  <2> QED BY <2>1, <2>6
<1>3. DeviceTypes'
  BY <1>1, <1>2 DEF DeviceTypes, Columns
<1> QED BY <1>1, <1>2, <1>3

(* An answer counts every byte of a device, which has no other node. *)
LEMMA AskKeeps ==
  ASSUME TrafficAssumption, OneCollector, OneHome, DeviceInv, NEW c \in Collector, AskXray(c)
  PROVE  DeviceInv'
<1> DEFINE h == Head(collect[c].todo)
<1>1. /\ DeviceTypes /\ collect[c].pc = "ask" /\ h \in Node
      /\ counter \in [Node -> [Device -> Nat]] /\ sent \in [Device -> Nat]
      /\ \A e \in Collector : e = c
      /\ UNCHANGED <<counter, rows, sent, db>>
  BY DEF AskXray, DeviceInv, DeviceTypes, OneCollector
<1>2. /\ collect' = [e \in Collector |-> collect'[c]]
      /\ collect'[c] = [pc |-> "apply", todo |-> collect[c].todo, answer |-> counter[h],
                        hit |-> collect[c].hit, base |-> collect[c].base,
                        mine |-> collect[c].mine, snaps |-> collect[c].snaps]
      /\ DeviceTypes'
  BY <1>1, Asked
<1>4. \A e \in Collector : Sound(collect[e])'
  <2>1. PICK s : s = collect[c]
    OBVIOUS
  <2>2. Sound(s) /\ s.hit = collect[c].hit /\ s.base = collect[c].base /\ s.mine = collect[c].mine
    BY <2>1 DEF DeviceInv
  <2>3. PICK r : r = collect'[c]
    OBVIOUS
  <2>4. r.hit = s.hit /\ r.base = s.base /\ r.mine = s.mine
    BY <1>2, <2>2, <2>3
  <2>5. Sound(r)
    BY <2>2, <2>4 DEF Sound, Shape
  <2>6. Sound(r)'
    BY <1>1, <2>5 DEF Sound, Shape, Columns, Fits
  <2>7. \A e \in Collector : collect'[e] = r
    BY <1>2, <2>3
  <2> QED BY <2>6, <2>7 DEF Sound, Shape, Columns, Fits
<1>5. ASSUME NEW d \in Device, counter[h][d] > 0
      PROVE  AnswerFits(c, d)'
  <2>1. h \in Usable[d] /\ \A n \in Usable[d] : n = h
    BY <1>1, <1>5 DEF DeviceInv, OneHome
  <2>2. View(c)'.total[d] = View(c).total[d] /\ View(c)'.raw[d] = View(c).raw[d]
    BY <1>1, <1>2 DEF View, Overlay, Pinned
  <2>3. /\ Fits(View(c).total[d], View(c).raw[d], d)
        /\ View(c).total[d] \in Nat /\ View(c).raw[d] \in Nat
    BY ViewColumns DEF Columns
  <2>4. counter[h][d] \in Nat /\ sent[d] \in Nat
    BY <1>1
  <2>5. /\ View(c).total[d] + Delta(View(c).raw[d], counter[h][d]) <= sent[d]
        /\ Delta(counter[h][d], counter[h][d]) = 0
    BY <2>1, <2>3, <2>4 DEF Fits, Delta
  <2>6. Fits(View(c).total[d] + Delta(View(c).raw[d], counter[h][d]), counter[h][d], d)
    <3>1. Delta(View(c).raw[d], counter[h][d]) \in Nat
      BY <2>3, <2>4, DeltaNat
    <3>2. PICK x \in Nat : x = Delta(View(c).raw[d], counter[h][d])
      BY <3>1
    <3>3. PICK t \in Nat : t = View(c).total[d]
      BY <2>3
    <3>4. t + x <= sent[d] /\ (t + x) + 0 = t + x
      BY <2>5, <3>2, <3>3
    <3>5. Fits(t + x, counter[h][d], d)
      BY <2>1, <2>5, <3>4 DEF Fits
    <3> QED BY <3>2, <3>3, <3>5
  <2>7. collect'[c].answer[d] = counter[h][d]
    BY <1>2
  <2> QED BY <1>1, <2>2, <2>6, <2>7 DEF AnswerFits, Fits, Delta
<1>6. \A e \in Collector, d \in Device :
        (collect[e].pc = "apply" /\ collect[e].answer[d] > 0 => AnswerFits(e, d))'
  BY <1>1, <1>2, <1>5
<1>7. \A d \in Device : Fits(db.total[d], db.raw[d], d)'
  BY <1>1 DEF DeviceInv, Fits
<1> QED BY <1>1, <1>2, <1>4, <1>6, <1>7 DEF DeviceInv

(* A node that is skipped leaves the session as it was. *)
LEMMA Skipped ==
  ASSUME DeviceTypes, NEW c \in Collector, Shape(collect[c]), SkipNode(c)
  PROVE  \E s : /\ Between(s) /\ Proceed(c, s) /\ UNCHANGED <<counter, rows, sent>>
               /\ s.hit = collect[c].hit /\ s.base = collect[c].base /\ s.mine = collect[c].mine
<1>1. PICK o : o = collect[c]
  OBVIOUS
<1>2. PICK s : s = [o EXCEPT !.todo = Tail(@)]
  OBVIOUS
<1>3. Proceed(c, s) /\ UNCHANGED <<counter, rows, sent>>
  BY <1>1, <1>2 DEF SkipNode
<1>4. /\ o = [pc |-> o.pc, todo |-> o.todo, answer |-> o.answer, hit |-> o.hit,
             base |-> o.base, mine |-> o.mine, snaps |-> o.snaps]
      /\ o.pc = "ask"
      /\ o.todo \in Seq(Node) /\ o.todo # << >> /\ o.answer \in [Device -> Nat]
  BY <1>1 DEF SkipNode, DeviceTypes
<1>5. s = [pc |-> "ask", todo |-> Tail(o.todo), answer |-> o.answer, hit |-> o.hit,
           base |-> o.base, mine |-> o.mine, snaps |-> o.snaps]
  BY <1>2, <1>4
<1>6. Tail(o.todo) \in Seq(Node)
  BY <1>4
<1>7. Between(s)
  BY <1>1, <1>4, <1>5, <1>6 DEF Between, Shape
<1> QED BY <1>1, <1>3, <1>5, <1>7

(* A skipped node leaves a sound session.                                  *)
LEMMA SkipKeeps ==
  ASSUME OneCollector, DeviceInv, NEW c \in Collector, SkipNode(c)
  PROVE  DeviceInv'
<1>1. DeviceTypes /\ Sound(collect[c]) /\ Shape(collect[c])
  BY DEF DeviceInv, Sound
<1>2. PICK s : /\ Between(s) /\ Proceed(c, s) /\ UNCHANGED <<counter, rows, sent>>
               /\ s.hit = collect[c].hit /\ s.base = collect[c].base /\ s.mine = collect[c].mine
  BY <1>1, Skipped
<1>3. Sound(s)
  BY <1>1, <1>2 DEF Sound, Shape
<1> QED BY <1>2, <1>3, ProceedKeeps

(* The session that has applied an answer, one of whose users has been found  *)
(* now or before.                                                          *)
Found(c) == {Owner[d] : d \in collect[c].hit \cup Hits(c)}

(* What ApplyStats makes of a session: what it reads, and what it adds to it. *)
LEMMA Applied ==
  ASSUME DeviceTypes, NEW c \in Collector, Shape(collect[c]), ApplyStats(c)
  PROVE  \E s :
           /\ Between(s) /\ Proceed(c, s) /\ UNCHANGED <<counter, rows, sent>>
           /\ Found(c) = {Owner[e] : e \in s.hit}
           /\ \A d \in Device : Owner[d] \notin Found(c) =>
                /\ s.base.raw[d] = Blank.raw[d] /\ s.base.total[d] = Blank.total[d]
                /\ s.mine.raw[d] = Blank.raw[d] /\ s.mine.total[d] = Blank.total[d]
           /\ \A d \in Device : Owner[d] \in Found(c) =>
                /\ s.base.raw[d] = IF Owner[d] \in Pinned(c) THEN collect[c].base.raw[d] ELSE db.raw[d]
                /\ s.base.total[d] = IF Owner[d] \in Pinned(c) THEN collect[c].base.total[d] ELSE db.total[d]
                /\ s.mine.raw[d] = IF d \in Hits(c) THEN collect[c].answer[d] ELSE View(c).raw[d]
                /\ s.mine.total[d] = View(c).total[d] +
                     (IF d \in Hits(c) THEN Delta(View(c).raw[d], collect[c].answer[d]) ELSE 0)
<1> DEFINE o     == collect[c]
           hit   == o.hit \cup Hits(c)
           users == {Owner[d] : d \in hit}
           v     == View(c)
<1>1. /\ o.pc = "apply" /\ Columns(db) /\ Columns(v) /\ UNCHANGED <<counter, rows, sent>>
  BY ViewTyped DEF ApplyStats, DeviceTypes
<1>2. PICK s : s = [pc     |-> "ask",
                    todo   |-> Tail(o.todo),
                    answer |-> Silent,
                    hit    |-> hit,
                    base   |-> Overlay(users, Overlay(Pinned(c), o.base, db), Blank),
                    mine   |-> Overlay(users, Charged(v, Hits(c), o.answer), Blank),
                    snaps  |-> [o.snaps EXCEPT ![Head(o.todo)] =
                                  @ + Recorded(v, Hits(c), o.answer)]]
  OBVIOUS
<1>3. Proceed(c, s)
  BY <1>2 DEF ApplyStats
<1>4. /\ s.todo \in Seq(Node) /\ s.answer \in [Device -> Nat]
      /\ s = [pc |-> "ask", todo |-> s.todo, answer |-> s.answer, hit |-> s.hit,
              base |-> s.base, mine |-> s.mine, snaps |-> s.snaps]
  BY <1>1, <1>2 DEF DeviceTypes, Silent, ApplyStats
<1>5. /\ s.base.raw = [d \in Device |-> IF Owner[d] \notin users THEN Blank.raw[d]
                         ELSE IF Owner[d] \in Pinned(c) THEN o.base.raw[d] ELSE db.raw[d]]
      /\ s.base.total = [d \in Device |-> IF Owner[d] \notin users THEN Blank.total[d]
                         ELSE IF Owner[d] \in Pinned(c) THEN o.base.total[d] ELSE db.total[d]]
      /\ s.base = [raw |-> s.base.raw, total |-> s.base.total,
                   used |-> s.base.used, status |-> s.base.status]
  BY <1>2 DEF Overlay
<1>6. /\ s.mine.raw = [d \in Device |-> IF Owner[d] \notin users THEN Blank.raw[d]
                         ELSE IF d \in Hits(c) THEN o.answer[d] ELSE v.raw[d]]
      /\ s.mine.total = [d \in Device |-> IF Owner[d] \notin users THEN Blank.total[d]
                         ELSE v.total[d] + (IF d \in Hits(c)
                                              THEN Delta(v.raw[d], o.answer[d]) ELSE 0)]
      /\ s.mine = [raw |-> s.mine.raw, total |-> s.mine.total,
                   used |-> s.mine.used, status |-> s.mine.status]
  BY <1>2 DEF Overlay, Charged
<1>7. /\ o.answer \in [Device -> Nat] /\ Columns(Blank) /\ Columns(o.base)
      /\ Hits(c) \subseteq Device /\ o.hit \subseteq Device
  BY <1>1, IdleSound DEF DeviceTypes, Shape, Hits
<1>8. Columns(s.base)
  <2>1. \A d \in Device : /\ Blank.raw[d] \in Nat /\ o.base.raw[d] \in Nat /\ db.raw[d] \in Nat
                          /\ Blank.total[d] \in Nat /\ o.base.total[d] \in Nat
                          /\ db.total[d] \in Nat
    BY <1>1, <1>7 DEF Columns
  <2>2. s.base.raw \in [Device -> Nat]
    BY <1>5, <2>1
  <2>3. s.base.total \in [Device -> Nat]
    BY <1>5, <2>1
  <2> QED BY <1>5, <2>2, <2>3 DEF Columns
<1>9. Columns(s.mine)
  <2>1. \A d \in Device : /\ Blank.raw[d] \in Nat /\ o.answer[d] \in Nat /\ v.raw[d] \in Nat
                          /\ Blank.total[d] \in Nat /\ v.total[d] \in Nat
    BY <1>1, <1>7 DEF Columns
  <2>2. s.mine.raw \in [Device -> Nat]
    BY <1>6, <2>1
  <2>3. \A d \in Device : (IF d \in Hits(c) THEN Delta(v.raw[d], o.answer[d]) ELSE 0) \in Nat
    BY <2>1, DeltaNat
  <2>4. \A x, y \in Nat : x + y \in Nat
    OBVIOUS
  <2>5. s.mine.total \in [Device -> Nat]
    BY <1>6, <2>1, <2>3, <2>4
  <2> QED BY <1>6, <2>2, <2>5 DEF Columns
<1>10. s.hit = hit /\ Between(s)
  BY <1>2, <1>4, <1>7, <1>8, <1>9 DEF Between, Shape
<1>11. users = Found(c)
  BY DEF Found
<1> HIDE DEF users, hit, o, v
<1> QED BY <1>1, <1>3, <1>5, <1>6, <1>10, <1>11 DEF users, hit, o, v

(* An answer applied in memory fits what was sent. *)
LEMMA ApplyKeeps ==
  ASSUME OneCollector, DeviceInv, NEW c \in Collector, ApplyStats(c)
  PROVE  DeviceInv'
<1> DEFINE o     == collect[c]
           users == Found(c)
           v     == View(c)
<1>1. /\ o.pc = "apply" /\ DeviceTypes /\ Sound(o) /\ Shape(o) /\ Columns(v)
      /\ \A d \in Device : Fits(v.total[d], v.raw[d], d)
  BY ViewColumns DEF ApplyStats, DeviceInv, Sound
<1>2. PICK s :
           /\ Between(s) /\ Proceed(c, s) /\ UNCHANGED <<counter, rows, sent>>
           /\ users = {Owner[e] : e \in s.hit}
           /\ \A d \in Device : Owner[d] \notin users =>
                /\ s.base.raw[d] = Blank.raw[d] /\ s.base.total[d] = Blank.total[d]
                /\ s.mine.raw[d] = Blank.raw[d] /\ s.mine.total[d] = Blank.total[d]
           /\ \A d \in Device : Owner[d] \in users =>
                /\ s.base.raw[d] = IF Owner[d] \in Pinned(c) THEN o.base.raw[d] ELSE db.raw[d]
                /\ s.base.total[d] = IF Owner[d] \in Pinned(c) THEN o.base.total[d] ELSE db.total[d]
                /\ s.mine.raw[d] = IF d \in Hits(c) THEN o.answer[d] ELSE v.raw[d]
                /\ s.mine.total[d] = v.total[d] +
                     (IF d \in Hits(c) THEN Delta(v.raw[d], o.answer[d]) ELSE 0)
  BY <1>1, Applied
<1>3. ASSUME NEW d \in Device, Owner[d] \in users
      PROVE  /\ s.base.raw[d] = db.raw[d] /\ s.base.total[d] = db.total[d]
             /\ Fits(s.mine.total[d], s.mine.raw[d], d)
  <2>1. s.base.raw[d] = db.raw[d] /\ s.base.total[d] = db.total[d]
    BY <1>1, <1>2, <1>3 DEF Sound, Pinned
  <2>2. CASE d \in Hits(c)
    <3>1. AnswerFits(c, d)
      BY <1>1, <2>2 DEF DeviceInv, Hits
    <3>2. /\ s.mine.total[d] = v.total[d] + Delta(v.raw[d], o.answer[d])
          /\ s.mine.raw[d] = o.answer[d]
      BY <1>2, <1>3, <2>2
    <3> QED BY <2>1, <3>1, <3>2 DEF AnswerFits
  <2>3. CASE d \notin Hits(c)
    <3>1. v.total[d] \in Nat
      BY <1>1 DEF Columns
    <3>2. s.mine.total[d] = v.total[d] /\ s.mine.raw[d] = v.raw[d]
      BY <1>2, <1>3, <2>3, <3>1
    <3> QED BY <1>1, <2>1, <3>2
  <2> QED BY <2>2, <2>3
<1>4. Sound(s)
  <2>1. Shape(s)
    BY <1>2 DEF Between
  <2> HIDE DEF users
  <2> QED BY <1>2, <1>3, <2>1 DEF Sound
<1> QED BY <1>2, <1>4, ProceedKeeps

(* The process restarts. *)
LEMMA RestartKeeps ==
  ASSUME DeviceInv, Restart
  PROVE  DeviceInv'
<1>1. DeviceTypes /\ collect' = [c \in Collector |-> IdleCollect]
      /\ UNCHANGED <<counter, rows, sent, db>>
  BY DEF Restart, DeviceInv
<1>2. IdleCollect.pc = "idle"
  BY IdleSound
<1>3. \A c \in Collector : collect'[c] = IdleCollect
  BY <1>1
<1>4. DeviceTypes'
  <2>1. Columns(db')
    BY <1>1 DEF DeviceTypes
  <2> QED BY <1>1, <2>1, IdleTypes
<1>5. \A c \in Collector : Sound(collect[c])'
  BY <1>3, IdleSound DEF Sound, Shape, Columns, Fits
<1>6. \A d \in Device : Fits(db.total[d], db.raw[d], d)'
  BY <1>1 DEF DeviceInv, Fits
<1>7. \A c \in Collector, d \in Device :
        (collect[c].pc = "apply" /\ collect[c].answer[d] > 0 => AnswerFits(c, d))'
  BY <1>2, <1>3
<1> QED BY <1>1, <1>4, <1>5, <1>6, <1>7 DEF DeviceInv

(* A reset, a ban, an enforcement and a removal leave the columns of the   *)
(* devices.                                                                *)
LEMMA HandlerColumns ==
  ASSUME Columns(db),
         \/ \E d \in Device : RemoveDevice(d)
         \/ \E u \in User : ResetTraffic(u) \/ DisableUser(u) \/ EnableUser(u)
         \/ Enforce
  PROVE  db' = [raw |-> db.raw, total |-> db.total, used |-> db'.used, status |-> db'.status]
<1>1. PICK l, k : l = db /\ k = db'
  OBVIOUS
<1>2. l = [raw |-> l.raw, total |-> l.total, used |-> l.used, status |-> l.status]
  BY <1>1 DEF Columns
<1> SUFFICES k = [raw |-> l.raw, total |-> l.total, used |-> k.used, status |-> k.status]
  BY <1>1
<1>3. CASE \E d \in Device : RemoveDevice(d)
  BY <1>1, <1>2, <1>3 DEF RemoveDevice
<1>4. CASE \E u \in User : ResetTraffic(u)
  <2>1. PICK u, x : k = [l EXCEPT !.used[u] = 0, !.status[u] = x]
    BY <1>1, <1>4 DEF ResetTraffic
  <2> QED BY <1>2, <2>1
<1>5. CASE \E u \in User : DisableUser(u) \/ EnableUser(u)
  <2>1. PICK u, x : k = [l EXCEPT !.status[u] = x]
    BY <1>1, <1>5 DEF DisableUser, EnableUser
  <2> QED BY <1>2, <2>1
<1>6. CASE Enforce
  <2>1. PICK x : k = [l EXCEPT !.status = x]
    BY <1>1, <1>6 DEF Enforce
  <2> QED BY <1>2, <2>1
<1> QED BY <1>3, <1>4, <1>5, <1>6

(* The handlers that change users or remove a device. *)
LEMMA HandlerKeeps ==
  ASSUME DeviceInv,
         \/ \E d \in Device : RemoveDevice(d)
         \/ \E u \in User : ResetTraffic(u) \/ DisableUser(u) \/ EnableUser(u)
         \/ Enforce
  PROVE  DeviceInv'
<1>1. Columns(db) /\ UNCHANGED <<counter, sent, collect>> /\ rows' \subseteq Device
  BY DEF RemoveDevice, ResetTraffic, DisableUser, EnableUser, Enforce, DeviceInv, DeviceTypes
<1> QED BY <1>1, HandlerColumns, ElsewhereKeeps

(* The invariant holds initially. *)
LEMMA DeviceInit ==
  ASSUME TrafficAssumption, Init
  PROVE  DeviceInv
<1>1. /\ counter = [n \in Node |-> Silent] /\ rows = Device /\ db = Blank /\ sent = Silent
      /\ collect = [c \in Collector |-> IdleCollect]
  BY DEF Init
<1>2. Silent \in [Device -> Nat] /\ \A d \in Device : Silent[d] = 0
  BY DEF Silent
<1>3. /\ IdleCollect.pc = "idle" /\ IdleCollect.todo = << >> /\ << >> \in Seq(Node)
      /\ IdleCollect.answer \in [Device -> Nat]
      /\ IdleCollect = [pc |-> IdleCollect.pc, todo |-> IdleCollect.todo,
                        answer |-> IdleCollect.answer, hit |-> IdleCollect.hit,
                        base |-> IdleCollect.base, mine |-> IdleCollect.mine,
                        snaps |-> IdleCollect.snaps]
  BY IdleSound DEF IdleCollect
<1>4. \A c \in Collector : collect[c] = IdleCollect
  BY <1>1
<1>5. DeviceTypes
  BY <1>1, <1>2, <1>3, <1>4, IdleSound DEF DeviceTypes
<1>6. \A d \in Device : Fits(db.total[d], db.raw[d], d)
  <2> TAKE d \in Device
  <2>1. db.total[d] = 0 /\ db.raw[d] = 0 /\ sent[d] = 0
    BY <1>1, <1>2 DEF Blank
  <2>2. \A n \in Usable[d] : counter[n][d] = 0
    BY <1>1, <1>2 DEF TrafficAssumption
  <2>3. Delta(0, 0) = 0
    BY DEF Delta
  <2> QED BY <2>1, <2>2, <2>3 DEF Fits
<1>7. \A n \in Node, d \in Device : counter[n][d] = 0
  BY <1>1, <1>2
<1> QED BY <1>3, <1>4, <1>5, <1>6, <1>7, IdleSound DEF DeviceInv

(* Every step keeps the device invariant. *)
LEMMA DeviceStep ==
  ASSUME TrafficAssumption, OneCollector, OneHome, DeviceInv, [Next]_vars
  PROVE  DeviceInv'
<1>1. CASE \E d \in Device, n \in Node : SendByte(d, n)
  BY <1>1, SendKeeps
<1>2. CASE \E n \in Node : RestartXray(n)
  BY <1>2, RestartXrayKeeps
<1>3. ASSUME NEW c \in Collector, Collection(c) PROVE DeviceInv'
  <2>1. Order \in Seq(Node) /\ Order # << >>
    BY DEF TrafficAssumption
  <2>2. \A n \in Node : <<n>> \in Seq(Node) /\ <<n>> # << >>
    OBVIOUS
  <2>3. CASE StartCollect(c, Order)
    BY <2>1, <2>3, StartKeeps
  <2>4. CASE \E n \in Node : StartCollect(c, <<n>>)
    BY <2>2, <2>4, StartKeeps
  <2>5. CASE AskXray(c)
    BY <2>5, AskKeeps
  <2>6. CASE SkipNode(c)
    BY <2>6, SkipKeeps
  <2>7. CASE ApplyStats(c)
    BY <2>7, ApplyKeeps
  <2> QED BY <1>3, <2>3, <2>4, <2>5, <2>6, <2>7 DEF Collection
<1>4. ASSUME NEW m \in Meter, Metering(m) PROVE DeviceInv'
  <2>1. UNCHANGED <<counter, sent, collect, rows, db>>
    BY <1>4 DEF Metering, StartMeasure, AskInbound, SkipMeasure, ApplyInbound
  <2>2. rows \subseteq Device
        /\ db = [raw |-> db.raw, total |-> db.total, used |-> db.used, status |-> db.status]
    BY DEF DeviceInv, DeviceTypes, Columns
  <2> QED BY <2>1, <2>2, ElsewhereKeeps
<1>5. CASE Restart
  BY <1>5, RestartKeeps
<1>6. CASE UNCHANGED vars
  <2>1. UNCHANGED <<counter, sent, collect, rows, db>>
    BY <1>6 DEF vars
  <2>2. rows \subseteq Device
        /\ db = [raw |-> db.raw, total |-> db.total, used |-> db.used, status |-> db.status]
    BY DEF DeviceInv, DeviceTypes, Columns
  <2> QED BY <2>1, <2>2, ElsewhereKeeps
<1> QED BY <1>1, <1>2, <1>3, <1>4, <1>5, <1>6, HandlerKeeps DEF Next

(* Whatever restarts, skipped nodes, aborted commits, removals and resets  *)
(* come between the nodes of a collection, collect_traffic never charges a *)
(* device a byte it did not send -- as long as one collection runs at a    *)
(* time and the counters of a device live on one node.                     *)
THEOREM DevicesNeverOvercharged ==
  ASSUME OneCollector, OneHome
  PROVE  Spec => []DeviceNotOvercharged
<1>1. Init => DeviceInv
  BY TrafficAssumption, DeviceInit
<1>2. DeviceInv /\ [Next]_vars => DeviceInv'
  BY TrafficAssumption, DeviceStep
<1>3. DeviceInv => DeviceNotOvercharged
  BY DEF DeviceInv, Fits, DeviceNotOvercharged
<1> QED BY <1>1, <1>2, <1>3, PTL DEF Spec

-----------------------------------------------------------------------------
(* Nodes.                                                                  *)

(* Ledger l of node n charges no more than it carried, now and when the    *)
(* next answer is applied.                                                 *)
LedgerFits(l, n) ==
  l.total <= carried[n] /\ l.total + Delta(l.raw, inbound[n]) <= carried[n]

(* A metrics request in flight has the committed rows, what it computed    *)
(* fits and takes nothing back, and the answer it holds fits as well.      *)
MeterSound(s) ==
  /\ s.pc # "idle" => /\ s.todo # << >> /\ s.base = nodes
                      /\ \A n \in Node : LedgerFits(s.mine[n], n)
                      /\ \A n \in Node : nodes[n].total <= s.mine[n].total
  /\ s.pc = "apply" => LedgerFits(Metered(s.mine[Head(s.todo)], s.answer), Head(s.todo))

MeterInv ==
  /\ inbound \in [Node -> Nat] /\ carried \in [Node -> Nat]
  /\ nodes \in [Node -> NodeLedger]
  /\ measure \in [Meter -> Metrics]
  /\ \A n \in Node : LedgerFits(nodes[n], n)
  /\ \A m \in Meter : MeterSound(measure[m])

(* Metered yields a ledger and never charges less than before. *)
LEMMA MeteredLedger ==
  ASSUME NEW l \in NodeLedger, NEW a \in Nat
  PROVE  Metered(l, a) \in NodeLedger /\ Metered(l, a).total - l.total \in Nat
<1>1. Delta(l.raw, a) \in Nat /\ l.total \in Nat /\ l.raw \in Nat
  BY DeltaNat DEF NodeLedger
<1>2. CASE a = 0
  BY <1>1, <1>2 DEF Metered
<1>3. CASE a # 0
  <2>1. Metered(l, a) = [raw |-> a, total |-> l.total + Delta(l.raw, a)]
    BY <1>3 DEF Metered
  <2> QED BY <1>1, <2>1 DEF NodeLedger
<1> QED BY <1>2, <1>3

(* Writing what differs from an unchanged row leaves what was computed. *)
LEMMA FlushOwn ==
  ASSUME NEW a \in NodeLedger, NEW b \in NodeLedger
  PROVE  Flush(a, b, a) = b
BY DEF Flush, NodeLedger

NodesGrow == \A n \in Node : nodes[n].total <= nodes'[n].total

(* A step that leaves requests and stored ledgers alone, and after which   *)
(* every ledger that fitted still fits.                                    *)
LEMMA LedgersKeep ==
  ASSUME MeterInv, inbound' \in [Node -> Nat], carried' \in [Node -> Nat],
         UNCHANGED <<nodes, measure>>,
         \A l \in NodeLedger, n \in Node : LedgerFits(l, n) => LedgerFits(l, n)'
  PROVE  MeterInv' /\ NodesGrow
<1>1. nodes \in [Node -> NodeLedger] /\ measure \in [Meter -> Metrics]
  BY DEF MeterInv
<1>2. \A n \in Node : LedgerFits(nodes[n], n)'
  <2> TAKE n \in Node
  <2>1. PICK l \in NodeLedger : l = nodes[n]
    BY <1>1
  <2>2. LedgerFits(l, n)'
    BY <2>1 DEF MeterInv
  <2> QED BY <2>1, <2>2 DEF LedgerFits
<1>3. \A m \in Meter : MeterSound(measure[m])'
  <2> TAKE m \in Meter
  <2>1. PICK s \in Metrics : s = measure[m] /\ MeterSound(s)
    BY <1>1 DEF MeterInv
  <2>2. \A n \in Node : s.mine[n] \in NodeLedger
    BY DEF Metrics
  <2>3. ASSUME s.pc # "idle"
        PROVE  \A n \in Node : LedgerFits(s.mine[n], n)' /\ nodes[n].total <= s.mine[n].total
    BY <2>1, <2>2, <2>3 DEF MeterSound
  <2>4. ASSUME s.pc = "apply"
        PROVE  LedgerFits(Metered(s.mine[Head(s.todo)], s.answer), Head(s.todo))'
    <3>1. Head(s.todo) \in Node /\ s.answer \in Nat
      BY <2>1, <2>4 DEF MeterSound, Metrics
    <3>2. Metered(s.mine[Head(s.todo)], s.answer) \in NodeLedger
      BY <2>2, <3>1, MeteredLedger
    <3>3. PICK l \in NodeLedger, n \in Node :
            l = Metered(s.mine[Head(s.todo)], s.answer) /\ n = Head(s.todo)
      BY <3>1, <3>2
    <3>4. LedgerFits(l, n)'
      BY <2>1, <2>4, <3>3 DEF MeterSound
    <3>5. l = Metered(s.mine[Head(s.todo)], s.answer)'
      BY <3>3 DEF Metered, Delta
    <3> QED BY <3>3, <3>4, <3>5 DEF LedgerFits
  <2>5. MeterSound(s)'
    BY <2>1, <2>3, <2>4 DEF MeterSound
  <2> QED BY <2>1, <2>5 DEF MeterSound, LedgerFits, Metered, Delta
<1>4. NodesGrow
  BY <1>1 DEF NodesGrow, NodeLedger
<1> QED BY <1>1, <1>2, <1>3, <1>4 DEF MeterInv

(* The node carries a byte, or its Xray restarts. *)
LEMMA InboundKeeps ==
  ASSUME MeterInv, NEW k \in Node,
         RestartXray(k) \/ \E d \in Device : SendByte(d, k)
  PROVE  MeterInv' /\ NodesGrow
<1>1. /\ inbound \in [Node -> Nat] /\ carried \in [Node -> Nat]
      /\ \/ inbound' = [inbound EXCEPT ![k] = 0] /\ carried' = carried
         \/ /\ inbound' = [inbound EXCEPT ![k] = @ + 1]
            /\ carried' = [carried EXCEPT ![k] = @ + 1]
      /\ UNCHANGED <<nodes, measure>>
  BY DEF MeterInv, RestartXray, SendByte
<1>2. ASSUME NEW l \in NodeLedger, NEW n \in Node, LedgerFits(l, n)
      PROVE  LedgerFits(l, n)'
  <2>1. l.total \in Nat /\ l.raw \in Nat /\ inbound[n] \in Nat /\ carried[n] \in Nat
    BY <1>1 DEF NodeLedger
  <2>2. \/ inbound'[n] = inbound[n] /\ carried'[n] = carried[n]
        \/ inbound'[n] = 0 /\ carried'[n] = carried[n]
        \/ inbound'[n] = inbound[n] + 1 /\ carried'[n] = carried[n] + 1
    BY <1>1
  <2> QED BY <1>2, <2>1, <2>2 DEF LedgerFits, Delta
<1>3. inbound' \in [Node -> Nat] /\ carried' \in [Node -> Nat]
  BY <1>1
<1> QED BY <1>1, <1>2, <1>3, LedgersKeep

(* A request that goes on to its next node or commits. *)
LEMMA NextKeeps ==
  ASSUME MeterInv, OneMeter, NEW m \in Meter, NEW s \in Metrics,
         s.pc = "ask", s.base = nodes, \A n \in Node : LedgerFits(s.mine[n], n),
         \A n \in Node : nodes[n].total <= s.mine[n].total,
         MeasureNext(m, s), UNCHANGED <<inbound, carried>>
  PROVE  MeterInv' /\ NodesGrow
<1>1. /\ measure \in [Meter -> Metrics] /\ nodes \in [Node -> NodeLedger]
      /\ \A k \in Meter : k = m
      /\ \A n \in Node : s.mine[n] \in NodeLedger
  BY DEF MeterInv, OneMeter, Metrics
<1>2. CASE s.todo # << >>
  <2>1. measure' = [measure EXCEPT ![m] = s] /\ UNCHANGED nodes
    BY <1>2 DEF MeasureNext
  <2>2. MeterSound(s)'
    BY <1>2, <2>1 DEF MeterSound, LedgerFits
  <2>3. measure' \in [Meter -> Metrics] /\ \A k \in Meter : measure'[k] = s
    BY <1>1, <2>1
  <2>4. \A k \in Meter : MeterSound(measure[k])'
    BY <2>2, <2>3 DEF MeterSound, LedgerFits, Metered, Delta
  <2>5. NodesGrow
    BY <1>1, <2>1 DEF NodesGrow, NodeLedger
  <2> QED BY <1>1, <2>1, <2>3, <2>4, <2>5 DEF MeterInv, LedgerFits
<1>3. CASE s.todo = << >>
  <2>1. /\ nodes' = [n \in Node |-> Flush(nodes[n], s.mine[n], nodes[n])]
        /\ measure' = [measure EXCEPT ![m] = IdleMeasure]
    BY <1>3 DEF MeasureNext
  <2>2. \A n \in Node : nodes'[n] = s.mine[n]
    BY <1>1, <2>1, FlushOwn
  <2>3. nodes' \in [Node -> NodeLedger]
    BY <1>1, <2>1, <2>2
  <2>4. \A n \in Node : LedgerFits(nodes[n], n)'
    BY <2>2 DEF LedgerFits
  <2>5. IdleMeasure \in Metrics /\ IdleMeasure.pc = "idle"
    BY DEF IdleMeasure, Metrics, NodeLedger, NoTraffic, None
  <2>6. measure' \in [Meter -> Metrics] /\ \A k \in Meter : measure'[k].pc = "idle"
    BY <1>1, <2>1, <2>5
  <2>7. \A k \in Meter : MeterSound(measure[k])'
    BY <2>6 DEF MeterSound
  <2>8. NodesGrow
    BY <2>2 DEF NodesGrow
  <2> QED BY <2>3, <2>4, <2>6, <2>7, <2>8 DEF MeterInv
<1> QED BY <1>2, <1>3

(* A metrics request starts from the committed rows. *)
LEMMA StartMeasureKeeps ==
  ASSUME TrafficAssumption, OneMeter, MeterInv, NEW m \in Meter, StartMeasure(m)
  PROVE  MeterInv' /\ NodesGrow
<1>1. PICK s : s = [IdleMeasure EXCEPT !.pc = "ask", !.todo = Order,
                      !.base = nodes, !.mine = nodes]
  OBVIOUS
<1>2. /\ s = [pc |-> "ask", todo |-> Order, answer |-> 0, snaps |-> None,
              base |-> nodes, mine |-> nodes]
      /\ nodes \in [Node -> NodeLedger] /\ None \in [Node -> Nat]
  BY <1>1 DEF IdleMeasure, MeterInv, None
<1>3. s \in Metrics /\ s.todo # << >>
  BY <1>2 DEF Metrics, TrafficAssumption
<1>4. MeasureNext(m, s) /\ UNCHANGED <<inbound, carried>>
  BY <1>1, <1>3 DEF StartMeasure, MeasureNext
<1>5. \A n \in Node : nodes[n].total <= s.mine[n].total
  BY <1>2 DEF NodeLedger
<1> QED BY <1>2, <1>3, <1>4, <1>5, NextKeeps DEF MeterInv

(* The counter just read fits what the node has carried. *)
LEMMA AskInboundKeeps ==
  ASSUME OneMeter, MeterInv, NEW m \in Meter, AskInbound(m)
  PROVE  MeterInv' /\ NodesGrow
<1>1. PICK o \in Metrics : o = measure[m] /\ MeterSound(o)
  BY DEF MeterInv
<1>2. PICK s : s = [o EXCEPT !.pc = "apply", !.answer = inbound[Head(o.todo)]]
  OBVIOUS
<1>3. /\ measure' = [measure EXCEPT ![m] = s] /\ o.pc = "ask"
      /\ UNCHANGED <<inbound, carried, nodes>>
  BY <1>1, <1>2 DEF AskInbound
<1>4. /\ Head(o.todo) \in Node /\ o.todo # << >> /\ o.base = nodes
      /\ \A n \in Node : nodes[n].total <= o.mine[n].total
      /\ \A n \in Node : o.mine[n] \in NodeLedger /\ LedgerFits(o.mine[n], n)
      /\ \A n \in Node : inbound[n] \in Nat /\ carried[n] \in Nat
  BY <1>1, <1>3 DEF MeterSound, Metrics, MeterInv
<1>5. /\ s \in Metrics /\ s.pc = "apply" /\ s.answer = inbound[Head(o.todo)]
      /\ s.todo = o.todo /\ s.base = o.base /\ s.mine = o.mine
  BY <1>2, <1>4 DEF Metrics
<1>6. LedgerFits(Metered(s.mine[Head(s.todo)], s.answer), Head(s.todo))
  <2>1. PICK l \in NodeLedger, n \in Node :
          n = Head(o.todo) /\ l = o.mine[n] /\ LedgerFits(l, n)
    BY <1>4
  <2>2. PICK x \in Nat : x = inbound[n]
    BY <1>4
  <2>3. CASE x = 0
    BY <1>5, <2>1, <2>2, <2>3 DEF Metered
  <2>4. CASE x # 0
    <3>1. Delta(x, x) = 0 /\ l.total + Delta(l.raw, x) <= carried[n]
          /\ l.total + Delta(l.raw, x) \in Nat
      BY <2>1, <2>2, DeltaNat DEF LedgerFits, Delta, NodeLedger
    <3>2. Metered(l, x) = [raw |-> x, total |-> l.total + Delta(l.raw, x)]
      BY <2>4 DEF Metered
    <3>3. LedgerFits(Metered(l, x), n)
      BY <2>2, <3>1, <3>2 DEF LedgerFits
    <3> QED BY <1>5, <2>1, <2>2, <3>3
  <2> QED BY <2>3, <2>4
<1>7. MeterSound(s)'
  BY <1>3, <1>4, <1>5, <1>6 DEF MeterSound, LedgerFits, Metered, Delta
<1>8. measure' \in [Meter -> Metrics] /\ \A k \in Meter : measure'[k] = s
  BY <1>3, <1>5 DEF MeterInv, OneMeter
<1>9. \A k \in Meter : MeterSound(measure[k])'
  BY <1>7, <1>8 DEF MeterSound, LedgerFits, Metered, Delta
<1>10. NodesGrow
  BY <1>3 DEF NodesGrow, MeterInv, NodeLedger
<1> QED BY <1>3, <1>8, <1>9, <1>10 DEF MeterInv, LedgerFits

(* A node that is skipped leaves the request as it was. *)
LEMMA SkipMeasureKeeps ==
  ASSUME OneMeter, MeterInv, NEW m \in Meter, SkipMeasure(m)
  PROVE  MeterInv' /\ NodesGrow
<1>1. PICK o \in Metrics : o = measure[m] /\ MeterSound(o)
  BY DEF MeterInv
<1>2. PICK s : s = [o EXCEPT !.todo = Tail(@)]
  OBVIOUS
<1>3. MeasureNext(m, s) /\ o.pc = "ask" /\ o.todo # << >> /\ UNCHANGED <<inbound, carried>>
  BY <1>1, <1>2 DEF SkipMeasure, MeterSound
<1>4. s \in Metrics /\ s.pc = "ask" /\ s.base = o.base /\ s.mine = o.mine
  <2>1. PICK todo \in Seq(Node) : todo = Tail(o.todo)
    <3>1. o.todo \in Seq(Node) /\ o.todo # << >>
      BY <1>3 DEF Metrics
    <3>2. Tail(o.todo) \in Seq(Node)
      BY <3>1
    <3> QED BY <3>2
  <2>2. s = [o EXCEPT !.todo = todo]
    BY <1>2, <2>1
  <2> QED BY <1>3, <2>2 DEF Metrics
<1> QED BY <1>1, <1>3, <1>4, NextKeeps DEF MeterSound

(* The answer applied in memory fits too. *)
LEMMA ApplyInboundKeeps ==
  ASSUME OneMeter, MeterInv, NEW m \in Meter, ApplyInbound(m)
  PROVE  MeterInv' /\ NodesGrow
<1>1. PICK o \in Metrics : o = measure[m] /\ MeterSound(o)
  BY DEF MeterInv
<1>2. PICK n, new : n = Head(o.todo) /\ new = Metered(o.mine[n], o.answer)
  OBVIOUS
<1>3. PICK s : s = [o EXCEPT !.pc = "ask", !.answer = 0, !.todo = Tail(@),
                      !.mine[n] = new, !.snaps[n] = @ + (new.total - o.mine[n].total)]
  OBVIOUS
<1>4. MeasureNext(m, s) /\ o.pc = "apply" /\ o.todo # << >> /\ UNCHANGED <<inbound, carried>>
  BY <1>1, <1>2, <1>3 DEF ApplyInbound, MeterSound
<1>5. n \in Node /\ o.mine[n] \in NodeLedger /\ o.answer \in Nat /\ Tail(o.todo) \in Seq(Node)
  BY <1>2, <1>4 DEF Metrics
<1>6. new \in NodeLedger /\ new.total - o.mine[n].total \in Nat
  BY <1>2, <1>5, MeteredLedger
<1>7. PICK more \in Nat : more = new.total - o.mine[n].total
  BY <1>6
<1>8. s = [pc |-> "ask", todo |-> Tail(o.todo), answer |-> 0, base |-> o.base,
           mine |-> [o.mine EXCEPT ![n] = new],
           snaps |-> [o.snaps EXCEPT ![n] = @ + more]]
  BY <1>3, <1>7 DEF Metrics
<1>9. s \in Metrics
  BY <1>5, <1>6, <1>8 DEF Metrics
<1>10. \A k \in Node : LedgerFits(s.mine[k], k)
  BY <1>1, <1>2, <1>4, <1>5, <1>8 DEF MeterSound, Metrics
<1>11. \A k \in Node : nodes[k].total <= s.mine[k].total
  <2>1. new.total \in Nat /\ o.mine[n].total \in Nat /\ o.mine[n].total <= new.total
    BY <1>5, <1>6 DEF NodeLedger
  <2>2. \A k \in Node : nodes[k].total \in Nat /\ nodes[k].total <= o.mine[k].total
    BY <1>1, <1>4 DEF MeterSound, MeterInv, NodeLedger
  <2>3. \A k \in Node : s.mine[k] = IF k = n THEN new ELSE o.mine[k]
    BY <1>5, <1>8 DEF Metrics
  <2>4. nodes[n].total <= new.total
    BY <1>5, <2>1, <2>2
  <2> QED BY <2>2, <2>3, <2>4
<1> QED BY <1>1, <1>4, <1>8, <1>9, <1>10, <1>11, NextKeeps DEF MeterSound

(* The invariant holds initially. *)
LEMMA MeterInit ==
  ASSUME Init
  PROVE  MeterInv
<1>1. /\ inbound \in [Node -> Nat] /\ carried \in [Node -> Nat]
      /\ nodes \in [Node -> NodeLedger]
      /\ \A n \in Node : inbound[n] = 0 /\ carried[n] = 0 /\ nodes[n] = [raw |-> 0, total |-> 0]
  BY DEF Init, None, NodeLedger, NoTraffic
<1>2. IdleMeasure \in Metrics /\ IdleMeasure.pc = "idle"
  BY DEF IdleMeasure, Metrics, NodeLedger, NoTraffic, None
<1>3. measure \in [Meter -> Metrics] /\ \A m \in Meter : measure[m].pc = "idle"
  BY <1>2 DEF Init
<1>4. Delta(0, 0) = 0
  BY DEF Delta
<1> QED BY <1>1, <1>3, <1>4 DEF MeterInv, MeterSound, LedgerFits

(* Every step keeps the node invariant. *)
LEMMA MeterStep ==
  ASSUME TrafficAssumption, OneMeter, MeterInv, [Next]_vars
  PROVE  MeterInv' /\ NodesGrow
<1>1. CASE \E d \in Device, n \in Node : SendByte(d, n)
  BY <1>1, InboundKeeps
<1>2. CASE \E n \in Node : RestartXray(n)
  BY <1>2, InboundKeeps
<1>3. ASSUME NEW m \in Meter, Metering(m) PROVE MeterInv' /\ NodesGrow
  BY <1>3, StartMeasureKeeps, AskInboundKeeps, SkipMeasureKeeps, ApplyInboundKeeps DEF Metering
<1>4. ASSUME UNCHANGED <<inbound, carried, nodes, measure>> PROVE MeterInv' /\ NodesGrow
  BY <1>4, LedgersKeep DEF MeterInv, LedgerFits
<1>5. ASSUME NEW c \in Collector, Collection(c)
      PROVE  UNCHANGED <<inbound, carried, nodes, measure>>
  BY <1>5 DEF Collection, StartCollect, AskXray, SkipNode, ApplyStats
<1>6. CASE Restart
  <2>1. /\ measure' = [m \in Meter |-> IdleMeasure] /\ UNCHANGED <<inbound, carried, nodes>>
    BY <1>6 DEF Restart
  <2>2. IdleMeasure \in Metrics /\ IdleMeasure.pc = "idle"
    BY DEF IdleMeasure, Metrics, NodeLedger, NoTraffic, None
  <2>3. measure' \in [Meter -> Metrics] /\ \A m \in Meter : measure'[m].pc = "idle"
    BY <2>1, <2>2
  <2>4. NodesGrow
    BY <2>1 DEF NodesGrow, MeterInv, NodeLedger
  <2> QED BY <2>1, <2>3, <2>4 DEF MeterInv, MeterSound, LedgerFits
<1>7. ASSUME \/ \E d \in Device : RemoveDevice(d)
             \/ \E u \in User : ResetTraffic(u) \/ DisableUser(u) \/ EnableUser(u)
             \/ Enforce
             \/ UNCHANGED vars
      PROVE  UNCHANGED <<inbound, carried, nodes, measure>>
  BY <1>7 DEF RemoveDevice, ResetTraffic, DisableUser, EnableUser, Enforce, vars
<1> QED BY <1>1, <1>2, <1>3, <1>4, <1>5, <1>6, <1>7 DEF Next

(* However often Xray restarts and requests skip nodes or are lost with    *)
(* the process, collect_nodes_metrics never charges a node a byte it did   *)
(* not carry -- as long as one request runs at a time.                     *)
THEOREM NodesNeverOvercharged ==
  ASSUME OneMeter
  PROVE  Spec => []NodeNotOvercharged
<1>1. Init => MeterInv
  BY MeterInit
<1>2. MeterInv /\ [Next]_vars => MeterInv'
  BY TrafficAssumption, MeterStep
<1>3. MeterInv => NodeNotOvercharged
  BY DEF MeterInv, LedgerFits, NodeNotOvercharged
<1> QED BY <1>1, <1>2, <1>3, PTL DEF Spec

-----------------------------------------------------------------------------
(* Sums.  The library's induction over finite sets cannot be instantiated  *)
(* here; this is one over a set of parts, from the principle that a well-  *)
(* founded relation has minimal elements.                                  *)

(* A set of numbers that is not empty has a least one. *)
LEMMA Least ==
  ASSUME NEW T \in SUBSET Nat, T # {}
  PROVE  \E n \in T : \A m \in T : n <= m
<1> DEFINE L == {ss \in Nat \X Nat : ss[1] < ss[2]}
<1>1. IsWellFoundedOn(L, Nat)
  BY NatLessThanWellFounded DEF OpToRel
<1> HIDE DEF L
<1>2. PICK n \in T : \A m \in T : <<m, n>> \notin L
  BY <1>1, WFMin, Zenon
<1>3. \A m \in T : ~(m < n)
  BY <1>2 DEF L
<1> QED
  BY <1>2, <1>3

(* Induction over the parts of a finite set: a collection P that has every *)
(* part whose own proper parts it has, has them all.                       *)
LEMMA Parts ==
  ASSUME NEW S, IsFiniteSet(S), NEW P,
         \A T \in SUBSET S : (\A U \in SUBSET T : U # T => U \in P) => T \in P
  PROVE  S \in P
<1> SUFFICES ASSUME S \notin P PROVE FALSE
  OBVIOUS
<1> DEFINE bad == {T \in SUBSET S : T \notin P}
           sizes == {Cardinality(T) : T \in bad}
<1>1. \A T \in SUBSET S : IsFiniteSet(T) /\ Cardinality(T) \in Nat
  BY FS_Subset, FS_CardinalityType
<1>2. sizes \in SUBSET Nat /\ sizes # {}
  BY <1>1
<1>3. PICK n \in sizes : \A m \in sizes : n <= m
  BY <1>2, Least
<1>4. PICK T \in bad : Cardinality(T) = n
  BY <1>3
<1>5. PICK U \in SUBSET T : U # T /\ U \notin P
  BY <1>4
<1>6. U \in bad
  BY <1>4, <1>5
<1>7. Cardinality(U) \in sizes
  BY <1>6
<1>8. Cardinality(U) <= Cardinality(T) /\ Cardinality(U) # Cardinality(T)
  <2>1. IsFiniteSet(T) /\ U \in SUBSET T
    BY <1>1, <1>4, <1>5
  <2>2. Cardinality(U) <= Cardinality(T) /\ (Cardinality(T) = Cardinality(U) => T = U)
    BY <2>1, FS_Subset
  <2> QED
    BY <1>5, <2>2
<1>9. Cardinality(U) \in Nat /\ Cardinality(T) \in Nat
  BY <1>1, <1>4, <1>6
<1> QED
  BY <1>3, <1>4, <1>7, <1>8, <1>9

(* F is the function by which a sum over S is computed. *)
Any(s) == CHOOSE x \in s : TRUE
Adds(F, f, S) ==
  F = [s \in SUBSET S |-> IF s = {} THEN 0 ELSE f[Any(s)] + F[s \ {Any(s)}]]

(* A set that is not empty has an element to take.                         *)
LEMMA AnyElement == ASSUME NEW s, s # {} PROVE Any(s) \in s
BY DEF Any

(* A sum is the value of the function that computes sums.                  *)
LEMMA TotalIs ==
  ASSUME NEW f, NEW S
  PROVE  Total(f, S) = (CHOOSE F : Adds(F, f, S))[S]
BY DEF Total, MapThenSumSet, MapThenFoldSet, Adds, Any

(* The function that computes sums, at a part of the set.                  *)
LEMMA AddsAt ==
  ASSUME NEW F, NEW f, NEW S, Adds(F, f, S), NEW s \in SUBSET S
  PROVE  F[s] = IF s = {} THEN 0 ELSE f[Any(s)] + F[s \ {Any(s)}]
<1> DEFINE G == [t \in SUBSET S |-> IF t = {} THEN 0 ELSE f[Any(t)] + F[t \ {Any(t)}]]
<1>1. F = G
  BY DEF Adds
<1>2. G[s] = IF s = {} THEN 0 ELSE f[Any(s)] + F[s \ {Any(s)}]
  OBVIOUS
<1> QED
  BY <1>1, <1>2

(* Sums over different sets agree on their common parts. *)
LEMMA AddsAgree ==
  ASSUME NEW F, NEW G, NEW f, NEW S, NEW T, Adds(F, f, S), Adds(G, f, T),
         NEW U, IsFiniteSet(U), U \subseteq S, U \subseteq T
  PROVE  F[U] = G[U]
<1> DEFINE P == {V \in SUBSET U : F[V] = G[V]}
<1>1. ASSUME NEW V \in SUBSET U, \A W \in SUBSET V : W # V => W \in P PROVE V \in P
  <2>1. V \in SUBSET S /\ V \in SUBSET T
    OBVIOUS
  <2>2. CASE V = {}
    BY <2>1, <2>2, AddsAt
  <2>3. CASE V # {}
    <3>1. V \ {Any(V)} \in SUBSET V /\ V \ {Any(V)} # V
      BY <2>3, AnyElement
    <3>2. F[V \ {Any(V)}] = G[V \ {Any(V)}]
      BY <1>1, <3>1
    <3> QED
      BY <2>1, <2>3, <3>2, AddsAt
  <2> QED
    BY <2>2, <2>3
<1> HIDE DEF P
<1>2. U \in P
  BY <1>1, Parts
<1> QED
  BY <1>2 DEF P

(* Every finite sum is computed. *)
LEMMA AddsExists ==
  ASSUME NEW f, NEW S, IsFiniteSet(S)
  PROVE  \E F : Adds(F, f, S)
<1> DEFINE P == {T \in SUBSET S : \E F : Adds(F, f, T)}
<1>1. ASSUME NEW T \in SUBSET S, \A U \in SUBSET T : U # T => U \in P PROVE T \in P
  <2> DEFINE H == [s \in SUBSET T |-> IF s = {} THEN 0 ELSE f[Any(s)] + Total(f, s \ {Any(s)})]
  <2>1. ASSUME NEW U \in SUBSET T, U # T
        PROVE  Adds(CHOOSE F : Adds(F, f, U), f, U)
    BY <1>1, <2>1
  <2>2. ASSUME NEW U \in SUBSET T, U # T PROVE Total(f, U) = H[U]
    <3> DEFINE G == CHOOSE F : Adds(F, f, U)
    <3>1. Adds(G, f, U) /\ Total(f, U) = G[U]
      BY <2>1, <2>2, TotalIs
    <3> HIDE DEF G
    <3>2. CASE U = {}
      BY <3>1, <3>2, AddsAt
    <3>3. CASE U # {}
      <4> DEFINE V == U \ {Any(U)}
      <4>1. V \in SUBSET U /\ V \in SUBSET T /\ V # T
        BY <2>2, <3>3, AnyElement
      <4> DEFINE K == CHOOSE F : Adds(F, f, V)
      <4>2. Adds(K, f, V) /\ Total(f, V) = K[V]
        BY <2>1, <4>1, TotalIs
      <4> HIDE DEF K
      <4>3. IsFiniteSet(V)
        BY <4>1, FS_Subset
      <4>4. G[V] = K[V]
        BY <3>1, <4>1, <4>2, <4>3, AddsAgree
      <4>5. G[U] = f[Any(U)] + G[V]
        BY <3>1, <3>3, AddsAt
      <4>6. H[U] = f[Any(U)] + Total(f, V)
        BY <3>3
      <4> QED
        BY <3>1, <4>2, <4>4, <4>5, <4>6
    <3> QED
      BY <3>2, <3>3
  <2>3. ASSUME NEW s \in SUBSET T, s # {}
        PROVE  Total(f, s \ {Any(s)}) = H[s \ {Any(s)}]
    <3>1. s \ {Any(s)} \in SUBSET T /\ s \ {Any(s)} # T
      BY <2>3, AnyElement
    <3> HIDE DEF H
    <3> QED
      BY <2>2, <3>1
  <2>4. H = [s \in SUBSET T |-> IF s = {} THEN 0 ELSE f[Any(s)] + H[s \ {Any(s)}]]
    BY <2>3
  <2>5. Adds(H, f, T)
    BY <2>4 DEF Adds
  <2> QED
    BY <2>5
<1> HIDE DEF P
<1>2. S \in P
  BY <1>1, Parts
<1> QED
  BY <1>2 DEF P

(* A sum over a finite set, by the element that is taken first. *)
LEMMA TotalAt ==
  ASSUME NEW f, NEW S, IsFiniteSet(S)
  PROVE  Total(f, S) = IF S = {} THEN 0 ELSE f[Any(S)] + Total(f, S \ {Any(S)})
<1> DEFINE F == CHOOSE F : Adds(F, f, S)
           T == S \ {Any(S)}
           G == CHOOSE G : Adds(G, f, T)
<1>1. IsFiniteSet(T) /\ T \subseteq S
  BY FS_Subset
<1>2. Adds(F, f, S) /\ Total(f, S) = F[S]
  BY AddsExists, TotalIs
<1>3. Adds(G, f, T) /\ Total(f, T) = G[T]
  BY <1>1, AddsExists, TotalIs
<1> HIDE DEF F, G
<1>4. F[T] = G[T]
  BY <1>1, <1>2, <1>3, AddsAgree
<1>5. F[S] = IF S = {} THEN 0 ELSE f[Any(S)] + F[T]
  BY <1>2, AddsAt
<1> QED
  BY <1>2, <1>3, <1>4, <1>5

(* The sum over nothing.                                                   *)
LEMMA TotalEmpty == \A f : Total(f, {}) = 0
<1> SUFFICES ASSUME NEW f PROVE Total(f, {}) = 0
  OBVIOUS
<1>1. IsFiniteSet({})
  BY FS_EmptySet
<1> QED
  BY <1>1, TotalAt

(* A sum of numbers is a number. *)
LEMMA TotalNat ==
  ASSUME NEW f, NEW S, IsFiniteSet(S), \A x \in S : f[x] \in Nat
  PROVE  Total(f, S) \in Nat
<1> DEFINE P == {T \in SUBSET S : Total(f, T) \in Nat}
<1>1. ASSUME NEW T \in SUBSET S, \A U \in SUBSET T : U # T => U \in P PROVE T \in P
  <2>1. IsFiniteSet(T)
    BY FS_Subset
  <2>2. CASE T # {}
    <3>1. Any(T) \in T
      BY <2>2, AnyElement
    <3>2. Total(f, T \ {Any(T)}) \in Nat
      BY <1>1, <3>1
    <3> QED
      BY <2>1, <2>2, <3>1, <3>2, TotalAt
  <2>3. CASE T = {}
    BY <2>3, TotalEmpty
  <2> QED
    BY <2>2, <2>3
<1> HIDE DEF P
<1>2. S \in P
  BY <1>1, Parts
<1> QED
  BY <1>2 DEF P

(* It does not matter which element is taken first. *)
LEMMA TotalWithout ==
  ASSUME NEW f, NEW S, IsFiniteSet(S), \A x \in S : f[x] \in Nat, NEW y \in S
  PROVE  Total(f, S) = f[y] + Total(f, S \ {y})
<1> DEFINE P == {T \in SUBSET S : \A z \in T : Total(f, T) = f[z] + Total(f, T \ {z})}
<1>1. ASSUME NEW T \in SUBSET S, \A U \in SUBSET T : U # T => U \in P PROVE T \in P
  <2> SUFFICES ASSUME NEW z \in T PROVE Total(f, T) = f[z] + Total(f, T \ {z})
    OBVIOUS
  <2> DEFINE a == Any(T)
  <2>1. a \in T
    BY AnyElement
  <2> HIDE DEF a
  <2>2. IsFiniteSet(T) /\ IsFiniteSet((T \ {a}) \ {z})
    BY FS_Subset
  <2>3. Total(f, T) = f[a] + Total(f, T \ {a})
    BY <2>2, TotalAt DEF a
  <2>4. CASE a = z
    BY <2>3, <2>4
  <2>5. CASE a # z
    <3>0. /\ T \ {a} \in SUBSET T /\ T \ {a} # T /\ z \in T \ {a}
          /\ T \ {z} \in SUBSET T /\ T \ {z} # T /\ a \in T \ {z}
      BY <2>1, <2>5
    <3>1. Total(f, T \ {a}) = f[z] + Total(f, (T \ {a}) \ {z})
      BY <1>1, <3>0
    <3>2. Total(f, T \ {z}) = f[a] + Total(f, (T \ {z}) \ {a})
      BY <1>1, <3>0
    <3>3. (T \ {a}) \ {z} = (T \ {z}) \ {a}
      BY Zenon
    <3>4. Total(f, (T \ {a}) \ {z}) \in Nat /\ f[a] \in Nat /\ f[z] \in Nat
      BY <2>1, <2>2, TotalNat
    <3> QED
      BY <2>3, <3>1, <3>2, <3>3, <3>4
  <2> QED
    BY <2>4, <2>5
<1> HIDE DEF P
<1>2. S \in P
  BY <1>1, Parts
<1> QED
  BY <1>2 DEF P

(* A part sums to no more than the whole, and to as much where nothing is  *)
(* outside of it.                                                          *)
LEMMA TotalPart ==
  ASSUME NEW f, NEW S, IsFiniteSet(S), \A x \in S : f[x] \in Nat, NEW T \in SUBSET S
  PROVE  /\ Total(f, T) <= Total(f, S)
         /\ (\A x \in S \ T : f[x] = 0) => Total(f, T) = Total(f, S)
<1> DEFINE P == {U \in SUBSET S :
                   /\ Total(f, U \intersect T) <= Total(f, U)
                   /\ (\A x \in S \ T : f[x] = 0) => Total(f, U \intersect T) = Total(f, U)}
<1>1. ASSUME NEW U \in SUBSET S, \A V \in SUBSET U : V # U => V \in P PROVE U \in P
  <2>0. IsFiniteSet(U) /\ IsFiniteSet(U \intersect T)
    BY FS_Subset
  <2>1. CASE U \subseteq T
    <3>1. U \intersect T = U /\ Total(f, U) \in Nat
      BY <2>0, <2>1, TotalNat
    <3> QED
      BY <3>1
  <2>2. CASE \E x \in U : x \notin T
    <3>1. PICK x \in U : x \notin T
      BY <2>2
    <3> DEFINE V == U \ {x}
    <3>2. V \in P /\ V \intersect T = U \intersect T
      BY <1>1, <3>1
    <3>3. Total(f, U) = f[x] + Total(f, V)
      BY <2>0, TotalWithout
    <3>4. IsFiniteSet(V)
      BY <2>0, FS_Subset
    <3>5. Total(f, V) \in Nat /\ Total(f, U \intersect T) \in Nat /\ f[x] \in Nat
      BY <2>0, <3>4, TotalNat
    <3>6. (\A z \in S \ T : f[z] = 0) => f[x] = 0
      BY <3>1
    <3> QED
      BY <3>2, <3>3, <3>5, <3>6
  <2> QED
    BY <2>1, <2>2
<1> HIDE DEF P
<1>2. S \in P
  BY <1>1, Parts
<1>3. S \intersect T = T
  OBVIOUS
<1> QED
  BY <1>2, <1>3 DEF P

(* The sum of what is added, element by element. *)
LEMMA TotalPlus ==
  ASSUME NEW f, NEW g, NEW h, NEW S, IsFiniteSet(S),
         \A x \in S : f[x] \in Nat /\ g[x] \in Nat /\ h[x] = f[x] + g[x]
  PROVE  Total(h, S) = Total(f, S) + Total(g, S)
<1> DEFINE P == {T \in SUBSET S : Total(h, T) = Total(f, T) + Total(g, T)}
<1>1. ASSUME NEW T \in SUBSET S, \A U \in SUBSET T : U # T => U \in P PROVE T \in P
  <2>1. IsFiniteSet(T) /\ IsFiniteSet(T \ {Any(T)})
    BY FS_Subset
  <2>2. CASE T # {}
    <3>1. Any(T) \in T
      BY <2>2, AnyElement
    <3> DEFINE U == T \ {Any(T)}
    <3>2. Total(h, U) = Total(f, U) + Total(g, U)
      BY <1>1, <3>1
    <3>3. Total(f, U) \in Nat /\ Total(g, U) \in Nat
      BY <2>1, TotalNat
    <3>4. /\ Total(h, T) = h[Any(T)] + Total(h, U) /\ Total(f, T) = f[Any(T)] + Total(f, U)
          /\ Total(g, T) = g[Any(T)] + Total(g, U)
      BY <2>1, <2>2, TotalAt
    <3>5. f[Any(T)] \in Nat /\ g[Any(T)] \in Nat /\ h[Any(T)] = f[Any(T)] + g[Any(T)]
      BY <3>1
    <3> HIDE DEF U
    <3> QED
      BY <3>2, <3>3, <3>4, <3>5
  <2>3. CASE T = {}
    BY <2>3, TotalEmpty
  <2> QED
    BY <2>2, <2>3
<1> HIDE DEF P
<1>2. S \in P
  BY <1>1, Parts
<1> QED
  BY <1>2 DEF P

(* Sums of what is the same, or no more, element by element. *)
LEMMA TotalOrder ==
  ASSUME NEW f, NEW g, NEW S, IsFiniteSet(S), \A x \in S : f[x] \in Nat /\ g[x] \in Nat
  PROVE  /\ (\A x \in S : f[x] <= g[x]) => Total(f, S) <= Total(g, S)
         /\ (\A x \in S : f[x] = g[x]) => Total(f, S) = Total(g, S)
<1>1. ASSUME \A x \in S : f[x] <= g[x] PROVE Total(f, S) <= Total(g, S)
  <2> DEFINE h == [x \in S |-> g[x] - f[x]]
  <2>1. \A x \in S : h[x] \in Nat /\ g[x] = f[x] + h[x]
    BY <1>1
  <2> HIDE DEF h
  <2>2. Total(g, S) = Total(f, S) + Total(h, S)
    BY <2>1, TotalPlus
  <2>3. Total(f, S) \in Nat /\ Total(h, S) \in Nat
    BY <2>1, TotalNat
  <2> QED
    BY <2>2, <2>3
<1>2. ASSUME \A x \in S : f[x] = g[x] PROVE Total(f, S) = Total(g, S)
  <2> DEFINE h == [x \in S |-> 0]
  <2>1. \A x \in S : h[x] = 0
    OBVIOUS
  <2> HIDE DEF h
  <2>2. Total(g, S) = Total(f, S) + Total(h, S)
    BY <1>2, <2>1, TotalPlus
  <2>3. Total(h, {}) = 0 /\ Total(h, {}) = Total(h, S)
    <3>1. {} \in SUBSET S /\ \A x \in S : h[x] \in Nat
      BY <2>1
    <3> QED
      BY <2>1, <3>1, TotalEmpty, TotalPart
  <2>4. Total(f, S) \in Nat
    BY TotalNat
  <2> QED
    BY <2>2, <2>3, <2>4
<1> QED
  BY <1>1, <1>2
-----------------------------------------------------------------------------
(* Types: no hypothesis on how many requests are in flight.                *)

(* What a session, a request and their ledgers start from is well typed. *)
LEMMA IdleTyped ==
  /\ Blank \in Ledger /\ IdleCollect \in Session /\ IdleMeasure \in Metrics
  /\ IdleCollect.pc = "idle" /\ IdleMeasure.pc = "idle"
  /\ Silent \in [Device -> Nat] /\ None \in [Node -> Nat]
<1>1. Blank \in Ledger
  BY DEF Blank, Ledger, UserStatus
<1>2. Silent \in [Device -> Nat] /\ None \in [Node -> Nat]
  BY DEF Silent, None
<1>3. << >> \in Seq(Node) /\ {} \in SUBSET Device
  OBVIOUS
<1>4. IdleCollect \in Session /\ IdleCollect.pc = "idle"
  BY <1>1, <1>2, <1>3 DEF IdleCollect, Session
<1>5. IdleMeasure \in Metrics /\ IdleMeasure.pc = "idle"
  BY <1>2, <1>3 DEF IdleMeasure, Metrics, NodeLedger, NoTraffic
<1> QED BY <1>1, <1>2, <1>4, <1>5

(* The columns of some users from one ledger, of the others from another. *)
LEMMA OverlayTyped ==
  ASSUME TrafficAssumption, NEW P, NEW a \in Ledger, NEW b \in Ledger
  PROVE  Overlay(P, a, b) \in Ledger
BY DEF TrafficAssumption, Overlay, Ledger

(* A flush leaves columns of the types they had.                           *)
LEMMA FlushTyped ==
  ASSUME NEW D, NEW V, NEW base, NEW mine \in [D -> V], NEW now \in [D -> V]
  PROVE  Flush(base, mine, now) \in [D -> V]
BY DEF Flush

(* What an answer charges. *)
Deltas(v, hits, answer) ==
  [d \in Device |-> IF d \in hits THEN Delta(v.raw[d], answer[d]) ELSE 0]

(* A delta is a number, and is zero for devices not found.                 *)
LEMMA DeltasNat ==
  ASSUME NEW v \in Ledger, NEW hits, NEW answer \in [Device -> Nat]
  PROVE  /\ Deltas(v, hits, answer) \in [Device -> Nat]
         /\ \A d \in Device : Deltas(v, hits, answer)[d] =
              IF d \in hits THEN Delta(v.raw[d], answer[d]) ELSE 0
<1>1. \A d \in Device : Delta(v.raw[d], answer[d]) \in Nat
  BY DeltaNat DEF Ledger
<1> QED BY <1>1 DEF Deltas

(* A charged ledger is a ledger; each device is charged its delta, each    *)
(* user the deltas of the devices found.                                   *)
LEMMA ChargedTyped ==
  ASSUME TrafficAssumption, NEW v \in Ledger, NEW hits \in SUBSET Device,
         NEW answer \in [Device -> Nat]
  PROVE  /\ Charged(v, hits, answer) \in Ledger
         /\ \A d \in Device : Charged(v, hits, answer).total[d] =
              v.total[d] + Deltas(v, hits, answer)[d]
         /\ \A u \in User : Charged(v, hits, answer).used[u] =
              v.used[u] + Total(Deltas(v, hits, answer), {d \in hits : Owner[d] = u})
<1> DEFINE delta == Deltas(v, hits, answer)
           more  == [u \in User |-> Total(delta, {d \in hits : Owner[d] = u})]
<1>1. delta \in [Device -> Nat]
  BY DeltasNat
<1>2. more \in [User -> Nat]
  <2> SUFFICES ASSUME NEW u \in User
               PROVE  Total(delta, {d \in hits : Owner[d] = u}) \in Nat
    OBVIOUS
  <2>1. IsFiniteSet({d \in hits : Owner[d] = u})
    BY FS_Subset DEF TrafficAssumption
  <2>2. \A d \in {e \in hits : Owner[e] = u} : delta[d] \in Nat
    BY <1>1
  <2> HIDE DEF delta
  <2> QED BY <2>1, <2>2, TotalNat
<1>3. PICK l : l = Charged(v, hits, answer)
  OBVIOUS
<1>4. l = [raw    |-> [d \in Device |-> IF d \in hits THEN answer[d] ELSE v.raw[d]],
           total  |-> [d \in Device |-> v.total[d] + delta[d]],
           used   |-> [u \in User |-> v.used[u] + more[u]],
           status |-> l.status]
  BY <1>3 DEF Charged, Deltas
<1>5. l.status \in [User -> UserStatus]
  <2>1. \A u \in User : v.status[u] \in UserStatus /\ "limited" \in UserStatus
    BY DEF Ledger, UserStatus
  <2> QED BY <1>3, <2>1 DEF Charged
<1> HIDE DEF delta, more
<1>6. l.raw \in [Device -> Nat] /\ l.raw = [d \in Device |-> IF d \in hits THEN answer[d] ELSE v.raw[d]]
  <2>1. l.raw = [d \in Device |-> IF d \in hits THEN answer[d] ELSE v.raw[d]]
    BY <1>4
  <2>2. \A d \in Device : v.raw[d] \in Nat /\ answer[d] \in Nat
    BY DEF Ledger
  <2> QED BY <2>1, <2>2
<1>7. l.total \in [Device -> Nat] /\ \A d \in Device : l.total[d] = v.total[d] + delta[d]
  <2>1. l.total = [d \in Device |-> v.total[d] + delta[d]]
    BY <1>4
  <2>2. \A d \in Device : v.total[d] \in Nat /\ delta[d] \in Nat
    BY <1>1 DEF Ledger
  <2> QED BY <2>1, <2>2
<1>8. l.used \in [User -> Nat] /\ \A u \in User : l.used[u] = v.used[u] + more[u]
  <2>1. l.used = [u \in User |-> v.used[u] + more[u]]
    BY <1>4
  <2>2. \A u \in User : v.used[u] \in Nat /\ more[u] \in Nat
    BY <1>2 DEF Ledger
  <2> QED BY <2>1, <2>2
<1>9. l \in Ledger
  <2>1. l = [raw |-> l.raw, total |-> l.total, used |-> l.used, status |-> l.status]
    BY <1>4
  <2> QED BY <1>5, <1>6, <1>7, <1>8, <2>1 DEF Ledger
<1> QED BY <1>3, <1>7, <1>8, <1>9 DEF delta, more

(* A snapshot records the deltas that are charged.                         *)
LEMMA RecordedNat ==
  ASSUME TrafficAssumption, NEW v \in Ledger, NEW hits \in SUBSET Device,
         NEW answer \in [Device -> Nat]
  PROVE  Recorded(v, hits, answer) = Total(Deltas(v, hits, answer), hits)
         /\ Recorded(v, hits, answer) \in Nat
<1> DEFINE all == [d \in Device |-> Delta(v.raw[d], answer[d])]
           del == Deltas(v, hits, answer)
<1>1. \A d \in Device : all[d] \in Nat
  BY DeltaNat DEF Ledger
<1>2. IsFiniteSet(hits)
  BY FS_Subset DEF TrafficAssumption
<1>3. \A d \in hits : all[d] \in Nat /\ del[d] \in Nat /\ all[d] = del[d]
  BY <1>1, DeltasNat
<1> HIDE DEF all, del
<1>4. Total(all, hits) = Total(del, hits) /\ Total(all, hits) \in Nat
  BY <1>2, <1>3, TotalOrder, TotalNat
<1> QED BY <1>4 DEF Recorded, all, del

(* The session once its answer is applied.                                 *)
After(c) ==
  LET s     == collect[c]
      hit   == s.hit \cup Hits(c)
      users == {Owner[d] : d \in hit}
  IN [pc     |-> "ask",
      todo   |-> Tail(s.todo),
      answer |-> Silent,
      hit    |-> hit,
      base   |-> Overlay(users, Overlay(Pinned(c), s.base, db), Blank),
      mine   |-> Overlay(users, Charged(View(c), Hits(c), s.answer), Blank),
      snaps  |-> [s.snaps EXCEPT ![Head(s.todo)] =
                    @ + Recorded(View(c), Hits(c), s.answer)]]

(* The session that has applied an answer is a session.                    *)
LEMMA AfterTyped ==
  ASSUME TrafficAssumption, TypeOK, NEW c \in Collector, collect[c].pc = "apply"
  PROVE  /\ After(c) \in Session /\ After(c).pc = "ask"
         /\ View(c) \in Ledger /\ Hits(c) \in SUBSET Device
         /\ Charged(View(c), Hits(c), collect[c].answer) \in Ledger
         /\ After(c).hit = collect[c].hit \cup Hits(c)
         /\ After(c).snaps \in [Node -> Nat] /\ Head(collect[c].todo) \in Node
         /\ \A n \in Node : After(c).snaps[n] = collect[c].snaps[n] +
              (IF n = Head(collect[c].todo)
                 THEN Recorded(View(c), Hits(c), collect[c].answer) ELSE 0)
<1>1. PICK s \in Session : s = collect[c] /\ s.pc = "apply" /\ s.todo # << >>
  BY DEF TypeOK
<1>2. /\ s.hit \in SUBSET Device /\ s.todo \in Seq(Node) /\ s.answer \in [Device -> Nat]
      /\ s.base \in Ledger /\ s.mine \in Ledger /\ s.snaps \in [Node -> Nat]
      /\ db \in Ledger /\ rows \in SUBSET Device
  BY DEF Session, TypeOK
<1>3. PICK h \in Node : h = Head(s.todo) /\ Tail(s.todo) \in Seq(Node)
  BY <1>1, <1>2
<1>4. PICK v \in Ledger : v = View(c)
  BY <1>1, <1>2, OverlayTyped DEF View
<1>5. PICK hits \in SUBSET Device : hits = Hits(c)
  BY <1>2 DEF Hits
<1>6. PICK new \in Ledger : new = Charged(v, hits, s.answer)
  BY <1>2, ChargedTyped
<1>7. PICK x \in Nat : x = Recorded(v, hits, s.answer)
  BY <1>2, RecordedNat
<1>8. PICK users : users = {Owner[d] : d \in s.hit \cup hits}
  OBVIOUS
<1>9. After(c) = [pc |-> "ask", todo |-> Tail(s.todo), answer |-> Silent, hit |-> s.hit \cup hits,
                  base |-> Overlay(users, Overlay(Pinned(c), s.base, db), Blank),
                  mine |-> Overlay(users, new, Blank),
                  snaps |-> [s.snaps EXCEPT ![h] = @ + x]]
  BY <1>1, <1>3, <1>4, <1>5, <1>6, <1>7, <1>8 DEF After
<1>10. /\ Overlay(users, Overlay(Pinned(c), s.base, db), Blank) \in Ledger
       /\ Overlay(users, new, Blank) \in Ledger
  BY <1>2, IdleTyped, OverlayTyped
<1>11. /\ [s.snaps EXCEPT ![h] = @ + x] \in [Node -> Nat]
       /\ \A n \in Node : [s.snaps EXCEPT ![h] = @ + x][n] = s.snaps[n] + (IF n = h THEN x ELSE 0)
  BY <1>2
<1>12. s.hit \cup hits \in SUBSET Device
  BY <1>2
<1>13. After(c) \in Session
  <2>1. PICK base, mine \in Ledger : /\ base = Overlay(users, Overlay(Pinned(c), s.base, db), Blank)
                                    /\ mine = Overlay(users, new, Blank)
    BY <1>10
  <2>2. PICK snaps \in [Node -> Nat] : snaps = [s.snaps EXCEPT ![h] = @ + x]
    BY <1>11
  <2>3. PICK todo \in Seq(Node) : todo = Tail(s.todo)
    BY <1>3
  <2>4. After(c) = [pc |-> "ask", todo |-> todo, answer |-> Silent, hit |-> s.hit \cup hits,
                    base |-> base, mine |-> mine, snaps |-> snaps]
    BY <1>9, <2>1, <2>2, <2>3
  <2> QED BY <1>12, <2>4, IdleTyped DEF Session
<1>14. /\ After(c).pc = "ask" /\ After(c).hit = s.hit \cup hits
       /\ After(c).snaps = [s.snaps EXCEPT ![h] = @ + x]
  BY <1>9
<1>15. \A n \in Node : After(c).snaps[n] = s.snaps[n] + (IF n = h THEN x ELSE 0)
  BY <1>11, <1>14
<1> QED BY <1>1, <1>3, <1>4, <1>5, <1>6, <1>7, <1>11, <1>13, <1>14, <1>15

(* What a commit leaves in the database.                                   *)
LEMMA CommitTyped ==
  ASSUME TypeOK, NEW c \in Collector, NEW s \in Session, Commit(c, s)
  PROVE  /\ db' \in Ledger /\ Changed(s) \subseteq rows
         /\ collect' = [collect EXCEPT ![c] = IdleCollect]
         /\ history' \in [Node -> [user: Nat, node: Nat]]
         /\ \A n \in Node : /\ history'[n].user = history[n].user + s.snaps[n]
                            /\ history'[n].node = history[n].node
         /\ \A d \in Device : db'.total[d] = IF d \in rows /\ s.mine.total[d] # s.base.total[d]
                                               THEN s.mine.total[d] ELSE db.total[d]
         /\ \A u \in User : db'.used[u] = IF s.mine.used[u] # s.base.used[u]
                                            THEN s.mine.used[u] ELSE db.used[u]
<1>1. /\ db.raw \in [Device -> Nat] /\ db.total \in [Device -> Nat]
      /\ db.used \in [User -> Nat] /\ db.status \in [User -> UserStatus]
      /\ s.mine.raw \in [Device -> Nat] /\ s.mine.total \in [Device -> Nat]
      /\ s.mine.used \in [User -> Nat] /\ s.mine.status \in [User -> UserStatus]
  BY DEF TypeOK, Session, Ledger
<1>2. PICK raw, total \in [Device -> Nat] :
        /\ raw = Flush(s.base.raw, s.mine.raw, db.raw)
        /\ total = Flush(s.base.total, s.mine.total, db.total)
        /\ \A d \in Device : total[d] = IF s.mine.total[d] # s.base.total[d]
                                          THEN s.mine.total[d] ELSE db.total[d]
  <2>1. Flush(s.base.raw, s.mine.raw, db.raw) \in [Device -> Nat]
    BY <1>1, FlushTyped
  <2>2. /\ Flush(s.base.total, s.mine.total, db.total) \in [Device -> Nat]
        /\ \A d \in Device : Flush(s.base.total, s.mine.total, db.total)[d] =
             IF s.mine.total[d] # s.base.total[d] THEN s.mine.total[d] ELSE db.total[d]
    BY <1>1 DEF Flush
  <2> QED BY <2>1, <2>2
<1>3. PICK used \in [User -> Nat] :
        /\ used = Flush(s.base.used, s.mine.used, db.used)
        /\ \A u \in User : used[u] = IF s.mine.used[u] # s.base.used[u]
                                       THEN s.mine.used[u] ELSE db.used[u]
  <2>1. /\ Flush(s.base.used, s.mine.used, db.used) \in [User -> Nat]
        /\ \A u \in User : Flush(s.base.used, s.mine.used, db.used)[u] =
             IF s.mine.used[u] # s.base.used[u] THEN s.mine.used[u] ELSE db.used[u]
    BY <1>1 DEF Flush
  <2> QED BY <2>1
<1>4. PICK status \in [User -> UserStatus] : status = Flush(s.base.status, s.mine.status, db.status)
  BY <1>1, FlushTyped
<1>5. /\ db' = [raw |-> InRows(raw, db.raw), total |-> InRows(total, db.total),
                used |-> used, status |-> status]
      /\ collect' = [collect EXCEPT ![c] = IdleCollect]
      /\ history' = [n \in Node |-> [history[n] EXCEPT !.user = @ + s.snaps[n]]]
  BY <1>2, <1>3, <1>4 DEF Commit
<1>6. /\ InRows(raw, db.raw) \in [Device -> Nat] /\ InRows(total, db.total) \in [Device -> Nat]
      /\ \A d \in Device : InRows(total, db.total)[d] = IF d \in rows THEN total[d] ELSE db.total[d]
  BY <1>1 DEF InRows
<1>7. /\ db' \in Ledger /\ db'.total = InRows(total, db.total) /\ db'.used = used
  BY <1>5, <1>6 DEF Ledger
<1>8. /\ history' \in [Node -> [user: Nat, node: Nat]]
      /\ \A n \in Node : /\ history'[n].user = history[n].user + s.snaps[n]
                         /\ history'[n].node = history[n].node
  <2>1. \A n \in Node : history[n] \in [user: Nat, node: Nat] /\ s.snaps[n] \in Nat
    BY DEF TypeOK, Session
  <2>2. ASSUME NEW n \in Node
        PROVE  /\ [history[n] EXCEPT !.user = @ + s.snaps[n]] \in [user: Nat, node: Nat]
               /\ [history[n] EXCEPT !.user = @ + s.snaps[n]].user = history[n].user + s.snaps[n]
               /\ [history[n] EXCEPT !.user = @ + s.snaps[n]].node = history[n].node
    BY <2>1
  <2> QED BY <1>5, <2>2
<1>9. Changed(s) \subseteq rows
  BY DEF Commit, MayCommit
<1>10. \A d \in Device : db'.total[d] = IF d \in rows /\ s.mine.total[d] # s.base.total[d]
                                          THEN s.mine.total[d] ELSE db.total[d]
  BY <1>2, <1>6, <1>7
<1> QED BY <1>3, <1>5, <1>7, <1>8, <1>9, <1>10

(* A session that goes on, aborts or commits keeps the types.              *)
LEMMA ProceedTyped ==
  ASSUME TypeOK, NEW c \in Collector, NEW s \in Session, s.pc = "ask", Proceed(c, s),
         UNCHANGED <<counter, inbound, rows, nodes, measure, sent, carried>>
  PROVE  TypeOK'
<1>1. collect \in [Collector -> Session]
      /\ \A e \in Collector : collect[e].pc # "idle" => collect[e].todo # << >>
  BY DEF TypeOK
<1>2. CASE s.todo # << >> /\ collect' = [collect EXCEPT ![c] = s] /\ UNCHANGED <<db, history>>
  <2>1. /\ collect' \in [Collector -> Session]
        /\ \A e \in Collector : collect'[e].pc # "idle" => collect'[e].todo # << >>
    BY <1>1, <1>2
  <2> QED BY <1>2, <2>1 DEF TypeOK
<1>3. ASSUME collect' = [collect EXCEPT ![c] = IdleCollect]
      PROVE  /\ collect' \in [Collector -> Session]
             /\ \A e \in Collector : collect'[e].pc # "idle" => collect'[e].todo # << >>
  BY <1>1, <1>3, IdleTyped
<1>4. CASE Abort(c, s)
  BY <1>3, <1>4 DEF Abort, TypeOK
<1>5. CASE Commit(c, s)
  BY <1>3, <1>5, CommitTyped DEF TypeOK
<1> QED BY <1>2, <1>4, <1>5 DEF Proceed

(* The sessions a collection begins with and skips to.                     *)
LEMMA StartTyped ==
  ASSUME TypeOK, NEW c \in Collector, NEW todo \in Seq(Node), todo # << >>, StartCollect(c, todo)
  PROVE  \E s \in Session :
           /\ s.pc = "ask" /\ Proceed(c, s)
           /\ UNCHANGED <<counter, inbound, rows, nodes, measure, sent, carried>>
           /\ s.hit = {} /\ s.base = Blank /\ s.mine = Blank /\ s.snaps = None
<1>1. PICK s : s = [IdleCollect EXCEPT !.pc = "ask", !.todo = todo]
  OBVIOUS
<1>2. s = [pc |-> "ask", todo |-> todo, answer |-> Silent, hit |-> {},
           base |-> Blank, mine |-> Blank, snaps |-> None]
  BY <1>1 DEF IdleCollect
<1>3. s \in Session /\ s.todo # << >>
  BY <1>2, IdleTyped DEF Session
<1>4. Proceed(c, s) /\ UNCHANGED <<counter, inbound, rows, nodes, measure, sent, carried>>
  BY <1>1, <1>3 DEF StartCollect, Proceed
<1> QED BY <1>2, <1>3, <1>4

(* A skipped node leaves what the session has computed.                    *)
LEMMA SkipTyped ==
  ASSUME TypeOK, NEW c \in Collector, SkipNode(c)
  PROVE  \E s \in Session :
           /\ s.pc = "ask" /\ Proceed(c, s)
           /\ UNCHANGED <<counter, inbound, rows, nodes, measure, sent, carried>>
           /\ s.hit = collect[c].hit /\ s.base = collect[c].base
           /\ s.mine = collect[c].mine /\ s.snaps = collect[c].snaps
<1>1. PICK o \in Session : o = collect[c] /\ o.pc = "ask" /\ o.todo # << >>
  BY DEF SkipNode, TypeOK
<1>2. PICK todo \in Seq(Node) : todo = Tail(o.todo)
  <2>1. o.todo \in Seq(Node)
    BY DEF Session
  <2>2. Tail(o.todo) \in Seq(Node)
    BY <1>1, <2>1
  <2> QED BY <2>2
<1>3. PICK s : s = [o EXCEPT !.todo = todo]
  OBVIOUS
<1>4. /\ s \in Session /\ s.pc = o.pc /\ s.hit = o.hit /\ s.base = o.base
      /\ s.mine = o.mine /\ s.snaps = o.snaps
  BY <1>3 DEF Session
<1>5. Proceed(c, s) /\ UNCHANGED <<counter, inbound, rows, nodes, measure, sent, carried>>
  BY <1>1, <1>2, <1>3 DEF SkipNode
<1> QED BY <1>1, <1>4, <1>5

(* An answer is held beside what the session has computed.                 *)
LEMMA AskTyped ==
  ASSUME TypeOK, NEW c \in Collector, AskXray(c)
  PROVE  /\ TypeOK' /\ Head(collect[c].todo) \in Node
         /\ \E s \in Session :
              /\ s.pc = "apply" /\ collect' = [collect EXCEPT ![c] = s]
              /\ s.answer = counter[Head(collect[c].todo)] /\ s.todo = collect[c].todo
              /\ s.hit = collect[c].hit /\ s.base = collect[c].base
              /\ s.mine = collect[c].mine /\ s.snaps = collect[c].snaps
         /\ UNCHANGED <<counter, inbound, rows, db, nodes, history, measure, sent, carried>>
<1>1. PICK o \in Session : o = collect[c] /\ o.pc = "ask" /\ o.todo # << >>
  BY DEF AskXray, TypeOK
<1>2. PICK h \in Node : h = Head(o.todo)
  <2>1. o.todo \in Seq(Node)
    BY DEF Session
  <2>2. Head(o.todo) \in Node
    BY <1>1, <2>1
  <2> QED BY <2>2
<1>3. counter[h] \in [Device -> Nat]
  BY DEF TypeOK
<1>4. PICK s : s = [o EXCEPT !.pc = "apply", !.answer = counter[h]]
  OBVIOUS
<1>5. /\ s \in Session /\ s.pc = "apply" /\ s.answer = counter[h] /\ s.todo = o.todo
      /\ s.hit = o.hit /\ s.base = o.base /\ s.mine = o.mine /\ s.snaps = o.snaps
  BY <1>3, <1>4 DEF Session
<1>6. /\ collect' = [collect EXCEPT ![c] = s]
      /\ UNCHANGED <<counter, inbound, rows, db, nodes, history, measure, sent, carried>>
  BY <1>1, <1>2, <1>4 DEF AskXray
<1>7. /\ collect' \in [Collector -> Session]
      /\ \A e \in Collector : collect'[e].pc # "idle" => collect'[e].todo # << >>
  BY <1>1, <1>5, <1>6 DEF TypeOK
<1>8. TypeOK'
  BY <1>6, <1>7 DEF TypeOK
<1> QED BY <1>1, <1>2, <1>5, <1>6, <1>8

(* Applying an answer goes on from the session After.                      *)
LEMMA ApplyTyped ==
  ASSUME TrafficAssumption, TypeOK, NEW c \in Collector, ApplyStats(c)
  PROVE  /\ collect[c].pc = "apply" /\ After(c) \in Session /\ After(c).pc = "ask"
         /\ Proceed(c, After(c))
         /\ UNCHANGED <<counter, inbound, rows, nodes, measure, sent, carried>>
<1>1. collect[c].pc = "apply"
  BY DEF ApplyStats
<1>2. Proceed(c, After(c))
  BY DEF ApplyStats, After
<1>3. UNCHANGED <<counter, inbound, rows, nodes, measure, sent, carried>>
  BY DEF ApplyStats
<1> QED BY <1>1, <1>2, <1>3, AfterTyped

(* The steps of a collection keep the types.                               *)
LEMMA CollectionTyped ==
  ASSUME TrafficAssumption, TypeOK, NEW c \in Collector, Collection(c)
  PROVE  TypeOK'
<1>1. Order \in Seq(Node) /\ Order # << >> /\ \A n \in Node : <<n>> \in Seq(Node) /\ <<n>> # << >>
  BY DEF TrafficAssumption
<1>2. ASSUME NEW todo \in Seq(Node), todo # << >>, StartCollect(c, todo) PROVE TypeOK'
  BY <1>2, StartTyped, ProceedTyped
<1>3. CASE AskXray(c)
  BY <1>3, AskTyped
<1>4. CASE SkipNode(c)
  BY <1>4, SkipTyped, ProceedTyped
<1>5. CASE ApplyStats(c)
  BY <1>5, ApplyTyped, ProceedTyped
<1> QED BY <1>1, <1>2, <1>3, <1>4, <1>5 DEF Collection

(* A metrics request that goes on or commits.                              *)
LEMMA MeasureNextTyped ==
  ASSUME TypeOK, NEW m \in Meter, NEW s \in Metrics, s.pc = "ask", MeasureNext(m, s),
         UNCHANGED <<counter, inbound, rows, db, collect, sent, carried>>
  PROVE  TypeOK'
<1>1. /\ measure \in [Meter -> Metrics] /\ nodes \in [Node -> NodeLedger]
      /\ \A k \in Meter : measure[k].pc # "idle" => measure[k].todo # << >>
      /\ history \in [Node -> [user: Nat, node: Nat]]
  BY DEF TypeOK
<1>2. CASE s.todo # << >>
  <2>1. measure' = [measure EXCEPT ![m] = s] /\ UNCHANGED <<nodes, history>>
    BY <1>2 DEF MeasureNext
  <2>2. /\ measure' \in [Meter -> Metrics]
        /\ \A k \in Meter : measure'[k].pc # "idle" => measure'[k].todo # << >>
    BY <1>1, <1>2, <2>1
  <2> QED BY <2>1, <2>2 DEF TypeOK
<1>3. CASE s.todo = << >>
  <2>1. /\ nodes' = [n \in Node |-> Flush(s.base[n], s.mine[n], nodes[n])]
        /\ history' = [n \in Node |-> [history[n] EXCEPT !.node = @ + s.snaps[n]]]
        /\ measure' = [measure EXCEPT ![m] = IdleMeasure]
    BY <1>3 DEF MeasureNext
  <2>2. /\ measure' \in [Meter -> Metrics]
        /\ \A k \in Meter : measure'[k].pc # "idle" => measure'[k].todo # << >>
    BY <1>1, <2>1, IdleTyped
  <2>3. nodes' \in [Node -> NodeLedger]
    <3>1. ASSUME NEW n \in Node
          PROVE  Flush(s.base[n], s.mine[n], nodes[n]) \in NodeLedger
      <4>1. s.mine[n] \in NodeLedger /\ nodes[n] \in NodeLedger
        BY <1>1 DEF Metrics
      <4> QED BY <4>1 DEF Flush, NodeLedger
    <3> QED BY <2>1, <3>1
  <2>4. history' \in [Node -> [user: Nat, node: Nat]]
    <3>1. \A n \in Node : history[n] \in [user: Nat, node: Nat] /\ s.snaps[n] \in Nat
      BY <1>1 DEF Metrics
    <3>2. \A n \in Node : [history[n] EXCEPT !.node = @ + s.snaps[n]] \in [user: Nat, node: Nat]
      BY <3>1
    <3> QED BY <2>1, <3>2
  <2> QED BY <2>2, <2>3, <2>4 DEF TypeOK
<1> QED BY <1>2, <1>3

(* The requests a metering begins with and skips to.                       *)
LEMMA StartMeasureTyped ==
  ASSUME TrafficAssumption, TypeOK, NEW m \in Meter, StartMeasure(m)
  PROVE  \E s \in Metrics :
           /\ s.pc = "ask" /\ MeasureNext(m, s)
           /\ UNCHANGED <<counter, inbound, rows, db, collect, sent, carried>>
           /\ s.todo # << >> /\ s.base = nodes /\ s.mine = nodes /\ s.snaps = None
<1>1. PICK s : s = [IdleMeasure EXCEPT !.pc = "ask", !.todo = Order, !.base = nodes, !.mine = nodes]
  OBVIOUS
<1>2. /\ s = [pc |-> "ask", todo |-> Order, answer |-> 0, snaps |-> None,
              base |-> nodes, mine |-> nodes]
      /\ nodes \in [Node -> NodeLedger]
  BY <1>1 DEF IdleMeasure, TypeOK
<1>3. s \in Metrics /\ s.todo # << >>
  BY <1>2, IdleTyped DEF Metrics, TrafficAssumption
<1>4. /\ MeasureNext(m, s)
      /\ UNCHANGED <<counter, inbound, rows, db, collect, sent, carried>>
  BY <1>1, <1>3 DEF StartMeasure, MeasureNext
<1> QED BY <1>2, <1>3, <1>4

(* A skipped node leaves what the request has computed.                    *)
LEMMA SkipMeasureTyped ==
  ASSUME TypeOK, NEW m \in Meter, SkipMeasure(m)
  PROVE  /\ measure[m].pc = "ask"
         /\ \E s \in Metrics :
              /\ s.pc = "ask" /\ MeasureNext(m, s)
              /\ UNCHANGED <<counter, inbound, rows, db, collect, sent, carried>>
              /\ s.base = measure[m].base /\ s.mine = measure[m].mine
              /\ s.snaps = measure[m].snaps
<1>1. PICK o \in Metrics : o = measure[m] /\ o.pc = "ask" /\ o.todo # << >>
  BY DEF SkipMeasure, TypeOK
<1>2. PICK todo \in Seq(Node) : todo = Tail(o.todo)
  <2>1. o.todo \in Seq(Node)
    BY DEF Metrics
  <2>2. Tail(o.todo) \in Seq(Node)
    BY <1>1, <2>1
  <2> QED BY <2>2
<1>3. PICK s : s = [o EXCEPT !.todo = todo]
  OBVIOUS
<1>4. /\ s \in Metrics /\ s.pc = o.pc /\ s.base = o.base /\ s.mine = o.mine
      /\ s.snaps = o.snaps
  BY <1>3 DEF Metrics
<1>5. /\ MeasureNext(m, s)
      /\ UNCHANGED <<counter, inbound, rows, db, collect, sent, carried>>
  BY <1>1, <1>2, <1>3 DEF SkipMeasure
<1> QED BY <1>1, <1>4, <1>5

(* The answer of a node is read, and applied in memory.                    *)
LEMMA AskInboundTyped ==
  ASSUME TypeOK, NEW m \in Meter, AskInbound(m)
  PROVE  /\ TypeOK' /\ measure[m].pc = "ask"
         /\ \E s \in Metrics :
              /\ s.pc = "apply" /\ measure' = [measure EXCEPT ![m] = s]
              /\ s.base = measure[m].base /\ s.mine = measure[m].mine
              /\ s.snaps = measure[m].snaps
         /\ UNCHANGED <<counter, inbound, rows, db, nodes, history, collect, sent, carried>>
<1>1. PICK o \in Metrics : o = measure[m] /\ o.pc = "ask" /\ o.todo # << >>
  BY DEF AskInbound, TypeOK
<1>2. PICK a \in Nat : a = inbound[Head(o.todo)]
  <2>1. o.todo \in Seq(Node) /\ inbound \in [Node -> Nat]
    BY DEF Metrics, TypeOK
  <2>2. Head(o.todo) \in Node
    BY <1>1, <2>1
  <2>3. inbound[Head(o.todo)] \in Nat
    BY <2>1, <2>2
  <2> QED BY <2>3
<1>3. PICK s : s = [o EXCEPT !.pc = "apply", !.answer = a]
  OBVIOUS
<1>4. /\ s \in Metrics /\ s.pc = "apply" /\ s.todo = o.todo /\ s.base = o.base
      /\ s.mine = o.mine /\ s.snaps = o.snaps
  BY <1>3 DEF Metrics
<1>5. /\ measure' = [measure EXCEPT ![m] = s]
      /\ UNCHANGED <<counter, inbound, rows, db, nodes, history, collect, sent, carried>>
  BY <1>1, <1>2, <1>3 DEF AskInbound
<1>6. /\ measure' \in [Meter -> Metrics]
      /\ \A k \in Meter : measure'[k].pc # "idle" => measure'[k].todo # << >>
  BY <1>1, <1>4, <1>5 DEF TypeOK
<1>7. TypeOK'
  BY <1>5, <1>6 DEF TypeOK
<1> QED BY <1>1, <1>4, <1>5, <1>7

(* An answer adds the same to the total and to the snapshot of its node.   *)
LEMMA ApplyInboundTyped ==
  ASSUME TypeOK, NEW m \in Meter, ApplyInbound(m)
  PROVE  /\ measure[m].pc = "apply"
         /\ \E s \in Metrics, n \in Node, more \in Nat :
              /\ s.pc = "ask" /\ MeasureNext(m, s)
              /\ UNCHANGED <<counter, inbound, rows, db, collect, sent, carried>>
              /\ s.base = measure[m].base
              /\ \A k \in Node : /\ s.mine[k].total = measure[m].mine[k].total + (IF k = n THEN more ELSE 0)
                                 /\ s.snaps[k] = measure[m].snaps[k] + (IF k = n THEN more ELSE 0)
<1>1. PICK o \in Metrics : o = measure[m] /\ o.pc = "apply" /\ o.todo # << >>
  BY DEF ApplyInbound, TypeOK
<1>2. PICK n \in Node, todo \in Seq(Node) : n = Head(o.todo) /\ todo = Tail(o.todo)
  <2>1. o.todo \in Seq(Node)
    BY DEF Metrics
  <2>2. Head(o.todo) \in Node /\ Tail(o.todo) \in Seq(Node)
    BY <1>1, <2>1
  <2> QED BY <2>2
<1>3. o.mine \in [Node -> NodeLedger] /\ o.answer \in Nat /\ o.snaps \in [Node -> Nat]
  BY DEF Metrics
<1>4. PICK new \in NodeLedger :
        new = Metered(o.mine[n], o.answer) /\ new.total - o.mine[n].total \in Nat
  BY <1>3, MeteredLedger
<1>5. PICK more \in Nat : more = new.total - o.mine[n].total
  BY <1>4
<1>6. PICK s : s = [o EXCEPT !.pc = "ask", !.answer = 0, !.todo = todo,
                      !.mine[n] = new, !.snaps[n] = @ + more]
  OBVIOUS
<1>7. s = [pc |-> "ask", todo |-> todo, answer |-> 0, base |-> o.base,
           mine |-> [o.mine EXCEPT ![n] = new], snaps |-> [o.snaps EXCEPT ![n] = @ + more]]
  BY <1>6 DEF Metrics
<1>8. s \in Metrics
  BY <1>3, <1>7 DEF Metrics
<1>9. /\ MeasureNext(m, s)
      /\ UNCHANGED <<counter, inbound, rows, db, collect, sent, carried>>
  BY <1>1, <1>2, <1>4, <1>5, <1>6 DEF ApplyInbound
<1>10. ASSUME NEW k \in Node
       PROVE  /\ s.mine[k].total = o.mine[k].total + (IF k = n THEN more ELSE 0)
              /\ s.snaps[k] = o.snaps[k] + (IF k = n THEN more ELSE 0)
  <2>1. /\ s.mine[k] = IF k = n THEN new ELSE o.mine[k]
        /\ s.snaps[k] = IF k = n THEN o.snaps[k] + more ELSE o.snaps[k]
    BY <1>3, <1>7
  <2>2. o.mine[k].total \in Nat /\ o.snaps[k] \in Nat /\ new.total \in Nat
    BY <1>3 DEF NodeLedger
  <2>3. CASE k = n
    <3>1. new.total = o.mine[k].total + more
      BY <1>5, <2>2, <2>3
    <3> QED BY <2>1, <2>3, <3>1
  <2>4. CASE k # n
    BY <2>1, <2>2, <2>4
  <2> QED BY <2>3, <2>4
<1>11. s.pc = "ask" /\ s.base = measure[m].base
  BY <1>1, <1>7
<1> QED BY <1>1, <1>8, <1>9, <1>10, <1>11

(* The steps of a metrics request keep the types.                          *)
LEMMA MeteringTyped ==
  ASSUME TrafficAssumption, TypeOK, NEW m \in Meter, Metering(m)
  PROVE  TypeOK'
<1>1. CASE StartMeasure(m)
  BY <1>1, StartMeasureTyped, MeasureNextTyped
<1>2. CASE AskInbound(m)
  BY <1>2, AskInboundTyped
<1>3. CASE SkipMeasure(m)
  BY <1>3, SkipMeasureTyped, MeasureNextTyped
<1>4. CASE ApplyInbound(m)
  BY <1>4, ApplyInboundTyped, MeasureNextTyped
<1> QED BY <1>1, <1>2, <1>3, <1>4 DEF Metering

(* Handlers change the statuses of users and the usage of one.             *)
LEMMA HandlerLedger ==
  ASSUME TypeOK,
         (\E u \in User : ResetTraffic(u) \/ DisableUser(u) \/ EnableUser(u)) \/ Enforce
  PROVE  /\ db' \in Ledger /\ db'.raw = db.raw /\ db'.total = db.total
         /\ \A u \in User : db'.used[u] = db.used[u] \/ db'.used[u] = 0
<1>1. db \in Ledger
  BY DEF TypeOK
<1>2. /\ \A u \in User : db.used[u] \in Nat /\ db.status[u] \in UserStatus
      /\ "active" \in UserStatus /\ "limited" \in UserStatus /\ "disabled" \in UserStatus
  BY <1>1 DEF Ledger, UserStatus
<1>3. CASE \E u \in User : DisableUser(u) \/ EnableUser(u)
  BY <1>1, <1>2, <1>3 DEF DisableUser, EnableUser, Ledger
<1>4. ASSUME NEW u \in User, ResetTraffic(u)
      PROVE  /\ db' \in Ledger /\ db'.raw = db.raw /\ db'.total = db.total
             /\ \A w \in User : db'.used[w] = db.used[w] \/ db'.used[w] = 0
  <2>1. PICK to \in UserStatus : to = IF db.status[u] = "limited" THEN "active" ELSE db.status[u]
    BY <1>2
  <2>2. db' = [db EXCEPT !.used[u] = 0, !.status[u] = to]
    BY <1>4, <2>1 DEF ResetTraffic
  <2> QED BY <1>1, <2>2 DEF Ledger
<1>5. CASE Enforce
  <2>1. PICK to : to = [u \in User |-> IF db.status[u] = "active" /\ OverLimit(u)
                                         THEN "limited" ELSE db.status[u]]
    OBVIOUS
  <2>2. to \in [User -> UserStatus] /\ db' = [db EXCEPT !.status = to]
    BY <1>2, <1>5, <2>1 DEF Enforce
  <2> QED BY <1>1, <2>2 DEF Ledger
<1> QED BY <1>3, <1>4, <1>5

(* The types hold initially.                                               *)
LEMMA TypeInit ==
  ASSUME TrafficAssumption, Init
  PROVE  TypeOK
<1>1. /\ counter \in [Node -> [Device -> Nat]] /\ inbound \in [Node -> Nat]
      /\ rows \in SUBSET Device /\ db \in Ledger /\ sent \in [Device -> Nat]
      /\ carried \in [Node -> Nat]
  BY IdleTyped DEF Init
<1>2. /\ nodes \in [Node -> NodeLedger] /\ history \in [Node -> [user: Nat, node: Nat]]
  BY DEF Init, NodeLedger, NoTraffic
<1>3. /\ collect \in [Collector -> Session]
      /\ \A c \in Collector : collect[c].pc = "idle"
      /\ measure \in [Meter -> Metrics]
      /\ \A m \in Meter : measure[m].pc = "idle"
  BY IdleTyped DEF Init
<1> QED BY <1>1, <1>2, <1>3 DEF TypeOK

(* Every step keeps the types.                                             *)
LEMMA TypeStep ==
  ASSUME TrafficAssumption, TypeOK, [Next]_vars
  PROVE  TypeOK'
<1>1. CASE \E d \in Device, n \in Node : SendByte(d, n)
  <2>1. PICK d \in Device, n \in Node : SendByte(d, n)
    BY <1>1
  <2>2. /\ counter' \in [Node -> [Device -> Nat]] /\ inbound' \in [Node -> Nat]
        /\ sent' \in [Device -> Nat] /\ carried' \in [Node -> Nat]
    <3>1. counter \in [Node -> [Device -> Nat]] /\ counter' = [counter EXCEPT ![n][d] = @ + 1]
      BY <2>1 DEF SendByte, TypeOK
    <3>2. counter' \in [Node -> [Device -> Nat]]
      BY <3>1
    <3>3. /\ inbound \in [Node -> Nat] /\ inbound' = [inbound EXCEPT ![n] = @ + 1]
          /\ sent \in [Device -> Nat] /\ sent' = [sent EXCEPT ![d] = @ + 1]
          /\ carried \in [Node -> Nat] /\ carried' = [carried EXCEPT ![n] = @ + 1]
      BY <2>1 DEF SendByte, TypeOK
    <3>4. inbound' \in [Node -> Nat] /\ sent' \in [Device -> Nat] /\ carried' \in [Node -> Nat]
      BY <3>3
    <3> QED BY <3>2, <3>4
  <2> QED BY <2>1, <2>2 DEF SendByte, TypeOK
<1>2. CASE \E n \in Node : RestartXray(n)
  <2>1. PICK n \in Node : RestartXray(n)
    BY <1>2
  <2>2. counter' \in [Node -> [Device -> Nat]] /\ inbound' \in [Node -> Nat]
    BY <2>1, IdleTyped DEF RestartXray, TypeOK
  <2> QED BY <2>1, <2>2 DEF RestartXray, TypeOK
<1>3. CASE \E d \in Device : RemoveDevice(d)
  <2>1. rows' \in SUBSET Device /\ UNCHANGED <<counter, inbound, db, nodes, history, collect, measure, sent, carried>>
    BY <1>3 DEF RemoveDevice, TypeOK
  <2> QED BY <2>1 DEF TypeOK
<1>4. CASE (\E u \in User : ResetTraffic(u) \/ DisableUser(u) \/ EnableUser(u)) \/ Enforce
  <2>1. /\ UNCHANGED <<counter, inbound, rows, nodes, history, collect, measure, sent, carried>>
        /\ db' \in Ledger
    BY <1>4, HandlerLedger DEF ResetTraffic, DisableUser, EnableUser, Enforce
  <2> QED BY <2>1 DEF TypeOK
<1>5. CASE Restart
  <2>1. /\ collect' \in [Collector -> Session] /\ \A c \in Collector : collect'[c].pc = "idle"
        /\ measure' \in [Meter -> Metrics] /\ \A m \in Meter : measure'[m].pc = "idle"
        /\ UNCHANGED <<counter, inbound, rows, db, nodes, history, sent, carried>>
    BY <1>5, IdleTyped DEF Restart
  <2> QED BY <2>1 DEF TypeOK
<1>6. CASE UNCHANGED vars
  BY <1>6 DEF vars, TypeOK
<1> QED BY <1>1, <1>2, <1>3, <1>4, <1>5, <1>6, CollectionTyped, MeteringTyped DEF Next

(* The variables keep their shape, and a request under way has a node left *)
(* to ask: whatever requests of collect_traffic and collect_nodes_metrics  *)
(* overlap.                                                                *)
THEOREM TypeCorrect == Spec => []TypeOK
<1>1. Init => TypeOK
  BY TrafficAssumption, TypeInit
<1>2. TypeOK /\ [Next]_vars => TypeOK'
  BY TrafficAssumption, TypeStep
<1> QED BY <1>1, <1>2, PTL DEF Spec
-----------------------------------------------------------------------------
(* What a session holds of the users it has read, against a ledger l that  *)
(* is the committed one.                                                   *)

Read(s)      == {Owner[e] : e \in s.hit}
ViewOf(s, l) == Overlay(Read(s), s.mine, l)

(* The totals of a user that was read are based on the committed ones and  *)
(* grow only for devices that were found, whose rows the commit needs; of  *)
(* all other users nothing is written.                                     *)
Pins(s, l) ==
  /\ \A d \in Device :
       IF Owner[d] \in Read(s)
         THEN /\ s.base.total[d] = l.total[d] /\ l.total[d] <= s.mine.total[d]
              /\ d \notin s.hit => s.mine.total[d] = s.base.total[d]
         ELSE s.base.total[d] = s.mine.total[d]
  /\ \A u \in User \ Read(s) : s.base.used[u] = s.mine.used[u]

PinsInv == TypeOK /\ \A c \in Collector : Pins(collect[c], db)

(* What a session computes with, column by column.                         *)
LEMMA ViewAt ==
  ASSUME TrafficAssumption, NEW s \in Session, NEW l \in Ledger
  PROVE  /\ ViewOf(s, l) \in Ledger
         /\ \A d \in Device : ViewOf(s, l).total[d] =
              IF Owner[d] \in Read(s) THEN s.mine.total[d] ELSE l.total[d]
         /\ \A u \in User : ViewOf(s, l).used[u] =
              IF u \in Read(s) THEN s.mine.used[u] ELSE l.used[u]
<1>1. s.mine \in Ledger
  BY DEF Session
<1>2. ViewOf(s, l) \in Ledger
  BY <1>1, OverlayTyped DEF ViewOf
<1> QED BY <1>2 DEF ViewOf, Overlay

(* A session that has read nothing. *)
LEMMA NothingRead ==
  ASSUME TrafficAssumption, NEW s \in Session, s.hit = {}, s.base = s.mine, NEW l \in Ledger
  PROVE  /\ Pins(s, l)
         /\ ViewOf(s, l).total = l.total /\ ViewOf(s, l).used = l.used
<1>1. Read(s) = {}
  BY DEF Read
<1>2. Pins(s, l)
  BY <1>1 DEF Pins
<1>3. /\ ViewOf(s, l).total \in [Device -> Nat] /\ l.total \in [Device -> Nat]
      /\ ViewOf(s, l).used \in [User -> Nat] /\ l.used \in [User -> Nat]
  BY ViewAt DEF Ledger
<1>4. /\ \A d \in Device : ViewOf(s, l).total[d] = l.total[d]
      /\ \A u \in User : ViewOf(s, l).used[u] = l.used[u]
  BY <1>1, ViewAt
<1> QED BY <1>2, <1>3, <1>4

(* An idle session has read nothing.                                       *)
LEMMA IdleReads ==
  IdleCollect.hit = {} /\ IdleCollect.base = IdleCollect.mine /\ IdleCollect.snaps = None
BY DEF IdleCollect

(* An answer adds what it charges to the totals and the usage.             *)
LEMMA AfterReads ==
  ASSUME TrafficAssumption, TypeOK, NEW c \in Collector, collect[c].pc = "apply",
         Pins(collect[c], db)
  PROVE  LET delta == Deltas(View(c), Hits(c), collect[c].answer)
         IN /\ View(c) = ViewOf(collect[c], db)
            /\ Pins(After(c), db)
            /\ \A d \in Device : ViewOf(After(c), db).total[d] = View(c).total[d] + delta[d]
            /\ \A u \in User : ViewOf(After(c), db).used[u] =
                 View(c).used[u] + Total(delta, {d \in Hits(c) : Owner[d] = u})
<1> DEFINE delta == Deltas(View(c), Hits(c), collect[c].answer)
<1>1. PICK o \in Session : o = collect[c]
  BY DEF TypeOK
<1>2. PICK s \in Session : s = After(c)
  BY AfterTyped
<1>3. PICK v \in Ledger : v = View(c)
  BY AfterTyped
<1>4. PICK hits \in SUBSET Device : hits = Hits(c)
  BY AfterTyped
<1>5. PICK new \in Ledger : new = Charged(v, hits, o.answer)
  BY <1>1, <1>3, <1>4, AfterTyped
<1>6. o.answer \in [Device -> Nat] /\ db \in Ledger
  BY DEF Session, TypeOK
<1>7. /\ v = ViewOf(o, db) /\ Pinned(c) = Read(o)
  BY <1>1, <1>3 DEF View, ViewOf, Pinned, Read
<1>8. /\ s.hit = o.hit \cup hits
      /\ Read(s) = {Owner[d] : d \in o.hit \cup hits}
      /\ s.base = Overlay(Read(s), Overlay(Read(o), o.base, db), Blank)
      /\ s.mine = Overlay(Read(s), new, Blank)
  <2>1. s.hit = o.hit \cup hits
    BY <1>1, <1>2, <1>4, AfterTyped
  <2>2. Read(s) = {Owner[d] : d \in o.hit \cup hits}
    BY <2>1 DEF Read
  <2> QED BY <1>1, <1>2, <1>3, <1>4, <1>5, <1>7, <2>1, <2>2 DEF After
<1>9. /\ delta \in [Device -> Nat]
      /\ \A d \in Device : delta[d] = IF d \in hits THEN Delta(v.raw[d], o.answer[d]) ELSE 0
      /\ \A d \in Device : new.total[d] = v.total[d] + delta[d]
      /\ \A u \in User : new.used[u] = v.used[u] + Total(delta, {d \in hits : Owner[d] = u})
  <2>1. delta = Deltas(v, hits, o.answer)
    BY <1>1, <1>3, <1>4
  <2> HIDE DEF delta
  <2>2. /\ delta \in [Device -> Nat]
        /\ \A d \in Device : delta[d] = IF d \in hits THEN Delta(v.raw[d], o.answer[d]) ELSE 0
    BY <1>6, <2>1, DeltasNat
  <2>3. \A d \in Device : new.total[d] = v.total[d] + delta[d]
    BY <1>5, <1>6, <2>1, ChargedTyped
  <2>4. \A u \in User : new.used[u] = v.used[u] + Total(delta, {d \in hits : Owner[d] = u})
    BY <1>5, <1>6, <2>1, ChargedTyped
  <2> QED BY <2>2, <2>3, <2>4
<1> HIDE DEF delta
<1>10. \A d \in Device :
         /\ s.mine.total[d] = IF Owner[d] \in Read(s) THEN new.total[d] ELSE Blank.total[d]
         /\ s.base.total[d] = IF Owner[d] \in Read(s)
                                THEN IF Owner[d] \in Read(o) THEN o.base.total[d] ELSE db.total[d]
                                ELSE Blank.total[d]
  BY <1>8 DEF Overlay
<1>11. \A u \in User :
         /\ s.mine.used[u] = IF u \in Read(s) THEN new.used[u] ELSE Blank.used[u]
         /\ u \notin Read(s) => s.base.used[u] = Blank.used[u]
  BY <1>8 DEF Overlay
<1>12. /\ \A d \in Device : v.total[d] = IF Owner[d] \in Read(o) THEN o.mine.total[d] ELSE db.total[d]
       /\ \A u \in User : v.used[u] = IF u \in Read(o) THEN o.mine.used[u] ELSE db.used[u]
       /\ Read(o) \subseteq Read(s)
  BY <1>6, <1>7, <1>8, ViewAt DEF Read
<1>13. Pins(s, db)
  <2>1. ASSUME NEW d \in Device, Owner[d] \in Read(s)
        PROVE  /\ s.base.total[d] = db.total[d] /\ db.total[d] <= s.mine.total[d]
               /\ d \notin s.hit => s.mine.total[d] = s.base.total[d]
    <3>1. /\ db.total[d] \in Nat /\ v.total[d] \in Nat /\ delta[d] \in Nat
          /\ s.mine.total[d] = v.total[d] + delta[d]
      BY <1>6, <1>9, <1>10, <2>1 DEF Ledger
    <3>2. /\ s.base.total[d] = db.total[d] /\ db.total[d] <= v.total[d]
          /\ d \notin o.hit => v.total[d] = db.total[d]
      <4>1. CASE Owner[d] \in Read(o)
        BY <1>1, <1>10, <1>12, <2>1, <4>1 DEF Pins
      <4>2. CASE Owner[d] \notin Read(o)
        BY <1>10, <1>12, <2>1, <3>1, <4>2
      <4> QED BY <4>1, <4>2
    <3>3. d \notin s.hit => delta[d] = 0 /\ d \notin o.hit
      BY <1>8, <1>9
    <3> QED BY <3>1, <3>2, <3>3
  <2>2. \A d \in Device : Owner[d] \notin Read(s) => s.base.total[d] = s.mine.total[d]
    BY <1>10
  <2>3. \A u \in User \ Read(s) : s.base.used[u] = s.mine.used[u]
    BY <1>11
  <2> QED BY <2>1, <2>2, <2>3 DEF Pins
<1>14. ASSUME NEW d \in Device
       PROVE  ViewOf(s, db).total[d] = v.total[d] + delta[d]
  <2>1. ViewOf(s, db).total[d] = IF Owner[d] \in Read(s) THEN s.mine.total[d] ELSE db.total[d]
    BY <1>6, ViewAt
  <2>2. CASE Owner[d] \in Read(s)
    BY <1>9, <1>10, <2>1, <2>2
  <2>3. CASE Owner[d] \notin Read(s)
    <3>1. d \notin hits /\ Owner[d] \notin Read(o)
      BY <1>8, <1>12, <2>3
    <3>2. delta[d] = 0 /\ v.total[d] = db.total[d] /\ db.total[d] \in Nat
      BY <1>6, <1>9, <1>12, <3>1 DEF Ledger
    <3> QED BY <2>1, <2>3, <3>2
  <2> QED BY <2>2, <2>3
<1>15. ASSUME NEW u \in User
       PROVE  ViewOf(s, db).used[u] = v.used[u] + Total(delta, {d \in hits : Owner[d] = u})
  <2>1. ViewOf(s, db).used[u] = IF u \in Read(s) THEN s.mine.used[u] ELSE db.used[u]
    BY <1>6, ViewAt
  <2>2. CASE u \in Read(s)
    BY <1>9, <1>11, <2>1, <2>2
  <2>3. CASE u \notin Read(s)
    <3>1. {d \in hits : Owner[d] = u} = {} /\ u \notin Read(o)
      BY <1>8, <1>12, <2>3
    <3>2. Total(delta, {d \in hits : Owner[d] = u}) = 0
      BY <3>1, TotalEmpty
    <3>3. v.used[u] = db.used[u] /\ db.used[u] \in Nat
      BY <1>6, <1>12, <3>1 DEF Ledger
    <3> QED BY <2>1, <2>3, <3>2, <3>3
  <2> QED BY <2>2, <2>3
<1>16. \A d \in Device : ViewOf(After(c), db).total[d] = View(c).total[d] + delta[d]
  BY <1>2, <1>3, <1>14
<1>17. \A u \in User : ViewOf(After(c), db).used[u] =
                 View(c).used[u] + Total(delta, {d \in Hits(c) : Owner[d] = u})
  BY <1>2, <1>3, <1>4, <1>15
<1>18. View(c) = ViewOf(collect[c], db) /\ Pins(After(c), db)
  BY <1>1, <1>2, <1>3, <1>7, <1>13
<1> QED BY <1>16, <1>17, <1>18 DEF delta

(* The totals that were read are committed whole, or not at all.           *)
LEMMA CommitReads ==
  ASSUME TrafficAssumption, TypeOK, NEW c \in Collector, NEW s \in Session, Pins(s, db), Commit(c, s)
  PROVE  /\ db'.total = ViewOf(s, db).total
         /\ \A d \in Device : db.total[d] <= db'.total[d]
         /\ \A u \in User : db'.used[u] = ViewOf(s, db).used[u] \/ db'.used[u] = db.used[u]
<1>1. db \in Ledger /\ db' \in Ledger /\ ViewOf(s, db) \in Ledger
  BY CommitTyped, ViewAt DEF TypeOK
<1>2. ASSUME NEW d \in Device
      PROVE  db'.total[d] = ViewOf(s, db).total[d] /\ db.total[d] <= db'.total[d]
  <2>1. /\ ViewOf(s, db).total[d] = IF Owner[d] \in Read(s) THEN s.mine.total[d] ELSE db.total[d]
        /\ db'.total[d] = IF d \in rows /\ s.mine.total[d] # s.base.total[d]
                            THEN s.mine.total[d] ELSE db.total[d]
        /\ db.total[d] \in Nat
    <3>1. db.total[d] \in Nat
      BY <1>1 DEF Ledger
    <3>2. ViewOf(s, db).total[d] = IF Owner[d] \in Read(s) THEN s.mine.total[d] ELSE db.total[d]
      BY <1>1, ViewAt
    <3>3. db'.total[d] = IF d \in rows /\ s.mine.total[d] # s.base.total[d]
                           THEN s.mine.total[d] ELSE db.total[d]
      BY CommitTyped
    <3> QED BY <3>1, <3>2, <3>3
  <2>2. CASE Owner[d] \notin Read(s)
    <3>1. s.mine.total[d] = s.base.total[d]
      BY <2>2 DEF Pins
    <3> QED BY <2>1, <2>2, <3>1
  <2>3. CASE Owner[d] \in Read(s) /\ s.mine.total[d] # s.base.total[d]
    <3>1. d \in s.hit /\ db.total[d] <= s.mine.total[d]
      BY <2>3 DEF Pins
    <3>2. d \in Changed(s)
      BY <2>3, <3>1 DEF Changed
    <3>3. d \in rows
      BY <3>2, CommitTyped
    <3> QED BY <2>1, <2>3, <3>1, <3>3
  <2>4. CASE Owner[d] \in Read(s) /\ s.mine.total[d] = s.base.total[d]
    <3>1. s.base.total[d] = db.total[d]
      BY <2>4 DEF Pins
    <3> QED BY <2>1, <2>4, <3>1
  <2> QED BY <2>2, <2>3, <2>4
<1>3. db'.total = ViewOf(s, db).total
  <2>1. db'.total \in [Device -> Nat] /\ ViewOf(s, db).total \in [Device -> Nat]
    BY <1>1 DEF Ledger
  <2> QED BY <1>2, <2>1
<1>4. ASSUME NEW u \in User
      PROVE  db'.used[u] = ViewOf(s, db).used[u] \/ db'.used[u] = db.used[u]
  <2>1. /\ ViewOf(s, db).used[u] = IF u \in Read(s) THEN s.mine.used[u] ELSE db.used[u]
        /\ db'.used[u] = IF s.mine.used[u] # s.base.used[u] THEN s.mine.used[u] ELSE db.used[u]
    BY <1>1, ViewAt, CommitTyped
  <2>2. u \notin Read(s) => s.mine.used[u] = s.base.used[u]
    BY DEF Pins
  <2> QED BY <2>1, <2>2
<1> QED BY <1>2, <1>3, <1>4

(* The session a step of a collection makes of collection c: a new one,    *)
(* one that has skipped or asked a node, or one that has applied an answer.*)
Becomes(c, s) ==
  \/ s.pc = "ask" /\ s.hit = {} /\ s.base = s.mine /\ s.snaps = None
  \/ /\ s.hit = collect[c].hit /\ s.base = collect[c].base
     /\ s.mine = collect[c].mine /\ s.snaps = collect[c].snaps
     /\ \/ s.pc = "ask"
        \/ /\ s.pc = "apply" /\ s.todo = collect[c].todo
           /\ s.answer = counter[Head(s.todo)] /\ Head(s.todo) \in Node
  \/ collect[c].pc = "apply" /\ s = After(c) /\ s.pc = "ask"

(* It stays in memory, is lost, or is committed.                           *)
Stays(s)  == UNCHANGED <<db, history>> /\ \A e \in Collector : collect'[e] = s
Lost      == UNCHANGED <<db, history>> /\ \A e \in Collector : collect'[e] = IdleCollect
Commits(s) ==
  /\ \A e \in Collector : collect'[e] = IdleCollect
  /\ db'.total = ViewOf(s, db).total
  /\ \A u \in User : db'.used[u] = ViewOf(s, db).used[u] \/ db'.used[u] = db.used[u]
  /\ \A n \in Node : /\ history'[n].user = history[n].user + s.snaps[n]
                     /\ history'[n].node = history[n].node

(* Every step of a collection makes such a session of it, and then one of  *)
(* the three.                                                              *)
LEMMA CollectionMoves ==
  ASSUME TrafficAssumption, OneCollector, PinsInv, NEW c \in Collector, Collection(c)
  PROVE  /\ PinsInv'
         /\ UNCHANGED <<counter, rows, nodes, measure>>
         /\ \E s \in Session : /\ Becomes(c, s) /\ Pins(s, db)
                               /\ (Stays(s) \/ Lost \/ Commits(s))
<1>1. /\ TypeOK /\ Pins(collect[c], db) /\ db \in Ledger
      /\ collect \in [Collector -> Session] /\ \A e \in Collector : e = c
  BY DEF PinsInv, TypeOK, OneCollector
<1>2. /\ TypeOK' /\ db' \in Ledger /\ UNCHANGED <<counter, rows, nodes, measure>>
  <2>1. TypeOK'
    BY <1>1, CollectionTyped
  <2>2. db' \in Ledger
    BY <2>1 DEF TypeOK
  <2> QED BY <2>1, <2>2 DEF Collection, StartCollect, AskXray, SkipNode, ApplyStats
<1>3. ASSUME NEW s \in Session, s.pc = "ask", Proceed(c, s), Pins(s, db)
      PROVE  Stays(s) \/ Lost \/ Commits(s)
  <2>1. CASE s.todo # << >> /\ collect' = [collect EXCEPT ![c] = s] /\ UNCHANGED <<db, history>>
    BY <1>1, <2>1 DEF Stays
  <2>2. ASSUME collect' = [collect EXCEPT ![c] = IdleCollect]
        PROVE  \A e \in Collector : collect'[e] = IdleCollect
    BY <1>1, <2>2
  <2>3. CASE Abort(c, s)
    BY <2>2, <2>3 DEF Abort, Lost
  <2>4. CASE Commit(c, s)
    BY <1>1, <1>3, <2>2, <2>4, CommitTyped, CommitReads DEF Commits
  <2> QED BY <1>3, <2>1, <2>3, <2>4 DEF Proceed
<1>4. \E s \in Session : /\ Becomes(c, s) /\ Pins(s, db) /\ (Stays(s) \/ Lost \/ Commits(s))
  <2>1. Order \in Seq(Node) /\ Order # << >> /\ \A n \in Node : <<n>> \in Seq(Node) /\ <<n>> # << >>
    BY DEF TrafficAssumption
  <2>2. ASSUME NEW todo \in Seq(Node), todo # << >>, StartCollect(c, todo)
        PROVE  \E s \in Session : /\ Becomes(c, s) /\ Pins(s, db) /\ (Stays(s) \/ Lost \/ Commits(s))
    <3>1. PICK s \in Session : /\ s.pc = "ask" /\ Proceed(c, s)
                               /\ s.hit = {} /\ s.base = s.mine /\ s.snaps = None
      BY <1>1, <2>2, StartTyped
    <3>2. Becomes(c, s) /\ Pins(s, db)
      BY <1>1, <3>1, NothingRead DEF Becomes
    <3> QED BY <1>3, <3>1, <3>2
  <2>3. CASE AskXray(c)
    <3>1. PICK s \in Session :
              /\ s.pc = "apply" /\ collect' = [collect EXCEPT ![c] = s]
              /\ s.answer = counter[Head(collect[c].todo)] /\ s.todo = collect[c].todo
              /\ Head(collect[c].todo) \in Node
              /\ s.hit = collect[c].hit /\ s.base = collect[c].base
              /\ s.mine = collect[c].mine /\ s.snaps = collect[c].snaps
              /\ UNCHANGED <<db, history>>
      BY <1>1, <2>3, AskTyped
    <3>2. Becomes(c, s)
      BY <3>1 DEF Becomes
    <3>3. Pins(s, db)
      BY <1>1, <3>1 DEF Pins, Read
    <3>4. Stays(s)
      BY <1>1, <3>1 DEF Stays
    <3> QED BY <3>2, <3>3, <3>4
  <2>4. CASE SkipNode(c)
    <3>1. PICK s \in Session :
              /\ s.pc = "ask" /\ Proceed(c, s)
              /\ s.hit = collect[c].hit /\ s.base = collect[c].base
              /\ s.mine = collect[c].mine /\ s.snaps = collect[c].snaps
      BY <1>1, <2>4, SkipTyped
    <3>2. Becomes(c, s)
      BY <3>1 DEF Becomes
    <3>3. Pins(s, db)
      BY <1>1, <3>1 DEF Pins, Read
    <3> QED BY <1>3, <3>1, <3>2, <3>3
  <2>5. CASE ApplyStats(c)
    <3>1. PICK s \in Session : s = After(c)
      BY <1>1, <2>5, ApplyTyped
    <3>2. collect[c].pc = "apply" /\ s.pc = "ask" /\ Proceed(c, s)
      BY <1>1, <2>5, <3>1, ApplyTyped
    <3>3. Pins(s, db)
      BY <1>1, <3>1, <3>2, AfterReads
    <3>4. Becomes(c, s)
      BY <3>1, <3>2 DEF Becomes
    <3> QED BY <1>3, <3>2, <3>3, <3>4
  <2> QED BY <2>1, <2>2, <2>3, <2>4, <2>5 DEF Collection
<1>5. \A e \in Collector : Pins(collect'[e], db')
  <2>1. PICK s \in Session : Pins(s, db) /\ (Stays(s) \/ Lost \/ Commits(s))
    BY <1>4
  <2>2. CASE Stays(s)
    BY <2>1, <2>2 DEF Stays
  <2>3. CASE \A e \in Collector : collect'[e] = IdleCollect
    <3>1. Pins(IdleCollect, db')
      BY <1>2, IdleTyped, IdleReads, NothingRead
    <3> QED BY <2>3, <3>1
  <2>4. (Lost \/ Commits(s)) => \A e \in Collector : collect'[e] = IdleCollect
    BY DEF Lost, Commits
  <2> QED BY <2>1, <2>2, <2>3, <2>4
<1>6. PinsInv'
  BY <1>2, <1>5 DEF PinsInv
<1> QED BY <1>2, <1>4, <1>6

(* A step that leaves sessions and totals alone.                           *)
LEMMA PinsElsewhere ==
  ASSUME PinsInv, TypeOK', collect' = collect, db'.total = db.total
  PROVE  PinsInv'
BY DEF PinsInv, Pins

(* After a restart every session is idle.                                  *)
LEMMA RestartPins ==
  ASSUME TrafficAssumption, PinsInv, Restart
  PROVE  /\ PinsInv' /\ db' = db /\ \A c \in Collector : collect'[c] = IdleCollect
         /\ ViewOf(IdleCollect, db).total = db.total /\ ViewOf(IdleCollect, db).used = db.used
<1>1. /\ TypeOK /\ db \in Ledger /\ db' = db /\ \A c \in Collector : collect'[c] = IdleCollect
  BY DEF PinsInv, TypeOK, Restart
<1>2. /\ Pins(IdleCollect, db)
      /\ ViewOf(IdleCollect, db).total = db.total /\ ViewOf(IdleCollect, db).used = db.used
  BY <1>1, IdleTyped, IdleReads, NothingRead
<1>3. TypeOK'
  BY <1>1, TypeStep DEF Next
<1>4. PinsInv'
  BY <1>1, <1>2, <1>3 DEF PinsInv
<1> QED BY <1>1, <1>2, <1>4

(* What all steps but those of a collection and the restart leave alone.   *)
LEMMA SessionsKept ==
  ASSUME TypeOK,
         \/ \E d \in Device : RemoveDevice(d) \/ \E n \in Node : SendByte(d, n)
         \/ \E n \in Node : RestartXray(n)
         \/ \E m \in Meter : Metering(m)
         \/ \E u \in User : ResetTraffic(u) \/ DisableUser(u) \/ EnableUser(u)
         \/ Enforce
         \/ UNCHANGED vars
  PROVE  /\ collect' = collect /\ db'.total = db.total
         /\ \A u \in User : db'.used[u] = db.used[u] \/ db'.used[u] = 0
<1>1. CASE (\E u \in User : ResetTraffic(u) \/ DisableUser(u) \/ EnableUser(u)) \/ Enforce
  BY <1>1, HandlerLedger DEF ResetTraffic, DisableUser, EnableUser, Enforce
<1>2. CASE \/ \E d \in Device : RemoveDevice(d) \/ \E n \in Node : SendByte(d, n)
           \/ \E n \in Node : RestartXray(n)
           \/ UNCHANGED vars
  BY <1>2 DEF RemoveDevice, SendByte, RestartXray, vars
<1>3. CASE \E m \in Meter : Metering(m)
  BY <1>3 DEF Metering, StartMeasure, AskInbound, SkipMeasure, ApplyInbound
<1> QED BY <1>1, <1>2, <1>3

(* Initially every session is idle.                                        *)
LEMMA PinsInit ==
  ASSUME TrafficAssumption, Init
  PROVE  /\ PinsInv /\ db = Blank /\ \A c \in Collector : collect[c] = IdleCollect
         /\ ViewOf(IdleCollect, db).total = db.total /\ ViewOf(IdleCollect, db).used = db.used
<1>1. /\ TypeOK /\ db = Blank /\ db \in Ledger /\ \A c \in Collector : collect[c] = IdleCollect
  BY TypeInit DEF Init, TypeOK
<1>2. /\ Pins(IdleCollect, db)
      /\ ViewOf(IdleCollect, db).total = db.total /\ ViewOf(IdleCollect, db).used = db.used
  BY <1>1, IdleTyped, IdleReads, NothingRead
<1> QED BY <1>1, <1>2 DEF PinsInv

(* Nothing is taken back: what a session writes is no less than what is    *)
(* committed.                                                              *)
DevicesGrow == \A d \in Device : db.total[d] <= db'.total[d]

(* A session that pins its users would take nothing back.                  *)
LEMMA PinnedGrow ==
  ASSUME TrafficAssumption, NEW s \in Session, NEW l \in Ledger, Pins(s, l), NEW d \in Device
  PROVE  l.total[d] <= ViewOf(s, l).total[d]
<1>1. ViewOf(s, l).total[d] = IF Owner[d] \in Read(s) THEN s.mine.total[d] ELSE l.total[d]
  BY ViewAt
<1>2. l.total[d] \in Nat
  BY DEF Ledger
<1> QED BY <1>1, <1>2 DEF Pins

(* Every step keeps the pins and takes nothing back.                       *)
LEMMA PinsStep ==
  ASSUME TrafficAssumption, OneCollector, PinsInv, [Next]_vars
  PROVE  PinsInv' /\ DevicesGrow
<1>1. /\ TypeOK /\ TypeOK' /\ db \in Ledger /\ \A d \in Device : db.total[d] <= db.total[d]
  <2>1. TypeOK /\ db \in Ledger
    BY DEF PinsInv, TypeOK
  <2> QED BY <2>1, TypeStep DEF Ledger
<1>2. ASSUME NEW c \in Collector, Collection(c) PROVE PinsInv' /\ DevicesGrow
  <2>1. PICK s \in Session : Pins(s, db) /\ (Stays(s) \/ Lost \/ Commits(s))
    BY <1>2, CollectionMoves
  <2>2. db' = db \/ db'.total = ViewOf(s, db).total
    BY <2>1 DEF Stays, Lost, Commits
  <2>3. DevicesGrow
    BY <1>1, <2>1, <2>2, PinnedGrow DEF DevicesGrow
  <2> QED BY <1>2, <2>3, CollectionMoves
<1>3. CASE Restart
  BY <1>1, <1>3, RestartPins DEF DevicesGrow
<1>4. CASE \/ \E d \in Device : RemoveDevice(d) \/ \E n \in Node : SendByte(d, n)
           \/ \E n \in Node : RestartXray(n)
           \/ \E m \in Meter : Metering(m)
           \/ \E u \in User : ResetTraffic(u) \/ DisableUser(u) \/ EnableUser(u)
           \/ Enforce
           \/ UNCHANGED vars
  BY <1>1, <1>4, SessionsKept, PinsElsewhere DEF DevicesGrow
<1> QED BY <1>2, <1>3, <1>4 DEF Next

(* Whatever restarts, resets and lost commits do to the counters, a total  *)
(* of a device or of a node never goes down -- as long as one collection   *)
(* and one metrics request run at a time, wherever devices are clients.    *)
THEOREM TotalsNeverFall ==
  ASSUME OneCollector, OneMeter
  PROVE  Spec => TotalsGrow
<1>1. Init => PinsInv /\ MeterInv
  BY TrafficAssumption, PinsInit, MeterInit
<1>2. PinsInv /\ MeterInv /\ [Next]_vars => (PinsInv /\ MeterInv)'
  BY TrafficAssumption, PinsStep, MeterStep
<1>3. PinsInv /\ MeterInv /\ [Next]_vars =>
        /\ \A d \in Device : db.total[d] <= db'.total[d]
        /\ \A n \in Node : nodes[n].total <= nodes'[n].total
  BY TrafficAssumption, PinsStep, MeterStep DEF DevicesGrow, NodesGrow
<1> QED BY <1>1, <1>2, <1>3, PTL DEF Spec, TotalsGrow
-----------------------------------------------------------------------------
(* Users.                                                                  *)

Of(u) == {d \in Device : Owner[d] = u}

Covered(l) == \A u \in User : l.used[u] <= Total(l.total, Of(u))

(* What a session would commit is covered as what is committed.            *)
UsersInv ==
  /\ PinsInv
  /\ Covered(db)
  /\ \A c \in Collector : Covered(ViewOf(collect[c], db))

(* The devices of a user have a sum.                                       *)
LEMMA OfTotal ==
  ASSUME TrafficAssumption, NEW l \in Ledger, NEW u \in User
  PROVE  /\ IsFiniteSet(Of(u)) /\ \A d \in Of(u) : l.total[d] \in Nat
         /\ Total(l.total, Of(u)) \in Nat /\ l.used[u] \in Nat
<1>1. IsFiniteSet(Of(u))
  BY FS_Subset DEF TrafficAssumption, Of
<1>2. \A d \in Of(u) : l.total[d] \in Nat
  BY DEF Of, Ledger
<1>3. Total(l.total, Of(u)) \in Nat
  BY <1>1, <1>2, TotalNat
<1>4. l.used[u] \in Nat
  BY DEF Ledger
<1> QED BY <1>1, <1>2, <1>3, <1>4

(* A user is charged the bytes the user's devices are charged.             *)
LEMMA AfterCovered ==
  ASSUME TrafficAssumption, PinsInv, NEW c \in Collector, collect[c].pc = "apply",
         Covered(ViewOf(collect[c], db))
  PROVE  Covered(ViewOf(After(c), db))
<1> DEFINE delta == Deltas(View(c), Hits(c), collect[c].answer)
<1>1. TypeOK /\ Pins(collect[c], db) /\ db \in Ledger
  BY DEF PinsInv, TypeOK
<1>2. /\ View(c) = ViewOf(collect[c], db)
      /\ \A d \in Device : ViewOf(After(c), db).total[d] = View(c).total[d] + delta[d]
      /\ \A u \in User : ViewOf(After(c), db).used[u] =
                 View(c).used[u] + Total(delta, {d \in Hits(c) : Owner[d] = u})
  BY <1>1, AfterReads
<1>3. PICK v \in Ledger : v = View(c) /\ Covered(v)
  BY <1>1, <1>2, AfterTyped
<1>4. PICK new \in Ledger : new = ViewOf(After(c), db)
  BY <1>1, AfterTyped, ViewAt
<1>5. PICK hits \in SUBSET Device : hits = Hits(c)
  BY <1>1, AfterTyped
<1>6. /\ \A d \in Device : delta[d] \in Nat
      /\ \A d \in Device \ hits : delta[d] = 0
  <2>1. collect[c].answer \in [Device -> Nat]
    BY <1>1 DEF TypeOK, Session
  <2> QED BY <1>3, <1>5, <2>1, DeltasNat
<1> HIDE DEF delta
<1>7. ASSUME NEW u \in User
      PROVE  new.used[u] <= Total(new.total, Of(u))
  <2> DEFINE hit == {d \in hits : Owner[d] = u}
  <2>1. new.used[u] = v.used[u] + Total(delta, hit)
    BY <1>2, <1>3, <1>4, <1>5
  <2>2. /\ IsFiniteSet(Of(u)) /\ Of(u) \subseteq Device /\ hit \in SUBSET Of(u)
        /\ \A d \in Of(u) : delta[d] \in Nat
        /\ \A d \in Of(u) \ hit : delta[d] = 0
    BY <1>3, <1>6, OfTotal DEF Of
  <2> HIDE DEF hit
  <2>3. Total(delta, hit) = Total(delta, Of(u)) /\ Total(delta, Of(u)) \in Nat
    BY <2>2, TotalPart, TotalNat
  <2>4. \A d \in Of(u) : /\ v.total[d] \in Nat /\ delta[d] \in Nat
                         /\ new.total[d] = v.total[d] + delta[d]
    BY <1>2, <1>3, <1>4, <2>2, OfTotal
  <2>5. Total(new.total, Of(u)) = Total(v.total, Of(u)) + Total(delta, Of(u))
    <3>1. \A d \in Of(u) : new.total[d] \in Nat
      BY OfTotal
    <3> QED BY <2>2, <2>4, <3>1, TotalPlus
  <2>6. v.used[u] <= Total(v.total, Of(u)) /\ v.used[u] \in Nat /\ Total(v.total, Of(u)) \in Nat
    BY <1>3, OfTotal DEF Covered
  <2> QED BY <2>1, <2>3, <2>5, <2>6
<1> QED BY <1>4, <1>7 DEF Covered

(* The steps of a collection keep users covered.                           *)
LEMMA UsersCollection ==
  ASSUME TrafficAssumption, OneCollector, UsersInv, NEW c \in Collector, Collection(c)
  PROVE  UsersInv'
<1>1. PinsInv /\ TypeOK /\ db \in Ledger /\ Covered(db) /\ Covered(ViewOf(collect[c], db))
  BY DEF UsersInv, PinsInv, TypeOK
<1>2. PICK s \in Session : /\ Becomes(c, s) /\ Pins(s, db)
                           /\ (Stays(s) \/ Lost \/ Commits(s))
  BY <1>1, CollectionMoves
<1>3. PinsInv' /\ db' \in Ledger
  <2>1. PinsInv'
    BY <1>1, CollectionMoves
  <2> QED BY <2>1 DEF PinsInv, TypeOK
<1>4. Covered(ViewOf(s, db))
  <2>1. CASE s.hit = {} /\ s.base = s.mine
    <3>1. ViewOf(s, db).total = db.total /\ ViewOf(s, db).used = db.used
      BY <1>1, <2>1, NothingRead
    <3> QED BY <1>1, <3>1 DEF Covered
  <2>2. CASE s.hit = collect[c].hit /\ s.mine = collect[c].mine
    BY <1>1, <2>2 DEF ViewOf, Read
  <2>3. CASE collect[c].pc = "apply" /\ s = After(c)
    BY <1>1, <2>3, AfterCovered
  <2> QED BY <1>2, <2>1, <2>2, <2>3 DEF Becomes
<1>5. /\ ViewOf(IdleCollect, db').total = db'.total /\ ViewOf(IdleCollect, db').used = db'.used
  BY <1>3, IdleTyped, IdleReads, NothingRead
<1>6. CASE Stays(s)
  BY <1>1, <1>3, <1>4, <1>6 DEF Stays, UsersInv
<1>7. CASE Lost
  <2>1. db' = db /\ \A e \in Collector : collect'[e] = IdleCollect
    BY <1>7 DEF Lost
  <2>2. Covered(ViewOf(IdleCollect, db'))
    BY <1>1, <1>5, <2>1 DEF Covered
  <2> QED BY <1>1, <1>3, <2>1, <2>2 DEF UsersInv
<1>8. CASE Commits(s)
  <2>1. \A e \in Collector : collect'[e] = IdleCollect
    BY <1>8 DEF Commits
  <2>2. Covered(db')
    <3>1. SUFFICES ASSUME NEW u \in User
                   PROVE  db'.used[u] <= Total(db'.total, Of(u))
      BY DEF Covered
    <3>2. db'.total = ViewOf(s, db).total
      BY <1>8 DEF Commits
    <3>3. CASE db'.used[u] = ViewOf(s, db).used[u]
      BY <1>4, <3>2, <3>3 DEF Covered
    <3>4. CASE db'.used[u] = db.used[u]
      <4>1. \A d \in Of(u) : db.total[d] <= db'.total[d]
        <5>1. \A d \in Device : db.total[d] <= ViewOf(s, db).total[d]
          BY <1>1, <1>2, PinnedGrow
        <5> QED BY <3>2, <5>1 DEF Of
      <4>2. Total(db.total, Of(u)) <= Total(db'.total, Of(u))
        <5>1. IsFiniteSet(Of(u)) /\ \A d \in Of(u) : db.total[d] \in Nat /\ db'.total[d] \in Nat
          BY <1>1, <1>3, OfTotal
        <5> QED BY <4>1, <5>1, TotalOrder
      <4>3. /\ db.used[u] \in Nat /\ Total(db.total, Of(u)) \in Nat
            /\ Total(db'.total, Of(u)) \in Nat /\ db.used[u] <= Total(db.total, Of(u))
        BY <1>1, <1>3, OfTotal DEF Covered
      <4> QED BY <3>4, <4>2, <4>3
    <3> QED BY <1>8, <3>3, <3>4 DEF Commits
  <2>3. Covered(ViewOf(IdleCollect, db'))
    BY <1>5, <2>2 DEF Covered
  <2> QED BY <1>3, <2>1, <2>2, <2>3 DEF UsersInv
<1> QED BY <1>2, <1>6, <1>7, <1>8

(* A step that leaves sessions and totals alone, and usage or has it reset. *)
LEMMA UsersElsewhere ==
  ASSUME TrafficAssumption, UsersInv, TypeOK', collect' = collect, db'.total = db.total,
         \A u \in User : db'.used[u] = db.used[u] \/ db'.used[u] = 0
  PROVE  UsersInv'
<1>1. /\ db \in Ledger /\ db' \in Ledger /\ Covered(db)
      /\ \A c \in Collector : collect[c] \in Session /\ Covered(ViewOf(collect[c], db))
  BY DEF UsersInv, PinsInv, TypeOK
<1>2. Covered(db')
  <2> SUFFICES ASSUME NEW u \in User PROVE db'.used[u] <= Total(db'.total, Of(u))
    BY DEF Covered
  <2>1. db.used[u] <= Total(db.total, Of(u)) /\ Total(db.total, Of(u)) \in Nat
    BY <1>1, OfTotal DEF Covered
  <2> QED BY <2>1
<1>3. ASSUME NEW s \in Session, Covered(ViewOf(s, db)) PROVE Covered(ViewOf(s, db'))
  <2>1. ViewOf(s, db').total = ViewOf(s, db).total
    BY DEF ViewOf, Overlay
  <2> SUFFICES ASSUME NEW u \in User
               PROVE  ViewOf(s, db').used[u] <= Total(ViewOf(s, db').total, Of(u))
    BY DEF Covered
  <2>2. /\ ViewOf(s, db).used[u] <= Total(ViewOf(s, db).total, Of(u))
        /\ Total(ViewOf(s, db).total, Of(u)) \in Nat
    BY <1>1, <1>3, ViewAt, OfTotal DEF Covered
  <2>3. /\ ViewOf(s, db').used[u] = IF u \in Read(s) THEN s.mine.used[u] ELSE db'.used[u]
        /\ ViewOf(s, db).used[u] = IF u \in Read(s) THEN s.mine.used[u] ELSE db.used[u]
    BY <1>1, ViewAt
  <2>4. Total(ViewOf(s, db').total, Of(u)) = Total(ViewOf(s, db).total, Of(u))
    BY <2>1
  <2>5. ViewOf(s, db').used[u] = ViewOf(s, db).used[u] \/ ViewOf(s, db').used[u] = 0
    BY <2>3
  <2> QED BY <2>2, <2>4, <2>5
<1>4. PinsInv'
  BY PinsElsewhere DEF UsersInv
<1> QED BY <1>1, <1>2, <1>3, <1>4 DEF UsersInv

(* The invariant of the users holds initially.                             *)
LEMMA UsersInit ==
  ASSUME TrafficAssumption, Init
  PROVE  UsersInv
<1>1. PinsInv /\ db = Blank /\ db \in Ledger
  BY PinsInit DEF PinsInv, TypeOK
<1>2. Covered(db)
  <2> SUFFICES ASSUME NEW u \in User PROVE db.used[u] <= Total(db.total, Of(u))
    BY DEF Covered
  <2>1. db.used[u] = 0 /\ Total(db.total, Of(u)) \in Nat
    BY <1>1, OfTotal DEF Blank
  <2> QED BY <2>1
<1>3. Covered(ViewOf(IdleCollect, db))
  BY <1>2, PinsInit DEF Covered
<1> QED BY <1>1, <1>2, <1>3, PinsInit DEF UsersInv

(* Every step keeps the invariant of the users.                            *)
LEMMA UsersStep ==
  ASSUME TrafficAssumption, OneCollector, UsersInv, [Next]_vars
  PROVE  UsersInv'
<1>1. PinsInv /\ TypeOK /\ TypeOK' /\ Covered(db)
  <2>1. PinsInv /\ TypeOK /\ Covered(db)
    BY DEF UsersInv, PinsInv
  <2> QED BY <2>1, TypeStep
<1>2. CASE \E c \in Collector : Collection(c)
  BY <1>2, UsersCollection
<1>3. CASE Restart
  <2>1. /\ PinsInv' /\ db' = db /\ \A c \in Collector : collect'[c] = IdleCollect
        /\ ViewOf(IdleCollect, db).total = db.total /\ ViewOf(IdleCollect, db).used = db.used
    BY <1>1, <1>3, RestartPins
  <2> QED BY <1>1, <2>1 DEF UsersInv, Covered
<1>4. CASE \/ \E d \in Device : RemoveDevice(d) \/ \E n \in Node : SendByte(d, n)
           \/ \E n \in Node : RestartXray(n)
           \/ \E m \in Meter : Metering(m)
           \/ \E u \in User : ResetTraffic(u) \/ DisableUser(u) \/ EnableUser(u)
           \/ Enforce
           \/ UNCHANGED vars
  BY <1>1, <1>4, SessionsKept, UsersElsewhere
<1> QED BY <1>2, <1>3, <1>4 DEF Next

(* What a user is charged never exceeds what the devices the user has or   *)
(* had are charged: resets, deleted devices, commits that lose their rows  *)
(* and restarts in between can only make it less.                          *)
THEOREM UsersCovered ==
  ASSUME OneCollector
  PROVE  Spec => []UserWithinDevices
<1>1. Init => UsersInv
  BY TrafficAssumption, UsersInit
<1>2. UsersInv /\ [Next]_vars => UsersInv'
  BY TrafficAssumption, UsersStep
<1>3. UsersInv => UserWithinDevices
  BY DEF UsersInv, Covered, UserWithinDevices, Of
<1> QED BY <1>1, <1>2, <1>3, PTL DEF Spec

(* So a user is never charged more than the user's devices have sent --    *)
(* when each of them is a client of at most one node.                      *)
THEOREM UsersNeverOvercharged ==
  ASSUME OneCollector, OneHome
  PROVE  Spec => []UserNotOvercharged
<1>1. Init => UsersInv /\ DeviceInv
  BY TrafficAssumption, UsersInit, DeviceInit
<1>2. UsersInv /\ DeviceInv /\ [Next]_vars => (UsersInv /\ DeviceInv)'
  BY TrafficAssumption, UsersStep, DeviceStep
<1>3. UsersInv /\ DeviceInv => UserNotOvercharged
  <2> SUFFICES ASSUME UsersInv, DeviceInv, NEW u \in User
               PROVE  db.used[u] <= Total(sent, Of(u))
    BY DEF UserNotOvercharged, Of
  <2>1. db \in Ledger /\ sent \in [Device -> Nat] /\ Covered(db)
    BY DEF UsersInv, PinsInv, TypeOK
  <2>2. /\ IsFiniteSet(Of(u)) /\ Of(u) \subseteq Device
        /\ \A d \in Of(u) : db.total[d] \in Nat
        /\ Total(db.total, Of(u)) \in Nat /\ db.used[u] \in Nat
    BY <2>1, TrafficAssumption, OfTotal DEF Of
  <2>3. \A d \in Of(u) : /\ db.total[d] \in Nat /\ sent[d] \in Nat
                         /\ db.total[d] <= sent[d]
    BY <2>1, <2>2 DEF DeviceInv, Fits
  <2>4. Total(db.total, Of(u)) <= Total(sent, Of(u)) /\ Total(sent, Of(u)) \in Nat
    BY <2>2, <2>3, TotalOrder, TotalNat
  <2> QED BY <2>1, <2>2, <2>4 DEF Covered
<1> QED BY <1>1, <1>2, <1>3, PTL DEF Spec
-----------------------------------------------------------------------------
(* The history of the nodes.                                               *)

At(n) == {d \in Device : n \in Usable[d]}

(* The snapshots recorded and those a session would add make what its      *)
(* totals are, and those of a metrics request what it would write.         *)
Balanced(s, l, h) ==
  \A n \in Node : h[n].user + s.snaps[n] = Total(ViewOf(s, l).total, At(n))
Metred(s, l) ==
  s.pc # "idle" => /\ s.base = l
                   /\ \A n \in Node : l[n].total + s.snaps[n] = s.mine[n].total

(* Only clients of the node are in its answer. *)
Clients(s) ==
  s.pc = "apply" => \A d \in Device : s.answer[d] > 0 => Head(s.todo) \in Usable[d]

UserHistory ==
  /\ \A n \in Node, d \in Device : counter[n][d] > 0 => n \in Usable[d]
  /\ \A c \in Collector : Clients(collect[c]) /\ Balanced(collect[c], db, history)
  /\ \A n \in Node : history[n].user = Total(db.total, At(n))
NodeHistory ==
  /\ \A m \in Meter : Metred(measure[m], nodes)
  /\ \A n \in Node : history[n].node = nodes[n].total

HistoryInv == PinsInv /\ UserHistory /\ NodeHistory

(* The clients of a node have a sum.                                       *)
LEMMA AtTotal ==
  ASSUME TrafficAssumption, NEW l \in Ledger, NEW n \in Node
  PROVE  /\ IsFiniteSet(At(n)) /\ At(n) \subseteq Device
         /\ \A d \in At(n) : l.total[d] \in Nat
         /\ Total(l.total, At(n)) \in Nat
<1>1. IsFiniteSet(At(n)) /\ At(n) \subseteq Device
  BY FS_Subset DEF TrafficAssumption, At
<1>2. \A d \in At(n) : l.total[d] \in Nat
  BY <1>1 DEF Ledger
<1>3. Total(l.total, At(n)) \in Nat
  BY <1>1, <1>2, TotalNat
<1> QED BY <1>1, <1>2, <1>3

(* The snapshot of an answer is what its devices are charged; none of them *)
(* is a client elsewhere.                                                  *)
LEMMA AfterBalanced ==
  ASSUME TrafficAssumption, OneHome, PinsInv, NEW c \in Collector, collect[c].pc = "apply",
         Clients(collect[c]), Balanced(collect[c], db, history)
  PROVE  Balanced(After(c), db, history)
<1> DEFINE delta == Deltas(View(c), Hits(c), collect[c].answer)
           home  == Head(collect[c].todo)
<1>1. TypeOK /\ Pins(collect[c], db) /\ db \in Ledger /\ collect[c] \in Session
  BY DEF PinsInv, TypeOK
<1>2. /\ View(c) = ViewOf(collect[c], db)
      /\ \A d \in Device : ViewOf(After(c), db).total[d] = View(c).total[d] + delta[d]
  BY <1>1, AfterReads
<1>3. PICK v \in Ledger : v = View(c)
  BY <1>1, AfterTyped
<1>4. PICK new \in Ledger : new = ViewOf(After(c), db)
  BY <1>1, AfterTyped, ViewAt
<1>5. PICK hits \in SUBSET Device : hits = Hits(c)
  BY <1>1, AfterTyped
<1>6. PICK answer \in [Device -> Nat] : answer = collect[c].answer
  BY <1>1 DEF Session
<1>7. /\ \A d \in Device : delta[d] \in Nat
      /\ \A d \in Device \ hits : delta[d] = 0
      /\ Recorded(v, hits, answer) = Total(delta, hits)
      /\ Recorded(v, hits, answer) \in Nat
  <2>1. delta = Deltas(v, hits, answer)
    BY <1>3, <1>5, <1>6
  <2> HIDE DEF delta
  <2> QED BY <2>1, DeltasNat, RecordedNat
<1>8. /\ home \in Node
      /\ \A n \in Node : /\ collect[c].snaps[n] \in Nat /\ history[n].user \in Nat
                         /\ After(c).snaps[n] = collect[c].snaps[n] +
                              (IF n = home THEN Total(delta, hits) ELSE 0)
  <2>1. home \in Node
        /\ \A n \in Node : After(c).snaps[n] = collect[c].snaps[n] +
             (IF n = home THEN Recorded(v, hits, answer) ELSE 0)
    BY <1>1, <1>3, <1>5, <1>6, AfterTyped
  <2>2. \A n \in Node : collect[c].snaps[n] \in Nat /\ history[n].user \in Nat
    BY <1>1 DEF Session, TypeOK
  <2> HIDE DEF delta, home
  <2> QED BY <1>7, <2>1, <2>2
<1>9. \A d \in hits : home \in Usable[d] /\ \A n \in Usable[d] : n = home
  <2>1. \A d \in hits : collect[c].answer[d] > 0
    BY <1>5 DEF Hits
  <2> QED BY <2>1 DEF Clients, OneHome
<1> HIDE DEF delta, home
<1>10. ASSUME NEW n \in Node
       PROVE  history[n].user + After(c).snaps[n] = Total(new.total, At(n))
  <2>1. /\ IsFiniteSet(At(n)) /\ At(n) \subseteq Device
        /\ \A d \in At(n) : v.total[d] \in Nat /\ new.total[d] \in Nat /\ delta[d] \in Nat
        /\ Total(v.total, At(n)) \in Nat
    BY <1>7, AtTotal
  <2>2. \A d \in At(n) : new.total[d] = v.total[d] + delta[d]
    BY <1>2, <1>3, <1>4, <2>1
  <2>3. Total(new.total, At(n)) = Total(v.total, At(n)) + Total(delta, At(n))
    <3>1. \A d \in At(n) : /\ v.total[d] \in Nat /\ delta[d] \in Nat
                           /\ new.total[d] = v.total[d] + delta[d]
      BY <2>1, <2>2
    <3>2. PICK f, g, h : f = v.total /\ g = delta /\ h = new.total
      OBVIOUS
    <3>3. \A d \in At(n) : f[d] \in Nat /\ g[d] \in Nat /\ h[d] \in Nat /\ h[d] = f[d] + g[d]
      BY <2>1, <3>1, <3>2
    <3>4. Total(h, At(n)) = Total(f, At(n)) + Total(g, At(n))
      BY <2>1, <3>3, TotalPlus
    <3> QED BY <3>2, <3>4
  <2>4. history[n].user + collect[c].snaps[n] = Total(v.total, At(n))
    BY <1>2, <1>3 DEF Balanced
  <2>5. Total(delta, At(n)) = IF n = home THEN Total(delta, hits) ELSE 0
    <3>1. CASE n = home
      <4>1. hits \in SUBSET At(n) /\ \A d \in At(n) \ hits : delta[d] = 0
        BY <1>7, <1>9, <2>1, <3>1 DEF At
      <4> QED BY <2>1, <3>1, <4>1, TotalPart
    <3>2. CASE n # home
      <4>1. \A d \in At(n) : delta[d] = 0
        BY <1>7, <1>9, <2>1, <3>2 DEF At
      <4>2. {} \in SUBSET At(n) /\ \A d \in At(n) \ {} : delta[d] = 0
        BY <4>1
      <4>3. Total(delta, {}) = Total(delta, At(n))
        BY <2>1, <4>2, TotalPart
      <4> QED BY <3>2, <4>3, TotalEmpty
    <3> QED BY <3>1, <3>2
  <2>6. Total(delta, hits) \in Nat
    BY <1>7
  <2>7. CASE n = home
    BY <1>8, <2>1, <2>3, <2>4, <2>5, <2>6, <2>7
  <2>8. CASE n # home
    BY <1>8, <2>1, <2>3, <2>4, <2>5, <2>8
  <2> QED BY <2>7, <2>8
<1> QED BY <1>4, <1>10 DEF Balanced

(* A session that has read nothing balances when the history does.         *)
LEMMA NothingBalanced ==
  ASSUME TrafficAssumption, NEW s \in Session, s.hit = {}, s.base = s.mine, s.snaps = None,
         NEW l \in Ledger, NEW h, \A n \in Node : h[n].user = Total(l.total, At(n))
  PROVE  Balanced(s, l, h)
<1>1. ViewOf(s, l).total = l.total
  BY NothingRead
<1>2. ASSUME NEW n \in Node
      PROVE  h[n].user + s.snaps[n] = Total(ViewOf(s, l).total, At(n))
  <2>1. s.snaps[n] = 0 /\ h[n].user = Total(l.total, At(n)) /\ Total(l.total, At(n)) \in Nat
    BY AtTotal DEF None
  <2> QED BY <1>1, <2>1
<1> QED BY <1>2 DEF Balanced

(* The steps of a collection keep the history balanced.                    *)
LEMMA HistoryCollection ==
  ASSUME TrafficAssumption, OneCollector, OneHome, HistoryInv, NEW c \in Collector, Collection(c)
  PROVE  HistoryInv'
<1>1. /\ PinsInv /\ TypeOK /\ db \in Ledger /\ UserHistory /\ NodeHistory
      /\ Clients(collect[c]) /\ Balanced(collect[c], db, history)
      /\ \A n \in Node : history[n].user = Total(db.total, At(n))
      /\ \A n \in Node : history[n].user \in Nat /\ history[n].node = nodes[n].total
  BY DEF HistoryInv, PinsInv, TypeOK, UserHistory, NodeHistory
<1>2. /\ PinsInv' /\ TypeOK' /\ db' \in Ledger
      /\ UNCHANGED <<counter, rows, nodes, measure>>
  <2>1. PinsInv' /\ UNCHANGED <<counter, rows, nodes, measure>>
    BY <1>1, CollectionMoves
  <2> QED BY <2>1 DEF PinsInv, TypeOK
<1>3. PICK s \in Session : /\ Becomes(c, s) /\ Pins(s, db)
                           /\ (Stays(s) \/ Lost \/ Commits(s))
  BY <1>1, CollectionMoves
<1>4. Balanced(s, db, history)
  <2>1. CASE s.hit = {} /\ s.base = s.mine /\ s.snaps = None
    BY <1>1, <2>1, NothingBalanced
  <2>2. CASE s.hit = collect[c].hit /\ s.mine = collect[c].mine /\ s.snaps = collect[c].snaps
    BY <1>1, <2>2 DEF Balanced, ViewOf, Read
  <2>3. CASE collect[c].pc = "apply" /\ s = After(c)
    BY <1>1, <2>3, AfterBalanced
  <2> QED BY <1>3, <2>1, <2>2, <2>3 DEF Becomes
<1>5. Clients(s)
  <2>1. CASE s.pc = "ask"
    BY <2>1 DEF Clients
  <2>2. CASE s.answer = counter[Head(s.todo)] /\ Head(s.todo) \in Node
    BY <1>1, <2>2 DEF Clients, UserHistory
  <2> QED BY <1>3, <2>1, <2>2 DEF Becomes
<1>6. /\ \A n \in Node, d \in Device : counter'[n][d] > 0 => n \in Usable[d]
      /\ \A m \in Meter : Metred(measure'[m], nodes')
  BY <1>1, <1>2 DEF UserHistory, NodeHistory
<1>7. Clients(IdleCollect)
  BY IdleTyped DEF Clients
<1>8. CASE Stays(s)
  <2>1. UNCHANGED <<db, history>> /\ \A e \in Collector : collect'[e] = s
    BY <1>8 DEF Stays
  <2> QED BY <1>1, <1>2, <1>4, <1>5, <1>6, <2>1 DEF HistoryInv, UserHistory, NodeHistory
<1>9. ASSUME \A n \in Node : history'[n].user = Total(db'.total, At(n)),
             \A n \in Node : history'[n].node = history[n].node,
             \A e \in Collector : collect'[e] = IdleCollect
      PROVE  HistoryInv'
  <2>1. Balanced(IdleCollect, db', history')
    BY <1>2, <1>9, IdleTyped, IdleReads, NothingBalanced
  <2> QED BY <1>1, <1>2, <1>6, <1>7, <1>9, <2>1 DEF HistoryInv, UserHistory, NodeHistory
<1>10. CASE Lost
  BY <1>1, <1>9, <1>10 DEF Lost
<1>11. CASE Commits(s)
  <2>1. /\ db'.total = ViewOf(s, db).total
        /\ \A n \in Node : /\ history'[n].user = history[n].user + s.snaps[n]
                           /\ history'[n].node = history[n].node
        /\ \A e \in Collector : collect'[e] = IdleCollect
    BY <1>11 DEF Commits
  <2>2. \A n \in Node : history'[n].user = Total(db'.total, At(n))
    BY <1>4, <2>1 DEF Balanced
  <2> QED BY <1>9, <2>1, <2>2
<1> QED BY <1>3, <1>8, <1>10, <1>11

(* The step of a metrics request leads to one that balances, which goes on *)
(* or is committed.                                                        *)
LEMMA MeteringMoves ==
  ASSUME TrafficAssumption, OneMeter, TypeOK, NEW m \in Meter, Metering(m), Metred(measure[m], nodes)
  PROVE  /\ UNCHANGED <<counter, rows, db, collect>>
         /\ \E s \in Metrics :
              /\ s.pc # "idle" /\ Metred(s, nodes)
              /\ \/ UNCHANGED <<nodes, history>> /\ \A k \in Meter : measure'[k] = s
                 \/ /\ \A k \in Meter : measure'[k] = IdleMeasure
                    /\ \A n \in Node : /\ nodes'[n] = s.mine[n]
                                       /\ history'[n].user = history[n].user
                                       /\ history'[n].node = history[n].node + s.snaps[n]
<1>1. /\ measure \in [Meter -> Metrics] /\ nodes \in [Node -> NodeLedger]
      /\ history \in [Node -> [user: Nat, node: Nat]] /\ \A k \in Meter : k = m
  BY DEF TypeOK, OneMeter
<1>2. UNCHANGED <<counter, rows, db, collect>>
  BY DEF Metering, StartMeasure, AskInbound, SkipMeasure, ApplyInbound
<1>3. ASSUME NEW s \in Metrics, s.pc = "ask", s.base = nodes, MeasureNext(m, s)
      PROVE  \/ UNCHANGED <<nodes, history>> /\ \A k \in Meter : measure'[k] = s
             \/ /\ \A k \in Meter : measure'[k] = IdleMeasure
                /\ \A n \in Node : /\ nodes'[n] = s.mine[n]
                                   /\ history'[n].user = history[n].user
                                   /\ history'[n].node = history[n].node + s.snaps[n]
  <2>1. CASE s.todo # << >>
    BY <1>1, <1>3, <2>1 DEF MeasureNext
  <2>2. CASE s.todo = << >>
    <3>1. /\ nodes' = [n \in Node |-> Flush(nodes[n], s.mine[n], nodes[n])]
          /\ history' = [n \in Node |-> [history[n] EXCEPT !.node = @ + s.snaps[n]]]
          /\ measure' = [measure EXCEPT ![m] = IdleMeasure]
      BY <1>3, <2>2 DEF MeasureNext
    <3>2. \A k \in Meter : measure'[k] = IdleMeasure
      BY <1>1, <3>1
    <3>3. \A n \in Node : s.mine[n] \in NodeLedger /\ nodes[n] \in NodeLedger
      BY <1>1 DEF Metrics
    <3>4. \A n \in Node : nodes'[n] = s.mine[n]
      BY <3>1, <3>3, FlushOwn
    <3>5. ASSUME NEW n \in Node
          PROVE  history'[n].user = history[n].user /\ history'[n].node = history[n].node + s.snaps[n]
      <4>1. history'[n] = [history[n] EXCEPT !.node = @ + s.snaps[n]]
        BY <3>1
      <4>2. history[n] \in [user: Nat, node: Nat]
        BY <1>1
      <4> QED BY <4>1, <4>2
    <3> QED BY <3>2, <3>4, <3>5
  <2> QED BY <2>1, <2>2
<1>4. CASE StartMeasure(m)
  <2>1. PICK s \in Metrics : /\ s.pc = "ask" /\ MeasureNext(m, s)
                             /\ s.base = nodes /\ s.mine = nodes /\ s.snaps = None
    BY <1>4, StartMeasureTyped
  <2>2. \A n \in Node : nodes[n].total + s.snaps[n] = s.mine[n].total
    <3>1. \A n \in Node : s.snaps[n] = 0 /\ nodes[n].total \in Nat
      BY <1>1, <2>1 DEF None, NodeLedger
    <3> QED BY <2>1, <3>1
  <2>3. Metred(s, nodes) /\ s.pc # "idle"
    BY <2>1, <2>2 DEF Metred
  <2> QED BY <1>2, <1>3, <2>1, <2>3
<1>5. CASE AskInbound(m)
  <2>1. PICK s \in Metrics : /\ s.pc = "apply" /\ measure' = [measure EXCEPT ![m] = s]
                             /\ s.base = measure[m].base /\ s.mine = measure[m].mine
                             /\ s.snaps = measure[m].snaps
                             /\ measure[m].pc = "ask" /\ UNCHANGED <<nodes, history>>
    BY <1>5, AskInboundTyped
  <2>2. Metred(s, nodes) /\ s.pc # "idle"
    BY <2>1 DEF Metred
  <2>3. \A k \in Meter : measure'[k] = s
    BY <1>1, <2>1
  <2> QED BY <1>2, <2>1, <2>2, <2>3
<1>6. CASE SkipMeasure(m)
  <2>1. PICK s \in Metrics : /\ s.pc = "ask" /\ MeasureNext(m, s) /\ measure[m].pc = "ask"
                             /\ s.base = measure[m].base /\ s.mine = measure[m].mine
                             /\ s.snaps = measure[m].snaps
    BY <1>6, SkipMeasureTyped
  <2>2. Metred(s, nodes) /\ s.pc # "idle" /\ s.base = nodes
    BY <2>1 DEF Metred
  <2> QED BY <1>2, <1>3, <2>1, <2>2
<1>7. CASE ApplyInbound(m)
  <2>1. PICK s \in Metrics, h \in Node, more \in Nat :
              /\ s.pc = "ask" /\ MeasureNext(m, s) /\ measure[m].pc = "apply"
              /\ s.base = measure[m].base
              /\ \A k \in Node : /\ s.mine[k].total = measure[m].mine[k].total + (IF k = h THEN more ELSE 0)
                                 /\ s.snaps[k] = measure[m].snaps[k] + (IF k = h THEN more ELSE 0)
    BY <1>7, ApplyInboundTyped
  <2>2. ASSUME NEW k \in Node
        PROVE  nodes[k].total + s.snaps[k] = s.mine[k].total
    <3>1. PICK x \in Nat : x = IF k = h THEN more ELSE 0
      OBVIOUS
    <3>2. /\ nodes[k].total \in Nat /\ measure[m].snaps[k] \in Nat /\ measure[m].mine[k].total \in Nat
      <4>1. PICK o \in Metrics : o = measure[m]
        BY <1>1
      <4>2. nodes[k] \in NodeLedger /\ o.mine[k] \in NodeLedger /\ o.snaps[k] \in Nat
        BY <1>1 DEF Metrics
      <4> QED BY <4>1, <4>2 DEF NodeLedger
    <3>3. nodes[k].total + measure[m].snaps[k] = measure[m].mine[k].total
      BY <2>1 DEF Metred
    <3>4. s.mine[k].total = measure[m].mine[k].total + x /\ s.snaps[k] = measure[m].snaps[k] + x
      BY <2>1, <3>1
    <3>5. PICK a, b \in Nat : a = nodes[k].total /\ b = measure[m].snaps[k]
      BY <3>2
    <3>6. s.mine[k].total = (a + b) + x /\ s.snaps[k] = b + x
      BY <3>3, <3>4, <3>5
    <3> QED BY <3>5, <3>6
  <2>3. s.base = nodes
    BY <2>1 DEF Metred
  <2>4. Metred(s, nodes) /\ s.pc # "idle"
    BY <2>1, <2>2, <2>3 DEF Metred
  <2> QED BY <1>2, <1>3, <2>1, <2>3, <2>4
<1> QED BY <1>4, <1>5, <1>6, <1>7 DEF Metering

(* The steps of a metrics request keep the history balanced.               *)
LEMMA HistoryMetering ==
  ASSUME TrafficAssumption, OneMeter, HistoryInv, NEW m \in Meter, Metering(m)
  PROVE  HistoryInv'
<1>1. /\ PinsInv /\ TypeOK /\ UserHistory /\ NodeHistory
      /\ Metred(measure[m], nodes)
      /\ \A n \in Node : history[n].node = nodes[n].total
  BY DEF HistoryInv, PinsInv, NodeHistory
<1>2. UNCHANGED <<counter, rows, db, collect>>
  BY <1>1, MeteringMoves
<1>3. PICK s \in Metrics :
        /\ s.pc # "idle" /\ Metred(s, nodes)
        /\ \/ UNCHANGED <<nodes, history>> /\ \A k \in Meter : measure'[k] = s
           \/ /\ \A k \in Meter : measure'[k] = IdleMeasure
              /\ \A n \in Node : /\ nodes'[n] = s.mine[n]
                                 /\ history'[n].user = history[n].user
                                 /\ history'[n].node = history[n].node + s.snaps[n]
  BY <1>1, MeteringMoves
<1>4. PinsInv'
  <2>1. TypeOK'
    BY <1>1, MeteringTyped
  <2> QED BY <1>1, <1>2, <2>1, PinsElsewhere
<1>5. \A n \in Node : history'[n].user = history[n].user
  BY <1>3
<1>6. UserHistory'
  BY <1>1, <1>2, <1>5 DEF UserHistory, Balanced
<1>7. CASE UNCHANGED <<nodes, history>> /\ \A k \in Meter : measure'[k] = s
  <2>1. NodeHistory'
    BY <1>1, <1>3, <1>7 DEF NodeHistory
  <2> QED BY <1>4, <1>6, <2>1 DEF HistoryInv
<1>8. CASE /\ \A k \in Meter : measure'[k] = IdleMeasure
           /\ \A n \in Node : /\ nodes'[n] = s.mine[n]
                              /\ history'[n].user = history[n].user
                              /\ history'[n].node = history[n].node + s.snaps[n]
  <2>1. \A n \in Node : history'[n].node = nodes'[n].total
    BY <1>1, <1>3, <1>8 DEF Metred
  <2>2. \A k \in Meter : Metred(measure'[k], nodes')
    BY <1>8, IdleTyped DEF Metred
  <2>3. NodeHistory'
    BY <2>1, <2>2 DEF NodeHistory
  <2> QED BY <1>4, <1>6, <2>3 DEF HistoryInv
<1> QED BY <1>3, <1>7, <1>8

(* A step that leaves sessions, requests, totals and history alone.        *)
LEMMA HistoryElsewhere ==
  ASSUME TrafficAssumption, HistoryInv, TypeOK', db'.total = db.total,
         UNCHANGED <<collect, measure, nodes, history>>,
         \A n \in Node, d \in Device : counter'[n][d] > 0 => n \in Usable[d]
  PROVE  HistoryInv'
<1>1. PinsInv /\ UserHistory /\ NodeHistory
  BY DEF HistoryInv
<1>2. PinsInv'
  BY <1>1, PinsElsewhere
<1>3. ASSUME NEW s, Balanced(s, db, history) PROVE Balanced(s, db', history')
  <2>1. ViewOf(s, db').total = ViewOf(s, db).total
    BY DEF ViewOf, Overlay
  <2> QED BY <1>3, <2>1 DEF Balanced
<1>4. UserHistory'
  BY <1>1, <1>3 DEF UserHistory
<1>5. NodeHistory'
  BY <1>1 DEF NodeHistory
<1> QED BY <1>2, <1>4, <1>5 DEF HistoryInv

(* The invariant of the history holds initially.                           *)
LEMMA HistoryInit ==
  ASSUME TrafficAssumption, Init
  PROVE  HistoryInv
<1>1. /\ PinsInv /\ db = Blank /\ db \in Ledger /\ \A c \in Collector : collect[c] = IdleCollect
  BY PinsInit DEF PinsInv, TypeOK
<1>2. ASSUME NEW n \in Node PROVE history[n].user = Total(db.total, At(n))
  <2>1. history[n].user = 0
    BY DEF Init
  <2>2. /\ IsFiniteSet(At(n)) /\ {} \in SUBSET At(n)
        /\ \A d \in At(n) : db.total[d] \in Nat
        /\ \A d \in At(n) \ {} : db.total[d] = 0
    BY <1>1, AtTotal DEF Blank
  <2>3. Total(db.total, {}) = Total(db.total, At(n))
    BY <2>2, TotalPart
  <2> QED BY <2>1, <2>3, TotalEmpty
<1>3. Balanced(IdleCollect, db, history)
  BY <1>1, <1>2, IdleTyped, IdleReads, NothingBalanced
<1>4. \A n \in Node, d \in Device : counter[n][d] = 0
  BY DEF Init, Silent
<1>5. UserHistory
  <2>1. Clients(IdleCollect)
    BY IdleTyped DEF Clients
  <2>2. \A n \in Node, d \in Device : counter[n][d] > 0 => n \in Usable[d]
    BY <1>4
  <2> QED BY <1>1, <1>2, <1>3, <2>1, <2>2 DEF UserHistory
<1>6. NodeHistory
  <2>1. \A m \in Meter : measure[m].pc = "idle"
    BY IdleTyped DEF Init
  <2>2. \A n \in Node : history[n].node = 0 /\ nodes[n].total = 0
    BY DEF Init, NoTraffic
  <2> QED BY <2>1, <2>2 DEF NodeHistory, Metred
<1> QED BY <1>1, <1>5, <1>6 DEF HistoryInv

(* Every step keeps the invariant of the history.                          *)
LEMMA HistoryStep ==
  ASSUME TrafficAssumption, OneCollector, OneHome, OneMeter, HistoryInv, [Next]_vars
  PROVE  HistoryInv'
<1>1. /\ PinsInv /\ TypeOK /\ TypeOK' /\ NodeHistory
      /\ \A n \in Node, d \in Device : counter[n][d] > 0 => n \in Usable[d]
      /\ \A n \in Node : history[n].user = Total(db.total, At(n))
      /\ counter \in [Node -> [Device -> Nat]]
  <2>1. PinsInv /\ TypeOK /\ NodeHistory
    BY DEF HistoryInv, PinsInv
  <2> QED BY <2>1, TypeStep DEF HistoryInv, UserHistory, TypeOK
<1>2. CASE \E c \in Collector : Collection(c)
  BY <1>2, HistoryCollection
<1>3. CASE \E m \in Meter : Metering(m)
  BY <1>3, HistoryMetering
<1>4. CASE Restart
  <2>1. /\ PinsInv' /\ db' = db /\ \A c \in Collector : collect'[c] = IdleCollect
        /\ db \in Ledger
    BY <1>1, <1>4, RestartPins DEF TypeOK
  <2>2. /\ UNCHANGED <<counter, nodes, history>>
        /\ \A m \in Meter : measure'[m] = IdleMeasure
    BY <1>4 DEF Restart
  <2>3. Balanced(IdleCollect, db, history) /\ Clients(IdleCollect)
    <3>1. Clients(IdleCollect)
      BY IdleTyped DEF Clients
    <3> QED BY <1>1, <2>1, <3>1, IdleTyped, IdleReads, NothingBalanced
  <2>4. UserHistory'
    BY <1>1, <2>1, <2>2, <2>3 DEF UserHistory
  <2>5. NodeHistory'
    BY <1>1, <2>2, IdleTyped DEF NodeHistory, Metred
  <2> QED BY <2>1, <2>4, <2>5 DEF HistoryInv
<1>5. CASE \E d \in Device, n \in Node : SendByte(d, n)
  <2>1. PICK d \in Device, n \in Node : SendByte(d, n)
    BY <1>5
  <2>2. /\ UNCHANGED <<rows, db, nodes, history, collect, measure>>
        /\ n \in Usable[d] /\ counter' = [counter EXCEPT ![n][d] = @ + 1]
    BY <2>1 DEF SendByte
  <2>3. \A m \in Node, e \in Device : counter'[m][e] > 0 => m \in Usable[e]
    BY <1>1, <2>2
  <2> QED BY <1>1, <2>2, <2>3, HistoryElsewhere
<1>6. CASE \E n \in Node : RestartXray(n)
  <2>1. PICK n \in Node : RestartXray(n)
    BY <1>6
  <2>2. /\ UNCHANGED <<rows, db, nodes, history, collect, measure>>
        /\ counter' = [counter EXCEPT ![n] = Silent]
    BY <2>1 DEF RestartXray
  <2>3. \A m \in Node, e \in Device : counter'[m][e] > 0 => m \in Usable[e]
    BY <1>1, <2>2 DEF Silent
  <2> QED BY <1>1, <2>2, <2>3, HistoryElsewhere
<1>7. CASE \/ \E d \in Device : RemoveDevice(d)
           \/ \E u \in User : ResetTraffic(u) \/ DisableUser(u) \/ EnableUser(u)
           \/ Enforce
           \/ UNCHANGED vars
  <2>1. UNCHANGED <<collect, measure, nodes, history, counter>>
    BY <1>7 DEF RemoveDevice, ResetTraffic, DisableUser, EnableUser, Enforce, vars
  <2>2. db'.total = db.total
    BY <1>1, <1>7, SessionsKept
  <2> QED BY <1>1, <2>1, <2>2, HistoryElsewhere
<1> QED BY <1>2, <1>3, <1>4, <1>5, <1>6, <1>7 DEF Next

(* The snapshots of a node add up to what was charged to the devices that  *)
(* are clients there and to the node itself: whatever is lost or reset, a  *)
(* delta and its snapshot are committed together or not at all.            *)
THEOREM HistoryAddsUp ==
  ASSUME OneCollector, OneMeter, OneHome
  PROVE  Spec => []HistoryMatches
<1>1. Init => HistoryInv
  BY TrafficAssumption, HistoryInit
<1>2. HistoryInv /\ [Next]_vars => HistoryInv'
  BY TrafficAssumption, HistoryStep
<1>3. HistoryInv => HistoryMatches
  BY DEF HistoryInv, UserHistory, NodeHistory, HistoryMatches, At
<1> QED BY <1>1, <1>2, <1>3, PTL DEF Spec
=============================================================================
