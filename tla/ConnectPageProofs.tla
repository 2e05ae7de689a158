------------------------- MODULE ConnectPageProofs -------------------------
(***************************************************************************)
(* The public page for any number of devices, refreshes in flight,         *)
(* removals, failures and changes on the server: its busy flags are never  *)
(* left behind, and its list keeps the safety half of FreshView.           *)
(***************************************************************************)
EXTENDS ConnectPage, TLAPS

(* The data of a reply and of the screen is a list the server has held.    *)
Copy == [ver : 1 .. Len(past), devices : SUBSET Device]

(* A removal waits for at most one refresh, and at most one refresh carries  *)
(* the current number; if that one has an answer, the answer is a list that *)
(* the server has held since the newest one on the screen.                 *)
OneEach == \A r, s \in flight : r.owner = s.owner /\ r.owner # None => r = s
OneLatest == \A r, s \in flight : r.latest /\ s.latest => r = s
LatestNew ==
  \A r \in flight : r.latest /\ r.reply \notin {Unread, None} =>
    r.reply.ver \in seen .. Len(past) /\ r.reply.devices = past[r.reply.ver]

Flight == OneEach /\ OneLatest /\ LatestNew
IInv == TypeOK /\ FlagsHaveOwners /\ Flight

Owners(rs) == {r.owner : r \in rs}

-----------------------------------------------------------------------------
(* The lists of the server, and the requests *)

(* A list of the server with one more entry. *)
LEMMA Appended ==
  ASSUME NEW p \in Seq(SUBSET Device), p # <<>>, NEW now \in SUBSET Device, NEW q, q = Append(p, now)
  PROVE  /\ q \in Seq(SUBSET Device) /\ q # <<>> /\ Len(q) = Len(p) + 1
         /\ Last(q) = now /\ \A i \in 1 .. Len(p) : q[i] = p[i]
         /\ Last(p) \in SUBSET Device /\ Last(p) = p[Len(p)] /\ Len(p) \in Nat \ {0}
BY DEF Last

(* Requests do not lose their type when their numbers become outdated. *)
LEMMA OutdatedType ==
  ASSUME NEW rs \in SUBSET Request
  PROVE  Outdated(rs) \in SUBSET Request
BY DEF Outdated, Request

(* The requests that are superseded keep their owners and lose their claim. *)
LEMMA Superseded ==
  ASSUME TypeOK, Flight, NEW rs, rs = Outdated(flight)
  PROVE  /\ Owners(rs) = Owners(flight) /\ \A r \in rs : ~r.latest
         /\ \A r, s \in rs : r.owner = s.owner /\ r.owner # None => r = s
         /\ flight # {} => rs # {}
<1>1. ASSUME NEW r \in flight
      PROVE  /\ [r EXCEPT !.latest = FALSE].owner = r.owner
             /\ ~[r EXCEPT !.latest = FALSE].latest
  BY DEF TypeOK, Request
<1>2. ASSUME NEW x \in rs
      PROVE  ~x.latest /\ \E r \in flight : x = [r EXCEPT !.latest = FALSE] /\ x.owner = r.owner
  <2>1. PICK r \in flight : x = [r EXCEPT !.latest = FALSE]
    BY <1>2 DEF Outdated
  <2> QED
    BY <1>1, <2>1
<1>3. ASSUME NEW x \in rs, NEW y \in rs, x.owner = y.owner, x.owner # None
      PROVE  x = y
  <2>1. PICK r \in flight : x = [r EXCEPT !.latest = FALSE] /\ x.owner = r.owner
    BY <1>2
  <2>2. PICK q \in flight : y = [q EXCEPT !.latest = FALSE] /\ y.owner = q.owner
    BY <1>2
  <2>3. r = q
    BY <1>3, <2>1, <2>2 DEF Flight, OneEach
  <2> QED
    BY <2>1, <2>2, <2>3
<1>4. ASSUME NEW r \in flight
      PROVE  \E x \in rs : x.owner = r.owner
  <2>1. PICK x : x = [r EXCEPT !.latest = FALSE]
    OBVIOUS
  <2>2. x \in rs /\ x.owner = r.owner
    BY <1>1, <2>1 DEF Outdated
  <2> QED
    BY <2>2
<1>5. Owners(rs) = Owners(flight)
  BY <1>2, <1>4 DEF Owners
<1> QED
  BY <1>2, <1>3, <1>4, <1>5

(* A new request, the only one with the current number.                     *)
LEMMA Issued ==
  ASSUME TypeOK, Flight, NEW owner \in Device \cup {None}, Issue(owner),
         owner # None => owner \notin Owners(flight), UNCHANGED <<past, seen>>
  PROVE  /\ flight' \in SUBSET Request /\ flight' # {} /\ refreshing' = TRUE /\ Flight'
         /\ Owners(flight') = Owners(flight) \cup {owner}
<1>1. PICK new : new = [latest |-> TRUE, owner |-> owner, reply |-> Unread]
  OBVIOUS
<1>2. /\ new \in Request /\ new.latest /\ new.owner = owner /\ new.reply = Unread
  BY <1>1 DEF Request, Reply
<1>3. PICK rs : rs = Outdated(flight) /\ flight' = rs \cup {new}
  BY <1>1 DEF Issue
<1>4. rs \in SUBSET Request
  BY <1>3, OutdatedType DEF TypeOK
<1>5. /\ Owners(rs) = Owners(flight) /\ \A r \in rs : ~r.latest
      /\ \A r, s \in rs : r.owner = s.owner /\ r.owner # None => r = s
  BY <1>3, Superseded
<1>6. \A r \in rs : r.owner = owner => owner = None
  BY <1>5 DEF Owners
<1>7. Flight'
  BY <1>2, <1>3, <1>5, <1>6 DEF Flight, OneEach, OneLatest, LatestNew
<1>8. Owners(flight') = Owners(flight) \cup {owner}
  BY <1>2, <1>3, <1>5 DEF Owners
<1> QED
  BY <1>2, <1>3, <1>4, <1>7, <1>8 DEF Issue

(* Nothing that FlagsHaveOwners and Flight speak of changes. *)
LEMMA SameFlight ==
  ASSUME Flight, UNCHANGED <<past, seen, flight>>
  PROVE  Flight'
BY DEF Flight, OneEach, OneLatest, LatestNew

(* The third part of FlagsHaveOwners. *)
LEMMA Waiting ==
  FlagsHaveOwners <=> /\ refreshing => flight # {}
                      /\ mutating => Removing # {}
                      /\ \A d \in Device : phase[d] = "refresh" <=> d \in Owners(flight)
BY DEF FlagsHaveOwners, Owners

(* What is spent stays within its bounds. *)
LEMMA Spent ==
  ASSUME TypeOK, NEW what \in {"change", "removal", "fault"}, Spend(what),
         what = "change" => spent.change < MaxChanges,
         what = "removal" => spent.removal < MaxRemovals,
         what = "fault" => spent.fault < MaxFaults
  PROVE  spent' \in [change : 0 .. MaxChanges, removal : 0 .. MaxRemovals, fault : 0 .. MaxFaults]
BY BoundAssumption DEF TypeOK, Spend

-----------------------------------------------------------------------------
(* One lemma for each action *)

(* The interval, or a click that refreshes. *)
LEMMA PollKeeps ==
  ASSUME IInv, Poll
  PROVE  IInv'
<1>1. Issue(None) /\ UNCHANGED <<server, data, seen, mutating, pollMs, effectDue, phase, spent>>
  BY DEF Poll
<1>2. /\ flight' \in SUBSET Request /\ flight' # {} /\ refreshing' = TRUE /\ Flight'
      /\ Owners(flight') = Owners(flight) \cup {None}
  BY <1>1, Issued DEF IInv, server
<1>3. TypeOK'
  BY <1>1, <1>2 DEF IInv, TypeOK, server, Request, Reply
<1>4. FlagsHaveOwners'
  BY <1>1, <1>2, Waiting, NoneAssumption DEF IInv, FlagsHaveOwners, Owners, Removing
<1> QED
  BY <1>2, <1>3, <1>4 DEF IInv

(* The effect, whether or not its refresh is skipped. *)
LEMMA RunEffectKeeps ==
  ASSUME IInv, RunEffect
  PROVE  IInv'
<1>0. UNCHANGED <<server, data, seen, mutating, pollMs, phase, spent>> /\ effectDue' \in BOOLEAN
  BY DEF RunEffect
<1>1. CASE UNCHANGED <<flight, refreshing>>
  <2>1. Flight'
    BY <1>0, <1>1, SameFlight DEF IInv, server
  <2>2. TypeOK'
    BY <1>0, <1>1 DEF IInv, TypeOK, server, Request, Reply
  <2>3. FlagsHaveOwners'
    BY <1>0, <1>1 DEF IInv, FlagsHaveOwners, Removing
  <2> QED
    BY <2>1, <2>2, <2>3 DEF IInv
<1>2. CASE Issue(None)
  <2>1. /\ flight' \in SUBSET Request /\ flight' # {} /\ refreshing' = TRUE /\ Flight'
        /\ Owners(flight') = Owners(flight) \cup {None}
    BY <1>0, <1>2, Issued DEF IInv, server
  <2>2. TypeOK'
    BY <1>0, <2>1 DEF IInv, TypeOK, server, Request, Reply
  <2>3. FlagsHaveOwners'
    BY <1>0, <2>1, Waiting, NoneAssumption DEF IInv, FlagsHaveOwners, Owners, Removing
  <2> QED
    BY <2>1, <2>2, <2>3 DEF IInv
<1> QED
  BY <1>1, <1>2 DEF RunEffect

(* A request in flight gets another reply. *)
LEMMA AnswerKeeps ==
  ASSUME IInv, NEW r \in flight, ServerAnswers(r)
  PROVE  IInv'
<1>1. PICK reply \in {None, [ver |-> Len(past), devices |-> Last(past)]} :
        flight' = (flight \ {r}) \cup {[r EXCEPT !.reply = reply]}
  BY DEF ServerAnswers
<1>2. UNCHANGED <<past, late, data, seen, refreshing, mutating, pollMs, effectDue, phase>>
  BY DEF ServerAnswers, server, busy
<1>3. spent' \in [change : 0 .. MaxChanges, removal : 0 .. MaxRemovals, fault : 0 .. MaxFaults]
  BY Spent DEF ServerAnswers, IInv, TypeOK
<1>4. PICK new : new = [r EXCEPT !.reply = reply]
  OBVIOUS
<1>5. Len(past) \in Nat \ {0} /\ Last(past) \in SUBSET Device /\ Last(past) = past[Len(past)]
  BY DEF IInv, TypeOK, Last
<1>6. /\ new \in Request /\ new.owner = r.owner /\ new.latest = r.latest /\ new.reply = reply
      /\ r \in Request
  BY <1>4, <1>5 DEF IInv, TypeOK, Request, Reply
<1>7. flight' = (flight \ {r}) \cup {new}
  BY <1>1, <1>4
<1>8. OneEach' /\ OneLatest'
  BY <1>6, <1>7 DEF IInv, Flight, OneEach, OneLatest
<1>9. LatestNew'
  <2>1. reply # None => reply.ver \in seen .. Len(past) /\ reply.devices = past[reply.ver]
    BY <1>5 DEF IInv, TypeOK
  <2> QED
    BY <1>2, <1>6, <1>7, <2>1 DEF IInv, Flight, LatestNew
<1>10. TypeOK'
  BY <1>2, <1>3, <1>6, <1>7 DEF IInv, TypeOK, Request, Reply
<1>11. Owners(flight') = Owners(flight) /\ flight' # {}
  BY <1>6, <1>7 DEF Owners
<1>12. FlagsHaveOwners'
  BY <1>2, <1>11, Waiting DEF IInv, FlagsHaveOwners, Owners, Removing
<1> QED
  BY <1>8, <1>9, <1>10, <1>12 DEF IInv, Flight

(* The refresh of a removal ends it; any other one leaves the removals.     *)
LEMMA LandKeeps ==
  ASSUME IInv, NEW r \in flight, Land(r)
  PROVE  IInv'
<1>1. UNCHANGED <<past, late, spent>> /\ flight' = flight \ {r} /\ refreshing' = FALSE
  BY DEF Land, ClearFlag, server
<1>2. r \in Request /\ r.reply # Unread
  BY DEF IInv, TypeOK, Land, Answered
<1>3. /\ data' = IF r.latest THEN r.reply ELSE data
      /\ seen' = IF r.latest /\ r.reply # None THEN r.reply.ver ELSE seen
      /\ pollMs' \in {7000, 15000} /\ effectDue' \in BOOLEAN
  BY DEF Land, Applies
<1>4. seen' \in 1 .. Len(past) /\ data' \in {None} \cup Copy
  BY <1>2, <1>3 DEF IInv, TypeOK, Request, Reply, Copy
<1>5. flight' \in SUBSET Request
  BY <1>1 DEF IInv, TypeOK
<1>6. Flight'
  BY <1>1, <1>3 DEF IInv, Flight, OneEach, OneLatest, LatestNew
<1>9. ASSUME phase' \in [Device -> Phase], mutating' \in BOOLEAN
      PROVE  TypeOK'
  <2>1. refreshing' \in BOOLEAN
    BY <1>1, Zenon
  <2>2. Request' = Request /\ Copy' = Copy
    BY <1>1 DEF Request, Reply, Copy
  <2>3. flight' \subseteq Request' /\ data' \in {None} \cup Copy'
    BY <1>4, <1>5, <2>2
  <2> QED
    BY <1>1, <1>3, <1>4, <1>9, <2>1, <2>3 DEF IInv, TypeOK, Copy
<1>7. CASE r.owner = None /\ UNCHANGED <<phase, mutating>>
  <2>1. TypeOK'
    BY <1>7, <1>9 DEF IInv, TypeOK
  <2>2. \A d \in Device : d \in Owners(flight') <=> d \in Owners(flight)
    BY <1>1, <1>7, NoneAssumption DEF Owners
  <2>3. FlagsHaveOwners'
    BY <1>1, <1>7, <2>2, Waiting DEF IInv, FlagsHaveOwners, Owners, Removing
  <2> QED
    BY <1>6, <2>1, <2>3 DEF IInv
<1>8. CASE r.owner # None /\ EndRemoval(r.owner)
  <2>1. r.owner \in Device
    BY <1>2, <1>8 DEF Request
  <2>2. phase' = [phase EXCEPT ![r.owner] = "no"] /\ mutating' = FALSE
    BY <1>8 DEF EndRemoval
  <2>3. TypeOK'
    <3>1. mutating' \in BOOLEAN
      BY <2>2
    <3>2. phase' \in [Device -> Phase]
      BY <2>1, <2>2 DEF IInv, TypeOK, Phase
    <3> QED
      BY <1>9, <3>1, <3>2
  <2>4. \A d \in Device : d \in Owners(flight') <=> d # r.owner /\ d \in Owners(flight)
    BY <1>1, <1>8 DEF Owners, IInv, Flight, OneEach
  <2>5. \A d \in Device : phase'[d] = "refresh" <=> d \in Owners(flight')
    BY <2>1, <2>2, <2>4, Waiting DEF IInv, TypeOK
  <2>6. FlagsHaveOwners'
    BY <1>1, <2>2, <2>5 DEF FlagsHaveOwners, Owners
  <2> QED
    BY <1>6, <2>3, <2>6 DEF IInv
<1> QED
  BY <1>7, <1>8 DEF Land

(* A removal begins: its row has no other one, and no refresh of its own.   *)
LEMMA RemoveKeeps ==
  ASSUME IInv, NEW d \in Device, RemoveDevice(d)
  PROVE  IInv'
<1>1. /\ UNCHANGED <<past, late, seen, refreshing, pollMs, effectDue>>
      /\ mutating' = TRUE /\ phase' = [phase EXCEPT ![d] = "sent"]
  BY DEF RemoveDevice, server
<1>2. PICK rs : rs = Outdated(flight) /\ flight' = rs
  BY DEF RemoveDevice
<1>3. /\ Owners(rs) = Owners(flight) /\ \A r \in rs : ~r.latest
      /\ \A r, s \in rs : r.owner = s.owner /\ r.owner # None => r = s
      /\ flight # {} => rs # {}
  BY <1>2, Superseded DEF IInv
<1>4. rs \in SUBSET Request
  BY <1>2, OutdatedType DEF IInv, TypeOK
<1>5. spent' \in [change : 0 .. MaxChanges, removal : 0 .. MaxRemovals, fault : 0 .. MaxFaults]
  BY Spent DEF RemoveDevice, IInv
<1>6. phase[d] = "no" /\ data \in Copy
  BY DEF RemoveDevice, CanRemove, Rows, Removing, IInv, TypeOK, Copy
<1>7. data' \in Copy
  BY <1>6 DEF RemoveDevice, Copy
<1>8. TypeOK'
  BY <1>1, <1>2, <1>4, <1>5, <1>7 DEF IInv, TypeOK, Request, Reply, Copy, Phase
<1>9. Flight'
  BY <1>1, <1>2, <1>3 DEF Flight, OneEach, OneLatest, LatestNew
<1>10. \A e \in Device : phase'[e] = "refresh" <=> e \in Owners(flight')
  BY <1>1, <1>2, <1>3, <1>6, Waiting DEF IInv, TypeOK
<1>11. FlagsHaveOwners'
  BY <1>1, <1>2, <1>3, <1>10 DEF IInv, TypeOK, FlagsHaveOwners, Owners, Removing
<1> QED
  BY <1>8, <1>9, <1>11 DEF IInv

(* The server, the timer and a stranger: no refresh begins or ends, and a   *)
(* removal under way stays under way.                                      *)
LEMMA ProgressKeeps ==
  ASSUME IInv, NEW p \in Seq(SUBSET Device), p # <<>>, past' = p, Len(p) >= Len(past),
         \A i \in 1 .. Len(past) : p[i] = past[i],
         late' \subseteq Device, phase' \in [Device -> Phase],
         \A d \in Device : /\ phase[d] = "no" <=> phase'[d] = "no"
                           /\ phase[d] = "refresh" <=> phase'[d] = "refresh",
         spent' \in [change : 0 .. MaxChanges, removal : 0 .. MaxRemovals, fault : 0 .. MaxFaults],
         UNCHANGED <<data, seen, flight, refreshing, mutating, pollMs, effectDue>>
  PROVE  IInv'
<1>1. Len(past) \in Nat /\ Len(p) \in Nat
  BY DEF IInv, TypeOK
<1>2. Reply \subseteq Reply' /\ Copy \subseteq Copy'
  BY <1>1 DEF Reply, Copy
<1>3. Request \subseteq Request'
  BY <1>2 DEF Request
<1>4. seen \in 1 .. Len(p)
  BY <1>1 DEF IInv, TypeOK
<1>5. TypeOK'
  BY <1>2, <1>3, <1>4 DEF IInv, TypeOK, Copy
<1>6. Flight'
  <2>1. ASSUME NEW r \in flight, r.latest, r.reply \notin {Unread, None}
        PROVE  r.reply.ver \in seen .. Len(p) /\ r.reply.devices = p[r.reply.ver]
    <3>1. r.reply.ver \in seen .. Len(past) /\ r.reply.devices = past[r.reply.ver]
      BY <2>1 DEF IInv, Flight, LatestNew
    <3> QED
      BY <1>1, <3>1 DEF IInv, TypeOK
  <2> QED
    BY <2>1 DEF IInv, Flight, OneEach, OneLatest, LatestNew
<1>7. FlagsHaveOwners'
  BY DEF IInv, FlagsHaveOwners, Removing
<1> QED
  BY <1>5, <1>6, <1>7 DEF IInv

(* The entry that Drop or OthersChange adds. *)
LEMMA PastGrows ==
  ASSUME TypeOK, past' = past \/ \E now \in SUBSET Device : past' = Append(past, now)
  PROVE  /\ past' \in Seq(SUBSET Device) /\ past' # <<>> /\ Len(past') >= Len(past)
         /\ \A i \in 1 .. Len(past) : past'[i] = past[i]
<1>1. past \in Seq(SUBSET Device) /\ past # <<>> /\ Len(past) \in Nat
  BY DEF TypeOK
<1>2. CASE past' = past
  BY <1>1, <1>2
<1>3. ASSUME NEW now \in SUBSET Device, past' = Append(past, now)
      PROVE  /\ past' \in Seq(SUBSET Device) /\ past' # <<>> /\ Len(past') >= Len(past)
             /\ \A i \in 1 .. Len(past) : past'[i] = past[i]
  BY <1>1, <1>3, Appended
<1> QED
  BY <1>2, <1>3

(* A device taken off, added, or there already. *)
LEMMA Lists ==
  ASSUME TypeOK, NEW d \in Device
  PROVE  /\ Last(past) \ {d} \in SUBSET Device /\ Last(past) \cup {d} \in SUBSET Device
         /\ Drop(d) => past' = past \/ \E now \in SUBSET Device : past' = Append(past, now)
<1>1. Last(past) \in SUBSET Device
  BY DEF TypeOK, Last
<1> QED
  BY <1>1 DEF Drop

(* The fate of a DELETE. *)
LEMMA ServerKeeps ==
  ASSUME IInv, NEW d \in Device,
         DeleteCommits(d) \/ DeleteRefused(d) \/ DeleteTimesOut(d) \/ LateDelete(d)
  PROVE  IInv'
<1>1. past' = past \/ \E now \in SUBSET Device : past' = Append(past, now)
  BY Lists DEF DeleteCommits, DeleteRefused, DeleteTimesOut, LateDelete, IInv, server
<1>2. PICK p : p = past'
  OBVIOUS
<1>3. /\ p \in Seq(SUBSET Device) /\ p # <<>> /\ Len(p) >= Len(past)
      /\ \A i \in 1 .. Len(past) : p[i] = past[i]
  BY <1>1, <1>2, PastGrows DEF IInv
<1>4. late' \subseteq Device
  BY DEF DeleteCommits, DeleteRefused, DeleteTimesOut, LateDelete, IInv, TypeOK, server
<1>5. /\ phase' \in [Device -> Phase]
      /\ \A e \in Device : /\ phase[e] = "no" <=> phase'[e] = "no"
                           /\ phase[e] = "refresh" <=> phase'[e] = "refresh"
  BY DEF DeleteCommits, DeleteRefused, DeleteTimesOut, LateDelete, IInv, TypeOK, Phase
<1>6. spent' \in [change : 0 .. MaxChanges, removal : 0 .. MaxRemovals, fault : 0 .. MaxFaults]
  <2>1. spent \in [change : 0 .. MaxChanges, removal : 0 .. MaxRemovals, fault : 0 .. MaxFaults]
    BY DEF IInv, TypeOK
  <2>2. CASE UNCHANGED spent
    BY <2>1, <2>2
  <2>3. CASE spent.fault < MaxFaults /\ Spend("fault")
    BY <2>3, Spent DEF IInv
  <2> QED
    BY <2>2, <2>3 DEF DeleteCommits, DeleteRefused, DeleteTimesOut, LateDelete
<1>7. UNCHANGED <<data, seen, flight, refreshing, mutating, pollMs, effectDue>>
  BY DEF DeleteCommits, DeleteRefused, DeleteTimesOut, LateDelete, busy
<1> QED
  BY <1>2, <1>3, <1>4, <1>5, <1>6, <1>7, ProgressKeeps

(* Somebody else changes the list. *)
LEMMA OthersKeep ==
  ASSUME IInv, OthersChange
  PROVE  IInv'
<1>1. past' = past \/ \E now \in SUBSET Device : past' = Append(past, now)
  BY Lists DEF OthersChange, IInv
<1>2. PICK p : p = past'
  OBVIOUS
<1>3. /\ p \in Seq(SUBSET Device) /\ p # <<>> /\ Len(p) >= Len(past)
      /\ \A i \in 1 .. Len(past) : p[i] = past[i]
  BY <1>1, <1>2, PastGrows DEF IInv
<1>4. spent' \in [change : 0 .. MaxChanges, removal : 0 .. MaxRemovals, fault : 0 .. MaxFaults]
  BY Spent DEF OthersChange, IInv
<1>5. UNCHANGED <<late, phase, data, seen, flight, refreshing, mutating, pollMs, effectDue>>
  BY DEF OthersChange, busy
<1>6. late \subseteq Device /\ phase \in [Device -> Phase]
  BY DEF IInv, TypeOK
<1> QED
  BY <1>2, <1>3, <1>4, <1>5, <1>6, ProgressKeeps

(* The forced refresh that follows the DELETE, or its absence. *)
LEMMA ReturnKeeps ==
  ASSUME IInv, NEW d \in Device, phase[d] \in {"done", "failed"},
         phase' = [phase EXCEPT ![d] = "refresh"], Issue(d),
         UNCHANGED <<server, data, seen, mutating, pollMs, effectDue, spent>>
  PROVE  IInv'
<1>1. d \notin Owners(flight) /\ d # None /\ d \in Device \cup {None}
  BY Waiting, NoneAssumption DEF IInv
<1>2. /\ flight' \in SUBSET Request /\ flight' # {} /\ refreshing' = TRUE /\ Flight'
      /\ Owners(flight') = Owners(flight) \cup {d}
  BY <1>1, Issued DEF IInv, server
<1>3. TypeOK'
  BY <1>2 DEF IInv, TypeOK, server, Request, Reply, Phase
<1>4. \A e \in Device : phase'[e] = "refresh" <=> e \in Owners(flight')
  BY <1>2, Waiting DEF IInv, TypeOK
<1>5. mutating' => Removing' # {}
  BY DEF IInv, TypeOK, Removing
<1>6. FlagsHaveOwners'
  BY <1>2, <1>4, <1>5 DEF FlagsHaveOwners, Owners
<1> QED
  BY <1>2, <1>3, <1>6 DEF IInv

(* A failed removal whose refresh is skipped. *)
LEMMA FailKeeps ==
  ASSUME IInv, NEW d \in Device, phase[d] = "failed",
         EndRemoval(d), UNCHANGED <<server, data, seen, pollMs, effectDue, spent, flight, refreshing>>
  PROVE  IInv'
<1>1. Flight'
  BY SameFlight DEF IInv, server
<1>2. phase' = [phase EXCEPT ![d] = "no"] /\ mutating' = FALSE
  BY DEF EndRemoval
<1>3. mutating' \in BOOLEAN
  BY <1>2
<1>4. TypeOK'
  BY <1>2, <1>3 DEF IInv, TypeOK, server, Request, Reply, Phase
<1>5. FlagsHaveOwners'
  BY <1>2 DEF IInv, TypeOK, FlagsHaveOwners
<1> QED
  BY <1>1, <1>4, <1>5 DEF IInv

(* IInv is kept by every step. *)
LEMMA StepKeeps ==
  ASSUME IInv, [Next]_vars
  PROVE  IInv'
<1>1. CASE Tick \/ CopyLink \/ SelectOption
  BY <1>1, PollKeeps DEF Tick, CopyLink, SelectOption
<1>2. CASE RunEffect
  BY <1>2, RunEffectKeeps
<1>3. CASE OthersChange
  BY <1>3, OthersKeep
<1>4. CASE \E r \in flight : ServerAnswers(r) \/ Land(r)
  BY <1>4, AnswerKeeps, LandKeeps
<1>5. ASSUME NEW d \in Device, RemoveDevice(d)
      PROVE  IInv'
  BY <1>5, RemoveKeeps
<1>6. ASSUME NEW d \in Device,
             DeleteCommits(d) \/ DeleteRefused(d) \/ DeleteTimesOut(d) \/ LateDelete(d)
      PROVE  IInv'
  BY <1>6, ServerKeeps
<1>7. ASSUME NEW d \in Device, DeleteReturns(d)
      PROVE  IInv'
  BY <1>7, ReturnKeeps DEF DeleteReturns
<1>8. ASSUME NEW d \in Device, DeleteFails(d)
      PROVE  IInv'
  BY <1>8, ReturnKeeps, FailKeeps DEF DeleteFails
<1>9. CASE UNCHANGED vars
  <2>1. Flight'
    BY <1>9, SameFlight DEF IInv, vars, server
  <2>2. TypeOK'
    BY <1>9 DEF IInv, TypeOK, vars, server, busy, Request, Reply
  <2>3. FlagsHaveOwners'
    BY <1>9 DEF IInv, FlagsHaveOwners, Removing, vars, busy
  <2> QED
    BY <2>1, <2>2, <2>3 DEF IInv
<1> QED
  BY <1>1, <1>2, <1>3, <1>4, <1>5, <1>6, <1>7, <1>8, <1>9 DEF Next

(* The page as it is mounted. *)
LEMMA InitKeeps == Init => IInv
<1> SUFFICES ASSUME Init PROVE IInv
  OBVIOUS
<1>1. past \in Seq(SUBSET Device) /\ past # <<>> /\ Len(past) = 1
  BY DEF Init
<1>2. spent \in [change : 0 .. MaxChanges, removal : 0 .. MaxRemovals, fault : 0 .. MaxFaults]
  BY BoundAssumption DEF Init
<1>3. refreshing \in BOOLEAN /\ mutating \in BOOLEAN /\ effectDue \in BOOLEAN
  BY DEF Init
<1>4. TypeOK
  BY <1>1, <1>2, <1>3 DEF Init, TypeOK, Phase
<1> QED
  BY <1>4 DEF Init, IInv, FlagsHaveOwners, Flight, OneEach, OneLatest, LatestNew

(* The inductive invariant holds in every reachable state. *)
LEMMA Invariant == Spec => []IInv
BY InitKeeps, StepKeeps, PTL DEF Spec

(* Every state has its types: in particular no reply and no screen shows a  *)
(* version that the server never had.                                      *)
THEOREM TypeCorrect == Spec => []TypeOK
<1>1. IInv => TypeOK
  BY DEF IInv
<1> QED
  BY <1>1, Invariant, PTL

(* refreshingRef and mutatingRef are never left set without a call that     *)
(* will clear them, however refreshes and removals overlap, so the polling *)
(* of the page does not end for good.                                      *)
THEOREM FlagsOwned == Spec => []FlagsHaveOwners
<1>1. IInv => FlagsHaveOwners
  BY DEF IInv
<1> QED
  BY <1>1, Invariant, PTL

-----------------------------------------------------------------------------
(* Refinement: each step of the page is a step of FreshView or a stutter.   *)

(* The server's list changes. *)
LEMMA DropIsChange ==
  ASSUME IInv, past' = past \/ \E now \in SUBSET Device : past' = Append(past, now),
         UNCHANGED <<data, seen>>
  PROVE  [View!Next]_View!vars
<1>1. Rows' = Rows
  BY DEF Rows
<1>2. CASE past' = past
  BY <1>1, <1>2 DEF View!vars
<1>3. CASE \E now \in SUBSET Device : past' = Append(past, now)
  BY <1>1, <1>3 DEF View!Next, View!Change
<1> QED
  BY <1>2, <1>3

(* The answer with the current number is loaded, or blanks the page; any    *)
(* other one is dropped.                                                   *)
LEMMA LandIsLoad ==
  ASSUME IInv, NEW r \in flight, Land(r)
  PROVE  [View!Next]_View!vars
<1>1. /\ past' = past
      /\ data' = IF r.latest THEN r.reply ELSE data
      /\ seen' = IF r.latest /\ r.reply # None THEN r.reply.ver ELSE seen
      /\ r.reply # Unread
  BY DEF Land, Applies, Answered, server
<1>2. CASE ~r.latest
  BY <1>1, <1>2 DEF View!vars, Rows
<1>3. CASE r.latest /\ r.reply = None
  BY <1>1, <1>3 DEF View!Next, View!Lose, Rows
<1>4. CASE r.latest /\ r.reply # None
  <2>1. r.reply.ver \in seen .. Len(past) /\ r.reply.devices = past[r.reply.ver]
    BY <1>1, <1>4 DEF IInv, Flight, LatestNew
  <2>2. seen' = r.reply.ver /\ Rows' = past[r.reply.ver]
    BY <1>1, <1>4, <2>1 DEF Rows
  <2> QED
    BY <1>1, <2>1, <2>2 DEF View!Next, View!Load
<1> QED
  BY <1>2, <1>3, <1>4

(* The row of a removal is hidden. *)
LEMMA RemoveIsHide ==
  ASSUME IInv, NEW d \in Device, RemoveDevice(d)
  PROVE  [View!Next]_View!vars
<1>1. /\ UNCHANGED <<past, seen>> /\ data # None /\ Rows = data.devices /\ Rows # None
      /\ data' = [data EXCEPT !.devices = @ \ {d}]
  BY DEF RemoveDevice, CanRemove, Rows, server
<1>2. data \in Copy
  BY <1>1 DEF IInv, TypeOK, Copy
<1>3. data'.devices = Rows \ {d}
  BY <1>1, <1>2 DEF Copy
<1>4. Rows' = None \/ Rows' = Rows \ {d}
  BY <1>3 DEF Rows
<1>5. CASE Rows' = None
  BY <1>1, <1>5 DEF View!Next, View!Lose
<1>6. CASE Rows' # None /\ Rows' = Rows \ {d}
  BY <1>1, <1>6 DEF View!Next, View!Hide
<1> QED
  BY <1>4, <1>5, <1>6

(* What changes neither the lists of the server nor the screen. *)
LEMMA QuietIsStutter ==
  ASSUME UNCHANGED <<past, data, seen>>
  PROVE  [View!Next]_View!vars
BY DEF View!vars, Rows

(* The simulation, step by step. *)
LEMMA StepRefines ==
  ASSUME IInv, [Next]_vars
  PROVE  [View!Next]_View!vars
<1>1. CASE Tick \/ CopyLink \/ SelectOption \/ RunEffect \/ UNCHANGED vars
  BY <1>1, QuietIsStutter DEF Tick, CopyLink, SelectOption, Poll, RunEffect, vars, server
<1>2. CASE OthersChange
  BY <1>2, Lists, DropIsChange DEF OthersChange, IInv
<1>3. ASSUME NEW r \in flight, ServerAnswers(r) \/ Land(r)
      PROVE  [View!Next]_View!vars
  BY <1>3, LandIsLoad, QuietIsStutter DEF ServerAnswers, server
<1>4. ASSUME NEW d \in Device, RemoveDevice(d)
      PROVE  [View!Next]_View!vars
  BY <1>4, RemoveIsHide
<1>5. ASSUME NEW d \in Device, DeleteCommits(d) \/ LateDelete(d)
      PROVE  [View!Next]_View!vars
  BY <1>5, Lists, DropIsChange DEF DeleteCommits, LateDelete, IInv
<1>6. ASSUME NEW d \in Device,
             DeleteRefused(d) \/ DeleteTimesOut(d) \/ DeleteReturns(d) \/ DeleteFails(d)
      PROVE  [View!Next]_View!vars
  BY <1>6, QuietIsStutter DEF DeleteRefused, DeleteTimesOut, DeleteReturns, DeleteFails, server
<1> QED
  BY <1>1, <1>2, <1>3, <1>4, <1>5, <1>6 DEF Next

(* The page implements the safety part of FreshView: in whatever order the  *)
(* answers of refreshes arrive, the list on the screen never goes back to  *)
(* one older than a list already shown.                                    *)
THEOREM NeverGoesBack == Spec => View!Safety
<1>1. Init => View!Init
  BY DEF Init, View!Init, Rows
<1>2. IInv /\ [Next]_vars => [View!Next]_View!vars
  BY StepRefines
<1> QED
  BY <1>1, <1>2, Invariant, PTL DEF Spec, View!Safety
=============================================================================
