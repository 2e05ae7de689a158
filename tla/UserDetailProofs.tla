-------------------------- MODULE UserDetailProofs --------------------------
(***************************************************************************)
(* OwnFields and TypeOK for any number of users, requests and answers      *)
(* under way.                                                              *)
(*                                                                         *)
(* A row is sound when it carries the fields of its own user.  The proof   *)
(* follows the rows wherever they go: the table, the answers under way,    *)
(* the selection, the form, and the requests that save the form.           *)
(***************************************************************************)
EXTENDS UserDetail, WellFoundedInduction, TLAPS

Own == {r \in Row : r.of = r.id}
Selectable == Own \union {None}

Refresh == [owner : Nat, got : Answer]
RowsOwn == row \in [User -> Own] /\ \A u \in User : row[u].id = u
AnswersOwn == poll.reply \subseteq Own /\ \A r \in refreshes : r \in Refresh /\ r.got.reply \subseteq Own
FormOwn == form \in User \union {None} /\ (mounted /\ user # None => form = user.id)
Request == [n : Nat, kind : Kind, id : User, device : Device \union {None},
            of : User \union {None}, status : Status \union {None}, live : BOOLEAN,
            at : {"sent", "done", "failed", "refresh"}, got : Selectable]
CallOwn(c) ==
  /\ c \in Request
  /\ c.kind = "save" => c.of = c.id
  /\ c.kind \in {"save", "enable", "disable", "delete"} => c.status \in Status
CallsOwn == \A c \in calls : CallOwn(c)

IInv == RowsOwn /\ AnswersOwn /\ user \in Selectable /\ FormOwn /\ CallsOwn /\ made \in Nat

-----------------------------------------------------------------------------
(* The users page and every answer offer sound rows only. *)
LEMMA VisibleOwn == ASSUME RowsOwn PROVE visibleUsers \subseteq Own
BY DEF RowsOwn, visibleUsers

(* Selecting a sound row, or nobody, leaves a form that belongs to it. *)
LEMMA SelectOwn ==
  ASSUME NEW u \in Selectable, FormOwn, Select(u), mounted' = mounted
  PROVE  user' \in Selectable /\ FormOwn'
<1>1. user' \in Selectable
  BY DEF Select, Selectable, Own, Row
<1>2. CASE mounted
  BY <1>2 DEF Select, Effect, FormReset, userFormFromUser, FormOwn, Selectable, Own, Row
<1>3. CASE ~mounted
  BY <1>3 DEF Select, FormOwn, shown
<1> QED
  BY <1>1, <1>2, <1>3

(* A deletion leaves the selection alone or empties it. *)
LEMMA DropsOwn ==
  ASSUME NEW u, user \in Selectable, FormOwn, Drops(u), mounted' = mounted
  PROVE  user' \in Selectable /\ FormOwn'
<1>1. CASE user # None /\ user.id = u
  <2>1. Select(None)
    BY <1>1 DEF Drops
  <2>2. None \in Selectable
    BY DEF Selectable
  <2> QED
    BY <2>1, <2>2, SelectOwn
<1>2. CASE ~(user # None /\ user.id = u)
  BY <1>2 DEF Drops, FormOwn, shown
<1> QED
  BY <1>1, <1>2

(* A request from the card names the selected user; its form is the one    *)
(* that the user's own row has filled.                                     *)
LEMMA ActsOwn ==
  ASSUME IInv, NEW kind \in Kind, NEW device \in Device \union {None},
         NEW status \in Status \union {None}, Acts(kind, device, status),
         kind \in {"save", "enable", "disable", "delete"} => status \in Status
  PROVE  IInv'
<1>1. UNCHANGED <<row, poll, refreshes, user, mounted, form>>
  BY DEF Acts, server, panel, shown
<1> DEFINE c == [n |-> made + 1, kind |-> kind, id |-> user.id, device |-> device,
                 of |-> form, status |-> status, live |-> TRUE, at |-> "sent", got |-> None]
<1>2. calls' = calls \union {c} /\ mounted /\ user # None /\ made' = made + 1
  BY DEF Acts
<1>3. user \in Own /\ user.id \in User /\ form = user.id /\ made \in Nat
  BY <1>2 DEF IInv, FormOwn, Selectable, Own, Row
<1>4. c \in Request
  BY <1>3 DEF Request, Selectable
<1>5. CallOwn(c)
  BY <1>3, <1>4 DEF CallOwn
<1>6. CallsOwn'
  BY <1>2, <1>5 DEF IInv, CallsOwn, CallOwn, Request, Selectable, Own
<1> QED
  BY <1>1, <1>2, <1>3, <1>6 DEF IInv, RowsOwn, AnswersOwn, FormOwn, Selectable

(* What becomes of a request: it keeps its user, its fields and its status. *)
LEMMA MovesOwn ==
  ASSUME CallsOwn, NEW c \in calls, NEW at \in {"sent", "done", "failed", "refresh"},
         NEW got \in Selectable,
         \/ Moves(c, [c EXCEPT !.at = at, !.got = got])
         \/ got = c.got /\ Moves(c, [c EXCEPT !.at = at])
  PROVE  CallsOwn'
<1>1. CallOwn(c)
  BY DEF CallsOwn
<1> DEFINE to == [n |-> c.n, kind |-> c.kind, id |-> c.id, device |-> c.device, of |-> c.of,
                  status |-> c.status, live |-> c.live, at |-> at, got |-> got]
<1>2. Moves(c, to)
  <2>1. PICK r : r = [c EXCEPT !.at = at, !.got = got]
    OBVIOUS
  <2>2. PICK s : s = [c EXCEPT !.at = at]
    OBVIOUS
  <2>3. r = to
    BY <1>1, <2>1 DEF CallOwn, Request
  <2>4. got = c.got => s = to
    BY <1>1, <2>2 DEF CallOwn, Request
  <2> QED
    BY <2>1, <2>2, <2>3, <2>4
<1>3. CallOwn(to)
  BY <1>1 DEF CallOwn, Request
<1> HIDE DEF to
<1> QED
  BY <1>2, <1>3 DEF CallsOwn, CallOwn, Request, Selectable, Moves, Own

(* Requests end, or lose the card they were sent from. *)
LEMMA FewerCalls ==
  ASSUME CallsOwn, NEW C \in SUBSET calls, calls' = C \/ calls' = Orphaned(C)
  PROVE  CallsOwn'
<1>1. CASE calls' = C
  BY <1>1 DEF CallsOwn, CallOwn, Request, Selectable, Own
<1>2. CASE calls' = Orphaned(C)
  <2> SUFFICES ASSUME NEW d \in calls' PROVE CallOwn(d)'
    BY DEF CallsOwn
  <2>1. PICK c \in C : d = [c EXCEPT !.live = FALSE]
    BY <1>2 DEF Orphaned
  <2>2. CallOwn(c)
    BY DEF CallsOwn
  <2>3. d = [n |-> c.n, kind |-> c.kind, id |-> c.id, device |-> c.device, of |-> c.of,
             status |-> c.status, live |-> FALSE, at |-> c.at, got |-> c.got]
    BY <2>1, <2>2 DEF CallOwn, Request
  <2>4. CallOwn(d)
    BY <2>2, <2>3 DEF CallOwn, Request
  <2> QED
    BY <2>4 DEF CallOwn, Request, Selectable, Own
<1> QED
  BY <1>1, <1>2

(* Answers on their way: a list read from the table is sound, and no       *)
(* answer is added but such a list or an empty one.                        *)
LEMMA RefreshStarts ==
  ASSUME AnswersOwn, NEW owner \in Nat, StartRefresh(owner), UNCHANGED poll
  PROVE  AnswersOwn'
<1> DEFINE x == [owner |-> owner, got |-> Idle]
<1>1. Idle \in Answer /\ Idle.reply \subseteq Own
  BY DEF Idle, Answer
<1>2. x \in Refresh /\ x.got = Idle
  BY <1>1 DEF Refresh
<1>3. refreshes' = refreshes \union {x}
  BY DEF StartRefresh
<1> HIDE DEF x
<1> QED
  BY <1>1, <1>2, <1>3 DEF AnswersOwn, Refresh

(* The eight variables that the invariant is about, all left alone. *)
LEMMA Untouched ==
  ASSUME IInv, UNCHANGED <<row, poll, refreshes, user, mounted, form, calls, made>>
  PROVE  IInv'
BY DEF IInv, RowsOwn, AnswersOwn, FormOwn, CallsOwn, CallOwn, Request, Selectable

(* A row that is served stays, or becomes, its user's own. *)
LEMMA StoredOwn ==
  ASSUME RowsOwn, NEW c, CallOwn(c)
  PROVE  Stored(c) \in Own /\ Stored(c).id = c.id
<1>1. c.id \in User /\ row[c.id] \in Own /\ row[c.id].id = c.id
  BY DEF CallOwn, Request, RowsOwn
<1>2. CASE c.kind = "save"
  BY <1>1, <1>2 DEF Stored, CallOwn, Own, Row
<1>3. CASE c.kind \in {"enable", "disable", "delete"}
  <2>1. PICK r : r = [row[c.id] EXCEPT !.status = c.status]
    OBVIOUS
  <2>2. Stored(c) = r /\ c.status \in Status
    BY <1>3, <2>1 DEF Stored, CallOwn
  <2>3. r = [id |-> row[c.id].id, status |-> c.status, of |-> row[c.id].of]
    BY <1>1, <2>1 DEF Own, Row
  <2> QED
    BY <1>1, <2>2, <2>3 DEF Own, Row
<1>4. CASE c.kind \notin {"save", "enable", "disable", "delete"}
  BY <1>1, <1>4 DEF Stored
<1> QED
  BY <1>2, <1>3, <1>4

-----------------------------------------------------------------------------
(* The invariant under what the card does. *)
LEMMA CardKeeps ==
  ASSUME IInv
  PROVE  /\ Open \/ Back => IInv'
         /\ saveUserSettings \/ revokeDevice \/ resetDevices => IInv'
         /\ deleteUser \/ EnableOrDisable \/ regenerate => IInv'
<1>1. ASSUME Open PROVE IInv'
  <2>1. PICK u \in visibleUsers : user' = u /\ Effect(u)
    BY <1>1 DEF Open
  <2>2. u \in Own
    BY <2>1, VisibleOwn DEF IInv
  <2>3. user' \in Selectable /\ FormOwn'
    BY <2>1, <2>2 DEF Effect, FormReset, userFormFromUser, FormOwn, Selectable, Own, Row
  <2>4. UNCHANGED <<row, poll, refreshes, calls, made>>
    BY <1>1 DEF Open, server, requests
  <2> QED
    BY <2>3, <2>4 DEF IInv, RowsOwn, AnswersOwn, CallsOwn
<1>2. ASSUME Back PROVE IInv'
  <2>1. UNCHANGED <<row, poll, refreshes, user, made>> /\ mounted' = FALSE /\ form' = None
    BY <1>2 DEF Back, Unmount, server, panel
  <2>2. CallsOwn'
    BY <1>2, FewerCalls DEF Back, IInv
  <2> QED
    BY <2>1, <2>2 DEF IInv, RowsOwn, AnswersOwn, FormOwn
<1>3. ASSUME saveUserSettings PROVE IInv'
  BY <1>3, ActsOwn DEF saveUserSettings, Typed, Kind, Status
<1>4. ASSUME revokeDevice PROVE IInv'
  BY <1>4, ActsOwn DEF revokeDevice, Kind
<1>5. ASSUME resetDevices PROVE IInv'
  BY <1>5, ActsOwn DEF resetDevices, Kind
<1>6. ASSUME deleteUser PROVE IInv'
  BY <1>6, ActsOwn DEF deleteUser, Kind, Status
<1>7. ASSUME EnableOrDisable PROVE IInv'
  BY <1>7, ActsOwn DEF EnableOrDisable, confirmAction, Kind, UserAction, Status
<1>8. ASSUME regenerate PROVE IInv'
  BY <1>8, ActsOwn DEF regenerate, confirmAction, Kind, UserAction
<1> QED
  BY <1>1, <1>2, <1>3, <1>4, <1>5, <1>6, <1>7, <1>8

(* The invariant under the server, and under what others do. *)
LEMMA ServerKeeps ==
  ASSUME IInv
  PROVE  /\ OthersChange => IInv'
         /\ \A c \in calls : Serve(c) \/ Fails(c) => IInv'
<1>1. ASSUME OthersChange PROVE IInv'
  <2>1. RowsOwn'
    <3>1. CASE UNCHANGED row
      BY <3>1 DEF IInv, RowsOwn
    <3>2. CASE \E u \in User, t \in Status : row' = [row EXCEPT ![u].status = t]
      <4>1. PICK u \in User, t \in Status : row' = [row EXCEPT ![u] = [row[u] EXCEPT !.status = t]]
        BY <3>2
      <4>2. PICK r : r = [row[u] EXCEPT !.status = t]
        OBVIOUS
      <4>3. row[u] \in Own /\ row[u].id = u
        BY DEF IInv, RowsOwn
      <4>4. r = [id |-> row[u].id, status |-> t, of |-> row[u].of]
        BY <4>2, <4>3 DEF Own, Row
      <4>5. r \in Own /\ r.id = u
        BY <4>3, <4>4 DEF Own, Row
      <4> QED
        BY <4>1, <4>2, <4>5 DEF IInv, RowsOwn
    <3> QED
      BY <1>1, <3>1, <3>2 DEF OthersChange
  <2>2. UNCHANGED <<poll, refreshes, user, mounted, form, calls, made>>
    BY <1>1 DEF OthersChange, panel, shown, requests
  <2> QED
    BY <2>1, <2>2 DEF IInv, AnswersOwn, FormOwn, CallsOwn
<1>2. ASSUME NEW c \in calls, Serve(c) PROVE IInv'
  <2>1. CallOwn(c)
    BY DEF IInv, CallsOwn
  <2>2. Stored(c) \in Own /\ Stored(c).id = c.id /\ c.id \in User /\ c.got \in Selectable
    BY <2>1, StoredOwn DEF IInv, CallOwn, Request
  <2>3. RowsOwn'
    BY <1>2, <2>2 DEF Serve, IInv, RowsOwn, server
  <2>4. CallsOwn'
    BY <1>2, <2>2, MovesOwn DEF Serve, IInv, Selectable
  <2>5. UNCHANGED <<poll, refreshes, user, mounted, form, made>>
    BY <1>2 DEF Serve, panel, shown
  <2> QED
    BY <2>3, <2>4, <2>5 DEF IInv, AnswersOwn, FormOwn
<1>3. ASSUME NEW c \in calls, Fails(c) PROVE IInv'
  <2>1. CallsOwn'
    BY <1>3, FewerCalls DEF Fails, IInv
  <2>2. UNCHANGED <<row, poll, refreshes, user, mounted, form, made>>
    BY <1>3 DEF Fails, server, panel, shown
  <2> QED
    BY <2>1, <2>2 DEF IInv, RowsOwn, AnswersOwn, FormOwn
<1> QED
  BY <1>1, <1>2, <1>3

(* The invariant under the answers to a request, whoever is selected by then. *)
LEMMA AnswersKeep ==
  ASSUME IInv, NEW c \in calls
  PROVE  Updated(c) \/ Deleted(c) \/ DevicesChanged(c) => IInv'
<1>1. CallOwn(c) /\ c.got \in Selectable /\ None \in Selectable
  BY DEF IInv, CallsOwn, CallOwn, Request, Selectable
<1>2. ASSUME Updated(c) PROVE IInv'
  <2>1. user' \in Selectable /\ FormOwn'
    BY <1>1, <1>2, DropsOwn, SelectOwn DEF Updated, upsertUser, IInv
  <2>2. CallsOwn'
    BY <1>1, <1>2, MovesOwn DEF Updated, IInv
  <2>3. AnswersOwn'
    BY <1>1, <1>2, RefreshStarts DEF Updated, IInv, CallOwn, Request
  <2>4. UNCHANGED <<row, made>>
    BY <1>2 DEF Updated, server
  <2> QED
    BY <2>1, <2>2, <2>3, <2>4 DEF IInv, RowsOwn
<1>3. ASSUME Deleted(c) PROVE IInv'
  <2>1. user' \in Selectable /\ FormOwn'
    BY <1>3, DropsOwn DEF Deleted, IInv
  <2>2. CallsOwn'
    BY <1>1, <1>3, MovesOwn DEF Deleted, IInv
  <2>3. AnswersOwn'
    BY <1>1, <1>3, RefreshStarts DEF Deleted, IInv, CallOwn, Request
  <2>4. UNCHANGED <<row, made>>
    BY <1>3 DEF Deleted, server
  <2> QED
    BY <2>1, <2>2, <2>3, <2>4 DEF IInv, RowsOwn
<1>4. ASSUME DevicesChanged(c) PROVE IInv'
  <2>1. CallsOwn'
    BY <1>4, FewerCalls DEF DevicesChanged, IInv
  <2>2. UNCHANGED <<row, poll, refreshes, user, mounted, form, made>>
    BY <1>4 DEF DevicesChanged, server, panel
  <2> QED
    BY <2>1, <2>2 DEF IInv, RowsOwn, AnswersOwn, FormOwn
<1> QED
  BY <1>2, <1>3, <1>4

(* The invariant under polls and refreshes. *)
LEMMA PollsKeep ==
  ASSUME IInv
  PROVE  OtherRefresh \/ PollRead \/ PollArrives => IInv'
<1>1. visibleUsers \subseteq Own
  BY VisibleOwn DEF IInv
<1>2. ASSUME OtherRefresh PROVE IInv'
  <2> DEFINE answer == [replied |-> TRUE, reply |-> visibleUsers]
             x == [owner |-> 0, got |-> answer]
  <2>1. AnswersOwn'
    <3>1. answer \in Answer /\ answer.reply \subseteq Own
      BY <1>1 DEF Answer, Own
    <3>2. x \in Refresh /\ x.got.reply \subseteq Own
      BY <3>1 DEF Refresh
    <3>3. refreshes' = refreshes \union {x} /\ UNCHANGED poll
      BY <1>2 DEF OtherRefresh
    <3> HIDE DEF answer, x
    <3> QED
      BY <3>2, <3>3 DEF IInv, AnswersOwn, Refresh
  <2>2. UNCHANGED <<row, user, mounted, form, calls, made>>
    BY <1>2 DEF OtherRefresh, server, shown, requests
  <2> QED
    BY <2>1, <2>2 DEF IInv, RowsOwn, FormOwn, CallsOwn
<1>3. ASSUME PollRead PROVE IInv'
  <2>1. AnswersOwn'
    BY <1>1, <1>3 DEF PollRead, IInv, AnswersOwn
  <2>2. UNCHANGED <<row, user, mounted, form, calls, made>>
    BY <1>3 DEF PollRead, server, shown, requests
  <2> QED
    BY <2>1, <2>2 DEF IInv, RowsOwn, FormOwn, CallsOwn
<1>4. ASSUME PollArrives PROVE IInv'
  <2>1. AnswersOwn'
    BY <1>4 DEF PollArrives, Idle, IInv, AnswersOwn
  <2>2. UNCHANGED <<row, mounted, calls, made>>
    BY <1>4 DEF PollArrives, server, requests
  <2>3. PollFinds(poll.reply) \subseteq Selectable
    BY DEF PollFinds, Current, IInv, AnswersOwn, Selectable
  <2>4. user' \in Selectable /\ FormOwn'
    <3>1. CASE UNCHANGED <<user, shown>>
      BY <2>2, <3>1 DEF IInv, FormOwn, shown
    <3>2. CASE \E u \in PollFinds(poll.reply) : Select(u)
      BY <2>2, <2>3, <3>2, SelectOwn DEF IInv
    <3> QED
      BY <1>4, <3>1, <3>2 DEF PollArrives
  <2> QED
    BY <2>1, <2>2, <2>4 DEF IInv, RowsOwn, CallsOwn
<1> QED
  BY <1>2, <1>3, <1>4

(* ... and when the answer to a refresh selects another user. *)
LEMMA RefreshesKeep ==
  ASSUME IInv, NEW r \in refreshes
  PROVE  RefreshRead(r) \/ RefreshArrives(r) => IInv'
<1>1. ASSUME RefreshRead(r) PROVE IInv'
  <2> DEFINE q == [owner |-> r.owner, got |-> [replied |-> TRUE, reply |-> visibleUsers]]
  <2>1. refreshes' = (refreshes \ {r}) \union {q}
    <3>1. PICK x : x = [r EXCEPT !.got = [replied |-> TRUE, reply |-> visibleUsers]]
      OBVIOUS
    <3>2. x = q
      BY <3>1 DEF IInv, AnswersOwn, Refresh
    <3> QED
      BY <1>1, <3>1, <3>2 DEF RefreshRead
  <2>2. visibleUsers \subseteq Own
    BY VisibleOwn DEF IInv
  <2>3. q \in Refresh /\ q.got.reply \subseteq Own
    BY <2>2 DEF IInv, AnswersOwn, Refresh, Answer, Own
  <2>4. AnswersOwn'
    BY <1>1, <2>1, <2>3 DEF RefreshRead, IInv, AnswersOwn, Refresh, Answer
  <2>5. UNCHANGED <<row, user, mounted, form, calls, made>>
    BY <1>1 DEF RefreshRead, server, shown, requests
  <2> QED
    BY <2>4, <2>5 DEF IInv, RowsOwn, FormOwn, CallsOwn
<1>2. ASSUME RefreshArrives(r) PROVE IInv'
  <2>1. AnswersOwn'
    BY <1>2 DEF RefreshArrives, IInv, AnswersOwn
  <2>2. UNCHANGED <<row, made>>
    BY <1>2 DEF RefreshArrives, server
  <2>3. user' \in Selectable
    <3>1. r.got.reply \subseteq Own
      BY DEF IInv, AnswersOwn
    <3>2. Reselect(r.got.reply) => user' \in Selectable
      BY <3>1 DEF Reselect, Current, Selectable
    <3> QED
      BY <1>2, <3>2 DEF RefreshArrives, IInv
  <2> DEFINE mine == {c \in calls : c.n = r.owner}
  <2>4. calls \ mine \in SUBSET calls
    OBVIOUS
  <2>5. CASE mounted /\ \E c \in mine : c.kind = "delete"
    <3>1. Unmount /\ calls' = Orphaned(calls \ mine)
      BY <1>2, <2>5 DEF RefreshArrives
    <3>2. FormOwn'
      BY <3>1 DEF Unmount, FormOwn
    <3>3. CallsOwn'
      BY <3>1, <2>4, FewerCalls DEF IInv
    <3> QED
      BY <2>1, <2>2, <2>3, <3>2, <3>3 DEF IInv, RowsOwn
  <2>6. CASE ~(mounted /\ \E c \in mine : c.kind = "delete")
    <3>1. calls' = calls \ mine /\ mounted' = mounted
      BY <1>2, <2>6 DEF RefreshArrives
    <3>2. CallsOwn'
      BY <3>1, <2>4, FewerCalls DEF IInv
    <3>3. CASE mounted /\ r.got.replied
      <4>1. Effect(user')
        BY <1>2, <2>6, <3>3 DEF RefreshArrives
      <4>2. FormOwn'
        BY <4>1, <2>3, <3>1, <3>3 DEF Effect, FormReset, userFormFromUser, FormOwn, Selectable, Own, Row
      <4> QED
        BY <2>1, <2>2, <2>3, <3>2, <4>2 DEF IInv, RowsOwn
    <3>4. CASE ~(mounted /\ r.got.replied)
      <4>1. UNCHANGED form
        BY <1>2, <2>6, <3>4 DEF RefreshArrives, shown
      <4>2. mounted => UNCHANGED user
        BY <1>2, <3>4 DEF RefreshArrives
      <4>3. FormOwn'
        BY <4>1, <4>2, <3>1 DEF IInv, FormOwn
      <4> QED
        BY <2>1, <2>2, <2>3, <3>2, <4>3 DEF IInv, RowsOwn
    <3> QED
      BY <3>3, <3>4
  <2> QED
    BY <2>5, <2>6
<1> QED
  BY <1>1, <1>2

-----------------------------------------------------------------------------
(* The inductive invariant. *)
THEOREM Invariant == Spec => []IInv
<1>1. Init => IInv
  <2> SUFFICES ASSUME Init PROVE IInv
    OBVIOUS
  <2>1. RowsOwn
    BY DEF Init, RowsOwn, Own, Row, Status
  <2>2. AnswersOwn /\ user \in Selectable /\ FormOwn /\ CallsOwn /\ made \in Nat
    BY DEF Init, AnswersOwn, Idle, Selectable, FormOwn, CallsOwn
  <2> QED
    BY <2>1, <2>2 DEF IInv
<1>2. IInv /\ [Next]_vars => IInv'
  <2> SUFFICES ASSUME IInv, [Next]_vars PROVE IInv'
    OBVIOUS
  <2>1. CASE Open \/ Back \/ saveUserSettings \/ revokeDevice \/ resetDevices
             \/ deleteUser \/ EnableOrDisable \/ regenerate
    BY <2>1, CardKeeps
  <2>2. CASE OthersChange \/ \E c \in calls : Serve(c) \/ Fails(c)
    BY <2>2, ServerKeeps
  <2>3. CASE \E c \in calls : Updated(c) \/ Deleted(c) \/ DevicesChanged(c)
    BY <2>3, AnswersKeep
  <2>4. CASE OtherRefresh \/ PollRead \/ PollArrives
    BY <2>4, PollsKeep
  <2>5. CASE \E r \in refreshes : RefreshRead(r) \/ RefreshArrives(r)
    BY <2>5, RefreshesKeep
  <2>6. CASE \E r \in reads : DevicesRead(r) \/ DevicesArrive(r)
    BY <2>6, Untouched DEF DevicesRead, DevicesArrive, server, panel, requests
  <2>7. CASE \E u \in User : PreviewArrives(u)
    BY <2>7, Untouched DEF PreviewArrives, server, panel, requests
  <2>8. CASE UNCHANGED vars
    BY <2>8, Untouched DEF vars, server, panel, shown, requests
  <2> QED
    BY <2>1, <2>2, <2>3, <2>4, <2>5, <2>6, <2>7, <2>8 DEF Next
<1> QED
  BY <1>1, <1>2, PTL DEF Spec

(* The fields in the table, and those in the form of a selected user, are  *)
(* that user's own: through saves, actions, deletions, late answers, polls *)
(* and refreshes in any order and any number.                              *)
THEOREM FieldsStayOwn == Spec => []OwnFields
<1>1. IInv => OwnFields
  BY DEF IInv, RowsOwn, FormOwn, OwnFields, Own
<1> QED
  BY <1>1, Invariant, PTL

-----------------------------------------------------------------------------
(* The card: its lists, and what it has asked for.  Every device list asked *)
(* for has a number of its own, and a card that is gone awaits nothing.     *)
ReadsTyped == reads \subseteq Read /\ \A r, s \in reads : r.n = s.n => r = s
CardTyped ==
  /\ list \subseteq Device /\ blocks \in User \union {None} /\ previews \subseteq User
  /\ ReadsTyped
  /\ mounted \in BOOLEAN /\ (~mounted => reads = {} /\ previews = {})

(* Requests are numbered within the bound, and wait for the card they were  *)
(* sent from while it is there; refreshes carry their numbers.              *)
CallsTyped == made \in 0 .. MaxCalls /\ \A c \in calls : c.n \in 1 .. MaxCalls /\ (c.live => mounted)
AnswersTyped == poll \in Answer /\ \A r \in refreshes : r.owner \in 0 .. MaxCalls

WellTyped ==
  /\ CardTyped /\ CallsTyped /\ AnswersTyped
  /\ devices \subseteq Device /\ spent \in 0 .. MaxEvents

(* A set of numbers that is not empty has a least one. *)
LEMMA Least ==
  ASSUME NEW T \in SUBSET Nat, T # {}
  PROVE  \E n \in T : \A m \in T : n <= m
<1> DEFINE L == {ss \in Nat \X Nat : ss[1] < ss[2]}
<1>1. IsWellFoundedOn(L, Nat)
  BY NatLessThanWellFounded DEF OpToRel
<1> HIDE DEF L
<1>2. PICK n \in T : \A m \in T : <<m, n>> \notin L
  BY <1>1, WFMin, Zenon
<1>3. \A m \in T : ~(m < n)
  BY <1>2 DEF L
<1> QED
  BY <1>2, <1>3

(* Asking for the devices of a user takes a number that is free. *)
LEMMA AskTyped ==
  ASSUME ReadsTyped, NEW u \in User, AskDevices(u)
  PROVE  ReadsTyped'
<1>1. FreeRead \subseteq Nat /\ FreeRead # {}
  BY BoundAssumption DEF AskDevices, FreeRead
<1> DEFINE n == CHOOSE n \in FreeRead : \A m \in FreeRead : n <= m
           r == [n |-> n, of |-> u, replied |-> FALSE, reply |-> {}]
<1>2. n \in FreeRead
  BY <1>1, Least
<1>3. reads' = reads \union {r}
  BY DEF AskDevices
<1> HIDE DEF n
<1>4. r \in Read /\ \A s \in reads : s.n # r.n
  BY <1>2 DEF Read, FreeRead
<1> HIDE DEF r
<1> QED
  BY <1>3, <1>4 DEF ReadsTyped

(* The effect of a selection leaves the card typed. *)
LEMMA EffectTyped ==
  ASSUME CardTyped, NEW u \in Selectable, Effect(u), mounted' = TRUE
  PROVE  CardTyped'
<1>1. CASE u = None
  BY <1>1 DEF Effect, CardTyped, ReadsTyped
<1>2. CASE u # None
  <2>1. u.id \in User
    BY <1>2 DEF Selectable, Own, Row
  <2>2. list' = list /\ blocks' = u.id /\ AskDevices(u.id) /\ previews' = previews \union {u.id}
    BY <1>2 DEF Effect
  <2>3. ReadsTyped'
    BY <2>1, <2>2, AskTyped DEF CardTyped
  <2> QED
    BY <2>1, <2>2, <2>3 DEF CardTyped
<1> QED
  BY <1>1, <1>2

(* A user that is selected gives the card well-typed contents. *)
LEMMA SelectTyped ==
  ASSUME CardTyped, NEW u \in Selectable, Select(u), mounted' = mounted
  PROVE  CardTyped'
<1>1. CASE mounted
  BY <1>1, EffectTyped DEF Select, CardTyped
<1>2. CASE ~mounted
  BY <1>2 DEF Select, CardTyped, ReadsTyped, shown
<1> QED
  BY <1>1, <1>2

(* A card that stays as it is. *)
LEMMA CardStays ==
  ASSUME CardTyped, UNCHANGED <<shown, mounted>> PROVE CardTyped'
BY DEF CardTyped, ReadsTyped, shown

(* So does whatever is left selected when a user disappears. *)
LEMMA DropsTyped ==
  ASSUME CardTyped, NEW u, Drops(u), mounted' = mounted
  PROVE  CardTyped'
BY SelectTyped, CardStays DEF Drops, Selectable

(* An event is spent, or none is. *)
LEMMA Spent == ASSUME spent \in 0 .. MaxEvents, Spend \/ UNCHANGED spent PROVE spent' \in 0 .. MaxEvents
BY BoundAssumption DEF Spend

(* A request moves on; requests end, or lose their card. *)
LEMMA MovesTyped ==
  ASSUME CallsTyped, CallsOwn, NEW c \in calls, NEW at, NEW got, UNCHANGED <<made, mounted>>,
         Moves(c, [c EXCEPT !.at = at]) \/ Moves(c, [c EXCEPT !.at = at, !.got = got])
  PROVE  CallsTyped'
<1>1. c \in Request
  BY DEF CallsOwn, CallOwn
<1>2. PICK r : r = [c EXCEPT !.at = at]
  OBVIOUS
<1>3. PICK s : s = [c EXCEPT !.at = at, !.got = got]
  OBVIOUS
<1>4. r.n = c.n /\ r.live = c.live /\ s.n = c.n /\ s.live = c.live
  BY <1>1, <1>2, <1>3 DEF Request
<1>5. calls' = (calls \ {c}) \union {r} \/ calls' = (calls \ {c}) \union {s}
  BY <1>2, <1>3 DEF Moves
<1> QED
  BY <1>4, <1>5 DEF CallsTyped

(* Requests that end, or are left without a card, keep the calls well typed. *)
LEMMA EndsTyped ==
  ASSUME CallsTyped, CallsOwn, NEW C \in SUBSET calls, UNCHANGED made,
         \/ calls' = C /\ UNCHANGED mounted
         \/ calls' = Orphaned(C)
  PROVE  CallsTyped'
<1>1. CASE calls' = C /\ UNCHANGED mounted
  BY <1>1 DEF CallsTyped
<1>2. CASE calls' = Orphaned(C)
  <2>1. ASSUME NEW d \in calls' PROVE d.n \in 1 .. MaxCalls /\ ~d.live
    <3>1. PICK c \in C : d = [c EXCEPT !.live = FALSE]
      BY <1>2, <2>1 DEF Orphaned
    <3>2. c \in Request /\ c.n \in 1 .. MaxCalls
      BY DEF CallsTyped, CallsOwn, CallOwn
    <3>3. PICK no \in BOOLEAN : no = FALSE
      OBVIOUS
    <3>4. d.n = c.n /\ d.live = no
      BY <3>1, <3>2, <3>3 DEF Request
    <3> QED
      BY <3>2, <3>3, <3>4
  <2> QED
    BY <2>1 DEF CallsTyped
<1> QED
  BY <1>1, <1>2

(* The card that goes off the screen. *)
LEMMA UnmountTyped == ASSUME Unmount PROVE CardTyped'
BY DEF Unmount, CardTyped, ReadsTyped

-----------------------------------------------------------------------------
(* The types under what the card does. *)
LEMMA CardKeepsTypes ==
  ASSUME WellTyped, IInv
  PROVE  /\ Open \/ Back => WellTyped'
         /\ (\E kind, device, status : Acts(kind, device, status)) => WellTyped'
         /\ \A r \in reads : DevicesRead(r) \/ DevicesArrive(r) => WellTyped'
         /\ \A u \in User : PreviewArrives(u) => WellTyped'
<1>1. ASSUME Open PROVE WellTyped'
  <2>1. PICK u \in visibleUsers : Effect(u)
    BY <1>1 DEF Open
  <2>2. u \in Selectable
    BY VisibleOwn DEF IInv, Selectable
  <2>3. CardTyped'
    BY <1>1, <2>1, <2>2, EffectTyped DEF Open, WellTyped
  <2> QED
    BY <1>1, <2>3 DEF Open, WellTyped, CallsTyped, AnswersTyped, server, requests
<1>2. ASSUME Back PROVE WellTyped'
  <2>1. CallsTyped'
    BY <1>2, EndsTyped DEF Back, WellTyped, IInv
  <2> QED
    BY <1>2, <2>1, UnmountTyped DEF Back, WellTyped, AnswersTyped, server, panel
<1>3. ASSUME NEW kind, NEW device, NEW status, Acts(kind, device, status) PROVE WellTyped'
  <2> DEFINE c == [n |-> made + 1, kind |-> kind, id |-> user.id, device |-> device,
                   of |-> form, status |-> status, live |-> TRUE, at |-> "sent", got |-> None]
  <2>1. calls' = calls \union {c} /\ made' = made + 1 /\ made < MaxCalls /\ mounted
    BY <1>3 DEF Acts
  <2>2. c.n = made + 1
    OBVIOUS
  <2> HIDE DEF c
  <2>3. UNCHANGED <<server, panel, mounted, shown, spent>>
    BY <1>3 DEF Acts
  <2>4. made + 1 \in 1 .. MaxCalls
    BY <2>1, BoundAssumption DEF WellTyped, CallsTyped
  <2>5. CallsTyped'
    BY <2>1, <2>2, <2>3, <2>4, BoundAssumption DEF WellTyped, CallsTyped
  <2> QED
    BY <2>3, <2>5, CardStays DEF WellTyped, AnswersTyped, server, panel
<1>4. ASSUME NEW r \in reads, DevicesRead(r) PROVE WellTyped'
  <2>1. r \in Read
    BY DEF WellTyped, CardTyped, ReadsTyped
  <2> DEFINE q == [n |-> r.n, of |-> r.of, replied |-> TRUE, reply |-> DevicesOf(r.of)]
  <2>2. PICK x : x = [r EXCEPT !.replied = TRUE, !.reply = DevicesOf(r.of)]
    OBVIOUS
  <2>3. x = q
    BY <2>1, <2>2 DEF Read
  <2>4. q \in Read /\ q.n = r.n
    BY <2>1 DEF Read, DevicesOf, WellTyped
  <2>5. reads' = (reads \ {r}) \union {q}
    BY <1>4, <2>2, <2>3 DEF DevicesRead
  <2> HIDE DEF q
  <2>6. ReadsTyped'
    BY <2>4, <2>5 DEF WellTyped, CardTyped, ReadsTyped
  <2>7. UNCHANGED <<server, panel, mounted, form, list, blocks, previews, requests, spent>>
    BY <1>4 DEF DevicesRead
  <2>8. mounted
    BY DEF WellTyped, CardTyped
  <2>9. CardTyped'
    BY <2>6, <2>7, <2>8 DEF WellTyped, CardTyped
  <2> QED
    BY <2>7, <2>9 DEF WellTyped, CallsTyped, AnswersTyped, server, panel, requests
<1>5. ASSUME NEW r \in reads, DevicesArrive(r) PROVE WellTyped'
  <2>1. reads' \subseteq reads /\ UNCHANGED <<server, panel, mounted, form, blocks, previews, requests>>
    BY <1>5 DEF DevicesArrive
  <2>2. list' \subseteq Device /\ (Spend \/ UNCHANGED spent)
    BY <1>5 DEF DevicesArrive, WellTyped, CardTyped, ReadsTyped, Read
  <2>3. CardTyped'
    BY <2>1, <2>2 DEF WellTyped, CardTyped, ReadsTyped
  <2> QED
    BY <2>1, <2>2, <2>3, Spent DEF WellTyped, CallsTyped, AnswersTyped, server, panel, requests
<1>6. ASSUME NEW u \in User, PreviewArrives(u) PROVE WellTyped'
  <2>1. /\ previews' \subseteq previews /\ (blocks' = u \/ UNCHANGED blocks)
        /\ UNCHANGED <<server, panel, mounted, form, list, reads, requests>>
        /\ Spend \/ UNCHANGED spent
    BY <1>6 DEF PreviewArrives
  <2>2. CardTyped'
    BY <2>1 DEF WellTyped, CardTyped, ReadsTyped
  <2> QED
    BY <2>1, <2>2, Spent DEF WellTyped, CallsTyped, AnswersTyped, server, panel, requests
<1> QED
  BY <1>1, <1>2, <1>3, <1>4, <1>5, <1>6

(* ... and under the server, and under what others do. *)
LEMMA ServerKeepsTypes ==
  ASSUME WellTyped, IInv
  PROVE  /\ OthersChange => WellTyped'
         /\ \A c \in calls : Serve(c) \/ Fails(c) => WellTyped'
<1>1. ASSUME OthersChange PROVE WellTyped'
  <2>1. devices' \subseteq Device /\ UNCHANGED <<panel, mounted, shown, requests>> /\ Spend
    BY <1>1 DEF OthersChange, WellTyped
  <2> QED
    BY <2>1, Spent, CardStays DEF WellTyped, CallsTyped, AnswersTyped, panel, requests
<1>2. ASSUME NEW c \in calls, Serve(c) PROVE WellTyped'
  <2>1. devices' \subseteq devices /\ UNCHANGED <<panel, mounted, shown, made>> /\ (Spend \/ UNCHANGED spent)
    BY <1>2 DEF Serve, server
  <2>2. CallsTyped'
    BY <1>2, <2>1, MovesTyped DEF Serve, WellTyped, IInv
  <2> QED
    BY <2>1, <2>2, Spent, CardStays DEF WellTyped, AnswersTyped, panel
<1>3. ASSUME NEW c \in calls, Fails(c) PROVE WellTyped'
  <2>1. UNCHANGED <<server, panel, mounted, shown, made, spent>> /\ calls' = calls \ {c}
    BY <1>3 DEF Fails
  <2>2. CallsTyped'
    BY <2>1, EndsTyped DEF WellTyped, IInv
  <2> QED
    BY <2>1, <2>2, CardStays DEF WellTyped, AnswersTyped, server, panel
<1> QED
  BY <1>1, <1>2, <1>3

(* ... and under the answers to a request. *)
LEMMA AnswersKeepTypes ==
  ASSUME WellTyped, IInv, NEW c \in calls
  PROVE  Updated(c) \/ Deleted(c) \/ DevicesChanged(c) => WellTyped'
<1>1. CallOwn(c) /\ c.got \in Selectable /\ c.id \in User /\ c.n \in 1 .. MaxCalls
  BY DEF IInv, CallsOwn, CallOwn, Request, WellTyped, CallsTyped
<1>2. ASSUME StartRefresh(c.n), UNCHANGED poll PROVE AnswersTyped'
  <2> DEFINE x == [owner |-> c.n, got |-> Idle]
  <2>1. refreshes' = refreshes \union {x}
    BY <1>2 DEF StartRefresh
  <2>2. x.owner = c.n
    OBVIOUS
  <2> HIDE DEF x
  <2> QED
    BY <1>1, <1>2, <2>1, <2>2, BoundAssumption DEF WellTyped, AnswersTyped
<1>3. ASSUME Updated(c) \/ Deleted(c) PROVE WellTyped'
  <2>1. /\ UNCHANGED <<server, poll, mounted, made, spent>> /\ StartRefresh(c.n)
        /\ Moves(c, [c EXCEPT !.at = "refresh", !.got = None])
    BY <1>3 DEF Updated, Deleted
  <2>2. CallsTyped'
    BY <2>1, MovesTyped DEF WellTyped, IInv
  <2>3. CardTyped'
    <3>1. Deleted(c) \/ upsertUser(c.got)
      BY <1>3 DEF Updated
    <3> QED
      BY <1>1, <2>1, <3>1, SelectTyped, DropsTyped DEF Deleted, upsertUser, WellTyped
  <2> QED
    BY <1>2, <2>1, <2>2, <2>3 DEF WellTyped, server
<1>4. ASSUME DevicesChanged(c) PROVE WellTyped'
  <2>1. UNCHANGED <<server, panel, mounted, form, list, blocks, previews, made, spent>>
        /\ calls' = calls \ {c}
    BY <1>4 DEF DevicesChanged
  <2>2. CallsTyped'
    BY <2>1, EndsTyped DEF WellTyped, IInv
  <2>3. CASE c.live
    <3>1. mounted /\ ReadsTyped'
      BY <1>1, <1>4, <2>3, AskTyped DEF DevicesChanged, WellTyped, CallsTyped, CardTyped
    <3>2. CardTyped'
      BY <2>1, <3>1 DEF WellTyped, CardTyped
    <3> QED
      BY <2>1, <2>2, <3>2 DEF WellTyped, AnswersTyped, server, panel
  <2>4. CASE ~c.live
    <3>1. UNCHANGED shown
      BY <1>4, <2>1, <2>4 DEF DevicesChanged, shown
    <3> QED
      BY <2>1, <2>2, <3>1, CardStays DEF WellTyped, AnswersTyped, server, panel
  <2> QED
    BY <2>3, <2>4
<1> QED
  BY <1>3, <1>4

(* ... and under polls and refreshes. *)
LEMMA PollsKeepTypes ==
  ASSUME WellTyped, IInv
  PROVE  /\ OtherRefresh \/ PollRead \/ PollArrives => WellTyped'
         /\ \A r \in refreshes : RefreshRead(r) \/ RefreshArrives(r) => WellTyped'
<1> DEFINE answer == [replied |-> TRUE, reply |-> visibleUsers]
<1>1. answer \in Answer /\ Idle \in Answer
  BY VisibleOwn DEF IInv, Own, Answer, Idle
<1> HIDE DEF answer
<1>2. ASSUME OtherRefresh PROVE WellTyped'
  <2> DEFINE x == [owner |-> 0, got |-> answer]
  <2>1. refreshes' = refreshes \union {x} /\ x.owner = 0
    BY <1>2 DEF OtherRefresh, answer
  <2> HIDE DEF x
  <2>2. UNCHANGED <<server, poll, mounted, shown, requests, spent>>
    BY <1>2 DEF OtherRefresh
  <2>3. AnswersTyped'
    BY <2>1, <2>2, BoundAssumption DEF WellTyped, AnswersTyped
  <2> QED
    BY <2>2, <2>3, CardStays DEF WellTyped, CallsTyped, server, requests
<1>3. ASSUME PollRead PROVE WellTyped'
  <2>1. poll' = answer /\ UNCHANGED <<server, refreshes, mounted, shown, requests, spent>>
    BY <1>3 DEF PollRead, answer
  <2> QED
    BY <1>1, <2>1, CardStays DEF WellTyped, CallsTyped, AnswersTyped, server, requests
<1>4. ASSUME PollArrives PROVE WellTyped'
  <2>1. poll' = Idle /\ UNCHANGED <<server, refreshes, mounted, requests, spent>>
    BY <1>4 DEF PollArrives
  <2>2. PollFinds(poll.reply) \subseteq Selectable
    BY DEF PollFinds, Current, IInv, AnswersOwn, Selectable
  <2>3. UNCHANGED shown \/ \E u \in PollFinds(poll.reply) : Select(u)
    BY <1>4 DEF PollArrives
  <2>4. CardTyped'
    BY <2>1, <2>2, <2>3, SelectTyped, CardStays DEF WellTyped
  <2> QED
    BY <1>1, <2>1, <2>4 DEF WellTyped, CallsTyped, AnswersTyped, server, requests
<1>5. ASSUME NEW r \in refreshes, RefreshRead(r) PROVE WellTyped'
  <2>1. PICK q : q = [r EXCEPT !.got = answer]
    OBVIOUS
  <2>2. q.owner = r.owner
    BY <2>1 DEF IInv, AnswersOwn, Refresh
  <2>3. refreshes' = (refreshes \ {r}) \union {q}
    BY <1>5, <2>1 DEF RefreshRead, answer
  <2>4. UNCHANGED <<server, poll, mounted, shown, requests, spent>>
    BY <1>5 DEF RefreshRead
  <2>5. AnswersTyped'
    BY <2>2, <2>3, <2>4 DEF WellTyped, AnswersTyped
  <2> QED
    BY <2>4, <2>5, CardStays DEF WellTyped, CallsTyped, server, requests
<1>6. ASSUME NEW r \in refreshes, RefreshArrives(r) PROVE WellTyped'
  <2> DEFINE mine == {c \in calls : c.n = r.owner}
  <2>1. refreshes' = refreshes \ {r} /\ UNCHANGED <<server, poll, made>> /\ (Spend \/ UNCHANGED spent)
    BY <1>6 DEF RefreshArrives
  <2>2. calls \ mine \in SUBSET calls
    OBVIOUS
  <2>3. user' \in Selectable
    <3>1. IInv'
      BY <1>6, RefreshesKeep
    <3> QED
      BY <3>1 DEF IInv, Selectable, Own, Row
  <2>4. CardTyped' /\ CallsTyped'
    <3>1. CASE mounted /\ \E c \in mine : c.kind = "delete"
      <4>1. Unmount /\ calls' = Orphaned(calls \ mine)
        BY <1>6, <3>1 DEF RefreshArrives
      <4> QED
        BY <2>1, <2>2, <4>1, UnmountTyped, EndsTyped DEF WellTyped, IInv
    <3>2. CASE ~(mounted /\ \E c \in mine : c.kind = "delete")
      <4>1. /\ calls' = calls \ mine /\ UNCHANGED mounted
            /\ (mounted /\ Effect(user')) \/ UNCHANGED shown
        BY <1>6, <3>2 DEF RefreshArrives
      <4>2. CallsTyped'
        BY <2>1, <2>2, <4>1, EndsTyped DEF WellTyped, IInv
      <4>3. CardTyped'
        BY <2>3, <4>1, EffectTyped, CardStays DEF WellTyped, CardTyped
      <4> QED
        BY <4>2, <4>3
    <3> QED
      BY <3>1, <3>2
  <2> QED
    BY <2>1, <2>4, Spent DEF WellTyped, AnswersTyped, server
<1> QED
  BY <1>2, <1>3, <1>4, <1>5, <1>6

(* Every row, request, list and answer is of its type, every device list   *)
(* asked for has its own number, and a card that is gone awaits nothing.   *)
THEOREM TypeCorrect == Spec => []TypeOK
<1>1. Init => WellTyped
  <2> SUFFICES ASSUME Init PROVE WellTyped
    OBVIOUS
  <2>1. CardTyped
    BY DEF Init, CardTyped, ReadsTyped
  <2>2. CallsTyped /\ spent \in 0 .. MaxEvents
    BY BoundAssumption DEF Init, CallsTyped
  <2>3. AnswersTyped
    BY DEF Init, AnswersTyped, Idle, Answer
  <2> QED
    BY <2>1, <2>2, <2>3 DEF Init, WellTyped
<1>2. IInv /\ WellTyped /\ [Next]_vars => WellTyped'
  <2> SUFFICES ASSUME IInv, WellTyped, [Next]_vars PROVE WellTyped'
    OBVIOUS
  <2>1. CASE Open \/ Back
    BY <2>1, CardKeepsTypes
  <2>2. CASE saveUserSettings \/ revokeDevice \/ resetDevices \/ deleteUser \/ EnableOrDisable \/ regenerate
    BY <2>2, CardKeepsTypes DEF saveUserSettings, revokeDevice, resetDevices, deleteUser,
       EnableOrDisable, regenerate, confirmAction
  <2>3. CASE \E r \in reads : DevicesRead(r) \/ DevicesArrive(r)
    BY <2>3, CardKeepsTypes
  <2>4. CASE \E u \in User : PreviewArrives(u)
    BY <2>4, CardKeepsTypes
  <2>5. CASE OthersChange \/ \E c \in calls : Serve(c) \/ Fails(c)
    BY <2>5, ServerKeepsTypes
  <2>6. CASE \E c \in calls : Updated(c) \/ Deleted(c) \/ DevicesChanged(c)
    BY <2>6, AnswersKeepTypes
  <2>7. CASE OtherRefresh \/ PollRead \/ PollArrives
    BY <2>7, PollsKeepTypes
  <2>8. CASE \E r \in refreshes : RefreshRead(r) \/ RefreshArrives(r)
    BY <2>8, PollsKeepTypes
  <2>9. CASE UNCHANGED vars
    BY <2>9, CardStays DEF vars, WellTyped, CallsTyped, AnswersTyped, server, panel, requests
  <2> QED
    BY <2>1, <2>2, <2>3, <2>4, <2>5, <2>6, <2>7, <2>8, <2>9 DEF Next
<1>3. IInv /\ WellTyped => TypeOK
  <2> SUFFICES ASSUME IInv, WellTyped PROVE TypeOK
    OBVIOUS
  <2>1. row \in [User -> Row] /\ user \in Row \union {None} /\ form \in User \union {None}
    BY DEF IInv, RowsOwn, Selectable, Own, FormOwn
  <2>2. calls \subseteq Call
    <3> SUFFICES ASSUME NEW c \in calls PROVE c \in Call
      OBVIOUS
    <3>1. c \in Request /\ c.n \in 1 .. MaxCalls
      BY DEF IInv, CallsOwn, CallOwn, WellTyped, CallsTyped
    <3>2. c.got \in Row \union {None}
      BY <3>1 DEF Request, Selectable, Own
    <3> QED
      BY <3>1, <3>2 DEF Request, Call
  <2>3. refreshes \subseteq [owner : 0 .. MaxCalls, got : Answer]
    BY DEF IInv, AnswersOwn, Refresh, WellTyped, AnswersTyped
  <2> QED
    BY <2>1, <2>2, <2>3 DEF WellTyped, CardTyped, ReadsTyped, CallsTyped, AnswersTyped, TypeOK
<1> QED
  BY <1>1, <1>2, <1>3, Invariant, PTL DEF Spec
=============================================================================
