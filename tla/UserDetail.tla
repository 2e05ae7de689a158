----------------------------- MODULE UserDetail -----------------------------
(***************************************************************************)
(* The card of one VPN user in the admin panel (UserDetailPage of          *)
(* App.tsx): the form, the device list and the connection data of the user *)
(* that AdminPages has selected, while the poll, refreshes and late        *)
(* answers select again, even another user.                                *)
(*                                                                         *)
(* A row is its status and `of`, whose name, login and limits it carries.  *)
(***************************************************************************)
EXTENDS Naturals, FiniteSets

CONSTANTS User, Device,
          Owner,        \* the user of each device
          None,         \* no user, no device
          MaxCalls,     \* bound: requests the administrator makes from the card
          MaxReads,     \* bound: device lists asked for and not yet arrived
          MaxEvents     \* bound: failures and changes by others

ASSUME NoneAssumption == None \notin User \union Device
ASSUME BoundAssumption == MaxCalls \in Nat /\ MaxReads \in Nat /\ MaxEvents \in Nat

VARIABLES row, devices,   \* the server
          user,           \* selectedUser
          poll,           \* the answer of refreshVisibleData under way, or Idle
          refreshes,      \* refresh calls under way
          mounted,        \* the card is on the screen
          form,           \* whose fields editForm holds; nodeSelection likewise
          list,           \* the devices on the card
          blocks,         \* whose connection data the card shows
          reads,          \* api.userDevices under way
          previews,       \* users whose api.subscriptionPreview is under way
          calls, made,    \* the administrator's requests
          spent

server == <<row, devices>>
panel == <<user, poll, refreshes>>
shown == <<form, list, blocks, reads, previews>>
requests == <<calls, made>>
vars == <<server, panel, mounted, shown, requests, spent>>

Status == {"active", "disabled", "deleted"}
Row == [id : User, status : Status, of : User]
UserAction == {"enable", "disable", "regenerate"}   \* the last changes no status
Kind == UserAction \union {"save", "revoke", "reset", "delete"}
Call == [n : 1 .. MaxCalls, kind : Kind, id : User, device : Device \union {None},
         of : User \union {None}, status : Status \union {None}, live : BOOLEAN, at : {"sent", "done", "failed", "refresh"}, got : Row \union {None}]
Read == [n : 1 .. MaxReads, of : User, replied : BOOLEAN, reply : SUBSET Device]
Answer == [replied : BOOLEAN, reply : SUBSET Row]
Idle == [replied |-> FALSE, reply |-> {}]

TypeOK ==
  /\ row \in [User -> Row] /\ devices \subseteq Device
  /\ user \in Row \union {None}
  /\ poll \in Answer
  /\ refreshes \subseteq [owner : 0 .. MaxCalls, got : Answer]
  /\ mounted \in BOOLEAN /\ form \in User \union {None}
  /\ list \subseteq Device /\ blocks \in User \union {None}
  /\ reads \subseteq Read /\ \A r, s \in reads : r.n = s.n => r = s
  /\ previews \subseteq User
  /\ calls \subseteq Call /\ made \in 0 .. MaxCalls
  /\ spent \in 0 .. MaxEvents
  /\ ~mounted => reads = {} /\ previews = {} /\ \A c \in calls : ~c.live

Init ==
  /\ row = [u \in User |-> [id |-> u, status |-> "active", of |-> u]]
  /\ devices = Device
  /\ user = None
  /\ poll = Idle /\ refreshes = {}
  /\ mounted = FALSE /\ form = None /\ list = {} /\ blocks = None
  /\ reads = {} /\ previews = {}
  /\ calls = {} /\ made = 0
  /\ spent = 0

Spend == spent < MaxEvents /\ spent' = spent + 1
visibleUsers == {row[u] : u \in {v \in User : row[v].status # "deleted"}}
DevicesOf(u) == {d \in devices : Owner[d] = u}

-----------------------------------------------------------------------------
\* The card

userFormFromUser(u) == IF u = None THEN None ELSE u.of

FreeRead == {n \in 1 .. MaxReads : \A r \in reads : r.n # n}
AskDevices(u) ==
  /\ FreeRead # {}
  /\ LET n == CHOOSE n \in FreeRead : \A m \in FreeRead : n <= m
     IN  reads' = reads \union {[n |-> n, of |-> u, replied |-> FALSE, reply |-> {}]}

savingUser == \E c \in calls : c.live /\ c.kind = "save"

FormSurvivesSave(u) == IF savingUser THEN form ELSE userFormFromUser(u)   \* mutant
FormReset(u) == userFormFromUser(u)

\* The effect of [user]: the form starts anew, whatever was typed; the devices
\* of the user before stay until the new list arrives.
Effect(u) ==
  /\ form' = FormReset(u)
  /\ IF u = None
     THEN list' = {} /\ blocks' = None /\ UNCHANGED <<reads, previews>>
     ELSE /\ UNCHANGED list /\ blocks' = u.id
          /\ AskDevices(u.id)
          /\ previews' = previews \union {u.id}

\* setSelectedUser; every answer is a new object, so the effect runs.
Select(u) ==
  /\ user' = u
  /\ IF mounted THEN Effect(u) ELSE UNCHANGED shown

\* A row of the users page.  How old that row is makes no difference: whatever
\* has happened since might as well happen after the click.
Open ==
  /\ ~mounted /\ mounted' = TRUE
  /\ \E u \in visibleUsers : user' = u /\ Effect(u)
  /\ UNCHANGED <<server, poll, refreshes, requests, spent>>

\* What an unmounted card still awaits sets nothing in the next one.
Unmount ==
  /\ mounted' = FALSE /\ form' = None /\ list' = {} /\ blocks' = None
  /\ reads' = {} /\ previews' = {}
OrphanedNever(cs) == cs                                            \* mutant
Orphaned(cs) == {[c EXCEPT !.live = FALSE] : c \in cs}

Back ==
  /\ mounted /\ Unmount /\ calls' = Orphaned(calls)
  /\ UNCHANGED <<server, panel, made, spent>>

DevicesRead(r) ==
  /\ ~r.replied
  /\ reads' = (reads \ {r}) \union {[r EXCEPT !.replied = TRUE, !.reply = DevicesOf(r.of)]}
  /\ UNCHANGED <<server, panel, mounted, form, list, blocks, previews, requests, spent>>

\* setDevices, whoever is selected by now; a failure shows no devices.
DevicesArrive(r) ==
  /\ \/ r.replied /\ list' = r.reply /\ UNCHANGED spent
     \/ ~r.replied /\ list' = {} /\ Spend
  /\ reads' = reads \ {r}
  /\ UNCHANGED <<server, panel, mounted, form, blocks, previews, requests>>

\* setAccessBlocks likewise; a failure leaves the link alone.
PreviewArrives(u) ==
  /\ u \in previews /\ previews' = previews \ {u}
  /\ \/ blocks' = u /\ UNCHANGED spent
     \/ Spend /\ UNCHANGED blocks
  /\ UNCHANGED <<server, panel, mounted, form, list, reads, requests>>

-----------------------------------------------------------------------------
\* Requests

Acts(kind, device, status) ==
  /\ mounted /\ user # None
  /\ made < MaxCalls /\ made' = made + 1
  /\ calls' = calls \union {[n |-> made + 1, kind |-> kind, id |-> user.id, device |-> device,
                             of |-> form, status |-> status, live |-> TRUE, at |-> "sent", got |-> None]}
  /\ UNCHANGED <<server, panel, mounted, shown, spent>>

\* The statuses that the form of the card offers; what else has been typed
\* matters no earlier than when it is sent.
Typed == Status \ {"deleted"}
saveUserSettings == ~savingUser /\ \E s \in Typed : Acts("save", None, s)

\* Every device on the card has its button; the request names the user who is
\* selected when it is pressed.
DeviceButton(d) == d \in list
revokeDevice == \E d \in Device : DeviceButton(d) /\ Acts("revoke", d, None)
resetDevices == Acts("reset", None, None)

\* deleteUser of AdminPages bars a second deletion of one user.
deletingUserIds == {c.id : c \in {d \in calls : d.kind = "delete"}}
deleteUser == user # None /\ user.id \notin deletingUserIds /\ Acts("delete", None, "deleted")

\* The dialog keeps the user it was opened for.  It is not a state of its own:
\* confirmed late it sends what might have been sent at once and served late.
confirmAction(kind, status) == Acts(kind, None, status)

\* The status on the card decides which of the two it offers.
EnableOrDisable ==
  /\ user # None
  /\ IF user.status = "active" THEN confirmAction("disable", "disabled") ELSE confirmAction("enable", "active")
regenerate == confirmAction("regenerate", None)

\* The handlers ask for no status: a deleted user is saved and enabled as well.
Stored(c) ==
  CASE c.kind = "save" -> [id |-> c.id, status |-> c.status, of |-> c.of]
    [] c.kind \in {"enable", "disable", "delete"} -> [row[c.id] EXCEPT !.status = c.status]
    [] OTHER -> row[c.id]

\* A device of another user counts as removed already.
Removed(c) ==
  CASE c.kind = "revoke" -> {c.device} \intersect DevicesOf(c.id)
    [] c.kind = "reset"  -> DevicesOf(c.id)
    [] OTHER             -> {}

Moves(c, to) == calls' = (calls \ {c}) \union {to}

Serve(c) ==
  /\ c.at = "sent"
  /\ \/ /\ row' = [row EXCEPT ![c.id] = Stored(c)]
        /\ devices' = devices \ Removed(c)
        /\ Moves(c, [c EXCEPT !.at = "done", !.got = Stored(c)])
        /\ UNCHANGED spent
     \/ Spend /\ Moves(c, [c EXCEPT !.at = "failed"]) /\ UNCHANGED server
  /\ UNCHANGED <<panel, mounted, shown, made>>

\* A failure leaves the card as it is.
Fails(c) ==
  /\ c.at = "failed" /\ calls' = calls \ {c}
  /\ UNCHANGED <<server, panel, mounted, shown, made, spent>>

StartRefresh(owner) == refreshes' = refreshes \union {[owner |-> owner, got |-> Idle]}

Drops(u) == IF user # None /\ user.id = u THEN Select(None) ELSE UNCHANGED <<user, shown>>

\* A deleted user leaves the card; any other answer selects its user, whoever
\* is selected by now.
upsertUser(got) == IF got.status = "deleted" THEN Drops(got.id) ELSE Select(got)

\* The answer to save or to an action: onUpdated, whose refresh is awaited.  The
\* form that save sets is the one the selection sets.
Updated(c) ==
  /\ c.at = "done" /\ c.kind \in UserAction \union {"save"}
  /\ upsertUser(c.got)
  /\ Moves(c, [c EXCEPT !.at = "refresh", !.got = None]) /\ StartRefresh(c.n)
  /\ UNCHANGED <<server, poll, mounted, made, spent>>

\* The answer to a deletion, in AdminPages.
Deleted(c) ==
  /\ c.at = "done" /\ c.kind = "delete"
  /\ Drops(c.id)
  /\ Moves(c, [c EXCEPT !.at = "refresh", !.got = None]) /\ StartRefresh(c.n)
  /\ UNCHANGED <<server, poll, mounted, made, spent>>

\* The answer to revoke or reset: the devices are read again.
DevicesChanged(c) ==
  /\ c.at = "done" /\ c.kind \in {"revoke", "reset"}
  /\ calls' = calls \ {c}
  /\ IF c.live THEN AskDevices(c.id) ELSE UNCHANGED reads
  /\ UNCHANGED <<server, panel, mounted, form, list, blocks, previews, made, spent>>

-----------------------------------------------------------------------------
\* AdminPages

\* A refresh of another operation of the panel, from its answer on.  A bound: of
\* these and the polls one answer is on its way at a time (AdminPanel overlaps
\* them).
ListUnderWay == poll.replied \/ \E r \in refreshes : r.owner = 0

OtherRefresh ==
  /\ ~ListUnderWay
  /\ refreshes' = refreshes \union {[owner |-> 0, got |-> [replied |-> TRUE, reply |-> visibleUsers]]}
  /\ UNCHANGED <<server, user, poll, mounted, shown, requests, spent>>

Current(reply) == {u \in reply : user # None /\ u.id = user.id}

\* The poll, from its answer on; one that fails changes nothing.
PollRead ==
  /\ ~ListUnderWay /\ poll' = [replied |-> TRUE, reply |-> visibleUsers]
  /\ UNCHANGED <<server, user, refreshes, mounted, shown, requests, spent>>

PollFindsNobody(reply) == {}                                       \* mutant
PollFinds(reply) == Current(reply)

\* A user who is not in the answer stays selected.
PollArrives ==
  /\ poll.replied /\ poll' = Idle
  /\ IF PollFinds(poll.reply) = {} THEN UNCHANGED <<user, shown>>
     ELSE \E u \in PollFinds(poll.reply) : Select(u)
  /\ UNCHANGED <<server, refreshes, mounted, requests, spent>>

RefreshRead(r) ==
  /\ ~r.got.replied
  /\ refreshes' = (refreshes \ {r}) \union {[r EXCEPT !.got = [replied |-> TRUE, reply |-> visibleUsers]]}
  /\ UNCHANGED <<server, user, poll, mounted, shown, requests, spent>>

\* Another user takes the place of one who is not in the answer.
Reselect(reply) ==
  IF reply = {} THEN user' = None
  ELSE user' \in (IF Current(reply) # {} THEN Current(reply) ELSE reply)

\* The call that awaits the refresh ends; a deletion goes to the users page.
RefreshArrives(r) ==
  /\ refreshes' = refreshes \ {r}
  /\ \/ r.got.replied /\ Reselect(r.got.reply) /\ UNCHANGED spent
     \/ ~r.got.replied /\ Spend /\ UNCHANGED user
  /\ LET mine == {c \in calls : c.n = r.owner}
     IN  IF mounted /\ \E c \in mine : c.kind = "delete"
         THEN Unmount /\ calls' = Orphaned(calls \ mine)
         ELSE /\ calls' = calls \ mine /\ UNCHANGED mounted
              /\ IF mounted /\ r.got.replied THEN Effect(user') ELSE UNCHANGED shown
  /\ UNCHANGED <<server, poll, made>>

\* Another administrator, the scheduler or a subscription.
OthersChange ==
  /\ Spend
  /\ \/ /\ \E u \in User, s \in Status : row[u].status # s /\ row' = [row EXCEPT ![u].status = s]
        /\ UNCHANGED devices
     \/ /\ \E d \in Device : devices' = IF d \in devices THEN devices \ {d} ELSE devices \union {d}
        /\ UNCHANGED row
  /\ UNCHANGED <<panel, mounted, shown, requests>>

Next ==
  \/ Open \/ Back \/ OthersChange
  \/ saveUserSettings \/ revokeDevice \/ resetDevices \/ deleteUser
  \/ EnableOrDisable \/ regenerate
  \/ OtherRefresh \/ PollRead \/ PollArrives
  \/ \E r \in reads : DevicesRead(r) \/ DevicesArrive(r)
  \/ \E u \in User : PreviewArrives(u)
  \/ \E c \in calls : Serve(c) \/ Fails(c) \/ Updated(c) \/ Deleted(c) \/ DevicesChanged(c)
  \/ \E r \in refreshes : RefreshRead(r) \/ RefreshArrives(r)

Spec == Init /\ [][Next]_vars

\* The interval fires, every exchange ends and the page handles its answer.
FairSpec ==
  /\ Spec /\ WF_vars(PollRead) /\ WF_vars(PollArrives)
  /\ \A o \in 0 .. MaxCalls :
       WF_vars(\E r \in refreshes : r.owner = o /\ (RefreshRead(r) \/ RefreshArrives(r)))
  /\ \A n \in 1 .. MaxReads :
       WF_vars(\E r \in reads : r.n = n /\ (DevicesRead(r) \/ DevicesArrive(r)))
  /\ \A u \in User : WF_vars(PreviewArrives(u))
  /\ \A n \in 1 .. MaxCalls :
       WF_vars(\E c \in calls : c.n = n /\ (Serve(c) \/ Fails(c) \/ Updated(c) \/ Deleted(c) \/ DevicesChanged(c)))

-----------------------------------------------------------------------------
\* No user is ever saved with another user's fields, although late answers,
\* refreshes and deletions change the selected user under an open form.
OwnFields ==
  /\ \A u \in User : row[u].of = u
  /\ mounted /\ user # None => form = user.id

\* The card of a user who exists catches up with the server again and again:
\* status, devices and connection data, in whatever order answers arrive.
CardCatchesUp ==
  []<>(\/ ~mounted \/ user = None \/ row[user.id].status = "deleted"
       \/ user = row[user.id] /\ list = DevicesOf(user.id) /\ blocks = user.id)
=============================================================================
