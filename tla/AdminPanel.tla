----------------------------- MODULE AdminPanel -----------------------------
(***************************************************************************)
(* One browser tab of the admin panel (App.tsx): its session and the       *)
(* maintenance screen, the list of VPN users with its background poll, and *)
(* the operations whose progress one shared popup reports: deleting a user *)
(* or a server, managing a node, running a node action.                    *)
(***************************************************************************)
EXTENDS Api, FiniteSets

CONSTANTS User,
          MaxEvents     \* bound: failed exchanges, changes made by others

VARIABLES users,        \* the server's visible users
          late,         \* users whose DELETE the server still runs unobserved
          session, maintenance,
          page,
          shown,        \* the list of users in the tab
          poll,         \* the background run: pollingRef, `stopped`, its answer
          refreshes,    \* refresh calls in flight
          op,           \* where each operation is
          act,          \* the node action of nodeActionPending
          popup,        \* OperationPopup: empty, an outcome, or whose pending stage
          timers,       \* operations with a stage timer that has not fired
          spent

None == "none"
NodeAction == {"install", "short"}     \* all but the installation are one call
NodeOp == {"action", "manage", "server"}
Op == User \union NodeOp

ASSUME UserAssumption == User \intersect {"action", "manage", "server", "none", "outcome"} = {}
ASSUME BoundAssumption == MaxEvents \in Nat

Stage == {"idle", "sent", "job", "served", "refused", "refresh", "cleanup"}
Unread == {None}
Reply == {Unread} \union SUBSET User

server == <<users, late>>
lists == <<shown, poll, refreshes>>
work == <<op, act, popup, timers>>
panel == <<page, lists, work>>
vars == <<server, session, maintenance, panel, spent>>

IdlePoll == [at |-> "idle", stopped |-> FALSE, reply |-> Unread]

TypeOK ==
  /\ users \subseteq User /\ late \subseteq User /\ shown \subseteq User
  /\ session \in {"checking", "login", "totp", "setup", "ready"} /\ maintenance \in BOOLEAN
  /\ page \in {"users", "servers"}
  /\ poll \in [at : {"idle", "collect", "fetch"}, stopped : BOOLEAN, reply : Reply]
  /\ refreshes \subseteq [owner : Op \union {None}, reply : Reply]
  /\ op \in [Op -> Stage] /\ act \in NodeAction \union {None}
  /\ (act = None) <=> (op["action"] = "idle")
  /\ popup \in Op \union {None, "outcome"}
  /\ timers \subseteq Op
  /\ spent \in 0 .. MaxEvents
  /\ session # "ready" \/ maintenance => refreshes = {} /\ poll = IdlePoll

Init ==
  /\ users = User /\ late = {}
  /\ session = "checking" /\ maintenance = FALSE
  /\ page = "users" /\ shown = {} /\ poll = IdlePoll /\ refreshes = {}
  /\ op = [o \in Op |-> "idle"] /\ act = None
  /\ popup = None /\ timers = {}
  /\ spent = 0

Spend == spent < MaxEvents /\ spent' = spent + 1
Mounted == session = "ready" /\ ~maintenance

-----------------------------------------------------------------------------
\* App and LoginPage

\* AdminPages leaves the screen: what its calls would still have done is lost.
Unmount ==
  /\ page' = "users" /\ shown' = {} /\ poll' = IdlePoll /\ refreshes' = {}
  /\ op' = [o \in Op |-> "idle"] /\ act' = None
  /\ popup' = None /\ timers' = {}

\* An unreachable backend raises the event that puts the maintenance screen in
\* place of everything.
MaintenanceScreen == maintenance' = TRUE /\ Unmount /\ UNCHANGED <<session, users>>

\* api.me at mount.  AdminPages starts with a refresh.
Enter == session' = "ready" /\ refreshes' = {[owner |-> None, reply |-> Unread]}

MeAnswers ==
  /\ session = "checking" /\ ~maintenance
  /\ \E x \in Exchange :
       IF Outcome(x) = "maintenance"
       THEN Spend /\ MaintenanceScreen /\ UNCHANGED late
       ELSE /\ IF Outcome(x) = "error" THEN session' = "login" /\ UNCHANGED refreshes ELSE Enter
            /\ UNCHANGED <<server, maintenance, page, shown, poll, work, spent>>

\* The form asks for the password, for a 2FA code, or to confirm a 2FA set-up.
LoginForm == session \in {"login", "totp", "setup"} /\ ~maintenance

\* A refusal leaves the page as it is.
Submit ==
  /\ LoginForm
  /\ \/ Enter
     \/ session = "login" /\ session' \in {"totp", "setup"} /\ UNCHANGED refreshes
  /\ UNCHANGED <<server, maintenance, page, shown, poll, work, spent>>

SubmitUnreachable ==
  /\ LoginForm
  /\ Spend /\ MaintenanceScreen /\ UNCHANGED late

\* The button of the maintenance screen, or the browser's own.
Reload ==
  /\ session' = "checking" /\ maintenance' = FALSE /\ Unmount
  /\ late' = late \union {u \in User : op[u] = "sent"}
  /\ session # "checking" \/ maintenance
  /\ UNCHANGED <<users, spent>>

-----------------------------------------------------------------------------
\* Lists

Goes(o, stage) == op' = [op EXCEPT ![o] = stage]

StartRefresh(o) == refreshes' = refreshes \union {[owner |-> o, reply |-> Unread]}

\* The eight calls of Promise.all; the users matter here.
RefreshRead(r) ==
  /\ r.reply = Unread
  /\ refreshes' = (refreshes \ {r}) \union {[r EXCEPT !.reply = users]}
  /\ UNCHANGED <<server, session, maintenance, page, shown, poll, work, spent>>

\* setOperation with tone "pending", or with one of the tones of an outcome:
\* success, warning, error.
ShowPending(o) == popup' = o
ShowOutcome == popup' = "outcome"

\* setPage: the effect of the poll is set up anew, and a run under way is told so.
Turn(p) ==
  /\ page' = p
  /\ poll' = IF p = page THEN poll ELSE [poll EXCEPT !.stopped = poll.at # "idle"]

\* refresh handles its own errors, so it never fails for its caller.
Lands(r) ==
  /\ refreshes' = refreshes \ {r}
  /\ \/ r.reply # Unread /\ shown' = r.reply /\ UNCHANGED spent
     \/ r.reply = Unread /\ Spend /\ UNCHANGED shown
  /\ UNCHANGED <<server, session, maintenance>>

RefreshLands(r) ==
  /\ r.owner = None /\ Lands(r)
  /\ UNCHANGED <<page, poll, work>>

\* deleteUser reports only now, and shows the users page.
UserDeleted(r) ==
  /\ r.owner \in User /\ Lands(r)
  /\ Goes(r.owner, "idle") /\ ShowOutcome /\ Turn("users")
  /\ UNCHANGED <<act, timers>>

ServerDeleted(r) ==
  /\ r.owner = "server" /\ Lands(r)
  /\ Goes("server", "idle") /\ Turn("servers")
  /\ UNCHANGED <<act, popup, timers>>

\* A forced deletion goes back to the list of servers.
ManageEnds(r) ==
  /\ r.owner = "manage" /\ Lands(r)
  /\ Goes("manage", "idle") /\ \E p \in {page, "servers"} : Turn(p)
  /\ UNCHANGED <<act, popup, timers>>

\* The finally of a node action.
ActionEnds(r) ==
  /\ r.owner = "action" /\ Lands(r)
  /\ Goes("action", "idle") /\ timers' = timers \ {"action"} /\ act' = None
  /\ UNCHANGED <<page, poll, popup>>

\* Every 30 s: collect the traffic, then reload what the page shows, unless the
\* page has changed since the run began.
PollTick ==
  /\ Mounted /\ poll.at = "idle"
  /\ poll' = [IdlePoll EXCEPT !.at = "collect"]
  /\ UNCHANGED <<server, session, maintenance, page, shown, refreshes, work, spent>>

PollFinallySkipped == [poll EXCEPT !.at = "collect", !.reply = Unread]               \* mutant
PollEnds == IdlePoll

PollCollected ==
  /\ poll.at = "collect"
  /\ \/ poll' = (IF poll.stopped \/ page # "users" THEN PollEnds ELSE [poll EXCEPT !.at = "fetch"])
        /\ UNCHANGED spent
     \/ Spend /\ poll' = PollEnds
  /\ UNCHANGED <<server, session, maintenance, page, shown, refreshes, work>>

PollRead ==
  /\ poll.at = "fetch" /\ poll.reply = Unread
  /\ poll' = [poll EXCEPT !.reply = users]
  /\ UNCHANGED <<server, session, maintenance, page, shown, refreshes, work, spent>>

PollLands ==
  /\ poll.at = "fetch" /\ poll' = PollEnds
  /\ \/ poll.reply # Unread /\ shown' = poll.reply /\ UNCHANGED spent
     \/ poll.reply = Unread /\ Spend /\ UNCHANGED shown
  /\ UNCHANGED <<server, session, maintenance, page, refreshes, work>>

\* Layout
SetPage ==
  /\ Mounted /\ \E p \in {"users", "servers"} \ {page} : Turn(p)
  /\ UNCHANGED <<server, session, maintenance, shown, refreshes, work, spent>>

-----------------------------------------------------------------------------
\* Operations

\* The pending popup and, for all but a server's deletion, stage timers that
\* will replace it by a later stage.  The dialog that some ask for changes nothing
\* until it is answered.
Begin(o) ==
  /\ op[o] = "idle"
  /\ op' = [op EXCEPT ![o] = "sent"]
  /\ ShowPending(o)
  /\ timers' = IF o = "server" THEN timers ELSE timers \union {o}
  /\ UNCHANGED <<server, session, maintenance, page, lists, spent>>

\* A bound: one operation on nodes at a time; the ones on users overlap it.
NodesFree == \A o \in NodeOp : op[o] = "idle"

\* The row's button is disabled during the deletion; deletingUserIdsRef bars a
\* second one.
UserRow(u) == u \in shown /\ op[u] = "idle"
DeleteUser(u) == Mounted /\ UserRow(u) /\ Begin(u) /\ UNCHANGED act
DeleteServer == Mounted /\ NodesFree /\ Begin("server") /\ UNCHANGED act

\* nodeBusy: a node's buttons are disabled during its action.
NodeButtons == Mounted /\ act = None

RunNodeAction ==
  /\ NodeButtons /\ NodesFree /\ act' \in NodeAction
  /\ Begin("action")

\* nodeActionInFlightRef: another node's buttons are not disabled.
RefuseNodeAction ==
  /\ Mounted /\ act # None /\ ShowOutcome
  /\ UNCHANGED <<server, session, maintenance, page, lists, op, act, timers, spent>>

RunNodeManagement == NodeButtons /\ NodesFree /\ Begin("manage") /\ UNCHANGED act

\* A timer fires; a node action has several, a management call one.
TimerFires(o) ==
  /\ o \in timers /\ ShowPending(o)
  /\ timers' = IF o = "action" THEN timers ELSE timers \ {o}
  /\ UNCHANGED <<server, session, maintenance, page, lists, op, act, spent>>

Serve(o) ==
  /\ op[o] = "sent"
  /\ \/ /\ Goes(o, IF o = "action" /\ act = "install" THEN "job" ELSE "served")
        /\ users' = users \ {o} /\ UNCHANGED spent
     \/ Goes(o, "refused") /\ Spend /\ UNCHANGED users
  /\ UNCHANGED <<late, session, maintenance, page, lists, act, popup, timers>>

\* runInstallJob: the job is asked for every 1.5 s; the answers end with its
\* outcome, an error, or the deadline of 20 minutes.
JobRuns ==
  /\ op["action"] = "job" /\ ShowPending("action")
  /\ UNCHANGED <<server, session, maintenance, page, lists, op, act, timers, spent>>

JobEnds ==
  /\ op["action"] = "job" /\ \E stage \in {"served", "refused"} : Goes("action", stage)
  /\ UNCHANGED <<server, session, maintenance, page, lists, act, popup, timers, spent>>

\* Any call of the tab gets no answer in 12 s, or a gateway error.
CallUnreachable ==
  /\ Mounted /\ \/ refreshes # {} \/ poll.at # "idle" \/ \E o \in Op : op[o] \in {"sent", "job"}
  /\ Spend /\ MaintenanceScreen
  /\ late' = late \union {u \in User : op[u] = "sent"}

KeepTimers(o) == UNCHANGED timers                                  \* mutant
ClearTimers(o) == timers' = timers \ {o}

\* The answers: deleteUser takes the row out and reports after its refresh, the
\* others report at once; a node action keeps its timers until its finally.
Refreshes(o) == op[o] = "served" /\ Goes(o, "refresh") /\ StartRefresh(o)

UserServed(u) ==
  /\ Refreshes(u) /\ ClearTimers(u) /\ shown' = shown \ {u}
  /\ UNCHANGED <<server, session, maintenance, page, poll, act, popup, spent>>

ServerServed ==
  /\ Refreshes("server") /\ ShowOutcome
  /\ UNCHANGED <<server, session, maintenance, page, shown, poll, act, timers, spent>>

ManageServed ==
  /\ Refreshes("manage") /\ ClearTimers("manage") /\ ShowOutcome
  /\ UNCHANGED <<server, session, maintenance, page, shown, poll, act, spent>>

ActionServed ==
  /\ Refreshes("action") /\ ShowOutcome
  /\ UNCHANGED <<server, session, maintenance, page, shown, poll, act, timers, spent>>

\* The errors: a management call leaves its timer running; a node action reloads
\* the nodes before its finally.
Refuses(o, stage) == op[o] = "refused" /\ Goes(o, stage) /\ ShowOutcome

UserRefused(u) ==
  /\ Refuses(u, "idle") /\ ClearTimers(u)
  /\ UNCHANGED <<server, session, maintenance, page, lists, act, spent>>

ServerRefused ==
  /\ Refuses("server", "idle")
  /\ UNCHANGED <<server, session, maintenance, page, lists, act, timers, spent>>

ManageRefused ==
  /\ Refuses("manage", "idle") /\ \E p \in {page, "servers"} : Turn(p)
  /\ UNCHANGED <<server, session, maintenance, shown, refreshes, act, timers, spent>>

ActionRefused ==
  /\ Refuses("action", "cleanup")
  /\ UNCHANGED <<server, session, maintenance, page, lists, act, timers, spent>>

ActionCleanupKeepsFlag ==                                          \* mutant
  /\ op["action"] = "cleanup" /\ Goes("action", "idle")
  /\ timers' = timers \ {"action"}
  /\ UNCHANGED <<server, session, maintenance, page, lists, act, popup, spent>>

ActionCleanup ==
  /\ op["action"] = "cleanup" /\ Goes("action", "idle")
  /\ timers' = timers \ {"action"} /\ act' = None
  /\ UNCHANGED <<server, session, maintenance, page, lists, popup, spent>>

\* The popup closes by itself after 3 s or by its button; a pending one has none.
ClosePopup ==
  /\ popup = "outcome" /\ popup' = None
  /\ UNCHANGED <<server, session, maintenance, page, lists, op, act, timers, spent>>

\* Another tab deletes a user or, from a page that still shows it, enables it.
OthersChange ==
  /\ Spend
  /\ \E u \in User : users' = IF u \in users THEN users \ {u} ELSE users \union {u}
  /\ UNCHANGED <<late, session, maintenance, panel>>

LateDelete(u) ==
  /\ u \in late /\ late' = late \ {u} /\ users' = users \ {u}
  /\ UNCHANGED <<session, maintenance, panel, spent>>

Ends(r) ==
  RefreshLands(r) \/ UserDeleted(r) \/ ServerDeleted(r) \/ ManageEnds(r) \/ ActionEnds(r)

Next ==
  \/ MeAnswers \/ Submit \/ SubmitUnreachable \/ Reload \/ SetPage
  \/ PollTick \/ PollCollected \/ PollRead \/ PollLands
  \/ DeleteServer \/ RunNodeAction \/ RefuseNodeAction \/ RunNodeManagement
  \/ ServerServed \/ ManageServed \/ ActionServed
  \/ ServerRefused \/ ManageRefused \/ ActionRefused \/ ActionCleanup
  \/ JobRuns \/ JobEnds \/ CallUnreachable \/ ClosePopup \/ OthersChange
  \/ \E r \in refreshes : RefreshRead(r) \/ Ends(r)
  \/ \E o \in Op : TimerFires(o) \/ Serve(o)
  \/ \E u \in User : DeleteUser(u) \/ UserServed(u) \/ UserRefused(u) \/ LateDelete(u)

Spec == Init /\ [][Next]_vars

\* The interval fires; every call ends; the tab handles its answers.
FairSpec ==
  /\ Spec
  /\ WF_vars(PollTick) /\ WF_vars(PollCollected) /\ WF_vars(PollRead) /\ WF_vars(PollLands)
  /\ WF_vars(JobEnds) /\ WF_vars(ActionCleanup) /\ WF_vars(MeAnswers)
  /\ \A o \in Op \union {None} :
       /\ WF_vars(\E r \in refreshes : r.owner = o /\ RefreshRead(r))
       /\ WF_vars(\E r \in refreshes : r.owner = o /\ Ends(r))
  /\ \A o \in Op : WF_vars(Serve(o))
  /\ WF_vars(ServerServed) /\ WF_vars(ManageServed) /\ WF_vars(ActionServed)
  /\ WF_vars(ServerRefused) /\ WF_vars(ManageRefused) /\ WF_vars(ActionRefused)
  /\ \A u \in User : WF_vars(UserServed(u)) /\ WF_vars(UserRefused(u)) /\ WF_vars(LateDelete(u))

-----------------------------------------------------------------------------
\* The deletion of a user or a server never leaves its spinner behind: a pending
\* popup, which the administrator cannot close, belongs to a call under way,
\* whatever other operations write into the popup and whenever timers fire.
SpinnerHasWork ==
  popup \in User \union {"server"} => op[popup] # "idle"

\* While the users page is on the screen its list catches up with the server
\* again and again, although refreshes, polls and deletions may apply their
\* answers in any order.
ListCatchesUp == []<>(~Mounted \/ page # "users" \/ shown = users)
=============================================================================
