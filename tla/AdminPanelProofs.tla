-------------------------- MODULE AdminPanelProofs --------------------------
(***************************************************************************)
(* The admin panel for any number of users, and any number of deletions,   *)
(* timers, refreshes, failures and reloads: a spinner of a deletion always *)
(* belongs to a call under way.                                            *)
(***************************************************************************)
EXTENDS AdminPanel, TLAPS

Request == [owner : Op \union {None}, reply : Reply]
Poll == [at : {"idle", "collect", "fetch"}, stopped : BOOLEAN, reply : Reply]
Awaited == {"sent", "served", "refused"}

(* The refresh of an operation is the last thing it waits for, and its only  *)
(* one; a user's timer is cleared when the answer is handled, a server's    *)
(* deletion has none and leaves the popup with its answer; and nothing goes  *)
(* on while the panel is off the screen.                                   *)
OwnersWait == \A r \in refreshes : r.owner # None => op[r.owner] = "refresh"
OneEach == \A r, s \in refreshes : r.owner = s.owner /\ r.owner # None => r = s
TimersPending == "server" \notin timers /\ \A u \in timers \intersect User : op[u] \in Awaited
ServerPending == popup = "server" => op["server"] \in Awaited
NothingUnmounted == ~Mounted => \A o \in Op : op[o] = "idle"

Work == OwnersWait /\ OneEach /\ TimersPending /\ ServerPending /\ NothingUnmounted
IInv == TypeOK /\ SpinnerHasWork /\ Work

-----------------------------------------------------------------------------
(* No user has the name of an operation or of nothing at all. *)
LEMMA Names ==
  /\ \A u \in User : u \notin {"action", "manage", "server", "none", "outcome"}
  /\ Op = User \union {"action", "manage", "server"} /\ None \notin Op /\ "outcome" \notin Op
BY UserAssumption DEF Op, NodeOp, None

(* One operation goes to another place. *)
LEMMA Gone ==
  ASSUME TypeOK, NEW o \in Op, NEW stage \in Stage, Goes(o, stage)
  PROVE  op' \in [Op -> Stage] /\ op'[o] = stage /\ \A q \in Op : q # o => op'[q] = op[q]
BY DEF TypeOK, Goes

(* The background run between two of its ticks. *)
LEMMA Idle == IdlePoll \in Poll /\ IdlePoll.at = "idle"
<1>1. PICK b \in BOOLEAN : b = FALSE
  OBVIOUS
<1>2. PICK p : p = [at |-> "idle", stopped |-> b, reply |-> Unread]
  OBVIOUS
<1>3. p \in Poll /\ p.at = "idle"
  BY <1>2 DEF Poll, Reply
<1> QED
  BY <1>1, <1>2, <1>3 DEF IdlePoll

(* Whatever is under way is so on the screen. *)
LEMMA OnScreen ==
  ASSUME IInv
  PROVE  /\ refreshes # {} \/ poll.at # "idle" => Mounted
         /\ \A o \in Op : op[o] # "idle" => Mounted
BY Idle DEF IInv, Work, TypeOK, NothingUnmounted, Mounted

(* Another page, or the same one: a background run under way is told so.   *)
LEMMA Turned ==
  ASSUME TypeOK, NEW p \in {"users", "servers"}, Turn(p)
  PROVE  page' \in {"users", "servers"} /\ poll' \in Poll
<1>1. poll \in Poll
  BY DEF TypeOK, Poll
<1>2. ASSUME NEW b \in BOOLEAN
      PROVE  [poll EXCEPT !.stopped = b] \in Poll
  BY <1>1 DEF Poll
<1>3. (poll.at # "idle") \in BOOLEAN
  BY Zenon
<1>4. [poll EXCEPT !.stopped = poll.at # "idle"] \in Poll
  BY <1>2, <1>3, Zenon
<1> QED
  BY <1>1, <1>4 DEF Turn

(* Steps that leave the operations, their refreshes and the popup alone.   *)
LEMMA WorkKept ==
  ASSUME IInv, UNCHANGED <<session, maintenance, refreshes, op, popup, timers>>, TypeOK'
  PROVE  IInv'
BY DEF IInv, Work, SpinnerHasWork, OwnersWait, OneEach, TimersPending, ServerPending, NothingUnmounted, Mounted

(* The panel leaves the screen, or comes back by a reload.                 *)
LEMMA Unmounted ==
  ASSUME IInv, Unmount, users' \subseteq User, late' \subseteq User, spent' \in 0 .. MaxEvents,
         session' \in {"checking", "login", "totp", "setup", "ready"}, maintenance' \in BOOLEAN
  PROVE  IInv'
<1>1. /\ page' = "users" /\ shown' = {} /\ poll' = IdlePoll /\ refreshes' = {}
      /\ act' = None /\ popup' = None /\ timers' = {}
      /\ op' \in [Op -> Stage] /\ \A o \in Op : op'[o] = "idle"
  BY DEF Unmount, Stage
<1>2. TypeOK'
  BY <1>1, Idle, Names DEF TypeOK, Poll
<1> QED
  BY <1>1, <1>2, Names DEF IInv, Work, SpinnerHasWork, OwnersWait, OneEach, TimersPending, ServerPending,
                           NothingUnmounted

(* The panel enters the screen: no operation has begun.                    *)
LEMMA EnterStep ==
  ASSUME IInv, Enter, session \in {"checking", "login", "totp", "setup"}, ~maintenance,
         UNCHANGED <<server, maintenance, page, shown, poll, work, spent>>
  PROVE  IInv'
<1>1. PICK r : r = [owner |-> None, reply |-> Unread]
  OBVIOUS
<1>2. r \in Request /\ r.owner = None /\ refreshes' = {r} /\ session' = "ready"
  BY <1>1 DEF Request, Reply, Enter
<1>3. TypeOK'
  BY <1>2 DEF IInv, TypeOK, Request, server, work
<1> QED
  BY <1>2, <1>3 DEF IInv, Work, SpinnerHasWork, OwnersWait, OneEach, TimersPending, ServerPending,
                    NothingUnmounted, Mounted, work

(* The start of the tab, its forms, the maintenance screen and the reload.  *)
LEMMA SessionStep ==
  ASSUME IInv, MeAnswers \/ Submit \/ SubmitUnreachable \/ Reload \/ CallUnreachable
  PROVE  IInv'
<1>1. /\ users \subseteq User /\ late \subseteq User /\ spent \in 0 .. MaxEvents
      /\ session \in {"checking", "login", "totp", "setup", "ready"} /\ maintenance \in BOOLEAN
  BY DEF IInv, TypeOK
<1>2. ASSUME MaintenanceScreen, Spend, late' \subseteq User
      PROVE  IInv'
  <2>1. maintenance' \in BOOLEAN /\ users' \subseteq User /\ session' = session
    <3>1. maintenance' = TRUE
      BY <1>2 DEF MaintenanceScreen
    <3>2. maintenance' \in BOOLEAN
      BY <3>1
    <3> QED
      BY <1>1, <1>2, <3>2 DEF MaintenanceScreen
  <2>2. spent' \in 0 .. MaxEvents
    BY <1>1, <1>2, BoundAssumption DEF Spend
  <2> QED
    BY <1>1, <1>2, <2>1, <2>2, Unmounted DEF MaintenanceScreen
<1>3. ASSUME ~maintenance, session \in {"checking", "login", "totp", "setup"},
             session' \in {"login", "totp", "setup"}, UNCHANGED refreshes,
             UNCHANGED <<server, maintenance, page, shown, poll, work, spent>>
      PROVE  IInv'
  <2>1. TypeOK'
    BY <1>3 DEF IInv, TypeOK, server, work
  <2> QED
    BY <1>3, <2>1 DEF IInv, Work, SpinnerHasWork, OwnersWait, OneEach, TimersPending, ServerPending,
                      NothingUnmounted, Mounted, work
<1>4. CASE MeAnswers
  BY <1>1, <1>2, <1>3, <1>4, EnterStep DEF MeAnswers
<1>5. CASE Submit
  BY <1>3, <1>5, EnterStep DEF Submit, LoginForm
<1>6. CASE SubmitUnreachable
  BY <1>1, <1>2, <1>6 DEF SubmitUnreachable
<1>7. CASE Reload
  <2>1. maintenance' = FALSE /\ Unmount /\ session' = "checking" /\ UNCHANGED <<users, spent>> /\ late' \subseteq User
    BY <1>1, <1>7 DEF Reload
  <2>2. maintenance' \in BOOLEAN
    <3>1. maintenance' = FALSE
      BY <2>1
    <3> QED
      BY <3>1
  <2> QED
    BY <1>1, <2>1, <2>2, Unmounted
<1>8. CASE CallUnreachable
  BY <1>1, <1>2, <1>8 DEF CallUnreachable
<1> QED
  BY <1>4, <1>5, <1>6, <1>7, <1>8

-----------------------------------------------------------------------------
(* Lists *)

(* The background run, another page, and what others change.               *)
LEMMA PollStep ==
  ASSUME IInv, PollTick \/ PollCollected \/ PollRead \/ PollLands \/ SetPage
  PROVE  IInv'
<1>1. Mounted /\ poll \in Poll
  BY OnScreen DEF PollTick, PollCollected, PollRead, PollLands, SetPage, IInv, TypeOK, Poll
<1>2. /\ UNCHANGED <<server, session, maintenance, refreshes, work>>
      /\ PollTick \/ PollCollected \/ PollRead \/ PollLands => UNCHANGED page
  BY DEF PollTick, PollCollected, PollRead, PollLands, SetPage
<1>3. page' \in {"users", "servers"} /\ poll' \in Poll
  <2>1. CASE PollTick
    <3>1. PICK p \in Poll : p = IdlePoll
      BY Idle
    <3>2. [p EXCEPT !.at = "collect"] \in Poll
      BY DEF Poll
    <3> QED
      BY <2>1, <3>1, <3>2, <1>2 DEF PollTick, IInv, TypeOK
  <2>2. CASE PollCollected
    <3>1. [poll EXCEPT !.at = "fetch"] \in Poll
      BY <1>1 DEF Poll
    <3> QED
      BY <2>2, <3>1, <1>2, Idle DEF PollCollected, PollEnds, IInv, TypeOK
  <2>3. CASE PollRead
    <3>1. [poll EXCEPT !.reply = users] \in Poll
      BY <1>1 DEF Poll, Reply, IInv, TypeOK
    <3> QED
      BY <2>3, <3>1, <1>2 DEF PollRead, IInv, TypeOK
  <2>4. CASE PollLands
    BY <2>4, <1>2, Idle DEF PollLands, PollEnds, IInv, TypeOK
  <2>5. CASE SetPage
    BY <2>5, Turned DEF SetPage, IInv
  <2> QED
    BY <2>1, <2>2, <2>3, <2>4, <2>5
<1>4. shown' \subseteq User
  <2>1. poll.reply # Unread => poll.reply \subseteq User
    BY <1>1 DEF Poll, Reply
  <2> QED
    BY <2>1 DEF PollTick, PollCollected, PollRead, PollLands, SetPage, IInv, TypeOK
<1>5. spent' \in 0 .. MaxEvents
  BY BoundAssumption DEF PollTick, PollCollected, PollRead, PollLands, SetPage, Spend, IInv, TypeOK
<1>6. TypeOK'
  BY <1>1, <1>2, <1>3, <1>4, <1>5 DEF IInv, TypeOK, server, work, Poll, Mounted
<1> QED
  BY <1>2, <1>6, WorkKept DEF work

(* What others change on the server leaves the panel and its invariant alone. *)
LEMMA OthersStep ==
  ASSUME IInv, OthersChange \/ \E u \in User : LateDelete(u)
  PROVE  IInv'
<1>1. /\ users' \subseteq User /\ late' \subseteq User /\ spent' \in 0 .. MaxEvents
      /\ UNCHANGED <<session, maintenance, panel>>
  BY BoundAssumption DEF OthersChange, LateDelete, Spend, IInv, TypeOK
<1>2. TypeOK'
  BY <1>1 DEF IInv, TypeOK, panel, lists, work
<1> QED
  BY <1>1, <1>2, WorkKept DEF panel, lists, work

(* A refresh reads the list: it keeps its owner.                           *)
LEMMA RefreshReadStep ==
  ASSUME IInv, NEW r \in refreshes, RefreshRead(r)
  PROVE  IInv'
<1>1. PICK s : s = [r EXCEPT !.reply = users]
  OBVIOUS
<1>2. /\ s \in Request /\ s.owner = r.owner
      /\ refreshes' = (refreshes \ {r}) \union {s}
  BY <1>1 DEF RefreshRead, IInv, TypeOK, Request, Reply
<1>3. UNCHANGED <<server, session, maintenance, page, shown, poll, work, spent>> /\ Mounted
  BY OnScreen DEF RefreshRead
<1>4. TypeOK'
  BY <1>2, <1>3 DEF IInv, TypeOK, server, work, Request, Mounted
<1>5. OwnersWait' /\ OneEach'
  BY <1>2, <1>3 DEF IInv, Work, OwnersWait, OneEach, work
<1> QED
  BY <1>3, <1>4, <1>5 DEF IInv, Work, SpinnerHasWork, TimersPending, ServerPending, NothingUnmounted, Mounted, work

(* The end of a refresh: its owner is idle again, and has none left.       *)
LEMMA LandsStep ==
  ASSUME IInv, NEW r \in refreshes, Ends(r)
  PROVE  IInv'
<1>1. /\ r \in Request /\ Lands(r) /\ refreshes' = refreshes \ {r} /\ Mounted
      /\ UNCHANGED <<server, session, maintenance>>
  BY OnScreen DEF Ends, RefreshLands, UserDeleted, ServerDeleted, ManageEnds, ActionEnds, Lands,
                  IInv, TypeOK, Request
<1>2. shown' \subseteq User /\ spent' \in 0 .. MaxEvents
  BY <1>1, BoundAssumption DEF Lands, Spend, Request, Reply, IInv, TypeOK
<1>3. CASE RefreshLands(r)
  <2>1. UNCHANGED <<page, poll, work>>
    BY <1>3 DEF RefreshLands
  <2>2. TypeOK'
    BY <1>1, <1>2, <2>1 DEF IInv, TypeOK, server, work, Mounted
  <2> QED
    BY <1>1, <2>1, <2>2 DEF IInv, Work, SpinnerHasWork, OwnersWait, OneEach, TimersPending, ServerPending,
                            NothingUnmounted, Mounted, work
<1>4. ASSUME NEW o \in Op, r.owner = o, Goes(o, "idle")
      PROVE  /\ op[o] = "refresh" /\ op' \in [Op -> Stage] /\ op'[o] = "idle"
             /\ \A q \in Op : q # o => op'[q] = op[q]
             /\ OwnersWait' /\ OneEach'
  <2>1. op[o] = "refresh" /\ o # None
    BY <1>4, Names DEF IInv, Work, OwnersWait
  <2>2. op' \in [Op -> Stage] /\ op'[o] = "idle" /\ \A q \in Op : q # o => op'[q] = op[q]
    BY <1>4, Gone DEF IInv, Stage
  <2>3. \A s \in refreshes' : s \in refreshes /\ s.owner # o
    BY <1>1, <1>4, <2>1 DEF IInv, Work, OneEach
  <2>4. \A s \in refreshes' : s.owner # None => s.owner \in Op
    BY <2>3 DEF IInv, TypeOK
  <2>5. OwnersWait'
    BY <2>2, <2>3, <2>4 DEF IInv, Work, OwnersWait
  <2>6. OneEach'
    BY <2>3 DEF IInv, Work, OneEach
  <2> QED
    BY <2>1, <2>2, <2>5, <2>6
<1>5. ASSUME NEW o \in Op, r.owner = o, Goes(o, "idle"), page' \in {"users", "servers"}, poll' \in Poll,
             popup' \in {popup, "outcome"}, timers' \in {timers, timers \ {o}},
             act' = IF o = "action" THEN None ELSE act, o \in User => popup' = "outcome"
      PROVE  IInv'
  <2>1. /\ op[o] = "refresh" /\ op' \in [Op -> Stage] /\ op'[o] = "idle"
        /\ \A q \in Op : q # o => op'[q] = op[q]
        /\ OwnersWait' /\ OneEach'
    BY <1>4, <1>5
  <2>2. TypeOK'
    <3>1. (act' = None) <=> (op'["action"] = "idle")
      BY <1>5, <2>1, Names DEF IInv, TypeOK
    <3> QED
      BY <1>1, <1>2, <1>5, <2>1, <3>1 DEF IInv, TypeOK, server, Mounted, Poll
  <2>3. TimersPending'
    BY <1>5, <2>1, Names DEF IInv, Work, TimersPending, Awaited
  <2>4. ServerPending'
    BY <1>5, <2>1, Names DEF IInv, Work, ServerPending, Awaited
  <2>5. SpinnerHasWork'
    BY <1>5, <2>1, Names DEF IInv, Work, SpinnerHasWork, ServerPending, Awaited
  <2>6. NothingUnmounted'
    BY <1>1 DEF NothingUnmounted, Mounted
  <2> QED
    BY <2>1, <2>2, <2>3, <2>4, <2>5, <2>6 DEF IInv, Work
<1>6. ASSUME NEW p \in {"users", "servers"}, Turn(p)
      PROVE  page' \in {"users", "servers"} /\ poll' \in Poll
  BY <1>6, Turned DEF IInv
<1>7. CASE UserDeleted(r)
  BY <1>5, <1>6, <1>7, Names DEF UserDeleted, ShowOutcome
<1>8. CASE ServerDeleted(r)
  BY <1>5, <1>6, <1>8, Names DEF ServerDeleted
<1>9. CASE ManageEnds(r)
  <2>1. PICK p \in {"users", "servers"} : Turn(p)
    BY <1>9 DEF ManageEnds, IInv, TypeOK
  <2> QED
    BY <1>5, <1>6, <1>9, <2>1, Names DEF ManageEnds
<1>10. CASE ActionEnds(r)
  BY <1>5, <1>10, Names DEF ActionEnds, IInv, TypeOK, Poll
<1> QED
  BY <1>3, <1>7, <1>8, <1>9, <1>10 DEF Ends

-----------------------------------------------------------------------------
(* Operations *)

(* An operation that has not come to its refresh goes on, to its refresh or    *)
(* to another stage: the popup and the timers follow it.                   *)
LEMMA OpStep ==
  ASSUME IInv, NEW o \in Op, NEW stage \in Stage, Goes(o, stage), op[o] # "refresh",
         Mounted, UNCHANGED <<session, maintenance>>,
         users' \subseteq User, late' \subseteq User, shown' \subseteq User, spent' \in 0 .. MaxEvents,
         page' \in {"users", "servers"}, poll' \in Poll,
         act' \in NodeAction \union {None}, (act' = None) <=> (op'["action"] = "idle"),
         \/ UNCHANGED refreshes
         \/ stage = "refresh" /\ StartRefresh(o),
         popup' \in {popup, o, "outcome"},
         popup' = o => \/ stage \in Awaited
                       \/ o \in User /\ stage # "idle"
                       \/ o \in {"action", "manage"},
         timers' \subseteq timers \union {o},
         o \in timers' => o # "server" /\ (o \in User => stage \in Awaited)
  PROVE  IInv'
<1>1. op' \in [Op -> Stage] /\ op'[o] = stage /\ \A q \in Op : q # o => op'[q] = op[q]
  BY Gone DEF IInv
<1>2. o # None /\ \A r \in refreshes : r.owner # o
  BY Names DEF IInv, Work, OwnersWait
<1>3. PICK s : s = [owner |-> o, reply |-> Unread]
  OBVIOUS
<1>4. s \in Request /\ s.owner = o
  BY <1>3 DEF Request, Reply
<1>5. \/ refreshes' = refreshes
      \/ refreshes' = refreshes \union {s} /\ stage = "refresh"
  BY <1>3 DEF StartRefresh
<1>6. refreshes' \subseteq Request
  BY <1>4, <1>5 DEF IInv, TypeOK, Request
<1>7. TypeOK'
  BY <1>1, <1>6 DEF IInv, TypeOK, Request, Poll, Mounted
<1>8. OwnersWait'
  <2> SUFFICES ASSUME NEW r \in refreshes', r.owner # None
               PROVE  op'[r.owner] = "refresh"
    BY DEF OwnersWait
  <2>1. CASE r \in refreshes
    BY <1>1, <1>2, <2>1 DEF IInv, Work, OwnersWait, TypeOK
  <2>2. CASE r = s /\ stage = "refresh"
    BY <1>1, <1>4, <2>2
  <2> QED
    BY <1>5, <2>1, <2>2
<1>9. OneEach'
  BY <1>2, <1>4, <1>5 DEF IInv, Work, OneEach
<1>10. TimersPending'
  BY <1>1, Names DEF IInv, Work, TimersPending
<1>11. ServerPending'
  BY <1>1, Names DEF IInv, Work, ServerPending
<1>12. SpinnerHasWork'
  BY <1>1, Names DEF IInv, Work, SpinnerHasWork, Awaited
<1>13. NothingUnmounted'
  BY DEF NothingUnmounted, Mounted
<1> QED
  BY <1>7, <1>8, <1>9, <1>10, <1>11, <1>12, <1>13 DEF IInv, Work

(* What a panel in order keeps when a step does not touch it.              *)
LEMMA Typed ==
  ASSUME IInv
  PROVE  /\ users \subseteq User /\ late \subseteq User /\ shown \subseteq User /\ spent \in 0 .. MaxEvents
         /\ page \in {"users", "servers"} /\ poll \in Poll /\ act \in NodeAction \union {None}
         /\ (act = None) <=> (op["action"] = "idle")
         /\ \A u \in User : u \in timers => op[u] \in Awaited
         /\ "server" \notin timers
         /\ popup = "server" => op["server"] \in Awaited
         /\ \A u \in User : popup = u => op[u] # "idle"
BY Names DEF IInv, TypeOK, Poll, Work, TimersPending, ServerPending, SpinnerHasWork

(* The click.                                                              *)
LEMMA BeginStep ==
  ASSUME IInv, DeleteServer \/ RunNodeAction \/ RunNodeManagement \/ \E u \in User : DeleteUser(u)
  PROVE  IInv'
<1>1. ASSUME NEW o \in Op, Mounted, Begin(o), act' \in NodeAction \union {None},
             (act' = None) <=> (op'["action"] = "idle")
      PROVE  IInv'
  <2>1. Goes(o, "sent") /\ op[o] = "idle" /\ UNCHANGED <<server, session, maintenance, page, lists, spent>>
    BY <1>1 DEF Begin, Goes
  <2>2. popup' = o /\ timers' \subseteq timers \union {o} /\ (o \in timers' => o # "server")
    BY <1>1, Typed DEF Begin, ShowPending
  <2> QED
    BY <1>1, <2>1, <2>2, Typed, OpStep DEF Stage, Awaited, server, lists
<1>2. ASSUME NEW o \in Op, Begin(o)
      PROVE  op'["action"] = IF o = "action" THEN "sent" ELSE op["action"]
  <2>1. Goes(o, "sent") /\ "sent" \in Stage /\ "action" \in Op
    BY <1>2, Names DEF Begin, Goes, Stage
  <2> QED
    BY <2>1, Gone DEF IInv
<1>3. CASE DeleteServer
  BY <1>1, <1>2, <1>3, Typed, Names DEF DeleteServer
<1>4. CASE RunNodeAction
  <2>1. act' # None
    BY <1>4 DEF RunNodeAction, NodeAction, None
  <2> QED
    BY <1>1, <1>2, <1>4, <2>1, Names DEF RunNodeAction, NodeButtons
<1>5. CASE RunNodeManagement
  BY <1>1, <1>2, <1>5, Typed, Names DEF RunNodeManagement, NodeButtons
<1>6. ASSUME NEW u \in User, DeleteUser(u)
      PROVE  IInv'
  BY <1>1, <1>2, <1>6, Typed, Names DEF DeleteUser
<1> QED
  BY <1>3, <1>4, <1>5, <1>6

(* The popup is written or closed without an operation going on.           *)
LEMMA PopupStep ==
  ASSUME IInv, RefuseNodeAction \/ JobRuns \/ ClosePopup \/ \E o \in Op : TimerFires(o)
  PROVE  IInv'
<1>1. ASSUME UNCHANGED <<server, session, maintenance, page, lists, op, act, spent>>,
             popup' \in Op \union {None, "outcome"}, timers' \subseteq timers,
             popup' \in User => op[popup'] # "idle", popup' # "server"
      PROVE  IInv'
  <2>1. TypeOK'
    BY <1>1 DEF IInv, TypeOK, server, lists
  <2> QED
    BY <1>1, <2>1, Names DEF IInv, Work, SpinnerHasWork, OwnersWait, OneEach, TimersPending, ServerPending,
                             NothingUnmounted, Mounted, lists
<1>2. CASE RefuseNodeAction
  BY <1>1, <1>2, Names DEF RefuseNodeAction, ShowOutcome
<1>3. CASE JobRuns
  BY <1>1, <1>3, Names DEF JobRuns, ShowPending
<1>4. CASE ClosePopup
  BY <1>1, <1>4, Names DEF ClosePopup, None
<1>5. ASSUME NEW o \in Op, TimerFires(o)
      PROVE  IInv'
  <2>1. o \in timers /\ popup' = o /\ timers' \subseteq timers
    BY <1>5 DEF TimerFires, ShowPending
  <2>2. o # "server" /\ (o \in User => op[o] # "idle")
    BY <2>1, Typed DEF Awaited
  <2> QED
    BY <1>1, <1>5, <2>1, <2>2 DEF TimerFires
<1> QED
  BY <1>2, <1>3, <1>4, <1>5

(* The server's work, and the job of an installation.                      *)
LEMMA ServeStep ==
  ASSUME IInv, JobEnds \/ \E o \in Op : Serve(o)
  PROVE  IInv'
<1>1. ASSUME NEW o \in Op, NEW stage \in {"job", "served", "refused"}, Goes(o, stage),
             op[o] \in {"sent", "job"}, stage \in Awaited \/ o = "action", o \in User => op[o] = "sent",
             users' \subseteq User, spent' \in 0 .. MaxEvents,
             UNCHANGED <<late, session, maintenance, page, lists, act, popup, timers>>
      PROVE  IInv'
  <2>1. Mounted /\ op[o] # "refresh" /\ stage \in Stage
    BY <1>1, OnScreen DEF Stage
  <2>2. (act' = None) <=> (op'["action"] = "idle")
    BY <1>1, <2>1, Gone, Typed, Names DEF IInv
  <2> QED
    BY <1>1, <2>1, <2>2, Typed, OpStep, Names DEF lists, Awaited
<1>2. CASE JobEnds
  <2>1. PICK stage \in {"served", "refused"} : Goes("action", stage)
    BY <1>2 DEF JobEnds
  <2> QED
    BY <1>1, <1>2, <2>1, Typed, Names DEF JobEnds, Awaited, server
<1>3. ASSUME NEW o \in Op, Serve(o)
      PROVE  IInv'
  <2>1. /\ users' \subseteq User /\ spent' \in 0 .. MaxEvents /\ op[o] = "sent"
        /\ UNCHANGED <<late, session, maintenance, page, lists, act, popup, timers>>
    BY <1>3, Typed, BoundAssumption DEF Serve, Spend
  <2>2. \/ Goes(o, "served")
        \/ Goes(o, "refused")
        \/ Goes(o, "job") /\ o = "action"
    BY <1>3 DEF Serve
  <2> QED
    BY <1>1, <2>1, <2>2 DEF Awaited
<1> QED
  BY <1>2, <1>3

(* The answers that end with a refresh.                                    *)
LEMMA ServedStep ==
  ASSUME IInv, ServerServed \/ ManageServed \/ ActionServed \/ \E u \in User : UserServed(u)
  PROVE  IInv'
<1>1. ASSUME NEW o \in Op, Refreshes(o), shown' \subseteq User,
             UNCHANGED <<server, session, maintenance, page, poll, act, spent>>,
             popup' = "outcome" \/ (popup' = popup /\ o \in User),
             timers' \subseteq timers, o \in timers' => o \notin User
      PROVE  IInv'
  <2>1. Mounted /\ op[o] = "served" /\ "refresh" \in Stage /\ Goes(o, "refresh") /\ StartRefresh(o)
    BY <1>1, OnScreen DEF Stage, Refreshes
  <2>2. (act' = None) <=> (op'["action"] = "idle")
    BY <1>1, <2>1, Gone, Typed, Names DEF IInv
  <2>3. popup' = o => o \in User
    BY <1>1, Names
  <2> QED
    BY <1>1, <2>1, <2>2, <2>3, Typed, OpStep DEF server
<1>2. CASE ServerServed
  BY <1>1, <1>2, Typed, Names DEF ServerServed, ShowOutcome
<1>3. CASE ManageServed
  BY <1>1, <1>3, Typed, Names DEF ManageServed, ShowOutcome, ClearTimers
<1>4. CASE ActionServed
  BY <1>1, <1>4, Typed, Names DEF ActionServed, ShowOutcome
<1>5. ASSUME NEW u \in User, UserServed(u)
      PROVE  IInv'
  BY <1>1, <1>5, Typed, Names DEF UserServed, ClearTimers
<1> QED
  BY <1>2, <1>3, <1>4, <1>5

(* The errors, and the finally of a node action that has failed.           *)
LEMMA RefusedStep ==
  ASSUME IInv, ServerRefused \/ ManageRefused \/ ActionRefused \/ ActionCleanup \/ \E u \in User : UserRefused(u)
  PROVE  IInv'
<1>1. ASSUME NEW o \in Op, NEW stage \in {"idle", "cleanup"}, Goes(o, stage), op[o] \in {"refused", "cleanup"},
             UNCHANGED <<server, session, maintenance, shown, refreshes, spent>>,
             page' \in {"users", "servers"}, poll' \in Poll,
             act' = (IF o = "action" /\ stage = "idle" THEN None ELSE act),
             popup' = "outcome" \/ (popup' = popup /\ o = "action"),
             timers' \subseteq timers, o \in timers' => o \notin User
      PROVE  IInv'
  <2>1. Mounted /\ op[o] # "refresh" /\ stage \in Stage
    BY <1>1, OnScreen DEF Stage
  <2>2. (act' = None) <=> (op'["action"] = "idle")
    <3>1. /\ op' \in [Op -> Stage] /\ op'[o] = stage /\ \A q \in Op : q # o => op'[q] = op[q]
          /\ "action" \in Op
      BY <1>1, <2>1, Gone, Names DEF IInv
    <3> QED
      BY <1>1, <3>1, Typed
  <2>3. popup' = o => o = "action"
    BY <1>1, Names
  <2>4. act' \in NodeAction \union {None}
    BY <1>1, Typed
  <2> QED
    BY <1>1, <2>1, <2>2, <2>3, <2>4, Typed, OpStep DEF server
<1>2. CASE ServerRefused
  BY <1>1, <1>2, Typed, Names DEF ServerRefused, Refuses, ShowOutcome, lists
<1>3. CASE ManageRefused
  <2>1. page' \in {"users", "servers"} /\ poll' \in Poll
    BY <1>3, Turned, Typed DEF ManageRefused, IInv
  <2> QED
    BY <1>1, <1>3, <2>1, Typed, Names DEF ManageRefused, Refuses, ShowOutcome
<1>4. CASE ActionRefused
  BY <1>1, <1>4, Typed, Names DEF ActionRefused, Refuses, ShowOutcome, lists
<1>5. CASE ActionCleanup
  BY <1>1, <1>5, Typed, Names DEF ActionCleanup, lists
<1>6. ASSUME NEW u \in User, UserRefused(u)
      PROVE  IInv'
  BY <1>1, <1>6, Typed, Names DEF UserRefused, Refuses, ShowOutcome, ClearTimers, lists
<1> QED
  BY <1>2, <1>3, <1>4, <1>5, <1>6

-----------------------------------------------------------------------------
(* The theorems *)

(* The panel starts in the invariant. *)
LEMMA InitIInv == Init => IInv
<1> SUFFICES ASSUME Init
             PROVE  IInv
  OBVIOUS
<1>1. maintenance \in BOOLEAN
  <2>1. maintenance = FALSE
    BY DEF Init
  <2> QED
    BY <2>1
<1>2. op \in [Op -> Stage] /\ \A o \in Op : op[o] = "idle"
  BY DEF Init, Stage
<1>3. spent \in 0 .. MaxEvents
  BY BoundAssumption DEF Init
<1>4. TypeOK
  BY <1>1, <1>2, <1>3, Idle, Names DEF Init, TypeOK, Poll
<1> QED
  BY <1>2, <1>4, Names DEF Init, IInv, Work, SpinnerHasWork, OwnersWait, OneEach, TimersPending, ServerPending,
                           NothingUnmounted, None

(* Every step of the panel keeps the invariant. *)
LEMMA NextIInv == IInv /\ [Next]_vars => IInv'
<1> SUFFICES ASSUME IInv, [Next]_vars
             PROVE  IInv'
  OBVIOUS
<1>1. CASE MeAnswers \/ Submit \/ SubmitUnreachable \/ Reload \/ CallUnreachable
  BY <1>1, SessionStep
<1>2. CASE SetPage \/ PollTick \/ PollCollected \/ PollRead \/ PollLands
  BY <1>2, PollStep
<1>3. CASE OthersChange \/ \E u \in User : LateDelete(u)
  BY <1>3, OthersStep
<1>4. ASSUME NEW r \in refreshes, RefreshRead(r) \/ Ends(r)
      PROVE  IInv'
  BY <1>4, RefreshReadStep, LandsStep
<1>5. CASE DeleteServer \/ RunNodeAction \/ RunNodeManagement \/ \E u \in User : DeleteUser(u)
  BY <1>5, BeginStep
<1>6. CASE RefuseNodeAction \/ JobRuns \/ ClosePopup \/ \E o \in Op : TimerFires(o)
  BY <1>6, PopupStep
<1>7. CASE JobEnds \/ \E o \in Op : Serve(o)
  BY <1>7, ServeStep
<1>8. CASE ServerServed \/ ManageServed \/ ActionServed \/ \E u \in User : UserServed(u)
  BY <1>8, ServedStep
<1>9. CASE ServerRefused \/ ManageRefused \/ ActionRefused \/ ActionCleanup \/ \E u \in User : UserRefused(u)
  BY <1>9, RefusedStep
<1>10. CASE UNCHANGED vars
  BY <1>10 DEF vars, server, panel, lists, work, IInv, TypeOK, Work, SpinnerHasWork, OwnersWait, OneEach,
               TimersPending, ServerPending, NothingUnmounted, Mounted
<1> QED
  BY <1>1, <1>2, <1>3, <1>4, <1>5, <1>6, <1>7, <1>8, <1>9, <1>10 DEF Next

(* The inductive invariant of the panel. *)
THEOREM Inductive == Spec => []IInv
<1> QED
  BY InitIInv, NextIInv, PTL DEF Spec

(* The panel's state has its type; a node action is marked as running exactly    *)
(* while it runs, and nothing is in flight while the panel is off the screen.  *)
THEOREM TypeCorrect == Spec => []TypeOK
<1>1. IInv => TypeOK
  BY DEF IInv
<1> QED
  BY <1>1, Inductive, PTL

(* For any number of users whose deletions, timers, refreshes and failures         *)
(* overlap: a pending popup of a deletion, which cannot be closed, belongs to    *)
(* a deletion that has not ended.                                          *)
THEOREM SpinnersHaveWork == Spec => []SpinnerHasWork
<1>1. IInv => SpinnerHasWork
  BY DEF IInv
<1> QED
  BY <1>1, Inductive, PTL
=============================================================================
