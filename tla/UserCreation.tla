---------------------------- MODULE UserCreation ----------------------------
(***************************************************************************)
(* Creating a VPN user: the form of UsersPage (App.tsx) in one tab for     *)
(* each administrator, and the handler of POST /admin/users with its       *)
(* idempotency cache (entities.py).  A login is unique among all users,    *)
(* the deleted ones included.                                              *)
(*                                                                         *)
(* The handler runs on the event loop of the one server process and holds  *)
(* its transaction, with the new row unseen by others, while it awaits the *)
(* application of the configuration.  An insertion of the same login by    *)
(* another transaction waits for that one inside the driver, and with it   *)
(* the whole process: Frozen.  The watchdog restarts such a server.        *)
(***************************************************************************)
EXTENDS FiniteSets, Naturals

CONSTANTS Login, Tab,
          MaxRequests,  \* bound: POSTs delivered, repeated ones included
          MaxEvents     \* bound: restarts, lapses, lost answers, changes by others

ASSUME BoundAssumption == MaxRequests \in Nat /\ MaxEvents \in Nat

VARIABLES row,    \* what the table says of each login, when committed
          req,    \* the POSTs: their handlers and answers
          cache,  \* the keys of _create_user_idempotency_cache
          lapsed, \* the keys that were in the cache at a restart or at their expiry
          tab,    \* UsersPage, and the list of users of AdminPages
          spent

Request == 1 .. MaxRequests
NoLogin == "no login"
NoKey == 0

server == <<row, req, cache, lapsed>>
vars == <<server, tab, spent>>

TypeOK ==
  /\ row \in [Login -> {"absent", "visible", "deleted"}]
  /\ req \in [Request -> [at : {"unused", "sent", "waiting", "apply", "blocked", "created", "conflict", "lost"},
                          key : Request \union {NoKey}, login : Login \union {NoLogin}]]
  /\ cache \subseteq Request /\ lapsed \subseteq Request
  /\ tab \in [Tab -> [at : {"idle", "post", "refresh", "recheck", "maintenance"},
                      key : Request \union {NoKey}, login : Login \union {NoLogin}, existed : BOOLEAN,
                      list : SUBSET Login, reply : SUBSET Login, answered : BOOLEAN,
                      popup : {"none", "pending", "success", "warning", "error"}]]
  /\ spent \in 0 .. MaxEvents
  /\ \A t \in Tab : (tab[t].popup = "pending") <=> (tab[t].at \in {"post", "refresh", "recheck"})

Visible == {l \in Login : row[l] = "visible"}
Page(list) ==
  [at |-> "idle", key |-> NoKey, login |-> NoLogin, existed |-> FALSE,
   list |-> list, reply |-> {}, answered |-> FALSE, popup |-> "none"]

Init ==
  /\ row \in [Login -> {"absent", "deleted"}]
  /\ req = [r \in Request |-> [at |-> "unused", key |-> NoKey, login |-> NoLogin]]
  /\ cache = {} /\ lapsed = {}
  /\ tab = [t \in Tab |-> Page({})]
  /\ spent = 0

Spend == spent < MaxEvents /\ spent' = spent + 1

-----------------------------------------------------------------------------
\* The server

Frozen == \E r \in Request : req[r].at = "blocked"
Goes(r, at) == req' = [req EXCEPT ![r].at = at]
Uncommitted(l) == \E r \in Request : req[r].at = "apply" /\ req[r].login = l

\* A delivered POST takes the next free number; an original one is its own key.
Unused(r) == req[r].at = "unused" /\ \A s \in Request : s < r => req[s].at # "unused"
Deliver(r, key, l) == req' = [req EXCEPT ![r] = [at |-> "sent", key |-> key, login |-> l]]

\* Some other sender repeats a request with its key.
Repeat(r) ==
  /\ Unused(r)
  /\ \E s \in Request : req[s].at # "unused" /\ req[s].key = s /\ Deliver(r, s, req[s].login)
  /\ UNCHANGED <<row, cache, lapsed, tab, spent>>

\* cached_created_user before the lock; without a hit, wait for the key's lock.
Receive(r) ==
  /\ ~Frozen /\ req[r].at = "sent"
  /\ Goes(r, IF req[r].key \in cache THEN "created" ELSE "waiting")
  /\ UNCHANGED <<row, cache, lapsed, tab, spent>>

LockFree(key) == \A s \in Request : req[s].key = key => req[s].at \notin {"apply", "blocked"}

\* create_user under the lock, up to the first await of create_user_unlocked:
\* the cache again, the login's uniqueness, the flush.
CachedOnlyBefore(key) == FALSE                                     \* mutant
CachedNow(key) == key \in cache

Flushed(l) == IF Uncommitted(l) THEN "blocked" ELSE "apply"

Locked(r) ==
  /\ ~Frozen /\ req[r].at = "waiting" /\ LockFree(req[r].key)
  /\ Goes(r, IF CachedNow(req[r].key) THEN "created"
             ELSE IF row[req[r].login] # "absent" THEN "conflict"
             ELSE Flushed(req[r].login))
  /\ UNCHANGED <<row, cache, lapsed, tab, spent>>

\* safe_auto_apply_after_change never fails; commit, cache, answer.
CommitRow(r) == row' = [row EXCEPT ![req[r].login] = "visible"]

Commit(r) ==
  /\ ~Frozen /\ req[r].at = "apply"
  /\ CommitRow(r) /\ cache' = cache \union {req[r].key}
  /\ Goes(r, "created")
  /\ UNCHANGED <<lapsed, tab, spent>>

\* IDEMPOTENCY_TTL_SECONDS after the creation.
Expire(key) ==
  /\ key \in cache /\ Spend
  /\ cache' = cache \ {key} /\ lapsed' = lapsed \union {key}
  /\ UNCHANGED <<row, req, tab>>

\* A restart ends the transactions that were open and forgets the cache.
Restarted ==
  /\ req' = [r \in Request |->
               IF req[r].at \in {"sent", "waiting", "apply", "blocked"} THEN [req[r] EXCEPT !.at = "lost"]
               ELSE req[r]]
  /\ cache' = {} /\ lapsed' = lapsed \union cache
  /\ UNCHANGED <<row, tab>>

Restart == Spend /\ Restarted
WatchdogRestart == Frozen /\ Restarted /\ UNCHANGED spent

\* Another administrator deletes or enables the user of a login.
Change(l) ==
  /\ ~Frozen /\ row[l] # "absent" /\ Spend
  /\ row' = [row EXCEPT ![l] = IF @ = "visible" THEN "deleted" ELSE "visible"]
  /\ UNCHANGED <<req, cache, lapsed, tab>>

-----------------------------------------------------------------------------
\* The tab

\* The form with its button, disabled during a creation; a login is all of it
\* that matters here.
CreateForm(t, l) == tab[t].at = "idle" /\ l # NoLogin

\* create: createInFlightRef bars a second click; existedBefore looks at the
\* list in the tab.
Create(t, l, r) ==
  /\ CreateForm(t, l) /\ Unused(r)
  /\ Deliver(r, r, l)
  /\ tab' = [tab EXCEPT ![t] = [@ EXCEPT !.at = "post", !.key = r, !.login = l,
                                         !.existed = (l \in tab[t].list), !.popup = "pending"]]
  /\ UNCHANGED <<row, cache, lapsed, spent>>

EndsPending(page, tone) == [page EXCEPT !.at = "idle", !.answered = FALSE, !.reply = {}]  \* mutant
EndsBusy(page, tone) == [page EXCEPT !.popup = "pending", !.answered = TRUE]  \* mutant

\* The end of create: its outcome, and the button back.
Ends(page, tone) == [page EXCEPT !.at = "idle", !.popup = tone, !.answered = FALSE, !.reply = {}]

ConflictIsError(page) == Ends(page, "error")                       \* mutant
OnConflict(page) == IF page.existed THEN Ends(page, "error") ELSE [page EXCEPT !.at = "recheck"]

\* The answer to the POST: onCreated and its refresh, or the catch.
Answer(t) ==
  /\ tab[t].at = "post"
  /\ \/ /\ req[tab[t].key].at = "created"
        /\ tab' = [tab EXCEPT ![t].at = "refresh"]
     \/ /\ req[tab[t].key].at = "conflict"
        /\ tab' = [tab EXCEPT ![t] = OnConflict(@)]
  /\ UNCHANGED <<server, spent>>

\* api.users, of the refresh or of the recheck.
ListRead(t) ==
  /\ ~Frozen /\ tab[t].at \in {"refresh", "recheck"} /\ ~tab[t].answered
  /\ tab' = [tab EXCEPT ![t].reply = Visible, ![t].answered = TRUE]
  /\ UNCHANGED <<server, spent>>

\* refresh swallows its errors, so the outcome is the same when it fails.
RefreshEnds(t) ==
  /\ tab[t].at = "refresh"
  /\ \/ /\ tab[t].answered /\ UNCHANGED spent
        /\ tab' = [tab EXCEPT ![t] = Ends([@ EXCEPT !.list = tab[t].reply], "success")]
     \/ /\ ~tab[t].answered /\ Spend
        /\ tab' = [tab EXCEPT ![t] = Ends(@, "success")]
  /\ UNCHANGED server

\* The login is taken though the list did not have it: found in a fresh list,
\* it counts as created, and onCreated refreshes once more.
RecheckEnds(t) ==
  /\ tab[t].at = "recheck"
  /\ \/ /\ tab[t].answered /\ UNCHANGED spent
        /\ tab' = [tab EXCEPT ![t] =
                     IF tab[t].login \in tab[t].reply
                     THEN [@ EXCEPT !.at = "refresh", !.answered = FALSE, !.reply = {}]
                     ELSE Ends(@, "error")]
     \/ /\ ~tab[t].answered /\ Spend
        /\ tab' = [tab EXCEPT ![t] = Ends(@, "warning")]
  /\ UNCHANGED server

\* Twelve seconds without an answer, or a lost one: the maintenance screen.
Unanswered(t) ==
  \/ tab[t].at = "post" /\ req[tab[t].key].at \notin {"created", "conflict"}
  \/ tab[t].at \in {"refresh", "recheck"} /\ ~tab[t].answered
GivesUp(t) ==
  /\ Unanswered(t)
  /\ tab' = [tab EXCEPT ![t] = [Page({}) EXCEPT !.at = "maintenance"]]
  /\ UNCHANGED <<server, spent>>

\* The panel is loaded anew; only a server that serves can do it.
Reload(t) ==
  /\ tab[t].at \in {"idle", "maintenance"} /\ ~Frozen
  /\ tab' = [tab EXCEPT ![t] = Page(Visible)]
  /\ UNCHANGED <<server, spent>>

\* Another page and back: a new UsersPage with its ref unset; what the old one
\* still awaits ends unseen.
LeavePage(t) ==
  /\ tab[t].at \in {"post", "refresh", "recheck"}
  /\ tab' = [tab EXCEPT ![t] = Page(tab[t].list)]
  /\ UNCHANGED <<server, spent>>

\* Any other refresh of the list: the poll's, an abandoned creation's.
ListArrives(t) ==
  /\ tab[t].at # "maintenance" /\ ~Frozen
  /\ tab' = [tab EXCEPT ![t].list = Visible]
  /\ UNCHANGED <<server, spent>>

Next ==
  \/ \E r \in Request : Repeat(r) \/ Receive(r) \/ Locked(r) \/ Commit(r) \/ Expire(r)
  \/ Restart \/ WatchdogRestart \/ \E l \in Login : Change(l)
  \/ \E t \in Tab : \/ \E l \in Login, r \in Request : Create(t, l, r)
                    \/ Answer(t) \/ ListRead(t) \/ RefreshEnds(t) \/ RecheckEnds(t)
                    \/ ListArrives(t) \/ GivesUp(t) \/ Reload(t) \/ LeavePage(t)

Spec == Init /\ [][Next]_vars

\* Handlers run; the watchdog sees a server that does not answer; the timeout
\* fires; the tab handles what it gets, and a reload comes at some time.
FairSpec ==
  /\ Spec /\ WF_vars(WatchdogRestart)
  /\ \A r \in Request : WF_vars(Receive(r)) /\ WF_vars(Locked(r)) /\ WF_vars(Commit(r))
  /\ \A t \in Tab : /\ WF_vars(Answer(t)) /\ WF_vars(ListRead(t)) /\ WF_vars(RefreshEnds(t))
                    /\ WF_vars(RecheckEnds(t)) /\ WF_vars(GivesUp(t))
                    /\ SF_vars(tab[t].at = "maintenance" /\ Reload(t))

-----------------------------------------------------------------------------
\* A repeated request is never told of a conflict with the user it has itself
\* created, as long as the server keeps its cache, whatever the order in which
\* the copies arrive and however long the first one takes.
RepeatAnswered ==
  \A r, s \in Request :
    req[r].at = "created" /\ req[s].at = "conflict" /\ req[r].key = req[s].key => req[r].key \in lapsed

\* An outcome is true when the popup shows it: success only for a login whose
\* row is committed; an error only if the tab's own request has created nothing
\* or a fresh list no longer has the user.
Shows(t, tone) == tab'[t].popup = tone /\ tab[t].popup # tone
OutcomeTrue ==
  [][\A t \in Tab :
       /\ Shows(t, "success") => row[tab[t].login] # "absent"
       /\ Shows(t, "error") => \/ \A r \in Request : req[r].key = tab[t].key => req[r].at # "created"
                               \/ tab[t].answered /\ tab[t].login \notin tab[t].reply]_vars

\* Every tab gets its form back, even from a server that has frozen.
FormComesBack == \A t \in Tab : []<>(tab[t].at = "idle")
=============================================================================
