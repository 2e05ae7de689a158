------------------------- MODULE UserCreationProofs -------------------------
(***************************************************************************)
(* Creating users from any number of tabs, with any number of repeated     *)
(* requests, restarts, expiries, lost answers and changes by others: what  *)
(* the server answers and what the popup of a tab then says.               *)
(***************************************************************************)
EXTENDS UserCreation, TLAPS

Used(r) == req[r].at # "unused"
Taken(l) == l \in Login /\ row[l] # "absent"

(* The copies of a request carry the key and the login of the original; a    *)
(* login that is being inserted is free, and nobody else inserts it; the    *)
(* cache and the answers speak of logins that are taken, a conflict of one  *)
(* whose key the cache did not hold.                                        *)
KeysOriginal ==
  \A r \in Request : Used(r) =>
    /\ req[r].key \in Request /\ Used(req[r].key) /\ req[req[r].key].key = req[r].key
    /\ req[req[r].key].login = req[r].login /\ req[r].login \in Login
OneApplies ==
  \A r \in Request : req[r].at = "apply" =>
    /\ row[req[r].login] = "absent"
    /\ \A s \in Request : req[s].at = "apply" /\ req[s].login = req[r].login => r = s
CacheTrue == \A k \in cache : Used(k) /\ Taken(req[k].login)
AnswersTrue ==
  \A r \in Request :
    /\ req[r].at = "created" => Taken(req[r].login) /\ req[r].key \in cache \union lapsed
    /\ req[r].at = "conflict" => Taken(req[r].login) /\ (req[r].key \in cache => req[r].key \in lapsed)
Server == KeysOriginal /\ OneApplies /\ CacheTrue /\ AnswersTrue /\ RepeatAnswered

(* The request of a page whose list had the login already will be refused,   *)
(* and the page knows no login that is free.                               *)
Refused(p) ==
  /\ Taken(p.login) /\ p.key \notin cache
  /\ \A r \in Request : req[r].key = p.key => req[r].at \notin {"created", "apply"}
PageTrue(p) ==
  /\ p.at \in {"post", "refresh", "recheck"} =>
       p.key \in Request /\ Used(p.key) /\ req[p.key].key = p.key /\ req[p.key].login = p.login
  /\ p.at = "refresh" => Taken(p.login)
  /\ p.at = "post" /\ p.existed => Refused(p)
  /\ \A l \in p.list \union p.reply : Taken(l)
Tabs == \A t \in Tab : PageTrue(tab[t])

IInv == TypeOK /\ Server /\ Tabs

Pages == [at : {"idle", "post", "refresh", "recheck", "maintenance"},
          key : Request \union {NoKey}, login : Login \union {NoLogin}, existed : BOOLEAN,
          list : SUBSET Login, reply : SUBSET Login, answered : BOOLEAN,
          popup : {"none", "pending", "success", "warning", "error"}]
Proper(p) == p \in Pages /\ (p.popup = "pending" <=> p.at \in {"post", "refresh", "recheck"})

At == {"unused", "sent", "waiting", "apply", "blocked", "created", "conflict", "lost"}

-----------------------------------------------------------------------------
(* The server *)

(* Requests keep their keys and logins, taken logins stay taken, and what    *)
(* is refused for a waiting page stays so.                                 *)
Kept ==
  /\ \A s \in Request : Used(s) => Used(s)' /\ req'[s].key = req[s].key /\ req'[s].login = req[s].login
  /\ \A l \in Login : Taken(l) => Taken(l)'
RefusalKept(t) == tab'[t] = tab[t] /\ tab[t].at = "post" /\ Refused(tab[t]) => Refused(tab[t])'

(* Then a page that does not change stays true. *)
LEMMA PageKept ==
  ASSUME Kept, NEW t \in Tab, PageTrue(tab[t]), tab'[t] = tab[t], RefusalKept(t)
  PROVE  PageTrue(tab[t])'
<1>1. \A l : Taken(l) => l \in Login
  BY DEF Taken
<1>2. tab[t].at = "refresh" => Taken(tab[t].login)'
  <2>1. tab[t].at = "refresh" => tab[t].login \in Login /\ Taken(tab[t].login)
    BY <1>1 DEF PageTrue
  <2> QED
    BY <2>1 DEF Taken, Kept
<1>3. \A l \in tab[t].list \union tab[t].reply : Taken(l)'
  BY <1>1 DEF PageTrue, Kept
<1>4. tab[t].at \in {"post", "refresh", "recheck"} =>
        /\ tab[t].key \in Request /\ Used(tab[t].key)'
        /\ req'[tab[t].key].key = tab[t].key /\ req'[tab[t].key].login = tab[t].login
  BY DEF PageTrue, Used, Kept
<1> QED
  BY <1>2, <1>3, <1>4 DEF PageTrue, Used, Taken, Refused, RefusalKept

(* What the tabs show stays true as long as the server keeps what it said. *)
LEMMA TabsKept ==
  ASSUME Tabs, UNCHANGED tab, Kept, \A t \in Tab : RefusalKept(t)
  PROVE  Tabs'
<1> SUFFICES ASSUME NEW t \in Tab
             PROVE  PageTrue(tab[t])'
  BY DEF Tabs
<1> QED
  BY PageKept DEF Tabs

(* Receive and the section under the lock: a request goes on to a place that *)
(* its login and its key allow.                                            *)
LEMMA Moves ==
  ASSUME IInv, NEW r \in Request, NEW at \in At \ {"unused"}, Used(r), Goes(r, at),
         UNCHANGED <<row, cache, lapsed, tab, spent>>,
         at = "created" => req[r].key \in cache,
         at = "conflict" => row[req[r].login] # "absent" /\ req[r].key \notin cache,
         at = "apply" => row[req[r].login] = "absent" /\ ~Uncommitted(req[r].login) /\ req[r].key \notin cache
  PROVE  IInv'
<1>1. /\ req' \in [Request -> [at : At, key : Request \union {NoKey}, login : Login \union {NoLogin}]]
      /\ req'[r].at = at /\ \A s \in Request : s # r => req'[s] = req[s]
      /\ \A s \in Request : req'[s].key = req[s].key /\ req'[s].login = req[s].login
  BY DEF IInv, TypeOK, Goes, At
<1>2. TypeOK'
  BY <1>1 DEF IInv, TypeOK, At
<1>3. \A s \in Request : Used(s)' <=> Used(s)
  BY <1>1 DEF Used, At
<1>4. KeysOriginal'
  BY <1>1, <1>3 DEF IInv, Server, KeysOriginal, Used
<1>5. OneApplies'
  BY <1>1 DEF IInv, Server, OneApplies, Uncommitted
<1>6. CacheTrue'
  BY <1>1, <1>3 DEF IInv, TypeOK, Server, CacheTrue, Used, Taken
<1>7. AnswersTrue'
  <2>1. req[r].login \in Login /\ (req[r].key \in cache => Taken(req[r].login))
    BY DEF IInv, Server, KeysOriginal, CacheTrue
  <2> QED
    BY <1>1, <2>1 DEF IInv, Server, AnswersTrue, Taken
<1>8. RepeatAnswered'
  BY <1>1 DEF IInv, Server, RepeatAnswered, AnswersTrue
<1>9. \A t \in Tab : RefusalKept(t)
  <2> SUFFICES ASSUME NEW t \in Tab, tab[t].at = "post", Refused(tab[t])
               PROVE  Refused(tab[t])'
    BY DEF RefusalKept
  <2>1. req[r].key = tab[t].key => req[r].login = tab[t].login
    BY DEF IInv, Server, KeysOriginal, Tabs, PageTrue
  <2>2. req[r].key = tab[t].key => at \notin {"created", "apply"}
    BY <2>1 DEF Refused, Taken
  <2> QED
    BY <1>1, <2>2 DEF Refused, Taken
<1>10. Tabs'
  BY <1>1, <1>3, <1>9, TabsKept DEF IInv, Used, Taken, Kept
<1> QED
  BY <1>2, <1>4, <1>5, <1>6, <1>7, <1>8, <1>10 DEF IInv, Server

(* What awaits the end of a handler is looked at before the cache.         *)
LEMMA ReceiveStep ==
  ASSUME IInv, NEW r \in Request, Receive(r)
  PROVE  IInv'
<1> DEFINE at == IF req[r].key \in cache THEN "created" ELSE "waiting"
<1>1. at \in At \ {"unused"} /\ Goes(r, at) /\ Used(r)
  BY DEF Receive, Used, At
<1>2. /\ at = "created" => req[r].key \in cache
      /\ at # "conflict" /\ at # "apply"
  OBVIOUS
<1>3. UNCHANGED <<row, cache, lapsed, tab, spent>>
  BY DEF Receive
<1> HIDE DEF at
<1> QED
  BY <1>1, <1>2, <1>3, Moves

(* Under the lock: found in the cache, refused, or inserted and applied.   *)
LEMMA LockedStep ==
  ASSUME IInv, NEW r \in Request, Locked(r)
  PROVE  IInv'
<1> DEFINE at == IF CachedNow(req[r].key) THEN "created"
                 ELSE IF row[req[r].login] # "absent" THEN "conflict"
                 ELSE Flushed(req[r].login)
<1>1. at \in At \ {"unused"} /\ Goes(r, at) /\ Used(r)
  BY DEF Locked, Used, At, Flushed
<1>2. /\ at = "created" => req[r].key \in cache
      /\ at = "conflict" => row[req[r].login] # "absent" /\ req[r].key \notin cache
      /\ at = "apply" => row[req[r].login] = "absent" /\ ~Uncommitted(req[r].login) /\ req[r].key \notin cache
  BY DEF CachedNow, Flushed
<1>3. UNCHANGED <<row, cache, lapsed, tab, spent>>
  BY DEF Locked
<1> HIDE DEF at
<1> QED
  BY <1>1, <1>2, <1>3, Moves

(* The commit of an insertion: the login was free until now, so that no      *)
(* other copy has been told of a conflict.                                 *)
LEMMA CommitStep ==
  ASSUME IInv, NEW r \in Request, Commit(r)
  PROVE  IInv'
<1>1. /\ req' \in [Request -> [at : At, key : Request \union {NoKey}, login : Login \union {NoLogin}]]
      /\ req'[r].at = "created" /\ \A s \in Request : s # r => req'[s] = req[s]
      /\ \A s \in Request : req'[s].key = req[s].key /\ req'[s].login = req[s].login
  BY DEF IInv, TypeOK, Commit, Goes, At
<1>2. /\ req[r].at = "apply" /\ req[r].login \in Login /\ row[req[r].login] = "absent"
      /\ req[r].key \in Request /\ Used(r) /\ Used(req[r].key)
      /\ req[req[r].key].login = req[r].login /\ req[req[r].key].key = req[r].key
  BY DEF IInv, Server, KeysOriginal, OneApplies, Commit, Used
<1>3. /\ row' \in [Login -> {"absent", "visible", "deleted"}] /\ row'[req[r].login] = "visible"
      /\ \A l \in Login : l # req[r].login => row'[l] = row[l]
  BY <1>2 DEF IInv, TypeOK, Commit, CommitRow
<1>4. cache' = cache \union {req[r].key} /\ lapsed' = lapsed /\ tab' = tab /\ spent' = spent
  BY DEF Commit
<1>5. TypeOK'
  BY <1>1, <1>2, <1>3, <1>4 DEF IInv, TypeOK, At
<1>6. \A s \in Request : Used(s)' <=> Used(s)
  BY <1>1, <1>2 DEF Used
<1>7. \A l \in Login : Taken(l)' <=> Taken(l) \/ l = req[r].login
  BY <1>3 DEF Taken
<1>8. KeysOriginal'
  BY <1>1, <1>6 DEF IInv, Server, KeysOriginal, Used
<1>9. OneApplies'
  BY <1>1, <1>2, <1>3 DEF IInv, Server, OneApplies, KeysOriginal, Used
<1>10. CacheTrue'
  BY <1>1, <1>2, <1>3, <1>4, <1>6 DEF IInv, TypeOK, Server, CacheTrue, Used, Taken
<1>11. \A s \in Request : req[s].at = "conflict" => req[s].login # req[r].login /\ req[s].key # req[r].key
  BY <1>2 DEF IInv, Server, AnswersTrue, Taken, KeysOriginal, Used
<1>12. AnswersTrue'
  BY <1>1, <1>2, <1>3, <1>4, <1>11 DEF IInv, Server, AnswersTrue, Taken
<1>13. RepeatAnswered'
  BY <1>1, <1>4, <1>11 DEF IInv, Server, RepeatAnswered
<1>14. \A t \in Tab : RefusalKept(t)
  <2> SUFFICES ASSUME NEW t \in Tab, tab[t].at = "post", Refused(tab[t])
               PROVE  Refused(tab[t])'
    BY DEF RefusalKept
  <2>1. req[r].key # tab[t].key
    BY <1>2 DEF Refused
  <2> QED
    BY <1>1, <1>3, <1>4, <2>1 DEF Refused, Taken
<1>15. Tabs'
  BY <1>1, <1>4, <1>6, <1>7, <1>14, TabsKept DEF IInv, Kept
<1> QED
  BY <1>5, <1>8, <1>9, <1>10, <1>12, <1>13, <1>15 DEF IInv, Server

(* The end of a cached answer's life.                                      *)
LEMMA ExpireStep ==
  ASSUME IInv, NEW k \in Request, Expire(k)
  PROVE  IInv'
<1>1. /\ k \in cache /\ cache' = cache \ {k} /\ lapsed' = lapsed \union {k}
      /\ row' = row /\ req' = req /\ tab' = tab
  BY DEF Expire
<1>2. spent' \in 0 .. MaxEvents
  BY BoundAssumption DEF Expire, Spend, IInv, TypeOK
<1>3. TypeOK'
  BY <1>1, <1>2 DEF IInv, TypeOK
<1>4. Server'
  BY <1>1 DEF IInv, Server, KeysOriginal, OneApplies, CacheTrue, AnswersTrue, RepeatAnswered, Used, Taken
<1>5. \A t \in Tab : RefusalKept(t)
  BY <1>1 DEF RefusalKept, Refused, Taken
<1>6. Tabs'
  BY <1>1, <1>5, TabsKept DEF IInv, Kept, Used, Taken
<1> QED
  BY <1>3, <1>4, <1>6 DEF IInv

(* The end of the process, with its transactions and its cache.            *)
LEMMA RestartedStep ==
  ASSUME IInv, Restarted, spent' \in 0 .. MaxEvents
  PROVE  IInv'
<1>1. /\ req' \in [Request -> [at : At, key : Request \union {NoKey}, login : Login \union {NoLogin}]]
      /\ \A s \in Request : /\ req'[s].key = req[s].key /\ req'[s].login = req[s].login
                             /\ req'[s].at = IF req[s].at \in {"sent", "waiting", "apply", "blocked"}
                                             THEN "lost" ELSE req[s].at
  BY DEF IInv, TypeOK, Restarted, At
<1>2. cache' = {} /\ lapsed' = lapsed \union cache /\ row' = row /\ tab' = tab
  BY DEF Restarted
<1>3. TypeOK'
  BY <1>1, <1>2 DEF IInv, TypeOK, At
<1>4. \A s \in Request : Used(s)' <=> Used(s)
  BY <1>1 DEF Used
<1>5. KeysOriginal'
  BY <1>1, <1>4 DEF IInv, Server, KeysOriginal
<1>6. OneApplies' /\ CacheTrue' /\ AnswersTrue' /\ RepeatAnswered'
  BY <1>1, <1>2 DEF IInv, Server, OneApplies, CacheTrue, AnswersTrue, RepeatAnswered, Taken
<1>7. \A t \in Tab : RefusalKept(t)
  BY <1>1, <1>2 DEF RefusalKept, Refused, Taken
<1>8. Tabs'
  BY <1>1, <1>2, <1>4, <1>7, TabsKept DEF IInv, Kept, Taken
<1> QED
  BY <1>3, <1>5, <1>6, <1>8 DEF IInv, Server

(* A deletion keeps the row, so that the login stays taken.                *)
LEMMA ChangeStep ==
  ASSUME IInv, NEW l \in Login, Change(l)
  PROVE  IInv'
<1>1. /\ req' = req /\ cache' = cache /\ lapsed' = lapsed /\ tab' = tab
      /\ row' \in [Login -> {"absent", "visible", "deleted"}]
      /\ \A m \in Login : row'[m] = "absent" <=> row[m] = "absent"
  BY DEF Change, IInv, TypeOK
<1>2. spent' \in 0 .. MaxEvents
  BY BoundAssumption DEF Change, Spend, IInv, TypeOK
<1>3. TypeOK'
  BY <1>1, <1>2 DEF IInv, TypeOK
<1>4. KeysOriginal' /\ RepeatAnswered'
  BY <1>1 DEF IInv, Server, KeysOriginal, RepeatAnswered, Used
<1>5. OneApplies'
  BY <1>1 DEF IInv, Server, OneApplies, KeysOriginal, Used
<1>6. CacheTrue' /\ AnswersTrue'
  BY <1>1 DEF IInv, Server, CacheTrue, AnswersTrue, Used, Taken
<1>7. \A t \in Tab : RefusalKept(t)
  BY <1>1 DEF RefusalKept, Refused, Taken
<1>8. Tabs'
  BY <1>1, <1>7, TabsKept DEF IInv, Kept, Used, Taken
<1> QED
  BY <1>3, <1>4, <1>5, <1>6, <1>8 DEF IInv, Server

(* A new copy of a request, or a new request, which is its own key.        *)
LEMMA Delivered ==
  ASSUME IInv, NEW r \in Request, Unused(r), NEW k \in Request, NEW l \in Login, Deliver(r, k, l),
         k = r \/ (Used(k) /\ req[k].key = k /\ req[k].login = l),
         UNCHANGED <<row, cache, lapsed>>
  PROVE  /\ req' \in [Request -> [at : At, key : Request \union {NoKey}, login : Login \union {NoLogin}]]
         /\ req'[r] = [at |-> "sent", key |-> k, login |-> l]
         /\ \A s \in Request : s # r => req'[s] = req[s]
         /\ Server' /\ Kept /\ \A t \in Tab : RefusalKept(t)
<1>1. /\ req' \in [Request -> [at : At, key : Request \union {NoKey}, login : Login \union {NoLogin}]]
      /\ req'[r] = [at |-> "sent", key |-> k, login |-> l]
      /\ \A s \in Request : s # r => req'[s] = req[s]
  BY DEF IInv, TypeOK, Deliver, At
<1>2. req[r].at = "unused" /\ req'[r].at = "sent" /\ req'[r].key = k /\ req'[r].login = l
  BY <1>1 DEF Unused
<1>3. \A s \in Request : Used(s)' <=> Used(s) \/ s = r
  BY <1>1, <1>2 DEF Used
<1>4. KeysOriginal'
  <2> SUFFICES ASSUME NEW s \in Request, Used(s)'
               PROVE  /\ req'[s].key \in Request /\ Used(req[s].key)' /\ req'[req'[s].key].key = req'[s].key
                      /\ req'[req'[s].key].login = req'[s].login /\ req'[s].login \in Login
    BY DEF KeysOriginal
  <2>1. CASE s = r
    BY <2>1, <1>1, <1>2, <1>3 DEF Used
  <2>2. CASE s # r
    <3>1. req'[s] = req[s] /\ Used(s)
      BY <2>2, <1>1, <1>3
    <3>2. /\ req[s].key \in Request /\ Used(req[s].key) /\ req[req[s].key].key = req[s].key
          /\ req[req[s].key].login = req[s].login /\ req[s].login \in Login
      BY <3>1 DEF IInv, Server, KeysOriginal
    <3>3. req[s].key # r
      BY <3>2, <1>2 DEF Used
    <3> QED
      BY <3>1, <3>2, <3>3, <1>1, <1>2 DEF Used
  <2> QED
    BY <2>1, <2>2
<1>5. OneApplies'
  BY <1>1, <1>2 DEF IInv, Server, OneApplies
<1>6. CacheTrue'
  BY <1>1, <1>2, <1>3 DEF IInv, TypeOK, Server, CacheTrue, Used, Taken
<1>7. AnswersTrue' /\ RepeatAnswered'
  BY <1>1, <1>2 DEF IInv, Server, AnswersTrue, RepeatAnswered, Taken
<1>8. Kept
  BY <1>1, <1>2, <1>3 DEF Kept, Used, Taken
<1>9. \A t \in Tab : RefusalKept(t)
  <2> SUFFICES ASSUME NEW t \in Tab, tab[t].at = "post", Refused(tab[t]), tab'[t] = tab[t]
               PROVE  Refused(tab[t])'
    BY DEF RefusalKept
  <2> QED
    BY <1>1, <1>2 DEF Refused, Taken
<1> QED
  BY <1>1, <1>4, <1>5, <1>6, <1>7, <1>8, <1>9 DEF Server

(* A copy of a request by some other sender.                               *)
LEMMA RepeatStep ==
  ASSUME IInv, NEW r \in Request, Repeat(r)
  PROVE  IInv'
<1>1. PICK s \in Request : Used(s) /\ req[s].key = s /\ Deliver(r, s, req[s].login)
  BY DEF Repeat, Used
<1>2. PICK l \in Login : l = req[s].login
  BY <1>1 DEF IInv, Server, KeysOriginal
<1>3. UNCHANGED <<row, cache, lapsed, tab, spent>> /\ Unused(r)
  BY DEF Repeat
<1>4. /\ req' \in [Request -> [at : At, key : Request \union {NoKey}, login : Login \union {NoLogin}]]
      /\ Server' /\ Kept /\ \A t \in Tab : RefusalKept(t)
  BY <1>1, <1>2, <1>3, Delivered
<1>5. TypeOK'
  BY <1>3, <1>4 DEF IInv, TypeOK, At
<1>6. Tabs'
  BY <1>3, <1>4, TabsKept DEF IInv
<1> QED
  BY <1>4, <1>5, <1>6 DEF IInv

-----------------------------------------------------------------------------
(* The tab *)

(* A page of a tab is well formed and true. *)
LEMMA TabPage ==
  ASSUME IInv, NEW t \in Tab
  PROVE  Proper(tab[t]) /\ PageTrue(tab[t])
BY DEF IInv, TypeOK, Tabs, Proper, Pages

(* A tab goes to another page that is well formed and true, while nothing    *)
(* happens on the server.                                                  *)
LEMMA TabStep ==
  ASSUME IInv, UNCHANGED server, spent' \in 0 .. MaxEvents, NEW t \in Tab, NEW p,
         tab' = [tab EXCEPT ![t] = p], Proper(p), PageTrue(p)
  PROVE  IInv'
<1>1. row' = row /\ req' = req /\ cache' = cache /\ lapsed' = lapsed
  BY DEF server
<1>2. tab' \in [Tab -> Pages] /\ tab'[t] = p /\ \A u \in Tab : u # t => tab'[u] = tab[u]
  BY DEF Proper, IInv, TypeOK, Pages
<1>3. TypeOK'
  <2>1. \A u \in Tab : Proper(tab'[u])
    BY <1>2, TabPage
  <2> QED
    BY <1>1, <1>2, <2>1 DEF IInv, TypeOK, Pages, Proper
<1>4. Server'
  BY <1>1 DEF IInv, Server, KeysOriginal, OneApplies, CacheTrue, AnswersTrue, RepeatAnswered, Used, Taken
<1>5. Tabs'
  <2> SUFFICES ASSUME NEW u \in Tab
               PROVE  PageTrue(tab[u])'
    BY DEF Tabs
  <2>1. CASE u = t
    BY <1>1, <1>2, <2>1 DEF PageTrue, Used, Taken, Refused
  <2>2. CASE u # t
    <3>1. tab'[u] = tab[u] /\ PageTrue(tab[u])
      BY <1>2, <2>2 DEF IInv, Tabs
    <3> QED
      BY <1>1, <3>1 DEF PageTrue, Used, Taken, Refused
  <2> QED
    BY <2>1, <2>2
<1> QED
  BY <1>3, <1>4, <1>5 DEF IInv

(* The end of a creation leaves a well-formed page that knows what it knew.  *)
LEMMA Ended ==
  ASSUME NEW p, Proper(p), PageTrue(p), NEW tone \in {"success", "warning", "error"}, NEW q, q = Ends(p, tone)
  PROVE  Proper(q) /\ PageTrue(q)
<1>1. /\ q \in Pages /\ q.at = "idle" /\ q.popup = tone /\ q.reply = {} /\ q.list = p.list
  BY DEF Proper, Pages, Ends
<1> QED
  BY <1>1 DEF Proper, PageTrue

(* A tab's own request has been answered. *)
LEMMA AnswerStep ==
  ASSUME IInv, NEW t \in Tab, Answer(t)
  PROVE  IInv'
<1>1. /\ tab[t].at = "post" /\ UNCHANGED server /\ spent' \in 0 .. MaxEvents
      /\ tab[t].key \in Request /\ req[tab[t].key].login = tab[t].login
      /\ Proper(tab[t]) /\ PageTrue(tab[t])
  BY TabPage DEF Answer, PageTrue, IInv, TypeOK
<1>2. CASE req[tab[t].key].at = "created" /\ tab' = [tab EXCEPT ![t].at = "refresh"]
  <2>1. PICK p : p = [tab[t] EXCEPT !.at = "refresh"]
    OBVIOUS
  <2>2. tab' = [tab EXCEPT ![t] = p]
    BY <1>2, <2>1
  <2>3. /\ p \in Pages /\ p.at = "refresh" /\ p.popup = tab[t].popup /\ p.key = tab[t].key
        /\ p.login = tab[t].login /\ p.list = tab[t].list /\ p.reply = tab[t].reply
    BY <1>1, <2>1 DEF Proper, Pages
  <2>4. Taken(tab[t].login)
    BY <1>1, <1>2 DEF IInv, Server, AnswersTrue
  <2>5. Proper(p) /\ PageTrue(p)
    BY <1>1, <2>3, <2>4 DEF Proper, PageTrue
  <2> QED
    BY <1>1, <2>2, <2>5, TabStep
<1>3. CASE tab[t].existed /\ tab' = [tab EXCEPT ![t] = OnConflict(@)]
  <2>1. PICK p : p = Ends(tab[t], "error")
    OBVIOUS
  <2>2. tab' = [tab EXCEPT ![t] = p]
    BY <1>3, <2>1 DEF OnConflict
  <2>3. Proper(p) /\ PageTrue(p)
    BY <1>1, <2>1, Ended
  <2> QED
    BY <1>1, <2>2, <2>3, TabStep
<1>4. CASE ~tab[t].existed /\ tab' = [tab EXCEPT ![t] = OnConflict(@)]
  <2>1. PICK p : p = [tab[t] EXCEPT !.at = "recheck"]
    OBVIOUS
  <2>2. tab' = [tab EXCEPT ![t] = p]
    BY <1>4, <2>1 DEF OnConflict
  <2>3. /\ p \in Pages /\ p.at = "recheck" /\ p.popup = tab[t].popup /\ p.key = tab[t].key
        /\ p.login = tab[t].login /\ p.list = tab[t].list /\ p.reply = tab[t].reply
    BY <1>1, <2>1 DEF Proper, Pages
  <2>4. Proper(p) /\ PageTrue(p)
    BY <1>1, <2>3 DEF Proper, PageTrue
  <2> QED
    BY <1>1, <2>2, <2>4, TabStep
<1> QED
  BY <1>2, <1>3, <1>4 DEF Answer

(* What a list of the server shows is taken, and a login.                  *)
LEMMA VisibleTaken == Visible \in SUBSET Login /\ \A l \in Visible : Taken(l)
BY DEF Visible, Taken

(* A read of the list arrives. *)
LEMMA ListReadStep ==
  ASSUME IInv, NEW t \in Tab, ListRead(t)
  PROVE  IInv'
<1>1. /\ UNCHANGED server /\ spent' \in 0 .. MaxEvents /\ tab[t].at \in {"refresh", "recheck"}
      /\ Proper(tab[t]) /\ PageTrue(tab[t])
  BY TabPage DEF ListRead, IInv, TypeOK
<1>2. PICK b \in BOOLEAN : b = TRUE
  OBVIOUS
<1>3. PICK p : p = [tab[t] EXCEPT !.reply = Visible, !.answered = b]
  OBVIOUS
<1>4. tab' = [tab EXCEPT ![t] = p]
  <2>1. tab' = [tab EXCEPT ![t].reply = Visible, ![t].answered = b]
    BY <1>2 DEF ListRead
  <2> QED
    BY <2>1, <1>3 DEF IInv, TypeOK
<1>5. /\ p \in Pages /\ p.at = tab[t].at /\ p.popup = tab[t].popup /\ p.key = tab[t].key
      /\ p.login = tab[t].login /\ p.list = tab[t].list /\ p.reply = Visible /\ p.existed = tab[t].existed
  BY <1>1, <1>3, VisibleTaken DEF Proper, Pages
<1>6. Proper(p) /\ PageTrue(p)
  BY <1>1, <1>5, VisibleTaken DEF Proper, PageTrue
<1> QED
  BY <1>1, <1>4, <1>6, TabStep

(* The refresh after a creation ends, with a list or without one.          *)
LEMMA RefreshEndsStep ==
  ASSUME IInv, NEW t \in Tab, RefreshEnds(t)
  PROVE  IInv'
<1>1. /\ tab[t].at = "refresh" /\ UNCHANGED server /\ spent' \in 0 .. MaxEvents
      /\ Proper(tab[t]) /\ PageTrue(tab[t])
  BY TabPage, BoundAssumption DEF RefreshEnds, Spend, IInv, TypeOK
<1>2. CASE tab' = [tab EXCEPT ![t] = Ends([@ EXCEPT !.list = tab[t].reply], "success")]
  <2>1. PICK p : p = [tab[t] EXCEPT !.list = tab[t].reply]
    OBVIOUS
  <2>2. /\ p \in Pages /\ p.at = tab[t].at /\ p.popup = tab[t].popup /\ p.key = tab[t].key
        /\ p.login = tab[t].login /\ p.list = tab[t].reply /\ p.reply = tab[t].reply
        /\ p.existed = tab[t].existed
    BY <1>1, <2>1 DEF Proper, Pages
  <2>3. Proper(p) /\ PageTrue(p)
    BY <1>1, <2>2 DEF Proper, PageTrue
  <2>4. PICK q : q = Ends(p, "success")
    OBVIOUS
  <2>5. tab' = [tab EXCEPT ![t] = q]
    BY <1>2, <2>1, <2>4
  <2>6. Proper(q) /\ PageTrue(q)
    BY <2>3, <2>4, Ended
  <2> QED
    BY <1>1, <2>5, <2>6, TabStep
<1>3. CASE tab' = [tab EXCEPT ![t] = Ends(@, "success")]
  <2>1. PICK q : q = Ends(tab[t], "success")
    OBVIOUS
  <2>2. tab' = [tab EXCEPT ![t] = q]
    BY <1>3, <2>1
  <2>3. Proper(q) /\ PageTrue(q)
    BY <1>1, <2>1, Ended
  <2> QED
    BY <1>1, <2>2, <2>3, TabStep
<1> QED
  BY <1>2, <1>3 DEF RefreshEnds

(* The second look at the list ends: created after all, an error, or the     *)
(* warning of a look that failed.                                          *)
LEMMA RecheckEndsStep ==
  ASSUME IInv, NEW t \in Tab, RecheckEnds(t)
  PROVE  IInv'
<1>1. /\ tab[t].at = "recheck" /\ UNCHANGED server /\ spent' \in 0 .. MaxEvents
      /\ Proper(tab[t]) /\ PageTrue(tab[t])
  BY TabPage, BoundAssumption DEF RecheckEnds, Spend, IInv, TypeOK
<1>2. ASSUME NEW tone \in {"error", "warning"}, tab' = [tab EXCEPT ![t] = Ends(@, tone)]
      PROVE  IInv'
  <2>1. PICK q : q = Ends(tab[t], tone)
    OBVIOUS
  <2>2. tab' = [tab EXCEPT ![t] = q]
    BY <1>2, <2>1
  <2>3. Proper(q) /\ PageTrue(q)
    BY <1>1, <1>2, <2>1, Ended
  <2> QED
    BY <1>1, <2>2, <2>3, TabStep
<1>3. ASSUME tab[t].login \in tab[t].reply,
             tab' = [tab EXCEPT ![t] = [@ EXCEPT !.at = "refresh", !.answered = FALSE, !.reply = {}]]
      PROVE  IInv'
  <2>1. PICK b \in BOOLEAN : b = FALSE
    OBVIOUS
  <2>2. PICK p : p = [tab[t] EXCEPT !.at = "refresh", !.answered = b, !.reply = {}]
    OBVIOUS
  <2>3. tab' = [tab EXCEPT ![t] = p]
    <3>1. tab' = [tab EXCEPT ![t] = [@ EXCEPT !.at = "refresh", !.answered = b, !.reply = {}]]
      BY <1>3, <2>1
    <3> QED
      BY <3>1, <2>2
  <2>4. /\ p \in Pages /\ p.at = "refresh" /\ p.popup = tab[t].popup /\ p.key = tab[t].key
        /\ p.login = tab[t].login /\ p.list = tab[t].list /\ p.reply = {}
    BY <1>1, <2>2 DEF Proper, Pages
  <2>5. Taken(tab[t].login)
    BY <1>1, <1>3 DEF PageTrue
  <2>6. Proper(p) /\ PageTrue(p)
    BY <1>1, <2>4, <2>5 DEF Proper, PageTrue
  <2> QED
    BY <1>1, <2>3, <2>6, TabStep
<1> QED
  BY <1>2, <1>3 DEF RecheckEnds

(* A page that is shown anew, with a list that knows only what is taken.   *)
LEMMA Opened ==
  ASSUME NEW list \in SUBSET Login, \A l \in list : Taken(l), NEW p, p = Page(list)
  PROVE  p \in Pages /\ p.at = "idle" /\ Proper(p) /\ PageTrue(p)
<1>1. /\ p \in Pages /\ p.at = "idle" /\ p.popup = "none" /\ p.reply = {} /\ p.list = list
  BY DEF Pages, Page
<1> QED
  BY <1>1 DEF Proper, PageTrue

(* The maintenance screen, its reload, another page and back, and a list.  *)
LEMMA PageStep ==
  ASSUME IInv, NEW t \in Tab, GivesUp(t) \/ Reload(t) \/ LeavePage(t) \/ ListArrives(t)
  PROVE  IInv'
<1>1. /\ UNCHANGED server /\ spent' \in 0 .. MaxEvents
      /\ Proper(tab[t]) /\ PageTrue(tab[t])
  BY TabPage DEF GivesUp, Reload, LeavePage, ListArrives, IInv, TypeOK
<1>2. CASE GivesUp(t)
  <2>1. PICK q : q = Page({})
    OBVIOUS
  <2>2. q \in Pages /\ q.popup = "none" /\ q.list = {} /\ q.reply = {}
    BY <2>1 DEF Page, Pages
  <2>3. PICK p : p = [q EXCEPT !.at = "maintenance"]
    OBVIOUS
  <2>4. p \in Pages /\ p.at = "maintenance" /\ p.popup = "none" /\ p.list = {} /\ p.reply = {}
    BY <2>2, <2>3 DEF Pages
  <2>5. Proper(p) /\ PageTrue(p) /\ tab' = [tab EXCEPT ![t] = p]
    BY <1>2, <2>1, <2>3, <2>4 DEF Proper, PageTrue, GivesUp
  <2> QED
    BY <1>1, <2>5, TabStep
<1>3. CASE Reload(t)
  <2>1. PICK p : p = Page(Visible)
    OBVIOUS
  <2>2. Proper(p) /\ PageTrue(p) /\ tab' = [tab EXCEPT ![t] = p]
    BY <1>3, <2>1, Opened, VisibleTaken DEF Reload
  <2> QED
    BY <1>1, <2>2, TabStep
<1>4. CASE LeavePage(t)
  <2>1. PICK list \in SUBSET Login : list = tab[t].list /\ \A l \in list : Taken(l)
    BY <1>1 DEF Proper, Pages, PageTrue
  <2>2. PICK p : p = Page(list)
    OBVIOUS
  <2>3. Proper(p) /\ PageTrue(p) /\ tab' = [tab EXCEPT ![t] = p]
    BY <1>4, <2>1, <2>2, Opened DEF LeavePage
  <2> QED
    BY <1>1, <2>3, TabStep
<1>5. CASE ListArrives(t)
  <2>1. PICK p : p = [tab[t] EXCEPT !.list = Visible]
    OBVIOUS
  <2>2. /\ p \in Pages /\ p.at = tab[t].at /\ p.popup = tab[t].popup /\ p.key = tab[t].key
        /\ p.login = tab[t].login /\ p.list = Visible /\ p.reply = tab[t].reply /\ p.existed = tab[t].existed
    BY <1>1, <2>1, VisibleTaken DEF Proper, Pages
  <2>3. Proper(p) /\ PageTrue(p) /\ tab' = [tab EXCEPT ![t] = p]
    BY <1>1, <1>5, <2>1, <2>2, VisibleTaken DEF Proper, PageTrue, Refused, ListArrives
  <2> QED
    BY <1>1, <2>3, TabStep
<1> QED
  BY <1>2, <1>3, <1>4, <1>5

(* The button: the request of a login that the list already has will be      *)
(* refused, for its key is new and nobody can insert the login.            *)
LEMMA CreateStep ==
  ASSUME IInv, NEW t \in Tab, NEW l \in Login, NEW r \in Request, Create(t, l, r)
  PROVE  IInv'
<1>1. /\ Unused(r) /\ Deliver(r, r, l) /\ UNCHANGED <<row, cache, lapsed, spent>>
      /\ Proper(tab[t]) /\ PageTrue(tab[t])
  BY TabPage DEF Create
<1>2. /\ req' \in [Request -> [at : At, key : Request \union {NoKey}, login : Login \union {NoLogin}]]
      /\ req'[r] = [at |-> "sent", key |-> r, login |-> l]
      /\ \A s \in Request : s # r => req'[s] = req[s]
      /\ Server' /\ Kept /\ \A u \in Tab : RefusalKept(u)
  BY <1>1, Delivered
<1>3. PICK b \in BOOLEAN : b = (l \in tab[t].list)
  <2>1. CASE l \in tab[t].list
    <3>1. (l \in tab[t].list) = TRUE
      BY <2>1
    <3> QED
      BY <3>1
  <2>2. CASE l \notin tab[t].list
    <3>1. (l \in tab[t].list) = FALSE
      BY <2>2
    <3> QED
      BY <3>1
  <2> QED
    BY <2>1, <2>2
<1>4. PICK p : p = [tab[t] EXCEPT !.at = "post", !.key = r, !.login = l, !.existed = b, !.popup = "pending"]
  OBVIOUS
<1>5. tab' = [tab EXCEPT ![t] = p]
  <2>1. tab' = [tab EXCEPT ![t] = [@ EXCEPT !.at = "post", !.key = r, !.login = l,
                                           !.existed = b, !.popup = "pending"]]
    BY <1>3 DEF Create
  <2> QED
    BY <2>1, <1>4
<1>6. /\ p \in Pages /\ p.at = "post" /\ p.popup = "pending" /\ p.key = r
      /\ p.login = l /\ p.list = tab[t].list /\ p.reply = tab[t].reply /\ p.existed = b
  BY <1>1, <1>4 DEF Proper, Pages
<1>7. tab' \in [Tab -> Pages] /\ tab'[t] = p /\ \A u \in Tab : u # t => tab'[u] = tab[u]
  BY <1>5, <1>6 DEF IInv, TypeOK, Pages
<1>8. TypeOK'
  <2>1. \A u \in Tab : Proper(tab'[u])
    BY <1>6, <1>7, TabPage DEF Proper
  <2> QED
    BY <1>1, <1>2, <1>7, <2>1 DEF IInv, TypeOK, Pages, Proper, At
<1>9. Used(r)' /\ req'[r].at = "sent" /\ req'[r].key = r /\ req'[r].login = l
  BY <1>2 DEF Used
<1>10. b => Refused(p)'
  <2> SUFFICES ASSUME b
               PROVE  Refused(p)'
    OBVIOUS
  <2>1. Taken(l)'
    BY <1>1, <1>3 DEF PageTrue, Taken
  <2>2. r \notin cache' /\ \A s \in Request : s # r => req[s].key # r \/ ~Used(s)
    BY <1>1 DEF IInv, Server, CacheTrue, KeysOriginal, Used, Unused
  <2> QED
    BY <1>2, <1>6, <1>9, <2>1, <2>2 DEF Refused, Used, Taken
<1>11. Tabs'
  <2> SUFFICES ASSUME NEW u \in Tab
               PROVE  PageTrue(tab[u])'
    BY DEF Tabs
  <2>1. CASE u = t
    BY <1>1, <1>6, <1>7, <1>9, <1>10, <2>1 DEF PageTrue, Taken, Refused, Used
  <2>2. CASE u # t
    BY <1>2, <1>7, <2>2, PageKept DEF IInv, Tabs
  <2> QED
    BY <2>1, <2>2
<1> QED
  BY <1>2, <1>8, <1>11 DEF IInv

-----------------------------------------------------------------------------
(* The theorems *)

(* The first state satisfies the invariant. *)
LEMMA InitIInv == Init => IInv
<1> SUFFICES ASSUME Init
             PROVE  IInv
  OBVIOUS
<1>1. PICK page : page = Page({})
  OBVIOUS
<1>2. page \in Pages /\ page.at = "idle" /\ Proper(page) /\ PageTrue(page)
  BY <1>1, Opened
<1>3. \A t \in Tab : tab[t] = page
  BY <1>1 DEF Init
<1>4. tab \in [Tab -> Pages]
  BY <1>1, <1>2 DEF Init
<1>5. /\ row \in [Login -> {"absent", "visible", "deleted"}]
      /\ req \in [Request -> [at : At, key : Request \union {NoKey}, login : Login \union {NoLogin}]]
  BY DEF Init, At
<1>6. TypeOK
  <2>1. \A t \in Tab : Proper(tab[t])
    BY <1>2, <1>3
  <2>2. cache \subseteq Request /\ lapsed \subseteq Request /\ spent \in 0 .. MaxEvents
    BY BoundAssumption DEF Init
  <2> QED
    BY <1>4, <1>5, <2>1, <2>2 DEF TypeOK, Pages, Proper, At
<1>7. \A r \in Request : req[r].at = "unused"
  BY DEF Init
<1>8. Server
  BY <1>7 DEF Init, Server, KeysOriginal, OneApplies, CacheTrue, AnswersTrue, RepeatAnswered, Used
<1>9. Tabs
  BY <1>2, <1>3 DEF Tabs
<1> QED
  BY <1>6, <1>8, <1>9 DEF IInv

(* Every step of a form, a handler or the environment keeps the invariant. *)
LEMMA NextIInv == IInv /\ [Next]_vars => IInv'
<1> SUFFICES ASSUME IInv, [Next]_vars
             PROVE  IInv'
  OBVIOUS
<1>1. ASSUME NEW r \in Request, Repeat(r) \/ Receive(r) \/ Locked(r) \/ Commit(r) \/ Expire(r)
      PROVE  IInv'
  BY <1>1, RepeatStep, ReceiveStep, LockedStep, CommitStep, ExpireStep
<1>2. CASE Restart
  <2>1. Restarted /\ spent' \in 0 .. MaxEvents
    BY <1>2, BoundAssumption DEF Restart, Spend, IInv, TypeOK
  <2> QED
    BY <2>1, RestartedStep
<1>3. CASE WatchdogRestart
  <2>1. Restarted /\ spent' \in 0 .. MaxEvents
    BY <1>3 DEF WatchdogRestart, IInv, TypeOK
  <2> QED
    BY <2>1, RestartedStep
<1>4. ASSUME NEW l \in Login, Change(l)
      PROVE  IInv'
  BY <1>4, ChangeStep
<1>5. ASSUME NEW t \in Tab, NEW l \in Login, NEW r \in Request, Create(t, l, r)
      PROVE  IInv'
  BY <1>5, CreateStep
<1>6. ASSUME NEW t \in Tab, Answer(t) \/ ListRead(t) \/ RefreshEnds(t) \/ RecheckEnds(t)
      PROVE  IInv'
  BY <1>6, AnswerStep, ListReadStep, RefreshEndsStep, RecheckEndsStep
<1>7. ASSUME NEW t \in Tab, ListArrives(t) \/ GivesUp(t) \/ Reload(t) \/ LeavePage(t)
      PROVE  IInv'
  BY <1>7, PageStep
<1>8. CASE UNCHANGED vars
  BY <1>8 DEF vars, server, IInv, TypeOK, Server, KeysOriginal, OneApplies, CacheTrue, AnswersTrue,
              RepeatAnswered, Tabs, PageTrue, Used, Taken, Refused
<1> QED
  BY <1>1, <1>2, <1>3, <1>4, <1>5, <1>6, <1>7, <1>8 DEF Next

(* The inductive invariant of the creation of users. *)
THEOREM Inductive == Spec => []IInv
<1> QED
  BY InitIInv, NextIInv, PTL DEF Spec

(* The state of the server and of every tab has its type, and a popup says     *)
(* that something is going on exactly while the page waits for it.         *)
THEOREM TypeCorrect == Spec => []TypeOK
<1>1. IInv => TypeOK
  BY DEF IInv
<1> QED
  BY <1>1, Inductive, PTL

(* For any number of tabs, logins and copies of a request, in whatever order   *)
(* they arrive: a copy is refused after the original has succeeded, or before,  *)
(* only if a restart or the time to live took the key from the cache.      *)
THEOREM RepeatsAnswered == Spec => []RepeatAnswered
<1>1. IInv => RepeatAnswered
  BY DEF IInv, Server
<1> QED
  BY <1>1, Inductive, PTL

(* A popup goes from another tone to success or error only in these ways.  *)
LEMMA Tones ==
  ASSUME IInv, [Next]_vars, NEW t \in Tab, NEW tone \in {"success", "error"}, Shows(t, tone)
  PROVE  \/ tone = "success" /\ tab[t].at = "refresh"
         \/ tone = "error" /\ tab[t].at = "post" /\ tab[t].existed
         \/ tone = "error" /\ tab[t].at = "recheck" /\ tab[t].answered /\ tab[t].login \notin tab[t].reply
<1> DEFINE Goal == \/ tone = "success" /\ tab[t].at = "refresh"
                   \/ tone = "error" /\ tab[t].at = "post" /\ tab[t].existed
                   \/ /\ tone = "error" /\ tab[t].at = "recheck" /\ tab[t].answered
                      /\ tab[t].login \notin tab[t].reply
<1> SUFFICES Goal
  OBVIOUS
<1>1. tab \in [Tab -> Pages] /\ tab'[t].popup = tone /\ tab[t].popup # tone
  BY DEF IInv, TypeOK, Pages, Shows
<1>2. tab'[t] # tab[t]
  BY <1>1
<1>3. ASSUME NEW u \in Tab, NEW q, tab' = [tab EXCEPT ![u] = q]
      PROVE  u = t /\ tab'[t] = q
  BY <1>1, <1>2, <1>3
<1>4. ASSUME NEW u \in Tab, NEW q, tab' = [tab EXCEPT ![u] = q], q.popup \in {"none", "pending", "warning"}
      PROVE  FALSE
  BY <1>1, <1>3, <1>4
<1>5. ASSUME NEW u \in Tab, NEW q, tab' = [tab EXCEPT ![u] = q], q.popup = tab[u].popup
      PROVE  FALSE
  BY <1>1, <1>3, <1>5
<1>6. ASSUME NEW p \in Pages, NEW k
      PROVE  Ends(p, k).popup = k
  BY DEF Pages, Ends
<1>7. ASSUME NEW u \in Tab, NEW l \in Login, NEW r \in Request, Create(u, l, r)
      PROVE  Goal
  <2>1. PICK q : q = [tab[u] EXCEPT !.at = "post", !.key = r, !.login = l,
                                    !.existed = (l \in tab[u].list), !.popup = "pending"]
    OBVIOUS
  <2>2. q.popup = "pending"
    BY <2>1, <1>1 DEF Pages
  <2>3. tab' = [tab EXCEPT ![u] = q]
    BY <1>7, <2>1 DEF Create
  <2> QED
    BY <1>4, <2>2, <2>3
<1>8. ASSUME NEW u \in Tab, Answer(u)
      PROVE  Goal
  <2>1. CASE tab' = [tab EXCEPT ![u].at = "refresh"]
    <3>1. PICK q : q = [tab[u] EXCEPT !.at = "refresh"]
      OBVIOUS
    <3>2. q.popup = tab[u].popup /\ tab' = [tab EXCEPT ![u] = q]
      BY <2>1, <3>1, <1>1 DEF Pages
    <3> QED
      BY <1>5, <3>2
  <2>2. CASE ~tab[u].existed /\ tab' = [tab EXCEPT ![u] = OnConflict(@)]
    <3>1. PICK q : q = [tab[u] EXCEPT !.at = "recheck"]
      OBVIOUS
    <3>2. q.popup = tab[u].popup /\ tab' = [tab EXCEPT ![u] = q]
      BY <2>2, <3>1, <1>1 DEF Pages, OnConflict
    <3> QED
      BY <1>5, <3>2
  <2>3. CASE tab[u].existed /\ tab' = [tab EXCEPT ![u] = OnConflict(@)]
    <3>1. PICK q : q = Ends(tab[u], "error")
      OBVIOUS
    <3>2. q.popup = "error" /\ tab' = [tab EXCEPT ![u] = q]
      BY <2>3, <3>1, <1>1, <1>6 DEF OnConflict
    <3>3. u = t /\ tone = "error"
      BY <3>2, <1>1, <1>3
    <3> QED
      BY <1>8, <2>3, <3>3 DEF Answer
  <2> QED
    BY <1>8, <2>1, <2>2, <2>3 DEF Answer
<1>9. ASSUME NEW u \in Tab, ListRead(u)
      PROVE  Goal
  <2>1. PICK q : q = [tab[u] EXCEPT !.reply = Visible, !.answered = TRUE]
    OBVIOUS
  <2>2. q.popup = tab[u].popup
    BY <2>1, <1>1 DEF Pages
  <2>3. tab' = [tab EXCEPT ![u] = q]
    BY <1>9, <2>1, <1>1 DEF ListRead
  <2> QED
    BY <1>5, <2>2, <2>3
<1>10. ASSUME NEW u \in Tab, RefreshEnds(u)
       PROVE  Goal
  <2>1. PICK p \in Pages : tab' = [tab EXCEPT ![u] = Ends(p, "success")]
    <3>1. [tab[u] EXCEPT !.list = tab[u].reply] \in Pages
      BY <1>1 DEF Pages
    <3> QED
      BY <1>1, <1>10, <3>1 DEF RefreshEnds
  <2>2. u = t /\ tone = "success"
    BY <2>1, <1>1, <1>3, <1>6
  <2> QED
    BY <1>10, <2>2 DEF RefreshEnds
<1>11. ASSUME NEW u \in Tab, RecheckEnds(u)
       PROVE  Goal
  <2>1. CASE tab' = [tab EXCEPT ![u] = Ends(@, "warning")]
    <3>1. PICK q : q = Ends(tab[u], "warning")
      OBVIOUS
    <3>2. q.popup = "warning" /\ tab' = [tab EXCEPT ![u] = q]
      BY <2>1, <3>1, <1>1, <1>6
    <3> QED
      BY <1>4, <3>2
  <2>2. CASE tab' = [tab EXCEPT ![u] = [@ EXCEPT !.at = "refresh", !.answered = FALSE, !.reply = {}]]
    <3>1. PICK q : q = [tab[u] EXCEPT !.at = "refresh", !.answered = FALSE, !.reply = {}]
      OBVIOUS
    <3>2. q.popup = tab[u].popup
      BY <3>1, <1>1 DEF Pages
    <3>3. tab' = [tab EXCEPT ![u] = q]
      BY <2>2, <3>1
    <3> QED
      BY <1>5, <3>2, <3>3
  <2>3. CASE /\ tab[u].answered /\ tab[u].login \notin tab[u].reply
             /\ tab' = [tab EXCEPT ![u] = Ends(@, "error")]
    <3>1. PICK q : q = Ends(tab[u], "error")
      OBVIOUS
    <3>2. q.popup = "error" /\ tab' = [tab EXCEPT ![u] = q]
      BY <2>3, <3>1, <1>1, <1>6
    <3>3. u = t /\ tone = "error"
      BY <3>2, <1>1, <1>3
    <3> QED
      BY <1>11, <2>3, <3>3 DEF RecheckEnds
  <2> QED
    BY <1>11, <2>1, <2>2, <2>3 DEF RecheckEnds
<1>12. ASSUME NEW list, list \subseteq Login
       PROVE  Page(list) \in Pages /\ Page(list).popup = "none"
  BY <1>12 DEF Page, Pages
<1>13. ASSUME NEW u \in Tab, GivesUp(u) \/ Reload(u) \/ LeavePage(u) \/ ListArrives(u)
       PROVE  Goal
  <2>1. CASE GivesUp(u)
    <3>1. PICK q : q = [Page({}) EXCEPT !.at = "maintenance"]
      OBVIOUS
    <3>2. q.popup = "none"
      BY <3>1 DEF Page
    <3>3. tab' = [tab EXCEPT ![u] = q]
      BY <2>1, <3>1 DEF GivesUp
    <3> QED
      BY <1>4, <3>2, <3>3
  <2>2. CASE Reload(u)
    BY <2>2, <1>4, <1>12, VisibleTaken DEF Reload
  <2>3. CASE LeavePage(u)
    <3>1. tab[u].list \subseteq Login
      BY <1>1 DEF Pages
    <3> QED
      BY <2>3, <3>1, <1>4, <1>12 DEF LeavePage
  <2>4. CASE ListArrives(u)
    <3>1. PICK q : q = [tab[u] EXCEPT !.list = Visible]
      OBVIOUS
    <3>2. q.popup = tab[u].popup /\ tab' = [tab EXCEPT ![u] = q]
      BY <2>4, <3>1, <1>1 DEF Pages, ListArrives
    <3> QED
      BY <1>5, <3>2
  <2> QED
    BY <1>13, <2>1, <2>2, <2>3, <2>4
<1>14. ASSUME UNCHANGED tab
       PROVE  FALSE
  BY <1>2, <1>14
<1>15. ASSUME NEW r \in Request, Repeat(r) \/ Receive(r) \/ Locked(r) \/ Commit(r) \/ Expire(r)
       PROVE  UNCHANGED tab
  BY <1>15 DEF Repeat, Receive, Locked, Commit, Expire
<1>16. CASE Restart \/ WatchdogRestart \/ (\E l \in Login : Change(l)) \/ UNCHANGED vars
  BY <1>16, <1>14 DEF Restart, WatchdogRestart, Restarted, Change, vars
<1> HIDE DEF Goal
<1> QED
  BY <1>7, <1>8, <1>9, <1>10, <1>11, <1>13, <1>14, <1>15, <1>16 DEF Next

(* A popup tells the truth when it appears, for any number of tabs, requests   *)
(* and copies of them: success only for a login whose row is committed, an     *)
(* error only if the request has created nothing or the user is gone.      *)
THEOREM OutcomesTrue == Spec => OutcomeTrue
<1>1. ASSUME IInv, [Next]_vars, NEW t \in Tab
      PROVE  /\ Shows(t, "success") => row[tab[t].login] # "absent"
             /\ Shows(t, "error") => \/ \A r \in Request : req[r].key = tab[t].key => req[r].at # "created"
                                     \/ tab[t].answered /\ tab[t].login \notin tab[t].reply
  <2>1. PageTrue(tab[t])
    BY <1>1, TabPage
  <2>2. Shows(t, "success") => tab[t].at = "refresh"
    BY <1>1, Tones
  <2>3. Shows(t, "error") => \/ tab[t].at = "post" /\ tab[t].existed
                             \/ tab[t].answered /\ tab[t].login \notin tab[t].reply
    BY <1>1, Tones
  <2> QED
    BY <2>1, <2>2, <2>3 DEF PageTrue, Taken, Refused
<1>2. IInv /\ [Next]_vars =>
        \A t \in Tab :
          /\ Shows(t, "success") => row[tab[t].login] # "absent"
          /\ Shows(t, "error") => \/ \A r \in Request : req[r].key = tab[t].key => req[r].at # "created"
                                  \/ tab[t].answered /\ tab[t].login \notin tab[t].reply
  BY <1>1
<1> QED
  BY <1>2, Inductive, PTL DEF Spec, OutcomeTrue
=============================================================================
