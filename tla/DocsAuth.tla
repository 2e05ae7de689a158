------------------------------ MODULE DocsAuth ------------------------------
(***************************************************************************)
(* Logging in to the documentation site and its second factor: the one     *)
(* row of `admins`, the handlers of app/admin/api with the awaits between  *)
(* reading that row and writing it, and several tabs of the administrator's *)
(* browser (login page and security panel).  A session is a pair of cookies *)
(* that the tabs share, one signed, one a CSRF token; the server keeps none. *)
(***************************************************************************)
EXTENDS Naturals, FiniteSets

CONSTANTS Tab,
          MaxSecrets,   \* bound: secrets ever generated
          MaxSessions,  \* bound: sessions ever opened
          MaxFaults     \* bound: restarts, lapsed sessions, lost answers

ASSUME TabAssumption == IsFiniteSet(Tab)
ASSUME BoundAssumption == MaxSecrets \in Nat /\ MaxSessions \in Nat /\ MaxFaults \in Nat

None == 0
Secret == 1 .. MaxSecrets

VARIABLES admin,      \* [active, pending, enabled]
          fresh,      \* secrets generated so far
          phone,      \* secrets in the administrator's authenticator app
          opened,     \* sessions opened so far
          jar,        \* the session of the browser's cookies
          csrf,       \* per tab: the session whose token its dashboard holds
          page,       \* per tab: "login", "challenge" or "admin"
          call,       \* per tab: the request in progress
          setup,      \* per tab: the secret on the screen while 2FA is set up
          shown,      \* per tab: whether it shows 2FA as enabled
          wasOff,     \* history: 2FA has been off since the tab last sent a password
          faults

Row == [active : Secret \union {None}, pending : Secret \union {None}, enabled : BOOLEAN]
Off == [active |-> None, pending |-> None, enabled |-> FALSE]
Kind == {"none", "login", "code", "start", "confirm", "disable"}
Stage == {"none", "sent", "read", "written", "session", "token", "done", "failed"}
NoCall == [kind |-> "none", at |-> "none", row |-> Off]

secrets == <<admin, fresh, phone>>
cookies == <<opened, jar>>
tabs == <<csrf, page, setup, shown>>
vars == <<secrets, cookies, tabs, call, wasOff, faults>>

TypeOK ==
  /\ admin \in Row
  /\ admin.enabled <=> admin.active # None
  /\ fresh \in 0 .. MaxSecrets
  /\ phone \subseteq 1 .. fresh /\ admin.active <= fresh /\ admin.pending <= fresh
  /\ opened \in 0 .. MaxSessions /\ jar \in 0 .. opened /\ csrf \in [Tab -> 0 .. opened]
  /\ page \in [Tab -> {"login", "challenge", "admin"}]
  /\ call \in [Tab -> [kind : Kind, at : Stage, row : Row]]
  /\ setup \in [Tab -> 0 .. fresh]
  /\ shown \in [Tab -> BOOLEAN] /\ wasOff \in [Tab -> BOOLEAN]
  /\ faults \in 0 .. MaxFaults
  /\ \A t \in Tab : page[t] = "admin" <=> csrf[t] # None

\* The first start creates the account without a second factor.
Init ==
  /\ admin = Off
  /\ fresh = 0 /\ phone = {}
  /\ opened = 0 /\ jar = None
  /\ csrf = [t \in Tab |-> None] /\ page = [t \in Tab |-> "login"]
  /\ call = [t \in Tab |-> NoCall]
  /\ setup = [t \in Tab |-> None]
  /\ shown = [t \in Tab |-> FALSE]
  /\ wasOff = [t \in Tab |-> TRUE]
  /\ faults = 0

Fault == faults < MaxFaults /\ faults' = faults + 1

In(t, kind, at) == call[t].kind = kind /\ call[t].at = at
Goes(t, at) == call' = [call EXCEPT ![t].at = at]
ReadsRow(t) == call' = [call EXCEPT ![t].at = "read", ![t].row = admin]

-----------------------------------------------------------------------------
\* Sessions

currentAdmin == jar # None
assertCsrf(t) == csrf[t] = jar
csrfToken == jar

\* createSessionForAdmin sets both cookies: the tabs that hold an older token are
\* refused from now on.
createSession == opened' = opened + 1 /\ jar' = opened + 1
destroySession == jar' = None /\ UNCHANGED opened

\* What a tab shows after going to /admin or /admin/login.
Dashboard(t, token) ==
  /\ page' = [page EXCEPT ![t] = "admin"] /\ csrf' = [csrf EXCEPT ![t] = token]
  /\ setup' = [setup EXCEPT ![t] = None] /\ shown' = [shown EXCEPT ![t] = admin.enabled]
LoginPage(t) ==
  /\ page' = [page EXCEPT ![t] = "login"] /\ csrf' = [csrf EXCEPT ![t] = None]
  /\ setup' = [setup EXCEPT ![t] = None] /\ shown' = [shown EXCEPT ![t] = FALSE]

\* A call from the login page, and one from the dashboard: the latter takes the
\* cookies along and is refused unless they go with the token of the tab.
Send(t, kind, at) ==
  /\ call[t] = NoCall
  /\ call' = [call EXCEPT ![t] = [NoCall EXCEPT !.kind = kind, !.at = at]]
SendSigned(t, kind) ==
  /\ page[t] = "admin"
  /\ Send(t, kind, IF currentAdmin /\ assertCsrf(t) THEN "sent" ELSE "failed")

\* /admin goes to the login page without a session; /admin/login is shown with
\* one as well.
Visit(t) ==
  /\ call[t] = NoCall
  /\ IF currentAdmin THEN Dashboard(t, csrfToken) ELSE LoginPage(t)
  /\ UNCHANGED <<secrets, cookies, call, wasOff, faults>>

VisitLogin(t) ==
  /\ call[t] = NoCall /\ LoginPage(t)
  /\ UNCHANGED <<secrets, cookies, call, wasOff, faults>>

\* The page leaves whether or not the call succeeds.
Logout(t) ==
  /\ page[t] = "admin" /\ call[t] = NoCall /\ LoginPage(t)
  /\ \/ Fault /\ UNCHANGED cookies
     \/ /\ IF assertCsrf(t) THEN destroySession ELSE UNCHANGED cookies
        /\ UNCHANGED faults
  /\ UNCHANGED <<secrets, call, wasOff>>

\* After 14 days.
Lapse ==
  /\ currentAdmin /\ Fault /\ destroySession
  /\ UNCHANGED <<secrets, tabs, call, wasOff>>

-----------------------------------------------------------------------------
\* Login

LoginForm(t) == page[t] # "admin" /\ call[t] = NoCall
MaySucceed == opened + Cardinality({t \in Tab : call[t].kind \in {"login", "code"}}) < MaxSessions

\* POST /admin/api/login: verifyPassword reads the row, then awaits bcrypt.
SubmitPassword(t) ==
  /\ LoginForm(t) /\ page[t] = "login" /\ MaySucceed /\ Send(t, "login", "sent")
  /\ wasOff' = [wasOff EXCEPT ![t] = ~admin.enabled]
  /\ UNCHANGED <<secrets, cookies, tabs, faults>>

LoginRead(t) ==
  /\ In(t, "login", "sent") /\ ReadsRow(t)
  /\ UNCHANGED <<secrets, cookies, tabs, wasOff, faults>>

adminHasTotpSoon(row) == row.enabled /\ row.pending # None         \* mutant
adminHasTotp(row) == row.enabled /\ row.active # None

\* A wrong password is refused; a right one opens a session or, when the row
\* read before the await has 2FA, a challenge.
LoginDecide(t) ==
  /\ In(t, "login", "read")
  /\ \/ Goes(t, "failed")
     \/ Goes(t, IF adminHasTotp(call[t].row) THEN "token" ELSE "session")
  /\ UNCHANGED <<secrets, cookies, tabs, wasOff, faults>>

\* POST /admin/api/login/2fa, one step: the challenge lives 5 minutes, the row
\* is read anew, and a code counts for three time steps around its own.
SubmitCode(t) ==
  /\ LoginForm(t) /\ page[t] = "challenge" /\ MaySucceed /\ Send(t, "code", "sent")
  /\ UNCHANGED <<secrets, cookies, tabs, wasOff, faults>>

verifyLoginChallenge(age) == age = 0
verifyTotp(secret, typed, age) == typed = secret /\ age \in {0, 1}

CodeDecide(t) ==
  /\ In(t, "code", "sent")
  /\ \E typed \in phone \union {None}, age \in 0 .. 2, old \in 0 .. 1 :
       Goes(t, IF verifyLoginChallenge(old) /\ admin.active # None /\ verifyTotp(admin.active, typed, age)
               THEN "session" ELSE "failed")
  /\ UNCHANGED <<secrets, cookies, tabs, wasOff, faults>>

-----------------------------------------------------------------------------
\* The security panel

CanStart(t) == ~shown[t] /\ setup[t] = None
CanConfirm(t) == ~shown[t] /\ setup[t] # None
CanDisable(t) == shown[t]

\* start: a new secret is pending at once; its QR code is drawn after an await.
StartTwoFactor(t) ==
  /\ CanStart(t) /\ SendSigned(t, "start")
  /\ fresh + Cardinality({u \in Tab : In(u, "start", "sent")}) < MaxSecrets
  /\ UNCHANGED <<secrets, cookies, tabs, wasOff, faults>>

StartWrite(t) ==
  /\ In(t, "start", "sent")
  /\ fresh' = fresh + 1
  /\ admin' = [admin EXCEPT !.pending = fresh + 1]
  /\ call' = [call EXCEPT ![t].at = "written", ![t].row = admin']
  /\ UNCHANGED <<phone, cookies, tabs, wasOff, faults>>

StartAnswer(t) ==
  /\ In(t, "start", "written") /\ Goes(t, "done")
  /\ UNCHANGED <<secrets, cookies, tabs, wasOff, faults>>

\* confirm reads the row, then awaits the body of the request ...
ConfirmTwoFactor(t) ==
  /\ CanConfirm(t) /\ SendSigned(t, "confirm")
  /\ UNCHANGED <<secrets, cookies, tabs, wasOff, faults>>

ConfirmRead(t) ==
  /\ In(t, "confirm", "sent") /\ ReadsRow(t)
  /\ UNCHANGED <<secrets, cookies, tabs, wasOff, faults>>

\* ... and checks the code against the pending secret it has read, which it
\* then stores, whatever is pending by now.
ConfirmStoreNewest(t) == admin.pending                             \* mutant
ConfirmStore(t) == call[t].row.pending

ConfirmWrite(t) ==
  /\ In(t, "confirm", "read")
  /\ \E typed \in phone \union {None}, age \in 0 .. 2 :
       IF call[t].row.pending # None /\ verifyTotp(call[t].row.pending, typed, age)
       THEN /\ admin' = [active |-> ConfirmStore(t), pending |-> None,
                         enabled |-> ConfirmStore(t) # None]
            /\ Goes(t, "done")
       ELSE Goes(t, "failed") /\ UNCHANGED admin
  /\ UNCHANGED <<fresh, phone, cookies, tabs, wasOff, faults>>

\* disable awaits the password check and then clears the row.
DisableTwoFactor(t) ==
  /\ CanDisable(t) /\ SendSigned(t, "disable")
  /\ UNCHANGED <<secrets, cookies, tabs, wasOff, faults>>

DisableKeepsActive == [admin EXCEPT !.pending = None, !.enabled = FALSE]   \* mutant
Disabled == Off

DisableWrite(t) ==
  /\ In(t, "disable", "sent")
  /\ \/ Goes(t, "failed") /\ UNCHANGED <<admin, wasOff>>
     \/ /\ admin' = Disabled /\ Goes(t, "done")
        /\ wasOff' = [u \in Tab |-> TRUE]
  /\ UNCHANGED <<fresh, phone, cookies, tabs, faults>>

-----------------------------------------------------------------------------
\* The browser

\* The QR code on the screen is scanned.
Scan(t) ==
  /\ CanConfirm(t) /\ phone' = phone \union {setup[t]}
  /\ UNCHANGED <<admin, fresh, cookies, tabs, call, wasOff, faults>>

\* publicAdmin
State(t, enabled) == shown' = [shown EXCEPT ![t] = enabled]

\* loadTwoFactor, at mount and after a start, with its GET.
LoadTwoFactor(t) ==
  /\ page[t] = "admin" /\ currentAdmin /\ State(t, admin.enabled)
  /\ UNCHANGED <<secrets, cookies, csrf, page, setup, call, wasOff, faults>>

Ends(t) == call' = [call EXCEPT ![t] = NoCall]

\* The answer brings the cookies, and the page goes to /admin.
LoggedIn(t) ==
  /\ call[t].at = "session" /\ Ends(t)
  /\ createSession /\ Dashboard(t, opened + 1)
  /\ UNCHANGED <<secrets, wasOff, faults>>

Challenged(t) ==
  /\ call[t].at = "token" /\ Ends(t)
  /\ page' = [page EXCEPT ![t] = "challenge"]
  /\ UNCHANGED <<secrets, cookies, csrf, setup, shown, wasOff, faults>>

\* "Enter the password again"
BackToPassword(t) ==
  /\ LoginForm(t) /\ page[t] = "challenge" /\ page' = [page EXCEPT ![t] = "login"]
  /\ UNCHANGED <<secrets, cookies, csrf, call, setup, shown, wasOff, faults>>

TwoFactorStarted(t) ==
  /\ In(t, "start", "done") /\ Ends(t)
  /\ setup' = [setup EXCEPT ![t] = call[t].row.pending]
  /\ UNCHANGED <<secrets, cookies, csrf, page, shown, wasOff, faults>>

\* The setup panel closes when its code is confirmed or 2FA is disabled.
Settled(t, kind, enabled) ==
  /\ In(t, kind, "done") /\ Ends(t)
  /\ setup' = [setup EXCEPT ![t] = None] /\ State(t, enabled)
  /\ UNCHANGED <<secrets, cookies, csrf, page, wasOff, faults>>

TwoFactorConfirmed(t) == Settled(t, "confirm", TRUE)
TwoFactorDisabled(t) == Settled(t, "disable", FALSE)

Failed(t) ==
  /\ call[t].at = "failed" /\ Ends(t)
  /\ UNCHANGED <<secrets, cookies, tabs, wasOff, faults>>

\* The process restarts, or an answer is lost: what is written stays written.
Restart ==
  /\ Fault
  /\ call' = [t \in Tab |-> IF call[t].at \in {"sent", "read", "written"}
                            THEN [call[t] EXCEPT !.at = "failed"] ELSE call[t]]
  /\ UNCHANGED <<secrets, cookies, tabs, wasOff>>

AnswerLost(t) ==
  /\ Fault /\ call[t].at \in {"session", "token", "done"} /\ Goes(t, "failed")
  /\ UNCHANGED <<secrets, cookies, tabs, wasOff>>

Next ==
  \/ Restart \/ Lapse
  \/ \E t \in Tab :
       \/ Visit(t) \/ VisitLogin(t) \/ Logout(t) \/ AnswerLost(t)
       \/ SubmitPassword(t) \/ LoginRead(t) \/ LoginDecide(t) \/ LoggedIn(t) \/ Challenged(t)
       \/ SubmitCode(t) \/ CodeDecide(t) \/ BackToPassword(t)
       \/ StartTwoFactor(t) \/ StartWrite(t) \/ StartAnswer(t) \/ TwoFactorStarted(t)
       \/ ConfirmTwoFactor(t) \/ ConfirmRead(t) \/ ConfirmWrite(t) \/ TwoFactorConfirmed(t)
       \/ DisableTwoFactor(t) \/ DisableWrite(t) \/ TwoFactorDisabled(t)
       \/ Scan(t) \/ LoadTwoFactor(t) \/ Failed(t)

Spec == Init /\ [][Next]_vars

-----------------------------------------------------------------------------
\* "Until it is confirmed 2FA does not count as enabled" (the site's README):
\* 2FA is only ever on with a secret that the administrator has scanned and
\* proved, however starts, confirmations and disablings of several tabs overlap;
\* otherwise nobody could log in again.
NeverLockedOut == admin.enabled => admin.active \in phone

\* A session is opened without a code only if 2FA was off at some time since the
\* password was sent, although login decides on a row read before an await.
SecondFactor ==
  \A t \in Tab : In(t, "login", "session") => wasOff[t]
=============================================================================
