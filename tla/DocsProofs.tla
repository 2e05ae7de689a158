------------------------------ MODULE DocsProofs ------------------------------
(***************************************************************************)
(* The documentation site: its administrators (DocsAuth) and its articles  *)
(* (DocsSite, as Site of DocsArticles).                                    *)
(*                                                                         *)
(* Administrators: NeverLockedOut and SecondFactor for any number of tabs, *)
(* secrets, sessions, restarts and lost answers; and TypeOK, whose bounds  *)
(* hold because every request under way has its secret or session set      *)
(* aside.                                                                  *)
(*                                                                         *)
(* Articles: unique slugs, the starter articles across restarts and the    *)
(* texts that are saved, for any starters, legacy slugs, number of         *)
(* articles, editors' acts, lost answers and crashes.                      *)
(***************************************************************************)
EXTENDS DocsAuth, DocsArticles, FiniteSetTheorems, TLAPS

-----------------------------------------------------------------------------
(* The administrators *)

AdminRow == [active : Nat, pending : Nat, enabled : BOOLEAN]
Request == [kind : Kind, at : Stage, row : AdminRow]
Shape ==
  /\ admin \in AdminRow /\ fresh \in Nat
  /\ call \in [Tab -> Request] /\ wasOff \in [Tab -> BOOLEAN]

(* 2FA that is on has a secret, which has been scanned. *)
Enabled == admin.enabled => admin.active # None /\ admin.active \in phone

(* From the password on: unless 2FA has been off, the row that a login is  *)
(* decided on asks for a code.                                             *)
Justified(c, row, off) ==
  c.kind = "login" =>
    /\ c.at = "sent"    => off \/ adminHasTotp(row)
    /\ c.at = "read"    => off \/ adminHasTotp(c.row)
    /\ c.at = "session" => off
AllJustified == \A t \in Tab : Justified(call[t], admin, wasOff[t])

IInv == Shape /\ Enabled /\ AllJustified

-----------------------------------------------------------------------------
(* Nothing that the invariant is about changes. *)
LEMMA Untouched ==
  ASSUME IInv, UNCHANGED <<admin, fresh, phone, call, wasOff>>
  PROVE  IInv'
BY DEF IInv, Shape, Enabled, AllJustified, Justified, adminHasTotp

(* One tab's request becomes a justified one. *)
LEMMA OneCall ==
  ASSUME IInv, NEW t \in Tab, NEW c \in Request, Justified(c, admin, wasOff[t]),
         call' = [call EXCEPT ![t] = c], UNCHANGED <<admin, fresh, phone, wasOff>>
  PROVE  IInv'
BY DEF IInv, Shape, Enabled, AllJustified, Justified, adminHasTotp

(* A request goes on to a stage that justifies itself. *)
LEMMA GoesOn ==
  ASSUME IInv, NEW t \in Tab, NEW at \in Stage, Goes(t, at),
         UNCHANGED <<admin, fresh, phone, wasOff>>,
         at \notin {"sent", "read"}, call[t].kind = "login" /\ at = "session" => wasOff[t]
  PROVE  IInv'
<1> DEFINE c == [kind |-> call[t].kind, at |-> at, row |-> call[t].row]
<1>1. call[t] \in Request
  BY DEF IInv, Shape
<1>2. PICK d : d = [call[t] EXCEPT !.at = at]
  OBVIOUS
<1>3. d = c
  BY <1>1, <1>2 DEF Request
<1>4. call' = [call EXCEPT ![t] = c]
  BY <1>2, <1>3 DEF Goes
<1>5. c \in Request /\ Justified(c, admin, wasOff[t])
  BY <1>1 DEF Request, Justified
<1> QED
  BY <1>4, <1>5, OneCall

(* A request ends. *)
LEMMA CallEnds ==
  ASSUME IInv, NEW t \in Tab, Ends(t), UNCHANGED <<admin, fresh, phone, wasOff>>
  PROVE  IInv'
<1>1. NoCall \in Request /\ Justified(NoCall, admin, wasOff[t])
  BY DEF NoCall, Request, Kind, Stage, Off, AdminRow, None, Justified
<1> QED
  BY <1>1, OneCall DEF Ends

(* A request other than a login is sent. *)
LEMMA CallStarts ==
  ASSUME IInv, NEW t \in Tab, NEW kind \in Kind \ {"login"}, NEW at \in Stage,
         Send(t, kind, at), UNCHANGED <<admin, fresh, phone, wasOff>>
  PROVE  IInv'
<1> DEFINE c == [kind |-> kind, at |-> at, row |-> Off]
<1>1. PICK d : d = [NoCall EXCEPT !.kind = kind, !.at = at]
  OBVIOUS
<1>2. d = c
  BY <1>1 DEF NoCall
<1>3. call' = [call EXCEPT ![t] = c]
  BY <1>1, <1>2 DEF Send
<1>4. c \in Request /\ Justified(c, admin, wasOff[t])
  BY DEF Request, Off, AdminRow, None, Justified
<1> QED
  BY <1>3, <1>4, OneCall

(* A handler reads the row. *)
LEMMA RowIsRead ==
  ASSUME IInv, NEW t \in Tab, ReadsRow(t), call[t].at = "sent",
         UNCHANGED <<admin, fresh, phone, wasOff>>
  PROVE  IInv'
<1> DEFINE c == [kind |-> call[t].kind, at |-> "read", row |-> admin]
<1>1. call[t] \in Request /\ admin \in AdminRow
  BY DEF IInv, Shape
<1>2. PICK d : d = [call[t] EXCEPT !.at = "read", !.row = admin]
  OBVIOUS
<1>3. d = c
  BY <1>1, <1>2 DEF Request
<1>4. call' = [call EXCEPT ![t] = d]
  BY <1>1, <1>2 DEF ReadsRow, IInv, Shape, Request
<1>5. c \in Request /\ Justified(c, admin, wasOff[t])
  BY <1>1 DEF Request, Stage, Justified, IInv, AllJustified
<1> HIDE DEF c
<1> QED
  BY <1>3, <1>4, <1>5, OneCall

-----------------------------------------------------------------------------
(* Sending the password: the row is the one that login asks about later.   *)
LEMMA PasswordSent ==
  ASSUME IInv, NEW t \in Tab, SubmitPassword(t)
  PROVE  IInv'
<1> DEFINE c == [kind |-> "login", at |-> "sent", row |-> Off]
<1>1. PICK d : d = [NoCall EXCEPT !.kind = "login", !.at = "sent"]
  OBVIOUS
<1>2. d = c
  BY <1>1 DEF NoCall
<1>3. call' = [call EXCEPT ![t] = c] /\ wasOff' = [wasOff EXCEPT ![t] = ~admin.enabled]
  BY <1>1, <1>2 DEF SubmitPassword, Send
<1>4. UNCHANGED <<admin, fresh, phone>>
  BY DEF SubmitPassword, secrets
<1>5. c \in Request
  BY DEF Request, Kind, Stage, Off, AdminRow, None
<1>6. Shape' /\ Enabled'
  BY <1>3, <1>4, <1>5 DEF IInv, Shape, Enabled, AdminRow
<1>7. AllJustified'
  <2> SUFFICES ASSUME NEW u \in Tab PROVE Justified(call'[u], admin', wasOff'[u])
    BY DEF AllJustified
  <2>1. CASE u = t
    BY <1>3, <1>4, <2>1 DEF Justified, adminHasTotp, IInv, Shape, Enabled, AdminRow
  <2>2. CASE u # t
    <3>1. call'[u] = call[u] /\ wasOff'[u] = wasOff[u] /\ admin' = admin
      BY <1>3, <1>4, <2>2 DEF IInv, Shape
    <3> QED
      BY <3>1 DEF IInv, AllJustified
  <2> QED
    BY <2>1, <2>2
<1> QED
  BY <1>6, <1>7 DEF IInv

(* A new secret is pending; 2FA stays as it was. *)
LEMMA SecretPending ==
  ASSUME IInv, NEW t \in Tab, StartWrite(t)
  PROVE  IInv'
<1> DEFINE row == [active |-> admin.active, pending |-> fresh + 1, enabled |-> admin.enabled]
           c == [kind |-> "start", at |-> "written", row |-> row]
<1>1. admin \in AdminRow /\ fresh \in Nat /\ call[t] \in Request /\ call[t].kind = "start"
  BY DEF IInv, Shape, StartWrite, In
<1>2. admin' = row /\ row \in AdminRow
  BY <1>1 DEF StartWrite, AdminRow
<1>3. call' = [call EXCEPT ![t] = c]
  <2>1. PICK d : d = [call[t] EXCEPT !.at = "written", !.row = row]
    OBVIOUS
  <2>2. d = c
    BY <1>1, <2>1 DEF Request
  <2>3. call' = [call EXCEPT ![t] = d]
    BY <1>1, <1>2, <2>1 DEF StartWrite, IInv, Shape, Request
  <2> QED
    BY <2>2, <2>3
<1>4. c \in Request
  BY <1>2 DEF Request, Kind, Stage
<1>5. UNCHANGED <<phone, wasOff>> /\ fresh' \in Nat
  BY <1>1 DEF StartWrite
<1> HIDE DEF c
<1>6. Shape'
  BY <1>2, <1>3, <1>4, <1>5 DEF IInv, Shape
<1>7. Enabled'
  BY <1>2, <1>5 DEF IInv, Enabled
<1>8. AllJustified'
  <2> SUFFICES ASSUME NEW u \in Tab PROVE Justified(call'[u], admin', wasOff'[u])
    BY DEF AllJustified
  <2>1. CASE u = t
    BY <1>3, <2>1 DEF Justified, IInv, Shape, c
  <2>2. CASE u # t
    <3>1. call'[u] = call[u] /\ wasOff'[u] = wasOff[u]
      BY <1>3, <1>5, <2>2 DEF IInv, Shape
    <3>2. Justified(call[u], admin, wasOff[u])
      BY DEF IInv, AllJustified
    <3> QED
      BY <1>2, <3>1, <3>2 DEF Justified, adminHasTotp
  <2> QED
    BY <2>1, <2>2
<1> QED
  BY <1>6, <1>7, <1>8 DEF IInv

(* What is stored is the secret whose code was typed, so it is in the app. *)
LEMMA Confirmed ==
  ASSUME IInv, NEW t \in Tab, ConfirmWrite(t)
  PROVE  IInv'
<1>1. call[t] \in Request /\ call[t].kind = "confirm"
  BY DEF IInv, Shape, ConfirmWrite, In
<1>2. UNCHANGED <<fresh, phone, wasOff>>
  BY DEF ConfirmWrite
<1>3. CASE Goes(t, "failed") /\ UNCHANGED admin
  BY <1>1, <1>2, <1>3, GoesOn DEF Stage
<1>4. CASE ~(Goes(t, "failed") /\ UNCHANGED admin)
  <2> DEFINE secret == call[t].row.pending
             c == [kind |-> "confirm", at |-> "done", row |-> call[t].row]
  <2>1. PICK typed \in phone \union {None}, age \in 0 .. 2 :
          secret # None /\ verifyTotp(secret, typed, age)
    BY <1>4 DEF ConfirmWrite
  <2>2. admin' = [active |-> secret, pending |-> None, enabled |-> secret # None] /\ Goes(t, "done")
    BY <1>4 DEF ConfirmWrite, ConfirmStore
  <2>3. secret \in phone /\ secret # None
    BY <2>1 DEF verifyTotp
  <2>4. secret \in Nat
    BY <1>1 DEF Request, AdminRow
  <2>5. call' = [call EXCEPT ![t] = c]
    <3>1. PICK d : d = [call[t] EXCEPT !.at = "done"]
      OBVIOUS
    <3>2. d = c
      BY <1>1, <3>1 DEF Request
    <3> QED
      BY <2>2, <3>1, <3>2 DEF Goes
  <2>6. c \in Request
    BY <1>1 DEF Request, Kind, Stage
  <2> HIDE DEF secret, c
  <2>7. admin' \in AdminRow /\ adminHasTotp(admin') /\ Enabled'
    BY <1>2, <2>2, <2>3, <2>4 DEF AdminRow, adminHasTotp, Enabled, None
  <2>8. Shape'
    BY <1>2, <2>5, <2>6, <2>7 DEF IInv, Shape
  <2>9. AllJustified'
    <3> SUFFICES ASSUME NEW u \in Tab PROVE Justified(call'[u], admin', wasOff'[u])
      BY DEF AllJustified
    <3>1. CASE u = t
      BY <2>5, <3>1 DEF Justified, IInv, Shape, c
    <3>2. CASE u # t
      <4>1. call'[u] = call[u] /\ wasOff'[u] = wasOff[u]
        BY <1>2, <2>5, <3>2 DEF IInv, Shape
      <4>2. Justified(call[u], admin, wasOff[u])
        BY DEF IInv, AllJustified
      <4> QED
        BY <2>7, <4>1, <4>2 DEF Justified
    <3> QED
      BY <3>1, <3>2
  <2> QED
    BY <2>7, <2>8, <2>9 DEF IInv
<1> QED
  BY <1>3, <1>4

(* Disabling clears the row: from now on every login may do without a code. *)
LEMMA Cleared ==
  ASSUME IInv, NEW t \in Tab, DisableWrite(t)
  PROVE  IInv'
<1>1. UNCHANGED <<fresh, phone>> /\ call[t].kind = "disable"
  BY DEF DisableWrite, In
<1>2. CASE Goes(t, "failed") /\ UNCHANGED <<admin, wasOff>>
  BY <1>1, <1>2, GoesOn DEF Stage
<1>3. CASE ~(Goes(t, "failed") /\ UNCHANGED <<admin, wasOff>>)
  <2> DEFINE c == [kind |-> "disable", at |-> "done", row |-> call[t].row]
  <2>1. admin' = Off /\ Goes(t, "done") /\ wasOff' = [u \in Tab |-> TRUE]
    BY <1>3 DEF DisableWrite, Disabled
  <2>2. call[t] \in Request
    BY DEF IInv, Shape
  <2>3. PICK d : d = [call[t] EXCEPT !.at = "done"]
    OBVIOUS
  <2>4. d = c
    BY <1>1, <2>2, <2>3 DEF Request
  <2>5. call' = [call EXCEPT ![t] = c] /\ c \in Request
    BY <1>1, <2>1, <2>2, <2>3, <2>4 DEF Goes, Request, Stage
  <2> HIDE DEF c
  <2>6. Shape' /\ Enabled'
    BY <1>1, <2>1, <2>5 DEF IInv, Shape, Enabled, Off, AdminRow, None
  <2>7. AllJustified'
    <3> SUFFICES ASSUME NEW u \in Tab PROVE Justified(call'[u], admin', wasOff'[u])
      BY DEF AllJustified
    <3>1. wasOff'[u] = TRUE
      BY <2>1
    <3>2. call'[u].kind = "login" /\ call'[u].at = "read" => wasOff'[u]
      BY <3>1
    <3> QED
      BY <3>1 DEF Justified
  <2> QED
    BY <2>6, <2>7 DEF IInv
<1> QED
  BY <1>2, <1>3

(* A restart fails the calls that have not been answered. *)
LEMMA Restarted ==
  ASSUME IInv, Restart
  PROVE  IInv'
<1>1. UNCHANGED <<admin, fresh, phone, wasOff>>
  BY DEF Restart, secrets
<1>2. \A t \in Tab : /\ call'[t] \in Request
                     /\ call'[t] = call[t] \/ call'[t].at = "failed"
  <2> SUFFICES ASSUME NEW t \in Tab
               PROVE  call'[t] \in Request /\ (call'[t] = call[t] \/ call'[t].at = "failed")
    OBVIOUS
  <2>1. call[t] \in Request
    BY DEF IInv, Shape
  <2>2. PICK d : d = [call[t] EXCEPT !.at = "failed"]
    OBVIOUS
  <2>3. d = [kind |-> call[t].kind, at |-> "failed", row |-> call[t].row]
    BY <2>1, <2>2 DEF Request
  <2>4. d \in Request /\ d.at = "failed"
    BY <2>1, <2>3 DEF Request, Stage
  <2>5. call'[t] = d \/ call'[t] = call[t]
    BY <2>2 DEF Restart
  <2> QED
    BY <2>1, <2>4, <2>5
<1>3. call' \in [Tab -> Request]
  <2>1. call' = [t \in Tab |-> call'[t]]
    BY DEF Restart
  <2> QED
    BY <1>2, <2>1
<1>4. AllJustified'
  BY <1>1, <1>2 DEF IInv, AllJustified, Justified
<1> QED
  BY <1>1, <1>3, <1>4 DEF IInv, Shape, Enabled

-----------------------------------------------------------------------------
(* A step of the login page. *)
LEMMA LoginKeeps ==
  ASSUME IInv, NEW t \in Tab
  PROVE  /\ SubmitPassword(t) \/ LoginRead(t) \/ LoginDecide(t) => IInv'
         /\ LoggedIn(t) \/ Challenged(t) => IInv'
         /\ SubmitCode(t) \/ CodeDecide(t) \/ BackToPassword(t) => IInv'
<1>1. ASSUME LoginRead(t) PROVE IInv'
  BY <1>1, RowIsRead DEF LoginRead, In, secrets
<1>2. ASSUME LoginDecide(t) PROVE IInv'
  <2>1. UNCHANGED <<admin, fresh, phone, wasOff>>
    BY <1>2 DEF LoginDecide, secrets
  <2>2. ~adminHasTotp(call[t].row) => wasOff[t]
    BY <1>2 DEF LoginDecide, In, IInv, AllJustified, Justified
  <2>3. CASE Goes(t, "failed")
    BY <2>1, <2>3, GoesOn DEF Stage
  <2>4. CASE adminHasTotp(call[t].row) /\ Goes(t, "token")
    BY <2>1, <2>4, GoesOn DEF Stage
  <2>5. CASE ~adminHasTotp(call[t].row) /\ Goes(t, "session")
    BY <2>1, <2>2, <2>5, GoesOn DEF Stage
  <2> QED
    BY <1>2, <2>3, <2>4, <2>5 DEF LoginDecide
<1>3. ASSUME LoggedIn(t) \/ Challenged(t) PROVE IInv'
  BY <1>3, CallEnds DEF LoggedIn, Challenged, secrets
<1>4. ASSUME SubmitCode(t) PROVE IInv'
  BY <1>4, CallStarts DEF SubmitCode, Kind, Stage, secrets
<1>5. ASSUME CodeDecide(t) PROVE IInv'
  <2>1. UNCHANGED <<admin, fresh, phone, wasOff>> /\ call[t].kind = "code"
    BY <1>5 DEF CodeDecide, In, secrets
  <2>2. Goes(t, "session") \/ Goes(t, "failed")
    BY <1>5 DEF CodeDecide
  <2> QED
    BY <2>1, <2>2, GoesOn DEF Stage
<1>6. ASSUME BackToPassword(t) PROVE IInv'
  BY <1>6, Untouched DEF BackToPassword, secrets
<1> QED
  BY <1>1, <1>2, <1>3, <1>4, <1>5, <1>6, PasswordSent

(* A call of the dashboard is sent, or refused at once. *)
LEMMA SignedStarts ==
  ASSUME IInv, NEW t \in Tab, NEW kind \in Kind \ {"login"}, SendSigned(t, kind),
         UNCHANGED <<admin, fresh, phone, wasOff>>
  PROVE  IInv'
<1>1. Send(t, kind, "sent") \/ Send(t, kind, "failed")
  BY DEF SendSigned
<1> QED
  BY <1>1, CallStarts DEF Stage

(* A step of the security panel. *)
LEMMA PanelKeeps ==
  ASSUME IInv, NEW t \in Tab
  PROVE  /\ StartTwoFactor(t) \/ StartWrite(t) \/ StartAnswer(t) \/ TwoFactorStarted(t) => IInv'
         /\ ConfirmTwoFactor(t) \/ ConfirmRead(t) \/ ConfirmWrite(t) \/ TwoFactorConfirmed(t) => IInv'
         /\ DisableTwoFactor(t) \/ DisableWrite(t) \/ TwoFactorDisabled(t) => IInv'
<1>1. ASSUME StartTwoFactor(t) \/ ConfirmTwoFactor(t) \/ DisableTwoFactor(t) PROVE IInv'
  BY <1>1, SignedStarts DEF StartTwoFactor, ConfirmTwoFactor, DisableTwoFactor, Kind, secrets
<1>2. ASSUME StartAnswer(t) PROVE IInv'
  BY <1>2, GoesOn DEF StartAnswer, Stage, secrets
<1>3. ASSUME TwoFactorStarted(t) \/ TwoFactorConfirmed(t) \/ TwoFactorDisabled(t) PROVE IInv'
  BY <1>3, CallEnds DEF TwoFactorStarted, TwoFactorConfirmed, TwoFactorDisabled, Settled, secrets
<1>4. ASSUME ConfirmRead(t) PROVE IInv'
  BY <1>4, RowIsRead DEF ConfirmRead, In, secrets
<1> QED
  BY <1>1, <1>2, <1>3, <1>4, SecretPending, Confirmed, Cleared

(* A step of the browser. *)
LEMMA BrowserKeeps ==
  ASSUME IInv, NEW t \in Tab
  PROVE  /\ Visit(t) \/ VisitLogin(t) \/ Logout(t) \/ LoadTwoFactor(t) => IInv'
         /\ Scan(t) \/ Failed(t) \/ AnswerLost(t) => IInv'
<1>1. ASSUME Visit(t) \/ VisitLogin(t) \/ Logout(t) \/ LoadTwoFactor(t) PROVE IInv'
  BY <1>1, Untouched DEF Visit, VisitLogin, Logout, LoadTwoFactor, secrets
<1>2. ASSUME Scan(t) PROVE IInv'
  <2>1. UNCHANGED <<admin, fresh, call, wasOff>> /\ phone \subseteq phone'
    BY <1>2 DEF Scan
  <2> QED
    BY <2>1 DEF IInv, Shape, Enabled, AllJustified
<1>3. ASSUME Failed(t) PROVE IInv'
  BY <1>3, CallEnds DEF Failed, secrets
<1>4. ASSUME AnswerLost(t) PROVE IInv'
  BY <1>4, GoesOn DEF AnswerLost, Stage, secrets
<1> QED
  BY <1>1, <1>2, <1>3, <1>4

(* The inductive invariant. *)
THEOREM Invariant == Spec => []IInv
<1>1. Init => IInv
  BY DEF Init, IInv, Shape, Enabled, AllJustified, Justified, NoCall, Request, Kind, Stage,
         Off, AdminRow, None
<1>2. IInv /\ [Next]_vars => IInv'
  <2> SUFFICES ASSUME IInv, [Next]_vars PROVE IInv'
    OBVIOUS
  <2>1. CASE Restart
    BY <2>1, Restarted
  <2>2. CASE Lapse \/ UNCHANGED vars
    BY <2>2, Untouched DEF Lapse, vars, secrets
  <2>3. CASE \E t \in Tab : \/ SubmitPassword(t) \/ LoginRead(t) \/ LoginDecide(t)
                            \/ LoggedIn(t) \/ Challenged(t)
                            \/ SubmitCode(t) \/ CodeDecide(t) \/ BackToPassword(t)
    BY <2>3, LoginKeeps
  <2>4. CASE \E t \in Tab :
               \/ StartTwoFactor(t) \/ StartWrite(t) \/ StartAnswer(t) \/ TwoFactorStarted(t)
               \/ ConfirmTwoFactor(t) \/ ConfirmRead(t) \/ ConfirmWrite(t) \/ TwoFactorConfirmed(t)
               \/ DisableTwoFactor(t) \/ DisableWrite(t) \/ TwoFactorDisabled(t)
    BY <2>4, PanelKeeps
  <2>5. CASE \E t \in Tab : \/ Visit(t) \/ VisitLogin(t) \/ Logout(t) \/ LoadTwoFactor(t)
                            \/ Scan(t) \/ Failed(t) \/ AnswerLost(t)
    BY <2>5, BrowserKeeps
  <2> QED
    BY <2>1, <2>2, <2>3, <2>4, <2>5 DEF Next
<1> QED
  BY <1>1, <1>2, PTL DEF Spec

(* 2FA is only ever on with a secret that an authenticator has, for any    *)
(* number of tabs that start, confirm and disable it.                      *)
THEOREM NobodyLockedOut == Spec => []NeverLockedOut
<1>1. IInv => NeverLockedOut
  BY DEF IInv, Enabled, NeverLockedOut
<1> QED
  BY <1>1, Invariant, PTL

(* No login skips the code but when 2FA has been off since its password.   *)
THEOREM CodeAlwaysAsked == Spec => []SecondFactor
<1>1. IInv => SecondFactor
  BY DEF IInv, AllJustified, Justified, SecondFactor, In
<1> QED
  BY <1>1, Invariant, PTL

-----------------------------------------------------------------------------
(* The secrets, wherever they are held, are ones generated so far.          *)
RowTo(n) == [active : 0 .. n, pending : 0 .. n, enabled : BOOLEAN]
CallTo(n) == [kind : Kind, at : Stage, row : RowTo(n)]
TypedSecrets ==
  /\ fresh \in Nat /\ admin \in RowTo(fresh)
  /\ admin.enabled <=> admin.active # None
  /\ phone \subseteq 1 .. fresh
  /\ call \in [Tab -> CallTo(fresh)]
  /\ setup \in [Tab -> 0 .. fresh]

TypedTabs ==
  /\ opened \in Nat /\ jar \in 0 .. opened /\ csrf \in [Tab -> 0 .. opened]
  /\ page \in [Tab -> {"login", "challenge", "admin"}]
  /\ \A t \in Tab : page[t] = "admin" <=> csrf[t] # None
  /\ shown \in [Tab -> BOOLEAN] /\ wasOff \in [Tab -> BOOLEAN]
  /\ faults \in 0 .. MaxFaults

(* Every login under way has a session left to open, every start a secret. *)
Logins == {t \in Tab : call[t].kind \in {"login", "code"}}
Starts == {t \in Tab : In(t, "start", "sent")}
Within ==
  /\ opened + Cardinality(Logins) <= MaxSessions
  /\ fresh + Cardinality(Starts) <= MaxSecrets
  /\ \A t \in Tab : call[t].at \in {"session", "token"} => t \in Logins

(* A tab that logs in is not on the dashboard. *)
Outside == \A t \in Logins : page[t] # "admin"

Typed == TypedSecrets /\ TypedTabs /\ Within /\ Outside

(* What one step does to the requests: that of t becomes c. *)
Becomes(t, c) == call' = [call EXCEPT ![t] = c]

(* Higher bounds admit more rows and requests. *)
LEMMA RowsOfMore ==
  ASSUME NEW m \in Nat, NEW n \in Nat, m <= n
  PROVE  RowTo(m) \subseteq RowTo(n) /\ CallTo(m) \subseteq CallTo(n)
<1>1. 0 .. m \subseteq 0 .. n
  OBVIOUS
<1>2. RowTo(m) \subseteq RowTo(n)
  BY <1>1 DEF RowTo
<1> QED
  BY <1>2 DEF CallTo

(* No request, and the row before any 2FA, are within every bound. *)
LEMMA NoCallTyped == ASSUME NEW n \in Nat PROVE NoCall \in CallTo(n) /\ Off \in RowTo(n)
BY DEF NoCall, Off, CallTo, RowTo, None, Kind, Stage

(* The four ways in which a request changes. *)
LEMMA Steps ==
  ASSUME TypedSecrets, NEW t \in Tab, NEW kind \in Kind, NEW at \in Stage
  PROVE  /\ Send(t, kind, at) => Becomes(t, [kind |-> kind, at |-> at, row |-> Off])
         /\ Goes(t, at) => Becomes(t, [kind |-> call[t].kind, at |-> at, row |-> call[t].row])
         /\ ReadsRow(t) => Becomes(t, [kind |-> call[t].kind, at |-> "read", row |-> admin])
         /\ Ends(t) => Becomes(t, [kind |-> "none", at |-> "none", row |-> Off])
<1>1. call[t] \in CallTo(fresh)
  BY DEF TypedSecrets
<1>2. PICK a : a = [NoCall EXCEPT !.kind = kind, !.at = at]
  OBVIOUS
<1>3. a = [kind |-> kind, at |-> at, row |-> Off]
  BY <1>2 DEF NoCall
<1>4. PICK b : b = [call[t] EXCEPT !.at = at]
  OBVIOUS
<1>5. b = [kind |-> call[t].kind, at |-> at, row |-> call[t].row]
  BY <1>1, <1>4 DEF CallTo
<1>6. PICK d : d = [call[t] EXCEPT !.at = "read", !.row = admin]
  OBVIOUS
<1>7. d = [kind |-> call[t].kind, at |-> "read", row |-> admin]
  BY <1>1, <1>6 DEF CallTo
<1>8. ReadsRow(t) => Becomes(t, d)
  BY <1>1, <1>6 DEF ReadsRow, Becomes, TypedSecrets
<1>9. Send(t, kind, at) => Becomes(t, a)
  BY <1>2 DEF Send, Becomes
<1>10. Goes(t, at) => Becomes(t, b)
  BY <1>4 DEF Goes, Becomes
<1>11. Ends(t) => Becomes(t, [kind |-> "none", at |-> "none", row |-> Off])
  BY DEF Ends, Becomes, NoCall
<1> QED
  BY <1>3, <1>5, <1>7, <1>8, <1>9, <1>10, <1>11

(* A request changes while everything else about secrets stays. *)
LEMMA SecretsStay ==
  ASSUME TypedSecrets, NEW t \in Tab, NEW c \in CallTo(fresh), Becomes(t, c),
         UNCHANGED <<admin, fresh, phone, setup>>
  PROVE  TypedSecrets'
BY DEF TypedSecrets, Becomes, RowTo, CallTo

(* Counting: a part of a set, one element more, one element less. *)
LEMMA Counted ==
  ASSUME NEW S, IsFiniteSet(S), NEW T, NEW t
  PROVE  /\ Cardinality(S) \in Nat
         /\ T \subseteq S => Cardinality(T) \in Nat /\ Cardinality(T) <= Cardinality(S)
         /\ T \subseteq S \union {t} => Cardinality(T) \in Nat /\ Cardinality(T) <= Cardinality(S) + 1
         /\ t \in S /\ T \subseteq S \ {t} =>
              Cardinality(T) \in Nat /\ Cardinality(T) + 1 <= Cardinality(S)
<1>1. Cardinality(S) \in Nat
  BY FS_CardinalityType
<1>2. ASSUME NEW U, IsFiniteSet(U), T \subseteq U
      PROVE  Cardinality(T) \in Nat /\ Cardinality(T) <= Cardinality(U)
  BY <1>2, FS_Subset, FS_CardinalityType
<1>3. IsFiniteSet(S \union {t}) /\ Cardinality(S \union {t}) <= Cardinality(S) + 1
  BY <1>1, FS_AddElement
<1>4. t \in S => IsFiniteSet(S \ {t}) /\ Cardinality(S \ {t}) = Cardinality(S) - 1
  BY FS_RemoveElement
<1>5. Cardinality(S \union {t}) \in Nat
  BY <1>3, FS_CardinalityType
<1>6. T \subseteq S \union {t} => Cardinality(T) \in Nat /\ Cardinality(T) <= Cardinality(S) + 1
  BY <1>1, <1>2, <1>3, <1>5
<1>7. t \in S /\ T \subseteq S \ {t} => Cardinality(T) \in Nat /\ Cardinality(T) <= Cardinality(S) - 1
  BY <1>2, <1>4
<1> QED
  BY <1>1, <1>2, <1>6, <1>7

(* Finitely many tabs have finitely many requests under way. *)
LEMMA FewTabs == IsFiniteSet(Logins) /\ IsFiniteSet(Starts)
BY TabAssumption, FS_Subset DEF Logins, Starts

(* A request that opens no session and asks for no secret keeps the bounds. *)
LEMMA NoMore ==
  ASSUME TypedSecrets, TypedTabs, Within, NEW t \in Tab, NEW c \in CallTo(fresh), Becomes(t, c),
         UNCHANGED <<fresh, opened>>,
         c.kind \in {"login", "code"} => t \in Logins,
         ~(c.kind = "start" /\ c.at = "sent"),
         c.at \in {"session", "token"} => c.kind \in {"login", "code"}
  PROVE  Within'
<1>1. \A u \in Tab : call'[u] = IF u = t THEN c ELSE call[u]
  BY DEF Becomes, TypedSecrets
<1>2. Logins' \subseteq Logins /\ Starts' \subseteq Starts
  BY <1>1 DEF Logins, Starts, In
<1>4. /\ Cardinality(Logins) \in Nat /\ Cardinality(Logins') \in Nat
      /\ Cardinality(Starts) \in Nat /\ Cardinality(Starts') \in Nat
      /\ Cardinality(Logins') <= Cardinality(Logins) /\ Cardinality(Starts') <= Cardinality(Starts)
  BY <1>2, FewTabs, Counted
<1>5. opened \in Nat /\ fresh \in Nat
  BY DEF TypedSecrets, TypedTabs
<1>6. \A u \in Tab : call'[u].at \in {"session", "token"} => u \in Logins'
  BY <1>1 DEF Within, Logins
<1>7. opened' + Cardinality(Logins') <= MaxSessions /\ fresh' + Cardinality(Starts') <= MaxSecrets
  BY <1>4, <1>5, BoundAssumption DEF Within
<1> QED
  BY <1>6, <1>7 DEF Within

(* Beside the requests, what a step leaves alone. *)
Apart == <<admin, fresh, phone, setup, opened, page>>

(* Any request that changes so, on a page that stays typed. *)
LEMMA OneRequest ==
  ASSUME Typed, NEW t \in Tab, NEW c \in CallTo(fresh), Becomes(t, c), UNCHANGED Apart,
         c.kind \in {"login", "code"} => t \in Logins,
         ~(c.kind = "start" /\ c.at = "sent"),
         c.at \in {"session", "token"} => c.kind \in {"login", "code"},
         TypedTabs'
  PROVE  Typed'
<1>1. TypedSecrets' /\ Within'
  BY SecretsStay, NoMore DEF Typed, Apart
<1>2. Logins' \subseteq Logins /\ UNCHANGED page
  BY DEF Typed, TypedSecrets, Becomes, Logins, Apart
<1> QED
  BY <1>1, <1>2 DEF Typed, Outside

(* One tab goes to another page. *)
LEMMA OutsideKept ==
  ASSUME Typed, NEW t \in Tab, Logins' \subseteq Logins \union {t},
         \A u \in Tab \ {t} : page'[u] = page[u], t \in Logins' => page'[t] # "admin"
  PROVE  Outside'
BY DEF Typed, Outside, Logins

(* What nothing but the requests of the tabs changes. *)
LEMMA TabsStay ==
  ASSUME TypedTabs, UNCHANGED <<cookies, csrf, page, shown, wasOff>>, faults' \in 0 .. MaxFaults
  PROVE  TypedTabs'
BY DEF TypedTabs, cookies

(* Nothing that the bounds are about changes. *)
LEMMA CallsStay ==
  ASSUME TypedSecrets, Within, UNCHANGED <<call, fresh, opened>> PROVE Within'
BY DEF Within, Logins, Starts, In

(* What the pages show, and what they show once a tab has gone to another. *)
Pages ==
  /\ csrf \in [Tab -> 0 .. opened] /\ page \in [Tab -> {"login", "challenge", "admin"}]
  /\ \A t \in Tab : page[t] = "admin" <=> csrf[t] # None
  /\ shown \in [Tab -> BOOLEAN] /\ setup \in [Tab -> 0 .. fresh]

(* Entering a page leaves the other tabs alone. *)
LEMMA PageEntered ==
  ASSUME Typed, NEW t \in Tab, opened' \in Nat, opened <= opened', UNCHANGED fresh,
         (\E token \in 1 .. opened' : Dashboard(t, token)) \/ LoginPage(t)
  PROVE  Pages' /\ \A u \in Tab \ {t} : page'[u] = page[u]
<1>1. csrf \in [Tab -> 0 .. opened'] /\ admin.enabled \in BOOLEAN
  BY DEF Typed, TypedTabs, TypedSecrets, RowTo
<1>2. CASE \E token \in 1 .. opened' : Dashboard(t, token)
  BY <1>1, <1>2 DEF Dashboard, Typed, TypedTabs, TypedSecrets, None, Pages
<1>3. CASE LoginPage(t)
  BY <1>1, <1>3 DEF LoginPage, Typed, TypedTabs, TypedSecrets, None, Pages
<1> QED
  BY <1>2, <1>3

(* Going to a page, and leaving it. *)
LEMMA PageSteps ==
  ASSUME Typed, NEW t \in Tab, Visit(t) \/ VisitLogin(t) \/ Logout(t)
  PROVE  Typed'
<1>1. UNCHANGED <<admin, fresh, phone, call, opened, wasOff>>
  BY DEF Visit, VisitLogin, Logout, secrets, cookies, destroySession
<1>2. opened \in Nat /\ opened' = opened /\ jar' \in 0 .. opened
  BY DEF Typed, TypedTabs, Visit, VisitLogin, Logout, cookies, destroySession, None
<1>3. faults' \in 0 .. MaxFaults
  BY BoundAssumption DEF Typed, TypedTabs, Visit, VisitLogin, Logout, Fault
<1>4. (currentAdmin /\ csrfToken \in 1 .. opened /\ Dashboard(t, csrfToken)) \/ LoginPage(t)
  BY DEF Visit, VisitLogin, Logout, currentAdmin, csrfToken, Typed, TypedTabs, None
<1>5. Pages' /\ \A u \in Tab \ {t} : page'[u] = page[u]
  BY <1>1, <1>2, <1>4, PageEntered
<1>6. TypedTabs'
  BY <1>1, <1>2, <1>3, <1>5 DEF Typed, TypedTabs, Pages
<1>7. TypedSecrets'
  BY <1>1, <1>5 DEF Typed, TypedSecrets, RowTo, CallTo, Pages
<1>8. Outside'
  <2>1. Logins' = Logins /\ t \notin Logins
    BY <1>1 DEF Logins, Visit, VisitLogin, Logout, NoCall
  <2> QED
    BY <1>5, <2>1, OutsideKept
<1> QED
  BY <1>1, <1>6, <1>7, <1>8, CallsStay DEF Typed

(* A login or a code is sent: a session is left for it. *)
LEMMA LoginSent ==
  ASSUME Typed, NEW t \in Tab, SubmitPassword(t) \/ SubmitCode(t)
  PROVE  Typed'
<1>1. PICK kind \in {"login", "code"} : Send(t, kind, "sent")
  BY DEF SubmitPassword, SubmitCode
<1> DEFINE c == [kind |-> kind, at |-> "sent", row |-> Off]
<1>2. c \in CallTo(fresh) /\ Becomes(t, c)
  BY <1>1, Steps, NoCallTyped DEF Typed, TypedSecrets, CallTo, Kind, Stage
<1>3. UNCHANGED <<secrets, cookies, tabs, faults>>
      /\ (wasOff' = wasOff \/ wasOff' = [wasOff EXCEPT ![t] = ~admin.enabled])
  BY DEF SubmitPassword, SubmitCode
<1>4. TypedTabs'
  BY <1>3 DEF Typed, TypedTabs, cookies, tabs
<1>5. TypedSecrets'
  BY <1>2, <1>3, SecretsStay DEF Typed, secrets, tabs
<1>0. c.kind \in {"login", "code"} /\ c.at = "sent"
  OBVIOUS
<1> HIDE DEF c
<1>6. \A u \in Tab : call'[u] = IF u = t THEN c ELSE call[u]
  BY <1>2 DEF Becomes, Typed, TypedSecrets
<1>7. Logins' \subseteq Logins \union {t} /\ Starts' \subseteq Starts
  BY <1>0, <1>6 DEF Logins, Starts, In
<1>10. /\ Cardinality(Logins) \in Nat /\ Cardinality(Logins') \in Nat
       /\ Cardinality(Starts) \in Nat /\ Cardinality(Starts') \in Nat
       /\ Cardinality(Logins') <= Cardinality(Logins) + 1 /\ Cardinality(Starts') <= Cardinality(Starts)
  BY <1>7, FewTabs, Counted
<1>11. opened + Cardinality(Logins) < MaxSessions
  BY DEF SubmitPassword, SubmitCode, MaySucceed, Logins
<1>12. opened \in Nat /\ fresh \in Nat /\ opened' = opened /\ fresh' = fresh
  BY <1>3 DEF Typed, TypedSecrets, TypedTabs, secrets, cookies
<1>13. opened' + Cardinality(Logins') <= MaxSessions /\ fresh' + Cardinality(Starts') <= MaxSecrets
  BY <1>10, <1>11, <1>12, BoundAssumption DEF Typed, Within
<1>14. \A u \in Tab : call'[u].at \in {"session", "token"} => u \in Logins'
  BY <1>0, <1>6 DEF Typed, Within, Logins
<1>15. Outside'
  BY <1>3, <1>7, OutsideKept DEF tabs, SubmitPassword, SubmitCode, LoginForm
<1> QED
  BY <1>4, <1>5, <1>13, <1>14, <1>15 DEF Typed, Within

(* A start is sent: a secret is left for it. *)
LEMMA StartSent ==
  ASSUME Typed, NEW t \in Tab, StartTwoFactor(t)
  PROVE  Typed'
<1>1. PICK at \in {"sent", "failed"} : Send(t, "start", at)
  BY DEF StartTwoFactor, SendSigned
<1> DEFINE c == [kind |-> "start", at |-> at, row |-> Off]
<1>2. c \in CallTo(fresh) /\ Becomes(t, c)
  BY <1>1, Steps, NoCallTyped DEF Typed, TypedSecrets, CallTo, Kind, Stage
<1>3. UNCHANGED <<secrets, cookies, tabs, wasOff, faults>>
  BY DEF StartTwoFactor
<1>4. TypedTabs'
  BY <1>3 DEF Typed, TypedTabs, cookies, tabs
<1>5. TypedSecrets'
  BY <1>2, <1>3, SecretsStay DEF Typed, secrets, tabs
<1>6. c.kind = "start" /\ c.at \notin {"session", "token"}
  OBVIOUS
<1> HIDE DEF c
<1>7. \A u \in Tab : call'[u] = IF u = t THEN c ELSE call[u]
  BY <1>2 DEF Becomes, Typed, TypedSecrets
<1>8. Logins' \subseteq Logins /\ Starts' \subseteq Starts \union {t}
  BY <1>6, <1>7 DEF Logins, Starts, In
<1>9. /\ Cardinality(Logins) \in Nat /\ Cardinality(Logins') \in Nat
      /\ Cardinality(Starts) \in Nat /\ Cardinality(Starts') \in Nat
      /\ Cardinality(Logins') <= Cardinality(Logins) /\ Cardinality(Starts') <= Cardinality(Starts) + 1
  BY <1>8, FewTabs, Counted
<1>10. fresh + Cardinality(Starts) < MaxSecrets
  BY DEF StartTwoFactor, Starts
<1>11. opened \in Nat /\ fresh \in Nat /\ opened' = opened /\ fresh' = fresh
  BY <1>3 DEF Typed, TypedSecrets, TypedTabs, secrets, cookies
<1>12. opened' + Cardinality(Logins') <= MaxSessions /\ fresh' + Cardinality(Starts') <= MaxSecrets
  BY <1>9, <1>10, <1>11, BoundAssumption DEF Typed, Within
<1>13. \A u \in Tab : call'[u].at \in {"session", "token"} => u \in Logins'
  BY <1>6, <1>7 DEF Typed, Within, Logins
<1>14. Outside'
  BY <1>3, <1>8 DEF tabs, Typed, Outside
<1> QED
  BY <1>4, <1>5, <1>12, <1>13, <1>14 DEF Typed, Within

(* The secret is written: it is one more, and one start less waits for one. *)
LEMMA SecretWritten ==
  ASSUME Typed, NEW t \in Tab, StartWrite(t)
  PROVE  Typed'
<1> DEFINE row == [active |-> admin.active, pending |-> fresh + 1, enabled |-> admin.enabled]
           c == [kind |-> call[t].kind, at |-> "written", row |-> row]
<1>1. fresh \in Nat /\ opened \in Nat /\ admin \in RowTo(fresh) /\ call[t] \in CallTo(fresh)
  BY DEF Typed, TypedSecrets, TypedTabs
<1>2. PICK r : r = [admin EXCEPT !.pending = fresh + 1]
  OBVIOUS
<1>3. r = row
  BY <1>1, <1>2 DEF RowTo
<1>4. admin' = row /\ fresh' = fresh + 1
  BY <1>2, <1>3 DEF StartWrite
<1>5. PICK d : d = [call[t] EXCEPT !.at = "written", !.row = row]
  OBVIOUS
<1>6. d = c
  BY <1>1, <1>5 DEF CallTo
<1>7. Becomes(t, d)
  BY <1>1, <1>4, <1>5 DEF StartWrite, Becomes, Typed, TypedSecrets
<1>8. UNCHANGED <<phone, cookies, tabs, wasOff, faults>> /\ t \in Starts
  BY DEF StartWrite, Starts
<1>9. row \in RowTo(fresh + 1)
  BY <1>1 DEF RowTo
<1>10. c \in CallTo(fresh + 1) /\ c.kind = call[t].kind /\ c.at = "written"
  BY <1>1, <1>9 DEF CallTo, Stage
<1>11. row.enabled <=> row.active # None
  BY DEF Typed, TypedSecrets
<1> HIDE DEF c, row
<1>12. CallTo(fresh) \subseteq CallTo(fresh + 1)
  BY <1>1, RowsOfMore
<1>13. TypedSecrets'
  <2>1. call' \in [Tab -> CallTo(fresh')]
    BY <1>4, <1>6, <1>7, <1>10, <1>12 DEF Becomes, Typed, TypedSecrets
  <2>2. phone' \subseteq 1 .. fresh' /\ setup' \in [Tab -> 0 .. fresh']
    BY <1>1, <1>4, <1>8 DEF tabs, Typed, TypedSecrets
  <2> QED
    BY <1>1, <1>4, <1>9, <1>11, <2>1, <2>2 DEF TypedSecrets
<1>14. TypedTabs'
  BY <1>8 DEF Typed, TypedTabs, cookies, tabs
<1>15. \A u \in Tab : call'[u] = IF u = t THEN c ELSE call[u]
  BY <1>6, <1>7 DEF Becomes, Typed, TypedSecrets
<1>16. Logins' \subseteq Logins /\ Starts' \subseteq Starts \ {t}
  BY <1>10, <1>15 DEF Logins, Starts, In
<1>17. /\ Cardinality(Logins) \in Nat /\ Cardinality(Logins') \in Nat
       /\ Cardinality(Starts) \in Nat /\ Cardinality(Starts') \in Nat
       /\ Cardinality(Logins') <= Cardinality(Logins) /\ Cardinality(Starts') + 1 <= Cardinality(Starts)
  BY <1>8, <1>16, FewTabs, Counted
<1>18. opened' = opened
  BY <1>8 DEF cookies
<1>19. opened' + Cardinality(Logins') <= MaxSessions /\ fresh' + Cardinality(Starts') <= MaxSecrets
  BY <1>1, <1>4, <1>17, <1>18, BoundAssumption DEF Typed, Within
<1>20. \A u \in Tab : call'[u].at \in {"session", "token"} => u \in Logins'
  BY <1>10, <1>15 DEF Typed, Within, Logins
<1>21. Outside'
  BY <1>8, <1>16 DEF tabs, Typed, Outside
<1> QED
  BY <1>13, <1>14, <1>19, <1>20, <1>21 DEF Typed, Within

(* The session is opened: it is one more, and one login less waits for one. *)
LEMMA SessionOpened ==
  ASSUME Typed, NEW t \in Tab, LoggedIn(t)
  PROVE  Typed'
<1> DEFINE c == [kind |-> "none", at |-> "none", row |-> Off]
<1>1. fresh \in Nat /\ opened \in Nat
  BY DEF Typed, TypedSecrets, TypedTabs
<1>2. c \in CallTo(fresh) /\ Becomes(t, c)
  BY <1>1, Steps, NoCallTyped DEF LoggedIn, Typed, NoCall, Kind, Stage
<1>3. c.kind = "none" /\ c.at = "none"
  OBVIOUS
<1> HIDE DEF c
<1>4. UNCHANGED <<secrets, wasOff, faults>> /\ opened' = opened + 1 /\ jar' = opened + 1
  BY DEF LoggedIn, createSession
<1>5. Pages' /\ \A u \in Tab \ {t} : page'[u] = page[u]
  BY <1>1, <1>4, PageEntered DEF LoggedIn, secrets
<1>6. TypedTabs'
  BY <1>1, <1>4, <1>5 DEF Typed, TypedTabs, Pages
<1>7. TypedSecrets'
  BY <1>2, <1>4, <1>5 DEF Typed, TypedSecrets, Pages, secrets, Becomes, RowTo, CallTo
<1>8. \A u \in Tab : call'[u] = IF u = t THEN c ELSE call[u]
  BY <1>2 DEF Becomes, Typed, TypedSecrets
<1>9. Logins' \subseteq Logins \ {t} /\ Starts' \subseteq Starts /\ t \in Logins
  BY <1>3, <1>8 DEF LoggedIn, Typed, Within, Logins, Starts, In
<1>10. /\ Cardinality(Logins) \in Nat /\ Cardinality(Logins') \in Nat
       /\ Cardinality(Starts) \in Nat /\ Cardinality(Starts') \in Nat
       /\ Cardinality(Logins') + 1 <= Cardinality(Logins) /\ Cardinality(Starts') <= Cardinality(Starts)
  BY <1>9, FewTabs, Counted
<1>11. fresh' = fresh
  BY <1>4 DEF secrets
<1>12. opened' + Cardinality(Logins') <= MaxSessions /\ fresh' + Cardinality(Starts') <= MaxSecrets
  BY <1>1, <1>4, <1>10, <1>11, BoundAssumption DEF Typed, Within
<1>13. \A u \in Tab : call'[u].at \in {"session", "token"} => u \in Logins'
  BY <1>3, <1>8 DEF Typed, Within, Logins
<1>14. Outside'
  BY <1>5, <1>9, OutsideKept
<1> QED
  BY <1>6, <1>7, <1>12, <1>13, <1>14 DEF Typed, Within

(* The rest of the site: the requests that go on, end, or are refused, with *)
(* whatever the page then shows.                                            *)
LEMMA RequestsGoOn ==
  ASSUME Typed, NEW t \in Tab
  PROVE  /\ LoginRead(t) \/ LoginDecide(t) \/ CodeDecide(t) => Typed'
         /\ StartAnswer(t) \/ ConfirmRead(t) \/ AnswerLost(t) => Typed'
         /\ ConfirmTwoFactor(t) \/ DisableTwoFactor(t) => Typed'
<1>1. fresh \in Nat /\ call[t] \in CallTo(fresh) /\ admin \in RowTo(fresh)
  BY DEF Typed, TypedSecrets
<1>2. call[t].at \in {"session", "token"} => call[t].kind \in {"login", "code"}
  BY DEF Typed, Within, Logins
<1>3. call[t].kind \in {"login", "code"} => t \in Logins
  BY DEF Logins
<1>4. ASSUME NEW at \in Stage \ {"sent"}, Goes(t, at), UNCHANGED <<secrets, cookies, tabs, wasOff>>,
             faults' \in 0 .. MaxFaults, at \in {"session", "token"} => call[t].kind \in {"login", "code"}
      PROVE  Typed'
  <2> DEFINE c == [kind |-> call[t].kind, at |-> at, row |-> call[t].row]
  <2>1. c \in CallTo(fresh) /\ Becomes(t, c)
    BY <1>1, <1>4, Steps DEF CallTo, Typed, Kind
  <2>2. TypedTabs'
    BY <1>4, TabsStay DEF Typed, tabs
  <2> QED
    BY <1>3, <1>4, <2>1, <2>2, OneRequest DEF Apart, secrets, cookies, tabs
<1>5. ASSUME ReadsRow(t), UNCHANGED <<secrets, cookies, tabs, wasOff, faults>> PROVE Typed'
  <2> DEFINE c == [kind |-> call[t].kind, at |-> "read", row |-> admin]
  <2>1. c \in CallTo(fresh) /\ Becomes(t, c)
    BY <1>1, <1>5, Steps DEF CallTo, Typed, Kind, Stage
  <2>2. TypedTabs'
    BY <1>5, TabsStay DEF Typed, TypedTabs, tabs
  <2> QED
    BY <1>3, <1>5, <2>1, <2>2, OneRequest DEF Apart, secrets, cookies, tabs
<1>6. ASSUME NEW kind \in {"confirm", "disable"}, SendSigned(t, kind),
             UNCHANGED <<secrets, cookies, tabs, wasOff, faults>>
      PROVE  Typed'
  <2>1. PICK at \in {"sent", "failed"} : Send(t, kind, at)
    BY <1>6 DEF SendSigned
  <2> DEFINE c == [kind |-> kind, at |-> at, row |-> Off]
  <2>2. c \in CallTo(fresh) /\ Becomes(t, c)
    BY <1>1, <2>1, Steps, NoCallTyped DEF CallTo, Typed, Kind, Stage
  <2>3. TypedTabs'
    BY <1>6, TabsStay DEF Typed, TypedTabs, tabs
  <2> QED
    BY <1>6, <2>2, <2>3, OneRequest DEF Apart, secrets, cookies, tabs
<1>7. faults \in 0 .. MaxFaults /\ (Fault => faults' \in 0 .. MaxFaults)
  BY BoundAssumption DEF Typed, TypedTabs, Fault
<1>8. LoginRead(t) \/ ConfirmRead(t) => Typed'
  BY <1>5 DEF LoginRead, ConfirmRead
<1>9. ASSUME LoginDecide(t) \/ CodeDecide(t) \/ StartAnswer(t) PROVE Typed'
  <2>1. PICK at \in {"failed", "session", "token", "done"} :
          Goes(t, at) /\ (at \in {"session", "token"} => call[t].kind \in {"login", "code"})
    BY <1>9 DEF LoginDecide, CodeDecide, StartAnswer, In
  <2>2. UNCHANGED <<secrets, cookies, tabs, wasOff, faults>>
    BY <1>9 DEF LoginDecide, CodeDecide, StartAnswer
  <2> QED
    BY <1>4, <1>7, <2>1, <2>2 DEF Stage
<1>10. AnswerLost(t) => Typed'
  BY <1>4, <1>7 DEF AnswerLost, Stage
<1>11. ConfirmTwoFactor(t) \/ DisableTwoFactor(t) => Typed'
  BY <1>6 DEF ConfirmTwoFactor, DisableTwoFactor
<1> QED
  BY <1>8, <1>9, <1>10, <1>11

(* The answers that end a request, of each kind. *)
LEMMA RequestsEnd ==
  ASSUME Typed, NEW t \in Tab
  PROVE  /\ Challenged(t) \/ Failed(t) => Typed'
         /\ TwoFactorStarted(t) \/ TwoFactorConfirmed(t) \/ TwoFactorDisabled(t) => Typed'
<1> DEFINE c == [kind |-> "none", at |-> "none", row |-> Off]
<1>1. fresh \in Nat /\ call[t] \in CallTo(fresh)
  BY DEF Typed, TypedSecrets
<1>2. Ends(t) => c \in CallTo(fresh) /\ Becomes(t, c)
  BY <1>1, Steps, NoCallTyped DEF Typed, NoCall, Kind, Stage
<1>3. c.kind = "none" /\ c.at = "none"
  OBVIOUS
<1> HIDE DEF c
<1>4. call[t].row.pending \in 0 .. fresh
  BY <1>1 DEF CallTo, RowTo
<1>5. ASSUME Ends(t), UNCHANGED <<secrets, cookies, csrf, wasOff, faults>>, Pages',
             \A u \in Tab \ {t} : page'[u] = page[u]
      PROVE  Typed'
  <2>1. TypedTabs'
    BY <1>5 DEF Typed, TypedTabs, Pages, cookies
  <2>2. TypedSecrets'
    <3>1. call' \in [Tab -> CallTo(fresh)]
      BY <1>2, <1>5 DEF Becomes, Typed, TypedSecrets
    <3> QED
      BY <1>5, <3>1 DEF Typed, TypedSecrets, Pages, secrets, RowTo, CallTo
  <2>3. Within'
    BY <1>2, <1>3, <1>5, NoMore DEF Typed, secrets, cookies
  <2>4. Outside'
    <3>1. Logins' \subseteq Logins \ {t}
      BY <1>2, <1>3, <1>5 DEF Becomes, Typed, TypedSecrets, Logins
    <3> QED
      BY <1>5, <3>1, OutsideKept
  <2> QED
    BY <2>1, <2>2, <2>3, <2>4 DEF Typed
<1>6. Pages /\ opened \in Nat
  BY DEF Typed, TypedTabs, TypedSecrets, Pages
<1>7. ASSUME Challenged(t) PROVE Typed'
  <2>1. page[t] # "admin"
    BY <1>7 DEF Challenged, Typed, Within, Outside
  <2>2. Pages'
    BY <1>6, <1>7, <2>1 DEF Challenged, Pages, secrets, cookies
  <2> QED
    BY <1>5, <1>6, <1>7, <2>2 DEF Challenged, Pages
<1>8. ASSUME Failed(t) PROVE Typed'
  BY <1>5, <1>6, <1>8 DEF Failed, Pages, secrets, cookies, tabs
<1>9. ASSUME TwoFactorStarted(t) PROVE Typed'
  BY <1>4, <1>5, <1>6, <1>9 DEF TwoFactorStarted, Pages, secrets, cookies
<1>10. ASSUME NEW kind, NEW on \in BOOLEAN, Settled(t, kind, on) PROVE Typed'
  <2>1. setup' = [setup EXCEPT ![t] = None] /\ shown' = [shown EXCEPT ![t] = on] /\ Ends(t)
        /\ UNCHANGED <<secrets, cookies, csrf, page, wasOff, faults>>
    BY <1>10 DEF Settled, State
  <2>2. Pages'
    BY <1>1, <1>6, <2>1 DEF Pages, secrets, cookies, None
  <2> QED
    BY <1>5, <2>1, <2>2
<1>11. TwoFactorConfirmed(t) \/ TwoFactorDisabled(t) => Typed'
  BY <1>10 DEF TwoFactorConfirmed, TwoFactorDisabled
<1> QED
  BY <1>7, <1>8, <1>9, <1>11

(* A confirmation stores the secret it has read; a disabling clears the row. *)
LEMMA RowWritten ==
  ASSUME Typed, NEW t \in Tab, ConfirmWrite(t) \/ DisableWrite(t)
  PROVE  Typed'
<1>1. fresh \in Nat /\ call[t] \in CallTo(fresh) /\ admin \in RowTo(fresh)
  BY DEF Typed, TypedSecrets
<1>2. PICK at \in {"done", "failed"} : Goes(t, at)
  BY DEF ConfirmWrite, DisableWrite
<1> DEFINE c == [kind |-> call[t].kind, at |-> at, row |-> call[t].row]
<1>3. c \in CallTo(fresh) /\ Becomes(t, c)
  BY <1>1, <1>2, Steps DEF CallTo, Typed, Kind, Stage
<1>4. c.kind = call[t].kind /\ c.at \in {"done", "failed"}
  OBVIOUS
<1> HIDE DEF c
<1>5. UNCHANGED <<fresh, phone, cookies, tabs, faults>>
  BY DEF ConfirmWrite, DisableWrite
<1>6. wasOff' \in [Tab -> BOOLEAN]
  BY DEF ConfirmWrite, DisableWrite, Typed, TypedTabs
<1>7. admin' \in RowTo(fresh) /\ (admin'.enabled <=> admin'.active # None)
  <2>1. CASE ConfirmWrite(t)
    <3>1. CASE UNCHANGED admin
      BY <1>1, <3>1 DEF Typed, TypedSecrets
    <3>2. CASE admin' = [active |-> ConfirmStore(t), pending |-> None,
                         enabled |-> ConfirmStore(t) # None]
      <4>1. ConfirmStore(t) \in 0 .. fresh
        BY <1>1 DEF ConfirmStore, CallTo, RowTo
      <4>2. PICK on \in BOOLEAN : on = (ConfirmStore(t) # None)
        OBVIOUS
      <4>3. admin' = [active |-> ConfirmStore(t), pending |-> None, enabled |-> on]
        BY <3>2, <4>2
      <4>4. admin' \in RowTo(fresh)
        BY <1>1, <4>1, <4>3 DEF RowTo, None
      <4>5. admin'.enabled = on /\ admin'.active = ConfirmStore(t)
        BY <4>3
      <4> QED
        BY <4>2, <4>4, <4>5
    <3> QED
      BY <2>1, <3>1, <3>2 DEF ConfirmWrite
  <2>2. CASE DisableWrite(t)
    <3>1. CASE UNCHANGED admin
      BY <1>1, <3>1 DEF Typed, TypedSecrets
    <3>2. CASE admin' = Disabled
      BY <1>1, <3>2 DEF Disabled, Off, RowTo, None
    <3> QED
      BY <2>2, <3>1, <3>2 DEF DisableWrite
  <2> QED
    BY <2>1, <2>2
<1>8. call' \in [Tab -> CallTo(fresh)]
  BY <1>3 DEF Becomes, Typed, TypedSecrets
<1>9. TypedSecrets'
  BY <1>1, <1>5, <1>7, <1>8 DEF Typed, TypedSecrets, tabs, RowTo, CallTo
<1>10. TypedTabs'
  BY <1>5, <1>6 DEF Typed, TypedTabs, cookies, tabs
<1>11. Within'
  BY <1>3, <1>4, <1>5, NoMore DEF Typed, Logins, cookies
<1>12. Outside'
  BY <1>3, <1>4, <1>5 DEF Becomes, Typed, TypedSecrets, Logins, Outside, tabs
<1> QED
  BY <1>9, <1>10, <1>11, <1>12 DEF Typed

(* What the browser does by itself. *)
LEMMA BrowserSteps ==
  ASSUME Typed, NEW t \in Tab, BackToPassword(t) \/ Scan(t) \/ LoadTwoFactor(t)
  PROVE  Typed'
<1>1. UNCHANGED <<admin, fresh, cookies, csrf, call, setup, wasOff, faults>>
  BY DEF BackToPassword, Scan, LoadTwoFactor, secrets, tabs
<1>2. phone' \subseteq 1 .. fresh
  <2>1. CanConfirm(t) => setup[t] \in 1 .. fresh
    BY DEF CanConfirm, None, Typed, TypedSecrets
  <2>2. phone \subseteq 1 .. fresh
    BY DEF Typed, TypedSecrets
  <2> QED
    BY <2>1, <2>2 DEF BackToPassword, Scan, LoadTwoFactor, secrets
<1>3. /\ page' \in [Tab -> {"login", "challenge", "admin"}]
      /\ \A u \in Tab : page'[u] = "admin" <=> csrf'[u] # None
      /\ \A u \in Tab : page'[u] = "admin" => page[u] = "admin"
  BY <1>1 DEF BackToPassword, LoginForm, Scan, LoadTwoFactor, tabs, Typed, TypedTabs
<1>4. shown' \in [Tab -> BOOLEAN]
  <2>1. shown \in [Tab -> BOOLEAN] /\ admin.enabled \in BOOLEAN
    BY DEF Typed, TypedTabs, TypedSecrets, RowTo
  <2>2. UNCHANGED shown \/ shown' = [shown EXCEPT ![t] = admin.enabled]
    BY DEF BackToPassword, Scan, LoadTwoFactor, State, tabs
  <2> QED
    BY <2>1, <2>2
<1>5. TypedSecrets'
  BY <1>1, <1>2 DEF Typed, TypedSecrets, RowTo, CallTo
<1>6. TypedTabs'
  BY <1>1, <1>3, <1>4 DEF Typed, TypedTabs, cookies
<1>7. Within' /\ Outside'
  BY <1>1, <1>3, CallsStay DEF Typed, Outside, Logins, cookies
<1> QED
  BY <1>5, <1>6, <1>7 DEF Typed

(* A restart fails what is under way; a session lapses. *)
LEMMA FaultSteps ==
  ASSUME Typed, Restart \/ Lapse \/ UNCHANGED vars
  PROVE  Typed'
<1>1. UNCHANGED <<admin, fresh, phone, opened, tabs, wasOff>>
  BY DEF Restart, Lapse, vars, secrets, cookies, destroySession
<1>2. opened \in Nat /\ jar' \in 0 .. opened /\ faults' \in 0 .. MaxFaults
  BY BoundAssumption DEF Restart, Lapse, vars, cookies, destroySession, None, Fault, Typed, TypedTabs
<1>3. TypedTabs'
  BY <1>1, <1>2 DEF Typed, TypedTabs, tabs
<1>4. CASE Lapse \/ UNCHANGED vars
  <2>1. UNCHANGED call
    BY <1>4 DEF Lapse, vars
  <2>2. TypedSecrets'
    BY <1>1, <2>1 DEF Typed, TypedSecrets, tabs, RowTo, CallTo
  <2> QED
    BY <1>1, <1>3, <2>1, <2>2, CallsStay DEF Typed, Outside, Logins, tabs
<1>5. CASE Restart
  <2>1. ASSUME NEW u \in Tab
        PROVE  /\ call'[u] \in CallTo(fresh) /\ call'[u].kind = call[u].kind
               /\ call'[u].at = call[u].at \/ call'[u].at = "failed"
               /\ ~(call'[u].kind = "start" /\ call'[u].at = "sent")
    <3>1. call[u] \in CallTo(fresh)
      BY DEF Typed, TypedSecrets
    <3>2. PICK r : r = [call[u] EXCEPT !.at = "failed"]
      OBVIOUS
    <3>3. r = [kind |-> call[u].kind, at |-> "failed", row |-> call[u].row]
      BY <3>1, <3>2 DEF CallTo
    <3>4. r \in CallTo(fresh)
      BY <3>1, <3>3 DEF CallTo, Stage
    <3>5. call'[u] = IF call[u].at \in {"sent", "read", "written"} THEN r ELSE call[u]
      BY <1>5, <3>2 DEF Restart
    <3> QED
      BY <3>1, <3>3, <3>4, <3>5
  <2>2. call' \in [Tab -> CallTo(fresh)]
    <3>1. call' = [u \in Tab |-> call'[u]]
      BY <1>5 DEF Restart
    <3> QED
      BY <2>1, <3>1
  <2>3. TypedSecrets'
    BY <1>1, <2>2 DEF Typed, TypedSecrets, tabs, RowTo, CallTo
  <2>4. Logins' = Logins /\ Starts' \subseteq Starts
    BY <2>1 DEF Logins, Starts, In
  <2>5. /\ Cardinality(Starts) \in Nat /\ Cardinality(Starts') \in Nat
        /\ Cardinality(Starts') <= Cardinality(Starts)
    BY <2>4, FewTabs, Counted
  <2>6. fresh \in Nat /\ fresh' = fresh /\ opened' = opened
    BY <1>1 DEF Typed, TypedSecrets
  <2>7. \A u \in Tab : call'[u].at \in {"session", "token"} => u \in Logins'
    BY <2>1, <2>4 DEF Typed, Within
  <2>8. Within'
    BY <2>4, <2>5, <2>6, <2>7, BoundAssumption DEF Typed, Within
  <2>9. Outside'
    BY <1>1, <2>4 DEF Typed, Outside, tabs
  <2> QED
    BY <1>3, <2>3, <2>8, <2>9 DEF Typed
<1> QED
  BY <1>4, <1>5

(* Every row, cookie, page and request is of its type, within the bounds,   *)
(* and 2FA counts as on exactly when a secret is stored for it.             *)
THEOREM TypeCorrect == Spec => []TypeOK
<1>1. Init => Typed
  <2> SUFFICES ASSUME Init PROVE Typed
    OBVIOUS
  <2>1. TypedSecrets
    BY NoCallTyped DEF Init, TypedSecrets, Off, None
  <2>2. TypedTabs
    BY BoundAssumption DEF Init, TypedTabs, None
  <2>3. Logins = {} /\ Starts = {}
    BY DEF Init, Logins, Starts, In, NoCall
  <2>4. Within
    BY <2>3, FS_EmptySet, BoundAssumption DEF Init, Within, NoCall
  <2> QED
    BY <2>1, <2>2, <2>3, <2>4 DEF Typed, Outside
<1>2. Typed /\ [Next]_vars => Typed'
  <2> SUFFICES ASSUME Typed, [Next]_vars PROVE Typed'
    OBVIOUS
  <2>1. CASE Restart \/ Lapse \/ UNCHANGED vars
    BY <2>1, FaultSteps
  <2>2. CASE \E t \in Tab : Visit(t) \/ VisitLogin(t) \/ Logout(t)
    BY <2>2, PageSteps
  <2>3. CASE \E t \in Tab : SubmitPassword(t) \/ SubmitCode(t)
    BY <2>3, LoginSent
  <2>4. CASE \E t \in Tab : StartTwoFactor(t)
    BY <2>4, StartSent
  <2>5. CASE \E t \in Tab : StartWrite(t)
    BY <2>5, SecretWritten
  <2>6. CASE \E t \in Tab : LoggedIn(t)
    BY <2>6, SessionOpened
  <2>7. CASE \E t \in Tab : \/ LoginRead(t) \/ LoginDecide(t) \/ CodeDecide(t)
                            \/ StartAnswer(t) \/ ConfirmRead(t) \/ AnswerLost(t)
                            \/ ConfirmTwoFactor(t) \/ DisableTwoFactor(t)
    BY <2>7, RequestsGoOn
  <2>8. CASE \E t \in Tab : \/ Challenged(t) \/ Failed(t)
                            \/ TwoFactorStarted(t) \/ TwoFactorConfirmed(t) \/ TwoFactorDisabled(t)
    BY <2>8, RequestsEnd
  <2>9. CASE \E t \in Tab : ConfirmWrite(t) \/ DisableWrite(t)
    BY <2>9, RowWritten
  <2>10. CASE \E t \in Tab : BackToPassword(t) \/ Scan(t) \/ LoadTwoFactor(t)
    BY <2>10, BrowserSteps
  <2> QED
    BY <2>1, <2>2, <2>3, <2>4, <2>5, <2>6, <2>7, <2>8, <2>9, <2>10 DEF Next
<1>3. Typed => TypeOK
  <2> SUFFICES ASSUME Typed PROVE TypeOK
    OBVIOUS
  <2>1. fresh \in 0 .. MaxSecrets /\ opened \in 0 .. MaxSessions
    <3>1. Cardinality(Logins) \in Nat /\ Cardinality(Starts) \in Nat
      BY FewTabs, FS_CardinalityType
    <3> QED
      BY <3>1, BoundAssumption DEF Typed, TypedSecrets, TypedTabs, Within
  <2>2. RowTo(fresh) \subseteq Row
    <3>1. 0 .. fresh \subseteq Secret \union {None}
      BY <2>1, BoundAssumption DEF Secret, None
    <3> QED
      BY <3>1 DEF RowTo, Row
  <2>3. call \in [Tab -> [kind : Kind, at : Stage, row : Row]]
    BY <2>2 DEF Typed, TypedSecrets, CallTo
  <2>4. admin \in Row /\ admin.active <= fresh /\ admin.pending <= fresh
    BY <2>2 DEF Typed, TypedSecrets, RowTo
  <2> QED
    BY <2>1, <2>3, <2>4 DEF Typed, TypedSecrets, TypedTabs, TypeOK
<1> QED
  BY <1>1, <1>2, <1>3, PTL DEF Spec

-----------------------------------------------------------------------------
(* The articles *)

USE SeedAssumption

(* The starters, and the rows a seed works on: their ids may pass the bound, *)
(* which is looked at when it is over.                                       *)
Starter == {Site!AndroidRow, Site!IphoneRow, Site!WindowsRow, Site!MacosRow, Site!FaqRow}
ArticleRow == [id : Nat \ {0}, slug : Site!Slugs, status : Site!Status, body : Site!Body,
               key : Seeded \union {Site!None}, rev : 0 .. 1]
Legacy(k) == Site!primaryLegacySlugsBySeedKey[k]

(* Ids, slugs and seed keys are unique, ids are below the next one, and an  *)
(* article has the current revision exactly when it has a key.              *)
Distinct(rows) ==
  \A a, b \in rows :
    a.id = b.id \/ a.slug = b.slug \/ (a.key = b.key /\ a.key # Site!None) => a = b
Revised(rows) == \A a \in rows : a.rev = 1 <=> a.key # Site!None
Sound(rows, next) ==
  /\ rows \subseteq ArticleRow /\ next \in Nat \ {0}
  /\ \A a \in rows : a.id < next
  /\ Distinct(rows) /\ Revised(rows)

(* The seed finds a current article for the key and leaves it alone. *)
Current(rows, k) == \E a \in Site!FindStarter(rows, k) : a.rev = 1

-----------------------------------------------------------------------------
(* A legacy slug belongs to one starter, and is no starter's slug. *)
LEMMA LegacySlugs ==
  ASSUME NEW k \in Site!canonicalArticleSlugs
  PROVE  /\ \A s, t \in Legacy(k) : s = t
         /\ Legacy(k) \intersect Site!canonicalArticleSlugs = {}
         /\ \A l \in Site!canonicalArticleSlugs : l # k => Legacy(k) \intersect Legacy(l) = {}
<1>1. /\ Legacy("android-happ") = {"android-happ-kak-podklyuchit-vpn"}
      /\ Legacy("iphone-happ") = {"iphone-ipad-happ-kak-podklyuchit-vpn"}
      /\ Legacy("windows-fclashx") = {"windows-fclashx-kak-podklyuchit-vpn"}
      /\ Legacy("macos-fclashx") = {"macos-fclashx-kak-podklyuchit-vpn"}
      /\ Legacy("faq") = {}
  BY DEF Legacy, Site!primaryLegacySlugsBySeedKey, Site!canonicalArticleSlugs
<1>2. k \in {"android-happ", "iphone-happ", "windows-fclashx", "macos-fclashx", "faq"}
  BY DEF Site!canonicalArticleSlugs
<1> DEFINE Key == {"android-happ", "iphone-happ", "windows-fclashx", "macos-fclashx", "faq"}
<1>3. \A l \in Key : \A s \in Legacy(l) : s \notin Key
  BY <1>1
<1>4. \A l \in Key : \A s, t \in Legacy(l) : s = t
  BY <1>1
<1>5. \A l, m \in Key : l # m => Legacy(l) \intersect Legacy(m) = {}
  BY <1>1
<1> QED
  BY <1>2, <1>3, <1>4, <1>5 DEF Site!canonicalArticleSlugs

(* What the starters are made of. *)
LEMMA StarterSlugs ==
  ASSUME NEW row \in Starter
  PROVE  /\ row.slug \in Site!canonicalArticleSlugs
         /\ row.status \in Site!Status /\ row.body \in Site!Body
<1>1. /\ Site!AndroidRow.slug = "android-happ" /\ Site!IphoneRow.slug = "iphone-happ"
      /\ Site!WindowsRow.slug = "windows-fclashx" /\ Site!MacosRow.slug = "macos-fclashx"
      /\ Site!FaqRow.slug = "faq"
  BY DEF Site!AndroidRow, Site!IphoneRow, Site!WindowsRow, Site!MacosRow, Site!FaqRow
<1>2. \A r \in Starter : r.status = "published" /\ r.body = "seed"
  BY DEF Starter, Site!AndroidRow, Site!IphoneRow, Site!WindowsRow, Site!MacosRow, Site!FaqRow
<1>3. row.slug \in Site!canonicalArticleSlugs
  BY <1>1 DEF Starter, Site!canonicalArticleSlugs
<1> QED
  BY <1>2, <1>3 DEF Site!Status, Site!Body

(* No starter is called "none". *)
LEMMA NoStarterNone ==
  Site!None \notin Seeded
BY SeedAssumption DEF Site!None, Site!canonicalArticleSlugs

(* What findStarterArticle finds: at most one article, by key, else by slug, *)
(* else by legacy slug.                                                      *)
LEMMA Finds ==
  ASSUME NEW k \in Seeded,
         NEW rows, Distinct(rows)
  PROVE  /\ Site!FindStarter(rows, k) \subseteq rows
         /\ \A a, b \in Site!FindStarter(rows, k) : a = b
         /\ \A a \in Site!FindStarter(rows, k) :
              a.key = k \/ a.slug = k
                \/ (a.slug \in Legacy(k) /\ \A b \in rows : b.slug # k)
         /\ \A a \in Site!FindStarter(rows, k) :
              a.key # k => \A b \in rows : b.key # k
         /\ Site!FindStarter(rows, k) = {} => \A b \in rows : b.key # k /\ b.slug # k
<1>1. \A s, t \in Legacy(k) : s = t
  BY LegacySlugs
<1>2. k # Site!None
  BY NoStarterNone
<1> DEFINE byKey == {a \in rows : a.key = k}
           bySlug == {a \in rows : a.slug = k}
           legacy == {a \in rows : a.slug \in Legacy(k)}
<1>3. Site!FindStarter(rows, k) = IF byKey # {} THEN byKey ELSE IF bySlug # {} THEN bySlug ELSE legacy
  BY DEF Site!FindStarter, Legacy
<1>4. CASE byKey # {}
  BY <1>2, <1>3, <1>4 DEF Distinct
<1>5. CASE byKey = {} /\ bySlug # {}
  BY <1>3, <1>5 DEF Distinct
<1>6. CASE byKey = {} /\ bySlug = {}
  BY <1>1, <1>3, <1>6 DEF Distinct
<1> QED
  BY <1>4, <1>5, <1>6

(* The first of at most one. *)
LEMMA FirstIsFound ==
  ASSUME NEW found, found # {}, \A a, b \in found : a = b, \A a \in found : a.id \in Nat
  PROVE  Site!First(found) \in found
<1>1. PICK a \in found : TRUE
  OBVIOUS
<1>2. \A b \in found : a.id <= b.id
  BY <1>1
<1> QED
  BY <1>1, <1>2 DEF Site!First

-----------------------------------------------------------------------------
(* The seed, one starter at a time *)

(* What seeding a starter brings about, and what it keeps. *)
Brings(rows, now, next, k) ==
  /\ Sound(now, next)
  /\ \A a \in rows : a.rev = 1 => a \in now
  /\ k \in Seeded => Current(now, k)
  /\ \A l \in Seeded : Current(rows, l) => Current(now, l)

(* An article with the key, the slug and the current revision of a starter  *)
(* takes the place of those (none or one) that the seed has found outdated. *)
Replaces(rows, old, new, k) ==
  /\ \A a \in old : a.rev # 1
  /\ \A a \in rows \ old : a.slug # k /\ a.id # new.id
  /\ \A a \in rows : a.key # k
  /\ new \in ArticleRow /\ new.slug = k /\ new.key = k /\ new.rev = 1

(* Such a replacement brings the starter about and keeps the others. *)
LEMMA Takes ==
  ASSUME NEW k \in Seeded,
         NEW rows, NEW next, Sound(rows, next),
         NEW old \in SUBSET rows, NEW new, Replaces(rows, old, new, k),
         NEW onward \in Nat, next <= onward, new.id < onward
  PROVE  Brings(rows, (rows \ old) \union {new}, onward, k)
<1> DEFINE now == (rows \ old) \union {new}
<1> USE DEF Replaces
<1>1. k # Site!None
  BY NoStarterNone
<1>2. \A a \in now : a \in rows \/ a = new
  OBVIOUS
<1>3. now \subseteq ArticleRow
  BY <1>2 DEF Sound
<1>4. \A a \in now : a.id < onward
  <2> SUFFICES ASSUME NEW a \in rows PROVE a.id < onward
    BY <1>2
  <2>1. a.id \in Nat /\ a.id < next /\ next \in Nat
    BY DEF Sound, ArticleRow
  <2> QED
    BY <2>1
<1>5. Distinct(now)
  <2>1. \A a \in rows \ old : a.id # new.id /\ a.slug # new.slug /\ a.key # new.key
    OBVIOUS
  <2> QED
    BY <2>1 DEF Sound, Distinct
<1>6. Revised(now)
  BY <1>1, <1>2 DEF Sound, Revised
<1>7. onward \in Nat \ {0}
  <2>1. new.id \in Nat
    BY DEF ArticleRow
  <2> QED
    BY <2>1
<1>8. \A a \in rows : a.rev = 1 => a \in now
  OBVIOUS
<1>9. Current(now, k)
  <2>1. new \in {a \in now : a.key = k}
    OBVIOUS
  <2> QED
    BY <2>1 DEF Current, Site!FindStarter
<1>10. ASSUME NEW l \in Seeded, l # k, Current(rows, l) PROVE Current(now, l)
  <2>1. PICK a \in Site!FindStarter(rows, l) : a.rev = 1
    BY <1>10 DEF Current
  <2>2. a \in rows
    BY <2>1, Finds DEF Sound
  <2>3. a \in now
    BY <1>8, <2>1, <2>2
  <2>4. new \notin {b \in now : b.key = l} /\ new \notin {b \in now : b.slug = l}
    BY <1>10
  <2>5. CASE {b \in rows : b.key = l} # {}
    <3>1. a.key = l
      BY <2>1, <2>5 DEF Site!FindStarter
    <3> QED
      BY <2>1, <2>3, <3>1 DEF Current, Site!FindStarter
  <2>6. CASE {b \in rows : b.key = l} = {} /\ {b \in rows : b.slug = l} # {}
    <3>1. a.slug = l
      BY <2>1, <2>6 DEF Site!FindStarter
    <3>2. {b \in now : b.key = l} = {}
      BY <2>4, <2>6
    <3> QED
      BY <2>1, <2>3, <3>1, <3>2 DEF Current, Site!FindStarter
  <2>7. CASE {b \in rows : b.key = l} = {} /\ {b \in rows : b.slug = l} = {}
    <3>1. a.slug \in Site!primaryLegacySlugsBySeedKey[l]
      BY <2>1, <2>7 DEF Site!FindStarter
    <3>2. {b \in now : b.key = l} = {} /\ {b \in now : b.slug = l} = {}
      BY <2>4, <2>7
    <3> QED
      BY <2>1, <2>3, <3>1, <3>2 DEF Current, Site!FindStarter
  <2> QED
    BY <2>5, <2>6, <2>7
<1> QED
  BY <1>3, <1>4, <1>5, <1>6, <1>7, <1>8, <1>9, <1>10 DEF Sound, Brings

(* One starter: found current, found outdated, or missing. *)
LEMMA SeedOneBrings ==
  ASSUME NEW row \in Starter, row.slug \in Seeded,
         NEW rows, NEW next, Sound(rows, next)
  PROVE  \E now, onward :
           /\ Site!SeedOne([rows |-> rows, next |-> next], row) = [rows |-> now, next |-> onward]
           /\ Brings(rows, now, onward, row.slug)
<1> DEFINE k == row.slug
           db == [rows |-> rows, next |-> next]
           found == Site!FindStarter(rows, k)
           starter == Site!First(found)
           done == Site!SeedOne(db, row)
           Fill(id, slug) == [id |-> id, slug |-> slug, status |-> row.status, body |-> row.body,
                              key |-> k, rev |-> 1]
<1>1. Distinct(rows) /\ rows \subseteq ArticleRow /\ next \in Nat \ {0}
  BY DEF Sound
<1>2. /\ found \subseteq rows
      /\ \A a, b \in found : a = b
      /\ \A a \in found : a.key = k \/ a.slug = k \/ (a.slug \in Legacy(k) /\ \A b \in rows : b.slug # k)
      /\ \A a \in found : a.key # k => \A b \in rows : b.key # k
      /\ found = {} => \A b \in rows : b.key # k /\ b.slug # k
  BY <1>1, Finds
<1>3. k \in Site!Slugs /\ row.status \in Site!Status /\ row.body \in Site!Body
  BY StarterSlugs DEF Site!Slugs
<1>4. \A id \in Nat \ {0} : Fill(id, k) \in ArticleRow
  BY <1>3 DEF ArticleRow
<1>5. CASE found = {}
  <2>1. done = [rows |-> rows \union {Fill(next, k)}, next |-> next + 1]
    BY <1>5 DEF Site!SeedOne, Site!CURRENT_SEED_REVISION
  <2>2. PICK new : new = Fill(next, k)
    OBVIOUS
  <2>3. new \in ArticleRow /\ new.id = next /\ new.slug = k /\ new.key = k /\ new.rev = 1
    BY <1>1, <1>4, <2>2
  <2>4. \A a \in rows : a.id \in Nat /\ a.id < next
    BY DEF Sound, ArticleRow
  <2>5. \A a \in rows : a.id # next
    BY <1>1, <2>4
  <2>6. next + 1 \in Nat /\ next <= next + 1 /\ next < next + 1
    BY <1>1
  <2>7. PICK old \in SUBSET rows : old = {}
    OBVIOUS
  <2>8. Replaces(rows, old, new, k)
    BY <1>2, <1>5, <2>3, <2>5, <2>7 DEF Replaces
  <2>9. Brings(rows, (rows \ old) \union {new}, next + 1, k)
    BY <2>3, <2>6, <2>8, Takes
  <2>10. (rows \ old) \union {new} = rows \union {Fill(next, k)}
    BY <2>2, <2>7
  <2> QED
    BY <2>1, <2>9, <2>10
<1>6. CASE found # {} /\ starter.rev = 1
  <2>1. starter \in found
    <3>1. \A a \in found : a.id \in Nat
      BY <1>1, <1>2 DEF ArticleRow
    <3> QED
      BY <1>2, <1>6, <3>1, FirstIsFound
  <2>2. done = db
    BY <1>6 DEF Site!SeedOne, Site!Outdated, Site!CURRENT_SEED_REVISION
  <2>3. Brings(rows, rows, next, k)
    BY <1>6, <2>1 DEF Brings, Current
  <2> QED
    BY <2>2, <2>3
<1>7. CASE found # {} /\ starter.rev # 1
  <2>1. starter \in found /\ starter \in rows
    <3>1. \A a \in found : a.id \in Nat
      BY <1>1, <1>2 DEF ArticleRow
    <3> QED
      BY <1>2, <1>7, <3>1, FirstIsFound
  <2>2. starter \in ArticleRow /\ starter.rev = 0 /\ starter.id \in Nat \ {0}
    BY <1>1, <1>7, <2>1 DEF ArticleRow
  <2>3. starter.key = Site!None
    BY <1>7, <2>1 DEF Sound, Revised
  <2>4. starter.key # k
    BY <2>3, NoStarterNone
  <2>5. starter.slug = k \/ (starter.slug \in Legacy(k) /\ \A b \in rows : b.slug # k)
    BY <1>2, <2>1, <2>4
  <2>6. done = [rows |-> (rows \ {starter}) \union {Fill(starter.id, k)}, next |-> next]
    <3>1. Site!Outdated(starter)
      BY <2>2 DEF Site!Outdated, Site!CURRENT_SEED_REVISION
    <3>2. starter.slug \in {k} \union Site!primaryLegacySlugsBySeedKey[k]
      BY <2>5 DEF Legacy
    <3>3. done = [db EXCEPT !.rows = (@ \ {starter}) \union {Fill(starter.id, k)}]
      BY <1>7, <3>1, <3>2 DEF Site!SeedOne, Site!CURRENT_SEED_REVISION
    <3> QED
      BY <3>3
  <2>7. PICK new : new = Fill(starter.id, k)
    OBVIOUS
  <2>8. new \in ArticleRow /\ new.id = starter.id /\ new.slug = k /\ new.key = k /\ new.rev = 1
    BY <1>4, <2>2, <2>7
  <2>9. PICK old \in SUBSET rows : old = {starter}
    BY <2>1
  <2>10. Replaces(rows, old, new, k)
    <3>1. \A a \in rows \ old : a.slug # k /\ a.id # new.id
      BY <1>1, <2>1, <2>5, <2>8, <2>9 DEF Distinct
    <3>2. \A a \in rows : a.key # k
      BY <1>2, <2>1, <2>4
    <3> QED
      BY <1>7, <2>8, <2>9, <3>1, <3>2 DEF Replaces
  <2>11. new.id < next /\ next \in Nat /\ next <= next
    BY <1>1, <2>1, <2>8 DEF Sound
  <2>12. Brings(rows, (rows \ old) \union {new}, next, k)
    BY <2>10, <2>11, Takes
  <2>13. (rows \ old) \union {new} = (rows \ {starter}) \union {Fill(starter.id, k)}
    BY <2>7, <2>9
  <2> QED
    BY <2>6, <2>12, <2>13
<1> QED
  BY <1>5, <1>6, <1>7

(* The same for a starter that may be outside the bound. *)
LEMMA SeedIfIncludedBrings ==
  ASSUME NEW row \in Starter,
         NEW rows, NEW next, Sound(rows, next)
  PROVE  \E now, onward :
           /\ Site!SeedIfIncluded([rows |-> rows, next |-> next], row) = [rows |-> now, next |-> onward]
           /\ Brings(rows, now, onward, row.slug)
<1>1. CASE row.slug \in Seeded
  BY <1>1, SeedOneBrings DEF Site!SeedIfIncluded
<1>2. CASE row.slug \notin Seeded
  BY <1>2 DEF Site!SeedIfIncluded, Brings
<1> QED
  BY <1>1, <1>2

(* All starters in turn: each is settled and stays so. *)
LEMMA InitialArticlesBring ==
  ASSUME NEW rows, NEW next, Sound(rows, next)
  PROVE  \E now, onward :
           /\ Site!InitialArticles([rows |-> rows, next |-> next]) = [rows |-> now, next |-> onward]
           /\ \A k \in Seeded : Brings(rows, now, onward, k)
           /\ Sound(now, onward) /\ \A a \in rows : a.rev = 1 => a \in now
<1> DEFINE S(db, row) == Site!SeedIfIncluded(db, row)
<1>1. PICK r1, n1 : /\ S([rows |-> rows, next |-> next], Site!AndroidRow) = [rows |-> r1, next |-> n1]
                    /\ Brings(rows, r1, n1, "android-happ")
  <2>1. Site!AndroidRow.slug = "android-happ" /\ Site!AndroidRow \in Starter
    BY DEF Site!AndroidRow, Starter
  <2> QED
    BY <2>1, SeedIfIncludedBrings
<1>2. PICK r2, n2 : /\ S([rows |-> r1, next |-> n1], Site!IphoneRow) = [rows |-> r2, next |-> n2]
                    /\ Brings(r1, r2, n2, "iphone-happ")
  <2>1. Site!IphoneRow.slug = "iphone-happ" /\ Site!IphoneRow \in Starter
    BY DEF Site!IphoneRow, Starter
  <2>2. Sound(r1, n1)
    BY <1>1 DEF Brings
  <2> QED
    BY <2>1, <2>2, SeedIfIncludedBrings
<1>3. PICK r3, n3 : /\ S([rows |-> r2, next |-> n2], Site!WindowsRow) = [rows |-> r3, next |-> n3]
                    /\ Brings(r2, r3, n3, "windows-fclashx")
  <2>1. Site!WindowsRow.slug = "windows-fclashx" /\ Site!WindowsRow \in Starter
    BY DEF Site!WindowsRow, Starter
  <2>2. Sound(r2, n2)
    BY <1>2 DEF Brings
  <2> QED
    BY <2>1, <2>2, SeedIfIncludedBrings
<1>4. PICK r4, n4 : /\ S([rows |-> r3, next |-> n3], Site!MacosRow) = [rows |-> r4, next |-> n4]
                    /\ Brings(r3, r4, n4, "macos-fclashx")
  <2>1. Site!MacosRow.slug = "macos-fclashx" /\ Site!MacosRow \in Starter
    BY DEF Site!MacosRow, Starter
  <2>2. Sound(r3, n3)
    BY <1>3 DEF Brings
  <2> QED
    BY <2>1, <2>2, SeedIfIncludedBrings
<1>5. PICK r5, n5 : /\ S([rows |-> r4, next |-> n4], Site!FaqRow) = [rows |-> r5, next |-> n5]
                    /\ Brings(r4, r5, n5, "faq")
  <2>1. Site!FaqRow.slug = "faq" /\ Site!FaqRow \in Starter
    BY DEF Site!FaqRow, Starter
  <2>2. Sound(r4, n4)
    BY <1>4 DEF Brings
  <2> QED
    BY <2>1, <2>2, SeedIfIncludedBrings
<1>6. Site!InitialArticles([rows |-> rows, next |-> next]) = [rows |-> r5, next |-> n5]
  BY <1>1, <1>2, <1>3, <1>4, <1>5 DEF Site!InitialArticles
<1>7. Sound(r5, n5) /\ \A a \in rows : a.rev = 1 => a \in r5
  BY <1>1, <1>2, <1>3, <1>4, <1>5 DEF Brings
<1>8. \A l \in Seeded : Current(rows, l) => Current(r5, l)
  BY <1>1, <1>2, <1>3, <1>4, <1>5 DEF Brings
<1>9. ASSUME NEW k \in Seeded PROVE Current(r5, k)
  <2>1. k \in {"android-happ", "iphone-happ", "windows-fclashx", "macos-fclashx", "faq"}
    BY DEF Site!canonicalArticleSlugs
  <2> QED
    BY <1>1, <1>2, <1>3, <1>4, <1>5, <2>1 DEF Brings
<1>10. \A k \in Seeded : Brings(rows, r5, n5, k)
  BY <1>7, <1>8, <1>9 DEF Brings
<1> QED
  BY <1>6, <1>7, <1>10

(* A starter that is settled is left alone. *)
LEMMA CurrentStays ==
  ASSUME NEW row \in Starter,
         NEW rows, NEW next, Sound(rows, next), row.slug \in Seeded => Current(rows, row.slug)
  PROVE  Site!SeedIfIncluded([rows |-> rows, next |-> next], row) = [rows |-> rows, next |-> next]
<1> DEFINE found == Site!FindStarter(rows, row.slug)
<1>1. CASE row.slug \in Seeded
  <2>1. PICK a \in found : a.rev = 1
    BY <1>1 DEF Current
  <2>2. found \subseteq rows /\ \A b, c \in found : b = c
    BY <1>1, Finds DEF Sound
  <2>3. \A b \in found : b.id \in Nat
    BY <2>2 DEF Sound, ArticleRow
  <2>4. Site!First(found) = a
    BY <2>1, <2>2, <2>3, FirstIsFound
  <2>5. ~Site!Outdated(Site!First(found))
    BY <2>1, <2>4 DEF Site!Outdated, Site!CURRENT_SEED_REVISION
  <2>6. Site!SeedOne([rows |-> rows, next |-> next], row) = [rows |-> rows, next |-> next]
    BY <2>1, <2>5 DEF Site!SeedOne
  <2> QED
    BY <1>1, <2>6 DEF Site!SeedIfIncluded
<1>2. CASE row.slug \notin Seeded
  BY <1>2 DEF Site!SeedIfIncluded
<1> QED
  BY <1>1, <1>2

(* Nothing is left to do for a table in which all are current. *)
LEMMA InitialArticlesStay ==
  ASSUME NEW rows, NEW next, Sound(rows, next),
         \A k \in Seeded : Current(rows, k)
  PROVE  Site!InitialArticles([rows |-> rows, next |-> next]) = [rows |-> rows, next |-> next]
<1>1. \A row \in Starter :
        Site!SeedIfIncluded([rows |-> rows, next |-> next], row) = [rows |-> rows, next |-> next]
  BY CurrentStays
<1> QED
  BY <1>1 DEF Site!InitialArticles, Starter

-----------------------------------------------------------------------------
(* Hiding the legacy slugs changes the status of their articles, no more. *)
Hidden(a) ==
  IF a.slug \in Site!legacySeedSlugs \ Site!canonicalArticleSlugs THEN [a EXCEPT !.status = "draft"] ELSE a

(* Hiding keeps everything but the status, and twice is once. *)
LEMMA HiddenSame ==
  ASSUME NEW a \in ArticleRow
  PROVE  /\ Hidden(a) \in ArticleRow
         /\ Hidden(a).id = a.id /\ Hidden(a).slug = a.slug /\ Hidden(a).body = a.body
         /\ Hidden(a).key = a.key /\ Hidden(a).rev = a.rev
         /\ Hidden(Hidden(a)) = Hidden(a)
         /\ a.slug \notin Site!legacySeedSlugs => Hidden(a) = a
<1>1. CASE a.slug \in Site!legacySeedSlugs \ Site!canonicalArticleSlugs
  <2>1. PICK h : h = [a EXCEPT !.status = "draft"]
    OBVIOUS
  <2>2. Hidden(a) = h
    BY <1>1, <2>1 DEF Hidden
  <2>3. h \in ArticleRow /\ h.id = a.id /\ h.slug = a.slug /\ h.body = a.body /\ h.key = a.key /\ h.rev = a.rev
    BY <2>1 DEF ArticleRow, Site!Status
  <2>4. h.status = "draft"
    BY <2>1 DEF ArticleRow
  <2>5. [h EXCEPT !.status = "draft"] = h
    BY <2>3, <2>4 DEF ArticleRow
  <2>6. Hidden(h) = h
    BY <1>1, <2>3, <2>5 DEF Hidden
  <2> QED
    BY <1>1, <2>2, <2>3, <2>6
<1>2. CASE a.slug \notin Site!legacySeedSlugs \ Site!canonicalArticleSlugs
  BY <1>2 DEF Hidden
<1> QED
  BY <1>1, <1>2

(* A hidden table is as sound as before. *)
LEMMA HidesSound ==
  ASSUME NEW rows, NEW next, Sound(rows, next)
  PROVE  /\ Site!HideLegacy(rows) = {Hidden(a) : a \in rows}
         /\ Sound(Site!HideLegacy(rows), next)
         /\ Site!HideLegacy(Site!HideLegacy(rows)) = Site!HideLegacy(rows)
<1>1. \A T : Site!HideLegacy(T) = {Hidden(a) : a \in T}
  BY DEF Site!HideLegacy, Hidden
<1> DEFINE now == {Hidden(a) : a \in rows}
<1>2. \A a \in rows : a \in ArticleRow
  BY DEF Sound
<1>3. Sound(now, next)
  <2>1. now \subseteq ArticleRow
    BY <1>2, HiddenSame
  <2>2. \A h \in now : h.id < next
    BY <1>2, HiddenSame DEF Sound
  <2>3. Distinct(now)
    <3> SUFFICES ASSUME NEW a \in rows, NEW b \in rows,
                        LET g == Hidden(a)  h == Hidden(b)
                        IN  g.id = h.id \/ g.slug = h.slug \/ (g.key = h.key /\ g.key # Site!None)
                 PROVE  Hidden(a) = Hidden(b)
      BY DEF Distinct
    <3>1. a = b
      BY <1>2, HiddenSame DEF Sound, Distinct
    <3> QED
      BY <3>1
  <2>4. Revised(now)
    BY <1>2, HiddenSame DEF Sound, Revised
  <2> QED
    BY <2>1, <2>2, <2>3, <2>4 DEF Sound
<1>4. {Hidden(h) : h \in now} = now
  <2>1. \A h \in now : Hidden(h) = h
    BY <1>2, HiddenSame
  <2> QED
    BY <2>1
<1> QED
  BY <1>1, <1>3, <1>4

(* The seed finds the same articles in it. *)
LEMMA HidesCurrent ==
  ASSUME NEW rows, NEW next, Sound(rows, next), NEW k \in Seeded, Current(rows, k)
  PROVE  Current(Site!HideLegacy(rows), k)
<1> DEFINE now == {Hidden(a) : a \in rows}
<1>1. Site!HideLegacy(rows) = now
  BY HidesSound
<1>2. \A a \in rows : a \in ArticleRow
  BY DEF Sound
<1>3. \A a \in rows : Hidden(a).key = a.key /\ Hidden(a).slug = a.slug /\ Hidden(a).rev = a.rev
  BY <1>2, HiddenSame
<1>4. PICK a \in Site!FindStarter(rows, k) : a.rev = 1
  BY DEF Current
<1> DEFINE L == Site!primaryLegacySlugsBySeedKey[k]
<1>5. Site!FindStarter(rows, k) =
        IF {b \in rows : b.key = k} # {} THEN {b \in rows : b.key = k}
        ELSE IF {b \in rows : b.slug = k} # {} THEN {b \in rows : b.slug = k}
        ELSE {b \in rows : b.slug \in L}
  BY DEF Site!FindStarter
<1>6. Site!FindStarter(now, k) =
        IF {b \in now : b.key = k} # {} THEN {b \in now : b.key = k}
        ELSE IF {b \in now : b.slug = k} # {} THEN {b \in now : b.slug = k}
        ELSE {b \in now : b.slug \in L}
  BY DEF Site!FindStarter
<1> HIDE DEF L
<1>7. /\ {b \in rows : b.key = k} = {} <=> {b \in now : b.key = k} = {}
      /\ {b \in rows : b.slug = k} = {} <=> {b \in now : b.slug = k} = {}
  BY <1>3
<1>8. a \in rows /\ Hidden(a) \in now
  BY <1>4, <1>5
<1>9. Hidden(a) \in Site!FindStarter(now, k)
  BY <1>3, <1>4, <1>5, <1>6, <1>7, <1>8
<1>10. Hidden(a).rev = 1
  BY <1>3, <1>4, <1>8
<1> QED
  BY <1>1, <1>9, <1>10 DEF Current

(* A whole seed. *)
LEMMA Seeds ==
  ASSUME NEW rows, NEW next, Sound(rows, next)
  PROVE  \E now, onward :
           /\ Site!Seed(rows, next) = [rows |-> now, next |-> onward]
           /\ Sound(now, onward)
           /\ Site!Seed(now, onward) = [rows |-> now, next |-> onward]
           /\ \A a \in rows : a.rev = 1 /\ a.slug \notin Site!legacySeedSlugs => a \in now
<1>1. PICK merged, onward :
        /\ Site!InitialArticles([rows |-> rows, next |-> next]) = [rows |-> merged, next |-> onward]
        /\ \A k \in Seeded : Brings(rows, merged, onward, k)
        /\ Sound(merged, onward) /\ \A a \in rows : a.rev = 1 => a \in merged
  BY InitialArticlesBring
<1>2. PICK now : now = Site!HideLegacy(merged)
  OBVIOUS
<1>3. Site!Seed(rows, next) = [rows |-> now, next |-> onward]
  BY <1>1, <1>2 DEF Site!Seed
<1>4. now = {Hidden(a) : a \in merged} /\ Sound(now, onward) /\ Site!HideLegacy(now) = now
  BY <1>1, <1>2, HidesSound
<1>5. \A k \in Seeded : Current(now, k)
  BY <1>1, <1>2, HidesCurrent DEF Brings
<1>6. Site!InitialArticles([rows |-> now, next |-> onward]) = [rows |-> now, next |-> onward]
  BY <1>4, <1>5, InitialArticlesStay
<1>7. Site!Seed(now, onward) = [rows |-> now, next |-> onward]
  BY <1>4, <1>6 DEF Site!Seed
<1>8. ASSUME NEW a \in rows, a.rev = 1, a.slug \notin Site!legacySeedSlugs PROVE a \in now
  <2>1. a \in merged /\ a \in ArticleRow
    BY <1>1, <1>8 DEF Sound
  <2> QED
    BY <1>4, <1>8, <2>1, HiddenSame
<1> QED
  BY <1>3, <1>4, <1>7, <1>8

-----------------------------------------------------------------------------
(* What the routes write *)

Fields(f) == f.slug \in Site!Slugs /\ f.status \in Site!Status /\ f.body \in Site!Body

(* Deleting keeps a table sound. *)
LEMMA FewerSound ==
  ASSUME NEW rows, NEW next, Sound(rows, next), NEW some \in SUBSET rows
  PROVE  Sound(some, next)
BY DEF Sound, Distinct, Revised

(* So does inserting an article with a free slug. *)
LEMMA CreatedSound ==
  ASSUME NEW rows, NEW next, Sound(rows, next),
         NEW f, Fields(f), \A a \in rows : a.slug # f.slug
  PROVE  Sound(Site!Created(next, f, rows), next + 1)
<1>1. PICK new : new = [id |-> next, slug |-> f.slug, status |-> f.status, body |-> f.body,
                        key |-> Site!None, rev |-> 0]
  OBVIOUS
<1>2. next \in Nat \ {0}
  BY DEF Sound
<1>3. new \in ArticleRow /\ new.id = next /\ new.slug = f.slug /\ new.key = Site!None /\ new.rev = 0
  BY <1>1, <1>2 DEF Fields, ArticleRow
<1>4. Site!Created(next, f, rows) = rows \union {new}
  BY <1>1 DEF Site!Created
<1>5. \A a \in rows : a.id \in Nat /\ a.id < next
  BY DEF Sound, ArticleRow
<1>6. \A a \in rows : a.id # next /\ a.id < next + 1
  BY <1>2, <1>5
<1>7. next + 1 \in Nat \ {0} /\ next < next + 1
  BY <1>2
<1>8. Distinct(rows \union {new})
  BY <1>3, <1>6 DEF Sound, Distinct
<1>9. Revised(rows \union {new})
  BY <1>3 DEF Sound, Revised
<1>10. rows \union {new} \subseteq ArticleRow /\ \A a \in rows \union {new} : a.id < next + 1
  BY <1>3, <1>6, <1>7 DEF Sound
<1> QED
  BY <1>4, <1>7, <1>8, <1>9, <1>10 DEF Sound

(* So does writing one, with a slug nobody else has. *)
LEMMA UpdatedSound ==
  ASSUME NEW rows, NEW next, Sound(rows, next), NEW id, NEW f, Fields(f),
         \A a \in rows : a.slug = f.slug => a.id = id
  PROVE  Sound(Site!Updated(id, f, rows), next)
<1> DEFINE New(a) == IF a.id = id THEN [a EXCEPT !.slug = f.slug, !.status = f.status, !.body = f.body]
                                  ELSE a
           now == {New(a) : a \in rows}
<1>1. Site!Updated(id, f, rows) = now
  BY DEF Site!Updated
<1>2. ASSUME NEW a \in rows
      PROVE  /\ New(a) \in ArticleRow /\ New(a).id = a.id /\ New(a).key = a.key /\ New(a).rev = a.rev
             /\ New(a).slug = IF a.id = id THEN f.slug ELSE a.slug
  <2>1. a \in ArticleRow
    BY DEF Sound
  <2>2. CASE a.id = id
    <3>1. PICK h : h = [a EXCEPT !.slug = f.slug, !.status = f.status, !.body = f.body]
      OBVIOUS
    <3>2. h \in ArticleRow /\ h.id = a.id /\ h.key = a.key /\ h.rev = a.rev /\ h.slug = f.slug
      BY <2>1, <3>1 DEF ArticleRow, Fields
    <3> QED
      BY <2>2, <3>1, <3>2
  <2>3. CASE a.id # id
    BY <2>1, <2>3
  <2> QED
    BY <2>2, <2>3
<1> HIDE DEF New
<1>3. now \subseteq ArticleRow /\ \A h \in now : h.id < next
  BY <1>2 DEF Sound
<1>4. Distinct(now)
  <2> SUFFICES ASSUME NEW a \in rows, NEW b \in rows,
                      \/ New(a).id = New(b).id
                      \/ New(a).slug = New(b).slug
                      \/ New(a).key = New(b).key /\ New(a).key # Site!None
               PROVE  New(a) = New(b)
    BY DEF Distinct
  <2>1. a = b
    BY <1>2 DEF Sound, Distinct
  <2> QED
    BY <2>1
<1>5. Revised(now)
  BY <1>2 DEF Sound, Revised
<1> QED
  BY <1>1, <1>3, <1>4, <1>5 DEF Sound

(* The cardinality that DocsSite speaks of is that of the library. *)
LEMMA SameCardinality == ASSUME NEW S PROVE Site!Cardinality(S) = Cardinality(S)
BY DEF Site!Cardinality, Cardinality

(* What an older release may have left behind. *)
LEMMA OldDatabaseSound ==
  ASSUME IsFiniteSet(OldSlugs),
         NEW slugs \in SUBSET (OldSlugs \union Seeded)
  PROVE  /\ Sound(Site!OldDatabase(slugs), Cardinality(slugs) + 1)
         /\ Cardinality(slugs) <= Cardinality(OldSlugs \union Seeded)
         /\ Cardinality(slugs) \in Nat /\ Cardinality(OldSlugs \union Seeded) \in Nat
<1>1. IsFiniteSet({"android-happ", "iphone-happ", "windows-fclashx", "macos-fclashx", "faq"})
  <2>1. IsFiniteSet({} \union {"android-happ"})
    BY FS_EmptySet, FS_AddElement
  <2>2. IsFiniteSet(({} \union {"android-happ"}) \union {"iphone-happ"})
    BY <2>1, FS_AddElement
  <2>3. IsFiniteSet((({} \union {"android-happ"}) \union {"iphone-happ"}) \union {"windows-fclashx"})
    BY <2>2, FS_AddElement
  <2>4. IsFiniteSet(((({} \union {"android-happ"}) \union {"iphone-happ"}) \union {"windows-fclashx"})
                      \union {"macos-fclashx"})
    BY <2>3, FS_AddElement
  <2>5. IsFiniteSet((((({} \union {"android-happ"}) \union {"iphone-happ"}) \union {"windows-fclashx"})
                      \union {"macos-fclashx"}) \union {"faq"})
    BY <2>4, FS_AddElement
  <2>6. (((({} \union {"android-happ"}) \union {"iphone-happ"}) \union {"windows-fclashx"})
           \union {"macos-fclashx"}) \union {"faq"}
          = {"android-happ", "iphone-happ", "windows-fclashx", "macos-fclashx", "faq"}
    OBVIOUS
  <2> QED
    BY <2>5, <2>6
<1>2. IsFiniteSet(Seeded)
  BY <1>1, FS_Subset DEF Site!canonicalArticleSlugs
<1>3. IsFiniteSet(OldSlugs \union Seeded)
  BY <1>2, FS_Union
<1>4. IsFiniteSet(slugs) /\ Cardinality(slugs) <= Cardinality(OldSlugs \union Seeded)
  BY <1>3, FS_Subset
<1>5. /\ Cardinality(slugs) \in Nat /\ Cardinality(OldSlugs \union Seeded) \in Nat
      /\ ExistsBijection(1 .. Cardinality(slugs), slugs)
  BY <1>3, <1>4, FS_CardinalityType
<1> DEFINE order == Site!SetToSeq(slugs)
<1>6. /\ order \in [1 .. Cardinality(slugs) -> slugs]
      /\ \A i, j \in 1 .. Cardinality(slugs) : order[i] = order[j] => i = j
  <2>1. \E f \in [1 .. Cardinality(slugs) -> slugs] : Site!IsInjective(f)
    BY <1>5 DEF ExistsBijection, Bijection, Injection, IsInjective, Site!IsInjective
  <2>2. order \in [1 .. Cardinality(slugs) -> slugs] /\ Site!IsInjective(order)
    BY <2>1, SameCardinality DEF Site!SetToSeq
  <2> QED
    BY <2>2 DEF Site!IsInjective
<1> HIDE DEF order
<1> DEFINE n == Cardinality(slugs)
           Old(i) == [id |-> i, slug |-> order[i], status |-> "published", body |-> "old",
                      key |-> Site!None, rev |-> 0]
           rows == {Old(i) : i \in 1 .. n}
<1>7. Site!OldDatabase(slugs) = rows
  <2>1. DOMAIN order = 1 .. n
    BY <1>6
  <2>2. Site!OldDatabase(slugs) = {Old(i) : i \in DOMAIN order}
    BY DEF Site!OldDatabase, order
  <2> QED
    BY <2>1, <2>2
<1>8. n \in Nat
  BY <1>5
<1> HIDE DEF n
<1>9. \A i \in 1 .. n : i \in Nat \ {0} /\ i < n + 1 /\ order[i] \in Site!Slugs
  <2>1. \A i \in 1 .. n : i \in Nat \ {0} /\ i < n + 1
    BY <1>8
  <2>2. \A i \in 1 .. n : order[i] \in Site!Slugs
    BY <1>6 DEF n, Site!Slugs
  <2> QED
    BY <2>1, <2>2
<1>10. \A i \in 1 .. n :
        /\ Old(i) \in ArticleRow
        /\ Old(i).id = i /\ Old(i).slug = order[i] /\ Old(i).key = Site!None /\ Old(i).rev = 0
  BY <1>9 DEF ArticleRow, Site!Status, Site!Body
<1> HIDE DEF Old
<1>11. Distinct(rows)
  <2> SUFFICES ASSUME NEW i \in 1 .. n, NEW j \in 1 .. n,
                      Old(i).id = Old(j).id \/ Old(i).slug = Old(j).slug
               PROVE  i = j
    BY <1>10 DEF Distinct
  <2> QED
    BY <1>6, <1>10 DEF n
<1>12. Revised(rows)
  BY <1>10 DEF Revised
<1>13. rows \subseteq ArticleRow /\ \A a \in rows : a.id < n + 1
  BY <1>9, <1>10
<1>14. n + 1 \in Nat \ {0}
  BY <1>8
<1>15. Sound(rows, n + 1)
  BY <1>11, <1>12, <1>13, <1>14 DEF Sound
<1> QED
  BY <1>4, <1>5, <1>7, <1>15 DEF n

-----------------------------------------------------------------------------
(* The table and the editor *)

TableOK == Sound(articles, nextId) /\ nextId <= MaxId + 1

(* A selected article, and a request to an article, has a slug. *)
EditorOK ==
  /\ list \subseteq Site!Article
  /\ sel \in Site!Id \union {0} /\ form \in Site!Form
  /\ sel # 0 => form.slug \in Site!Slugs
CallOK ==
  /\ saving \in [op : {Site!None, "save", "remove"}, at : Site!Stage, id : Site!Id \union {0},
                 payload : Site!Form]
  /\ saving.op = "save" /\ saving.id # 0 => saving.payload.slug \in Site!Slugs
  /\ saving.at = "checked" => saving.op = "save" /\ saving.id # 0
RestOK ==
  /\ running \in BOOLEAN /\ crossed \in BOOLEAN /\ load \in BOOLEAN
  /\ spent \in 0 .. MaxEvents
  /\ upload \in [from : Site!Id \union {0}, body : Site!Body \union {Site!None}]
  /\ upload # Site!NoUpload => upload.body \in Site!Body

SiteInv == TableOK /\ EditorOK /\ CallOK /\ RestOK

(* The rows of the table are articles. *)
LEMMA TableTyped ==
  ASSUME MaxId \in Nat, TableOK
  PROVE  articles \subseteq Site!Article /\ nextId \in 1 .. MaxId + 1
<1>1. nextId \in Nat \ {0} /\ nextId <= MaxId + 1
  BY DEF TableOK, Sound
<1>2. ASSUME NEW a \in articles PROVE a \in Site!Article
  <2>1. a \in ArticleRow /\ a.id < nextId
    BY DEF TableOK, Sound
  <2>2. a.id \in Nat \ {0}
    BY <2>1 DEF ArticleRow
  <2>3. a.id \in 1 .. MaxId
    BY <1>1, <2>1, <2>2
  <2> QED
    BY <2>1, <2>3 DEF ArticleRow, Site!Article, Site!Id, Site!CURRENT_SEED_REVISION
<1> QED
  BY <1>1, <1>2

(* No step of the site makes the table unsound. *)
LEMMA TableStep ==
  ASSUME SiteInv,
         Site!Next \/ UNCHANGED Site!vars
  PROVE  TableOK'
<1>1. Seeded \subseteq Site!canonicalArticleSlugs /\ MaxId \in Nat
  BY SeedAssumption, ArticleAssumption
<1>2. Sound(articles, nextId) /\ nextId <= MaxId + 1 /\ nextId \in Nat
  BY DEF SiteInv, TableOK, Sound
<1>3. ASSUME UNCHANGED <<articles, nextId>> PROVE TableOK'
  BY <1>2, <1>3 DEF TableOK
<1>4. CASE Site!Start
  <2>1. PICK now, onward : /\ Site!Seed(articles, nextId) = [rows |-> now, next |-> onward]
                           /\ Sound(now, onward)
    BY <1>1, <1>2, Seeds
  <2>2. onward <= MaxId + 1
    BY <1>4, <2>1 DEF Site!Start
  <2>3. (articles' = now /\ nextId' = onward) \/ UNCHANGED <<articles, nextId>>
    BY <1>4, <2>1 DEF Site!Start, Site!table
  <2> QED
    BY <1>3, <2>1, <2>2, <2>3 DEF TableOK
<1>5. CASE Site!PostArticle
  <2>1. CASE saving.payload.slug = "" \/ Site!Taken(saving.payload.slug, 0)
    BY <1>3, <1>5, <2>1 DEF Site!PostArticle, Site!table
  <2>2. CASE ~(saving.payload.slug = "" \/ Site!Taken(saving.payload.slug, 0))
    <3>1. nextId <= MaxId /\ articles' = Site!Created(nextId, saving.payload, articles) /\ nextId' = nextId + 1
      BY <1>5, <2>2 DEF Site!PostArticle
    <3>2. saving.payload \in Site!Form
      BY DEF SiteInv, CallOK
    <3>3. Fields(saving.payload)
      BY <2>2, <3>2 DEF Fields, Site!Form
    <3>4. \A a \in articles : a.id # 0
      BY <1>2 DEF Sound, ArticleRow
    <3>5. \A a \in articles : a.slug # saving.payload.slug
      BY <2>2, <3>4 DEF Site!Taken
    <3>6. Sound(Site!Created(nextId, saving.payload, articles), nextId + 1)
      BY <1>1, <1>2, <3>3, <3>5, CreatedSound
    <3>7. nextId + 1 <= MaxId + 1
      BY <1>1, <1>2, <3>1
    <3> QED
      BY <3>1, <3>6, <3>7 DEF TableOK
  <2> QED
    BY <2>1, <2>2
<1>6. CASE Site!PutWrite
  <2>1. CASE Site!Taken(saving.payload.slug, saving.id) \/ \A a \in articles : a.id # saving.id
    BY <1>3, <1>6, <2>1 DEF Site!PutWrite, Site!table
  <2>2. CASE ~(Site!Taken(saving.payload.slug, saving.id) \/ \A a \in articles : a.id # saving.id)
    <3>1. articles' = Site!Updated(saving.id, saving.payload, articles) /\ nextId' = nextId
      BY <1>6, <2>2 DEF Site!PutWrite
    <3>2. saving.payload \in Site!Form /\ saving.payload.slug \in Site!Slugs
      BY <1>6 DEF SiteInv, CallOK, Site!PutWrite
    <3>3. Fields(saving.payload)
      BY <3>2 DEF Fields, Site!Form
    <3>4. \A a \in articles : a.slug = saving.payload.slug => a.id = saving.id
      BY <2>2 DEF Site!Taken
    <3>5. Sound(Site!Updated(saving.id, saving.payload, articles), nextId)
      BY <1>2, <3>3, <3>4, UpdatedSound
    <3> QED
      BY <1>2, <3>1, <3>5 DEF TableOK
  <2> QED
    BY <2>1, <2>2
<1>7. CASE Site!DeleteArticle
  <2>1. articles' = {a \in articles : a.id # saving.id} /\ nextId' = nextId
    BY <1>7 DEF Site!DeleteArticle
  <2>2. {a \in articles : a.id # saving.id} \in SUBSET articles
    OBVIOUS
  <2>3. Sound({a \in articles : a.id # saving.id}, nextId)
    BY <1>2, <2>2, FewerSound
  <2> QED
    BY <1>2, <2>1, <2>3 DEF TableOK
<1>8. CASE Site!OtherEditor
  <2>1. ASSUME NEW a \in articles, articles' = articles \ {a}, nextId' = nextId PROVE TableOK'
    <3>1. Sound(articles \ {a}, nextId)
      BY <1>2, FewerSound
    <3> QED
      BY <1>2, <2>1, <3>1 DEF TableOK
  <2>2. ASSUME NEW a \in articles
        PROVE  /\ a \in ArticleRow
               /\ Site!Rewritten(a) \in ArticleRow
               /\ Site!Rewritten(a).slug = a.slug /\ Site!Rewritten(a).body = "other"
    <3>1. a \in ArticleRow
      BY <1>2, <2>2 DEF Sound
    <3> QED
      BY <3>1 DEF ArticleRow, Site!Rewritten, Site!Body
  <2>3. ASSUME NEW a \in articles, NEW slug \in Site!Slugs, ~Site!Taken(slug, a.id), nextId' = nextId,
               articles' = Site!Updated(a.id, [Site!Rewritten(a) EXCEPT !.slug = slug], articles)
        PROVE  TableOK'
    <3>1. PICK f : f = [Site!Rewritten(a) EXCEPT !.slug = slug]
      OBVIOUS
    <3>2. Fields(f) /\ f.slug = slug
      BY <2>2, <3>1 DEF Fields, ArticleRow
    <3>3. \A b \in articles : b.slug = f.slug => b.id = a.id
      BY <2>3, <3>2 DEF Site!Taken
    <3>4. Sound(Site!Updated(a.id, f, articles), nextId)
      BY <1>2, <3>2, <3>3, UpdatedSound
    <3> QED
      BY <1>2, <2>3, <3>1, <3>4 DEF TableOK
  <2>4. ASSUME NEW a \in articles, nextId' = nextId,
               articles' = Site!Updated(a.id, [Site!Rewritten(a) EXCEPT !.status = "draft"], articles)
        PROVE  TableOK'
    <3>1. PICK f : f = [Site!Rewritten(a) EXCEPT !.status = "draft"]
      OBVIOUS
    <3>2. Fields(f) /\ f.slug = a.slug
      BY <2>2, <3>1 DEF Fields, ArticleRow, Site!Status
    <3>3. \A b \in articles : b.slug = f.slug => b.id = a.id
      BY <1>2, <3>2 DEF Sound, Distinct
    <3>4. Sound(Site!Updated(a.id, f, articles), nextId)
      BY <1>2, <3>2, <3>3, UpdatedSound
    <3> QED
      BY <1>2, <2>4, <3>1, <3>4 DEF TableOK
  <2>5. ASSUME NEW slug \in Site!Slugs, ~Site!Taken(slug, 0), nextId <= MaxId, nextId' = nextId + 1,
               articles' = Site!Created(nextId, [slug |-> slug, status |-> "published", body |-> "other"],
                                        articles)
        PROVE  TableOK'
    <3>1. PICK f : f = [slug |-> slug, status |-> "published", body |-> "other"]
      OBVIOUS
    <3>2. Fields(f) /\ f.slug = slug
      BY <3>1 DEF Fields, Site!Status, Site!Body
    <3>3. \A a \in articles : a.id # 0
      BY <1>2 DEF Sound, ArticleRow
    <3>4. \A a \in articles : a.slug # f.slug
      BY <2>5, <3>2, <3>3 DEF Site!Taken
    <3>5. Sound(Site!Created(nextId, f, articles), nextId + 1)
      BY <1>1, <1>2, <3>2, <3>4, CreatedSound
    <3>6. nextId + 1 <= MaxId + 1
      BY <1>1, <1>2, <2>5
    <3> QED
      BY <2>5, <3>1, <3>5, <3>6 DEF TableOK
  <2> QED
    BY <1>8, <2>1, <2>3, <2>4, <2>5 DEF Site!OtherEditor
<1>9. CASE \/ Site!Crash \/ Site!PutCheck \/ Site!FinishLoad \/ Site!NewArticle \/ Site!Type \/ Site!Save
           \/ Site!RemoveArticle \/ Site!Answered \/ Site!AnswerLost \/ Site!Finish \/ Site!Fail
           \/ Site!UploadImage \/ Site!InsertImage \/ UNCHANGED Site!vars
           \/ \E a \in list : Site!ClickArticle(a)
  BY <1>3, <1>9 DEF Site!Crash, Site!PutCheck, Site!FinishLoad, Site!NewArticle, Site!Type, Site!Save,
     Site!RemoveArticle, Site!Answered, Site!AnswerLost, Site!Finish, Site!Fail, Site!UploadImage,
     Site!InsertImage, Site!ClickArticle, Site!vars, Site!table
<1> QED
  BY <1>4, <1>5, <1>6, <1>7, <1>8, <1>9 DEF Site!Next

(* Writing a field of a form. *)
LEMMA FormTyped ==
  /\ Site!emptyArticle \in Site!Form
  /\ \A a \in Site!Article :
       /\ Site!FormOf(a) \in Site!Form /\ Site!FormOf(a).slug \in Site!Slugs
       /\ Site!FormOf(a).from = a.id /\ a.id \in Site!Id
  /\ \A f \in Site!Form, id \in Site!Id \union {0} :
       LET g == [f EXCEPT !.from = id]
       IN  g \in Site!Form /\ g.slug = f.slug /\ g.from = id
<1>1. Site!emptyArticle \in Site!Form
  BY DEF Site!emptyArticle, Site!Form, Site!Status, Site!Body
<1>2. ASSUME NEW a \in Site!Article
      PROVE  Site!FormOf(a) \in Site!Form /\ Site!FormOf(a).slug \in Site!Slugs
               /\ Site!FormOf(a).from = a.id /\ a.id \in Site!Id
  BY DEF Site!FormOf, Site!Form, Site!Article
<1>3. ASSUME NEW f \in Site!Form, NEW id \in Site!Id \union {0}
      PROVE  LET g == [f EXCEPT !.from = id]
             IN  g \in Site!Form /\ g.slug = f.slug /\ g.from = id
  BY DEF Site!Form
<1> QED
  BY <1>1, <1>2, <1>3

(* A change of a form by the fields and buttons of the editor. *)
LEMMA EditedTyped ==
  ASSUME NEW f \in Site!Edited, form \in Site!Form
  PROVE  f \in Site!Form /\ f.from = form.from /\ (form.slug \in Site!Slugs => f.slug \in Site!Slugs)
<1>1. ASSUME NEW slug \in Site!Slugs, f = [form EXCEPT !.slug = slug, !.body = "mine"]
      PROVE  f \in Site!Form /\ f.from = form.from /\ f.slug = slug
  BY <1>1 DEF Site!Form, Site!Body
<1>2. ASSUME NEW status \in Site!Status, f = [form EXCEPT !.status = status, !.body = "mine"]
      PROVE  f \in Site!Form /\ f.from = form.from /\ f.slug = form.slug
  BY <1>2 DEF Site!Form, Site!Body
<1> QED
  BY <1>1, <1>2 DEF Site!Edited

(* The text that an upload writes back. *)
LEMMA InsertTyped ==
  ASSUME form \in Site!Form, NEW body \in Site!Body, NEW from \in Site!Id \union {0}
  PROVE  LET f == [form EXCEPT !.body = body, !.from = from]
         IN  f \in Site!Form /\ f.slug = form.slug /\ f.from = from
BY DEF Site!Form

(* No step of the site gives the editor anything but articles and forms. *)
LEMMA EditorStep ==
  ASSUME SiteInv, Site!Next \/ UNCHANGED Site!vars
  PROVE  EditorOK'
<1>1. articles \subseteq Site!Article
  BY TableTyped, ArticleAssumption DEF SiteInv
<1>2. /\ list \subseteq Site!Article /\ sel \in Site!Id \union {0} /\ form \in Site!Form
      /\ sel # 0 => form.slug \in Site!Slugs
  BY DEF SiteInv, EditorOK
<1>3. ASSUME UNCHANGED Site!editor PROVE EditorOK'
  BY <1>2, <1>3 DEF EditorOK, Site!editor
<1>4. ASSUME NEW a \in Site!Article, Site!SelectArticle(a), list' \subseteq Site!Article PROVE EditorOK'
  BY <1>4, FormTyped DEF Site!SelectArticle, EditorOK
<1>5. CASE Site!FinishLoad
  <2>1. list' \subseteq Site!Article
    BY <1>1, <1>5 DEF Site!FinishLoad, Site!listAllArticles
  <2>2. CASE articles = {}
    BY <1>2, <1>5, <2>1, <2>2 DEF Site!FinishLoad, EditorOK
  <2>3. CASE articles # {}
    BY <1>1, <1>4, <1>5, <2>1, <2>3 DEF Site!FinishLoad
  <2> QED
    BY <2>2, <2>3
<1>6. CASE \E a \in list : Site!ClickArticle(a)
  BY <1>2, <1>4, <1>6 DEF Site!ClickArticle
<1>7. CASE Site!NewArticle
  BY <1>2, <1>7, FormTyped DEF Site!NewArticle, EditorOK
<1>8. CASE Site!Type
  BY <1>2, <1>8, EditedTyped DEF Site!Type, EditorOK
<1>9. CASE Site!Answered
  <2>1. CASE saving.op = "remove"
    BY <1>2, <1>9, <2>1, FormTyped DEF Site!Answered, EditorOK
  <2>2. CASE saving.op # "remove"
    BY <1>3, <1>9, <2>2 DEF Site!Answered, Site!editor
  <2> QED
    BY <2>1, <2>2
<1>10. CASE Site!Finish
  <2>1. list' \subseteq Site!Article
    BY <1>1, <1>10 DEF Site!Finish, Site!listAllArticles
  <2>2. CASE saving.op = "save"
    <3>1. /\ saving.id \in Site!Id \union {0} /\ saving.payload \in Site!Form
          /\ saving.id # 0 => saving.payload.slug \in Site!Slugs
      BY <2>2 DEF SiteInv, CallOK
    <3>2. sel' = saving.id /\ form' = [saving.payload EXCEPT !.from = saving.id]
      BY <1>10, <2>2 DEF Site!Finish
    <3>3. form' \in Site!Form /\ form'.slug = saving.payload.slug
      BY <3>1, <3>2, FormTyped
    <3> QED
      BY <2>1, <3>1, <3>2, <3>3 DEF EditorOK
  <2>3. CASE saving.op # "save"
    BY <1>2, <1>10, <2>1, <2>3 DEF Site!Finish, EditorOK
  <2> QED
    BY <2>2, <2>3
<1>11. CASE Site!InsertImage
  <2>1. upload.from \in Site!Id \union {0} /\ upload.body \in Site!Body
    BY <1>11 DEF SiteInv, RestOK, Site!InsertImage
  <2>2. form' = [form EXCEPT !.body = upload.body, !.from = upload.from] /\ UNCHANGED <<list, sel>>
    BY <1>11 DEF Site!InsertImage
  <2>3. form' \in Site!Form /\ form'.slug = form.slug
    BY <1>2, <2>1, <2>2, InsertTyped
  <2> QED
    BY <1>2, <2>2, <2>3 DEF EditorOK
<1>12. CASE \/ Site!Start \/ Site!Crash \/ Site!OtherEditor \/ Site!PostArticle \/ Site!PutCheck
            \/ Site!PutWrite \/ Site!DeleteArticle \/ Site!Save \/ Site!RemoveArticle \/ Site!AnswerLost
            \/ Site!Fail \/ Site!UploadImage \/ UNCHANGED Site!vars
  BY <1>3, <1>12 DEF Site!Start, Site!Crash, Site!OtherEditor, Site!PostArticle, Site!PutCheck,
     Site!PutWrite, Site!DeleteArticle, Site!Save, Site!RemoveArticle, Site!AnswerLost, Site!Fail,
     Site!UploadImage, Site!vars, Site!editor
<1> QED
  BY <1>5, <1>6, <1>7, <1>8, <1>9, <1>10, <1>11, <1>12 DEF Site!Next

(* A call moves on. *)
Call == [op : {Site!None, "save", "remove"}, at : Site!Stage, id : Site!Id \union {0}, payload : Site!Form]

(* Changing the stage of a call changes nothing else of it. *)
LEMMA MovesOn ==
  ASSUME NEW c \in Call, NEW at \in Site!Stage
  PROVE  LET d == [c EXCEPT !.at = at]
         IN  d \in Call /\ d.op = c.op /\ d.id = c.id /\ d.payload = c.payload /\ d.at = at
BY DEF Call

(* A save to an article always carries a slug. *)
LEMMA CallStep ==
  ASSUME SiteInv, Site!Next \/ UNCHANGED Site!vars
  PROVE  CallOK'
<1>1. /\ saving \in Call
      /\ saving.op = "save" /\ saving.id # 0 => saving.payload.slug \in Site!Slugs
      /\ saving.at = "checked" => saving.op = "save" /\ saving.id # 0
  BY DEF SiteInv, CallOK, Call
<1>2. ASSUME NEW at \in Site!Stage, at # "checked", saving' = [saving EXCEPT !.at = at] PROVE CallOK'
  <2>1. /\ saving' \in Call /\ saving'.op = saving.op /\ saving'.id = saving.id
        /\ saving'.payload = saving.payload /\ saving'.at = at
    BY <1>1, <1>2, MovesOn
  <2> QED
    BY <1>1, <1>2, <2>1 DEF CallOK, Call
<1>3. ASSUME UNCHANGED saving PROVE CallOK'
  BY <1>1, <1>3 DEF CallOK, Call
<1>4. Site!NoCall \in Call /\ Site!NoCall.op = Site!None /\ Site!NoCall.at = Site!None
  BY FormTyped DEF Call, Site!NoCall, Site!Stage
<1>5. ASSUME saving' = Site!NoCall PROVE CallOK'
  BY <1>4, <1>5 DEF CallOK, Call, Site!None
<1>6. {"failed", "answered", "list", "request"} \subseteq Site!Stage
  BY DEF Site!Stage
<1>7. CASE Site!Crash
  <2>1. CASE saving.at \in {"request", "checked", "list"}
    BY <1>2, <1>6, <1>7, <2>1 DEF Site!Crash
  <2>2. CASE saving.at \notin {"request", "checked", "list"}
    BY <1>3, <1>7, <2>2 DEF Site!Crash
  <2> QED
    BY <2>1, <2>2
<1>8. CASE Site!PostArticle
  <2>1. CASE saving.payload.slug = "" \/ Site!Taken(saving.payload.slug, 0)
    BY <1>2, <1>6, <1>8, <2>1 DEF Site!PostArticle
  <2>2. CASE ~(saving.payload.slug = "" \/ Site!Taken(saving.payload.slug, 0))
    <3>1. nextId <= MaxId /\ saving' = [saving EXCEPT !.at = "answered", !.id = nextId]
      BY <1>8, <2>2 DEF Site!PostArticle
    <3>2. nextId \in Site!Id
      BY <3>1, TableTyped, ArticleAssumption DEF SiteInv, Site!Id
    <3>3. /\ saving' \in Call /\ saving'.payload = saving.payload /\ saving'.at = "answered"
      BY <1>1, <1>6, <3>1, <3>2 DEF Call
    <3>4. saving.payload.slug \in Site!Slugs
      BY <1>1, <2>2 DEF Call, Site!Form
    <3> QED
      BY <3>3, <3>4 DEF CallOK, Call
  <2> QED
    BY <2>1, <2>2
<1>9. CASE Site!PutCheck
  <2>1. PICK at \in {"checked", "failed"} : saving' = [saving EXCEPT !.at = at]
    BY <1>9 DEF Site!PutCheck
  <2>2. at \in Site!Stage
    BY <2>1 DEF Site!Stage
  <2>3. /\ saving' \in Call /\ saving'.op = saving.op /\ saving'.id = saving.id
        /\ saving'.payload = saving.payload
    BY <1>1, <2>1, <2>2, MovesOn
  <2>4. saving.op = "save" /\ saving.id # 0
    BY <1>9 DEF Site!PutCheck
  <2> QED
    BY <1>1, <2>3, <2>4 DEF CallOK, Call
<1>10. CASE Site!PutWrite \/ Site!DeleteArticle \/ Site!Answered \/ Site!AnswerLost
  <2>1. PICK at \in {"failed", "answered", "list"} : saving' = [saving EXCEPT !.at = at]
    BY <1>10 DEF Site!PutWrite, Site!DeleteArticle, Site!Answered, Site!AnswerLost
  <2> QED
    BY <1>2, <1>6, <2>1
<1>11. CASE Site!Save
  <2>1. PICK id \in Site!Id \union {0} :
          /\ id # 0 => form.slug \in Site!Slugs
          /\ saving' = [Site!NoCall EXCEPT !.op = "save", !.at = "request", !.payload = form, !.id = id]
    BY <1>11 DEF Site!Save, SiteInv, EditorOK
  <2>2. form \in Site!Form
    BY DEF SiteInv, EditorOK
  <2>3. saving' \in Call /\ saving'.op = "save" /\ saving'.at = "request" /\ saving'.payload = form
          /\ saving'.id = id
    BY <1>4, <1>6, <2>1, <2>2 DEF Call
  <2> QED
    BY <2>1, <2>3 DEF CallOK, Call
<1>12. CASE Site!RemoveArticle
  <2>1. saving' = [Site!NoCall EXCEPT !.op = "remove", !.at = "request", !.id = sel]
    BY <1>12 DEF Site!RemoveArticle
  <2>2. sel \in Site!Id \union {0}
    BY DEF SiteInv, EditorOK
  <2>3. saving' \in Call /\ saving'.op = "remove" /\ saving'.at = "request"
    BY <1>4, <1>6, <2>1, <2>2 DEF Call
  <2> QED
    BY <2>3 DEF CallOK, Call
<1>13. CASE Site!Finish \/ Site!Fail
  BY <1>5, <1>13 DEF Site!Finish, Site!Fail
<1>14. CASE \/ Site!Start \/ Site!OtherEditor \/ Site!FinishLoad \/ Site!NewArticle \/ Site!Type
            \/ Site!UploadImage \/ Site!InsertImage \/ UNCHANGED Site!vars
            \/ \E a \in list : Site!ClickArticle(a)
  BY <1>3, <1>14 DEF Site!Start, Site!OtherEditor, Site!FinishLoad, Site!NewArticle, Site!Type,
     Site!UploadImage, Site!InsertImage, Site!ClickArticle, Site!vars
<1> QED
  BY <1>7, <1>8, <1>9, <1>10, <1>11, <1>12, <1>13, <1>14 DEF Site!Next

(* The flags, the upload and the count of events. *)
LEMMA RestStep ==
  ASSUME SiteInv, Site!Next \/ UNCHANGED Site!vars
  PROVE  RestOK'
<1>1. /\ running \in BOOLEAN /\ crossed \in BOOLEAN /\ load \in BOOLEAN
      /\ spent \in 0 .. MaxEvents
      /\ upload \in [from : Site!Id \union {0}, body : Site!Body \union {Site!None}]
      /\ upload # Site!NoUpload => upload.body \in Site!Body
  BY DEF SiteInv, RestOK
<1>2. ASSUME Site!Spend PROVE spent' \in 0 .. MaxEvents
  <2>1. spent \in Nat /\ MaxEvents \in Nat /\ spent < MaxEvents /\ spent' = spent + 1
    BY <1>1, <1>2, ArticleAssumption DEF Site!Spend
  <2> QED
    BY <2>1
<1>3. CASE Site!UploadImage
  <2>1. form.from \in Site!Id \union {0} /\ form.body \in Site!Body
    BY DEF SiteInv, EditorOK, Site!Form
  <2>2. upload' = [from |-> form.from, body |-> form.body] /\ UNCHANGED <<running, crossed, load>>
    BY <1>3 DEF Site!UploadImage
  <2>3. spent' \in 0 .. MaxEvents
    BY <1>2, <1>3 DEF Site!UploadImage
  <2> QED
    BY <1>1, <2>1, <2>2, <2>3 DEF RestOK
<1>4. CASE Site!InsertImage
  <2>1. Site!NoUpload \in [from : Site!Id \union {0}, body : Site!Body \union {Site!None}]
    BY DEF Site!NoUpload
  <2>2. upload' = Site!NoUpload /\ UNCHANGED <<running, load, spent>> /\ crossed' \in BOOLEAN
    BY <1>1, <1>4 DEF Site!InsertImage
  <2> QED
    BY <1>1, <2>1, <2>2 DEF RestOK
<1>5. CASE Site!Crash \/ Site!OtherEditor \/ Site!Type \/ Site!Save \/ Site!RemoveArticle \/ Site!AnswerLost
  <2>1. spent' \in 0 .. MaxEvents
    BY <1>2, <1>5 DEF Site!Crash, Site!OtherEditor, Site!Type, Site!Save, Site!RemoveArticle,
       Site!AnswerLost
  <2>2. running' \in BOOLEAN /\ UNCHANGED <<crossed, load, upload>>
    BY <1>1, <1>5 DEF Site!Crash, Site!OtherEditor, Site!Type, Site!Save, Site!RemoveArticle,
       Site!AnswerLost
  <2> QED
    BY <1>1, <2>1, <2>2 DEF RestOK
<1>6. CASE \/ Site!Start \/ Site!PostArticle \/ Site!PutCheck \/ Site!PutWrite \/ Site!DeleteArticle
           \/ Site!FinishLoad \/ Site!NewArticle \/ Site!Answered \/ Site!Finish \/ Site!Fail
           \/ UNCHANGED Site!vars \/ \E a \in list : Site!ClickArticle(a)
  <2>1. running' \in BOOLEAN /\ load' \in BOOLEAN /\ UNCHANGED <<crossed, upload, spent>>
    BY <1>1, <1>6 DEF Site!Start, Site!PostArticle, Site!PutCheck, Site!PutWrite, Site!DeleteArticle,
       Site!FinishLoad, Site!NewArticle, Site!Answered, Site!Finish, Site!Fail, Site!ClickArticle, Site!vars
  <2> QED
    BY <1>1, <2>1 DEF RestOK
<1> QED
  BY <1>3, <1>4, <1>5, <1>6 DEF Site!Next

(* The invariant of the documentation site: slugs, keys and ids stay unique *)
(* whatever editors, older releases, restarts and seeds write.              *)
LEMMA SiteInvariant == SiteSpec => []SiteInv
<1>1. Site!Init => SiteInv
  <2> SUFFICES ASSUME Site!Init PROVE SiteInv
    OBVIOUS
  <2>1. Seeded \subseteq Site!canonicalArticleSlugs /\ MaxId \in Nat /\ MaxEvents \in Nat
        /\ IsFiniteSet(OldSlugs) /\ Cardinality(OldSlugs \union Seeded) <= MaxId
    BY SeedAssumption, ArticleAssumption
  <2>2. PICK slugs \in SUBSET (OldSlugs \union Seeded) :
          articles = Site!OldDatabase(slugs) /\ nextId = Cardinality(slugs) + 1
    BY SameCardinality DEF Site!Init
  <2>3. /\ Sound(Site!OldDatabase(slugs), Cardinality(slugs) + 1)
        /\ Cardinality(slugs) <= Cardinality(OldSlugs \union Seeded)
        /\ Cardinality(slugs) \in Nat /\ Cardinality(OldSlugs \union Seeded) \in Nat
    BY <2>1, OldDatabaseSound
  <2>4. TableOK
    BY <2>1, <2>2, <2>3 DEF TableOK
  <2>5. EditorOK
    BY FormTyped DEF Site!Init, EditorOK
  <2>6. CallOK
    BY FormTyped DEF Site!Init, CallOK, Site!NoCall, Site!None, Site!Stage
  <2>7. RestOK
    <3>1. Site!NoUpload \in [from : Site!Id \union {0}, body : Site!Body \union {Site!None}]
      BY DEF Site!NoUpload
    <3>2. /\ running = FALSE /\ load = TRUE /\ upload = Site!NoUpload /\ crossed = FALSE
          /\ spent = 0 /\ 0 \in 0 .. MaxEvents
      BY <2>1 DEF Site!Init
    <3> QED
      BY <3>1, <3>2 DEF RestOK
  <2> QED
    BY <2>4, <2>5, <2>6, <2>7 DEF SiteInv
<1>2. SiteInv /\ [Site!Next]_Site!vars => SiteInv'
  BY TableStep, EditorStep, CallStep, RestStep DEF SiteInv
<1> QED
  BY <1>1, <1>2, PTL DEF SiteSpec, Site!Spec

(* Every reachable state of the site has the types that TypeOK gives it, no *)
(* two articles share an id or a slug among them.                           *)
THEOREM SiteTypeCorrect == SiteSpec => []SiteTypeOK
<1>1. SiteInv => SiteTypeOK
  <2> SUFFICES ASSUME SiteInv PROVE SiteTypeOK
    OBVIOUS
  <2>1. articles \subseteq Site!Article /\ nextId \in 1 .. MaxId + 1
    BY TableTyped, ArticleAssumption DEF SiteInv
  <2>2. /\ \A a, b \in articles : a.id = b.id \/ a.slug = b.slug => a = b
        /\ \A a \in articles : a.id < nextId
    BY DEF SiteInv, TableOK, Sound, Distinct
  <2> QED
    BY <2>1, <2>2 DEF SiteInv, EditorOK, CallOK, RestOK, SiteTypeOK, Site!TypeOK
<1> QED
  BY <1>1, SiteInvariant, PTL

(* Whatever editors and older releases have made of the table, the seed of  *)
(* the next start succeeds, and a second one would change nothing more.     *)
THEOREM SeedsSettle == SiteSpec => []SeedSettles
<1>1. SiteInv => SeedSettles
  <2> SUFFICES ASSUME SiteInv PROVE SeedSettles
    OBVIOUS
  <2>1. Sound(articles, nextId) /\ Seeded \subseteq Site!canonicalArticleSlugs
    BY DEF SiteInv, TableOK
  <2>2. PICK now, onward : /\ Site!Seed(articles, nextId) = [rows |-> now, next |-> onward]
                           /\ Sound(now, onward)
                           /\ Site!Seed(now, onward) = [rows |-> now, next |-> onward]
    BY <2>1, Seeds
  <2>3. Site!Unique(now)
    BY <2>2 DEF Sound, Distinct, Site!Unique
  <2> QED
    BY <2>2, <2>3 DEF SeedSettles, Site!SeedSettles
<1> QED
  BY <1>1, SiteInvariant, PTL

(* A start keeps what editors have made of a starter article, unless they   *)
(* gave it a slug that the seed hides.                                      *)
THEOREM EditsSurvive == SiteSpec => RestartKeepsEdits
<1>1. ASSUME SiteInv, Site!Next, ~running, running',
             NEW a \in articles, a.rev = Site!CURRENT_SEED_REVISION, a.slug \notin Site!legacySeedSlugs
      PROVE  a \in articles'
  <2>1. Site!Start
    BY <1>1 DEF Site!Next, Site!Crash, Site!OtherEditor, Site!PostArticle, Site!PutCheck,
       Site!PutWrite, Site!DeleteArticle, Site!FinishLoad, Site!NewArticle, Site!Type, Site!Save,
       Site!RemoveArticle, Site!ClickArticle, Site!Answered, Site!AnswerLost, Site!Finish, Site!Fail,
       Site!UploadImage, Site!InsertImage
  <2>2. Sound(articles, nextId) /\ Seeded \subseteq Site!canonicalArticleSlugs
    BY <1>1 DEF SiteInv, TableOK
  <2>3. PICK now, onward :
          /\ Site!Seed(articles, nextId) = [rows |-> now, next |-> onward]
          /\ \A b \in articles : b.rev = 1 /\ b.slug \notin Site!legacySeedSlugs => b \in now
    BY <2>2, Seeds
  <2>4. articles' = now \/ articles' = articles
    BY <2>1, <2>3 DEF Site!Start, Site!table
  <2> QED
    BY <1>1, <2>3, <2>4 DEF Site!CURRENT_SEED_REVISION
<1>2. SiteInv /\ [Site!Next]_Site!vars =>
        [~running /\ running' =>
           \A a \in articles : a.rev = Site!CURRENT_SEED_REVISION /\ a.slug \notin Site!legacySeedSlugs
                                => a \in articles']_Site!vars
  BY <1>1
<1> QED
  BY <1>2, SiteInvariant, PTL DEF SiteSpec, Site!Spec, RestartKeepsEdits, Site!RestartKeepsEdits

-----------------------------------------------------------------------------
(* The text on the screen is that of the selected article, unless an upload *)
(* has crossed; so is the text of a save under way.                         *)
TextOwn == ~crossed => form.from = sel
OwnInv == TextOwn /\ Site!OwnText

(* No step puts another article's text under the selection. *)
LEMMA OwnStep ==
  ASSUME SiteInv, OwnInv, Site!Next \/ UNCHANGED Site!vars
  PROVE  OwnInv'
<1>1. /\ form \in Site!Form /\ list \subseteq Site!Article /\ saving \in Call
      /\ ~crossed => form.from = sel
      /\ saving.op = "save" /\ saving.at = "request" /\ saving.id # 0 /\ ~crossed
           => saving.payload.from = saving.id
  BY DEF SiteInv, EditorOK, CallOK, Call, OwnInv, TextOwn, Site!OwnText
<1>2. ASSUME UNCHANGED <<sel, form, crossed>> PROVE TextOwn'
  BY <1>1, <1>2 DEF TextOwn
<1>3. ASSUME UNCHANGED crossed, UNCHANGED saving \/ saving' = Site!NoCall
               \/ \E at \in Site!Stage : at # "request" /\ saving' = [saving EXCEPT !.at = at]
      PROVE  Site!OwnText'
  <2>1. CASE UNCHANGED saving
    BY <1>1, <1>3, <2>1 DEF Site!OwnText
  <2>2. CASE saving' = Site!NoCall
    BY <2>2 DEF Site!OwnText, Site!NoCall, Site!None
  <2>3. ASSUME NEW at \in Site!Stage, at # "request", saving' = [saving EXCEPT !.at = at]
        PROVE  Site!OwnText'
    BY <1>1, <2>3, MovesOn DEF Site!OwnText
  <2> QED
    BY <1>3, <2>1, <2>2, <2>3
<1>4. {"failed", "answered", "list", "checked"} \subseteq Site!Stage
  BY DEF Site!Stage
<1>5. ASSUME NEW a, Site!SelectArticle(a) PROVE TextOwn'
  BY <1>5 DEF Site!SelectArticle, Site!FormOf, TextOwn
<1>6. CASE Site!FinishLoad \/ \E a \in list : Site!ClickArticle(a)
  <2>1. Site!OwnText'
    BY <1>3, <1>6 DEF Site!FinishLoad, Site!ClickArticle
  <2>2. CASE UNCHANGED <<sel, form>>
    BY <1>2, <1>6, <2>1, <2>2 DEF Site!FinishLoad, Site!ClickArticle, OwnInv
  <2>3. CASE \E a : Site!SelectArticle(a)
    BY <1>5, <2>1, <2>3 DEF OwnInv
  <2> QED
    BY <1>6, <2>2, <2>3 DEF Site!FinishLoad, Site!ClickArticle
<1>7. CASE Site!NewArticle
  <2>1. TextOwn'
    BY <1>7 DEF Site!NewArticle, Site!emptyArticle, TextOwn
  <2> QED
    BY <1>3, <1>7, <2>1 DEF Site!NewArticle, OwnInv
<1>8. CASE Site!Type
  <2>1. form'.from = form.from /\ UNCHANGED <<sel, crossed, saving>>
    BY <1>1, <1>8, EditedTyped DEF Site!Type
  <2> QED
    BY <1>1, <1>3, <2>1 DEF OwnInv, TextOwn
<1>9. CASE Site!Save
  <2>1. PICK id : /\ id # 0 => id = sel
                  /\ saving' = [Site!NoCall EXCEPT !.op = "save", !.at = "request", !.payload = form, !.id = id]
    BY <1>9 DEF Site!Save
  <2>2. saving'.id = id /\ saving'.payload = form
    BY <2>1 DEF Site!NoCall
  <2>3. UNCHANGED <<sel, form, crossed>>
    BY <1>9 DEF Site!Save, Site!editor
  <2> QED
    BY <1>1, <1>2, <2>1, <2>2, <2>3 DEF Site!OwnText, OwnInv
<1>10. CASE Site!RemoveArticle
  <2>1. saving'.op = "remove"
    BY <1>10 DEF Site!RemoveArticle, Site!NoCall
  <2> QED
    BY <1>2, <1>10, <2>1 DEF Site!RemoveArticle, Site!editor, Site!OwnText, OwnInv
<1>11. CASE Site!Answered
  <2>1. Site!OwnText'
    BY <1>3, <1>4, <1>11 DEF Site!Answered
  <2>2. CASE saving.op = "remove"
    <3>1. sel' = 0 /\ form' = Site!emptyArticle
      BY <1>11, <2>2 DEF Site!Answered
    <3>2. form'.from = 0
      BY <3>1 DEF Site!emptyArticle
    <3> QED
      BY <2>1, <3>1, <3>2 DEF OwnInv, TextOwn
  <2>3. CASE saving.op # "remove"
    BY <1>2, <1>11, <2>1, <2>3 DEF Site!Answered, OwnInv
  <2> QED
    BY <2>2, <2>3
<1>12. CASE Site!Finish
  <2>1. Site!OwnText'
    BY <1>3, <1>12 DEF Site!Finish
  <2>2. CASE saving.op = "save"
    <3>1. sel' = saving.id /\ form' = [saving.payload EXCEPT !.from = saving.id]
      BY <1>12, <2>2 DEF Site!Finish
    <3>2. saving.payload \in Site!Form /\ saving.id \in Site!Id \union {0}
      BY <1>1 DEF Call
    <3>3. form'.from = saving.id
      BY <3>1, <3>2, FormTyped
    <3> QED
      BY <2>1, <3>1, <3>3 DEF OwnInv, TextOwn
  <2>3. CASE saving.op # "save"
    BY <1>2, <1>12, <2>1, <2>3 DEF Site!Finish, OwnInv
  <2> QED
    BY <2>2, <2>3
<1>13. CASE Site!InsertImage
  <2>1. /\ crossed' = (crossed \/ upload.from # form.from) /\ UNCHANGED <<sel, saving>>
        /\ form' = [form EXCEPT !.body = upload.body, !.from = upload.from]
    BY <1>13 DEF Site!InsertImage
  <2>2. upload.from \in Site!Id \union {0} /\ upload.body \in Site!Body
    BY <1>13 DEF SiteInv, RestOK, Site!InsertImage
  <2>3. form'.from = upload.from
    BY <1>1, <2>1, <2>2, InsertTyped
  <2>4. ~crossed' => ~crossed /\ upload.from = form.from
    BY <2>1
  <2>5. TextOwn'
    BY <1>1, <2>1, <2>3, <2>4 DEF TextOwn
  <2>6. Site!OwnText'
    BY <1>1, <2>1, <2>4 DEF Site!OwnText
  <2> QED
    BY <2>5, <2>6 DEF OwnInv
<1>14. CASE \/ Site!Start \/ Site!OtherEditor \/ Site!UploadImage \/ UNCHANGED Site!vars
            \/ Site!Crash \/ Site!PostArticle \/ Site!PutCheck \/ Site!PutWrite \/ Site!DeleteArticle
            \/ Site!AnswerLost \/ Site!Fail
  <2>1. UNCHANGED <<sel, form, crossed>>
    BY <1>14 DEF Site!Start, Site!OtherEditor, Site!UploadImage, Site!vars, Site!Crash, Site!PostArticle,
       Site!PutCheck, Site!PutWrite, Site!DeleteArticle, Site!AnswerLost, Site!Fail, Site!editor
  <2>2. CASE Site!PostArticle /\ saving' = [saving EXCEPT !.at = "answered", !.id = nextId]
    <3>1. saving'.at = "answered"
      BY <1>1, <2>2 DEF Call
    <3> QED
      BY <1>2, <2>1, <3>1 DEF Site!OwnText, OwnInv
  <2>3. CASE ~(Site!PostArticle /\ saving' = [saving EXCEPT !.at = "answered", !.id = nextId])
    <3>1. \/ UNCHANGED saving \/ saving' = Site!NoCall
          \/ \E at \in {"failed", "answered", "list", "checked"} : saving' = [saving EXCEPT !.at = at]
      BY <1>14, <2>3 DEF Site!Start, Site!OtherEditor, Site!UploadImage, Site!vars, Site!Crash,
         Site!PostArticle, Site!PutCheck, Site!PutWrite, Site!DeleteArticle, Site!AnswerLost, Site!Fail
    <3>2. Site!OwnText'
      BY <1>3, <1>4, <2>1, <3>1
    <3> QED
      BY <1>2, <2>1, <3>2 DEF OwnInv
  <2> QED
    BY <2>2, <2>3
<1> QED
  BY <1>6, <1>7, <1>8, <1>9, <1>10, <1>11, <1>12, <1>13, <1>14 DEF Site!Next

(* No article is saved with the text of another one, however the editor     *)
(* clicks while answers are on their way.                                   *)
THEOREM TextsStayOwn == SiteSpec => []OwnText
<1>1. Site!Init => OwnInv
  <2>1. Site!emptyArticle.from = 0 /\ Site!NoCall.op # "save"
    BY DEF Site!emptyArticle, Site!NoCall, Site!None
  <2> QED
    BY <2>1 DEF Site!Init, OwnInv, TextOwn, Site!OwnText
<1>2. SiteInv /\ OwnInv /\ [Site!Next]_Site!vars => OwnInv'
  BY OwnStep
<1>3. OwnInv => OwnText
  BY DEF OwnInv, OwnText
<1> QED
  BY <1>1, <1>2, <1>3, SiteInvariant, PTL DEF SiteSpec, Site!Spec
=============================================================================
