---------------------------- MODULE ConnectPage ----------------------------
(***************************************************************************)
(* The public page /connect/<token> (PublicConnectPage of App.tsx): a      *)
(* device list kept fresh by a poll, and the removal of a device, whose    *)
(* DELETE waits for SSH and may outlive the browser's 12 s timeout.        *)
(*                                                                         *)
(* refreshSeqRef is only compared with a request's own number, so a        *)
(* request carries `latest`: whether its number is still the current one.  *)
(***************************************************************************)
EXTENDS Api, Sequences, FiniteSets, SequencesExt

CONSTANTS Device,        \* devices the user may have
          None,          \* no device, no data
          MaxChanges,    \* bound: changes made by others on the server
          MaxRemovals,   \* bound: removals the visitor confirms
          MaxFaults,     \* bound: exchanges that fail
          MaxFlight      \* bound: refreshes in flight when a new one starts

ASSUME NoneAssumption == None \notin Device
ASSUME BoundAssumption == MaxChanges \in Nat /\ MaxRemovals \in Nat /\ MaxFaults \in Nat

VARIABLES past,        \* the server's device lists, the last one current
          late,        \* devices whose DELETE the server still runs unobserved
          data,        \* [ver, devices] on the screen, or None
          seen,        \* history: the newest version ever loaded
          flight,      \* refreshes in flight
          refreshing,  \* refreshingRef
          mutating,    \* mutatingRef
          pollMs,
          effectDue,   \* React has still to re-run the polling effect
          phase,       \* per device: where its removeDevice call is
          spent        \* counters of the bounded events

server == <<past, late>>
busy == <<refreshing, mutating>>
vars == <<past, late, data, seen, flight, refreshing, mutating, pollMs, effectDue, phase, spent>>

Phase == {"no", "sent", "done", "failed", "refresh"}
Unread == [ver |-> 0, devices |-> {}]
Reply == {Unread, None} \union [ver : 1 .. Len(past), devices : SUBSET Device]
Request == [latest : BOOLEAN, owner : Device \union {None}, reply : Reply]

TypeOK ==
  /\ past \in Seq(SUBSET Device) /\ past # <<>>
  /\ late \subseteq Device
  /\ data \in {None} \union [ver : 1 .. Len(past), devices : SUBSET Device]
  /\ seen \in 1 .. Len(past)
  /\ flight \subseteq Request
  /\ refreshing \in BOOLEAN /\ mutating \in BOOLEAN /\ effectDue \in BOOLEAN
  /\ pollMs \in {7000, 15000}
  /\ phase \in [Device -> Phase]
  /\ spent \in [change : 0 .. MaxChanges, removal : 0 .. MaxRemovals, fault : 0 .. MaxFaults]

Init ==
  /\ past = <<Device>> /\ late = {}
  /\ data = None /\ seen = 1 /\ flight = {}
  /\ refreshing = FALSE /\ mutating = FALSE
  /\ pollMs = 7000 /\ effectDue = TRUE
  /\ phase = [d \in Device |-> "no"]
  /\ spent = [change |-> 0, removal |-> 0, fault |-> 0]

Spend(what) == spent' = [spent EXCEPT ![what] = @ + 1]
Removing == {d \in Device : phase[d] # "no"}     \* removingIds

\* The rows on the screen; each has a button unless its removal is under way.
Rows == IF data = None THEN None ELSE data.devices
CanRemove(d) == Rows # None /\ d \in Rows \ Removing

-----------------------------------------------------------------------------
\* refresh(silent, force)

Skipped(silent, force) == (refreshing /\ ~force) \/ (silent /\ mutating)

Outdated(rs) == {[r EXCEPT !.latest = FALSE] : r \in rs}

Issue(owner) ==
  /\ refreshing' = TRUE
  /\ flight' = Outdated(flight) \union {[latest |-> TRUE, owner |-> owner, reply |-> Unread]}

Poll == /\ ~Skipped(TRUE, FALSE)
        /\ Cardinality(flight) < MaxFlight
        /\ Issue(None)
        /\ UNCHANGED <<server, data, seen, mutating, pollMs, effectDue, phase, spent>>

\* The interval of the effect.
Tick == ~effectDue /\ Poll
\* Copying the link or choosing a platform refreshes too.
CopyLink == Poll
SelectOption == Poll

\* The effect runs at mount and whenever pollMs has changed: not silent, so a
\* removal in progress does not hold it back.
RunEffect ==
  /\ effectDue /\ effectDue' = FALSE
  /\ IF Skipped(FALSE, FALSE) THEN UNCHANGED <<flight, refreshing>> ELSE Issue(None)
  /\ UNCHANGED <<server, data, seen, mutating, pollMs, phase, spent>>

ServerAnswers(r) ==
  /\ r.reply = Unread
  /\ \E x \in Exchange :
       LET ok == PublicOutcome(x) = "object" IN
       /\ IF ok THEN UNCHANGED spent ELSE spent.fault < MaxFaults /\ Spend("fault")
       /\ flight' = (flight \ {r}) \union
            {[r EXCEPT !.reply = IF ok THEN [ver |-> Len(past), devices |-> Last(past)] ELSE None]}
  /\ UNCHANGED <<server, data, seen, busy, pollMs, effectDue, phase>>

\* finally of removeDevice, reached when the refresh it awaits has ended.
EndRemovalKeepsButton(d) == mutating' = FALSE /\ UNCHANGED phase   \* mutant
EndRemoval(d) ==
  /\ phase' = [phase EXCEPT ![d] = "no"]
  /\ mutating' = FALSE

AppliesAny(r) == TRUE                                              \* mutant
Applies(r) == r.latest

AnsweredAtOnce(r) == TRUE                                          \* mutant
Answered(r) == r.reply # Unread

\* The flag is cleared even when a newer, forced refresh is still in flight.
KeepFlag == UNCHANGED refreshing                                   \* mutant
ClearFlag == refreshing' = FALSE

Land(r) ==
  /\ Answered(r)
  /\ flight' = flight \ {r}
  /\ ClearFlag
  /\ data' = IF Applies(r) THEN r.reply ELSE data
  /\ seen' = IF Applies(r) /\ r.reply # None THEN r.reply.ver ELSE seen
  /\ pollMs' = IF r.reply = None THEN 15000 ELSE 7000
  /\ effectDue' = (effectDue \/ pollMs' # pollMs)
  /\ IF r.owner = None THEN UNCHANGED <<phase, mutating>> ELSE EndRemoval(r.owner)
  /\ UNCHANGED <<server, spent>>

-----------------------------------------------------------------------------
\* removeDevice

RemoveDevice(d) ==
  /\ CanRemove(d)
  /\ spent.removal < MaxRemovals /\ Spend("removal")
  /\ mutating' = TRUE
  /\ flight' = Outdated(flight)                          \* refreshSeqRef += 1
  /\ data' = [data EXCEPT !.devices = @ \ {d}]
  /\ phase' = [phase EXCEPT ![d] = "sent"]
  /\ UNCHANGED <<server, seen, refreshing, pollMs, effectDue>>

Drop(d) == past' = IF d \in Last(past) THEN Append(past, Last(past) \ {d}) ELSE past

DeleteCommits(d) ==
  /\ phase[d] = "sent" /\ d \in Last(past)
  /\ Drop(d)
  /\ phase' = [phase EXCEPT ![d] = "done"]
  /\ UNCHANGED <<late, data, seen, flight, busy, pollMs, effectDue, spent>>

\* Refused: the device is gone already, or its nodes could not be updated.
DeleteRefused(d) ==
  /\ phase[d] = "sent"
  /\ d \in Last(past) => spent.fault < MaxFaults
  /\ IF d \in Last(past) THEN Spend("fault") ELSE UNCHANGED spent
  /\ phase' = [phase EXCEPT ![d] = "failed"]
  /\ UNCHANGED <<server, data, seen, flight, busy, pollMs, effectDue>>

\* The browser gives up: before the server has committed, or after.
DeleteTimesOut(d) ==
  /\ phase[d] \in {"sent", "done"}
  /\ spent.fault < MaxFaults /\ Spend("fault")
  /\ late' = IF phase[d] = "sent" THEN late \union {d} ELSE late
  /\ phase' = [phase EXCEPT ![d] = "failed"]
  /\ UNCHANGED <<past, data, seen, flight, busy, pollMs, effectDue>>

LateDelete(d) ==
  /\ d \in late /\ late' = late \ {d}
  /\ Drop(d)
  /\ UNCHANGED <<data, seen, flight, busy, pollMs, effectDue, phase, spent>>

\* refresh(false, true): nothing skips it.
DeleteReturns(d) ==
  /\ phase[d] = "done"
  /\ phase' = [phase EXCEPT ![d] = "refresh"]
  /\ Issue(d)
  /\ UNCHANGED <<server, data, seen, mutating, pollMs, effectDue, spent>>

\* refresh(true, true): mutatingRef is still set, unless another removal has
\* ended in the meantime, so this refresh is skipped and finally runs at once.
DeleteFails(d) ==
  /\ phase[d] = "failed"
  /\ IF Skipped(TRUE, TRUE)
     THEN EndRemoval(d) /\ UNCHANGED <<flight, refreshing>>
     ELSE /\ Issue(d)
          /\ phase' = [phase EXCEPT ![d] = "refresh"]
          /\ UNCHANGED mutating
  /\ UNCHANGED <<server, data, seen, pollMs, effectDue, spent>>

\* An administrator removes a device, or a device subscribes.
OthersChange ==
  /\ spent.change < MaxChanges /\ Spend("change")
  /\ \E d \in Device : past' = Append(past, IF d \in Last(past) THEN Last(past) \ {d}
                                            ELSE Last(past) \union {d})
  /\ UNCHANGED <<late, data, seen, flight, busy, pollMs, effectDue, phase>>

Next ==
  \/ Tick \/ CopyLink \/ SelectOption \/ RunEffect \/ OthersChange
  \/ \E r \in flight : ServerAnswers(r) \/ Land(r)
  \/ \E d \in Device : \/ RemoveDevice(d) \/ DeleteCommits(d) \/ DeleteRefused(d)
                       \/ DeleteTimesOut(d) \/ LateDelete(d) \/ DeleteReturns(d) \/ DeleteFails(d)

Spec == Init /\ [][Next]_vars

\* The interval keeps firing and React runs pending effects; every fetch ends,
\* by its answer or by the timer that aborts it.  A tick may supersede a refresh
\* that is still in flight (a stale one clears refreshingRef), so freshness
\* needs more: now and then the current refresh is answered before the next tick.
Fairness ==
  /\ WF_vars(Tick) /\ WF_vars(RunEffect)
  /\ \A d \in Device :
       /\ WF_vars(DeleteCommits(d) \/ DeleteRefused(d) \/ DeleteTimesOut(d))
       /\ WF_vars(DeleteReturns(d)) /\ WF_vars(DeleteFails(d)) /\ WF_vars(LateDelete(d))
  /\ \A o \in Device \union {None} :
       /\ WF_vars(\E r \in flight : r.owner = o /\ ServerAnswers(r))
       /\ WF_vars(\E r \in flight : r.owner = o /\ Land(r))
  /\ SF_vars(\E r \in flight : r.latest /\ ServerAnswers(r))
  /\ SF_vars(\E r \in flight : r.latest /\ Land(r))

FairSpec == Spec /\ Fairness

-----------------------------------------------------------------------------
\* A busy flag is never left set without a call under way that clears it: a
\* flag stuck at TRUE would end the polling of the page for good.  The flags
\* are shared by overlapping refreshes and overlapping removals.
FlagsHaveOwners ==
  /\ refreshing => flight # {}
  /\ mutating => Removing # {}
  /\ \A d \in Device : phase[d] = "refresh" <=> \E r \in flight : r.owner = d

\* The page keeps the promise of FreshView: no answer that arrives out of order
\* takes the list back, and after the last change, failure and removal (a
\* failed one leaves its row hidden) the list is the server's again.
View == INSTANCE FreshView WITH Blank <- None, shown <- Rows
KeepsFresh == View!Spec

\* Every removal ends and its button comes back.
RemovalEnds == \A d \in Device : phase[d] # "no" ~> phase[d] = "no"
=============================================================================
