----------------------------- MODULE FreshView -----------------------------
(***************************************************************************)
(* What a polling page promises about the device list it shows: it may be  *)
(* blank, it may hide a row the visitor has just removed, and it may lag,  *)
(* but it never goes back to a list older than one it has already shown,   *)
(* and it catches up with the server again and again.                      *)
(***************************************************************************)
EXTENDS Naturals, Sequences, SequencesExt

CONSTANTS Device, Blank

VARIABLES past,     \* every device list the server has held, the last one current
          seen,     \* the index in past of the newest list the page has loaded
          shown     \* the rows on the screen, or Blank

vars == <<past, seen, shown>>

Init == past \in Seq(SUBSET Device) /\ Len(past) = 1 /\ seen = 1 /\ shown = Blank

Change == /\ \E now \in SUBSET Device : past' = Append(past, now)
          /\ UNCHANGED <<seen, shown>>

Load == /\ \E v \in seen .. Len(past) : seen' = v /\ shown' = past[v]
        /\ UNCHANGED past

Hide == /\ shown # Blank
        /\ shown' # Blank /\ shown' \subseteq shown
        /\ UNCHANGED <<past, seen>>

Lose == shown' = Blank /\ UNCHANGED <<past, seen>>

Next == Change \/ Load \/ Hide \/ Lose

Safety == Init /\ [][Next]_vars

Spec == Safety /\ []<>(shown = Last(past))
=============================================================================
