-------------------------- MODULE SessionContract --------------------------
(***************************************************************************)
(* What agent-tty promises about one session, whoever crashes and however  *)
(* many commands run at once: the session ends once, `destroyed` is only   *)
(* recorded and the folder only removed when the program that the session  *)
(* names is over, and neither is ever taken back.                          *)
(***************************************************************************)
VARIABLES
  outcome,   \* what readers conclude: active, ended, destroyed, removed
  over       \* the program that the session's files name is over

vars == <<outcome, over>>

Init == outcome \in {"active", "ended"} /\ over \in BOOLEAN

\* The program starts and ends while the session is active; what it left
\* behind can end later.
ProgramChanges ==
  /\ outcome = "active" \/ over'
  /\ over' \in BOOLEAN
  /\ UNCHANGED outcome

End == outcome = "active" /\ outcome' = "ended" /\ over' \in BOOLEAN

Destroy ==
  /\ outcome \in {"active", "ended"} /\ outcome' = "destroyed"
  /\ over'

Remove ==
  /\ outcome \in {"ended", "destroyed"} /\ outcome' = "removed"
  /\ over /\ over'

Next == ProgramChanges \/ End \/ Destroy \/ Remove

Spec == Init /\ [][Next]_vars
=============================================================================
