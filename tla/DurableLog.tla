---------------------------- MODULE DurableLog ----------------------------
(***************************************************************************)
(* What the event log of a session promises, with no buffer, no queue and  *)
(* no failure in sight: a file of numbered lines that only grows, that     *)
(* ends with at most one stop marker and the exit line once it has         *)
(* stopped, and receipts that only name lines the file already holds.      *)
(* EventLog implements this specification.                                 *)
(***************************************************************************)
EXTENDS Integers, Sequences

CONSTANTS
  Calls,        \* callers of append, each of which gets at most one receipt
  NoReceipt     \* the receipt of a call that has not been acknowledged: no Nat

VARIABLES
  lines,        \* the records of the file, in order
  receipt       \* receipt[c]: the seq that call c was told

vars == <<lines, receipt>>

HoldsStop(s) == \E i \in DOMAIN s : s[i].kind = "stop"

\* The lines may follow one another in a file: numbered from 0 with no gap,
\* and nothing but the exit record after a stop marker.
WellFormed(s) ==
  /\ \A i \in DOMAIN s : s[i].seq = i - 1
  /\ \A i, j \in DOMAIN s : i < j /\ s[i].kind = "stop" => s[j].kind = "exit"

Init ==
  /\ WellFormed(lines)
  /\ receipt = [c \in Calls |-> NoReceipt]

\* A record becomes part of the log: the lines stay as they are and one more
\* follows, which has the next seq. Only exit follows a stop marker.
Store ==
  /\ Len(lines') = Len(lines) + 1
  /\ lines' = Append(lines, lines'[Len(lines) + 1])
  /\ lines'[Len(lines) + 1].seq = Len(lines)
  /\ HoldsStop(lines) => lines'[Len(lines) + 1].kind = "exit"
  /\ UNCHANGED receipt

\* A caller is told a seq, which the file holds by then, and never another.
Acknowledge(c) ==
  /\ receipt[c] = NoReceipt
  /\ \E s \in 0 .. Len(lines) - 1 : receipt' = [receipt EXCEPT ![c] = s]
  /\ UNCHANGED lines

Next == Store \/ \E c \in Calls : Acknowledge(c)

Spec == Init /\ [][Next]_vars
=============================================================================
