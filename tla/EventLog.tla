----------------------------- MODULE EventLog -----------------------------
(***************************************************************************)
(* The append-only event log of a session host (host/eventLog.ts).         *)
(*                                                                         *)
(* append() takes a seq and a place in the in-memory buffer at once, and   *)
(* writes the line later, when the writes queued before it have landed.    *)
(* The write queue is poisoned by the first failed write: every line       *)
(* queued behind it is rejected and rolled back. Ordinary records leave a  *)
(* reserve free at the end of the file and of the buffer; the first record *)
(* that does not fit stops the log, which then stores one stop marker and  *)
(* the exit record and acknowledges everything else without storing it.    *)
(*                                                                         *)
(* Payloads are left out: a record is its kind, its size and the call it   *)
(* was made for. A host opens its log once; `Reopen` is the next open of a *)
(* file that was closed in good order.                                     *)
(***************************************************************************)
EXTENDS Integers, Sequences

CONSTANTS
  Calls,            \* the append calls; each is made at most once
  Sizes,            \* bytes of an ordinary line
  StopBytes,        \* bytes of the stop marker's line
  ExitBytes,        \* bytes of the exit record's line
  MaxBytes,         \* options.maxBytes
  MaxEntries,       \* options.maxEntries
  ReserveBytes,     \* EVENT_LOG_TAIL_RESERVE_BYTES
  ReserveEntries,   \* EVENT_LOG_TAIL_RESERVE_ENTRIES
  InitialLogs,      \* what `open` may find: [lines, size]
  NoCall            \* the caller of a record that no call of this host made

Kinds == {"data", "exit", "stop"}

Record == [seq : Nat, kind : Kinds, bytes : Nat \ {0}, end : Nat,
           by : Calls \cup {NoCall}]

HoldsStop(s) == \E i \in DOMAIN s : s[i].kind = "stop"

\* parseEventLogContent accepts the lines: seq counts up from 0 without gaps.
Contiguous(s) == \A i \in DOMAIN s : s[i].seq = i - 1

\* After the stop marker the file holds nothing but the exit record.
StopIsLast(s) ==
  \A i, j \in DOMAIN s : i < j /\ s[i].kind = "stop" => s[j].kind = "exit"

ASSUME CallsAssumption == NoCall \notin Calls

ASSUME SizesAssumption ==
  /\ Sizes \subseteq Nat \ {0}
  /\ StopBytes \in Nat \ {0}
  /\ ExitBytes \in Nat \ {0}

\* The constructor's checks, and "Both records are far smaller than this".
ASSUME LimitsAssumption ==
  /\ ReserveBytes \in Nat /\ StopBytes + ExitBytes <= ReserveBytes
  /\ ReserveEntries = 2
  /\ MaxBytes \in Nat /\ MaxBytes > ReserveBytes
  /\ MaxEntries \in Nat /\ MaxEntries > ReserveEntries

\* A file that readers accept. `size` counts blank lines too.
ASSUME InitialLogsAssumption ==
  \A log \in InitialLogs :
    /\ log.lines \in Seq(Record) /\ log.size \in 0 .. MaxBytes
    /\ Contiguous(log.lines) /\ StopIsLast(log.lines)
    /\ Len(log.lines) <= MaxEntries
    /\ \A i \in DOMAIN log.lines : log.lines[i].by = NoCall

VARIABLES
  file,       \* the complete lines on disk
  fileSize,   \* the bytes on disk, with blank lines and a torn last line
  torn,       \* the last line was cut by a failed write or a crash
  phase,      \* fresh, open, draining, closing, closed, broken, refused, dead
  buffer,     \* this.eventBuffer
  nextSeq,    \* this.nextSeq
  fileBytes,  \* this.fileBytes: bytes once every queued write has landed
  stopped,    \* this.stopped
  pending,    \* the records whose writes hang on this.writeQueue, in order
  poisoned,   \* this.writeQueue is rejected
  drain,      \* the entries that close() waits for
  roomy,      \* observes: the log was opened with the whole reserve free
  call        \* the state of each append call and the seq it took

memory == <<buffer, nextSeq, fileBytes, stopped>>
disk == <<file, fileSize, torn>>
control == <<phase, drain, roomy>>
vars == <<disk, memory, control, pending, poisoned, call>>

IdleCall == [st |-> "idle", kind |-> "data", seq |-> 0, stored |-> FALSE]

Init ==
  /\ \E log \in InitialLogs : file = log.lines /\ fileSize = log.size
  /\ torn = FALSE
  /\ phase = "fresh"
  /\ buffer = <<>> /\ nextSeq = 0 /\ fileBytes = 0 /\ stopped = FALSE
  /\ pending = <<>> /\ poisoned = FALSE /\ drain = 0 /\ roomy = FALSE
  /\ call = [c \in Calls |-> IdleCall]
-----------------------------------------------------------------------------
(* Opening *)

Waiting(c) == call[c].st = "waiting"

\* A file of blank lines inside the reserve could not take a stop marker.
BlankAndFull == file = <<>> /\ fileSize > MaxBytes - ReserveBytes

\* Mutant: a reopened log forgets that it had stopped.
LoadRunning ==
  IF BlankAndFull
  THEN phase' = "refused" /\ UNCHANGED <<memory, roomy, drain>>
  ELSE /\ phase' = "open" /\ buffer' = file /\ nextSeq' = Len(file)
       /\ fileBytes' = fileSize /\ stopped' = FALSE /\ drain' = 0
       /\ roomy' = FALSE

Load ==
  IF BlankAndFull
  THEN phase' = "refused" /\ UNCHANGED <<memory, roomy, drain>>
  ELSE /\ phase' = "open"
       /\ buffer' = file
       /\ nextSeq' = IF file = <<>> THEN 0 ELSE file[Len(file)].seq + 1
       /\ fileBytes' = fileSize
       /\ stopped' = HoldsStop(file)
       /\ drain' = 0
       /\ roomy' = (/\ fileSize <= MaxBytes - ReserveBytes
                    /\ Len(file) <= MaxEntries - ReserveEntries)

Open ==
  /\ phase = "fresh"
  /\ Load
  /\ UNCHANGED <<disk, pending, poisoned, call>>

\* The next open of a file that was closed with every write landed.
Reopen ==
  /\ phase = "closed" /\ pending = <<>> /\ ~poisoned
  /\ \A c \in Calls : ~Waiting(c)
  /\ \E c \in Calls : call[c].st = "idle"
  /\ Load
  /\ UNCHANGED <<disk, pending, poisoned, call>>
-----------------------------------------------------------------------------
(* Appending *)

\* `end` is where the line ends in the file if every queued write lands.
Line(kind, bytes, c) ==
  [seq |-> nextSeq, kind |-> kind, bytes |-> bytes,
   end |-> fileBytes + bytes, by |-> c]

\* Mutant: the exit record has no claim on the reserve.
FitsWithoutReserve(kind, bytes) ==
  /\ bytes <= MaxBytes - fileBytes - ReserveBytes
  /\ Len(buffer) + 1 <= MaxEntries - ReserveEntries

\* findStopReason returns undefined: the record passes neither limit.
Fits(kind, bytes) ==
  /\ bytes <= MaxBytes - fileBytes - (IF kind = "exit" THEN 0 ELSE ReserveBytes)
  /\ Len(buffer) + 1 <= MaxEntries - (IF kind = "exit" THEN 0 ELSE ReserveEntries)

\* Mutant: the marker is not measured against a reserve that is used up.
StopAlwaysFits == TRUE

StopFits == StopBytes <= MaxBytes - fileBytes /\ Len(buffer) + 1 <= MaxEntries

\* The state updates of `enqueue`. The write itself happens later.
Enqueue(r) ==
  /\ buffer' = Append(buffer, r)
  /\ nextSeq' = nextSeq + 1
  /\ fileBytes' = fileBytes + r.bytes
  /\ pending' = Append(pending, r)

\* Mutant: the log stops without leaving a marker.
StopSilently == stopped' = TRUE /\ UNCHANGED <<buffer, nextSeq, fileBytes, pending>>

\* recordStop: the marker goes into the reserve, unless a log that this host
\* did not write has filled it.
RecordStop ==
  /\ stopped' = TRUE
  /\ IF StopFits THEN Enqueue(Line("stop", StopBytes, NoCall))
                 ELSE UNCHANGED <<buffer, nextSeq, fileBytes, pending>>

Took(c, kind, stored, seq) ==
  call' = [call EXCEPT ![c] = [st |-> "waiting", kind |-> kind, seq |-> seq,
                               stored |-> stored]]

\* acknowledgeUnstored(n) with n the next seq. Its promise is chained on the
\* write queue, so it is rejected at once when the queue is poisoned. With no
\* earlier record its invariant throws.
AcknowledgeUnstored(c, kind, n) ==
  call' = [call EXCEPT ![c] =
             [st |-> IF n = 0 THEN "threw"
                     ELSE IF poisoned THEN "rejected" ELSE "waiting",
              kind |-> kind, seq |-> IF n = 0 THEN 0 ELSE n - 1,
              stored |-> FALSE]]

\* queueAppend. A host records one exit (handlePtyExit runs once).
QueueAppend(c, kind, bytes) ==
  /\ phase \in {"open", "draining", "closing", "broken"}
  /\ call[c].st = "idle"
  /\ kind = "exit" => \A d \in Calls : call[d].kind # "exit"
  /\ \/ /\ stopped /\ kind # "exit"
        /\ AcknowledgeUnstored(c, kind, nextSeq)
        /\ UNCHANGED <<memory, pending>>
     \/ /\ ~(stopped /\ kind # "exit") /\ Fits(kind, bytes)
        /\ Enqueue(Line(kind, bytes, c))
        /\ Took(c, kind, TRUE, nextSeq)
        /\ UNCHANGED stopped
     \/ /\ ~stopped /\ ~Fits(kind, bytes)
        /\ RecordStop
        /\ AcknowledgeUnstored(c, kind, nextSeq')
     \/ /\ stopped /\ kind = "exit" /\ ~Fits(kind, bytes)
        /\ AcknowledgeUnstored(c, kind, nextSeq)
        /\ UNCHANGED <<memory, pending>>
  /\ UNCHANGED <<disk, control, poisoned>>

\* A closed log throws, and a caller cannot forge a stop marker: its label
\* carries the reserved prefix and append refuses it.
Refuse(c) ==
  /\ phase \in {"open", "draining", "closing", "broken", "closed"}
  /\ call[c].st = "idle"
  /\ call' = [call EXCEPT ![c].st = "rejected"]
  /\ UNCHANGED <<disk, memory, control, pending, poisoned>>

AppendCall(c) ==
  \/ \E bytes \in Sizes : QueueAppend(c, "data", bytes)
  \/ QueueAppend(c, "exit", ExitBytes)
  \/ Refuse(c)
-----------------------------------------------------------------------------
(* Writing: the head of the queue is the only write under way *)

\* Mutant: the rollback starts one record too early.
RollbackTooFar(seq) ==
  IF Len(buffer) <= seq
  THEN UNCHANGED <<buffer, nextSeq>>
  ELSE /\ buffer' = SubSeq(buffer, 1, seq - 1)
       /\ nextSeq' = IF seq = 0 THEN 0 ELSE seq - 1

\* rollbackBufferedEventsFrom: the buffer loses the record and all after it.
Rollback(seq) ==
  IF Len(buffer) <= seq
  THEN UNCHANGED <<buffer, nextSeq>>
  ELSE buffer' = SubSeq(buffer, 1, seq) /\ nextSeq' = seq

\* Mutant: the queue recovers after a failure, as the PTY ingestion queue does.
WriteLandsAfterFailure ==
  /\ pending # <<>> /\ phase \notin {"closed", "dead"}
  /\ file' = Append(file, Head(pending))
  /\ fileSize' = fileSize + Head(pending).bytes
  /\ pending' = Tail(pending)
  /\ UNCHANGED <<torn, memory, control, poisoned, call>>

\* The handle is gone after close(), so a write queued behind it fails.
WriteLands ==
  /\ pending # <<>> /\ ~poisoned /\ phase \notin {"closed", "dead"}
  /\ file' = Append(file, Head(pending))
  /\ fileSize' = fileSize + Head(pending).bytes
  /\ pending' = Tail(pending)
  /\ UNCHANGED <<torn, memory, control, poisoned, call>>

\* The write fails, perhaps after some bytes of the line reached the disk.
WriteFails ==
  /\ pending # <<>> /\ ~poisoned /\ phase # "dead"
  /\ \E n \in 0 .. Head(pending).bytes - 1 :
       fileSize' = fileSize + n /\ torn' = (n > 0)
  /\ poisoned' = TRUE
  /\ pending' = Tail(pending)
  /\ Rollback(Head(pending).seq)
  /\ UNCHANGED <<file, fileBytes, stopped, control, call>>

\* A write queued behind a failed one inherits the rejection, in its turn.
WriteInheritsFailure ==
  /\ pending # <<>> /\ poisoned /\ phase # "dead"
  /\ pending' = Tail(pending)
  /\ Rollback(Head(pending).seq)
  /\ UNCHANGED <<disk, fileBytes, stopped, control, poisoned, call>>

WriteSettles == WriteLands \/ WriteFails \/ WriteInheritsFailure

InQueue(c) == \E i \in DOMAIN pending : pending[i].by = c

\* Mutant: a call is acknowledged without waiting for its write.
CallSettlesEarly(c) ==
  /\ Waiting(c) /\ phase # "dead"
  /\ call' = [call EXCEPT ![c].st = IF poisoned THEN "rejected" ELSE "acked"]
  /\ UNCHANGED <<disk, memory, control, pending, poisoned>>

\* Mutant: a rejection never reaches the call.
CallSettlesOnSuccess(c) ==
  /\ Waiting(c) /\ phase # "dead" /\ call[c].seq < Len(file)
  /\ call' = [call EXCEPT ![c].st = "acked"]
  /\ UNCHANGED <<disk, memory, control, pending, poisoned>>

\* The promise of the call settles: fulfilled once its seq is on disk,
\* rejected when the queue was poisoned before that.
CallSettles(c) ==
  /\ Waiting(c) /\ phase # "dead"
  /\ \/ /\ call[c].seq < Len(file)
        /\ call' = [call EXCEPT ![c].st = "acked"]
     \/ /\ call[c].seq >= Len(file) /\ poisoned /\ ~InQueue(c)
        /\ call' = [call EXCEPT ![c].st = "rejected"]
  /\ UNCHANGED <<disk, memory, control, pending, poisoned>>
-----------------------------------------------------------------------------
(* Closing and crashing *)

\* close() awaits the write queue as it is now; isClosed is not set yet.
CloseBegins ==
  /\ phase = "open"
  /\ phase' = IF poisoned THEN "broken" ELSE "draining"
  /\ drain' = Len(buffer)
  /\ UNCHANGED <<disk, memory, roomy, pending, poisoned, call>>

CloseDrained ==
  /\ phase = "draining"
  /\ \/ Len(file) >= drain /\ phase' = "closing"
     \/ Len(file) < drain /\ poisoned /\ phase' = "broken"
  /\ UNCHANGED <<disk, memory, drain, roomy, pending, poisoned, call>>

\* sync and close settle; when one of them rejects isClosed stays unset.
CloseEnds ==
  /\ phase = "closing"
  /\ phase' \in {"closed", "broken"}
  /\ UNCHANGED <<disk, memory, drain, roomy, pending, poisoned, call>>

\* The host dies with a write under way: it may land, be cut or be lost.
Crash ==
  /\ phase \in {"open", "draining", "closing", "broken"}
  /\ phase' = "dead"
  /\ \/ UNCHANGED disk
     \/ /\ pending # <<>> /\ ~poisoned
        /\ file' = Append(file, Head(pending))
        /\ fileSize' = fileSize + Head(pending).bytes
        /\ UNCHANGED torn
     \/ /\ pending # <<>> /\ ~poisoned /\ torn' = TRUE
        /\ \E n \in 1 .. Head(pending).bytes - 1 : fileSize' = fileSize + n
        /\ UNCHANGED file
  /\ UNCHANGED <<memory, drain, roomy, pending, poisoned, call>>

Next ==
  \/ Open \/ Reopen
  \/ \E c \in Calls : AppendCall(c) \/ CallSettles(c)
  \/ WriteSettles
  \/ CloseBegins \/ CloseDrained \/ CloseEnds
  \/ Crash

SafeSpec == Init /\ [][Next]_vars

\* The runtime settles every write and every promise of a living host.
Fairness ==
  /\ WF_vars(WriteSettles)
  /\ \A c \in Calls : WF_vars(CallSettles(c))
  /\ WF_vars(CloseDrained) /\ WF_vars(CloseEnds)

Spec == SafeSpec /\ Fairness
-----------------------------------------------------------------------------
(* Properties *)

CallRecord == [st : {"idle", "waiting", "acked", "rejected", "threw"},
               kind : Kinds, seq : Nat, stored : BOOLEAN]

\* Every variable stays in its type, whatever is appended, lost or closed.
TypeOK ==
  /\ file \in Seq(Record) /\ buffer \in Seq(Record) /\ pending \in Seq(Record)
  /\ fileSize \in Nat /\ nextSeq \in Nat /\ fileBytes \in Nat /\ drain \in Nat
  /\ torn \in BOOLEAN /\ stopped \in BOOLEAN /\ poisoned \in BOOLEAN
  /\ roomy \in BOOLEAN
  /\ phase \in {"fresh", "open", "draining", "closing", "closed", "broken",
                "refused", "dead"}
  /\ call \in [Calls -> CallRecord]

\* The file a reader parses never shows a gap, a repeated seq, a second stop
\* marker or anything but the exit record behind one, though seqs are handed
\* out before the writes that may fail ("without sequence gaps").
FileIsWellFormed == Contiguous(file) /\ StopIsLast(file)

\* An append that was acknowledged is in the file at the seq it was told, even
\* after later failures, rollbacks that hand the seq out again, close or crash.
AckedIsDurable ==
  \A c \in Calls :
    call[c].st = "acked" =>
      /\ call[c].seq < Len(file)
      /\ call[c].stored => file[call[c].seq + 1].by = c

\* The file never passes the limits its readers enforce, torn bytes included.
WithinLimits == fileSize <= MaxBytes /\ Len(file) <= MaxEntries

\* A caller told that its record was taken, when it was dropped, can find the
\* stop marker at or before the seq it was told: nothing is dropped silently.
\* The assertion of acknowledgeUnstored ("must hold an earlier record") fails
\* only after a write has failed.
DropIsExplained ==
  \A c \in Calls :
    /\ call[c].st = "acked" /\ ~call[c].stored /\ roomy =>
         \E i \in 1 .. call[c].seq + 1 : file[i].kind = "stop"
    /\ call[c].st = "threw" => poisoned

\* The reserve is enough for the stop marker and the exit record together: a
\* log that was opened with its reserve free never drops the exit record.
ExitIsStored ==
  \A c \in Calls :
    roomy /\ call[c].kind = "exit" /\ call[c].st \in {"waiting", "acked"} =>
      call[c].stored

\* What readers of the buffer have seen of a durable record never changes: a
\* rollback takes back only records that are not on disk.
DurableEventsAreStable ==
  [][\A i \in DOMAIN file :
       phase \in {"open", "draining", "closing", "broken"} =>
         i \in DOMAIN buffer' /\ buffer'[i] = file[i]]_vars

\* Every append settles, or its host dies: no caller waits for ever.
AppendsSettle ==
  \A c \in Calls : Waiting(c) ~> (~Waiting(c) \/ phase = "dead")
-----------------------------------------------------------------------------
(* The log implements its abstract contract *)

Receipts == [c \in Calls |-> IF call[c].st = "acked" THEN call[c].seq ELSE -1]

Contract == INSTANCE DurableLog WITH lines <- file, receipt <- Receipts,
                                     NoReceipt <- -1

ImplementsContract == Contract!Spec
=============================================================================
