-------------------------- MODULE EventLogProofs --------------------------
(***************************************************************************)
(* Proofs about the event log, for every set of calls, every limit and     *)
(* every file that may be opened. The inductive invariant DurableInv ties  *)
(* the three views of the log together: what is on disk, what is in the    *)
(* buffer, and what hangs on the write queue. The last part adds what the  *)
(* log has used of its reserve so far (ReserveInv).                        *)
(***************************************************************************)
EXTENDS EventLog, SequenceTheorems, TLAPS

\* The host has the log open, or has just closed it: its memory is in use.
Live == phase \in {"open", "draining", "closing", "broken", "closed"}

\* The file is the beginning of the buffer, and the buffer is numbered.
FileIsPrefix ==
  /\ Len(file) <= Len(buffer)
  /\ \A i \in 1 .. Len(file) : buffer[i] = file[i]
  /\ nextSeq = Len(buffer)
  /\ \A i \in 1 .. Len(buffer) : buffer[i].seq = i - 1

\* The buffer never holds more than exit behind a stop marker.
BufferStops ==
  /\ StopIsLast(buffer)
  /\ HoldsStop(buffer) => stopped
  /\ Len(buffer) <= MaxEntries

\* While no write has failed, the queue holds what the file still lacks.
QueueIsRest ==
  ~poisoned =>
    /\ Len(buffer) = Len(file) + Len(pending)
    /\ \A j \in 1 .. Len(pending) : pending[j] = buffer[Len(file) + j]

\* After a failure, nothing that is queued can reach back into the file.
QueueIsPhantom == poisoned => \A j \in 1 .. Len(pending) : pending[j].seq >= Len(file)

\* Each queued line ends where the accounting of `fileBytes` says.
BytesAddUp ==
  ~poisoned =>
    /\ IF pending = <<>> THEN fileBytes = fileSize
       ELSE /\ pending[1].end = fileSize + pending[1].bytes
            /\ pending[Len(pending)].end = fileBytes
    /\ \A j \in 1 .. Len(pending) : pending[j].end <= MaxBytes
    /\ \A j \in 2 .. Len(pending) :
         pending[j].end = pending[j - 1].end + pending[j].bytes

\* A caller that still may be acknowledged as stored finds its own record.
WaitingFindsRecord ==
  \A c \in Calls :
    /\ Waiting(c) /\ call[c].stored
    /\ call[c].seq < Len(file) \/ ~poisoned
    => call[c].seq < Len(buffer) /\ buffer[call[c].seq + 1].by = c

DurableInv ==
  /\ TypeOK
  /\ FileIsWellFormed
  /\ WithinLimits
  /\ AckedIsDurable
  /\ Live => /\ FileIsPrefix
             /\ BufferStops
             /\ QueueIsRest
             /\ QueueIsPhantom
             /\ BytesAddUp
             /\ WaitingFindsRecord
  /\ phase \in {"fresh", "refused"} =>
       pending = <<>> /\ ~poisoned /\ \A c \in Calls : ~Waiting(c)
-----------------------------------------------------------------------------
(* Types *)

\* A line that is built while the memory of the log is well typed is a record.
LEMMA LineType ==
  ASSUME TypeOK, NEW c \in Calls \cup {NoCall}, NEW kind \in Kinds,
         NEW bytes \in Nat \ {0}
  PROVE  Line(kind, bytes, c) \in Record
BY DEF TypeOK, Line, Record

\* Rolling back keeps the types of what it assigns.
LEMMA RollbackType ==
  ASSUME TypeOK, NEW s \in Nat, Rollback(s)
  PROVE  buffer' \in Seq(Record) /\ nextSeq' \in Nat
<1>1. CASE Len(buffer) <= s
  BY <1>1 DEF TypeOK, Rollback
<1>2. CASE ~(Len(buffer) <= s)
  <2>1. SubSeq(buffer, 1, s) \in Seq(Record)
    BY <1>2 DEF TypeOK
  <2>. QED BY <1>2, <2>1 DEF Rollback
<1>. QED BY <1>1, <1>2

LEMMA InitType == Init => TypeOK
<1> SUFFICES ASSUME Init PROVE TypeOK
  OBVIOUS
<1>1. file \in Seq(Record) /\ fileSize \in Nat
  BY InitialLogsAssumption, LimitsAssumption DEF Init
<1>2. call \in [Calls -> CallRecord]
  BY DEF Init, IdleCall, CallRecord, Kinds
<1>3. <<>> \in Seq(Record) /\ 0 \in Nat
  OBVIOUS
<1>4. /\ torn \in BOOLEAN /\ stopped \in BOOLEAN /\ poisoned \in BOOLEAN
      /\ roomy \in BOOLEAN /\ phase = "fresh"
  BY DEF Init
<1>. QED BY <1>1, <1>2, <1>3, <1>4 DEF Init, TypeOK

LEMMA LoadType ==
  ASSUME TypeOK, Load, UNCHANGED <<disk, pending, poisoned, call>>
  PROVE  TypeOK'
<1>1. ASSUME file # <<>> PROVE file[Len(file)].seq + 1 \in Nat
  <2>1. Len(file) \in 1 .. Len(file)
    BY <1>1 DEF TypeOK
  <2>2. file[Len(file)] \in Record
    BY <2>1 DEF TypeOK
  <2>. QED BY <2>2 DEF Record
<1>2. stopped' \in BOOLEAN
  <2>1. CASE BlankAndFull
    BY <2>1 DEF TypeOK, Load, memory
  <2>2. CASE ~BlankAndFull
    BY <2>2, Zenon DEF TypeOK, Load, HoldsStop
  <2>. QED BY <2>1, <2>2
<1>4. roomy' \in BOOLEAN
  <2>1. CASE BlankAndFull
    BY <2>1 DEF TypeOK, Load
  <2>2. CASE ~BlankAndFull
    BY <2>2, Zenon DEF TypeOK, Load
  <2>. QED BY <2>1, <2>2
<1>3. nextSeq' \in Nat /\ fileBytes' \in Nat /\ drain' \in Nat
  <2>1. CASE BlankAndFull
    BY <2>1 DEF TypeOK, Load, memory
  <2>2. CASE ~BlankAndFull
    <3>1. nextSeq' \in Nat
      BY <1>1, <2>2 DEF Load
    <3>. QED BY <2>2, <3>1 DEF TypeOK, Load
  <2>. QED BY <2>1, <2>2
<1>5. /\ file' = file /\ fileSize' = fileSize /\ torn' = torn
      /\ pending' = pending /\ poisoned' = poisoned /\ call' = call
      /\ phase' \in {"open", "refused"} /\ buffer' \in Seq(Record)
  BY DEF TypeOK, Load, disk, memory
<1>. QED BY <1>2, <1>3, <1>4, <1>5 DEF TypeOK

LEMMA AppendType ==
  ASSUME TypeOK, NEW c \in Calls, NEW kind \in {"data", "exit"},
         NEW bytes \in Nat \ {0}, QueueAppend(c, kind, bytes)
  PROVE  TypeOK'
<1> USE DEF QueueAppend, TypeOK, disk, memory, control
<1>a. ASSUME NEW n \in Nat, AcknowledgeUnstored(c, kind, n)
      PROVE  call' \in [Calls -> CallRecord]
  BY <1>a DEF AcknowledgeUnstored, CallRecord, Kinds
<1>b. ASSUME NEW r \in Record, Enqueue(r)
      PROVE  /\ buffer' \in Seq(Record) /\ pending' \in Seq(Record)
             /\ nextSeq' \in Nat /\ fileBytes' \in Nat
  BY <1>b DEF Enqueue, Record
<1>1. CASE stopped /\ kind # "exit" /\ AcknowledgeUnstored(c, kind, nextSeq)
           /\ UNCHANGED <<memory, pending>>
  BY <1>1, <1>a
<1>2. CASE Enqueue(Line(kind, bytes, c)) /\ Took(c, kind, TRUE, nextSeq)
           /\ UNCHANGED stopped
  <2>1. Line(kind, bytes, c) \in Record
    BY LineType DEF Kinds
  <2>2. call' \in [Calls -> CallRecord]
    BY <1>2 DEF Took, CallRecord, Kinds
  <2>. QED BY <1>2, <1>b, <2>1, <2>2
<1>3. CASE RecordStop /\ AcknowledgeUnstored(c, kind, nextSeq')
  <2>1. Line("stop", StopBytes, NoCall) \in Record
    BY LineType, SizesAssumption DEF Kinds
  <2>2. /\ buffer' \in Seq(Record) /\ pending' \in Seq(Record)
        /\ nextSeq' \in Nat /\ fileBytes' \in Nat /\ stopped' \in BOOLEAN
    BY <1>3, <1>b, <2>1 DEF RecordStop
  <2>. QED BY <1>3, <1>a, <2>2
<1>4. CASE stopped /\ AcknowledgeUnstored(c, kind, nextSeq)
           /\ UNCHANGED <<memory, pending>>
  BY <1>4, <1>a
<1>. QED BY <1>1, <1>2, <1>3, <1>4

\* Every step keeps every variable in its type.
LEMMA NextType == TypeOK /\ [Next]_vars => TypeOK'
<1> SUFFICES ASSUME TypeOK, [Next]_vars PROVE TypeOK'
  OBVIOUS
<1>1. CASE Open
  BY <1>1, LoadType DEF Open
<1>2. CASE Reopen
  BY <1>2, LoadType DEF Reopen
<1>3. ASSUME NEW c \in Calls, AppendCall(c) PROVE TypeOK'
  <2>1. ASSUME NEW bytes \in Sizes, QueueAppend(c, "data", bytes) PROVE TypeOK'
    BY <2>1, AppendType, SizesAssumption
  <2>2. CASE QueueAppend(c, "exit", ExitBytes)
    BY <2>2, AppendType, SizesAssumption
  <2>3. CASE Refuse(c)
    BY <2>3 DEF Refuse, TypeOK, disk, memory, control, CallRecord
  <2>. QED BY <1>3, <2>1, <2>2, <2>3 DEF AppendCall
<1>4. ASSUME NEW c \in Calls, CallSettles(c) PROVE TypeOK'
  BY <1>4 DEF CallSettles, TypeOK, disk, memory, control, CallRecord
<1>5. CASE WriteSettles
  <2>0. pending # <<>>
    BY <1>5 DEF WriteSettles, WriteLands, WriteFails, WriteInheritsFailure
  <2>1. Head(pending) \in Record /\ Tail(pending) \in Seq(Record)
    BY <2>0 DEF TypeOK
  <2>2. Head(pending).seq \in Nat /\ Head(pending).bytes \in Nat
    BY <2>1 DEF Record
  <2>3. CASE WriteLands
    <3>1. Append(file, Head(pending)) \in Seq(Record)
      BY <2>1 DEF TypeOK
    <3>. QED BY <2>1, <2>2, <2>3, <3>1 DEF WriteLands, TypeOK, memory, control
  <2>4. CASE WriteFails
    <3>1. fileSize' \in Nat /\ torn' \in BOOLEAN
      BY <2>2, <2>4 DEF WriteFails, TypeOK
    <3>2. buffer' \in Seq(Record) /\ nextSeq' \in Nat
      BY <2>2, <2>4, RollbackType DEF WriteFails
    <3>. QED BY <2>1, <2>4, <3>1, <3>2 DEF WriteFails, TypeOK, control
  <2>5. CASE WriteInheritsFailure
    <3>1. buffer' \in Seq(Record) /\ nextSeq' \in Nat
      BY <2>2, <2>5, RollbackType DEF WriteInheritsFailure
    <3>. QED BY <2>1, <2>5, <3>1 DEF WriteInheritsFailure, TypeOK, disk, control
  <2>. QED BY <1>5, <2>3, <2>4, <2>5 DEF WriteSettles
<1>6. CASE CloseBegins
  BY <1>6 DEF CloseBegins, TypeOK, disk, memory
<1>7. CASE CloseDrained
  BY <1>7 DEF CloseDrained, TypeOK, disk, memory
<1>8. CASE CloseEnds
  BY <1>8 DEF CloseEnds, TypeOK, disk, memory
<1>9. CASE Crash
  <2>1. CASE UNCHANGED disk
    BY <1>9, <2>1 DEF Crash, TypeOK, disk, memory
  <2>2. CASE pending # <<>> /\ file' = Append(file, Head(pending))
             /\ fileSize' = fileSize + Head(pending).bytes /\ UNCHANGED torn
    <3>1. Head(pending) \in Record
      BY <2>2 DEF TypeOK
    <3>2. Append(file, Head(pending)) \in Seq(Record)
      BY <3>1 DEF TypeOK
    <3>3. fileSize + Head(pending).bytes \in Nat
      BY <3>1 DEF TypeOK, Record
    <3>. QED BY <1>9, <2>2, <3>2, <3>3 DEF Crash, TypeOK, memory
  <2>3. CASE torn' = TRUE /\ UNCHANGED file /\ pending # <<>>
             /\ \E n \in 1 .. Head(pending).bytes - 1 : fileSize' = fileSize + n
    <3>1. fileSize' \in Nat
      BY <2>3 DEF TypeOK
    <3>. QED BY <1>9, <2>3, <3>1 DEF Crash, TypeOK, memory
  <2>. QED BY <1>9, <2>1, <2>2, <2>3 DEF Crash
<1>10. CASE UNCHANGED vars
  BY <1>10 DEF vars, TypeOK, disk, memory, control
<1>. QED BY <1>1, <1>2, <1>3, <1>4, <1>5, <1>6, <1>7, <1>8, <1>9, <1>10 DEF Next

\* Type correctness: no append, failure, close or crash takes a variable of
\* the log out of its type, whatever the limits and the calls are.
THEOREM TypeCorrect == SafeSpec => []TypeOK
<1>1. Init => TypeOK
  BY InitType
<1>2. TypeOK /\ [Next]_vars => TypeOK'
  BY NextType
<1>. QED BY <1>1, <1>2, PTL DEF SafeSpec
-----------------------------------------------------------------------------
(* The durable file: the inductive invariant is preserved by every step *)

BufferInv == FileIsPrefix /\ BufferStops /\ QueueIsRest /\ QueueIsPhantom /\ BytesAddUp

LEMMA InitDurable == Init => DurableInv
<1> SUFFICES ASSUME Init PROVE DurableInv
  OBVIOUS
<1>1. TypeOK
  BY InitType
<1>2. PICK log \in InitialLogs : file = log.lines /\ fileSize = log.size
  BY DEF Init
<1>3. FileIsWellFormed /\ WithinLimits
  BY <1>2, InitialLogsAssumption, LimitsAssumption
     DEF FileIsWellFormed, WithinLimits
<1>4. \A c \in Calls : call[c].st = "idle"
  BY DEF Init, IdleCall
<1>5. AckedIsDurable /\ \A c \in Calls : ~Waiting(c)
  BY <1>4 DEF AckedIsDurable, Waiting
<1>. QED BY <1>1, <1>3, <1>5 DEF DurableInv, Init, Live

\* Opening a file with an idle queue: the buffer becomes the file.
LEMMA LoadDurable ==
  ASSUME DurableInv, TypeOK', Load, UNCHANGED <<disk, pending, poisoned, call>>,
         pending = <<>>, ~poisoned, \A c \in Calls : ~Waiting(c)
  PROVE  DurableInv'
<1>1. UNCHANGED <<file, fileSize, torn, pending, poisoned, call>>
  BY DEF disk
<1>2. FileIsWellFormed' /\ WithinLimits' /\ AckedIsDurable'
  BY <1>1 DEF DurableInv, FileIsWellFormed, Contiguous, StopIsLast,
              WithinLimits, AckedIsDurable
<1>3. \A c \in Calls : ~Waiting(c)'
  BY <1>1 DEF Waiting
<1>4. CASE BlankAndFull
  <2>1. phase' = "refused"
    BY <1>4 DEF Load
  <2>. QED BY <1>1, <1>2, <1>3, <2>1 DEF DurableInv, Live
<1>5. CASE ~BlankAndFull
  <2>1. phase' = "open" /\ buffer' = file /\ fileBytes' = fileSize
    BY <1>5 DEF Load
  <2>2. nextSeq' = Len(file)
    <3>1. CASE file = <<>>
      BY <1>5, <3>1 DEF Load
    <3>2. CASE file # <<>>
      <4>1. Len(file) \in DOMAIN file
        BY <3>2 DEF DurableInv, TypeOK
      <4>2. file[Len(file)].seq = Len(file) - 1
        BY <4>1 DEF DurableInv, FileIsWellFormed, Contiguous
      <4>. QED BY <1>5, <3>2, <4>2 DEF Load, DurableInv, TypeOK
    <3>. QED BY <3>1, <3>2
  <2>3. FileIsPrefix'
    BY <1>1, <2>1, <2>2 DEF FileIsPrefix, DurableInv, TypeOK, FileIsWellFormed, Contiguous
  <2>4. stopped' = HoldsStop(file)
    BY <1>5 DEF Load
  <2>5. BufferStops'
    <3>1. StopIsLast(buffer)'
      BY <2>1 DEF DurableInv, FileIsWellFormed, StopIsLast
    <3>2. HoldsStop(buffer)' => stopped'
      BY <2>1, <2>4 DEF HoldsStop
    <3>. QED BY <2>1, <3>1, <3>2 DEF BufferStops, DurableInv, WithinLimits
  <2>6. QueueIsRest' /\ QueueIsPhantom' /\ BytesAddUp'
    BY <1>1, <2>1 DEF QueueIsRest, QueueIsPhantom, BytesAddUp, DurableInv, TypeOK
  <2>7. WaitingFindsRecord'
    BY <1>3 DEF WaitingFindsRecord, Waiting
  <2>. QED BY <1>2, <2>1, <2>3, <2>5, <2>6, <2>7 DEF DurableInv
<1>. QED BY <1>4, <1>5

\* Taking a record that fits keeps file, buffer and queue in step.
LEMMA EnqueueBuffer ==
  ASSUME TypeOK, BufferInv, WithinLimits, NEW r \in Record, Enqueue(r),
         r.seq = nextSeq, r.end = fileBytes + r.bytes,
         fileBytes + r.bytes <= MaxBytes, Len(buffer) + 1 <= MaxEntries,
         stopped => stopped', r.kind = "stop" => stopped',
         stopped => r.kind = "exit",
         UNCHANGED <<file, fileSize, poisoned>>
  PROVE  BufferInv'
<1>0. /\ Len(file) \in Nat /\ Len(buffer) \in Nat /\ Len(pending) \in Nat
      /\ fileBytes \in Nat /\ fileSize \in Nat /\ nextSeq \in Nat
      /\ r.bytes \in Nat /\ fileBytes' = fileBytes + r.bytes
      /\ nextSeq' = nextSeq + 1 /\ file' = file /\ fileSize' = fileSize
      /\ poisoned' = poisoned
  BY DEF TypeOK, Record, Enqueue
<1>1. /\ buffer' = Append(buffer, r) /\ Len(buffer') = Len(buffer) + 1
      /\ \A i \in 1 .. Len(buffer) : buffer'[i] = buffer[i]
      /\ buffer'[Len(buffer) + 1] = r
  BY DEF TypeOK, Enqueue
<1>2. /\ pending' = Append(pending, r) /\ Len(pending') = Len(pending) + 1
      /\ \A i \in 1 .. Len(pending) : pending'[i] = pending[i]
      /\ pending'[Len(pending) + 1] = r
  BY DEF TypeOK, Enqueue
<1>3. FileIsPrefix'
  <2>1. FileIsPrefix
    BY DEF BufferInv
  <2>2. \A i \in 1 .. Len(file) : buffer'[i] = file[i]
    BY <1>0, <1>1, <2>1 DEF FileIsPrefix
  <2>3. \A i \in 1 .. Len(buffer) + 1 : buffer'[i].seq = i - 1
    BY <1>0, <1>1, <2>1 DEF FileIsPrefix
  <2>. QED BY <1>0, <1>1, <2>1, <2>2, <2>3 DEF FileIsPrefix
<1>4. BufferStops'
  <2>1. StopIsLast(buffer)'
    <3>1. SUFFICES ASSUME NEW i \in 1 .. Len(buffer) + 1,
                          NEW j \in 1 .. Len(buffer) + 1,
                          i < j, buffer'[i].kind = "stop"
                   PROVE  buffer'[j].kind = "exit"
      BY <1>0, <1>1 DEF StopIsLast
    <3>2. CASE j \in 1 .. Len(buffer)
      BY <1>0, <1>1, <3>1, <3>2 DEF BufferInv, BufferStops, StopIsLast
    <3>3. CASE j = Len(buffer) + 1
      <4>1. HoldsStop(buffer)
        BY <1>0, <1>1, <3>1, <3>3 DEF HoldsStop
      <4>. QED BY <1>0, <1>1, <3>3, <4>1 DEF BufferInv, BufferStops
    <3>. QED BY <3>2, <3>3
  <2>2. HoldsStop(buffer)' => stopped'
    <3>1. HoldsStop(buffer)' => HoldsStop(buffer) \/ r.kind = "stop"
      BY <1>0, <1>1 DEF HoldsStop
    <3>. QED BY <3>1 DEF BufferInv, BufferStops
  <2>. QED BY <1>0, <1>1, <2>1, <2>2 DEF BufferStops
<1>5. QueueIsRest'
  <2>1. SUFFICES ASSUME ~poisoned PROVE QueueIsRest'
    BY DEF QueueIsRest
  <2>2. /\ Len(buffer) = Len(file) + Len(pending)
        /\ \A j \in 1 .. Len(pending) : pending[j] = buffer[Len(file) + j]
    BY <2>1 DEF BufferInv, QueueIsRest
  <2>3. ASSUME NEW j \in 1 .. Len(pending) + 1
        PROVE  pending'[j] = buffer'[Len(file) + j]
    <3>1. CASE j = Len(pending) + 1
      BY <1>0, <1>1, <1>2, <2>2, <3>1
    <3>2. CASE j \in 1 .. Len(pending)
      BY <1>0, <1>1, <1>2, <2>2, <3>2
    <3>. QED BY <1>0, <2>3, <3>1, <3>2
  <2>. QED BY <1>0, <1>1, <1>2, <2>2, <2>3 DEF QueueIsRest
<1>6. QueueIsPhantom'
  BY <1>0, <1>2 DEF BufferInv, QueueIsPhantom, FileIsPrefix
<1>7. BytesAddUp'
  <2>1. SUFFICES ASSUME ~poisoned PROVE BytesAddUp'
    BY DEF BytesAddUp
  <2>2. CASE pending = <<>>
    BY <1>0, <1>2, <2>1, <2>2 DEF BufferInv, BytesAddUp, Record
  <2>3. CASE pending # <<>>
    <3>1. /\ pending[1].end = fileSize + pending[1].bytes
          /\ pending[Len(pending)].end = fileBytes
      BY <2>1, <2>3 DEF BufferInv, BytesAddUp
    <3>2. 1 \in 1 .. Len(pending) /\ Len(pending) \in 1 .. Len(pending)
      BY <1>0, <2>3 DEF TypeOK
    <3>3. /\ pending'[1].end = fileSize' + pending'[1].bytes
          /\ pending'[Len(pending')].end = fileBytes'
      BY <1>0, <1>2, <3>1, <3>2
    <3>4. \A j \in 1 .. Len(pending') : pending'[j].end <= MaxBytes
      BY <1>0, <1>2, <2>1 DEF BufferInv, BytesAddUp
    <3>5. \A j \in 2 .. Len(pending') :
            pending'[j].end = pending'[j - 1].end + pending'[j].bytes
      <4>1. SUFFICES ASSUME NEW j \in 2 .. Len(pending) + 1
                     PROVE  pending'[j].end = pending'[j - 1].end + pending'[j].bytes
        BY <1>0, <1>2
      <4>2. CASE j \in 2 .. Len(pending)
        BY <1>0, <1>2, <2>1, <4>2 DEF BufferInv, BytesAddUp
      <4>3. CASE j = Len(pending) + 1
        BY <1>0, <1>2, <3>1, <3>2, <4>3
      <4>. QED BY <1>0, <4>1, <4>2, <4>3
    <3>6. pending' # <<>>
      BY <1>0, <1>2
    <3>. QED BY <3>3, <3>4, <3>5, <3>6 DEF BytesAddUp
  <2>. QED BY <2>2, <2>3
<1>. QED BY <1>3, <1>4, <1>5, <1>6, <1>7 DEF BufferInv

\* An append leaves the disk and the settled calls alone, and the calls that
\* wait for their record still find it.
LEMMA AppendDurable ==
  ASSUME DurableInv, TypeOK', NEW c \in Calls, NEW kind \in {"data", "exit"},
         NEW bytes \in Nat \ {0}, QueueAppend(c, kind, bytes)
  PROVE  DurableInv'
<1>1. /\ UNCHANGED <<file, fileSize, phase, poisoned>> /\ Live
      /\ call[c].st = "idle" /\ phase \notin {"fresh", "refused"}
  BY DEF QueueAppend, disk, control, Live
<1>2. BufferInv /\ WaitingFindsRecord /\ TypeOK /\ WithinLimits
  BY <1>1 DEF DurableInv, BufferInv
<1>3. call' = [call EXCEPT ![c] = call'[c]] /\ call'[c].st # "acked"
  BY <1>2 DEF QueueAppend, AcknowledgeUnstored, Took, TypeOK
<1>4. \A d \in Calls \ {c} : call'[d] = call[d]
  BY <1>2, <1>3 DEF TypeOK
<1>5. FileIsWellFormed' /\ WithinLimits' /\ AckedIsDurable'
  <2>1. FileIsWellFormed' /\ WithinLimits'
    BY <1>1 DEF DurableInv, FileIsWellFormed, Contiguous, StopIsLast, WithinLimits
  <2>2. AckedIsDurable'
    BY <1>1, <1>3, <1>4 DEF DurableInv, AckedIsDurable
  <2>. QED BY <2>1, <2>2
<1>6. ASSUME UNCHANGED <<memory, pending>>, ~call'[c].stored PROVE DurableInv'
  <2>1. BufferInv'
    BY <1>1, <1>2, <1>6
       DEF memory, BufferInv, FileIsPrefix, BufferStops, StopIsLast, HoldsStop,
           QueueIsRest, QueueIsPhantom, BytesAddUp
  <2>2. WaitingFindsRecord'
    BY <1>1, <1>2, <1>4, <1>6 DEF memory, WaitingFindsRecord, Waiting
  <2>. QED BY <1>1, <1>5, <2>1, <2>2 DEF DurableInv, BufferInv
<1>7. ASSUME NEW r \in Record, Enqueue(r), r.seq = nextSeq,
             call'[c].stored => r.by = c /\ call'[c].seq = nextSeq
      PROVE  WaitingFindsRecord'
  <2>1. /\ Len(buffer') = Len(buffer) + 1 /\ buffer'[Len(buffer) + 1] = r
        /\ \A i \in 1 .. Len(buffer) : buffer'[i] = buffer[i]
    BY <1>2, <1>7, AppendProperties DEF Enqueue, TypeOK
  <2>2. nextSeq = Len(buffer) /\ Len(buffer) \in Nat
    BY <1>2 DEF BufferInv, FileIsPrefix, TypeOK
  <2>3. SUFFICES ASSUME NEW d \in Calls, Waiting(d)', call'[d].stored,
                        call'[d].seq < Len(file) \/ ~poisoned
                 PROVE  call'[d].seq < Len(buffer') /\ buffer'[call'[d].seq + 1].by = d
    BY <1>1 DEF WaitingFindsRecord
  <2>4. CASE d = c
    BY <1>7, <2>1, <2>2, <2>3, <2>4
  <2>5. CASE d # c
    <3>1. call'[d] = call[d] /\ call[d].seq \in Nat
      BY <1>2, <1>4, <2>5 DEF TypeOK, CallRecord
    <3>2. call[d].seq < Len(buffer) /\ buffer[call[d].seq + 1].by = d
      BY <1>2, <2>3, <3>1 DEF WaitingFindsRecord, Waiting
    <3>. QED BY <2>1, <2>2, <3>1, <3>2
  <2>. QED BY <2>4, <2>5
<1>8. CASE /\ Fits(kind, bytes) /\ ~(stopped /\ kind # "exit")
           /\ Enqueue(Line(kind, bytes, c)) /\ Took(c, kind, TRUE, nextSeq)
           /\ UNCHANGED stopped
  <2>1. /\ Line(kind, bytes, c) \in Record /\ Line(kind, bytes, c).seq = nextSeq
        /\ Line(kind, bytes, c).end = fileBytes + Line(kind, bytes, c).bytes
        /\ Line(kind, bytes, c).bytes = bytes /\ Line(kind, bytes, c).by = c
        /\ Line(kind, bytes, c).kind = kind
    BY <1>2, LineType DEF Line, Kinds
  <2>2. fileBytes + bytes <= MaxBytes /\ Len(buffer) + 1 <= MaxEntries
    BY <1>2, <1>8, LimitsAssumption DEF Fits, TypeOK
  <2>3. BufferInv'
    BY <1>1, <1>2, <1>8, <2>1, <2>2, EnqueueBuffer
  <2>4. call'[c].seq = nextSeq
    BY <1>2, <1>8 DEF Took, TypeOK
  <2>5. WaitingFindsRecord'
    BY <1>7, <1>8, <2>1, <2>4
  <2>. QED BY <1>1, <1>5, <2>3, <2>5 DEF DurableInv, BufferInv
<1>9. CASE ~stopped /\ RecordStop /\ AcknowledgeUnstored(c, kind, nextSeq')
  <2>1. ~call'[c].stored
    BY <1>2, <1>9 DEF AcknowledgeUnstored, TypeOK
  <2>2. CASE StopFits
    <3> DEFINE r == Line("stop", StopBytes, NoCall)
    <3>1. /\ r \in Record /\ r.seq = nextSeq /\ r.end = fileBytes + r.bytes
          /\ r.bytes = StopBytes /\ r.kind = "stop"
      BY <1>2, LineType, SizesAssumption DEF Line, Kinds
    <3>2. Enqueue(r) /\ stopped'
      BY <1>9, <2>2 DEF RecordStop
    <3>3. fileBytes + r.bytes <= MaxBytes /\ Len(buffer) + 1 <= MaxEntries
      BY <1>2, <2>2, <3>1, LimitsAssumption, SizesAssumption DEF StopFits, TypeOK
    <3> HIDE DEF r
    <3>4. BufferInv'
      BY <1>1, <1>2, <1>9, <3>1, <3>2, <3>3, EnqueueBuffer
    <3>5. WaitingFindsRecord'
      BY <1>7, <2>1, <3>1, <3>2
    <3>. QED BY <1>1, <1>5, <3>4, <3>5 DEF DurableInv, BufferInv
  <2>3. CASE ~StopFits
    <3>1. UNCHANGED <<buffer, nextSeq, fileBytes, pending>> /\ stopped' = TRUE
      BY <1>9, <2>3 DEF RecordStop
    <3>2. BufferInv'
      BY <1>1, <1>2, <3>1
         DEF BufferInv, FileIsPrefix, BufferStops, StopIsLast, HoldsStop,
             QueueIsRest, QueueIsPhantom, BytesAddUp
    <3>3. WaitingFindsRecord'
      BY <1>1, <1>2, <1>4, <2>1, <3>1 DEF WaitingFindsRecord, Waiting
    <3>. QED BY <1>1, <1>5, <3>2, <3>3 DEF DurableInv, BufferInv
  <2>. QED BY <2>2, <2>3
<1>10. ASSUME AcknowledgeUnstored(c, kind, nextSeq), UNCHANGED <<memory, pending>>
       PROVE  DurableInv'
  <2>1. ~call'[c].stored
    BY <1>2, <1>10 DEF AcknowledgeUnstored, TypeOK
  <2>. QED BY <1>6, <1>10, <2>1
<1>. QED BY <1>8, <1>9, <1>10 DEF QueueAppend

\* The head of a queue and what is left of it.
LEMMA QueueHead ==
  ASSUME TypeOK, pending # <<>>
  PROVE  /\ Head(pending) \in Record /\ Head(pending) = pending[1]
         /\ Head(pending).seq \in Nat /\ Head(pending).bytes \in Nat \ {0}
         /\ Len(pending) \in Nat \ {0} /\ Len(Tail(pending)) = Len(pending) - 1
         /\ \A j \in 1 .. Len(pending) - 1 : Tail(pending)[j] = pending[j + 1]
<1>1. pending \in Seq(Record) /\ Len(pending) \in Nat \ {0}
  BY DEF TypeOK
<1>2. Head(pending) \in Record /\ Head(pending) = pending[1]
  BY <1>1
<1>. QED BY <1>1, <1>2, HeadTailProperties DEF Record

\* The next line of the file: it continues the numbering, respects a stop
\* marker before it, and ends within the limits.
LEMMA HeadFollows ==
  ASSUME TypeOK, BufferInv, WithinLimits, pending # <<>>, ~poisoned,
         FileIsWellFormed
  PROVE  /\ Head(pending) = buffer[Len(file) + 1] /\ Len(file) < Len(buffer)
         /\ Head(pending).end = fileSize + Head(pending).bytes
         /\ Head(pending).end <= MaxBytes
         /\ Contiguous(Append(file, Head(pending)))
         /\ StopIsLast(Append(file, Head(pending)))
         /\ Len(Append(file, Head(pending))) = Len(file) + 1
<1> DEFINE r == Head(pending)
           f == Append(file, r)
<1>0. /\ Len(file) \in Nat /\ Len(buffer) \in Nat /\ file \in Seq(Record)
      /\ Len(pending) \in Nat \ {0} /\ r = pending[1] /\ r \in Record
  BY QueueHead DEF TypeOK
<1>1. r = buffer[Len(file) + 1] /\ Len(file) < Len(buffer)
  BY <1>0 DEF BufferInv, QueueIsRest
<1>2. r.end = fileSize + r.bytes /\ r.end <= MaxBytes
  BY <1>0 DEF BufferInv, BytesAddUp
<1>3. /\ Len(f) = Len(file) + 1 /\ f \in Seq(Record)
      /\ \A i \in 1 .. Len(file) : f[i] = file[i]
      /\ f[Len(file) + 1] = r
  BY <1>0, AppendProperties
<1>4. \A i \in 1 .. Len(f) : f[i] = buffer[i]
  BY <1>0, <1>1, <1>3 DEF BufferInv, FileIsPrefix
<1> HIDE DEF f, r
<1>5. Contiguous(f)
  BY <1>0, <1>1, <1>3, <1>4 DEF Contiguous, BufferInv, FileIsPrefix
<1>6. StopIsLast(f)
  BY <1>0, <1>1, <1>3, <1>4, SMTT(40) DEF StopIsLast, BufferInv, BufferStops, TypeOK
<1>. QED BY <1>1, <1>2, <1>3, <1>5, <1>6 DEF f, r

LEMMA WriteLandsDurable ==
  ASSUME DurableInv, TypeOK', WriteLands
  PROVE  DurableInv'
<1>1. /\ pending # <<>> /\ ~poisoned /\ file' = Append(file, Head(pending))
      /\ fileSize' = fileSize + Head(pending).bytes /\ pending' = Tail(pending)
      /\ UNCHANGED <<buffer, nextSeq, fileBytes, stopped, phase, poisoned, call>>
  BY DEF WriteLands, memory, control
<1>2. Live /\ TypeOK /\ BufferInv /\ WithinLimits /\ WaitingFindsRecord
      /\ FileIsWellFormed /\ AckedIsDurable
  <2>1. Live
    BY <1>1 DEF DurableInv, WriteLands, Live, TypeOK
  <2>. QED BY <2>1 DEF DurableInv, BufferInv
<1>3. /\ Head(pending) = buffer[Len(file) + 1] /\ Len(file) < Len(buffer)
      /\ Head(pending).end = fileSize + Head(pending).bytes
      /\ Head(pending).end <= MaxBytes
      /\ FileIsWellFormed' /\ Len(file') = Len(file) + 1
  BY <1>1, <1>2, HeadFollows DEF FileIsWellFormed
<1>4. /\ Len(file) \in Nat /\ Len(buffer) \in Nat /\ Len(pending) \in Nat \ {0}
      /\ Len(pending') = Len(pending) - 1 /\ Head(pending) = pending[1]
      /\ \A j \in 1 .. Len(pending) - 1 : pending'[j] = pending[j + 1]
      /\ \A i \in 1 .. Len(file) : file'[i] = file[i]
      /\ file'[Len(file) + 1] = Head(pending)
  BY <1>1, <1>2, QueueHead, AppendProperties DEF TypeOK
<1>5. WithinLimits'
  <2>1. fileSize' <= MaxBytes
    BY <1>1, <1>3
  <2>2. Len(file') <= MaxEntries
    BY <1>2, <1>3, <1>4, LimitsAssumption DEF BufferInv, BufferStops
  <2>. QED BY <2>1, <2>2 DEF WithinLimits
<1>6. AckedIsDurable'
  <2>1. SUFFICES ASSUME NEW c \in Calls, call[c].st = "acked"
                 PROVE  /\ call[c].seq < Len(file')
                        /\ call[c].stored => file'[call[c].seq + 1].by = c
    BY <1>1 DEF AckedIsDurable
  <2>2. call[c].seq \in Nat
    BY <1>2 DEF TypeOK, CallRecord
  <2>. QED BY <1>2, <1>3, <1>4, <2>1, <2>2, SMTT(40) DEF AckedIsDurable
<1>7. FileIsPrefix'
  <2>1. \A i \in 1 .. Len(file') : buffer[i] = file'[i]
    BY <1>2, <1>3, <1>4 DEF BufferInv, FileIsPrefix
  <2>. QED BY <1>1, <1>2, <1>3, <1>4, <2>1 DEF BufferInv, FileIsPrefix
<1>8. BufferStops'
  BY <1>1, <1>2 DEF BufferInv, BufferStops, StopIsLast, HoldsStop
<1>9. QueueIsRest'
  <2>1. /\ Len(buffer) = Len(file) + Len(pending)
        /\ \A j \in 1 .. Len(pending) : pending[j] = buffer[Len(file) + j]
    BY <1>1, <1>2 DEF BufferInv, QueueIsRest
  <2>2. ASSUME NEW j \in 1 .. Len(pending')
        PROVE  pending'[j] = buffer[Len(file') + j]
    <3>1. j + 1 \in 1 .. Len(pending) /\ pending'[j] = pending[j + 1]
      BY <1>4, <2>2
    <3>. QED BY <1>3, <1>4, <2>1, <3>1
  <2>. QED BY <1>1, <1>3, <1>4, <2>1, <2>2 DEF QueueIsRest
<1>10. QueueIsPhantom'
  BY <1>1 DEF QueueIsPhantom
<1>11. BytesAddUp'
  <2>1. /\ pending[1].end = fileSize + pending[1].bytes
        /\ pending[Len(pending)].end = fileBytes
        /\ \A j \in 1 .. Len(pending) : pending[j].end <= MaxBytes
        /\ \A j \in 2 .. Len(pending) :
             pending[j].end = pending[j - 1].end + pending[j].bytes
    BY <1>1, <1>2 DEF BufferInv, BytesAddUp
  <2>2. fileSize' = pending[1].end
    BY <1>1, <1>4, <2>1
  <2>3. CASE Len(pending) = 1
    <3>1. pending' = <<>>
      BY <1>1, <1>2, <2>3 DEF TypeOK
    <3>2. Len(pending') = 0
      BY <1>4, <2>3
    <3>. QED BY <1>1, <1>4, <2>1, <2>2, <2>3, <3>1, <3>2 DEF BytesAddUp
  <2>4. CASE Len(pending) # 1
    <3>1. Len(pending) >= 2 /\ pending' # <<>>
      BY <1>4, <2>4 DEF TypeOK
    <3>2. pending'[1] = pending[2] /\ pending'[Len(pending')] = pending[Len(pending)]
      BY <1>4, <3>1
    <3>3. pending'[1].end = fileSize' + pending'[1].bytes
      BY <1>4, <2>1, <2>2, <3>1, <3>2
    <3>4. \A j \in 1 .. Len(pending') : pending'[j].end <= MaxBytes
      BY <1>4, <2>1
    <3>5. ASSUME NEW j \in 2 .. Len(pending')
          PROVE  pending'[j].end = pending'[j - 1].end + pending'[j].bytes
      <4>1. pending'[j] = pending[j + 1] /\ pending'[j - 1] = pending[j]
        BY <1>4, <3>5
      <4>2. j + 1 \in 2 .. Len(pending) /\ (j + 1) - 1 = j
        BY <1>4, <3>5
      <4>. QED BY <2>1, <4>1, <4>2
    <3>. QED BY <1>1, <2>1, <3>1, <3>2, <3>3, <3>4, <3>5 DEF BytesAddUp
  <2>. QED BY <2>3, <2>4
<1>12. WaitingFindsRecord'
  BY <1>1, <1>2 DEF WaitingFindsRecord, Waiting
<1>. QED BY <1>1, <1>2, <1>3, <1>5, <1>6, <1>7, <1>8, <1>9, <1>10, <1>11, <1>12
         DEF DurableInv, Live

\* Rolling back to a seq at or behind the file leaves the file a prefix of the
\* buffer: only records that never reached the disk are taken back.
LEMMA RollbackKeepsFile ==
  ASSUME TypeOK, FileIsPrefix, BufferStops, NEW s \in Nat, s >= Len(file),
         Rollback(s), UNCHANGED <<file, stopped>>
  PROVE  /\ FileIsPrefix' /\ BufferStops'
         /\ Len(buffer') <= Len(buffer)
         /\ \A i \in 1 .. Len(buffer') : buffer'[i] = buffer[i]
<1>1. Len(file) \in Nat /\ Len(buffer) \in Nat
  BY DEF TypeOK
<1>2. CASE Len(buffer) <= s
  <2>1. UNCHANGED <<buffer, nextSeq>>
    BY <1>2 DEF Rollback
  <2>. QED BY <1>1, <2>1 DEF FileIsPrefix, BufferStops, StopIsLast, HoldsStop
<1>3. CASE ~(Len(buffer) <= s)
  <2>1. buffer' = SubSeq(buffer, 1, s) /\ nextSeq' = s
    BY <1>3 DEF Rollback
  <2>2. Len(buffer') = s /\ \A i \in 1 .. s : buffer'[i] = buffer[i]
    BY <1>1, <1>3, <2>1 DEF TypeOK
  <2>3. FileIsPrefix'
    BY <1>1, <1>3, <2>1, <2>2 DEF FileIsPrefix
  <2>4. buffer' \in Seq(Record)
    BY <1>1, <1>3, <2>1 DEF TypeOK
  <2>5. BufferStops'
    <3>1. StopIsLast(buffer)'
      BY <1>1, <1>3, <2>2, <2>4 DEF BufferStops, StopIsLast, TypeOK
    <3>2. HoldsStop(buffer)' => HoldsStop(buffer)
      BY <1>1, <1>3, <2>2, <2>4 DEF HoldsStop, TypeOK
    <3>. QED BY <1>1, <1>3, <2>2, <3>1, <3>2, LimitsAssumption DEF BufferStops
  <2>. QED BY <1>1, <1>3, <2>2, <2>3, <2>5
<1>. QED BY <1>2, <1>3

\* A failed write, and each write that inherits its failure: what is left in
\* the queue can only be taken back.
LEMMA WriteRejectedDurable ==
  ASSUME DurableInv, TypeOK', pending # <<>>, phase # "dead",
         Head(pending).seq >= Len(file), Rollback(Head(pending).seq),
         poisoned', pending' = Tail(pending),
         \A j \in 1 .. Len(pending) : pending[j].seq >= Len(file),
         fileSize' <= MaxBytes,
         UNCHANGED <<file, fileBytes, stopped, control, call>>
  PROVE  DurableInv'
<1>1. Live /\ TypeOK /\ BufferInv /\ WithinLimits /\ WaitingFindsRecord
      /\ FileIsWellFormed /\ AckedIsDurable
  <2>1. Live
    BY DEF DurableInv, Live, TypeOK
  <2>. QED BY <2>1 DEF DurableInv, BufferInv
<1>2. phase' = phase
  BY DEF control
<1>3. /\ FileIsPrefix' /\ BufferStops' /\ Len(buffer') <= Len(buffer)
      /\ \A i \in 1 .. Len(buffer') : buffer'[i] = buffer[i]
  BY <1>1, QueueHead, RollbackKeepsFile DEF BufferInv
<1>4. QueueIsRest' /\ BytesAddUp'
  BY DEF QueueIsRest, BytesAddUp
<1>5. QueueIsPhantom'
  <2>1. /\ Len(Tail(pending)) = Len(pending) - 1 /\ Len(pending) \in Nat \ {0}
        /\ \A j \in 1 .. Len(pending) - 1 : Tail(pending)[j] = pending[j + 1]
    BY <1>1, QueueHead
  <2>2. ASSUME NEW j \in 1 .. Len(pending) - 1
        PROVE  Tail(pending)[j].seq >= Len(file)
    <3>1. j + 1 \in 1 .. Len(pending)
      BY <2>1, <2>2
    <3>. QED BY <2>1, <2>2, <3>1
  <2>. QED BY <2>1, <2>2 DEF QueueIsPhantom
<1>6. WaitingFindsRecord'
  <2>1. SUFFICES ASSUME NEW d \in Calls, Waiting(d), call[d].stored,
                        call[d].seq < Len(file)
                 PROVE  call[d].seq < Len(buffer') /\ buffer'[call[d].seq + 1].by = d
    BY DEF WaitingFindsRecord, Waiting
  <2>2. call[d].seq < Len(buffer) /\ buffer[call[d].seq + 1].by = d
    BY <1>1, <2>1 DEF WaitingFindsRecord
  <2>3. call[d].seq \in Nat /\ Len(file) \in Nat /\ Len(file) <= Len(buffer')
    BY <1>1, <1>3 DEF TypeOK, CallRecord, FileIsPrefix
  <2>4. Len(buffer') \in Nat
    BY DEF TypeOK
  <2>5. call[d].seq + 1 \in 1 .. Len(buffer')
    BY <2>1, <2>3, <2>4
  <2>6. buffer'[call[d].seq + 1] = buffer[call[d].seq + 1]
    BY <1>3, <2>5
  <2>. QED BY <2>1, <2>2, <2>3, <2>4, <2>5, <2>6
<1>7. FileIsWellFormed' /\ WithinLimits' /\ AckedIsDurable'
  BY <1>1 DEF FileIsWellFormed, Contiguous, StopIsLast, WithinLimits, AckedIsDurable
<1>. QED BY <1>1, <1>2, <1>3, <1>4, <1>5, <1>6, <1>7 DEF DurableInv, Live

LEMMA WriteFailsDurable ==
  ASSUME DurableInv, TypeOK', WriteFails
  PROVE  DurableInv'
<1>1. /\ pending # <<>> /\ ~poisoned /\ phase # "dead" /\ TypeOK
      /\ pending' = Tail(pending) /\ Rollback(Head(pending).seq) /\ poisoned'
      /\ UNCHANGED <<file, fileBytes, stopped, control, call>>
  BY DEF WriteFails, DurableInv
<1>2. Live /\ BufferInv /\ WithinLimits /\ FileIsWellFormed
  <2>1. Live
    BY <1>1 DEF DurableInv, Live, TypeOK
  <2>. QED BY <2>1 DEF DurableInv, BufferInv
<1>3. /\ Len(file) \in Nat /\ Len(buffer) \in Nat /\ Head(pending) = pending[1]
      /\ Len(pending) \in Nat \ {0} /\ Head(pending).bytes \in Nat \ {0}
      /\ fileSize \in Nat
  BY <1>1, QueueHead DEF TypeOK
<1>4. \A j \in 1 .. Len(pending) : pending[j].seq >= Len(file)
  <2>1. /\ Len(buffer) = Len(file) + Len(pending)
        /\ \A j \in 1 .. Len(pending) : pending[j] = buffer[Len(file) + j]
    BY <1>1, <1>2 DEF BufferInv, QueueIsRest
  <2>2. \A i \in 1 .. Len(buffer) : buffer[i].seq = i - 1
    BY <1>2 DEF BufferInv, FileIsPrefix
  <2>3. ASSUME NEW j \in 1 .. Len(pending) PROVE pending[j].seq >= Len(file)
    <3>1. Len(file) + j \in 1 .. Len(buffer)
      BY <1>3, <2>1, <2>3
    <3>2. pending[j].seq = Len(file) + j - 1
      BY <2>1, <2>2, <2>3, <3>1
    <3>. QED BY <1>3, <2>3, <3>2
  <2>. QED BY <2>3
<1>5. fileSize' <= MaxBytes
  <2>1. fileSize + Head(pending).bytes <= MaxBytes
    BY <1>1, <1>2, HeadFollows
  <2>2. PICK n \in 0 .. Head(pending).bytes - 1 : fileSize' = fileSize + n
    BY DEF WriteFails
  <2>. QED BY <1>3, <2>1, <2>2, LimitsAssumption
<1>6. Head(pending).seq >= Len(file)
  BY <1>3, <1>4
<1>. QED BY <1>1, <1>4, <1>5, <1>6, WriteRejectedDurable

LEMMA WriteInheritsFailureDurable ==
  ASSUME DurableInv, TypeOK', WriteInheritsFailure
  PROVE  DurableInv'
<1>1. /\ pending # <<>> /\ poisoned /\ phase # "dead" /\ TypeOK
      /\ pending' = Tail(pending) /\ Rollback(Head(pending).seq)
      /\ UNCHANGED <<file, fileSize, fileBytes, stopped, control, poisoned, call>>
  BY DEF WriteInheritsFailure, DurableInv, disk
<1>2. QueueIsPhantom /\ fileSize <= MaxBytes
  BY <1>1 DEF DurableInv, Live, TypeOK, WithinLimits
<1>3. Head(pending) = pending[1] /\ Len(pending) \in Nat \ {0}
  BY <1>1, QueueHead
<1>4. /\ \A j \in 1 .. Len(pending) : pending[j].seq >= Len(file)
      /\ Head(pending).seq >= Len(file)
  BY <1>1, <1>2, <1>3 DEF QueueIsPhantom
<1>. QED BY <1>1, <1>2, <1>4, WriteRejectedDurable

\* A call is acknowledged only for a seq the file holds, with its own record.
LEMMA CallSettlesDurable ==
  ASSUME DurableInv, TypeOK', NEW c \in Calls, CallSettles(c)
  PROVE  DurableInv'
<1>1. /\ UNCHANGED <<file, fileSize, buffer, nextSeq, fileBytes, stopped, phase,
                     pending, poisoned>>
      /\ Waiting(c) /\ phase # "dead" /\ TypeOK
  BY DEF CallSettles, disk, memory, control, DurableInv
<1>2. Live /\ BufferInv /\ WaitingFindsRecord /\ AckedIsDurable
  <2>1. Live
    BY <1>1 DEF DurableInv, Live, TypeOK
  <2>. QED BY <2>1 DEF DurableInv, BufferInv
<1>3. \A d \in Calls : d # c => call'[d] = call[d]
  BY <1>1 DEF CallSettles, TypeOK
<1>4. /\ call'[c].seq = call[c].seq /\ call'[c].stored = call[c].stored
      /\ call'[c].st \in {"acked", "rejected"}
      /\ call'[c].st = "acked" => call[c].seq < Len(file)
  BY <1>1 DEF CallSettles, TypeOK, CallRecord
<1>5. AckedIsDurable'
  <2>1. ASSUME call'[c].st = "acked", call[c].stored
        PROVE  file[call[c].seq + 1].by = c
    <3>1. call[c].seq < Len(file) /\ call[c].seq \in Nat /\ Len(file) \in Nat
      BY <1>1, <1>4, <2>1 DEF TypeOK, CallRecord
    <3>2. buffer[call[c].seq + 1].by = c
      BY <1>1, <1>2, <2>1, <3>1 DEF WaitingFindsRecord
    <3>3. call[c].seq + 1 \in 1 .. Len(file)
      BY <3>1
    <3>4. buffer[call[c].seq + 1] = file[call[c].seq + 1]
      BY <1>2, <3>3 DEF BufferInv, FileIsPrefix
    <3>. QED BY <3>2, <3>4
  <2>. QED BY <1>1, <1>2, <1>3, <1>4, <2>1 DEF AckedIsDurable
<1>6. WaitingFindsRecord'
  BY <1>1, <1>2, <1>3, <1>4 DEF WaitingFindsRecord, Waiting
<1>7. BufferInv'
  BY <1>1, <1>2 DEF BufferInv, FileIsPrefix, BufferStops, StopIsLast, HoldsStop,
                    QueueIsRest, QueueIsPhantom, BytesAddUp
<1>8. FileIsWellFormed' /\ WithinLimits'
  BY <1>1 DEF DurableInv, FileIsWellFormed, Contiguous, StopIsLast, WithinLimits
<1>. QED BY <1>1, <1>2, <1>5, <1>6, <1>7, <1>8 DEF DurableInv, BufferInv, Live

\* Steps that change neither the log nor its callers.
LEMMA ControlDurable ==
  ASSUME DurableInv, TypeOK', UNCHANGED <<disk, memory, pending, poisoned, call>>,
         \/ phase' = phase
         \/ Live /\ (Live' \/ phase' = "dead")
  PROVE  DurableInv'
<1>1. UNCHANGED <<file, fileSize, buffer, nextSeq, fileBytes, stopped, pending,
                  poisoned, call>>
  BY DEF disk, memory
<1>2. FileIsWellFormed' /\ WithinLimits' /\ AckedIsDurable'
  BY <1>1 DEF DurableInv, FileIsWellFormed, Contiguous, StopIsLast, WithinLimits,
              AckedIsDurable
<1>3. ASSUME Live PROVE BufferInv' /\ WaitingFindsRecord'
  <2>1. BufferInv /\ WaitingFindsRecord
    BY <1>3 DEF DurableInv, BufferInv
  <2>2. BufferInv'
    BY <1>1, <2>1 DEF BufferInv, FileIsPrefix, BufferStops, StopIsLast, HoldsStop,
                      QueueIsRest, QueueIsPhantom, BytesAddUp
  <2>3. WaitingFindsRecord'
    BY <1>1, <2>1 DEF WaitingFindsRecord, Waiting
  <2>. QED BY <2>2, <2>3
<1>4. CASE phase' = phase
  BY <1>1, <1>2, <1>3, <1>4 DEF DurableInv, BufferInv, Live, Waiting
<1>5. CASE Live /\ (Live' \/ phase' = "dead")
  BY <1>2, <1>3, <1>5 DEF DurableInv, BufferInv, Live
<1>. QED BY <1>4, <1>5

\* A crash may land the write under way, cut it or lose it.
LEMMA CrashDurable ==
  ASSUME DurableInv, TypeOK', Crash
  PROVE  DurableInv'
<1>1. /\ Live /\ phase' = "dead" /\ UNCHANGED <<memory, pending, poisoned, call>>
  BY DEF Crash, Live
<1>2. /\ TypeOK /\ BufferInv /\ WithinLimits /\ FileIsWellFormed /\ AckedIsDurable
  BY <1>1 DEF DurableInv, BufferInv
<1>3. CASE UNCHANGED disk
  BY <1>1, <1>3, ControlDurable DEF Live
<1>4. CASE /\ pending # <<>> /\ ~poisoned /\ file' = Append(file, Head(pending))
           /\ fileSize' = fileSize + Head(pending).bytes
  <2>1. /\ Head(pending).end = fileSize + Head(pending).bytes
        /\ Head(pending).end <= MaxBytes /\ Len(file) < Len(buffer)
        /\ FileIsWellFormed' /\ Len(file') = Len(file) + 1
    BY <1>2, <1>4, HeadFollows DEF FileIsWellFormed
  <2>2. /\ Len(file) \in Nat /\ Len(buffer) \in Nat /\ Len(buffer) <= MaxEntries
        /\ \A i \in 1 .. Len(file) : file'[i] = file[i]
    BY <1>2, <1>4, QueueHead, AppendProperties, SMTT(40) DEF TypeOK, BufferInv, BufferStops
  <2>3. WithinLimits'
    BY <1>4, <2>1, <2>2, LimitsAssumption DEF WithinLimits
  <2>4. AckedIsDurable'
    <3>1. SUFFICES ASSUME NEW c \in Calls, call[c].st = "acked"
                   PROVE  /\ call[c].seq < Len(file')
                          /\ call[c].stored => file'[call[c].seq + 1].by = c
      BY <1>1 DEF AckedIsDurable
    <3>2. call[c].seq \in Nat
      BY <1>2 DEF TypeOK, CallRecord
    <3>. QED BY <1>2, <2>1, <2>2, <3>1, <3>2 DEF AckedIsDurable
  <2>. QED BY <1>1, <2>1, <2>3, <2>4 DEF DurableInv, Live
<1>5. CASE /\ pending # <<>> /\ ~poisoned /\ UNCHANGED file
           /\ \E n \in 1 .. Head(pending).bytes - 1 : fileSize' = fileSize + n
  <2>1. fileSize + Head(pending).bytes <= MaxBytes
    BY <1>2, <1>5, HeadFollows
  <2>2. fileSize \in Nat /\ Head(pending).bytes \in Nat
    BY <1>2, <1>5, QueueHead DEF TypeOK
  <2>3. WithinLimits'
    BY <1>2, <1>5, <2>1, <2>2, LimitsAssumption DEF WithinLimits
  <2>4. FileIsWellFormed' /\ AckedIsDurable'
    BY <1>1, <1>2, <1>5 DEF FileIsWellFormed, Contiguous, StopIsLast, AckedIsDurable
  <2>. QED BY <1>1, <2>3, <2>4 DEF DurableInv, Live
<1>. QED BY <1>3, <1>4, <1>5 DEF Crash

\* One step per action: the invariant is inductive.
LEMMA NextDurable == DurableInv /\ [Next]_vars => DurableInv'
<1> SUFFICES ASSUME DurableInv, [Next]_vars PROVE DurableInv'
  OBVIOUS
<1>0. TypeOK /\ TypeOK'
  BY NextType DEF DurableInv
<1>1. CASE Open
  <2>1. pending = <<>> /\ ~poisoned /\ \A c \in Calls : ~Waiting(c)
    BY <1>1 DEF Open, DurableInv
  <2>. QED BY <1>0, <1>1, <2>1, LoadDurable DEF Open
<1>2. CASE Reopen
  BY <1>0, <1>2, LoadDurable DEF Reopen
<1>3. ASSUME NEW c \in Calls, AppendCall(c) PROVE DurableInv'
  <2>1. ASSUME NEW bytes \in Sizes, QueueAppend(c, "data", bytes) PROVE DurableInv'
    BY <1>0, <2>1, AppendDurable, SizesAssumption
  <2>2. CASE QueueAppend(c, "exit", ExitBytes)
    BY <1>0, <2>2, AppendDurable, SizesAssumption
  <2>3. CASE Refuse(c)
    <3>1. /\ UNCHANGED <<file, fileSize, buffer, nextSeq, fileBytes, stopped, phase,
                         pending, poisoned>>
          /\ call' = [call EXCEPT ![c].st = "rejected"] /\ Live
          /\ phase \notin {"fresh", "refused"}
      BY <2>3 DEF Refuse, disk, memory, control, Live
    <3>2. /\ call'[c].st = "rejected"
          /\ \A d \in Calls : d # c => call'[d] = call[d]
      BY <1>0, <3>1 DEF TypeOK, CallRecord
    <3>3. FileIsWellFormed' /\ WithinLimits'
      BY <3>1 DEF DurableInv, FileIsWellFormed, Contiguous, StopIsLast, WithinLimits
    <3>4. AckedIsDurable' /\ WaitingFindsRecord'
      BY <3>1, <3>2 DEF DurableInv, AckedIsDurable, WaitingFindsRecord, Waiting
    <3>5. BufferInv'
      BY <3>1 DEF DurableInv, BufferInv, FileIsPrefix, BufferStops, StopIsLast,
                  HoldsStop, QueueIsRest, QueueIsPhantom, BytesAddUp
    <3>. QED BY <1>0, <3>1, <3>3, <3>4, <3>5 DEF DurableInv, BufferInv
  <2>. QED BY <1>3, <2>1, <2>2, <2>3 DEF AppendCall
<1>4. ASSUME NEW c \in Calls, CallSettles(c) PROVE DurableInv'
  BY <1>0, <1>4, CallSettlesDurable
<1>5. CASE WriteSettles
  BY <1>0, <1>5, WriteLandsDurable, WriteFailsDurable, WriteInheritsFailureDurable
     DEF WriteSettles
<1>6. CASE CloseBegins
  BY <1>0, <1>6, ControlDurable DEF CloseBegins, Live
<1>7. CASE CloseDrained
  BY <1>0, <1>7, ControlDurable DEF CloseDrained, Live
<1>8. CASE CloseEnds
  BY <1>0, <1>8, ControlDurable DEF CloseEnds, Live
<1>9. CASE Crash
  BY <1>0, <1>9, CrashDurable
<1>10. CASE UNCHANGED vars
  BY <1>0, <1>10, ControlDurable DEF vars, control
<1>. QED BY <1>1, <1>2, <1>3, <1>4, <1>5, <1>6, <1>7, <1>8, <1>9, <1>10 DEF Next

\* The file is always readable: contiguous from seq 0, and nothing but the exit
\* record behind a stop marker, whatever fails or crashes in between.
THEOREM FileStaysWellFormed == SafeSpec => []FileIsWellFormed
<1>1. Init => DurableInv
  BY InitDurable
<1>2. DurableInv /\ [Next]_vars => DurableInv'
  BY NextDurable
<1>3. DurableInv => FileIsWellFormed
  BY DEF DurableInv
<1>. QED BY <1>1, <1>2, <1>3, PTL DEF SafeSpec

\* The promise behind every acknowledgement: a record that was acknowledged is
\* in the file at its seq, for ever.
THEOREM AcknowledgedStaysDurable == SafeSpec => []AckedIsDurable
<1>1. Init => DurableInv
  BY InitDurable
<1>2. DurableInv /\ [Next]_vars => DurableInv'
  BY NextDurable
<1>3. DurableInv => AckedIsDurable
  BY DEF DurableInv
<1>. QED BY <1>1, <1>2, <1>3, PTL DEF SafeSpec

\* No byte and no line is written past the limits that readers enforce.
THEOREM LimitsHold == SafeSpec => []WithinLimits
<1>1. Init => DurableInv
  BY InitDurable
<1>2. DurableInv /\ [Next]_vars => DurableInv'
  BY NextDurable
<1>3. DurableInv => WithinLimits
  BY DEF DurableInv
<1>. QED BY <1>1, <1>2, <1>3, PTL DEF SafeSpec
-----------------------------------------------------------------------------
(* The contract: what the log does to its file and tells its callers is a  *)
(* step of DurableLog, or none at all.                                     *)

\* A file that readers accept begins a log that keeps its contract.
LEMMA ContractBegins == Init => Contract!Init
<1> SUFFICES ASSUME Init PROVE Contract!Init
  OBVIOUS
<1>1. Contiguous(file) /\ StopIsLast(file)
  BY InitDurable DEF DurableInv, FileIsWellFormed
<1>2. Receipts = [c \in Calls |-> -1]
  BY DEF Init, IdleCall, Receipts
<1>. QED BY <1>1, <1>2 DEF Contract!Init, Contract!WellFormed, Contiguous, StopIsLast

\* No receipt is given while no call becomes acknowledged.
LEMMA ReceiptsStay ==
  ASSUME \A c \in Calls : \/ call'[c] = call[c]
                          \/ call[c].st # "acked" /\ call'[c].st # "acked"
  PROVE  Receipts' = Receipts
BY DEF Receipts

\* The head of a sound queue is stored as the next line of the contract.
LEMMA HeadIsStored ==
  ASSUME DurableInv, Live, pending # <<>>, ~poisoned,
         file' = Append(file, Head(pending)), call' = call
  PROVE  Contract!Store
<1> DEFINE r == Head(pending)
<1>1. /\ TypeOK /\ BufferInv /\ WithinLimits /\ FileIsWellFormed
  BY DEF DurableInv, BufferInv
<1>2. /\ Contiguous(Append(file, r)) /\ StopIsLast(Append(file, r))
  BY <1>1, HeadFollows
<1>3. r \in Record /\ file \in Seq(Record) /\ Len(file) \in Nat
  BY <1>1, QueueHead DEF TypeOK
<1> HIDE DEF r
<1>4. /\ Append(file, r) \in Seq(Record) /\ Len(Append(file, r)) = Len(file) + 1
      /\ Append(file, r)[Len(file) + 1] = r
      /\ \A i \in 1 .. Len(file) : Append(file, r)[i] = file[i]
  BY <1>3, AppendProperties
<1>5. DOMAIN Append(file, r) = 1 .. Len(file) + 1 /\ DOMAIN file = 1 .. Len(file)
  BY <1>3, <1>4, LenProperties
<1>6. r.seq = Len(file)
  <2>1. Len(file) + 1 \in 1 .. Len(file) + 1
    BY <1>3
  <2>. QED BY <2>1, <1>2, <1>3, <1>4, <1>5 DEF Contiguous
<1>7. ASSUME NEW i \in DOMAIN file, file[i].kind = "stop" PROVE r.kind = "exit"
  <2>1. i \in 1 .. Len(file) + 1 /\ Len(file) + 1 \in 1 .. Len(file) + 1 /\ i < Len(file) + 1
    BY <1>3, <1>5
  <2>2. Append(file, r)[i].kind = "stop"
    BY <1>4, <1>5, <1>7
  <2>. QED BY <2>1, <2>2, <1>2, <1>4, <1>5 DEF StopIsLast
<1>8. Receipts' = Receipts
  BY DEF Receipts
<1>9. file' = Append(file, r)
  BY DEF r
<1>10. Contract!HoldsStop(file) => r.kind = "exit"
  BY <1>7 DEF Contract!HoldsStop
<1>. QED BY <1>4, <1>6, <1>8, <1>9, <1>10 DEF Contract!Store

\* A call that settles gets its receipt, for a line that the file holds.
LEMMA SettledIsAcknowledged ==
  ASSUME TypeOK, NEW c \in Calls, CallSettles(c)
  PROVE  Contract!Acknowledge(c) \/ UNCHANGED Contract!vars
<1>1. /\ file' = file /\ call \in [Calls -> CallRecord] /\ call[c].st = "waiting"
      /\ call[c].seq \in Nat /\ Len(file) \in Nat
  BY DEF CallSettles, Waiting, disk, TypeOK, CallRecord
<1>2. CASE call[c].seq < Len(file) /\ call' = [call EXCEPT ![c].st = "acked"]
  <2>1. Receipts[c] = -1
    BY <1>1 DEF Receipts
  <2>2. call[c].seq \in 0 .. Len(file) - 1
    BY <1>1, <1>2
  <2>3. /\ call'[c].st = "acked" /\ call'[c].seq = call[c].seq
        /\ \A d \in Calls : d # c => call'[d] = call[d]
    BY <1>1, <1>2 DEF CallRecord
  <2>4. Receipts' = [Receipts EXCEPT ![c] = call[c].seq]
    BY <2>3 DEF Receipts
  <2>. QED BY <1>1, <2>1, <2>2, <2>4 DEF Contract!Acknowledge
<1>3. CASE call' = [call EXCEPT ![c].st = "rejected"]
  <2>1. \A d \in Calls : \/ call'[d] = call[d]
                         \/ call[d].st # "acked" /\ call'[d].st # "acked"
    BY <1>1, <1>3 DEF CallRecord
  <2>. QED BY <1>1, <2>1, ReceiptsStay DEF Contract!vars
<1>. QED BY <1>2, <1>3 DEF CallSettles

\* Making a call, or having it refused, gives no receipt.
LEMMA CallGivesNoReceipt ==
  ASSUME TypeOK, NEW c \in Calls, AppendCall(c)
  PROVE  UNCHANGED Contract!vars
<1>1. file' = file /\ call[c].st = "idle" /\ call \in [Calls -> CallRecord]
  BY DEF AppendCall, QueueAppend, Refuse, disk, TypeOK
<1>2. ASSUME NEW e, e.st # "acked", call' = [call EXCEPT ![c] = e]
      PROVE  UNCHANGED Contract!vars
  <2>1. \A d \in Calls : \/ call'[d] = call[d]
                         \/ call[d].st # "acked" /\ call'[d].st # "acked"
    BY <1>1, <1>2
  <2>. QED BY <1>1, <2>1, ReceiptsStay DEF Contract!vars
<1>3. ASSUME NEW kind, NEW n, AcknowledgeUnstored(c, kind, n) PROVE UNCHANGED Contract!vars
  <2> DEFINE e == [st |-> IF n = 0 THEN "threw" ELSE IF poisoned THEN "rejected" ELSE "waiting",
                   kind |-> kind, seq |-> IF n = 0 THEN 0 ELSE n - 1, stored |-> FALSE]
  <2>1. call' = [call EXCEPT ![c] = e]
    BY <1>3 DEF AcknowledgeUnstored
  <2>2. e.st # "acked"
    OBVIOUS
  <2> HIDE DEF e
  <2>. QED BY <2>1, <2>2, <1>2
<1>4. ASSUME NEW kind, NEW stored, NEW seq, Took(c, kind, stored, seq) PROVE UNCHANGED Contract!vars
  BY <1>2, <1>4 DEF Took
<1>5. ASSUME NEW kind, NEW bytes, QueueAppend(c, kind, bytes) PROVE UNCHANGED Contract!vars
  BY <1>3, <1>4, <1>5 DEF QueueAppend
<1>6. CASE Refuse(c)
  <2>1. \A d \in Calls : \/ call'[d] = call[d]
                         \/ call[d].st # "acked" /\ call'[d].st # "acked"
    BY <1>1, <1>6 DEF Refuse, CallRecord
  <2>. QED BY <1>1, <2>1, ReceiptsStay DEF Contract!vars
<1>. QED BY <1>5, <1>6 DEF AppendCall

\* Every step of the log is a step of its contract, or leaves the file and the
\* receipts as they are.
LEMMA ContractIsKept == DurableInv /\ [Next]_vars => [Contract!Next]_(Contract!vars)
<1> SUFFICES ASSUME DurableInv, [Next]_vars PROVE [Contract!Next]_(Contract!vars)
  OBVIOUS
<1>0. TypeOK
  BY DEF DurableInv
<1>s. ASSUME file' = file, call' = call PROVE UNCHANGED Contract!vars
  BY <1>s DEF Contract!vars, Receipts
<1>1. CASE Open \/ Reopen
  BY <1>1, <1>s DEF Open, Reopen, disk
<1>2. ASSUME NEW c \in Calls, AppendCall(c) PROVE UNCHANGED Contract!vars
  BY <1>0, <1>2, CallGivesNoReceipt
<1>3. ASSUME NEW c \in Calls, CallSettles(c) PROVE [Contract!Next]_(Contract!vars)
  <2>1. Contract!Acknowledge(c) \/ UNCHANGED Contract!vars
    BY <1>0, <1>3, SettledIsAcknowledged
  <2>. QED BY <2>1 DEF Contract!Next
<1>4. CASE WriteLands
  <2>1. Live /\ pending # <<>> /\ ~poisoned /\ file' = Append(file, Head(pending)) /\ call' = call
    BY <1>0, <1>4 DEF WriteLands, Live, DurableInv, TypeOK
  <2>. QED BY <2>1, HeadIsStored DEF Contract!Next
<1>5. CASE WriteFails \/ WriteInheritsFailure
  BY <1>5, <1>s DEF WriteFails, WriteInheritsFailure, disk
<1>6. CASE CloseBegins \/ CloseDrained \/ CloseEnds
  BY <1>6, <1>s DEF CloseBegins, CloseDrained, CloseEnds, disk
<1>7. CASE Crash
  <2>1. CASE file' = file
    BY <1>7, <2>1, <1>s DEF Crash
  <2>2. CASE pending # <<>> /\ ~poisoned /\ file' = Append(file, Head(pending))
    <3>1. Live /\ call' = call
      BY <1>7 DEF Crash, Live
    <3>. QED BY <2>2, <3>1, HeadIsStored DEF Contract!Next
  <2>. QED BY <1>7, <2>1, <2>2 DEF Crash, disk
<1>8. CASE UNCHANGED vars
  BY <1>8, <1>s DEF vars, disk
<1>. QED BY <1>1, <1>2, <1>3, <1>4, <1>5, <1>6, <1>7, <1>8 DEF Next, WriteSettles

\* The event log implements DurableLog: with all its queues, failures,
\* rollbacks and crashes, a reader and a caller see a file of numbered lines
\* that only grows, and receipts for lines that it holds.
THEOREM LogKeepsItsContract == SafeSpec => ImplementsContract
<1>1. Init => DurableInv
  BY InitDurable
<1>2. DurableInv /\ [Next]_vars => DurableInv'
  BY NextDurable
<1>3. Init => Contract!Init
  BY ContractBegins
<1>4. DurableInv /\ [Next]_vars => [Contract!Next]_(Contract!vars)
  BY ContractIsKept
<1>. QED BY <1>1, <1>2, <1>3, <1>4, PTL DEF SafeSpec, ImplementsContract, Contract!Spec
-----------------------------------------------------------------------------
(* What the buffer has shown of a durable record never changes.            *)

HostLives == phase \in {"open", "draining", "closing", "broken"}

\* A line that is on disk stays there, at its place.
LEMMA LinesStay ==
  ASSUME TypeOK, [Next]_vars, NEW i \in DOMAIN file
  PROVE  i \in DOMAIN file' /\ file'[i] = file[i]
<1>1. file \in Seq(Record) /\ pending \in Seq(Record)
  BY DEF TypeOK
<1>2. file' = file \/ (pending # <<>> /\ file' = Append(file, Head(pending)))
  BY DEF Next, Open, Reopen, AppendCall, QueueAppend, Refuse, CallSettles,
         WriteSettles, WriteLands, WriteFails, WriteInheritsFailure,
         CloseBegins, CloseDrained, CloseEnds, Crash, disk, vars
<1>3. CASE pending # <<>> /\ file' = Append(file, Head(pending))
  <2>1. Head(pending) \in Record
    BY <1>1, <1>3
  <2>2. /\ file' \in Seq(Record) /\ Len(file') = Len(file) + 1
        /\ \A j \in 1 .. Len(file) : file'[j] = file[j]
    BY <1>1, <1>3, <2>1, AppendProperties
  <2>3. DOMAIN file = 1 .. Len(file) /\ DOMAIN file' = 1 .. Len(file')
        /\ Len(file) \in Nat
    BY <1>1, <2>2, LenProperties
  <2>. QED BY <2>2, <2>3
<1>. QED BY <1>2, <1>3

\* A living host goes on living, closes its log, or dies; only a crash makes it
\* die, and a crash leaves its memory as it was.
LEMMA HostMoves ==
  ASSUME TypeOK, [Next]_vars, HostLives
  PROVE  Live' \/ buffer' = buffer
<1>1. CASE phase' = phase
  BY <1>1 DEF HostLives, Live
<1>2. CASE Open \/ Reopen
  BY <1>2 DEF Open, Reopen, HostLives
<1>3. ASSUME NEW c \in Calls, AppendCall(c) \/ CallSettles(c) PROVE phase' = phase
  BY <1>3 DEF AppendCall, QueueAppend, Refuse, CallSettles, control
<1>4. CASE WriteSettles
  BY <1>1, <1>4 DEF WriteSettles, WriteLands, WriteFails, WriteInheritsFailure, control
<1>5. CASE CloseBegins \/ CloseDrained \/ CloseEnds
  BY <1>5 DEF CloseBegins, CloseDrained, CloseEnds, Live
<1>6. CASE Crash
  BY <1>6 DEF Crash, memory
<1>7. CASE UNCHANGED vars
  BY <1>1, <1>7 DEF vars, control
<1>. QED BY <1>1, <1>2, <1>3, <1>4, <1>5, <1>6, <1>7 DEF Next

\* While the log is in use its buffer begins with the lines of the file.
LEMMA BufferShowsFile ==
  ASSUME DurableInv, Live, NEW i \in DOMAIN file
  PROVE  i \in DOMAIN buffer /\ buffer[i] = file[i]
<1>1. file \in Seq(Record) /\ buffer \in Seq(Record) /\ FileIsPrefix
  BY DEF DurableInv, TypeOK
<1>2. /\ DOMAIN file = 1 .. Len(file) /\ DOMAIN buffer = 1 .. Len(buffer)
      /\ Len(file) \in Nat /\ Len(buffer) \in Nat
  BY <1>1, LenProperties
<1>. QED BY <1>1, <1>2 DEF FileIsPrefix

\* The same of the state after a step.
LEMMA BufferShowsFileNext ==
  DurableInv' /\ Live' =>
    \A i \in DOMAIN file' : i \in DOMAIN buffer' /\ buffer'[i] = file'[i]
<1> SUFFICES ASSUME DurableInv', Live'
             PROVE  \A i \in DOMAIN file' : i \in DOMAIN buffer' /\ buffer'[i] = file'[i]
  OBVIOUS
<1>1. file' \in Seq(Record) /\ buffer' \in Seq(Record) /\ FileIsPrefix'
  BY DEF DurableInv, TypeOK
<1>2. /\ DOMAIN file' = 1 .. Len(file') /\ DOMAIN buffer' = 1 .. Len(buffer')
      /\ Len(file') \in Nat /\ Len(buffer') \in Nat
  BY <1>1, LenProperties
<1>. QED BY <1>1, <1>2 DEF FileIsPrefix

\* A rollback, a close, a crash and the appends after a failure leave what
\* readers of the buffer saw of a durable record (eventLog.ts:572): a step of a
\* living host never takes such a record out of the buffer or replaces it.
THEOREM DurableEventsStay == SafeSpec => DurableEventsAreStable
<1>1. Init => DurableInv
  BY InitDurable
<1>2. DurableInv /\ [Next]_vars => DurableInv'
  BY NextDurable
<1>3. DurableInv /\ DurableInv' /\ [Next]_vars =>
        [\A i \in DOMAIN file :
           phase \in {"open", "draining", "closing", "broken"} =>
             i \in DOMAIN buffer' /\ buffer'[i] = file[i]]_vars
  <2> SUFFICES ASSUME DurableInv, DurableInv', [Next]_vars, HostLives,
                      NEW i \in DOMAIN file
               PROVE  i \in DOMAIN buffer' /\ buffer'[i] = file[i]
    BY DEF HostLives
  <2>1. TypeOK /\ Live
    BY DEF DurableInv, HostLives, Live
  <2>2. CASE Live'
    BY <2>1, <2>2, LinesStay, BufferShowsFileNext
  <2>3. CASE buffer' = buffer
    BY <2>1, <2>3, BufferShowsFile
  <2>. QED BY <2>1, <2>2, <2>3, HostMoves
<1>. QED BY <1>1, <1>2, <1>3, PTL DEF SafeSpec, DurableEventsAreStable
-----------------------------------------------------------------------------
(* The reserve at the end of the event log is enough: a log that was       *)
(* opened with it free stores its stop marker before it drops anything,    *)
(* and never drops the exit record.                                        *)

\* Some call was made for the exit record.
Exiting == \E c \in Calls : call[c].kind = "exit"

StopUse == IF stopped THEN StopBytes ELSE 0
ExitUse == IF Exiting THEN ExitBytes ELSE 0
StopPlace == IF stopped THEN 1 ELSE 0
ExitPlace == IF Exiting THEN 1 ELSE 0

\* Only the marker and the exit record have gone into the reserve.
Room ==
  /\ fileBytes <= MaxBytes - ReserveBytes + StopUse + ExitUse
  /\ Len(buffer) <= MaxEntries - ReserveEntries + StopPlace + ExitPlace

\* A log that was opened without its reserve never gets it back.
Cramped ==
  /\ file # <<>>
  /\ fileSize > MaxBytes - ReserveBytes \/ Len(file) > MaxEntries - ReserveEntries

StopIsThere == stopped /\ ~poisoned => HoldsStop(buffer)

\* A caller whose record was dropped, and that may yet be told it was taken,
\* has the marker before it.
WaitingFindsStop ==
  \A c \in Calls :
    /\ Waiting(c) /\ ~call[c].stored
    /\ call[c].seq < Len(file) \/ ~poisoned
    => /\ call[c].seq < Len(buffer)
       /\ \E i \in 1 .. call[c].seq + 1 : buffer[i].kind = "stop"

ReserveInv ==
  /\ Live => IF roomy THEN Room /\ StopIsThere /\ WaitingFindsStop ELSE Cramped
  /\ DropIsExplained
  /\ ExitIsStored
  /\ \A c \in Calls : call[c].st = "idle" => call[c].kind = "data"
  /\ phase = "fresh" => ~roomy /\ \A c \in Calls : call[c].st = "idle"
-----------------------------------------------------------------------------
LEMMA Weaken ==
  ASSUME NEW x \in Int, NEW a \in Int, NEW b \in Nat, NEW c \in Nat, x <= a
  PROVE  x <= a + b + c
OBVIOUS

LEMMA InitReserve == Init => ReserveInv
BY DEF Init, ReserveInv, Live, DropIsExplained, ExitIsStored, IdleCall

\* Opening: the reserve is free or is not. No call waits.
LEMMA LoadReserve ==
  ASSUME DurableInv, ReserveInv, Load, UNCHANGED <<disk, pending, poisoned, call>>,
         Live => ~poisoned, ~Live => phase = "fresh" /\ ~roomy,
         \A c \in Calls : ~Waiting(c), ~Live => \A c \in Calls : call[c].st = "idle"
  PROVE  ReserveInv'
<1>1. UNCHANGED <<file, fileSize, torn, pending, poisoned, call>>
  BY DEF disk
<1>2. CASE BlankAndFull
  <2>1. phase' = "refused" /\ roomy' = roomy
    BY <1>2 DEF Load
  <2>. QED BY <1>1, <2>1 DEF ReserveInv, Live, DropIsExplained, ExitIsStored
<1>3. CASE ~BlankAndFull
  <2>1. /\ phase' = "open" /\ buffer' = file /\ fileBytes' = fileSize /\ stopped' = HoldsStop(file)
        /\ roomy' = (fileSize <= MaxBytes - ReserveBytes /\ Len(file) <= MaxEntries - ReserveEntries)
    BY <1>3 DEF Load
  <2>0. /\ fileSize \in Nat /\ Len(file) \in Nat /\ MaxBytes \in Nat /\ ReserveBytes \in Nat
        /\ MaxEntries \in Nat /\ ReserveEntries = 2 /\ StopBytes \in Nat /\ ExitBytes \in Nat
        /\ MaxEntries > ReserveEntries
    BY LimitsAssumption, SizesAssumption DEF DurableInv, TypeOK
  <2>r. roomy' <=> fileSize <= MaxBytes - ReserveBytes /\ Len(file) <= MaxEntries - ReserveEntries
    BY <2>1, Zenon
  <2>2. DropIsExplained' /\ ExitIsStored'
    <3>1. CASE Live /\ ~roomy
      <4>1. ~roomy'
        BY <2>0, <2>r, <3>1 DEF ReserveInv, Cramped
      <4>. QED BY <1>1, <4>1 DEF ReserveInv, DropIsExplained, ExitIsStored
    <3>2. CASE Live /\ roomy
      BY <1>1, <3>2 DEF ReserveInv, DropIsExplained, ExitIsStored
    <3>3. CASE ~Live
      BY <1>1, <3>3 DEF DropIsExplained, ExitIsStored
    <3>. QED BY <3>1, <3>2, <3>3
  <2>3. ASSUME roomy' PROVE Room' /\ StopIsThere' /\ WaitingFindsStop'
    <3>1. Room'
      <4>1. StopUse' \in Nat /\ ExitUse' \in Nat /\ StopPlace' \in Nat /\ ExitPlace' \in Nat
        BY <2>0 DEF StopUse, ExitUse, StopPlace, ExitPlace
      <4>2. fileBytes' = fileSize /\ Len(buffer') = Len(file)
        BY <2>1
      <4>3. fileSize <= MaxBytes - ReserveBytes /\ Len(file) <= MaxEntries - ReserveEntries
        BY <2>r, <2>3
      <4>4. fileBytes' <= MaxBytes - ReserveBytes + StopUse' + ExitUse'
        <5>1. MaxBytes - ReserveBytes \in Int /\ fileBytes' \in Int /\ fileBytes' <= MaxBytes - ReserveBytes
          BY <2>0, <4>2, <4>3
        <5>. QED BY <4>1, <5>1, Weaken
      <4>5. Len(buffer') <= MaxEntries - ReserveEntries + StopPlace' + ExitPlace'
        BY <2>0, <4>1, <4>2, <4>3
      <4>. QED BY <4>4, <4>5 DEF Room
    <3>2. StopIsThere'
      BY <2>1 DEF StopIsThere, HoldsStop
    <3>3. WaitingFindsStop'
      BY <1>1 DEF WaitingFindsStop, Waiting
    <3>. QED BY <3>1, <3>2, <3>3
  <2>4. ASSUME ~roomy' PROVE Cramped'
    BY <1>1, <1>3, <2>0, <2>r, <2>4 DEF Cramped, BlankAndFull
  <2>5. \A c \in Calls : call'[c].st = "idle" => call'[c].kind = "data"
    BY <1>1 DEF ReserveInv
  <2>. QED BY <2>1, <2>2, <2>3, <2>4, <2>5 DEF ReserveInv
<1>. QED BY <1>2, <1>3

\* What DurableInv says of the sizes, in one place.
LEMMA Sized ==
  ASSUME DurableInv, Live
  PROVE  /\ fileSize \in Nat /\ fileBytes \in Nat /\ Len(file) \in Nat /\ Len(buffer) \in Nat
         /\ nextSeq = Len(buffer) /\ Len(file) <= Len(buffer)
         /\ MaxBytes \in Nat /\ ReserveBytes \in Nat /\ StopBytes + ExitBytes <= ReserveBytes
         /\ MaxEntries \in Nat /\ ReserveEntries = 2 /\ MaxEntries > 2
         /\ StopBytes \in Nat /\ ExitBytes \in Nat
         /\ call \in [Calls -> CallRecord] /\ buffer \in Seq(Record) /\ file \in Seq(Record)
BY LimitsAssumption, SizesAssumption DEF DurableInv, TypeOK, FileIsPrefix

\* Every drop stays explained while the file grows and no call moves.
LEMMA DropStays ==
  ASSUME DurableInv, DropIsExplained, ExitIsStored, NEW r,
         file' = file \/ file' = Append(file, r), UNCHANGED <<call, roomy>>, poisoned => poisoned'
  PROVE  DropIsExplained' /\ ExitIsStored'
<1>1. ExitIsStored'
  BY DEF ExitIsStored
<1>2. ASSUME NEW c \in Calls, call[c].st = "acked", ~call[c].stored, roomy
      PROVE  \E i \in 1 .. call[c].seq + 1 : file'[i].kind = "stop"
  <2>1. PICK i \in 1 .. call[c].seq + 1 : file[i].kind = "stop"
    BY <1>2 DEF DropIsExplained
  <2>2. call[c].seq < Len(file) /\ call[c].seq \in Nat /\ file \in Seq(Record)
    BY <1>2 DEF DurableInv, AckedIsDurable, TypeOK, CallRecord
  <2>3. i \in 1 .. Len(file)
    BY <2>2
  <2>4. file'[i] = file[i]
    BY <2>2, <2>3
  <2>. QED BY <2>1, <2>4
<1>. QED BY <1>1, <1>2 DEF DropIsExplained

\* The exit record, or a stop marker, always fits while the reserve is kept.
LEMMA ReserveIsEnough ==
  ASSUME DurableInv, Live, Room
  PROVE  /\ ~Exiting => Fits("exit", ExitBytes)
         /\ ~stopped => StopFits
<1>. DEFINE B == MaxBytes - ReserveBytes
<1>0. B \in Int /\ MaxBytes = B + ReserveBytes
  BY Sized
<1>. HIDE DEF B
<1>1. ~Exiting => ExitUse = 0 /\ ExitPlace = 0
  BY DEF ExitUse, ExitPlace
<1>2. ~stopped => StopUse = 0 /\ StopPlace = 0
  BY DEF StopUse, StopPlace
<1>3. StopUse \in {0, StopBytes} /\ ExitUse \in {0, ExitBytes} /\ StopPlace \in {0, 1} /\ ExitPlace \in {0, 1}
  BY DEF StopUse, StopPlace, ExitUse, ExitPlace
<1>4. fileBytes <= B + StopUse + ExitUse /\ Len(buffer) <= MaxEntries - 2 + StopPlace + ExitPlace
  BY Sized DEF Room, B
<1>5. ASSUME ~Exiting PROVE Fits("exit", ExitBytes)
  <2>1. fileBytes <= B + StopBytes
    BY <1>0, <1>1, <1>3, <1>4, <1>5, Sized, SMTT(40)
  <2>2. ExitBytes <= MaxBytes - fileBytes
    BY <1>0, <2>1, Sized
  <2>3. Len(buffer) + 1 <= MaxEntries
    BY <1>1, <1>3, <1>4, <1>5, Sized
  <2>. QED BY <2>2, <2>3, Sized DEF Fits
<1>6. ASSUME ~stopped PROVE StopFits
  <2>1. fileBytes <= B + ExitBytes
    BY <1>0, <1>2, <1>3, <1>4, <1>6, Sized, SMTT(40)
  <2>2. StopBytes <= MaxBytes - fileBytes
    BY <1>0, <2>1, Sized
  <2>3. Len(buffer) + 1 <= MaxEntries
    BY <1>2, <1>3, <1>4, <1>6, Sized
  <2>. QED BY <2>2, <2>3 DEF StopFits
<1>. QED BY <1>5, <1>6

-----------------------------------------------------------------------------
(* Appending *)

\* What an append does to the calls: one leaves "idle", with its kind.
LEMMA AppendMoves ==
  ASSUME DurableInv, ReserveInv, NEW c \in Calls, NEW kind \in {"data", "exit"},
         NEW bytes \in Nat \ {0}, QueueAppend(c, kind, bytes)
  PROVE  /\ Live /\ Live' /\ phase' = phase /\ phase # "fresh"
         /\ UNCHANGED <<file, fileSize, roomy, poisoned>>
         /\ \A d \in Calls : d # c => call'[d] = call[d]
         /\ call'[c].kind = kind /\ call'[c].st \in {"waiting", "threw", "rejected"}
         /\ Exiting' <=> Exiting \/ kind = "exit"
         /\ kind = "exit" => ~Exiting
<1>1. /\ phase \in {"open", "draining", "closing", "broken"}
      /\ UNCHANGED <<file, fileSize, phase, roomy, poisoned>>
      /\ call[c].st = "idle" /\ call \in [Calls -> CallRecord]
  BY DEF QueueAppend, disk, control, DurableInv, TypeOK
<1>2. call[c].kind = "data"
  BY <1>1 DEF ReserveInv
<1>3. /\ \A d \in Calls : d # c => call'[d] = call[d]
      /\ call'[c].kind = kind /\ call'[c].st \in {"waiting", "threw", "rejected"}
  <2>1. ASSUME NEW n, AcknowledgeUnstored(c, kind, n)
        PROVE  /\ \A d \in Calls : d # c => call'[d] = call[d]
               /\ call'[c].kind = kind /\ call'[c].st \in {"waiting", "threw", "rejected"}
    BY <1>1, <2>1 DEF AcknowledgeUnstored
  <2>2. CASE Took(c, kind, TRUE, nextSeq)
    BY <1>1, <2>2 DEF Took
  <2>. QED BY <2>1, <2>2 DEF QueueAppend
<1>5. Exiting' <=> Exiting \/ kind = "exit"
  BY <1>2, <1>3 DEF Exiting
<1>6. kind = "exit" => ~Exiting
  BY DEF QueueAppend, Exiting
<1>. QED BY <1>1, <1>3, <1>5, <1>6 DEF Live

\* A log that was opened without its reserve promises nothing; but it holds a
\* record, so the assertion of acknowledgeUnstored does not fail.
LEMMA CrampedAppend ==
  ASSUME DurableInv, DurableInv', ReserveInv, ~roomy,
         NEW c \in Calls, NEW kind \in {"data", "exit"}, NEW bytes \in Nat \ {0},
         QueueAppend(c, kind, bytes)
  PROVE  ReserveInv'
<1>1. /\ Live /\ Live' /\ phase' = phase /\ phase # "fresh" /\ UNCHANGED <<file, fileSize, roomy, poisoned>>
      /\ \A d \in Calls : d # c => call'[d] = call[d]
      /\ call'[c].st \in {"waiting", "threw", "rejected"}
  BY AppendMoves
<1>2. Cramped /\ Cramped'
  BY <1>1 DEF ReserveInv, Cramped
<1>3. nextSeq # 0 /\ nextSeq' # 0
  <2>1. Len(file) # 0
    BY <1>2, Sized, <1>1 DEF Cramped
  <2>2. nextSeq = Len(buffer) /\ Len(file) <= Len(buffer) /\ Len(buffer) \in Nat
    BY <1>1, Sized
  <2>3. nextSeq' = Len(buffer') /\ Len(file') <= Len(buffer') /\ Len(buffer') \in Nat
    <3>1. FileIsPrefix' /\ TypeOK'
      BY <1>1 DEF DurableInv
    <3>. QED BY <3>1 DEF FileIsPrefix, TypeOK
  <2>4. Len(file) \in Nat
    BY <1>1, Sized
  <2>. QED BY <1>1, <2>1, <2>2, <2>3, <2>4
<1>4. call'[c].st # "threw"
  <2>1. call \in [Calls -> CallRecord]
    BY DEF DurableInv, TypeOK
  <2>2. CASE AcknowledgeUnstored(c, kind, nextSeq)
    BY <1>3, <2>1, <2>2 DEF AcknowledgeUnstored
  <2>3. CASE AcknowledgeUnstored(c, kind, nextSeq')
    BY <1>3, <2>1, <2>3 DEF AcknowledgeUnstored
  <2>4. CASE Took(c, kind, TRUE, nextSeq)
    BY <2>1, <2>4 DEF Took
  <2>. QED BY <2>2, <2>3, <2>4 DEF QueueAppend
<1>5. DropIsExplained'
  <2>1. \A d \in Calls : d # c => (call'[d].st = "threw" => poisoned')
    BY <1>1 DEF ReserveInv, DropIsExplained
  <2>2. ~roomy'
    BY <1>1
  <2>. QED BY <1>4, <2>1, <2>2 DEF DropIsExplained
<1>6. ExitIsStored'
  BY <1>1 DEF ExitIsStored
<1>7. \A d \in Calls : call'[d].st = "idle" => call'[d].kind = "data"
  BY <1>1 DEF ReserveInv
<1>. QED BY <1>1, <1>2, <1>5, <1>6, <1>7 DEF ReserveInv

\* What is left to show of an append to a log with its reserve: the calls that
\* did not move keep what they had.
LEMMA RoomyAppend ==
  ASSUME DurableInv, ReserveInv, roomy, NEW c \in Calls, NEW kind \in {"data", "exit"},
         NEW bytes \in Nat \ {0}, QueueAppend(c, kind, bytes),
         Room', StopIsThere',
         buffer' = buffer \/ \E r \in Record : buffer' = Append(buffer, r),
         call'[c].st = "waiting" /\ ~call'[c].stored =>
            /\ call'[c].seq < Len(buffer')
            /\ \E i \in 1 .. call'[c].seq + 1 : buffer'[i].kind = "stop",
         call'[c].st = "threw" => poisoned,
         kind = "exit" => call'[c].stored
  PROVE  ReserveInv'
<1>1. /\ Live /\ Live' /\ phase' = phase /\ phase # "fresh" /\ UNCHANGED <<file, fileSize, roomy, poisoned>>
      /\ \A d \in Calls : d # c => call'[d] = call[d]
      /\ call'[c].kind = kind /\ call'[c].st \in {"waiting", "threw", "rejected"}
  BY AppendMoves
<1>2. WaitingFindsStop'
  <2>1. ASSUME NEW d \in Calls, d # c, Waiting(d), ~call[d].stored,
               call[d].seq < Len(file) \/ ~poisoned
        PROVE  /\ call[d].seq < Len(buffer')
               /\ \E i \in 1 .. call[d].seq + 1 : buffer'[i].kind = "stop"
    <3>0. WaitingFindsStop
      BY <1>1 DEF ReserveInv
    <3>1. call[d].seq < Len(buffer) /\ call[d].seq \in Nat
      BY <1>1, <2>1, <3>0, Sized DEF WaitingFindsStop, CallRecord
    <3>2. PICK i \in 1 .. call[d].seq + 1 : buffer[i].kind = "stop"
      BY <2>1, <3>0 DEF WaitingFindsStop
    <3>3. buffer \in Seq(Record) /\ i \in 1 .. Len(buffer)
      BY <1>1, <3>1, Sized
    <3>4. Len(buffer) <= Len(buffer') /\ buffer'[i] = buffer[i]
      BY <3>3
    <3>5. Len(buffer') \in Nat /\ Len(buffer) \in Nat
      BY <3>3
    <3>. QED BY <3>1, <3>2, <3>4, <3>5
  <2>2. ASSUME NEW d \in Calls, d # c PROVE call'[d] = call[d]
    BY <1>1, <2>2
  <2>. QED BY <1>1, <2>1, <2>2 DEF WaitingFindsStop, Waiting
<1>3. DropIsExplained'
  <2>1. \A d \in Calls : d # c =>
          /\ call'[d].st = "acked" /\ ~call'[d].stored /\ roomy' =>
               \E i \in 1 .. call'[d].seq + 1 : file'[i].kind = "stop"
          /\ call'[d].st = "threw" => poisoned'
    BY <1>1 DEF ReserveInv, DropIsExplained
  <2>. QED BY <1>1, <2>1 DEF DropIsExplained
<1>4. ExitIsStored'
  <2>1. \A d \in Calls : d # c =>
          (roomy' /\ call'[d].kind = "exit" /\ call'[d].st \in {"waiting", "acked"} => call'[d].stored)
    BY <1>1 DEF ReserveInv, ExitIsStored
  <2>. QED BY <1>1, <2>1 DEF ExitIsStored
<1>5. \A d \in Calls : call'[d].st = "idle" => call'[d].kind = "data"
  BY <1>1 DEF ReserveInv
<1>. QED BY <1>1, <1>2, <1>3, <1>4, <1>5 DEF ReserveInv

\* A record that fits leaves the reserve as it was; the exit record is in it.
LEMMA FitsKeepsRoom ==
  ASSUME DurableInv, ReserveInv, Live, Room, NEW c \in Calls, NEW kind \in {"data", "exit"},
         NEW bytes \in Nat \ {0}, kind = "exit" => bytes = ExitBytes,
         Fits(kind, bytes), Enqueue(Line(kind, bytes, c)), UNCHANGED stopped,
         Exiting' <=> Exiting \/ kind = "exit", kind = "exit" => ~Exiting
  PROVE  Room'
<1>. DEFINE B == MaxBytes - ReserveBytes
<1>0. B \in Int /\ MaxBytes = B + ReserveBytes
  BY Sized
<1>. HIDE DEF B
<1>1. fileBytes' = fileBytes + bytes /\ Len(buffer') = Len(buffer) + 1
  BY Sized DEF Enqueue, Line
<1>t. /\ fileBytes \in Nat /\ bytes \in Nat /\ ReserveBytes \in Nat /\ Len(buffer) \in Nat
      /\ MaxEntries \in Nat /\ ReserveEntries = 2 /\ ExitBytes \in Nat
  BY Sized
<1>2. /\ StopUse' = StopUse /\ StopUse \in Nat /\ ExitUse \in Nat /\ ExitUse' \in Nat
      /\ StopPlace' = StopPlace /\ StopPlace \in Nat /\ ExitPlace \in Nat /\ ExitPlace' \in Nat
  BY Sized DEF StopUse, ExitUse, StopPlace, ExitPlace
<1>3. fileBytes <= B + StopUse + ExitUse /\ Len(buffer) <= MaxEntries - 2 + StopPlace + ExitPlace
  BY Sized DEF Room, B
<1>4. fileBytes' <= B + StopUse' + ExitUse' /\ Len(buffer') <= MaxEntries - 2 + StopPlace' + ExitPlace'
  <2>1. CASE kind = "data"
    <3>1. bytes <= MaxBytes - fileBytes - ReserveBytes /\ Len(buffer) + 1 <= MaxEntries - 2
      BY <2>1, Sized DEF Fits
    <3>2. fileBytes' <= B
      BY <1>0, <1>1, <1>t, <3>1
    <3>3. fileBytes' <= B + StopUse' + ExitUse'
      <4>1. fileBytes' \in Int /\ StopUse' \in Nat /\ ExitUse' \in Nat
        BY <1>1, <1>2, <1>t
      <4>. QED BY <1>0, <3>2, <4>1, Weaken
    <3>4. Len(buffer') <= MaxEntries - 2
      BY <1>1, <1>t, <3>1
    <3>5. Len(buffer') <= MaxEntries - 2 + StopPlace' + ExitPlace'
      BY <1>1, <1>2, <1>t, <3>4
    <3>. QED BY <3>3, <3>5
  <2>2. CASE kind = "exit"
    <3>1. ExitUse = 0 /\ ExitPlace = 0
      BY <2>2 DEF ExitUse, ExitPlace
    <3>2. ExitUse' = ExitBytes /\ ExitPlace' = 1
      BY <2>2 DEF ExitUse, ExitPlace
    <3>3. fileBytes <= B + StopUse /\ Len(buffer) <= MaxEntries - 2 + StopPlace
      BY <1>0, <1>2, <1>3, <1>t, <3>1
    <3>4. fileBytes' <= B + StopUse' + ExitUse'
      BY <1>0, <1>1, <1>2, <1>t, <2>2, <3>2, <3>3
    <3>5. Len(buffer') <= MaxEntries - 2 + StopPlace' + ExitPlace'
      BY <1>1, <1>2, <1>t, <3>2, <3>3
    <3>. QED BY <3>4, <3>5
  <2>. QED BY <2>1, <2>2
<1>. QED BY <1>4, Sized DEF Room, B

\* The stop marker is in the reserve too.
LEMMA StopKeepsRoom ==
  ASSUME DurableInv, Live, Room, ~stopped, stopped',
         Enqueue(Line("stop", StopBytes, NoCall)), Exiting' <=> Exiting
  PROVE  Room'
<1>. DEFINE B == MaxBytes - ReserveBytes
<1>0. B \in Int
  BY Sized
<1>1. fileBytes' = fileBytes + StopBytes /\ Len(buffer') = Len(buffer) + 1
  BY Sized DEF Enqueue, Line
<1>2. /\ StopUse = 0 /\ StopPlace = 0 /\ StopUse' = StopBytes /\ StopPlace' = 1
      /\ ExitUse' = ExitUse /\ ExitPlace' = ExitPlace /\ ExitUse \in Nat /\ ExitPlace \in Nat
  BY Sized DEF StopUse, ExitUse, StopPlace, ExitPlace
<1>3. fileBytes <= B + ExitUse /\ Len(buffer) <= MaxEntries - 2 + ExitPlace
  BY <1>0, <1>2, Sized DEF Room
<1>. HIDE DEF B
<1>t. fileBytes \in Nat /\ StopBytes \in Nat /\ Len(buffer) \in Nat /\ MaxEntries \in Nat
  BY Sized
<1>4. fileBytes' <= B + StopUse' + ExitUse'
  BY <1>0, <1>1, <1>2, <1>3, <1>t
<1>5. Len(buffer') <= MaxEntries - 2 + StopPlace' + ExitPlace'
  BY <1>1, <1>2, <1>3, <1>t
<1>. QED BY <1>4, <1>5, Sized DEF Room, B

\* An append to a log that was opened with its reserve free.
LEMMA AppendReserve ==
  ASSUME DurableInv, ReserveInv, roomy, NEW c \in Calls, NEW kind \in {"data", "exit"},
         NEW bytes \in Nat \ {0}, kind = "exit" => bytes = ExitBytes,
         QueueAppend(c, kind, bytes)
  PROVE  ReserveInv'
<1>1. /\ Live /\ UNCHANGED <<file, roomy, poisoned>>
      /\ Exiting' <=> Exiting \/ kind = "exit"
      /\ kind = "exit" => ~Exiting
  BY AppendMoves
<1>2. Room /\ StopIsThere
  BY <1>1 DEF ReserveInv
<1>3. call \in [Calls -> CallRecord] /\ buffer \in Seq(Record) /\ nextSeq = Len(buffer) /\ Len(buffer) \in Nat
  BY <1>1, Sized
<1>4. ~stopped => StopFits
  BY <1>1, <1>2, ReserveIsEnough
<1>5. kind = "exit" => Fits(kind, bytes)
  BY <1>1, <1>2, ReserveIsEnough
<1>6. CASE stopped /\ kind # "exit" /\ AcknowledgeUnstored(c, kind, nextSeq) /\ UNCHANGED <<memory, pending>>
  <2>1. UNCHANGED <<buffer, fileBytes, stopped>>
    BY <1>6 DEF memory
  <2>2. Room'
    BY <1>1, <1>2, <1>6, <2>1 DEF Room, StopUse, ExitUse, StopPlace, ExitPlace
  <2>3. StopIsThere'
    BY <1>1, <1>2, <2>1 DEF StopIsThere, HoldsStop
  <2>4. ~poisoned => nextSeq # 0 /\ \E i \in 1 .. Len(buffer) : buffer[i].kind = "stop"
    BY <1>2, <1>3, <1>6 DEF StopIsThere, HoldsStop
  <2>5. call'[c] = [st |-> IF nextSeq = 0 THEN "threw" ELSE IF poisoned THEN "rejected" ELSE "waiting",
                    kind |-> kind, seq |-> IF nextSeq = 0 THEN 0 ELSE nextSeq - 1, stored |-> FALSE]
    BY <1>3, <1>6 DEF AcknowledgeUnstored
  <2>6. call'[c].st = "threw" => poisoned
    BY <2>4, <2>5
  <2>7. ASSUME call'[c].st = "waiting"
        PROVE  call'[c].seq < Len(buffer') /\ \E i \in 1 .. call'[c].seq + 1 : buffer'[i].kind = "stop"
    <3>1. ~poisoned /\ nextSeq # 0
      BY <2>5, <2>7
    <3>2. call'[c].seq = Len(buffer) - 1
      BY <1>3, <2>5, <3>1
    <3>3. call'[c].seq + 1 = Len(buffer) /\ call'[c].seq < Len(buffer)
      BY <1>3, <3>2
    <3>. QED BY <2>1, <2>4, <3>1, <3>3
  <2>. QED BY <1>6, <2>1, <2>2, <2>3, <2>6, <2>7, RoomyAppend
<1>7. CASE Fits(kind, bytes) /\ Enqueue(Line(kind, bytes, c)) /\ Took(c, kind, TRUE, nextSeq) /\ UNCHANGED stopped
  <2>1. Room'
    BY <1>1, <1>2, <1>7, FitsKeepsRoom
  <2>2. Line(kind, bytes, c) \in Record /\ buffer' = Append(buffer, Line(kind, bytes, c))
    BY <1>7, LineType DEF Enqueue, DurableInv, Kinds
  <2>3. StopIsThere'
    <3>1. ASSUME HoldsStop(buffer) PROVE HoldsStop(buffer')
      <4>1. PICK i \in 1 .. Len(buffer) : buffer[i].kind = "stop"
        BY <1>3, <3>1 DEF HoldsStop
      <4>2. i \in DOMAIN buffer' /\ buffer'[i] = buffer[i]
        BY <1>3, <2>2
      <4>. QED BY <4>1, <4>2 DEF HoldsStop
    <3>. QED BY <1>1, <1>2, <1>7, <3>1 DEF StopIsThere
  <2>4. call'[c].stored /\ call'[c].st = "waiting"
    BY <1>3, <1>7 DEF Took
  <2>. QED BY <2>1, <2>2, <2>3, <2>4, RoomyAppend
<1>8. CASE ~stopped /\ ~Fits(kind, bytes) /\ RecordStop /\ AcknowledgeUnstored(c, kind, nextSeq')
  <2>1. stopped' /\ Enqueue(Line("stop", StopBytes, NoCall)) /\ kind # "exit"
    BY <1>4, <1>5, <1>8 DEF RecordStop
  <2>2. Room'
    BY <1>1, <1>2, <1>8, <2>1, StopKeepsRoom
  <2>3. Line("stop", StopBytes, NoCall) \in Record /\ buffer' = Append(buffer, Line("stop", StopBytes, NoCall))
    BY <2>1, LineType, SizesAssumption DEF Enqueue, DurableInv, Kinds
  <2>4. buffer'[Len(buffer) + 1].kind = "stop" /\ Len(buffer') = Len(buffer) + 1
    BY <1>3, <2>3 DEF Line
  <2>5. StopIsThere'
    BY <1>3, <2>3, <2>4 DEF StopIsThere, HoldsStop
  <2>6. nextSeq' = Len(buffer) + 1
    BY <1>3, <2>1 DEF Enqueue
  <2>7. call'[c].st # "threw" /\ call'[c].seq = Len(buffer)
    BY <1>3, <1>8, <2>6 DEF AcknowledgeUnstored
  <2>8. call'[c].seq < Len(buffer') /\ \E i \in 1 .. call'[c].seq + 1 : buffer'[i].kind = "stop"
    BY <1>3, <2>4, <2>7
  <2>. QED BY <2>1, <2>2, <2>3, <2>5, <2>7, <2>8, RoomyAppend
<1>9. CASE kind = "exit" /\ ~Fits(kind, bytes)
  BY <1>5, <1>9
<1>. QED BY <1>6, <1>7, <1>8, <1>9 DEF QueueAppend
-----------------------------------------------------------------------------
(* Writing and settling *)

\* The file grows by a line the buffer already has.
LEMMA WriteLandsReserve ==
  ASSUME DurableInv, ReserveInv, WriteLands
  PROVE  ReserveInv'
<1>1. /\ UNCHANGED <<buffer, fileBytes, stopped, phase, roomy, poisoned, call>> /\ ~poisoned
      /\ file' = Append(file, Head(pending)) /\ fileSize' = fileSize + Head(pending).bytes
      /\ pending # <<>>
  BY DEF WriteLands, memory, control
<1>2. Head(pending) \in Record /\ file \in Seq(Record) /\ fileSize \in Nat
  BY <1>1 DEF DurableInv, TypeOK
<1>3. DropIsExplained' /\ ExitIsStored'
  BY <1>1, DropStays DEF ReserveInv
<1>4. ASSUME Live, roomy PROVE Room' /\ StopIsThere' /\ WaitingFindsStop'
  <2>1. Room /\ StopIsThere /\ WaitingFindsStop
    BY <1>4 DEF ReserveInv
  <2>2. Room'
    BY <1>1, <2>1 DEF Room, StopUse, ExitUse, StopPlace, ExitPlace, Exiting
  <2>3. StopIsThere'
    BY <1>1, <2>1 DEF StopIsThere, HoldsStop
  <2>4. WaitingFindsStop'
    BY <1>1, <2>1 DEF WaitingFindsStop, Waiting
  <2>. QED BY <2>2, <2>3, <2>4
<1>5. ASSUME Live, ~roomy PROVE Cramped'
  <2>1. Cramped
    BY <1>5 DEF ReserveInv
  <2>2. Len(file') = Len(file) + 1 /\ Len(file) \in Nat /\ file' # <<>> /\ fileSize' >= fileSize /\ fileSize' \in Nat
    BY <1>1, <1>2 DEF Record
  <2>. QED BY <1>2, <1>5, <2>1, <2>2, Sized DEF Cramped
<1>. QED BY <1>1, <1>3, <1>4, <1>5 DEF ReserveInv, Live

\* The line that is being written has a seq and a length.
LEMMA HeadTyped ==
  ASSUME TypeOK, pending # <<>>
  PROVE  Head(pending).seq \in Nat /\ Head(pending).bytes \in Nat
<1>1. pending \in Seq(Record)
  BY DEF TypeOK
<1>2. Head(pending) \in Record
  BY <1>1
<1>. QED BY <1>2 DEF Record

\* A rejected write rolls the buffer back, never past what is on disk.
LEMMA RejectReserve ==
  ASSUME DurableInv, DurableInv', ReserveInv, pending # <<>>, phase # "dead", poisoned',
         Rollback(Head(pending).seq), fileSize' >= fileSize, fileSize' \in Nat,
         UNCHANGED <<file, fileBytes, stopped, phase, roomy, call>>
  PROVE  ReserveInv'
<1>1. Live /\ Live' /\ phase # "fresh"
  BY DEF DurableInv, TypeOK, Live
<1>2. DropIsExplained' /\ ExitIsStored'
  BY DropStays DEF ReserveInv
<1>3. ASSUME roomy PROVE Room' /\ StopIsThere' /\ WaitingFindsStop'
  <2>1. Room /\ WaitingFindsStop
    BY <1>1, <1>3 DEF ReserveInv
  <2>2. FileIsPrefix /\ FileIsPrefix'
    BY <1>1 DEF DurableInv
  <2>3. Len(buffer') \in Nat /\ Len(buffer') <= Len(buffer)
    <3>1. buffer \in Seq(Record) /\ Head(pending).seq \in Nat
      BY HeadTyped DEF DurableInv, TypeOK
    <3>2. CASE Len(buffer) <= Head(pending).seq
      BY <3>1, <3>2 DEF Rollback
    <3>3. CASE ~(Len(buffer) <= Head(pending).seq)
      BY <3>1, <3>3 DEF Rollback
    <3>. QED BY <3>2, <3>3
  <2>4. Room'
    <3>1. /\ StopUse' = StopUse /\ ExitUse' = ExitUse /\ StopPlace' = StopPlace /\ ExitPlace' = ExitPlace
          /\ StopPlace \in {0, 1} /\ ExitPlace \in {0, 1}
      BY DEF StopUse, ExitUse, StopPlace, ExitPlace, Exiting
    <3>2. Len(buffer) <= MaxEntries - 2 + StopPlace + ExitPlace
      BY <1>1, <2>1, Sized DEF Room
    <3>3. Len(buffer') <= MaxEntries - 2 + StopPlace + ExitPlace
      BY <1>1, <2>3, <3>1, <3>2, Sized, SMTT(40)
    <3>. QED BY <1>1, <2>1, <3>1, <3>3, Sized DEF Room
  <2>5. StopIsThere'
    BY DEF StopIsThere
  <2>6. ASSUME NEW c \in Calls, Waiting(c), ~call[c].stored, call[c].seq < Len(file)
        PROVE  /\ call[c].seq < Len(buffer')
               /\ \E i \in 1 .. call[c].seq + 1 : buffer'[i].kind = "stop"
    <3>1. call[c].seq \in Nat /\ Len(file) \in Nat
      BY <1>1, Sized DEF CallRecord
    <3>2. PICK i \in 1 .. call[c].seq + 1 : buffer[i].kind = "stop"
      BY <2>1, <2>6 DEF WaitingFindsStop
    <3>3. i \in 1 .. Len(file)
      BY <2>6, <3>1
    <3>4. buffer'[i] = buffer[i]
      BY <2>2, <3>3 DEF FileIsPrefix
    <3>5. call[c].seq < Len(buffer')
      BY <2>2, <2>3, <2>6, <3>1 DEF FileIsPrefix
    <3>. QED BY <3>2, <3>4, <3>5
  <2>7. WaitingFindsStop'
    BY <2>6 DEF WaitingFindsStop, Waiting
  <2>. QED BY <2>4, <2>5, <2>7
<1>4. ASSUME ~roomy PROVE Cramped'
  <2>1. Cramped
    BY <1>1, <1>4 DEF ReserveInv
  <2>. QED BY <1>1, <2>1, Sized DEF Cramped
<1>. QED BY <1>1, <1>2, <1>3, <1>4 DEF ReserveInv

\* A call that settles, or is refused, changes only its state.
LEMMA SettleReserve ==
  ASSUME DurableInv, ReserveInv, NEW c \in Calls, NEW st \in {"acked", "rejected"},
         call' = [call EXCEPT ![c].st = st],
         st = "acked" => Live /\ Waiting(c) /\ call[c].seq < Len(file),
         phase # "fresh", UNCHANGED <<disk, memory, control, poisoned>>
  PROVE  ReserveInv'
<1>1. UNCHANGED <<file, fileSize, buffer, fileBytes, stopped, phase, roomy, poisoned>>
  BY DEF disk, memory, control
<1>2. /\ \A d \in Calls : d # c => call'[d] = call[d]
      /\ call'[c].st = st /\ call'[c].kind = call[c].kind
      /\ call'[c].seq = call[c].seq /\ call'[c].stored = call[c].stored
  BY DEF DurableInv, TypeOK, CallRecord
<1>3. ASSUME Live, roomy PROVE Room' /\ StopIsThere' /\ WaitingFindsStop'
  <2>1. Room /\ StopIsThere /\ WaitingFindsStop
    BY <1>3 DEF ReserveInv
  <2>2. Exiting' <=> Exiting
    BY <1>2 DEF Exiting
  <2>3. Room'
    BY <1>1, <2>1, <2>2 DEF Room, StopUse, ExitUse, StopPlace, ExitPlace
  <2>4. StopIsThere'
    BY <1>1, <2>1 DEF StopIsThere, HoldsStop
  <2>5. WaitingFindsStop'
    BY <1>1, <1>2, <2>1 DEF WaitingFindsStop, Waiting
  <2>. QED BY <2>3, <2>4, <2>5
<1>4. ASSUME Live, ~roomy PROVE Cramped'
  BY <1>1, <1>4 DEF ReserveInv, Cramped
<1>5. DropIsExplained'
  <2>1. \A d \in Calls : d # c =>
          /\ call'[d].st = "acked" /\ ~call'[d].stored /\ roomy' =>
               \E i \in 1 .. call'[d].seq + 1 : file'[i].kind = "stop"
          /\ call'[d].st = "threw" => poisoned'
    BY <1>1, <1>2 DEF ReserveInv, DropIsExplained
  <2>2. ASSUME st = "acked", ~call[c].stored, roomy
        PROVE  \E i \in 1 .. call[c].seq + 1 : file[i].kind = "stop"
    <3>0. WaitingFindsStop /\ FileIsPrefix
      BY <2>2 DEF ReserveInv, DurableInv
    <3>1. call[c].seq \in Nat /\ Len(file) \in Nat /\ call[c].seq < Len(file) /\ Waiting(c)
      BY <2>2, Sized DEF CallRecord
    <3>2. PICK i \in 1 .. call[c].seq + 1 : buffer[i].kind = "stop"
      BY <2>2, <3>0, <3>1 DEF WaitingFindsStop
    <3>3. i \in 1 .. Len(file)
      BY <3>1
    <3>. QED BY <3>0, <3>2, <3>3 DEF FileIsPrefix
  <2>. QED BY <1>1, <1>2, <2>1, <2>2 DEF DropIsExplained
<1>6. ExitIsStored'
  <2>1. \A d \in Calls : d # c =>
          (roomy' /\ call'[d].kind = "exit" /\ call'[d].st \in {"waiting", "acked"} => call'[d].stored)
    BY <1>1, <1>2 DEF ReserveInv, ExitIsStored
  <2>2. roomy' /\ call'[c].kind = "exit" /\ call'[c].st \in {"waiting", "acked"} => call'[c].stored
    BY <1>1, <1>2 DEF ReserveInv, ExitIsStored, Waiting
  <2>. QED BY <2>1, <2>2 DEF ExitIsStored
<1>7. \A d \in Calls : call'[d].st = "idle" => call'[d].kind = "data"
  BY <1>2 DEF ReserveInv
<1>. QED BY <1>1, <1>3, <1>4, <1>5, <1>6, <1>7 DEF ReserveInv, Live
-----------------------------------------------------------------------------
(* The whole log *)

\* A step that moves only the phase, from one of a log in use to another.
LEMMA PhaseReserve ==
  ASSUME ReserveInv, UNCHANGED <<disk, memory, roomy, poisoned, call>>,
         phase' # "fresh", Live' => Live
  PROVE  ReserveInv'
<1>1. UNCHANGED <<file, fileSize, buffer, fileBytes, stopped, roomy, poisoned, call>>
  BY DEF disk, memory
<1>. QED BY <1>1 DEF ReserveInv, Room, StopUse, ExitUse, StopPlace, ExitPlace, Exiting, StopIsThere,
                     HoldsStop, WaitingFindsStop, Waiting, Cramped, DropIsExplained, ExitIsStored

LEMMA NextReserve ==
  ASSUME DurableInv, DurableInv', ReserveInv, [Next]_vars
  PROVE  ReserveInv'
<1>1. CASE Open
  <2>1. Load /\ UNCHANGED <<disk, pending, poisoned, call>> /\ phase = "fresh" /\ ~Live
    BY <1>1 DEF Open, Live
  <2>2. ~roomy /\ \A c \in Calls : call[c].st = "idle"
    BY <2>1 DEF ReserveInv
  <2>. QED BY <2>1, <2>2, LoadReserve DEF Waiting
<1>2. CASE Reopen
  <2>1. /\ Load /\ UNCHANGED <<disk, pending, poisoned, call>> /\ Live /\ ~poisoned
        /\ \A c \in Calls : ~Waiting(c)
    BY <1>2 DEF Reopen, Live
  <2>. QED BY <2>1, LoadReserve
<1>3. ASSUME NEW c \in Calls, NEW kind \in {"data", "exit"}, NEW bytes \in Nat \ {0},
             kind = "exit" => bytes = ExitBytes, QueueAppend(c, kind, bytes)
      PROVE  ReserveInv'
  BY <1>3, AppendReserve, CrampedAppend
<1>4. ASSUME NEW c \in Calls, Refuse(c) PROVE ReserveInv'
  <2>1. call' = [call EXCEPT ![c].st = "rejected"] /\ phase # "fresh"
        /\ UNCHANGED <<disk, memory, control, poisoned>>
    BY <1>4 DEF Refuse
  <2>. QED BY <2>1, SettleReserve
<1>5. ASSUME NEW c \in Calls, AppendCall(c) PROVE ReserveInv'
  BY <1>3, <1>4, <1>5, SizesAssumption DEF AppendCall
<1>6. ASSUME NEW c \in Calls, CallSettles(c) PROVE ReserveInv'
  <2>1. Waiting(c) /\ phase # "dead" /\ UNCHANGED <<disk, memory, control, poisoned>>
    BY <1>6 DEF CallSettles
  <2>2. Live /\ phase # "fresh"
    BY <2>1 DEF DurableInv, TypeOK, Live
  <2>3. CASE call[c].seq < Len(file) /\ call' = [call EXCEPT ![c].st = "acked"]
    BY <2>1, <2>2, <2>3, SettleReserve
  <2>4. CASE call' = [call EXCEPT ![c].st = "rejected"]
    BY <2>1, <2>2, <2>4, SettleReserve
  <2>. QED BY <1>6, <2>3, <2>4 DEF CallSettles
<1>7. CASE WriteFails
  <2>1. /\ pending # <<>> /\ phase # "dead" /\ poisoned' /\ Rollback(Head(pending).seq)
        /\ UNCHANGED <<file, fileBytes, stopped, phase, roomy, call>>
    BY <1>7 DEF WriteFails, control
  <2>2. Head(pending).bytes \in Nat /\ fileSize \in Nat
    BY <2>1, HeadTyped DEF DurableInv, TypeOK
  <2>3. fileSize' >= fileSize /\ fileSize' \in Nat
    BY <1>7, <2>2 DEF WriteFails
  <2>. QED BY <2>1, <2>3, RejectReserve
<1>8. CASE WriteInheritsFailure
  <2>1. /\ pending # <<>> /\ phase # "dead" /\ poisoned' /\ Rollback(Head(pending).seq)
        /\ UNCHANGED <<file, fileSize, fileBytes, stopped, phase, roomy, call>>
    BY <1>8 DEF WriteInheritsFailure, control, disk
  <2>2. fileSize' >= fileSize /\ fileSize' \in Nat
    BY <2>1 DEF DurableInv, TypeOK
  <2>. QED BY <2>1, <2>2, RejectReserve
<1>9. CASE CloseBegins
  BY <1>9, PhaseReserve DEF CloseBegins, Live
<1>10. CASE CloseDrained
  BY <1>10, PhaseReserve DEF CloseDrained, Live
<1>11. CASE CloseEnds
  BY <1>11, PhaseReserve DEF CloseEnds, Live
<1>12. CASE Crash
  <2>1. phase' = "dead" /\ UNCHANGED <<roomy, poisoned, call>> /\ (file' = file \/ file' = Append(file, Head(pending)))
    BY <1>12 DEF Crash, disk
  <2>2. DropIsExplained' /\ ExitIsStored'
    BY <2>1, DropStays DEF ReserveInv
  <2>. QED BY <2>1, <2>2 DEF ReserveInv, Live
<1>13. CASE UNCHANGED vars
  <2>1. UNCHANGED <<disk, memory, phase, roomy, poisoned, call>>
    BY <1>13 DEF vars, control
  <2>2. CASE phase = "fresh"
    BY <2>1, <2>2 DEF ReserveInv, Live, DropIsExplained, ExitIsStored, disk, memory
  <2>3. CASE phase # "fresh"
    BY <2>1, <2>3, PhaseReserve DEF Live
  <2>. QED BY <2>2, <2>3
<1>. QED BY <1>1, <1>2, <1>5, <1>6, <1>7, <1>8, <1>9, <1>10, <1>11, <1>12, <1>13, WriteLandsReserve
         DEF Next, WriteSettles

LEMMA ReserveInvariant == SafeSpec => [](DurableInv /\ ReserveInv)
<1>1. Init => DurableInv /\ ReserveInv
  BY InitDurable, InitReserve
<1>2. DurableInv /\ ReserveInv /\ [Next]_vars => (DurableInv /\ ReserveInv)'
  BY NextDurable, NextReserve
<1>. QED BY <1>1, <1>2, PTL DEF SafeSpec

\* Nothing is dropped silently: a caller that was told its record was taken,
\* when it was dropped, has the stop marker before the seq it was told
\* (eventLog.ts:480), for every limit and every order of the appends.
THEOREM DropsAreExplained == SafeSpec => []DropIsExplained
<1>1. DurableInv /\ ReserveInv => DropIsExplained
  BY DEF ReserveInv
<1>. QED BY <1>1, ReserveInvariant, PTL

\* The reserve holds the marker and the exit record together
\* (eventLog.ts:475): a log that was opened with it free never drops the exit.
THEOREM ExitStaysStored == SafeSpec => []ExitIsStored
<1>1. DurableInv /\ ReserveInv => ExitIsStored
  BY DEF ReserveInv
<1>. QED BY <1>1, ReserveInvariant, PTL
=============================================================================
