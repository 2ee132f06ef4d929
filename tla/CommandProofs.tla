--------------------------- MODULE CommandProofs ---------------------------
(***************************************************************************)
(* Proofs about the two commands that send input and wait for what comes   *)
(* of it.                                                                  *)
(*                                                                         *)
(* A batch, for every set of plans and whatever the host does with its     *)
(* calls. The report is true because a seq is told only when its record    *)
(* can no longer be taken back, and a wait sees its input because the      *)
(* baseline is never behind a seq that was told, and never ahead of the    *)
(* disk.                                                                   *)
(*                                                                         *)
(* The waited runs of a host, for every set of runs, every text that the   *)
(* program may print and every start of the postambles. All that they need *)
(* of the scanner is what GoodScan says of a scan, and that is proved of   *)
(* its loop from the end of the text to its start. Of the sanitizer they   *)
(* need nothing. A completion is recorded once because a run is active, or *)
(* about to end, or in the log, and never two of these.                    *)
(*                                                                         *)
(* The texts that both work on: what the scan of an echo finds at its      *)
(* start, in the middle of it, in what only looks like one, and what a     *)
(* text is made of. OutputProofs needs it.                                 *)
(***************************************************************************)
EXTENDS Batch, RunCompletion, SequenceTheorems, FiniteSetTheorems, WellFoundedInduction, TLAPS
-----------------------------------------------------------------------------
(* A batch *)

\* The calls of inputs whose record has its seq.
Told == {"writing", "waiting", "answered", "unfinished"}

\* The record of a step's input is in the log, at its seq.
Kept(i) == seqOf[i] \in 1..Len(stored) /\ stored[seqOf[i]] = i

\* Nothing is sent behind the step that the executor is at, and what it says
\* of the steps behind a failure or an interrupt is that they were not run.
StepsComeInOrder ==
  /\ client # "done" =>
       /\ Len(records) < Len(plan) /\ exitCode = "none"
       /\ \A i \in DOMAIN records :
            records[i].status = "completed" \/ (records[i].status = "failed" /\ keepGoing)
       /\ \A i \in DOMAIN plan : i > Current => rpc[i] = "idle"
       /\ client = "checking" => IsWait(Current) /\ rpc[Current] = "idle"
       /\ client = "rechecking" => IsWait(Current) /\ rpc[Current] = "matched"
  /\ client = "done" => Len(records) = Len(plan)
  /\ \A i \in DOMAIN records :
       /\ NotRun(i) => rpc[i] = "idle"
       /\ records[i].status = "interrupted" \/ (records[i].status = "failed" /\ ~keepGoing)
          => \A j \in (i + 1)..Len(records) : NotRun(j)
  /\ exitCode = "success" => client = "done" /\ \A i \in DOMAIN records : Completed(i)

\* How far a call is says what became of its input.
CallsMeanIt ==
  \A i \in DOMAIN plan :
    /\ rpc[i] \in {"idle", "sent"} => i \notin reached
    /\ rpc[i] \in IF IsWait(i) THEN WaitCalls ELSE InputCalls
    /\ rpc[i] \in Told => i \in reached /\ seqOf[i] \in 1..Len(stored) /\ (Kept(i) \/ capped)
    /\ rpc[i] \in Told \ {"writing"} => seqOf[i] <= durable
    /\ rpc[i] = "answered" /\ plan[i] = "run" => i \in finished

\* An input is in the log at most once.
StoredOnce ==
  \A k \in 1..Len(stored) :
    stored[k] \in DOMAIN plan => stored[k] \in reached /\ seqOf[stored[k]] = k

\* A seq that was reported is on disk, and not behind the baseline.
ReportedIsDurable ==
  \A i \in DOMAIN records :
    /\ records[i].seq # NoSeq =>
         /\ ~IsWait(i) /\ i \in reached /\ records[i].seq = seqOf[i]
         /\ seqOf[i] <= durable /\ seqOf[i] <= lastInputSeq
         /\ Kept(i) \/ capped
    /\ Completed(i) /\ ~IsWait(i) => records[i].seq # NoSeq /\ (plan[i] = "run" => i \in finished)

\* The baseline is on disk, and the next seq is not behind it.
BaselineIsDurable ==
  /\ lastInputSeq <= durable
  /\ client = "calling" /\ ~IsWait(Current) /\ rpc[Current] \in Told => lastInputSeq <= seqOf[Current]

\* A screen shows the input of a step whose seq was reported.
Shows(S, j) == records[j].seq # NoSeq /\ Kept(j) => j \in S

ScreensAreFresh ==
  /\ client \in {"calling", "rechecking"} /\ IsWait(Current) /\ (clock \/ rpc[Current] = "matched")
     => \A j \in DOMAIN records : Shows(screen, j)
  /\ \A i, j \in DOMAIN records :
       j < i /\ IsWait(i) /\ Completed(i) => Shows(records[i].screen, j)

BatchInv ==
  /\ BatchTypes
  /\ StepsComeInOrder
  /\ CallsMeanIt
  /\ StoredOnce
  /\ ReportedIsDurable
  /\ BaselineIsDurable
  /\ ScreensAreFresh
-----------------------------------------------------------------------------
(* Shapes *)

LEMMA PlanShape ==
  ASSUME BatchTypes
  PROVE  /\ plan \in Seq(StepKinds) /\ Len(plan) \in Nat /\ Len(plan) > 0
         /\ DOMAIN plan = 1..Len(plan)
         /\ Len(records) \in Nat /\ DOMAIN records = 1..Len(records)
         /\ Len(stored) \in Nat /\ durable \in Nat
BY BatchAssumption DEF BatchTypes

\* It holds at first.
LEMMA BatchBegins == BatchInit => BatchInv
<1> SUFFICES ASSUME BatchInit PROVE BatchInv
  OBVIOUS
<1>p. plan \in Seq(StepKinds) /\ Len(plan) \in Nat /\ Len(plan) > 0 /\ DOMAIN plan = 1..Len(plan)
  BY BatchAssumption DEF BatchInit
<1>r. records = <<>> /\ Len(records) = 0 /\ DOMAIN records = {} /\ Current = 1
  BY DEF BatchInit, Current
<1>s. stored \in Seq(Events) /\ Len(stored) = 1 /\ stored[1] = 0 /\ durable = 1
  BY <1>p DEF BatchInit, Events, Output
<1>t. BatchTypes
  <2>1. rpc \in [DOMAIN plan -> InputCalls \union WaitCalls]
    BY <1>p DEF BatchInit, InputCalls, WaitCalls
  <2>2. seqOf \in [DOMAIN plan -> Nat] /\ lastInputSeq \in Nat
    BY <1>p DEF BatchInit, NoSeq
  <2>3. records \in Seq(OutcomeRecord) /\ Len(records) <= Len(plan)
    BY <1>p, <1>r, EmptySeq
  <2>4. stored \in Seq(Events) /\ durable \in 1..Len(stored)
    BY <1>s
  <2>5. client \in {"checking", "calling", "rechecking", "done"}
    BY DEF BatchInit, FirstClient
  <2>6. outputs \in 0..MaxOutputs
    BY BatchAssumption DEF BatchInit
  <2>7. /\ plan \in Plans /\ keepGoing \in BOOLEAN /\ exitCode \in {"none", "success", "failure", "signal"}
        /\ clock \in BOOLEAN /\ screen \subseteq DOMAIN plan /\ capped \in BOOLEAN /\ broken \in BOOLEAN
        /\ host \in {"running", "over", "gone"} /\ exited \in BOOLEAN /\ onDisk \in {"running", "ended"}
        /\ reached \subseteq DOMAIN plan /\ finished \subseteq reached
    BY DEF BatchInit
  <2>. QED BY <2>1, <2>2, <2>3, <2>4, <2>5, <2>6, <2>7 DEF BatchTypes
<1>o. StepsComeInOrder
  BY <1>p, <1>r DEF StepsComeInOrder, BatchInit, FirstClient
<1>c. CallsMeanIt
  BY <1>p, <1>r DEF CallsMeanIt, BatchInit, Told, InputCalls, WaitCalls
<1>1. StoredOnce
  BY <1>p, <1>s DEF StoredOnce
<1>d. ReportedIsDurable /\ BaselineIsDurable
  BY <1>p, <1>r, <1>s DEF ReportedIsDurable, BaselineIsDurable, BatchInit, NoSeq, Told
<1>f. ScreensAreFresh
  BY <1>p, <1>r DEF ScreensAreFresh, BatchInit
<1>. QED BY <1>t, <1>o, <1>c, <1>1, <1>d, <1>f DEF BatchInv

\* What Finalize does, in both of its cases.
LEMMA FinalizeGives ==
  ASSUME BatchTypes, Len(records) < Len(plan), NEW r \in OutcomeRecord, Finalize(r)
  PROVE  /\ records' \in Seq(OutcomeRecord)
         /\ \A k \in 1..Len(records) : records'[k] = records[k]
         /\ records'[Current] = r
         /\ lastInputSeq' = Advanced(r)
         /\ \/ /\ client' = "done" /\ Len(records') = Len(plan) /\ rpc' = rpc
               /\ \A k \in 1..Len(plan) : k > Current => records'[k] = Outcome("not-run", NoSeq, {})
               /\ Current = Len(plan) \/ (r.status = "failed" /\ ~keepGoing)
               /\ exitCode' \in {"failure", "success"}
               /\ exitCode' = "success" =>
                    r.status # "failed" /\ \A k \in 1..Len(records) : records[k].status # "failed"
            \/ /\ Len(records') = Current /\ Current < Len(plan) /\ exitCode' = exitCode
               /\ r.status # "failed" \/ keepGoing
               /\ Begin(Current + 1)
<1> DEFINE all == Append(records, r)
           rest == [k \in 1..(Len(plan) - Len(all)) |-> Outcome("not-run", NoSeq, {})]
           over == Len(all) = Len(plan) \/ (r.status = "failed" /\ ~keepGoing)
<1>a. /\ all \in Seq(OutcomeRecord) /\ Len(all) = Current /\ all[Current] = r
      /\ \A k \in 1..Len(records) : all[k] = records[k]
      /\ Current \in Nat /\ Current <= Len(plan)
  BY PlanShape, AppendProperties DEF BatchTypes, Current
<1>b. rest \in Seq(OutcomeRecord) /\ Len(rest) = Len(plan) - Current
  <2>1. Outcome("not-run", NoSeq, {}) \in OutcomeRecord
    BY DEF Outcome, OutcomeRecord, NoSeq
  <2>2. Len(plan) - Len(all) \in Nat
    BY <1>a, PlanShape
  <2>3. rest \in [1..(Len(plan) - Len(all)) -> OutcomeRecord]
    BY <2>1
  <2>4. rest \in Seq(OutcomeRecord)
    BY <2>2, <2>3, SeqDef
  <2>. QED BY <2>2, <2>3, <2>4, <1>a, LenProperties
<1>c. /\ lastInputSeq' = Advanced(r)
      /\ IF over
         THEN /\ records' = all \o rest /\ client' = "done" /\ UNCHANGED rpc
              /\ exitCode' = IF "failed" \in StatusesOf(all) THEN "failure" ELSE "success"
         ELSE records' = all /\ Begin(Len(all) + 1) /\ UNCHANGED exitCode
  BY DEF Finalize
<1>1. CASE ~over
  BY <1>a, <1>c, <1>1
<1>2. CASE over
  <2> DEFINE whole == all \o rest
  <2>1. /\ whole \in Seq(OutcomeRecord) /\ Len(whole) = Len(plan)
        /\ \A k \in 1..Len(whole) : whole[k] = IF k <= Current THEN all[k] ELSE rest[k - Current]
    <3> HIDE DEF all, rest
    <3>1. /\ whole \in Seq(OutcomeRecord) /\ Len(whole) = Len(all) + Len(rest)
          /\ \A k \in 1..(Len(all) + Len(rest)) :
               whole[k] = IF k <= Len(all) THEN all[k] ELSE rest[k - Len(all)]
      BY <1>a, <1>b, ConcatProperties
    <3>2. Len(all) + Len(rest) = Len(plan)
      BY <1>a, <1>b, PlanShape
    <3>. QED BY <3>1, <3>2, <1>a
  <2>2. \A k \in 1..Len(plan) : k > Current => whole[k] = Outcome("not-run", NoSeq, {})
    BY <2>1, <1>a, PlanShape
  <2>3. \A k \in 1..Current : whole[k] = all[k]
    BY <2>1, <1>a
  <2>4. exitCode' = "success" => \A k \in 1..Current : all[k].status # "failed"
    BY <1>a, <1>c, <1>2, LenProperties DEF StatusesOf
  <2>5. records' = whole
    BY <1>c, <1>2
  <2>6. Len(records) \in Nat /\ Current = Len(records) + 1
    BY PlanShape DEF Current
  <2> HIDE DEF whole, all
  <2>7. exitCode' \in {"failure", "success"}
    BY <1>c, <1>2
  <2>8. exitCode' = "success" =>
          r.status # "failed" /\ \A k \in 1..Len(records) : records[k].status # "failed"
    BY <2>4, <2>6, <1>a
  <2>. QED BY <1>a, <1>c, <1>2, <2>1, <2>2, <2>3, <2>5, <2>6, <2>7, <2>8, SMTT(40)
<1>. QED BY <1>1, <1>2

\* A step that ends with an honest record keeps the invariant.
LEMMA FinalizeKeeps ==
  ASSUME BatchInv, client # "done", NEW r \in OutcomeRecord, Finalize(r),
         r.status \in {"completed", "failed"},
         r.seq # NoSeq =>
           /\ client = "calling" /\ ~IsWait(Current) /\ r.seq = seqOf[Current]
           /\ rpc[Current] \in {"answered", "unfinished"},
         r.status = "completed" =>
           IF IsWait(Current) THEN client = "rechecking" /\ r.screen = screen
                              ELSE r.seq # NoSeq /\ rpc[Current] = "answered",
         UNCHANGED <<plan, keepGoing, seqOf, waitVars, keptVars, hostVars, observed>>
  PROVE  BatchInv'
<1>. BatchTypes /\ StepsComeInOrder /\ CallsMeanIt /\ StoredOnce /\ ReportedIsDurable
     /\ BaselineIsDurable /\ ScreensAreFresh
  BY DEF BatchInv
<1>u. UNCHANGED <<plan, keepGoing, seqOf, clock, screen, stored, durable, capped, broken, host,
                  exited, onDisk, reached, finished, outputs>>
  BY DEF waitVars, keptVars, hostVars, observed
<1>n. /\ Len(records) \in Nat /\ DOMAIN records = 1..Len(records) /\ Len(plan) \in Nat
      /\ DOMAIN plan = 1..Len(plan) /\ Len(records) < Len(plan)
      /\ Current = Len(records) + 1 /\ Current \in DOMAIN plan
      /\ exitCode = "none"
  <2>1. /\ Len(records) \in Nat /\ DOMAIN records = 1..Len(records) /\ Len(plan) \in Nat
        /\ DOMAIN plan = 1..Len(plan)
    BY PlanShape
  <2>2. Len(records) < Len(plan) /\ exitCode = "none"
    BY SMTT(40) DEF StepsComeInOrder
  <2>. QED BY <2>1, <2>2 DEF Current
<1>g. /\ records' \in Seq(OutcomeRecord)
      /\ \A k \in 1..Len(records) : records'[k] = records[k]
      /\ records'[Current] = r
      /\ lastInputSeq' = Advanced(r)
      /\ \/ /\ client' = "done" /\ Len(records') = Len(plan) /\ rpc' = rpc
            /\ \A k \in 1..Len(plan) : k > Current => records'[k] = Outcome("not-run", NoSeq, {})
            /\ Current = Len(plan) \/ (r.status = "failed" /\ ~keepGoing)
            /\ exitCode' \in {"failure", "success"}
            /\ exitCode' = "success" =>
                 r.status # "failed" /\ \A k \in 1..Len(records) : records[k].status # "failed"
         \/ /\ Len(records') = Current /\ Current < Len(plan) /\ exitCode' = exitCode
            /\ r.status # "failed" \/ keepGoing
            /\ Begin(Current + 1)
  BY <1>n, FinalizeGives
<1>d. /\ Len(records') \in Nat /\ DOMAIN records' = 1..Len(records')
      /\ Current \in 1..Len(records') /\ Len(records') <= Len(plan)
  <2>1. Len(records') \in Nat /\ DOMAIN records' = 1..Len(records')
    BY <1>g, LenProperties
  <2>2. Len(records') = Len(plan) \/ Len(records') = Current
    BY <1>g
  <2>3. Current \in Nat /\ 1 <= Current /\ Current <= Len(plan) /\ Len(plan) \in Nat
    BY <1>n
  <2>4. Current <= Len(records') /\ Len(records') <= Len(plan)
    BY <2>2, <2>3
  <2>5. Current \in 1..Len(records')
    BY <2>1, <2>3, <2>4
  <2>. QED BY <2>1, <2>4, <2>5
<1>h. \A k \in DOMAIN records' :
        \/ k \in DOMAIN records /\ records'[k] = records[k]
        \/ k = Current /\ records'[k] = r
        \/ k > Current /\ k \notin DOMAIN records /\ client' = "done"
           /\ records'[k] = Outcome("not-run", NoSeq, {})
  <2> TAKE k \in DOMAIN records'
  <2>1. k \in 1..Len(records') /\ k \in Int
    BY <1>d
  <2>2. CASE k > Current
    <3>1. k \in 1..Len(plan) /\ k \notin DOMAIN records /\ ~(Len(records') = Current)
      <4>1. /\ k \in Int /\ 1 <= k /\ k <= Len(records') /\ Len(records') <= Len(plan)
            /\ Len(records') \in Nat
        BY <2>1, <1>d
      <4>2. /\ DOMAIN records = 1..Len(records) /\ Len(records) \in Nat /\ Current = Len(records) + 1
            /\ Len(plan) \in Nat
        BY <1>n
      <4>3. k \in 1..Len(plan) /\ ~(Len(records') = Current)
        BY <4>1, <4>2, <2>2
      <4>4. ~(k \in 1..Len(records))
        BY <4>1, <4>2, <2>2, SMTT(40)
      <4>. QED BY <4>2, <4>3, <4>4
    <3>. QED BY <2>2, <3>1, <1>g
  <2>3. CASE k <= Current
    <3>1. k = Current \/ k \in 1..Len(records)
      BY <2>1, <2>3, <1>n
    <3>. QED BY <3>1, <1>g, <1>n
  <2>. QED
    <3>1. k > Current \/ k <= Current
      BY <2>1, <1>n
    <3>. QED BY <3>1, <2>2, <2>3
<1>p. \A k \in DOMAIN plan : rpc'[k] = rpc[k] \/ (k = Current + 1 /\ rpc[k] = "idle" /\ rpc'[k] = "sent")
  <2>1. rpc \in [DOMAIN plan -> InputCalls \union WaitCalls]
    BY DEF BatchTypes
  <2>2. \A k \in DOMAIN plan : k > Current => rpc[k] = "idle"
    BY DEF StepsComeInOrder
  <2>3. Current + 1 > Current
    BY <1>n
  <2>4. rpc' = rpc \/ (Current + 1 \in DOMAIN plan /\ rpc' = [rpc EXCEPT ![Current + 1] = "sent"])
    <3>1. Current < Len(plan) => Current + 1 \in DOMAIN plan
      BY <1>n
    <3>2. rpc' = rpc \/ (Current < Len(plan) /\ Begin(Current + 1))
      BY <1>g
    <3>. QED BY <3>1, <3>2 DEF Begin
  <2>. QED BY <2>1, <2>2, <2>3, <2>4
<1>l. /\ lastInputSeq' \in Nat /\ lastInputSeq <= lastInputSeq' /\ lastInputSeq' <= durable
      /\ r.seq # NoSeq => lastInputSeq' = r.seq
  <2>1. CASE r.seq # NoSeq
    BY <2>1, <1>g, <1>n DEF Advanced, Told, CallsMeanIt, BaselineIsDurable, BatchTypes
  <2>2. CASE r.seq = NoSeq
    BY <2>2, <1>g DEF Advanced, BaselineIsDurable, BatchTypes
  <2>. QED BY <2>1, <2>2, SMTT(40)
<1>t. BatchTypes'
  <2>1. OutcomeRecord' = OutcomeRecord /\ Events' = Events
    BY <1>u DEF OutcomeRecord, Events
  <2>2. rpc' \in [DOMAIN plan -> InputCalls \union WaitCalls]
    <3>1. CASE rpc' = rpc
      BY <3>1 DEF BatchTypes
    <3>2. CASE rpc' = [rpc EXCEPT ![Current + 1] = "sent"]
      BY <3>2 DEF BatchTypes, InputCalls
    <3>. QED BY <3>1, <3>2, <1>g DEF Begin
  <2>3. client' \in {"checking", "calling", "rechecking", "done"}
    BY <1>g DEF Begin
  <2>4. exitCode' \in {"none", "success", "failure", "signal"}
    BY <1>g, <1>n
  <2>. QED BY <2>1, <2>2, <2>3, <2>4, <1>u, <1>g, <1>d, <1>l DEF BatchTypes
<1>o. StepsComeInOrder'
  <2>1. CASE client' = "done"
    <3>1. Len(records') = Len(plan)
      BY <2>1, <1>g DEF Begin
    <3>2. rpc' = rpc /\ (Current = Len(plan) \/ (r.status = "failed" /\ ~keepGoing))
      BY <2>1, <1>g DEF Begin
    <3>3. \A k \in DOMAIN records' : records'[k].status = "not-run" => rpc'[k] = "idle"
      <4> SUFFICES ASSUME NEW k \in DOMAIN records', records'[k].status = "not-run" PROVE rpc[k] = "idle"
        BY <3>2
      <4>1. CASE k \in DOMAIN records /\ records'[k] = records[k]
        BY <4>1 DEF StepsComeInOrder, NotRun
      <4>2. CASE k > Current
        <5>1. k \in DOMAIN plan
          BY <4>2, <1>d, <1>n
        <5>. QED BY <4>2, <5>1 DEF StepsComeInOrder
      <4>. QED BY <4>1, <4>2, <1>h
    <3>4. \A k \in DOMAIN records : records[k].status = "completed" \/ (records[k].status = "failed" /\ keepGoing)
      BY DEF StepsComeInOrder
    <3>5. ASSUME NEW k \in DOMAIN records', NEW j \in (k + 1)..Len(records'),
                 records'[k].status = "interrupted" \/ (records'[k].status = "failed" /\ ~keepGoing)
          PROVE  records'[j].status = "not-run"
      <4>1. k \notin DOMAIN records
        BY <3>4, <3>5, <1>g, <1>n, <1>u
      <4>2. k >= Current /\ k \in Nat
        BY <4>1, <1>n, <1>d
      <4>3. j > Current /\ j \in DOMAIN records'
        BY <4>2, <1>n, <1>d
      <4>. QED BY <4>3, <1>h, <1>n, SMTT(40) DEF Outcome
    <3>6. ASSUME exitCode' = "success", NEW k \in DOMAIN records' PROVE records'[k].status = "completed"
      <4>0. r.status # "failed" /\ \A i \in 1..Len(records) : records[i].status # "failed"
        <5>1. client' = "done" => ~Begin(Current + 1)
          BY DEF Begin
        <5>. QED BY <3>6, <2>1, <5>1, <1>g
      <4>1. r.status = "completed" /\ \A i \in 1..Len(records) : records[i].status = "completed"
        BY <4>0, <3>4, <1>n
      <4>2. Current = Len(plan)
        BY <4>1, <3>2
      <4>. QED BY <4>1, <4>2, <3>1, <1>h, <1>n, <1>d
    <3>. QED BY <2>1, <3>1, <3>3, <3>5, <3>6, <1>u DEF StepsComeInOrder, NotRun, Completed
  <2>2. CASE client' # "done"
    <3>1. /\ Len(records') = Current /\ Current < Len(plan) /\ exitCode' = "none"
          /\ r.status # "failed" \/ keepGoing
          /\ Begin(Current + 1)
      BY <2>2, <1>g, <1>n
    <3>2. \A k \in DOMAIN records' : records'[k].status = "completed" \/ (records'[k].status = "failed" /\ keepGoing)
      BY <3>1, <1>h, <1>n, <2>2 DEF StepsComeInOrder
    <3>3. Current' = Current + 1
      BY <3>1 DEF Current
    <3>4. \A k \in DOMAIN plan : k > Current' => rpc'[k] = "idle"
      <4> SUFFICES ASSUME NEW k \in DOMAIN plan, k > Current + 1 PROVE rpc'[k] = "idle"
        BY <3>3
      <4>1. k > Current /\ k # Current + 1
        BY <1>n
      <4>2. rpc[k] = "idle"
        BY <4>1 DEF StepsComeInOrder
      <4>. QED BY <4>1, <4>2, <1>p
    <3>5. client' = "checking" => IsWait(Current)' /\ rpc'[Current'] = "idle"
      <4> SUFFICES ASSUME client' = "checking" PROVE IsWait(Current)' /\ rpc'[Current'] = "idle"
        OBVIOUS
      <4>1. IsWait(Current + 1) /\ rpc' = rpc
        BY <3>1 DEF Begin
      <4>2. Current + 1 \in DOMAIN plan /\ Current + 1 > Current
        BY <3>1, <1>n
      <4>3. rpc[Current + 1] = "idle"
        BY <4>2 DEF StepsComeInOrder
      <4>. QED BY <3>3, <4>1, <4>3, <1>u DEF IsWait
    <3>6. client' # "rechecking"
      BY <3>1 DEF Begin
    <3>7. DOMAIN plan' = DOMAIN plan /\ Len(plan') = Len(plan) /\ keepGoing' = keepGoing
      BY <1>u
    <3>8. \A k \in DOMAIN records' : (~NotRun(k))'
                  /\ ~(records'[k].status = "interrupted" \/ (records'[k].status = "failed" /\ ~keepGoing))
      BY <3>2 DEF NotRun
    <3>9. Len(records') < Len(plan)
      BY <3>1
    <3>. QED BY <2>2, <3>1, <3>2, <3>4, <3>5, <3>6, <3>7, <3>8, <3>9, SMTT(40) DEF StepsComeInOrder
  <2>. QED BY <2>1, <2>2
<1>c. CallsMeanIt'
  <2>1. \A k : (Kept(k))' = Kept(k) /\ (IsWait(k))' = IsWait(k)
    BY <1>u DEF Kept, IsWait
  <2>. QED BY <2>1, <1>u, <1>p DEF CallsMeanIt, Told, InputCalls, WaitCalls
<1>s. StoredOnce'
  BY <1>u DEF StoredOnce
<1>r. ReportedIsDurable'
  <2>1. \A k : (Kept(k))' = Kept(k) /\ (IsWait(k))' = IsWait(k)
    BY <1>u DEF Kept, IsWait
  <2> SUFFICES ASSUME NEW k \in DOMAIN records'
               PROVE  /\ records'[k].seq # NoSeq =>
                           /\ ~IsWait(k) /\ k \in reached /\ records'[k].seq = seqOf[k]
                           /\ seqOf[k] <= durable /\ seqOf[k] <= lastInputSeq'
                           /\ Kept(k) \/ capped
                      /\ records'[k].status = "completed" /\ ~IsWait(k) =>
                           records'[k].seq # NoSeq /\ (plan[k] = "run" => k \in finished)
    BY <2>1, <1>u DEF ReportedIsDurable, Completed, NoSeq
  <2>2. CASE k \in DOMAIN records /\ records'[k] = records[k]
    <3>1. records[k].seq # NoSeq => seqOf[k] <= lastInputSeq /\ seqOf[k] \in Nat /\ lastInputSeq \in Nat
      BY <2>2, <1>n DEF ReportedIsDurable, BatchTypes
    <3>. QED BY <2>2, <3>1, <1>l DEF ReportedIsDurable, Completed
  <2>3. CASE k = Current /\ records'[k] = r
    <3>1. r.seq # NoSeq => /\ k \in reached /\ seqOf[k] <= durable /\ (Kept(k) \/ capped)
                           /\ seqOf[k] \in Nat
      BY <2>3, <1>n DEF CallsMeanIt, Told, BatchTypes
    <3>2. rpc[k] = "answered" /\ plan[k] = "run" => k \in finished
      BY <2>3, <1>n DEF CallsMeanIt
    <3>. QED BY <2>3, <3>1, <3>2, <1>l
  <2>4. CASE records'[k] = Outcome("not-run", NoSeq, {})
    BY <2>4 DEF Outcome, NoSeq
  <2>. QED BY <2>2, <2>3, <2>4, <1>h
<1>b. BaselineIsDurable'
  <2>1. client' = "calling" => ~IsWait(Current + 1) /\ Current' = Current + 1 /\ rpc'[Current + 1] = "sent"
    BY <1>g, <1>n DEF Begin, Current, BatchTypes
  <2>. QED BY <2>1, <1>l, <1>u DEF BaselineIsDurable, Told
<1>f. ScreensAreFresh'
  <2>1. \A k : (Kept(k))' = Kept(k) /\ (IsWait(k))' = IsWait(k)
    BY <1>u DEF Kept, IsWait
  <2>2. ~(client' \in {"calling", "rechecking"} /\ IsWait(Current)')
    <3>1. client' = "calling" => ~IsWait(Current + 1) /\ Current' = Current + 1
      BY <1>g, <1>n DEF Begin, Current
    <3>2. client' # "rechecking"
      BY <1>g DEF Begin
    <3>. QED BY <3>1, <3>2, <1>u DEF IsWait
  <2>3. ASSUME NEW i \in DOMAIN records', NEW j \in DOMAIN records', j < i, IsWait(i),
               records'[i].status = "completed", records'[j].seq # NoSeq, Kept(j)
        PROVE  j \in records'[i].screen
    <3>1. i \in 1..Current /\ (i = Current => records'[i] = r)
          /\ (i # Current => i \in DOMAIN records /\ records'[i] = records[i])
      BY <2>3, <1>h, <1>n DEF Outcome
    <3>2. j \in DOMAIN records /\ records'[j] = records[j]
      <4>1. j < Current /\ j \in 1..Len(records') /\ Current = Len(records) + 1 /\ Len(records) \in Nat
            /\ DOMAIN records = 1..Len(records) /\ Len(records') \in Nat
        <5>1. i \in Int /\ i <= Current /\ Current \in Int
          BY <3>1, <1>n
        <5>2. j \in 1..Len(records') /\ Len(records') \in Nat
          BY <1>d
        <5>. QED BY <5>1, <5>2, <2>3, <1>n
      <4>2. j \in 1..Len(records)
        BY <4>1
      <4>. QED BY <4>1, <4>2, <1>g
    <3>3. CASE i # Current
      BY <2>3, <3>1, <3>2, <3>3 DEF ScreensAreFresh, Shows, Completed
    <3>4. CASE i = Current
      <4>1. client = "rechecking" /\ records'[i].screen = screen
        BY <2>3, <3>1, <3>4
      <4>2. rpc[Current] = "matched"
        BY <4>1 DEF StepsComeInOrder
      <4>. QED BY <2>3, <3>2, <3>4, <4>1, <4>2 DEF ScreensAreFresh, Shows
    <3>. QED BY <3>3, <3>4
  <2>. QED BY <2>1, <2>2, <2>3 DEF ScreensAreFresh, Shows, Completed
<1>. QED BY <1>t, <1>o, <1>c, <1>s, <1>r, <1>b, <1>f DEF BatchInv
-----------------------------------------------------------------------------
(* The host *)

\* The host only adds to what it has on disk, and takes back no call that is
\* not sent or that has matched: then what was said of the steps stays true.
LEMMA HostKeeps ==
  ASSUME BatchInv, BatchTypes', UNCHANGED <<plan, keepGoing, clientVars>>,
         CallsMeanIt', StoredOnce',
         \A k \in DOMAIN plan : rpc[k] \in {"idle", "matched"} => rpc'[k] = rpc[k],
         \A k \in DOMAIN plan : rpc'[k] \in Told => rpc[k] \in Told \/ durable <= seqOf'[k],
         reached \subseteq reached', finished \subseteq finished', capped => capped',
         durable <= durable',
         \A k \in 1..durable : stored'[k] = stored[k],
         \A k \in reached : seqOf'[k] = seqOf[k],
         \/ UNCHANGED waitVars /\ \A k \in DOMAIN plan : rpc'[k] = "matched" => rpc[k] = "matched"
         \/ \A j \in DOMAIN records : Shows(screen', j)
  PROVE  BatchInv'
<1>i. /\ BatchTypes /\ StepsComeInOrder /\ CallsMeanIt /\ StoredOnce /\ ReportedIsDurable
      /\ BaselineIsDurable /\ ScreensAreFresh
  BY DEF BatchInv
<1>u. /\ plan' = plan /\ keepGoing' = keepGoing /\ client' = client /\ records' = records
      /\ lastInputSeq' = lastInputSeq /\ exitCode' = exitCode
  BY DEF clientVars
<1>w. Current' = Current /\ \A k : (IsWait(k))' = IsWait(k)
  BY <1>u DEF Current, IsWait
<1>n. /\ Len(records) \in Nat /\ DOMAIN records = 1..Len(records) /\ Len(plan) \in Nat
      /\ DOMAIN plan = 1..Len(plan) /\ Len(records) <= Len(plan)
  BY <1>i, PlanShape DEF BatchTypes
<1>a. durable \in Nat /\ durable' \in Nat /\ durable <= Len(stored) /\ durable' <= Len(stored')
      /\ Len(stored) \in Nat /\ Len(stored') \in Nat /\ lastInputSeq \in Nat
      /\ \A k \in DOMAIN plan : seqOf[k] \in Nat
  BY <1>i DEF BatchTypes
<1>c. \A k \in DOMAIN records : k \in DOMAIN plan
  BY <1>n
<1>d. \A i \in DOMAIN records : records[i].seq # NoSeq =>
        /\ ~IsWait(i) /\ i \in reached /\ records[i].seq = seqOf[i]
        /\ seqOf[i] <= durable /\ seqOf[i] <= lastInputSeq
        /\ Kept(i) \/ capped
  BY <1>i DEF ReportedIsDurable
<1>k. \A i \in DOMAIN records : records[i].seq # NoSeq => ((Kept(i))' <=> Kept(i))
  <2> SUFFICES ASSUME NEW i \in DOMAIN records, records[i].seq # NoSeq PROVE (Kept(i))' <=> Kept(i)
    OBVIOUS
  <2>1. seqOf'[i] = seqOf[i] /\ seqOf[i] \in Nat /\ seqOf[i] <= durable
    BY <1>a, <1>c, <1>d
  <2>2. seqOf[i] \in 1..durable => stored'[seqOf[i]] = stored[seqOf[i]]
    OBVIOUS
  <2>3. seqOf[i] \in 1..Len(stored) <=> seqOf[i] \in 1..durable
    BY <2>1, <1>a
  <2>4. seqOf[i] \in 1..Len(stored') <=> seqOf[i] \in 1..durable
    BY <2>1, <1>a
  <2>. QED BY <2>1, <2>2, <2>3, <2>4 DEF Kept
<1>o. StepsComeInOrder'
  <2>1. ASSUME client # "done"
        PROVE  /\ Len(records) < Len(plan) /\ exitCode = "none"
               /\ \A i \in DOMAIN records :
                    records[i].status = "completed" \/ (records[i].status = "failed" /\ keepGoing)
               /\ \A i \in DOMAIN plan : i > Current => rpc'[i] = "idle"
               /\ client = "checking" => IsWait(Current) /\ rpc'[Current] = "idle"
               /\ client = "rechecking" => IsWait(Current) /\ rpc'[Current] = "matched"
    <3>1. Current \in DOMAIN plan
      <4>1. Len(records) < Len(plan)
        BY <2>1, <1>i DEF StepsComeInOrder
      <4>. QED BY <4>1, <1>n DEF Current
    <3>2. \A i \in DOMAIN plan : i > Current => rpc[i] = "idle"
      BY <2>1, <1>i DEF StepsComeInOrder
    <3>3. /\ client = "checking" => IsWait(Current) /\ rpc[Current] = "idle"
          /\ client = "rechecking" => IsWait(Current) /\ rpc[Current] = "matched"
      BY <2>1, <1>i DEF StepsComeInOrder
    <3>4. /\ Len(records) < Len(plan) /\ exitCode = "none"
          /\ \A i \in DOMAIN records :
               records[i].status = "completed" \/ (records[i].status = "failed" /\ keepGoing)
      BY <2>1, <1>i DEF StepsComeInOrder
    <3>. QED BY <3>1, <3>2, <3>3, <3>4
  <2>2. \A i \in DOMAIN records : NotRun(i) => rpc'[i] = "idle"
    BY <1>i, <1>c DEF StepsComeInOrder
  <2>3. client = "done" => Len(records) = Len(plan)
    BY <1>i DEF StepsComeInOrder
  <2>4. \A i \in DOMAIN records :
          records[i].status = "interrupted" \/ (records[i].status = "failed" /\ ~keepGoing)
          => \A j \in (i + 1)..Len(records) : NotRun(j)
    BY <1>i DEF StepsComeInOrder
  <2>5. exitCode = "success" => client = "done" /\ \A i \in DOMAIN records : Completed(i)
    BY <1>i DEF StepsComeInOrder
  <2>6. \A k : (NotRun(k))' = NotRun(k) /\ (Completed(k))' = Completed(k)
    BY <1>u DEF NotRun, Completed
  <2>. QED BY <2>1, <2>2, <2>3, <2>4, <2>5, <2>6, <1>u, <1>w DEF StepsComeInOrder
<1>r. ReportedIsDurable'
  <2>1. ASSUME NEW i \in DOMAIN records, records[i].seq # NoSeq
        PROVE  /\ ~IsWait(i) /\ i \in reached' /\ records[i].seq = seqOf'[i]
               /\ seqOf'[i] <= durable' /\ seqOf'[i] <= lastInputSeq
               /\ (Kept(i))' \/ capped'
    <3>1. seqOf'[i] = seqOf[i] /\ seqOf[i] \in Nat
      BY <2>1, <1>a, <1>c, <1>d
    <3>. QED BY <2>1, <3>1, <1>a, <1>d, <1>k
  <2>2. ASSUME NEW i \in DOMAIN records, Completed(i), ~IsWait(i)
        PROVE  records[i].seq # NoSeq /\ (plan[i] = "run" => i \in finished')
    BY <2>2, <1>i DEF ReportedIsDurable
  <2>. QED BY <2>1, <2>2, <1>u, <1>w DEF ReportedIsDurable, Completed, NoSeq
<1>b. BaselineIsDurable'
  <2>1. lastInputSeq <= durable
    BY <1>i DEF BaselineIsDurable
  <2>2. ASSUME client = "calling", ~IsWait(Current), rpc'[Current] \in Told
        PROVE  lastInputSeq <= seqOf'[Current]
    <3>1. Current \in DOMAIN plan
      <4>1. Len(records) < Len(plan)
        BY <2>2, <1>i DEF StepsComeInOrder
      <4>. QED BY <4>1, <1>n DEF Current
    <3>2. CASE rpc[Current] \in Told
      <4>1. Current \in reached
        BY <3>1, <3>2, <1>i DEF CallsMeanIt
      <4>2. lastInputSeq <= seqOf[Current]
        BY <2>2, <3>2, <1>i DEF BaselineIsDurable
      <4>. QED BY <4>1, <4>2
    <3>3. CASE durable <= seqOf'[Current]
      <4>1. seqOf'[Current] \in Nat
        BY <3>1, <1>u DEF BatchTypes
      <4>. QED BY <3>3, <4>1, <2>1, <1>a
    <3>. QED BY <3>1, <3>2, <3>3, <2>2
  <2>3. lastInputSeq <= durable'
    BY <2>1, <1>a
  <2>. QED BY <2>2, <2>3, <1>u, <1>w DEF BaselineIsDurable
<1>f. ScreensAreFresh'
  <2>1. ASSUME NEW i \in DOMAIN records, NEW j \in DOMAIN records, j < i, IsWait(i), Completed(i),
               records[j].seq # NoSeq, (Kept(j))'
        PROVE  j \in records[i].screen
    BY <2>1, <1>k, <1>i DEF ScreensAreFresh, Shows
  <2>2. ASSUME client \in {"calling", "rechecking"}, IsWait(Current), clock' \/ rpc'[Current] = "matched",
               NEW j \in DOMAIN records, records[j].seq # NoSeq, (Kept(j))'
        PROVE  j \in screen'
    <3>1. Current \in DOMAIN plan
      <4>1. Len(records) < Len(plan)
        BY <2>2, <1>i DEF StepsComeInOrder
      <4>. QED BY <4>1, <1>n DEF Current
    <3>2. Kept(j)
      BY <2>2, <1>k
    <3>3. CASE UNCHANGED waitVars /\ \A k \in DOMAIN plan : rpc'[k] = "matched" => rpc[k] = "matched"
      <4>1. clock' = clock /\ screen' = screen
        BY <3>3 DEF waitVars
      <4>. QED BY <4>1, <3>1, <3>2, <3>3, <2>2, <1>i DEF ScreensAreFresh, Shows
    <3>4. CASE \A k \in DOMAIN records : Shows(screen', k)
      BY <3>2, <3>4, <2>2 DEF Shows
    <3>. QED BY <3>3, <3>4
  <2>. QED BY <2>1, <2>2, <1>u, <1>w DEF ScreensAreFresh, Shows, Completed, NoSeq
<1>. QED BY <1>o, <1>r, <1>b, <1>f DEF BatchInv

\* The steps that a call takes once the host has it.
Moves(k) ==
  \/ rpc'[k] = rpc[k]
  \/ /\ rpc[k] = "writing" /\ seqOf[k] <= durable
     /\ rpc'[k] = IF plan[k] = "run" THEN "waiting" ELSE "answered"
  \/ rpc[k] = "waiting" /\ (rpc'[k] = "unfinished" \/ (k \in finished /\ rpc'[k] = "answered"))
  \/ rpc[k] = "sent" /\ IsWait(k) /\ rpc'[k] = "polling"
  \/ rpc[k] = "polling" /\ rpc'[k] \in {"matched", "unmatched"}
  \/ rpc[k] \in {"sent", "polling", "waiting"} /\ rpc'[k] = "failed"

\* A step of the host other than the handling of an input keeps the invariant:
\* calls move on, and the log is as before or longer by what is no input.
LEMMA MovesKeep ==
  ASSUME BatchInv, BatchTypes', UNCHANGED <<plan, keepGoing, clientVars, seqOf, reached>>,
         \A k \in DOMAIN plan : Moves(k),
         finished \subseteq finished', capped => capped', durable <= durable',
         Len(stored) <= Len(stored'),
         \A k \in 1..Len(stored) : stored'[k] = stored[k],
         \A k \in 1..Len(stored') : k > Len(stored) => stored'[k] \notin DOMAIN plan,
         \/ UNCHANGED waitVars /\ \A k \in DOMAIN plan : rpc'[k] = "matched" => rpc[k] = "matched"
         \/ \A j \in DOMAIN records : Shows(screen', j)
  PROVE  BatchInv'
<1>i. BatchTypes /\ CallsMeanIt /\ StoredOnce
  BY DEF BatchInv
<1>u. plan' = plan /\ seqOf' = seqOf /\ reached' = reached /\ \A k : (IsWait(k))' = IsWait(k)
  BY DEF IsWait
<1>a. /\ durable \in Nat /\ durable' \in Nat /\ durable <= Len(stored)
      /\ Len(stored) \in Nat /\ Len(stored') \in Nat
      /\ \A k \in DOMAIN plan : seqOf[k] \in Nat
  BY <1>i DEF BatchTypes
<1>k. \A k \in DOMAIN plan : Kept(k) => (Kept(k))'
  BY <1>a, <1>u DEF Kept
<1>c. CallsMeanIt'
  <2> SUFFICES ASSUME NEW k \in DOMAIN plan
               PROVE  /\ rpc'[k] \in {"idle", "sent"} => k \notin reached
                      /\ rpc'[k] \in IF IsWait(k) THEN WaitCalls ELSE InputCalls
                      /\ rpc'[k] \in Told => k \in reached /\ seqOf[k] \in 1..Len(stored') /\ ((Kept(k))' \/ capped')
                      /\ rpc'[k] \in Told \ {"writing"} => seqOf[k] <= durable'
                      /\ rpc'[k] = "answered" /\ plan[k] = "run" => k \in finished'
    BY <1>u DEF CallsMeanIt
  <2>1. /\ rpc[k] \in {"idle", "sent"} => k \notin reached
        /\ rpc[k] \in IF IsWait(k) THEN WaitCalls ELSE InputCalls
        /\ rpc[k] \in Told => k \in reached /\ seqOf[k] \in 1..Len(stored) /\ (Kept(k) \/ capped)
        /\ rpc[k] \in Told \ {"writing"} => seqOf[k] <= durable
        /\ rpc[k] = "answered" /\ plan[k] = "run" => k \in finished
    BY <1>i DEF CallsMeanIt
  <2>2. rpc[k] \in Told => seqOf[k] \in 1..Len(stored') /\ ((Kept(k))' \/ capped')
    BY <2>1, <1>a, <1>k
  <2>3. rpc'[k] \in {"idle", "sent"} => rpc[k] \in {"idle", "sent"}
    BY DEF Moves
  <2>4. rpc'[k] \in IF IsWait(k) THEN WaitCalls ELSE InputCalls
    BY <2>1 DEF Moves, WaitCalls, InputCalls
  <2>5. rpc'[k] \in Told => rpc[k] \in Told
    BY DEF Moves, Told
  <2>6. rpc'[k] \in Told \ {"writing"} => seqOf[k] <= durable
    BY <2>1 DEF Moves, Told
  <2>7. rpc'[k] = "answered" /\ plan[k] = "run" => k \in finished
    BY <2>1 DEF Moves
  <2>8. seqOf[k] <= durable => seqOf[k] <= durable'
    BY <1>a
  <2>. QED BY <2>1, <2>2, <2>3, <2>4, <2>5, <2>6, <2>7, <2>8
<1>s. StoredOnce'
  <2> SUFFICES ASSUME NEW k \in 1..Len(stored'), stored'[k] \in DOMAIN plan
               PROVE  stored'[k] \in reached /\ seqOf[stored'[k]] = k
    BY <1>u DEF StoredOnce
  <2>1. k \in 1..Len(stored)
    BY <1>a
  <2>. QED BY <2>1, <1>i DEF StoredOnce
<1>1. \A k \in DOMAIN plan : rpc[k] \in {"idle", "matched"} => rpc'[k] = rpc[k]
  BY DEF Moves
<1>2. \A k \in DOMAIN plan : rpc'[k] \in Told => rpc[k] \in Told
  BY DEF Moves, Told
<1>3. \A k \in 1..durable : stored'[k] = stored[k]
  BY <1>a
<1>. QED BY <1>c, <1>s, <1>1, <1>2, <1>3, <1>u, HostKeeps

\* What a call of the log's append does to it.
LEMMA KeepGives ==
  ASSUME BatchTypes, NEW record \in Events, Keep(record)
  PROVE  /\ stored' \in Seq(Events) /\ Len(stored) <= Len(stored')
         /\ capped' \in BOOLEAN /\ (capped => capped')
         /\ \A k \in 1..Len(stored) : stored'[k] = stored[k]
         /\ \A k \in 1..Len(stored') : k > Len(stored) => k = Len(stored') /\ stored'[k] \in {record, Closing}
         /\ broken \/ capped' \/ (Len(stored') \in 1..Len(stored') /\ stored'[Len(stored')] = record)
         /\ Len(stored') \in 1..Len(stored')
<1>1. /\ stored \in Seq(Events) /\ capped \in BOOLEAN /\ Len(stored) \in Nat /\ Len(stored) >= 1
  BY DEF BatchTypes
<1>2. Closing \in Events
  <2>1. Len(plan) \in Nat
    BY PlanShape
  <2>. QED BY <2>1 DEF Closing, Events
<1>3. CASE stored' = stored /\ capped' = capped /\ (capped \/ broken)
  BY <1>1, <1>3
<1>4. ASSUME NEW e \in {record, Closing}, stored' = Append(stored, e), capped' \in BOOLEAN, capped => capped',
             e = record \/ capped'
      PROVE  /\ stored' \in Seq(Events) /\ Len(stored') = Len(stored) + 1
             /\ \A k \in 1..Len(stored) : stored'[k] = stored[k]
             /\ stored'[Len(stored) + 1] = e
  BY <1>1, <1>2, <1>4, AppendProperties
<1>5. ASSUME NEW e \in {record, Closing}, stored' = Append(stored, e), capped' \in BOOLEAN, capped => capped',
             e = record \/ capped'
      PROVE  /\ stored' \in Seq(Events) /\ Len(stored) <= Len(stored')
             /\ \A k \in 1..Len(stored) : stored'[k] = stored[k]
             /\ \A k \in 1..Len(stored') : k > Len(stored) => k = Len(stored') /\ stored'[k] \in {record, Closing}
             /\ capped' \/ (Len(stored') \in 1..Len(stored') /\ stored'[Len(stored')] = record)
             /\ Len(stored') \in 1..Len(stored')
  <2>1. /\ stored' \in Seq(Events) /\ Len(stored') = Len(stored) + 1
        /\ \A k \in 1..Len(stored) : stored'[k] = stored[k]
        /\ stored'[Len(stored) + 1] = e
    BY <1>4, <1>5
  <2>. QED BY <2>1, <1>1, <1>5
<1>6. CASE stored' = Append(stored, record) /\ capped' = capped
  BY <1>1, <1>5, <1>6
<1>7. CASE stored' = Append(stored, Closing) /\ capped' = TRUE
  BY <1>1, <1>5, <1>7
<1>. QED BY <1>3, <1>6, <1>7 DEF Keep

\* The types of what the host has, apart from those of the executor.
LEMMA HostTypes ==
  ASSUME BatchTypes, UNCHANGED <<plan, keepGoing, clientVars>>,
         rpc' \in [DOMAIN plan -> InputCalls \union WaitCalls], seqOf' \in [DOMAIN plan -> Nat],
         clock' \in BOOLEAN, screen' \subseteq DOMAIN plan,
         stored' \in Seq(Events), durable' \in 1..Len(stored'), capped' \in BOOLEAN, broken' \in BOOLEAN,
         host' \in {"running", "over", "gone"}, exited' \in BOOLEAN, onDisk' \in {"running", "ended"},
         reached' \subseteq DOMAIN plan, finished' \subseteq reached', outputs' \in 0..MaxOutputs
  PROVE  BatchTypes'
<1>u. /\ plan' = plan /\ keepGoing' = keepGoing /\ client' = client /\ records' = records
      /\ lastInputSeq' = lastInputSeq /\ exitCode' = exitCode
  BY DEF clientVars
<1>1. OutcomeRecord' = OutcomeRecord /\ Events' = Events
  BY <1>u DEF OutcomeRecord, Events
<1>. QED BY <1>u, <1>1 DEF BatchTypes

\* The log lands or fails, the program writes or ends, the session ends.
LEMMA SessionKeeps ==
  ASSUME BatchInv, SessionStep
  PROVE  BatchInv'
<1>i. BatchTypes /\ CallsMeanIt /\ StoredOnce
  BY DEF BatchInv
<1>a. /\ durable \in Nat /\ 1 <= durable /\ durable <= Len(stored) /\ Len(stored) \in Nat
      /\ durable \in 1..Len(stored) /\ stored \in Seq(Events)
      /\ Len(plan) \in Nat /\ DOMAIN plan = 1..Len(plan)
  BY <1>i, PlanShape DEF BatchTypes
<1>e. Output \in Events /\ Closing \in Events /\ Output \notin DOMAIN plan /\ Closing \notin DOMAIN plan
  BY <1>a DEF Output, Closing, Events
<1>t. /\ rpc \in [DOMAIN plan -> InputCalls \union WaitCalls] /\ seqOf \in [DOMAIN plan -> Nat]
      /\ clock \in BOOLEAN /\ screen \subseteq DOMAIN plan /\ capped \in BOOLEAN /\ broken \in BOOLEAN
      /\ host \in {"running", "over", "gone"} /\ exited \in BOOLEAN /\ onDisk \in {"running", "ended"}
      /\ reached \subseteq DOMAIN plan /\ finished \subseteq reached /\ outputs \in 0..MaxOutputs
  BY <1>i DEF BatchTypes
<1>1. CASE RecordLands
  <2>1. /\ durable' = durable + 1 /\ durable < Len(stored)
        /\ UNCHANGED <<plan, keepGoing, clientVars, rpc, seqOf, waitVars, stored, capped, broken,
                       host, exited, onDisk, reached, finished, outputs>>
    BY <1>1 DEF RecordLands, hostVars, observed
  <2>2. durable' \in 1..Len(stored') /\ durable <= durable'
    BY <2>1, <1>a
  <2>3. BatchTypes'
    BY <2>1, <2>2, <1>i, <1>t, <1>a, HostTypes DEF waitVars
  <2>4. \A k \in DOMAIN plan : Moves(k)
    BY <2>1 DEF Moves
  <2>5. \A k \in 1..Len(stored') : ~(k > Len(stored))
    BY <2>1, <1>a
  <2>. QED BY <2>1, <2>2, <2>3, <2>4, <2>5, <1>a, MovesKeep
<1>2. CASE RecordsFail
  <2>1. /\ durable < Len(stored)
        /\ stored' = SubSeq(stored, 1, durable)
        /\ rpc' = [k \in DOMAIN plan |-> IF rpc[k] = "writing" /\ seqOf[k] > durable THEN "failed" ELSE rpc[k]]
        /\ broken' = TRUE /\ host' \in {"gone", host}
        /\ UNCHANGED <<plan, keepGoing, clientVars, seqOf, waitVars, durable, capped, exited, onDisk,
                       reached, finished, outputs>>
    BY <1>2 DEF RecordsFail, observed
  <2>2. /\ stored' \in Seq(Events) /\ Len(stored') = durable
        /\ \A k \in 1..durable : stored'[k] = stored[k]
    BY <2>1, <1>a, SubSeqProperties
  <2>3. durable' \in 1..Len(stored')
    BY <2>1, <2>2, <1>a
  <2>4. rpc' \in [DOMAIN plan -> InputCalls \union WaitCalls]
    BY <2>1, <1>t DEF InputCalls
  <2>5. BatchTypes'
    BY <2>1, <2>2, <2>3, <2>4, <1>i, <1>t, HostTypes DEF waitVars
  <2>6. CallsMeanIt'
    <3> SUFFICES ASSUME NEW k \in DOMAIN plan
                 PROVE  /\ rpc'[k] \in {"idle", "sent"} => k \notin reached
                        /\ rpc'[k] \in IF IsWait(k) THEN WaitCalls ELSE InputCalls
                        /\ rpc'[k] \in Told => k \in reached /\ seqOf[k] \in 1..Len(stored') /\ ((Kept(k))' \/ capped)
                        /\ rpc'[k] \in Told \ {"writing"} => seqOf[k] <= durable
                        /\ rpc'[k] = "answered" /\ plan[k] = "run" => k \in finished
      BY <2>1 DEF CallsMeanIt, IsWait
    <3>1. /\ rpc[k] \in {"idle", "sent"} => k \notin reached
          /\ rpc[k] \in IF IsWait(k) THEN WaitCalls ELSE InputCalls
          /\ rpc[k] \in Told => k \in reached /\ seqOf[k] \in 1..Len(stored) /\ (Kept(k) \/ capped)
          /\ rpc[k] \in Told \ {"writing"} => seqOf[k] <= durable
          /\ rpc[k] = "answered" /\ plan[k] = "run" => k \in finished
      BY <1>i DEF CallsMeanIt
    <3>2. CASE rpc'[k] = rpc[k] /\ ~(rpc[k] = "writing" /\ seqOf[k] > durable)
      <4>1. rpc[k] \in Told => seqOf[k] \in 1..durable
        <5>1. rpc[k] \in Told => seqOf[k] \in 1..Len(stored) /\ ~(seqOf[k] > durable)
          <6>1. seqOf[k] <= durable => ~(seqOf[k] > durable)
            BY <1>a, <1>t
          <6>. QED BY <6>1, <3>1, <3>2
        <5>. QED BY <5>1, <1>a
      <4>2. seqOf[k] \in 1..durable /\ Kept(k) => (Kept(k))'
        BY <2>1, <2>2 DEF Kept
      <4>. QED BY <3>1, <3>2, <4>1, <4>2, <2>2
    <3>3. CASE rpc'[k] = "failed" /\ rpc[k] = "writing"
      <4>1. ~IsWait(k)
        BY <3>1, <3>3 DEF WaitCalls
      <4>. QED BY <3>3, <4>1 DEF Told, InputCalls
    <3>. QED BY <3>2, <3>3, <2>1
  <2>7. StoredOnce'
    <3> SUFFICES ASSUME NEW k \in 1..Len(stored'), stored'[k] \in DOMAIN plan
                 PROVE  stored'[k] \in reached /\ seqOf[stored'[k]] = k
      BY <2>1 DEF StoredOnce
    <3>1. k \in 1..Len(stored) /\ stored'[k] = stored[k]
      BY <2>2, <1>a
    <3>. QED BY <3>1, <1>i DEF StoredOnce
  <2>8. /\ \A k \in DOMAIN plan : rpc[k] \in {"idle", "matched"} => rpc'[k] = rpc[k]
        /\ \A k \in DOMAIN plan : rpc'[k] \in Told => rpc[k] \in Told
        /\ \A k \in DOMAIN plan : rpc'[k] = "matched" => rpc[k] = "matched"
    BY <2>1 DEF Told
  <2>9. durable <= durable
    BY <1>a
  <2>. QED BY <2>1, <2>2, <2>5, <2>6, <2>7, <2>8, <2>9, HostKeeps
<1>3. CASE OutputComes
  <2>1. /\ Keep(Output) /\ host' \in {"gone", host} /\ outputs < MaxOutputs /\ outputs' = outputs + 1
        /\ UNCHANGED <<plan, keepGoing, clientVars, rpc, seqOf, waitVars, durable, broken, exited, onDisk,
                       reached, finished>>
    BY <1>3 DEF OutputComes
  <2>2. /\ stored' \in Seq(Events) /\ Len(stored) <= Len(stored') /\ Len(stored') \in Nat
        /\ capped' \in BOOLEAN /\ (capped => capped')
        /\ \A k \in 1..Len(stored) : stored'[k] = stored[k]
        /\ \A k \in 1..Len(stored') : k > Len(stored) => stored'[k] \in {Output, Closing}
    BY <2>1, <1>i, <1>e, KeepGives
  <2>3. durable' \in 1..Len(stored') /\ durable <= durable'
    BY <2>1, <2>2, <1>a
  <2>4. outputs' \in 0..MaxOutputs
    BY <2>1, <1>t, BatchAssumption
  <2>5. BatchTypes'
    BY <2>1, <2>2, <2>3, <2>4, <1>i, <1>t, HostTypes DEF waitVars
  <2>6. \A k \in DOMAIN plan : Moves(k)
    BY <2>1 DEF Moves
  <2>7. \A k \in 1..Len(stored') : k > Len(stored) => stored'[k] \notin DOMAIN plan
    BY <2>2, <1>e
  <2>. QED BY <2>1, <2>2, <2>3, <2>5, <2>6, <2>7, MovesKeep
<1>4. CASE ProgramExits
  <2>1. /\ exited' = TRUE /\ host' = "over" /\ stored' \in {stored, Append(stored, Closing)}
        /\ UNCHANGED <<plan, keepGoing, clientVars, rpc, seqOf, waitVars, durable, capped, broken, onDisk,
                       reached, finished, outputs>>
    BY <1>4 DEF ProgramExits, observed
  <2>2. /\ stored' \in Seq(Events) /\ Len(stored) <= Len(stored') /\ Len(stored') \in Nat
        /\ \A k \in 1..Len(stored) : stored'[k] = stored[k]
        /\ \A k \in 1..Len(stored') : k > Len(stored) => stored'[k] = Closing
    <3>1. CASE stored' = stored
      BY <3>1, <1>a
    <3>2. CASE stored' = Append(stored, Closing)
      <4>1. /\ stored' \in Seq(Events) /\ Len(stored') = Len(stored) + 1
            /\ \A k \in 1..Len(stored) : stored'[k] = stored[k]
            /\ stored'[Len(stored) + 1] = Closing
        BY <3>2, <1>a, <1>e, AppendProperties
      <4>. QED BY <4>1, <1>a
    <3>. QED BY <3>1, <3>2, <2>1
  <2>3. durable' \in 1..Len(stored') /\ durable <= durable'
    BY <2>1, <2>2, <1>a
  <2>4. BatchTypes'
    BY <2>1, <2>2, <2>3, <1>i, <1>t, HostTypes DEF waitVars
  <2>5. \A k \in DOMAIN plan : Moves(k)
    BY <2>1 DEF Moves
  <2>6. \A k \in 1..Len(stored') : k > Len(stored) => stored'[k] \notin DOMAIN plan
    BY <2>2, <1>e
  <2>. QED BY <2>1, <2>2, <2>3, <2>4, <2>5, <2>6, MovesKeep
<1>5. CASE BeginShutdown \/ PersistEnd \/ HostGoes
  <2>1. /\ host' \in {"running", "over", "gone"} /\ onDisk' \in {"running", "ended"}
        /\ UNCHANGED <<plan, keepGoing, clientVars, rpc, seqOf, waitVars, stored, durable, capped, broken, exited,
                       reached, finished, outputs>>
    BY <1>5, <1>t DEF BeginShutdown, PersistEnd, HostGoes, HostChanges, keptVars, observed
  <2>2. durable' \in 1..Len(stored') /\ durable <= durable' /\ \A k \in 1..Len(stored') : ~(k > Len(stored))
    BY <2>1, <1>a
  <2>3. BatchTypes'
    BY <2>1, <2>2, <1>i, <1>t, <1>a, HostTypes DEF waitVars
  <2>4. \A k \in DOMAIN plan : Moves(k)
    BY <2>1 DEF Moves
  <2>. QED BY <2>1, <2>2, <2>3, <2>4, <1>a, MovesKeep
<1>. QED BY <1>1, <1>2, <1>3, <1>4, <1>5 DEF SessionStep

\* A step of one call that touches nothing else of the host keeps the invariant.
LEMMA CallKeeps ==
  ASSUME BatchInv, NEW i \in DOMAIN plan, NEW to \in InputCalls \union WaitCalls,
         rpc' = [rpc EXCEPT ![i] = to], Moves(i), clock' \in BOOLEAN, screen' \subseteq DOMAIN plan,
         UNCHANGED <<plan, keepGoing, clientVars, seqOf, keptVars, hostVars, reached, outputs>>,
         finished \subseteq finished', finished' \subseteq reached,
         \/ UNCHANGED waitVars /\ (to = "matched" => rpc[i] = "matched")
         \/ \A j \in DOMAIN records : Shows(screen', j)
  PROVE  BatchInv'
<1>i. BatchTypes
  BY DEF BatchInv
<1>u. /\ UNCHANGED <<plan, keepGoing, clientVars, seqOf, stored, durable, capped, broken, host, exited, onDisk,
                     reached, outputs>>
  BY DEF keptVars, hostVars
<1>a. /\ durable \in Nat /\ durable \in 1..Len(stored) /\ stored \in Seq(Events) /\ Len(stored) \in Nat
  BY <1>i DEF BatchTypes
<1>t. /\ rpc \in [DOMAIN plan -> InputCalls \union WaitCalls] /\ seqOf \in [DOMAIN plan -> Nat]
      /\ capped \in BOOLEAN /\ broken \in BOOLEAN
      /\ host \in {"running", "over", "gone"} /\ exited \in BOOLEAN /\ onDisk \in {"running", "ended"}
      /\ reached \subseteq DOMAIN plan /\ outputs \in 0..MaxOutputs
  BY <1>i DEF BatchTypes
<1>1. rpc' \in [DOMAIN plan -> InputCalls \union WaitCalls]
  BY <1>t
<1>2. BatchTypes'
  BY <1>u, <1>t, <1>a, <1>1, <1>i, HostTypes
<1>3. \A k \in DOMAIN plan : Moves(k)
  <2> SUFFICES ASSUME NEW k \in DOMAIN plan, k # i PROVE Moves(k)
    OBVIOUS
  <2>. QED BY <1>t DEF Moves
<1>4. \A k \in 1..Len(stored') : ~(k > Len(stored))
  BY <1>u, <1>a
<1>5. durable <= durable' /\ Len(stored) <= Len(stored')
  BY <1>u, <1>a
<1>6. \/ UNCHANGED waitVars /\ \A k \in DOMAIN plan : rpc'[k] = "matched" => rpc[k] = "matched"
      \/ \A j \in DOMAIN records : Shows(screen', j)
  BY <1>t
<1>. QED BY <1>u, <1>2, <1>3, <1>4, <1>5, <1>6, MovesKeep

\* An input is written to the terminal and to the log, or refused.
LEMMA InputKeeps ==
  ASSUME BatchInv, NEW i \in DOMAIN plan, HandleInput(i)
  PROVE  BatchInv'
<1>i. BatchTypes /\ CallsMeanIt /\ StoredOnce
  BY DEF BatchInv
<1>a. /\ durable \in Nat /\ 1 <= durable /\ durable <= Len(stored) /\ Len(stored) \in Nat
      /\ durable \in 1..Len(stored) /\ stored \in Seq(Events)
      /\ Len(plan) \in Nat /\ DOMAIN plan = 1..Len(plan)
  BY <1>i, PlanShape DEF BatchTypes
<1>e. i \in Events /\ Closing \notin DOMAIN plan
  BY <1>a DEF Closing, Events
<1>t. /\ rpc \in [DOMAIN plan -> InputCalls \union WaitCalls] /\ seqOf \in [DOMAIN plan -> Nat]
      /\ clock \in BOOLEAN /\ screen \subseteq DOMAIN plan /\ capped \in BOOLEAN /\ broken \in BOOLEAN
      /\ host \in {"running", "over", "gone"} /\ exited \in BOOLEAN /\ onDisk \in {"running", "ended"}
      /\ reached \subseteq DOMAIN plan /\ finished \subseteq reached /\ outputs \in 0..MaxOutputs
  BY <1>i DEF BatchTypes
<1>s. rpc[i] = "sent" /\ ~IsWait(i) /\ i \notin reached
  BY <1>i DEF HandleInput, CallsMeanIt
<1>1. CASE host = "running"
  <2>1. /\ reached' = reached \union {i} /\ Keep(i)
        /\ seqOf' = [seqOf EXCEPT ![i] = Len(stored')]
        /\ rpc' = [rpc EXCEPT ![i] = IF broken THEN "failed" ELSE "writing"]
        /\ UNCHANGED <<plan, keepGoing, clientVars, waitVars, durable, broken, host, exited, onDisk, finished, outputs>>
    BY <1>1 DEF HandleInput, hostVars
  <2>2. /\ stored' \in Seq(Events) /\ Len(stored) <= Len(stored')
        /\ capped' \in BOOLEAN /\ (capped => capped')
        /\ \A k \in 1..Len(stored) : stored'[k] = stored[k]
        /\ \A k \in 1..Len(stored') : k > Len(stored) => k = Len(stored') /\ stored'[k] \in {i, Closing}
        /\ broken \/ capped' \/ (Len(stored') \in 1..Len(stored') /\ stored'[Len(stored')] = i)
        /\ Len(stored') \in 1..Len(stored')
    BY <2>1, <1>i, <1>e, KeepGives
  <2>3. Len(stored') \in Nat
    BY <2>2
  <2>4. durable' \in 1..Len(stored') /\ durable <= durable' /\ durable <= Len(stored')
    BY <2>1, <2>2, <2>3, <1>a
  <2>5. /\ seqOf' \in [DOMAIN plan -> Nat] /\ seqOf'[i] = Len(stored')
        /\ \A k \in DOMAIN plan : k # i => seqOf'[k] = seqOf[k]
    BY <2>1, <2>3, <1>t
  <2>6. /\ rpc' \in [DOMAIN plan -> InputCalls \union WaitCalls]
        /\ rpc'[i] = IF broken THEN "failed" ELSE "writing"
        /\ \A k \in DOMAIN plan : k # i => rpc'[k] = rpc[k]
    BY <2>1, <1>t DEF InputCalls
  <2>7. reached' \subseteq DOMAIN plan /\ finished' \subseteq reached' /\ reached \subseteq reached'
    BY <2>1, <1>t
  <2>8. BatchTypes'
    BY <2>1, <2>2, <2>4, <2>5, <2>6, <2>7, <1>i, <1>t, HostTypes DEF waitVars
  <2>9. CallsMeanIt'
    <3> SUFFICES ASSUME NEW k \in DOMAIN plan
                 PROVE  /\ rpc'[k] \in {"idle", "sent"} => k \notin reached'
                        /\ rpc'[k] \in IF IsWait(k) THEN WaitCalls ELSE InputCalls
                        /\ rpc'[k] \in Told => k \in reached' /\ seqOf'[k] \in 1..Len(stored') /\ ((Kept(k))' \/ capped')
                        /\ rpc'[k] \in Told \ {"writing"} => seqOf'[k] <= durable
                        /\ rpc'[k] = "answered" /\ plan[k] = "run" => k \in finished
      BY <2>1 DEF CallsMeanIt, IsWait
    <3>1. CASE k = i
      <4>1. ~broken => ((Kept(i))' \/ capped')
        BY <2>2, <2>5 DEF Kept
      <4>2. rpc'[i] \in Told => ~broken
        BY <2>6 DEF Told
      <4>3. rpc'[i] \in {"failed", "writing"} /\ i \in reached'
        BY <2>1, <2>6
      <4>4. rpc'[i] \in InputCalls /\ rpc'[i] \notin {"idle", "sent", "answered"} \union (Told \ {"writing"})
        BY <4>3 DEF InputCalls, Told
      <4>5. seqOf'[i] \in 1..Len(stored')
        BY <2>2, <2>5
      <4>. QED BY <3>1, <4>1, <4>2, <4>3, <4>4, <4>5, <1>s
    <3>2. CASE k # i
      <4>1. rpc'[k] = rpc[k] /\ seqOf'[k] = seqOf[k] /\ (k \in reached' <=> k \in reached)
        BY <3>2, <2>1, <2>5, <2>6
      <4>2. seqOf[k] \in 1..Len(stored) => seqOf[k] \in 1..Len(stored')
        BY <2>2, <2>3, <1>a
      <4>3. Kept(k) => (Kept(k))'
        BY <4>1, <4>2, <2>2 DEF Kept
      <4>. QED BY <4>1, <4>2, <4>3, <2>2, <1>i DEF CallsMeanIt
    <3>. QED BY <3>1, <3>2
  <2>10. StoredOnce'
    <3> SUFFICES ASSUME NEW k \in 1..Len(stored'), stored'[k] \in DOMAIN plan
                 PROVE  stored'[k] \in reached' /\ seqOf'[stored'[k]] = k
      BY <2>1 DEF StoredOnce
    <3>1. CASE k \in 1..Len(stored)
      <4>1. stored[k] \in reached /\ seqOf[stored[k]] = k /\ stored'[k] = stored[k]
        BY <3>1, <2>2, <1>i DEF StoredOnce
      <4>. QED BY <4>1, <2>5, <2>7, <1>s
    <3>2. CASE k \notin 1..Len(stored)
      <4>1. k > Len(stored)
        BY <3>2, <2>3, <1>a
      <4>2. k = Len(stored') /\ stored'[k] = i
        BY <4>1, <2>2, <1>e
      <4>. QED BY <4>2, <2>1, <2>5
    <3>. QED BY <3>1, <3>2
  <2>11. \A k \in DOMAIN plan : rpc[k] \in {"idle", "matched"} => rpc'[k] = rpc[k]
    BY <2>6, <1>s
  <2>12. \A k \in DOMAIN plan : rpc'[k] \in Told => rpc[k] \in Told \/ durable <= seqOf'[k]
    BY <2>4, <2>5, <2>6
  <2>13. \A k \in DOMAIN plan : rpc'[k] = "matched" => rpc[k] = "matched"
    BY <2>6
  <2>14. \A k \in reached : seqOf'[k] = seqOf[k]
    BY <2>5, <1>s, <1>t
  <2>15. \A k \in 1..durable : stored'[k] = stored[k]
    BY <2>2, <1>a
  <2>. QED BY <2>1, <2>2, <2>4, <2>7, <2>8, <2>9, <2>10, <2>11, <2>12, <2>13, <2>14, <2>15, HostKeeps
<1>2. CASE host # "running"
  <2>1. /\ rpc' = [rpc EXCEPT ![i] = "failed"]
        /\ UNCHANGED <<plan, keepGoing, clientVars, seqOf, waitVars, keptVars, hostVars, reached, finished, outputs>>
    BY <1>2 DEF HandleInput, keptVars
  <2>2. Moves(i) /\ "failed" \in InputCalls
    BY <2>1, <1>s, <1>t DEF Moves, InputCalls
  <2>3. clock' \in BOOLEAN /\ screen' \subseteq DOMAIN plan
    BY <2>1, <1>t DEF waitVars
  <2>. QED BY <2>1, <2>2, <2>3, <1>t, CallKeeps
<1>. QED BY <1>1, <1>2

\* A poll past the baseline sees the input of every step with a seq, since such
\* a seq is not behind the baseline.
LEMMA PollKeeps ==
  ASSUME BatchInv, NEW i \in DOMAIN plan, Poll(i)
  PROVE  BatchInv'
<1>i. BatchTypes /\ StoredOnce /\ ReportedIsDurable /\ BaselineIsDurable /\ ScreensAreFresh
  BY DEF BatchInv
<1>t. /\ rpc \in [DOMAIN plan -> InputCalls \union WaitCalls]
      /\ clock \in BOOLEAN /\ screen \subseteq DOMAIN plan /\ finished \subseteq reached
      /\ Len(stored) \in Nat /\ lastInputSeq \in Nat
      /\ \A k \in DOMAIN plan : seqOf[k] \in Nat
  BY <1>i DEF BatchTypes
<1>p. /\ client = "calling" /\ i = Current /\ rpc[i] = "polling"
      /\ lastInputSeq = NoSeq \/ Len(stored) > lastInputSeq
      /\ UNCHANGED <<plan, keepGoing, clientVars, seqOf, keptVars, hostVars, reached, finished, outputs>>
  BY DEF Poll, Calling, observed
<1>c. \A k \in DOMAIN records : k \in DOMAIN plan
  BY <1>i, PlanShape DEF BatchTypes
<1>s. Shown \subseteq DOMAIN plan /\ \A j \in DOMAIN records : Shows(Shown, j)
  <2>1. Shown \subseteq DOMAIN plan
    BY DEF Shown
  <2>2. ASSUME NEW j \in DOMAIN records, records[j].seq # NoSeq, Kept(j) PROVE j \in Shown
    <3>1. seqOf[j] \in 1..Len(stored) /\ stored[seqOf[j]] = j /\ seqOf[j] <= lastInputSeq
      BY <2>2, <1>i DEF Kept, ReportedIsDurable
    <3>2. seqOf[j] \in 1..(Len(stored) - 1)
      BY <3>1, <1>p, <1>t, <1>c DEF NoSeq
    <3>. QED BY <3>1, <3>2, <1>c DEF Shown
  <2>. QED BY <2>1, <2>2 DEF Shows
<1>m. "matched" \in WaitCalls
  BY DEF WaitCalls
<1>1. CASE screen' = Shown /\ rpc' = [rpc EXCEPT ![i] = "matched"] /\ UNCHANGED clock
  <2>1. Moves(i)
    BY <1>1, <1>p, <1>t DEF Moves
  <2>2. \A j \in DOMAIN records : Shows(screen', j)
    BY <1>1, <1>s
  <2>3. clock' \in BOOLEAN /\ screen' \subseteq DOMAIN plan
    BY <1>1, <1>s, <1>t
  <2>. QED BY <1>1, <2>1, <2>2, <2>3, <1>m, <1>p, <1>t, CallKeeps
<1>2. CASE screen' = Shown /\ clock' = TRUE /\ UNCHANGED rpc
  <2>1. Moves(i) /\ rpc' = [rpc EXCEPT ![i] = "polling"] /\ "polling" \in WaitCalls
    BY <1>2, <1>p, <1>t DEF Moves, WaitCalls
  <2>2. \A j \in DOMAIN records : Shows(screen', j)
    BY <1>2, <1>s
  <2>3. clock' \in BOOLEAN /\ screen' \subseteq DOMAIN plan
    BY <1>2, <1>s
  <2>. QED BY <2>1, <2>2, <2>3, <1>p, <1>t, CallKeeps
<1>3. CASE plan[i] = "still" /\ clock /\ rpc' = [rpc EXCEPT ![i] = "matched"] /\ UNCHANGED waitVars
  <2>1. Moves(i)
    BY <1>3, <1>p, <1>t DEF Moves
  <2>2. \A j \in DOMAIN records : Shows(screen, j)
    BY <1>3, <1>p, <1>i DEF ScreensAreFresh, IsWait
  <2>3. clock' \in BOOLEAN /\ screen' = screen
    BY <1>3, <1>t DEF waitVars
  <2>. QED BY <1>3, <2>1, <2>2, <2>3, <1>m, <1>p, <1>t, CallKeeps
<1>. QED BY <1>1, <1>2, <1>3 DEF Poll

\* Whatever a handler does with the call of a step keeps the invariant.
LEMMA HandlersKeep ==
  ASSUME BatchInv, NEW i \in DOMAIN plan, HandlerStep(i) \/ RunEnds(i)
  PROVE  BatchInv'
<1>t. /\ rpc \in [DOMAIN plan -> InputCalls \union WaitCalls]
      /\ clock \in BOOLEAN /\ screen \subseteq DOMAIN plan /\ finished \subseteq reached
  BY DEF BatchInv, BatchTypes
<1>c. ASSUME NEW from, NEW to \in (InputCalls \union WaitCalls) \ {"matched"}, CallGoes(i, from, to),
             rpc[i] = from /\ rpc'[i] = to => Moves(i)
      PROVE  BatchInv'
  <2>1. /\ rpc[i] = from /\ rpc' = [rpc EXCEPT ![i] = to]
        /\ UNCHANGED <<plan, keepGoing, clientVars, seqOf, waitVars, keptVars, hostVars, reached, finished, outputs>>
    BY <1>c DEF CallGoes, observed
  <2>2. rpc'[i] = to
    BY <2>1, <1>t
  <2>3. clock' \in BOOLEAN /\ screen' \subseteq DOMAIN plan
    BY <2>1, <1>t DEF waitVars
  <2>. QED BY <2>1, <2>2, <2>3, <1>c, <1>t, CallKeeps
<1>1. CASE HandleInput(i)
  BY <1>1, InputKeeps
<1>2. CASE Acknowledge(i)
  <2>1. /\ seqOf[i] <= durable
        /\ CallGoes(i, "writing", IF plan[i] = "run" THEN "waiting" ELSE "answered")
    BY <1>2 DEF Acknowledge, Settled
  <2>2. (IF plan[i] = "run" THEN "waiting" ELSE "answered") \in (InputCalls \union WaitCalls) \ {"matched"}
    BY DEF InputCalls
  <2>3. rpc[i] = "writing" /\ rpc'[i] = (IF plan[i] = "run" THEN "waiting" ELSE "answered") => Moves(i)
    BY <2>1 DEF Moves
  <2>. QED BY <2>1, <2>2, <2>3, <1>c
<1>3. CASE RunAnswers(i)
  <2>1. CASE i \in finished /\ CallGoes(i, "waiting", "answered")
    BY <2>1, <1>c DEF Moves, InputCalls
  <2>2. CASE CallGoes(i, "waiting", "unfinished")
    BY <2>2, <1>c DEF Moves, InputCalls
  <2>. QED BY <1>3, <2>1, <2>2 DEF RunAnswers
<1>4. CASE HandleWait(i)
  <2>1. IsWait(i) /\ CallGoes(i, "sent", "polling")
    BY <1>4 DEF HandleWait
  <2>. QED BY <2>1, <1>c DEF Moves, WaitCalls
<1>5. CASE Poll(i)
  BY <1>5, PollKeeps
<1>6. CASE WaitTimesOut(i)
  <2>1. CallGoes(i, "polling", "unmatched")
    BY <1>6 DEF WaitTimesOut
  <2>. QED BY <2>1, <1>c DEF Moves, WaitCalls
<1>7. CASE CallErrs(i)
  <2>1. PICK from \in {"sent", "polling", "waiting"} : CallGoes(i, from, "failed")
    BY <1>7 DEF CallErrs
  <2>. QED BY <2>1, <1>c DEF Moves, WaitCalls
<1>8. CASE RunEnds(i)
  <2>1. /\ i \in reached /\ finished' = finished \union {i}
        /\ UNCHANGED <<plan, keepGoing, clientVars, rpc, seqOf, waitVars, keptVars, hostVars, reached, outputs>>
    BY <1>8 DEF RunEnds
  <2>2. Moves(i) /\ rpc' = [rpc EXCEPT ![i] = rpc[i]] /\ rpc[i] \in InputCalls \union WaitCalls
    BY <2>1, <1>t DEF Moves
  <2>3. clock' \in BOOLEAN /\ screen' \subseteq DOMAIN plan /\ finished' \subseteq reached
    BY <2>1, <1>t DEF waitVars
  <2>. QED BY <2>1, <2>2, <2>3, <1>t, CallKeeps
<1>. QED BY <1>1, <1>2, <1>3, <1>4, <1>5, <1>6, <1>7, <1>8 DEF HandlerStep
-----------------------------------------------------------------------------
(* The executor *)

\* The executor keeps the invariant, and so does a signal.
LEMMA ClientKeeps ==
  ASSUME BatchInv, ClientStep
  PROVE  BatchInv'
<1>i. /\ BatchTypes /\ StepsComeInOrder /\ CallsMeanIt /\ StoredOnce /\ ReportedIsDurable
      /\ BaselineIsDurable /\ ScreensAreFresh
  BY DEF BatchInv
<1>n. /\ Len(records) \in Nat /\ DOMAIN records = 1..Len(records) /\ Len(plan) \in Nat
      /\ DOMAIN plan = 1..Len(plan) /\ records \in Seq(OutcomeRecord)
  BY <1>i, PlanShape DEF BatchTypes
<1>t. /\ rpc \in [DOMAIN plan -> InputCalls \union WaitCalls]
      /\ seqOf \in [DOMAIN plan -> Nat] /\ screen \subseteq DOMAIN plan
  BY <1>i DEF BatchTypes
<1>c. client # "done" => Current \in DOMAIN plan /\ Len(records) < Len(plan)
  <2>1. client # "done" => Len(records) < Len(plan)
    BY <1>i DEF StepsComeInOrder
  <2>. QED BY <2>1, <1>n DEF Current
<1>o. \A status \in {"completed", "failed", "interrupted", "not-run"}, seq \in Nat, S \in SUBSET DOMAIN plan :
        /\ Outcome(status, seq, S) \in OutcomeRecord
        /\ Outcome(status, seq, S).status = status
        /\ Outcome(status, seq, S).seq = seq
        /\ Outcome(status, seq, S).screen = S
  BY DEF Outcome, OutcomeRecord
<1>f. ASSUME Fail(NoSeq), client # "done",
             UNCHANGED <<plan, keepGoing, seqOf, waitVars, keptVars, hostVars, observed>>
      PROVE  BatchInv'
  <2>1. /\ Outcome("failed", NoSeq, {}) \in OutcomeRecord
        /\ Outcome("failed", NoSeq, {}).status = "failed"
        /\ Outcome("failed", NoSeq, {}).seq = NoSeq
    BY <1>o DEF NoSeq
  <2>. QED BY <2>1, <1>f, FinalizeKeeps DEF Fail
<1>1. CASE CheckBefore
  <2>1. CASE onDisk = "running"
    <3>1. /\ client = "checking" /\ client' = "calling" /\ rpc' = [rpc EXCEPT ![Current] = "sent"]
          /\ clock' = FALSE /\ screen' = {}
          /\ UNCHANGED <<records, lastInputSeq, exitCode>>
          /\ UNCHANGED <<plan, keepGoing, seqOf, stored, durable, capped, broken, host, exited, onDisk,
                         reached, finished, outputs>>
      BY <1>1, <2>1 DEF CheckBefore, keptVars, hostVars, observed
    <3>2. IsWait(Current) /\ rpc[Current] = "idle" /\ Current \in DOMAIN plan
      BY <3>1, <1>c, <1>i DEF StepsComeInOrder
    <3>3. Current' = Current /\ \A k : /\ (IsWait(k))' = IsWait(k) /\ (Kept(k))' = Kept(k)
                                       /\ (NotRun(k))' = NotRun(k) /\ (Completed(k))' = Completed(k)
      BY <3>1 DEF Current, IsWait, Kept, NotRun, Completed
    <3>4. /\ rpc' \in [DOMAIN plan -> InputCalls \union WaitCalls] /\ rpc'[Current] = "sent"
          /\ \A k \in DOMAIN plan : k # Current => rpc'[k] = rpc[k]
      BY <3>1, <3>2, <1>t DEF InputCalls
    <3>5. BatchTypes'
      <4>1. OutcomeRecord' = OutcomeRecord /\ Events' = Events
        BY <3>1 DEF OutcomeRecord, Events
      <4>. QED BY <3>1, <3>4, <4>1, <1>i DEF BatchTypes
    <3>6. StepsComeInOrder'
      <4>1. \A k \in DOMAIN plan : k > Current => rpc'[k] = "idle"
        <5>1. \A k \in DOMAIN plan : k > Current => rpc[k] = "idle"
          BY <3>1, <1>i DEF StepsComeInOrder
        <5>2. \A k \in DOMAIN plan : k > Current => k # Current
          BY <1>n, <3>2
        <5>. QED BY <5>1, <5>2, <3>4
      <4>2. \A k \in DOMAIN records : NotRun(k) => rpc'[k] = "idle"
        <5>1. \A k \in DOMAIN records : k # Current /\ k \in DOMAIN plan
          <6>1. Len(records) < Len(plan)
            BY <3>1, <1>c
          <6>. QED BY <6>1, <1>n DEF Current
        <5>. QED BY <5>1, <3>4, <1>i DEF StepsComeInOrder
      <4>3. /\ Len(records) < Len(plan) /\ exitCode = "none"
            /\ \A k \in DOMAIN records :
                 records[k].status = "completed" \/ (records[k].status = "failed" /\ keepGoing)
            /\ \A k \in DOMAIN records :
                 records[k].status = "interrupted" \/ (records[k].status = "failed" /\ ~keepGoing)
                 => \A j \in (k + 1)..Len(records) : NotRun(j)
        BY <3>1, <1>i DEF StepsComeInOrder
      <4>. QED BY <4>1, <4>2, <4>3, <3>1, <3>3 DEF StepsComeInOrder
    <3>7. CallsMeanIt'
      BY <3>1, <3>2, <3>3, <3>4, <1>i DEF CallsMeanIt, Told, WaitCalls
    <3>8. StoredOnce' /\ ReportedIsDurable'
      BY <3>1, <3>3, <1>i DEF StoredOnce, ReportedIsDurable, NoSeq
    <3>9. BaselineIsDurable'
      BY <3>1, <3>2, <3>3, <1>i DEF BaselineIsDurable
    <3>10. ScreensAreFresh'
      BY <3>1, <3>3, <3>4, <1>i DEF ScreensAreFresh, Shows, NoSeq
    <3>. QED BY <3>5, <3>6, <3>7, <3>8, <3>9, <3>10 DEF BatchInv
  <2>2. CASE onDisk # "running"
    BY <1>1, <2>2, <1>f DEF CheckBefore
  <2>. QED BY <2>1, <2>2
<1>2. CASE InputAnswered
  <2>1. /\ client = "calling" /\ ~IsWait(Current) /\ Current \in DOMAIN plan /\ seqOf[Current] \in Nat
        /\ UNCHANGED <<plan, keepGoing, seqOf, waitVars, keptVars, hostVars, observed>>
    BY <1>2, <1>c, <1>t DEF InputAnswered
  <2>2. CASE rpc[Current] = "answered" /\ Finalize(Outcome("completed", seqOf[Current], {}))
    <3>1. seqOf[Current] # NoSeq
      BY <2>1, <2>2, <1>i DEF CallsMeanIt, Told, NoSeq
    <3>2. /\ Outcome("completed", seqOf[Current], {}) \in OutcomeRecord
          /\ Outcome("completed", seqOf[Current], {}).status = "completed"
          /\ Outcome("completed", seqOf[Current], {}).seq = seqOf[Current]
      BY <2>1, <1>o
    <3>. QED BY <2>1, <2>2, <3>1, <3>2, FinalizeKeeps
  <2>3. CASE rpc[Current] = "unfinished" /\ Fail(seqOf[Current])
    <3>1. /\ Outcome("failed", seqOf[Current], {}) \in OutcomeRecord
          /\ Outcome("failed", seqOf[Current], {}).status = "failed"
          /\ Outcome("failed", seqOf[Current], {}).seq = seqOf[Current]
      BY <2>1, <1>o
    <3>. QED BY <2>1, <2>3, <3>1, FinalizeKeeps DEF Fail
  <2>4. CASE Fail(NoSeq)
    BY <2>1, <2>4, <1>f
  <2>. QED BY <1>2, <2>2, <2>3, <2>4 DEF InputAnswered
<1>3. CASE WaitAnswered
  <2>1. /\ client = "calling" /\ IsWait(Current) /\ Current \in DOMAIN plan
        /\ UNCHANGED <<plan, keepGoing, seqOf, waitVars, keptVars, hostVars, observed>>
    BY <1>3, <1>c DEF WaitAnswered
  <2>2. CASE /\ rpc[Current] = "matched" /\ client' = "rechecking"
             /\ UNCHANGED <<records, lastInputSeq, exitCode, rpc>>
    <3>1. UNCHANGED <<plan, keepGoing, records, lastInputSeq, exitCode, rpc, seqOf, clock, screen, stored,
                      durable, capped, broken, host, exited, onDisk, reached, finished, outputs>>
      BY <2>1, <2>2 DEF waitVars, keptVars, hostVars, observed
    <3>2. Current' = Current /\ \A k : /\ (IsWait(k))' = IsWait(k) /\ (Kept(k))' = Kept(k)
                                       /\ (NotRun(k))' = NotRun(k) /\ (Completed(k))' = Completed(k)
      BY <3>1 DEF Current, IsWait, Kept, NotRun, Completed
    <3>3. BatchTypes'
      <4>1. OutcomeRecord' = OutcomeRecord /\ Events' = Events
        BY <3>1 DEF OutcomeRecord, Events
      <4>. QED BY <2>2, <3>1, <4>1, <1>i DEF BatchTypes
    <3>4. StepsComeInOrder'
      BY <2>1, <2>2, <3>1, <3>2, <1>i DEF StepsComeInOrder
    <3>5. CallsMeanIt' /\ StoredOnce' /\ ReportedIsDurable'
      BY <3>1, <3>2, <1>i DEF CallsMeanIt, StoredOnce, ReportedIsDurable, NoSeq
    <3>6. BaselineIsDurable'
      BY <2>2, <3>1, <1>i DEF BaselineIsDurable
    <3>7. ScreensAreFresh'
      BY <2>1, <2>2, <3>1, <3>2, <1>i DEF ScreensAreFresh, Shows, NoSeq
    <3>. QED BY <3>3, <3>4, <3>5, <3>6, <3>7 DEF BatchInv
  <2>3. CASE Fail(NoSeq)
    BY <2>1, <2>3, <1>f
  <2>. QED BY <1>3, <2>2, <2>3 DEF WaitAnswered
<1>4. CASE CheckAfter
  <2>1. /\ client = "rechecking" /\ IsWait(Current)
        /\ UNCHANGED <<plan, keepGoing, seqOf, waitVars, keptVars, hostVars, observed>>
    BY <1>4, <1>i DEF CheckAfter, StepsComeInOrder
  <2>2. CASE Finalize(Outcome("completed", NoSeq, screen))
    <3>1. /\ Outcome("completed", NoSeq, screen) \in OutcomeRecord
          /\ Outcome("completed", NoSeq, screen).status = "completed"
          /\ Outcome("completed", NoSeq, screen).seq = NoSeq
          /\ Outcome("completed", NoSeq, screen).screen = screen
      BY <1>o, <1>t DEF NoSeq
    <3>. QED BY <2>1, <2>2, <3>1, FinalizeKeeps
  <2>3. CASE Fail(NoSeq)
    BY <2>1, <2>3, <1>f
  <2>. QED BY <1>4, <2>2, <2>3 DEF CheckAfter
<1>5. CASE GiveUp
  BY <1>5, <1>f DEF GiveUp
<1>6. CASE Interrupt
  <2> DEFINE rest == [k \in 1..(Len(plan) - Len(records)) |-> Outcome(Unreached(k), NoSeq, {})]
  <2>1. /\ client # "done" /\ client' = "done" /\ exitCode' = "signal" /\ records' = records \o rest
        /\ UNCHANGED <<plan, keepGoing, lastInputSeq, rpc, seqOf, clock, screen, stored, durable, capped, broken,
                       host, exited, onDisk, reached, finished, outputs>>
    BY <1>6 DEF Interrupt, waitVars, keptVars, hostVars, observed
  <2>2. /\ Len(records) < Len(plan) /\ Len(plan) - Len(records) \in Nat
        /\ \A k \in DOMAIN records :
             records[k].status = "completed" \/ (records[k].status = "failed" /\ keepGoing)
        /\ \A k \in DOMAIN plan : k > Current => rpc[k] = "idle"
    <3>1. Len(records) < Len(plan)
      BY <2>1, <1>c
    <3>2. Len(plan) - Len(records) \in Nat
      BY <3>1, <1>n
    <3>3. /\ \A k \in DOMAIN records :
               records[k].status = "completed" \/ (records[k].status = "failed" /\ keepGoing)
          /\ \A k \in DOMAIN plan : k > Current => rpc[k] = "idle"
      BY <2>1, <1>i DEF StepsComeInOrder
    <3>. QED BY <3>1, <3>2, <3>3
  <2>3. \A k \in 1..(Len(plan) - Len(records)) :
          /\ rest[k] \in OutcomeRecord /\ rest[k].seq = NoSeq
          /\ rest[k].status = (IF k = 1 THEN "interrupted" ELSE "not-run")
    BY <1>o DEF Unreached, NoSeq
  <2>4. rest \in Seq(OutcomeRecord) /\ Len(rest) = Len(plan) - Len(records)
    <3>1. rest \in [1..(Len(plan) - Len(records)) -> OutcomeRecord]
      BY <2>3
    <3>2. rest \in Seq(OutcomeRecord)
      BY <2>2, <3>1, SeqDef
    <3>. QED BY <2>2, <3>1, <3>2, LenProperties
  <2> HIDE DEF rest
  <2>5. /\ records' \in Seq(OutcomeRecord) /\ Len(records') = Len(plan)
        /\ DOMAIN records' = 1..Len(plan)
        /\ \A k \in 1..Len(plan) : records'[k] = IF k <= Len(records) THEN records[k] ELSE rest[k - Len(records)]
    <3>1. /\ records' \in Seq(OutcomeRecord) /\ Len(records') = Len(records) + Len(rest)
          /\ \A k \in 1..(Len(records) + Len(rest)) :
               records'[k] = IF k <= Len(records) THEN records[k] ELSE rest[k - Len(records)]
      BY <2>1, <2>4, <1>n, ConcatProperties
    <3>2. Len(records) + Len(rest) = Len(plan)
      BY <2>4, <1>n
    <3>3. DOMAIN records' = 1..Len(records')
      BY <3>1, LenProperties
    <3>. QED BY <3>1, <3>2, <3>3
  <2>6. \A k \in 1..Len(plan) :
          \/ k <= Len(records) /\ k \in DOMAIN records /\ records'[k] = records[k]
          \/ /\ k = Len(records) + 1 /\ k \notin DOMAIN records
             /\ records'[k].status = "interrupted" /\ records'[k].seq = NoSeq
          \/ /\ k > Len(records) + 1 /\ k \notin DOMAIN records
             /\ records'[k].status = "not-run" /\ records'[k].seq = NoSeq
    <3> TAKE k \in 1..Len(plan)
    <3>1. CASE k <= Len(records)
      BY <3>1, <2>5, <1>n
    <3>2. CASE k > Len(records)
      <4>1. k - Len(records) \in 1..(Len(plan) - Len(records)) /\ ~(k <= Len(records)) /\ k \notin DOMAIN records
        BY <3>2, <1>n
      <4>2. records'[k] = rest[k - Len(records)]
        BY <4>1, <2>5
      <4>3. /\ records'[k].seq = NoSeq
            /\ records'[k].status = (IF k - Len(records) = 1 THEN "interrupted" ELSE "not-run")
        BY <4>1, <4>2, <2>3
      <4>4. k = Len(records) + 1 <=> k - Len(records) = 1
        BY <1>n
      <4>5. k = Len(records) + 1 \/ k > Len(records) + 1
        BY <3>2, <1>n
      <4>. QED BY <4>1, <4>3, <4>4, <4>5
    <3>. QED BY <3>1, <3>2, <1>n
  <2>7. \A k : (IsWait(k))' = IsWait(k) /\ (Kept(k))' = Kept(k)
    BY <2>1 DEF IsWait, Kept
  <2>8. BatchTypes'
    <3>1. OutcomeRecord' = OutcomeRecord /\ Events' = Events
      BY <2>1 DEF OutcomeRecord, Events
    <3>2. Len(records') <= Len(plan)
      BY <2>5, <1>n
    <3>. QED BY <2>1, <2>5, <3>1, <3>2, <1>i DEF BatchTypes
  <2>9. StepsComeInOrder'
    <3>1. ASSUME NEW k \in 1..Len(plan), records'[k].status = "not-run" PROVE rpc[k] = "idle"
      <4>1. k > Len(records) + 1 \/ (k \in DOMAIN records /\ records[k].status = "not-run")
        BY <3>1, <2>6
      <4>2. ~(k \in DOMAIN records /\ records[k].status = "not-run")
        BY <2>2
      <4>3. k \in DOMAIN plan /\ k > Current
        BY <4>1, <4>2, <1>n DEF Current
      <4>. QED BY <4>3, <2>2
    <3>2. ASSUME NEW k \in 1..Len(plan), NEW j \in (k + 1)..Len(plan),
                 records'[k].status = "interrupted" \/ (records'[k].status = "failed" /\ ~keepGoing)
          PROVE  records'[j].status = "not-run"
      <4>1. k = Len(records) + 1
        BY <3>2, <2>2, <2>6
      <4>2. j \in 1..Len(plan) /\ j > Len(records) + 1
        BY <4>1, <1>n
      <4>. QED BY <4>2, <2>6, <1>n
    <3>. QED BY <3>1, <3>2, <2>1, <2>5 DEF StepsComeInOrder, NotRun
  <2>10. CallsMeanIt' /\ StoredOnce'
    BY <2>1, <2>7, <1>i DEF CallsMeanIt, StoredOnce
  <2>11. ReportedIsDurable'
    BY <2>1, <2>5, <2>6, <2>7, <1>i DEF ReportedIsDurable, Completed, NoSeq
  <2>12. BaselineIsDurable'
    BY <2>1, <1>i DEF BaselineIsDurable
  <2>13. ScreensAreFresh'
    <3>1. ASSUME NEW i \in 1..Len(plan), NEW j \in 1..Len(plan), j < i, IsWait(i),
                 records'[i].status = "completed", records'[j].seq # NoSeq, Kept(j)
          PROVE  j \in records'[i].screen
      <4>1. i \in DOMAIN records /\ records'[i] = records[i] /\ j \in DOMAIN records /\ records'[j] = records[j]
        BY <3>1, <2>6
      <4>. QED BY <3>1, <4>1, <1>i DEF ScreensAreFresh, Shows, Completed
    <3>. QED BY <3>1, <2>1, <2>5, <2>7 DEF ScreensAreFresh, Shows, Completed, NoSeq
  <2>. QED BY <2>8, <2>9, <2>10, <2>11, <2>12, <2>13 DEF BatchInv
<1>. QED BY <1>1, <1>2, <1>3, <1>4, <1>5, <1>6 DEF ClientStep
-----------------------------------------------------------------------------
(* The theorems *)

\* A state of a batch that satisfies the invariant makes true reports.
LEMMA InvariantTellsTheTruth == BatchInv => BatchReportIsTrue
<1> SUFFICES ASSUME BatchInv PROVE BatchReportIsTrue
  OBVIOUS
<1>i. /\ BatchTypes /\ StepsComeInOrder /\ CallsMeanIt /\ StoredOnce /\ ReportedIsDurable /\ ScreensAreFresh
  BY DEF BatchInv
<1>n. /\ Len(records) \in Nat /\ DOMAIN records = 1..Len(records) /\ Len(plan) \in Nat
      /\ DOMAIN plan = 1..Len(plan) /\ Len(records) <= Len(plan) /\ Len(plan) > 0
      /\ DOMAIN stored = 1..Len(stored)
  BY <1>i, PlanShape DEF BatchTypes
<1>c. \A k \in DOMAIN records : k \in DOMAIN plan
  BY <1>n
<1>k. \A k : Kept(k) => k \in ToSet(stored)
  BY <1>n DEF Kept, ToSet
<1>1. StatusesAreTrue
  <2>1. ASSUME NEW i \in DOMAIN records, NotRun(i) PROVE i \notin reached /\ rpc[i] = "idle"
    BY <2>1, <1>c, <1>i DEF StepsComeInOrder, CallsMeanIt
  <2>2. ASSUME NEW i \in DOMAIN records, Completed(i), ~IsWait(i)
        PROVE  /\ i \in reached
               /\ i \in ToSet(stored) \/ capped
               /\ plan[i] = "run" => i \in finished
    BY <2>2, <1>k, <1>i DEF ReportedIsDurable
  <2>3. ASSUME NEW i \in DOMAIN records,
               records[i].status = "interrupted" \/ (records[i].status = "failed" /\ ~keepGoing)
        PROVE  \A j \in (i + 1)..Len(records) : NotRun(j)
    BY <2>3, <1>i DEF StepsComeInOrder
  <2>4. ASSUME exitCode = "success" PROVE StatusesOf(records) = {"completed"}
    <3>1. client = "done" /\ \A i \in DOMAIN records : records[i].status = "completed"
      BY <2>4, <1>i DEF StepsComeInOrder, Completed
    <3>2. 1 \in DOMAIN records
      <4>1. Len(records) = Len(plan)
        BY <3>1, <1>i DEF StepsComeInOrder
      <4>. QED BY <4>1, <1>n
    <3>. QED BY <3>1, <3>2 DEF StatusesOf
  <2>. QED BY <2>1, <2>2, <2>3, <2>4 DEF StatusesAreTrue
<1>2. WaitsSeeTheirInput
  <2> SUFFICES ASSUME NEW i \in DOMAIN records, NEW j \in DOMAIN records, j < i, IsWait(i), Completed(i),
                      ~IsWait(j), records[j].seq # NoSeq, j \in ToSet(stored) \/ ~capped
               PROVE  j \in records[i].screen
    BY DEF WaitsSeeTheirInput
  <2>1. Kept(j) \/ capped
    BY <1>i DEF ReportedIsDurable
  <2>2. j \in ToSet(stored) => Kept(j)
    <3> SUFFICES ASSUME j \in ToSet(stored) PROVE Kept(j)
      OBVIOUS
    <3>1. PICK k \in 1..Len(stored) : stored[k] = j
      BY <1>n DEF ToSet
    <3>. QED BY <3>1, <1>c, <1>i DEF StoredOnce, Kept
  <2>. QED BY <2>1, <2>2, <1>i DEF ScreensAreFresh, Shows
<1>. QED BY <1>1, <1>2 DEF BatchReportIsTrue

\* The invariant holds throughout every batch.
THEOREM BatchHolds == BatchSpec => []BatchInv
<1>1. BatchInit => BatchInv
  BY BatchBegins
<1>2. BatchInv /\ [BatchNext]_batchVars => BatchInv'
  <2> SUFFICES ASSUME BatchInv, [BatchNext]_batchVars PROVE BatchInv'
    OBVIOUS
  <2>1. CASE ClientStep
    BY <2>1, ClientKeeps
  <2>2. CASE SessionStep
    BY <2>2, SessionKeeps
  <2>3. CASE \E i \in DOMAIN plan : HandlerStep(i) \/ RunEnds(i)
    BY <2>3, HandlersKeep
  <2>4. CASE UNCHANGED batchVars
    <3>1. UNCHANGED <<plan, keepGoing, client, records, lastInputSeq, exitCode, rpc, seqOf, clock, screen,
                      stored, durable, capped, broken, host, exited, onDisk, reached, finished, outputs>>
      BY <2>4 DEF batchVars, clientVars, waitVars, keptVars, hostVars, observed
    <3>2. Current' = Current /\ \A k : /\ (IsWait(k))' = IsWait(k) /\ (Kept(k))' = Kept(k)
                                       /\ (NotRun(k))' = NotRun(k) /\ (Completed(k))' = Completed(k)
      BY <3>1 DEF Current, IsWait, Kept, NotRun, Completed
    <3>3. OutcomeRecord' = OutcomeRecord /\ Events' = Events
      BY <3>1 DEF OutcomeRecord, Events
    <3>4. BatchTypes' /\ StepsComeInOrder'
      BY <3>1, <3>2, <3>3 DEF BatchInv, BatchTypes, StepsComeInOrder
    <3>5. CallsMeanIt' /\ StoredOnce' /\ ReportedIsDurable' /\ BaselineIsDurable' /\ ScreensAreFresh'
      BY <3>1, <3>2 DEF BatchInv, CallsMeanIt, StoredOnce, ReportedIsDurable, BaselineIsDurable,
                        ScreensAreFresh, Shows, NoSeq
    <3>. QED BY <3>4, <3>5 DEF BatchInv
  <2>. QED BY <2>1, <2>2, <2>3, <2>4 DEF BatchNext
<1>. QED BY <1>1, <1>2, PTL DEF BatchSpec

\* The types hold throughout every batch.
THEOREM BatchKeepsTypes == BatchSpec => []BatchTypes
<1>1. BatchInv => BatchTypes
  BY DEF BatchInv
<1>. QED BY <1>1, BatchHolds, PTL

\* What a batch reports of its steps is true in every state of every batch,
\* whatever its plan is and however its calls, its host and its log fail. It says
\* nothing of the screens behind input that a stopped log dropped (executor.ts:121).
THEOREM ReportsAreTrue == BatchSpec => []BatchReportIsTrue
BY InvariantTellsTheTruth, BatchHolds, PTL
-----------------------------------------------------------------------------
(* The waited runs of a host *)

\* What the terminal delivers. The provers know of no string that it is in STRING.
Characters == STRING \union {"esc", "cr", "lf"} \union Runs

\* What an ingestion has still to do.
Piece == [kind : {"output"}, data : Seq(Characters)]
           \union [kind : {"run_complete", "record"}, run : Runs]
           \union [kind : {"flush"}]

\* A sequence of records of any kind.
IsSeq(s) == s \in Seq({s[i] : i \in DOMAIN s})

\* Every variable that the argument is about keeps its type.
Types ==
  /\ IsSeq(log) /\ landed \in 0 .. Len(log) /\ poisoned \in BOOLEAN /\ stopped \in BOOLEAN
  /\ poisoned => landed = Len(log)
  /\ scanner \in [active : SUBSET Runs, tail : Seq(Characters)]
  /\ active \in [Runs -> Nat] /\ waiters \subseteq Runs
  /\ outcome \in [Runs -> {"none", "completed", "failed", "exited"}]
  /\ run \in [Runs -> {"idle", "writing", "throwing", "waiting", "timeout"}
                        \union {"completed", "failed", "exited"}]
  /\ pieces \in Seq(Piece) /\ awaited \in Nat
  /\ session \in {"running", "destroying", "exited", "dead"}
  /\ ptyExit \in {"no", "queued", "flushing", "handled", "reset"}
  /\ unread \in Seq(Characters) /\ text \in Seq(Characters)
  /\ typed \subseteq Runs /\ prints \in 0 .. MaxPrints
  /\ ended \in Seq([run : Runs, before : Nat])

\* The piece ends `r`, and one of those still to come does.
Ends(piece, r) == piece.kind \in {"run_complete", "record"} /\ piece.run = r
Ending(r) == \E k \in 1 .. Len(pieces) : Ends(pieces[k], r)
Printed(r) == \E k \in DOMAIN ended : ended[k].run = r
NamesInput(n, r) == n \in 1 .. Len(log) /\ log[n] = [kind |-> "input_run", run |-> r]
Recording(r) == pieces # <<>> /\ Head(pieces) = [kind |-> "record", run |-> r]

\* No run ends twice in one ingestion.
EndsOnce ==
  \A r \in Runs : \A k, l \in 1 .. Len(pieces) : Ends(pieces[k], r) /\ Ends(pieces[l], r) => k = l

\* The seq that is awaited is in the log, or was rejected, and is that of the first piece,
\* unless the log dropped its record.
AwaitsHead ==
  /\ awaited # 0 => pieces # <<>> /\ (poisoned \/ awaited <= Len(log))
  /\ \A r \in Runs : awaited \in 1 .. Len(log) /\ Recording(r) =>
       stopped \/ awaited \in CompletionsOf(r)

\* The exit comes after the last chunk, and its handling after the last piece.
Phases ==
  /\ ptyExit \in {"flushing", "handled", "reset"} => unread = <<>>
  /\ ptyExit \in {"handled", "reset"} => pieces = <<>> /\ session # "running"

\* Where a sentinel stands in `s`, it was printed.
PrintedIn(s) ==
  \A j \in 1 .. Len(s) - 1 : s[j] = "esc" /\ s[j + 1] \in Runs => Printed(s[j + 1])

\* A run has one completion, behind its input_run.
LogInv(r) ==
  /\ \A i, j \in CompletionsOf(r) : i = j
  /\ \A i \in CompletionsOf(r) :
       Printed(r) /\ log[i].input \in 1 .. i - 1 /\ NamesInput(log[i].input, r)

\* A run that is active or about to end has begun and is in the log, unless the log dropped
\* it; it is not both, an active one is not completed, and one about to end has printed its
\* sentinel.
ScanInv(r) ==
  /\ r \in scanner.active \/ Ending(r) => run[r] # "idle" /\ (poisoned \/ stopped \/ NamesInput(active[r], r))
  /\ r \in scanner.active => ~Ending(r) /\ CompletionsOf(r) = {}
  /\ Ending(r) => Printed(r)

\* A completed run has no waiter any more, unless its record is the one awaited.
WaitInv(r) ==
  /\ \A i \in CompletionsOf(r) : /\ run[r] # "idle"
                                 /\ Ending(r) \/ r \in waiters => awaited = i /\ Recording(r)
  /\ r \in waiters => outcome[r] = "none"
  /\ run[r] = "idle" => outcome[r] = "none" /\ r \notin typed /\ r \notin waiters
  /\ run[r] = "throwing" => r \notin typed
  /\ run[r] = "failed" => poisoned \/ r \notin typed
  /\ run[r] \in {"completed", "exited"} => outcome[r] = run[r]

\* What a waiter was told is what is on disk, unless the log dropped it.
OutcomeInv(r) ==
  /\ outcome[r] = "completed" =>
       Printed(r) /\ (stopped \/ \E i \in CompletionsOf(r) : i <= landed)
  /\ outcome[r] = "exited" => ptyExit = "reset" /\ CompletionsOf(r) = {}
  /\ outcome[r] = "failed" => poisoned

IInv ==
  /\ Types /\ EndsOnce /\ AwaitsHead /\ Phases
  /\ PrintedIn(scanner.tail \o unread)
  /\ \A r \in Runs : LogInv(r) /\ ScanInv(r) /\ WaitInv(r) /\ OutcomeInv(r)
-----------------------------------------------------------------------------
(* Numbers *)

\* The order of the numbers.
Below == {ss \in Nat \X Nat : ss[1] < ss[2]}

\* Every set of numbers that is not empty has a smallest.
LEMMA Smallest ==
  ASSUME NEW S, S \subseteq Nat, S # {}
  PROVE  Min(S) \in S /\ \A q \in S : Min(S) <= q
<1>1. IsWellFoundedOn(Below, Nat)
  BY NatLessThanWellFounded, Zenon DEF OpToRel, Below
<1>2. PICK p \in S : \A q \in S : <<q, p>> \notin Below
  BY <1>1, WFMin, Zenon
<1>3. ASSUME NEW q \in S PROVE p <= q
  <2>1. q \in Nat /\ p \in Nat /\ <<q, p>> \notin Below
    BY <1>2
  <2>2. q < p => <<q, p>> \in Below
    BY <2>1 DEF Below
  <2> QED BY <2>1, <2>2
<1> QED BY <1>3 DEF Min

\* A set that holds 0 and the successor of each number in it holds them all.
LEMMA Induction ==
  ASSUME NEW S, 0 \in S, \A n \in Nat : n \in S => n + 1 \in S
  PROVE  Nat \subseteq S
<1> DEFINE rest == Nat \ S
<1>1. SUFFICES ASSUME rest # {} PROVE FALSE
  OBVIOUS
<1>2. Min(rest) \in rest /\ \A q \in rest : Min(rest) <= q
  BY <1>1, Smallest
<1> HIDE DEF rest
<1>3. PICK n : n = Min(rest)
  OBVIOUS
<1>4. n \in Nat /\ n \notin S /\ n # 0
  BY <1>2, <1>3 DEF rest
<1>5. n - 1 \in Nat /\ n - 1 \notin rest
  BY <1>2, <1>3, <1>4
<1> QED BY <1>4, <1>5 DEF rest

\* Where a sentinel starts there are its two characters.
LEMMA SentinelAt ==
  ASSUME NEW t \in Seq(Characters), NEW i \in 1 .. Len(t), NEW r,
         StartsWith(t, i, Sentinel(r))
  PROVE  i + 1 <= Len(t) /\ t[i] = "esc" /\ t[i + 1] = r
<1> DEFINE rest == SubSeq(t, i, Len(t))
           word == <<"esc", r>>
<1>1. Len(t) \in Nat /\ \A j \in i .. Len(t) : t[j] \in Characters
  BY LenProperties, ElementOfSeq
<1>2. /\ Len(rest) = Len(t) - i + 1
      /\ \A j \in 1 .. Len(t) - i + 1 : rest[j] = t[i + j - 1]
  BY <1>1, SubSeqProperties
<1>3. Len(word) = 2 /\ word[1] = "esc" /\ word[2] = r
  OBVIOUS
<1>4. Len(word) <= Len(rest) /\ SubSeq(word, 1, Len(word)) = SubSeq(rest, 1, Len(word))
  BY DEF StartsWith, Rest, Sentinel, IsPrefix
<1> HIDE DEF rest, word
<1>5. SubSeq(word, 1, 2)[1] = word[1] /\ SubSeq(word, 1, 2)[2] = word[2]
  <2>1. \A j \in 1 .. 2 : word[j] \in {word[1], word[2]}
    OBVIOUS
  <2>2. \A j \in 1 .. 2 - 1 + 1 : SubSeq(word, 1, 2)[j] = word[1 + j - 1]
    BY <2>1, SubSeqProperties
  <2> QED BY <2>2
<1>6. SubSeq(rest, 1, 2)[1] = rest[1] /\ SubSeq(rest, 1, 2)[2] = rest[2]
  <2>1. \A j \in 1 .. 2 : rest[j] \in {rest[1], rest[2]}
    OBVIOUS
  <2>2. \A j \in 1 .. 2 - 1 + 1 : SubSeq(rest, 1, 2)[j] = rest[1 + j - 1]
    BY <2>1, SubSeqProperties
  <2> QED BY <2>2
<1>7. rest[1] = "esc" /\ rest[2] = r /\ Len(rest) >= 2
  BY <1>3, <1>4, <1>5, <1>6
<1> QED BY <1>1, <1>2, <1>7

\* A scan that stops, stops inside the text, and a sentinel there is of a run
\* that is active.
LEMMA StopsInside ==
  ASSUME NEW t \in Seq(Characters), NEW act \in SUBSET Runs, NEW i \in 1 .. Len(t) + 1,
         NEW final, Stops(t, act, i, final) # {}
  PROVE  LET j == Min(Stops(t, act, i, final))
             r == CHOOSE r \in Found(t, act, j) : TRUE
         IN  /\ j \in i .. Len(t) /\ Len(Sentinel(r)) = 2
             /\ Found(t, act, j) # {} =>
                  r \in act /\ j + 1 <= Len(t) /\ t[j] = "esc" /\ t[j + 1] = r
<1> DEFINE stops == Stops(t, act, i, final)
           j == Min(stops)
           r == CHOOSE r \in Found(t, act, j) : TRUE
<1>1. Len(t) \in Nat /\ i \in Nat
  BY LenProperties
<1>2. stops \subseteq i .. Len(t)
  BY DEF Stops
<1>3. j \in i .. Len(t)
  <2>1. stops \subseteq Nat
    BY <1>1, <1>2
  <2> HIDE DEF stops
  <2> QED BY <1>2, <2>1, Smallest DEF stops
<1>4. Len(Sentinel(r)) = 2
  BY DEF Sentinel
<1> HIDE DEF j
<1>5. ASSUME Found(t, act, j) # {}
      PROVE  r \in act /\ StartsWith(t, j, Sentinel(r))
  BY <1>5 DEF Found
<1> HIDE DEF r
<1>6. ASSUME Found(t, act, j) # {}
      PROVE  r \in act /\ j + 1 <= Len(t) /\ t[j] = "esc" /\ t[j + 1] = r
  BY <1>1, <1>3, <1>5, <1>6, SentinelAt
<1> QED BY <1>3, <1>4, <1>6 DEF j, r
-----------------------------------------------------------------------------
(* The loop of a scan *)

\* The loop of a scan, as a function of the place and the active runs.
ScanLoop(t, final) ==
  CHOOSE scan : scan = [p \in (1 .. Len(t) + 1) \X SUBSET Runs |->
                          ScanFrom(scan, t, p[1], p[2], final)]

\* The places from `n` on.
After(t, n) == (n .. Len(t) + 1) \X SUBSET Runs

\* What a scan finds from a place depends on later places only.
LEMMA ScanLooksAhead ==
  ASSUME NEW t \in Seq(Characters), NEW act \in SUBSET Runs, NEW i \in 1 .. Len(t) + 1,
         NEW final, NEW f, NEW g, \A p \in After(t, i + 1) : f[p] = g[p]
  PROVE  ScanFrom(f, t, i, act, final) = ScanFrom(g, t, i, act, final)
<1> DEFINE stops == Stops(t, act, i, final)
           j == Min(stops)
           r == CHOOSE r \in Found(t, act, j) : TRUE
<1>1. CASE stops = {} \/ Found(t, act, j) = {}
  BY <1>1 DEF ScanFrom
<1>2. CASE stops # {} /\ Found(t, act, j) # {}
  <2>1. /\ j \in i .. Len(t) /\ Len(Sentinel(r)) = 2
        /\ r \in act /\ j + 1 <= Len(t)
    BY <1>2, StopsInside
  <2> HIDE DEF j, r
  <2>2. Len(t) \in Nat /\ i \in Nat
    BY LenProperties
  <2>3. j + Len(Sentinel(r)) \in i + 1 .. Len(t) + 1
    BY <2>1, <2>2
  <2>4. act \ {r} \in SUBSET Runs
    OBVIOUS
  <2>5. f[<<j + Len(Sentinel(r)), act \ {r}>>] = g[<<j + Len(Sentinel(r)), act \ {r}>>]
    BY <2>3, <2>4 DEF After
  <2> QED BY <1>2, <2>5 DEF ScanFrom, j, r
<1> QED BY <1>1, <1>2

\* So there is such a loop: it is built from the end of the text.
LEMMA LoopExists ==
  ASSUME NEW t \in Seq(Characters), NEW final
  PROVE  \E scan : scan = [p \in (1 .. Len(t) + 1) \X SUBSET Runs |->
                             ScanFrom(scan, t, p[1], p[2], final)]
<1> DEFINE L == Len(t) + 1
           Loops(f, n) == f = [p \in After(t, n) |-> ScanFrom(f, t, p[1], p[2], final)]
           built == {k \in Nat : k <= L => \E f : Loops(f, L + 1 - k)}
<1>1. L \in Nat /\ Len(t) \in Nat
  BY LenProperties
<1>2. 0 \in built
  <2> DEFINE f == [p \in {} |-> 0]
  <2>1. After(t, L + 1) = {}
    BY <1>1 DEF After
  <2>2. f = [p \in After(t, L + 1) |-> ScanFrom(f, t, p[1], p[2], final)]
    BY <2>1
  <2>3. L + 1 - 0 = L + 1
    BY <1>1
  <2> QED BY <2>2, <2>3
<1>3. ASSUME NEW k \in Nat, k \in built PROVE k + 1 \in built
  <2> SUFFICES ASSUME k + 1 <= L PROVE \E g : Loops(g, L + 1 - (k + 1))
    OBVIOUS
  <2> DEFINE n == L + 1 - (k + 1)
  <2>1. n \in 1 .. L /\ n + 1 = L + 1 - k /\ k <= L
    BY <1>1
  <2>2. PICK f : Loops(f, n + 1)
    BY <1>3, <2>1
  <2> DEFINE g == [p \in After(t, n) |-> IF p \in After(t, n + 1) THEN f[p]
                                         ELSE ScanFrom(f, t, p[1], p[2], final)]
  <2> HIDE DEF n
  <2>3. \A p \in After(t, n + 1) : p \in After(t, n) /\ g[p] = f[p]
    BY <1>1, <2>1 DEF After
  <2>4. ASSUME NEW p \in After(t, n)
        PROVE  g[p] = ScanFrom(g, t, p[1], p[2], final)
    <3>1. p[1] \in n .. Len(t) + 1 /\ p[2] \in SUBSET Runs /\ p[1] \in 1 .. Len(t) + 1
      BY <1>1, <2>1 DEF After
    <3>2. \A q \in After(t, p[1] + 1) : q \in After(t, n + 1)
      BY <1>1, <2>1, <3>1 DEF After
    <3>3. \A q \in After(t, p[1] + 1) : g[q] = f[q]
      BY <2>3, <3>2
    <3> HIDE DEF g
    <3>4. ScanFrom(g, t, p[1], p[2], final) = ScanFrom(f, t, p[1], p[2], final)
      BY <3>1, <3>3, ScanLooksAhead
    <3>5. g[p] = ScanFrom(f, t, p[1], p[2], final)
      BY <2>2 DEF g
    <3> QED BY <3>4, <3>5
  <2>5. DOMAIN g = After(t, n) /\ g = [p \in DOMAIN g |-> g[p]]
    OBVIOUS
  <2> HIDE DEF g
  <2>6. g = [p \in After(t, n) |-> ScanFrom(g, t, p[1], p[2], final)]
    BY <2>4, <2>5
  <2> QED BY <2>6 DEF n
<1>4. Nat \subseteq built
  <2> HIDE DEF built
  <2> QED BY <1>2, <1>3, Induction
<1>5. L \in built /\ L + 1 - L = 1
  BY <1>1, <1>4
<1>6. PICK f : Loops(f, 1)
  BY <1>5, <1>1
<1> QED BY <1>6 DEF After

\* The loop goes on as ScanFrom says.
LEMMA LoopGoesOn ==
  ASSUME NEW t \in Seq(Characters), NEW final, NEW i \in 1 .. Len(t) + 1, NEW act \in SUBSET Runs
  PROVE  ScanLoop(t, final)[<<i, act>>] = ScanFrom(ScanLoop(t, final), t, i, act, final)
<1> DEFINE scan == ScanLoop(t, final)
<1>1. scan = [p \in (1 .. Len(t) + 1) \X SUBSET Runs |-> ScanFrom(scan, t, p[1], p[2], final)]
  BY LoopExists DEF ScanLoop
<1>2. <<i, act>> \in (1 .. Len(t) + 1) \X SUBSET Runs
  OBVIOUS
<1> HIDE DEF scan
<1>3. scan[<<i, act>>] = ScanFrom(scan, t, <<i, act>>[1], <<i, act>>[2], final)
  BY <1>1, <1>2
<1> QED BY <1>3 DEF scan
\* A sentinel of `r` is in `t`.
Holds(t, r) == \E j \in 1 .. Len(t) - 1 : t[j] = "esc" /\ t[j + 1] = r

\* What a scan of `t` may find: it ends runs that were active and whose
\* sentinel is in the text, each once, and keeps an end of the text.
GoodScan(res, t, act) ==
  /\ res \in [pieces : Seq(Piece), active : SUBSET act, tail : Seq(Characters)]
  /\ \A k \in 1 .. Len(res.pieces) : res.pieces[k].kind \in {"output", "run_complete"}
  /\ \A r \in Runs : \A k \in 1 .. Len(res.pieces) :
       Ends(res.pieces[k], r) => r \in act \ res.active /\ Holds(t, r)
  /\ \A r \in Runs : \A k, l \in 1 .. Len(res.pieces) :
       Ends(res.pieces[k], r) /\ Ends(res.pieces[l], r) => k = l
  /\ \E k \in 1 .. Len(t) + 1 : res.tail = SubSeq(t, k, Len(t))

\* Any part of the text.
LEMMA PartOf ==
  ASSUME NEW t \in Seq(Characters), NEW i \in 1 .. Len(t) + 1, NEW j \in 0 .. Len(t)
  PROVE  SubSeq(t, i, j) \in Seq(Characters)
<1>1. i \in Int /\ j \in Int /\ \A k \in i .. j : t[k] \in Characters
  BY LenProperties, ElementOfSeq
<1> QED BY <1>1, SubSeqProperties

\* Output is one piece, or none.
LEMMA OutputIsPiece ==
  ASSUME NEW data \in Seq(Characters)
  PROVE  /\ OutputPiece(data) \in Seq(Piece) /\ Len(OutputPiece(data)) \in 0 .. 1
         /\ \A k \in 1 .. Len(OutputPiece(data)) : OutputPiece(data)[k].kind = "output"
<1> DEFINE piece == [kind |-> "output", data |-> data]
<1>1. piece \in Piece /\ piece.kind = "output"
  BY DEF Piece
<1> HIDE DEF piece
<1>2. CASE data = <<>>
  BY <1>2, EmptySeq DEF OutputPiece
<1>3. CASE data # <<>>
  <2>1. OutputPiece(data) = <<piece>>
    BY <1>3 DEF OutputPiece, piece
  <2> QED BY <1>1, <2>1
<1> QED BY <1>2, <1>3

\* A scan without a further sentinel.
LEMMA LastScan ==
  ASSUME NEW t \in Seq(Characters), NEW act \in SUBSET Runs, NEW data \in Seq(Characters),
         NEW tail \in Seq(Characters), \E k \in 1 .. Len(t) + 1 : tail = SubSeq(t, k, Len(t))
  PROVE  GoodScan([pieces |-> OutputPiece(data), active |-> act, tail |-> tail], t, act)
<1> DEFINE ps == OutputPiece(data)
<1>1. /\ ps \in Seq(Piece) /\ Len(ps) \in 0 .. 1
      /\ \A k \in 1 .. Len(ps) : ps[k].kind = "output"
  BY OutputIsPiece
<1> HIDE DEF ps
<1>2. [pieces |-> ps, active |-> act, tail |-> tail]
        \in [pieces : Seq(Piece), active : SUBSET act, tail : Seq(Characters)]
  BY <1>1
<1>3. \A k \in 1 .. Len(ps) : \A r \in Runs : ~Ends(ps[k], r)
  BY <1>1 DEF Ends
<1> QED BY <1>1, <1>2, <1>3 DEF GoodScan, ps

\* A sentinel before what the rest of the scan finds.
LEMMA NextScan ==
  ASSUME NEW t \in Seq(Characters), NEW act \in SUBSET Runs, NEW data \in Seq(Characters),
         NEW r \in act, Holds(t, r), NEW res, GoodScan(res, t, act \ {r})
  PROVE  GoodScan([res EXCEPT !.pieces = OutputPiece(data) \o <<CompletePiece(r)>> \o @], t, act)
<1> DEFINE before == OutputPiece(data)
           first == before \o <<CompletePiece(r)>>
           whole == first \o res.pieces
           n == Len(first)
           new == [res EXCEPT !.pieces = whole]
<1>1. res \in [pieces : Seq(Piece), active : SUBSET (act \ {r}), tail : Seq(Characters)]
  BY DEF GoodScan
<1>2. /\ before \in Seq(Piece) /\ Len(before) \in 0 .. 1
      /\ \A k \in 1 .. Len(before) : before[k].kind = "output"
  BY OutputIsPiece
<1>3. CompletePiece(r) \in Piece /\ CompletePiece(r) = [kind |-> "run_complete", run |-> r]
  BY DEF CompletePiece, Piece
<1>4. <<CompletePiece(r)>> \in Seq(Piece) /\ Len(<<CompletePiece(r)>>) = 1
      /\ <<CompletePiece(r)>>[1] = CompletePiece(r)
  BY <1>3
<1> HIDE DEF before
<1>5. /\ first \in Seq(Piece) /\ n = Len(before) + 1
      /\ \A k \in 1 .. n : IF k = n THEN first[k] = CompletePiece(r) ELSE first[k].kind = "output"
  BY <1>2, <1>4, ConcatProperties
<1> HIDE DEF first, n
<1>6. n \in 1 .. 2 /\ Len(res.pieces) \in Nat
  <2>1. res.pieces \in Seq(Piece)
    BY <1>1
  <2> QED BY <1>2, <1>5, <2>1, LenProperties
<1>7. /\ whole \in Seq(Piece) /\ Len(whole) = n + Len(res.pieces)
      /\ \A k \in 1 .. Len(whole) : whole[k] = IF k <= n THEN first[k] ELSE res.pieces[k - n]
  <2>1. res.pieces \in Seq(Piece)
    BY <1>1
  <2>2. /\ whole \in Seq(Piece) /\ Len(whole) = Len(first) + Len(res.pieces)
        /\ \A k \in 1 .. Len(first) + Len(res.pieces) :
             whole[k] = IF k <= Len(first) THEN first[k] ELSE res.pieces[k - Len(first)]
    BY <1>5, <2>1, ConcatProperties
  <2> QED BY <2>2 DEF n
<1> HIDE DEF whole
<1>8. /\ new = [pieces |-> whole, active |-> res.active, tail |-> res.tail]
      /\ new \in [pieces : Seq(Piece), active : SUBSET act, tail : Seq(Characters)]
  BY <1>1, <1>7, SMTT(40)
<1>9. ASSUME NEW k \in 1 .. Len(whole), NEW q \in Runs, Ends(whole[k], q)
      PROVE  \/ k = n /\ q = r
             \/ k > n /\ k - n \in 1 .. Len(res.pieces) /\ Ends(res.pieces[k - n], q) /\ q # r
  <2>1. CASE k <= n
    <3>1. whole[k] = first[k] /\ k \in 1 .. n
      BY <1>6, <1>7, <2>1
    <3> QED BY <1>3, <1>5, <1>9, <3>1 DEF Ends
  <2>2. CASE k > n
    <3>1. whole[k] = res.pieces[k - n] /\ k - n \in 1 .. Len(res.pieces)
      BY <1>6, <1>7, <2>2
    <3> QED BY <1>9, <2>2, <3>1 DEF GoodScan
  <2> QED BY <1>6, <2>1, <2>2
<1>10. \A k \in 1 .. Len(whole) : whole[k].kind \in {"output", "run_complete"}
  <2> SUFFICES ASSUME NEW k \in 1 .. Len(whole) PROVE whole[k].kind \in {"output", "run_complete"}
    OBVIOUS
  <2>1. CASE k <= n
    <3>1. whole[k] = first[k] /\ k \in 1 .. n
      BY <1>6, <1>7, <2>1
    <3> QED BY <1>3, <1>5, <3>1
  <2>2. CASE k > n
    <3>1. whole[k] = res.pieces[k - n] /\ k - n \in 1 .. Len(res.pieces)
      BY <1>6, <1>7, <2>2
    <3> QED BY <3>1 DEF GoodScan
  <2> QED BY <1>6, <2>1, <2>2
<1>11. ASSUME NEW q \in Runs, NEW k \in 1 .. Len(whole), Ends(whole[k], q)
       PROVE  q \in act \ res.active /\ Holds(t, q)
  BY <1>1, <1>9, <1>11 DEF GoodScan
<1>12. ASSUME NEW q \in Runs, NEW k \in 1 .. Len(whole), NEW l \in 1 .. Len(whole),
              Ends(whole[k], q), Ends(whole[l], q)
       PROVE  k = l
  <2>1. CASE q = r
    BY <1>9, <1>12, <2>1
  <2>2. CASE q # r
    <3>1. /\ k > n /\ k - n \in 1 .. Len(res.pieces) /\ Ends(res.pieces[k - n], q)
          /\ l > n /\ l - n \in 1 .. Len(res.pieces) /\ Ends(res.pieces[l - n], q)
      BY <1>9, <1>12, <2>2
    <3>2. k - n = l - n
      BY <3>1 DEF GoodScan
    <3> QED BY <1>6, <3>1, <3>2
  <2> QED BY <2>1, <2>2
<1>13. \E k \in 1 .. Len(t) + 1 : res.tail = SubSeq(t, k, Len(t))
  BY DEF GoodScan
<1> HIDE DEF new
<1>14. GoodScan(new, t, act)
  BY <1>8, <1>10, <1>11, <1>12, <1>13 DEF GoodScan
<1> QED BY <1>14 DEF new, whole, first, before

\* All that a scan finds is good, from the last place to the first.
LEMMA LoopIsGood ==
  ASSUME NEW t \in Seq(Characters), NEW final, NEW act \in SUBSET Runs
  PROVE  GoodScan(ScanLoop(t, final)[<<1, act>>], t, act)
<1> DEFINE L == Len(t) + 1
           scan == ScanLoop(t, final)
           good == {k \in Nat : \A i \in 1 .. L : \A a \in SUBSET Runs :
                                  i + k >= L => GoodScan(scan[<<i, a>>], t, a)}
<1>1. Len(t) \in Nat /\ L \in Nat
  BY LenProperties
<1> HIDE DEF scan
<1>2. ASSUME NEW k \in Nat, NEW i \in 1 .. L, NEW a \in SUBSET Runs,
             i + k >= L,
             \A b \in SUBSET Runs : \A j \in 1 .. L : j > i => GoodScan(scan[<<j, b>>], t, b)
      PROVE  GoodScan(scan[<<i, a>>], t, a)
  <2> DEFINE stops == Stops(t, a, i, final)
             j == Min(stops)
             r == CHOOSE r \in Found(t, a, j) : TRUE
  <2>1. scan[<<i, a>>] = ScanFrom(scan, t, i, a, final)
    BY LoopGoesOn DEF scan
  <2>2. CASE stops = {}
    <3>1. scan[<<i, a>>] = [pieces |-> OutputPiece(Rest(t, i)), active |-> a, tail |-> <<>>]
      BY <2>1, <2>2 DEF ScanFrom
    <3>2. SubSeq(t, Len(t) + 1, Len(t)) = <<>> /\ Len(t) + 1 \in 1 .. Len(t) + 1
      BY <1>1, SubSeqEmpty
    <3>3. Rest(t, i) \in Seq(Characters) /\ <<>> \in Seq(Characters)
      BY <1>1, PartOf, EmptySeq DEF Rest
    <3> QED BY <3>1, <3>2, <3>3, LastScan
  <2>3. ASSUME stops # {}
        PROVE  /\ j \in i .. Len(t) /\ j \in 1 .. Len(t) + 1 /\ j - 1 \in 0 .. Len(t)
               /\ Len(Sentinel(r)) = 2
               /\ Found(t, a, j) # {} =>
                    r \in a /\ j + 1 <= Len(t) /\ t[j] = "esc" /\ t[j + 1] = r
    <3>1. /\ j \in i .. Len(t) /\ Len(Sentinel(r)) = 2
          /\ Found(t, a, j) # {} =>
               r \in a /\ j + 1 <= Len(t) /\ t[j] = "esc" /\ t[j + 1] = r
      BY <2>3, StopsInside
    <3>2. j \in 1 .. Len(t) + 1 /\ j - 1 \in 0 .. Len(t)
      BY <1>1, <3>1
    <3> QED BY <3>1, <3>2
  <2>4. CASE stops # {} /\ Found(t, a, j) = {}
    <3>1. scan[<<i, a>>] = [pieces |-> OutputPiece(SubSeq(t, i, j - 1)), active |-> a, tail |-> Rest(t, j)]
      BY <2>1, <2>4 DEF ScanFrom
    <3> HIDE DEF j
    <3>2. SubSeq(t, i, j - 1) \in Seq(Characters) /\ Rest(t, j) \in Seq(Characters)
      BY <1>1, <2>3, <2>4, PartOf DEF Rest
    <3> QED BY <2>3, <2>4, <3>1, <3>2, LastScan DEF Rest
  <2>5. CASE stops # {} /\ Found(t, a, j) # {}
    <3> DEFINE later == scan[<<j + Len(Sentinel(r)), a \ {r}>>]
    <3>1. scan[<<i, a>>] =
            [later EXCEPT !.pieces = OutputPiece(SubSeq(t, i, j - 1)) \o <<CompletePiece(r)>> \o @]
      BY <2>1, <2>5 DEF ScanFrom
    <3> HIDE DEF j, r
    <3>2. j + Len(Sentinel(r)) \in 1 .. L /\ j + Len(Sentinel(r)) > i
      <4>1. j \in i .. Len(t) /\ j + 1 <= Len(t) /\ Len(Sentinel(r)) = 2
        BY <2>3, <2>5
      <4>2. i \in Nat /\ i >= 1
        BY <1>1
      <4> QED BY <1>1, <4>1, <4>2
    <3>3. GoodScan(later, t, a \ {r})
      BY <1>2, <3>2
    <3>4. SubSeq(t, i, j - 1) \in Seq(Characters)
      BY <1>1, <2>3, <2>5, PartOf
    <3>5. Holds(t, r) /\ r \in a
      BY <1>1, <2>3, <2>5 DEF Holds
    <3> HIDE DEF later
    <3>6. GoodScan([later EXCEPT !.pieces =
                      OutputPiece(SubSeq(t, i, j - 1)) \o <<CompletePiece(r)>> \o @], t, a)
      BY <3>3, <3>4, <3>5, NextScan
    <3> QED BY <3>1, <3>6
  <2> QED BY <2>2, <2>4, <2>5
<1>3. 0 \in good
  <2>1. \A i \in 1 .. L : i + 0 >= L => i = L
    BY <1>1
  <2> SUFFICES ASSUME NEW i \in 1 .. L, NEW a \in SUBSET Runs, i = L
               PROVE  GoodScan(scan[<<i, a>>], t, a)
    BY <2>1
  <2>2. \A j \in 1 .. L : ~(j > i)
    BY <1>1
  <2> QED BY <1>1, <1>2, <2>2
<1>4. ASSUME NEW k \in Nat, k \in good PROVE k + 1 \in good
  <2> SUFFICES ASSUME NEW i \in 1 .. L, NEW a \in SUBSET Runs, i + (k + 1) >= L
               PROVE  GoodScan(scan[<<i, a>>], t, a)
    OBVIOUS
  <2>1. \A j \in 1 .. L : j > i => j + k >= L
    BY <1>1
  <2>2. \A b \in SUBSET Runs : \A j \in 1 .. L : j > i => GoodScan(scan[<<j, b>>], t, b)
    BY <1>4, <2>1
  <2>3. k + 1 \in Nat
    OBVIOUS
  <2> HIDE DEF good
  <2> QED BY <1>2, <2>2, <2>3
<1>5. L \in good
  <2> HIDE DEF good
  <2> QED BY <1>1, <1>3, <1>4, Induction
<1> QED BY <1>1, <1>5 DEF scan

\* What #scanBuffer returns, for any text, any active runs and both modes: it ends
\* only runs that were active, each once and each with its sentinel in the text, and
\* keeps an end of the text for the next chunk.
THEOREM ScanIsGood ==
  ASSUME NEW t \in Seq(Characters), NEW act \in SUBSET Runs, NEW final
  PROVE  GoodScan(Scan(t, act, final), t, act)
BY LoopIsGood DEF Scan, ScanLoop
-----------------------------------------------------------------------------
(* The log *)

\* A sequence of whatever records, as long as its length says.
LEMMA SeqShape ==
  ASSUME NEW s, IsSeq(s)
  PROVE  Len(s) \in Nat /\ DOMAIN s = 1 .. Len(s)
BY LenProperties DEF IsSeq

\* Any sequence is one of its own elements.
LEMMA SeqOfAny ==
  ASSUME NEW S, NEW s \in Seq(S)
  PROVE  IsSeq(s)
<1> DEFINE T == {s[i] : i \in DOMAIN s}
<1>1. Len(s) \in Nat /\ s \in [1 .. Len(s) -> S] /\ DOMAIN s = 1 .. Len(s)
  BY LenProperties
<1>2. s \in [1 .. Len(s) -> T]
  BY <1>1
<1> HIDE DEF T
<1>3. s \in Seq(T)
  BY <1>1, <1>2, SeqDef
<1> QED BY <1>3 DEF T, IsSeq

\* One more record.
LEMMA SeqAppends ==
  ASSUME NEW s, IsSeq(s), NEW e
  PROVE  /\ IsSeq(Append(s, e)) /\ Len(Append(s, e)) = Len(s) + 1
         /\ Append(s, e)[Len(s) + 1] = e
         /\ \A i \in 1 .. Len(s) : Append(s, e)[i] = s[i]
<1> DEFINE S == {s[i] : i \in DOMAIN s} \union {e}
           new == Append(s, e)
<1>1. s \in Seq(S) /\ e \in S
  BY SeqMonotonic DEF IsSeq
<1> HIDE DEF S
<1>2. /\ new \in Seq(S) /\ Len(new) = Len(s) + 1
      /\ \A i \in 1 .. Len(s) : new[i] = s[i]
      /\ new[Len(s) + 1] = e
  BY <1>1, AppendProperties
<1> HIDE DEF new
<1>3. IsSeq(new)
  BY <1>2, SeqOfAny
<1> QED BY <1>2, <1>3 DEF new

\* The first records.
LEMMA SeqCuts ==
  ASSUME NEW s, IsSeq(s), NEW n \in 0 .. Len(s)
  PROVE  /\ IsSeq(SubSeq(s, 1, n)) /\ Len(SubSeq(s, 1, n)) = n
         /\ \A i \in 1 .. n : SubSeq(s, 1, n)[i] = s[i]
<1> DEFINE S == {s[i] : i \in DOMAIN s}
           new == SubSeq(s, 1, n)
<1>1. Len(s) \in Nat /\ DOMAIN s = 1 .. Len(s)
  BY SeqShape
<1>2. n \in Int /\ \A i \in 1 .. n : s[i] \in S
  BY <1>1
<1> HIDE DEF S
<1>3. /\ new \in Seq(S) /\ Len(new) = (IF 1 <= n THEN n - 1 + 1 ELSE 0)
      /\ \A i \in 1 .. n - 1 + 1 : new[i] = s[1 + i - 1]
  BY <1>2, SubSeqProperties
<1> HIDE DEF new
<1>4. Len(new) = n /\ \A i \in 1 .. n : new[i] = s[i]
  BY <1>1, <1>3
<1>5. IsSeq(new)
  BY <1>3, SeqOfAny
<1> QED BY <1>4, <1>5 DEF new

LogTypes ==
  IsSeq(log) /\ landed \in 0 .. Len(log) /\ poisoned \in BOOLEAN /\ (poisoned => landed = Len(log))

\* What most steps leave of the log: all its records, and no new completion.
LogKeeps ==
  /\ Len(log) \in Nat /\ Len(log') \in Nat /\ Len(log) <= Len(log')
  /\ \A r \in Runs : CompletionsOf(r)' = CompletionsOf(r)
  /\ \A r \in Runs : \A n : NamesInput(n, r) => NamesInput(n, r)'
  /\ \A i \in 1 .. Len(log) : log'[i] = log[i]

\* A step that appends nothing.
LEMMA LogStays ==
  ASSUME LogTypes, UNCHANGED log
  PROVE  LogKeeps
BY SeqShape DEF LogTypes, LogKeeps, CompletionsOf, NamesInput

\* A record is stored.
LEMMA LogGrows ==
  ASSUME LogTypes, NEW record, Enqueue(record), UNCHANGED <<landed, poisoned>>
  PROVE  /\ LogTypes' /\ Len(log) \in Nat /\ DOMAIN log = 1 .. Len(log) /\ DOMAIN log' = 1 .. Len(log')
         /\ poisoned => log' = log
         /\ ~poisoned => Len(log') = Len(log) + 1 /\ log'[Len(log) + 1] = record
         /\ Len(log') \in Nat /\ Len(log) <= Len(log')
         /\ \A i \in 1 .. Len(log) : log'[i] = log[i]
<1>1. Len(log) \in Nat /\ DOMAIN log = 1 .. Len(log)
  BY SeqShape DEF LogTypes
<1>2. CASE poisoned
  BY <1>1, <1>2 DEF Enqueue, LogTypes
<1>3. CASE ~poisoned
  <2>1. log' = Append(log, record)
    BY <1>3 DEF Enqueue
  <2>2. /\ IsSeq(log') /\ Len(log') = Len(log) + 1 /\ log'[Len(log) + 1] = record
        /\ \A i \in 1 .. Len(log) : log'[i] = log[i]
    BY <2>1, SeqAppends DEF LogTypes
  <2>3. DOMAIN log' = 1 .. Len(log')
    BY <2>2, SeqShape
  <2>4. LogTypes'
    <3>1. poisoned' = FALSE /\ landed' = landed
      BY <1>3 DEF LogTypes
    <3>2. landed' \in 0 .. Len(log')
      <4> DEFINE m == Len(log)
                 m2 == Len(log')
      <4>1. m \in Nat /\ m2 = m + 1 /\ landed \in 0 .. m
        BY <1>1, <2>2 DEF LogTypes
      <4> HIDE DEF m, m2
      <4>2. landed \in 0 .. m2
        BY <4>1, SMTT(40)
      <4> QED BY <3>1, <4>2, SMTT(40) DEF m2
    <3> QED BY <2>2, <3>1, <3>2 DEF LogTypes
  <2> QED BY <1>1, <1>3, <2>2, <2>3, <2>4
<1> QED BY <1>2, <1>3

\* A record that is not a completion is stored.
LEMMA LogGrowsOther ==
  ASSUME LogTypes, NEW record, Enqueue(record), record.kind # "run_complete",
         UNCHANGED <<landed, poisoned>>
  PROVE  LogKeeps
<1>1. /\ Len(log) \in Nat /\ DOMAIN log = 1 .. Len(log) /\ DOMAIN log' = 1 .. Len(log')
      /\ poisoned => log' = log
      /\ ~poisoned => Len(log') = Len(log) + 1 /\ log'[Len(log) + 1] = record
      /\ Len(log') \in Nat /\ Len(log) <= Len(log')
      /\ \A i \in 1 .. Len(log) : log'[i] = log[i]
  BY LogGrows
<1>2. ASSUME NEW r \in Runs PROVE CompletionsOf(r)' = CompletionsOf(r)
  <2>1. CASE poisoned
    <3>1. log' = log
      BY <1>1, <2>1
    <3> QED BY <3>1 DEF CompletionsOf
  <2>2. CASE ~poisoned
    <3>1. \A i : i \in DOMAIN log' <=> i \in DOMAIN log \/ i = Len(log) + 1
      BY <1>1, <2>2, SMTT(40)
    <3>2. \A i \in DOMAIN log : log'[i] = log[i]
      BY <1>1
    <3>3. log'[Len(log) + 1] = record
      BY <1>1, <2>2
    <3> QED BY <3>1, <3>2, <3>3 DEF CompletionsOf
  <2> QED BY <2>1, <2>2
<1>3. ASSUME NEW r \in Runs, NEW n, NamesInput(n, r) PROVE NamesInput(n, r)'
  <2>1. n \in 1 .. Len(log) /\ log[n] = [kind |-> "input_run", run |-> r]
    BY <1>3, SMTT(40) DEF NamesInput
  <2>2. n \in 1 .. Len(log') /\ log'[n] = log[n]
    <3> DEFINE m == Len(log)
               m2 == Len(log')
    <3>1. m \in Nat /\ m2 \in Nat /\ m <= m2 /\ n \in 1 .. m
      BY <1>1, <2>1
    <3> HIDE DEF m, m2
    <3>2. n \in 1 .. m2
      BY <3>1
    <3> QED BY <1>1, <2>1, <3>2, ZenonT(60) DEF m2
  <2> QED BY <2>1, <2>2 DEF NamesInput
<1> QED BY <1>1, <1>2, <1>3 DEF LogKeeps

\* An append, of anything: a log that has not stopped behind it has stored the
\* record, and one that has keeps what it holds.
LEMMA LogAppends ==
  ASSUME LogTypes, NEW record, AppendRecord(record), UNCHANGED <<landed, poisoned>>
  PROVE  /\ LogTypes' /\ (poisoned => log' = log)
         /\ stopped => stopped'
         /\ ~stopped' => Enqueue(record)
         /\ record.kind # "run_complete" \/ stopped' => LogKeeps
         /\ \/ UNCHANGED log
            \/ Enqueue(record)
            \/ stopped' /\ Enqueue([kind |-> "stop"])
<1>1. PICK stop : stop = [kind |-> "stop"]
  OBVIOUS
<1>2. CASE Enqueue(record) /\ UNCHANGED stopped /\ (record.kind = "exit" \/ ~stopped)
  <2>1. LogTypes' /\ (poisoned => log' = log)
    BY <1>2, LogGrows
  <2>2. record.kind # "run_complete" \/ stopped' => LogKeeps
    <3>1. ASSUME record.kind # "run_complete" PROVE LogKeeps
      BY <1>2, <3>1, LogGrowsOther
    <3>2. ASSUME stopped' PROVE record.kind # "run_complete"
      BY <1>2, <3>2
    <3> QED BY <3>1, <3>2
  <2> QED BY <1>2, <2>1, <2>2
<1>3. CASE Enqueue(stop) /\ stopped' = TRUE
  <2>1. LogTypes' /\ (poisoned => log' = log)
    BY <1>3, LogGrows
  <2>2. stop.kind # "run_complete"
    BY <1>1
  <2>3. LogKeeps
    BY <1>3, <2>2, LogGrowsOther
  <2> QED BY <1>1, <1>3, <2>1, <2>3
<1>4. CASE UNCHANGED <<log, stopped>> /\ stopped
  <2>1. LogTypes'
    BY <1>4 DEF LogTypes, IsSeq
  <2>2. LogKeeps
    BY <1>4, LogStays
  <2> QED BY <1>4, <2>1, <2>2
<1> QED BY <1>1, <1>2, <1>3, <1>4 DEF AppendRecord

\* The seq that an append acknowledges is a number, and the log goes as far
\* unless it is poisoned.
LEMMA AcknowledgesNumber ==
  ASSUME LogTypes, LogTypes'
  PROVE  /\ Acknowledged \in Nat
         /\ ~poisoned => Acknowledged = Len(log')
<1>1. Len(log) \in Nat /\ Len(log') \in Nat
  BY SeqShape DEF LogTypes
<1> DEFINE m == Len(log)
<1>2. m + 1 \in Nat
  <2>1. m \in Nat
    BY <1>1
  <2> HIDE DEF m
  <2> QED BY <2>1
<1> QED BY <1>1, <1>2 DEF Acknowledged

PrintedStays == \A r \in Runs : Printed(r) => Printed(r)'

\* Completions stay as true as they were.
LEMMA LogInvStays ==
  ASSUME IInv, LogKeeps, PrintedStays, NEW r \in Runs
  PROVE  LogInv(r)'
<1>1. LogInv(r) /\ LogTypes
  BY DEF IInv, Types, LogTypes
<1>2. DOMAIN log = 1 .. Len(log)
  BY <1>1, SeqShape DEF LogTypes
<1>3. \A i \in CompletionsOf(r) : log'[i] = log[i]
  BY <1>2 DEF LogKeeps, CompletionsOf
<1>4. CompletionsOf(r)' = CompletionsOf(r)
  BY DEF LogKeeps
<1> QED BY <1>1, <1>3, <1>4 DEF LogInv, LogKeeps, PrintedStays

\* A step that leaves the scanner and the ingestion of a run alone.
LEMMA ScanInvStays ==
  ASSUME IInv, LogKeeps, PrintedStays, NEW r \in Runs,
         r \in scanner'.active => r \in scanner.active, Ending(r)' => Ending(r),
         run'[r] = "idle" => run[r] = "idle", poisoned => poisoned', stopped => stopped',
         active'[r] = active[r]
  PROVE  ScanInv(r)'
BY DEF IInv, ScanInv, LogKeeps, PrintedStays

\* A step that leaves the waiter and the handler of a run alone.
LEMMA WaitInvStays ==
  ASSUME IInv, LogKeeps, NEW r \in Runs,
         Ending(r)' => Ending(r), r \in waiters' <=> r \in waiters,
         Ending(r) \/ r \in waiters => awaited' = awaited /\ (Recording(r) => Recording(r)'),
         run'[r] = run[r], outcome'[r] = outcome[r], poisoned => poisoned', r \in typed' <=> r \in typed
  PROVE  WaitInv(r)'
<1>1. WaitInv(r) /\ CompletionsOf(r)' = CompletionsOf(r)
  BY DEF IInv, LogKeeps
<1> QED BY <1>1 DEF WaitInv

\* A step that leaves the outcome of a run alone.
LEMMA OutcomeInvStays ==
  ASSUME IInv, LogKeeps, PrintedStays, NEW r \in Runs, landed' >= landed,
         ptyExit = "reset" => ptyExit' = "reset", landed' \in Nat, outcome'[r] = outcome[r],
         poisoned => poisoned', stopped => stopped'
  PROVE  OutcomeInv(r)'
<1>1. OutcomeInv(r) /\ CompletionsOf(r)' = CompletionsOf(r) /\ landed \in Nat
  <2>1. LogTypes
    BY DEF IInv, Types, LogTypes
  <2>2. landed \in Nat
    BY <2>1, SeqShape DEF LogTypes
  <2> QED BY <2>2 DEF IInv, LogKeeps
<1>2. \A i \in CompletionsOf(r) : i \in Nat
  <2>1. IsSeq(log)
    BY DEF IInv, Types
  <2>2. Len(log) \in Nat /\ DOMAIN log = 1 .. Len(log)
    BY <2>1, SeqShape
  <2> QED BY <2>2 DEF CompletionsOf
<1>3. \A i \in CompletionsOf(r) : i <= landed => i <= landed'
  BY <1>1, <1>2
<1>4. Printed(r) => Printed(r)'
  BY DEF PrintedStays
<1> QED BY <1>1, <1>3, <1>4 DEF OutcomeInv
-----------------------------------------------------------------------------
(* The steps that leave the ingestion alone *)

\* What is not about one run, when the ingestion and the terminal stand still.
LEMMA IngestionStays ==
  ASSUME IInv, LogKeeps, PrintedStays, UNCHANGED <<pieces, awaited, unread>>,
         scanner'.tail = scanner.tail, poisoned => poisoned' /\ log' = log, stopped => stopped'
  PROVE  /\ EndsOnce' /\ AwaitsHead' /\ PrintedIn(scanner.tail \o unread)'
         /\ \A r \in Runs : (Ending(r)' <=> Ending(r)) /\ (Recording(r)' <=> Recording(r))
<1>1. EndsOnce'
  BY DEF IInv, EndsOnce, Ends
<1>2. \A r \in Runs : (Ending(r)' <=> Ending(r)) /\ (Recording(r)' <=> Recording(r))
  BY DEF Ending, Ends, Recording
<1>3. PrintedIn(scanner.tail \o unread)'
  <2> DEFINE s == scanner.tail \o unread
  <2>1. s' = s /\ PrintedIn(s)
    BY DEF IInv
  <2> HIDE DEF s
  <2>2. PrintedIn(s)'
    BY <2>1 DEF PrintedIn, PrintedStays
  <2> QED BY <2>2 DEF s
<1>4. AwaitsHead'
  <2>1. Len(log) \in Nat /\ Len(log') \in Nat /\ Len(log) <= Len(log') /\ awaited \in Nat
    BY DEF IInv, Types, LogKeeps
  <2>2. awaited # 0 => pieces # <<>> /\ (poisoned' \/ awaited <= Len(log'))
    BY <2>1 DEF IInv, AwaitsHead
  <2>3. ASSUME NEW r \in Runs, awaited \in 1 .. Len(log'), Recording(r)
        PROVE  stopped' \/ awaited \in CompletionsOf(r)'
    <3>1. awaited \in 1 .. Len(log)
      <4>1. CASE poisoned
        BY <2>3, <4>1
      <4>2. CASE ~poisoned
        BY <2>1, <2>3, <4>2 DEF IInv, AwaitsHead
      <4> QED BY <4>1, <4>2
    <3> QED BY <2>3, <3>1 DEF IInv, AwaitsHead, LogKeeps
  <2> QED BY <1>2, <2>2, <2>3 DEF AwaitsHead
<1> QED BY <1>1, <1>2, <1>3, <1>4

\* A step that touches only what no run, no log and no ingestion depends on.
LEMMA QuietStep ==
  ASSUME IInv, UNCHANGED <<logVars, pieces, awaited, scanner, active, waiters, outcome,
                           run, unread, typed, ended>>,
         Types', Phases', ptyExit = "reset" => ptyExit' = "reset"
  PROVE  IInv'
<1>1. LogTypes /\ UNCHANGED log
  BY DEF IInv, Types, LogTypes, logVars
<1>2. LogKeeps
  BY <1>1, LogStays
<1>3. PrintedStays /\ landed' = landed /\ poisoned' = poisoned /\ stopped' = stopped
  BY DEF PrintedStays, Printed, logVars
<1>4. /\ EndsOnce' /\ AwaitsHead' /\ PrintedIn(scanner.tail \o unread)'
      /\ \A r \in Runs : (Ending(r)' <=> Ending(r)) /\ (Recording(r)' <=> Recording(r))
  BY <1>1, <1>2, <1>3, IngestionStays
<1>5. ASSUME NEW r \in Runs PROVE LogInv(r)' /\ ScanInv(r)' /\ WaitInv(r)' /\ OutcomeInv(r)'
  <2>1. LogInv(r)'
    BY <1>2, <1>3, LogInvStays
  <2>2. ScanInv(r)'
    BY <1>2, <1>3, <1>4, ScanInvStays
  <2>3. WaitInv(r)'
    BY <1>2, <1>3, <1>4, WaitInvStays
  <2>4. landed \in Nat
    BY <1>1, SeqShape DEF LogTypes
  <2>5. OutcomeInv(r)'
    BY <1>2, <1>3, <2>4, OutcomeInvStays
  <2> QED BY <2>1, <2>2, <2>3, <2>5
<1> QED BY <1>4, <1>5 DEF IInv

\* A record gets on disk.
LEMMA WriteLandsKeeps == ASSUME IInv, WriteLands PROVE IInv'
<1>1. LogTypes /\ UNCHANGED log /\ landed < Len(log) /\ landed' = landed + 1
  BY DEF IInv, Types, LogTypes, WriteLands
<1>2. LogKeeps
  BY <1>1, LogStays
<1>3. PrintedStays /\ poisoned' = poisoned /\ stopped' = stopped
  BY DEF PrintedStays, Printed, WriteLands, programVars
<1>4. /\ Len(log) \in Nat /\ landed \in Nat /\ landed' \in Nat
      /\ landed' >= landed /\ landed' \in 0 .. Len(log)
  BY <1>1, SeqShape DEF LogTypes
<1>5. UNCHANGED <<pieces, awaited, scanner, active, waiters, outcome, run, unread, typed, ended,
                  text, prints, session, ptyExit>>
  BY DEF WriteLands, coordinator, ingestion, programVars
<1>6. /\ EndsOnce' /\ AwaitsHead' /\ PrintedIn(scanner.tail \o unread)'
      /\ \A r \in Runs : (Ending(r)' <=> Ending(r)) /\ (Recording(r)' <=> Recording(r))
  BY <1>1, <1>2, <1>3, <1>5, IngestionStays
<1>7. ASSUME NEW r \in Runs PROVE LogInv(r)' /\ ScanInv(r)' /\ WaitInv(r)' /\ OutcomeInv(r)'
  <2>1. LogInv(r)'
    BY <1>2, <1>3, LogInvStays
  <2>2. ScanInv(r)'
    BY <1>2, <1>3, <1>5, <1>6, ScanInvStays
  <2>3. WaitInv(r)'
    BY <1>2, <1>3, <1>5, <1>6, WaitInvStays
  <2>4. OutcomeInv(r)'
    BY <1>2, <1>3, <1>4, <1>5, OutcomeInvStays
  <2> QED BY <2>1, <2>2, <2>3, <2>4
<1>8. ~poisoned
  BY <1>1, <1>4 DEF LogTypes
<1>9. Types'
  BY <1>1, <1>3, <1>4, <1>5, <1>8 DEF IInv, Types, IsSeq
<1>10. Phases'
  BY <1>5 DEF IInv, Phases
<1> QED BY <1>6, <1>7, <1>9, <1>10 DEF IInv

\* A write fails: the log ends with what is on disk.
LEMMA WriteFailsKeeps == ASSUME IInv, WriteFails PROVE IInv'
<1>1. LogTypes /\ log' = SubSeq(log, 1, landed) /\ poisoned' = TRUE /\ landed' = landed
  BY DEF IInv, Types, LogTypes, WriteFails
<1>2. UNCHANGED <<pieces, awaited, scanner, active, waiters, outcome, run, unread, typed, ended,
                  text, prints, session, ptyExit, stopped>>
  BY DEF WriteFails, coordinator, ingestion, programVars
<1>3. /\ IsSeq(log') /\ Len(log') = landed
      /\ \A i \in 1 .. landed : log'[i] = log[i]
  BY <1>1, SeqCuts DEF LogTypes
<1>4. /\ Len(log) \in Nat /\ DOMAIN log = 1 .. Len(log) /\ landed \in 0 .. Len(log)
      /\ DOMAIN log' = 1 .. landed
  BY <1>1, <1>3, SeqShape DEF LogTypes
<1>5. ASSUME NEW r \in Runs PROVE CompletionsOf(r)' = {i \in CompletionsOf(r) : i <= landed}
  <2>1. \A i : i \in 1 .. landed <=> i \in 1 .. Len(log) /\ i <= landed
    BY <1>4
  <2> QED BY <1>3, <1>4, <2>1 DEF CompletionsOf
<1>6. ASSUME NEW r \in Runs, NEW i \in CompletionsOf(r)'
      PROVE  i \in 1 .. landed /\ log'[i] = log[i]
  BY <1>3, <1>4 DEF CompletionsOf
<1>7. ASSUME NEW r \in Runs PROVE LogInv(r)'
  <2>1. LogInv(r)
    BY DEF IInv
  <2>2. ASSUME NEW i \in CompletionsOf(r)'
        PROVE  (Printed(r) /\ log[i].input \in 1 .. i - 1 /\ NamesInput(log[i].input, r))'
    <3>1. i \in CompletionsOf(r) /\ i \in 1 .. landed /\ log'[i] = log[i]
      BY <1>5, <1>6, <2>2
    <3>2. Printed(r) /\ log[i].input \in 1 .. i - 1 /\ NamesInput(log[i].input, r)
      BY <2>1, <3>1 DEF LogInv
    <3>3. log[i].input \in 1 .. landed
      BY <1>4, <3>1, <3>2
    <3>4. PICK m : m = log[i].input
      OBVIOUS
    <3>5. NamesInput(m, r)'
      BY <1>3, <3>2, <3>3, <3>4 DEF NamesInput
    <3>6. log'[i].input = m /\ Printed(r)'
      BY <1>2, <3>1, <3>2, <3>4 DEF Printed
    <3> QED BY <3>2, <3>4, <3>5, <3>6
  <2>3. \A i, j \in CompletionsOf(r)' : i = j
    BY <1>5, <2>1 DEF LogInv
  <2> QED BY <2>2, <2>3 DEF LogInv
<1>8. /\ EndsOnce' /\ PrintedIn(scanner.tail \o unread)' /\ Phases'
      /\ \A r \in Runs : /\ Ending(r)' <=> Ending(r)
                         /\ Recording(r)' <=> Recording(r)
                         /\ Printed(r)' <=> Printed(r)
  <2>1. \A r \in Runs : /\ Ending(r)' <=> Ending(r)
                        /\ Recording(r)' <=> Recording(r)
                        /\ Printed(r)' <=> Printed(r)
    BY <1>2 DEF Ending, Ends, Recording, Printed
  <2>2. EndsOnce' /\ Phases'
    BY <1>2 DEF IInv, EndsOnce, Ends, Phases
  <2> DEFINE s == scanner.tail \o unread
  <2>3. s' = s /\ PrintedIn(s)
    BY <1>2 DEF IInv
  <2> HIDE DEF s
  <2>4. PrintedIn(s)'
    BY <2>1, <2>3 DEF PrintedIn
  <2> QED BY <2>1, <2>2, <2>4 DEF s
<1>9. AwaitsHead'
  <2>1. ASSUME NEW r \in Runs, awaited \in 1 .. landed, Recording(r)
        PROVE  stopped \/ awaited \in CompletionsOf(r)'
    <3>1. awaited \in 1 .. Len(log) /\ awaited <= landed
      BY <1>4, <2>1
    <3>2. stopped \/ awaited \in CompletionsOf(r)
      BY <2>1, <3>1 DEF IInv, AwaitsHead
    <3> QED BY <1>5, <3>1, <3>2
  <2> QED BY <1>1, <1>2, <1>3, <1>8, <2>1 DEF IInv, AwaitsHead
<1>10. ASSUME NEW r \in Runs PROVE ScanInv(r)' /\ WaitInv(r)' /\ OutcomeInv(r)'
  <2>1. CompletionsOf(r)' \subseteq CompletionsOf(r)
    BY <1>5
  <2>2. ScanInv(r)'
    BY <1>1, <1>2, <1>8, <2>1 DEF IInv, ScanInv
  <2>3. WaitInv(r)'
    BY <1>1, <1>2, <1>8, <2>1 DEF IInv, WaitInv
  <2>4. OutcomeInv(r)'
    BY <1>1, <1>2, <1>5, <1>8 DEF IInv, OutcomeInv
  <2> QED BY <2>2, <2>3, <2>4
<1>11. Types'
  <2>1. landed' \in 0 .. Len(log') /\ landed' = Len(log')
    BY <1>1, <1>3, <1>4
  <2> QED BY <1>1, <1>2, <1>3, <2>1 DEF IInv, Types
<1> QED BY <1>7, <1>8, <1>9, <1>10, <1>11 DEF IInv

\* The steps of the program, of a shutdown and of a dying host that no run notices.
LEMMA QuietStepsKeep ==
  ASSUME IInv, PtyExits \/ StartShutdown \/ HostDies
  PROVE  IInv'
<1>1. UNCHANGED <<logVars, pieces, awaited, scanner, active, waiters, outcome, run, unread, typed,
                  ended, text, prints>>
  BY DEF PtyExits, StartShutdown, HostDies, coordinator, ingestion, programVars
<1>2. /\ session' \in {session, "destroying", "dead"}
      /\ \/ ptyExit' = ptyExit
         \/ ptyExit = "no" /\ ptyExit' = "queued"
  BY DEF PtyExits, StartShutdown, HostDies
<1>3. Types'
  BY <1>1, <1>2 DEF IInv, Types, IsSeq, logVars
<1>4. Phases'
  BY <1>1, <1>2 DEF IInv, Phases
<1> QED BY <1>1, <1>2, <1>3, <1>4, QuietStep
-----------------------------------------------------------------------------
(* The run handler and the exit *)

\* The handler of `r` goes on, and its wait may be over.
LEMMA HandlerKeeps ==
  ASSUME IInv, NEW r \in Runs, HandlerGoesOn(r) \/ TimeOut(r)
  PROVE  IInv'
<1>1. PICK state \in {"waiting", "timeout", "completed", "failed", "exited"} :
        /\ RunSettles(r, state) /\ run[r] # "idle"
        /\ waiters' \in {waiters, waiters \ {r}}
        /\ state = "failed" => poisoned \/ r \notin typed
        /\ state \in {"completed", "exited"} => outcome[r] = state
  <2>1. CASE TimeOut(r)
    BY <2>1 DEF TimeOut
  <2>2. CASE InputRecorded(r)
    <3>1. run[r] = "throwing" => r \notin typed
      BY DEF IInv, WaitInv
    <3>2. CASE poisoned
      BY <2>2, <3>1, <3>2 DEF InputRecorded
    <3>3. CASE ~poisoned
      BY <2>2, <3>1, <3>3 DEF InputRecorded
    <3> QED BY <3>2, <3>3
  <2>3. CASE WaitEnds(r)
    <3>1. outcome[r] = "failed" => poisoned
      BY DEF IInv, OutcomeInv
    <3>2. outcome[r] \in {"completed", "failed", "exited"}
      BY <2>3 DEF IInv, Types, WaitEnds
    <3>3. RunSettles(r, outcome[r]) /\ run[r] = "waiting" /\ waiters' = waiters
      BY <2>3 DEF WaitEnds
    <3> QED BY <3>1, <3>2, <3>3
  <2> QED BY <2>1, <2>2, <2>3 DEF HandlerGoesOn
<1>2. /\ UNCHANGED <<log, landed, poisoned, stopped, scanner, active, outcome, pieces, awaited, session,
                     ptyExit, unread, typed, ended, text, prints>>
      /\ run' = [run EXCEPT ![r] = state]
  BY <1>1 DEF RunSettles, logVars, ingestion, programVars
<1>3. LogTypes /\ LogKeeps /\ PrintedStays
  <2>1. LogTypes
    BY DEF IInv, Types, LogTypes
  <2> QED BY <1>2, <2>1, LogStays DEF PrintedStays, Printed
<1>4. /\ EndsOnce' /\ AwaitsHead' /\ PrintedIn(scanner.tail \o unread)'
      /\ \A q \in Runs : (Ending(q)' <=> Ending(q)) /\ (Recording(q)' <=> Recording(q))
  BY <1>2, <1>3, IngestionStays
<1>5. /\ run \in [Runs -> {"idle", "writing", "throwing", "waiting", "timeout"}
                            \union {"completed", "failed", "exited"}]
      /\ \A q \in Runs : run'[q] = IF q = r THEN state ELSE run[q]
  BY <1>2 DEF IInv, Types
<1>6. ASSUME NEW q \in Runs PROVE LogInv(q)' /\ ScanInv(q)' /\ WaitInv(q)' /\ OutcomeInv(q)'
  <2>1. LogInv(q)'
    BY <1>3, LogInvStays
  <2>2. ScanInv(q)'
    BY <1>1, <1>2, <1>3, <1>4, <1>5, ScanInvStays
  <2>3. WaitInv(q)'
    <3>1. WaitInv(q) /\ CompletionsOf(q)' = CompletionsOf(q)
      BY <1>3 DEF IInv, LogKeeps
    <3>2. q \in waiters' => q \in waiters
      BY <1>1
    <3> QED BY <1>1, <1>2, <1>4, <1>5, <3>1, <3>2 DEF WaitInv
  <2>4. landed \in Nat
    BY <1>3, SeqShape DEF LogTypes
  <2>5. OutcomeInv(q)'
    BY <1>2, <1>3, <2>4, OutcomeInvStays
  <2> QED BY <2>1, <2>2, <2>3, <2>5
<1>7. Types'
  <2>1. run' \in [Runs -> {"idle", "writing", "throwing", "waiting", "timeout"}
                            \union {"completed", "failed", "exited"}]
    BY <1>2, <1>5
  <2>2. waiters' \subseteq Runs
    BY <1>1 DEF IInv, Types
  <2> QED BY <1>2, <2>1, <2>2 DEF IInv, Types, IsSeq
<1>8. Phases'
  BY <1>2 DEF IInv, Phases
<1> QED BY <1>4, <1>6, <1>7, <1>8 DEF IInv

\* A run begins: nothing of it is in the log, and its input_run is the next record.
LEMMA StartRunKeeps ==
  ASSUME IInv, NEW r \in Runs, StartRun(r)
  PROVE  IInv'
<1> DEFINE record == [kind |-> "input_run", run |-> r]
<1>1. /\ run[r] = "idle" /\ AppendRecord(record)
      /\ active' = [active EXCEPT ![r] = Acknowledged] /\ waiters' = waiters \union {r}
      /\ scanner' = [scanner EXCEPT !.active = @ \union {r}]
      /\ UNCHANGED <<landed, poisoned, outcome, pieces, awaited, session, ptyExit, unread, ended, text,
                     prints>>
  BY DEF StartRun, Registered, ingestion
<1>2. PICK state \in {"writing", "throwing"} :
        /\ run' = [run EXCEPT ![r] = state]
        /\ typed' = IF state = "writing" THEN typed \union {r} ELSE typed
  BY DEF StartRun
<1>3. LogTypes /\ record.kind # "run_complete" /\ record.run = r
  BY DEF IInv, Types, LogTypes
<1> HIDE DEF record
<1>4. /\ LogTypes' /\ (poisoned => log' = log) /\ (stopped => stopped')
      /\ ~stopped' => Enqueue(record)
  BY <1>1, <1>3, LogAppends
<1>5. LogKeeps
  BY <1>1, <1>3, LogAppends
<1>6. PrintedStays /\ scanner'.tail = scanner.tail /\ scanner'.active = scanner.active \union {r}
  BY <1>1, SMTT(40) DEF PrintedStays, Printed, IInv, Types
<1>7. /\ EndsOnce' /\ AwaitsHead' /\ PrintedIn(scanner.tail \o unread)'
      /\ \A q \in Runs : (Ending(q)' <=> Ending(q)) /\ (Recording(q)' <=> Recording(q))
  BY <1>1, <1>4, <1>5, <1>6, IngestionStays
<1>8. /\ \A q \in Runs : run'[q] = IF q = r THEN state ELSE run[q]
      /\ \A q \in Runs : active'[q] = IF q = r THEN Acknowledged ELSE active[q]
  BY <1>1, <1>2 DEF IInv, Types
<1>9. CompletionsOf(r) = {} /\ ~Ending(r) /\ outcome[r] = "none" /\ r \notin typed
  BY <1>1 DEF IInv, WaitInv, ScanInv
<1>10. ASSUME NEW q \in Runs PROVE LogInv(q)' /\ ScanInv(q)' /\ WaitInv(q)' /\ OutcomeInv(q)'
  <2>1. LogInv(q)'
    BY <1>5, <1>6, LogInvStays
  <2>2. landed \in Nat
    BY <1>3, SeqShape DEF LogTypes
  <2>3. OutcomeInv(q)'
    BY <1>1, <1>4, <1>5, <1>6, <2>2, OutcomeInvStays
  <2>4. ScanInv(q)' /\ WaitInv(q)'
    <3>1. CASE q # r
      <4>1. ScanInv(q)'
        BY <1>1, <1>4, <1>5, <1>6, <1>7, <1>8, <3>1, ScanInvStays
      <4>2. WaitInv(q)'
        BY <1>1, <1>2, <1>5, <1>7, <1>8, <3>1, WaitInvStays
      <4> QED BY <4>1, <4>2
    <3>2. CASE q = r
      <4>1. CompletionsOf(r)' = {} /\ ~Ending(r)' /\ outcome'[r] = "none"
        BY <1>1, <1>5, <1>7, <1>9 DEF LogKeeps
      <4>2. run'[r] = state /\ active'[r] = Acknowledged
        BY <1>8
      <4>3. poisoned' \/ stopped' \/ NamesInput(active[r], r)'
        <5> SUFFICES ASSUME ~poisoned, ~stopped' PROVE NamesInput(active[r], r)'
          BY <1>1
        <5>1. /\ Len(log) \in Nat /\ Len(log') = Len(log) + 1 /\ log'[Len(log) + 1] = record
          BY <1>1, <1>3, <1>4, LogGrows
        <5>2. active'[r] = Len(log')
          BY <1>3, <1>4, <4>2, AcknowledgesNumber
        <5>3. Len(log') \in 1 .. Len(log') /\ log'[Len(log')] = record
          BY <5>1
        <5>4. NamesInput(active[r], r)' <=>
                active'[r] \in 1 .. Len(log') /\ log'[active'[r]] = [kind |-> "input_run", run |-> r]
          BY DEF NamesInput
        <5> QED BY <5>2, <5>3, <5>4 DEF record
      <4>4. ScanInv(r)'
        BY <4>1, <4>2, <4>3 DEF ScanInv
      <4>5. r \in typed' => state = "writing"
        BY <1>2, <1>9
      <4>6. WaitInv(r)'
        BY <4>1, <4>2, <4>5, SMTT(40) DEF WaitInv
      <4> QED BY <3>2, <4>4, <4>6
    <3> QED BY <3>1, <3>2
  <2> QED BY <2>1, <2>3, <2>4
<1>11. Types'
  <2>1. run' \in [Runs -> {"idle", "writing", "throwing", "waiting", "timeout"}
                            \union {"completed", "failed", "exited"}]
    BY <1>2 DEF IInv, Types
  <2>2. waiters' \subseteq Runs /\ typed' \subseteq Runs
    BY <1>1, <1>2, SMTT(40) DEF IInv, Types
  <2>3. active' \in [Runs -> Nat]
    <3>1. PICK n \in Nat : n = Acknowledged
      BY <1>3, <1>4, AcknowledgesNumber
    <3>2. active' = [active EXCEPT ![r] = n]
      BY <1>1, <3>1
    <3> QED BY <3>2 DEF IInv, Types
  <2>4. scanner' \in [active : SUBSET Runs, tail : Seq(Characters)]
    BY <1>1 DEF IInv, Types
  <2>5. stopped' \in BOOLEAN
    BY <1>1 DEF IInv, Types, AppendRecord
  <2> QED BY <1>1, <1>4, <2>1, <2>2, <2>3, <2>4, <2>5 DEF IInv, Types, LogTypes, IsSeq
<1>12. Phases'
  BY <1>1 DEF IInv, Phases
<1> QED BY <1>7, <1>10, <1>11, <1>12 DEF IInv

\* The exit of the program is recorded, behind everything else.
LEMMA HandlePtyExitKeeps == ASSUME IInv, HandlePtyExit PROVE IInv'
<1> DEFINE record == [kind |-> "exit"]
<1>1. /\ AppendRecord(record) /\ ptyExit = "flushing" /\ ptyExit' = "handled" /\ pieces = <<>>
      /\ session' = IF session = "running" THEN "exited" ELSE session
      /\ UNCHANGED <<landed, poisoned, scanner, active, waiters, outcome, run, pieces, awaited, unread,
                     typed, ended, text, prints>>
  BY DEF HandlePtyExit, coordinator, ingestion, programVars
<1>2. LogTypes /\ record.kind # "run_complete"
  BY DEF IInv, Types, LogTypes
<1> HIDE DEF record
<1>3. LogTypes' /\ (poisoned => log' = log) /\ (stopped => stopped')
  BY <1>1, <1>2, LogAppends
<1>4. LogKeeps /\ PrintedStays
  BY <1>1, <1>2, LogAppends DEF PrintedStays, Printed
<1>5. /\ EndsOnce' /\ AwaitsHead' /\ PrintedIn(scanner.tail \o unread)'
      /\ \A r \in Runs : (Ending(r)' <=> Ending(r)) /\ (Recording(r)' <=> Recording(r))
  BY <1>1, <1>3, <1>4, IngestionStays
<1>6. ASSUME NEW r \in Runs PROVE LogInv(r)' /\ ScanInv(r)' /\ WaitInv(r)' /\ OutcomeInv(r)'
  <2>1. LogInv(r)'
    BY <1>4, LogInvStays
  <2>2. ScanInv(r)'
    BY <1>1, <1>3, <1>4, <1>5, ScanInvStays
  <2>3. WaitInv(r)'
    BY <1>1, <1>4, <1>5, WaitInvStays
  <2>4. landed \in Nat
    BY <1>2, SeqShape DEF LogTypes
  <2>5. OutcomeInv(r)'
    BY <1>1, <1>3, <1>4, <2>4, OutcomeInvStays
  <2> QED BY <2>1, <2>2, <2>3, <2>5
<1>7. Types'
  <2>1. stopped' \in BOOLEAN
    BY <1>1 DEF IInv, Types, AppendRecord
  <2> QED BY <1>1, <1>3, <2>1 DEF IInv, Types, LogTypes, IsSeq
<1>8. Phases'
  BY <1>1 DEF IInv, Phases, Types
<1> QED BY <1>5, <1>6, <1>7, <1>8 DEF IInv

\* The exit answers whoever still waits, and nothing of theirs is in the log.
LEMMA ResetForExitKeeps == ASSUME IInv, ResetForExit PROVE IInv'
<1>1. /\ ptyExit = "handled" /\ ptyExit' = "reset"
      /\ outcome' = [r \in Runs |-> IF r \in waiters THEN "exited" ELSE outcome[r]]
      /\ waiters' = {} /\ active' = [r \in Runs |-> 0]
      /\ scanner' = [active |-> {}, tail |-> <<>>]
      /\ UNCHANGED <<log, landed, poisoned, stopped, run, pieces, awaited, session, unread, typed, ended,
                     text, prints>>
  BY DEF ResetForExit, NotActive, logVars, ingestion, programVars
<1>2. pieces = <<>> /\ unread = <<>> /\ session # "running"
  BY <1>1 DEF IInv, Phases
<1>3. LogTypes /\ LogKeeps /\ PrintedStays
  <2>1. LogTypes
    BY DEF IInv, Types, LogTypes
  <2> QED BY <1>1, <2>1, LogStays DEF PrintedStays, Printed
<1>4. \A r \in Runs : ~Ending(r) /\ ~Ending(r)' /\ ~Recording(r) /\ ~Recording(r)'
  BY <1>1, <1>2 DEF Ending, Recording
<1>5. EndsOnce' /\ AwaitsHead' /\ Phases'
  <2>1. EndsOnce' /\ Phases'
    BY <1>1, <1>2 DEF EndsOnce, Phases
  <2>2. awaited = 0
    BY <1>2 DEF IInv, AwaitsHead
  <2> QED BY <1>1, <1>4, <2>1, <2>2 DEF AwaitsHead
<1>6. PrintedIn(scanner.tail \o unread)'
  <2> DEFINE s == scanner.tail \o unread
  <2>1. s' = <<>>
    BY <1>1, <1>2
  <2> HIDE DEF s
  <2>2. PrintedIn(s)'
    BY <2>1 DEF PrintedIn
  <2> QED BY <2>2 DEF s
<1>7. ASSUME NEW r \in Runs PROVE LogInv(r)' /\ ScanInv(r)' /\ WaitInv(r)' /\ OutcomeInv(r)'
  <2>1. LogInv(r)'
    BY <1>3, LogInvStays
  <2>2. ScanInv(r)'
    BY <1>1, <1>4 DEF ScanInv
  <2>3. WaitInv(r) /\ OutcomeInv(r) /\ CompletionsOf(r)' = CompletionsOf(r)
    BY <1>3 DEF IInv, LogKeeps
  <2>4. outcome'[r] = IF r \in waiters THEN "exited" ELSE outcome[r]
    BY <1>1
  <2>5. r \in waiters => CompletionsOf(r) = {}
    BY <1>4, <2>3 DEF WaitInv
  <2>6. WaitInv(r)'
    BY <1>1, <1>4, <2>3, <2>4 DEF WaitInv
  <2>7. OutcomeInv(r)'
    BY <1>1, <1>3, <2>3, <2>4, <2>5 DEF OutcomeInv, PrintedStays
  <2> QED BY <2>1, <2>2, <2>6, <2>7
<1>8. Types'
  <2>1. outcome' \in [Runs -> {"none", "completed", "failed", "exited"}]
    BY <1>1 DEF IInv, Types
  <2>2. <<>> \in Seq(Characters)
    BY EmptySeq
  <2>3. /\ scanner' \in [active : SUBSET Runs, tail : Seq(Characters)]
        /\ active' \in [Runs -> Nat] /\ waiters' \subseteq Runs
    BY <1>1, <2>2
  <2> QED BY <1>1, <2>1, <2>3 DEF IInv, Types, IsSeq
<1> QED BY <1>5, <1>6, <1>7, <1>8 DEF IInv
\* An echo of a postamble has the name of its run in it, but no sentinel.
LEMMA EchoIsNoSentinel ==
  ASSUME NEW r \in Runs, NEW echo \in Echoes(r)
  PROVE  /\ echo \in Seq(Characters)
         /\ \A j \in 1 .. Len(echo) - 1 : ~(echo[j] = "esc" /\ echo[j + 1] \in Runs)
         /\ echo[1] \notin Runs
<1> DEFINE n == Len(EchoPrefix)
<1>1. /\ EchoPrefix \in Seq(STRING \ (Runs \union {"esc", "cr"})) /\ EchoPrefix # <<>>
      /\ "cr" \notin Runs /\ "lf" \notin Runs
  BY SentinelAssumption
<1>2. n \in Nat /\ n >= 1 /\ \A j \in 1 .. n : EchoPrefix[j] \notin Runs /\ EchoPrefix[j] # "esc"
  <2>1. \A j \in 1 .. n : EchoPrefix[j] \in STRING \ (Runs \union {"esc", "cr"})
    BY <1>1, ElementOfSeq
  <2>2. n \in Nat \ {0}
    BY <1>1, EmptySeq
  <2> QED BY <2>1, <2>2
<1>3. EchoPrefix \in Seq(Characters)
  <2>1. STRING \ (Runs \union {"esc", "cr"}) \subseteq Characters
    BY DEF Characters
  <2> QED BY <1>1, <2>1, SeqMonotonic
<1>4. PICK end \in Seq(Characters) :
        /\ echo = EchoPrefix \o end /\ Len(end) \in 2 .. 3
        /\ \A j \in 2 .. Len(end) : end[j] \notin Runs
  <2>1. r \in Characters /\ "cr" \in Characters /\ "lf" \in Characters
    BY DEF Characters
  <2>2. CASE echo = EchoPrefix \o <<r, "lf">>
    <3> DEFINE end == <<r, "lf">>
    <3>1. end \in Seq(Characters) /\ Len(end) = 2 /\ end[2] \notin Runs
      BY <1>1, <2>1
    <3>2. echo = EchoPrefix \o end
      BY <2>2
    <3> HIDE DEF end
    <3>3. Len(end) \in 2 .. 3 /\ \A j \in 2 .. Len(end) : end[j] \notin Runs
      BY <3>1
    <3> QED BY <3>1, <3>2, <3>3
  <2>3. CASE echo = EchoPrefix \o <<r, "cr", "lf">>
    <3> DEFINE end == <<r, "cr", "lf">>
    <3>1. end \in Seq(Characters) /\ Len(end) = 3 /\ end[2] \notin Runs /\ end[3] \notin Runs
      BY <1>1, <2>1
    <3>2. echo = EchoPrefix \o end
      BY <2>3
    <3> HIDE DEF end
    <3>3. \A j \in 2 .. 3 : j = 2 \/ j = 3
      OBVIOUS
    <3>4. Len(end) \in 2 .. 3 /\ \A j \in 2 .. Len(end) : end[j] \notin Runs
      BY <3>1, <3>3
    <3> QED BY <3>1, <3>2, <3>4
  <2> QED BY <2>2, <2>3 DEF Echoes
<1>5. /\ echo \in Seq(Characters) /\ Len(echo) = n + Len(end)
      /\ \A j \in 1 .. n + Len(end) : echo[j] = IF j <= n THEN EchoPrefix[j] ELSE end[j - n]
  BY <1>3, <1>4, ConcatProperties
<1> HIDE DEF n
<1>6. echo[1] \notin Runs
  BY <1>2, <1>4, <1>5
<1>7. ASSUME NEW j \in 1 .. Len(echo) - 1, echo[j] = "esc", echo[j + 1] \in Runs
      PROVE  FALSE
  <2>1. CASE j + 1 <= n
    BY <1>2, <1>4, <1>5, <1>7, <2>1
  <2>2. CASE j = n
    <3>1. echo[j] = EchoPrefix[n]
      BY <1>2, <1>4, <1>5, <2>2
    <3> QED BY <1>2, <1>7, <3>1
  <2>3. CASE j > n
    <3>1. echo[j + 1] = end[j + 1 - n] /\ j + 1 - n \in 2 .. Len(end)
      BY <1>2, <1>4, <1>5, <2>3
    <3> QED BY <1>4, <1>7, <3>1
  <2> QED BY <1>2, <1>4, <1>5, <2>1, <2>2, <2>3
<1> QED BY <1>5, <1>6, <1>7
-----------------------------------------------------------------------------
(* The program *)

\* More text in which what stands as a sentinel is printed, and that does not
\* begin inside of one.
LEMMA PrintedJoins ==
  ASSUME NEW s \in Seq(Characters), NEW w \in Seq(Characters), PrintedIn(s), PrintedStays,
         \A j \in 1 .. Len(w) - 1 : w[j] = "esc" /\ w[j + 1] \in Runs => Printed(w[j + 1])',
         w # <<>> => w[1] \notin Runs
  PROVE  \A j \in 1 .. Len(s \o w) - 1 :
           (s \o w)[j] = "esc" /\ (s \o w)[j + 1] \in Runs => Printed((s \o w)[j + 1])'
<1> DEFINE m == Len(s)
           n == Len(w)
           d == s \o w
<1>1. m \in Nat /\ n \in Nat
  BY LenProperties
<1>2. Len(d) = m + n /\ \A j \in 1 .. m + n : d[j] = IF j <= m THEN s[j] ELSE w[j - m]
  BY ConcatProperties
<1>3. PrintedIn(s) <=> \A j \in 1 .. m - 1 : s[j] = "esc" /\ s[j + 1] \in Runs => Printed(s[j + 1])
  BY DEF PrintedIn
<1>4. w # <<>> <=> n # 0
  BY EmptySeq
<1>5. \A j \in 1 .. n - 1 : w[j] = "esc" /\ w[j + 1] \in Runs => Printed(w[j + 1])'
  OBVIOUS
<1> HIDE DEF m, n, d
<1>6. ASSUME NEW j \in 1 .. m + n - 1, d[j] = "esc", d[j + 1] \in Runs
      PROVE  Printed(d[j + 1])'
  <2>1. CASE j + 1 <= m
    <3>1. j \in 1 .. m - 1 /\ d[j] = s[j] /\ d[j + 1] = s[j + 1]
      BY <1>1, <1>2, <2>1
    <3>2. Printed(s[j + 1])
      BY <1>3, <1>6, <3>1
    <3>3. PICK r \in Runs : r = d[j + 1]
      BY <1>6
    <3>4. Printed(r)
      BY <3>1, <3>2, <3>3
    <3> QED BY <3>3, <3>4 DEF PrintedStays
  <2>2. CASE j = m
    <3>1. n # 0 /\ d[j + 1] = w[1]
      BY <1>1, <1>2, <2>2
    <3> QED BY <1>4, <1>6, <3>1
  <2>3. CASE j > m
    <3>1. j - m \in 1 .. n - 1 /\ d[j] = w[j - m] /\ d[j + 1] = w[j - m + 1]
      BY <1>1, <1>2, <2>3
    <3>2. Printed(w[j - m + 1])'
      BY <1>5, <1>6, <3>1
    <3> QED BY <3>1, <3>2
  <2> QED BY <1>1, <2>1, <2>2, <2>3
<1>7. ASSUME NEW j \in 1 .. Len(d) - 1, d[j] = "esc", d[j + 1] \in Runs
      PROVE  Printed(d[j + 1])'
  <2>1. Len(d) = m + n
    BY <1>2
  <2>2. j \in 1 .. m + n - 1
    BY <1>1, <2>1
  <2> QED BY <1>6, <1>7, <2>2
<1> QED BY <1>7 DEF d

\* It does not matter in which order texts are joined.
LEMMA TextAssociative ==
  \A x, y, z \in Seq(Characters) : (x \o y) \o z = x \o (y \o z)
BY ConcatAssociative

\* The program prints some of its own text, an echo or a sentinel.
LEMMA ProgramPrintsKeeps == ASSUME IInv, ProgramPrints PROVE IInv'
<1>1. /\ ptyExit = "no" /\ prints < MaxPrints /\ prints' = prints + 1
      /\ UNCHANGED <<log, landed, poisoned, stopped, scanner, active, waiters, outcome, run, pieces,
                     awaited, session, ptyExit, typed>>
  BY DEF ProgramPrints, logVars, coordinator, ingestion
<1>2. /\ LogTypes /\ scanner.tail \in Seq(Characters) /\ unread \in Seq(Characters)
      /\ text \in Seq(Characters) /\ ended \in Seq([run : Runs, before : Nat])
  BY DEF IInv, Types, LogTypes
<1>3. PICK w \in Seq(Characters) :
        /\ unread' = unread \o w
        /\ text' \in Seq(Characters) /\ ended' \in Seq([run : Runs, before : Nat])
        /\ PrintedStays
        /\ \A j \in 1 .. Len(w) - 1 : w[j] = "esc" /\ w[j + 1] \in Runs => Printed(w[j + 1])'
        /\ w # <<>> => w[1] \notin Runs
  <2>1. CASE \E word \in Prints :
               unread' = unread \o word /\ text' = text \o word /\ UNCHANGED ended
    <3>1. PICK word \in Prints :
            unread' = unread \o word /\ text' = text \o word /\ UNCHANGED ended
      BY <2>1
    <3>2. word \in Seq(STRING \ Runs)
      BY RunsAssumption
    <3>3. word \in Seq(Characters) /\ Len(word) \in Nat /\ \A j \in 1 .. Len(word) : word[j] \notin Runs
      <4>1. STRING \ Runs \subseteq Characters
        BY DEF Characters
      <4>2. \A j \in 1 .. Len(word) : word[j] \in STRING \ Runs
        BY <3>2, ElementOfSeq
      <4> QED BY <3>2, <4>1, <4>2, SeqMonotonic, LenProperties
    <3>4. text' \in Seq(Characters) /\ ended' \in Seq([run : Runs, before : Nat]) /\ PrintedStays
      BY <1>2, <3>1, <3>3, ConcatProperties DEF PrintedStays, Printed
    <3>5. \A j \in 1 .. Len(word) - 1 : word[j + 1] \notin Runs
      BY <3>3
    <3>6. word # <<>> => word[1] \notin Runs
      BY <3>3, EmptySeq
    <3> QED BY <3>1, <3>3, <3>4, <3>5, <3>6
  <2>2. CASE \E r \in typed : \E echo \in Echoes(r) :
               unread' = unread \o echo /\ UNCHANGED <<text, ended>>
    <3>1. PICK r \in typed : \E echo \in Echoes(r) :
            unread' = unread \o echo /\ UNCHANGED <<text, ended>>
      BY <2>2
    <3>2. PICK echo \in Echoes(r) : unread' = unread \o echo /\ UNCHANGED <<text, ended>>
      BY <3>1
    <3>3. r \in Runs
      BY DEF IInv, Types
    <3>4. /\ echo \in Seq(Characters)
          /\ \A j \in 1 .. Len(echo) - 1 : ~(echo[j] = "esc" /\ echo[j + 1] \in Runs)
          /\ echo[1] \notin Runs
      BY <3>3, EchoIsNoSentinel
    <3>5. text' \in Seq(Characters) /\ ended' \in Seq([run : Runs, before : Nat]) /\ PrintedStays
      BY <1>2, <3>2 DEF PrintedStays, Printed
    <3> QED BY <3>2, <3>4, <3>5
  <2>3. CASE \E r \in typed : /\ unread' = unread \o Sentinel(r)
                              /\ ended' = Append(ended, [run |-> r, before |-> Len(text)])
                              /\ UNCHANGED text
    <3>1. PICK r \in typed : /\ unread' = unread \o Sentinel(r)
                             /\ ended' = Append(ended, [run |-> r, before |-> Len(text)])
                             /\ UNCHANGED text
      BY <2>3
    <3>2. r \in Runs
      BY DEF IInv, Types
    <3> DEFINE one == [run |-> r, before |-> Len(text)]
    <3>3. one \in [run : Runs, before : Nat] /\ one.run = r
      BY <1>2, <3>2, LenProperties
    <3> HIDE DEF one
    <3>4. /\ ended' \in Seq([run : Runs, before : Nat]) /\ Len(ended') = Len(ended) + 1
          /\ \A k \in 1 .. Len(ended) : ended'[k] = ended[k]
          /\ ended'[Len(ended) + 1] = one
      BY <1>2, <3>1, <3>3, AppendProperties DEF one
    <3>5. Len(ended) \in Nat /\ DOMAIN ended = 1 .. Len(ended) /\ DOMAIN ended' = 1 .. Len(ended')
      BY <1>2, <3>4, LenProperties
    <3>6. PrintedStays
      BY <3>4, <3>5 DEF PrintedStays, Printed
    <3>7. Printed(r)'
      BY <3>3, <3>4, <3>5 DEF Printed
    <3>8. "esc" \in Characters /\ r \in Characters /\ "esc" \notin Runs
      BY <3>2, SentinelAssumption DEF Characters
    <3>9. /\ Sentinel(r) \in Seq(Characters) /\ Len(Sentinel(r)) = 2
          /\ Sentinel(r)[1] = "esc" /\ Sentinel(r)[2] = r
      BY <3>8 DEF Sentinel
    <3>10. \A j \in 1 .. Len(Sentinel(r)) - 1 : Sentinel(r)[j + 1] = r
      BY <3>9
    <3> QED BY <1>2, <3>1, <3>4, <3>6, <3>7, <3>8, <3>9, <3>10
  <2> QED BY <2>1, <2>2, <2>3 DEF ProgramPrints
<1>4. LogKeeps
  BY <1>1, <1>2, LogStays
<1>5. PrintedIn(scanner.tail \o unread)'
  <2>1. PICK c \in Seq(Characters) : c = scanner.tail \o unread
    BY <1>2, ConcatProperties
  <2>2. (scanner.tail \o unread)' = c \o w
    <3>1. (scanner.tail \o unread) \o w = scanner.tail \o (unread \o w)
      BY <1>2, TextAssociative
    <3> QED BY <1>1, <1>3, <2>1, <3>1
  <2>3. PrintedIn(c)
    BY <2>1 DEF IInv
  <2>4. \A j \in 1 .. Len(c \o w) - 1 :
          (c \o w)[j] = "esc" /\ (c \o w)[j + 1] \in Runs => Printed((c \o w)[j + 1])'
    BY <1>3, <2>3, PrintedJoins
  <2>5. PICK d : d = c \o w
    OBVIOUS
  <2>6. PrintedIn(d)'
    BY <2>4, <2>5 DEF PrintedIn
  <2>7. (scanner.tail \o unread)' = d
    BY <2>2, <2>5
  <2> QED BY <2>6, <2>7 DEF PrintedIn
<1>6. \A r \in Runs : (Ending(r)' <=> Ending(r)) /\ (Recording(r)' <=> Recording(r))
  BY <1>1 DEF Ending, Ends, Recording
<1>7. EndsOnce' /\ AwaitsHead' /\ Phases'
  <2>1. EndsOnce' /\ Phases'
    BY <1>1 DEF IInv, EndsOnce, Ends, Phases
  <2>2. AwaitsHead'
    BY <1>1, <1>4, <1>6 DEF IInv, AwaitsHead, LogKeeps
  <2> QED BY <2>1, <2>2
<1>8. ASSUME NEW r \in Runs PROVE LogInv(r)' /\ ScanInv(r)' /\ WaitInv(r)' /\ OutcomeInv(r)'
  <2>1. LogInv(r)'
    BY <1>3, <1>4, LogInvStays
  <2>2. ScanInv(r)'
    BY <1>1, <1>3, <1>4, <1>6, ScanInvStays
  <2>3. WaitInv(r)'
    BY <1>1, <1>4, <1>6, WaitInvStays
  <2>4. landed \in Nat
    BY <1>2, SeqShape DEF LogTypes
  <2>5. OutcomeInv(r)'
    BY <1>1, <1>3, <1>4, <2>4, OutcomeInvStays
  <2> QED BY <2>1, <2>2, <2>3, <2>5
<1>9. Types'
  <2>1. unread' \in Seq(Characters)
    BY <1>2, <1>3, ConcatProperties
  <2>2. prints' \in 0 .. MaxPrints
    BY <1>1, RunsAssumption DEF IInv, Types
  <2> QED BY <1>1, <1>3, <2>1, <2>2, SMTT(40) DEF IInv, Types, IsSeq
<1> QED BY <1>5, <1>7, <1>8, <1>9 DEF IInv
-----------------------------------------------------------------------------
(* Scanning a chunk, and what was left at the exit *)

\* What is behind a place in printed text was printed as well.
LEMMA PartsWerePrinted ==
  ASSUME NEW t \in Seq(Characters), NEW u \in Seq(Characters), PrintedIn(t \o u),
         NEW k \in 1 .. Len(t) + 1
  PROVE  /\ PrintedIn(SubSeq(t, k, Len(t)) \o u)
         /\ \A r \in Runs : Holds(t, r) => Printed(r)
<1> DEFINE m == Len(t)
           n == Len(u)
           c == t \o u
           e == SubSeq(t, k, Len(t))
           d == e \o u
<1>1. m \in Nat /\ n \in Nat
  BY LenProperties
<1>2. /\ Len(c) = m + n /\ \A j \in 1 .. m + n : c[j] = IF j <= m THEN t[j] ELSE u[j - m]
  BY ConcatProperties
<1>3. /\ e \in Seq(Characters) /\ Len(e) = m - k + 1
      /\ \A j \in 1 .. m - k + 1 : e[j] = t[k + j - 1]
  <2>1. k \in Int /\ m \in Int /\ \A j \in k .. m : t[j] \in Characters
    BY <1>1, ElementOfSeq
  <2>2. e = SubSeq(t, k, m)
    OBVIOUS
  <2> HIDE DEF m, e
  <2>3. /\ e \in Seq(Characters) /\ Len(e) = IF k <= m THEN m - k + 1 ELSE 0
        /\ \A j \in 1 .. m - k + 1 : e[j] = t[k + j - 1]
    BY <2>1, <2>2, SubSeqProperties
  <2>4. k \in 1 .. m + 1
    BY DEF m
  <2> QED BY <1>1, <2>3, <2>4
<1> HIDE DEF e
<1>4. /\ Len(d) = Len(e) + n
      /\ \A j \in 1 .. Len(e) + n : d[j] = IF j <= Len(e) THEN e[j] ELSE u[j - Len(e)]
  BY <1>3, ConcatProperties
<1>5. k \in 1 .. m + 1 /\ PrintedIn(c)
  OBVIOUS
<1>6. \A q : Holds(t, q) <=> \E j \in 1 .. m - 1 : t[j] = "esc" /\ t[j + 1] = q
  BY DEF Holds
<1> HIDE DEF m, n, c, d
<1>7. Len(d) = m + n - k + 1 /\ \A j \in 1 .. m + n - k + 1 : d[j] = c[k + j - 1]
  <2>1. Len(d) = m + n - k + 1
    BY <1>1, <1>3, <1>4, <1>5
  <2>2. ASSUME NEW j \in 1 .. m + n - k + 1 PROVE d[j] = c[k + j - 1]
    <3>1. CASE j <= m - k + 1
      <4>1. d[j] = e[j] /\ e[j] = t[k + j - 1]
        BY <1>1, <1>3, <1>4, <1>5, <3>1
      <4>2. c[k + j - 1] = t[k + j - 1]
        BY <1>1, <1>2, <1>5, <3>1
      <4> QED BY <4>1, <4>2
    <3>2. CASE j > m - k + 1
      <4>1. d[j] = u[j - (m - k + 1)]
        BY <1>1, <1>3, <1>4, <1>5, <3>2
      <4>2. PICK i \in 1 .. m + n : i = k + j - 1 /\ ~(i <= m) /\ i - m = j - (m - k + 1)
        BY <1>1, <1>5, <3>2
      <4>3. c[i] = u[i - m]
        BY <1>2, <4>2
      <4> QED BY <4>1, <4>2, <4>3
    <3> QED BY <1>1, <1>5, <3>1, <3>2
  <2> QED BY <2>1, <2>2
<1>8. \A j \in 1 .. m + n - 1 : c[j] = "esc" /\ c[j + 1] \in Runs => Printed(c[j + 1])
  <2>1. \A j \in 1 .. Len(c) - 1 : c[j] = "esc" /\ c[j + 1] \in Runs => Printed(c[j + 1])
    BY <1>5 DEF PrintedIn
  <2>2. Len(c) - 1 = m + n - 1
    BY <1>1, <1>2
  <2> QED BY <2>1, <2>2
<1>9. PrintedIn(d)
  <2>1. ASSUME NEW j \in 1 .. Len(d) - 1, d[j] = "esc", d[j + 1] \in Runs
        PROVE  Printed(d[j + 1])
    <3>1. k + j - 1 \in 1 .. m + n - 1 /\ d[j] = c[k + j - 1] /\ d[j + 1] = c[(k + j - 1) + 1]
      <4>1. j \in 1 .. m + n - k /\ k + j - 1 \in 1 .. m + n - 1 /\ k + (j + 1) - 1 = (k + j - 1) + 1
        BY <1>1, <1>5, <1>7
      <4>2. j \in 1 .. m + n - k + 1 /\ j + 1 \in 1 .. m + n - k + 1
        BY <1>1, <1>5, <4>1
      <4> QED BY <1>7, <4>1, <4>2
    <3> QED BY <1>8, <2>1, <3>1
  <2> QED BY <2>1 DEF PrintedIn
<1>10. ASSUME NEW r \in Runs, Holds(t, r) PROVE Printed(r)
  <2>1. PICK j \in 1 .. m - 1 : t[j] = "esc" /\ t[j + 1] = r
    BY <1>6, <1>10
  <2>2. j \in 1 .. m + n - 1 /\ c[j] = t[j] /\ c[j + 1] = t[j + 1]
    BY <1>1, <1>2
  <2> QED BY <1>8, <2>1, <2>2
<1> QED BY <1>9, <1>10 DEF d, e

\* A scan of what was printed gives pieces that end runs which had not ended.
LEMMA ScanningKeeps ==
  ASSUME IInv, NEW t \in Seq(Characters), NEW res, GoodScan(res, t, scanner.active),
         NEW more \in Seq(Piece), \A k \in 1 .. Len(more) : more[k].kind = "flush",
         pieces = <<>>, Scanned(res, more), \A r \in Runs : Holds(t, r) => Printed(r),
         UNCHANGED <<logVars, active, waiters, outcome, run, awaited, session, programVars>>,
         unread' \in Seq(Characters), ptyExit' \in {"no", "queued", "flushing"},
         Phases', PrintedIn(scanner.tail \o unread)', ptyExit # "reset"
  PROVE  IInv'
<1>1. UNCHANGED <<log, landed, poisoned, stopped, active, waiters, outcome, run, awaited, session, typed,
                  ended, text, prints>>
  BY DEF logVars, programVars
<1>2. /\ res.pieces \in Seq(Piece) /\ res.active \subseteq scanner.active /\ res.tail \in Seq(Characters)
      /\ scanner' = [active |-> res.active, tail |-> res.tail] /\ pieces' = res.pieces \o more
  BY DEF GoodScan, Scanned
<1>3. /\ pieces' \in Seq(Piece) /\ Len(pieces') = Len(res.pieces) + Len(more)
      /\ \A k \in 1 .. Len(res.pieces) + Len(more) :
           pieces'[k] = IF k <= Len(res.pieces) THEN res.pieces[k] ELSE more[k - Len(res.pieces)]
      /\ Len(res.pieces) \in Nat /\ Len(more) \in Nat
  BY <1>2, ConcatProperties, LenProperties
<1>4. ASSUME NEW r \in Runs, NEW k \in 1 .. Len(pieces'), Ends(pieces'[k], r)
      PROVE  k \in 1 .. Len(res.pieces) /\ Ends(res.pieces[k], r)
  <2>1. CASE k <= Len(res.pieces)
    BY <1>3, <1>4, <2>1
  <2>2. CASE k > Len(res.pieces)
    <3>1. pieces'[k] = more[k - Len(res.pieces)] /\ k - Len(res.pieces) \in 1 .. Len(more)
      BY <1>3, <2>2
    <3>2. pieces'[k].kind = "flush"
      BY <3>1
    <3> QED BY <1>4, <3>2 DEF Ends
  <2> QED BY <1>3, <2>1, <2>2
<1>5. EndsOnce'
  <2> SUFFICES ASSUME NEW r \in Runs, NEW k \in 1 .. Len(pieces'), NEW l \in 1 .. Len(pieces'),
                      Ends(pieces'[k], r), Ends(pieces'[l], r)
               PROVE  k = l
    BY DEF EndsOnce, Ends
  <2>1. /\ k \in 1 .. Len(res.pieces) /\ Ends(res.pieces[k], r)
        /\ l \in 1 .. Len(res.pieces) /\ Ends(res.pieces[l], r)
    BY <1>4
  <2> QED BY <2>1 DEF GoodScan
<1>6. ASSUME NEW r \in Runs, Ending(r)'
      PROVE  r \in scanner.active \ res.active /\ Printed(r) /\ CompletionsOf(r) = {}
  <2>1. PICK k \in 1 .. Len(pieces') : Ends(pieces'[k], r)
    BY <1>6 DEF Ending, Ends
  <2>2. k \in 1 .. Len(res.pieces) /\ Ends(res.pieces[k], r)
    BY <1>4, <2>1
  <2>3. r \in scanner.active \ res.active /\ Holds(t, r)
    BY <2>2 DEF GoodScan
  <2> QED BY <2>3 DEF IInv, ScanInv
<1>7. LogTypes /\ LogKeeps /\ PrintedStays
  <2>1. LogTypes
    BY DEF IInv, Types, LogTypes
  <2> QED BY <1>1, <2>1, LogStays DEF PrintedStays, Printed
<1>8. awaited = 0 /\ AwaitsHead'
  <2>1. awaited = 0
    BY DEF IInv, AwaitsHead
  <2> QED BY <1>1, <2>1 DEF AwaitsHead
<1>9. ASSUME NEW r \in Runs PROVE LogInv(r)' /\ ScanInv(r)' /\ WaitInv(r)' /\ OutcomeInv(r)'
  <2>1. LogInv(r)'
    BY <1>7, LogInvStays
  <2>2. /\ CompletionsOf(r)' = CompletionsOf(r) /\ (Printed(r) => Printed(r)')
        /\ NamesInput(active[r], r) => NamesInput(active[r], r)'
    BY <1>1, <1>7 DEF LogKeeps, PrintedStays, NamesInput
  <2>3. r \in scanner'.active => r \in scanner.active /\ ~Ending(r)'
    BY <1>2, <1>6
  <2>4. Ending(r)' => r \in scanner.active /\ Printed(r) /\ CompletionsOf(r) = {}
    BY <1>6
  <2>5. ScanInv(r)'
    BY <1>1, <2>2, <2>3, <2>4 DEF IInv, ScanInv
  <2>6. r \in waiters => CompletionsOf(r) = {}
    BY DEF IInv, WaitInv, Recording
  <2>7. WaitInv(r)'
    BY <1>1, <2>2, <2>4, <2>6 DEF IInv, WaitInv
  <2>8. OutcomeInv(r)'
    <3>1. outcome[r] # "exited"
      BY DEF IInv, OutcomeInv
    <3> QED BY <1>1, <2>2, <3>1 DEF IInv, OutcomeInv
  <2> QED BY <2>1, <2>5, <2>7, <2>8
<1>10. Types'
  <2>1. scanner' \in [active : SUBSET Runs, tail : Seq(Characters)]
    BY <1>2 DEF IInv, Types
  <2> QED BY <1>1, <1>3, <2>1, SMTT(40) DEF IInv, Types, IsSeq
<1> QED BY <1>5, <1>8, <1>9, <1>10 DEF IInv

\* The next chunk is scanned.
LEMMA BeginChunkKeeps == ASSUME IInv, BeginChunk PROVE IInv'
<1>1. PICK n \in 1 .. Len(unread) :
        /\ Scanned(ScannerFeed(scanner, SubSeq(unread, 1, n)), <<>>)
        /\ unread' = SubSeq(unread, n + 1, Len(unread))
  BY DEF BeginChunk
<1>2. /\ pieces = <<>> /\ unread # <<>>
      /\ UNCHANGED <<logVars, active, waiters, outcome, run, awaited, session, ptyExit, programVars>>
  BY DEF BeginChunk
<1>3. /\ scanner.tail \in Seq(Characters) /\ unread \in Seq(Characters) /\ scanner.active \in SUBSET Runs
      /\ PrintedIn(scanner.tail \o unread)
  BY DEF IInv, Types
<1>4. PICK m \in Nat : m = Len(unread) /\ n \in 1 .. m
  BY <1>3, LenProperties
<1>5. ptyExit' \in {"no", "queued", "flushing"} /\ ptyExit # "reset" /\ Phases'
  BY <1>2 DEF IInv, Phases, Types
<1>6. PICK a, b \in Seq(Characters) :
        a = SubSeq(unread, 1, n) /\ b = SubSeq(unread, n + 1, m) /\ a \o b = unread
  <2>1. 1 \in 1 .. m + 1 /\ n \in 0 .. m /\ n + 1 \in 1 .. m + 1 /\ m \in 0 .. m /\ n \in n .. m
        /\ n \in 1 - 1 .. m /\ m \in n .. m
    BY <1>4
  <2>2. SubSeq(unread, 1, n) \in Seq(Characters) /\ SubSeq(unread, n + 1, m) \in Seq(Characters)
    BY <1>3, <1>4, <2>1, PartOf
  <2>3. SubSeq(unread, 1, n) \o SubSeq(unread, n + 1, m) = SubSeq(unread, 1, m)
    BY <1>3, <1>4, <2>1, ConcatAdjacentSubSeq
  <2>4. SubSeq(unread, 1, m) = unread
    BY <1>3, <1>4, SubSeqFull
  <2> QED BY <2>2, <2>3, <2>4
<1>7. PICK t \in Seq(Characters) : t = scanner.tail \o a
  BY <1>3, ConcatProperties
<1>8. PrintedIn(t \o b)
  <2>1. (scanner.tail \o a) \o b = scanner.tail \o (a \o b)
    BY <1>3, TextAssociative
  <2>2. t \o b = scanner.tail \o unread
    BY <1>3, <1>6, <1>7, <2>1
  <2> QED BY <1>3, <2>2
<1>9. PICK res : res = Scan(t, scanner.active, FALSE)
  OBVIOUS
<1>10. GoodScan(res, t, scanner.active)
  BY <1>3, <1>9, ScanIsGood
<1>11. Scanned(res, <<>>) /\ unread' = b
  BY <1>1, <1>4, <1>6, <1>7, <1>9 DEF ScannerFeed
<1>12. PICK k \in 1 .. Len(t) + 1 : res.tail = SubSeq(t, k, Len(t))
  BY <1>10 DEF GoodScan
<1>13. PrintedIn(SubSeq(t, k, Len(t)) \o b) /\ \A r \in Runs : Holds(t, r) => Printed(r)
  BY <1>8, PartsWerePrinted
<1>14. PrintedIn(scanner.tail \o unread)'
  <2>1. PICK d : d = SubSeq(t, k, Len(t)) \o b
    OBVIOUS
  <2>2. (scanner.tail \o unread)' = d
    BY <1>11, <1>12, <2>1 DEF Scanned
  <2>3. PrintedIn(d)'
    BY <1>2, <1>13, <2>1 DEF PrintedIn, Printed, programVars
  <2> QED BY <2>2, <2>3 DEF PrintedIn
<1>15. <<>> \in Seq(Piece) /\ \A l \in 1 .. Len(<<>>) : <<>>[l].kind = "flush"
  BY EmptySeq
<1> QED BY <1>2, <1>5, <1>10, <1>11, <1>13, <1>14, <1>15, ScanningKeeps

\* What the scanner kept is scanned once more at the exit.
LEMMA BeginFlushKeeps == ASSUME IInv, BeginFlush PROVE IInv'
<1> DEFINE more == <<[kind |-> "flush"]>>
<1>1. /\ pieces = <<>> /\ unread = <<>> /\ ptyExit = "queued" /\ ptyExit' = "flushing"
      /\ Scanned(ScannerFlush(scanner), more)
      /\ UNCHANGED <<logVars, active, waiters, outcome, run, awaited, session, unread, programVars>>
  BY DEF BeginFlush
<1>2. more \in Seq(Piece) /\ \A k \in 1 .. Len(more) : more[k].kind = "flush"
  <2>1. [kind |-> "flush"] \in Piece
    BY DEF Piece
  <2> QED BY <2>1
<1> HIDE DEF more
<1>3. /\ scanner.tail \in Seq(Characters) /\ unread \in Seq(Characters) /\ scanner.active \in SUBSET Runs
      /\ PrintedIn(scanner.tail \o unread)
  BY DEF IInv, Types
<1>4. ptyExit' \in {"no", "queued", "flushing"} /\ ptyExit # "reset" /\ Phases'
  BY <1>1 DEF Phases
<1>5. PICK t \in Seq(Characters) : t = scanner.tail
  BY <1>3
<1>6. PICK res : res = Scan(t, scanner.active, TRUE)
  OBVIOUS
<1>7. GoodScan(res, t, scanner.active)
  BY <1>3, <1>6, ScanIsGood
<1>8. Scanned(res, more)
  BY <1>1, <1>5, <1>6 DEF ScannerFlush
<1>9. PICK k \in 1 .. Len(t) + 1 : res.tail = SubSeq(t, k, Len(t))
  BY <1>7 DEF GoodScan
<1>10. PICK b \in Seq(Characters) : b = unread
  BY <1>3
<1>11. PrintedIn(SubSeq(t, k, Len(t)) \o b) /\ \A r \in Runs : Holds(t, r) => Printed(r)
  BY <1>3, <1>5, <1>10, PartsWerePrinted
<1>12. PrintedIn(scanner.tail \o unread)'
  <2>1. PICK d : d = SubSeq(t, k, Len(t)) \o b
    OBVIOUS
  <2>2. (scanner.tail \o unread)' = d
    BY <1>1, <1>8, <1>9, <1>10, <2>1 DEF Scanned
  <2>3. PrintedIn(d)'
    BY <1>1, <1>11, <2>1 DEF PrintedIn, Printed, programVars
  <2> QED BY <2>2, <2>3 DEF PrintedIn
<1>13. unread' \in Seq(Characters)
  BY <1>1, <1>3
<1> QED BY <1>1, <1>2, <1>4, <1>7, <1>8, <1>11, <1>12, <1>13, ScanningKeeps
-----------------------------------------------------------------------------
(* Taking the pieces one by one *)

\* The first piece is one of a kind, and a run is named by the pieces that end it.
LEMMA HeadIsPiece ==
  ASSUME IInv, pieces # <<>>
  PROVE  /\ Len(pieces) \in Nat /\ Len(pieces) >= 1 /\ Head(pieces) = pieces[1]
         /\ Head(pieces).kind \in {"output", "run_complete", "record", "flush"}
         /\ Head(pieces).kind \in {"run_complete", "record"} =>
              Head(pieces).run \in Runs /\ Ends(pieces[1], Head(pieces).run)
         /\ \A r \in Runs : Recording(r) => Head(pieces).kind = "record" /\ Head(pieces).run = r
         /\ Head(pieces).kind = "record" => Recording(Head(pieces).run)
<1>1. pieces \in Seq(Piece)
  BY DEF IInv, Types
<1>2. Len(pieces) \in Nat /\ Len(pieces) >= 1
  <2>1. Len(pieces) \in Nat \ {0}
    BY <1>1, EmptySeq
  <2> QED BY <2>1
<1>3. Head(pieces) \in Piece /\ Head(pieces) = pieces[1]
  BY <1>1, HeadTailProperties
<1>4. PICK p \in Piece : p = Head(pieces)
  BY <1>3
<1>5. /\ p.kind \in {"output", "run_complete", "record", "flush"}
      /\ p.kind \in {"run_complete", "record"} => p.run \in Runs /\ p = [kind |-> p.kind, run |-> p.run]
  BY DEF Piece
<1> QED BY <1>2, <1>3, <1>4, <1>5 DEF Ends, Recording

\* What is left of the pieces ends no other run, and one whose completion is
\* recorded no longer.
LEMMA LeftOfPieces ==
  ASSUME IInv, pieces # <<>>, pieces' = PiecesLeft
  PROVE  /\ pieces' \in Seq(Piece) /\ EndsOnce'
         /\ \A r \in Runs : Ending(r)' => Ending(r)
         /\ \A r \in Runs : Recording(r) => ~Ending(r)'
<1> DEFINE n == Len(pieces)
<1>1. pieces \in Seq(Piece) /\ n \in Nat /\ n >= 1 /\ Head(pieces) = pieces[1]
  BY HeadIsPiece DEF IInv, Types
<1>2. PICK q : q = Tail(pieces)
  OBVIOUS
<1>3. q \in Seq(Piece) /\ Len(q) = n - 1 /\ \A k \in 1 .. n - 1 : q[k] = pieces[k + 1]
  BY <1>1, <1>2, HeadTailProperties
<1>4. PICK d \in {0, 1} :
        /\ pieces' \in Seq(Piece) /\ Len(pieces') = n - d
        /\ \A r \in Runs : \A k \in 1 .. n - d : Ends(pieces'[k], r) <=> Ends(pieces[k + d], r)
        /\ \A r \in Runs : Recording(r) => d = 1
  <2>1. CASE Head(pieces).kind = "run_complete"
    <3> DEFINE record == [kind |-> "record", run |-> Head(pieces).run]
    <3>1. record \in Piece /\ record.kind = "record" /\ record.run = Head(pieces).run
      <4>1. Head(pieces).run \in Runs
        BY <2>1, HeadIsPiece
      <4> QED BY <4>1 DEF Piece
    <3>2. pieces' = <<record>> \o q
      BY <1>2, <2>1 DEF PiecesLeft
    <3> HIDE DEF record
    <3>3. <<record>> \in Seq(Piece) /\ Len(<<record>>) = 1 /\ <<record>>[1] = record
      BY <3>1
    <3>4. /\ pieces' \in Seq(Piece) /\ Len(pieces') = 1 + (n - 1)
          /\ \A k \in 1 .. 1 + (n - 1) : pieces'[k] = IF k <= 1 THEN record ELSE q[k - 1]
      <4>1. /\ <<record>> \o q \in Seq(Piece) /\ Len(<<record>> \o q) = Len(<<record>>) + Len(q)
            /\ \A k \in 1 .. Len(<<record>>) + Len(q) :
                 (<<record>> \o q)[k] =
                   IF k <= Len(<<record>>) THEN <<record>>[k] ELSE q[k - Len(<<record>>)]
        BY <1>3, <3>3, ConcatProperties
      <4> QED BY <1>1, <1>3, <3>2, <3>3, <4>1
    <3> HIDE DEF n
    <3>5. ASSUME NEW r \in Runs, NEW k \in 1 .. n PROVE Ends(pieces'[k], r) <=> Ends(pieces[k], r)
      <4>1. CASE k = 1
        <5>1. pieces'[k] = record
          BY <1>1, <3>4, <4>1
        <5> QED BY <1>1, <2>1, <3>1, <4>1, <5>1 DEF Ends
      <4>2. CASE k # 1
        <5>1. k \in 1 .. 1 + (n - 1) /\ ~(k <= 1) /\ k - 1 \in 1 .. n - 1 /\ (k - 1) + 1 = k
          BY <1>1, <4>2
        <5>2. pieces'[k] = pieces[k]
          BY <1>3, <3>4, <5>1
        <5> QED BY <5>2
      <4> QED BY <4>1, <4>2
    <3>6. Len(pieces') = n - 0 /\ \A k \in 1 .. n - 0 : k \in 1 .. n /\ k + 0 = k
      BY <1>1, <3>4
    <3>7. \A r \in Runs : ~Recording(r)
      BY <2>1, HeadIsPiece
    <3> QED BY <3>4, <3>5, <3>6, <3>7
  <2>2. CASE Head(pieces).kind # "run_complete"
    <3>1. pieces' = q
      BY <1>2, <2>2 DEF PiecesLeft
    <3> QED BY <1>3, <3>1
  <2> QED BY <2>1, <2>2
<1>5. \A r \in Runs : \A k, l \in 1 .. n : Ends(pieces[k], r) /\ Ends(pieces[l], r) => k = l
  BY DEF IInv, EndsOnce
<1> HIDE DEF n
<1>6. \A k \in 1 .. n - d : k + d \in 1 .. n
  BY <1>1, <1>4
<1>7. EndsOnce'
  <2> SUFFICES ASSUME NEW r \in Runs, NEW k \in 1 .. Len(pieces'), NEW l \in 1 .. Len(pieces'),
                      Ends(pieces'[k], r), Ends(pieces'[l], r)
               PROVE  k = l
    BY DEF EndsOnce, Ends
  <2>1. k + d \in 1 .. n /\ l + d \in 1 .. n /\ Ends(pieces[k + d], r) /\ Ends(pieces[l + d], r)
    BY <1>4, <1>6
  <2>2. k + d = l + d
    BY <1>5, <2>1
  <2> QED BY <1>1, <1>4, <2>2
<1>8. ASSUME NEW r \in Runs, Ending(r)' PROVE Ending(r) /\ ~Recording(r)
  <2>1. PICK k \in 1 .. Len(pieces') : Ends(pieces'[k], r)
    BY <1>8 DEF Ending, Ends
  <2>2. k + d \in 1 .. n /\ Ends(pieces[k + d], r)
    BY <1>4, <1>6, <2>1
  <2>3. Ending(r)
    BY <2>2 DEF Ending, n
  <2>4. ASSUME Recording(r) PROVE FALSE
    <3>1. d = 1 /\ Ends(pieces[1], r) /\ 1 \in 1 .. n
      BY <1>1, <1>4, <2>4, HeadIsPiece
    <3>2. k + d = 1
      BY <1>5, <2>2, <3>1
    <3> QED BY <1>1, <1>4, <2>1, <3>1, <3>2
  <2> QED BY <2>3, <2>4
<1> QED BY <1>4, <1>7, <1>8

\* No completion of a run that is ending or waited for is in the log before
\* the ingestion awaits it.
LEMMA NothingAwaited ==
  ASSUME IInv, awaited = 0, NEW r \in Runs, Ending(r) \/ r \in waiters
  PROVE  CompletionsOf(r) = {}
<1> SUFFICES ASSUME NEW i \in CompletionsOf(r) PROVE FALSE
  OBVIOUS
<1>1. i = 0
  BY DEF IInv, WaitInv
<1>2. IsSeq(log)
  BY DEF IInv, Types
<1>3. i \in 1 .. Len(log) /\ Len(log) \in Nat
  BY <1>2, SeqShape DEF CompletionsOf
<1> QED BY <1>1, <1>3

\* A piece of which nothing is left to append.
LEMMA PieceOfNothing ==
  ASSUME IInv, pieces # <<>>, awaited = 0, pieces' = PiecesLeft,
         UNCHANGED <<log, landed, poisoned, stopped, scanner, active, waiters, outcome, run, awaited,
                     session, ptyExit, unread, typed, ended, text, prints>>
  PROVE  IInv'
<1>1. pieces' \in Seq(Piece) /\ EndsOnce' /\ \A r \in Runs : Ending(r)' => Ending(r)
  BY LeftOfPieces
<1>2. LogTypes /\ LogKeeps /\ PrintedStays
  <2>1. LogTypes
    BY DEF IInv, Types, LogTypes
  <2> QED BY <2>1, LogStays DEF PrintedStays, Printed
<1>3. AwaitsHead' /\ Phases'
  BY DEF IInv, AwaitsHead, Phases
<1>4. PrintedIn(scanner.tail \o unread)'
  BY DEF IInv, PrintedIn, Printed
<1>5. ASSUME NEW r \in Runs PROVE LogInv(r)' /\ ScanInv(r)' /\ WaitInv(r)' /\ OutcomeInv(r)'
  <2>1. LogInv(r)'
    BY <1>2, LogInvStays
  <2>2. ScanInv(r)'
    BY <1>1, <1>2, ScanInvStays
  <2>3. Ending(r) \/ r \in waiters => CompletionsOf(r) = {}
    BY NothingAwaited
  <2>4. CompletionsOf(r)' = CompletionsOf(r)
    BY <1>2 DEF LogKeeps
  <2>5. WaitInv(r)'
    BY <1>1, <2>3, <2>4 DEF IInv, WaitInv
  <2>6. landed \in Nat
    BY <1>2, SeqShape DEF LogTypes
  <2>7. OutcomeInv(r)'
    BY <1>2, <2>6, OutcomeInvStays
  <2> QED BY <2>1, <2>2, <2>5, <2>7
<1>6. Types'
  BY <1>1 DEF IInv, Types, IsSeq
<1> QED BY <1>1, <1>3, <1>4, <1>5, <1>6 DEF IInv

\* A piece that appends output.
LEMMA PieceOfOutput ==
  ASSUME IInv, pieces # <<>>, awaited = 0, Head(pieces).kind # "record",
         NEW data, AppendRecord([kind |-> "output", data |-> data]), awaited' = Acknowledged,
         UNCHANGED <<landed, poisoned, scanner, active, waiters, outcome, run, pieces, session,
                     ptyExit, unread, typed, ended, text, prints>>
  PROVE  IInv'
<1>1. PICK record : record = [kind |-> "output", data |-> data]
  OBVIOUS
<1>2. LogTypes /\ AppendRecord(record) /\ record.kind # "run_complete"
  BY <1>1 DEF IInv, Types, LogTypes
<1>3. LogTypes' /\ (stopped => stopped')
  BY <1>2, LogAppends
<1>4. LogKeeps /\ PrintedStays
  BY <1>2, LogAppends DEF PrintedStays, Printed
<1>5. /\ \A r \in Runs : (Ending(r)' <=> Ending(r)) /\ ~Recording(r)'
      /\ EndsOnce'
  <2>1. \A r \in Runs : ~Recording(r)
    BY HeadIsPiece
  <2> QED BY <2>1 DEF IInv, EndsOnce, Ending, Ends, Recording
<1>6. AwaitsHead' /\ Phases'
  <2>1. poisoned' \/ awaited' <= Len(log')
    <3>1. ~poisoned => awaited' = Len(log')
      BY <1>2, <1>3, AcknowledgesNumber
    <3>2. Len(log') \in Nat
      BY <1>4 DEF LogKeeps
    <3> QED BY <3>1, <3>2
  <2> QED BY <1>5, <2>1 DEF IInv, AwaitsHead, Phases
<1>7. PrintedIn(scanner.tail \o unread)'
  BY DEF IInv, PrintedIn, Printed
<1>8. ASSUME NEW r \in Runs PROVE LogInv(r)' /\ ScanInv(r)' /\ WaitInv(r)' /\ OutcomeInv(r)'
  <2>1. LogInv(r)'
    BY <1>4, LogInvStays
  <2>2. ScanInv(r)'
    BY <1>3, <1>4, <1>5, ScanInvStays
  <2>3. Ending(r) \/ r \in waiters => CompletionsOf(r) = {}
    BY NothingAwaited
  <2>4. CompletionsOf(r)' = CompletionsOf(r)
    BY <1>4 DEF LogKeeps
  <2>5. WaitInv(r)'
    BY <1>5, <2>3, <2>4 DEF IInv, WaitInv
  <2>6. landed \in Nat
    BY <1>2, SeqShape DEF LogTypes
  <2>7. OutcomeInv(r)'
    BY <1>3, <1>4, <2>6, OutcomeInvStays
  <2> QED BY <2>1, <2>2, <2>5, <2>7
<1>9. Types'
  <2>1. stopped' \in BOOLEAN
    BY <1>2 DEF IInv, Types, AppendRecord
  <2>2. awaited' \in Nat
    BY <1>2, <1>3, AcknowledgesNumber
  <2> QED BY <1>3, <2>1, <2>2, SMTT(40) DEF IInv, Types, LogTypes, IsSeq
<1> QED BY <1>5, <1>6, <1>7, <1>8, <1>9 DEF IInv

\* A piece that records the completion of a run, which had none.
LEMMA PieceOfCompletion ==
  ASSUME IInv, NEW r \in Runs, Recording(r), awaited = 0,
         AppendRecord([kind |-> "run_complete", run |-> r, input |-> active[r]]),
         awaited' = Acknowledged,
         UNCHANGED <<landed, poisoned, scanner, active, waiters, outcome, run, pieces, session,
                     ptyExit, unread, typed, ended, text, prints>>
  PROVE  IInv'
<1>1. PICK record : record = [kind |-> "run_complete", run |-> r, input |-> active[r]]
  OBVIOUS
<1>2. LogTypes /\ AppendRecord(record)
  BY <1>1 DEF IInv, Types, LogTypes
<1>3. PICK n \in Nat :
        /\ LogTypes' /\ awaited' = n /\ (stopped => stopped') /\ (poisoned => log' = log)
        /\ poisoned \/ stopped' => LogKeeps
        /\ ~poisoned => n = Len(log')
        /\ ~stopped' => Enqueue(record)
  <2>1. /\ LogTypes' /\ (stopped => stopped') /\ (poisoned => log' = log)
        /\ stopped' => LogKeeps
        /\ ~stopped' => Enqueue(record)
    BY <1>2, LogAppends
  <2>2. poisoned => LogKeeps
    BY <1>2, <2>1, LogStays
  <2>3. Acknowledged \in Nat /\ (~poisoned => Acknowledged = Len(log'))
    BY <1>2, <2>1, AcknowledgesNumber
  <2> QED BY <2>1, <2>2, <2>3
<1>4. /\ pieces # <<>> /\ Ending(r) /\ r \notin scanner.active /\ Printed(r) /\ run[r] # "idle"
      /\ poisoned \/ stopped \/ NamesInput(active[r], r)
  <2>1. pieces # <<>>
    BY DEF Recording
  <2>2. Ending(r)
    BY <2>1, HeadIsPiece DEF Ending, Recording
  <2> QED BY <2>1, <2>2 DEF IInv, ScanInv
<1> DEFINE kept == poisoned \/ stopped'
<1>5. PICK m \in Nat :
         /\ m = Len(log) /\ DOMAIN log = 1 .. m /\ \A i \in 1 .. m : log'[i] = log[i]
         /\ ~kept => DOMAIN log' = 1 .. n /\ n = m + 1 /\ log'[n] = record
  <2>1. Len(log) \in Nat /\ DOMAIN log = 1 .. Len(log)
    BY <1>2, SeqShape DEF LogTypes
  <2>2. CASE kept
    BY <1>3, <2>1, <2>2 DEF LogKeeps
  <2>3. CASE ~kept
    <3>1. /\ DOMAIN log' = 1 .. Len(log') /\ Len(log') = Len(log) + 1 /\ log'[Len(log) + 1] = record
          /\ \A i \in 1 .. Len(log) : log'[i] = log[i]
      BY <1>2, <1>3, <2>3, LogGrows
    <3>2. n = Len(log')
      BY <1>3, <2>3
    <3> QED BY <2>1, <2>3, <3>1, <3>2
  <2> QED BY <2>2, <2>3
<1> HIDE DEF kept
<1>6. CompletionsOf(r) = {}
  BY <1>4, NothingAwaited
<1>7. \A q \in Runs : /\ Ending(q)' <=> Ending(q)
                      /\ Recording(q)' <=> q = r
                      /\ Printed(q)' <=> Printed(q)
  <2>1. \A q \in Runs : Recording(q) <=> q = r
    BY DEF Recording
  <2> QED BY <2>1 DEF Ending, Ends, Recording, Printed
<1>8. ASSUME NEW q \in Runs
      PROVE  /\ q # r \/ kept => CompletionsOf(q)' = CompletionsOf(q)
             /\ q = r /\ ~kept => CompletionsOf(q)' = {n}
             /\ \A k : NamesInput(k, q) => NamesInput(k, q)'
  <2>1. CASE kept
    BY <1>3, <2>1 DEF kept, LogKeeps
  <2>2. CASE ~kept
    <3>1. \A i : i \in DOMAIN log' <=> i \in DOMAIN log \/ i = n
      BY <1>5, <2>2
    <3>2. /\ \A i \in DOMAIN log : log'[i] = log[i]
          /\ log'[n].kind = "run_complete" /\ log'[n].run = r
      BY <1>1, <1>5, <2>2
    <3>3. n \notin DOMAIN log /\ n \in DOMAIN log'
      BY <1>5, <2>2
    <3>4. q # r => CompletionsOf(q)' = CompletionsOf(q)
      BY <3>1, <3>2 DEF CompletionsOf
    <3>5. CompletionsOf(r)' = CompletionsOf(r) \union {n}
      BY <3>1, <3>2, SMTT(40) DEF CompletionsOf
    <3>6. ASSUME NEW k, NamesInput(k, q) PROVE NamesInput(k, q)'
      <4>1. k \in 1 .. m /\ log[k] = [kind |-> "input_run", run |-> q]
        BY <1>5, <3>6 DEF NamesInput
      <4>2. k \in 1 .. n /\ n = Len(log') /\ log'[k] = log[k]
        BY <1>3, <1>5, <2>2, <4>1 DEF kept
      <4> QED BY <4>1, <4>2 DEF NamesInput
    <3> QED BY <1>6, <2>2, <3>4, <3>5, <3>6
  <2> QED BY <2>1, <2>2
<1>9. AwaitsHead'
  <2>1. poisoned' \/ awaited' <= Len(log')
    <3>1. CASE poisoned
      BY <3>1
    <3>2. CASE ~poisoned
      <4>1. awaited' = n /\ Len(log') = n
        BY <1>3, <3>2
      <4> QED BY <4>1
    <3> QED BY <3>1, <3>2
  <2>2. ASSUME NEW q \in Runs, awaited' \in 1 .. Len(log'), Recording(q)'
        PROVE  stopped' \/ awaited' \in CompletionsOf(q)'
    <3>1. q = r
      BY <1>7, <2>2
    <3>2. ASSUME poisoned PROVE FALSE
      <4>1. awaited' = m + 1
        BY <1>5, <3>2 DEF Acknowledged
      <4>2. awaited' \in 1 .. m /\ m \in Nat
        BY <1>3, <1>5, <2>2, <3>2
      <4> QED BY <4>1, <4>2
    <3>3. ~stopped' => CompletionsOf(q)' = {n} /\ awaited' = n
      BY <1>3, <1>8, <3>1, <3>2 DEF kept
    <3> QED BY <3>3
  <2> QED BY <1>4, <2>1, <2>2 DEF AwaitsHead
<1>10. EndsOnce' /\ Phases' /\ ptyExit # "reset"
  BY <1>4 DEF IInv, EndsOnce, Ends, Phases
<1>11. PrintedIn(scanner.tail \o unread)'
  BY DEF IInv, PrintedIn, Printed
<1>12. ASSUME NEW q \in Runs PROVE LogInv(q)'
  <2>1. ASSUME NEW i \in CompletionsOf(q)
        PROVE  (Printed(q) /\ log[i].input \in 1 .. i - 1 /\ NamesInput(log[i].input, q))'
    <3>1. i \in 1 .. m /\ log'[i] = log[i]
      BY <1>5 DEF CompletionsOf
    <3>2. PICK k : k = log[i].input
      OBVIOUS
    <3>3. Printed(q) /\ k \in 1 .. i - 1 /\ NamesInput(k, q)
      BY <3>2 DEF IInv, LogInv
    <3>4. NamesInput(k, q)' /\ Printed(q)' /\ log'[i].input = k
      BY <1>7, <1>8, <3>1, <3>2, <3>3
    <3> QED BY <3>3, <3>4
  <2>2. CASE q # r \/ kept
    <3>1. CompletionsOf(q)' = CompletionsOf(q)
      BY <1>8, <2>2
    <3> QED BY <2>1, <3>1 DEF IInv, LogInv
  <2>3. CASE q = r /\ ~kept
    <3>1. CompletionsOf(q)' = {n}
      BY <1>8, <2>3
    <3>2. PICK k : k = active[r]
      OBVIOUS
    <3>3. NamesInput(k, q)' /\ Printed(q)' /\ k \in 1 .. m
      <4>1. ~poisoned /\ ~stopped
        BY <1>3, <2>3 DEF kept
      <4> QED BY <1>4, <1>7, <1>8, <1>5, <2>3, <3>2, <4>1 DEF NamesInput
    <3>4. log'[n].input = k /\ k \in 1 .. n - 1
      BY <1>1, <1>5, <2>3, <3>2, <3>3
    <3>5. (Printed(q) /\ log[n].input \in 1 .. n - 1 /\ NamesInput(log[n].input, q))'
      BY <3>3, <3>4
    <3> QED BY <3>1, <3>5 DEF LogInv
  <2> QED BY <2>2, <2>3
<1>13. ASSUME NEW q \in Runs PROVE ScanInv(q)' /\ WaitInv(q)' /\ OutcomeInv(q)'
  <2>1. ScanInv(q)'
    <3>1. q \in scanner.active => q # r
      BY <1>4
    <3> QED BY <1>3, <1>7, <1>8, <3>1 DEF IInv, ScanInv
  <2>2. Ending(q) \/ q \in waiters => CompletionsOf(q) = {}
    BY NothingAwaited
  <2>3. \A i \in CompletionsOf(q)' : i \in CompletionsOf(q) \/ (q = r /\ i = n)
    BY <1>8, SMTT(40)
  <2>4. WaitInv(q)'
    BY <1>3, <1>4, <1>7, <2>2, <2>3 DEF IInv, WaitInv
  <2>5. CompletionsOf(q) \subseteq CompletionsOf(q)'
    BY <1>6, <1>8
  <2>6. OutcomeInv(q)'
    BY <1>3, <1>7, <1>10, <2>5, SMTT(40) DEF IInv, OutcomeInv
  <2> QED BY <2>1, <2>4, <2>6
<1>14. Types'
  <2>1. stopped' \in BOOLEAN
    BY <1>2 DEF IInv, Types, AppendRecord
  <2> QED BY <1>3, <2>1 DEF IInv, Types, LogTypes, IsSeq
<1> QED BY <1>9, <1>10, <1>11, <1>12, <1>13, <1>14 DEF IInv

\* The next piece is taken.
LEMMA TakePieceKeeps == ASSUME IInv, TakePiece PROVE IInv'
<1>1. /\ pieces # <<>> /\ awaited = 0
      /\ UNCHANGED <<landed, poisoned, scanner, active, waiters, outcome, run, session, ptyExit, unread,
                     typed, ended, text, prints>>
  BY DEF TakePiece, programVars
<1>2. Head(pieces).kind \in {"output", "run_complete", "record", "flush"}
  BY <1>1, HeadIsPiece
<1>3. CASE Head(pieces).kind = "record"
  <2> DEFINE r == Head(pieces).run
  <2>1. /\ AppendRecord([kind |-> "run_complete", run |-> r, input |-> active[r]])
        /\ awaited' = Acknowledged /\ UNCHANGED pieces
    BY <1>3 DEF TakePiece
  <2>2. r \in Runs /\ Recording(r)
    BY <1>1, <1>3, HeadIsPiece
  <2>3. PICK q \in Runs : q = r
    BY <2>2
  <2> HIDE DEF r
  <2>4. /\ AppendRecord([kind |-> "run_complete", run |-> q, input |-> active[q]]) /\ Recording(q)
    BY <2>1, <2>2, <2>3
  <2> QED BY <1>1, <2>1, <2>4, PieceOfCompletion
<1>4. CASE Head(pieces).kind # "record"
  <2>1. \/ pieces' = PiecesLeft /\ UNCHANGED <<log, stopped, awaited>>
        \/ \E data : /\ AppendRecord([kind |-> "output", data |-> data])
                     /\ awaited' = Acknowledged /\ UNCHANGED pieces
    <3>1. CASE Head(pieces).kind = "output"
      BY <3>1 DEF TakePiece, Emit
    <3>2. CASE Head(pieces).kind = "run_complete"
      BY <3>2 DEF TakePiece, Emit
    <3>3. CASE Head(pieces).kind = "flush"
      BY <3>3 DEF TakePiece, Emit
    <3> QED BY <1>2, <1>4, <3>1, <3>2, <3>3
  <2>2. CASE pieces' = PiecesLeft /\ UNCHANGED <<log, stopped, awaited>>
    BY <1>1, <2>2, PieceOfNothing
  <2>3. CASE \E data : /\ AppendRecord([kind |-> "output", data |-> data])
                       /\ awaited' = Acknowledged /\ UNCHANGED pieces
    <3>1. PICK data : /\ AppendRecord([kind |-> "output", data |-> data])
                      /\ awaited' = Acknowledged /\ UNCHANGED pieces
      BY <2>3
    <3> QED BY <1>1, <1>4, <3>1, PieceOfOutput
  <2> QED BY <2>1, <2>2, <2>3
<1> QED BY <1>3, <1>4

\* The awaited record is on disk; a completion answers its waiter.
LEMMA PieceLandsKeeps == ASSUME IInv, PieceLands PROVE IInv'
<1>1. /\ awaited \in 1 .. landed /\ awaited' = 0 /\ pieces' = PiecesLeft
      /\ IF Head(pieces).kind = "record"
         THEN /\ active' = [active EXCEPT ![Head(pieces).run] = 0]
              /\ Settle(Head(pieces).run, "completed")
         ELSE UNCHANGED <<active, waiters, outcome>>
      /\ UNCHANGED <<log, landed, poisoned, stopped, scanner, run, session, ptyExit, unread, typed, ended,
                     text, prints>>
  BY DEF PieceLands, NotActive, logVars, programVars
<1>2. LogTypes /\ LogKeeps /\ PrintedStays
  <2>1. LogTypes
    BY DEF IInv, Types, LogTypes
  <2> QED BY <1>1, <2>1, LogStays DEF PrintedStays, Printed
<1>3. Len(log) \in Nat /\ landed \in 0 .. Len(log) /\ landed \in Nat /\ awaited \in Nat
  BY <1>2, SeqShape DEF LogTypes, IInv, Types
<1>4. awaited # 0 /\ awaited \in 1 .. Len(log) /\ awaited <= landed
  BY <1>1, <1>3
<1>5. pieces # <<>>
  BY <1>4 DEF IInv, AwaitsHead
<1>6. /\ pieces' \in Seq(Piece) /\ EndsOnce'
      /\ \A r \in Runs : Ending(r)' => Ending(r)
      /\ \A r \in Runs : Recording(r) => ~Ending(r)'
  BY <1>1, <1>5, LeftOfPieces
<1>7. ASSUME NEW r \in Runs
      PROVE  IF Recording(r)
             THEN /\ active'[r] = 0 /\ r \notin waiters'
                  /\ outcome'[r] = IF r \in waiters THEN "completed" ELSE outcome[r]
             ELSE active'[r] = active[r] /\ outcome'[r] = outcome[r] /\ (r \in waiters' <=> r \in waiters)
  <2>1. Recording(r) <=> Head(pieces).kind = "record" /\ Head(pieces).run = r
    BY <1>5, HeadIsPiece
  <2>2. active \in [Runs -> Nat] /\ outcome \in [Runs -> {"none", "completed", "failed", "exited"}]
    BY DEF IInv, Types
  <2>3. CASE Head(pieces).kind = "record"
    <3>1. PICK q \in Runs : q = Head(pieces).run
      BY <1>5, <2>3, HeadIsPiece
    <3>2. /\ active' = [active EXCEPT ![q] = 0] /\ waiters' = waiters \ {q}
          /\ outcome' = IF q \in waiters THEN [outcome EXCEPT ![q] = "completed"] ELSE outcome
      BY <1>1, <2>3, <3>1 DEF Settle
    <3>3. Recording(r) <=> r = q
      BY <2>1, <2>3, <3>1
    <3>4. /\ active'[r] = IF r = q THEN 0 ELSE active[r]
          /\ outcome'[r] = IF r = q /\ q \in waiters THEN "completed" ELSE outcome[r]
      BY <2>2, <3>2
    <3> QED BY <3>2, <3>3, <3>4
  <2>4. CASE Head(pieces).kind # "record"
    BY <1>1, <2>1, <2>4
  <2> QED BY <2>3, <2>4
<1>8. /\ active' \in [Runs -> Nat] /\ waiters' \subseteq Runs
      /\ outcome' \in [Runs -> {"none", "completed", "failed", "exited"}]
  <2>1. /\ active \in [Runs -> Nat] /\ waiters \subseteq Runs
        /\ outcome \in [Runs -> {"none", "completed", "failed", "exited"}]
    BY DEF IInv, Types
  <2>2. CASE Head(pieces).kind = "record"
    <3>1. PICK q : q = Head(pieces).run
      OBVIOUS
    <3>2. /\ active' = [active EXCEPT ![q] = 0] /\ waiters' = waiters \ {q}
          /\ outcome' = IF q \in waiters THEN [outcome EXCEPT ![q] = "completed"] ELSE outcome
      BY <1>1, <2>2, <3>1 DEF Settle
    <3>3. active' \in [Runs -> Nat]
      BY <2>1, <3>2
    <3>4. outcome' \in [Runs -> {"none", "completed", "failed", "exited"}]
      BY <2>1, <3>2
    <3> QED BY <2>1, <3>2, <3>3, <3>4
  <2>3. CASE Head(pieces).kind # "record"
    BY <1>1, <2>1, <2>3
  <2> QED BY <2>2, <2>3
<1>9. AwaitsHead' /\ Phases'
  BY <1>1, <1>5 DEF IInv, AwaitsHead, Phases
<1>10. PrintedIn(scanner.tail \o unread)'
  BY <1>1 DEF IInv, PrintedIn, Printed
<1>11. ASSUME NEW r \in Runs PROVE LogInv(r)' /\ ScanInv(r)' /\ WaitInv(r)' /\ OutcomeInv(r)'
  <2>1. LogInv(r)'
    BY <1>2, LogInvStays
  <2>2. /\ CompletionsOf(r)' = CompletionsOf(r) /\ (Printed(r) => Printed(r)')
        /\ ScanInv(r) /\ WaitInv(r) /\ OutcomeInv(r)
    BY <1>2 DEF IInv, LogKeeps, PrintedStays
  <2>3. ~Recording(r) /\ (Ending(r) \/ r \in waiters) => CompletionsOf(r) = {}
    BY <2>2 DEF WaitInv
  <2>4. CASE Recording(r)
    <3>1. ~Ending(r)' /\ Ending(r) /\ r \notin waiters' /\ r \notin scanner'.active /\ run[r] # "idle"
      <4>1. Ending(r)
        BY <1>5, <2>4, HeadIsPiece DEF Ending, Recording
      <4> QED BY <1>1, <1>6, <1>7, <2>2, <2>4, <4>1 DEF ScanInv
    <3>2. ScanInv(r)'
      BY <3>1 DEF ScanInv
    <3>3. outcome'[r] = IF r \in waiters THEN "completed" ELSE outcome[r]
      BY <1>7, <2>4
    <3>4. WaitInv(r)'
      BY <1>1, <2>2, <3>1, <3>3 DEF WaitInv
    <3>5. Printed(r) /\ (stopped \/ awaited \in CompletionsOf(r))
      BY <1>4, <2>2, <2>4, <3>1 DEF IInv, AwaitsHead, ScanInv
    <3>6. OutcomeInv(r)'
      BY <1>1, <1>4, <2>2, <3>3, <3>5 DEF OutcomeInv
    <3> QED BY <2>1, <3>2, <3>4, <3>6
  <2>5. CASE ~Recording(r)
    <3>1. active'[r] = active[r] /\ outcome'[r] = outcome[r] /\ (r \in waiters' <=> r \in waiters)
      BY <1>7, <2>5
    <3>2. ScanInv(r)'
      BY <1>1, <1>2, <1>6, <3>1, ScanInvStays
    <3>3. WaitInv(r)'
      BY <1>1, <1>6, <2>2, <2>3, <2>5, <3>1 DEF WaitInv
    <3>4. OutcomeInv(r)'
      BY <1>1, <2>2, <3>1 DEF OutcomeInv
    <3> QED BY <2>1, <3>2, <3>3, <3>4
  <2> QED BY <2>4, <2>5
<1>12. Types'
  <2>1. /\ awaited' = 0
        /\ UNCHANGED <<log, landed, poisoned, stopped, scanner, run, session, ptyExit, unread, typed, ended, text,
                       prints>>
    BY <1>1
  <2> QED BY <1>6, <1>8, <2>1 DEF IInv, Types, IsSeq
<1> QED BY <1>6, <1>9, <1>10, <1>11, <1>12 DEF IInv

\* The awaited append was rejected; the ingestion ends, and a run that was
\* ending fails.
LEMMA PieceFailsKeeps == ASSUME IInv, PieceFails PROVE IInv'
<1>1. /\ awaited > landed /\ poisoned /\ awaited' = 0 /\ pieces' = <<>>
      /\ IF Head(pieces).kind \in {"run_complete", "record"}
         THEN Settle(Head(pieces).run, "failed") ELSE UNCHANGED <<waiters, outcome>>
      /\ session' \in {session, "dead"}
      /\ UNCHANGED <<log, landed, poisoned, stopped, scanner, active, run, ptyExit, unread, typed, ended,
                     text, prints>>
  BY DEF PieceFails, logVars, programVars
<1>2. LogTypes /\ LogKeeps /\ PrintedStays
  <2>1. LogTypes
    BY DEF IInv, Types, LogTypes
  <2> QED BY <1>1, <2>1, LogStays DEF PrintedStays, Printed
<1>3. Len(log) \in Nat /\ landed = Len(log) /\ DOMAIN log = 1 .. Len(log) /\ awaited \in Nat
  BY <1>1, <1>2, SeqShape DEF LogTypes, IInv, Types
<1>4. awaited # 0 /\ pieces # <<>> /\ ptyExit \notin {"handled", "reset"}
  BY <1>1, <1>3 DEF IInv, AwaitsHead, Phases
<1>5. \A r \in Runs : ~Ending(r)' /\ ~Recording(r)'
  BY <1>1 DEF Ending, Recording
<1>6. EndsOnce' /\ AwaitsHead' /\ Phases'
  BY <1>1, <1>4 DEF IInv, EndsOnce, AwaitsHead, Phases
<1>7. PrintedIn(scanner.tail \o unread)'
  BY <1>1 DEF IInv, PrintedIn, Printed
<1>8. /\ waiters' \subseteq waiters /\ outcome' \in [Runs -> {"none", "completed", "failed", "exited"}]
      /\ \A r \in Runs : \/ outcome'[r] = outcome[r]
                         \/ r \in waiters /\ r \notin waiters' /\ outcome'[r] = "failed"
  BY <1>1 DEF IInv, Types, Settle
<1>9. ASSUME NEW r \in Runs PROVE LogInv(r)' /\ ScanInv(r)' /\ WaitInv(r)' /\ OutcomeInv(r)'
  <2>1. LogInv(r)'
    BY <1>2, LogInvStays
  <2>2. /\ CompletionsOf(r)' = CompletionsOf(r) /\ WaitInv(r) /\ OutcomeInv(r)
    BY <1>2 DEF IInv, LogKeeps
  <2>3. ScanInv(r)'
    BY <1>1, <1>2, <1>5, ScanInvStays
  <2>4. r \in waiters => CompletionsOf(r) = {}
    <3> SUFFICES ASSUME r \in waiters, NEW i \in CompletionsOf(r) PROVE FALSE
      OBVIOUS
    <3>1. awaited = i
      BY <2>2 DEF WaitInv
    <3>2. i \in 1 .. Len(log)
      BY <1>3 DEF CompletionsOf
    <3> QED BY <1>1, <1>3, <3>1, <3>2
  <2>5. WaitInv(r)'
    BY <1>1, <1>5, <1>8, <2>2, <2>4 DEF WaitInv
  <2>6. OutcomeInv(r)'
    BY <1>1, <1>2, <1>8, <2>2 DEF OutcomeInv, PrintedStays
  <2> QED BY <2>1, <2>3, <2>5, <2>6
<1>10. Types'
  <2>1. pieces' \in Seq(Piece)
    BY <1>1, EmptySeq
  <2>2. session' \in {"running", "destroying", "exited", "dead"} /\ waiters' \subseteq Runs
    BY <1>1, <1>8 DEF IInv, Types
  <2> QED BY <1>1, <1>8, <2>1, <2>2 DEF IInv, Types, IsSeq
<1> QED BY <1>6, <1>7, <1>9, <1>10 DEF IInv
-----------------------------------------------------------------------------
(* The invariant *)

\* Nothing has run yet.
LEMMA InitInv == ASSUME Init PROVE IInv
<1>1. /\ log = <<>> /\ pieces = <<>> /\ ended = <<>> /\ unread = <<>> /\ text = <<>>
      /\ scanner = [active |-> {}, tail |-> <<>>] /\ landed = 0 /\ awaited = 0
  BY DEF Init
<1>2. Len(<<>>) = 0 /\ DOMAIN <<>> = {} /\ \A S : <<>> \in Seq(S)
  BY EmptySeq
<1>3. IsSeq(log)
  BY <1>1, <1>2 DEF IsSeq
<1>4. Types
  <2>1. scanner \in [active : SUBSET Runs, tail : Seq(Characters)]
    BY <1>1, <1>2
  <2>2. active \in [Runs -> Nat] /\ outcome \in [Runs -> {"none", "completed", "failed", "exited"}]
    BY DEF Init, NotActive
  <2>3. run \in [Runs -> {"idle", "writing", "throwing", "waiting", "timeout"}
                           \union {"completed", "failed", "exited"}]
    BY DEF Init
  <2>4. landed \in 0 .. Len(log) /\ prints \in 0 .. MaxPrints
    BY <1>1, <1>2, RunsAssumption DEF Init
  <2>5. pieces \in Seq(Piece) /\ unread \in Seq(Characters) /\ text \in Seq(Characters)
        /\ ended \in Seq([run : Runs, before : Nat])
    BY <1>1, <1>2
  <2>6. /\ poisoned = FALSE /\ stopped = FALSE /\ awaited \in Nat /\ waiters \subseteq Runs /\ typed \subseteq Runs
        /\ session = "running" /\ ptyExit = "no"
    BY DEF Init
  <2> QED BY <1>3, <2>1, <2>2, <2>3, <2>4, <2>5, <2>6 DEF Types
<1>5. EndsOnce /\ AwaitsHead /\ Phases
  BY <1>1, <1>2 DEF Init, EndsOnce, AwaitsHead, Phases, Recording
<1>6. PrintedIn(scanner.tail \o unread)
  <2> DEFINE s == scanner.tail \o unread
  <2>1. s = <<>>
    BY <1>1
  <2> HIDE DEF s
  <2>2. PrintedIn(s)
    BY <2>1 DEF PrintedIn
  <2> QED BY <2>2 DEF s
<1>7. ASSUME NEW r \in Runs PROVE LogInv(r) /\ ScanInv(r) /\ WaitInv(r) /\ OutcomeInv(r)
  <2>1. CompletionsOf(r) = {} /\ ~Ending(r)
    BY <1>1, <1>2 DEF CompletionsOf, Ending
  <2> QED BY <1>1, <2>1 DEF Init, LogInv, ScanInv, WaitInv, OutcomeInv
<1> QED BY <1>4, <1>5, <1>6, <1>7 DEF IInv

\* Every step keeps the invariant.
LEMMA StepInv == ASSUME IInv, [Next]_vars PROVE IInv'
<1>1. CASE \E r \in Runs : StartRun(r) \/ HandlerGoesOn(r) \/ TimeOut(r)
  BY <1>1, StartRunKeeps, HandlerKeeps
<1>2. CASE WriteSettles
  BY <1>2, WriteLandsKeeps, WriteFailsKeeps DEF WriteSettles
<1>3. CASE Ingest
  BY <1>3, BeginChunkKeeps, BeginFlushKeeps, TakePieceKeeps, PieceLandsKeeps, PieceFailsKeeps DEF Ingest
<1>4. CASE HandleExit
  BY <1>4, HandlePtyExitKeeps, ResetForExitKeeps, QuietStepsKeep DEF HandleExit
<1>5. CASE ProgramPrints \/ PtyExits \/ StartShutdown
  BY <1>5, ProgramPrintsKeeps, QuietStepsKeep
<1>6. CASE UNCHANGED vars
  <2>1. UNCHANGED <<logVars, pieces, awaited, scanner, active, waiters, outcome, run, unread, typed,
                    ended, text, prints, session, ptyExit>>
    BY <1>6 DEF vars, coordinator, ingestion, programVars
  <2>2. Types' /\ Phases'
    BY <2>1 DEF IInv, Types, Phases, IsSeq, logVars
  <2> QED BY <2>1, <2>2, QuietStep
<1> QED BY <1>1, <1>2, <1>3, <1>4, <1>5, <1>6 DEF Next

\* The invariant says what clients and readers of the log rely on.
LEMMA InvIsTrue == ASSUME IInv PROVE CompletionsAreTrue
<1> SUFFICES ASSUME NEW r \in Runs
             PROVE  /\ Cardinality(CompletionsOf(r)) <= 1
                    /\ \A i \in CompletionsOf(r) :
                         /\ \E k \in DOMAIN ended : ended[k].run = r
                         /\ log[i].input \in 1 .. i - 1
                         /\ log[log[i].input] = [kind |-> "input_run", run |-> r]
                    /\ run[r] = "completed" =>
                         /\ \E k \in DOMAIN ended : ended[k].run = r
                         /\ stopped \/ \E i \in CompletionsOf(r) : i <= landed
                    /\ run[r] = "exited" => CompletionsOf(r) = {} /\ ptyExit = "reset"
                    /\ run[r] = "failed" => poisoned \/ r \notin typed
  BY DEF CompletionsAreTrue
<1>1. LogInv(r) /\ WaitInv(r) /\ OutcomeInv(r)
  BY DEF IInv
<1>2. Cardinality(CompletionsOf(r)) <= 1
  <2>1. CASE CompletionsOf(r) = {}
    BY <2>1, FS_EmptySet
  <2>2. CASE CompletionsOf(r) # {}
    <3>1. PICK i \in CompletionsOf(r) : TRUE
      BY <2>2
    <3>2. \A j \in CompletionsOf(r) : j = i
      BY <1>1, <3>1 DEF LogInv
    <3>3. CompletionsOf(r) = {i}
      BY <3>1, <3>2
    <3>4. Cardinality({i}) = 1
      BY FS_Singleton
    <3> QED BY <3>3, <3>4
  <2> QED BY <2>1, <2>2
<1> QED BY <1>1, <1>2 DEF LogInv, WaitInv, OutcomeInv, NamesInput, Printed

\* A run completes at most once, with its sentinel printed and its input_run
\* before it in the log. A client told so has had its sentinel printed, and what
\* it is told is on disk unless the log stopped at its limit, which settles runs
\* without storing their ends (runCompletionCoordinator.ts:316, eventLog.ts:430).
THEOREM CompletionsStayTrue == SafeSpec => []CompletionsAreTrue
<1>1. Init => IInv
  BY InitInv
<1>2. IInv /\ [Next]_vars => IInv'
  BY StepInv
<1>3. IInv => CompletionsAreTrue
  BY InvIsTrue
<1> QED BY <1>1, <1>2, <1>3, PTL DEF SafeSpec
-----------------------------------------------------------------------------
(* Parts of texts *)

\* The rest of a text.
LEMMA RestOf ==
  ASSUME NEW t \in Seq(Characters), NEW i \in 1 .. Len(t) + 1
  PROVE  /\ Rest(t, i) \in Seq(Characters) /\ Len(Rest(t, i)) = Len(t) - i + 1
         /\ \A j \in 1 .. Len(t) - i + 1 : Rest(t, i)[j] = t[i + j - 1]
<1>1. Len(t) \in Nat /\ i \in Int /\ \A k \in i .. Len(t) : t[k] \in Characters
  BY LenProperties, ElementOfSeq
<1>2. /\ SubSeq(t, i, Len(t)) \in Seq(Characters)
      /\ Len(SubSeq(t, i, Len(t))) = IF i <= Len(t) THEN Len(t) - i + 1 ELSE 0
      /\ \A j \in 1 .. Len(t) - i + 1 : SubSeq(t, i, Len(t))[j] = t[i + j - 1]
  BY <1>1, SubSeqProperties
<1> QED BY <1>1, <1>2 DEF Rest

\* A part of a text.
LEMMA PartIs ==
  ASSUME NEW S, NEW t \in Seq(S), NEW m \in 0 .. Len(t), NEW n \in m .. Len(t)
  PROVE  /\ SubSeq(t, m + 1, n) \in Seq(S) /\ Len(SubSeq(t, m + 1, n)) = n - m
         /\ \A j \in 1 .. n - m : SubSeq(t, m + 1, n)[j] = t[m + j]
<1>1. Len(t) \in Nat /\ m \in Nat /\ n \in Nat /\ \A k \in m + 1 .. n : t[k] \in S
  BY LenProperties, ElementOfSeq
<1>2. /\ SubSeq(t, m + 1, n) \in Seq(S)
      /\ Len(SubSeq(t, m + 1, n)) = IF m + 1 <= n THEN n - (m + 1) + 1 ELSE 0
      /\ \A j \in 1 .. n - (m + 1) + 1 : SubSeq(t, m + 1, n)[j] = t[m + 1 + j - 1]
  BY <1>1, SubSeqProperties
<1> QED BY <1>1, <1>2

\* A word that a text starts with.
LEMMA StartsAt ==
  ASSUME NEW t \in Seq(Characters), NEW i \in 1 .. Len(t) + 1, NEW word \in Seq(Characters)
  PROVE  StartsWith(t, i, word) <=>
           /\ i + Len(word) - 1 <= Len(t)
           /\ \A j \in 1 .. Len(word) : t[i + j - 1] = word[j]
<1> DEFINE rest == Rest(t, i)
           n == Len(word)
<1>1. /\ Len(t) \in Nat /\ n \in Nat /\ i \in Nat
      /\ rest \in Seq(Characters) /\ Len(rest) = Len(t) - i + 1
      /\ \A j \in 1 .. Len(t) - i + 1 : rest[j] = t[i + j - 1]
  BY RestOf, LenProperties
<1>2. IsPrefix(word, rest) <=> n <= Len(rest) /\ SubSeq(word, 1, n) = SubSeq(rest, 1, n)
  BY DEF IsPrefix
<1>3. SubSeq(word, 1, n) = word
  BY SubSeqFull
<1> HIDE DEF rest, n
<1>4. ASSUME n <= Len(rest)
      PROVE  /\ SubSeq(rest, 1, n) \in Seq(Characters) /\ Len(SubSeq(rest, 1, n)) = n
             /\ \A j \in 1 .. n : SubSeq(rest, 1, n)[j] = rest[j]
  <2>1. 0 \in 0 .. Len(rest) /\ n \in 0 .. Len(rest) /\ 0 + 1 = 1
    BY <1>1, <1>4
  <2>2. /\ SubSeq(rest, 0 + 1, n) \in Seq(Characters) /\ Len(SubSeq(rest, 0 + 1, n)) = n - 0
        /\ \A j \in 1 .. n - 0 : SubSeq(rest, 0 + 1, n)[j] = rest[0 + j]
    BY <1>1, <2>1, PartIs
  <2> QED BY <1>1, <2>1, <2>2
<1>5. ASSUME IsPrefix(word, rest)
      PROVE  i + n - 1 <= Len(t) /\ \A j \in 1 .. n : t[i + j - 1] = word[j]
  <2>1. n <= Len(rest) /\ word = SubSeq(rest, 1, n)
    BY <1>2, <1>3, <1>5
  <2>2. \A j \in 1 .. n : word[j] = rest[j]
    BY <1>4, <2>1
  <2>3. \A j \in 1 .. n : rest[j] = t[i + j - 1]
    BY <1>1, <2>1
  <2> QED BY <1>1, <2>1, <2>2, <2>3
<1>6. ASSUME i + n - 1 <= Len(t), \A j \in 1 .. n : t[i + j - 1] = word[j]
      PROVE  IsPrefix(word, rest)
  <2>1. n <= Len(rest)
    BY <1>1, <1>6
  <2>2. \A j \in 1 .. n : rest[j] = word[j]
    BY <1>1, <1>6, SMTT(40)
  <2>3. SubSeq(rest, 1, n) = word
    BY <1>1, <1>4, <2>1, <2>2, SeqEqual DEF n
  <2> QED BY <1>2, <1>3, <2>1, <2>3
<1> QED BY <1>5, <1>6 DEF StartsWith, rest, n
-----------------------------------------------------------------------------
(* The scan of an echo *)

\* A control lies inside the text, and only CR and ESC begin one.
LEMMA ControlIs ==
  ASSUME NEW t \in Seq(Characters), NEW i \in 1 .. Len(t)
  PROVE  /\ ControlLength(t, i) = Partial \/ ControlLength(t, i) \in 0 .. Len(t) - i + 1
         /\ t[i] = "cr" => ControlLength(t, i) = 1
         /\ t[i] # "cr" /\ t[i] # "esc" => ControlLength(t, i) = 0
<1> DEFINE ends == {j \in i + 2 .. i + MaxControl - 1 : j <= Len(t) /\ IsFinal(t[j])}
<1>1. Len(t) \in Nat /\ i \in Nat /\ MaxControl \in Nat
  BY LenProperties, SentinelAssumption
<1>2. ends # {} => Min(ends) \in i + 2 .. Len(t)
  <2>1. ends \subseteq Nat /\ ends \subseteq i + 2 .. Len(t)
    BY <1>1
  <2> HIDE DEF ends
  <2> QED BY <2>1, Smallest
<1>3. ends # {} => Min(ends) - i + 1 \in 0 .. Len(t) - i + 1
  <2> HIDE DEF ends
  <2> QED BY <1>1, <1>2
<1> HIDE DEF ends
<1>4. ControlLength(t, i) =
        CASE t[i] = "cr" -> 1
          [] t[i] # "cr" /\ t[i] # "esc" -> 0
          [] t[i] = "esc" /\ i = Len(t) -> Partial
          [] t[i] = "esc" /\ i < Len(t) /\ t[i + 1] # "[" -> 2
          [] OTHER -> IF ends # {} THEN Min(ends) - i + 1
                      ELSE IF i + MaxControl - 1 < Len(t) THEN 0 ELSE Partial
  BY DEF ControlLength, ends
<1>5. t[i] = "cr" => ControlLength(t, i) = 1
  BY <1>4
<1>6. t[i] # "cr" /\ t[i] # "esc" => ControlLength(t, i) = 0
  BY <1>4
<1>7. t[i] = "esc" /\ i = Len(t) => ControlLength(t, i) = Partial
  BY <1>4
<1>8. t[i] = "esc" /\ i < Len(t) /\ t[i + 1] # "[" => ControlLength(t, i) = 2
  BY <1>1, <1>4
<1>9. t[i] = "esc" /\ i < Len(t) /\ t[i + 1] = "[" =>
        ControlLength(t, i) = IF ends # {} THEN Min(ends) - i + 1
                              ELSE IF i + MaxControl - 1 < Len(t) THEN 0 ELSE Partial
  BY <1>1, <1>4
<1> QED BY <1>1, <1>3, <1>5, <1>6, <1>7, <1>8, <1>9

\* What is left of a scan, as a function of the place in the text and in the echo.
IsPrefixLoop(scan, t, echo) ==
  scan = [p \in (1 .. Len(t) + 1) \X (0 .. Len(echo)) |-> PrefixScanFrom(scan, t, echo, p[1], p[2])]

\* The places from `n` on.
Later(t, echo, n) == (n .. Len(t) + 1) \X (0 .. Len(echo))

\* Two functions are the same on a set.
SameOn(f, g, S) == \A p \in S : f[p] = g[p]

\* What a scan finds from a place depends on later places only.
LEMMA PrefixLooksAhead ==
  ASSUME NEW t \in Seq(Characters), NEW echo \in Seq(Characters), NEW i \in 1 .. Len(t) + 1,
         NEW e \in 0 .. Len(echo), NEW f, NEW g, SameOn(f, g, Later(t, echo, i + 1))
  PROVE  PrefixScanFrom(f, t, echo, i, e) = PrefixScanFrom(g, t, echo, i, e)
<1> DEFINE control == ControlLength(t, i)
<1>1. Len(t) \in Nat /\ Len(echo) \in Nat /\ i \in Nat /\ e \in Nat
  BY LenProperties
<1>2. CASE i > Len(t) \/ e = Len(echo)
  <2>1. ~(i <= Len(t) /\ e < Len(echo))
    BY <1>1, <1>2
  <2> QED BY <1>2, <2>1, Zenon DEF PrefixScanFrom
<1>3. CASE i <= Len(t) /\ e < Len(echo)
  <2>1. control = Partial \/ control \in 0 .. Len(t) - i + 1
    BY <1>1, <1>3, ControlIs
  <2> HIDE DEF control
  <2>2. CASE control = Partial
    <3>1. ~(i > Len(t) \/ e = Len(echo)) /\ ~(control > 0)
      BY <1>1, <1>3, <2>2 DEF Partial
    <3> QED BY <1>3, <2>2, <3>1, Zenon DEF PrefixScanFrom, control
  <2>3. CASE control # Partial /\ control > 0
    <3>1. <<i + control, e>> \in Later(t, echo, i + 1)
      BY <1>1, <1>3, <2>1, <2>3 DEF Later
    <3>2. f[<<i + control, e>>] = g[<<i + control, e>>]
      BY <3>1 DEF SameOn
    <3> QED BY <1>1, <1>3, <2>3, <3>2 DEF PrefixScanFrom, control
  <2>4. CASE control # Partial /\ ~(control > 0)
    <3>1. <<i + 1, e + 1>> \in Later(t, echo, i + 1)
      BY <1>1, <1>3 DEF Later
    <3>2. f[<<i + 1, e + 1>>] = g[<<i + 1, e + 1>>]
      BY <3>1 DEF SameOn
    <3> QED BY <1>1, <1>3, <2>4, <3>2 DEF PrefixScanFrom, control
  <2> QED BY <2>2, <2>3, <2>4
<1> QED BY <1>1, <1>2, <1>3

\* So there is such a function: it is built from the end of the text.
LEMMA PrefixLoopExists ==
  ASSUME NEW t \in Seq(Characters), NEW echo \in Seq(Characters)
  PROVE  \E scan : IsPrefixLoop(scan, t, echo)
<1> DEFINE L == Len(t) + 1
           Loops(f, n) == f = [p \in Later(t, echo, n) |-> PrefixScanFrom(f, t, echo, p[1], p[2])]
           built == {k \in Nat : k <= L => \E f : Loops(f, L + 1 - k)}
<1>1. L \in Nat /\ Len(t) \in Nat /\ Len(echo) \in Nat
  BY LenProperties
<1>2. 0 \in built
  <2> DEFINE f == [p \in {} |-> 0]
  <2>1. Later(t, echo, L + 1) = {}
    BY <1>1 DEF Later
  <2>2. f = [p \in Later(t, echo, L + 1) |-> PrefixScanFrom(f, t, echo, p[1], p[2])]
    BY <2>1
  <2>3. L + 1 - 0 = L + 1
    BY <1>1
  <2> QED BY <2>2, <2>3
<1>3. ASSUME NEW k \in Nat, k \in built PROVE k + 1 \in built
  <2> SUFFICES ASSUME k + 1 <= L PROVE \E g : Loops(g, L + 1 - (k + 1))
    OBVIOUS
  <2> DEFINE n == L + 1 - (k + 1)
  <2>1. n \in 1 .. L /\ n + 1 = L + 1 - k /\ k <= L
    BY <1>1
  <2>2. PICK f : Loops(f, n + 1)
    BY <1>3, <2>1
  <2> DEFINE g == [p \in Later(t, echo, n) |-> IF p \in Later(t, echo, n + 1) THEN f[p]
                                               ELSE PrefixScanFrom(f, t, echo, p[1], p[2])]
  <2> HIDE DEF n
  <2>3. \A p \in Later(t, echo, n + 1) : p \in Later(t, echo, n) /\ g[p] = f[p]
    BY <1>1, <2>1 DEF Later
  <2>4. ASSUME NEW p \in Later(t, echo, n)
        PROVE  g[p] = PrefixScanFrom(g, t, echo, p[1], p[2])
    <3>1. p[1] \in n .. Len(t) + 1 /\ p[2] \in 0 .. Len(echo) /\ p[1] \in 1 .. Len(t) + 1
      BY <1>1, <2>1 DEF Later
    <3>2. \A q \in Later(t, echo, p[1] + 1) : q \in Later(t, echo, n + 1)
      BY <1>1, <2>1, <3>1 DEF Later
    <3>3. \A q \in Later(t, echo, p[1] + 1) : g[q] = f[q]
      BY <2>3, <3>2
    <3> HIDE DEF g
    <3>4. PrefixScanFrom(g, t, echo, p[1], p[2]) = PrefixScanFrom(f, t, echo, p[1], p[2])
      <4>1. PICK i \in 1 .. Len(t) + 1, e \in 0 .. Len(echo) : i = p[1] /\ e = p[2]
        BY <3>1
      <4>2. SameOn(g, f, Later(t, echo, i + 1))
        BY <3>3, <4>1 DEF SameOn
      <4>3. PrefixScanFrom(g, t, echo, i, e) = PrefixScanFrom(f, t, echo, i, e)
        BY <4>1, <4>2, PrefixLooksAhead
      <4> QED BY <4>1, <4>3
    <3>5. g[p] = PrefixScanFrom(f, t, echo, p[1], p[2])
      BY <2>2 DEF g
    <3> QED BY <3>4, <3>5
  <2>5. DOMAIN g = Later(t, echo, n) /\ g = [p \in DOMAIN g |-> g[p]]
    OBVIOUS
  <2> HIDE DEF g
  <2>6. g = [p \in Later(t, echo, n) |-> PrefixScanFrom(g, t, echo, p[1], p[2])]
    BY <2>4, <2>5
  <2> QED BY <2>6 DEF n
<1>4. Nat \subseteq built
  <2> HIDE DEF built
  <2> QED BY <1>2, <1>3, Induction
<1>5. L \in built /\ L + 1 - L = 1
  BY <1>1, <1>4
<1>6. PICK f : Loops(f, 1)
  BY <1>5, <1>1
<1> QED BY <1>6 DEF Later, IsPrefixLoop

\* `scan` is what is left of the scan of `t` for `echo`, from every place.
Scans(scan, t, echo) ==
  /\ PrefixScan(t, echo) = scan[<<1, 0>>]
  /\ \A i \in 1 .. Len(t) + 1 : \A e \in 0 .. Len(echo) :
       scan[<<i, e>>] = PrefixScanFrom(scan, t, echo, i, e)

\* There is one for every scan.
LEMMA PrefixScanLoops ==
  ASSUME NEW t \in Seq(Characters), NEW echo \in Seq(Characters)
  PROVE  \E scan : Scans(scan, t, echo)
<1> DEFINE scan == CHOOSE f : IsPrefixLoop(f, t, echo)
<1>1. IsPrefixLoop(scan, t, echo)
  BY PrefixLoopExists
<1>2. PrefixScan(t, echo) = scan[<<1, 0>>]
  BY DEF PrefixScan, IsPrefixLoop
<1> HIDE DEF scan
<1>3. ASSUME NEW i \in 1 .. Len(t) + 1, NEW e \in 0 .. Len(echo)
      PROVE  scan[<<i, e>>] = PrefixScanFrom(scan, t, echo, i, e)
  <2>1. <<i, e>> \in (1 .. Len(t) + 1) \X (0 .. Len(echo))
    OBVIOUS
  <2>2. scan[<<i, e>>] = PrefixScanFrom(scan, t, echo, <<i, e>>[1], <<i, e>>[2])
    BY <1>1, <2>1 DEF IsPrefixLoop
  <2> QED BY <2>2
<1> QED BY <1>2, <1>3 DEF Scans

\* A scan is done at the end of the echo or of the text.
LEMMA ScanEnds ==
  ASSUME NEW t \in Seq(Characters), NEW echo \in Seq(Characters), NEW scan, Scans(scan, t, echo),
         NEW i \in 1 .. Len(t) + 1, NEW e \in 0 .. Len(echo),
         i > Len(t) \/ e = Len(echo)
  PROVE  scan[<<i, e>>] = [used |-> i - 1, matched |-> e, complete |-> e = Len(echo), pending |-> e < Len(echo)]
<1>1. Len(t) \in Nat /\ Len(echo) \in Nat /\ e \in Nat /\ e <= Len(echo)
  BY LenProperties
<1>2. ~(i <= Len(t) /\ e < Len(echo))
  BY <1>1
<1>3. scan[<<i, e>>] = ScanResult(i, e, e = Len(echo), i > Len(t) /\ e < Len(echo))
  BY <1>2, Zenon DEF PrefixScanFrom, Scans
<1>4. (i > Len(t) /\ e < Len(echo)) = (e < Len(echo))
  BY <1>1
<1> QED BY <1>3, <1>4, Zenon DEF ScanResult

\* It stops at a control that is cut off.
LEMMA ScanIsCut ==
  ASSUME NEW t \in Seq(Characters), NEW echo \in Seq(Characters), NEW scan, Scans(scan, t, echo),
         NEW i \in 1 .. Len(t) + 1, NEW e \in 0 .. Len(echo),
         i <= Len(t), e < Len(echo), ControlLength(t, i) = Partial
  PROVE  scan[<<i, e>>] = [used |-> i - 1, matched |-> e, complete |-> FALSE, pending |-> TRUE]
<1>1. ~(i > Len(t) \/ e = Len(echo)) /\ ~(ControlLength(t, i) > 0)
  BY LenProperties DEF Partial
<1> QED BY <1>1, Zenon DEF PrefixScanFrom, Scans, ScanResult

\* It skips a control.
LEMMA ScanSkips ==
  ASSUME NEW t \in Seq(Characters), NEW echo \in Seq(Characters), NEW scan, Scans(scan, t, echo),
         NEW i \in 1 .. Len(t) + 1, NEW e \in 0 .. Len(echo),
         i <= Len(t), e < Len(echo), ControlLength(t, i) > 0
  PROVE  scan[<<i, e>>] = scan[<<i + ControlLength(t, i), e>>]
<1>1. ~(i > Len(t) \/ e = Len(echo)) /\ ~(ControlLength(t, i) = Partial)
  BY LenProperties DEF Partial
<1> QED BY <1>1, Zenon DEF PrefixScanFrom, Scans

\* It goes on with a character that is the next of the echo.
LEMMA ScanMatches ==
  ASSUME NEW t \in Seq(Characters), NEW echo \in Seq(Characters), NEW scan, Scans(scan, t, echo),
         NEW i \in 1 .. Len(t) + 1, NEW e \in 0 .. Len(echo),
         i <= Len(t), e < Len(echo), ControlLength(t, i) = 0, t[i] = echo[e + 1]
  PROVE  scan[<<i, e>>] = scan[<<i + 1, e + 1>>]
<1>1. ~(i > Len(t) \/ e = Len(echo)) /\ ~(ControlLength(t, i) = Partial) /\ ~(ControlLength(t, i) > 0)
  BY LenProperties DEF Partial
<1> QED BY <1>1, Zenon DEF PrefixScanFrom, Scans

\* And stops at any other.
LEMMA ScanDiffers ==
  ASSUME NEW t \in Seq(Characters), NEW echo \in Seq(Characters), NEW scan, Scans(scan, t, echo),
         NEW i \in 1 .. Len(t) + 1, NEW e \in 0 .. Len(echo),
         i <= Len(t), e < Len(echo), ControlLength(t, i) = 0, t[i] # echo[e + 1]
  PROVE  scan[<<i, e>>] = [used |-> i - 1, matched |-> e, complete |-> FALSE, pending |-> FALSE]
<1>1. ~(i > Len(t) \/ e = Len(echo)) /\ ~(ControlLength(t, i) = Partial) /\ ~(ControlLength(t, i) > 0)
  BY LenProperties DEF Partial
<1> QED BY <1>1, Zenon DEF PrefixScanFrom, Scans, ScanResult
-----------------------------------------------------------------------------
(* Echoes *)

EchoSize == Len(EchoPrefix)

\* The start of the postambles has no control in it, and its first character once.
LEMMA PrefixIs ==
  /\ EchoPrefix \in Seq(Characters) /\ EchoSize \in Nat /\ EchoSize >= 1
  /\ \A j \in 1 .. EchoSize : /\ EchoPrefix[j] \notin Runs /\ EchoPrefix[j] # "esc" /\ EchoPrefix[j] # "cr"
                              /\ j > 1 => EchoPrefix[j] # EchoPrefix[1]
<1>1. /\ EchoPrefix \in Seq(STRING \ (Runs \union {"esc", "cr"})) /\ EchoPrefix # <<>>
      /\ \A i \in 2 .. Len(EchoPrefix) : EchoPrefix[i] # EchoPrefix[1]
  BY SentinelAssumption
<1>2. Len(EchoPrefix) \in Nat \ {0}
  BY <1>1, EmptySeq
<1>3. \A j \in 1 .. Len(EchoPrefix) : EchoPrefix[j] \in STRING \ (Runs \union {"esc", "cr"})
  BY <1>1, ElementOfSeq
<1>4. EchoPrefix \in Seq(Characters)
  <2>1. STRING \ (Runs \union {"esc", "cr"}) \subseteq Characters
    BY DEF Characters
  <2> QED BY <1>1, <2>1, SeqMonotonic
<1>5. \A j \in 1 .. Len(EchoPrefix) : j > 1 => j \in 2 .. Len(EchoPrefix)
  BY <1>2
<1> QED BY <1>1, <1>2, <1>3, <1>4, <1>5 DEF EchoSize

\* The two ways to echo the postamble of a run.
LEMMA EchoIs ==
  ASSUME NEW r \in Runs, NEW echo \in Echoes(r)
  PROVE  /\ echo \in Seq(Characters) /\ Len(echo) \in EchoSize + 2 .. EchoSize + 3
         /\ \A j \in 1 .. EchoSize : echo[j] = EchoPrefix[j]
         /\ echo[EchoSize + 1] = r
         /\ Len(echo) = EchoSize + 2 => echo = EchoPrefix \o <<r, "lf">> /\ echo[EchoSize + 2] = "lf"
         /\ Len(echo) = EchoSize + 3 => /\ echo = EchoPrefix \o <<r, "cr", "lf">>
                                        /\ echo[EchoSize + 2] = "cr" /\ echo[EchoSize + 3] = "lf"
<1> DEFINE n == EchoSize
<1>1. EchoPrefix \in Seq(Characters) /\ n \in Nat /\ n >= 1
  BY PrefixIs
<1>2. r \in Characters /\ "cr" \in Characters /\ "lf" \in Characters
  BY DEF Characters
<1>3. CASE echo = EchoPrefix \o <<r, "lf">>
  <2> DEFINE end == <<r, "lf">>
  <2>1. end \in Seq(Characters) /\ Len(end) = 2 /\ end[1] = r /\ end[2] = "lf"
    BY <1>2
  <2> HIDE DEF end
  <2>2. /\ echo \in Seq(Characters) /\ Len(echo) = n + Len(end)
        /\ \A j \in 1 .. n + Len(end) : echo[j] = IF j <= n THEN EchoPrefix[j] ELSE end[j - n]
    BY <1>1, <1>3, <2>1, ConcatProperties DEF end, EchoSize
  <2> HIDE DEF n
  <2>3. echo[n + 1] = end[1] /\ echo[n + 2] = end[2] /\ \A j \in 1 .. n : echo[j] = EchoPrefix[j]
    BY <1>1, <2>1, <2>2
  <2> QED BY <1>1, <1>3, <2>1, <2>2, <2>3 DEF n
<1>4. CASE echo = EchoPrefix \o <<r, "cr", "lf">>
  <2> DEFINE end == <<r, "cr", "lf">>
  <2>1. end \in Seq(Characters) /\ Len(end) = 3 /\ end[1] = r /\ end[2] = "cr" /\ end[3] = "lf"
    BY <1>2
  <2> HIDE DEF end
  <2>2. /\ echo \in Seq(Characters) /\ Len(echo) = n + Len(end)
        /\ \A j \in 1 .. n + Len(end) : echo[j] = IF j <= n THEN EchoPrefix[j] ELSE end[j - n]
    BY <1>1, <1>4, <2>1, ConcatProperties DEF end, EchoSize
  <2> HIDE DEF n
  <2>3. /\ echo[n + 1] = end[1] /\ echo[n + 2] = end[2] /\ echo[n + 3] = end[3]
        /\ \A j \in 1 .. n : echo[j] = EchoPrefix[j]
    BY <1>1, <2>1, <2>2
  <2> QED BY <1>1, <1>4, <2>1, <2>2, <2>3 DEF n
<1> QED BY <1>3, <1>4 DEF Echoes

\* Where text and echo agree and no control is, a scan goes on with both.
LEMMA ScanOfStart ==
  ASSUME NEW t \in Seq(Characters), NEW echo \in Seq(Characters), NEW scan, Scans(scan, t, echo),
         NEW k \in 0 .. Len(t), k <= Len(echo),
         \A j \in 1 .. k : t[j] = echo[j] /\ t[j] # "cr" /\ t[j] # "esc"
  PROVE  PrefixScan(t, echo) = scan[<<k + 1, k>>]
<1> DEFINE good == {j \in Nat : j <= k => scan[<<1, 0>>] = scan[<<j + 1, j>>]}
<1>1. Len(t) \in Nat /\ Len(echo) \in Nat /\ k \in Nat
  BY LenProperties
<1>2. 0 \in good
  OBVIOUS
<1>5. ASSUME NEW i \in 1 .. Len(t) + 1, NEW e \in 0 .. Len(echo), e < Len(echo), i <= Len(t),
             ControlLength(t, i) = 0, t[i] = echo[e + 1]
      PROVE  scan[<<i, e>>] = scan[<<i + 1, e + 1>>]
  BY <1>5, ScanMatches
<1>3. ASSUME NEW j \in Nat, j \in good PROVE j + 1 \in good
  <2> SUFFICES ASSUME j + 1 <= k PROVE scan[<<1, 0>>] = scan[<<j + 1 + 1, j + 1>>]
    OBVIOUS
  <2>1. scan[<<1, 0>>] = scan[<<j + 1, j>>]
    BY <1>1, <1>3
  <2>2. /\ j + 1 \in 1 .. Len(t) + 1 /\ j \in 0 .. Len(echo) /\ j + 1 <= Len(t) /\ j < Len(echo)
        /\ j + 1 \in 1 .. Len(t) /\ t[j + 1] = echo[j + 1] /\ t[j + 1] # "cr" /\ t[j + 1] # "esc"
    BY <1>1
  <2>3. ControlLength(t, j + 1) = 0
    BY <2>2, ControlIs
  <2>4. scan[<<j + 1, j>>] = scan[<<j + 1 + 1, j + 1>>]
    <3> DEFINE i == j + 1
    <3>1. /\ i \in 1 .. Len(t) + 1 /\ j \in 0 .. Len(echo) /\ i <= Len(t) /\ j < Len(echo)
          /\ t[i] = echo[j + 1] /\ ControlLength(t, i) = 0
      BY <2>2, <2>3
    <3> HIDE DEF i
    <3>2. scan[<<i, j>>] = scan[<<i + 1, j + 1>>]
      BY <1>5, <3>1
    <3> QED BY <3>2 DEF i
  <2> QED BY <2>1, <2>4
<1>4. k \in good
  <2> HIDE DEF good
  <2> QED BY <1>1, <1>2, <1>3, Induction
<1> QED BY <1>1, <1>4 DEF Scans
-----------------------------------------------------------------------------
(* The start of an echo *)

\* The text is the start of an echo of `r`, and not all of it.
IsStart(t, r, echo) ==
  /\ Len(t) >= 1 /\ Len(t) < Len(echo)
  /\ \A j \in 1 .. Len(t) : t[j] = echo[j]

\* What a scan of such a text finds for any echo: all that the two have in common.
LEMMA StartScanned ==
  ASSUME NEW t \in Seq(Characters), NEW r \in Runs, NEW echo \in Echoes(r), IsStart(t, r, echo),
         NEW q \in Runs, NEW other \in Echoes(q)
  PROVE  PrefixScan(t, other) =
           IF Len(t) <= EchoSize \/ q = r
           THEN [used |-> Len(t), matched |-> IF Len(t) <= EchoSize THEN Len(t) ELSE EchoSize + 1,
                 complete |-> FALSE, pending |-> TRUE]
           ELSE [used |-> EchoSize, matched |-> EchoSize, complete |-> FALSE, pending |-> FALSE]
<1> DEFINE n == EchoSize
           l == Len(t)
           k == IF l <= n THEN l ELSE n
<1>1. /\ EchoPrefix \in Seq(Characters) /\ n \in Nat /\ n >= 1
      /\ \A j \in 1 .. n : EchoPrefix[j] # "esc" /\ EchoPrefix[j] # "cr"
  BY PrefixIs
<1>2. /\ echo \in Seq(Characters) /\ Len(echo) \in n + 2 .. n + 3
      /\ \A j \in 1 .. n : echo[j] = EchoPrefix[j]
      /\ echo[n + 1] = r
      /\ Len(echo) = n + 3 => echo[n + 2] = "cr"
  BY EchoIs
<1>3. /\ other \in Seq(Characters) /\ Len(other) \in n + 2 .. n + 3
      /\ \A j \in 1 .. n : other[j] = EchoPrefix[j]
      /\ other[n + 1] = q
  BY EchoIs
<1>4. l \in Nat /\ l >= 1 /\ l < Len(echo) /\ l <= n + 2 /\ \A j \in 1 .. l : t[j] = echo[j]
  <2>1. l \in Nat
    BY LenProperties
  <2>2. l >= 1 /\ l < Len(echo) /\ \A j \in 1 .. l : t[j] = echo[j]
    BY DEF IsStart
  <2> HIDE DEF n, l
  <2> QED BY <1>1, <1>2, <2>1, <2>2
<1>5. r # "cr" /\ r # "esc"
  BY SentinelAssumption
<1>6. PICK scan : Scans(scan, t, other)
  BY <1>3, PrefixScanLoops
<1>7. PrefixScan(t, other) = scan[<<k + 1, k>>]
  <2>1. k \in 0 .. l /\ k <= Len(other)
    BY <1>1, <1>3, <1>4
  <2>2. \A j \in 1 .. k : t[j] = other[j] /\ t[j] # "cr" /\ t[j] # "esc"
    <3>1. \A j \in 1 .. k : j \in 1 .. n /\ j \in 1 .. l
      BY <1>1, <1>4
    <3> QED BY <1>1, <1>2, <1>3, <1>4, <3>1
  <2> HIDE DEF k, n
  <2> QED BY <1>3, <1>6, <2>1, <2>2, ScanOfStart
<1> HIDE DEF n
<1>8. CASE l <= n
  <2>1. k = l /\ k + 1 \in 1 .. Len(t) + 1 /\ k \in 0 .. Len(other) /\ k + 1 > Len(t) /\ k < Len(other)
    BY <1>1, <1>3, <1>4, <1>8
  <2> HIDE DEF k
  <2>2. scan[<<k + 1, k>>] = [used |-> k + 1 - 1, matched |-> k, complete |-> k = Len(other), pending |-> k < Len(other)]
    BY <1>3, <1>6, <2>1, ScanEnds
  <2>3. (k = Len(other)) = FALSE /\ (k < Len(other)) = TRUE /\ k + 1 - 1 = k
    BY <1>1, <1>4, <2>1
  <2>4. scan[<<k + 1, k>>] = [used |-> k, matched |-> k, complete |-> FALSE, pending |-> TRUE]
    BY <2>2, <2>3
  <2> QED BY <1>7, <1>8, <2>1, <2>4 DEF n
<1>9. ASSUME l > n
      PROVE  k = n /\ n + 1 \in 1 .. l /\ t[n + 1] = r /\ ControlLength(t, n + 1) = 0
             /\ n + 1 \in 1 .. l + 1 /\ n \in 0 .. Len(other) /\ n < Len(other) /\ n + 1 <= l
  <2>1. k = n /\ n + 1 \in 1 .. l /\ n + 1 \in 1 .. l + 1 /\ n \in 0 .. Len(other) /\ n < Len(other) /\ n + 1 <= l
    BY <1>1, <1>3, <1>4, <1>9
  <2>2. t[n + 1] = r
    <3> DEFINE i == n + 1
    <3>1. i \in 1 .. l /\ echo[i] = r
      BY <1>2, <2>1
    <3> HIDE DEF i, l
    <3>2. t[i] = echo[i]
      BY <1>4, <3>1
    <3> QED BY <3>1, <3>2 DEF i
  <2>3. ControlLength(t, n + 1) = 0
    <3> DEFINE i == n + 1
    <3>1. i \in 1 .. Len(t) /\ t[i] = r
      BY <2>1, <2>2
    <3> HIDE DEF i
    <3>2. ControlLength(t, i) = 0
      BY <1>5, <3>1, ControlIs
    <3> QED BY <3>2 DEF i
  <2> QED BY <2>1, <2>2, <2>3
<1>10. CASE l > n /\ q # r
  <2> DEFINE i == n + 1
  <2>1. /\ i \in 1 .. Len(t) + 1 /\ n \in 0 .. Len(other) /\ i <= Len(t) /\ n < Len(other)
        /\ ControlLength(t, i) = 0 /\ t[i] # other[n + 1]
    BY <1>3, <1>9, <1>10
  <2>2. i - 1 = n /\ ~(l <= n)
    BY <1>1, <1>4, <1>10
  <2> HIDE DEF i, k
  <2>3. scan[<<i, n>>] = [used |-> i - 1, matched |-> n, complete |-> FALSE, pending |-> FALSE]
    BY <1>3, <1>6, <2>1, ScanDiffers
  <2>4. k = n
    BY <1>9, <1>10
  <2>5. PrefixScan(t, other) = [used |-> n, matched |-> n, complete |-> FALSE, pending |-> FALSE]
    BY <1>7, <2>2, <2>3, <2>4 DEF i
  <2> QED BY <1>10, <2>2, <2>5 DEF n
<1>11. CASE l > n /\ q = r
  <2> DEFINE i == n + 1
             j == n + 2
  <2>1. /\ i \in 1 .. Len(t) + 1 /\ n \in 0 .. Len(other) /\ i <= Len(t) /\ n < Len(other)
        /\ ControlLength(t, i) = 0 /\ t[i] = other[n + 1]
    BY <1>3, <1>9, <1>11
  <2>2. i + 1 = j /\ ~(l <= n) /\ k = n
    BY <1>1, <1>4, <1>9, <1>11
  <2>3. j \in 1 .. Len(t) + 1 /\ i \in 0 .. Len(other) /\ i < Len(other) /\ j - 1 = i
    BY <1>1, <1>3, <1>4, <1>9, <1>11
  <2> HIDE DEF i, k, j
  <2>4. scan[<<i, n>>] = scan[<<i + 1, n + 1>>]
    BY <1>3, <1>6, <2>1, ScanMatches
  <2>5. PrefixScan(t, other) = scan[<<j, i>>]
    BY <1>7, <2>2, <2>4 DEF i
  <2>6. CASE l = n + 1
    <3>1. j > Len(t)
      BY <1>1, <1>4, <2>6 DEF j
    <3>2. scan[<<j, i>>] = [used |-> j - 1, matched |-> i, complete |-> i = Len(other), pending |-> i < Len(other)]
      BY <1>3, <1>6, <2>3, <3>1, ScanEnds
    <3>3. (i = Len(other)) = FALSE /\ (i < Len(other)) = TRUE /\ j - 1 = l
      BY <1>1, <1>3, <1>4, <2>3, <2>6 DEF i, j
    <3>4. scan[<<j, i>>] = [used |-> l, matched |-> n + 1, complete |-> FALSE, pending |-> TRUE]
      BY <3>2, <3>3 DEF i
    <3> QED BY <1>11, <2>2, <2>5, <3>4 DEF n
  <2>7. CASE l = n + 2
    <3> DEFINE m == j + 1
    <3>9. j \in 1 .. Len(t) /\ j <= Len(t) /\ m > Len(t) /\ m \in 1 .. Len(t) + 1 /\ m - 1 = l /\ j = l
      BY <1>1, <1>4, <2>7 DEF j
    <3>10. echo[j] = "cr"
      BY <1>1, <1>2, <1>4, <2>7 DEF j
    <3>11. t[j] = echo[j]
      BY <1>4, <3>9
    <3>1. j \in 1 .. Len(t) /\ j <= Len(t) /\ t[j] = "cr" /\ m > Len(t) /\ m \in 1 .. Len(t) + 1 /\ m - 1 = l
      BY <3>9, <3>10, <3>11
    <3>2. ControlLength(t, j) = 1
      BY <3>1, ControlIs
    <3>3. ControlLength(t, j) > 0 /\ j + ControlLength(t, j) = m
      BY <3>2
    <3> HIDE DEF m
    <3>4. scan[<<j, i>>] = scan[<<j + ControlLength(t, j), i>>]
      BY <1>3, <1>6, <2>3, <3>1, <3>3, ScanSkips, SMTT(40)
    <3>5. scan[<<j, i>>] = scan[<<m, i>>]
      BY <3>3, <3>4
    <3>6. scan[<<m, i>>] = [used |-> m - 1, matched |-> i, complete |-> i = Len(other), pending |-> i < Len(other)]
      BY <1>3, <1>6, <2>3, <3>1, ScanEnds, SMTT(40)
    <3>7. (i = Len(other)) = FALSE /\ (i < Len(other)) = TRUE
      BY <1>1, <1>3, <2>3
    <3>8. scan[<<j, i>>] = [used |-> l, matched |-> n + 1, complete |-> FALSE, pending |-> TRUE]
      BY <3>1, <3>5, <3>6, <3>7 DEF i
    <3> QED BY <1>11, <2>2, <2>5, <3>8 DEF n
  <2>8. l = n + 1 \/ l = n + 2
    BY <1>1, <1>4, <1>11
  <2> QED BY <2>6, <2>7, <2>8
<1>12. l <= n \/ l > n
  BY <1>1, <1>4
<1> QED BY <1>8, <1>10, <1>11, <1>12
-----------------------------------------------------------------------------
(* Controls of longer texts *)

\* From `k` on `u` goes on as `t` does from `i` on, as far as `t` goes.
Continues(t, i, u, k) ==
  /\ k + Len(t) - i <= Len(u)
  /\ \A j \in 0 .. Len(t) - i : u[k + j] = t[i + j]

\* Where a control of a text may end.
ControlEnds(t, i) == {j \in i + 2 .. i + MaxControl - 1 : j <= Len(t) /\ IsFinal(t[j])}

\* A control that is whole stays what it is when the text goes on.
LEMMA ControlExtends ==
  ASSUME NEW t \in Seq(Characters), NEW u \in Seq(Characters), NEW i \in 1 .. Len(t),
         NEW k \in 1 .. Len(u), Continues(t, i, u, k), ControlLength(t, i) # Partial
  PROVE  ControlLength(u, k) = ControlLength(t, i)
<1>1. /\ Len(t) \in Nat /\ Len(u) \in Nat /\ i \in Nat /\ k \in Nat /\ MaxControl \in Nat
      /\ i <= Len(t) /\ i >= 1 /\ k >= 1 /\ k <= Len(u)
  BY LenProperties, SentinelAssumption
<1>2. k + Len(t) - i <= Len(u) /\ \A j \in 0 .. Len(t) - i : u[k + j] = t[i + j]
  BY DEF Continues
<1>3. u[k] = t[i]
  <2>1. 0 \in 0 .. Len(t) - i /\ k + 0 = k /\ i + 0 = i
    BY <1>1
  <2>2. u[k + 0] = t[i + 0]
    BY <1>2, <2>1
  <2> QED BY <2>1, <2>2
<1>4. i < Len(t) => k < Len(u) /\ u[k + 1] = t[i + 1]
  BY <1>1, <1>2
<1> DEFINE E == ControlEnds(t, i)
           F == ControlEnds(u, k)
<1>5. ControlLength(t, i) =
        CASE t[i] = "cr" -> 1
          [] t[i] # "cr" /\ t[i] # "esc" -> 0
          [] t[i] = "esc" /\ i = Len(t) -> Partial
          [] t[i] = "esc" /\ i < Len(t) /\ t[i + 1] # "[" -> 2
          [] OTHER -> IF E # {} THEN Min(E) - i + 1
                      ELSE IF i + MaxControl - 1 < Len(t) THEN 0 ELSE Partial
  BY DEF ControlLength, ControlEnds
<1>6. ControlLength(u, k) =
        CASE u[k] = "cr" -> 1
          [] u[k] # "cr" /\ u[k] # "esc" -> 0
          [] u[k] = "esc" /\ k = Len(u) -> Partial
          [] u[k] = "esc" /\ k < Len(u) /\ u[k + 1] # "[" -> 2
          [] OTHER -> IF F # {} THEN Min(F) - k + 1
                      ELSE IF k + MaxControl - 1 < Len(u) THEN 0 ELSE Partial
  BY DEF ControlLength, ControlEnds
<1> HIDE DEF E, F
<1>7. CASE t[i] # "esc" \/ (i < Len(t) /\ t[i + 1] # "[")
  <2>1. CASE t[i] # "esc"
    BY <1>3, <1>5, <1>6, <2>1
  <2>2. CASE t[i] = "esc" /\ i < Len(t) /\ t[i + 1] # "["
    BY <1>1, <1>3, <1>4, <1>5, <1>6, <2>2
  <2> QED BY <1>7, <2>1, <2>2
<1>8. CASE t[i] = "esc" /\ ~(i < Len(t) /\ t[i + 1] # "[")
  <2>1. i < Len(t) /\ t[i + 1] = "["
    <3>1. i = Len(t) => ControlLength(t, i) = Partial
      BY <1>5, <1>8
    <3> QED BY <1>1, <1>8, <3>1
  <2>2. ControlLength(t, i) = IF E # {} THEN Min(E) - i + 1
                              ELSE IF i + MaxControl - 1 < Len(t) THEN 0 ELSE Partial
    BY <1>1, <1>5, <1>8, <2>1
  <2>3. ControlLength(u, k) = IF F # {} THEN Min(F) - k + 1
                              ELSE IF k + MaxControl - 1 < Len(u) THEN 0 ELSE Partial
    BY <1>1, <1>3, <1>4, <1>6, <1>8, <2>1
  <2>4. E \subseteq Nat /\ F \subseteq Nat
    BY <1>1 DEF ControlEnds, E, F
  <2>5. ASSUME NEW e \in E PROVE e - i + k \in F
    <3>1. e \in i + 2 .. i + MaxControl - 1 /\ e <= Len(t) /\ IsFinal(t[e])
      BY DEF ControlEnds, E
    <3> DEFINE j == e - i
    <3>2. j \in 0 .. Len(t) - i /\ i + j = e /\ k + j = e - i + k /\ j \in Int
      BY <1>1, <3>1
    <3> HIDE DEF j
    <3>3. u[k + j] = t[i + j]
      BY <1>2, <3>2
    <3>4. IsFinal(u[e - i + k])
      BY <3>1, <3>2, <3>3
    <3>5. e - i + k \in k + 2 .. k + MaxControl - 1 /\ e - i + k <= Len(u)
      BY <1>1, <1>2, <3>1
    <3> QED BY <3>4, <3>5 DEF ControlEnds, F
  <2>6. ASSUME NEW f \in F, f - k + i <= Len(t) PROVE f - k + i \in E
    <3>1. f \in k + 2 .. k + MaxControl - 1 /\ f <= Len(u) /\ IsFinal(u[f])
      BY DEF ControlEnds, F
    <3> DEFINE j == f - k
    <3>2. j \in 0 .. Len(t) - i /\ i + j = f - k + i /\ k + j = f /\ j \in Int
      BY <1>1, <2>6, <3>1
    <3> HIDE DEF j
    <3>3. u[k + j] = t[i + j]
      BY <1>2, <3>2
    <3>4. IsFinal(t[f - k + i])
      BY <3>1, <3>2, <3>3
    <3>5. f - k + i \in i + 2 .. i + MaxControl - 1
      BY <1>1, <3>1
    <3> QED BY <2>6, <3>4, <3>5 DEF ControlEnds, E
  <2>7. CASE E # {}
    <3>1. Min(E) \in E /\ \A e \in E : Min(E) <= e
      BY <2>4, <2>7, Smallest
    <3>2. Min(E) - i + k \in F
      BY <2>5, <3>1
    <3>3. Min(F) \in F /\ \A f \in F : Min(F) <= f
      BY <2>4, <3>2, Smallest
    <3>4. Min(E) \in Nat /\ Min(F) \in Nat /\ Min(E) <= Len(t)
      BY <2>4, <3>1, <3>3 DEF E, ControlEnds
    <3>5. Min(F) <= Min(E) - i + k
      BY <3>2, <3>3
    <3>6. Min(F) - k + i <= Len(t)
      BY <1>1, <3>4, <3>5
    <3>7. Min(F) - k + i \in E
      BY <2>6, <3>3, <3>6
    <3>8. Min(E) <= Min(F) - k + i
      BY <3>1, <3>7
    <3>9. Min(F) - k + 1 = Min(E) - i + 1
      BY <1>1, <3>4, <3>5, <3>8
    <3>10. F # {}
      BY <3>2
    <3> QED BY <2>2, <2>3, <2>7, <3>9, <3>10
  <2>8. CASE E = {}
    <3>1. i + MaxControl - 1 < Len(t)
      BY <2>2, <2>8
    <3>2. F = {}
      <4> SUFFICES ASSUME NEW f \in F PROVE FALSE
        OBVIOUS
      <4>1. f \in k + 2 .. k + MaxControl - 1
        BY DEF ControlEnds, F
      <4>2. f - k + i <= Len(t)
        BY <1>1, <3>1, <4>1
      <4> QED BY <2>6, <2>8, <4>2
    <3>3. k + MaxControl - 1 < Len(u)
      BY <1>1, <1>2, <3>1
    <3> QED BY <2>2, <2>3, <2>8, <3>1, <3>2, <3>3
  <2> QED BY <2>7, <2>8
<1> QED BY <1>7, <1>8
-----------------------------------------------------------------------------
(* What looks like an echo and is none *)

\* The first `L` characters of `t` are no start of a postamble, though the first
\* is its first; they are all of `t`, or a postamble follows and no control is cut.
Lookalike(t, L) ==
  /\ L \in 1 .. Len(t) /\ t[1] = EchoPrefix[1]
  /\ ~PrefixScan(SubSeq(t, 1, L), EchoPrefix).complete
  /\ L < Len(t) => /\ t[L + 1] = EchoPrefix[1]
                   /\ \A k \in 1 .. L : ControlLength(SubSeq(t, 1, L), k) # Partial

\* A scan that has not got through the start of a postamble, and only goes on
\* where the text may.
Short(scan, t, L) ==
  /\ ~scan.complete /\ scan.matched \in Nat /\ scan.matched < EchoSize
  /\ scan.pending => L = Len(t)

\* The start of such a text.
LEMMA LookalikeIs ==
  ASSUME NEW t \in Seq(Characters), NEW L, Lookalike(t, L)
  PROVE  /\ Len(t) \in Nat /\ L \in Nat /\ 1 <= L /\ L <= Len(t)
         /\ SubSeq(t, 1, L) \in Seq(Characters) /\ Len(SubSeq(t, 1, L)) = L
         /\ \A j \in 1 .. L : SubSeq(t, 1, L)[j] = t[j]
         /\ L = Len(t) => SubSeq(t, 1, L) = t
<1>1. Len(t) \in Nat /\ L \in 1 .. Len(t) /\ 0 \in 0 .. Len(t) /\ L \in 0 .. Len(t) /\ 0 + 1 = 1
  BY LenProperties DEF Lookalike
<1>2. /\ SubSeq(t, 0 + 1, L) \in Seq(Characters) /\ Len(SubSeq(t, 0 + 1, L)) = L - 0
      /\ \A j \in 1 .. L - 0 : SubSeq(t, 0 + 1, L)[j] = t[0 + j]
  BY <1>1, PartIs
<1>3. SubSeq(t, 1, Len(t)) = t
  BY SubSeqFull
<1>4. L = Len(t) => SubSeq(t, 1, L) = t
  BY <1>3
<1>5. /\ SubSeq(t, 1, L) \in Seq(Characters) /\ Len(SubSeq(t, 1, L)) = L
      /\ \A j \in 1 .. L : SubSeq(t, 1, L)[j] = t[j]
  BY <1>1, <1>2
<1>6. Len(t) \in Nat /\ L \in Nat /\ 1 <= L /\ L <= Len(t)
  BY <1>1
<1> QED BY <1>4, <1>5, <1>6

\* One step of the two scans: of the first characters for the start of a
\* postamble, and of the whole text for an echo.
LEMMA LookalikeGoesOn ==
  ASSUME NEW t \in Seq(Characters), NEW L, Lookalike(t, L),
         NEW r \in Runs, NEW echo \in Echoes(r),
         NEW f, Scans(f, SubSeq(t, 1, L), EchoPrefix), NEW g, Scans(g, t, echo),
         NEW k \in 1 .. L + 1, NEW e \in 1 .. EchoSize, ~f[<<k, e>>].complete,
         \A j \in 1 .. L + 1 : \A d \in 1 .. EchoSize :
           j > k /\ ~f[<<j, d>>].complete => Short(g[<<j, d>>], t, L)
  PROVE  Short(g[<<k, e>>], t, L)
<1> DEFINE n == EchoSize
           b == SubSeq(t, 1, L)
<1>1. /\ Len(t) \in Nat /\ L \in Nat /\ 1 <= L /\ L <= Len(t) /\ b \in Seq(Characters) /\ Len(b) = L
      /\ \A j \in 1 .. L : b[j] = t[j]
      /\ L = Len(t) => b = t
  BY LookalikeIs
<1>2. /\ EchoPrefix \in Seq(Characters) /\ n \in Nat /\ n >= 1 /\ Len(EchoPrefix) = n
      /\ \A j \in 1 .. n : /\ EchoPrefix[j] # "esc" /\ EchoPrefix[j] # "cr"
                           /\ j > 1 => EchoPrefix[j] # EchoPrefix[1]
  BY PrefixIs DEF EchoSize
<1>3. /\ echo \in Seq(Characters) /\ Len(echo) \in n + 2 .. n + 3
      /\ \A j \in 1 .. n : echo[j] = EchoPrefix[j]
  BY EchoIs
<1>4. L < Len(t) => /\ t[L + 1] = EchoPrefix[1]
                    /\ \A j \in 1 .. L : ControlLength(b, j) # Partial
  BY DEF Lookalike
<1> HIDE DEF b, n
<1>5. Scans(f, b, EchoPrefix)
  BY DEF b
<1>6. k \in Nat /\ e \in Nat /\ e >= 1 /\ e <= n /\ k >= 1 /\ k <= L + 1 /\ e \in 0 .. Len(EchoPrefix)
      /\ k \in 1 .. Len(b) + 1 /\ k \in 1 .. Len(t) + 1 /\ e \in 0 .. Len(echo) /\ e < Len(echo)
  BY <1>1, <1>2, <1>3 DEF n
<1>7. e < n
  <2>1. CASE e = n
    <3>1. e = Len(EchoPrefix) /\ k \in 1 .. Len(b) + 1 /\ e \in 0 .. Len(EchoPrefix)
      BY <1>2, <1>6, <2>1
    <3>2. f[<<k, e>>] = [used |-> k - 1, matched |-> e, complete |-> e = Len(EchoPrefix), pending |-> e < Len(EchoPrefix)]
      BY <1>1, <1>2, <1>5, <3>1, ScanEnds
    <3>3. f[<<k, e>>].complete = (e = Len(EchoPrefix))
      BY <3>2
    <3>4. f[<<k, e>>].complete
      BY <3>1, <3>3, Zenon
    <3> QED BY <3>4
  <2> QED BY <1>2, <1>6, <2>1
<1>8. ASSUME NEW pending \in BOOLEAN, pending => L = Len(t),
             g[<<k, e>>] = [used |-> k - 1, matched |-> e, complete |-> FALSE, pending |-> pending]
      PROVE  Short(g[<<k, e>>], t, L)
  BY <1>6, <1>7, <1>8 DEF Short, n
<1>9. CASE k = L + 1
  <2>1. CASE L = Len(t)
    <3>1. k > Len(t)
      BY <1>1, <1>9, <2>1
    <3>2. g[<<k, e>>] = [used |-> k - 1, matched |-> e, complete |-> e = Len(echo), pending |-> e < Len(echo)]
      BY <1>3, <1>6, <3>1, ScanEnds
    <3>3. (e = Len(echo)) = FALSE /\ (e < Len(echo)) = TRUE
      BY <1>3, <1>6
    <3> QED BY <1>8, <2>1, <3>2, <3>3
  <2>2. CASE L < Len(t)
    <3>1. k <= Len(t) /\ t[k] = EchoPrefix[1] /\ k \in 1 .. Len(t)
      BY <1>1, <1>4, <1>6, <1>9, <2>2
    <3>2. t[k] # "cr" /\ t[k] # "esc"
      BY <1>2, <3>1
    <3>3. ControlLength(t, k) = 0
      BY <3>1, <3>2, ControlIs
    <3>4. t[k] # echo[e + 1]
      <4>1. e + 1 \in 1 .. n /\ e + 1 > 1
        BY <1>2, <1>6, <1>7
      <4>2. echo[e + 1] = EchoPrefix[e + 1] /\ EchoPrefix[e + 1] # EchoPrefix[1]
        BY <1>2, <1>3, <4>1
      <4> QED BY <3>1, <4>2
    <3>5. g[<<k, e>>] = [used |-> k - 1, matched |-> e, complete |-> FALSE, pending |-> FALSE]
      BY <1>3, <1>6, <3>1, <3>3, <3>4, ScanDiffers
    <3> QED BY <1>8, <3>5
  <2> QED BY <1>1, <2>1, <2>2
<1>10. CASE k <= L
  <2>1. k \in 1 .. Len(t) /\ k \in 1 .. Len(b) /\ k <= Len(t) /\ k <= Len(b) /\ b[k] = t[k] /\ e < Len(EchoPrefix)
    BY <1>1, <1>2, <1>6, <1>7, <1>10
  <2>2. CASE ControlLength(b, k) = Partial
    <3>1. L = Len(t) /\ b = t
      BY <1>1, <1>4, <1>6, <1>10, <2>2, SMTT(40)
    <3>2. g[<<k, e>>] = [used |-> k - 1, matched |-> e, complete |-> FALSE, pending |-> TRUE]
      BY <1>3, <1>6, <2>1, <2>2, <3>1, ScanIsCut
    <3> QED BY <1>8, <3>1, <3>2
  <2>3. CASE ControlLength(b, k) # Partial
    <3>1. ControlLength(t, k) = ControlLength(b, k)
      <4>1. Continues(b, k, t, k)
        <5>1. k + Len(b) - k <= Len(t)
          BY <1>1, <1>6
        <5>2. \A j \in 0 .. Len(b) - k : k + j \in 1 .. L
          BY <1>1, <1>6
        <5> QED BY <1>1, <5>1, <5>2 DEF Continues
      <4> QED BY <1>1, <2>1, <2>3, <4>1, ControlExtends
    <3> DEFINE control == ControlLength(b, k)
    <3>2. control \in 0 .. Len(b) - k + 1
      BY <1>1, <2>1, <2>3, ControlIs
    <3> HIDE DEF control
    <3>3. CASE control > 0
      <4> DEFINE j == k + control
      <4>1. j \in 1 .. L + 1 /\ j > k
        BY <1>1, <1>6, <3>2, <3>3
      <4>2. f[<<k, e>>] = f[<<k + ControlLength(b, k), e>>]
        <5>1. EchoPrefix \in Seq(Characters) /\ b \in Seq(Characters) /\ k \in 1 .. Len(b) + 1
              /\ e \in 0 .. Len(EchoPrefix) /\ k <= Len(b) /\ e < Len(EchoPrefix) /\ ControlLength(b, k) > 0
          BY <1>1, <1>2, <1>6, <2>1, <3>3 DEF control
        <5> QED BY <1>5, <5>1, ScanSkips
      <4>3. g[<<k, e>>] = g[<<k + ControlLength(t, k), e>>]
        BY <1>3, <1>6, <2>1, <3>1, <3>3, ScanSkips DEF control
      <4>4. f[<<k, e>>] = f[<<j, e>>] /\ g[<<k, e>>] = g[<<j, e>>]
        BY <3>1, <4>2, <4>3 DEF control
      <4> HIDE DEF j
      <4> QED BY <4>1, <4>4
    <3>4. CASE control = 0
      <4>1. ControlLength(b, k) = 0 /\ ControlLength(t, k) = 0
        BY <3>1, <3>4 DEF control
      <4>2. echo[e + 1] = EchoPrefix[e + 1]
        <5>1. e + 1 \in 1 .. n
          BY <1>2, <1>6, <1>7
        <5> QED BY <1>3, <5>1
      <4>3. CASE t[k] = echo[e + 1]
        <5> DEFINE j == k + 1
                   d == e + 1
        <5>1. f[<<k, e>>] = f[<<k + 1, e + 1>>]
          <6>1. EchoPrefix \in Seq(Characters) /\ b \in Seq(Characters) /\ k \in 1 .. Len(b) + 1
                /\ e \in 0 .. Len(EchoPrefix) /\ k <= Len(b) /\ e < Len(EchoPrefix) /\ ControlLength(b, k) = 0
                /\ b[k] = EchoPrefix[e + 1]
            BY <1>1, <1>2, <1>6, <2>1, <4>1, <4>2, <4>3
          <6> QED BY <1>5, <6>1, ScanMatches
        <5>2. g[<<k, e>>] = g[<<k + 1, e + 1>>]
          BY <1>3, <1>6, <2>1, <4>1, <4>3, ScanMatches
        <5>3. j \in 1 .. L + 1 /\ d \in 1 .. EchoSize /\ j > k
          BY <1>1, <1>2, <1>6, <1>7, <1>10 DEF n
        <5>4. f[<<k, e>>] = f[<<j, d>>] /\ g[<<k, e>>] = g[<<j, d>>]
          BY <5>1, <5>2
        <5> HIDE DEF j, d
        <5> QED BY <5>3, <5>4
      <4>4. CASE t[k] # echo[e + 1]
        <5>1. g[<<k, e>>] = [used |-> k - 1, matched |-> e, complete |-> FALSE, pending |-> FALSE]
          BY <1>3, <1>6, <2>1, <4>1, <4>4, ScanDiffers
        <5> QED BY <1>8, <5>1
      <4> QED BY <4>3, <4>4
    <3>5. control = 0 \/ control > 0
      BY <1>1, <1>6, <3>2
    <3> QED BY <3>3, <3>4, <3>5
  <2> QED BY <2>2, <2>3
<1>11. k = L + 1 \/ k <= L
  BY <1>1, <1>6
<1> QED BY <1>9, <1>10, <1>11

\* So no scan for an echo gets through the start of a postamble.
LEMMA LookalikeScanned ==
  ASSUME NEW t \in Seq(Characters), NEW L, Lookalike(t, L), NEW r \in Runs, NEW echo \in Echoes(r)
  PROVE  Short(PrefixScan(t, echo), t, L)
<1> DEFINE n == EchoSize
           b == SubSeq(t, 1, L)
<1>1. /\ Len(t) \in Nat /\ L \in Nat /\ 1 <= L /\ L <= Len(t) /\ b \in Seq(Characters) /\ Len(b) = L
      /\ \A j \in 1 .. L : b[j] = t[j]
  BY LookalikeIs
<1>2. /\ EchoPrefix \in Seq(Characters) /\ n \in Nat /\ n >= 1 /\ Len(EchoPrefix) = n
      /\ \A j \in 1 .. n : EchoPrefix[j] # "esc" /\ EchoPrefix[j] # "cr"
  BY PrefixIs DEF EchoSize
<1>3. /\ echo \in Seq(Characters) /\ Len(echo) \in n + 2 .. n + 3
      /\ \A j \in 1 .. n : echo[j] = EchoPrefix[j]
  BY EchoIs
<1>4. t[1] = EchoPrefix[1] /\ ~PrefixScan(b, EchoPrefix).complete
  BY DEF Lookalike
<1> HIDE DEF b, n
<1>5. PICK f : Scans(f, b, EchoPrefix)
  BY <1>1, <1>2, PrefixScanLoops
<1>6. PICK g : Scans(g, t, echo)
  BY <1>3, PrefixScanLoops
<1>7. PrefixScan(b, EchoPrefix) = f[<<1 + 1, 1>>]
  <2>1. 1 \in 0 .. Len(b) /\ 1 <= Len(EchoPrefix)
    BY <1>1, <1>2
  <2>2. \A j \in 1 .. 1 : b[j] = EchoPrefix[j] /\ b[j] # "cr" /\ b[j] # "esc"
    BY <1>1, <1>2, <1>4
  <2> QED BY <1>1, <1>2, <1>5, <2>1, <2>2, ScanOfStart
<1>8. PrefixScan(t, echo) = g[<<1 + 1, 1>>]
  <2>1. 1 \in 0 .. Len(t) /\ 1 <= Len(echo)
    BY <1>1, <1>2, <1>3
  <2>2. \A j \in 1 .. 1 : t[j] = echo[j] /\ t[j] # "cr" /\ t[j] # "esc"
    BY <1>1, <1>2, <1>3, <1>4
  <2> QED BY <1>3, <1>6, <2>1, <2>2, ScanOfStart
<1> DEFINE Fits(k, e) == ~f[<<k, e>>].complete => Short(g[<<k, e>>], t, L)
           good == {m \in Nat : \A k \in 1 .. L + 1 : \A e \in 1 .. EchoSize : k + m >= L + 1 => Fits(k, e)}
<1>9. ASSUME NEW k \in 1 .. L + 1, NEW e \in 1 .. EchoSize,
             \A j \in 1 .. L + 1 : \A d \in 1 .. EchoSize : j > k => Fits(j, d)
      PROVE  Fits(k, e)
  <2>1. Scans(f, SubSeq(t, 1, L), EchoPrefix)
    BY <1>5 DEF b
  <2> QED BY <1>3, <1>6, <1>9, <2>1, LookalikeGoesOn
<1> HIDE DEF Fits
<1>10. 0 \in good
  <2>1. \A k \in 1 .. L + 1 : k + 0 >= L + 1 => \A j \in 1 .. L + 1 : ~(j > k)
    BY <1>1
  <2> QED BY <1>9, <2>1
<1>11. ASSUME NEW m \in Nat, m \in good PROVE m + 1 \in good
  <2> SUFFICES ASSUME NEW k \in 1 .. L + 1, NEW e \in 1 .. EchoSize, k + (m + 1) >= L + 1
               PROVE  Fits(k, e)
    OBVIOUS
  <2>1. \A j \in 1 .. L + 1 : j > k => j + m >= L + 1
    BY <1>1
  <2>2. \A j \in 1 .. L + 1 : \A d \in 1 .. EchoSize : j > k => Fits(j, d)
    BY <1>11, <2>1
  <2> HIDE DEF good
  <2> QED BY <1>9, <2>2
<1>12. L \in good
  <2> HIDE DEF good
  <2> QED BY <1>1, <1>10, <1>11, Induction
<1>13. Fits(1 + 1, 1)
  <2>1. 1 + 1 \in 1 .. L + 1 /\ 1 \in 1 .. EchoSize /\ 1 + 1 + L >= L + 1
    BY <1>1, <1>2 DEF n
  <2> QED BY <1>12, <2>1
<1> QED BY <1>4, <1>7, <1>8, <1>13 DEF Fits
-----------------------------------------------------------------------------
(* What the sanitizer finds at the first character of postambles *)

\* A word that a text starts with.
LEMMA PrefixOf ==
  ASSUME NEW t \in Seq(Characters), NEW word \in Seq(Characters)
  PROVE  IsPrefix(word, t) <=> Len(word) <= Len(t) /\ \A j \in 1 .. Len(word) : t[j] = word[j]
<1> DEFINE i == 1
<1>1. Len(t) \in Nat /\ Len(word) \in Nat /\ i \in 1 .. Len(t) + 1 /\ i = 1
  BY LenProperties
<1>2. Rest(t, 1) = t
  BY SubSeqFull DEF Rest
<1> HIDE DEF i
<1>3. StartsWith(t, i, word) <=> i + Len(word) - 1 <= Len(t) /\ \A j \in 1 .. Len(word) : t[i + j - 1] = word[j]
  BY <1>1, StartsAt
<1>4. StartsWith(t, i, word) <=> IsPrefix(word, t)
  BY <1>1, <1>2 DEF StartsWith
<1>5. i + Len(word) - 1 <= Len(t) <=> Len(word) <= Len(t)
  BY <1>1
<1>6. \A j \in 1 .. Len(word) : i + j - 1 = j
  BY <1>1
<1> QED BY <1>3, <1>4, <1>5, <1>6

\* The candidates are the echoes of the active runs.
LEMMA CandidateIs ==
  ASSUME NEW echoes \in SUBSET Runs, NEW c \in Candidates(echoes)
  PROVE  /\ c = [run |-> c.run, echo |-> c.echo, index |-> 0]
         /\ c.run \in echoes /\ c.run \in Runs /\ c.echo \in Echoes(c.run)
<1>1. PICK r \in echoes : c \in {[run |-> r, echo |-> echo, index |-> 0] : echo \in Echoes(r)}
  BY DEF Candidates
<1>2. PICK echo \in Echoes(r) : c = [run |-> r, echo |-> echo, index |-> 0]
  BY <1>1
<1> QED BY <1>2

\* And all of them.
LEMMA EchoIsCandidate ==
  ASSUME NEW echoes \in SUBSET Runs, NEW r \in echoes, NEW echo \in Echoes(r)
  PROVE  [run |-> r, echo |-> echo, index |-> 0] \in Candidates(echoes)
BY DEF Candidates

\* A lookalike is no whole echo.
LEMMA LookalikeIsNoEcho ==
  ASSUME NEW t \in Seq(Characters), NEW L, Lookalike(t, L), NEW r \in Runs, NEW echo \in Echoes(r)
  PROVE  ~IsPrefix(echo, t)
<1> DEFINE n == EchoSize
           b == SubSeq(t, 1, L)
<1>1. /\ Len(t) \in Nat /\ L \in Nat /\ 1 <= L /\ L <= Len(t) /\ b \in Seq(Characters) /\ Len(b) = L
      /\ \A j \in 1 .. L : b[j] = t[j]
  BY LookalikeIs
<1>2. /\ EchoPrefix \in Seq(Characters) /\ n \in Nat /\ n >= 1 /\ Len(EchoPrefix) = n
      /\ \A j \in 1 .. n : /\ EchoPrefix[j] # "esc" /\ EchoPrefix[j] # "cr"
                           /\ j > 1 => EchoPrefix[j] # EchoPrefix[1]
  BY PrefixIs DEF EchoSize
<1>3. /\ echo \in Seq(Characters) /\ Len(echo) \in n + 2 .. n + 3
      /\ \A j \in 1 .. n : echo[j] = EchoPrefix[j]
  BY EchoIs
<1>4. /\ t[1] = EchoPrefix[1] /\ ~PrefixScan(b, EchoPrefix).complete
      /\ L < Len(t) => t[L + 1] = EchoPrefix[1]
  BY DEF Lookalike
<1> HIDE DEF b, n
<1>5. SUFFICES ASSUME IsPrefix(echo, t) PROVE FALSE
  OBVIOUS
<1>6. Len(echo) <= Len(t) /\ \A j \in 1 .. Len(echo) : t[j] = echo[j]
  BY <1>3, <1>5, PrefixOf
<1>7. n < Len(t) /\ \A j \in 1 .. n : t[j] = EchoPrefix[j]
  <2>1. \A j \in 1 .. n : j \in 1 .. Len(echo)
    BY <1>2, <1>3
  <2> QED BY <1>1, <1>2, <1>3, <1>6, <2>1
<1>8. CASE L < n
  <2>1. L + 1 \in 1 .. n /\ L + 1 > 1 /\ L < Len(t)
    BY <1>1, <1>2, <1>7, <1>8
  <2>2. t[L + 1] = EchoPrefix[L + 1] /\ EchoPrefix[L + 1] # EchoPrefix[1]
    BY <1>2, <1>7, <2>1
  <2> QED BY <1>4, <2>1, <2>2
<1>9. CASE n <= L
  <2>1. PICK f : Scans(f, b, EchoPrefix)
    BY <1>1, <1>2, PrefixScanLoops
  <2>2. n \in 0 .. Len(b) /\ n <= Len(EchoPrefix)
    BY <1>1, <1>2, <1>9
  <2>3. \A j \in 1 .. n : b[j] = EchoPrefix[j] /\ b[j] # "cr" /\ b[j] # "esc"
    <3>1. \A j \in 1 .. n : j \in 1 .. L
      BY <1>1, <1>2, <1>9
    <3> QED BY <1>1, <1>2, <1>7, <3>1
  <2>4. PrefixScan(b, EchoPrefix) = f[<<n + 1, n>>]
    BY <1>1, <1>2, <2>1, <2>2, <2>3, ScanOfStart, SMTT(40)
  <2> DEFINE i == n + 1
  <2>5. i \in 1 .. Len(b) + 1 /\ n \in 0 .. Len(EchoPrefix) /\ n = Len(EchoPrefix)
    BY <1>1, <1>2, <1>9
  <2> HIDE DEF i
  <2>6. f[<<i, n>>] = [used |-> i - 1, matched |-> n, complete |-> n = Len(EchoPrefix), pending |-> n < Len(EchoPrefix)]
    <3>1. b \in Seq(Characters) /\ EchoPrefix \in Seq(Characters) /\ (i > Len(b) \/ n = Len(EchoPrefix))
      BY <1>1, <1>2, <2>5
    <3> QED BY <2>1, <2>5, <3>1, ScanEnds
  <2>7. f[<<i, n>>].complete = (n = Len(EchoPrefix))
    BY <2>6
  <2>8. f[<<i, n>>].complete
    BY <2>5, <2>7, Zenon
  <2> QED BY <1>4, <2>4, <2>8 DEF i
<1> QED BY <1>1, <1>2, <1>8, <1>9

\* Nothing of a lookalike is dropped, and it is only kept back while all of
\* it may be the start of an echo.
LEMMA LookalikeStays ==
  ASSUME NEW t \in Seq(Characters), NEW L, Lookalike(t, L), NEW echoes \in SUBSET Runs
  PROVE  /\ TolerantMatch(t, echoes) = [used |-> 0, strip |-> NoStrip]
         /\ EchoGoesOn(t, echoes) => L = Len(t) /\ echoes # {} /\ Len(t) < MaxEcho
<1>1. ASSUME NEW m \in Matches(t, echoes)
      PROVE  Short(m.scan, t, L) /\ echoes # {}
  <2>1. PICK c \in Candidates(echoes) : m = [of |-> c, scan |-> PrefixScan(t, c.echo)]
    BY DEF Matches
  <2>2. c.run \in echoes /\ c.run \in Runs /\ c.echo \in Echoes(c.run)
    BY CandidateIs
  <2>3. Short(PrefixScan(t, c.echo), t, L)
    BY <2>2, LookalikeScanned
  <2> QED BY <2>1, <2>2, <2>3
<1>2. EchoSize \in Nat /\ Len(EchoPrefix) = EchoSize
  BY PrefixIs DEF EchoSize
<1>3. {m \in Matches(t, echoes) : m.scan.complete} = {}
  BY <1>1 DEF Short
<1>4. {m \in Matches(t, echoes) : m.scan.matched >= Len(EchoPrefix)} = {}
  <2>1. \A m \in Matches(t, echoes) : m.scan.matched \in Nat /\ m.scan.matched < EchoSize
    BY <1>1 DEF Short
  <2> QED BY <1>2, <2>1
<1>5. Best({}) = {}
  BY DEF Best
<1>6. TolerantMatch(t, echoes) = [used |-> 0, strip |-> NoStrip]
  BY <1>3, <1>4, <1>5 DEF TolerantMatch, Match
<1>7. ASSUME EchoGoesOn(t, echoes)
      PROVE  L = Len(t) /\ echoes # {} /\ Len(t) < MaxEcho
  <2>1. PICK m \in Matches(t, echoes) : m.scan.pending /\ m.scan.matched > 0
    BY <1>7 DEF EchoGoesOn
  <2>2. L = Len(t) /\ echoes # {}
    BY <1>1, <2>1 DEF Short
  <2> QED BY <1>7, <2>2 DEF EchoGoesOn
<1> QED BY <1>6, <1>7
-----------------------------------------------------------------------------
(* What it finds at the start of an echo *)

\* A text that starts with an echo starts with no other.
LEMMA WholeEcho ==
  ASSUME NEW t \in Seq(Characters), NEW r \in Runs, NEW echo \in Echoes(r),
         Len(echo) <= Len(t), \A j \in 1 .. Len(echo) : t[j] = echo[j],
         NEW q \in Runs, NEW other \in Echoes(q), IsPrefix(other, t)
  PROVE  other = echo
<1> DEFINE n == EchoSize
<1>1. n \in Nat
  BY PrefixIs
<1>2. /\ echo \in Seq(Characters) /\ Len(echo) \in n + 2 .. n + 3
      /\ echo[n + 1] = r
      /\ Len(echo) = n + 2 => echo = EchoPrefix \o <<r, "lf">> /\ echo[n + 2] = "lf"
      /\ Len(echo) = n + 3 => echo = EchoPrefix \o <<r, "cr", "lf">> /\ echo[n + 2] = "cr"
  BY EchoIs
<1>3. /\ other \in Seq(Characters) /\ Len(other) \in n + 2 .. n + 3
      /\ other[n + 1] = q
      /\ Len(other) = n + 2 => other = EchoPrefix \o <<q, "lf">> /\ other[n + 2] = "lf"
      /\ Len(other) = n + 3 => other = EchoPrefix \o <<q, "cr", "lf">> /\ other[n + 2] = "cr"
  BY EchoIs
<1>4. \A j \in 1 .. Len(other) : t[j] = other[j]
  BY <1>3, PrefixOf
<1> HIDE DEF n
<1> DEFINE i == n + 1
           k == n + 2
<1>5. i \in 1 .. Len(echo) /\ i \in 1 .. Len(other) /\ k \in 1 .. Len(echo) /\ k \in 1 .. Len(other)
  BY <1>1, <1>2, <1>3
<1> HIDE DEF i, k
<1>6. t[i] = echo[i] /\ t[i] = other[i] /\ t[k] = echo[k] /\ t[k] = other[k]
  BY <1>4, <1>5
<1>7. q = r /\ echo[k] = other[k]
  BY <1>2, <1>3, <1>6 DEF i
<1>8. Len(echo) = n + 2 \/ Len(echo) = n + 3
  BY <1>1, <1>2
<1>9. Len(other) = n + 2 \/ Len(other) = n + 3
  BY <1>1, <1>3
<1> QED BY <1>2, <1>3, <1>7, <1>8, <1>9 DEF k

\* A text that is only the start of an echo starts with none.
LEMMA StartIsNoEcho ==
  ASSUME NEW t \in Seq(Characters), NEW r \in Runs, NEW echo \in Echoes(r), IsStart(t, r, echo),
         NEW q \in Runs, NEW other \in Echoes(q)
  PROVE  ~IsPrefix(other, t)
<1> DEFINE n == EchoSize
<1>1. n \in Nat
  BY PrefixIs
<1>2. /\ echo \in Seq(Characters) /\ Len(echo) \in n + 2 .. n + 3
      /\ Len(echo) = n + 3 => echo[n + 2] = "cr"
  BY EchoIs
<1>3. /\ other \in Seq(Characters) /\ Len(other) \in n + 2 .. n + 3
      /\ Len(other) = n + 2 => other[n + 2] = "lf"
  BY EchoIs
<1>4. Len(t) \in Nat /\ Len(t) < Len(echo) /\ \A j \in 1 .. Len(t) : t[j] = echo[j]
  BY LenProperties DEF IsStart
<1> HIDE DEF n
<1>5. SUFFICES ASSUME IsPrefix(other, t) PROVE FALSE
  OBVIOUS
<1>6. Len(other) <= Len(t) /\ \A j \in 1 .. Len(other) : t[j] = other[j]
  BY <1>3, <1>5, PrefixOf
<1>7. Len(other) = n + 2 /\ Len(echo) = n + 3 /\ Len(t) = n + 2
  BY <1>1, <1>2, <1>3, <1>4, <1>6
<1> DEFINE k == n + 2
<1>8. k \in 1 .. Len(t) /\ k \in 1 .. Len(other)
  BY <1>1, <1>7
<1>9. echo[k] = "cr" /\ other[k] = "lf"
  BY <1>2, <1>3, <1>7
<1> HIDE DEF k
<1>10. t[k] = echo[k] /\ t[k] = other[k]
  BY <1>4, <1>6, <1>8
<1> QED BY <1>9, <1>10

\* The sanitizer is in the middle of an echo of `r`, behind its first `l`
\* characters: it has the candidates that fit, and LF may end the echo.
Within(strip, r, l) ==
  LET index == IF l = EchoSize THEN EchoSize ELSE EchoSize + 1
  IN /\ strip = [candidates |-> strip.candidates, drop |-> "none"] /\ l >= EchoSize
     /\ \A c \in strip.candidates :
          /\ c = [run |-> c.run, echo |-> c.echo, index |-> index]
          /\ c.run \in Runs /\ c.echo \in Echoes(c.run)
          /\ l > EchoSize => c.run = r
     /\ [run |-> r, echo |-> EchoPrefix \o <<r, "lf">>, index |-> index] \in strip.candidates

\* What a scan of the start of an echo of `r` finds for an echo of `q`.
StartScan(t, r, q) ==
  IF Len(t) <= EchoSize \/ q = r
  THEN [used |-> Len(t), matched |-> IF Len(t) <= EchoSize THEN Len(t) ELSE EchoSize + 1,
        complete |-> FALSE, pending |-> TRUE]
  ELSE [used |-> EchoSize, matched |-> EchoSize, complete |-> FALSE, pending |-> FALSE]

\* The matches of the start of an echo.
LEMMA StartMatches ==
  ASSUME NEW t \in Seq(Characters), NEW echoes \in SUBSET Runs,
         NEW r \in echoes, NEW echo \in Echoes(r), IsStart(t, r, echo),
         NEW m \in Matches(t, echoes)
  PROVE  /\ m.of \in Candidates(echoes) /\ m = [of |-> m.of, scan |-> m.scan]
         /\ m.scan = StartScan(t, r, m.of.run)
<1>1. PICK c \in Candidates(echoes) : m = [of |-> c, scan |-> PrefixScan(t, c.echo)]
  BY DEF Matches
<1>2. c.run \in Runs /\ c.echo \in Echoes(c.run) /\ r \in Runs
  BY CandidateIs
<1>3. PrefixScan(t, c.echo) = StartScan(t, r, c.run)
  BY <1>2, StartScanned DEF StartScan
<1>4. m.of = c /\ m.scan = PrefixScan(t, c.echo) /\ m = [of |-> m.of, scan |-> m.scan]
  BY <1>1
<1> QED BY <1>3, <1>4

\* The start of an echo that is too short is kept back.
LEMMA ShortStart ==
  ASSUME NEW t \in Seq(Characters), NEW echoes \in SUBSET Runs,
         NEW r \in echoes, NEW echo \in Echoes(r), IsStart(t, r, echo), Len(t) < EchoSize
  PROVE  /\ TolerantMatch(t, echoes) = [used |-> 0, strip |-> NoStrip]
         /\ EchoGoesOn(t, echoes) /\ echoes # {} /\ Len(t) < MaxEcho
<1>1. /\ EchoSize \in Nat /\ Len(EchoPrefix) = EchoSize /\ Len(t) \in Nat /\ Len(t) >= 1
      /\ MaxEcho = EchoSize + 3
  BY PrefixIs, LenProperties DEF EchoSize, IsStart, MaxEcho
<1>2. ASSUME NEW m \in Matches(t, echoes)
      PROVE  m.scan = [used |-> Len(t), matched |-> Len(t), complete |-> FALSE, pending |-> TRUE]
  <2>1. Len(t) <= EchoSize
    BY <1>1
  <2>2. m.scan = StartScan(t, r, m.of.run)
    BY StartMatches
  <2> QED BY <2>1, <2>2, Zenon DEF StartScan
<1>3. {m \in Matches(t, echoes) : m.scan.complete} = {}
  BY <1>2
<1>4. {m \in Matches(t, echoes) : m.scan.matched >= Len(EchoPrefix)} = {}
  BY <1>1, <1>2
<1>5. Best({}) = {}
  BY DEF Best
<1>6. TolerantMatch(t, echoes) = [used |-> 0, strip |-> NoStrip]
  BY <1>3, <1>4, <1>5 DEF TolerantMatch, Match
<1>7. EchoGoesOn(t, echoes)
  <2> DEFINE c == [run |-> r, echo |-> echo, index |-> 0]
             m == [of |-> c, scan |-> PrefixScan(t, c.echo)]
  <2>1. c \in Candidates(echoes)
    BY EchoIsCandidate
  <2> HIDE DEF c
  <2>2. m \in Matches(t, echoes)
    BY <2>1 DEF Matches
  <2> HIDE DEF m
  <2>3. m.scan.pending /\ m.scan.matched > 0
    BY <1>1, <1>2, <2>2
  <2>4. Len(t) < MaxEcho
    BY <1>1
  <2> QED BY <2>2, <2>3, <2>4 DEF EchoGoesOn
<1>8. Len(t) < MaxEcho
  BY <1>1
<1> QED BY <1>6, <1>7, <1>8

\* A longer start is dropped, and the sanitizer is in the middle of the echo.
LEMMA LongStart ==
  ASSUME NEW t \in Seq(Characters), NEW echoes \in SUBSET Runs,
         NEW r \in echoes, NEW echo \in Echoes(r), IsStart(t, r, echo), Len(t) >= EchoSize
  PROVE  /\ TolerantMatch(t, echoes).used = Len(t)
         /\ Within(TolerantMatch(t, echoes).strip, r, Len(t))
<1> DEFINE n == EchoSize
           l == Len(t)
           long == {m \in Matches(t, echoes) : m.scan.matched >= Len(EchoPrefix)}
           best == Best(long)
           index == IF l = n THEN n ELSE n + 1
           strip == [drop |-> "none", candidates |-> {[m.of EXCEPT !.index = m.scan.matched] : m \in best}]
           found == [used |-> (CHOOSE m \in best : TRUE).scan.used, strip |-> strip]
<1>1. n \in Nat /\ n >= 1 /\ Len(EchoPrefix) = n /\ l \in Nat /\ l >= n /\ r \in Runs
  BY PrefixIs, LenProperties DEF EchoSize
<1>16. ASSUME NEW m \in Matches(t, echoes)
      PROVE  /\ m.of \in Candidates(echoes) /\ m = [of |-> m.of, scan |-> m.scan]
             /\ m.scan = StartScan(t, r, m.of.run)
  BY StartMatches
<1>2. ASSUME NEW m \in Matches(t, echoes)
      PROVE  /\ m.of \in Candidates(echoes) /\ m = [of |-> m.of, scan |-> m.scan]
             /\ m.scan = IF l <= n \/ m.of.run = r
                         THEN [used |-> l, matched |-> IF l <= n THEN l ELSE n + 1,
                               complete |-> FALSE, pending |-> TRUE]
                         ELSE [used |-> n, matched |-> n, complete |-> FALSE, pending |-> FALSE]
  <2>1. /\ m.of \in Candidates(echoes) /\ m = [of |-> m.of, scan |-> m.scan]
        /\ m.scan = StartScan(t, r, m.of.run)
    BY <1>16
  <2> QED BY <2>1, Zenon DEF StartScan
<1> HIDE DEF n, l
<1>3. ASSUME NEW m \in Matches(t, echoes)
      PROVE  /\ ~m.scan.complete
             /\ l = n \/ m.of.run = r => m.scan.used = l /\ m.scan.matched = index
             /\ l # n /\ m.of.run # r => m.scan.used = n /\ m.scan.matched = n
  <2>1. CASE l = n
    BY <1>1, <1>2, <2>1
  <2>2. CASE l # n /\ m.of.run = r
    BY <1>1, <1>2, <2>2
  <2>3. CASE l # n /\ m.of.run # r
    <3>1. ~(l <= n \/ m.of.run = r)
      BY <1>1, <2>3
    <3> QED BY <1>2, <2>3, <3>1
  <2> QED BY <2>1, <2>2, <2>3
<1>4. {m \in Matches(t, echoes) : m.scan.complete} = {}
  BY <1>3
<1>5. long = Matches(t, echoes)
  <2>1. \A m \in Matches(t, echoes) : m.scan.matched >= Len(EchoPrefix)
    BY <1>1, <1>3
  <2> QED BY <2>1
<1> HIDE DEF long
<1> DEFINE lf(q) == [run |-> q, echo |-> EchoPrefix \o <<q, "lf">>, index |-> 0]
           first(q) == [of |-> lf(q), scan |-> PrefixScan(t, lf(q).echo)]
<1>6. first(r) \in Matches(t, echoes) /\ first(r).of = lf(r)
  <2>1. lf(r) \in Candidates(echoes)
    <3>1. EchoPrefix \o <<r, "lf">> \in Echoes(r)
      BY DEF Echoes
    <3> QED BY <3>1, EchoIsCandidate
  <2> HIDE DEF lf
  <2> QED BY <2>1 DEF Matches
<1>7. lf(r).run = r
  OBVIOUS
<1> HIDE DEF first
<1>8. ASSUME NEW m \in best
      PROVE  /\ m \in Matches(t, echoes) /\ m.scan.used = l /\ m.scan.matched = index
             /\ l > n => m.of.run = r
  <2>1. m \in Matches(t, echoes)
    BY <1>5 DEF Best
  <2>2. CASE l = n
    BY <1>1, <1>3, <2>1, <2>2
  <2>3. CASE l # n /\ m.of.run = r
    BY <1>3, <2>1, <2>3
  <2>4. CASE l # n /\ m.of.run # r
    <3>1. m.scan.used = n /\ m.scan.matched = n
      BY <1>3, <2>1, <2>4
    <3>2. first(r).scan.used = l /\ first(r).scan.matched = n + 1
      BY <1>3, <1>6, <1>7, <2>4
    <3>3. \/ m.scan.matched > first(r).scan.matched
          \/ m.scan.matched = first(r).scan.matched /\ m.scan.used >= first(r).scan.used
      BY <1>5, <1>6 DEF Best
    <3> QED BY <1>1, <3>1, <3>2, <3>3
  <2> QED BY <2>2, <2>3, <2>4
<1>9. first(r) \in best /\ first(r).scan.matched = index
  <2>1. first(r).scan.used = l /\ first(r).scan.matched = index
    BY <1>3, <1>6, <1>7
  <2>2. ASSUME NEW m \in long
        PROVE  \/ first(r).scan.matched > m.scan.matched
               \/ first(r).scan.matched = m.scan.matched /\ first(r).scan.used >= m.scan.used
    <3>1. m \in Matches(t, echoes)
      BY <1>5
    <3>2. CASE l = n \/ m.of.run = r
      <4>1. m.scan.used = l /\ m.scan.matched = index
        BY <1>3, <3>1, <3>2
      <4> QED BY <1>1, <2>1, <4>1
    <3>3. CASE l # n /\ m.of.run # r
      <4>1. m.scan.used = n /\ m.scan.matched = n /\ index = n + 1
        BY <1>3, <3>1, <3>3
      <4> QED BY <1>1, <2>1, <4>1
    <3> QED BY <3>2, <3>3
  <2> QED BY <1>5, <1>6, <2>1, <2>2 DEF Best
<1> HIDE DEF best
<1>10. TolerantMatch(t, echoes) = found
  <2>1. best # {}
    BY <1>9
  <2> QED BY <1>4, <2>1 DEF TolerantMatch, Match, best, long
<1>11. found.used = l
  BY <1>8, <1>9
<1>12. ASSUME NEW c \in strip.candidates
       PROVE  /\ c = [run |-> c.run, echo |-> c.echo, index |-> index]
              /\ c.run \in Runs /\ c.echo \in Echoes(c.run)
              /\ l > n => c.run = r
  <2>1. PICK m \in best : c = [m.of EXCEPT !.index = m.scan.matched]
    OBVIOUS
  <2>2. m.scan.matched = index /\ m \in Matches(t, echoes) /\ l > n => m.of.run = r
    BY <1>8
  <2>3. /\ m.of = [run |-> m.of.run, echo |-> m.of.echo, index |-> 0]
        /\ m.of.run \in Runs /\ m.of.echo \in Echoes(m.of.run)
    <3>1. m.of \in Candidates(echoes)
      BY <1>2, <1>8
    <3> QED BY <3>1, CandidateIs
  <2>4. c = [run |-> m.of.run, echo |-> m.of.echo, index |-> m.scan.matched]
    BY <2>1, <2>3
  <2>5. c.run = m.of.run /\ c.echo = m.of.echo /\ c = [run |-> c.run, echo |-> c.echo, index |-> index]
    BY <1>8, <2>4
  <2> QED BY <1>8, <2>3, <2>5
<1>13. [run |-> r, echo |-> EchoPrefix \o <<r, "lf">>, index |-> index] \in strip.candidates
  <2>1. PICK m \in best : m = first(r)
    BY <1>9
  <2>2. PICK e : e = EchoPrefix \o <<r, "lf">>
    OBVIOUS
  <2>3. m.of = [run |-> r, echo |-> e, index |-> 0] /\ m.scan.matched = index
    BY <1>6, <1>9, <2>1, <2>2
  <2>4. [m.of EXCEPT !.index = m.scan.matched] \in strip.candidates
    OBVIOUS
  <2> HIDE DEF strip, index
  <2>5. [m.of EXCEPT !.index = m.scan.matched] = [run |-> r, echo |-> e, index |-> index]
    BY <2>3
  <2> QED BY <2>2, <2>4, <2>5
<1>14. Within(strip, r, l)
  <2>1. strip = [candidates |-> strip.candidates, drop |-> "none"]
    OBVIOUS
  <2> HIDE DEF strip
  <2> QED BY <1>1, <1>12, <1>13, <2>1 DEF Within, n
<1>15. found.strip = strip
  OBVIOUS
<1> QED BY <1>10, <1>11, <1>14, <1>15 DEF l
-----------------------------------------------------------------------------
(* In the middle of an echo *)

\* The echo of `r` that ends with LF alone.
LEMMA LfEcho ==
  ASSUME NEW r \in Runs
  PROVE  LET echo == EchoPrefix \o <<r, "lf">>
         IN  /\ echo \in Echoes(r) /\ Len(echo) = EchoSize + 2
             /\ echo[EchoSize + 1] = r /\ echo[EchoSize + 2] = "lf"
<1> DEFINE echo == EchoPrefix \o <<r, "lf">>
           end == <<r, "lf">>
           n == EchoSize
<1>1. EchoPrefix \in Seq(Characters) /\ n \in Nat /\ n >= 1 /\ Len(EchoPrefix) = n
  BY PrefixIs DEF EchoSize
<1>2. end \in Seq(Characters) /\ Len(end) = 2 /\ end[1] = r /\ end[2] = "lf"
  BY DEF Characters
<1> HIDE DEF end, n
<1>3. /\ Len(EchoPrefix \o end) = n + Len(end)
      /\ \A j \in 1 .. n + Len(end) : (EchoPrefix \o end)[j] = IF j <= n THEN EchoPrefix[j] ELSE end[j - n]
  BY <1>1, <1>2, ConcatProperties
<1>4. (EchoPrefix \o end)[n + 1] = end[1] /\ (EchoPrefix \o end)[n + 2] = end[2]
  BY <1>1, <1>2, <1>3
<1>5. echo \in Echoes(r)
  BY DEF Echoes
<1> QED BY <1>1, <1>2, <1>3, <1>4, <1>5 DEF end, n

\* The candidates that go on with the next character.
Going(strip, char) ==
  {[c EXCEPT !.index = @ + 1] : c \in {c \in strip.candidates : c.echo[c.index + 1] = char}}

\* A character that is neither CR nor ESC.
LEMMA PlainByte ==
  ASSUME NEW strip, strip.drop = "none", NEW char, char # "cr", char # "esc", Going(strip, char) # {}
  PROVE  /\ ConsumeByte(strip, char).out = <<>>
         /\ ConsumeByte(strip, char).strip =
              IF \E c \in Going(strip, char) : c.index = Len(c.echo) THEN NoStrip
              ELSE [drop |-> "none", candidates |-> Going(strip, char)]
BY DEF ConsumeByte, Going

\* LF ends an echo whose run has been read.
LEMMA ByteEndsEcho ==
  ASSUME NEW r \in Runs, NEW l \in Nat, l > EchoSize, NEW strip, Within(strip, r, l)
  PROVE  ConsumeByte(strip, "lf") = [out |-> <<>>, strip |-> NoStrip]
<1> DEFINE n == EchoSize
<1>1. n \in Nat
  BY PrefixIs
<1>2. PICK e : e = EchoPrefix \o <<r, "lf">>
  OBVIOUS
<1>3. Len(e) = n + 2 /\ e[n + 2] = "lf"
  BY <1>2, LfEcho
<1>4. strip.drop = "none" /\ strip = [candidates |-> strip.candidates, drop |-> "none"]
  BY DEF Within
<1>5. [run |-> r, echo |-> e, index |-> n + 1] \in strip.candidates
  <2>1. l # EchoSize
    BY <1>1
  <2> QED BY <1>2, <2>1 DEF Within
<1> HIDE DEF n
<1>6. PICK c \in strip.candidates : c = [run |-> r, echo |-> e, index |-> n + 1]
  BY <1>5
<1>7. [c EXCEPT !.index = @ + 1] \in Going(strip, "lf")
  <2>1. c.index + 1 = n + 2 /\ c.echo = e
    BY <1>1, <1>6
  <2>2. c.echo[c.index + 1] = "lf"
    BY <1>3, <2>1
  <2> QED BY <2>2 DEF Going
<1>8. PICK d \in Going(strip, "lf") : d = [c EXCEPT !.index = @ + 1]
  BY <1>7
<1>9. d.index = Len(d.echo)
  <2>1. d.index = n + 1 + 1 /\ d.echo = e
    BY <1>6, <1>8
  <2> QED BY <1>1, <1>3, <2>1
<1>10. /\ ConsumeByte(strip, "lf").out = <<>>
       /\ ConsumeByte(strip, "lf").strip = NoStrip
  BY <1>4, <1>8, <1>9, PlainByte
<1>11. ConsumeByte(strip, "lf") = [out |-> ConsumeByte(strip, "lf").out, strip |-> ConsumeByte(strip, "lf").strip]
  BY <1>4 DEF ConsumeByte
<1> QED BY <1>10, <1>11

\* The character behind the common start of the postambles tells the run.
LEMMA ByteNamesRun ==
  ASSUME NEW r \in Runs, NEW strip, Within(strip, r, EchoSize)
  PROVE  /\ ConsumeByte(strip, r).out = <<>>
         /\ Within(ConsumeByte(strip, r).strip, r, EchoSize + 1)
<1> DEFINE n == EchoSize
<1>1. n \in Nat /\ n # n + 1 /\ n + 1 > n /\ n + 1 >= n
  BY PrefixIs
<1>2. PICK e : e = EchoPrefix \o <<r, "lf">>
  OBVIOUS
<1>3. Len(e) = n + 2 /\ e[n + 1] = r
  BY <1>2, LfEcho
<1>4. strip.drop = "none" /\ r # "cr" /\ r # "esc"
  BY SentinelAssumption DEF Within
<1>5. [run |-> r, echo |-> e, index |-> n] \in strip.candidates
  BY <1>2 DEF Within
<1>6. ASSUME NEW c \in strip.candidates
      PROVE  /\ c = [run |-> c.run, echo |-> c.echo, index |-> n]
             /\ c.run \in Runs /\ c.echo \in Echoes(c.run)
  BY DEF Within
<1> HIDE DEF n
<1>7. ASSUME NEW d \in Going(strip, r)
      PROVE  /\ d = [run |-> d.run, echo |-> d.echo, index |-> n + 1]
             /\ d.run = r /\ d.echo \in Echoes(r) /\ d.index # Len(d.echo)
  <2>1. PICK c \in strip.candidates : c.echo[c.index + 1] = r /\ d = [c EXCEPT !.index = @ + 1]
    BY DEF Going
  <2>2. c = [run |-> c.run, echo |-> c.echo, index |-> n] /\ c.run \in Runs /\ c.echo \in Echoes(c.run)
    BY <1>6
  <2>3. d = [run |-> c.run, echo |-> c.echo, index |-> n + 1]
    BY <2>1, <2>2
  <2>4. c.echo[n + 1] = r /\ c.echo[n + 1] = c.run /\ Len(c.echo) \in n + 2 .. n + 3
    <3>1. c.echo[n + 1] = c.run /\ Len(c.echo) \in n + 2 .. n + 3
      BY <2>2, EchoIs DEF n
    <3>2. c.index = n
      BY <2>2
    <3> QED BY <2>1, <3>1, <3>2
  <2>5. d.index = n + 1 /\ d.run = c.run /\ d.echo = c.echo
    BY <2>3
  <2>6. d.index # Len(d.echo)
    BY <1>1, <2>4, <2>5
  <2> QED BY <2>2, <2>3, <2>4, <2>5, <2>6
<1>8. PICK c \in strip.candidates : c = [run |-> r, echo |-> e, index |-> n]
  BY <1>5
<1>9. [run |-> r, echo |-> e, index |-> n + 1] \in Going(strip, r)
  <2>1. c.echo[c.index + 1] = r
    BY <1>3, <1>8
  <2>2. [c EXCEPT !.index = @ + 1] = [run |-> r, echo |-> e, index |-> n + 1]
    BY <1>8
  <2>3. [c EXCEPT !.index = @ + 1] \in Going(strip, r)
    BY <2>1 DEF Going
  <2> QED BY <2>2, <2>3
<1>10. /\ ConsumeByte(strip, r).out = <<>>
       /\ ConsumeByte(strip, r).strip = [drop |-> "none", candidates |-> Going(strip, r)]
  BY <1>4, <1>7, <1>9, PlainByte
<1>11. PICK next : next = ConsumeByte(strip, r).strip
  OBVIOUS
<1>12. next = [candidates |-> next.candidates, drop |-> "none"] /\ next.candidates = Going(strip, r)
  BY <1>10, <1>11
<1>13. Within(next, r, n + 1)
  <2>1. [run |-> r, echo |-> EchoPrefix \o <<r, "lf">>, index |-> n + 1] \in next.candidates
    BY <1>2, <1>9, <1>12
  <2>2. ASSUME NEW d \in next.candidates
        PROVE  /\ d = [run |-> d.run, echo |-> d.echo, index |-> n + 1]
               /\ d.run \in Runs /\ d.echo \in Echoes(d.run) /\ d.run = r
    BY <1>7, <1>12
  <2> QED BY <1>1, <1>12, <2>1, <2>2 DEF Within, n
<1> QED BY <1>10, <1>11, <1>13 DEF n

\* So every character of an echo is dropped.
LEMMA ByteInEcho ==
  ASSUME NEW r \in Runs, NEW echo \in Echoes(r), NEW l \in EchoSize .. Len(echo) - 1,
         NEW strip, Within(strip, r, l)
  PROVE  /\ ConsumeByte(strip, echo[l + 1]).out = <<>>
         /\ IF l + 1 = Len(echo) THEN ConsumeByte(strip, echo[l + 1]).strip = NoStrip
            ELSE Within(ConsumeByte(strip, echo[l + 1]).strip, r, l + 1)
<1> DEFINE n == EchoSize
<1>1. n \in Nat /\ l \in Nat /\ n <= l
  BY PrefixIs, EchoIs
<1>2. /\ Len(echo) \in n + 2 .. n + 3 /\ echo[n + 1] = r
      /\ Len(echo) = n + 2 => echo[n + 2] = "lf"
      /\ Len(echo) = n + 3 => echo[n + 2] = "cr" /\ echo[n + 3] = "lf"
  BY EchoIs
<1> HIDE DEF n
<1>3. CASE l = n
  <2>1. echo[l + 1] = r /\ l + 1 # Len(echo)
    BY <1>1, <1>2, <1>3
  <2> QED BY <1>3, <2>1, ByteNamesRun DEF n
<1>4. CASE l # n /\ l + 1 = Len(echo)
  <2>1. l > EchoSize /\ echo[l + 1] = "lf"
    <3>1. l > n /\ (l + 1 = n + 2 \/ l + 1 = n + 3)
      BY <1>1, <1>2, <1>4
    <3> QED BY <1>2, <1>4, <3>1 DEF n
  <2>2. ConsumeByte(strip, "lf") = [out |-> <<>>, strip |-> NoStrip]
    BY <1>1, <2>1, ByteEndsEcho
  <2> QED BY <1>4, <2>1, <2>2
<1>5. CASE l # n /\ l + 1 # Len(echo)
  <2>1. l = n + 1 /\ Len(echo) = n + 3 /\ l + 1 = n + 2
    <3>1. l \in n .. Len(echo) - 1
      BY DEF n
    <3> QED BY <1>1, <1>2, <1>5, <3>1
  <2>2. echo[l + 1] = "cr"
    BY <1>2, <2>1
  <2>3. strip = [candidates |-> strip.candidates, drop |-> "none"]
    BY DEF Within
  <2>4. PICK candidates : strip = [candidates |-> candidates, drop |-> "none"]
    BY <2>3
  <2>5. ConsumeByte(strip, "cr") = [out |-> <<>>, strip |-> [strip EXCEPT !.drop = "none"]]
    BY <2>4 DEF ConsumeByte
  <2>6. [strip EXCEPT !.drop = "none"] = strip
    BY <2>4
  <2>7. Within(strip, r, l + 1)
    <3>1. l # EchoSize /\ l > EchoSize /\ l + 1 # EchoSize /\ l + 1 > EchoSize /\ l + 1 >= EchoSize
      BY <1>1, <2>1 DEF n
    <3> QED BY <3>1 DEF Within
  <2> QED BY <1>5, <2>2, <2>5, <2>6, <2>7
<1> QED BY <1>3, <1>4, <1>5
-----------------------------------------------------------------------------
(* What stands between two places of a text *)

\* The characters behind the first `m`, up to and with the `n`-th.
Between(t, m, n) == SubSeq(t, m + 1, n)

\* Its characters.
LEMMA BetweenIs ==
  ASSUME NEW S, NEW t \in Seq(S), NEW m \in 0 .. Len(t), NEW n \in m .. Len(t)
  PROVE  /\ Between(t, m, n) \in Seq(S) /\ Len(Between(t, m, n)) = n - m
         /\ \A j \in 1 .. n - m : Between(t, m, n)[j] = t[m + j]
BY PartIs DEF Between

\* Nothing is between a place and itself.
LEMMA BetweenNothing ==
  ASSUME NEW S, NEW t \in Seq(S), NEW m \in 0 .. Len(t)
  PROVE  Between(t, m, m) = <<>>
<1>1. Len(t) \in Nat /\ m \in m .. Len(t) /\ m - m = 0
  BY LenProperties
<1>2. Between(t, m, m) \in Seq(S) /\ Len(Between(t, m, m)) = 0
  BY <1>1, BetweenIs
<1> QED BY <1>2, EmptySeq

\* Two texts are the same when their characters are.
LEMMA SameText ==
  ASSUME NEW S, NEW t \in Seq(S), NEW u \in Seq(S), Len(t) = Len(u),
         \A j \in 1 .. Len(t) : t[j] = u[j]
  PROVE  t = u
BY SeqEqual

\* Two parts that meet.
LEMMA BetweenJoins ==
  ASSUME NEW S, NEW t \in Seq(S), NEW m \in 0 .. Len(t), NEW n \in m .. Len(t), NEW k \in n .. Len(t)
  PROVE  Between(t, m, n) \o Between(t, n, k) = Between(t, m, k)
<1> DEFINE a == Between(t, m, n)
           b == Between(t, n, k)
           c == Between(t, m, k)
<1>1. Len(t) \in Nat /\ m \in Nat /\ n \in Nat /\ k \in Nat /\ m <= n /\ n <= k
      /\ n \in 0 .. Len(t) /\ k \in m .. Len(t)
  BY LenProperties
<1>2. a \in Seq(S) /\ Len(a) = n - m /\ \A j \in 1 .. n - m : a[j] = t[m + j]
  BY BetweenIs
<1>3. b \in Seq(S) /\ Len(b) = k - n /\ \A j \in 1 .. k - n : b[j] = t[n + j]
  BY <1>1, BetweenIs
<1>4. c \in Seq(S) /\ Len(c) = k - m /\ \A j \in 1 .. k - m : c[j] = t[m + j]
  BY <1>1, BetweenIs
<1> HIDE DEF a, b, c
<1>5. /\ a \o b \in Seq(S) /\ Len(a \o b) = Len(a) + Len(b)
      /\ \A j \in 1 .. Len(a) + Len(b) : (a \o b)[j] = IF j <= Len(a) THEN a[j] ELSE b[j - Len(a)]
  BY <1>2, <1>3, ConcatProperties
<1>6. Len(a \o b) = Len(c)
  BY <1>1, <1>2, <1>3, <1>4, <1>5
<1>7. ASSUME NEW j \in 1 .. Len(a \o b) PROVE (a \o b)[j] = c[j]
  <2>1. j \in 1 .. k - m /\ c[j] = t[m + j] /\ j \in 1 .. Len(a) + Len(b)
    BY <1>1, <1>2, <1>3, <1>4, <1>5
  <2>2. CASE j <= n - m
    <3>1. j \in 1 .. n - m /\ (a \o b)[j] = a[j]
      BY <1>1, <1>2, <1>5, <2>1, <2>2
    <3> QED BY <1>2, <2>1, <3>1
  <2>3. CASE ~(j <= n - m)
    <3>1. j - (n - m) \in 1 .. k - n /\ (a \o b)[j] = b[j - (n - m)] /\ n + (j - (n - m)) = m + j
      BY <1>1, <1>2, <1>5, <2>1, <2>3
    <3>2. b[j - (n - m)] = t[n + (j - (n - m))]
      BY <1>3, <3>1
    <3> QED BY <2>1, <3>1, <3>2
  <2> QED BY <2>2, <2>3
<1>8. a \o b = c
  BY <1>4, <1>5, <1>6, <1>7, SameText
<1> QED BY <1>8 DEF a, b, c

\* One more character.
LEMMA BetweenAppend ==
  ASSUME NEW S, NEW t \in Seq(S), NEW m \in 0 .. Len(t), NEW n \in m .. Len(t), n < Len(t)
  PROVE  Append(Between(t, m, n), t[n + 1]) = Between(t, m, n + 1)
<1> DEFINE a == Between(t, m, n)
           c == Between(t, m, n + 1)
           char == t[n + 1]
<1>1. Len(t) \in Nat /\ m \in Nat /\ n \in Nat /\ m <= n /\ n + 1 \in m .. Len(t) /\ n + 1 \in 1 .. Len(t)
  BY LenProperties
<1>2. a \in Seq(S) /\ Len(a) = n - m /\ \A j \in 1 .. n - m : a[j] = t[m + j]
  BY BetweenIs
<1>3. c \in Seq(S) /\ Len(c) = n + 1 - m /\ \A j \in 1 .. n + 1 - m : c[j] = t[m + j]
  BY <1>1, BetweenIs
<1>4. char \in S
  BY <1>1, ElementOfSeq
<1>5. c[n + 1 - m] = char
  <2>1. n + 1 - m \in 1 .. n + 1 - m /\ m + (n + 1 - m) = n + 1
    BY <1>1
  <2> QED BY <1>3, <2>1
<1> HIDE DEF a, c, char
<1>6. /\ Append(a, char) \in Seq(S) /\ Len(Append(a, char)) = Len(a) + 1
      /\ \A j \in 1 .. Len(a) : Append(a, char)[j] = a[j]
      /\ Append(a, char)[Len(a) + 1] = char
  BY <1>2, <1>4, AppendProperties
<1>7. ASSUME NEW j \in 1 .. Len(Append(a, char)) PROVE Append(a, char)[j] = c[j]
  <2>1. j \in 1 .. n + 1 - m
    BY <1>1, <1>2, <1>6
  <2>2. CASE j = n + 1 - m
    <3>1. j = Len(a) + 1
      BY <1>1, <1>2, <2>2
    <3> QED BY <1>5, <1>6, <2>2, <3>1
  <2>3. CASE j # n + 1 - m
    <3>1. j \in 1 .. n - m
      BY <1>1, <2>1, <2>3
    <3> QED BY <1>2, <1>3, <1>6, <2>1, <3>1
  <2> QED BY <2>2, <2>3
<1>8. Len(Append(a, char)) = Len(c)
  BY <1>1, <1>2, <1>3, <1>6
<1>9. Append(a, char) = c
  BY <1>3, <1>6, <1>7, <1>8, SameText
<1> QED BY <1>9 DEF a, c, char

\* A part of a part.
LEMMA BetweenBetween ==
  ASSUME NEW S, NEW t \in Seq(S), NEW m \in 0 .. Len(t), NEW n \in m .. Len(t),
         NEW i \in 0 .. n - m, NEW j \in i .. n - m
  PROVE  Between(Between(t, m, n), i, j) = Between(t, m + i, m + j)
<1> DEFINE a == Between(t, m, n)
           b == Between(a, i, j)
           c == Between(t, m + i, m + j)
<1>1. Len(t) \in Nat /\ m \in Nat /\ n \in Nat /\ i \in Nat /\ j \in Nat /\ m <= n /\ i <= j /\ j <= n - m
      /\ m + i \in 0 .. Len(t) /\ m + j \in m + i .. Len(t)
  BY LenProperties
<1>2. a \in Seq(S) /\ Len(a) = n - m /\ \A k \in 1 .. n - m : a[k] = t[m + k]
  BY BetweenIs
<1>3. c \in Seq(S) /\ Len(c) = m + j - (m + i) /\ \A k \in 1 .. m + j - (m + i) : c[k] = t[m + i + k]
  <2> DEFINE x == m + i
             y == m + j
  <2>1. x \in 0 .. Len(t) /\ y \in x .. Len(t)
    BY <1>1
  <2> HIDE DEF x, y
  <2>2. /\ Between(t, x, y) \in Seq(S) /\ Len(Between(t, x, y)) = y - x
        /\ \A k \in 1 .. y - x : Between(t, x, y)[k] = t[x + k]
    BY <2>1, BetweenIs
  <2> QED BY <2>2 DEF x, y
<1> HIDE DEF a
<1>4. b \in Seq(S) /\ Len(b) = j - i /\ \A k \in 1 .. j - i : b[k] = a[i + k]
  <2>1. i \in 0 .. Len(a) /\ j \in i .. Len(a)
    BY <1>1, <1>2
  <2> QED BY <1>2, <2>1, BetweenIs
<1> HIDE DEF b, c
<1>5. ASSUME NEW k \in 1 .. Len(b) PROVE b[k] = c[k]
  <2>1. k \in 1 .. j - i /\ i + k \in 1 .. n - m /\ m + (i + k) = m + i + k /\ k \in 1 .. m + j - (m + i)
    BY <1>1, <1>4, SMTT(40)
  <2> QED BY <1>2, <1>3, <1>4, <2>1
<1>6. Len(b) = Len(c)
  BY <1>1, <1>3, <1>4
<1>7. b = c
  BY <1>3, <1>4, <1>5, <1>6, SameText
<1> QED BY <1>7 DEF a, b, c

\* All of it.
LEMMA BetweenAll ==
  ASSUME NEW S, NEW t \in Seq(S)
  PROVE  Between(t, 0, Len(t)) = t
<1>1. Len(t) \in Nat /\ 0 \in 0 .. Len(t) /\ Len(t) \in 0 .. Len(t)
  BY LenProperties
<1>2. /\ Between(t, 0, Len(t)) \in Seq(S) /\ Len(Between(t, 0, Len(t))) = Len(t) - 0
      /\ \A j \in 1 .. Len(t) - 0 : Between(t, 0, Len(t))[j] = t[0 + j]
  BY <1>1, BetweenIs
<1>3. \A j \in 1 .. Len(Between(t, 0, Len(t))) : Between(t, 0, Len(t))[j] = t[j]
  BY <1>1, <1>2
<1> QED BY <1>1, <1>2, <1>3, SameText

\* The rest of a part.
LEMMA RestOfPart ==
  ASSUME NEW t \in Seq(Characters), NEW m \in 0 .. Len(t), NEW n \in m .. Len(t), NEW i \in 1 .. n - m
  PROVE  Rest(Between(t, m, n), i) = Between(t, m + i - 1, n)
<1>1. Len(t) \in Nat /\ m \in Nat /\ n \in Nat /\ i \in Nat /\ m <= n
  BY LenProperties
<1>2. Len(Between(t, m, n)) = n - m
  BY BetweenIs
<1>3. Rest(Between(t, m, n), i) = Between(Between(t, m, n), i - 1, n - m)
  <2>1. i - 1 + 1 = i
    BY <1>1
  <2> QED BY <1>2, <2>1 DEF Rest, Between
<1>4. i - 1 \in 0 .. n - m /\ n - m \in i - 1 .. n - m /\ m + (i - 1) = m + i - 1 /\ m + (n - m) = n
  BY <1>1
<1>5. Between(Between(t, m, n), i - 1, n - m) = Between(t, m + (i - 1), m + (n - m))
  BY <1>4, BetweenBetween
<1> QED BY <1>3, <1>4, <1>5
=============================================================================
