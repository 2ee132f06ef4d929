-------------------------------- MODULE Batch --------------------------------
(***************************************************************************)
(* One batch: the executor of batch/executor.ts as cli/commands/batch.ts   *)
(* runs it, and what the session host does with its calls: the handlers of *)
(* input, run and waitForRender (host/hostMain.ts), and the event log.     *)
(*                                                                         *)
(* A step is "input" (type, paste, sendKeys), "start" (run with noWait),   *)
(* "run", "wait" (text or cursor) or "still" (with screenStableMs). The    *)
(* log is the one of EventLog, as a sequence of which the first `durable`  *)
(* are on disk: the step whose input a record is, Output, or Closing for   *)
(* the stop marker and the exit. A screen is the set of the steps whose    *)
(* input comes before the last record it was drawn from. The transport may *)
(* give up on any call (RpcTransport), and the host may still handle it.   *)
(***************************************************************************)
EXTENDS Naturals, Sequences, SequencesExt

CONSTANTS
  Plans,       \* the plans that a batch may be given
  MaxOutputs,  \* bound on what the program prints
  MayFail,     \* whether a write of the log may fail
  MayStop      \* whether the log may reach its limit

StepKinds == {"input", "start", "run", "wait", "still"}

ASSUME BatchAssumption ==
  /\ \A p \in Plans : p \in Seq(StepKinds) /\ Len(p) > 0
  /\ MaxOutputs \in Nat /\ MayFail \in BOOLEAN /\ MayStop \in BOOLEAN

VARIABLES
  plan, keepGoing,  \* what the command was called with
  client,           \* the executor: checking, calling, rechecking, done
  records,          \* what it says of each step so far
  lastInputSeq,     \* the wait baseline, NoSeq for undefined
  exitCode,         \* of the command, once it is done
  rpc,              \* how far the call of each step is
  seqOf,            \* the seq that the host took for it
  clock, screen,    \* the wait under way: its stable clock runs, the screen it began with
  stored, durable, capped, broken,  \* the event log
  host, exited,     \* running, over (not commandable) or gone; the program has exited
  onDisk,           \* the status in the manifest, as far as it is running or ended
  reached,          \* observes: the steps whose bytes went to the terminal
  finished,         \* observes: the waited runs that the program has ended
  outputs           \* bounds the program

clientVars == <<client, records, lastInputSeq, exitCode>>
waitVars == <<clock, screen>>
keptVars == <<stored, durable, capped, broken>>
hostVars == <<host, exited, onDisk>>
observed == <<reached, finished, outputs>>
batchVars == <<plan, keepGoing, clientVars, rpc, seqOf, waitVars, keptVars, hostVars, observed>>

NoSeq == 0
Output == 0
Closing == Len(plan) + 1

IsWait(i) == plan[i] \in {"wait", "still"}
Current == Len(records) + 1
Calling(i) == client = "calling" /\ i = Current

Outcome(status, seq, seen) == [status |-> status, seq |-> seq, screen |-> seen]

FirstClient == IF IsWait(1) THEN "checking" ELSE "calling"

BatchInit ==
  /\ plan \in Plans /\ keepGoing \in BOOLEAN
  /\ client = FirstClient /\ records = <<>> /\ lastInputSeq = NoSeq /\ exitCode = "none"
  /\ rpc = [i \in DOMAIN plan |-> IF i = 1 /\ ~IsWait(1) THEN "sent" ELSE "idle"]
  /\ seqOf = [i \in DOMAIN plan |-> NoSeq]
  /\ clock = FALSE /\ screen = {}
  /\ stored = <<Output>> /\ durable = 1 /\ capped = FALSE /\ broken = FALSE
  /\ host = "running" /\ exited = FALSE /\ onDisk = "running"
  /\ reached = {} /\ finished = {} /\ outputs = 0
-----------------------------------------------------------------------------
(* The executor *)

\* Mutant: a run that failed leaves the baseline alone.
AdvancedByCompleted(r) ==
  IF ~IsWait(Current) /\ r.seq # NoSeq /\ r.status = "completed" THEN r.seq ELSE lastInputSeq

\* The wait baseline after a step.
Advanced(r) == IF ~IsWait(Current) /\ r.seq # NoSeq THEN r.seq ELSE lastInputSeq

\* A step begins: a wait with a look at the manifest, another with its call.
Begin(i) ==
  /\ client' = IF IsWait(i) THEN "checking" ELSE "calling"
  /\ rpc' = IF IsWait(i) THEN rpc ELSE [rpc EXCEPT ![i] = "sent"]

StatusesOf(rs) == {rs[i].status : i \in DOMAIN rs}

\* A step ends, and the next begins, or all the rest are not run.
Finalize(r) ==
  LET all == Append(records, r)
      over == Len(all) = Len(plan) \/ (r.status = "failed" /\ ~keepGoing)
      rest == [k \in 1..(Len(plan) - Len(all)) |-> Outcome("not-run", NoSeq, {})]
  IN /\ lastInputSeq' = Advanced(r)
     /\ IF over
        THEN /\ records' = all \o rest /\ client' = "done" /\ UNCHANGED rpc
             /\ exitCode' = IF "failed" \in StatusesOf(all) THEN "failure" ELSE "success"
        ELSE records' = all /\ Begin(Len(all) + 1) /\ UNCHANGED exitCode

Fail(seq) == Finalize(Outcome("failed", seq, {}))

\* assertCommandable before a wait, from the manifest.
CheckBefore ==
  /\ client = "checking"
  /\ IF onDisk = "running"
     THEN /\ client' = "calling" /\ rpc' = [rpc EXCEPT ![Current] = "sent"]
          /\ clock' = FALSE /\ screen' = {}
          /\ UNCHANGED <<records, lastInputSeq, exitCode>>
     ELSE Fail(NoSeq) /\ UNCHANGED waitVars
  /\ UNCHANGED <<plan, keepGoing, seqOf, keptVars, hostVars, observed>>

\* The answer of an input step or a run; a run that timed out or that the exit
\* interrupted is a failed step with a seq.
InputAnswered ==
  /\ client = "calling" /\ ~IsWait(Current)
  /\ \/ rpc[Current] = "answered" /\ Finalize(Outcome("completed", seqOf[Current], {}))
     \/ rpc[Current] = "unfinished" /\ Fail(seqOf[Current])
     \/ rpc[Current] = "failed" /\ Fail(NoSeq)
  /\ UNCHANGED <<plan, keepGoing, seqOf, waitVars, keptVars, hostVars, observed>>

WaitAnswered ==
  /\ client = "calling" /\ IsWait(Current)
  /\ \/ /\ rpc[Current] = "matched" /\ client' = "rechecking"
        /\ UNCHANGED <<records, lastInputSeq, exitCode, rpc>>
     \/ rpc[Current] \in {"unmatched", "failed"} /\ Fail(NoSeq)
  /\ UNCHANGED <<plan, keepGoing, seqOf, waitVars, keptVars, hostVars, observed>>

\* assertCommandable after the match.
CheckAfter ==
  /\ client = "rechecking"
  /\ IF onDisk = "running" THEN Finalize(Outcome("completed", NoSeq, screen)) ELSE Fail(NoSeq)
  /\ UNCHANGED <<plan, keepGoing, seqOf, waitVars, keptVars, hostVars, observed>>

\* sendRpc times out, or the connection is lost.
GiveUp ==
  /\ client = "calling" /\ Fail(NoSeq)
  /\ UNCHANGED <<plan, keepGoing, seqOf, waitVars, keptVars, hostVars, observed>>

\* Mutant: what was not finished was not run.
UnreachedAsNotRun(k) == "not-run"

\* The step in flight is interrupted, those behind it are not run.
Unreached(k) == IF k = 1 THEN "interrupted" ELSE "not-run"

\* SIGINT or SIGTERM: a partial report, and the command ends at once.
Interrupt ==
  /\ client # "done"
  /\ records' = records \o [k \in 1..(Len(plan) - Len(records)) |-> Outcome(Unreached(k), NoSeq, {})]
  /\ client' = "done" /\ exitCode' = "signal"
  /\ UNCHANGED <<plan, keepGoing, lastInputSeq, rpc, seqOf, waitVars, keptVars, hostVars, observed>>
-----------------------------------------------------------------------------
(* The event log *)

\* The seq that the caller is told is the last one there is, stored or not.
Keep(record) ==
  \/ /\ capped \/ broken
     /\ UNCHANGED <<stored, capped>>
  \/ /\ ~capped /\ ~broken
     /\ \/ stored' = Append(stored, record) /\ UNCHANGED capped
        \/ MayStop /\ stored' = Append(stored, Closing) /\ capped' = TRUE

RecordLands ==
  /\ durable < Len(stored) /\ host # "gone"
  /\ durable' = durable + 1
  /\ UNCHANGED <<plan, keepGoing, clientVars, rpc, seqOf, waitVars, stored, capped, broken,
                 hostVars, observed>>

\* The records that are not on disk are taken back, their callers are told,
\* and a host that loses output dies of it.
RecordsFail ==
  /\ MayFail /\ ~broken /\ durable < Len(stored) /\ host # "gone"
  /\ broken' = TRUE /\ stored' = SubSeq(stored, 1, durable)
  /\ rpc' = [i \in DOMAIN plan |-> IF rpc[i] = "writing" /\ seqOf[i] > durable THEN "failed" ELSE rpc[i]]
  /\ host' = IF \E k \in (durable + 1)..Len(stored) : stored[k] = Output THEN "gone" ELSE host
  /\ UNCHANGED <<plan, keepGoing, clientVars, seqOf, waitVars, durable, capped, exited, onDisk, observed>>
-----------------------------------------------------------------------------
(* The handlers of the host *)

\* The bytes go to the terminal and the record takes its seq in one go, or the
\* session is not running. A broken log rejects the record.
HandleInput(i) ==
  /\ rpc[i] = "sent" /\ ~IsWait(i) /\ host # "gone"
  /\ IF host = "running"
     THEN /\ reached' = reached \union {i} /\ Keep(i)
          /\ seqOf' = [seqOf EXCEPT ![i] = Len(stored')]
          /\ rpc' = [rpc EXCEPT ![i] = IF broken THEN "failed" ELSE "writing"]
     ELSE /\ rpc' = [rpc EXCEPT ![i] = "failed"]
          /\ UNCHANGED <<reached, stored, capped, seqOf>>
  /\ UNCHANGED <<plan, keepGoing, clientVars, waitVars, durable, broken, hostVars, finished, outputs>>

\* Mutant: the seq is told before its record is on disk.
SettledEarly(i) == TRUE

Settled(i) == seqOf[i] <= durable

\* What happens to the call of a step, and to nothing else.
CallGoes(i, from, to) ==
  /\ rpc[i] = from /\ host # "gone"
  /\ rpc' = [rpc EXCEPT ![i] = to]
  /\ UNCHANGED <<plan, keepGoing, clientVars, seqOf, waitVars, keptVars, hostVars, observed>>

Acknowledge(i) == Settled(i) /\ CallGoes(i, "writing", IF plan[i] = "run" THEN "waiting" ELSE "answered")

\* A waited run completes, times out, or is interrupted by the exit.
RunAnswers(i) ==
  \/ i \in finished /\ CallGoes(i, "waiting", "answered")
  \/ CallGoes(i, "waiting", "unfinished")

HandleWait(i) == IsWait(i) /\ CallGoes(i, "sent", "polling")

Shown == {stored[k] : k \in 1..(Len(stored) - 1)} \intersect DOMAIN plan

\* A poll past the baseline. A text condition may hold at once. A stable clock
\* starts with the first such poll, and again when the text has changed; a
\* later poll that finds the same text may find that it was long enough.
Poll(i) ==
  /\ Calling(i) /\ rpc[i] = "polling" /\ host # "gone"
  /\ lastInputSeq = NoSeq \/ Len(stored) > lastInputSeq
  /\ \/ plan[i] = "wait" /\ screen' = Shown /\ rpc' = [rpc EXCEPT ![i] = "matched"] /\ UNCHANGED clock
     \/ plan[i] = "still" /\ screen' = Shown /\ clock' = TRUE /\ UNCHANGED rpc
     \/ /\ plan[i] = "still" /\ clock
        /\ rpc' = [rpc EXCEPT ![i] = "matched"] /\ UNCHANGED waitVars
  /\ UNCHANGED <<plan, keepGoing, clientVars, seqOf, keptVars, hostVars, observed>>

WaitTimesOut(i) == Calling(i) /\ CallGoes(i, "polling", "unmatched")

\* A call is refused, aborted, or fails in the renderer.
CallErrs(i) == Calling(i) /\ \E from \in {"sent", "polling", "waiting"} : CallGoes(i, from, "failed")
-----------------------------------------------------------------------------
(* The program and the end of the session *)

\* Output that a broken log cannot take ends the host.
OutputComes ==
  /\ outputs < MaxOutputs /\ ~exited /\ host # "gone"
  /\ outputs' = outputs + 1 /\ Keep(Output)
  /\ host' = IF broken THEN "gone" ELSE host
  /\ UNCHANGED <<plan, keepGoing, clientVars, rpc, seqOf, waitVars, durable, broken, exited, onDisk,
                 reached, finished>>

RunEnds(i) ==
  /\ plan[i] = "run" /\ i \in reached \ finished /\ ~exited /\ host # "gone"
  /\ finished' = finished \union {i}
  /\ UNCHANGED <<plan, keepGoing, clientVars, rpc, seqOf, waitVars, keptVars, hostVars, reached, outputs>>

\* The exit record fits into the reserve of a log that has stopped.
ProgramExits ==
  /\ ~exited /\ host # "gone"
  /\ exited' = TRUE /\ host' = "over"
  /\ stored' = IF broken THEN stored ELSE Append(stored, Closing)
  /\ UNCHANGED <<plan, keepGoing, clientVars, rpc, seqOf, waitVars, durable, capped, broken, onDisk, observed>>

HostChanges(h, d) ==
  /\ host' = h /\ onDisk' = d
  /\ UNCHANGED <<plan, keepGoing, clientVars, rpc, seqOf, waitVars, keptVars, exited, observed>>

\* A shutdown asks the program to end; the manifest says so later.
BeginShutdown == host = "running" /\ HostChanges("over", onDisk)

\* The manifest no longer says running: exiting or destroying by a shutdown, or
\* exited, behind the exit record, when the program has exited.
PersistEnd ==
  /\ host = "over" /\ onDisk = "running"
  /\ exited => durable = Len(stored) \/ broken
  /\ HostChanges(host, "ended")

HostGoes == host # "gone" /\ HostChanges("gone", onDisk)
-----------------------------------------------------------------------------
ClientStep == CheckBefore \/ InputAnswered \/ WaitAnswered \/ CheckAfter \/ GiveUp \/ Interrupt
HandlerStep(i) ==
  \/ HandleInput(i) \/ Acknowledge(i) \/ RunAnswers(i)
  \/ HandleWait(i) \/ Poll(i) \/ WaitTimesOut(i) \/ CallErrs(i)
SessionStep ==
  RecordLands \/ RecordsFail \/ OutputComes \/ ProgramExits \/ BeginShutdown \/ PersistEnd \/ HostGoes

BatchNext == ClientStep \/ SessionStep \/ \E i \in DOMAIN plan : HandlerStep(i) \/ RunEnds(i)

BatchSpec == BatchInit /\ [][BatchNext]_batchVars
-----------------------------------------------------------------------------
InputCalls == {"idle", "sent", "writing", "waiting", "answered", "unfinished", "failed"}
WaitCalls == {"idle", "sent", "polling", "matched", "unmatched", "failed"}
OutcomeRecord ==
  [status : {"completed", "failed", "interrupted", "not-run"}, seq : Nat, screen : SUBSET DOMAIN plan]
Events == 0..(Len(plan) + 1)

\* Type invariant.
BatchTypes ==
  /\ plan \in Plans /\ keepGoing \in BOOLEAN
  /\ client \in {"checking", "calling", "rechecking", "done"}
  /\ records \in Seq(OutcomeRecord) /\ Len(records) <= Len(plan)
  /\ lastInputSeq \in Nat
  /\ exitCode \in {"none", "success", "failure", "signal"}
  /\ rpc \in [DOMAIN plan -> InputCalls \union WaitCalls]
  /\ seqOf \in [DOMAIN plan -> Nat]
  /\ clock \in BOOLEAN /\ screen \subseteq DOMAIN plan
  /\ stored \in Seq(Events) /\ durable \in 1..Len(stored)
  /\ capped \in BOOLEAN /\ broken \in BOOLEAN
  /\ host \in {"running", "over", "gone"} /\ exited \in BOOLEAN /\ onDisk \in {"running", "ended"}
  /\ reached \subseteq DOMAIN plan /\ finished \subseteq reached
  /\ outputs \in 0..MaxOutputs

Completed(i) == records[i].status = "completed"
NotRun(i) == records[i].status = "not-run"

\* What is said of a step is true of the session, also after the command has
\* ended while the host goes on: a step that was not run never reaches the
\* terminal, one that completed did and is in the log unless the log stopped,
\* and nothing is run behind a failure or an interrupt.
StatusesAreTrue ==
  /\ \A i \in DOMAIN records :
       /\ NotRun(i) => i \notin reached /\ rpc[i] = "idle"
       /\ Completed(i) /\ ~IsWait(i) =>
            /\ i \in reached
            /\ i \in ToSet(stored) \/ capped
            /\ plan[i] = "run" => i \in finished
       /\ \/ records[i].status = "interrupted"
          \/ records[i].status = "failed" /\ ~keepGoing
          => \A j \in (i + 1)..Len(records) : NotRun(j)
  /\ exitCode = "success" => StatusesOf(records) = {"completed"}

\* A wait that completed saw a screen drawn after the input of every earlier
\* step that has a seq, and a stable one was stable since then. Input that a
\* stopped log dropped is left out: what it did is on no screen.
WaitsSeeTheirInput ==
  \A i, j \in DOMAIN records :
    /\ j < i /\ IsWait(i) /\ Completed(i)
    /\ ~IsWait(j) /\ records[j].seq # NoSeq
    /\ j \in ToSet(stored) \/ ~capped
    => j \in records[i].screen

\* What a batch reports of its steps, its waits included, is true however calls
\* fail, hosts die and signals arrive (executor.ts:121, result.ts:145,
\* hostMain.ts:1133); of the input that a stopped log dropped it says nothing.
BatchReportIsTrue == StatusesAreTrue /\ WaitsSeeTheirInput

\* "A Render Wait that is a Batch Step is anchored to a Wait Baseline equal to the
\* Event Log sequence recorded after the preceding input Batch Step, so it cannot
\* match a Semantic Snapshot that predates that step" (CONTEXT.md:265).
NoWaitMatchesTooEarly ==
  \A i, j \in DOMAIN records :
    j < i /\ IsWait(i) /\ Completed(i) /\ j \in ToSet(stored) => j \in records[i].screen
=============================================================================
