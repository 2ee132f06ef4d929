--------------------------- MODULE RunCompletion ---------------------------
(***************************************************************************)
(* Waited runs of one host: the `run` handler and the PTY callbacks of     *)
(* host/hostMain.ts with host/runCompletionCoordinator.ts.                 *)
(*                                                                         *)
(* The handler appends input_run, registers the run and types the command  *)
(* and its postamble in one go. The chunks of the terminal are ingested    *)
(* one by one: the scanner cuts a chunk into pieces, and each piece is     *)
(* appended to the log before the next is looked at. The log is the one of *)
(* EventLog, as a sequence of which the first `landed` are on disk; after  *)
(* a failed write every append fails, and a log at its limit stops: it     *)
(* takes nothing but the exit and acknowledges the rest. A host dies of a  *)
(* failed ingestion.                                                       *)
(*                                                                         *)
(* The chunks that wait for their turn and the bytes that the terminal has *)
(* not delivered yet are one sequence, `unread`, and the next chunk is any *)
(* part of it. Sizes and times are left out.                               *)
(***************************************************************************)
EXTENDS RunCompletionSentinel

CONSTANTS
  Prints,     \* what the program may print besides echoes and sentinels
  MaxPrints   \* bound: how often the program prints

\* The program does not know the names of the runs.
ASSUME RunsAssumption == Prints \subseteq Seq(STRING \ Runs) /\ MaxPrints \in Nat

VARIABLES
  log,        \* the records appended: input_run, output, run_complete, stop, exit
  landed,     \* how many of them are on disk
  poisoned,   \* a write of the log has failed
  stopped,    \* a record did not fit any more, and the log stores none but the exit
  scanner,    \* #sentinelScanner
  sanitizer,  \* #postambleEchoSanitizer
  active,     \* #activeRunCompletions, by run: the seq of its input_run
  waiters,    \* #runCompletionWaiters
  outcome,    \* what a run's waiter was settled with
  run,        \* how far the handler of each run is
  pieces,     \* what is left of the ingestion under way
  awaited,    \* the seq that the ingestion awaits, 0 for none
  session,    \* running, destroying, exited, dead
  ptyExit,    \* onExit: no, queued, flushing, handled, reset
  unread,     \* printed and not ingested
  typed,      \* the runs whose postamble the program has got
  ended,      \* observes: the runs whose sentinel was printed, with the text before
  text,       \* observes: what the program has printed for its user
  prints      \* bounds the program

logVars == <<log, landed, poisoned, stopped>>
coordinator == <<scanner, sanitizer, active, waiters, outcome>>
ingestion == <<pieces, awaited>>
programVars == <<typed, ended, text, prints>>
vars == <<logVars, coordinator, run, ingestion, session, ptyExit, unread, programVars>>

NotActive == 0

Init ==
  /\ log = <<>> /\ landed = 0 /\ poisoned = FALSE /\ stopped = FALSE
  /\ scanner = [active |-> {}, tail |-> <<>>] /\ sanitizer = FreshSanitizer
  /\ active = [r \in Runs |-> NotActive] /\ waiters = {}
  /\ outcome = [r \in Runs |-> "none"] /\ run = [r \in Runs |-> "idle"]
  /\ pieces = <<>> /\ awaited = 0
  /\ session = "running" /\ ptyExit = "no"
  /\ unread = <<>> /\ typed = {} /\ ended = <<>> /\ text = <<>> /\ prints = 0

Alive == session # "dead"
-----------------------------------------------------------------------------
(* The event log *)

\* enqueue. A poisoned log keeps nothing.
Enqueue(record) == log' = IF poisoned THEN log ELSE Append(log, record)

\* queueAppend. Any record but the exit, which has the reserve, may be the one
\* that does not fit: the log stops and stores its marker instead. A stopped
\* log drops what comes then.
AppendRecord(record) ==
  \/ /\ record.kind = "exit" \/ ~stopped
     /\ Enqueue(record) /\ UNCHANGED stopped
  \/ /\ record.kind # "exit" /\ ~stopped
     /\ Enqueue([kind |-> "stop"]) /\ stopped' = TRUE
  \/ /\ record.kind # "exit" /\ stopped
     /\ UNCHANGED <<log, stopped>>

\* The seq that an append acknowledges, counted from 1 here: that of the last
\* record stored, which is its own unless it was dropped. The seq that a
\* poisoned log names never lands.
Acknowledged == IF poisoned THEN Len(log) + 1 ELSE Len(log')

WriteLands ==
  /\ landed < Len(log) /\ Alive
  /\ landed' = landed + 1
  /\ UNCHANGED <<log, poisoned, stopped, coordinator, run, ingestion, session,
                 ptyExit, unread, programVars>>

\* The failed record and those behind it are rolled back.
WriteFails ==
  /\ landed < Len(log) /\ Alive
  /\ poisoned' = TRUE /\ log' = SubSeq(log, 1, landed)
  /\ UNCHANGED <<landed, stopped, coordinator, run, ingestion, session, ptyExit,
                 unread, programVars>>
-----------------------------------------------------------------------------
(* The run handler *)

\* registerWaitedRun
Registered(r) ==
  /\ active' = [active EXCEPT ![r] = Acknowledged]
  /\ scanner' = [scanner EXCEPT !.active = @ \cup {r}]
  /\ sanitizer' = [sanitizer EXCEPT !.echoes = @ \cup {r}]
  /\ waiters' = waiters \cup {r}

StartRun(r) ==
  /\ session = "running" /\ run[r] = "idle"
  /\ AppendRecord([kind |-> "input_run", run |-> r])
  /\ Registered(r)
  /\ \/ run' = [run EXCEPT ![r] = "writing"] /\ typed' = typed \cup {r}
     \/ run' = [run EXCEPT ![r] = "throwing"] /\ UNCHANGED typed
  /\ UNCHANGED <<landed, poisoned, outcome, ingestion, session, ptyExit, unread,
                 ended, text, prints>>

RunSettles(r, state) ==
  /\ run' = [run EXCEPT ![r] = state]
  /\ UNCHANGED <<logVars, scanner, sanitizer, active, outcome, ingestion, session,
                 ptyExit, unread, programVars>>

\* What `inputRun.written` waits for is on disk: the input_run, or, if the log
\* dropped it, the marker that stands last.
InputWritten(r) ==
  \E i \in 1 .. landed : log[i] = [kind |-> "input_run", run |-> r] \/ log[i].kind = "stop"

\* `await inputRun.written`
InputRecorded(r) ==
  /\ Alive /\ run[r] \in {"writing", "throwing"} /\ UNCHANGED waiters
  /\ \/ /\ InputWritten(r)
        /\ RunSettles(r, IF run[r] = "writing" THEN "waiting" ELSE "failed")
     \/ poisoned /\ ~InputWritten(r) /\ RunSettles(r, "failed")

WaitEnds(r) ==
  /\ Alive /\ run[r] = "waiting" /\ outcome[r] # "none" /\ UNCHANGED waiters
  /\ RunSettles(r, outcome[r])

\* Mutant: a wait that timed out takes its run out of the coordinator.
TimeOutForgetting(r) ==
  /\ Alive /\ run[r] = "waiting" /\ outcome[r] = "none"
  /\ waiters' = waiters \ {r}
  /\ scanner' = [scanner EXCEPT !.active = @ \ {r}]
  /\ run' = [run EXCEPT ![r] = "timeout"]
  /\ UNCHANGED <<logVars, sanitizer, active, outcome, ingestion, session,
                 ptyExit, unread, programVars>>

\* A timeout, or an abort, forgets the waiter and nothing else.
TimeOut(r) ==
  /\ Alive /\ run[r] = "waiting" /\ outcome[r] = "none"
  /\ waiters' = waiters \ {r}
  /\ RunSettles(r, "timeout")
-----------------------------------------------------------------------------
(* PTY ingestion *)

\* What is left of the ingestion when a step for its head is done: the end of
\* a run gives up its echo first, and then records its completion.
PiecesLeft ==
  IF Head(pieces).kind = "run_complete"
  THEN <<[kind |-> "record", run |-> Head(pieces).run]>> \o Tail(pieces)
  ELSE Tail(pieces)

Scanned(scan, more) ==
  /\ pieces' = scan.pieces \o more
  /\ scanner' = [active |-> scan.active, tail |-> scan.tail]

\* ingestPtyData begins with the next chunk when the one before is done.
BeginChunk ==
  /\ Alive /\ pieces = <<>> /\ unread # <<>>
  /\ \E n \in 1 .. Len(unread) :
       /\ Scanned(ScannerFeed(scanner, SubSeq(unread, 1, n)), <<>>)
       /\ unread' = SubSeq(unread, n + 1, Len(unread))
  /\ UNCHANGED <<logVars, sanitizer, active, waiters, outcome, run, awaited, session,
                 ptyExit, programVars>>

\* Mutant: the tails are left when the program exits.
BeginFlushOfNothing ==
  /\ Alive /\ pieces = <<>> /\ unread = <<>> /\ ptyExit = "queued"
  /\ ptyExit' = "flushing"
  /\ UNCHANGED <<logVars, coordinator, run, ingestion, session, unread, programVars>>

\* flushPtyDataOnExit begins when all chunks are done.
BeginFlush ==
  /\ Alive /\ pieces = <<>> /\ unread = <<>> /\ ptyExit = "queued"
  /\ ptyExit' = "flushing"
  /\ Scanned(ScannerFlush(scanner), <<[kind |-> "flush"]>>)
  /\ UNCHANGED <<logVars, sanitizer, active, waiters, outcome, run, awaited, session,
                 unread, programVars>>

\* Append what the sanitizer lets through, and await it; nothing to append is
\* nothing to await.
Emit(stripped) ==
  /\ sanitizer' = stripped.sanitizer
  /\ IF stripped.out = <<>>
     THEN pieces' = PiecesLeft /\ UNCHANGED <<log, stopped, awaited>>
     ELSE /\ AppendRecord([kind |-> "output", data |-> stripped.out])
          /\ awaited' = Acknowledged /\ UNCHANGED pieces

\* Mutant: what the sanitizer held back comes after the completion.
TakePieceTrailing ==
  /\ Alive /\ pieces # <<>> /\ awaited = 0
  /\ LET piece == Head(pieces) IN
       CASE piece.kind = "output" -> Emit(SanitizerFeed(sanitizer, piece.data))
         [] piece.kind = "run_complete" -> Emit([out |-> <<>>, sanitizer |-> sanitizer])
         [] piece.kind = "flush" -> Emit(SanitizerFlush(sanitizer))
         [] piece.kind = "record" ->
              /\ AppendRecord([kind |-> "run_complete", run |-> piece.run,
                               input |-> active[piece.run]])
              /\ awaited' = Acknowledged /\ UNCHANGED <<sanitizer, pieces>>
  /\ UNCHANGED <<landed, poisoned, scanner, active, waiters, outcome, run, session,
                 ptyExit, unread, programVars>>

\* #appendSentinelPieces up to the await of the next piece
TakePiece ==
  /\ Alive /\ pieces # <<>> /\ awaited = 0
  /\ LET piece == Head(pieces) IN
       CASE piece.kind = "output" -> Emit(SanitizerFeed(sanitizer, piece.data))
         [] piece.kind = "run_complete" -> Emit(Deregister(sanitizer, piece.run))
         [] piece.kind = "flush" -> Emit(SanitizerFlush(sanitizer))
         [] piece.kind = "record" ->
              /\ AppendRecord([kind |-> "run_complete", run |-> piece.run,
                               input |-> active[piece.run]])
              /\ awaited' = Acknowledged /\ UNCHANGED <<sanitizer, pieces>>
  /\ UNCHANGED <<landed, poisoned, scanner, active, waiters, outcome, run, session,
                 ptyExit, unread, programVars>>

Settle(r, state) ==
  /\ outcome' = IF r \in waiters THEN [outcome EXCEPT ![r] = state] ELSE outcome
  /\ waiters' = waiters \ {r}

\* Mutant: a run is completed before its record is on disk.
PieceLandsEarly ==
  /\ Alive /\ awaited # 0
  /\ pieces' = PiecesLeft /\ awaited' = 0
  /\ IF Head(pieces).kind = "record"
     THEN /\ active' = [active EXCEPT ![Head(pieces).run] = NotActive]
          /\ Settle(Head(pieces).run, "completed")
     ELSE UNCHANGED <<active, waiters, outcome>>
  /\ UNCHANGED <<logVars, scanner, sanitizer, run, session, ptyExit, unread, programVars>>

\* The seq that the ingestion awaits is on disk; a completion settles its
\* waiter, if it still has one.
PieceLands ==
  /\ Alive /\ awaited \in 1 .. landed
  /\ pieces' = PiecesLeft /\ awaited' = 0
  /\ IF Head(pieces).kind = "record"
     THEN /\ active' = [active EXCEPT ![Head(pieces).run] = NotActive]
          /\ Settle(Head(pieces).run, "completed")
     ELSE UNCHANGED <<active, waiters, outcome>>
  /\ UNCHANGED <<logVars, scanner, sanitizer, run, session, ptyExit, unread, programVars>>

\* The append was rejected: the waiter of a run that was ending hears of it,
\* and the host dies of the error, after the exit is handled if it flushes.
PieceFails ==
  /\ Alive /\ awaited > landed /\ poisoned
  /\ pieces' = <<>> /\ awaited' = 0
  /\ IF Head(pieces).kind \in {"run_complete", "record"}
     THEN Settle(Head(pieces).run, "failed")
     ELSE UNCHANGED <<waiters, outcome>>
  /\ session' = IF ptyExit = "flushing" THEN session ELSE "dead"
  /\ UNCHANGED <<logVars, scanner, sanitizer, active, run, ptyExit, unread, programVars>>
-----------------------------------------------------------------------------
(* The program and its exit *)

\* The program prints, or the terminal echoes a postamble, or the shell runs it.
ProgramPrints ==
  /\ ptyExit = "no" /\ Alive /\ prints < MaxPrints /\ prints' = prints + 1
  /\ \/ \E word \in Prints :
          unread' = unread \o word /\ text' = text \o word /\ UNCHANGED ended
     \/ \E r \in typed : \E echo \in Echoes(r) :
          /\ ~ \E i \in DOMAIN ended : ended[i].run = r
          /\ unread' = unread \o echo /\ UNCHANGED <<text, ended>>
     \/ \E r \in typed :
          /\ ~ \E i \in DOMAIN ended : ended[i].run = r
          /\ unread' = unread \o Sentinel(r)
          /\ ended' = Append(ended, [run |-> r, before |-> Len(text)])
          /\ UNCHANGED text
  /\ UNCHANGED <<logVars, coordinator, run, ingestion, session, ptyExit, typed>>

PtyExits ==
  /\ ptyExit = "no" /\ Alive /\ ptyExit' = "queued"
  /\ UNCHANGED <<logVars, coordinator, run, ingestion, session, unread, programVars>>

\* destroy, SIGTERM or the idle timeout: from here on no command is taken.
StartShutdown ==
  /\ session = "running" /\ session' = "destroying"
  /\ UNCHANGED <<logVars, coordinator, run, ingestion, ptyExit, unread, programVars>>

\* handlePtyExit, after the flush, well or badly.
HandlePtyExit ==
  /\ Alive /\ ptyExit = "flushing" /\ pieces = <<>>
  /\ ptyExit' = "handled"
  /\ session' = IF session = "running" THEN "exited" ELSE session
  /\ AppendRecord([kind |-> "exit"])
  /\ UNCHANGED <<landed, poisoned, coordinator, run, ingestion, unread, programVars>>

\* resetForExit, when the append of the exit record has settled.
ResetForExit ==
  /\ Alive /\ ptyExit = "handled" /\ (poisoned \/ landed = Len(log))
  /\ ptyExit' = "reset"
  /\ outcome' = [r \in Runs |-> IF r \in waiters THEN "exited" ELSE outcome[r]]
  /\ waiters' = {} /\ active' = [r \in Runs |-> NotActive]
  /\ scanner' = [active |-> {}, tail |-> <<>>] /\ sanitizer' = FreshSanitizer
  /\ UNCHANGED <<logVars, run, ingestion, session, unread, programVars>>

\* A rejected append of the exit record, or a rejected flush, ends the host.
HostDies ==
  /\ Alive /\ ptyExit = "reset" /\ poisoned /\ session' = "dead"
  /\ UNCHANGED <<logVars, coordinator, run, ingestion, ptyExit, unread, programVars>>

WriteSettles == WriteLands \/ WriteFails
Ingest == BeginChunk \/ BeginFlush \/ TakePiece \/ PieceLands \/ PieceFails
HandleExit == HandlePtyExit \/ ResetForExit \/ HostDies
HandlerGoesOn(r) == InputRecorded(r) \/ WaitEnds(r)

Next ==
  \/ \E r \in Runs : StartRun(r) \/ HandlerGoesOn(r) \/ TimeOut(r)
  \/ WriteSettles \/ Ingest \/ HandleExit
  \/ ProgramPrints \/ PtyExits \/ StartShutdown

SafeSpec == Init /\ [][Next]_vars

\* When a step of Ingest is enabled. Fairness says of it what WF_vars(Ingest)
\* says, without making TLC scan chunks to find out whether it is enabled.
CanIngest ==
  /\ Alive
  /\ IF pieces = <<>> THEN unread # <<>> \/ ptyExit = "queued"
     ELSE awaited <= landed \/ poisoned

\* The event loop of a living host goes on and its writes settle. Nothing
\* makes the program print or exit, and no wait has to time out.
Fairness ==
  /\ WF_vars(WriteSettles) /\ WF_vars(HandleExit)
  /\ []<>~CanIngest \/ []<><<Ingest>>_vars
  /\ \A r \in Runs : WF_vars(HandlerGoesOn(r))

Spec == SafeSpec /\ Fairness
-----------------------------------------------------------------------------
(* Properties *)

OutputOf(record) == IF record.kind = "output" THEN record.data ELSE <<>>

Outputs(records) ==
  LET upTo[i \in 0 .. Len(records)] ==
        IF i = 0 THEN <<>> ELSE upTo[i - 1] \o OutputOf(records[i])
  IN upTo[Len(records)]

CompletionsOf(r) == {i \in DOMAIN log : log[i].kind = "run_complete" /\ log[i].run = r}

\* Every variable keeps its type.
TypeOK ==
  /\ landed \in 0 .. Len(log) /\ poisoned \in BOOLEAN /\ stopped \in BOOLEAN
  /\ scanner.active \subseteq Runs /\ sanitizer.echoes \subseteq Runs
  /\ active \in [Runs -> Nat] /\ waiters \subseteq Runs
  /\ outcome \in [Runs -> {"none", "completed", "failed", "exited"}]
  /\ run \in [Runs -> {"idle", "writing", "throwing", "waiting", "timeout"}
                        \cup {"completed", "failed", "exited"}]
  /\ awaited \in Nat
  /\ session \in {"running", "destroying", "exited", "dead"}
  /\ ptyExit \in {"no", "queued", "flushing", "handled", "reset"}
  /\ typed \subseteq Runs /\ prints \in 0 .. MaxPrints

\* The output records hold what the program printed for its user, in order,
\* without echoes and sentinels, whether or not their waits timed out, and the
\* exit record is the last, also in a log that stopped at its limit; once the
\* exit is handled, nothing is missing in a log that has not stopped and of
\* which no write has failed.
LogHoldsTheOutput ==
  /\ \A i \in DOMAIN log : log[i].kind = "exit" => i = Len(log)
  /\ IsPrefix(Outputs(log), text)
  /\ ptyExit \in {"handled", "reset"} /\ ~poisoned /\ ~stopped => Outputs(log) = text

\* A completion in the log belongs to a sentinel that was printed and names
\* the input_run that is in the log before it; a run completes at most once. A
\* client told that its run completed has had its sentinel printed, and finds
\* the record on disk unless the log stopped at its limit; one told that the
\* session exited finds none; an error has a failed write behind it or a write
\* to the terminal that threw, never a log that stopped.
CompletionsAreTrue ==
  \A r \in Runs :
    /\ Cardinality(CompletionsOf(r)) <= 1
    /\ \A i \in CompletionsOf(r) :
         /\ \E k \in DOMAIN ended : ended[k].run = r
         /\ log[i].input \in 1 .. i - 1 /\ log[log[i].input] = [kind |-> "input_run", run |-> r]
    /\ run[r] = "completed" => /\ \E k \in DOMAIN ended : ended[k].run = r
                               /\ stopped \/ \E i \in CompletionsOf(r) : i <= landed
    /\ run[r] = "exited" => CompletionsOf(r) = {} /\ ptyExit = "reset"
    /\ run[r] = "failed" => poisoned \/ r \notin typed

\* The run is the only one that was registered when its completion came.
Alone(r, i) == \A j \in 1 .. i : log[j].kind = "input_run" => log[j].run = r

\* A completion stands behind the output that its command printed and before
\* what came later. Only while another run is registered may less than an
\* echo be held back and follow it.
CompletionKeepsItsPlace ==
  \A r \in Runs : \A i \in CompletionsOf(r) : \A k \in DOMAIN ended :
    ended[k].run = r =>
      LET n == Len(Outputs(SubSeq(log, 1, i)))
      IN /\ n <= ended[k].before
         /\ n > ended[k].before - MaxEcho
         /\ Alone(r, i) => n = ended[k].before

\* A wait ends when the program exits, without its timeout.
ExitEndsWaits ==
  \A r \in Runs : (run[r] = "waiting" /\ ptyExit # "no")
                    ~> (run[r] # "waiting" \/ session = "dead")

\* A sentinel that was printed becomes a completion in the log, unless a write
\* fails or the log stops at its limit.
CompletionIsRecorded ==
  \A r \in Runs : (\E k \in DOMAIN ended : ended[k].run = r)
                    ~> (CompletionsOf(r) # {} \/ poisoned \/ stopped)

\* A wait ends when the sentinel of its run is printed, without its timeout,
\* also in a stopped log: run completion keeps working.
SentinelEndsWaits ==
  \A r \in Runs : (run[r] = "waiting" /\ \E k \in DOMAIN ended : ended[k].run = r)
                    ~> (run[r] # "waiting" \/ session = "dead")
=============================================================================
