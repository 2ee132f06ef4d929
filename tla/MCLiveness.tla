---------------------------- MODULE MCLiveness ----------------------------
(* Three components, each on its own and fair: `part` says which of them   *)
(* goes through its steps while the other two stay as they begin. They are *)
(* small enough to be checked without symmetry, which liveness excludes.   *)
EXTENDS TLC

CONSTANTS
  Calls, NoCall, Sizes, StopBytes, ExitBytes, MaxBytes, MaxEntries, ReserveBytes, ReserveEntries,
  InitialLogs, Commands, Operations, Runs, EchoPrefix, MaxControl, Prints, MaxPrints

VARIABLES
  part,
  file, fileSize, torn, logPhase, buffer, nextSeq, fileBytes, logStopped, pending, logPoisoned, drain,
  roomy, call,
  folder, manifest, marker, named, token, shield, program, phase, status, timer, shut, listening,
  owed, inflight, wroteTerminal, wasDestroying, cmd,
  log, landed, poisoned, stopped, scanner, sanitizer, active, waiters, outcome, run, pieces, awaited,
  session, ptyExit, unread, typed, ended, text, prints

logVars == <<file, fileSize, torn, logPhase, buffer, nextSeq, fileBytes, logStopped, pending,
             logPoisoned, drain, roomy, call>>
sessionVars == <<folder, manifest, marker, named, token, shield, program, phase, status, timer,
                 shut, listening, owed, inflight, wroteTerminal, wasDestroying, cmd>>
waitVars == <<log, landed, poisoned, stopped, scanner, sanitizer, active, waiters, outcome, run,
              pieces, awaited, session, ptyExit, unread, typed, ended, text, prints>>

Log == INSTANCE EventLog WITH phase <- logPhase, poisoned <- logPoisoned, stopped <- logStopped
Session == INSTANCE SessionCommands
Waits == INSTANCE RunCompletion

MCInitialLogs ==
  LET Foreign(seq, kind, end) == [seq |-> seq, kind |-> kind, bytes |-> 1, end |-> end, by |-> NoCall] IN
  { [lines |-> <<>>, size |-> 0],
    [lines |-> <<>>, size |-> 6],
    [lines |-> <<>>, size |-> 8],
    [lines |-> <<Foreign(0, "data", 8)>>, size |-> 8],
    [lines |-> <<Foreign(0, "data", 1), Foreign(1, "stop", 6)>>, size |-> 6] }
MCEchoPrefix == <<"p", "f">>
MCPrints == {<<"p">>}

Init ==
  /\ part \in {"log", "session", "waits"}
  /\ Log!Init /\ Session!Init /\ Waits!Init
  /\ part # "log" => file = <<>> /\ fileSize = 0
  /\ part # "session" => ~token /\ shield = "nobody" /\ phase = "boot"

LogStep(A) == part = "log" /\ A /\ UNCHANGED <<part, sessionVars, waitVars>>
SessionStep(A) == part = "session" /\ A /\ UNCHANGED <<part, logVars, waitVars>>
WaitStep(A) == part = "waits" /\ A /\ UNCHANGED <<part, logVars, sessionVars>>
vars == <<part, logVars, sessionVars, waitVars>>

Next == LogStep(Log!Next) \/ SessionStep(Session!Next) \/ WaitStep(Waits!Next)

\* The Fairness of each module, for the component that goes.
Fairness ==
  /\ WF_vars(LogStep(Log!WriteSettles)) /\ WF_vars(LogStep(Log!CloseDrained))
  /\ WF_vars(LogStep(Log!CloseEnds)) /\ \A c \in Calls : WF_vars(LogStep(Log!CallSettles(c)))
  /\ WF_vars(SessionStep(Session!HostWrites /\ UNCHANGED cmd))
  /\ WF_vars(SessionStep(Session!HostWorks /\ UNCHANGED cmd))
  /\ WF_vars(SessionStep(Session!KillTimerFires /\ UNCHANGED cmd))
  /\ \A p \in Commands : WF_vars(SessionStep(Session!CommandStep(p)))
  /\ WF_vars(WaitStep(Waits!WriteSettles)) /\ WF_vars(WaitStep(Waits!HandleExit))
  /\ []<>(part # "waits" \/ ~Waits!CanIngest) \/ []<><<WaitStep(Waits!Ingest)>>_vars
  /\ \A r \in Runs : WF_vars(WaitStep(Waits!HandlerGoesOn(r)))

Spec == Init /\ [][Next]_vars /\ Fairness

\* Every append promise settles (EventLog).
AppendsSettle == Log!AppendsSettle

\* A host told to end ends, a reconcile leaves no session stranded, and every
\* command ends (SessionCommands).
SessionSettles == Session!ShutdownEnds /\ Session!StrandedIsRepaired /\ Session!CommandsEnd

\* The exit of the program ends all waits, a printed sentinel ends its wait,
\* also in a log that stopped, and becomes a record unless the log stopped or
\* a write failed (RunCompletion).
WaitsSettle ==
  Waits!ExitEndsWaits /\ Waits!SentinelEndsWaits /\ Waits!CompletionIsRecorded
=============================================================================
