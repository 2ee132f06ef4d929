---------------------------- MODULE ProgramGroup ----------------------------
(***************************************************************************)
(* The program's process group and the host's process, as the processes of *)
(* agent-tty find them (host/programGroup.ts, host/hostRecord.ts), and the *)
(* way `destroy --force` and gc use that (host/lifecycle.ts).              *)
(*                                                                         *)
(* A group is known by a number, and the kernel gives a number out again   *)
(* once no process of the group is left. So the host captures a token, the *)
(* autogroup of the program's session, and nobody kills the group before a *)
(* member was seen with that token. There is no way to see all members at  *)
(* once: a scan lists /proc, then reads the status of each process, then   *)
(* its autogroup, and the processes fork and end all the while.            *)
(*                                                                         *)
(* A step is one system call. Members of the group are all that is kept of *)
(* the process table. The time between the last look at a member and the   *)
(* kill is the one that the code leaves open (no pidfd names a group): the *)
(* number is not given out again within it.                                *)
(***************************************************************************)
EXTENDS Naturals, FiniteSets

CONSTANTS
  Pids,             \* the process numbers
  Program,          \* the number of the program's group, and of its leader
  MaxForks,         \* bound on forks in a run
  StopAttempts,     \* STOP_ATTEMPTS
  GcJudgements,     \* GC_JUDGEMENTS
  FrozenJudgements  \* FROZEN_JUDGEMENTS

ASSUME GroupAssumption ==
  /\ Pids \subseteq Nat \ {0} /\ IsFiniteSet(Pids) /\ Program \in Pids
  /\ MaxForks \in Nat
  /\ StopAttempts \in Nat \ {0} /\ GcJudgements \in Nat \ {0}
  /\ FrozenJudgements \in Nat \ {0}

Readers == {"destroy", "gc"}

VARIABLES
  table,    \* state and session of each process that has the group's number
  forks,    \* forks so far
  view,     \* what /proc shows to readers: clear, noBoot, noAutogroup, hides, rebooted
  capture,  \* captureToken of the host: where it is and what it read
  token,    \* the session whose token program.json holds, or none
  host,     \* the host's process: alive, zombie, gone, or another with its pid
  reader,   \* the call under way in each reader
  hit       \* ghost: the sessions whose processes a proven kill has reached

groupVars == <<table, forks, view, capture, token, host, reader, hit>>

Sessions == {"host", "program", "other"}
Live == {"running", "frozen", "held"}
Stopped == {"frozen", "held"}

Free == [state |-> "free", session |-> "other"]
Process(state, session) == [state |-> state, session |-> session]

\* `doing` is the function under way, `scan` what the scan under way is for.
\* `rows` is what it has found, `todo` the listed processes it has yet to read
\* and `at` the one whose autogroup comes next.
Reader ==
  [pc : {"idle", "list", "stat", "autogroup", "witness", "proof", "kill",
         "signal", "thaw", "probe", "probeAgain", "hostProbe", "hostStat",
         "hostProbeAgain", "hostKill", "done"},
   doing : {"none", "stop", "alive", "gc", "gcFrozen"},
   scan : {"none", "judge", "judgeAgain", "held", "live", "liveAgain"},
   kind : {"none", "proven", "bare", "unshared"},
   todo : SUBSET Pids,
   rows : SUBSET [pid : Pids, state : Live \union {"zombie"},
                  session : Sessions \union {"unread"}],
   at : Pids, count : Nat, frozenCount : Nat, frozen : BOOLEAN,
   onlyZombies : BOOLEAN,
   result : {"none", "alive", "gone", "zombies", "ended", "runs",
             "unproved", "gaveUp"}]

Idle == [pc |-> "idle", doing |-> "none", scan |-> "none", kind |-> "none",
         todo |-> {}, rows |-> {}, at |-> Program, count |-> 0,
         frozenCount |-> 0, frozen |-> FALSE, onlyZombies |-> FALSE,
         result |-> "none"]

\* The host has just forked the program, or the machine was started again
\* since, and the number belongs to others.
GroupInit ==
  /\ view \in {"clear", "noBoot", "noAutogroup", "hides", "rebooted"}
  /\ \/ /\ view # "rebooted"
        /\ table = [p \in Pids |-> IF p = Program THEN Process("running", "host") ELSE Free]
        /\ capture = [pc |-> "before", before |-> "none", group |-> "none"]
        /\ token = "none" /\ host = "alive"
     \/ /\ view = "rebooted"
        /\ table \in {[p \in Pids |-> IF p = Program THEN q ELSE Free] :
                        q \in {Free, Process("running", "other")}}
        /\ capture = [pc |-> "done", before |-> "none", group |-> "none"]
        /\ token = "program" /\ host \in {"gone", "reused"}
  /\ forks = 0
  /\ reader = [r \in Readers |-> Idle]
  /\ hit = {}
-----------------------------------------------------------------------------
(* Processes *)

GroupExists == \E p \in Pids : table[p].state # "free"
ProgramLives == \E p \in Pids : table[p].session = "program" /\ table[p].state \in Live

kernel == <<view, capture, token, reader, hit>>

\* The child of the host starts a session of its own.
Setsid ==
  /\ table[Program] = Process("running", "host")
  /\ table' = [table EXCEPT ![Program].session = "program"]
  /\ UNCHANGED <<forks, host, kernel>>

\* The number of a group that exists is given to nobody.
Fork(p, q) ==
  /\ forks < MaxForks /\ table[p].state = "running" /\ table[p].session # "host"
  /\ table[q].state = "free" /\ q # Program
  /\ table' = [table EXCEPT ![q] = table[p]]
  /\ forks' = forks + 1
  /\ UNCHANGED <<host, kernel>>

Exit(p) ==
  /\ table[p].state = "running"
  /\ table' = [table EXCEPT ![p].state = "zombie"]
  /\ UNCHANGED <<forks, host, kernel>>

Reap(p) ==
  /\ table[p].state = "zombie"
  /\ table' = [table EXCEPT ![p] = Free]
  /\ UNCHANGED <<forks, host, kernel>>

\* Job control of the program stops a member before anybody looks at it.
Hold(p) ==
  /\ table[p] = Process("running", "program")
  /\ \A r \in Readers : reader[r].pc = "idle"
  /\ table' = [table EXCEPT ![p].state = "held"]
  /\ UNCHANGED <<forks, host, kernel>>

\* Another program gets the number, but not in the time the code leaves open.
Reuse ==
  /\ ~GroupExists
  /\ \A r \in Readers : reader[r].pc # "kill"
  /\ forks < MaxForks /\ forks' = forks + 1
  /\ table' = [table EXCEPT ![Program] = Process("running", "other")]
  /\ UNCHANGED <<host, kernel>>

\* The host matters only to a destroy that looks at it.
HostEnds ==
  /\ \/ host = "alive" /\ host' = "zombie"
     \/ host = "zombie" /\ host' = "gone"
     \/ host = "gone" /\ host' = "reused" /\ \A r \in Readers : reader[r].pc # "hostKill"
  /\ reader["destroy"].pc \in {"hostProbe", "hostStat", "hostProbeAgain", "hostKill"}
  /\ UNCHANGED <<table, forks, kernel>>
-----------------------------------------------------------------------------
(* captureToken *)

ReadsGroup(p) == IF table[p].state = "free" THEN "none" ELSE table[p].session

Start(p) == IF table[p].state = "free" THEN "none"
            ELSE IF table[p].session = "other" THEN "second" ELSE "first"

CaptureReads ==
  \/ /\ capture.pc = "before"
     /\ capture' = [pc |-> "group", before |-> Start(Program), group |-> "none"]
  \/ /\ capture.pc = "group"
     /\ capture' = [capture EXCEPT !.pc = "after", !.group = ReadsGroup(Program)]

\* The autogroup is the program's if the same child of the host stands there
\* before and after, in a session of its own. A child that has not called
\* setsid is read again. The host's own /proc may refuse the boot id.
CaptureEnds ==
  LET same == Start(Program) = "first" /\ capture.before = "first"
      own == table[Program].session = "program"
  IN /\ capture.pc = "after"
     /\ \/ /\ same /\ (~own \/ capture.group = "host")
           /\ capture' = [capture EXCEPT !.pc = "before"]
           /\ UNCHANGED token
        \/ /\ capture' = [pc |-> "done", before |-> "none", group |-> "none"]
           /\ token' \in IF same /\ own /\ capture.group # "host"
                         THEN {capture.group, "none"} ELSE {"none"}

CaptureProgram ==
  /\ \/ CaptureReads /\ UNCHANGED token
     \/ CaptureEnds
  /\ UNCHANGED <<table, forks, view, host, reader, hit>>
-----------------------------------------------------------------------------
(* What follows a scan *)

Goes(r, next) == reader' = [reader EXCEPT ![r] = next]

Scan(rd, purpose) == [rd EXCEPT !.pc = "list", !.scan = purpose, !.rows = {}, !.todo = {}]

NoScan(rd, pc) == [rd EXCEPT !.pc = pc, !.scan = "none", !.rows = {}, !.at = Program]

Answer(rd, result) == [Idle EXCEPT !.pc = "done", !.kind = rd.kind, !.result = result]

\* judgeProgramGroup. An unknown with a running member reads `moving`.
Verdict(rows) ==
  LET members == {w \in rows : w.state # "zombie"}
      unread == {w \in members : w.session = "unread"}
  IN CASE members = {} -> "gone"
       [] members # {} /\ view = "noBoot" -> "unknown"
       [] members # {} /\ view = "rebooted" -> "unproven"
       [] members # {} /\ view \in {"clear", "noAutogroup", "hides"} ->
            IF \E w \in members : w.session = token THEN "owned"
            ELSE IF unread = {} THEN "unproven"
            ELSE IF \E w \in unread : w.state = "running" THEN "moving" ELSE "unknown"

\* The member to be read again: the first that carries the token.
Witness(rd) ==
  LET carriers == {w.pid : w \in {v \in rd.rows : v.session = token /\ v.state \in Live}}
  IN CHOOSE p \in carriers : \A q \in carriers : p <= q

\* Mutant: the ways out without a kill forget what they froze.
LeaveFrozen(rd) == NoScan(rd, "hostProbe")

\* Every way out of stopProgramGroup but the kill lets the group go on.
Leave(rd) == NoScan(rd, IF rd.frozen THEN "thaw" ELSE "hostProbe")

Freezes(rd) == NoScan(rd, "signal")

\* judgeGroupForGc has no answer: the group is judged again, but not for ever.
NextJudgement(rd) ==
  IF rd.count + 1 = GcJudgements THEN Answer(rd, "gaveUp")
  ELSE Scan([rd EXCEPT !.count = @ + 1, !.doing = "gc", !.frozenCount = 0], "judge")

\* stopProgramGroup, after judgeLiveGroup.
StopDecides(rd, verdict) ==
  CASE verdict \in {"unproven", "unknown"} -> Leave(rd)
    [] verdict = "owned" -> [NoScan(rd, "witness") EXCEPT !.at = Witness(rd)]
    [] verdict \in {"gone", "moving"} -> IF rd.frozen THEN Freezes(rd) ELSE Scan(rd, "held")

\* isProgramGroupAlive, after judgeLiveGroup.
AliveDecides(rd, verdict) ==
  CASE verdict \in {"owned", "unknown", "moving"} -> Answer(rd, "alive")
    [] verdict = "unproven" -> Answer(rd, "gone")
    [] verdict = "gone" -> NoScan(rd, "probe")

\* Mutant: gc takes two scans without a member for the end of the group.
GcDecidesOnScans(rd, verdict) ==
  CASE verdict = "owned" -> Answer(rd, "runs")
    [] verdict \in {"unproven", "gone"} -> Answer(rd, "ended")
    [] verdict \in {"unknown", "moving"} -> NextJudgement(rd)

\* judgeGroupForGc, after judgeLiveGroup.
GcDecides(rd, verdict) ==
  CASE verdict = "owned" -> Answer(rd, "runs")
    [] verdict = "unproven" -> Answer(rd, "ended")
    [] verdict \in {"unknown", "moving"} -> NextJudgement(rd)
    [] verdict = "gone" -> NoScan(rd, "probe")

\* judgeFrozenGroup, after judgeLiveGroup and SIGCONT.
FrozenDecides(rd, verdict) ==
  CASE verdict = "owned" -> Answer(rd, "runs")
    [] verdict = "unproven" -> Answer(rd, "ended")
    [] verdict \in {"unknown", "moving"} -> NextJudgement(rd)
    [] verdict = "gone" -> IF rd.frozenCount = FrozenJudgements
                           THEN NextJudgement(rd) ELSE Freezes(rd)

\* judgeLiveGroup scans once more when it has found nobody.
JudgementEnds(rd) ==
  LET verdict == Verdict(rd.rows) IN
  IF verdict = "gone" /\ rd.scan = "judge" THEN Scan(rd, "judgeAgain")
  ELSE CASE rd.doing = "stop" -> StopDecides(rd, verdict)
         [] rd.doing = "alive" -> AliveDecides(rd, verdict)
         [] rd.doing = "gc" -> GcDecides(rd, verdict)
         [] rd.doing = "gcFrozen" -> [rd EXCEPT !.pc = "thaw", !.at = Program]

\* showsStoppedMember: SIGCONT would resume a member that job control stopped.
HeldScanEnds(rd) == IF \E w \in rd.rows : w.state \in Stopped THEN Leave(rd) ELSE Freezes(rd)

\* groupHasLiveProcess: TRUE, FALSE for zombies in both scans, or no answer.
LiveScanEnds(rd) ==
  LET gc == rd.doing = "gc"
      zombies == rd.rows # {}
  IN CASE \E w \in rd.rows : w.state # "zombie" ->
            IF gc THEN NextJudgement(rd) ELSE Answer(rd, "alive")
       [] (\A w \in rd.rows : w.state = "zombie") /\ rd.scan = "live" ->
            [Scan(rd, "liveAgain") EXCEPT !.onlyZombies = zombies]
       [] (\A w \in rd.rows : w.state = "zombie") /\ rd.scan = "liveAgain" ->
            IF rd.onlyZombies /\ zombies
            THEN IF gc THEN Freezes([rd EXCEPT !.doing = "gcFrozen"]) ELSE Answer(rd, "zombies")
            ELSE IF gc THEN Answer(rd, "runs") ELSE NoScan(rd, "probeAgain")

\* A scan that has read all it listed is judged at once: no call is in between.
AfterRead(rd) ==
  CASE rd.todo # {} -> rd
    [] rd.todo = {} /\ rd.scan \in {"judge", "judgeAgain"} -> JudgementEnds(rd)
    [] rd.todo = {} /\ rd.scan = "held" -> HeldScanEnds(rd)
    [] rd.todo = {} /\ rd.scan \in {"live", "liveAgain"} -> LiveScanEnds(rd)
-----------------------------------------------------------------------------
(* A scan of the group *)

List(r) ==
  LET rd == reader[r] IN
  /\ rd.pc = "list"
  /\ Goes(r, AfterRead([rd EXCEPT !.pc = "stat", !.todo = {p \in Pids : table[p].state # "free"}]))
  /\ UNCHANGED <<table, hit>>

\* The listed processes are read in the order of their numbers.
Listed(rd) == CHOOSE p \in rd.todo : \A q \in rd.todo : p <= q

Row(p, session) == [pid |-> p, state |-> table[p].state, session |-> session]

ForMembers(rd) == rd.scan \in {"judge", "judgeAgain", "held"}

\* A scan for live processes stops at the first, and reads no autogroup.
ReadStat(r) ==
  LET rd == reader[r]
      p == Listed(rd)
      read == [rd EXCEPT !.todo = @ \ {p}, !.rows = @ \union {Row(p, "unread")}]
  IN /\ rd.pc = "stat"
     /\ Goes(r, CASE table[p].state = "free" -> AfterRead([rd EXCEPT !.todo = @ \ {p}])
                  [] table[p].state # "free" /\ ForMembers(rd) ->
                       [read EXCEPT !.pc = "autogroup", !.at = p]
                  [] table[p].state # "free" /\ ~ForMembers(rd) ->
                       AfterRead(IF table[p].state = "zombie" THEN read
                                                              ELSE [read EXCEPT !.todo = {}]))
     /\ UNCHANGED <<table, hit>>

ReadAutogroup(r) ==
  LET rd == reader[r]
      p == rd.at
      refused == view = "noAutogroup" \/ ReadsGroup(p) = "none"
      session == IF refused THEN "unread" ELSE ReadsGroup(p)
  IN /\ rd.pc = "autogroup"
     /\ Goes(r, AfterRead([rd EXCEPT
          !.pc = "stat", !.at = Program,
          !.rows = {IF w.pid = p THEN [w EXCEPT !.session = session] ELSE w : w \in @}]))
     /\ UNCHANGED <<table, hit>>

\* kill(-group, 0) finds the group while a process, alive or not, is in it.
Probe(r) ==
  LET rd == reader[r] IN
  /\ \/ /\ rd.pc = "probe"
        /\ Goes(r, IF ~GroupExists THEN Answer(rd, IF rd.doing = "gc" THEN "ended" ELSE "gone")
                   ELSE IF view # "hides" THEN Scan(rd, "live")
                   ELSE IF rd.doing = "gc" THEN NextJudgement(rd) ELSE Answer(rd, "alive"))
     \/ /\ rd.pc = "probeAgain"
        /\ Goes(r, Answer(rd, IF GroupExists THEN "alive" ELSE "gone"))
  /\ UNCHANGED <<table, hit>>
-----------------------------------------------------------------------------
(* Signals *)

Struck == {table[p].session : p \in {q \in Pids : table[q].state \in Live}}

Killed == [p \in Pids |-> IF table[p].state \in Live THEN [table[p] EXCEPT !.state = "zombie"]
                                                     ELSE table[p]]

\* Mutant: a group that was judged the program's is killed without a second look.
WitnessTaken(r) ==
  LET rd == reader[r] IN
  /\ rd.pc = "witness"
  /\ Goes(r, [rd EXCEPT !.pc = "kill"])
  /\ UNCHANGED <<table, hit>>

\* The witness is read again: its status, then its autogroup.
WitnessStat(r) ==
  LET rd == reader[r] IN
  /\ rd.pc = "witness"
  /\ Goes(r, IF table[rd.at].state \in Live THEN [rd EXCEPT !.pc = "proof"]
             ELSE IF rd.frozen THEN Freezes(rd) ELSE Scan(rd, "held"))
  /\ UNCHANGED <<table, hit>>

WitnessProof(r) ==
  LET rd == reader[r] IN
  /\ rd.pc = "proof"
  /\ Goes(r, IF view # "noAutogroup" /\ ReadsGroup(rd.at) = token THEN NoScan(rd, "kill")
             ELSE IF rd.frozen THEN Freezes(rd) ELSE Scan(rd, "held"))
  /\ UNCHANGED <<table, hit>>

\* A group without a token is killed by its number alone.
KillGroup(r) ==
  LET rd == reader[r] IN
  /\ rd.pc = "kill"
  /\ table' = Killed
  /\ hit' = IF rd.kind = "proven" THEN hit \union Struck ELSE hit
  /\ Goes(r, [rd EXCEPT !.pc = "hostProbe", !.frozen = FALSE, !.count = 0])

\* SIGSTOP reaches all members at once, and takes effect within STOP_SETTLE_MS.
SigStop(r) ==
  LET rd == reader[r]
      frozen == rd.frozen \/ GroupExists
      next == IF rd.doing = "stop"
              THEN IF ~frozen \/ rd.count + 1 = StopAttempts
                   THEN Leave([rd EXCEPT !.frozen = frozen])
                   ELSE Scan([rd EXCEPT !.frozen = frozen, !.count = @ + 1], "judge")
              ELSE IF GroupExists
                   THEN Scan([rd EXCEPT !.frozenCount = @ + 1], "judge")
                   ELSE Answer(rd, "ended")
  IN /\ rd.pc = "signal"
     /\ table' = [p \in Pids |-> IF table[p].state = "running"
                                 THEN [table[p] EXCEPT !.state = "frozen"] ELSE table[p]]
     /\ Goes(r, next)
     /\ UNCHANGED hit

SigCont(r) ==
  /\ reader[r].pc = "thaw"
  /\ table' = [p \in Pids |-> IF table[p].state \in Stopped
                              THEN [table[p] EXCEPT !.state = "running"] ELSE table[p]]
  /\ Goes(r, LET rd == reader[r] IN
             IF rd.doing = "stop" THEN [rd EXCEPT !.pc = "hostProbe", !.frozen = FALSE]
                                  ELSE FrozenDecides(rd, Verdict(rd.rows)))
  /\ UNCHANGED hit
-----------------------------------------------------------------------------
(* The host, and the calls *)

\* isHostAlive, isProgramGroupAlive: what waitForProcessesToExit asks.
AliveBegins(rd) ==
  LET call == [rd EXCEPT !.doing = "alive", !.count = 0] IN
  CASE rd.kind = "proven" -> Scan(call, "judge")
    [] rd.kind = "bare" -> [call EXCEPT !.pc = "probe"]
    [] rd.kind = "unshared" -> Answer(call, "alive")

\* judgeHost with the host's own record: the pid, its start, the pid again.
\* Who kills does so when it reads alive.
JudgeHost(r) ==
  LET rd == reader[r] IN
  /\ \/ /\ rd.pc = "hostProbe"
        /\ Goes(r, IF rd.kind = "unshared" THEN Answer(rd, "alive")
                   ELSE IF host = "gone" THEN AliveBegins(rd)
                   ELSE [rd EXCEPT !.pc = "hostStat"])
     \/ /\ rd.pc = "hostStat"
        /\ Goes(r, CASE host = "gone" -> [rd EXCEPT !.pc = "hostProbeAgain"]
                     [] host = "zombie" -> AliveBegins(rd)
                     [] host \in {"alive", "reused"} ->
                          IF view = "noBoot" THEN Answer(rd, "alive")
                          ELSE IF host = "alive" THEN [rd EXCEPT !.pc = "hostKill"]
                          ELSE AliveBegins(rd))
     \/ /\ rd.pc = "hostProbeAgain"
        /\ Goes(r, IF host = "gone" THEN AliveBegins(rd) ELSE Answer(rd, "alive"))
  /\ UNCHANGED <<table, hit, host>>

KillHost(r) ==
  /\ reader[r].pc = "hostKill"
  /\ host' = IF host = "alive" THEN "zombie" ELSE host
  /\ Goes(r, [reader[r] EXCEPT !.pc = "hostProbe"])
  /\ UNCHANGED <<table, hit>>

\* readProgramGroup, for a reader that may live in another pid space, then
\* stopProgramGroup or provenProgramGroupRuns. A bound: the two calls overlap
\* only where /proc shows everything.
Begin(r) ==
  LET proven == token # "none" IN
  \E kind \in IF proven THEN {"proven", "unshared"} ELSE {"bare", "unshared"} :
    LET rd == [reader[r] EXCEPT !.kind = kind] IN
    /\ reader[r].pc = "idle" /\ capture.pc = "done"
    /\ view = "clear" \/ \A q \in Readers : reader[q].pc \in {"idle", "done"}
    /\ \/ /\ r = "destroy"
          /\ Goes(r, CASE kind = "proven" -> Scan([rd EXCEPT !.doing = "stop"], "judge")
                       [] kind = "bare" -> [rd EXCEPT !.pc = "kill"]
                       [] kind = "unshared" -> [rd EXCEPT !.pc = "hostProbe"])
       \/ /\ r = "gc"
          /\ Goes(r, IF kind = "proven" THEN Scan([rd EXCEPT !.doing = "gc"], "judge")
                                        ELSE Answer(rd, "unproved"))
    /\ UNCHANGED <<table, hit>>

Reads(r) ==
  \/ Begin(r) \/ List(r) \/ ReadStat(r) \/ ReadAutogroup(r)
  \/ Probe(r) \/ WitnessStat(r) \/ WitnessProof(r) \/ KillGroup(r) \/ SigStop(r) \/ SigCont(r)

Next ==
  \/ Setsid \/ Reuse \/ HostEnds \/ CaptureProgram
  \/ \E p \in Pids : Exit(p) \/ Reap(p) \/ Hold(p) \/ \E q \in Pids : Fork(p, q)
  \/ \E r \in Readers :
       \/ Reads(r) /\ UNCHANGED <<forks, view, capture, token, host>>
       \/ JudgeHost(r) /\ UNCHANGED <<forks, view, capture, token>>
       \/ KillHost(r) /\ UNCHANGED <<forks, view, capture, token>>

Spec == GroupInit /\ [][Next]_groupVars
-----------------------------------------------------------------------------
(* Correctness *)

\* Types of the variables.
TypeOK ==
  /\ table \in [Pids -> [state : {"free", "zombie"} \union Live, session : Sessions]]
  /\ forks \in 0..MaxForks
  /\ token \in {"none"} \union Sessions
  /\ host \in {"alive", "zombie", "gone", "reused"}
  /\ reader \in [Readers -> Reader]
  /\ hit \subseteq Sessions

\* A kill that a token proves reaches processes of the program and of nobody
\* else, and the token that was captured is the program's, although the child
\* had not started its session yet and its number may have been given out
\* again (captureToken, stopProgramGroup).
KillsHitTheProgram == token \in {"none", "program"} /\ hit \subseteq {"program"}

\* A group that is reported gone or ended is. The exception is known: a member
\* that forks and ends can stay out of every scan while zombies are in view,
\* and destroy then reports the group gone (isProgramGroupAlive); gc freezes
\* such a group and looks again (judgeFrozenGroup).
GoneIsGone ==
  \A r \in Readers : reader[r].kind = "proven" /\ reader[r].result \in {"gone", "ended"}
                       => ~ProgramLives

\* Whoever freezes the group and does not kill it lets it go on, on every
\* way out, also when destroy and gc freeze it at the same time.
NobodyIsFrozen ==
  (\A r \in Readers : reader[r].pc \in {"idle", "done"})
    => \A p \in Pids : table[p].state # "frozen"

\* Freezing leaves no trace: nobody stays frozen, and a member that job
\* control stopped before is killed or left alone, no SIGCONT of ours resumes
\* it (showsStoppedMember).
FreezingLeavesNoTrace ==
  [][/\ NobodyIsFrozen'
     /\ \A p \in Pids : table[p].state = "held" /\ table'[p].state \in Live
                         => table'[p].state = "held"]_groupVars
=============================================================================
