---------------------------- MODULE HostRenderer ----------------------------
(***************************************************************************)
(* The renderers of one host: HostRendererManager (host/renderer.ts), the  *)
(* slices of a replay (renderer/replaySlices.ts), the requests that need   *)
(* the screen (host/hostMain.ts, host/mouseRpc.ts) and the part of the     *)
(* host's shutdown that takes the renderers away.                          *)
(*                                                                         *)
(* A host has two managers, one for captures and one for the mouse. Each   *)
(* runs its calls one after the other and keeps one backend, which has     *)
(* been fed some of the event log and cannot go back. The log grows under  *)
(* every step: a call works with the events it loaded when its turn came.  *)
(*                                                                         *)
(* An event is its seq. A screen is the sequence of the events that the    *)
(* backend has been fed. The session is created with one size, so the      *)
(* branch of withBackend for a changed initial size never runs. Any split  *)
(* into slices is allowed: the code follows bytes, flushes and time.       *)
(***************************************************************************)
EXTENDS Integers, Sequences, FiniteSets, Functions

CONSTANTS
  Requests,    \* RPC requests; one that is over may be asked again
  Kind(_),     \* snapshot, screenshot, wait or mouse
  Key(_),      \* the backend key, renderer and profile, that it asks for
  WebKeys,     \* the keys of ghostty-web backends: a browser page, which can crash
  Impatient,   \* bound: the requests whose client may give up
  MaxSeq,      \* bound: the last seq of the log
  MaxFailures  \* bound: boots that fail and pages that crash

RequestKinds == {"snapshot", "screenshot", "wait", "mouse"}

\* createMouseRpcHandler refuses any renderer but libghostty-vt.
ASSUME KindsAssumption ==
  \A r \in Requests : Kind(r) \in RequestKinds /\ (Kind(r) = "mouse" => Key(r) \notin WebKeys)
ASSUME RequestsAssumption == "dispose" \notin Requests
ASSUME BoundsAssumption == MaxSeq \in Nat /\ MaxFailures \in Nat

VARIABLES
  last,         \* the seq of the last record of the event log, -1 for none
  commandable,  \* the program runs
  queue,        \* lifecyclePromise: the calls of a manager, the head runs
  backend,      \* currentBackend
  appliedSeq,   \* where the last replay left the backend
  stage,        \* how far a request is
  target,       \* the target of the input that the call loaded
  next,         \* replayInSlices: the first event of the next slice
  gone,         \* the requests whose client has closed its socket
  host,         \* up, disposing, closing (the RPC server), ended
  failures,     \* bounds the failures
  asked         \* observes: the log when a request that waits or runs came

requestVars == <<stage, target, next>>
rendererVars == <<last, commandable, queue, backend, appliedSeq, stage, target, next,
                  gone, host, failures, asked>>

Managers == {"capture", "pointer"}
ManagerOf(r) == IF Kind(r) = "mouse" THEN "pointer" ELSE "capture"
Queued == {"queued", "booting", "replaying", "operating"}

\* The events from..to, in order.
Events(from, to) == [i \in 1 .. to - from + 1 |-> from + i - 1]
Larger(a, b) == IF a > b THEN a ELSE b
Smaller(a, b) == IF a < b THEN a ELSE b
-----------------------------------------------------------------------------
(* A backend *)

NoBackend == [key |-> "none", booted |-> FALSE, lastAppliedSeq |-> -1,
              screen |-> << >>, from |-> 0, to |-> -1]
Fresh(key) == [NoBackend EXCEPT !.key = key]

\* replayTo refuses a target behind what it has applied, and a page that is gone.
Refuses(b, goal) == ~b.booted \/ goal < b.lastAppliedSeq

\* iterateInRangeReplayEvents: what the backend holds already is skipped, and
\* the input is kept for a second renderer (latestReplayInput).
ReplayTo(b, from, to, goal) ==
  LET start == Larger(from, b.lastAppliedSeq + 1)
      end   == Smaller(to, goal)
  IN [b EXCEPT !.screen = @ \o Events(start, end),
               !.lastAppliedSeq = IF start <= end THEN end
                                  ELSE IF @ < 0 THEN goal ELSE @,
               !.from = from, !.to = end]

\* A libghostty-vt screenshot replays the kept input in a ghostty-web backend.
SecondScreen(b) == Events(b.from, b.to)
-----------------------------------------------------------------------------
(* The manager: runExclusive, ensureBackend, disposeCurrentBackend *)

\* withBackend joins the queue; the events are loaded when its turn comes.
Call(r) ==
  /\ queue' = [queue EXCEPT ![ManagerOf(r)] = Append(@, r)]
  /\ asked' = [asked EXCEPT ![r] = last]

AtWork(r) == queue[ManagerOf(r)] # << >> /\ Head(queue[ManagerOf(r)]) = r
Mine(r) == backend[ManagerOf(r)]

\* Mutant: the new backend is taken to hold what the old one held.
ReplaceKeepsSeq(m, b) ==
  /\ backend' = [backend EXCEPT ![m] = b]
  /\ UNCHANGED appliedSeq

\* disposeCurrentBackend, and the backend that takes its place
Replace(m, b) ==
  /\ backend' = [backend EXCEPT ![m] = b]
  /\ appliedSeq' = [appliedSeq EXCEPT ![m] = -1]

\* The call ends, and with it what it knew. A client is no more once it has
\* its answer.
Leave(r, how) ==
  /\ queue' = [queue EXCEPT ![ManagerOf(r)] = Tail(@)]
  /\ stage' = [stage EXCEPT ![r] = how]
  /\ target' = [target EXCEPT ![r] = -1]
  /\ next' = [next EXCEPT ![r] = 0]
  /\ asked' = [asked EXCEPT ![r] = -1]
  /\ gone' = gone \ {r}

\* A poll that failed is tried again; any other request fails.
Fails(r) == Leave(r, IF Kind(r) = "wait" /\ r \notin gone THEN "pending" ELSE "absent")

\* The turn of the call: the input is loaded, the backend kept or replaced.
LoadRenderer(r) ==
  /\ AtWork(r) /\ stage[r] = "queued"
  /\ target' = [target EXCEPT ![r] = last]
  /\ IF Mine(r).booted /\ Mine(r).key = Key(r)
     THEN /\ stage' = [stage EXCEPT ![r] = "replaying"]
          /\ next' = [next EXCEPT ![r] = appliedSeq[ManagerOf(r)] + 1]
          /\ UNCHANGED <<backend, appliedSeq>>
     ELSE /\ stage' = [stage EXCEPT ![r] = "booting"]
          /\ Replace(ManagerOf(r), Fresh(Key(r)))
          /\ UNCHANGED next
  /\ UNCHANGED <<last, commandable, queue, gone, host, failures, asked>>

Boot(r) ==
  /\ AtWork(r) /\ stage[r] = "booting"
  /\ backend' = [backend EXCEPT ![ManagerOf(r)].booted = TRUE]
  /\ stage' = [stage EXCEPT ![r] = "replaying"]
  /\ next' = [next EXCEPT ![r] = appliedSeq[ManagerOf(r)] + 1]
  /\ UNCHANGED <<last, commandable, queue, appliedSeq, target, gone, host,
                 failures, asked>>

BootFails(r) ==
  /\ AtWork(r) /\ stage[r] = "booting" /\ failures < MaxFailures
  /\ failures' = failures + 1
  /\ Replace(ManagerOf(r), NoBackend)
  /\ Fails(r)
  /\ UNCHANGED <<last, commandable, host>>

\* The page of a ghostty-web backend crashes or is closed.
PageCrashes(m) ==
  /\ backend[m].booted /\ backend[m].key \in WebKeys /\ failures < MaxFailures
  /\ failures' = failures + 1
  /\ backend' = [backend EXCEPT ![m].booted = FALSE]
  /\ UNCHANGED <<last, commandable, queue, appliedSeq, requestVars, gone, host, asked>>
-----------------------------------------------------------------------------
(* replayInSlices *)

\* The replay cannot go on: the page is gone, or the backend would rewind.
ReplayFails(r) ==
  /\ AtWork(r) /\ stage[r] = "replaying" /\ Refuses(Mine(r), target[r])
  /\ IF Mine(r).booted THEN Leave(r, "refused") ELSE Fails(r)
  /\ UNCHANGED <<last, commandable, backend, appliedSeq, host, failures>>

\* A slice that ends before the target. It may jump over what the backend holds.
Slice(r) ==
  /\ AtWork(r) /\ stage[r] = "replaying" /\ ~Refuses(Mine(r), target[r])
  /\ \E stop \in next[r] .. target[r] - 1 :
       \E b \in {ReplayTo(Mine(r), next[r], stop, target[r])} :
         /\ backend' = [backend EXCEPT ![ManagerOf(r)] = b]
         /\ appliedSeq' = [appliedSeq EXCEPT ![ManagerOf(r)] = b.lastAppliedSeq]
         /\ next' = [next EXCEPT ![r] = b.lastAppliedSeq + 1]
  /\ UNCHANGED <<last, commandable, queue, stage, target, gone, host, failures, asked>>

\* Mutant: the last call replays the last slice only.
LastReplayOfRest(r) == ReplayTo(Mine(r), next[r], target[r], target[r])

\* The last call gets the whole input.
LastReplay(r) == ReplayTo(Mine(r), 0, target[r], target[r])

ReplayEnds(r) ==
  /\ AtWork(r) /\ stage[r] = "replaying" /\ ~Refuses(Mine(r), target[r])
  /\ backend' = [backend EXCEPT ![ManagerOf(r)] = LastReplay(r)]
  /\ appliedSeq' = [appliedSeq EXCEPT ![ManagerOf(r)] = LastReplay(r).lastAppliedSeq]
  /\ stage' = [stage EXCEPT ![r] = "operating"]
  /\ next' = [next EXCEPT ![r] = 0]
  /\ UNCHANGED <<last, commandable, queue, target, gone, host, failures, asked>>
-----------------------------------------------------------------------------
(* Requests *)

Accepts == host \in {"up", "disposing"}

\* Captures go to the manager at once. A wait polls, and a mouse request first
\* awaits the ingestion of the output that came before it.
Ask(r) ==
  /\ Accepts /\ stage[r] = "absent" /\ (Kind(r) = "mouse" => commandable)
  /\ IF Kind(r) \in {"wait", "mouse"}
     THEN stage' = [stage EXCEPT ![r] = "pending"] /\ UNCHANGED <<queue, asked>>
     ELSE stage' = [stage EXCEPT ![r] = "queued"] /\ Call(r)
  /\ UNCHANGED <<last, commandable, backend, appliedSeq, target, next, gone, host,
                 failures>>

Due(r) == stage[r] = "pending"

\* The next poll of a wait, or the mouse request comes to withBackend.
Proceed(r) ==
  /\ Due(r)
  /\ stage' = [stage EXCEPT ![r] = "queued"] /\ Call(r)
  /\ UNCHANGED <<last, commandable, backend, appliedSeq, target, next, gone, host,
                 failures>>

\* The wait timed out, matched or failed for good: no poll follows.
WaitAnswered(r) ==
  /\ Kind(r) = "wait" /\ stage[r] = "pending"
  /\ stage' = [stage EXCEPT ![r] = "absent"]
  /\ UNCHANGED <<last, commandable, queue, backend, appliedSeq, target, next, gone,
                 host, failures, asked>>

\* The client gives up, or a wait times out, and the socket closes. A wait
\* polls no more; a call that is queued or runs goes on without its client.
GiveUp(r) ==
  /\ r \in Impatient \ gone /\ stage[r] \in Queued \cup {"pending"}
  /\ IF Kind(r) = "wait" /\ stage[r] = "pending"
     THEN stage' = [stage EXCEPT ![r] = "absent"] /\ UNCHANGED gone
     ELSE gone' = gone \cup {r} /\ UNCHANGED stage
  /\ UNCHANGED <<last, commandable, queue, backend, appliedSeq, target, next, host,
                 failures, asked>>

Image(r) ==
  IF Kind(r) = "screenshot" /\ Key(r) \notin WebKeys
  THEN SecondScreen(Mine(r)) ELSE Mine(r).screen

Capture(r) ==
  /\ AtWork(r) /\ stage[r] = "operating" /\ Kind(r) # "mouse"
  /\ Mine(r).booted /\ (Kind(r) = "wait" => r \notin gone)
  /\ Leave(r, IF Kind(r) = "wait" THEN "pending" ELSE "absent")
  /\ UNCHANGED <<last, commandable, backend, appliedSeq, host, failures>>

\* The page is gone, the second renderer does not boot, or the poll is not wanted.
CaptureFails(r) ==
  /\ AtWork(r) /\ stage[r] = "operating" /\ Kind(r) # "mouse"
  /\ \/ (~Mine(r).booted \/ (Kind(r) = "wait" /\ r \in gone)) /\ UNCHANGED failures
     \/ /\ Kind(r) = "screenshot" /\ Key(r) \notin WebKeys /\ failures < MaxFailures
        /\ failures' = failures + 1
  /\ Fails(r)
  /\ UNCHANGED <<last, commandable, backend, appliedSeq, host>>
-----------------------------------------------------------------------------
(* The operation of a mouse request *)

\* Mutant: the replay before the operation is taken for enough.
AlwaysCaughtUp(r) == TRUE

CaughtUp(r) == last <= target[r]

CatchUp(r) ==
  /\ AtWork(r) /\ stage[r] = "operating" /\ Kind(r) = "mouse" /\ ~CaughtUp(r)
  /\ backend' = [backend EXCEPT ![ManagerOf(r)] = ReplayTo(@, 0, last, last)]
  /\ target' = [target EXCEPT ![r] = last]
  /\ UNCHANGED <<last, commandable, queue, appliedSeq, stage, next, gone, host,
                 failures, asked>>

\* Mutant: nobody asks whether the client still waits.
WantedAnyway(r) == TRUE

\* A client that is gone has reported a failure, and its retry would click twice.
Wanted(r) == r \notin gone

\* From the last look at the log on, nothing comes between: the buttons, the
\* bytes, the write to the terminal and the seq of the record.
Click(r) ==
  /\ AtWork(r) /\ stage[r] = "operating" /\ Kind(r) = "mouse" /\ CaughtUp(r)
  /\ Wanted(r) /\ commandable /\ last < MaxSeq
  /\ last' = last + 1
  /\ Leave(r, "absent")
  /\ UNCHANGED <<commandable, backend, appliedSeq, host, failures>>

\* The client is gone, the encoder refuses the cell, or the program has ended.
ClickFails(r) ==
  /\ AtWork(r) /\ stage[r] = "operating" /\ Kind(r) = "mouse" /\ CaughtUp(r)
  /\ \/ (~Wanted(r) \/ ~commandable) /\ UNCHANGED failures
     \/ failures < MaxFailures /\ failures' = failures + 1
  /\ Leave(r, "absent")
  /\ UNCHANGED <<last, commandable, backend, appliedSeq, host>>
-----------------------------------------------------------------------------
(* The program and the shutdown *)

Output ==
  /\ commandable /\ last < MaxSeq - 1
  /\ last' = last + 1
  /\ UNCHANGED <<commandable, queue, backend, appliedSeq, requestVars, gone, host,
                 failures, asked>>

\* handlePtyExit: from here the session is not commandable; the exit is logged.
ProgramExits ==
  /\ commandable
  /\ commandable' = FALSE /\ last' = Smaller(last + 1, MaxSeq)
  /\ UNCHANGED <<queue, backend, appliedSeq, requestVars, gone, host, failures, asked>>

\* initiateShutdown, once the log is closed: both managers are asked to dispose.
Shutdown ==
  /\ host = "up" /\ ~commandable
  /\ host' = "disposing"
  /\ queue' = [m \in Managers |-> Append(queue[m], "dispose")]
  /\ UNCHANGED <<last, commandable, backend, appliedSeq, requestVars, gone, failures, asked>>

Dispose(m) ==
  /\ queue[m] # << >> /\ Head(queue[m]) = "dispose"
  /\ Replace(m, NoBackend)
  /\ queue' = [queue EXCEPT ![m] = Tail(@)]
  /\ UNCHANGED <<last, commandable, requestVars, gone, host, failures, asked>>

\* rpcServer.close takes no connection and waits for those that are open.
CloseServer ==
  /\ host = "disposing" /\ \A m \in Managers : "dispose" \notin Range(queue[m])
  /\ host' = "closing"
  /\ UNCHANGED <<last, commandable, queue, backend, appliedSeq, requestVars, gone,
                 failures, asked>>

Connected(r) == stage[r] \in Queued \cup {"pending"} /\ r \notin gone

HostEnds ==
  /\ host = "closing" /\ \A r \in Requests : ~Connected(r)
  /\ host' = "ended"
  /\ UNCHANGED <<last, commandable, queue, backend, appliedSeq, requestVars, gone,
                 failures, asked>>
-----------------------------------------------------------------------------
RendererInit ==
  /\ last = -1 /\ commandable = TRUE /\ host = "up" /\ failures = 0
  /\ queue = [m \in Managers |-> << >>]
  /\ backend = [m \in Managers |-> NoBackend]
  /\ appliedSeq = [m \in Managers |-> -1]
  /\ stage = [r \in Requests |-> "absent"]
  /\ target = [r \in Requests |-> -1]
  /\ next = [r \in Requests |-> 0]
  /\ gone = {}
  /\ asked = [r \in Requests |-> -1]

RequestStep(r) ==
  \/ Ask(r) \/ Proceed(r) \/ WaitAnswered(r) \/ GiveUp(r)
  \/ LoadRenderer(r) \/ Boot(r) \/ BootFails(r) \/ ReplayFails(r) \/ Slice(r) \/ ReplayEnds(r)
  \/ Capture(r) \/ CaptureFails(r) \/ CatchUp(r) \/ Click(r) \/ ClickFails(r)

HostStep ==
  \/ Output \/ ProgramExits \/ Shutdown \/ CloseServer \/ HostEnds
  \/ \E m \in Managers : PageCrashes(m) \/ Dispose(m)

RendererNext == HostStep \/ \E r \in Requests : RequestStep(r)

RendererSpec == RendererInit /\ [][RendererNext]_rendererVars
-----------------------------------------------------------------------------
(* Properties *)

IsBackend(b) ==
  /\ b.key \in {"none"} \cup {Key(r) : r \in Requests}
  /\ b.booted \in BOOLEAN /\ b.lastAppliedSeq \in -1 .. MaxSeq
  /\ \A i \in DOMAIN b.screen : b.screen[i] \in 0 .. MaxSeq
  /\ b.from \in 0 .. MaxSeq + 1 /\ b.to \in -1 .. MaxSeq

\* The variables keep their types, and a call is in the queue of its manager
\* once, for as long as it waits or runs.
RendererTypes ==
  /\ last \in -1 .. MaxSeq /\ commandable \in BOOLEAN
  /\ host \in {"up", "disposing", "closing", "ended"} /\ failures \in 0 .. MaxFailures
  /\ \A m \in Managers :
       /\ IsBackend(backend[m]) /\ appliedSeq[m] \in -1 .. MaxSeq
       /\ Cardinality(Range(queue[m])) = Len(queue[m])
       /\ Range(queue[m]) \ {"dispose"} =
            {r \in Requests : ManagerOf(r) = m /\ stage[r] \in Queued}
  /\ \A r \in Requests :
       /\ stage[r] \in {"absent", "pending", "refused"} \cup Queued
       /\ target[r] \in -1 .. MaxSeq /\ next[r] \in 0 .. MaxSeq + 1
  /\ gone \subseteq Requests

\* A capture shows every event of the log through its seq once and in order,
\* at least those that were logged when the request came, whatever backends
\* were kept, replaced or lost before and however the replay was cut. No replay
\* asks a backend to rewind.
CapturesShowTheLog ==
  [][\A r \in Requests :
       /\ stage'[r] # "refused"
       /\ Capture(r) => /\ Image(r) = Events(0, Mine(r).lastAppliedSeq)
                        /\ Mine(r).lastAppliedSeq >= asked[r]]_rendererVars

\* A click is encoded by a backend that holds the whole log before it, so with
\* the modes that the program has set, and for a client that still waits.
ClicksAreCurrent ==
  [][\A r \in Requests :
       Click(r) => Mine(r).screen = Events(0, last) /\ r \notin gone]_rendererVars

\* A host that has ended leaves no renderer behind: its browser would go on.
ShutdownLeavesNoRenderer ==
  host = "ended" /\ (\A m \in Managers : queue[m] = << >>) =>
    \A m \in Managers : ~(backend[m].booted /\ backend[m].key \in WebKeys)
=============================================================================
