# A TLA+ development of agent-tty

agent-tty runs programs in pseudo terminals on behalf of agents. A *session* is
a folder (`session.json`, `events.jsonl`, markers, artifacts), a *host process*
that owns the terminal, and the *program* that the host started. Command line
processes come and go: they talk to the host over a socket while it lives, and
work on the folder directly when it does not. Nothing is shared between these
processes but files, signals and one request per connection, and each of them
can be killed between any two steps.

This directory holds models of that system in TLA+, the TLC configurations that
check them on small instances, and proofs that TLAPS checks for every value of
the constants. Paths below are relative to the repository.

How to run: `tlc -config MCRecords.cfg MCRecords.tla` for a run,
`tlapm EventLogProofs.tla` for a proof. `PROJECT.json` lists every run, the
source lines behind each definition, the hazards, and for each property a
mutation of the model that breaks it.

1. [The system](#1-the-system)
2. [The modules and the code](#2-the-modules-and-the-code)
3. [What the runs check](#3-what-the-runs-check)
4. [What is proved](#4-what-is-proved)
5. [What the models found](#5-what-the-models-found)
6. [Abstractions and limits](#6-abstractions-and-limits)
7. [Plan](#7-plan)

## 1. The system

### Parts that carry the logic

| Component | State | Operations | Interacts with | What is hard | What makes it correct |
|---|---|---|---|---|---|
| Event log (`src/host/eventLog.ts`) | the file, the buffer of events, the write queue, byte and entry counts, `stopped` | `open`, `append`, `startAppend`, `getEvents`, `close` | every handler of the host appends; readers parse the file | seq is given out before the write; a failed write rejects all that wait behind it; limits with a reserve | no gap, no lost receipt, limits kept, nothing dropped without a stop marker |
| Session host (`hostMain.ts`, `sessionState.ts`) | the record, timers, `shutdownPromise` | spawn, start, handlers, idle hang-up, shutdown, exit of the program | manifest writer, event log, renderers, RPC server, program group | start-up, exit and shutdown interleave at every await | the host ends with its program, and its last record is the end |
| Manifest writer (`manifestWriter.ts`) | the queue of writes, `wroteTerminal` | write a snapshot taken at its turn | the host, and commands that write the same file | a late write over the record of another process | never rewrites the end of a session |
| Session commands (`lifecycle.ts`, `gc.ts`) | a copy of the manifest per process | destroy, destroy --force, reconcile, gc | files, signals, the host over RPC | races of each other and of the host; death in the middle | `destroyed` is true when written and never taken back |
| Create handshake (`create.ts`, `lifecycle.ts`, `hostMain.ts`) | marker, first manifest, SIGTERM | launch, write, wait, give up; host: wait, look, spawn, watch | two processes over two files and a signal | either may die or be late anywhere; Windows has no SIGTERM handler | no program runs on for a session that nobody knows |
| Program group (`programGroup.ts`, `hostRecord.ts`) | `program.json`, `host.json`, what `/proc` shows | capture, judge, freeze, kill | host and commands | pids are reused, groups fork while they are read | no kill hits another program |
| Sentinel scanner and echo sanitizer (`runCompletionSentinel.ts`) | the held tail, the strip in progress | feed, flush, register, deregister | waited runs | sequences cut at any byte | same output for every cut |
| Waited runs (`runCompletionCoordinator.ts`, `hostMain.ts`) | active runs, waiters, ingestion chain | register, ingest, wait, flush, reset | event log, PTY callbacks, run handler | ingestion runs behind the program, timeouts, exit, failed writes | a client is told what the log holds |
| Artifact manifest and lock (`artifactManifest.ts`) | lock, break lock, announcements, manifest | take, judge, break, release, update | any number of processes on one folder | stale locks, two breakers, reused pids, crashes | one owner at a time; no entry lost |
| Host renderer and mouse (`renderer.ts`, `replaySlices.ts`, `mouseRpc.ts`) | one backend per manager and how far it is | boot, replay in slices, operate, dispose | log grows under it, browser may crash | stale position, stale mode, shutdown | captures show the log; clicks are encoded with all of it |
| RPC transport (`rpcServer.ts`, `rpcClient.ts`, `socketRoot.ts`) | connections, their chunks and timers, the socket at each path | listen, request, keep-alive, timeout, abort, close | every command and every host of a home | late answers, stale sockets, a folder that a gc removes under a starting host, close with open calls | one true answer per call; a close ends |
| Live view (`dashboard/eventSource.ts`, `liveViewFollower.ts`, `useFollower`) | byte offset, partial line, status, frame | poll, reset, ingest, render, dispose | reads the log while the host writes it and gc removes it | torn lines, a removed log, switch of session while a boot or replay runs | what is shown is a prefix of the selected session's log, and in the end all of it |
| Dashboard screens (`dashboard/app.tsx`, `sessionScope.ts`) | the list, pinned selection, scope, home, refs of what was rendered | keys, refreshes, scans of homes, effects | manifests, the live view | refreshes that end after the state they were asked for; keys handled with what is rendered | the watched session stays while it has a log; no old list wins |
| Artifact publishing (`artifactFiles.ts`, `screenshot.ts`, `record-export.ts`) | files and entries | publish under a free name, list, undo, roll back | manifest and lock | equal captures share a file, exports replace theirs before they have the lock, failure between file and entry | no capture loses its file, no export its entry |
| Homes (`homeRegistry.ts`, `home.ts`) | a list of homes per machine | sight, list, prune | every command | concurrent updates | advisory only |
| Batch (`batch/*`, `cli/commands/batch.ts`) | the records of its steps, the wait baseline | run a step, check the session around a wait, fail fast or go on, flush on a signal | the host over RPC, the manifest | calls that are given up on or interrupted while the host goes on with them | what is reported of a step is true of the session; a wait sees the input before it |

The rest is sequential conversion or presentation: the conditions of a render
wait, offline replay, terminal encoders, renderer backends, snapshot and export, protocol
schemas, command line, configuration, utilities, skills, tools, evaluations.
`PROJECT.json` lists each with the reason it is left out.

### How they meet

- The host appends to the **event log** from PTY callbacks and RPC handlers.
  `append` reserves a seq without awaiting, so handlers order themselves by it.
- PTY output goes through one promise chain (the **ingestion chain**) to the
  **coordinator**, which strips echoes and sentinels and appends what is left.
- The **manifest writer** of the host and the **commands** write the same
  `session.json` by atomic rename, without a lock. The markers `destroyed` and
  `create-failed` are empty files that only ever appear.
- Each capture **replays** the log into the backend of a manager; the mouse
  manager has a backend of its own.
- Shutdown runs in one order: hang up the program, await its exit, close the
  log, dispose both managers, close the server, remove the socket.

## 2. The modules and the code

| Module | Models | Extends / uses |
|---|---|---|
| `DurableLog` | contract of a log: lines, receipts | |
| `EventLog` | `eventLog.ts` | implements `DurableLog` |
| `EventLogProofs` | theorems about `EventLog` | |
| `SessionContract` | contract of a session | |
| `SessionHost` | `hostMain.ts`, `sessionState.ts`, `manifestWriter.ts` | |
| `SessionCommands` | `lifecycle.ts`, `gc.ts` | extends `SessionHost`, implements `SessionContract` |
| `SessionProofs` | theorems about `SessionCommands` | |
| `CreateHandshake` | `create.ts`, `lifecycle.ts`, the start of `hostMain.ts` | |
| `ProgramGroup` | `programGroup.ts`, `hostRecord.ts`, and how destroy --force and gc use them | |
| `ProgramGroupProofs` | theorems about `ProgramGroup` | |
| `RpcTransport` | `rpcClient.ts`, `rpcServer.ts`, `socketRoot.ts` | |
| `ProcessesProofs` | theorems about `CreateHandshake` and `RpcTransport` | extends both |
| `RunCompletionSentinel` | `runCompletionSentinel.ts` as operators | |
| `SentinelFeed` | the two scanners fed with any cuts | extends it |
| `RunCompletion` | `runCompletionCoordinator.ts` and the run handler | extends it |
| `HostRenderer` | `renderer.ts`, `replaySlices.ts`, `mouseRpc.ts`, part of `hostMain.ts` | |
| `ManifestLock` | the lock and the update of `artifactManifest.ts` | |
| `ArtifactStore` | `artifactFiles.ts`, the entries of `artifactManifest.ts`, their callers | |
| `CaptureProofs` | theorems about `HostRenderer`, `ArtifactStore` and `ManifestLock` | extends the three |
| `Picked` | the filter of the dashboard's lists and records | |
| `LiveView` | `eventSource.ts`, `liveViewFollower.ts`, `useFollower` | uses `Picked` |
| `Dashboard` | the state of `app.tsx`, `sessionScope.ts`, `homeScope.ts` | uses `Picked` |
| `DashboardProofs` | theorems about `Picked`, `LiveView` and `Dashboard` | extends them |
| `Batch` | `executor.ts`, `stepDriver.ts`, `result.ts`, `cli/commands/batch.ts`, the handlers of input, run and wait in `hostMain.ts` | |
| `CommandProofs` | theorems about `RunCompletion` and `Batch`, and lemmas about the scans of `RunCompletionSentinel` | extends both |
| `OutputProofs` | theorems about the output that `RunCompletion` keeps | extends `CommandProofs` |
| `MCRecords` | event log, artifacts, sentinels and batch for TLC | extends the four |
| `MCHost` | session commands and renderers for TLC | extends both |
| `MCProcesses` | create, transport and live view for TLC | extends the three |
| `MCLiveness` | event log, session and runs, each fair | instances of the three |
| `MCHostRenderer`, `MCRunCompletion`, `MCManifestLock`, `MCSentinelFeed`, `MCDashboard`, `MCBatch` | values of constants | |

Four of the `MC` modules hold components that do not meet. Their variable `part`
says which of them goes through its steps; the others stay as they begin. Such a
run is the sum of the runs of its parts, not their product, and `part` is chosen
in the initial state and never changes.

An action is what the code does between two awaits; a handler with three awaits
is four actions, and everything it calls without awaiting is part of the action.
Definitions named `...Not`, `...Anyway`, `...Early` and the like, under the
comment `Mutant`, are broken variants: they are part of no specification, and
show that a property would notice the bug they stand for.

**EventLog.** `file` and `fileSize` are the file, `buffer`/`nextSeq` the
array that `getEvents` reads, `pending` the lines queued on `writeQueue`,
`poisoned` the rejected tail of that promise chain, `call[c]` the promise that
a caller holds, `drain` the point that `close` awaits. `AppendCall` is `append`
up to its first await: closed and stopped states are refused or acknowledged,
the limits are tested with the reserve, the record is queued. `WriteLands`,
`WriteFails` and `WriteInheritsFailure` settle the head of the queue, with the
rollback of `nextSeq` and `buffer`. `CallSettles` resumes a caller. A partial
write leaves `torn`, which an `open` refuses. `Crash` is possible anywhere;
`Reopen` is the next open of a file that was closed in good order.

**SessionHost** and **SessionCommands.** `manifest` is `session.json`,
`status` the host's record of it in memory, `owed` and `inflight` the writer's
queue and the snapshot under way. `phase` is where the host process is. A
command is a process with a program counter named for what it does next and a
`copy` of the manifest from its last read, which it writes back with another
status, as the code does. `named`, `token` and `shield` say whether files name
the program's group, whether `program.json` proves it, and which processes no
kill can reach. `CommandFails` stops any command between any two steps, which
covers crashes, signals and errors thrown by the file system.

**CreateHandshake.** The creator and the host have a program counter each,
and share the manifest, the marker and SIGTERM. Deadlines are a choice to give
up at any time.

**RunCompletionSentinel, SentinelFeed.** Both scanners, character by character,
over an alphabet in which a sentinel is a token. An input is the terminal's
bytes with the user's output in them; `Feed` cuts it anywhere, and the result is
compared with the user's output at once.

**RunCompletion.** `active`, `waiters` and `outcome` are the maps of the
coordinator, `scanner` and `sanitizer` the operators of the module above, and
`log` with `landed`, `poisoned` and `stopped` is what is left of `EventLog`: any append but that
of the exit may find the log at its limit (`AppendRecord`), which then stores its marker and from
there on acknowledges what it drops with the seq of the last record it stored. `unread` holds
the chunks that wait for ingestion together with what the terminal has yet to
deliver, and the next chunk is any part of it; `pieces` and `awaited` are the
ingestion under way. A run is the waiting branch of the handler: append, register
and write in one step, await the record, await the wait.

**ManifestLock.** One label per system call. `lock`, `brk`, `announced` and
`temps` are the files beside `manifest.json`, each standing for the token in it;
`manifest` is the list of entries. A writer's locals are what it judged, which
announcements it has yet to look at and the manifest that it read. `expired` holds
the tokens whose files are older than 60 s. A crash leaves all files behind.

**HostRenderer.** `queue[m]` is the promise chain of a manager; its head runs.
`backend[m]` is `currentBackend` with the events that it holds in the order in
which it got them; `appliedSeq[m]` is `currentAppliedSeq`. A request is loaded
when its turn comes, boots or keeps a backend, replays in slices of any size
and then operates. `CatchUp` is the loop in the mouse operation, and `Click`
all that follows it without an await.

**ProgramGroup.** `table` holds the processes that have the group's number:
their state and the session they belong to. When the last one is reaped the number
is free and `Recycle` may give it to a group of another session. `reader[r]` is one
call of destroy or gc, with what its scan has listed, the statuses it has read
and the members it has witnessed; a step is one system call. `view` is what `/proc`
shows (all of it, no boot id, no autogroups, hidden processes, another boot). `hit`
collects the sessions whose processes a proven kill has reached.

**RpcTransport.** `client[c]` is a command's call with its timer and buffer,
`conn[c]` its connection: chunks under way in both directions, and what the server
did with it. `hostPc` is the host that starts to listen, works and closes, in a
folder that others may remove. `Tick` is time.

**LiveView.** `log[s]` is the file of a session as units, of which two are a line,
so that a line can be torn. `follow` has one element per run of the effect in
`useFollower`: each has an offset, a partial line, a renderer and a place in its
loop, and may go on for a while after it was aborted. `frame` and `error` are what the hook
shows.

**Dashboard.** `ui` is React's state, `seen` what handlers and refs know since
the last render, `ran` the dependencies with which the effects ran. `scans` are the
list refreshes under way, each with the home and scope it was started for, `load` the
scan of the homes. `view` stands for the follower of `LiveView` and has its states.
`ui.refreshed` is a history variable: a refresh has ended since the home was opened. The
home of the start (`Launched`) need not be in the registry.

**Picked** is `filter`: a recursive function over the places of a sequence, about which the
provers can reason, where they know nothing of the library's `SelectSeq`.

**ArtifactStore.** `shots` are the files under a capture's name and its numbered
variants, `export` is the file that default exports share, `listed` and `exported` are the
entries. A task is one capture or export with a place; the lock is one variable,
which `ManifestLock` justifies.

**Batch.** `client` is where the executor is, `records` and `lastInputSeq` its steps and
its baseline. `rpc[i]` is how far the call of step i is, on the wire or in its handler;
since an executor that has given up on a call does not stop the handler, calls of
several steps can be under way. `stored` and `durable` are what is left of `EventLog`: the
records in its buffer, and how many of them are on disk. A screen is the set of steps
whose input it was drawn after. A wait polls; `clock` is the time since the text last
changed, and starts with the first poll past the baseline. `onDisk` is what the checks
around a wait read in the manifest. `reached` and `finished` say what really happened.

## 3. What the runs check

| Run | Instance | Shows |
|---|---|---|
| `records` | the log: four calls, lines of 1 and 3 bytes, limits 9 bytes and 6 entries with a reserve of 3 and 2, five files to open; the artifacts: three captures or three exports of two contents; the sentinels: 603 inputs of up to three pieces, all cuts; the batch: three plans, one output, one failed write, one stop | the file is well formed, receipts are true, limits hold, drops are explained, the exit record has its room, durable events do not change, and `DurableLog` is implemented; captures keep their files and exports their entries; output does not depend on the cuts; the report of a batch is true |
| `host` | the session: two commands, every operation, token or not, any shield; the renderers: wait, screenshot and mouse request, two seqs, one failure | an end that is recorded is true, a reported destroy holds, gc spares the living, the host does not rewrite the end, `SessionContract` is implemented; captures show the log, clicks are current |
| `processes` | create: Windows and POSIX, 2 retries; transport: one client, a timeout of two ticks, two keep-alives, two cleanups; live view: two sessions, two records each, two selections, one failed boot | host and create never miss each other, a failed create ends its program, no host waits for ever; calls get one true answer, listening survives cleanups, calls and close end; the frame is of one session's log, and in the end of all of it |
| `run_completion` | two runs, three prints, a failed write, a stop at any append, gone on with while there were at most two prints (`Bounded`) | output and completions agree with the log and with what clients are told, completions keep their place |
| `manifest_lock` | two live writers, one dead, one of unknown liveness, two crashes | one owner and one breaker, no lost entry, a lone writer gets through |
| `program_group` | three processes, two forks, one destroy --force and one gc, every view of `/proc`, two tries per loop | kills hit the program only, a group that scans report gone is gone, apart from answers that rest on zombies alone or on giving up (`USAGE.md:346`, `:401`), freezing leaves no trace |
| `dashboard` | two homes, three sessions, two keys | the watched session stays, the list catches up |
| `liveness` | the log with two calls, the session with one command, one waited run | appends settle, shutdowns, repairs and commands end, waits end, also in a log that stopped, and completions are recorded unless it did |
| `sentinel_feed_long` | inputs with a long repaint control | **violated**, see 5 |
| `host_renderer_shutdown` | a wait and a screenshot | **violated**, see 5 |
| `dashboard_collected` | as `dashboard`, with one key | **violated**, see 5 |
| `batch_lost` | as the batch of `records`, with no failed write and no stop | **violated**, see 5 |

A few properties are conjunctions of statements that ask the same question:
`CreateSettles` (a failed create ends its program, no host waits for nobody),
`SessionSettles` (`ShutdownEnds`, `StrandedIsRepaired`, `CommandsEnd`), `WaitsSettle`
(`ExitEndsWaits`, `SentinelEndsWaits`, `CompletionIsRecorded`), `FreezingLeavesNoTrace`,
`CallsAndCloseEnd`, and `BatchReportIsTrue` (`StatusesAreTrue`, `WaitsSeeTheirInput`).

Why the bounds are enough:

- *Event log.* Four calls are two that land, one that fails and one behind it.
  With 9 bytes, a reserve of 3 and lines of 1 and 3 bytes a file stops by bytes
  and by entries, with and without the room for the marker; the five initial
  files are empty, partly filled, at their limit, stopped, and full with blanks.
- *Session.* Two commands are enough for a race on the manifest: a third can
  only write a copy that one of them could hold. A host that dies in any phase
  and a host of an older version that died `exiting` are initial cases.
- *Sentinels.* Every pair of pieces occurs, and three pieces where the first
  leaves a tail that looks like the start of an echo or of a control. Texts are
  short, so all of their cuts are tried. The echo prefix of three characters and
  controls of up to seven leave the same cases as 16 and 64 in the code: a
  control that fits into the held tail, and one that does not (the long run).
- *Runs.* Two runs give an echo of one within the wait of the other. A log may stop at any
  append of the two runs and three prints; what then goes on is followed only in states with
  fewer than three prints (`Bounded`), since a stopped log no longer cares what is printed. The
  theorems of section 4 have no such bound, and `liveness` needs none with its one run.
- *Lock.* Two writers and the files of a dead one give two breakers on one
  lock; a third live writer would meet only files that one of these can leave.
  One of the writers reads unknown, as a writer in another container does.
- *Artifacts.* Two captures with the same bytes and one with others give a shared
  file, a free variant and an undo of one while the other is listed. Three exports
  give one that replaces, one that is replaced and one that waits in vain.
- *Renderer.* Two seqs allow a replay of two slices on top of a kept backend;
  the wait and the screenshot want different backends on one manager, so each
  replaces the other's; one failure is a boot, a page or a second renderer.
- *Program group.* The leader, a child and a grandchild let a member fork behind a
  scan and end before the next. Two tries per loop are one that is undecided and one
  that gives up. One destroy and one gc are the two readers that freeze.
- *Transport.* Calls share nothing but the socket and the close, so one is enough
  with cleanups and a close at any step. A timeout of two ticks tells a sign of life
  from none.
- *Live view.* Two records of two units give a read that ends within a line, between
  two lines and at the end. Two selections are one that is left and one that stays.
- *Batch.* The plans have two inputs before a wait, a wait before and behind an input, and a
  run before a wait for the screen to be still. One failed write is all a log can have, and
  one output is all that a wait needs to get past its baseline; the exit is another.
- *Dashboard.* Two keys give a switch of scope or a move of the selection in both orders, or
  another home, with refreshes of both states under way. Coming back to a home takes six keys;
  what may happen then is left to the theorem.

`CHECK_DEADLOCK FALSE` stands wherever the system may stop: a host ends, calls
are all made, commands are done.

### Fairness

Only steps of our own processes are fair, and only those that the event loop or
the file system completes by itself.

- *Event log:* a queued write settles, a settled promise resumes its caller, a
  close that has begun goes on. Nobody has to call `append` or `close`.
- *Session:* the host's queued writes and pending work, the kill timer, and each
  command's next step. The program is free never to exit; `ShutdownEnds` relies
  on the timer that kills it, and excludes a leader that no kill can reach.
- *Handshake:* the steps of create and host, and the handling of a SIGTERM that
  has arrived. Create may always be killed instead.
- *Runs:* writes settle, the ingestion chain goes on (strong in effect: it is
  either idle for ever or taken again and again), handlers resume. No wait has
  to time out, and the program need not print or exit.
- *Lock:* the steps of a writer and the passing of time over an expired file.
  A crash is never required. Backing off is not fair against a rival for ever:
  the liveness property is about a writer that is left alone.
- *Transport:* the event loops of the client and of the server go on, and time
  passes. No handler has to end and no client has to call.
- *Live view and dashboard:* React renders and runs effects, timers fire, reads end.
  Of the effects only the one that is shown has to go on, of the refreshes only the
  last: an aborted one may hang for ever. Nobody has to press a key or write a log.

## 4. What is proved

`EventLogProofs` proves for any set of calls, sizes, limits and initial files
that satisfy the assumptions of `EventLog`:

| Theorem | Property |
|---|---|
| `TypeCorrect` | `TypeOK` |
| `FileStaysWellFormed` | `FileIsWellFormed` |
| `AcknowledgedStaysDurable` | `AckedIsDurable` |
| `LimitsHold` | `WithinLimits` |
| `LogKeepsItsContract` | `ImplementsContract` |
| `DurableEventsStay` | `DurableEventsAreStable` |
| `DropsAreExplained` | `DropIsExplained` |
| `ExitStaysStored` | `ExitIsStored` |

The assumptions are those of the constructor: a reserve that holds the stop
marker and the exit record, two reserved entries, limits above the reserve, and
initial files that readers accept. None of the invariants is inductive. `AckedIsDurable`
needs to know that the line at the head of the queue is the one that its caller
waits for; this holds because the file is a prefix of the buffer (`FileIsPrefix`)
and, while no write has failed, the queue is the rest of it (`QueueIsRest`). After
a failure the buffer shrinks and seqs are given out again, so the queue holds
lines the buffer does not know: all that is left to say is that none of them
reaches back into the file (`QueueIsPhantom`) and that a caller whose seq is in
the file still finds its own record (`WaitingFindsRecord`). `WithinLimits` needs
the byte accounting (`BytesAddUp`): each queued line ends where the one before it
did plus its own length. Together they are `DurableInv`, checked step by step.

The step simulation of `DurableLog` rests on the same invariant. A write that lands, or
that a crash lets land, appends the head of the queue, and `QueueIsRest` makes it the
next line of the file (`HeadIsStored`). A call that settles as taken names a line of the
file (`SettledIsAcknowledged`), calls give no receipt before that (`CallGivesNoReceipt`),
and every other step leaves the file and the receipts as they are, a stutter of
`DurableLog` (`ContractIsKept`).

`DurableEventsAreStable` is about a step, and takes the invariant on both sides of it: a
line of the file stays at its place (`LinesStay`), and the buffer of a log in use begins
with the file before and after the step (`BufferShowsFile`); a host that dies leaves its
memory as it was (`HostMoves`).

The last two theorems need what the log has used of its reserve. A log that was opened with its reserve free has put nothing into it but the marker, once
it has stopped, and the exit record, once there was a call for it (`Room`). So neither
is ever found not to fit (`ReserveIsEnough`), the marker is in the buffer
before anything is dropped (`StopIsThere`), and a caller whose record was dropped and who
may yet be told that it was taken has the marker at or before its seq (`WaitingFindsStop`).
A log that was opened without its reserve never gets it back (`Cramped`), and is promised
nothing but that the assertion of `acknowledgeUnstored` does not fail: it holds a record.

`CaptureProofs` proves of `HostRenderer`, for any set of requests, kinds, keys and bounds:

| Theorem | Property |
|---|---|
| `CapturesAreTrue` | `CapturesShowTheLog` |
| `ClicksSeeTheLog` | `ClicksAreCurrent` |
| `BackendsFollowTheLog` | the inductive invariant of both |

The assumptions: `dispose` is no request, and the bounds are natural numbers. The
argument has three parts. A backend holds the log up to its `lastAppliedSeq`, and
`appliedSeq` of its manager is no further (`BackendsHoldTheLog`); the lemma
`ReplayHoldsTheLog` shows that `replayTo` keeps this when it starts no further than
one behind that position. Only the head of a queue is under way (`OnlyTheHeadRuns`),
so nobody else feeds its backend. A call under way aims at a seq that is no less
than what its backend holds and what the log held when the client asked
(`AimsAhead`), so no replay is refused and no capture is old.

It proves of `ArtifactStore`, for any sets of captures and exports, any bytes, and any
number of variants of a name:

| Theorem | Property |
|---|---|
| `StoreKeepsTypes` | `StoreTypes` |
| `CapturesStay` | `CapturesAreKept` |
| `ExportsStayListed` | `ExportsAreListed` |

The first property is not inductive: a capture that is about to list must still have the
file that it published. What makes it so is the lock. `SectionHoldsLock` puts at
most one live task between its publication and its end, and `PublishedIsThere` says of
that task that its file is there and, when it created the file, that nobody has listed
it, so that a rollback takes nothing from others. Exports replace their file outside the
lock, so `ReplacedIsListed` speaks only of the one whose file is in place.

It proves of `ManifestLock`, for any writers and numbers of calls, any dead and unknown owners
with any of their files left behind, any failed releases and any crashes:

| Theorem | Property |
|---|---|
| `UpdatesDoNotOverlap` | `LockIsHeld` |
| `NoUpdateIsLost` | `ManifestIsTheRecord` |
| `TheLockHolds` | the inductive invariant of both |

The assumption is `MayStop = {}`: no writer is stopped for over 60 s between two steps.
It is needed, since a stopped one loses its announcement to its age and another breaker
goes on beside it. Comparing a file and removing it are two steps, so a breaker that is
about to remove a lock must know that nobody replaced it. Two facts give that. Of two
breakers that both have listed the announcements, one has yet to look at the other, whose
announcement is there and is not stale (`BreakersSeeEachOther`): so no two act at once,
and only its owner could remove the lock besides. And a lock that was judged stale is
abandoned (`StaleIsAbandoned`): its owner is dead, has given up that call or has begun a
later one, which stays so, because tokens are not used again (`FilesHaveBegun`), and age
misjudges no call that waits or whose owner reads unknown (`RunningIsYoung`). Every one
of the 30 kinds of steps is first put into a table of what it may change
(`StepsHaveThatShape`); the conjuncts of the invariant are then shown from the table.

`ProcessesProofs` proves of `CreateHandshake`, for both platforms and any number of retries:

| Theorem | Property |
|---|---|
| `HandshakeTypes` | `TypeOK` |
| `NoHostGivesUpEarly` | `NoManifestIsMissed` |
| `TheTwoMeet` | `HandshakeMeets` |

The first needs that what the host last saw of its creator is still true when it
looks for the manifest (`OrphansAreOrphans`): a creator that is gone stays gone. The
second is the argument in the source, made exact: `marked` implies the marker
(`MarkerComesFirst`), and a manifest without the program means a host that has yet
to look for the marker (`HostNamesItsProgram`).

It proves of `RpcTransport`, for any set of calls, any timeout, cap and number of attempts:

| Theorem | Property |
|---|---|
| `ListenSurvives` | `ListenSurvivesCleanups` |
| `CallsStayTrue` | `CallsAreTrue` |

The first counts: every attempt after the first answers for a removal of the folder, and a
folder that is missing on the way to `listen` for one more (`AttemptsAreSweeps`). The second
says of each call that waits which of four things its connection is in (`WaitingIsSound`):
the request is not read; a handler works, only keep-alives are under way, and while none is,
the timer of the client is no further than the ticks in which the handler was silent; the
rest of an answer is under way that fits the cap with what was read of it (`AnswerAhead`);
or the host has died. So a call cannot see the end of the stream before an answer, a timer
cannot run out while a handler gives signs, and nothing that the server let through is too
long. Each action of a client, the server, the host and the clock has its lemma.

`CommandProofs` proves of `RunCompletion`, for any set of runs, any text that the program
prints, any start of the postambles, any bound on controls, and any cut of what the terminal
delivers:

| Theorem | Property |
|---|---|
| `CompletionsStayTrue` | `CompletionsAreTrue` |
| `ScanIsGood` | what a scan of `#scanBuffer` returns |

The assumptions: the names of the runs are in nothing that the program prints on its own and
not in the start that all postambles share (a name is a new UUID); that start is not empty, has
neither an escape nor a carriage return in it, and its first character only once. It is the
literal text `printf '\033\137` (`runCompletionSentinel.ts:21`). The invariant (`IInv`) goes along the way of a sentinel. One
that stands in what the scanner holds or has yet to get was printed by the program of that run
(`PrintedIn`); that an echo, wherever the text is cut, makes no sentinel is
`EchoIsNoSentinel`. The run is active in the scanner, or a piece of the ingestion under way
ends it, or its completion is in the log, and never two of these (`ScanInv`, `EndsOnce`): so
no run completes twice. The record that an ingestion awaits is that of its first piece
(`AwaitsHead`), and a waiter and its outcome agree with what is on disk (`WaitInv`,
`OutcomeInv`), also when a write fails and the log rejects the rest. A log that stopped at its
limit settles runs without storing their ends: of these it is proved that their sentinel was
printed, that they complete once and that none is told an error. Nothing of the echo
sanitizer is needed, and of the scanner only `GoodScan`: its pieces end only active runs whose
sentinel is in the text, each once, and it keeps a last part of the text. That is shown of
its loop from the end of the text to its start. The loop is a function on positions and sets
of active runs, and `LoopExists` and `LoopIsGood` go through the positions as a set of
numbers that holds 0 and with each number the next (`Induction`, from the well-founded order
of the naturals), which needs no theorem with an operator parameter.

`OutputProofs` proves of `RunCompletion`, under the same assumptions and for any controls among
what the program prints:

| Theorem | Property |
|---|---|
| `LogHasTheOutput` | `LogHoldsTheOutput`, as long as the text is `Unmistakable` |
| `CompletionsAreInPlace` | `CompletionKeepsItsPlace`, as long as the text is `Unmistakable` |
| `LogIsTrueToTheProgram` | both, in every state, for a program that spares a character |
| `StripTells` | what the sanitizer makes of any part of the output |
| `ScanFinds` | what the scanner makes of any part of the output |

They have two hypotheses, and the code needs both. `WholeControls`: a print does not end inside
a control sequence, since a control that is cut off swallows the start of an echo behind it.
`Unmistakable`: nothing in what the program printed reads as the whole start of a postamble,
since the sanitizer would take that for an echo and drop it. It is a condition on the text so
far, and the theorems hold up to the moment at which it fails. `LogIsTrueToTheProgram` has
instead a condition on the program alone: there is one character of the postambles' start that
it never prints (`Spares`). The instance of `run_completion` satisfies that; its output consists of
first characters of an echo, so the sanitizer holds some back and lets them through again.

The state does not say which characters of the terminal are the program's, and the sanitizer
cannot know it either. The invariant (`OutputInv`) therefore says that there is a *story* `p` of
everything that was delivered. Its `raw` are the characters of the terminal, `chars` the same
without the sentinels; behind each place of them `user` counts what the program printed, `at`
is the place in an echo, `run` and `echo` tell which echo it is, `g` and `k` count for each place of
`raw` the characters and the sentinels before it, and `stand` is the place of each sentinel. `Story(p, d, m, n)`
says how far the host is: the log holds the program's share of the first `d` of `chars`, the
sanitizer keeps what stands between `d` and the place `m` of `raw`, the pieces under way lead
from `m` to `n` (`Leads`), and what the scanner keeps and what is unread is the rest. Each
step of the host moves one of the numbers; a print makes the story longer (`Grows`), and what it
said of the old characters stays (`PlainGoesOn`, `LeadsStay`). `LogTells` adds what the
properties say of each record. A poisoned log takes no more records, and a stopped one none but its
marker and the exit (`StoppedTells`): the story then need not go on, and only what the log has told
remains. So in every state the output is a beginning of what was printed, and behind the exit it
is all of it if the log is `Complete`.

Two lemmas do the work on texts. `ScanFinds` says that a scan from a place of the story stops at the next
sentinel or at what may become one, and at nothing else, since neither output nor echoes
contain one. `StripTells` says of the sanitizer, started anywhere outside or inside an echo, that
it comes out at a place of the story with the program's share let through, and holds back only a
text that is the start of an echo, or of a control behind one, or looks like it. Behind it are the
scans of `CommandProofs`: of the start of an echo (`StartScanned`), of a whole one (`WholeEcho`),
in the middle of one, and of what the program printed, where a scan may go on from one of the
program's characters into an echo (`Lookalike`): it stops there, because the echo begins with
the character that the start of a postamble has only once. The loops of both are functions on
places, gone through by `Induction`.

It proves of `Batch`, for any set of plans, any output of the program, and whether or not
writes fail and the log stops:

| Theorem | Property |
|---|---|
| `ReportsAreTrue` | `BatchReportIsTrue` |
| `BatchKeepsTypes` | `BatchTypes` |
| `BatchHolds` | the inductive invariant of both |

The assumption is that a plan has at least one step, as `batch/plan.ts` demands. The
property is not inductive, because what was reported must stay true while the host goes
on, and because a step that is reported later must be true of calls that are under way.
Six facts make up for it. Nothing is sent behind the step that the executor is at, so a
step that was not run stays so (`StepsComeInOrder`). How far a call is says what became of
its input (`CallsMeanIt`), which is in the log once (`StoredOnce`). A seq that was
reported is on disk, so no rollback takes its record back and no later record gets its
number (`ReportedIsDurable`). The baseline is no less than any reported seq and no more
than what is on disk, so the next seq is past it although seqs are given out again
(`BaselineIsDurable`). A poll past the baseline therefore draws a screen with every
reported input, and a stable clock that runs has begun with such a screen
(`ScreensAreFresh`). The lemma `HostKeeps` says what a host may do without making any
of this false, and `FinalizeKeeps` what an honest record is.

`ProgramGroupProofs` proves for any set of process numbers, any bound on forks, and any numbers of
attempts and judgements:

| Theorem | Property |
|---|---|
| `GroupTypes` | `TypeOK` |
| `KillsAreThePrograms` | `KillsHitTheProgram` |
| `GoneStaysGone` | `GoneIsGone` |
| `FreezingIsUndone` | `FreezingLeavesNoTrace` |

What a reader takes from `/proc` is old when it acts on it, and the group forks, ends, is
reaped and gives up its number in between. The inductive invariant (`IInv`) says what is still
true of it. A row of another session means that the number is another program's for good, since
a number is given out again only when the group is empty (`Sees`); this makes a verdict of
gone true although processes that end and fork can be in no scan. A scan that looks for
stopped members has seen each that is held in a row or has it on its list, and job control
stops nobody while a reader looks, as `Hold` states; so a reader freezes only where nobody is
held and thaws only what it froze. A frozen group has a reader at a place from which every way
out thaws (`SomeoneThaws`), and a kill that a token proves has seen a witness with the token,
with whom everybody is in one session (`OnlyProgram`, `GroupInv`). Each function on a reader
returns one that is `Good`, each system call moves a `Good` reader to a `Good` one, and each
change of the group keeps what the readers know (`TableKeeps`). That the witness exists rests
on the order of process numbers: every set of numbers that is not empty has a smallest
(`Smallest`, from the well-founded order of the naturals).

`SessionProofs` proves for any number of commands of any kind, on a new session or one
that an old host left behind, with or without a token and whichever processes no kill reaches:

| Theorem | Property |
|---|---|
| `AnEndIsTheEnd` | `EndedMeansOver` |
| `ADestroyHolds` | `ReportedDestroyHolds` |
| `GcIsSafe` | `GcSparesTheLiving` |
| `TheHostLeavesEnds` | `HostNeverRewritesTheEnd` |
| `TheContractIsKept` | `ImplementsContract` |
| `SessionHolds` | the inductive invariant of all five |

The assumption is that commands do what `AllOperations` lists. The argument rests on one
moment: a session is *sealed* once its host is dead or has written the end. A sealed session
has no host that writes, no file that newly names its program, and a program that only
shrinks, so whatever a command found to be over stays over (`Calm`). `DiskInv` says that an
end, a marker or a missing folder means sealed, and all but a recorded exit mean over; the
exit that the host recorded means that the leader is over, since processes it left may live
on until a destroy stops them. Each command knows something at each of its places
(`ReconcileInv`, `DestroyInv`, `GcInv`): a reconcile that is about to write knows the host
dead, the program over, and that the end on disk, if another reconcile was faster, is the
very one it will write (`SameEnd`) or has the marker beside it, which every reconcile looks
for after its write. A forced destroy knows this of its second look only: the first one may
have come before the program had a name, and it kills the host, so the second cannot. What a
command copied from the manifest stays worth what it was (`CopyInv`). The lemma `HostKeeps`
shows every step of the host calm, `OthersKnow` that a calm step takes no command's
knowledge away, and `CommandKeeps` what is left to show of each step of a command. The
refinement follows from the invariant and from calm steps alone (`StepsAreAllowed`).

`DashboardProofs` proves of `LiveView`, for any sessions, any length of their logs and any
number of selections and failed boots, and of `Dashboard`, for any sessions, homes and keys:

| Theorem | Property |
|---|---|
| `TheViewIsTrue` | `ShowsOneLog` |
| `WatchedSessionsStay` | `WatchedStays` |
| `ReadsAreWhole` | what a read gives, from any byte to any later one |
| `PickedIsASequence` | what the filter returns |

A view shows one log for three reasons, which are its invariant (`ViewInv`). Where a tail is
says what it holds: no more than the part of a line behind the last line feed (`TailAt`), so a
read gives the whole records up to where it ends and no others, wherever it is cut
(`ReadsAreWhole`). What an effect has ingested and not yet drawn follows what it has drawn,
without a gap and without a record twice (`EffectInv`), so a replay that draws what is new
draws the next records; for a log that was removed only this part remains. And only the
effect that was not aborted, the last one, sets the frame (`FrameInv`). The lines of a text and
what is behind its last line feed are found with the filter, whose loop is a function on
places: `PickLoopExists` and `PickedIs` go through it from the end of the sequence, by the
smallest place from which a statement holds (`Smallest`, `FromTheEnd`).

A watched session stays because what is listed was seen: from the first refresh after a home was
opened on, the list is a part of `lastKnown` (`DashboardInv`), so a refresh that no longer finds
the selected session can put it behind what it found (`DisplayedType`). The first attempt, with
the premise that the session is of the home that is open, failed at a step that the run was
too small to reach: see the visit to another home in 5.

Only model-checked: liveness (fairness and ENABLED are beyond the prover here), and
`CutsDoNotMatter`, which compares what both scanners make of one input, in one piece and in
others. In `SentinelFeed` an input is any sequence of pieces, with controls inside of echoes; these
are what a held tail is too short for (see 5), so the property is true only of inputs without long
ones, and no story as above tells where such an echo ends. What `OutputProofs` shows of any cut is
about echoes without controls inside, as `ProgramPrints` makes them.

## 5. What the models found

Most of what the source, its documents and its tests say holds in the models.
Four statements do not.

- **An echo with a long repaint control is shown when a chunk ends behind the
  control** (`sentinel_feed_long`). A tail as long as the longest echo is never
  held (`runCompletionSentinel.ts:507`), but controls of up to 64 characters may
  be skipped inside an echo. The test `drops line-editor control sequences split
  across chunks before the tolerant prefix threshold` covers shorter ones.
- **A render wait boots a browser that nobody disposes** (`host_renderer_shutdown`).
  `initiateShutdown` disposes both managers and then waits for open connections
  (`hostMain.ts:540`). A wait polls every 200 ms until its client leaves, and its
  next poll boots a new backend. The trace: a wait is under way, the program
  exits, the managers are disposed, the wait polls, boots and captures, its
  client times out, the host ends, the backend stays.
- **A collected session can stay listed** (`dashboard_collected`). The PRD says that a
  session whose log was collected drops out on the next refresh (`PRD.md:73`). A log that
  goes before its view has read it once is *pending*, not *collected*
  (`eventSource.ts:60`), and a pending session that is selected is kept by every
  refresh.
- **A wait in a batch matches a screen from before its input** (`batch_lost`). `CONTEXT.md:265`
  excludes it. Under `--keep-going` an input step that fails at the client, such as one whose
  call timed out, has no seq and leaves the baseline alone (`executor.ts:121`), but the host may
  have typed and recorded its input, or do so later. `BatchReportIsTrue` says what does hold: a
  wait sees the input of every earlier step that has a seq.

Six more places came up while modelling. No run shows them, because no statement of
the repository about that very case is violated, because the module leaves the
detail out, or because a property is stated around them; they are recorded here for a
reader of the code.

- *An export's file removed by another's rollback* (`artifactManifest.ts:698`). Exports A
  and B write the same default file. A replaces it and waits for the lock; B replaces it;
  A gives up the lock and finds, unlocked, that the name is not listed; B takes the lock,
  lists the file and ends; A removes it. The same happens under the lock when the
  manifest cannot be read for a moment, since that counts as not listed. `ArtifactStore` has these
  steps (`RollBackReads`, `RollBackRemoves`), and `ExportsAreListed` is therefore about the
  entry, not the file.
- *A session of the old home in the new one* (`app.tsx:731`). The key that opens another
  home clears what was known of the old one. A refresh of the old home that ends after the
  key and before React ran the effects adds it again, and the new home then lists and pins a
  session of the old one. `Dashboard` has this step.
- *A watched session dropped after a visit to another home* (`app.tsx:735`). The same key clears
  what was known, but the old list stays up until a refresh of the new home ends. Opening the
  old home again before that, and selecting in the list, leaves a selection that nothing knows: if
  that session ended meanwhile, the next refresh drops it, although a watched session is to stay.
  The proof of `WatchedStays` found it, six keys from the start; its premise is therefore that a
  refresh has ended since the home was opened.
- *A native terminal that outlives its renderer* (`libghosttyVt/backend.ts:708`). A boot
  that ends after `dispose` creates a terminal that nobody releases.
- *A wait behind a stopped log* (`eventLog.ts:518`). Input that a stopped log does not store is
  acknowledged with the seq of the last record, so a wait with that baseline can only match at
  the exit record, in the moment before the manifest says so, and on a screen without the
  input. `WaitsSeeTheirInput` leaves such input out.
- *An error that stays on the screen* (`app.tsx:408`). A read or a boot that fails once leaves its
  message up in place of the frame (`:162`) although the follower goes on; only a change of the
  selection clears it (`:394`). The PRD has the view freeze on the final screen and show the
  collected state (`PRD.md:73`, `:83`), neither of which is then seen. `FrameCatchesUp` is
  therefore about the frame, and about the screen only where the log is there and no boot failed.

## 6. Abstractions and limits

General: payloads, messages, exit codes, sizes and clocks are left out. A
deadline is a choice to give up at any time, except where its order with another
step matters. The type invariants are stated in every module; those with a proof are
theorems, the others document the model.

- *Event log:* the content of a line is its kind, size and caller. The parser is
  its verdict (`Contiguous`, `StopIsLast`).
- *Session:* the verdict on a program group and the kill that follows are one
  step, since the code does not yield between them; what a verdict can be is
  `ProgramGroup`'s subject. Documented limits of the program appear as
  state: sessions without a token (`token = FALSE`), a host that dies between
  the spawn and `program.json` (`named = FALSE`), processes beyond reach
  (`shield`). `src/docs/USAGE.md` lists them.
- *Handshake:* on Windows a create that could write no marker at all and saw no
  program can leave a host that serves; `CreateSettles` says so in its
  premise. The deadlines of 30 s and 60 s and the 50 retries are a choice and a
  small bound.
- *Program group:* no number is given out again between the last look at a member and
  the signal, which no Linux call can exclude for a group. Members of other users are
  `SessionHost`'s `shield`. A machine that was started again shows as another boot id.
- *Transport:* bytes are units, and of an answer only its size is left. Time passes only
  while no chunk that was sent is unread: two processes of one machine exchange bytes
  faster than any timeout.
- *Sentinels:* user output that contains the whole prefix common to all
  postambles while a run is active is taken for an echo; the inputs leave it out, and the
  theorems have a hypothesis against it (`Unmistakable`).
- *Runs:* runs that do not wait are left out, as is the renderer's catch-up after
  a completed run. A log at its limit may stop at any record but the exit, and its marker always
  has room, as in any log that its host opened empty (`ReserveIsEnough`). What a stopped log drops,
  output, inputs and the ends of runs, is missing from it for good: `LogHoldsTheOutput`,
  `CompletionsAreTrue` and `CompletionIsRecorded` promise only what comes before, and that the
  runs still end. With a second run registered, less than an echo may be held
  back and be logged after the first run's completion; `CompletionKeepsItsPlace`
  states that bound.
- *Lock:* file systems with hard links only. Removals of one's own temporary and
  announcement files are one step. `MayStop` are writers that may sleep for more
  than 60 s in the middle of their section: with one of those `LockIsHeld`
  fails, as `src/src/storage/README.md` says. The runs have
  none. Two writers that back off from each other for ever are excluded by the
  random delay in the code, which the model cannot express.
- *Artifacts:* all captures want one name and all exports another, since other names
  do not meet. Captures and exports share nothing but the lock, so the run takes one kind
  at a time.
- *Batch:* a mouse step is an input, without its wait for ingestion and its abort. A run's
  completion record is left out; whether the program ended it is `finished`. A record that a
  broken log takes for a moment before it rejects it is not stored at all (`EventLog` has
  that moment). Which condition a screen satisfies is a choice.
- *Renderer:* an event is its seq and a screen the sequence of events it was fed,
  so what an event draws is left out. The session has one initial size, so the
  branch for a changed one never runs. The encoded bytes and the held buttons are
  data. Any split into slices is allowed, more than size, flush and time rules
  of the code produce. A page that crashes is modelled, a write that fails in a
  page that lives on is not: what it wrote before it failed is written again by the next replay
  (`ghosttyWeb/backend.ts:1695`).
- *Live view:* a record is two units, what it draws is left out, and so is how the screen is
  clipped. Logs grow and go, they are never shortened, as the host does it.
- *Dashboard:* a refresh reads all sessions of its home in one step; one that throws
  changes nothing and the next one tries again, so it is left out. Keys are handled with the
  state as rendered. Panning, the overview, layout and colours are left out.

## 7. Plan

What is not modelled, and what would come next:

1. `Homes`: the registry is a list that is rebuilt from sightings; a lost update is
   repaired by the next command, and the only promise is that it is advisory.
2. The pages of the browser renderer, with the retries of a failed batch, below
   `HostRenderer`; and the terminal query responder, which has a scanner like
   `SentinelFeed`'s.

Left out for good: the evaluation harness, the release, demo and review tools, the skills,
and the scripts are not part of the running program; they are also about half of the
lines of the repository, so the share of all lines that these modules stand for is small
although the core is covered. What a backend draws is native and browser code. Schemas, configuration, command line,
offline replay, snapshots and exports convert data in one process, and are covered better by
the repository's own tests.

What is left to prove: what the sanitizer leaves of echoes with controls of at most the length
that a held tail has room for.
