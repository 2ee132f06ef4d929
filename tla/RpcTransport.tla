---------------------------- MODULE RpcTransport ----------------------------
(***************************************************************************)
(* One request per connection between commands and the host of a session   *)
(* (host/rpcClient.ts, host/rpcServer.ts), at a socket in a folder that    *)
(* the hosts of a home share (host/socketRoot.ts, host/lifecycle.ts), or   *)
(* at the path of an older version.                                        *)
(*                                                                         *)
(* Bytes come in chunks: a response is a row of units of which at most Cap *)
(* make an answer, a keep-alive is one unit before it. Time passes in      *)
(* ticks, and only when no chunk that was sent is unread: a socket between *)
(* two processes of one machine is quick, a handler may not be.            *)
(***************************************************************************)
EXTENDS Naturals, FiniteSets, Sequences, SequencesExt

CONSTANTS
  Clients,         \* calls of sendRpc
  Timeout,         \* timeoutMs of a call, in ticks
  Cap,             \* MAX_RPC_RESPONSE_CHARS, in units
  MaxBeats,        \* bound on the keep-alives of a handler
  MaxSweeps,       \* bound on removals of the empty folder
  ListenAttempts   \* SOCKET_LISTEN_ATTEMPTS

ASSUME TransportAssumption ==
  /\ Timeout \in Nat \ {0} /\ Cap \in Nat \ {0} /\ MaxBeats \in Nat
  /\ MaxSweeps \in Nat /\ ListenAttempts \in Nat \ {0}

Paths == {"new", "old"}

VARIABLES
  root,      \* the folder for sockets of this user: usable, missing, or unsafe (of another user)
  folder,    \* the home's folder in it exists
  file,      \* the socket at each path: absent, stale (nobody listens), live
  sweeps,    \* removals of the folder so far
  hostPath,  \* where this version of the host listens
  hostPc,    \* the host: mkdir, chmod, probe, unlink, listen, up, closing, closed, ...
  attempt,   \* of listenInSocketDirectory
  client,    \* a call: where it is, its path, inactivity timer, buffer and outcome, and, to
             \* observe, how long its handler had been silent at the last tick
  conn,      \* its connection: state, chunks under way each way, what the server did
  quiet      \* observes: the ticks in which its handler gave no sign, since the last one

hostState == <<folder, file, sweeps, hostPath, hostPc, attempt>>
transportVars == <<root, hostState, client, conn, quiet>>

NoConn == [state |-> "none", up |-> <<>>, down |-> <<>>, handled |-> FALSE,
           handler |-> "none", aborted |-> FALSE, beats |-> 0]

TransportInit ==
  /\ root \in {"usable", "missing", "unsafe"}
  /\ folder \in IF root = "usable" THEN BOOLEAN ELSE {FALSE}
  /\ \/ /\ hostPath = "new" /\ hostPc = "mkdir"
        /\ file \in [new : IF folder THEN {"absent", "stale"} ELSE {"absent"}, old : {"absent", "stale"}]
     \/ hostPath = "old" /\ hostPc = "up" /\ file = [new |-> "absent", old |-> "live"]
  /\ attempt = 1 /\ sweeps = 0
  /\ client = [c \in Clients |-> [pc |-> "idle", path |-> "new", timer |-> 0, buffer |-> 0,
                                  outcome |-> "none", silence |-> 0]]
  /\ conn = [c \in Clients |-> NoConn]
  /\ quiet = [c \in Clients |-> 0]

Waiting(c) == client[c].pc = "waiting"
Open(c) == conn[c].state \in {"backlog", "open"}
-----------------------------------------------------------------------------
(* The host listens and closes *)

\* ensureSocketRoot, then the home's folder.
MakeFolder ==
  /\ hostPc = "mkdir"
  /\ IF root = "unsafe" THEN hostPc' = "failed" /\ UNCHANGED <<root, folder>>
     ELSE root' = "usable" /\ folder' = TRUE /\ hostPc' = "chmod"
  /\ UNCHANGED <<file, sweeps, hostPath, attempt, client, conn, quiet>>

\* Mutant: a folder that vanishes before its chmod ends the host.
RetryNever == hostPc' = "failed" /\ UNCHANGED attempt

\* A folder that vanished between the steps is made again, a few times.
Retry ==
  IF attempt = ListenAttempts THEN hostPc' = "failed" /\ UNCHANGED attempt
                              ELSE hostPc' = "mkdir" /\ attempt' = attempt + 1

ChmodFolder ==
  /\ hostPc = "chmod"
  /\ IF folder THEN hostPc' = "probe" /\ UNCHANGED attempt ELSE Retry
  /\ UNCHANGED <<root, folder, file, sweeps, hostPath, client, conn, quiet>>

\* removeStaleSocketIfNeeded: nobody listens on a socket of this session.
RemoveStale ==
  /\ \/ hostPc = "probe" /\ UNCHANGED file
        /\ hostPc' = (IF file["new"] = "stale" THEN "unlink" ELSE "listen")
     \/ hostPc = "unlink" /\ hostPc' = "listen" /\ file' = [file EXCEPT !["new"] = "absent"]
  /\ UNCHANGED <<root, folder, sweeps, hostPath, attempt, client, conn, quiet>>

Listen ==
  /\ hostPc = "listen"
  /\ IF folder THEN hostPc' = "up" /\ file' = [file EXCEPT !["new"] = "live"] /\ UNCHANGED attempt
               ELSE Retry /\ UNCHANGED file
  /\ UNCHANGED <<root, folder, sweeps, hostPath, client, conn, quiet>>

\* A command cleans up after a session of the home: after another one, whose
\* socket is gone, or after this one once its host is judged dead
\* (removeSocketDirectoryIfEmpty, removeDeadHostSocket).
Sweep ==
  /\ folder /\ sweeps < MaxSweeps
  /\ \/ file["new"] = "absent" /\ UNCHANGED file
     \/ hostPc = "dead" /\ file' = [p \in Paths |-> "absent"]
  /\ folder' = FALSE /\ sweeps' = sweeps + 1
  /\ UNCHANGED <<root, hostPath, hostPc, attempt, client, conn, quiet>>

\* The socket goes first, then whoever was not accepted yet is turned away.
BeginClose ==
  /\ hostPc = "up"
  /\ hostPc' = "closing"
  /\ file' = [file EXCEPT ![hostPath] = "absent"]
  /\ conn' = [c \in Clients |-> IF conn[c].state = "backlog"
                                THEN [conn[c] EXCEPT !.state = "reset"] ELSE conn[c]]
  /\ UNCHANGED <<root, folder, sweeps, hostPath, attempt, client, quiet>>

\* server.close() calls back once no connection is left.
EndClose ==
  /\ hostPc = "closing" /\ \A c \in Clients : ~Open(c) /\ conn[c].state # "left"
  /\ hostPc' = "closed"
  /\ UNCHANGED <<root, folder, file, sweeps, hostPath, attempt, client, conn, quiet>>

HostDies ==
  /\ hostPc \in {"up", "closing"}
  /\ hostPc' = "dead"
  /\ file' = [file EXCEPT ![hostPath] = IF @ = "live" THEN "stale" ELSE @]
  /\ conn' = [c \in Clients |-> [conn[c] EXCEPT
       !.state = IF Open(c) THEN "reset" ELSE IF @ = "left" THEN "closed" ELSE @,
       !.handler = IF @ = "running" THEN "killed" ELSE @]]
  /\ UNCHANGED <<root, folder, sweeps, hostPath, attempt, client, quiet>>
-----------------------------------------------------------------------------
(* A call *)

\* The promise settles once, and its scope destroys the socket.
Settles(c, outcome) ==
  /\ client' = [client EXCEPT ![c] = [@ EXCEPT !.pc = "settled", !.outcome = outcome, !.timer = 0,
                                               !.buffer = 0]]
  /\ conn' = [conn EXCEPT ![c] = IF Open(c) THEN [@ EXCEPT !.state = "left", !.down = <<>>]
                                            ELSE [@ EXCEPT !.down = <<>>]]

\* isMissingSocket
MissingSocket(errno) == errno = "ENOENT"

\* What makes of an error of the connection: the new path had no socket, so no
\* handler has begun, and a host of an older version may listen at the old one
\* (isOwnLegacySocket); or the host is unreachable.
Unreachable(c, errno) ==
  IF client[c].path = "new" /\ MissingSocket(errno) /\ file["old"] # "absent"
  THEN /\ client' = [client EXCEPT ![c].pc = "connect", ![c].path = "old"]
       /\ conn' = [conn EXCEPT ![c] = NoConn]
  ELSE Settles(c, "unreachable")

\* sendRpc: no socket of ours is in a root that is missing or not ours.
Call(c) ==
  /\ client[c].pc = "idle"
  /\ IF root = "usable"
     THEN client' = [client EXCEPT ![c].pc = "connect"] /\ UNCHANGED conn
     ELSE Unreachable(c, "ENOENT")
  /\ UNCHANGED <<root, hostState, quiet>>

\* sendRpcAt: the request goes out in one write, which may arrive in parts.
Connect(c) ==
  LET path == client[c].path IN
  /\ client[c].pc = "connect"
  /\ \/ file[path] = "absent" /\ Unreachable(c, "ENOENT")
     \/ file[path] = "stale" /\ Unreachable(c, "ECONNREFUSED")
     \/ /\ file[path] = "live"
        /\ client' = [client EXCEPT ![c].pc = "waiting"]
        /\ \E up \in {<<"line">>, <<"part", "line">>} :
             conn' = [conn EXCEPT ![c].state = "backlog", ![c].up = up]
  /\ UNCHANGED <<root, hostState, quiet>>

\* Only units of the answer count, the spaces ahead of it do not.
Answer == {"unit", "ok", "error"}

\* What a chunk makes of the buffer: spaces ahead of the answer, then the
\* answer up to its end of line, or the end of the stream.
Received(buffer, chunk) ==
  LET size == buffer + Cardinality({k \in DOMAIN chunk : chunk[k] \in Answer})
      ends == ToSet(chunk) \intersect {"ok", "error", "end"}
  IN [buffer |-> size,
      outcome |-> IF size > Cap THEN "oversized"
                  ELSE IF "ok" \in ends THEN "ok"
                  ELSE IF "error" \in ends THEN "error"
                  ELSE IF ends = {} THEN "none" ELSE "cut off"]

\* Mutant: a chunk of spaces is dropped before the timer hears of it.
RestartOnData(timer, chunk) == IF ToSet(chunk) = {"space"} THEN timer ELSE 0

\* Any byte that comes restarts the inactivity timer.
Restart(timer, chunk) == 0

\* The socket hands over what has come, in one chunk or in several.
Receive(c) ==
  /\ Waiting(c)
  /\ \E k \in 1..Len(conn[c].down) :
       LET chunk == SubSeq(conn[c].down, 1, k)
           got == Received(client[c].buffer, chunk) IN
       IF got.outcome # "none"
       THEN Settles(c, got.outcome)
       ELSE /\ client' = [client EXCEPT ![c].buffer = got.buffer, ![c].timer = Restart(@, chunk)]
            /\ conn' = [conn EXCEPT ![c].down = SubSeq(@, k + 1, Len(@))]
  /\ UNCHANGED <<root, hostState, quiet>>

\* ECONNRESET, after what had come before it.
Reset(c) ==
  /\ Waiting(c) /\ conn[c].state = "reset" /\ conn[c].down = <<>>
  /\ Unreachable(c, "ECONNRESET")
  /\ UNCHANGED <<root, hostState, quiet>>

TimesOut(c) ==
  /\ Waiting(c) /\ client[c].timer = Timeout
  /\ Settles(c, "timeout")
  /\ UNCHANGED <<root, hostState, quiet>>

\* The caller's signal: the user interrupts, or a batch ends.
Abort(c) ==
  /\ client[c].pc \in {"connect", "waiting"}
  /\ Settles(c, "aborted")
  /\ UNCHANGED <<root, hostState, quiet>>
-----------------------------------------------------------------------------
(* A connection at the server *)

Accept(c) ==
  /\ conn[c].state = "backlog" /\ hostPc = "up"
  /\ conn' = [conn EXCEPT ![c].state = "open"]
  /\ UNCHANGED <<root, hostState, client, quiet>>

\* What the server writes is lost if the client has left.
Write(c, units) == IF conn[c].state = "open" THEN conn[c].down \o units ELSE conn[c].down

\* An answer is the last that is written, and the stream ends behind it. It is
\* `Cap` units long at most: sendResponse refuses a longer one.
Answers(outcome) == {[i \in 1..(n - 1) |-> "unit"] \o <<outcome, "end">> : n \in {1, Cap}}

\* The rest of the request line: an answer to a request that does not hold, or
\* the handler begins (processRequestLine).
ReadRequest(c) ==
  /\ conn[c].state \in {"open", "left"} /\ conn[c].up # <<>> /\ ~conn[c].handled
  /\ hostPc \in {"up", "closing"}
  /\ IF Head(conn[c].up) = "part"
     THEN conn' = [conn EXCEPT ![c].up = Tail(@)] /\ UNCHANGED quiet
     ELSE \/ /\ conn' = [conn EXCEPT ![c] = [@ EXCEPT !.up = <<>>, !.handled = TRUE,
                                                      !.handler = "running"]]
             /\ quiet' = [quiet EXCEPT ![c] = 0]
          \/ /\ \E answer \in Answers("error") :
                  conn' = [conn EXCEPT ![c] = [@ EXCEPT !.up = <<>>, !.handled = TRUE,
                                                        !.down = Write(c, answer)]]
             /\ UNCHANGED quiet
  /\ UNCHANGED <<root, hostState, client>>

Running(c) == conn[c].handler = "running" /\ hostPc \in {"up", "closing"}

\* context.keepAlive, at every step forward of the handler's work.
KeepAlive(c) ==
  /\ Running(c) /\ conn[c].beats < MaxBeats
  /\ conn' = [conn EXCEPT ![c] = [@ EXCEPT !.beats = conn[c].beats + 1, !.down = Write(c, <<"space">>)]]
  /\ quiet' = [quiet EXCEPT ![c] = 0]
  /\ UNCHANGED <<root, hostState, client>>

\* A result, or an error: also for a result over the limit or one that fails
\* its schema.
Results == Answers("ok") \union Answers("error")

HandlerEnds(c) ==
  /\ Running(c)
  /\ \E result \in Results :
       conn' = [conn EXCEPT ![c] = [@ EXCEPT
         !.handler = "done",
         !.down = IF conn[c].aborted THEN conn[c].down ELSE Write(c, result)]]
  /\ UNCHANGED <<root, hostState, client, quiet>>

\* Mutant: a socket whose client has left is kept for its answer.
ServerClosesLate(c) ==
  /\ \/ conn[c].state = "open" /\ conn[c].down # <<>> /\ Last(conn[c].down) = "end"
     \/ conn[c].state = "left" /\ conn[c].handler # "running"
  /\ conn[c].up = <<>> \/ conn[c].handled
  /\ conn' = [conn EXCEPT ![c].state = "closed"]
  /\ UNCHANGED <<root, hostState, client, quiet>>

\* The server's socket closes: behind its answer, or when it finds that the
\* client has left. That aborts the request's signal.
ServerCloses(c) ==
  /\ \/ conn[c].state = "open" /\ conn[c].down # <<>> /\ Last(conn[c].down) = "end"
     \/ conn[c].state = "left"
  /\ conn[c].up = <<>> \/ conn[c].handled
  /\ conn' = [conn EXCEPT ![c] = [@ EXCEPT !.state = "closed", !.aborted = conn[c].handler = "running"]]
  /\ UNCHANGED <<root, hostState, client, quiet>>
-----------------------------------------------------------------------------
(* Time *)

InFlight(c) == \/ Waiting(c) /\ (conn[c].down # <<>> \/ conn[c].state = "reset")
               \/ conn[c].state = "open" /\ conn[c].up # <<>>
               \/ conn[c].state = "backlog" /\ hostPc = "up"

Least(a, b) == IF a < b THEN a ELSE b

Tick ==
  /\ \A c \in Clients : ~InFlight(c) /\ client[c].timer < Timeout
  /\ \E c \in Clients : Waiting(c)
  /\ quiet' = [c \in Clients |-> IF Running(c) THEN Least(quiet[c] + 1, Timeout) ELSE quiet[c]]
  /\ client' = [c \in Clients |-> IF Waiting(c) THEN [client[c] EXCEPT !.timer = @ + 1, !.silence = quiet'[c]]
                                                ELSE client[c]]
  /\ UNCHANGED <<root, hostState, conn>>

HostSteps == MakeFolder \/ ChmodFolder \/ RemoveStale \/ Listen \/ EndClose
ClientSteps(c) == Call(c) \/ Connect(c) \/ Receive(c) \/ Reset(c) \/ TimesOut(c)
ServerSteps(c) == Accept(c) \/ ReadRequest(c) \/ ServerCloses(c)

TransportNext ==
  \/ HostSteps \/ Sweep \/ BeginClose \/ HostDies \/ Tick
  \/ \E c \in Clients : \/ ClientSteps(c) \/ Abort(c)
                        \/ ServerSteps(c) \/ KeepAlive(c) \/ HandlerEnds(c)

\* The event loops of the host and of a call go on, and time passes. No handler
\* has to end.
TransportFairness ==
  /\ WF_transportVars(HostSteps) /\ WF_transportVars(Tick)
  /\ \A c \in Clients : /\ WF_transportVars(ClientSteps(c))
                        /\ WF_transportVars(ServerSteps(c))

TransportSpec == TransportInit /\ [][TransportNext]_transportVars /\ TransportFairness
-----------------------------------------------------------------------------
(* Properties *)

\* A call is answered by what happened: a result is that of a handler that
\* ended; an answer that the server lets through is never refused for its
\* size, whatever keep-alives came before it; and a call times out only when
\* its handler gave no sign for the whole timeout, however long it works.
CallsAreTrue ==
  \A c \in Clients :
    /\ client[c].outcome = "ok" => conn[c].handler = "done"
    /\ client[c].outcome # "oversized"
    /\ client[c].outcome = "timeout" => client[c].silence = Timeout

\* A host gives up listening only over a root of another user, or when its
\* folder was taken away as often as it was made.
ListenSurvivesCleanups ==
  hostPc = "failed" => root = "unsafe" \/ sweeps >= ListenAttempts

\* A call ends although its handler hangs, and then the close of the server
\* ends too, which waits for the connections of all calls. Neither begins again.
CallsAndCloseEnd ==
  <>[](/\ \A c \in Clients : client[c].pc \in {"idle", "settled"}
       /\ hostPc # "closing")
=============================================================================
