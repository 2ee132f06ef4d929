-------------------------- MODULE ProcessesProofs --------------------------
(***************************************************************************)
(* Proofs about the components in which a process waits for another one:   *)
(* the handshake of create and its host, on both platforms and for any     *)
(* number of retries, and the calls between commands and a host, for any   *)
(* number of calls, any timeout, cap, keep-alives and cleanups.            *)
(***************************************************************************)
EXTENDS CreateHandshake, RpcTransport, FiniteSetTheorems, SequenceTheorems, TLAPS

(* The handshake of create and its host *)

\* The first manifest is written once, by a creator that launches, and is
\* never taken away.
FirstManifestIsForGood ==
  /\ manifest = "none" <=> ~everWritten
  /\ creator = "launching" => ~everWritten

\* What a host that is about to give up knows of its creator is still true.
OrphansAreOrphans ==
  /\ host = "look-manifest" /\ ~creatorSeen => ~CreatorRuns
  /\ host = "orphaned" => ~CreatorRuns /\ ~everWritten

\* A host goes on to its program once it has a manifest, and names it there
\* before it looks for the marker again.
HostNamesItsProgram ==
  /\ manifest = "none" => host \notin {"prepare", "name"}
  /\ manifest \in {"none", "first"} =>
       host \notin {"look-marker", "serving", "watching", "stopping"}

\* The marker was there before the read that did not find the program, so the
\* host that goes on finds it.
MarkerComesFirst ==
  /\ marked => marker
  /\ creator \in {"stopping", "failed"} /\ marked /\ seen = "first" =>
       host \notin {"serving", "watching"}

Inv ==
  /\ TypeOK /\ FirstManifestIsForGood /\ OrphansAreOrphans
  /\ HostNamesItsProgram /\ MarkerComesFirst

\* Nothing is wrong before the launch.
LEMMA InitInv == Init => Inv
<1> SUFFICES ASSUME Init PROVE Inv
  OBVIOUS
<1>1. TypeOK
  <2>1. retries \in 0 .. MaxRetries
    BY MaxRetriesAssumption DEF Init
  <2> QED BY <2>1, Zenon DEF Init, TypeOK, HostEnds
<1>2. /\ FirstManifestIsForGood /\ OrphansAreOrphans /\ HostNamesItsProgram
      /\ MarkerComesFirst
  BY DEF Init, FirstManifestIsForGood, OrphansAreOrphans, HostNamesItsProgram,
         MarkerComesFirst
<1> QED BY <1>1, <1>2 DEF Inv

\* The steps of create keep the types.
LEMMA CreatorTypes ==
  ASSUME TypeOK, CreateStep \/ GiveUp \/ CreatorKilled
  PROVE  TypeOK'
<1>1. CASE Launch
  BY <1>1 DEF Launch, TypeOK, createVars, CreatorEnds, HostEnds
<1>2. CASE WriteFirstManifest
  <2>1. /\ manifest' \in {manifest, "first"} /\ everWritten' \in BOOLEAN
        /\ creator' \in {"waiting", "no-session"}
    BY <1>2, Zenon DEF WriteFirstManifest, TypeOK
  <2> QED BY <1>2, <2>1 DEF WriteFirstManifest, TypeOK, hostVars, CreatorEnds, HostEnds
<1>3. CASE Ready \/ GiveUp \/ CreatorKilled
  BY <1>3 DEF Ready, GiveUp, CreatorKilled, TypeOK, hostVars, CreatorEnds, HostEnds
<1>4. CASE WriteMarker
  <2>1. marker' \in BOOLEAN /\ marked' \in BOOLEAN
    BY <1>4, Zenon DEF WriteMarker, TypeOK
  <2> QED BY <1>4, <2>1 DEF WriteMarker, TypeOK, hostVars, CreatorEnds, HostEnds
<1>5. CASE ReadManifest
  <2>1. seen' \in {manifest, "unread"} /\ creator' \in {"marking", "stopping"}
    BY <1>5 DEF ReadManifest
  <2>2. retries' \in 0 .. MaxRetries
    BY <1>5, MaxRetriesAssumption DEF ReadManifest, TypeOK
  <2> QED BY <1>5, <2>1, <2>2 DEF ReadManifest, TypeOK, hostVars, CreatorEnds, HostEnds
<1>6. CASE StopHost
  <2>1. host' \in {host, "killed"} /\ sigterm' \in {sigterm, "sent"}
    BY <1>6 DEF StopHost
  <2> QED BY <1>6, <2>1 DEF StopHost, TypeOK, CreatorEnds, HostEnds
<1> QED BY <1>1, <1>2, <1>3, <1>4, <1>5, <1>6 DEF CreateStep

\* The steps of the host, the signal and the program keep them too.
LEMMA HostTypes ==
  ASSUME TypeOK, HostStep \/ HandleSigterm \/ ProgramExits
  PROVE  TypeOK'
<1> CreatorRuns \in BOOLEAN
  BY Zenon DEF CreatorRuns
<1>1. CASE StartHost \/ LookAtCreator \/ LookForManifest
  <2>1. creatorSeen' \in BOOLEAN
    BY <1>1, Zenon DEF StartHost, LookAtCreator, LookForManifest, TypeOK
  <2>2. host' \in {"look-creator", "look-manifest", "prepare", "orphaned"}
    BY <1>1 DEF StartHost, LookAtCreator, LookForManifest, HostGoes
  <2> QED BY <1>1, <2>1, <2>2 DEF StartHost, LookAtCreator, LookForManifest, HostGoes,
                                  TypeOK, createVars, HostEnds
<1>2. CASE LookBeforeSpawn
  BY <1>2 DEF LookBeforeSpawn, HostGoes, TypeOK, createVars, HostEnds
<1>3. CASE NameProgram \/ LookForMarker
  BY <1>3, ZenonT(60) DEF NameProgram, LookForMarker, HostGoes, TypeOK, createVars, HostEnds
<1>4. CASE WatchCreator \/ WatchMarker
  <2>1. creatorSeen' \in BOOLEAN
    BY <1>4, Zenon DEF WatchCreator, WatchMarker, TypeOK
  <2> QED BY <1>4, <2>1 DEF WatchCreator, WatchMarker, HostGoes, TypeOK, createVars, HostEnds
<1>5. CASE StopProgram \/ RecordExit \/ ProgramExits
  BY <1>5 DEF StopProgram, RecordExit, ProgramExits, HostGoes, TypeOK, createVars, HostEnds
<1>6. CASE HandleSigterm
  <2>1. host' \in {"killed", "stopping", host}
    BY <1>6 DEF HandleSigterm, HostGoes
  <2> QED BY <1>6, <2>1 DEF HandleSigterm, HostGoes, TypeOK, createVars, HostEnds
<1> QED BY <1>1, <1>2, <1>3, <1>4, <1>5, <1>6 DEF HostStep

\* No step of create breaks what the two have agreed on.
LEMMA CreatorKeeps ==
  ASSUME Inv, CreateStep \/ GiveUp \/ CreatorKilled
  PROVE  Inv'
<1> USE DEF Inv, FirstManifestIsForGood, OrphansAreOrphans, HostNamesItsProgram,
            MarkerComesFirst, CreatorRuns, CreatorEnds
<1>1. TypeOK'
  BY CreatorTypes
<1>2. CASE Launch
  BY <1>1, <1>2 DEF Launch, createVars
<1>3. CASE WriteFirstManifest
  BY <1>1, <1>3 DEF WriteFirstManifest, hostVars
<1>4. CASE Ready \/ GiveUp \/ CreatorKilled
  BY <1>1, <1>4 DEF Ready, GiveUp, CreatorKilled, hostVars
<1>5. CASE WriteMarker
  BY <1>1, <1>5 DEF WriteMarker, hostVars, TypeOK
<1>6. CASE ReadManifest
  BY <1>1, <1>6 DEF ReadManifest, hostVars
<1>7. CASE StopHost
  <2>1. host' \in {host, "killed"} /\ creator = "stopping" /\ creator' = "failed"
    BY <1>7 DEF StopHost
  <2> QED BY <1>1, <1>7, <2>1 DEF StopHost
<1> QED BY <1>2, <1>3, <1>4, <1>5, <1>6, <1>7 DEF CreateStep

\* No step of the host does either.
LEMMA HostKeeps ==
  ASSUME Inv, HostStep \/ HandleSigterm \/ ProgramExits
  PROVE  Inv'
<1> USE DEF Inv, FirstManifestIsForGood, OrphansAreOrphans, HostNamesItsProgram,
            MarkerComesFirst, CreatorRuns
<1>1. TypeOK'
  BY HostTypes
<1>2. CASE StartHost
  BY <1>1, <1>2 DEF StartHost, HostGoes, createVars
<1>3. CASE LookAtCreator
  BY <1>1, <1>3 DEF LookAtCreator, HostGoes, createVars
<1>4. CASE LookForManifest
  BY <1>1, <1>4 DEF LookForManifest, HostGoes, createVars
<1>5. CASE LookBeforeSpawn
  BY <1>1, <1>5 DEF LookBeforeSpawn, HostGoes, createVars
<1>6. CASE NameProgram
  <2>1. /\ host = "name" /\ host' = "look-marker" /\ manifest # "none"
        /\ manifest' \in {"named", "exited"}
    BY <1>6 DEF NameProgram, HostGoes
  <2> QED BY <1>1, <1>6, <2>1 DEF NameProgram, HostGoes, createVars
<1>7. CASE LookForMarker
  BY <1>1, <1>7 DEF LookForMarker, HostGoes, createVars
<1>8. CASE WatchCreator \/ WatchMarker
  BY <1>1, <1>8 DEF WatchCreator, WatchMarker, HostGoes, createVars
<1>9. CASE StopProgram \/ RecordExit \/ ProgramExits
  BY <1>1, <1>9 DEF StopProgram, RecordExit, ProgramExits, HostGoes, createVars
<1>10. CASE HandleSigterm
  <2>1. /\ host' \in {"killed", "stopping", host}
        /\ host' = "stopping" => host \in {"serving", "watching", "stopping"}
    BY <1>10 DEF HandleSigterm, HostGoes
  <2> QED BY <1>1, <1>10, <2>1 DEF HandleSigterm, HostGoes, createVars
<1> QED BY <1>2, <1>3, <1>4, <1>5, <1>6, <1>7, <1>8, <1>9, <1>10 DEF HostStep

\* The invariant of the handshake holds for ever.
THEOREM HandshakeInvariant == SafeSpec => []Inv
<1>1. Inv /\ [Next]_vars => Inv'
  <2> SUFFICES ASSUME Inv, [Next]_vars PROVE Inv'
    OBVIOUS
  <2>1. CASE CreateStep \/ GiveUp \/ CreatorKilled
    BY <2>1, CreatorKeeps
  <2>2. CASE HostStep \/ HandleSigterm \/ ProgramExits
    BY <2>2, HostKeeps
  <2>3. CASE UNCHANGED vars
    BY <2>3 DEF vars, createVars, hostVars, Inv, TypeOK, FirstManifestIsForGood,
                OrphansAreOrphans, HostNamesItsProgram, MarkerComesFirst, CreatorRuns
  <2> QED BY <2>1, <2>2, <2>3 DEF Next
<1> QED BY <1>1, InitInv, PTL DEF SafeSpec

\* Every variable keeps its type.
THEOREM HandshakeTypes == SafeSpec => []TypeOK
BY HandshakeInvariant, PTL DEF Inv

\* A host that gives up has not missed the manifest of its creator, however
\* late it looks.
THEOREM NoHostGivesUpEarly == SafeSpec => []NoManifestIsMissed
<1>1. Inv => NoManifestIsMissed
  BY DEF Inv, OrphansAreOrphans, NoManifestIsMissed
<1> QED BY <1>1, HandshakeInvariant, PTL

\* A create that marked the session and read no program meets no host that
\* serves it.
THEOREM TheTwoMeet == SafeSpec => []HandshakeMeets
<1>1. Inv => HandshakeMeets
  BY DEF Inv, MarkerComesFirst, HandshakeMeets
<1> QED BY <1>1, HandshakeInvariant, PTL
-----------------------------------------------------------------------------
(* The host of the transport listens. The invariant counts the removals of   *)
(* its folder against its attempts.                                          *)

HostPcs == {"mkdir", "chmod", "probe", "unlink", "listen", "up", "closing", "closed", "dead", "failed"}

ListenTypes ==
  /\ root \in {"usable", "missing", "unsafe"} /\ folder \in BOOLEAN
  /\ DOMAIN file = Paths /\ hostPath \in Paths /\ hostPc \in HostPcs
  /\ sweeps \in Nat /\ attempt \in Nat

\* Every attempt after the first answers for a removal of the folder, and a
\* folder that is missing on the way to `listen` answers for one more.
AttemptsAreSweeps ==
  /\ hostPc # "failed" => attempt <= sweeps + 1
  /\ hostPc \in {"chmod", "probe", "unlink", "listen"} /\ ~folder => attempt <= sweeps

\* Only a host that is up listens, and only at its own path, the new one unless
\* it is of an older version, which is up from the start.
LiveIsUp ==
  /\ \A p \in Paths : file[p] = "live" => p = hostPath /\ hostPc = "up"
  /\ hostPc \in {"mkdir", "chmod", "probe", "unlink", "listen"} => hostPath = "new"

HostInv == ListenTypes /\ AttemptsAreSweeps /\ LiveIsUp /\ ListenSurvivesCleanups

\* The host that starts has made no attempt yet that a removal accounts for.
LEMMA InitHost == TransportInit => HostInv
<1> SUFFICES ASSUME TransportInit PROVE HostInv
  OBVIOUS
<1>1. CASE hostPath = "new" /\ hostPc = "mkdir"
  <2>1. PICK kinds \in SUBSET {"absent", "stale"} :
          file \in [new : kinds, old : {"absent", "stale"}]
    BY <1>1, Zenon DEF TransportInit
  <2>2. DOMAIN file = Paths /\ \A p \in Paths : file[p] # "live"
    BY <2>1 DEF Paths
  <2>3. folder \in BOOLEAN
    BY DEF TransportInit
  <2> QED BY <1>1, <2>2, <2>3
         DEF TransportInit, HostInv, ListenTypes, HostPcs, Paths, AttemptsAreSweeps, LiveIsUp,
             ListenSurvivesCleanups
<1>2. CASE hostPath = "old" /\ hostPc = "up" /\ file = [new |-> "absent", old |-> "live"]
  <2>1. folder \in BOOLEAN
    BY DEF TransportInit
  <2>2. DOMAIN file = Paths /\ \A p \in Paths : file[p] = "live" => p = "old"
    BY <1>2 DEF Paths
  <2> QED BY <1>2, <2>1, <2>2
         DEF TransportInit, HostInv, ListenTypes, HostPcs, Paths, AttemptsAreSweeps, LiveIsUp,
             ListenSurvivesCleanups
<1> QED BY <1>1, <1>2 DEF TransportInit

\* A step that leaves the host and its socket alone.
LEMMA HostStays ==
  ASSUME HostInv, UNCHANGED <<root, hostState>>
  PROVE  HostInv'
BY DEF HostInv, ListenTypes, AttemptsAreSweeps, LiveIsUp, ListenSurvivesCleanups, hostState

\* The attempts to listen. A missing folder pays for the next one.
LEMMA ListeningHost ==
  ASSUME HostInv, HostSteps \/ Sweep
  PROVE  HostInv'
<1> USE TransportAssumption DEF HostInv, ListenTypes, HostPcs
<1>1. ASSUME hostPc \in {"chmod", "listen"}, ~folder, Retry, UNCHANGED <<root, folder, file, sweeps, hostPath>>
      PROVE  HostInv'
  BY <1>1 DEF Retry, AttemptsAreSweeps, LiveIsUp, ListenSurvivesCleanups
<1>2. CASE MakeFolder
  BY <1>2 DEF MakeFolder, AttemptsAreSweeps, LiveIsUp, ListenSurvivesCleanups
<1>3. CASE ChmodFolder
  <2>1. CASE folder
    BY <1>3, <2>1 DEF ChmodFolder, AttemptsAreSweeps, LiveIsUp, ListenSurvivesCleanups
  <2>2. CASE ~folder
    BY <1>1, <1>3, <2>2 DEF ChmodFolder
  <2> QED BY <2>1, <2>2
<1>4. CASE RemoveStale
  <2>1. \/ file' = file
        \/ file' = [file EXCEPT !["new"] = "absent"]
    BY <1>4 DEF RemoveStale
  <2>2. DOMAIN file' = Paths /\ \A p \in Paths : file'[p] = "live" => file[p] = "live"
    BY <2>1 DEF Paths
  <2> QED BY <1>4, <2>2 DEF RemoveStale, AttemptsAreSweeps, LiveIsUp, ListenSurvivesCleanups
<1>5. CASE Listen
  <2>1. CASE folder
    <3>1. \A p \in Paths : file[p] # "live"
      BY <1>5 DEF Listen, LiveIsUp
    <3>2. file' = [file EXCEPT !["new"] = "live"]
      BY <1>5, <2>1 DEF Listen
    <3>3. DOMAIN file' = Paths /\ \A p \in Paths : file'[p] = "live" => p = "new"
      BY <3>1, <3>2 DEF Paths
    <3> QED BY <1>5, <2>1, <3>3 DEF Listen, AttemptsAreSweeps, LiveIsUp, ListenSurvivesCleanups
  <2>2. CASE ~folder
    BY <1>1, <1>5, <2>2 DEF Listen
  <2> QED BY <2>1, <2>2
<1>6. CASE EndClose
  BY <1>6 DEF EndClose, AttemptsAreSweeps, LiveIsUp, ListenSurvivesCleanups
<1>7. CASE Sweep
  <2>1. file' = file \/ file' = [p \in Paths |-> "absent"]
    BY <1>7 DEF Sweep
  <2>2. DOMAIN file' = Paths /\ \A p \in Paths : file'[p] = "live" => file[p] = "live"
    <3>1. CASE file' = file
      BY <3>1
    <3>2. CASE file' = [p \in Paths |-> "absent"]
      BY <3>2
    <3> QED BY <2>1, <3>1, <3>2
  <2>3. /\ sweeps' = sweeps + 1 /\ folder' = FALSE /\ UNCHANGED <<root, hostPath, hostPc, attempt>>
    BY <1>7 DEF Sweep
  <2>4. AttemptsAreSweeps'
    BY <2>3 DEF AttemptsAreSweeps
  <2>5. LiveIsUp'
    BY <2>2, <2>3 DEF LiveIsUp
  <2>6. ListenSurvivesCleanups'
    <3>1. ListenAttempts \in Nat /\ sweeps \in Nat /\ ListenSurvivesCleanups
      OBVIOUS
    <3> QED BY <2>3, <3>1 DEF ListenSurvivesCleanups
  <2>7. ListenTypes'
    <3>1. folder' \in BOOLEAN
      BY <2>3, Zenon
    <3>2. sweeps' \in Nat /\ attempt' \in Nat
      BY <2>3
    <3>3. DOMAIN file' = Paths
      BY <2>2
    <3>4. /\ root' \in {"usable", "missing", "unsafe"} /\ hostPath' \in Paths
          /\ hostPc' \in HostPcs
      BY <2>3
    <3> QED BY <3>1, <3>2, <3>3, <3>4, Zenon
  <2> QED BY <2>4, <2>5, <2>6, <2>7
<1> QED BY <1>2, <1>3, <1>4, <1>5, <1>6, <1>7 DEF HostSteps

\* A host that closes or dies takes its socket away or leaves it stale.
LEMMA ClosingHost ==
  ASSUME HostInv, BeginClose \/ HostDies
  PROVE  HostInv'
<1>1. /\ hostPc \in {"up", "closing"} /\ hostPc' \in {"closing", "dead"}
      /\ UNCHANGED <<root, folder, sweeps, hostPath, attempt>>
  BY DEF BeginClose, HostDies
<1>2. DOMAIN file' = Paths /\ \A p \in Paths : file'[p] # "live"
  <2>1. /\ DOMAIN file = Paths /\ hostPath \in Paths
        /\ \A p \in Paths : file[p] = "live" => p = hostPath
    BY DEF HostInv, ListenTypes, LiveIsUp
  <2>2. PICK kind : kind # "live" /\ file' = [file EXCEPT ![hostPath] = kind]
    <3>1. CASE BeginClose
      BY <3>1 DEF BeginClose
    <3>2. CASE HostDies
      BY <3>2 DEF HostDies
    <3> QED BY <3>1, <3>2
  <2> QED BY <2>1, <2>2
<1>3. ListenTypes'
  BY <1>1, <1>2 DEF HostInv, ListenTypes, HostPcs
<1>4. AttemptsAreSweeps' /\ LiveIsUp' /\ ListenSurvivesCleanups'
  BY <1>1, <1>2 DEF HostInv, ListenTypes, AttemptsAreSweeps, LiveIsUp, ListenSurvivesCleanups
<1> QED BY <1>3, <1>4 DEF HostInv
-----------------------------------------------------------------------------
(* One call and its connection. The invariant says what is under way on the  *)
(* connection of a call that waits, and what that leaves of its timer and of *)
(* its buffer.                                                               *)

CallRecords == [pc : {"idle", "connect", "waiting", "settled"}, path : Paths,
                timer : Nat, buffer : Nat, silence : Nat,
                outcome : {"none", "unreachable", "oversized", "ok", "error", "cut off",
                           "timeout", "aborted"}]

Requests == {<<>>, <<"line">>, <<"part", "line">>}
Unit == Answer \union {"space", "end"}

ConnRecords == [state : {"none", "backlog", "open", "left", "closed", "reset"},
                up : Requests, down : Seq(Unit), handled : BOOLEAN,
                handler : {"none", "running", "done", "killed"}, aborted : BOOLEAN, beats : Nat]

\* Keep-alives alone, as while a handler works.
Spaces(down) == \A j \in 1..Len(down) : down[j] = "space"

\* The rest of an answer is under way: keep-alives, then from `first` on the
\* units that count, the last of them the outcome, then the end of the stream.
\* It fits the cap with what the call has read of it before.
AnswerAhead(down, buffer) ==
  \E first \in 1..Len(down) - 1 :
    /\ \A j \in 1..Len(down) : down[j] \in Answer <=> first <= j /\ j < Len(down)
    /\ \A j \in 1..Len(down) : down[j] = "end" <=> j = Len(down)
    /\ \A j \in 1..Len(down) : down[j] \in {"ok", "error"} <=> j = Len(down) - 1
    /\ buffer + Len(down) - first <= Cap

\* A call that waits, as its connection stands: the request is not read yet,
\* the handler works, an answer is under way, or the host has died.
Unread(cl, cn) ==
  /\ ~cn.handled /\ cn.handler = "none" /\ cn.down = <<>> /\ cl.buffer = 0 /\ cl.timer = 0
  /\ cn.state \in {"backlog", "open", "reset"} /\ (cn.state # "reset" => cn.up # <<>>)

Worked(cl, cn, ticks) ==
  /\ cn.handled /\ cn.handler = "running" /\ cn.state = "open"
  /\ Spaces(cn.down) /\ cl.buffer = 0 /\ (cn.down = <<>> => cl.timer <= ticks)

Answered(cl, cn) ==
  /\ cn.handled /\ cn.handler \in {"none", "done"} /\ cn.state \in {"open", "closed", "reset"}
  /\ AnswerAhead(cn.down, cl.buffer)
  /\ (\E j \in 1..Len(cn.down) : cn.down[j] = "ok") => cn.handler = "done"

Lost(cl, cn) ==
  /\ cn.handled /\ cn.handler = "killed" /\ cn.state = "reset" /\ Spaces(cn.down) /\ cl.buffer = 0

WaitingIsSound(cl, cn, ticks) ==
  /\ cl.outcome = "none" /\ ~cn.aborted
  /\ cl.timer = Timeout => cl.silence = Timeout
  /\ Unread(cl, cn) \/ Worked(cl, cn, ticks) \/ Answered(cl, cn) \/ Lost(cl, cn)

SettledIsSound(cl, cn) ==
  /\ cn.state \notin {"backlog", "open"} /\ cn.down = <<>>
  /\ cn.handler # "none" => cn.handled
  /\ cl.outcome # "oversized"
  /\ cl.outcome = "ok" => cn.handler = "done"
  /\ cl.outcome = "timeout" => cl.silence = Timeout

Sound(cl, cn, ticks) ==
  /\ cl \in CallRecords /\ cn \in ConnRecords /\ ticks \in 0..Timeout
  /\ cl.pc \in {"idle", "connect"} =>
       cn = NoConn /\ cl.outcome = "none" /\ cl.timer = 0 /\ cl.buffer = 0
  /\ cl.pc = "waiting" => WaitingIsSound(cl, cn, ticks)
  /\ cl.pc = "settled" => SettledIsSound(cl, cn)

\* A connection that waits or is open has its host.
HasHost(cn) ==
  /\ cn.state = "backlog" => hostPc = "up"
  /\ cn.state = "open" => hostPc \in {"up", "closing"}

CallsInv ==
  /\ DOMAIN client = Clients /\ DOMAIN conn = Clients /\ DOMAIN quiet = Clients
  /\ \A c \in Clients : Sound(client[c], conn[c], quiet[c]) /\ HasHost(conn[c])
-----------------------------------------------------------------------------
\* An answer of the server behind the keep-alives that went out before it.
LEMMA AnswerComes ==
  ASSUME NEW down \in Seq(Unit), Spaces(down), NEW outcome \in {"ok", "error"},
         NEW answer \in Answers(outcome)
  PROVE  /\ down \o answer \in Seq(Unit) /\ AnswerAhead(down \o answer, 0)
         /\ (\E j \in 1..Len(down \o answer) : (down \o answer)[j] = "ok") => outcome = "ok"
<1>1. PICK n \in {1, Cap} : answer = [i \in 1..(n - 1) |-> "unit"] \o <<outcome, "end">>
  BY DEF Answers
<1>2. n \in Nat \ {0} /\ n <= Cap /\ Cap \in Nat
  BY TransportAssumption
<1>3. Len(down) \in Nat
  OBVIOUS
<1>4. /\ [i \in 1..(n - 1) |-> "unit"] \in Seq(Unit) /\ Len([i \in 1..(n - 1) |-> "unit"]) = n - 1
      /\ \A i \in 1..n - 1 : [i2 \in 1..(n - 1) |-> "unit"][i] = "unit"
  BY <1>2 DEF Unit, Answer
<1>5. <<outcome, "end">> \in Seq(Unit) /\ Len(<<outcome, "end">>) = 2
  BY DEF Unit, Answer
<1>6. /\ answer \in Seq(Unit) /\ Len(answer) = n + 1
      /\ \A i \in 1..n + 1 : answer[i] = IF i <= n - 1 THEN "unit" ELSE IF i = n THEN outcome ELSE "end"
  BY <1>1, <1>2, <1>4, <1>5, ConcatProperties
<1> DEFINE all == down \o answer
           L == Len(down) + n + 1
<1>7. /\ all \in Seq(Unit) /\ Len(all) = L
      /\ \A i \in 1..Len(down) : all[i] = "space"
      /\ \A i \in Len(down) + 1..L - 2 : all[i] = "unit"
      /\ all[L - 1] = outcome /\ all[L] = "end"
  <2>1. /\ all \in Seq(Unit) /\ Len(all) = L
        /\ \A i \in 1..L : all[i] = IF i <= Len(down) THEN down[i] ELSE answer[i - Len(down)]
    <3>1. /\ all \in Seq(Unit) /\ Len(all) = Len(down) + Len(answer)
          /\ \A i \in 1..Len(down) + Len(answer) :
               all[i] = IF i <= Len(down) THEN down[i] ELSE answer[i - Len(down)]
      BY <1>6, ConcatProperties
    <3>2. Len(down) + Len(answer) = L
      BY <1>2, <1>3, <1>6
    <3> QED BY <3>1, <3>2
  <2>2. \A i \in 1..Len(down) : all[i] = "space"
    <3>1. \A i \in 1..Len(down) : i \in 1..L /\ i <= Len(down)
      BY <1>2, <1>3
    <3>2. \A i \in 1..Len(down) : all[i] = down[i] /\ down[i] = "space"
      BY <2>1, <3>1 DEF Spaces
    <3> QED BY <3>2
  <2>3. \A i \in Len(down) + 1..L - 2 : all[i] = "unit"
    BY <1>2, <1>3, <1>6, <2>1
  <2>4. all[L - 1] = outcome /\ all[L] = "end"
    <3>1. /\ L - 1 \in 1..L /\ L \in 1..L /\ ~(L - 1 <= Len(down)) /\ ~(L <= Len(down))
          /\ L - 1 - Len(down) = n /\ L - Len(down) = n + 1
      BY <1>2, <1>3
    <3>2. all[L - 1] = answer[n] /\ all[L] = answer[n + 1]
      BY <2>1, <3>1
    <3>3. answer[n] = outcome /\ answer[n + 1] = "end"
      BY <1>2, <1>6
    <3> QED BY <3>2, <3>3
  <2> QED BY <2>1, <2>2, <2>3, <2>4
<1> HIDE DEF all
<1>8. \A i \in 1..L : i <= Len(down) \/ i \in Len(down) + 1..L - 2 \/ i = L - 1 \/ i = L
  BY <1>2, <1>3
<1>9. AnswerAhead(all, 0)
  <2>1. Len(down) + 1 \in 1..L - 1 /\ 0 + L - (Len(down) + 1) <= Cap
    BY <1>2, <1>3
  <2>2. \A i \in 1..L : all[i] \in Answer <=> Len(down) + 1 <= i /\ i < L
    BY <1>2, <1>3, <1>7, <1>8 DEF Answer
  <2>3. \A i \in 1..L : all[i] = "end" <=> i = L
    BY <1>2, <1>3, <1>7, <1>8
  <2>4. \A i \in 1..L : all[i] \in {"ok", "error"} <=> i = L - 1
    BY <1>2, <1>3, <1>7, <1>8
  <2> QED BY <1>7, <2>1, <2>2, <2>3, <2>4 DEF AnswerAhead
<1>10. ASSUME NEW j \in 1..Len(all), all[j] = "ok" PROVE outcome = "ok"
  BY <1>2, <1>3, <1>7, <1>8, <1>10
<1> QED BY <1>7, <1>9, <1>10 DEF all

\* A chunk of keep-alives says nothing.
LEMMA SpacesSayNothing ==
  ASSUME NEW down \in Seq(Unit), Spaces(down), NEW buffer \in Nat, buffer <= Cap, NEW k \in 1..Len(down)
  PROVE  /\ Received(buffer, SubSeq(down, 1, k)) = [buffer |-> buffer, outcome |-> "none"]
         /\ SubSeq(down, k + 1, Len(down)) \in Seq(Unit) /\ Spaces(SubSeq(down, k + 1, Len(down)))
<1> DEFINE chunk == SubSeq(down, 1, k)
           rest == SubSeq(down, k + 1, Len(down))
<1>1. /\ Len(down) \in Nat /\ \A j \in 1..Len(down) : down[j] \in Unit
  OBVIOUS
<1>2. chunk \in Seq(Unit) /\ Len(chunk) = k /\ \A j \in 1..k : chunk[j] = down[j]
  BY <1>1, SubSeqProperties
<1>3. /\ rest \in Seq(Unit) /\ Len(rest) = Len(down) - k
      /\ \A j \in 1..Len(down) - k : rest[j] = down[k + j]
  BY <1>1, SubSeqProperties
<1>4. DOMAIN chunk = 1..k /\ \A j \in 1..k : chunk[j] = "space"
  BY <1>1, <1>2, LenProperties DEF Spaces
<1>5. Spaces(rest)
  BY <1>1, <1>3 DEF Spaces
<1> HIDE DEF chunk, rest
<1>6. {j \in DOMAIN chunk : chunk[j] \in Answer} = {}
  BY <1>4 DEF Answer
<1>7. ToSet(chunk) \intersect {"ok", "error", "end"} = {}
  BY <1>4 DEF ToSet
<1>8. buffer + Cardinality({j \in DOMAIN chunk : chunk[j] \in Answer}) = buffer
  BY <1>6, FS_EmptySet
<1>9. Cap \in Nat
  BY TransportAssumption
<1>10. Received(buffer, chunk) = [buffer |-> buffer, outcome |-> "none"]
  BY <1>7, <1>8, <1>9 DEF Received
<1> QED BY <1>3, <1>5, <1>10 DEF chunk, rest

\* A chunk of an answer that is under way fits, and either settles the call or
\* leaves the rest of the same answer under way.
LEMMA AnswerArrives ==
  ASSUME NEW down \in Seq(Unit), NEW buffer \in Nat, AnswerAhead(down, buffer), NEW k \in 1..Len(down)
  PROVE  LET got  == Received(buffer, SubSeq(down, 1, k))
             rest == SubSeq(down, k + 1, Len(down))
         IN  /\ got.outcome \in {"none", "ok", "error"} /\ got.buffer \in Nat
             /\ got.outcome = "ok" => \E j \in 1..Len(down) : down[j] = "ok"
             /\ got.outcome = "none" =>
                  /\ rest \in Seq(Unit) /\ AnswerAhead(rest, got.buffer)
                  /\ (\E j \in 1..Len(rest) : rest[j] = "ok") => \E j \in 1..Len(down) : down[j] = "ok"
<1> DEFINE chunk == SubSeq(down, 1, k)
           rest == SubSeq(down, k + 1, Len(down))
           L == Len(down)
           got == Received(buffer, chunk)
           size == buffer + Cardinality({j \in DOMAIN chunk : chunk[j] \in Answer})
           ends == ToSet(chunk) \intersect {"ok", "error", "end"}
<1>1. L \in Nat /\ (\A j \in 1..L : down[j] \in Unit) /\ Cap \in Nat /\ k \in Nat
  BY TransportAssumption
<1>2. PICK first \in 1..L - 1 :
        /\ \A j \in 1..L : down[j] \in Answer <=> first <= j /\ j < L
        /\ \A j \in 1..L : down[j] = "end" <=> j = L
        /\ \A j \in 1..L : down[j] \in {"ok", "error"} <=> j = L - 1
        /\ buffer + L - first <= Cap
  BY DEF AnswerAhead
<1>3. chunk \in Seq(Unit) /\ Len(chunk) = k /\ \A j \in 1..k : chunk[j] = down[j]
  BY <1>1, SubSeqProperties
<1>4. /\ rest \in Seq(Unit) /\ Len(rest) = L - k
      /\ \A j \in 1..L - k : rest[j] = down[k + j]
  BY <1>1, SubSeqProperties
<1>5. DOMAIN chunk = 1..k
  BY <1>1, <1>3, LenProperties
<1>6. got = [buffer |-> size,
             outcome |-> IF size > Cap THEN "oversized"
                         ELSE IF "ok" \in ends THEN "ok"
                         ELSE IF "error" \in ends THEN "error"
                         ELSE IF ends = {} THEN "none" ELSE "cut off"]
  BY DEF Received
<1> HIDE DEF chunk, rest, got
<1>7. ends = {down[j] : j \in 1..k} \intersect {"ok", "error", "end"}
  BY <1>3, <1>5 DEF ToSet
<1> DEFINE last == IF k < L THEN k ELSE L - 1
<1>8. {j \in DOMAIN chunk : chunk[j] \in Answer} = first..last
  <2>1. \A j \in 1..k : j \in 1..L /\ (chunk[j] \in Answer <=> first <= j /\ j < L)
    BY <1>1, <1>2, <1>3
  <2>2. \A j : j \in 1..k /\ first <= j /\ j < L <=> j \in first..last
    BY <1>1, <1>2
  <2> QED BY <1>5, <2>1, <2>2
<1>9. last \in Nat /\ first \in Nat /\ last <= L - 1
  BY <1>1, <1>2
<1> HIDE DEF last
<1>13. Cardinality(first..last) = IF first > last THEN 0 ELSE last - first + 1
  BY <1>9, FS_Interval
<1> HIDE DEF ends
<1>10. size \in Nat /\ size <= Cap /\ size = buffer + (IF first > last THEN 0 ELSE last - first + 1)
  <2>1. size = buffer + (IF first > last THEN 0 ELSE last - first + 1)
    BY <1>8, <1>13
  <2> QED BY <1>1, <1>2, <1>9, <2>1
<1> HIDE DEF size
<1>11. CASE k >= L - 1
  <2>1. down[L - 1] \in {"ok", "error"} /\ L - 1 \in 1..k
    BY <1>1, <1>2, <1>11
  <2>2. down[L - 1] \in ends
    BY <1>7, <2>1
  <2>3. got.outcome \in {"ok", "error"} /\ (got.outcome = "ok" => "ok" \in ends) /\ got.buffer = size
    <3>1. ~(size > Cap) /\ ends # {}
      BY <1>1, <1>10, <2>2
    <3>2. "ok" \in ends \/ "error" \in ends
      BY <2>1, <2>2
    <3> QED BY <1>6, <3>1, <3>2
  <2>4. "ok" \in ends => \E j \in 1..L : down[j] = "ok"
    BY <1>1, <1>7
  <2> QED BY <1>10, <2>3, <2>4 DEF got, chunk, rest
<1>12. CASE k < L - 1
  <2>1. \A j \in 1..k : down[j] \notin {"ok", "error", "end"}
    BY <1>1, <1>2, <1>12
  <2>2. ends = {}
    BY <1>7, <2>1
  <2>3. got.outcome = "none" /\ got.buffer = size
    BY <1>1, <1>6, <1>10, <2>2
  <2> DEFINE first2 == IF first > k THEN first - k ELSE 1
  <2>4. first2 \in 1..(L - k) - 1 /\ size + (L - k) - first2 <= Cap
    BY <1>1, <1>2, <1>9, <1>10, <1>12 DEF last
  <2>5. \A j \in 1..L - k : rest[j] \in Answer <=> first2 <= j /\ j < L - k
    <3>1. \A j \in 1..L - k : k + j \in 1..L /\ (first <= k + j /\ k + j < L <=> first2 <= j /\ j < L - k)
      BY <1>1, <1>2, <1>12
    <3> QED BY <1>2, <1>4, <3>1
  <2> HIDE DEF first2
  <2>j. ASSUME NEW j \in 1..L - k
        PROVE  /\ k + j \in 1..L /\ rest[j] = down[k + j]
               /\ k + j = L <=> j = L - k
               /\ k + j = L - 1 <=> j = (L - k) - 1
    BY <1>1, <1>4, <1>12, SMTT(40)
  <2>6. \A j \in 1..L - k : rest[j] = "end" <=> j = L - k
    BY <1>2, <2>j
  <2>7. \A j \in 1..L - k : rest[j] \in {"ok", "error"} <=> j = (L - k) - 1
    BY <1>2, <2>j
  <2>8. AnswerAhead(rest, size)
    BY <1>4, <2>4, <2>5, <2>6, <2>7 DEF AnswerAhead
  <2>9. (\E j \in 1..Len(rest) : rest[j] = "ok") => \E j \in 1..L : down[j] = "ok"
    BY <1>1, <1>4
  <2> QED BY <1>4, <1>10, <2>3, <2>8, <2>9 DEF got, chunk, rest
<1> QED BY <1>1, <1>11, <1>12
-----------------------------------------------------------------------------
\* A step of one call and its connection.
LEMMA OneCall ==
  ASSUME CallsInv, NEW c \in Clients, hostPc' = hostPc,
         DOMAIN client' = Clients, DOMAIN conn' = Clients, DOMAIN quiet' = Clients,
         \A d \in Clients : d # c => client'[d] = client[d] /\ conn'[d] = conn[d] /\ quiet'[d] = quiet[d],
         Sound(client'[c], conn'[c], quiet'[c]), HasHost(conn'[c])
  PROVE  CallsInv'
<1>1. ASSUME NEW d \in Clients PROVE Sound(client'[d], conn'[d], quiet'[d]) /\ HasHost(conn'[d])
  <2>1. CASE d = c
    BY <2>1
  <2>2. CASE d # c
    BY <2>2 DEF CallsInv
  <2> QED BY <2>1, <2>2
<1>2. \A d \in Clients : HasHost(conn[d])'
  BY <1>1 DEF HasHost
<1>3. \A d \in Clients : Sound(client[d], conn[d], quiet[d])'
  BY <1>1, Zenon DEF Sound, WaitingIsSound, SettledIsSound, Unread, Worked, Answered, Lost, Spaces, AnswerAhead
<1> QED BY <1>2, <1>3 DEF CallsInv

\* What a call that has begun knows of its connection, whatever its state.
LEMMA BegunIsSound ==
  ASSUME NEW cl, NEW cn, NEW ticks, Sound(cl, cn, ticks), cl.pc \in {"idle", "connect", "waiting"}
  PROVE  /\ cl \in CallRecords /\ cn \in ConnRecords /\ ticks \in 0..Timeout
         /\ cl.outcome = "none" /\ (cn.handler # "none" => cn.handled)
         /\ cl.pc \in {"idle", "connect"} => cn.state = "none" /\ cn.down = <<>>
<1>1. CASE cl.pc \in {"idle", "connect"}
  <2>1. cn = NoConn
    BY <1>1 DEF Sound
  <2> QED BY <1>1, <2>1 DEF Sound, NoConn
<1>2. CASE cl.pc = "waiting"
  BY <1>2 DEF Sound, WaitingIsSound, Unread, Worked, Answered, Lost
<1> QED BY <1>1, <1>2

\* The one outcome of a call, whatever it is, cuts it off from its connection.
LEMMA SettlesSoundly ==
  ASSUME CallsInv, NEW c \in Clients, client[c].pc \in {"idle", "connect", "waiting"},
         NEW outcome \in {"unreachable", "ok", "error", "cut off", "timeout", "aborted"},
         outcome = "ok" => conn[c].handler = "done",
         outcome = "timeout" => client[c].silence = Timeout,
         Settles(c, outcome), UNCHANGED <<hostState, quiet>>
  PROVE  CallsInv'
<1> DEFINE cl == client[c]
           cn == conn[c]
           cl2 == [cl EXCEPT !.pc = "settled", !.outcome = outcome, !.timer = 0, !.buffer = 0]
           cn2 == IF Open(c) THEN [cn EXCEPT !.state = "left", !.down = <<>>]
                             ELSE [cn EXCEPT !.down = <<>>]
<1>1. /\ client' = [client EXCEPT ![c] = cl2] /\ conn' = [conn EXCEPT ![c] = cn2] /\ quiet' = quiet
  BY DEF Settles
<1>2. /\ DOMAIN client' = Clients /\ DOMAIN conn' = Clients /\ DOMAIN quiet' = Clients
      /\ client'[c] = cl2 /\ conn'[c] = cn2 /\ quiet'[c] = quiet[c]
      /\ \A d \in Clients : d # c => client'[d] = client[d] /\ conn'[d] = conn[d] /\ quiet'[d] = quiet[d]
  BY <1>1, Zenon DEF CallsInv
<1>3. /\ cl \in CallRecords /\ cn \in ConnRecords /\ quiet[c] \in 0..Timeout
      /\ cn.handler # "none" => cn.handled
  BY BegunIsSound DEF CallsInv
<1>4. cl2 \in CallRecords /\ cl2.pc = "settled" /\ cl2.outcome = outcome /\ cl2.silence = cl.silence
  <2>1. cl2 \in CallRecords
    BY <1>3 DEF CallRecords
  <2> QED BY <1>3, <2>1 DEF CallRecords
<1>5. /\ cn2 \in ConnRecords /\ cn2.state \notin {"backlog", "open"} /\ cn2.down = <<>>
      /\ cn2.handler = cn.handler /\ cn2.handled = cn.handled
  <2>1. <<>> \in Seq(Unit)
    BY EmptySeq
  <2>2. CASE Open(c)
    <3>1. cn2 = [cn EXCEPT !.state = "left", !.down = <<>>]
      BY <2>2
    <3> HIDE DEF cn, cn2
    <3> QED BY <1>3, <2>1, <3>1 DEF ConnRecords
  <2>3. CASE ~Open(c)
    <3>1. cn2 = [cn EXCEPT !.down = <<>>] /\ cn.state \notin {"backlog", "open"}
      BY <2>3 DEF Open
    <3> HIDE DEF cn, cn2
    <3> QED BY <1>3, <2>1, <3>1 DEF ConnRecords
  <2> QED BY <2>2, <2>3
<1>6. Sound(cl2, cn2, quiet[c])
  BY <1>3, <1>4, <1>5 DEF Sound, SettledIsSound
<1>7. HasHost(cn2) /\ hostPc' = hostPc
  BY <1>5 DEF HasHost, hostState
<1> HIDE DEF cl2, cn2
<1> QED BY <1>2, <1>6, <1>7, OneCall

\* A call that cannot reach its host goes to the other path or settles.
LEMMA UnreachableSoundly ==
  ASSUME CallsInv, NEW c \in Clients, NEW errno,
         \/ client[c].pc \in {"idle", "connect"}
         \/ client[c].pc = "waiting" /\ ~MissingSocket(errno),
         Unreachable(c, errno), UNCHANGED <<hostState, quiet>>
  PROVE  CallsInv'
<1>1. CASE Settles(c, "unreachable")
  BY <1>1, SettlesSoundly
<1>2. CASE /\ client[c].pc \in {"idle", "connect"}
           /\ client' = [client EXCEPT ![c].pc = "connect", ![c].path = "old"]
           /\ conn' = [conn EXCEPT ![c] = NoConn]
  <2> DEFINE cl == client[c]
             cl2 == [cl EXCEPT !.pc = "connect", !.path = "old"]
  <2>1. /\ DOMAIN client' = Clients /\ DOMAIN conn' = Clients /\ DOMAIN quiet' = Clients
        /\ client'[c] = cl2 /\ conn'[c] = NoConn /\ quiet'[c] = quiet[c]
        /\ \A d \in Clients : d # c => client'[d] = client[d] /\ conn'[d] = conn[d] /\ quiet'[d] = quiet[d]
    BY <1>2, Zenon DEF CallsInv
  <2>2. /\ cl \in CallRecords /\ quiet[c] \in 0..Timeout
        /\ conn[c] = NoConn /\ conn[c] \in ConnRecords /\ cl.outcome = "none" /\ cl.timer = 0 /\ cl.buffer = 0
    BY <1>2 DEF CallsInv, Sound
  <2>3. /\ cl2 \in CallRecords /\ cl2.pc = "connect" /\ cl2.outcome = "none"
        /\ cl2.timer = 0 /\ cl2.buffer = 0
    BY <2>2 DEF CallRecords, Paths
  <2>4. Sound(cl2, NoConn, quiet[c])
    BY <2>2, <2>3 DEF Sound
  <2>5. HasHost(NoConn) /\ hostPc' = hostPc
    BY DEF HasHost, NoConn, hostState
  <2> HIDE DEF cl2
  <2> QED BY <2>1, <2>4, <2>5, OneCall
<1> QED BY <1>1, <1>2, Zenon DEF Unreachable

\* A call begins.
LEMMA CallSoundly ==
  ASSUME CallsInv, NEW c \in Clients, Call(c)
  PROVE  CallsInv'
<1>1. client[c].pc = "idle" /\ UNCHANGED <<hostState, quiet>>
  BY DEF Call
<1>2. CASE Unreachable(c, "ENOENT")
  BY <1>1, <1>2, UnreachableSoundly
<1>3. CASE client' = [client EXCEPT ![c].pc = "connect"] /\ UNCHANGED conn
  <2> DEFINE cl == client[c]
             cl2 == [cl EXCEPT !.pc = "connect"]
  <2>1. /\ DOMAIN client' = Clients /\ DOMAIN conn' = Clients /\ DOMAIN quiet' = Clients
        /\ client'[c] = cl2 /\ conn'[c] = conn[c] /\ quiet'[c] = quiet[c]
        /\ \A d \in Clients : d # c => client'[d] = client[d] /\ conn'[d] = conn[d] /\ quiet'[d] = quiet[d]
    BY <1>1, <1>3, Zenon DEF CallsInv
  <2>2. /\ cl \in CallRecords /\ quiet[c] \in 0..Timeout /\ HasHost(conn[c])
        /\ conn[c] = NoConn /\ conn[c] \in ConnRecords /\ cl.outcome = "none" /\ cl.timer = 0 /\ cl.buffer = 0
    BY <1>1 DEF CallsInv, Sound
  <2>3. /\ cl2 \in CallRecords /\ cl2.pc = "connect" /\ cl2.outcome = "none"
        /\ cl2.timer = 0 /\ cl2.buffer = 0
    BY <2>2 DEF CallRecords
  <2>4. Sound(cl2, conn[c], quiet[c])
    BY <2>2, <2>3 DEF Sound
  <2>5. hostPc' = hostPc
    BY <1>1 DEF hostState
  <2> HIDE DEF cl2
  <2> QED BY <2>1, <2>2, <2>4, <2>5, OneCall
<1> QED BY <1>2, <1>3 DEF Call

\* A call connects to a host that is up, and its request is not read yet.
LEMMA ConnectSoundly ==
  ASSUME HostInv, CallsInv, NEW c \in Clients, Connect(c)
  PROVE  CallsInv'
<1>1. client[c].pc = "connect" /\ UNCHANGED <<hostState, quiet>>
  BY DEF Connect
<1>2. ASSUME NEW errno, Unreachable(c, errno) PROVE CallsInv'
  BY <1>1, <1>2, UnreachableSoundly
<1>3. ASSUME file[client[c].path] = "live", client' = [client EXCEPT ![c].pc = "waiting"],
             NEW up \in {<<"line">>, <<"part", "line">>},
             conn' = [conn EXCEPT ![c].state = "backlog", ![c].up = up]
      PROVE  CallsInv'
  <2> DEFINE cl == client[c]
             cl2 == [cl EXCEPT !.pc = "waiting"]
             cn2 == [NoConn EXCEPT !.state = "backlog", !.up = up]
  <2>1. /\ cl \in CallRecords /\ quiet[c] \in 0..Timeout
        /\ conn[c] = NoConn /\ conn[c] \in ConnRecords /\ cl.outcome = "none" /\ cl.timer = 0 /\ cl.buffer = 0
    BY <1>1 DEF CallsInv, Sound
  <2>2. /\ DOMAIN client' = Clients /\ DOMAIN conn' = Clients /\ DOMAIN quiet' = Clients
        /\ client'[c] = cl2 /\ conn'[c] = cn2 /\ quiet'[c] = quiet[c]
        /\ \A d \in Clients : d # c => client'[d] = client[d] /\ conn'[d] = conn[d] /\ quiet'[d] = quiet[d]
    BY <1>1, <1>3, <2>1, Zenon DEF CallsInv
  <2>3. /\ cl2 \in CallRecords /\ cl2.pc = "waiting" /\ cl2.outcome = "none"
        /\ cl2.timer = 0 /\ cl2.buffer = 0
    BY <2>1 DEF CallRecords
  <2>4. /\ cn2.state = "backlog" /\ cn2.up # <<>> /\ cn2.down = <<>> /\ ~cn2.handled /\ cn2.handler = "none" /\ ~cn2.aborted
    BY DEF NoConn
  <2>5. cn2 \in ConnRecords
    <3>1. up \in Requests
      BY DEF Requests
    <3> QED BY <2>1, <3>1 DEF ConnRecords
  <2>6. Unread(cl2, cn2)
    BY <2>3, <2>4 DEF Unread
  <2>7. Timeout \in Nat \ {0}
    BY TransportAssumption
  <2>8. Sound(cl2, cn2, quiet[c])
    BY <2>1, <2>3, <2>4, <2>5, <2>6, <2>7 DEF Sound, WaitingIsSound
  <2>9. hostPc = "up" /\ hostPc' = hostPc /\ HasHost(cn2)
    <3>1. cl.path \in Paths
      BY <2>1 DEF CallRecords
    <3> QED BY <1>1, <1>3, <2>4, <3>1 DEF HostInv, LiveIsUp, HasHost, hostState
  <2> HIDE DEF cl2, cn2
  <2> QED BY <2>2, <2>8, <2>9, OneCall
<1> QED BY <1>2, <1>3, Zenon DEF Connect

\* The timer, the caller's signal and a reset end a call that has begun.
LEMMA EndsSoundly ==
  ASSUME CallsInv, NEW c \in Clients, TimesOut(c) \/ Abort(c) \/ Reset(c)
  PROVE  CallsInv'
<1>1. CASE TimesOut(c)
  <2>1. client[c].pc = "waiting" /\ client[c].silence = Timeout
    BY <1>1 DEF TimesOut, Waiting, CallsInv, Sound, WaitingIsSound
  <2> QED BY <1>1, <2>1, SettlesSoundly DEF TimesOut
<1>2. CASE Abort(c)
  BY <1>2, SettlesSoundly DEF Abort
<1>3. CASE Reset(c)
  BY <1>3, UnreachableSoundly DEF Reset, Waiting, MissingSocket
<1> QED BY <1>1, <1>2, <1>3

\* A chunk comes: keep-alives restart the timer, an answer settles the call or
\* goes on to come.
LEMMA ReceiveSoundly ==
  ASSUME CallsInv, NEW c \in Clients, Receive(c)
  PROVE  CallsInv'
<1> DEFINE cl == client[c]
           cn == conn[c]
           ticks == quiet[c]
<1>1. PICK k \in 1..Len(cn.down) :
        LET chunk == SubSeq(cn.down, 1, k)
            got == Received(cl.buffer, chunk) IN
        IF got.outcome # "none"
        THEN Settles(c, got.outcome)
        ELSE /\ client' = [client EXCEPT ![c].buffer = got.buffer, ![c].timer = Restart(@, chunk)]
             /\ conn' = [conn EXCEPT ![c].down = SubSeq(@, k + 1, Len(@))]
  BY DEF Receive
<1> DEFINE got == Received(cl.buffer, SubSeq(cn.down, 1, k))
           rest == SubSeq(cn.down, k + 1, Len(cn.down))
<1>2. /\ cl.pc = "waiting" /\ UNCHANGED <<hostState, quiet>> /\ WaitingIsSound(cl, cn, ticks)
      /\ cl \in CallRecords /\ cn \in ConnRecords /\ ticks \in 0..Timeout /\ HasHost(cn)
  BY DEF Receive, Waiting, CallsInv, Sound
<1>3. cn.down \in Seq(Unit) /\ cn.down # <<>> /\ cl.buffer \in Nat /\ cl.timer \in Nat
  <2>1. cn.down # <<>>
    <3>1. CASE cn.down = <<>>
      <4>1. k \in 1..Len(<<>>)
        BY <3>1, Zenon
      <4> QED BY <4>1, EmptySeq
    <3> QED BY <3>1
  <2>2. cn.down \in Seq(Unit) /\ cl.buffer \in Nat /\ cl.timer \in Nat
    <3> HIDE DEF cl, cn
    <3> QED BY <1>2 DEF CallRecords, ConnRecords
  <2> QED BY <2>1, <2>2
<1>4. Timeout \in Nat \ {0} /\ Cap \in Nat \ {0}
  BY TransportAssumption
<1> DEFINE cl2 == [cl EXCEPT !.buffer = got.buffer, !.timer = 0]
           cn2 == [cn EXCEPT !.down = rest]
<1>5. ASSUME got.outcome = "none", got.buffer \in Nat, rest \in Seq(Unit),
             WaitingIsSound(cl2, cn2, ticks)
      PROVE  CallsInv'
  <2>1. /\ client' = [client EXCEPT ![c] = cl2] /\ conn' = [conn EXCEPT ![c] = cn2] /\ quiet' = quiet
    BY <1>1, <1>2, <1>5 DEF Restart
  <2>2. /\ DOMAIN client' = Clients /\ DOMAIN conn' = Clients /\ DOMAIN quiet' = Clients
        /\ client'[c] = cl2 /\ conn'[c] = cn2 /\ quiet'[c] = quiet[c]
        /\ \A d \in Clients : d # c => client'[d] = client[d] /\ conn'[d] = conn[d] /\ quiet'[d] = quiet[d]
    BY <2>1, Zenon DEF CallsInv
  <2> HIDE DEF got, rest, cl, cn
  <2>3. cl2 \in CallRecords /\ cl2.pc = "waiting"
    BY <1>2, <1>5 DEF CallRecords
  <2>4. cn2 \in ConnRecords /\ cn2.state = cn.state
    BY <1>2, <1>5 DEF ConnRecords
  <2>5. Sound(cl2, cn2, ticks)
    BY <1>2, <1>5, <2>3, <2>4 DEF Sound
  <2>6. HasHost(cn2) /\ hostPc' = hostPc
    BY <1>2, <2>4 DEF HasHost, hostState
  <2> HIDE DEF cl2, cn2
  <2> QED BY <2>2, <2>5, <2>6, OneCall
<1>6. ASSUME got.buffer \in Nat, rest \in Seq(Unit)
      PROVE  /\ cl2.outcome = cl.outcome /\ cl2.buffer = got.buffer /\ cl2.timer = 0
             /\ cn2.down = rest /\ cn2.state = cn.state /\ cn2.handled = cn.handled
             /\ cn2.handler = cn.handler /\ cn2.aborted = cn.aborted
  <2> HIDE DEF got, rest, cl, cn
  <2> QED BY <1>2 DEF CallRecords, ConnRecords
<1>7. CASE Worked(cl, cn, ticks) \/ Lost(cl, cn)
  <2>1. Spaces(cn.down) /\ cl.buffer = 0
    BY <1>7 DEF Worked, Lost
  <2>2. /\ got = [buffer |-> 0, outcome |-> "none"] /\ rest \in Seq(Unit) /\ Spaces(rest)
    BY <1>3, <1>4, <2>1, SpacesSayNothing
  <2> HIDE DEF got, rest, cl, cn, ticks
  <2>3. got.buffer = 0 /\ got.outcome = "none"
    BY <2>2
  <2>4. WaitingIsSound(cl2, cn2, ticks)
    BY <1>2, <1>4, <1>6, <1>7, <2>2, <2>3 DEF WaitingIsSound, Worked, Lost
  <2> QED BY <1>5, <2>2, <2>3, <2>4
<1>8. CASE Answered(cl, cn)
  <2>1. AnswerAhead(cn.down, cl.buffer)
    BY <1>8 DEF Answered
  <2>2. /\ got.outcome \in {"none", "ok", "error"} /\ got.buffer \in Nat
        /\ got.outcome = "ok" => \E j \in 1..Len(cn.down) : cn.down[j] = "ok"
        /\ got.outcome = "none" =>
             /\ rest \in Seq(Unit) /\ AnswerAhead(rest, got.buffer)
             /\ (\E j \in 1..Len(rest) : rest[j] = "ok") => \E j \in 1..Len(cn.down) : cn.down[j] = "ok"
    BY <1>3, <2>1, AnswerArrives
  <2>3. CASE got.outcome # "none"
    <3>1. Settles(c, got.outcome)
      BY <1>1, <2>3
    <3>2. got.outcome = "ok" => cn.handler = "done"
      BY <1>8, <2>2 DEF Answered
    <3> QED BY <1>2, <2>2, <2>3, <3>1, <3>2, SettlesSoundly
  <2>4. CASE got.outcome = "none"
    <3> HIDE DEF got, rest, cl, cn, ticks
    <3>1. Answered(cl2, cn2)
      BY <1>6, <1>8, <2>2, <2>4 DEF Answered
    <3>2. WaitingIsSound(cl2, cn2, ticks)
      BY <1>2, <1>4, <1>6, <2>2, <2>4, <3>1 DEF WaitingIsSound
    <3> QED BY <1>5, <2>2, <2>4, <3>2
  <2> QED BY <2>3, <2>4
<1> QED BY <1>2, <1>3, <1>7, <1>8 DEF WaitingIsSound, Unread
-----------------------------------------------------------------------------
\* The server's steps on a connection, with the call as it is.
LEMMA ServerSoundly ==
  ASSUME CallsInv, NEW c \in Clients, UNCHANGED <<hostState, client>>,
         NEW cn2, NEW ticks, conn' = [conn EXCEPT ![c] = cn2],
         quiet' = [quiet EXCEPT ![c] = ticks] \/ (quiet' = quiet /\ ticks = quiet[c]),
         cn2 \in ConnRecords, ticks \in 0..Timeout,
         client[c].pc \in {"waiting", "settled"}, HasHost(cn2),
         client[c].pc = "waiting" => WaitingIsSound(client[c], cn2, ticks),
         client[c].pc = "settled" => SettledIsSound(client[c], cn2)
  PROVE  CallsInv'
<1>1. /\ DOMAIN client' = Clients /\ DOMAIN conn' = Clients /\ DOMAIN quiet' = Clients
      /\ client'[c] = client[c] /\ conn'[c] = cn2 /\ quiet'[c] = ticks
      /\ \A d \in Clients : d # c => client'[d] = client[d] /\ conn'[d] = conn[d] /\ quiet'[d] = quiet[d]
  BY Zenon DEF CallsInv
<1>2. Sound(client[c], cn2, ticks)
  BY DEF CallsInv, Sound
<1>3. hostPc' = hostPc
  BY DEF hostState
<1> QED BY <1>1, <1>2, <1>3, OneCall

\* What a connection that was made says of its call.
LEMMA MadeIsSound ==
  ASSUME CallsInv, NEW c \in Clients, conn[c] # NoConn
  PROVE  /\ client[c] \in CallRecords /\ conn[c] \in ConnRecords /\ quiet[c] \in 0..Timeout /\ HasHost(conn[c])
         /\ client[c].pc \in {"waiting", "settled"}
         /\ client[c].pc = "waiting" => WaitingIsSound(client[c], conn[c], quiet[c])
         /\ client[c].pc = "settled" => SettledIsSound(client[c], conn[c])
<1>1. Sound(client[c], conn[c], quiet[c]) /\ HasHost(conn[c])
  BY DEF CallsInv
<1>2. client[c].pc \in {"idle", "connect", "waiting", "settled"}
  BY <1>1 DEF Sound, CallRecords
<1>3. client[c].pc \notin {"idle", "connect"}
  BY <1>1 DEF Sound
<1> QED BY <1>1, <1>2, <1>3 DEF Sound

\* The server takes a connection whose request it has not read.
LEMMA AcceptSoundly ==
  ASSUME CallsInv, NEW c \in Clients, Accept(c)
  PROVE  CallsInv'
<1> DEFINE cl == client[c]
           cn == conn[c]
           cn2 == [cn EXCEPT !.state = "open"]
<1>1. cn.state = "backlog" /\ hostPc = "up" /\ conn' = [conn EXCEPT ![c] = cn2] /\ quiet' = quiet
      /\ UNCHANGED <<hostState, client>>
  BY DEF Accept
<1>2. /\ cl \in CallRecords /\ cn \in ConnRecords /\ quiet[c] \in 0..Timeout
      /\ cl.pc = "waiting" /\ WaitingIsSound(cl, cn, quiet[c])
  BY <1>1, MadeIsSound DEF NoConn, SettledIsSound
<1> HIDE DEF cl, cn
<1>3. /\ cn2 \in ConnRecords /\ cn2.state = "open" /\ cn2.up = cn.up /\ cn2.down = cn.down
      /\ cn2.handled = cn.handled /\ cn2.handler = cn.handler /\ cn2.aborted = cn.aborted
  BY <1>2 DEF ConnRecords
<1>4. Unread(cl, cn)
  BY <1>1, <1>2 DEF WaitingIsSound, Worked, Answered, Lost
<1>5. WaitingIsSound(cl, cn2, quiet[c])
  BY <1>1, <1>2, <1>3, <1>4 DEF WaitingIsSound, Unread
<1>6. HasHost(cn2)
  BY <1>1, <1>3 DEF HasHost
<1> HIDE DEF cn2
<1> QED BY <1>1, <1>2, <1>3, <1>5, <1>6, ServerSoundly DEF cl

\* A request is read: a part of it, or the rest, which is answered with an
\* error or begins its handler.
LEMMA ReadSoundly ==
  ASSUME CallsInv, NEW c \in Clients, ReadRequest(c)
  PROVE  CallsInv'
<1> DEFINE cl == client[c]
           cn == conn[c]
           ticks == quiet[c]
<1>1. /\ cn.state \in {"open", "left"} /\ cn.up # <<>> /\ ~cn.handled /\ UNCHANGED <<hostState, client>>
  BY DEF ReadRequest
<1>2. /\ cl \in CallRecords /\ cn \in ConnRecords /\ ticks \in 0..Timeout /\ HasHost(cn)
      /\ cl.pc \in {"waiting", "settled"}
      /\ cl.pc = "waiting" => WaitingIsSound(cl, cn, ticks)
      /\ cl.pc = "settled" => SettledIsSound(cl, cn)
  BY <1>1, MadeIsSound DEF NoConn
<1>3. cl.pc = "waiting" => Unread(cl, cn) /\ cn.state = "open" /\ ~cn.aborted
  BY <1>1, <1>2 DEF WaitingIsSound, Unread, Worked, Answered, Lost
<1>4. cl.pc = "settled" => cn.state = "left" /\ cn.down = <<>> /\ cl.outcome # "ok"
  BY <1>1, <1>2 DEF SettledIsSound
<1>5. Timeout \in Nat \ {0}
  BY TransportAssumption
<1>6. CASE conn' = [conn EXCEPT ![c].up = Tail(@)] /\ quiet' = quiet /\ Head(cn.up) = "part"
  <2> DEFINE cn2 == [cn EXCEPT !.up = Tail(cn.up)]
  <2>1. conn' = [conn EXCEPT ![c] = cn2]
    BY <1>6
  <2> HIDE DEF cl, cn, ticks
  <2>2. Tail(cn.up) \in Requests /\ Tail(cn.up) # <<>>
    <3>1. cn.up \in {<<"line">>, <<"part", "line">>}
      BY <1>1, <1>2 DEF ConnRecords, Requests
    <3>2. cn.up = <<"part", "line">>
      BY <1>6, <3>1 DEF cn
    <3> QED BY <3>2 DEF Requests
  <2>3. /\ cn2 \in ConnRecords /\ cn2.state = cn.state /\ cn2.up = Tail(cn.up) /\ cn2.down = cn.down
        /\ cn2.handled = cn.handled /\ cn2.handler = cn.handler /\ cn2.aborted = cn.aborted
    BY <1>2, <2>2 DEF ConnRecords
  <2>4. cl.pc = "waiting" => WaitingIsSound(cl, cn2, ticks)
    BY <1>2, <1>3, <2>2, <2>3 DEF WaitingIsSound, Unread
  <2>5. (cl.pc = "settled" => SettledIsSound(cl, cn2)) /\ HasHost(cn2)
    BY <1>2, <2>3 DEF SettledIsSound, HasHost
  <2> HIDE DEF cn2
  <2> QED BY <1>1, <1>2, <1>6, <2>1, <2>3, <2>4, <2>5, ServerSoundly DEF cl, ticks
<1>7. CASE /\ conn' = [conn EXCEPT ![c] = [@ EXCEPT !.up = <<>>, !.handled = TRUE, !.handler = "running"]]
           /\ quiet' = [quiet EXCEPT ![c] = 0]
  <2> DEFINE cn2 == [cn EXCEPT !.up = <<>>, !.handled = TRUE, !.handler = "running"]
  <2>1. conn' = [conn EXCEPT ![c] = cn2]
    BY <1>7
  <2> HIDE DEF cl, cn, ticks
  <2>2. /\ cn2 \in ConnRecords /\ cn2.state = cn.state /\ cn2.down = cn.down
        /\ cn2.handled = TRUE /\ cn2.handler = "running" /\ cn2.aborted = cn.aborted
    BY <1>2 DEF ConnRecords, Requests
  <2>3. cl.pc = "waiting" => WaitingIsSound(cl, cn2, 0)
    <3>1. cl.pc = "waiting" => Spaces(cn.down) /\ cn.down = <<>> /\ cl.timer = 0 /\ cl.buffer = 0
      BY <1>3, EmptySeq DEF Unread, Spaces
    <3> QED BY <1>2, <1>3, <2>2, <3>1 DEF WaitingIsSound, Worked
  <2>4. (cl.pc = "settled" => SettledIsSound(cl, cn2)) /\ HasHost(cn2)
    BY <1>2, <1>4, <2>2 DEF SettledIsSound, HasHost
  <2>5. 0 \in 0..Timeout
    BY <1>5
  <2> HIDE DEF cn2
  <2> QED BY <1>1, <1>2, <1>7, <2>1, <2>2, <2>3, <2>4, <2>5, ServerSoundly DEF cl
<1>8. ASSUME NEW answer \in Answers("error"), quiet' = quiet,
             conn' = [conn EXCEPT ![c] = [@ EXCEPT !.up = <<>>, !.handled = TRUE, !.down = Write(c, answer)]]
      PROVE  CallsInv'
  <2> DEFINE down2 == Write(c, answer)
             cn2 == [cn EXCEPT !.up = <<>>, !.handled = TRUE, !.down = down2]
  <2>1. conn' = [conn EXCEPT ![c] = cn2]
    BY <1>8
  <2>2. cl.pc = "waiting" => down2 \in Seq(Unit) /\ AnswerAhead(down2, 0) /\ \A j \in 1..Len(down2) : down2[j] # "ok"
    <3>1. ASSUME cl.pc = "waiting" PROVE down2 = cn.down \o answer /\ cn.down \in Seq(Unit) /\ Spaces(cn.down)
      <4>1. cn.down = <<>> /\ cn.state = "open"
        BY <1>3, <3>1 DEF Unread
      <4> QED BY <4>1, EmptySeq DEF Write, Spaces
    <3>2. ASSUME cl.pc = "waiting"
          PROVE  /\ cn.down \o answer \in Seq(Unit) /\ AnswerAhead(cn.down \o answer, 0)
                 /\ (\E j \in 1..Len(cn.down \o answer) : (cn.down \o answer)[j] = "ok") => "error" = "ok"
      <4>1. "error" \in {"ok", "error"}
        OBVIOUS
      <4>2. cn.down \in Seq(Unit) /\ Spaces(cn.down)
        BY <3>1, <3>2
      <4> QED BY <4>1, <4>2, AnswerComes
    <3> QED BY <3>1, <3>2
  <2>3. cl.pc = "settled" => down2 = <<>> /\ down2 \in Seq(Unit)
    BY <1>4, EmptySeq DEF Write
  <2> HIDE DEF cl, cn, ticks, down2
  <2>4. /\ cn2 \in ConnRecords /\ cn2.state = cn.state /\ cn2.down = down2
        /\ cn2.handled = TRUE /\ cn2.handler = cn.handler /\ cn2.aborted = cn.aborted
    BY <1>2, <2>2, <2>3 DEF ConnRecords, Requests
  <2>5. cl.pc = "waiting" => WaitingIsSound(cl, cn2, ticks)
    <3>1. cl.pc = "waiting" => cl.buffer = 0 /\ cn.handler = "none"
      BY <1>3 DEF Unread
    <3>2. cl.pc = "waiting" => Answered(cl, cn2)
      BY <1>3, <2>2, <2>4, <3>1 DEF Answered
    <3> QED BY <1>2, <1>3, <2>4, <3>2 DEF WaitingIsSound
  <2>6. (cl.pc = "settled" => SettledIsSound(cl, cn2)) /\ HasHost(cn2)
    BY <1>2, <1>4, <2>3, <2>4 DEF SettledIsSound, HasHost
  <2> HIDE DEF cn2
  <2> QED BY <1>1, <1>2, <1>8, <2>1, <2>4, <2>5, <2>6, ServerSoundly DEF cl, ticks
<1> QED BY <1>6, <1>7, <1>8, Zenon DEF ReadRequest

\* A handler gives a sign that it works.
LEMMA KeepAliveSoundly ==
  ASSUME CallsInv, NEW c \in Clients, KeepAlive(c)
  PROVE  CallsInv'
<1> DEFINE cl == client[c]
           cn == conn[c]
           down2 == Write(c, <<"space">>)
           cn2 == [cn EXCEPT !.beats = cn.beats + 1, !.down = down2]
<1>1. /\ cn.handler = "running" /\ quiet' = [quiet EXCEPT ![c] = 0] /\ UNCHANGED <<hostState, client>>
      /\ conn' = [conn EXCEPT ![c] = cn2]
  BY Zenon DEF KeepAlive, Running
<1>2. conn[c] # NoConn
  BY <1>1 DEF NoConn
<1>3. /\ cl \in CallRecords /\ cn \in ConnRecords /\ quiet[c] \in 0..Timeout /\ HasHost(cn)
      /\ cl.pc \in {"waiting", "settled"}
      /\ cl.pc = "waiting" => WaitingIsSound(cl, cn, quiet[c])
      /\ cl.pc = "settled" => SettledIsSound(cl, cn)
  BY <1>2, MadeIsSound
<1>4. cl.pc = "waiting" => Worked(cl, cn, quiet[c])
  BY <1>1, <1>3 DEF WaitingIsSound, Unread, Answered, Lost
<1>5. 0 \in 0..Timeout
  BY TransportAssumption
<1>6. ASSUME cl.pc = "waiting" PROVE down2 \in Seq(Unit) /\ Spaces(down2) /\ down2 # <<>>
  <2>1. down2 = cn.down \o <<"space">> /\ cn.down \in Seq(Unit) /\ Spaces(cn.down)
    <3>1. cn.state = "open" /\ Spaces(cn.down)
      BY <1>4, <1>6 DEF Worked
    <3>2. down2 = cn.down \o <<"space">>
      BY <3>1 DEF Write
    <3> HIDE DEF cn, down2
    <3> QED BY <1>3, <3>1, <3>2 DEF ConnRecords
  <2>2. <<"space">> \in Seq(Unit) /\ Len(<<"space">>) = 1 /\ <<"space">>[1] = "space"
    BY DEF Unit
  <2>3. Len(cn.down) \in Nat
    BY <2>1, LenProperties
  <2>4. /\ down2 \in Seq(Unit) /\ Len(down2) = Len(cn.down) + 1
        /\ \A i \in 1..Len(cn.down) + 1 : down2[i] = IF i <= Len(cn.down) THEN cn.down[i]
                                                     ELSE <<"space">>[i - Len(cn.down)]
    <3>1. /\ cn.down \o <<"space">> \in Seq(Unit)
          /\ Len(cn.down \o <<"space">>) = Len(cn.down) + Len(<<"space">>)
          /\ \A i \in 1..Len(cn.down) + Len(<<"space">>) :
               (cn.down \o <<"space">>)[i] = IF i <= Len(cn.down) THEN cn.down[i]
                                            ELSE <<"space">>[i - Len(cn.down)]
      BY <2>1, <2>2, ConcatProperties
    <3> HIDE DEF cn, down2
    <3> QED BY <2>1, <2>2, <3>1
  <2> HIDE DEF down2, cn
  <2>5. Spaces(down2)
    BY <2>1, <2>2, <2>3, <2>4 DEF Spaces
  <2>6. down2 # <<>>
    BY <2>3, <2>4, EmptySeq
  <2> QED BY <2>4, <2>5, <2>6
<1>7. ASSUME cl.pc = "settled" PROVE down2 = <<>> /\ down2 \in Seq(Unit)
  BY <1>3, <1>7, EmptySeq DEF Write, SettledIsSound
<1> HIDE DEF cl, cn, down2
<1>8. /\ cn2 \in ConnRecords /\ cn2.state = cn.state /\ cn2.down = down2
      /\ cn2.handled = cn.handled /\ cn2.handler = cn.handler /\ cn2.aborted = cn.aborted
  <2>1. down2 \in Seq(Unit) /\ cn.beats + 1 \in Nat
    BY <1>3, <1>6, <1>7 DEF ConnRecords
  <2> QED BY <1>3, <2>1 DEF ConnRecords
<1>9. cl.pc = "waiting" => WaitingIsSound(cl, cn2, 0)
  BY <1>3, <1>4, <1>6, <1>8 DEF WaitingIsSound, Worked
<1>10. (cl.pc = "settled" => SettledIsSound(cl, cn2)) /\ HasHost(cn2)
  BY <1>3, <1>7, <1>8 DEF SettledIsSound, HasHost
<1> HIDE DEF cn2
<1> QED BY <1>1, <1>3, <1>5, <1>8, <1>9, <1>10, ServerSoundly DEF cl

\* A handler ends, and its answer goes out if somebody waits for it.
LEMMA HandlerEndsSoundly ==
  ASSUME CallsInv, NEW c \in Clients, HandlerEnds(c)
  PROVE  CallsInv'
<1> DEFINE cl == client[c]
           cn == conn[c]
<1>1. PICK answer \in Results :
        conn' = [conn EXCEPT ![c] = [@ EXCEPT !.handler = "done",
                   !.down = IF conn[c].aborted THEN conn[c].down ELSE Write(c, answer)]]
  BY Zenon DEF HandlerEnds
<1>2. cn.handler = "running" /\ quiet' = quiet /\ UNCHANGED <<hostState, client>>
  BY DEF HandlerEnds, Running
<1>3. conn[c] # NoConn
  BY <1>2 DEF NoConn
<1>4. /\ cl \in CallRecords /\ cn \in ConnRecords /\ quiet[c] \in 0..Timeout /\ HasHost(cn)
      /\ cl.pc \in {"waiting", "settled"}
      /\ cl.pc = "waiting" => WaitingIsSound(cl, cn, quiet[c])
      /\ cl.pc = "settled" => SettledIsSound(cl, cn)
  BY <1>3, MadeIsSound
<1>5. cl.pc = "waiting" => Worked(cl, cn, quiet[c]) /\ ~cn.aborted /\ cn.state = "open"
  BY <1>2, <1>4 DEF WaitingIsSound, Unread, Worked, Answered, Lost
<1> DEFINE down2 == IF cn.aborted THEN cn.down ELSE Write(c, answer)
           cn2 == [cn EXCEPT !.handler = "done", !.down = down2]
<1>6. conn' = [conn EXCEPT ![c] = cn2]
  BY <1>1, Zenon
<1>7. ASSUME cl.pc = "waiting" PROVE down2 \in Seq(Unit) /\ AnswerAhead(down2, 0)
  <2>1. PICK outcome \in {"ok", "error"} : answer \in Answers(outcome)
    BY <1>1, Zenon DEF Results
  <2>2. down2 = cn.down \o answer
    BY <1>5, <1>7 DEF Write
  <2>3. Spaces(cn.down)
    BY <1>5, <1>7 DEF Worked
  <2> HIDE DEF cn, down2
  <2>4. cn.down \in Seq(Unit)
    BY <1>4 DEF ConnRecords
  <2> QED BY <2>1, <2>2, <2>3, <2>4, AnswerComes
<1>8. ASSUME cl.pc = "settled" PROVE down2 = <<>> /\ down2 \in Seq(Unit)
  BY <1>4, <1>8, EmptySeq DEF Write, SettledIsSound
<1> HIDE DEF cl, cn, down2
<1>9. /\ cn2 \in ConnRecords /\ cn2.state = cn.state /\ cn2.down = down2
      /\ cn2.handled = cn.handled /\ cn2.handler = "done" /\ cn2.aborted = cn.aborted
  BY <1>4, <1>7, <1>8 DEF ConnRecords
<1>10. cl.pc = "waiting" => WaitingIsSound(cl, cn2, quiet[c])
  <2>1. cl.pc = "waiting" => Answered(cl, cn2)
    BY <1>5, <1>7, <1>9 DEF Answered, Worked
  <2> QED BY <1>4, <1>9, <2>1 DEF WaitingIsSound
<1>11. (cl.pc = "settled" => SettledIsSound(cl, cn2)) /\ HasHost(cn2)
  <2>1. cl.pc = "settled" => cn.handled
    BY <1>2, <1>4 DEF SettledIsSound, cn
  <2> QED BY <1>4, <1>8, <1>9, <2>1 DEF SettledIsSound, HasHost
<1> HIDE DEF cn2
<1> QED BY <1>2, <1>4, <1>6, <1>9, <1>10, <1>11, ServerSoundly DEF cl

\* The server's socket closes behind an answer, or when the client has left.
LEMMA ServerClosesSoundly ==
  ASSUME CallsInv, NEW c \in Clients, ServerCloses(c)
  PROVE  CallsInv'
<1> DEFINE cl == client[c]
           cn == conn[c]
           cn2 == [cn EXCEPT !.state = "closed", !.aborted = cn.handler = "running"]
<1>1. /\ quiet' = quiet /\ UNCHANGED <<hostState, client>> /\ conn' = [conn EXCEPT ![c] = cn2]
      /\ \/ cn.state = "open" /\ cn.down # <<>> /\ Last(cn.down) = "end"
         \/ cn.state = "left"
  BY DEF ServerCloses
<1>2. /\ cl \in CallRecords /\ cn \in ConnRecords /\ quiet[c] \in 0..Timeout
      /\ cl.pc \in {"waiting", "settled"}
      /\ cl.pc = "waiting" => WaitingIsSound(cl, cn, quiet[c])
      /\ cl.pc = "settled" => SettledIsSound(cl, cn)
  BY <1>1, MadeIsSound DEF NoConn
<1> HIDE DEF cl, cn
<1>3. ASSUME cl.pc = "waiting" PROVE Answered(cl, cn)
  <2>1. cn.state = "open" /\ cn.down # <<>> /\ Last(cn.down) = "end"
    BY <1>1, <1>2, <1>3 DEF WaitingIsSound, Unread, Worked, Answered, Lost
  <2>2. cn.down \in Seq(Unit)
    BY <1>2 DEF ConnRecords
  <2>3. ~Spaces(cn.down)
    <3>1. Len(cn.down) \in Nat \ {0}
      BY <2>1, <2>2, EmptySeq
    <3>2. Len(cn.down) \in 1..Len(cn.down)
      BY <3>1
    <3> QED BY <2>1, <3>2 DEF Spaces, Last
  <2> QED BY <1>2, <1>3, <2>1, <2>3 DEF WaitingIsSound, Unread, Worked, Lost
<1>4. /\ cn2 \in ConnRecords /\ cn2.state = "closed" /\ cn2.down = cn.down
      /\ cn2.handled = cn.handled /\ cn2.handler = cn.handler
  <2>1. (cn.handler = "running") \in BOOLEAN
    BY Zenon
  <2> QED BY <1>2, <2>1 DEF ConnRecords
<1>5. cl.pc = "waiting" => ~cn2.aborted
  BY <1>2, <1>3 DEF Answered, ConnRecords
<1>6. cl.pc = "waiting" => WaitingIsSound(cl, cn2, quiet[c])
  <2>1. cl.pc = "waiting" => Answered(cl, cn2)
    BY <1>3, <1>4 DEF Answered
  <2> QED BY <1>2, <1>4, <1>5, <2>1 DEF WaitingIsSound
<1>7. (cl.pc = "settled" => SettledIsSound(cl, cn2)) /\ HasHost(cn2)
  BY <1>2, <1>4 DEF SettledIsSound, HasHost
<1> HIDE DEF cn2
<1> QED BY <1>1, <1>2, <1>4, <1>6, <1>7, ServerSoundly DEF cl
-----------------------------------------------------------------------------
\* A step of the host or of the clock, on all calls.
LEMMA AllCalls ==
  ASSUME DOMAIN client' = Clients, DOMAIN conn' = Clients, DOMAIN quiet' = Clients,
         \A c \in Clients : Sound(client'[c], conn'[c], quiet'[c]),
         \A c \in Clients : /\ conn'[c].state = "backlog" => hostPc' = "up"
                            /\ conn'[c].state = "open" => hostPc' \in {"up", "closing"}
  PROVE  CallsInv'
<1>1. \A c \in Clients : HasHost(conn[c])'
  BY DEF HasHost
<1>2. \A c \in Clients : Sound(client[c], conn[c], quiet[c])'
  BY Zenon DEF Sound, WaitingIsSound, SettledIsSound, Unread, Worked, Answered, Lost, Spaces, AnswerAhead
<1> QED BY <1>1, <1>2 DEF CallsInv

\* A host that is not up has no connections that it could disturb.
LEMMA HostLeavesCalls ==
  ASSUME CallsInv, HostSteps \/ Sweep
  PROVE  CallsInv'
<1>1. UNCHANGED <<client, conn, quiet>>
  BY DEF HostSteps, MakeFolder, ChmodFolder, RemoveStale, Listen, EndClose, Sweep
<1>2. \/ hostPc' = hostPc
      \/ hostPc \notin {"up", "closing"}
      \/ \A c \in Clients : ~Open(c)
  BY DEF HostSteps, MakeFolder, ChmodFolder, RemoveStale, Listen, EndClose, Sweep, Retry
<1>3. \A c \in Clients : Sound(client'[c], conn'[c], quiet'[c])
  BY <1>1, Zenon DEF CallsInv
<1>4. \A c \in Clients : /\ conn'[c].state = "backlog" => hostPc' = "up"
                         /\ conn'[c].state = "open" => hostPc' \in {"up", "closing"}
  BY <1>1, <1>2 DEF CallsInv, HasHost, Open
<1>5. DOMAIN client' = Clients /\ DOMAIN conn' = Clients /\ DOMAIN quiet' = Clients
  BY <1>1 DEF CallsInv
<1> QED BY <1>3, <1>4, <1>5, AllCalls

\* Whoever was not accepted yet is turned away.
LEMMA BeginCloseSoundly ==
  ASSUME CallsInv, BeginClose
  PROVE  CallsInv'
<1>1. /\ hostPc' = "closing" /\ UNCHANGED <<client, quiet>>
      /\ conn' = [c \in Clients |-> IF conn[c].state = "backlog"
                                    THEN [conn[c] EXCEPT !.state = "reset"] ELSE conn[c]]
  BY DEF BeginClose
<1>2. ASSUME NEW c \in Clients
      PROVE  Sound(client[c], conn'[c], quiet[c]) /\ conn'[c].state # "backlog"
  <2> DEFINE cl == client[c]
             cn == conn[c]
             cn2 == [cn EXCEPT !.state = "reset"]
  <2>1. Sound(cl, cn, quiet[c])
    BY DEF CallsInv
  <2>2. CASE cn.state # "backlog"
    <3>1. conn'[c] = cn
      BY <1>1, <2>2
    <3> QED BY <2>1, <2>2, <3>1
  <2>3. CASE cn.state = "backlog"
    <3>1. conn'[c] = cn2
      BY <1>1, <2>3
    <3>2. /\ cl \in CallRecords /\ cn \in ConnRecords /\ quiet[c] \in 0..Timeout
          /\ cl.pc = "waiting" /\ WaitingIsSound(cl, cn, quiet[c])
      BY <2>3, MadeIsSound DEF NoConn, SettledIsSound
    <3> HIDE DEF cl, cn
    <3>3. /\ cn2 \in ConnRecords /\ cn2.state = "reset" /\ cn2.down = cn.down
          /\ cn2.handled = cn.handled /\ cn2.handler = cn.handler /\ cn2.aborted = cn.aborted
      BY <3>2 DEF ConnRecords
    <3>4. Unread(cl, cn2)
      BY <2>3, <3>2, <3>3 DEF WaitingIsSound, Unread, Worked, Answered, Lost
    <3>5. Sound(cl, cn2, quiet[c])
      BY <3>2, <3>3, <3>4 DEF Sound, WaitingIsSound
    <3> QED BY <3>1, <3>3, <3>5 DEF cl
  <2> QED BY <2>2, <2>3
<1>3. DOMAIN client' = Clients /\ DOMAIN conn' = Clients /\ DOMAIN quiet' = Clients
  BY <1>1 DEF CallsInv
<1>4. \A c \in Clients : Sound(client'[c], conn'[c], quiet'[c])
  BY <1>1, <1>2, Zenon
<1> QED BY <1>1, <1>2, <1>3, <1>4, AllCalls

\* The host dies with its handlers: a call that waits is reset behind what had
\* come for it.
LEMMA HostDiesSoundly ==
  ASSUME CallsInv, HostDies
  PROVE  CallsInv'
<1>1. hostPc' = "dead" /\ UNCHANGED <<client, quiet>>
  BY DEF HostDies
<1> DEFINE State(c) == IF Open(c) THEN "reset" ELSE IF conn[c].state = "left" THEN "closed" ELSE conn[c].state
           Handler(c) == IF conn[c].handler = "running" THEN "killed" ELSE conn[c].handler
           Dead(c) == [conn[c] EXCEPT !.state = State(c), !.handler = Handler(c)]
<1>2. conn' = [c \in Clients |-> Dead(c)]
  BY Zenon DEF HostDies
<1>3. ASSUME NEW c \in Clients
      PROVE  Sound(client[c], Dead(c), quiet[c]) /\ Dead(c).state \notin {"backlog", "open"}
  <2> DEFINE cl == client[c]
             cn == conn[c]
             cn2 == Dead(c)
  <2>1. Sound(cl, cn, quiet[c])
    BY DEF CallsInv
  <2>2. cl \in CallRecords /\ cn \in ConnRecords /\ quiet[c] \in 0..Timeout
    BY <2>1 DEF Sound
  <2>3. /\ cn2 \in ConnRecords /\ cn2.down = cn.down /\ cn2.handled = cn.handled /\ cn2.aborted = cn.aborted
        /\ cn2.state = (IF cn.state \in {"backlog", "open"} THEN "reset"
                        ELSE IF cn.state = "left" THEN "closed" ELSE cn.state)
        /\ cn2.handler = IF cn.handler = "running" THEN "killed" ELSE cn.handler
    BY <2>2 DEF ConnRecords, Open
  <2>4. CASE cn = NoConn
    <3>1. Dead(c) = NoConn
      <4>1. State(c) = "none" /\ Handler(c) = "none"
        BY <2>4 DEF NoConn, Open
      <4>2. Dead(c) = [NoConn EXCEPT !.state = "none", !.handler = "none"]
        BY <2>4, <4>1
      <4>3. [NoConn EXCEPT !.state = "none"] = NoConn
        BY DEF NoConn
      <4>4. [NoConn EXCEPT !.handler = "none"] = NoConn
        BY DEF NoConn
      <4> QED BY <4>2, <4>3, <4>4
    <3> QED BY <2>1, <2>4, <3>1 DEF NoConn
  <2>5. CASE cn # NoConn
    <3>1. /\ cl.pc \in {"waiting", "settled"}
          /\ cl.pc = "waiting" => WaitingIsSound(cl, cn, quiet[c])
          /\ cl.pc = "settled" => SettledIsSound(cl, cn)
      BY <2>5, MadeIsSound
    <3> HIDE DEF cl, cn, cn2
    <3>2. ASSUME cl.pc = "waiting" PROVE WaitingIsSound(cl, cn2, quiet[c])
      <4>1. CASE Unread(cl, cn)
        BY <2>3, <3>1, <3>2, <4>1 DEF WaitingIsSound, Unread
      <4>2. CASE Worked(cl, cn, quiet[c])
        BY <2>3, <3>1, <3>2, <4>2 DEF WaitingIsSound, Worked, Lost
      <4>3. CASE Answered(cl, cn)
        BY <2>3, <3>1, <3>2, <4>3 DEF WaitingIsSound, Answered
      <4>4. CASE Lost(cl, cn)
        BY <2>3, <3>1, <3>2, <4>4 DEF WaitingIsSound, Lost
      <4> QED BY <3>1, <3>2, <4>1, <4>2, <4>3, <4>4 DEF WaitingIsSound
    <3>3. cl.pc = "settled" => SettledIsSound(cl, cn2)
      BY <2>3, <3>1 DEF SettledIsSound
    <3>4. Sound(cl, cn2, quiet[c]) /\ cn2.state \notin {"backlog", "open"}
      BY <2>2, <2>3, <3>1, <3>2, <3>3 DEF Sound
    <3> QED BY <3>4 DEF cl, cn2
  <2> QED BY <2>4, <2>5
<1> HIDE DEF Dead
<1>4. \A c \in Clients : conn'[c] = Dead(c)
  BY <1>2
<1>5. DOMAIN client' = Clients /\ DOMAIN conn' = Clients /\ DOMAIN quiet' = Clients
  BY <1>1, <1>2 DEF CallsInv
<1>6. \A c \in Clients : Sound(client'[c], conn'[c], quiet'[c]) /\ conn'[c].state \notin {"backlog", "open"}
  BY <1>1, <1>3, <1>4, Zenon
<1> QED BY <1>1, <1>5, <1>6, AllCalls

\* Time passes for a call only while its handler works in silence.
LEMMA TickSoundly ==
  ASSUME CallsInv, Tick
  PROVE  CallsInv'
<1>1. UNCHANGED <<root, hostState, conn>>
  BY DEF Tick
<1>2. /\ quiet' = [c \in Clients |-> IF Running(c) THEN Least(quiet[c] + 1, Timeout) ELSE quiet[c]]
      /\ client' = [c \in Clients |->
           IF Waiting(c) THEN [client[c] EXCEPT !.timer = @ + 1, !.silence = quiet'[c]] ELSE client[c]]
  BY DEF Tick
<1>3. Timeout \in Nat \ {0}
  BY TransportAssumption
<1>4. ASSUME NEW c \in Clients PROVE Sound(client'[c], conn[c], quiet'[c])
  <2> DEFINE cl == client[c]
             cn == conn[c]
             ticks == quiet'[c]
  <2>1. Sound(cl, cn, quiet[c]) /\ HasHost(cn)
    BY DEF CallsInv
  <2>2. cl \in CallRecords /\ cn \in ConnRecords /\ quiet[c] \in 0..Timeout
    BY <2>1 DEF Sound
  <2>3. ticks = IF Running(c) THEN Least(quiet[c] + 1, Timeout) ELSE quiet[c]
    BY <1>2
  <2>4. ticks \in 0..Timeout
    BY <1>3, <2>2, <2>3 DEF Least
  <2>5. CASE cl.pc # "waiting"
    <3>1. client'[c] = cl
      BY <1>2, <2>5 DEF Waiting
    <3> HIDE DEF ticks, cl, cn
    <3>2. Sound(cl, cn, ticks)
      BY <2>1, <2>4, <2>5 DEF Sound
    <3> QED BY <3>1, <3>2 DEF cn, ticks
  <2>6. CASE cl.pc = "waiting"
    <3> DEFINE cl2 == [cl EXCEPT !.timer = cl.timer + 1, !.silence = ticks]
    <3>1. client'[c] = cl2
      BY <1>2, <2>6 DEF Waiting
    <3>2. WaitingIsSound(cl, cn, quiet[c])
      BY <2>1, <2>6 DEF Sound
    <3>3. /\ cn.down = <<>> /\ cn.state # "reset" /\ cl.timer < Timeout
          /\ cn.state = "open" => cn.up = <<>>
          /\ ~(cn.state = "backlog" /\ hostPc = "up")
      BY <2>6 DEF Tick, InFlight, Waiting
    <3>4. Worked(cl, cn, quiet[c])
      <4>1. ~Unread(cl, cn)
        BY <2>1, <3>3 DEF Unread, HasHost
      <4>2. ~Answered(cl, cn)
        BY <3>3, EmptySeq DEF Answered, AnswerAhead
      <4>3. ~Lost(cl, cn)
        BY <3>3 DEF Lost
      <4> QED BY <3>2, <4>1, <4>2, <4>3 DEF WaitingIsSound
    <3>5. Running(c) /\ cl.timer <= quiet[c]
      BY <2>1, <3>3, <3>4 DEF Worked, Running, HasHost
    <3>6. cl.timer \in Nat /\ cl.timer + 1 <= ticks /\ (cl.timer + 1 = Timeout => ticks = Timeout)
      <4>1. ticks = Least(quiet[c] + 1, Timeout) /\ cl.timer \in Nat
        BY <2>2, <2>3, <3>5 DEF CallRecords
      <4> HIDE DEF ticks, cl
      <4> QED BY <1>3, <2>2, <3>3, <3>5, <4>1 DEF Least
    <3> HIDE DEF ticks, cl, cn
    <3>7. /\ cl2 \in CallRecords /\ cl2.pc = "waiting" /\ cl2.timer = cl.timer + 1 /\ cl2.silence = ticks
          /\ cl2.buffer = cl.buffer /\ cl2.outcome = cl.outcome
      <4>1. ticks \in Nat /\ cl.timer + 1 \in Nat
        BY <1>3, <2>4, <3>6
      <4> QED BY <2>2, <2>6, <4>1 DEF CallRecords
    <3>8. Worked(cl2, cn, ticks)
      BY <3>4, <3>6, <3>7 DEF Worked
    <3>9. Sound(cl2, cn, ticks)
      BY <2>2, <2>4, <3>2, <3>6, <3>7, <3>8 DEF Sound, WaitingIsSound
    <3> QED BY <3>1, <3>9 DEF cn, ticks
  <2> QED BY <2>5, <2>6
<1>5. DOMAIN client' = Clients /\ DOMAIN conn' = Clients /\ DOMAIN quiet' = Clients
  BY <1>1, <1>2 DEF CallsInv
<1>6. \A c \in Clients : Sound(client'[c], conn'[c], quiet'[c])
  BY <1>1, <1>4, Zenon
<1>7. \A c \in Clients : /\ conn'[c].state = "backlog" => hostPc' = "up"
                         /\ conn'[c].state = "open" => hostPc' \in {"up", "closing"}
  BY <1>1 DEF CallsInv, HasHost, hostState
<1> QED BY <1>5, <1>6, <1>7, AllCalls
-----------------------------------------------------------------------------
\* No call has begun.
LEMMA InitCalls == TransportInit => CallsInv
<1> SUFFICES ASSUME TransportInit PROVE CallsInv
  OBVIOUS
<1> DEFINE idle == [pc |-> "idle", path |-> "new", timer |-> 0, buffer |-> 0,
                    outcome |-> "none", silence |-> 0]
<1>1. client = [c \in Clients |-> idle] /\ conn = [c \in Clients |-> NoConn] /\ quiet = [c \in Clients |-> 0]
  BY DEF TransportInit
<1>2. idle \in CallRecords
  BY DEF CallRecords, Paths
<1>3. NoConn \in ConnRecords
  BY EmptySeq DEF NoConn, ConnRecords, Requests
<1>4. 0 \in 0..Timeout
  BY TransportAssumption
<1>5. Sound(idle, NoConn, 0)
  BY <1>2, <1>3, <1>4 DEF Sound
<1>6. HasHost(NoConn)
  BY DEF HasHost, NoConn
<1> HIDE DEF idle
<1> QED BY <1>1, <1>5, <1>6 DEF CallsInv

\* One step per action: the invariant of the transport is inductive.
LEMMA TransportKeeps == HostInv /\ CallsInv /\ [TransportNext]_transportVars => HostInv' /\ CallsInv'
<1> SUFFICES ASSUME HostInv, CallsInv, [TransportNext]_transportVars PROVE HostInv' /\ CallsInv'
  OBVIOUS
<1>1. CASE HostSteps \/ Sweep
  BY <1>1, ListeningHost, HostLeavesCalls
<1>2. CASE BeginClose
  BY <1>2, ClosingHost, BeginCloseSoundly
<1>3. CASE HostDies
  BY <1>3, ClosingHost, HostDiesSoundly
<1>4. CASE Tick
  <2>1. UNCHANGED <<root, hostState>>
    BY <1>4 DEF Tick
  <2> QED BY <1>4, <2>1, HostStays, TickSoundly
<1>5. ASSUME NEW c \in Clients, ClientSteps(c) \/ Abort(c) PROVE HostInv' /\ CallsInv'
  <2>1. UNCHANGED <<root, hostState>>
    BY <1>5 DEF ClientSteps, Call, Connect, Receive, Reset, TimesOut, Abort
  <2>2. CallsInv'
    BY <1>5, CallSoundly, ConnectSoundly, ReceiveSoundly, EndsSoundly DEF ClientSteps
  <2> QED BY <2>1, <2>2, HostStays
<1>6. ASSUME NEW c \in Clients, ServerSteps(c) \/ KeepAlive(c) \/ HandlerEnds(c) PROVE HostInv' /\ CallsInv'
  <2>1. UNCHANGED <<root, hostState>>
    BY <1>6 DEF ServerSteps, Accept, ReadRequest, ServerCloses, KeepAlive, HandlerEnds
  <2>2. CallsInv'
    BY <1>6, AcceptSoundly, ReadSoundly, ServerClosesSoundly, KeepAliveSoundly, HandlerEndsSoundly
       DEF ServerSteps
  <2> QED BY <2>1, <2>2, HostStays
<1>7. CASE UNCHANGED transportVars
  <2>1. UNCHANGED <<root, hostState>> /\ UNCHANGED <<client, conn, quiet>> /\ hostPc' = hostPc
    BY <1>7 DEF transportVars, hostState
  <2>2. \A c \in Clients : Sound(client'[c], conn'[c], quiet'[c])
    BY <2>1, Zenon DEF CallsInv
  <2>3. CallsInv'
    BY <2>1, <2>2, AllCalls DEF CallsInv, HasHost
  <2> QED BY <2>1, <2>3, HostStays
<1> QED BY <1>1, <1>2, <1>3, <1>4, <1>5, <1>6, <1>7 DEF TransportNext

\* A host that cannot listen met a root of another user, or its folder was taken
\* away at every one of its attempts (host/lifecycle.ts:503), however cleanups
\* of other sessions fall between its steps.
THEOREM ListenSurvives == TransportSpec => []ListenSurvivesCleanups
<1>1. TransportInit => HostInv /\ CallsInv
  BY InitHost, InitCalls
<1>2. HostInv => ListenSurvivesCleanups
  BY DEF HostInv
<1> QED BY <1>1, <1>2, TransportKeeps, PTL DEF TransportSpec

\* Every call gets the outcome that is true (host/rpcClient.ts:209, :247): a
\* result comes from a handler that ended, an answer that the server lets
\* through is never refused for its size, and only a handler that was silent
\* for the whole timeout is given up.
THEOREM CallsStayTrue == TransportSpec => []CallsAreTrue
<1>1. TransportInit => HostInv /\ CallsInv
  BY InitHost, InitCalls
<1>2. CallsInv => CallsAreTrue
  <2> SUFFICES ASSUME CallsInv, NEW c \in Clients
               PROVE  /\ client[c].outcome = "ok" => conn[c].handler = "done"
                      /\ client[c].outcome # "oversized"
                      /\ client[c].outcome = "timeout" => client[c].silence = Timeout
    BY DEF CallsAreTrue
  <2>1. Sound(client[c], conn[c], quiet[c])
    BY DEF CallsInv
  <2>2. client[c].pc \in {"idle", "connect", "waiting", "settled"}
    BY <2>1 DEF Sound, CallRecords
  <2> QED BY <2>1, <2>2 DEF Sound, WaitingIsSound, SettledIsSound
<1> QED BY <1>1, <1>2, TransportKeeps, PTL DEF TransportSpec
=============================================================================
