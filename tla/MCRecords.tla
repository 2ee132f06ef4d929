----------------------------- MODULE MCRecords -----------------------------
(* Components that keep what was written, or report of it: the event log,   *)
(* the artifacts, the sentinel feed and a batch, each on its own. `part`    *)
(* says which of them goes through its steps while the others stay as they  *)
(* begin. Captures and exports meet only at the manifest's lock, and are    *)
(* parts of their own.                                                      *)
(*                                                                          *)
(* The event log has a limit of 9 bytes and 6 entries, lines of 1 and 3     *)
(* bytes, and files that `open` may find: none, blank lines with and        *)
(* without room, a nearly full file of another writer, a stopped log.       *)
EXTENDS EventLog, ArtifactStore, MCSentinelFeed, MCBatch, TLC

VARIABLE part

Foreign(seq, kind, end) ==
  [seq |-> seq, kind |-> kind, bytes |-> 1, end |-> end, by |-> NoCall]

MCInitialLogs ==
  { [lines |-> <<>>, size |-> 0],
    [lines |-> <<>>, size |-> 6],
    [lines |-> <<>>, size |-> 8],
    [lines |-> <<Foreign(0, "data", 8)>>, size |-> 8],
    [lines |-> <<Foreign(0, "data", 1), Foreign(1, "stop", 6)>>, size |-> 6] }

Symmetry == Permutations(Calls)

LogStep(A) == part = "log" /\ A /\ UNCHANGED <<part, storeVars, feedVars, batchVars>>
StoreStep(A) == part \in {"captures", "exports"} /\ A /\ UNCHANGED <<part, vars, feedVars, batchVars>>
FeedStep(A) == part = "feed" /\ A /\ UNCHANGED <<part, vars, storeVars, batchVars>>
BatchStep(A) == part = "batch" /\ A /\ UNCHANGED <<part, vars, storeVars, feedVars>>

Some(S) == CHOOSE e \in S : TRUE
Varied(mine, S) == IF part \in mine THEN S ELSE {Some(S)}

RecordsInit ==
  /\ part \in {"log", "captures", "exports", "feed", "batch"}
  /\ input \in Varied({"feed"}, Inputs) /\ FeedInit
  /\ \E log \in Varied({"log"}, InitialLogs) : file = log.lines /\ fileSize = log.size
  /\ Init
  /\ \E captures \in [Captures -> Varied({"captures"}, Bytes)], exports \in [Exports -> Varied({"exports"}, Bytes)] :
       task = [t \in Tasks |-> FreshTask(IF t \in Captures THEN captures[t] ELSE exports[t])]
  /\ StoreInit
  /\ BatchInit
  /\ part = "batch" \/ (plan = Some(Plans) /\ keepGoing)

RecordsNext ==
  \/ LogStep(Next) \/ FeedStep(FeedNext) \/ BatchStep(BatchNext)
  \/ StoreStep(BreakLock \/ \E t \in IF part = "captures" THEN Captures ELSE Exports : TaskStep(t))

RecordsSpec == RecordsInit /\ [][RecordsNext]_<<part, vars, storeVars, feedVars, batchVars>>
=============================================================================
