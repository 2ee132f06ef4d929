-------------------------- MODULE CaptureProofs --------------------------
(***************************************************************************)
(* Proofs about what a capture shows and what becomes of its file.         *)
(*                                                                         *)
(* The renderers of a host, for every set of requests, every choice of     *)
(* what they ask, and every bound: the inductive invariant says what a     *)
(* backend holds, who may touch it, and where a call aims.                 *)
(*                                                                         *)
(* The artifacts of a session, for every set of captures and exports, all  *)
(* bytes and any number of variants of a name: what makes the invariant    *)
(* inductive is the lock. Between its publication and its entry a          *)
(* capture's file is safe because nobody else may touch the folder.        *)
(*                                                                         *)
(* That lock, for any number of writers and calls, of dead and of unknown  *)
(* owners and of crashes, as long as no writer is stopped for over 60 s.   *)
(* Two facts carry it: of two breakers that both have listed the           *)
(* announcements one still has to look at the other's, and a lock that was *)
(* judged stale is one that no running call has or will ever take.         *)
(***************************************************************************)
EXTENDS HostRenderer, ArtifactStore, ManifestLock, SequenceTheorems, TLAPS
-----------------------------------------------------------------------------
(* The renderers of a host *)

BackendKeys == {"none"} \cup {Key(r) : r \in Requests}

Backends ==
  [key : BackendKeys, booted : BOOLEAN,
   lastAppliedSeq : Int, screen : Seq(Int), from : Int, to : Int]

\* "refused" is missing: no backend is asked to rewind.
Stages == {"absent", "pending"} \cup Queued

Shapes ==
  /\ last \in Int /\ last >= -1 /\ last <= MaxSeq
  /\ queue \in [Managers -> Seq(Requests \cup {"dispose"})]
  /\ backend \in [Managers -> Backends]
  /\ appliedSeq \in [Managers -> Int]
  /\ stage \in [Requests -> Stages]
  /\ target \in [Requests -> Int]
  /\ next \in [Requests -> Nat]
  /\ asked \in [Requests -> Int]

\* A backend holds the log up to its position, and the manager knows at most that.
BackendsHoldTheLog ==
  \A m \in Managers :
    /\ -1 <= appliedSeq[m] /\ appliedSeq[m] <= backend[m].lastAppliedSeq
    /\ backend[m].lastAppliedSeq <= last
    /\ backend[m].screen = Events(0, backend[m].lastAppliedSeq)

\* Past its place in the queue, a call is at the head of the queue.
Underway(r) == stage[r] \in {"booting", "replaying", "operating"}
OnlyTheHeadRuns == \A r \in Requests : Underway(r) => AtWork(r)

\* A call aims behind what its backend holds and what its client knew of.
AimsAhead(r) ==
  /\ stage[r] = "queued" => asked[r] <= last
  /\ Underway(r) => /\ asked[r] <= target[r] /\ target[r] <= last
                    /\ Mine(r).lastAppliedSeq <= target[r]
  /\ stage[r] = "replaying" => next[r] <= Mine(r).lastAppliedSeq + 1
  /\ stage[r] = "operating" =>
       /\ Mine(r).lastAppliedSeq = target[r]
       /\ Mine(r).from = 0 /\ Mine(r).to = target[r]

Inv ==
  /\ Shapes /\ BackendsHoldTheLog /\ OnlyTheHeadRuns
  /\ \A r \in Requests : AimsAhead(r)
-----------------------------------------------------------------------------
\* Runs of events are sequences of seqs.
LEMMA EventsType ==
  ASSUME NEW a \in Int, NEW b \in Int
  PROVE  Events(a, b) \in Seq(Int)
BY DEF Events

\* Before the first event there is nothing.
LEMMA NoEvents == Events(0, -1) = << >>
BY DEF Events

\* Two runs of events that meet are one.
LEMMA EventsJoin ==
  ASSUME NEW n \in Int, NEW k \in Int, -1 <= n, n <= k
  PROVE  Events(0, n) \o Events(n + 1, k) = Events(0, k)
<1> DEFINE front == Events(0, n)
           back  == Events(n + 1, k)
           all   == Events(0, k)
<1>1. /\ front \in Seq(Int) /\ Len(front) = n + 1
      /\ back \in Seq(Int) /\ Len(back) = k - n
      /\ all \in Seq(Int) /\ Len(all) = k + 1
      /\ \A i \in 1 .. n + 1 : front[i] = i - 1
      /\ \A i \in 1 .. k - n : back[i] = n + i
      /\ \A i \in 1 .. k + 1 : all[i] = i - 1
  BY n \in Int, k \in Int DEF Events
<1> HIDE DEF front, back, all
<1>2. /\ front \o back \in Seq(Int) /\ Len(front \o back) = Len(front) + Len(back)
      /\ \A i \in 1 .. Len(front) + Len(back) :
           (front \o back)[i] = IF i <= Len(front) THEN front[i] ELSE back[i - Len(front)]
  BY <1>1, ConcatProperties
<1> DEFINE both == front \o back
<1> HIDE DEF both
<1>3. /\ both \in Seq(Int) /\ Len(both) = k + 1
      /\ \A i \in 1 .. k + 1 : both[i] = IF i <= n + 1 THEN front[i] ELSE back[i - (n + 1)]
  BY <1>1, <1>2, n \in Int, k \in Int, SMTT(40) DEF both
<1>4. \A i \in 1 .. k + 1 : both[i] = all[i]
  <2> SUFFICES ASSUME NEW i \in 1 .. k + 1 PROVE both[i] = all[i]
    OBVIOUS
  <2>1. CASE i <= n + 1
    <3>1. i \in 1 .. n + 1
      BY <2>1, n \in Int, k \in Int
    <3> QED BY <1>1, <1>3, <2>1, <3>1
  <2>2. CASE ~(i <= n + 1)
    <3>1. i - (n + 1) \in 1 .. k - n /\ n + (i - (n + 1)) = i - 1
      BY <2>2, n \in Int, k \in Int
    <3>2. both[i] = back[i - (n + 1)] /\ back[i - (n + 1)] = i - 1
      BY <1>1, <1>3, <2>2, <3>1
    <3> QED BY <1>1, <3>2
  <2> QED BY <2>1, <2>2
<1>5. both = all
  BY <1>1, <1>3, <1>4, SeqEqual
<1> QED BY <1>5 DEF both, front, back, all

\* Every request has its manager.
LEMMA ManagersOfRequests == \A r \in Requests : ManagerOf(r) \in Managers
BY DEF ManagerOf, Managers

\* A replay leaves a backend with the whole log up to its position, which is
\* no less than the last event it was given, from a place it had reached.
LEMMA ReplayHoldsTheLog ==
  ASSUME NEW b \in Backends, NEW from \in Nat, NEW to \in Int, NEW goal \in Int,
         -1 <= b.lastAppliedSeq, b.screen = Events(0, b.lastAppliedSeq),
         b.lastAppliedSeq <= goal, from <= b.lastAppliedSeq + 1,
         -1 <= to, to <= goal, from <= to \/ to = goal,
         NEW c, c = ReplayTo(b, from, to, goal)
  PROVE  /\ c \in Backends /\ c.screen = Events(0, c.lastAppliedSeq)
         /\ b.lastAppliedSeq <= c.lastAppliedSeq /\ c.lastAppliedSeq <= goal
         /\ to <= c.lastAppliedSeq
         /\ c.from = from /\ c.to = to
<1> DEFINE n == b.lastAppliedSeq
<1>1. /\ n \in Int /\ -1 <= n /\ n <= goal /\ from <= n + 1
      /\ b.screen \in Seq(Int) /\ b.screen = Events(0, n)
  BY b \in Backends DEF Backends
<1>2. c = [b EXCEPT !.screen = b.screen \o Events(n + 1, to),
                    !.lastAppliedSeq = IF n + 1 <= to THEN to ELSE IF n < 0 THEN goal ELSE n,
                    !.from = from, !.to = to]
  <2>1. Larger(from, n + 1) = n + 1 /\ Smaller(to, goal) = to
    BY <1>1, from \in Nat, to \in Int, goal \in Int DEF Larger, Smaller
  <2> QED BY <2>1 DEF ReplayTo
<1>3. PICK k \in Int : /\ c = [b EXCEPT !.screen = Events(0, k), !.lastAppliedSeq = k,
                                       !.from = from, !.to = to]
                       /\ n <= k /\ k <= goal /\ to <= k
  <2> HIDE DEF n
  <2>1. CASE n + 1 <= to
    <3>1. b.screen \o Events(n + 1, to) = Events(0, to)
      <4>1. n <= to
        BY <1>1, <2>1, to \in Int
      <4>2. Events(0, n) \o Events(n + 1, to) = Events(0, to)
        BY <1>1, <4>1, to \in Int, EventsJoin
      <4> QED BY <1>1, <4>2
    <3>2. c = [b EXCEPT !.screen = Events(0, to), !.lastAppliedSeq = to,
                        !.from = from, !.to = to]
      BY <1>2, <2>1, <3>1
    <3>3. n <= to /\ to <= goal /\ to <= to
      BY <1>1, <2>1, to \in Int
    <3> WITNESS to \in Int
    <3> QED BY <3>2, <3>3
  <2>2. CASE ~(n + 1 <= to)
    <3>1. b.screen \o Events(n + 1, to) = b.screen
      <4>1. Events(n + 1, to) = << >>
        BY <1>1, <2>2, to \in Int DEF Events
      <4> QED BY <1>1, <4>1, ConcatEmptySeq
    <3>2. n < 0 => goal = n
      BY <1>1, <2>2, from \in Nat, to \in Int, goal \in Int
    <3>3. c = [b EXCEPT !.screen = Events(0, n), !.lastAppliedSeq = n,
                        !.from = from, !.to = to]
      BY <1>1, <1>2, <2>2, <3>1, <3>2
    <3>4. n \in Int /\ n <= n /\ n <= goal /\ to <= n
      BY <1>1, <2>2, to \in Int
    <3> n \in Int
      BY <1>1
    <3> WITNESS n \in Int
    <3> QED BY <3>3, <3>4
  <2> QED BY <2>1, <2>2
<1>4. /\ c.screen = Events(0, k) /\ c.lastAppliedSeq = k /\ c.from = from /\ c.to = to
  BY <1>3, b \in Backends DEF Backends
<1>5. c \in Backends
  <2>1. Events(0, k) \in Seq(Int)
    BY EventsType
  <2>2. c = [key |-> b.key, booted |-> b.booted, lastAppliedSeq |-> k,
             screen |-> Events(0, k), from |-> from, to |-> to]
    BY <1>3, b \in Backends DEF Backends
  <2>3. b.key \in BackendKeys /\ b.booted \in BOOLEAN
    BY b \in Backends DEF Backends
  <2> QED BY <2>1, <2>2, <2>3, k \in Int, from \in Nat, to \in Int DEF Backends
<1> QED BY <1>3, <1>4, <1>5
-----------------------------------------------------------------------------
\* The invariant holds in a host that has just started.
LEMMA InitInv == RendererInit => Inv
<1> SUFFICES ASSUME RendererInit PROVE Inv
  OBVIOUS
<1>1. NoBackend \in Backends
  BY DEF NoBackend, Backends, BackendKeys
<1>2. Shapes
  BY <1>1, BoundsAssumption DEF RendererInit, Shapes, Stages, Queued
<1>3. BackendsHoldTheLog
  BY NoEvents DEF RendererInit, BackendsHoldTheLog, NoBackend
<1>4. \A r \in Requests : ~Underway(r) /\ AimsAhead(r)
  BY DEF RendererInit, Underway, AimsAhead
<1> QED BY <1>2, <1>3, <1>4 DEF Inv, OnlyTheHeadRuns

\* Behind the head of its manager nobody is under way.
LEMMA OthersWait ==
  ASSUME Inv, NEW r \in Requests, AtWork(r),
         NEW q \in Requests, q # r, ManagerOf(q) = ManagerOf(r)
  PROVE  ~Underway(q)
BY DEF Inv, OnlyTheHeadRuns, AtWork

\* A step of the head of a queue, which may leave it, disturbs no other call.
LEMMA HeadStep ==
  ASSUME Inv, NEW r \in Requests, AtWork(r), Shapes', BackendsHoldTheLog', last <= last',
         \A q \in Requests \ {r} : /\ stage'[q] = stage[q] /\ target'[q] = target[q]
                                   /\ next'[q] = next[q] /\ asked'[q] = asked[q],
         \A m \in Managers \ {ManagerOf(r)} : backend'[m] = backend[m] /\ queue'[m] = queue[m],
         Underway(r)' => AtWork(r)', AimsAhead(r)'
  PROVE  Inv'
<1>1. ASSUME NEW q \in Requests, q # r
      PROVE  (Underway(q)' => AtWork(q)') /\ AimsAhead(q)'
  <2>1. asked[q] \in Int /\ target[q] \in Int /\ last \in Int /\ last' \in Int
    BY DEF Inv, Shapes
  <2>2. Underway(q)' = Underway(q)
    BY <1>1 DEF Underway
  <2>3. CASE ManagerOf(q) = ManagerOf(r)
    <3>1. ~Underway(q)'
      BY <1>1, <2>2, <2>3, OthersWait
    <3> QED BY <1>1, <2>1, <3>1 DEF Inv, AimsAhead, Underway
  <2>4. CASE ManagerOf(q) # ManagerOf(r)
    <3>1. backend'[ManagerOf(q)] = backend[ManagerOf(q)] /\ queue'[ManagerOf(q)] = queue[ManagerOf(q)]
      BY <2>4, ManagersOfRequests
    <3>2. Mine(q)' = Mine(q) /\ (AtWork(q)' <=> AtWork(q))
      BY <3>1 DEF Mine, AtWork
    <3>3. Underway(q)' => AtWork(q)'
      BY <2>2, <3>2 DEF Inv, OnlyTheHeadRuns
    <3>4. AimsAhead(q)'
      BY <1>1, <2>1, <2>2, <3>2 DEF Inv, AimsAhead
    <3> QED BY <3>3, <3>4
  <2> QED BY <2>3, <2>4
<1> QED BY <1>1 DEF Inv, OnlyTheHeadRuns

\* A step that leaves the calls under way and their backends alone.
LEMMA OtherStep ==
  ASSUME Inv, Shapes', BackendsHoldTheLog', last <= last',
         UNCHANGED <<target, next>>,
         \A q \in Requests : Underway(q)' => stage'[q] = stage[q],
         \A q \in Requests : Underway(q) =>
           /\ AtWork(q)' /\ Mine(q)'.lastAppliedSeq = Mine(q).lastAppliedSeq
           /\ Mine(q)'.from = Mine(q).from /\ Mine(q)'.to = Mine(q).to
           /\ asked'[q] = asked[q],
         \A q \in Requests : stage'[q] = "queued" => asked'[q] <= last'
  PROVE  Inv'
<1>1. ASSUME NEW q \in Requests
      PROVE  (Underway(q)' => AtWork(q)') /\ AimsAhead(q)'
  <2>1. asked[q] \in Int /\ target[q] \in Int /\ last \in Int /\ last' \in Int
    BY DEF Inv, Shapes
  <2>2. CASE Underway(q)'
    <3>1. stage'[q] = stage[q] /\ Underway(q)
      BY <2>2 DEF Underway
    <3> QED BY <2>1, <2>2, <3>1 DEF Inv, AimsAhead, Underway
  <2>3. CASE ~Underway(q)'
    BY <2>3 DEF AimsAhead, Underway
  <2> QED BY <2>2, <2>3
<1> QED BY <1>1 DEF Inv, OnlyTheHeadRuns

\* A call that ends.
LEMMA LeaveStep ==
  ASSUME Inv, NEW r \in Requests, AtWork(r), NEW how \in {"absent", "pending"}, Leave(r, how),
         last' \in Int, last <= last', last' <= MaxSeq,
         \A m \in Managers \ {ManagerOf(r)} : backend'[m] = backend[m],
         backend' \in [Managers -> Backends], appliedSeq' \in [Managers -> Int],
         BackendsHoldTheLog'
  PROVE  Inv'
<1>1. ManagerOf(r) \in Managers
  BY ManagersOfRequests
<1>2. Tail(queue[ManagerOf(r)]) \in Seq(Requests \cup {"dispose"})
  BY <1>1, HeadTailProperties DEF Inv, Shapes, AtWork
<1>3. how \in Stages
  BY DEF Stages
<1>4. last' >= -1 /\ last' <= MaxSeq
  BY last' \in Int DEF Inv, Shapes
<1>5. Shapes'
  <2>1. queue' \in [Managers -> Seq(Requests \cup {"dispose"})]
    BY <1>1, <1>2 DEF Inv, Shapes, Leave
  <2>2. stage' \in [Requests -> Stages]
    BY <1>3 DEF Inv, Shapes, Leave
  <2>3. /\ target' \in [Requests -> Int] /\ next' \in [Requests -> Nat]
        /\ asked' \in [Requests -> Int]
    BY DEF Inv, Shapes, Leave
  <2> QED BY <1>4, <2>1, <2>2, <2>3 DEF Shapes
<1>6. stage'[r] = how /\ asked'[r] = -1
  BY DEF Inv, Shapes, Leave
<1>7. ~Underway(r)' /\ AimsAhead(r)'
  BY <1>6 DEF Underway, AimsAhead
<1>8. \A q \in Requests \ {r} : /\ stage'[q] = stage[q] /\ target'[q] = target[q]
                                /\ next'[q] = next[q] /\ asked'[q] = asked[q]
  BY DEF Inv, Shapes, Leave
<1>9. \A m \in Managers \ {ManagerOf(r)} : backend'[m] = backend[m] /\ queue'[m] = queue[m]
  BY <1>1 DEF Inv, Shapes, Leave
<1> QED BY <1>5, <1>7, <1>8, <1>9, HeadStep

\* A backend that takes the place of another one starts with nothing.
LEMMA ReplaceStep ==
  ASSUME Inv, NEW m \in Managers, NEW b \in Backends, Replace(m, b), UNCHANGED last,
         b.lastAppliedSeq = -1, b.screen = << >>
  PROVE  /\ backend' \in [Managers -> Backends] /\ appliedSeq' \in [Managers -> Int]
         /\ backend'[m] = b /\ appliedSeq'[m] = -1
         /\ \A k \in Managers \ {m} : backend'[k] = backend[k] /\ appliedSeq'[k] = appliedSeq[k]
         /\ BackendsHoldTheLog'
<1>1. /\ backend' \in [Managers -> Backends] /\ appliedSeq' \in [Managers -> Int]
      /\ backend'[m] = b /\ appliedSeq'[m] = -1
      /\ \A k \in Managers \ {m} : backend'[k] = backend[k] /\ appliedSeq'[k] = appliedSeq[k]
  BY DEF Inv, Shapes, Replace
<1>2. last \in Int /\ last >= -1 /\ last' = last
  BY DEF Inv, Shapes
<1>3. ASSUME NEW k \in Managers
      PROVE  /\ -1 <= appliedSeq'[k] /\ appliedSeq'[k] <= backend'[k].lastAppliedSeq
             /\ backend'[k].lastAppliedSeq <= last'
             /\ backend'[k].screen = Events(0, backend'[k].lastAppliedSeq)
  <2>1. CASE k = m
    BY <1>1, <1>2, <2>1, NoEvents
  <2>2. CASE k # m
    BY <1>1, <1>2, <2>2 DEF Inv, BackendsHoldTheLog
  <2> QED BY <2>1, <2>2
<1> QED BY <1>1, <1>3 DEF BackendsHoldTheLog

\* New backends hold nothing.
LEMMA FreshBackends ==
  /\ NoBackend \in Backends /\ NoBackend.lastAppliedSeq = -1 /\ NoBackend.screen = << >>
  /\ \A r \in Requests : /\ Fresh(Key(r)) \in Backends
                         /\ Fresh(Key(r)).lastAppliedSeq = -1 /\ Fresh(Key(r)).screen = << >>
<1>1. NoBackend \in Backends /\ NoBackend.lastAppliedSeq = -1 /\ NoBackend.screen = << >>
  BY DEF NoBackend, Backends, BackendKeys
<1>2. ASSUME NEW r \in Requests
      PROVE  /\ Fresh(Key(r)) \in Backends
             /\ Fresh(Key(r)).lastAppliedSeq = -1 /\ Fresh(Key(r)).screen = << >>
  <2>1. Key(r) \in BackendKeys
    BY DEF BackendKeys
  <2>2. Fresh(Key(r)) = [NoBackend EXCEPT !.key = Key(r)]
    BY DEF Fresh
  <2> QED BY <1>1, <2>1, <2>2 DEF Backends
<1> QED BY <1>1, <1>2

\* A backend that has been fed more of the log.
LEMMA FeedStep ==
  ASSUME Inv, NEW m \in Managers, NEW b \in Backends, UNCHANGED last,
         backend' = [backend EXCEPT ![m] = b],
         backend[m].lastAppliedSeq <= b.lastAppliedSeq, b.lastAppliedSeq <= last,
         b.screen = Events(0, b.lastAppliedSeq),
         appliedSeq' \in [Managers -> Int],
         appliedSeq'[m] \in {appliedSeq[m], b.lastAppliedSeq},
         \A k \in Managers \ {m} : appliedSeq'[k] = appliedSeq[k]
  PROVE  /\ backend' \in [Managers -> Backends] /\ backend'[m] = b
         /\ \A k \in Managers \ {m} : backend'[k] = backend[k]
         /\ BackendsHoldTheLog'
<1>1. /\ backend' \in [Managers -> Backends] /\ backend'[m] = b
      /\ \A k \in Managers \ {m} : backend'[k] = backend[k]
  BY DEF Inv, Shapes
<1>2. /\ \A k \in Managers : appliedSeq[k] \in Int /\ backend[k].lastAppliedSeq \in Int
      /\ b.lastAppliedSeq \in Int
  BY DEF Inv, Shapes, Backends
<1>3. ASSUME NEW k \in Managers
      PROVE  /\ -1 <= appliedSeq'[k] /\ appliedSeq'[k] <= backend'[k].lastAppliedSeq
             /\ backend'[k].lastAppliedSeq <= last'
             /\ backend'[k].screen = Events(0, backend'[k].lastAppliedSeq)
  <2>1. CASE k = m
    <3>1. -1 <= appliedSeq[m] /\ appliedSeq[m] <= backend[m].lastAppliedSeq
      BY DEF Inv, BackendsHoldTheLog
    <3> QED BY <1>1, <1>2, <2>1, <3>1
  <2>2. CASE k # m
    BY <1>1, <2>2 DEF Inv, BackendsHoldTheLog
  <2> QED BY <2>1, <2>2
<1> QED BY <1>1, <1>3 DEF BackendsHoldTheLog
-----------------------------------------------------------------------------
(* The steps of a call *)

\* The turn of a call keeps the invariant, whether its backend is kept or replaced.
LEMMA LoadKeeps == ASSUME Inv, NEW r \in Requests, LoadRenderer(r) PROVE Inv'
<1>1. /\ AtWork(r) /\ stage[r] = "queued" /\ ManagerOf(r) \in Managers
      /\ target' = [target EXCEPT ![r] = last]
      /\ UNCHANGED <<last, queue, asked>>
  BY ManagersOfRequests DEF LoadRenderer
<1>2. /\ last \in Int /\ last >= -1 /\ asked[r] \in Int /\ asked[r] <= last
      /\ target' \in [Requests -> Int] /\ target'[r] = last
      /\ \A q \in Requests \ {r} : target'[q] = target[q]
  BY <1>1 DEF Inv, Shapes, AimsAhead
<1>3. CASE Mine(r).booted /\ Mine(r).key = Key(r)
  <2>1. /\ stage' = [stage EXCEPT ![r] = "replaying"]
        /\ next' = [next EXCEPT ![r] = appliedSeq[ManagerOf(r)] + 1]
        /\ UNCHANGED <<backend, appliedSeq>>
    BY <1>3 DEF LoadRenderer
  <2>2. /\ appliedSeq[ManagerOf(r)] \in Int /\ -1 <= appliedSeq[ManagerOf(r)]
        /\ Mine(r).lastAppliedSeq \in Int
        /\ appliedSeq[ManagerOf(r)] <= Mine(r).lastAppliedSeq /\ Mine(r).lastAppliedSeq <= last
    BY <1>1 DEF Inv, Shapes, BackendsHoldTheLog, Mine, Backends
  <2>3. /\ stage' \in [Requests -> Stages] /\ next' \in [Requests -> Nat]
        /\ stage'[r] = "replaying" /\ next'[r] = appliedSeq[ManagerOf(r)] + 1
        /\ \A q \in Requests \ {r} : stage'[q] = stage[q] /\ next'[q] = next[q]
    BY <2>1, <2>2 DEF Inv, Shapes, Stages, Queued
  <2>4. Shapes' /\ BackendsHoldTheLog'
    BY <1>1, <1>2, <2>1, <2>3 DEF Inv, Shapes, BackendsHoldTheLog
  <2>5. Mine(r)' = Mine(r) /\ AtWork(r)'
    BY <1>1, <2>1 DEF Mine, AtWork
  <2>6. AimsAhead(r)'
    BY <1>1, <1>2, <2>2, <2>3, <2>5 DEF AimsAhead, Underway
  <2> QED BY <1>1, <1>2, <2>1, <2>3, <2>4, <2>5, <2>6, HeadStep
<1>4. CASE ~(Mine(r).booted /\ Mine(r).key = Key(r))
  <2>1. /\ stage' = [stage EXCEPT ![r] = "booting"]
        /\ Replace(ManagerOf(r), Fresh(Key(r)))
        /\ UNCHANGED next
    BY <1>4 DEF LoadRenderer
  <2>2. /\ backend' \in [Managers -> Backends] /\ appliedSeq' \in [Managers -> Int]
        /\ backend'[ManagerOf(r)] = Fresh(Key(r))
        /\ \A k \in Managers \ {ManagerOf(r)} : backend'[k] = backend[k]
        /\ BackendsHoldTheLog'
    BY <1>1, <2>1, FreshBackends, ReplaceStep
  <2>3. /\ stage' \in [Requests -> Stages] /\ stage'[r] = "booting"
        /\ \A q \in Requests \ {r} : stage'[q] = stage[q]
    BY <2>1 DEF Inv, Shapes, Stages, Queued
  <2>4. Shapes'
    BY <1>1, <1>2, <2>1, <2>2, <2>3 DEF Inv, Shapes
  <2>5. Mine(r)'.lastAppliedSeq = -1 /\ AtWork(r)'
    BY <1>1, <2>2, FreshBackends DEF Mine, AtWork
  <2>6. AimsAhead(r)'
    BY <1>1, <1>2, <2>3, <2>5 DEF AimsAhead, Underway
  <2> QED BY <1>1, <1>2, <2>1, <2>2, <2>3, <2>4, <2>5, <2>6, HeadStep
<1> QED BY <1>3, <1>4

\* A boot keeps the invariant.
LEMMA BootKeeps == ASSUME Inv, NEW r \in Requests, Boot(r) PROVE Inv'
<1> DEFINE m == ManagerOf(r)
<1>1. /\ AtWork(r) /\ stage[r] = "booting" /\ m \in Managers
      /\ backend' = [backend EXCEPT ![m].booted = TRUE]
      /\ stage' = [stage EXCEPT ![r] = "replaying"]
      /\ next' = [next EXCEPT ![r] = appliedSeq[m] + 1]
      /\ UNCHANGED <<last, queue, appliedSeq, target, asked>>
  BY ManagersOfRequests DEF Boot
<1>2. /\ last \in Int /\ appliedSeq[m] \in Int /\ -1 <= appliedSeq[m]
      /\ backend[m] \in Backends /\ backend[m].lastAppliedSeq \in Int
      /\ appliedSeq[m] <= backend[m].lastAppliedSeq
  BY <1>1 DEF Inv, Shapes, BackendsHoldTheLog, Backends
<1>3. /\ backend' \in [Managers -> Backends]
      /\ backend'[m].lastAppliedSeq = backend[m].lastAppliedSeq
      /\ backend'[m].screen = backend[m].screen
      /\ \A k \in Managers \ {m} : backend'[k] = backend[k]
  BY <1>1 DEF Inv, Shapes, Backends
<1>4. BackendsHoldTheLog'
  BY <1>1, <1>3 DEF Inv, BackendsHoldTheLog
<1>5. /\ stage' \in [Requests -> Stages] /\ next' \in [Requests -> Nat]
      /\ stage'[r] = "replaying" /\ next'[r] = appliedSeq[m] + 1
      /\ \A q \in Requests \ {r} : stage'[q] = stage[q] /\ next'[q] = next[q]
  BY <1>1, <1>2 DEF Inv, Shapes, Stages, Queued
<1>6. Shapes'
  BY <1>1, <1>3, <1>5 DEF Inv, Shapes
<1>7. AimsAhead(r)' /\ AtWork(r)'
  BY <1>1, <1>2, <1>3, <1>5 DEF Inv, AimsAhead, Underway, Mine, AtWork
<1> QED BY <1>1, <1>2, <1>3, <1>4, <1>5, <1>6, <1>7, HeadStep

\* A failed boot keeps it.
LEMMA BootFailsKeeps == ASSUME Inv, NEW r \in Requests, BootFails(r) PROVE Inv'
<1>1. /\ AtWork(r) /\ Replace(ManagerOf(r), NoBackend) /\ Fails(r) /\ UNCHANGED last
  BY DEF BootFails
<1>2. PICK how \in {"absent", "pending"} : Leave(r, how)
  BY <1>1 DEF Fails
<1>3. /\ backend' \in [Managers -> Backends] /\ appliedSeq' \in [Managers -> Int]
      /\ \A m \in Managers \ {ManagerOf(r)} : backend'[m] = backend[m]
      /\ BackendsHoldTheLog'
  BY <1>1, ManagersOfRequests, FreshBackends, ReplaceStep
<1>4. last' \in Int /\ last <= last' /\ last' <= MaxSeq
  BY <1>1 DEF Inv, Shapes
<1> QED BY <1>1, <1>2, <1>3, <1>4, LeaveStep

\* A replay fails only in a page that is gone, so it leaves no refused call.
LEMMA ReplayFailsKeeps == ASSUME Inv, NEW r \in Requests, ReplayFails(r) PROVE Inv'
<1>1. /\ AtWork(r) /\ stage[r] = "replaying" /\ Refuses(Mine(r), target[r])
      /\ UNCHANGED <<last, backend, appliedSeq>>
  BY DEF ReplayFails
<1>2. Mine(r).lastAppliedSeq <= target[r] /\ Mine(r).lastAppliedSeq \in Int /\ target[r] \in Int
  BY <1>1, ManagersOfRequests DEF Inv, Shapes, AimsAhead, Underway, Mine, Backends
<1>3. ~Mine(r).booted
  BY <1>1, <1>2 DEF Refuses
<1>4. PICK how \in {"absent", "pending"} : Leave(r, how)
  BY <1>3 DEF ReplayFails, Fails
<1>5. /\ last' \in Int /\ last <= last' /\ last' <= MaxSeq /\ backend' \in [Managers -> Backends]
      /\ appliedSeq' \in [Managers -> Int] /\ BackendsHoldTheLog'
  BY <1>1 DEF Inv, Shapes, BackendsHoldTheLog
<1> QED BY <1>1, <1>4, <1>5, LeaveStep

\* A slice keeps the invariant, wherever it ends.
LEMMA SliceKeeps == ASSUME Inv, NEW r \in Requests, Slice(r) PROVE Inv'
<1> DEFINE m == ManagerOf(r)
<1>1. /\ AtWork(r) /\ stage[r] = "replaying" /\ m \in Managers
      /\ UNCHANGED <<last, queue, stage, target, asked>>
  BY ManagersOfRequests DEF Slice
<1>2. PICK stop \in next[r] .. target[r] - 1 :
        \E b \in {ReplayTo(Mine(r), next[r], stop, target[r])} :
          /\ backend' = [backend EXCEPT ![m] = b]
          /\ appliedSeq' = [appliedSeq EXCEPT ![m] = b.lastAppliedSeq]
          /\ next' = [next EXCEPT ![r] = b.lastAppliedSeq + 1]
  BY DEF Slice
<1>3. PICK b : /\ b = ReplayTo(backend[m], next[r], stop, target[r])
               /\ backend' = [backend EXCEPT ![m] = b]
               /\ appliedSeq' = [appliedSeq EXCEPT ![m] = b.lastAppliedSeq]
               /\ next' = [next EXCEPT ![r] = b.lastAppliedSeq + 1]
  BY <1>2 DEF Mine
<1>4. /\ backend[m] \in Backends /\ backend[m].lastAppliedSeq \in Int
      /\ -1 <= backend[m].lastAppliedSeq
      /\ backend[m].screen = Events(0, backend[m].lastAppliedSeq)
      /\ backend[m].lastAppliedSeq <= target[r] /\ next[r] <= backend[m].lastAppliedSeq + 1
      /\ next[r] \in Nat /\ target[r] \in Int /\ last \in Int /\ target[r] <= last
      /\ asked[r] \in Int /\ asked[r] <= target[r]
  <2>1. /\ backend[m] \in Backends /\ backend[m].lastAppliedSeq \in Int
        /\ appliedSeq[m] \in Int
        /\ next[r] \in Nat /\ target[r] \in Int /\ last \in Int /\ asked[r] \in Int
    BY <1>1 DEF Inv, Shapes, Backends
  <2>2. -1 <= appliedSeq[m] /\ appliedSeq[m] <= backend[m].lastAppliedSeq
    BY <1>1 DEF Inv, BackendsHoldTheLog
  <2>3. /\ backend[m].screen = Events(0, backend[m].lastAppliedSeq)
        /\ backend[m].lastAppliedSeq <= target[r] /\ next[r] <= backend[m].lastAppliedSeq + 1
        /\ target[r] <= last /\ asked[r] <= target[r]
    BY <1>1 DEF Inv, BackendsHoldTheLog, AimsAhead, Underway, Mine
  <2> QED BY <2>1, <2>2, <2>3
<1>5. stop \in Int /\ next[r] <= stop /\ stop <= target[r] /\ -1 <= stop
  BY <1>2, <1>4
<1>6. /\ b \in Backends /\ b.screen = Events(0, b.lastAppliedSeq)
      /\ backend[m].lastAppliedSeq <= b.lastAppliedSeq /\ b.lastAppliedSeq <= target[r]
  BY <1>3, <1>4, <1>5, ReplayHoldsTheLog
<1>7. b.lastAppliedSeq \in Int /\ b.lastAppliedSeq <= last /\ b.lastAppliedSeq + 1 \in Nat
  <2>1. b.lastAppliedSeq \in Int
    BY <1>6 DEF Backends
  <2> QED BY <1>4, <1>6, <2>1
<1>8. /\ appliedSeq' \in [Managers -> Int] /\ appliedSeq'[m] = b.lastAppliedSeq
      /\ \A k \in Managers \ {m} : appliedSeq'[k] = appliedSeq[k]
      /\ next' \in [Requests -> Nat] /\ next'[r] = b.lastAppliedSeq + 1
      /\ \A q \in Requests \ {r} : next'[q] = next[q]
  BY <1>1, <1>3, <1>7 DEF Inv, Shapes
<1>9. /\ backend' \in [Managers -> Backends] /\ backend'[m] = b
      /\ \A k \in Managers \ {m} : backend'[k] = backend[k]
      /\ BackendsHoldTheLog'
  BY <1>1, <1>3, <1>6, <1>7, <1>8, FeedStep
<1>10. Shapes'
  BY <1>1, <1>8, <1>9 DEF Inv, Shapes
<1>11. AimsAhead(r)' /\ AtWork(r)'
  BY <1>1, <1>4, <1>6, <1>7, <1>8, <1>9 DEF AimsAhead, Underway, Mine, AtWork
<1> QED BY <1>1, <1>4, <1>8, <1>9, <1>10, <1>11, HeadStep

\* The last replay brings the backend to the target of its call.
LEMMA ReplayEndsKeeps == ASSUME Inv, NEW r \in Requests, ReplayEnds(r) PROVE Inv'
<1> DEFINE m == ManagerOf(r)
           b == LastReplay(r)
<1>1. /\ AtWork(r) /\ stage[r] = "replaying" /\ m \in Managers
      /\ backend' = [backend EXCEPT ![m] = b]
      /\ appliedSeq' = [appliedSeq EXCEPT ![m] = b.lastAppliedSeq]
      /\ stage' = [stage EXCEPT ![r] = "operating"]
      /\ next' = [next EXCEPT ![r] = 0]
      /\ UNCHANGED <<last, queue, target, asked>>
  BY ManagersOfRequests DEF ReplayEnds
<1>2. b = ReplayTo(backend[m], 0, target[r], target[r])
  BY DEF LastReplay, Mine
<1> HIDE DEF b
<1>3. /\ backend[m] \in Backends /\ -1 <= backend[m].lastAppliedSeq
      /\ backend[m].lastAppliedSeq \in Int
      /\ backend[m].screen = Events(0, backend[m].lastAppliedSeq)
      /\ backend[m].lastAppliedSeq <= target[r] /\ -1 <= target[r]
      /\ target[r] \in Int /\ last \in Int /\ target[r] <= last
      /\ asked[r] \in Int /\ asked[r] <= target[r]
  <2>1. /\ backend[m] \in Backends /\ backend[m].lastAppliedSeq \in Int
        /\ appliedSeq[m] \in Int /\ target[r] \in Int /\ last \in Int /\ asked[r] \in Int
    BY <1>1 DEF Inv, Shapes, Backends
  <2>2. -1 <= appliedSeq[m] /\ appliedSeq[m] <= backend[m].lastAppliedSeq
    BY <1>1 DEF Inv, BackendsHoldTheLog
  <2>3. /\ backend[m].screen = Events(0, backend[m].lastAppliedSeq)
        /\ backend[m].lastAppliedSeq <= target[r]
        /\ target[r] <= last /\ asked[r] <= target[r]
    BY <1>1 DEF Inv, BackendsHoldTheLog, AimsAhead, Underway, Mine
  <2> QED BY <2>1, <2>2, <2>3
<1>4. /\ b \in Backends /\ b.screen = Events(0, b.lastAppliedSeq)
      /\ backend[m].lastAppliedSeq <= b.lastAppliedSeq /\ b.lastAppliedSeq <= target[r]
      /\ target[r] <= b.lastAppliedSeq /\ b.from = 0 /\ b.to = target[r]
  BY <1>2, <1>3, ReplayHoldsTheLog
<1>5. b.lastAppliedSeq = target[r] /\ b.lastAppliedSeq \in Int
  BY <1>3, <1>4 DEF Backends
<1>6. /\ appliedSeq' \in [Managers -> Int] /\ appliedSeq'[m] = b.lastAppliedSeq
      /\ \A k \in Managers \ {m} : appliedSeq'[k] = appliedSeq[k]
      /\ next' \in [Requests -> Nat]
      /\ stage' \in [Requests -> Stages] /\ stage'[r] = "operating"
      /\ \A q \in Requests \ {r} : next'[q] = next[q] /\ stage'[q] = stage[q]
  BY <1>1, <1>5 DEF Inv, Shapes, Stages, Queued
<1>7. /\ backend' \in [Managers -> Backends] /\ backend'[m] = b
      /\ \A k \in Managers \ {m} : backend'[k] = backend[k]
      /\ BackendsHoldTheLog'
  BY <1>1, <1>3, <1>4, <1>5, <1>6, FeedStep
<1>8. Shapes'
  BY <1>1, <1>6, <1>7 DEF Inv, Shapes
<1>9. AimsAhead(r)' /\ AtWork(r)'
  BY <1>1, <1>3, <1>4, <1>5, <1>6, <1>7 DEF AimsAhead, Underway, Mine, AtWork
<1> QED BY <1>1, <1>3, <1>6, <1>7, <1>8, <1>9, HeadStep

\* The ends of an operation, and the seq that a click adds to the log.
LEMMA OperationEndsKeeps ==
  ASSUME Inv, NEW r \in Requests, AtWork(r), NEW how \in {"absent", "pending"}, Leave(r, how),
         last' \in {last, last + 1}, last' <= MaxSeq, UNCHANGED <<backend, appliedSeq>>
  PROVE  Inv'
<1>1. /\ last' \in Int /\ last <= last' /\ backend' \in [Managers -> Backends]
      /\ appliedSeq' \in [Managers -> Int]
  BY DEF Inv, Shapes
<1>2. BackendsHoldTheLog'
  <2>1. \A m \in Managers : backend[m].lastAppliedSeq \in Int /\ last \in Int
    BY DEF Inv, Shapes, Backends
  <2> QED BY <1>1, <2>1 DEF Inv, BackendsHoldTheLog
<1> QED BY <1>1, <1>2, LeaveStep

\* So do captures, clicks and their failures.
LEMMA OperationKeeps ==
  ASSUME Inv, NEW r \in Requests, Capture(r) \/ CaptureFails(r) \/ Click(r) \/ ClickFails(r)
  PROVE  Inv'
<1>1. PICK how \in {"absent", "pending"} : Leave(r, how)
  BY DEF Capture, CaptureFails, Click, ClickFails, Fails
<1>2. AtWork(r) /\ last' \in {last, last + 1} /\ UNCHANGED <<backend, appliedSeq>>
  BY DEF Capture, CaptureFails, Click, ClickFails
<1>3. last' <= MaxSeq
  BY BoundsAssumption DEF Capture, CaptureFails, Click, ClickFails, Inv, Shapes
<1> QED BY <1>1, <1>2, <1>3, OperationEndsKeeps

\* The catch-up of a mouse request brings its backend to the end of the log.
LEMMA CatchUpKeeps == ASSUME Inv, NEW r \in Requests, CatchUp(r) PROVE Inv'
<1> DEFINE m == ManagerOf(r)
           b == ReplayTo(backend[m], 0, last, last)
<1>1. /\ AtWork(r) /\ stage[r] = "operating" /\ m \in Managers /\ ~(last <= target[r])
      /\ target' = [target EXCEPT ![r] = last]
      /\ UNCHANGED <<last, queue, appliedSeq, stage, next, asked>>
  BY ManagersOfRequests DEF CatchUp, CaughtUp
<1>2. backend' = [backend EXCEPT ![m] = b]
  BY DEF CatchUp
<1>3. /\ backend[m] \in Backends /\ -1 <= backend[m].lastAppliedSeq
      /\ backend[m].lastAppliedSeq \in Int
      /\ backend[m].screen = Events(0, backend[m].lastAppliedSeq)
      /\ backend[m].lastAppliedSeq <= last /\ last \in Int /\ -1 <= last
      /\ asked[r] \in Int /\ asked[r] <= last
  <2>1. /\ backend[m] \in Backends /\ backend[m].lastAppliedSeq \in Int
        /\ appliedSeq[m] \in Int /\ target[r] \in Int /\ last \in Int /\ asked[r] \in Int
    BY <1>1 DEF Inv, Shapes, Backends
  <2>2. /\ -1 <= appliedSeq[m] /\ appliedSeq[m] <= backend[m].lastAppliedSeq
        /\ backend[m].screen = Events(0, backend[m].lastAppliedSeq)
        /\ backend[m].lastAppliedSeq <= last
    BY <1>1 DEF Inv, BackendsHoldTheLog
  <2>3. asked[r] <= target[r] /\ target[r] <= last
    BY <1>1 DEF Inv, AimsAhead, Underway
  <2> QED BY <2>1, <2>2, <2>3
<1> HIDE DEF b
<1>4. /\ b \in Backends /\ b.screen = Events(0, b.lastAppliedSeq)
      /\ backend[m].lastAppliedSeq <= b.lastAppliedSeq /\ b.lastAppliedSeq <= last
      /\ last <= b.lastAppliedSeq /\ b.from = 0 /\ b.to = last
  BY <1>3, ReplayHoldsTheLog DEF b
<1>5. b.lastAppliedSeq = last
  BY <1>3, <1>4 DEF Backends
<1>6. /\ backend' \in [Managers -> Backends] /\ backend'[m] = b
      /\ \A k \in Managers \ {m} : backend'[k] = backend[k]
      /\ BackendsHoldTheLog'
  <2>1. appliedSeq' \in [Managers -> Int] /\ appliedSeq'[m] = appliedSeq[m]
    BY <1>1 DEF Inv, Shapes
  <2> QED BY <1>1, <1>2, <1>3, <1>4, <2>1, FeedStep
<1>7. /\ target' \in [Requests -> Int] /\ target'[r] = last
      /\ \A q \in Requests \ {r} : target'[q] = target[q]
  BY <1>1, <1>3 DEF Inv, Shapes
<1>8. Shapes'
  BY <1>1, <1>6, <1>7 DEF Inv, Shapes
<1>9. AimsAhead(r)' /\ AtWork(r)'
  BY <1>1, <1>3, <1>4, <1>5, <1>6, <1>7 DEF AimsAhead, Underway, Mine, AtWork
<1> QED BY <1>1, <1>3, <1>6, <1>7, <1>8, <1>9, HeadStep
-----------------------------------------------------------------------------
(* The steps of clients, program and host *)

\* A queue that grows keeps its head.
LEMMA QueueGrows ==
  ASSUME Inv, NEW x \in Requests \cup {"dispose"}, NEW M \in SUBSET Managers,
         queue' = [m \in Managers |-> IF m \in M THEN Append(queue[m], x) ELSE queue[m]]
  PROVE  /\ queue' \in [Managers -> Seq(Requests \cup {"dispose"})]
         /\ \A q \in Requests : AtWork(q) => AtWork(q)'
<1>1. \A m \in Managers : queue[m] \in Seq(Requests \cup {"dispose"})
  BY DEF Inv, Shapes
<1>2. ASSUME NEW m \in Managers
      PROVE  /\ queue'[m] \in Seq(Requests \cup {"dispose"})
             /\ queue[m] # << >> => queue'[m] # << >> /\ Head(queue'[m]) = Head(queue[m])
  <2>1. CASE m \in M
    <3>1. queue'[m] = Append(queue[m], x)
      BY <2>1
    <3> QED BY <1>1, <3>1, AppendProperties
  <2>2. CASE m \notin M
    BY <1>1, <2>2
  <2> QED BY <2>1, <2>2
<1>3. \A q \in Requests : AtWork(q) => AtWork(q)'
  BY <1>2, ManagersOfRequests DEF AtWork
<1> QED BY <1>2, <1>3

\* A request joins the queue of its manager.
LEMMA CallKeeps ==
  ASSUME Inv, NEW r \in Requests, Call(r), stage[r] \in {"absent", "pending"},
         stage' = [stage EXCEPT ![r] = "queued"],
         UNCHANGED <<last, backend, appliedSeq, target, next>>
  PROVE  Inv'
<1>1. queue' = [m \in Managers |-> IF m \in {ManagerOf(r)} THEN Append(queue[m], r) ELSE queue[m]]
  BY ManagersOfRequests DEF Call, Inv, Shapes
<1>2. /\ queue' \in [Managers -> Seq(Requests \cup {"dispose"})]
      /\ \A q \in Requests : AtWork(q) => AtWork(q)'
  BY <1>1, ManagersOfRequests, QueueGrows
<1>3. /\ stage' \in [Requests -> Stages] /\ stage'[r] = "queued"
      /\ \A q \in Requests \ {r} : stage'[q] = stage[q]
      /\ asked' \in [Requests -> Int] /\ asked'[r] = last
      /\ \A q \in Requests \ {r} : asked'[q] = asked[q]
  BY DEF Inv, Shapes, Call, Stages, Queued
<1>4. Shapes' /\ BackendsHoldTheLog' /\ last <= last' /\ last \in Int
  BY <1>2, <1>3 DEF Inv, Shapes, BackendsHoldTheLog
<1>5. \A q \in Requests : Underway(q)' => stage'[q] = stage[q]
  BY <1>3 DEF Underway
<1>6. \A q \in Requests : Underway(q) =>
        /\ AtWork(q)' /\ Mine(q)'.lastAppliedSeq = Mine(q).lastAppliedSeq
        /\ Mine(q)'.from = Mine(q).from /\ Mine(q)'.to = Mine(q).to
        /\ asked'[q] = asked[q]
  BY <1>2, <1>3 DEF Inv, OnlyTheHeadRuns, Underway, Mine
<1>7. \A q \in Requests : stage'[q] = "queued" => asked'[q] <= last'
  BY <1>3, <1>4 DEF Inv, AimsAhead
<1> QED BY <1>4, <1>5, <1>6, <1>7, OtherStep

\* Steps that move neither a call that waits or runs nor a backend.
LEMMA QuietKeeps ==
  ASSUME Inv, last' \in {last, last + 1}, last' <= MaxSeq,
         UNCHANGED <<queue, backend, appliedSeq, target, next, asked>>,
         stage' \in [Requests -> Stages],
         \A q \in Requests : stage'[q] = stage[q] \/ stage'[q] \in {"absent", "pending"}
  PROVE  Inv'
<1>1. last \in Int /\ last' \in Int /\ last <= last' /\ last' >= -1 /\ last' <= MaxSeq
  BY DEF Inv, Shapes
<1>2. Shapes'
  BY <1>1 DEF Inv, Shapes
<1>3. BackendsHoldTheLog'
  <2>1. \A m \in Managers : backend[m].lastAppliedSeq \in Int
    BY DEF Inv, Shapes, Backends
  <2> QED BY <1>1, <2>1 DEF Inv, BackendsHoldTheLog
<1>4. \A q \in Requests : Underway(q)' => stage'[q] = stage[q]
  BY DEF Underway
<1>5. \A q \in Requests : Underway(q) =>
        /\ AtWork(q)' /\ Mine(q)'.lastAppliedSeq = Mine(q).lastAppliedSeq
        /\ Mine(q)'.from = Mine(q).from /\ Mine(q)'.to = Mine(q).to
        /\ asked'[q] = asked[q]
  BY DEF Inv, OnlyTheHeadRuns, AtWork, Mine
<1>6. \A q \in Requests : stage'[q] = "queued" => asked'[q] <= last'
  <2>1. \A q \in Requests : asked[q] \in Int
    BY DEF Inv, Shapes
  <2> QED BY <1>1, <2>1 DEF Inv, AimsAhead
<1> QED BY <1>1, <1>2, <1>3, <1>4, <1>5, <1>6, OtherStep

\* A request that arrives keeps the invariant.
LEMMA AskKeeps == ASSUME Inv, NEW r \in Requests, Ask(r) PROVE Inv'
<1>1. /\ stage[r] = "absent" /\ UNCHANGED <<last, backend, appliedSeq, target, next>>
      /\ last' <= MaxSeq
  BY DEF Ask, Inv, Shapes
<1>2. CASE Kind(r) \in {"wait", "mouse"}
  <2>1. stage' = [stage EXCEPT ![r] = "pending"] /\ UNCHANGED <<queue, asked>>
    BY <1>2 DEF Ask
  <2>2. /\ stage' \in [Requests -> Stages]
        /\ \A q \in Requests : stage'[q] = stage[q] \/ stage'[q] \in {"absent", "pending"}
    BY <2>1 DEF Inv, Shapes, Stages
  <2> QED BY <1>1, <2>1, <2>2, QuietKeeps
<1>3. CASE Kind(r) \notin {"wait", "mouse"}
  <2>1. stage' = [stage EXCEPT ![r] = "queued"] /\ Call(r)
    BY <1>3 DEF Ask
  <2> QED BY <1>1, <2>1, CallKeeps
<1> QED BY <1>2, <1>3

\* A poll, or a mouse request that goes on, keeps it.
LEMMA ProceedKeeps == ASSUME Inv, NEW r \in Requests, Proceed(r) PROVE Inv'
BY CallKeeps DEF Proceed, Due

\* A client that has its answer, or leaves, keeps it.
LEMMA ClientKeeps ==
  ASSUME Inv, NEW r \in Requests, WaitAnswered(r) \/ GiveUp(r)
  PROVE  Inv'
<1>1. /\ last' = last /\ UNCHANGED <<queue, backend, appliedSeq, target, next, asked>>
      /\ last' <= MaxSeq
      /\ stage' = stage \/ stage' = [stage EXCEPT ![r] = "absent"]
  BY DEF WaitAnswered, GiveUp, Inv, Shapes
<1>2. /\ stage' \in [Requests -> Stages]
      /\ \A q \in Requests : stage'[q] = stage[q] \/ stage'[q] \in {"absent", "pending"}
  BY <1>1 DEF Inv, Shapes, Stages
<1> QED BY <1>1, <1>2, QuietKeeps

\* Output, the exit of the program and the end of the host keep it.
LEMMA HostKeeps ==
  ASSUME Inv, \/ Output \/ ProgramExits \/ CloseServer \/ HostEnds \/ UNCHANGED rendererVars
  PROVE  Inv'
<1>1. UNCHANGED <<queue, backend, appliedSeq, stage, target, next, asked>>
  BY DEF Output, ProgramExits, CloseServer, HostEnds, rendererVars, requestVars
<1>2. last' \in {last, last + 1} /\ last' <= MaxSeq
  <2>1. CASE ProgramExits
    <3>1. last' = Smaller(last + 1, MaxSeq) /\ last \in Int /\ last <= MaxSeq
      BY <2>1 DEF ProgramExits, Inv, Shapes
    <3> QED BY <3>1, BoundsAssumption DEF Smaller
  <2>2. CASE Output \/ CloseServer \/ HostEnds \/ UNCHANGED rendererVars
    BY <2>2, BoundsAssumption DEF Output, CloseServer, HostEnds, rendererVars, Inv, Shapes
  <2> QED BY <2>1, <2>2
<1>3. /\ stage' \in [Requests -> Stages]
      /\ \A q \in Requests : stage'[q] = stage[q] \/ stage'[q] \in {"absent", "pending"}
  BY <1>1 DEF Inv, Shapes
<1> QED BY <1>1, <1>2, <1>3, QuietKeeps

\* The shutdown queues behind the calls.
LEMMA ShutdownKeeps == ASSUME Inv, Shutdown PROVE Inv'
<1>1. /\ queue' = [m \in Managers |-> IF m \in Managers THEN Append(queue[m], "dispose")
                                                         ELSE queue[m]]
      /\ UNCHANGED <<last, backend, appliedSeq, stage, target, next, asked>>
  BY DEF Shutdown, requestVars
<1>2. /\ queue' \in [Managers -> Seq(Requests \cup {"dispose"})]
      /\ \A q \in Requests : AtWork(q) => AtWork(q)'
  BY <1>1, QueueGrows
<1>3. Shapes' /\ BackendsHoldTheLog' /\ last <= last' /\ last \in Int
  BY <1>1, <1>2 DEF Inv, Shapes, BackendsHoldTheLog
<1>4. \A q \in Requests : Underway(q) =>
        /\ AtWork(q)' /\ Mine(q)'.lastAppliedSeq = Mine(q).lastAppliedSeq
        /\ Mine(q)'.from = Mine(q).from /\ Mine(q)'.to = Mine(q).to
        /\ asked'[q] = asked[q]
  BY <1>1, <1>2 DEF Inv, OnlyTheHeadRuns, Mine
<1>5. \A q \in Requests : stage'[q] = "queued" => asked'[q] <= last'
  BY <1>1 DEF Inv, AimsAhead
<1> QED BY <1>1, <1>3, <1>4, <1>5, OtherStep

\* A page that crashes takes nothing out of the books of its backend.
LEMMA PageCrashesKeeps == ASSUME Inv, NEW m \in Managers, PageCrashes(m) PROVE Inv'
<1>1. /\ backend' = [backend EXCEPT ![m].booted = FALSE]
      /\ UNCHANGED <<last, queue, appliedSeq, stage, target, next, asked>>
  BY DEF PageCrashes, requestVars
<1>2. /\ backend' \in [Managers -> Backends]
      /\ \A k \in Managers : /\ backend'[k].lastAppliedSeq = backend[k].lastAppliedSeq
                             /\ backend'[k].screen = backend[k].screen
                             /\ backend'[k].from = backend[k].from
                             /\ backend'[k].to = backend[k].to
  BY <1>1 DEF Inv, Shapes, Backends
<1>3. Shapes' /\ BackendsHoldTheLog' /\ last <= last' /\ last \in Int
  BY <1>1, <1>2 DEF Inv, Shapes, BackendsHoldTheLog
<1>4. \A q \in Requests : Underway(q) =>
        /\ AtWork(q)' /\ Mine(q)'.lastAppliedSeq = Mine(q).lastAppliedSeq
        /\ Mine(q)'.from = Mine(q).from /\ Mine(q)'.to = Mine(q).to
        /\ asked'[q] = asked[q]
  BY <1>1, <1>2, ManagersOfRequests DEF Inv, OnlyTheHeadRuns, AtWork, Mine
<1>5. \A q \in Requests : stage'[q] = "queued" => asked'[q] <= last'
  BY <1>1 DEF Inv, AimsAhead
<1> QED BY <1>1, <1>3, <1>4, <1>5, OtherStep

\* A disposal finds no call under way.
LEMMA DisposeKeeps == ASSUME Inv, NEW m \in Managers, Dispose(m) PROVE Inv'
<1>1. /\ queue[m] # << >> /\ Head(queue[m]) = "dispose"
      /\ Replace(m, NoBackend)
      /\ queue' = [queue EXCEPT ![m] = Tail(@)]
      /\ UNCHANGED <<last, stage, target, next, asked>>
  BY DEF Dispose, requestVars
<1>2. /\ backend' \in [Managers -> Backends] /\ appliedSeq' \in [Managers -> Int]
      /\ \A k \in Managers \ {m} : backend'[k] = backend[k]
      /\ BackendsHoldTheLog'
  BY <1>1, FreshBackends, ReplaceStep
<1>3. /\ queue' \in [Managers -> Seq(Requests \cup {"dispose"})]
      /\ \A k \in Managers \ {m} : queue'[k] = queue[k]
  BY <1>1, HeadTailProperties DEF Inv, Shapes
<1>4. Shapes' /\ last <= last' /\ last \in Int
  BY <1>1, <1>2, <1>3 DEF Inv, Shapes
<1>5. ASSUME NEW q \in Requests, Underway(q)
      PROVE  /\ AtWork(q)' /\ Mine(q)'.lastAppliedSeq = Mine(q).lastAppliedSeq
             /\ Mine(q)'.from = Mine(q).from /\ Mine(q)'.to = Mine(q).to
             /\ asked'[q] = asked[q]
  <2>1. AtWork(q)
    BY <1>5 DEF Inv, OnlyTheHeadRuns
  <2>2. ManagerOf(q) # m
    BY <1>1, <2>1, RequestsAssumption DEF AtWork
  <2> QED BY <1>1, <1>2, <1>3, <2>1, <2>2, ManagersOfRequests DEF AtWork, Mine
<1>6. \A q \in Requests : stage'[q] = "queued" => asked'[q] <= last'
  BY <1>1 DEF Inv, AimsAhead
<1> QED BY <1>1, <1>2, <1>4, <1>5, <1>6, OtherStep
-----------------------------------------------------------------------------
\* Every step of the host keeps the invariant.
LEMMA StepKeeps == ASSUME Inv, [RendererNext]_rendererVars PROVE Inv'
<1>1. ASSUME NEW r \in Requests, RequestStep(r) PROVE Inv'
  BY <1>1, AskKeeps, ProceedKeeps, ClientKeeps, LoadKeeps, BootKeeps, BootFailsKeeps,
     ReplayFailsKeeps, SliceKeeps, ReplayEndsKeeps, OperationKeeps, CatchUpKeeps
     DEF RequestStep
<1>2. ASSUME HostStep PROVE Inv'
  BY <1>2, HostKeeps, ShutdownKeeps, PageCrashesKeeps, DisposeKeeps DEF HostStep
<1> QED BY <1>1, <1>2, HostKeeps DEF RendererNext

\* The invariant holds for ever: backends hold a prefix of the log.
THEOREM BackendsFollowTheLog == RendererSpec => []Inv
BY InitInv, StepKeeps, PTL DEF RendererSpec

\* A capture shows the log, whatever happened to the backends before.
THEOREM CapturesAreTrue == RendererSpec => CapturesShowTheLog
<1>1. ASSUME Inv, [RendererNext]_rendererVars
      PROVE  [\A r \in Requests :
                /\ stage'[r] # "refused"
                /\ Capture(r) => /\ Image(r) = Events(0, Mine(r).lastAppliedSeq)
                                 /\ Mine(r).lastAppliedSeq >= asked[r]]_rendererVars
  <2> SUFFICES ASSUME NEW r \in Requests
               PROVE  /\ stage'[r] # "refused"
                      /\ Capture(r) => /\ Image(r) = Events(0, Mine(r).lastAppliedSeq)
                                       /\ Mine(r).lastAppliedSeq >= asked[r]
    OBVIOUS
  <2>1. stage'[r] # "refused"
    BY <1>1, StepKeeps DEF Inv, Shapes, Stages, Queued
  <2>2. ASSUME Capture(r)
        PROVE  /\ Image(r) = Events(0, Mine(r).lastAppliedSeq)
               /\ Mine(r).lastAppliedSeq >= asked[r]
    <3>1. stage[r] = "operating" /\ Underway(r)
      BY <2>2 DEF Capture, Underway
    <3>2. /\ Mine(r).lastAppliedSeq = target[r] /\ asked[r] <= target[r]
          /\ Mine(r).from = 0 /\ Mine(r).to = target[r]
          /\ asked[r] \in Int /\ target[r] \in Int
      BY <1>1, <3>1 DEF Inv, Shapes, AimsAhead
    <3>3. Mine(r).screen = Events(0, Mine(r).lastAppliedSeq)
      BY <1>1, ManagersOfRequests DEF Inv, BackendsHoldTheLog, Mine
    <3> QED BY <3>2, <3>3 DEF Image, SecondScreen
  <2> QED BY <2>1, <2>2
<1> QED BY <1>1, BackendsFollowTheLog, PTL DEF RendererSpec, CapturesShowTheLog

\* A click is encoded with the whole log before it, for a client that waits.
THEOREM ClicksSeeTheLog == RendererSpec => ClicksAreCurrent
<1>1. ASSUME Inv, [RendererNext]_rendererVars
      PROVE  [\A r \in Requests :
                Click(r) => Mine(r).screen = Events(0, last) /\ r \notin gone]_rendererVars
  <2> SUFFICES ASSUME NEW r \in Requests, Click(r)
               PROVE  Mine(r).screen = Events(0, last) /\ r \notin gone
    OBVIOUS
  <2>1. stage[r] = "operating" /\ Underway(r) /\ last <= target[r] /\ r \notin gone
    BY DEF Click, Underway, CaughtUp, Wanted
  <2>2. /\ Mine(r).lastAppliedSeq = target[r] /\ target[r] <= last
        /\ target[r] \in Int /\ last \in Int
    BY <1>1, <2>1 DEF Inv, Shapes, AimsAhead
  <2>3. Mine(r).screen = Events(0, Mine(r).lastAppliedSeq)
    BY <1>1, ManagersOfRequests DEF Inv, BackendsHoldTheLog, Mine
  <2>4. Mine(r).lastAppliedSeq = last
    BY <2>1, <2>2
  <2> QED BY <2>1, <2>3, <2>4
<1> QED BY <1>1, BackendsFollowTheLog, PTL DEF RendererSpec, ClicksAreCurrent
-----------------------------------------------------------------------------
(* The artifacts of a session *)

\* Where a task has the lock.
Holding == {"publish", "list", "roll back", "remove", "release", "give up", "undo", "undo file"}

\* So at most one live task is in the section.
SectionHoldsLock == \A c \in Tasks : task[c].pc \in Holding => lockedBy = c

\* What a capture has published is what it is about to list, and nobody lists
\* a file that a capture created and may still roll back.
PublishedIsThere ==
  \A c \in Captures :
    /\ task[c].pc \in {"begin", "publish"} => ~task[c].created
    /\ TaskAt(c, "list") => shots[task[c].variant] = task[c].bytes
    /\ TaskAt(c, "list") /\ task[c].created => Unlisted(task[c].variant)
    /\ TaskAt(c, "roll back") => Unlisted(task[c].variant)

\* The file in place is the one its export wrote, and an export that added its
\* entry finds it there while the file is its own.
ReplacedIsListed ==
  /\ export.by \in Exports => export = ExportEntry(export.by)
  /\ \A c \in Exports : task[c].pc \in {"release", "done"} /\ export.by = c => ExportEntry(c) \in exported

StoreInv == StoreTypes /\ CapturesAreKept /\ SectionHoldsLock /\ PublishedIsThere /\ ReplacedIsListed
-----------------------------------------------------------------------------
(* Types *)

LEMMA StoreInitTypes == StoreInit => StoreTypes
<1> SUFFICES ASSUME StoreInit PROVE StoreTypes
  OBVIOUS
<1>1. 1 \in Variants
  BY StoreAssumption DEF Variants
<1>2. \A b \in Bytes : FreshTask(b) \in TaskRecord
  BY <1>1 DEF FreshTask, TaskRecord, Pcs
<1>3. task \in [Tasks -> TaskRecord]
  BY <1>2 DEF StoreInit
<1>. QED BY <1>3 DEF StoreInit, StoreTypes, NoFile

\* A step to another place keeps the types of the tasks, and all but one task.
LEMMA GotoTypes ==
  ASSUME StoreTypes, NEW c \in Tasks, NEW place \in Pcs, Goto(c, place)
  PROVE  /\ task' \in [Tasks -> TaskRecord]
         /\ task'[c] = [task[c] EXCEPT !.pc = place]
         /\ \A d \in Tasks \ {c} : task'[d] = task[d]
<1>1. task \in [Tasks -> TaskRecord] /\ task[c] \in TaskRecord
  BY DEF StoreTypes
<1>2. [task[c] EXCEPT !.pc = place] \in TaskRecord
  BY <1>1 DEF TaskRecord
<1>. QED BY <1>1, <1>2 DEF Goto

\* Every step keeps the types.
LEMMA StoreNextTypes == StoreTypes /\ [StoreNext]_storeVars => StoreTypes'
<1> SUFFICES ASSUME StoreTypes, [StoreNext]_storeVars PROVE StoreTypes'
  OBVIOUS
<1>0. CASE UNCHANGED storeVars
  BY <1>0 DEF storeVars, StoreTypes
<1>1. CASE BreakLock
  BY <1>1 DEF BreakLock, StoreTypes
<1>2. ASSUME NEW c \in Tasks, TaskStep(c) PROVE StoreTypes'
  <2>. task \in [Tasks -> TaskRecord] /\ task[c] \in TaskRecord
    BY DEF StoreTypes
  <2>a. task[c].bytes \in Bytes /\ task[c].variant \in Variants
    BY DEF TaskRecord
  <2>p. {"publish", "list", "failed", "done", "dead", "give up", "roll back", "undo", "undo file",
         "release", "wait", "roll back unlocked"} \subseteq Pcs
    BY DEF Pcs
  <2>g. ASSUME NEW place \in Pcs, Goto(c, place), UNCHANGED <<shots, export, listed, exported>>,
               lockedBy' \in Tasks \cup {Nobody}
        PROVE  StoreTypes'
    BY <2>g, GotoTypes DEF StoreTypes
  <2>1. ASSUME NEW from, NEW to \in Pcs, AcquireLock(c, from, to) PROVE StoreTypes'
    BY <2>1, <2>g DEF AcquireLock
  <2>2. CASE CaptureTimesOut(c)
    BY <2>2, <2>p, <2>g DEF CaptureTimesOut, StoreTypes
  <2>3. CASE Release(c)
    BY <2>3, <2>p, <2>g DEF Release
  <2>4. CASE TaskDies(c)
    BY <2>4, <2>p, <2>g DEF TaskDies, StoreTypes
  <2>5. CASE Publish(c)
    <3>1. CASE UNCHANGED shots /\ Goto(c, "list")
      BY <2>5, <3>1, <2>p, <2>g DEF Publish, StoreTypes
    <3>2. CASE /\ shots' = [shots EXCEPT ![task[c].variant] = task[c].bytes]
               /\ task' = [task EXCEPT ![c].pc = "list", ![c].created = TRUE]
      <4>1. task' \in [Tasks -> TaskRecord]
        BY <3>2, <2>p DEF TaskRecord
      <4>2. shots' \in [Variants -> Bytes \cup {NoBytes}]
        BY <3>2, <2>a DEF StoreTypes
      <4>. QED BY <2>5, <4>1, <4>2 DEF Publish, StoreTypes
    <3>3. CASE /\ task[c].variant < MaxVariants /\ UNCHANGED shots
               /\ task' = [task EXCEPT ![c].variant = task[c].variant + 1]
      <4>1. task[c].variant + 1 \in Variants
        BY <3>3, <2>a, StoreAssumption DEF Variants
      <4>2. task' \in [Tasks -> TaskRecord]
        BY <3>3, <4>1 DEF TaskRecord
      <4>. QED BY <2>5, <3>3, <4>2 DEF Publish, StoreTypes
    <3>. QED BY <2>5, <3>1, <3>2, <3>3 DEF Publish
  <2>6. CASE PublishFails(c)
    BY <2>6, <2>p, <2>g DEF PublishFails, StoreTypes
  <2>7. CASE List(c)
    <3>1. Entry(c) \in [variant : Variants, bytes : Bytes, by : Captures]
      BY <2>7, <2>a DEF List, Entry
    <3>2. task' \in [Tasks -> TaskRecord]
      BY <2>7, <2>p, GotoTypes DEF List
    <3>. QED BY <2>7, <3>1, <3>2 DEF List, StoreTypes
  <2>8. CASE ListFails(c)
    BY <2>8, <2>p, <2>g DEF ListFails, StoreTypes
  <2>9. CASE RollBackCapture(c)
    <3>1. task' \in [Tasks -> TaskRecord]
      BY <2>9, <2>p, GotoTypes DEF RollBackCapture
    <3>. QED BY <2>9, <3>1 DEF RollBackCapture, StoreTypes
  <2>10. CASE UndoEntry(c)
    <3>1. task' \in [Tasks -> TaskRecord]
      BY <2>10, <2>p, GotoTypes DEF UndoEntry
    <3>. QED BY <2>10, <3>1 DEF UndoEntry, StoreTypes
  <2>11. CASE UndoFails(c)
    BY <2>11, <2>p, <2>g DEF UndoFails, StoreTypes
  <2>12. CASE UndoFile(c)
    <3>1. task' \in [Tasks -> TaskRecord]
      BY <2>12, <2>p, GotoTypes DEF UndoFile
    <3>. QED BY <2>12, <3>1 DEF UndoFile, StoreTypes
  <2>13. CASE Rename(c)
    <3>1. task' \in [Tasks -> TaskRecord]
      BY <2>13, <2>p, GotoTypes DEF Rename
    <3>. QED BY <2>13, <2>a, <3>1 DEF Rename, ExportEntry, StoreTypes
  <2>14. CASE ListExport(c)
    <3>1. task' \in [Tasks -> TaskRecord]
      BY <2>14, <2>p, GotoTypes DEF ListExport
    <3>2. ExportEntry(c) \in [bytes : Bytes, by : Exports]
      BY <2>14, <2>a DEF ListExport, ExportEntry
    <3>. QED BY <2>14, <3>1, <3>2 DEF ListExport, StoreTypes
  <2>15. CASE ExportTimesOut(c)
    BY <2>15, <2>p, <2>g DEF ExportTimesOut, StoreTypes
  <2>16. CASE RollBackReads(c)
    <3>1. PICK place \in {IF TaskAt(c, "roll back") THEN "remove" ELSE "remove unlocked"}, matches \in {{}, exported} :
            task' = [task EXCEPT ![c].pc = place, ![c].spared = matches # {}]
      BY <2>16 DEF RollBackReads
    <3>2. place \in Pcs /\ (matches # {}) \in BOOLEAN
      BY DEF Pcs
    <3>3. task' \in [Tasks -> TaskRecord]
      BY <3>1, <3>2 DEF TaskRecord
    <3>. QED BY <2>16, <3>3 DEF RollBackReads, StoreTypes
  <2>17. CASE RollBackRemoves(c)
    <3>1. task' \in [Tasks -> TaskRecord]
      BY <2>17, <2>p, GotoTypes DEF RollBackRemoves
    <3>. QED BY <2>17, <3>1 DEF RollBackRemoves, NoFile, StoreTypes
  <2>. QED BY <1>2, <2>p, <2>1, <2>2, <2>3, <2>4, <2>5, <2>6, <2>7, <2>8, <2>9, <2>10, <2>11, <2>12,
              <2>13, <2>14, <2>15, <2>16, <2>17 DEF TaskStep, BeginUndo
<1>. QED BY <1>0, <1>1, <1>2 DEF StoreNext
-----------------------------------------------------------------------------
(* The invariant *)

\* A step is the step of one task: the others stay where they are.
LEMMA OthersStay ==
  ASSUME StoreTypes, NEW c \in Tasks, TaskStep(c)
  PROVE  \A d \in Tasks \ {c} : task'[d] = task[d]
<1>. task \in [Tasks -> TaskRecord]
  BY DEF StoreTypes
<1>1. ASSUME NEW place, Goto(c, place) PROVE \A d \in Tasks \ {c} : task'[d] = task[d]
  BY <1>1 DEF Goto
<1>2. CASE Publish(c)
  BY <1>1, <1>2 DEF Publish
<1>3. CASE RollBackReads(c)
  BY <1>3 DEF RollBackReads
<1>. QED BY <1>1, <1>2, <1>3 DEF TaskStep, AcquireLock, CaptureTimesOut, Release, TaskDies, PublishFails,
  List, ListFails, RollBackCapture, BeginUndo, UndoEntry, UndoFails, UndoFile, Rename, ListExport,
  ExportTimesOut, RollBackRemoves

\* The bytes of a call never change.
LEMMA BytesStay ==
  ASSUME StoreTypes, NEW c \in Tasks, TaskStep(c)
  PROVE  \A d \in Tasks : task'[d].bytes = task[d].bytes
<1>. task \in [Tasks -> TaskRecord] /\ task[c] \in TaskRecord
  BY DEF StoreTypes
<1>0. \A d \in Tasks \ {c} : task'[d] = task[d]
  BY OthersStay
<1>1. ASSUME NEW place, Goto(c, place) PROVE task'[c].bytes = task[c].bytes
  BY <1>1 DEF Goto, TaskRecord
<1>2. CASE Publish(c)
  BY <1>0, <1>1, <1>2 DEF Publish, TaskRecord
<1>3. CASE RollBackReads(c)
  <2>1. PICK place \in {IF TaskAt(c, "roll back") THEN "remove" ELSE "remove unlocked"}, matches \in {{}, exported} :
          task' = [task EXCEPT ![c].pc = place, ![c].spared = matches # {}]
    BY <1>3 DEF RollBackReads
  <2>. QED BY <2>1 DEF TaskRecord
<1>4. task'[c].bytes = task[c].bytes
  BY <1>1, <1>2, <1>3 DEF TaskStep, AcquireLock, CaptureTimesOut, Release, TaskDies, PublishFails,
  List, ListFails, RollBackCapture, BeginUndo, UndoEntry, UndoFails, UndoFile, Rename, ListExport,
  ExportTimesOut, RollBackRemoves
<1>. QED BY <1>0, <1>4

\* Every step keeps the lock with the task that is in its section.
LEMMA SectionStep ==
  ASSUME StoreTypes, SectionHoldsLock, NEW c \in Tasks, TaskStep(c)
  PROVE  SectionHoldsLock'
<1>. SUFFICES ASSUME NEW d \in Tasks, task'[d].pc \in Holding PROVE lockedBy' = d
  BY DEF SectionHoldsLock
<1>. task \in [Tasks -> TaskRecord] /\ task[c] \in TaskRecord
  BY DEF StoreTypes
<1>0. Nobody \notin Tasks
  BY StoreAssumption
<1>g. ASSUME NEW place, Goto(c, place) PROVE task'[c].pc = place
  BY <1>g DEF Goto, TaskRecord
<1>1. CASE d # c
  <2>1. lockedBy = d /\ (task[c].pc \in Holding => FALSE)
    BY <1>1, OthersStay DEF SectionHoldsLock
  <2>2. ASSUME NEW from, NEW to, AcquireLock(c, from, to) PROVE FALSE
    BY <2>1, <2>2, <1>0 DEF AcquireLock
  <2>3. ~Release(c)
    BY <2>1 DEF Release, TaskAt, Holding
  <2>. QED BY <2>1, <2>2, <2>3 DEF TaskStep, CaptureTimesOut, TaskDies, Publish, PublishFails,
    List, ListFails, RollBackCapture, BeginUndo, UndoEntry, UndoFails, UndoFile, Rename, ListExport,
    ExportTimesOut, RollBackReads, RollBackRemoves
<1>2. CASE d = c
  <2>1. ASSUME NEW from, NEW to, AcquireLock(c, from, to) PROVE lockedBy' = d
    BY <1>2, <2>1 DEF AcquireLock
  <2>2. CASE lockedBy' = lockedBy /\ task[c].pc \in Holding
    BY <1>2, <2>2 DEF SectionHoldsLock
  <2>3. CASE CaptureTimesOut(c)
    BY <1>2, <1>g, <2>3 DEF CaptureTimesOut, Holding
  <2>4. CASE Release(c)
    BY <1>2, <1>g, <2>4 DEF Release, Holding
  <2>5. CASE TaskDies(c)
    BY <1>2, <1>g, <2>5 DEF TaskDies, Holding
  <2>6. CASE Rename(c)
    BY <1>2, <1>g, <2>6 DEF Rename, Holding
  <2>7. CASE ExportTimesOut(c)
    BY <1>2, <1>g, <2>7 DEF ExportTimesOut, Holding
  <2>8. CASE RollBackReads(c)
    <3>1. CASE TaskAt(c, "roll back")
      BY <2>2, <2>8, <3>1 DEF RollBackReads, TaskAt, Holding
    <3>2. CASE ~TaskAt(c, "roll back")
      BY <1>2, <2>8, <3>2, ZenonT(60) DEF RollBackReads, TaskAt, Holding, TaskRecord
    <3>. QED BY <3>1, <3>2
  <2>9. CASE RollBackRemoves(c)
    <3>1. CASE TaskAt(c, "remove")
      BY <2>2, <2>9, <3>1 DEF RollBackRemoves, TaskAt, Holding
    <3>2. CASE ~TaskAt(c, "remove")
      BY <1>2, <1>g, <2>9, <3>2 DEF RollBackRemoves, TaskAt, Holding
    <3>. QED BY <3>1, <3>2
  <2>. QED BY <2>1, <2>2, <2>3, <2>4, <2>5, <2>6, <2>7, <2>8, <2>9 DEF TaskStep, Publish, PublishFails,
    List, ListFails, RollBackCapture, BeginUndo, UndoEntry, UndoFails, UndoFile, ListExport, TaskAt, Holding
<1>. QED BY <1>1, <1>2

\* While a capture that may list or roll back waits for its turn, the others
\* leave its file and the entries of its variant alone.
LEMMA PublishedStep ==
  ASSUME StoreTypes, CapturesAreKept, SectionHoldsLock, PublishedIsThere,
         NEW c \in Tasks, TaskStep(c)
  PROVE  CapturesAreKept' /\ PublishedIsThere'
<1>. task \in [Tasks -> TaskRecord] /\ task[c] \in TaskRecord
  BY DEF StoreTypes
<1>t. \A d \in Captures : d \in Tasks
  BY DEF Tasks
<1>v. /\ task[c].variant \in Variants /\ task[c].bytes \in Bytes
      /\ shots \in [Variants -> Bytes \cup {NoBytes}]
      /\ \A e \in listed : e.variant \in Variants /\ e.bytes \in Bytes
      /\ NoBytes \notin Bytes
  BY StoreAssumption DEF StoreTypes, TaskRecord
<1>g. ASSUME NEW place \in Pcs, Goto(c, place)
      PROVE  /\ task'[c].pc = place /\ task'[c].variant = task[c].variant
             /\ task'[c].bytes = task[c].bytes /\ task'[c].created = task[c].created
  BY <1>g DEF Goto, TaskRecord
<1>q. {"publish", "list", "failed", "done", "dead", "give up", "roll back", "undo", "undo file",
       "release", "wait", "roll back unlocked"} \subseteq Pcs
  BY DEF Pcs
<1>p. c \in Captures =>
        /\ task[c].pc \in {"begin", "publish"} => ~task[c].created
        /\ TaskAt(c, "list") => shots[task[c].variant] = task[c].bytes
        /\ TaskAt(c, "list") /\ task[c].created => Unlisted(task[c].variant)
        /\ TaskAt(c, "roll back") => Unlisted(task[c].variant)
  BY DEF PublishedIsThere
<1>o. \A d \in Tasks \ {c} : task'[d] = task[d]
  BY OthersStay
\* The others are not where PublishedIsThere says something of shots and listed.
<1>s. task[c].pc \in Holding =>
        \A d \in Captures \ {c} : ~(task[d].pc \in {"list", "roll back"})
  BY <1>t DEF SectionHoldsLock, Holding
<1>e. ASSUME task[c].pc \in Holding, task'[c].pc \notin {"begin", "publish", "list", "roll back"}
      PROVE  PublishedIsThere'
  BY <1>e, <1>s, <1>o, <1>t DEF PublishedIsThere, TaskAt
<1>a. ASSUME UNCHANGED shots, listed' \subseteq listed,
             c \in Captures => /\ task'[c].pc \in {"begin", "publish"} => ~task'[c].created
                               /\ TaskAt(c, "list")' => FALSE
                               /\ TaskAt(c, "roll back")' => Unlisted(task'[c].variant)
      PROVE  CapturesAreKept' /\ PublishedIsThere'
  BY <1>a, <1>o, <1>t DEF PublishedIsThere, CapturesAreKept, TaskAt, Unlisted
<1>b. ASSUME UNCHANGED <<shots, listed>>, task'[c].pc \notin {"begin", "publish", "list", "roll back"}
      PROVE  CapturesAreKept' /\ PublishedIsThere'
  BY <1>a, <1>b DEF TaskAt
<1>1. CASE AcquireLock(c, "begin", "publish")
  BY <1>1, <1>g, <1>q, <1>p, <1>a DEF AcquireLock, TaskAt
<1>2. CASE c \in Exports /\ AcquireLock(c, "wait", "list")
  BY <1>2, <1>a, StoreAssumption DEF AcquireLock
<1>3. CASE CaptureTimesOut(c)
  BY <1>3, <1>g, <1>q, <1>b DEF CaptureTimesOut
<1>4. CASE Release(c)
  BY <1>4, <1>g, <1>q, <1>b DEF Release
<1>5. CASE TaskDies(c)
  BY <1>5, <1>g, <1>q, <1>b DEF TaskDies
<1>6. CASE Publish(c)
  <2>. task[c].pc \in Holding
    BY <1>6 DEF Publish, TaskAt, Holding
  <2>1. CASE /\ shots[task[c].variant] = NoBytes
             /\ shots' = [shots EXCEPT ![task[c].variant] = task[c].bytes]
             /\ task' = [task EXCEPT ![c].pc = "list", ![c].created = TRUE]
    <3>1. \A e \in listed : e.variant # task[c].variant
      BY <2>1, <1>v DEF CapturesAreKept
    <3>2. /\ task'[c].pc = "list" /\ task'[c].variant = task[c].variant
          /\ task'[c].bytes = task[c].bytes
      BY <2>1 DEF TaskRecord
    <3>3. listed' = listed
      BY <1>6 DEF Publish
    <3>4. CapturesAreKept'
      BY <3>1, <3>3, <2>1, <1>v DEF CapturesAreKept
    <3>5. shots'[task'[c].variant] = task'[c].bytes
      BY <3>2, <2>1, <1>v
    <3>6. ASSUME NEW d \in Captures \ {c}
          PROVE  /\ task'[d].pc \in {"begin", "publish"} => ~task'[d].created
                 /\ ~(task'[d].pc \in {"list", "roll back"})
      BY <1>o, <1>s, <1>t DEF PublishedIsThere
    <3>. QED BY <3>1, <3>2, <3>3, <3>4, <3>5, <3>6 DEF PublishedIsThere, TaskAt, Unlisted
  <2>2. CASE shots[task[c].variant] = task[c].bytes /\ Goto(c, "list") /\ UNCHANGED shots
    <3>1. listed' = listed
      BY <1>6 DEF Publish
    <3>2. c \in Captures => ~task'[c].created
      BY <1>6, <2>2, <1>g, <1>q, <1>p DEF Publish, TaskAt
    <3>. QED BY <2>2, <3>1, <3>2, <1>g, <1>q, <1>o, <1>s, <1>t DEF PublishedIsThere, CapturesAreKept, TaskAt, Unlisted
  <2>3. CASE task' = [task EXCEPT ![c].variant = task[c].variant + 1] /\ UNCHANGED shots
    <3>1. task'[c].pc = "publish" /\ (c \in Captures => ~task'[c].created)
      BY <1>6, <2>3, <1>p DEF Publish, TaskAt, TaskRecord
    <3>. QED BY <1>6, <2>3, <3>1, <1>a DEF Publish, TaskAt
  <2>. QED BY <1>6, <2>1, <2>2, <2>3 DEF Publish
<1>7. CASE PublishFails(c)
  BY <1>7, <1>g, <1>q, <1>b DEF PublishFails
<1>8. CASE List(c)
  <2>1. task[c].pc \in Holding /\ task'[c].pc = "release" /\ shots[task[c].variant] = task[c].bytes
    BY <1>8, <1>g, <1>q, <1>p DEF List, TaskAt, Holding
  <2>2. CapturesAreKept'
    BY <1>8, <2>1 DEF List, Entry, CapturesAreKept
  <2>. QED BY <2>1, <2>2, <1>e
<1>9. CASE ListFails(c)
  BY <1>9, <1>g, <1>q, <1>a, <1>p, StoreAssumption DEF ListFails, TaskAt
<1>10. CASE RollBackCapture(c)
  <2>1. task[c].pc \in Holding /\ task'[c].pc = "give up" /\ Unlisted(task[c].variant)
    BY <1>10, <1>g, <1>q, <1>p DEF RollBackCapture, TaskAt, Holding
  <2>2. CapturesAreKept'
    BY <1>10, <2>1, <1>v DEF RollBackCapture, Unlisted, CapturesAreKept
  <2>. QED BY <2>1, <2>2, <1>e
<1>11. CASE AcquireLock(c, "done", "undo")
  BY <1>11, <1>g, <1>q, <1>b DEF AcquireLock
<1>12. CASE UndoEntry(c)
  BY <1>12, <1>g, <1>q, <1>a DEF UndoEntry, TaskAt
<1>13. CASE UndoFails(c)
  BY <1>13, <1>g, <1>q, <1>b DEF UndoFails
<1>14. CASE UndoFile(c)
  <2>1. task[c].pc \in Holding /\ task'[c].pc = "give up"
    BY <1>14, <1>g, <1>q DEF UndoFile, TaskAt, Holding
  <2>2. CapturesAreKept'
    BY <1>14, <1>v DEF UndoFile, Unlisted, CapturesAreKept
  <2>. QED BY <2>1, <2>2, <1>e
<1>15. CASE Rename(c)
  BY <1>15, <1>g, <1>q, <1>b DEF Rename
<1>16. CASE ListExport(c)
  BY <1>16, <1>g, <1>q, <1>b DEF ListExport
<1>17. CASE ExportTimesOut(c)
  BY <1>17, <1>g, <1>q, <1>b DEF ExportTimesOut
<1>18. CASE RollBackReads(c)
  <2>0. PICK place \in {IF TaskAt(c, "roll back") THEN "remove" ELSE "remove unlocked"}, matches \in {{}, exported} :
          task' = [task EXCEPT ![c].pc = place, ![c].spared = matches # {}]
    BY <1>18 DEF RollBackReads
  <2>1. task'[c].pc \in {"remove", "remove unlocked"}
    BY <2>0 DEF TaskRecord
  <2>. QED BY <1>18, <2>1, <1>b DEF RollBackReads
<1>19. CASE RollBackRemoves(c)
  BY <1>19, <1>g, <1>q, <1>b DEF RollBackRemoves
<1>. QED BY <1>1, <1>2, <1>3, <1>4, <1>5, <1>6, <1>7, <1>8, <1>9, <1>10, <1>11, <1>12, <1>13, <1>14,
            <1>15, <1>16, <1>17, <1>18, <1>19 DEF TaskStep, BeginUndo

\* The file in place is renamed or removed whole, and an entry goes only when
\* its file is in place no more.
LEMMA ReplacedStep ==
  ASSUME StoreTypes, ReplacedIsListed, NEW c \in Tasks, TaskStep(c)
  PROVE  ReplacedIsListed'
<1>. task \in [Tasks -> TaskRecord] /\ task[c] \in TaskRecord
  BY DEF StoreTypes
<1>t. Exports \subseteq Tasks /\ Nobody \notin Exports
  BY StoreAssumption DEF Tasks
<1>e. \A d \in Exports : ExportEntry(d)' = ExportEntry(d)
  BY <1>t, BytesStay DEF ExportEntry
<1>o. \A d \in Tasks \ {c} : task'[d] = task[d]
  BY OthersStay
<1>q. {"publish", "list", "failed", "done", "dead", "give up", "roll back", "undo", "undo file",
       "release", "wait", "roll back unlocked"} \subseteq Pcs
  BY DEF Pcs
<1>g. ASSUME NEW place \in Pcs, Goto(c, place) PROVE task'[c].pc = place
  BY <1>g DEF Goto, TaskRecord
<1>r. /\ export.by \in Exports => export = ExportEntry(export.by)
      /\ \A d \in Exports : task[d].pc \in {"release", "done"} /\ export.by = d
                             => ExportEntry(d) \in exported
  BY DEF ReplacedIsListed
\* Most steps touch neither the file nor the entries.
<1>a. ASSUME UNCHANGED <<export, exported>>,
             task'[c].pc \in {"release", "done"} /\ c \in Exports => task[c].pc \in {"release", "done"}
      PROVE  ReplacedIsListed'
  <2>1. (export.by \in Exports => export = ExportEntry(export.by))'
    BY <1>a, <1>r, BytesStay, <1>t DEF ExportEntry
  <2>2. ASSUME NEW d \in Exports, task'[d].pc \in {"release", "done"}, export'.by = d
        PROVE  ExportEntry(d)' \in exported'
    BY <2>2, <1>a, <1>e, <1>o, <1>r, <1>t
  <2>. QED BY <2>1, <2>2 DEF ReplacedIsListed
<1>b. ASSUME UNCHANGED <<export, exported>>, task'[c].pc \notin {"release", "done"}
      PROVE  ReplacedIsListed'
  BY <1>a, <1>b
<1>1. ASSUME NEW from, NEW to \in Pcs \ {"release", "done"}, AcquireLock(c, from, to) PROVE ReplacedIsListed'
  BY <1>1, <1>g, <1>b DEF AcquireLock
<1>2. CASE Release(c)
  BY <1>2, <1>a, <1>b, <1>g, <1>q DEF Release, TaskAt
<1>3. CASE Publish(c)
  <2>1. task'[c].pc \in {"list", "publish"}
    BY <1>3, <1>g, <1>q DEF Publish, TaskAt, TaskRecord
  <2>. QED BY <1>3, <2>1, <1>b DEF Publish
<1>4. CASE List(c)
  BY <1>4, <1>a, StoreAssumption DEF List
<1>5. CASE Rename(c)
  <2>1. task'[c].pc = "wait" /\ export' = ExportEntry(c) /\ c \in Exports
    BY <1>5, <1>g, <1>q DEF Rename
  <2>2. ExportEntry(c).by = c
    BY DEF ExportEntry
  <2>. QED BY <2>1, <2>2, <1>e DEF ReplacedIsListed
<1>6. CASE ListExport(c)
  <2>1. c \in Exports /\ export' = export
    BY <1>6 DEF ListExport
  <2>2. \A d \in Exports : ExportEntry(d).by = d
    BY DEF ExportEntry
  <2>3. ASSUME NEW d \in Exports, task'[d].pc \in {"release", "done"}, export.by = d
        PROVE  ExportEntry(d) \in exported'
    <3>1. export = ExportEntry(d)
      BY <2>3, <1>r
    <3>2. CASE d = c
      BY <1>6, <3>1, <3>2 DEF ListExport
    <3>3. CASE d # c
      <4>1. export # ExportEntry(c) /\ ExportEntry(d) \in exported
        BY <3>1, <3>3, <2>1, <2>2, <2>3, <1>o, <1>r, <1>t
      <4>. QED BY <1>6, <4>1 DEF ListExport
    <3>. QED BY <3>2, <3>3
  <2>. QED BY <2>1, <2>3, <1>e, <1>r DEF ReplacedIsListed
<1>7. CASE RollBackReads(c)
  <2>0. PICK place \in {IF TaskAt(c, "roll back") THEN "remove" ELSE "remove unlocked"}, matches \in {{}, exported} :
          task' = [task EXCEPT ![c].pc = place, ![c].spared = matches # {}]
    BY <1>7 DEF RollBackReads
  <2>1. task'[c].pc \in {"remove", "remove unlocked"}
    BY <2>0 DEF TaskRecord
  <2>. QED BY <1>7, <2>1, <1>b DEF RollBackReads
<1>8. CASE RollBackRemoves(c)
  <2>1. task'[c].pc \in {"give up", "failed"}
    BY <1>8, <1>g, <1>q DEF RollBackRemoves
  <2>2. CASE export' = export
    BY <1>8, <2>1, <2>2, <1>b DEF RollBackRemoves
  <2>3. CASE export' = NoFile
    BY <2>3, <1>t DEF NoFile, ReplacedIsListed
  <2>. QED BY <1>8, <2>2, <2>3 DEF RollBackRemoves
<1>9. CASE \/ CaptureTimesOut(c) \/ TaskDies(c) \/ PublishFails(c) \/ ListFails(c) \/ RollBackCapture(c)
           \/ UndoEntry(c) \/ UndoFails(c) \/ UndoFile(c) \/ ExportTimesOut(c)
  <2>1. task'[c].pc \notin {"release", "done"}
    BY <1>9, <1>g, <1>q DEF CaptureTimesOut, TaskDies, PublishFails, ListFails, RollBackCapture, UndoEntry,
      UndoFails, UndoFile, ExportTimesOut
  <2>2. UNCHANGED <<export, exported>>
    BY <1>9 DEF CaptureTimesOut, TaskDies, PublishFails, ListFails, RollBackCapture, UndoEntry,
      UndoFails, UndoFile, ExportTimesOut
  <2>. QED BY <2>1, <2>2, <1>b
<1>. QED BY <1>1, <1>2, <1>3, <1>4, <1>5, <1>6, <1>7, <1>8, <1>9, <1>q DEF TaskStep, BeginUndo
-----------------------------------------------------------------------------
\* The invariant holds at first,
LEMMA StoreInitInv == StoreInit => StoreInv
<1> SUFFICES ASSUME StoreInit PROVE StoreInv
  OBVIOUS
<1>1. StoreTypes
  BY StoreInitTypes
<1>2. \A c \in Tasks : task[c].pc = "begin" /\ ~task[c].created
  <2> SUFFICES ASSUME NEW c \in Tasks PROVE task[c].pc = "begin" /\ ~task[c].created
    OBVIOUS
  <2>1. PICK b \in Bytes : task[c] = FreshTask(b)
    BY DEF StoreInit
  <2>. QED BY <2>1 DEF FreshTask
<1>3. SectionHoldsLock
  BY <1>2 DEF SectionHoldsLock, Holding
<1>4. PublishedIsThere
  BY <1>2 DEF PublishedIsThere, TaskAt, Tasks
<1>5. ReplacedIsListed
  BY <1>2, StoreAssumption DEF StoreInit, ReplacedIsListed, NoFile, Tasks
<1>. QED BY <1>1, <1>3, <1>4, <1>5 DEF StoreInv, StoreInit, CapturesAreKept

\* every step keeps it,
LEMMA StoreNextInv == StoreInv /\ [StoreNext]_storeVars => StoreInv'
<1> SUFFICES ASSUME StoreInv, [StoreNext]_storeVars PROVE StoreInv'
  OBVIOUS
<1>0. StoreTypes'
  BY StoreNextTypes DEF StoreInv
<1>1. CASE UNCHANGED storeVars
  BY <1>0, <1>1 DEF storeVars, StoreInv, CapturesAreKept, SectionHoldsLock, PublishedIsThere,
    ReplacedIsListed, TaskAt, Unlisted, ExportEntry
<1>2. CASE BreakLock
  <2>1. \A c \in Tasks : task[c].pc \notin Holding
    BY <1>2 DEF BreakLock, TaskAt, Holding, StoreInv, SectionHoldsLock
  <2>2. SectionHoldsLock'
    BY <1>2, <2>1 DEF BreakLock, SectionHoldsLock
  <2>. QED BY <1>0, <1>2, <2>2 DEF BreakLock, StoreInv, CapturesAreKept, PublishedIsThere,
    ReplacedIsListed, TaskAt, Unlisted, ExportEntry
<1>3. ASSUME NEW c \in Tasks, TaskStep(c) PROVE StoreInv'
  BY <1>0, <1>3, SectionStep, PublishedStep, ReplacedStep DEF StoreInv
<1>. QED BY <1>1, <1>2, <1>3 DEF StoreNext

\* and so it holds in every state.
LEMMA StoreInvariant == StoreSpec => []StoreInv
BY StoreInitInv, StoreNextInv, PTL DEF StoreSpec

\* The variables of the store keep their types.
THEOREM StoreKeepsTypes == StoreSpec => []StoreTypes
<1>1. StoreInv => StoreTypes
  BY DEF StoreInv
<1>. QED BY <1>1, StoreInvariant, PTL

\* A listed capture has its bytes: no capture, failed write, undo, rollback
\* or death of another takes them away (artifactFiles.ts:85,
\* artifactManifest.ts:847).
THEOREM CapturesStay == StoreSpec => []CapturesAreKept
<1>1. StoreInv => CapturesAreKept
  BY DEF StoreInv
<1>. QED BY <1>1, StoreInvariant, PTL

\* An export that ended and whose file is in place is listed, in whatever
\* order the exports reach the manifest (artifactManifest.ts:653).
THEOREM ExportsStayListed == StoreSpec => []ExportsAreListed
<1>1. StoreInv => ExportsAreListed
  BY DEF StoreInv, ReplacedIsListed, ExportsAreListed, TaskAt
<1>. QED BY <1>1, StoreInvariant, PTL
-----------------------------------------------------------------------------
(* The lock of the artifact manifest *)

LockPcs == {"idle"} \cup Waiting \cup Sweeping \cup Section

\* The tokens in the names or the bytes of files.
Named == ({lock, brk} \ {None}) \cup announced \cup temps \cup expired

\* The call of the token has begun.
Begun(t) == t[2] <= calls[t[1]]

\* No running call has the token, and none ever will.
Abandoned(t) ==
  \/ t[1] \notin alive
  \/ t[2] < calls[t[1]]
  \/ pc[t[1]] = "idle"

\* A breaker that has judged a lock and may come to remove it.
Judging == {"folder", "announce", "list", "scan", "break", "compareLock", "removeLock"}

\* A breaker that counts on its announcement, and one that has listed the others'.
Listed == {"scan"} \cup Acting
Showing == {"list"} \cup Listed

\* Only calls that have begun have files, and a call that runs is one of them.
FilesHaveBegun ==
  /\ calls \in [Writers -> Nat]
  /\ \A w \in Writers : pc[w] # "idle" => Token(w) \in Tokens
  /\ \A t \in Named : Begun(t)

\* The files of a call that waits, or that others cannot judge, stay young.
Young(w) == pc[w] \in Waiting \cup Sweeping \/ (w \in Unknown /\ pc[w] # "idle")
RunningIsYoung == \A w \in alive : Young(w) => Token(w) \notin expired

\* What a writer takes for stale is abandoned.
StaleIsAbandoned ==
  /\ \A w \in Writers : unreleased[w] # None => Begun(unreleased[w]) /\ Abandoned(unreleased[w])
  /\ \A w \in alive : pc[w] \in Judging =>
       judged[w] \in Tokens /\ Begun(judged[w]) /\ Abandoned(judged[w])
  /\ \A w \in alive : pc[w] = "removeLock" => lock = judged[w]

\* Of two that have listed, one has yet to look at the other, and both can be seen.
BreakersSeeEachOther ==
  /\ \A w \in alive : pc[w] \in Showing => Token(w) \in announced
  /\ \A w \in alive : pc[w] \in Acting => seen[w] = {}
  /\ \A v, w \in alive : v # w /\ pc[v] \in Listed /\ pc[w] \in Listed
       => Token(w) \in seen[v] \/ Token(v) \in seen[w]

\* What is written is what was read and is still there.
SnapshotIsCurrent == \A w \in alive : pc[w] = "write" => snapshot[w] = manifest

LockInv ==
  /\ TypeOK
  /\ FilesHaveBegun
  /\ RunningIsYoung
  /\ StaleIsAbandoned
  /\ BreakersSeeEachOther
  /\ LockIsHeld
  /\ SnapshotIsCurrent
  /\ ManifestIsTheRecord
-----------------------------------------------------------------------------
(* What a step of a writer does. A call begins with Start, a process ends  *)
(* with Crash; all between is WriterStep.                                  *)

WriterStep(w) ==
  \/ Acquire(w) \/ TimeOut(w)
  \/ ReadManifest(w) \/ AppendEntry(w) \/ UpdateFails(w)
  \/ \E t \in Tokens : RemoveEntry(w, t)
  \/ CompareOwnLock(w) \/ RemoveOwnLock(w) \/ ReleaseFails(w)

\* A step of w is its own: it goes on to another place and leaves the others alone.
OwnStep(w) ==
  /\ w \in alive /\ alive' = alive /\ calls' = calls /\ pc[w] # "idle"
  /\ \A v \in Writers : v # w =>
       /\ pc'[v] = pc[v] /\ judged'[v] = judged[v] /\ seen'[v] = seen[v]
       /\ snapshot'[v] = snapshot[v] /\ unreleased'[v] = unreleased[v]
  /\ pc'[w] \in Waiting => pc[w] \in Waiting
  /\ pc'[w] \in Sweeping => pc[w] \in Waiting \cup Sweeping

\* No file gets a name but that of the call, and none grows old.
OwnFiles(w) ==
  /\ Named' \subseteq Named \cup {Token(w)}
  /\ expired' \subseteq expired

\* The lock is taken when it is free, and removed by the breaker or the owner.
OwnLock(w) ==
  /\ \/ lock' = lock /\ (pc'[w] \in Sweeping \cup Section => pc[w] \in Sweeping \cup Section)
     \/ lock = None /\ lock' = Token(w) /\ pc[w] = "link" /\ pc'[w] \in {"sweep", "read"}
     \/ lock' = None /\ pc[w] = "removeLock" /\ pc'[w] = "compareOwnBreak"
     \/ lock' = None /\ pc[w] = "removeOwn" /\ pc'[w] = "idle"
  /\ \/ unreleased'[w] \in {unreleased[w], None}
     \/ unreleased'[w] = Token(w) /\ pc'[w] = "idle"
  /\ pc'[w] \in Judging =>
       \/ pc[w] \in Judging /\ judged'[w] = judged[w]
       \/ pc[w] = "judge" /\ judged'[w] = lock /\ lock # None /\ IsStaleLock(w, lock)
  /\ pc'[w] = "removeLock" => lock' = lock /\ lock = judged[w] /\ judged'[w] = judged[w]

\* A breaker announces itself, lists the others, and looks at each of them.
OwnAnnouncement(w) ==
  /\ \A t \in announced : t # Token(w) /\ ~IsStaleBreakFile(t) => t \in announced'
  /\ pc'[w] \in Showing =>
       \/ pc[w] = "announce" /\ pc'[w] = "list" /\ Token(w) \in announced'
       \/ pc[w] \in Showing /\ (~IsStaleBreakFile(Token(w)) /\ Token(w) \in announced => Token(w) \in announced')
  /\ pc'[w] \in Listed =>
       \/ pc[w] = "list" /\ pc'[w] = "scan" /\ seen'[w] = announced \ {Token(w)}
       \/ pc[w] \in Listed /\ \A t \in seen[w] : t \in announced /\ ~IsStaleBreakFile(t) => t \in seen'[w]
  /\ pc'[w] \in Acting => seen'[w] = {} \/ (pc[w] \in Acting /\ seen'[w] = seen[w])

\* The manifest is written from what was read of it.
OwnEntries(w) ==
  /\ pc'[w] = "write" => pc[w] = "read" /\ snapshot'[w] = manifest /\ manifest' = manifest
  /\ \/ manifest' = manifest /\ recorded' = recorded
     \/ /\ pc[w] = "write"
        /\ \E t \in Tokens :
             \/ manifest' = snapshot[w] \cup {t} /\ recorded' = recorded \cup {t}
             \/ manifest' = snapshot[w] \ {t} /\ recorded' = recorded \ {t}

\* Tokens are pairs, and no token is None.
LEMMA TokensArePairs ==
  /\ \A t \in Tokens : t = <<t[1], t[2]>> /\ t[1] \in Writers /\ t[2] \in 1 .. MaxCalls[t[1]]
  /\ \A w \in Writers : \A k \in 1 .. MaxCalls[w] : <<w, k>> \in Tokens
  /\ None \notin Tokens
BY LockAssumption DEF Tokens, None

\* The token of a call that runs is a token.
LEMMA RunningToken ==
  ASSUME FilesHaveBegun, NEW w \in Writers, pc[w] # "idle"
  PROVE  /\ Token(w) \in Tokens /\ Token(w) # None /\ Token(w)[1] = w /\ Token(w)[2] = calls[w]
<1>1. Token(w) \in Tokens
  BY DEF FilesHaveBegun
<1>2. Token(w)[1] = w /\ Token(w)[2] = calls[w]
  BY SMTT(40) DEF Token
<1>. QED BY <1>1, <1>2, TokensArePairs

\* The table of the steps of a writer: each is of that shape.
LEMMA StepsHaveThatShape ==
  ASSUME TypeOK, FilesHaveBegun, NEW w \in Writers, WriterStep(w)
  PROVE  TypeOK' /\ OwnStep(w) /\ OwnFiles(w) /\ OwnLock(w) /\ OwnAnnouncement(w) /\ OwnEntries(w)
<1> DEFINE Goal == TypeOK' /\ OwnStep(w) /\ OwnFiles(w) /\ OwnLock(w) /\ OwnAnnouncement(w) /\ OwnEntries(w)
<1> USE DEF At, Go, files, store, locals, Compare, RemoveBreakFile, RemoveFolder, Forget,
            TypeOK, OwnStep, OwnFiles, OwnLock, OwnAnnouncement, OwnEntries,
            Waiting, Sweeping, Section, Judging, Showing, Listed, Acting, Named
<1>t. TypeOK /\ pc \in [Writers -> LockPcs] /\ judged \in [Writers -> Tokens \cup {None}]
      /\ unreleased \in [Writers -> Tokens \cup {None}]
  BY DEF LockPcs
<1>w. pc[w] # "idle" => Token(w) \in Tokens
  BY DEF FilesHaveBegun
<1>1. CASE TakeLock(w)
  BY <1>1, <1>t, <1>w DEF TakeLock
<1>2. CASE FindTaken(w)
  BY <1>2, <1>t, <1>w DEF FindTaken
<1>3. CASE TimeOut(w)
  BY <1>3, <1>t, <1>w DEF TimeOut
<1>4. CASE Judge(w)
  BY <1>4, <1>t, <1>w DEF Judge
<1>5. CASE MakeFolder(w)
  BY <1>5, <1>t, <1>w DEF MakeFolder
<1>6. CASE Announce(w)
  BY <1>6, <1>t, <1>w DEF Announce
<1>7. CASE ListAnnouncements(w)
  BY <1>7, <1>t, <1>w DEF ListAnnouncements
<1>8. CASE ScanEnds(w)
  BY <1>8, <1>t, <1>w DEF ScanEnds
<1>9. CASE TakeBreak(w)
  BY <1>9, <1>t, <1>w DEF TakeBreak
<1>10. CASE MeetBreak(w)
  BY <1>10, <1>t, <1>w DEF MeetBreak
<1>11. CASE CompareBreak(w)
  BY <1>11, <1>t, <1>w DEF CompareBreak
<1>12. CASE RemoveBreak(w)
  BY <1>12, <1>t, <1>w DEF RemoveBreak
<1>13. CASE CompareLock(w)
  BY <1>13, <1>t, <1>w DEF CompareLock
<1>14. CASE RemoveLock(w)
  BY <1>14, <1>t, <1>w DEF RemoveLock
<1>15. CASE CompareOwnBreak(w)
  BY <1>15, <1>t, <1>w DEF CompareOwnBreak
<1>16. CASE RemoveOwnBreak(w)
  BY <1>16, <1>t, <1>w DEF RemoveOwnBreak
<1>17. CASE Withdraw(w)
  BY <1>17, <1>t, <1>w DEF Withdraw
<1>18. CASE EndAttempt(w)
  BY <1>18, <1>t, <1>w DEF EndAttempt
<1>19. CASE Sweep(w)
  BY <1>19, <1>t, <1>w DEF Sweep
<1>20. CASE SweepBreak(w)
  BY <1>20, <1>t, <1>w DEF SweepBreak
<1>21. CASE SweepRemove(w)
  BY <1>21, <1>t, <1>w DEF SweepRemove
<1>22. CASE SweepFolder(w)
  BY <1>22, <1>t, <1>w DEF SweepFolder
<1>23. CASE ReadManifest(w)
  BY <1>23, <1>t, <1>w DEF ReadManifest
<1>24. CASE AppendEntry(w)
  BY <1>24, <1>t, <1>w DEF AppendEntry
<1>25. CASE UpdateFails(w)
  BY <1>25, <1>t, <1>w DEF UpdateFails
<1>26. CASE CompareOwnLock(w)
  BY <1>26, <1>t, <1>w DEF CompareOwnLock
<1>27. CASE RemoveOwnLock(w)
  BY <1>27, <1>t, <1>w DEF RemoveOwnLock
<1>28. CASE ReleaseFails(w)
  BY <1>28, <1>t, <1>w DEF ReleaseFails
<1>29. ASSUME NEW t \in Tokens, LookAt(w, t) PROVE Goal
  BY <1>29, <1>t, <1>w DEF LookAt
<1>30. ASSUME NEW t \in Tokens, RemoveEntry(w, t) PROVE Goal
  BY <1>30, <1>t, <1>w DEF RemoveEntry
<1>. QED
  <2> HIDE DEF Goal
  <2>1. CASE Break(w)
    BY <2>1, <1>4, <1>5, <1>6, <1>7, <1>8, <1>9, <1>10, <1>11, <1>12, <1>13, <1>14, <1>15, <1>16, <1>17, <1>18, <1>29 DEF Break, Goal
  <2>2. CASE Acquire(w) /\ ~Break(w)
    BY <2>2, <1>1, <1>2, <1>19, <1>20, <1>21, <1>22 DEF Acquire, Goal
  <2>. QED BY <2>1, <2>2, <1>3, <1>23, <1>24, <1>25, <1>26, <1>27, <1>28, <1>30, SMTT(40) DEF WriterStep, Goal

-----------------------------------------------------------------------------
(* What the judgements of others' files are worth.                         *)

\* No call that runs is abandoned.
LEMMA RunningIsNotAbandoned ==
  ASSUME FilesHaveBegun, NEW w \in Writers, w \in alive, pc[w] # "idle"
  PROVE  ~Abandoned(Token(w))
<1>1. Token(w)[1] = w /\ Token(w)[2] = calls[w] /\ calls[w] \in Nat
  BY DEF Token, FilesHaveBegun
<1>. QED BY <1>1 DEF Abandoned

\* Two writers that run have different tokens.
LEMMA TokensDiffer ==
  ASSUME NEW v, NEW w, v # w
  PROVE  Token(v) # Token(w)
BY DEF Token

\* The announcement of a breaker is never taken for an old one.
LEMMA YoungIsNotStale ==
  ASSUME RunningIsYoung, NEW w \in alive, Young(w)
  PROVE  ~IsStaleBreakFile(Token(w))
<1>1. Token(w)[1] = w /\ Token(w) \notin expired
  BY DEF Token, RunningIsYoung
<1>. QED BY <1>1 DEF IsStaleBreakFile, IsOwnerGone, Owner

\* A lock that is taken for stale is abandoned.
LEMMA StaleLockIsAbandoned ==
  ASSUME TypeOK, FilesHaveBegun, RunningIsYoung, StaleIsAbandoned,
         NEW w \in Writers, lock # None, IsStaleLock(w, lock)
  PROVE  lock \in Tokens /\ Begun(lock) /\ Abandoned(lock)
<1>1. lock \in Tokens /\ Begun(lock)
  BY DEF TypeOK, FilesHaveBegun, Named
<1>2. lock = <<lock[1], lock[2]>> /\ lock[1] \in Writers /\ lock[2] \in Nat /\ calls[lock[1]] \in Nat
  BY <1>1, TokensArePairs, LockAssumption DEF FilesHaveBegun
<1>3. CASE unreleased[w] = lock
  BY <1>1, <1>3 DEF StaleIsAbandoned
<1>4. CASE lock[1] \notin alive
  BY <1>1, <1>4 DEF Abandoned
<1>5. CASE lock[1] \in alive /\ lock[1] \in Unknown /\ lock \in expired
  <2>1. SUFFICES ASSUME ~Abandoned(lock) PROVE FALSE
    BY <1>1
  <2>2. pc[lock[1]] # "idle" /\ lock[2] = calls[lock[1]]
    BY <1>1, <1>2, <1>5, <2>1 DEF Abandoned, Begun
  <2>3. lock = Token(lock[1]) /\ Young(lock[1])
    BY <1>2, <1>5, <2>2 DEF Token, Young
  <2>. QED BY <1>5, <2>3 DEF RunningIsYoung
<1>. QED BY <1>3, <1>4, <1>5 DEF IsStaleLock, IsOwnerGone, Owner

\* What is abandoned stays so, as long as no idle call begins again.
LEMMA AbandonedStays ==
  ASSUME FilesHaveBegun, NEW t \in Tokens, Begun(t), Abandoned(t), alive' \subseteq alive,
         \A v \in Writers : \/ calls'[v] = calls[v] /\ (pc[v] = "idle" => pc'[v] = "idle")
                            \/ calls'[v] \in Nat /\ calls'[v] > calls[v]
  PROVE  Begun(t)' /\ Abandoned(t)'
<1>1. t[1] \in Writers /\ t[2] \in Nat /\ calls[t[1]] \in Nat
  BY TokensArePairs, LockAssumption DEF FilesHaveBegun
<1>. QED BY <1>1 DEF Begun, Abandoned

-----------------------------------------------------------------------------
(* A step of a writer keeps the invariant, one conjunct after another.     *)

\* Files belong to calls that have begun, and those of waiting calls are young.
LEMMA WriterKeepsFiles ==
  ASSUME LockInv, NEW w \in Writers, WriterStep(w), OwnStep(w), OwnFiles(w)
  PROVE  FilesHaveBegun' /\ RunningIsYoung'
<1> USE DEF LockInv
<1>1. calls' = calls /\ alive' = alive /\ \A v \in Writers : pc'[v] # "idle" => pc[v] # "idle"
  BY DEF OwnStep
<1>2. \A v \in Writers : Token(v)' = Token(v)
  BY <1>1 DEF Token
<1>3. Begun(Token(w))
  BY DEF Begun, Token, FilesHaveBegun
<1>4. FilesHaveBegun'
  <2>1. \A t \in Named' : t \in Named \/ t = Token(w)
    BY DEF OwnFiles
  <2>. QED BY <1>1, <1>2, <1>3, <2>1 DEF FilesHaveBegun, Begun
<1>5. RunningIsYoung'
  <2> SUFFICES ASSUME NEW v \in alive, Young(v)' PROVE Token(v) \notin expired'
    BY <1>1, <1>2 DEF RunningIsYoung, TypeOK
  <2>1. v \in Writers
    BY DEF TypeOK
  <2>2. Young(v)
    BY <1>1, <2>1 DEF OwnStep, Young
  <2>. QED BY <2>2 DEF RunningIsYoung, OwnFiles
<1>. QED BY <1>4, <1>5

\* What a writer takes for stale is abandoned.
LEMMA WriterKeepsStale ==
  ASSUME LockInv, NEW w \in Writers, OwnStep(w), OwnLock(w)
  PROVE  StaleIsAbandoned'
<1> USE DEF LockInv
<1>1. calls' = calls /\ alive' = alive /\ w \in alive /\ pc[w] # "idle"
  BY DEF OwnStep
<1>2. \A t \in Tokens : Begun(t) /\ Abandoned(t) => Begun(t)' /\ Abandoned(t)'
  BY <1>1, AbandonedStays DEF OwnStep
<1>3. Token(w) \in Tokens /\ Token(w)[1] = w /\ Token(w)[2] = calls[w] /\ Begun(Token(w))
  BY <1>1, RunningToken DEF Begun, FilesHaveBegun
<1>4. ASSUME NEW v \in Writers, NEW t, t = unreleased'[v], t # None
      PROVE  Begun(t)' /\ Abandoned(t)'
  <2>1. CASE t = unreleased[v]
    BY <1>2, <1>4, <2>1 DEF StaleIsAbandoned, TypeOK
  <2>2. CASE v = w /\ t = Token(w) /\ pc'[w] = "idle"
    BY <1>1, <1>3, <2>2 DEF Begun, Abandoned
  <2>. QED BY <1>4, <2>1, <2>2 DEF OwnStep, OwnLock
<1>5. ASSUME NEW v \in alive, NEW t, t = judged'[v], pc'[v] \in Judging
      PROVE  t \in Tokens /\ Begun(t)' /\ Abandoned(t)'
  <2>1. v \in Writers
    BY DEF TypeOK
  <2>2. CASE pc[v] \in Judging /\ t = judged[v]
    BY <1>2, <2>2 DEF StaleIsAbandoned
  <2>3. CASE v = w /\ t = lock /\ lock # None /\ IsStaleLock(w, lock)
    BY <1>2, <2>3, StaleLockIsAbandoned
  <2>. QED BY <1>5, <2>1, <2>2, <2>3 DEF OwnStep, OwnLock
<1>6. ASSUME NEW v \in alive, pc'[v] = "removeLock"
      PROVE  lock' = judged'[v]
  <2>1. CASE v = w
    BY <1>6, <2>1 DEF OwnLock
  <2>2. CASE v # w
    <3>1. v \in Writers /\ pc[v] = "removeLock" /\ judged'[v] = judged[v]
      BY <1>6, <2>2 DEF OwnStep, TypeOK
    <3>2. lock = judged[v] /\ lock \in Tokens /\ lock # None /\ Abandoned(lock)
      BY <3>1, TokensArePairs DEF StaleIsAbandoned, Judging
    <3>3. pc[w] # "removeLock"
      BY <1>1, <2>2, <3>1 DEF LockIsHeld, Acting
    <3>4. pc[w] # "removeOwn"
      BY <1>1, <3>2, RunningIsNotAbandoned DEF LockIsHeld, Section
    <3>. QED BY <3>1, <3>2, <3>3, <3>4 DEF OwnLock
  <2>. QED BY <2>1, <2>2
<1>. QED BY <1>1, <1>4, <1>5, <1>6 DEF StaleIsAbandoned

\* Of two breakers that have listed, one has yet to look at the other.
LEMMA WriterKeepsSight ==
  ASSUME LockInv, NEW w \in Writers, OwnStep(w), OwnAnnouncement(w)
  PROVE  BreakersSeeEachOther'
<1> USE DEF LockInv
<1>1. calls' = calls /\ alive' = alive /\ w \in alive /\ alive \subseteq Writers
  BY DEF OwnStep, TypeOK
<1>2. \A v \in Writers : Token(v)' = Token(v)
  BY <1>1 DEF Token
<1>3. \A v \in alive : pc[v] \in Showing => Token(v) \in announced /\ ~IsStaleBreakFile(Token(v))
  BY YoungIsNotStale DEF BreakersSeeEachOther, Young, Showing, Listed, Acting, Waiting
<1>4. \A v \in alive : v # w => pc'[v] = pc[v] /\ seen'[v] = seen[v] /\ Token(v) # Token(w)
  BY <1>1, TokensDiffer DEF OwnStep
<1>5. ASSUME NEW v \in alive, pc'[v] \in Showing PROVE Token(v) \in announced'
  <2>1. CASE v = w
    BY <1>3, <1>5, <2>1 DEF OwnAnnouncement
  <2>2. CASE v # w
    BY <1>3, <1>4, <1>5, <2>2 DEF OwnAnnouncement
  <2>. QED BY <2>1, <2>2
<1>6. ASSUME NEW v \in alive, pc'[v] \in Acting PROVE seen'[v] = {}
  <2>1. CASE v = w
    BY <1>1, <1>6, <2>1 DEF OwnAnnouncement, BreakersSeeEachOther
  <2>2. CASE v # w
    BY <1>4, <1>6, <2>2 DEF BreakersSeeEachOther
  <2>. QED BY <2>1, <2>2
<1>7. ASSUME NEW v \in alive, v # w, pc'[v] \in Listed, pc'[w] \in Listed
      PROVE  Token(v) \in seen'[w] \/ Token(w) \in seen'[v]
  <2>1. /\ pc[v] \in Listed /\ seen'[v] = seen[v] /\ Token(v) # Token(w)
        /\ Token(v) \in announced /\ ~IsStaleBreakFile(Token(v))
    BY <1>3, <1>4, <1>7 DEF Showing
  <2>2. CASE seen'[w] = announced \ {Token(w)}
    BY <2>1, <2>2
  <2>3. CASE pc[w] \in Listed /\ \A t \in seen[w] : t \in announced /\ ~IsStaleBreakFile(t) => t \in seen'[w]
    BY <1>1, <1>7, <2>1, <2>3 DEF BreakersSeeEachOther
  <2>. QED BY <1>7, <2>2, <2>3 DEF OwnAnnouncement
<1>8. ASSUME NEW u \in alive, NEW v \in alive, u # v, pc'[u] \in Listed, pc'[v] \in Listed
      PROVE  Token(v) \in seen'[u] \/ Token(u) \in seen'[v]
  <2>1. CASE u = w \/ v = w
    BY <1>7, <1>8, <2>1
  <2>2. CASE u # w /\ v # w
    BY <1>4, <1>8, <2>2 DEF BreakersSeeEachOther
  <2>. QED BY <2>1, <2>2
<1>9. /\ \A v \in alive' : pc'[v] \in Showing => Token(v)' \in announced'
      /\ \A v \in alive' : pc'[v] \in Acting => seen'[v] = {}
      /\ \A u, v \in alive' : u # v /\ pc'[u] \in Listed /\ pc'[v] \in Listed
           => Token(v)' \in seen'[u] \/ Token(u)' \in seen'[v]
  BY <1>1, <1>2, <1>5, <1>6, <1>8
<1>. QED BY <1>9 DEF BreakersSeeEachOther

\* A call that is past the lock keeps it.
LEMMA WriterKeepsLock ==
  ASSUME LockInv, NEW w \in Writers, OwnStep(w), OwnLock(w), BreakersSeeEachOther'
  PROVE  LockIsHeld'
<1> USE DEF LockInv
<1>1. calls' = calls /\ alive' = alive /\ w \in alive /\ alive \subseteq Writers
  BY DEF OwnStep, TypeOK
<1>2. \A v \in Writers : Token(v)' = Token(v)
  BY <1>1 DEF Token
<1>3. ASSUME NEW v \in alive, pc'[v] \in Sweeping \cup Section PROVE lock' = Token(v)
  <2>1. CASE v = w
    BY <1>1, <1>3, <2>1 DEF OwnLock, LockIsHeld, Sweeping, Section
  <2>2. CASE v # w
    <3>1. v \in Writers /\ pc[v] \in Sweeping \cup Section /\ pc[v] # "idle" /\ lock = Token(v)
      BY <1>1, <1>3, <2>2 DEF OwnStep, LockIsHeld, Sweeping, Section
    <3>2. lock # None
      BY <3>1, RunningToken
    <3>3. pc[w] # "removeLock"
      BY <1>1, <3>1, RunningIsNotAbandoned DEF StaleIsAbandoned, Judging
    <3>4. pc[w] # "removeOwn"
      BY <1>1, <2>2, <3>1, TokensDiffer DEF LockIsHeld, Section
    <3>. QED BY <3>1, <3>2, <3>3, <3>4 DEF OwnLock
  <2>. QED BY <2>1, <2>2
<1>4. \A u, v \in alive' : pc'[u] \in Acting /\ pc'[v] \in Acting => u = v
  BY DEF BreakersSeeEachOther, Listed
<1>. QED BY <1>1, <1>2, <1>3, <1>4 DEF LockIsHeld

\* What is written adds one entry to the manifest that is there, or takes one away.
LEMMA WriterKeepsRecord ==
  ASSUME LockInv, NEW w \in Writers, OwnStep(w), OwnEntries(w)
  PROVE  SnapshotIsCurrent' /\ ManifestIsTheRecord'
<1> USE DEF LockInv
<1>1. alive' = alive /\ w \in alive /\ alive \subseteq Writers
  BY DEF OwnStep, TypeOK
<1>2. ASSUME NEW v \in alive, pc'[v] = "write" PROVE snapshot'[v] = manifest'
  <2>1. CASE v = w
    BY <1>2, <2>1 DEF OwnEntries
  <2>2. CASE v # w
    <3>1. pc[v] = "write" /\ snapshot'[v] = snapshot[v]
      BY <1>1, <1>2, <2>2 DEF OwnStep
    <3>2. pc[w] # "write"
      BY <1>1, <2>2, <3>1, TokensDiffer DEF LockIsHeld, Section
    <3>. QED BY <3>1, <3>2 DEF OwnEntries, SnapshotIsCurrent
  <2>. QED BY <2>1, <2>2
<1>3. ManifestIsTheRecord'
  BY <1>1 DEF OwnEntries, SnapshotIsCurrent, ManifestIsTheRecord
<1>. QED BY <1>1, <1>2, <1>3 DEF SnapshotIsCurrent

\* Together: a step of a writer between the beginning and the end of its call.
LEMMA WriterKeeps ==
  ASSUME LockInv, NEW w \in Writers, WriterStep(w)
  PROVE  LockInv'
<1>1. TypeOK' /\ OwnStep(w) /\ OwnFiles(w) /\ OwnLock(w) /\ OwnAnnouncement(w) /\ OwnEntries(w)
  BY StepsHaveThatShape DEF LockInv
<1>2. BreakersSeeEachOther'
  BY <1>1, WriterKeepsSight
<1>. QED BY <1>1, <1>2, WriterKeepsFiles, WriterKeepsStale, WriterKeepsLock, WriterKeepsRecord DEF LockInv

-----------------------------------------------------------------------------
(* A call begins, a process dies, a file grows old.                        *)

\* A new call has a token that nobody has judged.
LEMMA StartKeeps ==
  ASSUME LockInv, NEW w \in Writers, Start(w)
  PROVE  LockInv'
<1> USE DEF LockInv
<1>1. /\ w \in alive /\ alive' = alive /\ alive \subseteq Writers /\ pc[w] = "idle"
      /\ calls' = [calls EXCEPT ![w] = calls[w] + 1] /\ calls[w] < MaxCalls[w]
      /\ pc' = [pc EXCEPT ![w] = "link"] /\ temps' = temps \cup {<<w, calls[w] + 1>>}
      /\ UNCHANGED <<lock, brk, folder, announced, expired, store, judged, seen, snapshot, unreleased>>
  BY DEF Start, At, Go, TypeOK
<1>2. /\ calls[w] \in Nat /\ MaxCalls[w] \in Nat /\ calls \in [Writers -> Nat]
      /\ calls'[w] = calls[w] + 1 /\ <<w, calls[w] + 1>> \in Tokens
  <2>1. calls[w] \in Nat /\ MaxCalls[w] \in Nat /\ calls \in [Writers -> Nat]
    BY LockAssumption DEF FilesHaveBegun
  <2>2. calls'[w] = calls[w] + 1
    BY <1>1, <2>1
  <2>3. calls[w] + 1 \in 1 .. MaxCalls[w]
    BY <1>1, <2>1
  <2>4. <<w, calls[w] + 1>> \in Tokens
    BY <2>3, TokensArePairs
  <2>. QED BY <2>1, <2>2, <2>4
<1>3. \A v \in Writers : v # w => calls'[v] = calls[v] /\ pc'[v] = pc[v] /\ Token(v)' = Token(v)
  BY <1>1, <1>2 DEF TypeOK, Token
<1>4. pc'[w] = "link" /\ Token(w)' = <<w, calls[w] + 1>>
  BY <1>1, <1>2 DEF TypeOK, Token
<1>5. TypeOK'
  <2>1. foundTaken' \in [Writers -> BOOLEAN]
    BY DEF Start, TypeOK
  <2>2. pc' \in [Writers -> {"idle"} \cup Waiting \cup Sweeping \cup Section]
    BY <1>1 DEF TypeOK, Waiting
  <2>3. \A v \in Writers : calls'[v] \in 0 .. MaxCalls[v]
    BY <1>1, <1>2, <1>3 DEF TypeOK
  <2>4. temps' \subseteq Tokens
    BY <1>1, <1>2 DEF TypeOK
  <2>. QED BY <1>1, <2>1, <2>2, <2>3, <2>4 DEF TypeOK, store
<1>6. FilesHaveBegun'
  <2>1. calls' \in [Writers -> Nat]
    BY <1>1, <1>2
  <2>2. \A v \in Writers : pc'[v] # "idle" => Token(v)' \in Tokens
    BY <1>2, <1>3, <1>4 DEF FilesHaveBegun
  <2>3. \A t \in Named' : t \in Named \/ t = <<w, calls[w] + 1>>
    BY <1>1 DEF Named
  <2>4. \A t \in Named : t \in Tokens /\ t[1] \in Writers /\ t[2] \in Nat
    BY TokensArePairs, LockAssumption DEF Named, TypeOK
  <2>5. \A t \in Named : Begun(t)'
    <3> SUFFICES ASSUME NEW t \in Named PROVE t[2] <= calls'[t[1]]
      BY DEF Begun
    <3>1. t[2] <= calls[t[1]]
      BY DEF FilesHaveBegun, Begun
    <3>. QED BY <3>1, <2>4, <1>2, <1>3
  <2>6. \A t : t = <<w, calls[w] + 1>> => Begun(t)'
    <3>1. \A t : t = <<w, calls[w] + 1>> => t[1] = w /\ t[2] = calls[w] + 1
      OBVIOUS
    <3>2. calls[w] + 1 <= calls'[w]
      BY <1>2
    <3>. QED BY <3>1, <3>2 DEF Begun
  <2>7. \A t \in Named' : Begun(t)'
    BY <2>3, <2>5, <2>6
  <2>. QED BY <2>1, <2>2, <2>7 DEF FilesHaveBegun
<1>7. RunningIsYoung'
  <2>1. \A t \in expired : t[2] <= calls[t[1]]
    BY DEF FilesHaveBegun, Named, Begun
  <2>2. <<w, calls[w] + 1>> \notin expired
    BY <1>2, <2>1
  <2>3. \A v \in alive : v # w /\ Young(v)' => Young(v)
    BY <1>1, <1>3 DEF Young
  <2>. QED BY <1>1, <1>3, <1>4, <2>2, <2>3 DEF RunningIsYoung
<1>8. StaleIsAbandoned'
  <2>1. \A t \in Tokens : Begun(t) /\ Abandoned(t) => Begun(t)' /\ Abandoned(t)'
    <3>1. \A v \in Writers : \/ calls'[v] = calls[v] /\ (pc[v] = "idle" => pc'[v] = "idle")
                             \/ calls'[v] \in Nat /\ calls'[v] > calls[v]
      BY <1>2, <1>3
    <3>. QED BY <1>1, <3>1, AbandonedStays
  <2>2. \A v \in alive : pc'[v] \in Judging => v # w /\ pc[v] = pc'[v]
    BY <1>1, <1>3, <1>4 DEF Judging
  <2>3. \A v \in Writers : unreleased[v] # None => unreleased[v] \in Tokens
    BY DEF TypeOK
  <2>. QED BY <1>1, <2>1, <2>2, <2>3 DEF StaleIsAbandoned, Judging
<1>9. \A v \in alive : pc'[v] \in Showing \cup Acting \cup Listed \cup Sweeping \cup Section
                         => v # w /\ pc[v] = pc'[v] /\ Token(v)' = Token(v)
  BY <1>1, <1>3, <1>4 DEF Showing, Listed, Acting, Sweeping, Section
<1>10. BreakersSeeEachOther'
  BY <1>1, <1>9 DEF BreakersSeeEachOther
<1>11. LockIsHeld'
  BY <1>1, <1>9 DEF LockIsHeld
<1>12. SnapshotIsCurrent' /\ ManifestIsTheRecord'
  BY <1>1, <1>9 DEF SnapshotIsCurrent, ManifestIsTheRecord, Section, store
<1>. QED BY <1>5, <1>6, <1>7, <1>8, <1>10, <1>11, <1>12

\* The dead hold nothing against the living.
LEMMA CrashKeeps ==
  ASSUME LockInv, NEW w \in Writers, Crash(w)
  PROVE  LockInv'
<1> USE DEF LockInv
<1>1. alive' \subseteq alive /\ alive' \subseteq Writers /\ UNCHANGED <<files, store, pc, calls, locals>>
  BY DEF Crash, TypeOK
<1>2. TypeOK' /\ FilesHaveBegun'
  BY <1>1 DEF TypeOK, FilesHaveBegun, Named, Begun, Token, files, store, locals
<1>3. RunningIsYoung'
  BY <1>1 DEF RunningIsYoung, Young, Token, files
<1>4. StaleIsAbandoned'
  <2>1. \A t \in Tokens : Begun(t) /\ Abandoned(t) => Begun(t)' /\ Abandoned(t)'
    BY <1>1, AbandonedStays
  <2>2. \A v \in Writers : unreleased[v] # None => unreleased[v] \in Tokens
    BY DEF TypeOK
  <2>. QED BY <1>1, <2>1, <2>2 DEF StaleIsAbandoned, locals, files
<1>5. BreakersSeeEachOther'
  BY <1>1 DEF BreakersSeeEachOther, Token, files, locals
<1>6. LockIsHeld' /\ SnapshotIsCurrent' /\ ManifestIsTheRecord'
  BY <1>1 DEF LockIsHeld, SnapshotIsCurrent, ManifestIsTheRecord, Token, files, store, locals
<1>. QED BY <1>2, <1>3, <1>4, <1>5, <1>6

\* A file that grows old is not one of a call that counts on its age.
LEMMA ExpireKeeps ==
  ASSUME MayStop = {}, LockInv, NEW t \in Tokens, Expire(t)
  PROVE  LockInv'
<1> USE DEF LockInv
<1>1. /\ expired' = expired \cup {t} /\ t \in {lock, brk} \cup announced \cup temps
      /\ UNCHANGED <<lock, brk, folder, announced, temps, store, alive, pc, calls, locals>>
  BY DEF Expire
<1>2. TypeOK'
  BY <1>1 DEF TypeOK, store, locals
<1>3. FilesHaveBegun'
  <2>1. Named' \subseteq Named
    BY <1>1, TokensArePairs DEF Named
  <2>. QED BY <1>1, <2>1 DEF FilesHaveBegun, Begun, Token
<1>4. RunningIsYoung'
  <2> SUFFICES ASSUME NEW w \in alive, Young(w), t = Token(w) PROVE FALSE
    BY <1>1 DEF RunningIsYoung, Young, Token
  <2>1. Owner(t) = w
    BY DEF Owner, Token
  <2>2. pc[w] # "idle" /\ ~(w \notin Unknown /\ pc[w] \in Section)
    BY DEF Young, Waiting, Sweeping, Section
  <2>. QED BY <2>1, <2>2 DEF Expire
<1>5. StaleIsAbandoned'
  BY <1>1 DEF StaleIsAbandoned, Begun, Abandoned, locals
<1>6. BreakersSeeEachOther'
  BY <1>1 DEF BreakersSeeEachOther, Token, locals
<1>7. LockIsHeld' /\ SnapshotIsCurrent' /\ ManifestIsTheRecord'
  BY <1>1 DEF LockIsHeld, SnapshotIsCurrent, ManifestIsTheRecord, Token, store, locals
<1>. QED BY <1>2, <1>3, <1>4, <1>5, <1>6, <1>7

\* The files that dead processes left are those of calls that had begun.
LEMMA LockBegins == Init => LockInv
<1> SUFFICES ASSUME Init PROVE LockInv
  OBVIOUS
<1> DEFINE left == {<<w, 1>> : w \in Dead}
<1>1. left \subseteq Tokens
  BY TokensArePairs, LockAssumption
<1>2. /\ lock \in left \cup {None} /\ brk \in left \cup {None} /\ announced \subseteq left
      /\ temps = left /\ folder \in BOOLEAN
  BY DEF Init
<1>3. /\ expired = {} /\ manifest = {} /\ recorded = {} /\ alive = Writers \ Dead
      /\ pc = [w \in Writers |-> "idle"]
      /\ calls = [w \in Writers |-> IF w \in Dead THEN 1 ELSE 0]
      /\ foundTaken = [w \in Writers |-> FALSE] /\ judged = [w \in Writers |-> None]
      /\ seen = [w \in Writers |-> {}] /\ snapshot = [w \in Writers |-> {}]
      /\ unreleased = [w \in Writers |-> None]
  BY DEF Init
<1>4. \A w \in Writers : calls[w] \in 0 .. MaxCalls[w]
  BY <1>3, LockAssumption
<1>5. TypeOK
  BY <1>1, <1>2, <1>3, <1>4 DEF TypeOK
<1>6. \A t \in left : t[1] \in Writers /\ t[2] = 1 /\ calls[t[1]] = 1
  BY <1>3, LockAssumption
<1>7. FilesHaveBegun
  <2>1. Named \subseteq left
    BY <1>2, <1>3 DEF Named
  <2>. QED BY <1>3, <1>6, <2>1 DEF FilesHaveBegun, Begun
<1> HIDE DEF left
<1>8. \A w \in alive : w \in Writers /\ pc[w] = "idle"
  BY <1>3
<1>. QED BY <1>3, <1>5, <1>7, <1>8
     DEF LockInv, RunningIsYoung, Young, StaleIsAbandoned, BreakersSeeEachOther, LockIsHeld,
         SnapshotIsCurrent, ManifestIsTheRecord, Waiting, Sweeping, Section, Judging,
         Showing, Listed, Acting

\* The invariant of the lock is inductive, when no writer is stopped for over
\* 60 s: a stopped one would lose its announcement to its age.
THEOREM TheLockHolds == ASSUME MayStop = {} PROVE Spec => []LockInv
<1>1. Init => LockInv
  BY LockBegins
<1>2. LockInv /\ [Next]_vars => LockInv'
  <2> SUFFICES ASSUME LockInv, [Next]_vars PROVE LockInv'
    OBVIOUS
  <2>1. ASSUME NEW w \in Writers, WriterStep(w) PROVE LockInv'
    BY <2>1, WriterKeeps
  <2>2. ASSUME NEW w \in Writers, Start(w) PROVE LockInv'
    BY <2>2, StartKeeps
  <2>3. ASSUME NEW w \in Writers, Crash(w) PROVE LockInv'
    BY <2>3, CrashKeeps
  <2>4. ASSUME NEW t \in Tokens, Expire(t) PROVE LockInv'
    BY <2>4, ExpireKeeps
  <2>5. CASE UNCHANGED vars
    BY <2>5 DEF vars, files, store, locals, LockInv, TypeOK, FilesHaveBegun, RunningIsYoung,
                StaleIsAbandoned, BreakersSeeEachOther, LockIsHeld, SnapshotIsCurrent,
                ManifestIsTheRecord, Named, Begun, Abandoned, Young, Token
  <2>. QED BY <2>1, <2>2, <2>3, <2>4, <2>5 DEF Next, WriterStep
<1>. QED BY <1>1, <1>2, PTL DEF Spec

\* While a live writer runs its update the lock file is its own, whoever died,
\* failed to release or tried to break it, and breakers act one at a time.
THEOREM UpdatesDoNotOverlap == ASSUME MayStop = {} PROVE Spec => []LockIsHeld
<1>1. LockInv => LockIsHeld
  BY DEF LockInv
<1>. QED BY <1>1, TheLockHolds, PTL

\* The manifest is what the completed updates add up to: none is overwritten
\* from an older reading.
THEOREM NoUpdateIsLost == ASSUME MayStop = {} PROVE Spec => []ManifestIsTheRecord
<1>1. LockInv => ManifestIsTheRecord
  BY DEF LockInv
<1>. QED BY <1>1, TheLockHolds, PTL
=============================================================================
