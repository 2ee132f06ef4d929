------------------------- MODULE ProgramGroupProofs -------------------------
(***************************************************************************)
(* Proofs about the program's group, for every set of process numbers and  *)
(* every bound on attempts and forks. What a reader takes from a scan is   *)
(* old when it acts on it, so the invariant says of each reader what its   *)
(* rows still tell: a row of another session means that the program is     *)
(* gone for good, and a scan that looks for stopped members has seen, or   *)
(* has yet to see, each that is held.                                      *)
(*                                                                         *)
(* The proof follows the code: one lemma for each function on a reader     *)
(* says that it returns a reader that is Good, one for each system call    *)
(* that it moves a Good reader to a Good one, and one for each change of   *)
(* the group that it keeps what the readers know.                          *)
(***************************************************************************)
EXTENDS ProgramGroup, WellFoundedInduction, TLAPS

\* The processes of the group.
Members == {p \in Pids : table[p].state # "free"}

\* Job control holds no member.
NobodyIsHeld == \A p \in Pids : table[p].state # "held"

\* The number belongs to another program, and never again to this one.
AllOthers == \A p \in Pids : table[p].session = "other"

\* Every member is of the program's session.
OnlyProgram == \A p \in Members : table[p].session = "program"

\* Who is in the group: one session, and the child of the host only as leader.
GroupInv ==
  /\ table \in [Pids -> [state : {"free", "zombie"} \union Live, session : Sessions]]
  /\ \A p \in Pids : table[p].state = "free" => table[p].session = "other"
  /\ \A p \in Pids : table[p].session = "host" => p = Program
  /\ \A p, q \in Members : table[p].session = table[q].session

\* The token is the program's, and was taken when no child of the host was
\* left in the group. A capture that read the group of nobody or of another
\* program finds the same when it looks for the child again.
TokenInv ==
  /\ token \in {"none", "program"}
  /\ token = "program" => capture.pc = "done" /\ \A p \in Pids : table[p].session # "host"
  /\ capture \in [pc : {"before", "group", "after", "done"},
                  before : {"none", "first", "second"}, group : {"none"} \union Sessions]
  /\ capture.pc = "after" /\ capture.group \in {"none", "other"} => Start(Program) # "first"
  /\ view \in {"clear", "noBoot", "noAutogroup", "hides", "rebooted"}
  /\ view = "rebooted" => token = "program" /\ AllOthers

\* The steps of a scan.
Scans == {"list", "stat", "autogroup"}

\* The steps without a scan.
Calls == {"witness", "proof", "kill", "signal", "thaw", "probe", "probeAgain",
          "hostProbe", "hostStat", "hostProbeAgain", "hostKill"}

\* The reader has stopped the group, or is about to, and will let it go on.
Thaws(rd) == rd.frozen \/ rd.doing = "gcFrozen"

\* Which functions call which: where a reader may be, and for whom.
Control(rd) ==
  /\ rd \in Reader
  /\ rd.pc = "idle" => rd = Idle
  /\ rd.pc = "done" => ~Thaws(rd)
  /\ rd.pc # "done" => rd.result = "none"
  /\ rd.pc # "idle" => rd.kind # "none"
  /\ rd.pc \in Scans => rd.scan # "none"
  /\ rd.pc \in Calls => rd.scan = "none" \/ (rd.pc = "thaw" /\ rd.doing = "gcFrozen")
  /\ rd.pc = "autogroup" => rd.scan \in {"judge", "judgeAgain", "held"}
  /\ rd.scan \in {"judge", "judgeAgain"} => rd.doing # "none" /\ rd.kind = "proven"
  /\ rd.scan = "held" => rd.doing = "stop" /\ ~rd.frozen
  /\ rd.scan \in {"live", "liveAgain"} => rd.doing \in {"alive", "gc"}
  /\ rd.doing \in {"stop", "gc", "gcFrozen"} => rd.kind = "proven"
  /\ rd.pc \in {"probe", "probeAgain"} => rd.doing \in {"alive", "gc"}
  /\ rd.pc \in {"signal", "thaw"} => rd.doing \in {"stop", "gcFrozen"}
  /\ rd.pc \in {"witness", "proof"} => rd.doing = "stop"
  /\ rd.doing = "gcFrozen" => rd.pc \in Scans \union {"signal", "thaw"} /\ ~rd.frozen
  /\ rd.frozen => /\ rd.doing = "stop"
                  /\ rd.pc \in Scans \union {"witness", "proof", "kill", "signal", "thaw"}

\* A scan that has read all it listed is judged in the same step.
Shape(rd) == Control(rd) /\ (rd.pc = "stat" => rd.todo # {})

\* What a reader found still holds when it acts on it.
Sees(rd) ==
  /\ rd.kind = "proven" => token = "program"
  /\ \A w \in rd.rows : w.session # "host" /\ (w.session = "other" => AllOthers)
  /\ rd.pc = "kill" /\ rd.kind = "proven" => OnlyProgram
  /\ rd.kind = "proven" /\ rd.result \in {"gone", "ended"} => ~ProgramLives
  /\ Thaws(rd) \/ rd.pc \in {"signal", "thaw"} => NobodyIsHeld
  /\ rd.pc \in {"stat", "autogroup"} /\ rd.scan \in {"held", "live", "liveAgain"} =>
       \A p \in Pids : table[p].state = "held" =>
          p \in rd.todo \/ \E w \in rd.rows : w.state = "held"

\* All that is known of a reader.
Good(rd) == Shape(rd) /\ Sees(rd)

\* A frozen group has a reader that will let it go on.
SomeoneThaws ==
  (\E p \in Pids : table[p].state = "frozen") => \E r \in Readers : Thaws(reader[r])

\* The inductive invariant.
IInv ==
  /\ GroupInv /\ TokenInv
  /\ reader = [r \in Readers |-> reader[r]]
  /\ \A r \in Readers : /\ Good(reader[r])
                        /\ reader[r].pc # "idle" => capture.pc = "done"
  /\ SomeoneThaws
  /\ hit \subseteq {"program"}
  /\ forks \in 0..MaxForks
  /\ host \in {"alive", "zombie", "gone", "reused"}
-----------------------------------------------------------------------------
\* The order of the natural numbers, as a relation.
Below == {ss \in Nat \X Nat : ss[1] < ss[2]}

\* Every set of numbers that is not empty has a smallest (the order of
\* /proc and of the witnesses).
LEMMA Smallest ==
  ASSUME NEW S, S \subseteq Nat, S # {}
  PROVE  \E p \in S : \A q \in S : p <= q
<1>1. IsWellFoundedOn(Below, Nat)
  BY NatLessThanWellFounded, Zenon DEF OpToRel, Below
<1>2. PICK p \in S : \A q \in S : <<q, p>> \notin Below
  BY <1>1, WFMin, Zenon
<1>3. ASSUME NEW q \in S PROVE p <= q
  <2>1. q \in Nat /\ p \in Nat /\ <<q, p>> \notin Below
    BY <1>2
  <2>2. q < p => <<q, p>> \in Below
    BY <2>1 DEF Below
  <2>3. QED BY <2>1, <2>2
<1>4. QED BY <1>3

\* The process whose status is read next is one that was listed.
LEMMA ListedIsListed ==
  ASSUME NEW rd \in Reader, rd.todo # {}
  PROVE  Listed(rd) \in rd.todo /\ Listed(rd) \in Pids
<1>1. rd.todo \subseteq Pids /\ rd.todo \subseteq Nat
  BY GroupAssumption DEF Reader
<1>2. \E p \in rd.todo : \A q \in rd.todo : p <= q
  BY <1>1, Smallest
<1>3. QED BY <1>1, <1>2 DEF Listed

\* A group that was judged owned has a witness.
LEMMA WitnessIsMember ==
  ASSUME NEW rd \in Reader, \E w \in rd.rows : w.session = token /\ w.state \in Live
  PROVE  Witness(rd) \in Pids
<1> DEFINE carriers == {w.pid : w \in {v \in rd.rows : v.session = token /\ v.state \in Live}}
<1>1. rd.rows \subseteq [pid : Pids, state : Live \union {"zombie"}, session : Sessions \union {"unread"}]
  BY DEF Reader
<1>a. PICK w \in rd.rows : w.session = token /\ w.state \in Live
  OBVIOUS
<1>b. w.pid \in carriers
  BY <1>a
<1>c. carriers \subseteq Pids /\ carriers \subseteq Nat
  BY <1>1, GroupAssumption
<1>2. \E p \in carriers : \A q \in carriers : p <= q
  <2> HIDE DEF carriers
  <2> QED BY <1>b, <1>c, Smallest
<1>3. QED BY <1>c, <1>2 DEF Witness

\* judgeProgramGroup always has an answer.
LEMMA VerdictType ==
  ASSUME TokenInv, NEW rows
  PROVE  Verdict(rows) \in {"gone", "unknown", "unproven", "owned", "moving"}
BY DEF Verdict, TokenInv

\* A group without the token is that of another program.
LEMMA VerdictUnproven ==
  ASSUME TokenInv, token = "program", NEW rd, rd \in Reader, Sees(rd),
         Verdict(rd.rows) = "unproven"
  PROVE  AllOthers
BY DEF Verdict, TokenInv, Sees, Shape, Reader, Sessions
-----------------------------------------------------------------------------
\* What a reader carries through the functions that it calls.
Carries(rd) ==
  /\ rd \in Reader
  /\ rd.kind # "none" /\ rd.result = "none"
  /\ rd.doing \in {"stop", "gc", "gcFrozen"} => rd.kind = "proven"
  /\ rd.doing = "gcFrozen" => ~rd.frozen
  /\ rd.frozen => rd.doing = "stop"
  /\ rd.kind = "proven" => token = "program"
  /\ Thaws(rd) => NobodyIsHeld

\* A reader between two calls carries what it knows.
LEMMA GoodCarries ==
  ASSUME NEW rd, Control(rd), Sees(rd), rd.pc \notin {"idle", "done"}
  PROVE  Carries(rd)
BY DEF Control, Sees, Carries

\* A reader without a call knows nothing that could be wrong.
LEMMA IdleGood == Good(Idle)
BY GroupAssumption DEF Good, Idle, Shape, Control, Sees, Thaws, Reader, Scans, Calls

\* An answer is right if the program is not alive when it says so.
LEMMA AnswerGood ==
  ASSUME NEW rd \in Reader, NEW result,
         result \in {"alive", "gone", "zombies", "ended", "runs", "unproved", "gaveUp"},
         rd.kind # "none", rd.kind = "proven" => token = "program",
         rd.kind = "proven" /\ result \in {"gone", "ended"} => ~ProgramLives
  PROVE  Good(Answer(rd, result)) /\ ~Thaws(Answer(rd, result)) /\ Answer(rd, result).pc = "done"
<1> DEFINE new == Answer(rd, result)
<1>1. /\ new.pc = "done" /\ new.doing = "none" /\ new.scan = "none"
      /\ new.kind = rd.kind /\ new.rows = {} /\ ~new.frozen /\ new.result = result
  BY DEF Answer, Idle
<1>2. rd.kind \in {"none", "proven", "bare", "unshared"}
  BY DEF Reader
<1>3. new \in Reader
  <2>1. /\ new = [Idle EXCEPT !.pc = "done", !.kind = rd.kind, !.result = result]
        /\ Idle \in Reader
    BY IdleGood DEF Answer, Good, Shape, Control
  <2> DEFINE first == [Idle EXCEPT !.pc = "done"]
             second == [first EXCEPT !.kind = rd.kind]
  <2>2. first \in Reader
    BY <2>1 DEF Reader
  <2> HIDE DEF first
  <2>3. second \in Reader
    BY <1>2, <2>2 DEF Reader
  <2>4. new = [second EXCEPT !.result = result]
    BY <2>1 DEF first
  <2> HIDE DEF second, new
  <2>5. result \in {"none", "alive", "gone", "zombies", "ended", "runs", "unproved", "gaveUp"}
    OBVIOUS
  <2> QED BY <2>3, <2>4, <2>5 DEF Reader
<1> HIDE DEF new
<1>4. Control(new)
  BY <1>1, <1>3 DEF Control, Thaws, Scans, Calls
<1> QED
  BY <1>1, <1>4 DEF Good, Shape, Sees, Thaws, new

\* A scan may begin for the functions that use it.
LEMMA ScanGood ==
  ASSUME NEW rd, Carries(rd), NEW purpose,
         purpose \in {"judge", "judgeAgain", "held", "live", "liveAgain"},
         purpose \in {"judge", "judgeAgain"} => rd.doing # "none" /\ rd.kind = "proven",
         purpose = "held" => rd.doing = "stop" /\ ~rd.frozen,
         purpose \in {"live", "liveAgain"} => rd.doing \in {"alive", "gc"}
  PROVE  Good(Scan(rd, purpose)) /\ (Thaws(Scan(rd, purpose)) <=> Thaws(rd))
<1> DEFINE new == Scan(rd, purpose)
<1>1. new \in Reader
  BY ZenonT(60) DEF Scan, Reader, Carries
<1>2. /\ new.pc = "list" /\ new.scan = purpose /\ new.rows = {} /\ new.todo = {}
      /\ new.doing = rd.doing /\ new.kind = rd.kind /\ new.frozen = rd.frozen
      /\ new.result = rd.result
  BY DEF Scan, Reader, Carries
<1> HIDE DEF new
<1>3. Control(new) 
  BY <1>1, <1>2 DEF Control, Carries, Scans, Thaws, Calls
<1>4. Sees(new)
  BY <1>1, <1>2 DEF Sees, Carries, Thaws
<1>5. Thaws(new) <=> Thaws(rd)
  BY <1>2 DEF Thaws
<1> QED
  BY <1>2, <1>3, <1>4, <1>5 DEF Good, Shape, new

\* What a reader must know to be at a step without a scan.
MayBeAt(rd, pc) ==
  /\ pc \in {"probe", "probeAgain"} => rd.doing \in {"alive", "gc"}
  /\ pc \in {"signal", "thaw"} => rd.doing \in {"stop", "gcFrozen"} /\ NobodyIsHeld
  /\ pc \in {"witness", "proof"} => rd.doing = "stop"
  /\ rd.doing = "gcFrozen" => pc \in {"signal", "thaw"}
  /\ rd.frozen => pc \in {"witness", "proof", "kill", "signal", "thaw"}
  /\ pc = "kill" /\ rd.kind = "proven" => OnlyProgram

\* A reader may go on to a call if it knows what the call rests on.
LEMMA CallGood ==
  ASSUME NEW rd, Carries(rd), NEW pc \in Calls, MayBeAt(rd, pc), NEW new \in Reader,
         new.pc = pc, new.scan = "none", new.doing = rd.doing, new.kind = rd.kind,
         new.frozen = rd.frozen, new.result = rd.result,
         \A w \in new.rows : w.session # "host" /\ (w.session = "other" => AllOthers)
  PROVE  Good(new) /\ (Thaws(new) <=> Thaws(rd))
<1>3. Control(new) 
  BY DEF Control, Carries, Scans, Thaws, Calls, MayBeAt
<1>4. Sees(new)
  BY DEF Sees, Carries, Thaws, MayBeAt, Calls
<1>5. Thaws(new) <=> Thaws(rd)
  BY DEF Thaws
<1> QED
  BY <1>3, <1>4, <1>5 DEF Good, Shape, Calls

\* The same for a call that leaves a scan behind.
LEMMA NoScanGood ==
  ASSUME NEW rd, Carries(rd), NEW pc \in Calls, MayBeAt(rd, pc)
  PROVE  Good(NoScan(rd, pc)) /\ (Thaws(NoScan(rd, pc)) <=> Thaws(rd))
<1> DEFINE new == NoScan(rd, pc)
<1>1. new \in Reader
  BY GroupAssumption, ZenonT(60) DEF NoScan, Reader, Carries, Calls
<1>2. /\ new.pc = pc /\ new.scan = "none" /\ new.rows = {}
      /\ new.doing = rd.doing /\ new.kind = rd.kind /\ new.frozen = rd.frozen
      /\ new.result = rd.result
  BY DEF NoScan, Reader, Carries
<1> HIDE DEF new
<1> QED
  BY <1>1, <1>2, CallGood DEF new
-----------------------------------------------------------------------------
\* judgeGroupForGc judges again with nothing frozen, or gives up.
LEMMA NextJudgementGood ==
  ASSUME NEW rd, Carries(rd), rd.kind = "proven", ~rd.frozen
  PROVE  Good(NextJudgement(rd)) /\ ~Thaws(NextJudgement(rd))
<1>1. CASE rd.count + 1 = GcJudgements
  <2>1. NextJudgement(rd) = Answer(rd, "gaveUp")
    BY <1>1 DEF NextJudgement
  <2> QED
    BY <2>1, AnswerGood DEF Carries
<1>2. CASE rd.count + 1 # GcJudgements
  <2> DEFINE next == [rd EXCEPT !.count = @ + 1, !.doing = "gc", !.frozenCount = 0]
  <2>1. NextJudgement(rd) = Scan(next, "judge")
    <3>1. NextJudgement(rd) = IF rd.count + 1 = GcJudgements THEN Answer(rd, "gaveUp")
                                                           ELSE Scan(next, "judge")
      BY Zenon DEF NextJudgement
    <3> HIDE DEF next
    <3> QED BY <1>2, <3>1
  <2>2. next \in Reader
    <3> DEFINE first == [rd EXCEPT !.count = @ + 1]
               second == [first EXCEPT !.doing = "gc"]
    <3>1. rd \in Reader /\ rd.count + 1 \in Nat
      BY DEF Carries, Reader
    <3>2. first \in Reader
      BY <3>1 DEF Reader
    <3> HIDE DEF first
    <3>3. second \in Reader
      BY <3>2 DEF Reader
    <3> HIDE DEF second
    <3>4. [second EXCEPT !.frozenCount = 0] \in Reader
      BY <3>3 DEF Reader
    <3> QED BY <3>4 DEF first, second
  <2>3. /\ next.doing = "gc" /\ next.kind = "proven" /\ ~next.frozen
        /\ next.result = rd.result
    BY DEF Carries, Reader
  <2>4. Carries(next) /\ ~Thaws(next)
    BY <2>2, <2>3 DEF Carries, Thaws
  <2> HIDE DEF next
  <2> QED
    BY <2>1, <2>3, <2>4, ScanGood
<1> QED BY <1>1, <1>2

\* A way out of stopProgramGroup lets a frozen group go on.
LEMMA LeaveGood ==
  ASSUME NEW rd, Carries(rd), rd.doing = "stop"
  PROVE  Good(Leave(rd)) /\ (Thaws(Leave(rd)) <=> Thaws(rd))
<1>1. CASE rd.frozen
  BY <1>1, NoScanGood DEF Leave, MayBeAt, Calls, Carries, Thaws
<1>2. CASE ~rd.frozen
  BY <1>2, NoScanGood DEF Leave, MayBeAt, Calls
<1> QED BY <1>1, <1>2

\* SIGSTOP is sent where no member is held.
LEMMA FreezesGood ==
  ASSUME NEW rd, Carries(rd), rd.doing \in {"stop", "gcFrozen"}, NobodyIsHeld
  PROVE  Good(Freezes(rd)) /\ (Thaws(Freezes(rd)) <=> Thaws(rd))
BY NoScanGood DEF Freezes, MayBeAt, Calls

\* stopProgramGroup keeps what it knows after a judgement.
LEMMA StopDecidesGood ==
  ASSUME TokenInv, NEW rd, Carries(rd), rd.doing = "stop"
  PROVE  LET new == StopDecides(rd, Verdict(rd.rows)) IN
         Good(new) /\ (Thaws(new) <=> Thaws(rd))
<1> DEFINE verdict == Verdict(rd.rows)
           new == StopDecides(rd, verdict)
<1>0. verdict \in {"gone", "unknown", "unproven", "owned", "moving"}
  BY VerdictType
<1>1. CASE verdict \in {"unproven", "unknown"}
  <2>1. new = Leave(rd)
    BY <1>1 DEF StopDecides
  <2> QED BY <2>1, LeaveGood
<1>2. CASE verdict = "owned"
  <2> DEFINE call == NoScan(rd, "witness")
  <2>1. new = [call EXCEPT !.at = Witness(rd)]
    BY <1>2 DEF StopDecides
  <2>2. call \in Reader /\ call.pc = "witness" /\ call.scan = "none" /\ call.rows = {}
        /\ call.doing = rd.doing /\ call.kind = rd.kind /\ call.frozen = rd.frozen
        /\ call.result = rd.result
    BY GroupAssumption DEF NoScan, Carries, Reader
  <2>3. \E w \in rd.rows : w.session = token /\ w.state \in Live
    <3>1. \E w \in rd.rows : w.session = token /\ w.state # "zombie"
      BY <1>2 DEF Verdict, TokenInv
    <3>2. \A w \in rd.rows : w.state \in Live \union {"zombie"}
      BY DEF Carries, Reader
    <3> QED BY <3>1, <3>2
  <2>4. Witness(rd) \in Pids
    BY <2>3, WitnessIsMember DEF Carries
  <2> HIDE DEF call, verdict
  <2>5. new \in Reader
    BY <2>1, <2>2, <2>4 DEF Reader
  <2>6. /\ new.pc = "witness" /\ new.scan = "none" /\ new.rows = {}
        /\ new.doing = rd.doing /\ new.kind = rd.kind /\ new.frozen = rd.frozen
        /\ new.result = rd.result
    BY <2>1, <2>2 DEF Reader
  <2> HIDE DEF new
  <2>7. MayBeAt(rd, "witness")
    BY DEF MayBeAt
  <2>8. Good(new) /\ (Thaws(new) <=> Thaws(rd))
    BY <2>5, <2>6, <2>7, CallGood DEF Calls
  <2> QED BY <2>8 DEF new, verdict
<1>3. CASE verdict \in {"gone", "moving"}
  <2>1. new = IF rd.frozen THEN Freezes(rd) ELSE Scan(rd, "held")
    BY <1>3 DEF StopDecides
  <2>2. rd.frozen => NobodyIsHeld
    BY DEF Carries, Thaws
  <2>3. rd.frozen => Good(Freezes(rd)) /\ (Thaws(Freezes(rd)) <=> Thaws(rd))
    BY <2>2, FreezesGood
  <2>4. ~rd.frozen => Good(Scan(rd, "held")) /\ (Thaws(Scan(rd, "held")) <=> Thaws(rd))
    BY ScanGood
  <2> QED BY <2>1, <2>3, <2>4
<1> QED BY <1>0, <1>1, <1>2, <1>3

\* isProgramGroupAlive says gone only of a group of another program.
LEMMA AliveDecidesGood ==
  ASSUME TokenInv, NEW rd, Carries(rd), Sees(rd), rd.doing = "alive", rd.kind = "proven"
  PROVE  Good(AliveDecides(rd, Verdict(rd.rows)))
<1> DEFINE verdict == Verdict(rd.rows)
<1>0. verdict \in {"gone", "unknown", "unproven", "owned", "moving"}
  BY VerdictType
<1>1. CASE verdict \in {"owned", "unknown", "moving"}
  <2>1. Good(Answer(rd, "alive"))
    BY AnswerGood DEF Carries
  <2> QED BY <1>1, <2>1 DEF AliveDecides
<1>2. CASE verdict = "unproven"
  <2>1. ~ProgramLives
    BY <1>2, VerdictUnproven DEF Carries, AllOthers, ProgramLives
  <2>2. Good(Answer(rd, "gone"))
    BY <2>1, AnswerGood DEF Carries
  <2> QED BY <1>2, <2>2 DEF AliveDecides
<1>3. CASE verdict = "gone"
  <2>1. Good(NoScan(rd, "probe"))
    BY NoScanGood DEF MayBeAt, Calls, Carries
  <2> QED BY <1>3, <2>1 DEF AliveDecides
<1> QED BY <1>0, <1>1, <1>2, <1>3

\* judgeGroupForGc says ended only of a group of another program.
LEMMA GcDecidesGood ==
  ASSUME TokenInv, NEW rd, Carries(rd), Sees(rd), rd.doing = "gc"
  PROVE  Good(GcDecides(rd, Verdict(rd.rows)))
<1> DEFINE verdict == Verdict(rd.rows)
<1>0. verdict \in {"gone", "unknown", "unproven", "owned", "moving"}
  BY VerdictType
<1>1. CASE verdict = "owned"
  <2>1. Good(Answer(rd, "runs"))
    BY AnswerGood DEF Carries
  <2> QED BY <1>1, <2>1 DEF GcDecides
<1>2. CASE verdict = "unproven"
  <2>1. ~ProgramLives
    BY <1>2, VerdictUnproven DEF Carries, AllOthers, ProgramLives
  <2>2. Good(Answer(rd, "ended"))
    BY <2>1, AnswerGood DEF Carries
  <2> QED BY <1>2, <2>2 DEF GcDecides
<1>3. CASE verdict \in {"unknown", "moving"}
  <2>1. Good(NextJudgement(rd))
    BY NextJudgementGood DEF Carries
  <2> QED BY <1>3, <2>1 DEF GcDecides
<1>4. CASE verdict = "gone"
  <2>1. Good(NoScan(rd, "probe"))
    BY NoScanGood DEF MayBeAt, Calls, Carries
  <2> QED BY <1>4, <2>1 DEF GcDecides
<1> QED BY <1>0, <1>1, <1>2, <1>3, <1>4

\* judgeFrozenGroup says ended only of a group of another program.
LEMMA FrozenDecidesGood ==
  ASSUME TokenInv, NEW rd, Carries(rd), Sees(rd), rd.doing = "gcFrozen"
  PROVE  Good(FrozenDecides(rd, Verdict(rd.rows)))
<1> DEFINE verdict == Verdict(rd.rows)
<1>0. verdict \in {"gone", "unknown", "unproven", "owned", "moving"}
  BY VerdictType
<1>1. CASE verdict = "owned"
  <2>1. Good(Answer(rd, "runs"))
    BY AnswerGood DEF Carries
  <2> QED BY <1>1, <2>1 DEF FrozenDecides
<1>2. CASE verdict = "unproven"
  <2>1. ~ProgramLives
    BY <1>2, VerdictUnproven DEF Carries, AllOthers, ProgramLives
  <2>2. Good(Answer(rd, "ended"))
    BY <2>1, AnswerGood DEF Carries
  <2> QED BY <1>2, <2>2 DEF FrozenDecides
<1>3. Good(NextJudgement(rd))
  BY NextJudgementGood DEF Carries
<1>4. CASE verdict \in {"unknown", "moving"}
  BY <1>3, <1>4 DEF FrozenDecides
<1>5. CASE verdict = "gone"
  <2>1. Good(Freezes(rd))
    BY FreezesGood DEF Carries, Thaws
  <2> QED BY <1>3, <1>5, <2>1 DEF FrozenDecides
<1> QED BY <1>0, <1>1, <1>2, <1>4, <1>5

\* The scan under way has read a process, and what it knows is in rows.
Reading(rd) == Control(rd) /\ Sees(rd) /\ rd.pc = "stat" /\ rd.result = "none"

\* The end of a scan that judges, whoever asked for it.
LEMMA JudgementEndsGood ==
  ASSUME TokenInv, NEW rd, Reading(rd), rd.scan \in {"judge", "judgeAgain"}
  PROVE  LET new == JudgementEnds(rd) IN Good(new) /\ (Thaws(rd) => Thaws(new))
<1> DEFINE verdict == Verdict(rd.rows)
           new == JudgementEnds(rd)
<1>0. /\ Carries(rd) /\ Sees(rd) /\ Control(rd) /\ rd.kind = "proven" /\ rd.pc = "stat"
      /\ rd.doing \in {"stop", "alive", "gc", "gcFrozen"}
  BY GoodCarries DEF Reading, Control, Reader
<1>1. CASE verdict = "gone" /\ rd.scan = "judge"
  <2>1. new = Scan(rd, "judgeAgain")
    BY <1>1 DEF JudgementEnds
  <2> QED BY <1>0, <2>1, ScanGood
<1> DEFINE further == ~(verdict = "gone" /\ rd.scan = "judge")
<1>2. CASE further /\ rd.doing = "stop"
  <2>1. new = StopDecides(rd, verdict)
    BY <1>2 DEF JudgementEnds
  <2> QED BY <1>0, <1>2, <2>1, StopDecidesGood
<1>3. CASE further /\ rd.doing = "alive"
  <2>1. new = AliveDecides(rd, verdict)
    BY <1>3 DEF JudgementEnds
  <2>2. ~Thaws(rd)
    BY <1>0, <1>3 DEF Thaws, Carries
  <2> QED BY <1>0, <1>3, <2>1, <2>2, AliveDecidesGood
<1>4. CASE further /\ rd.doing = "gc"
  <2>1. new = GcDecides(rd, verdict)
    BY <1>4 DEF JudgementEnds
  <2>2. ~Thaws(rd)
    BY <1>0, <1>4 DEF Thaws, Carries
  <2> QED BY <1>0, <1>4, <2>1, <2>2, GcDecidesGood
<1>5. CASE further /\ rd.doing = "gcFrozen"
  <2>1. new = [rd EXCEPT !.pc = "thaw", !.at = Program]
    BY <1>5 DEF JudgementEnds
  <2>2. new \in Reader
    BY <1>0, <2>1, GroupAssumption DEF Carries, Reader
  <2>3. /\ new.pc = "thaw" /\ new.doing = "gcFrozen" /\ new.kind = "proven"
        /\ new.scan = rd.scan /\ new.frozen = rd.frozen /\ new.result = rd.result
        /\ new.rows = rd.rows
    BY <1>0, <1>5, <2>1 DEF Carries, Reader
  <2> HIDE DEF new
  <2>4. NobodyIsHeld
    BY <1>0, <1>5 DEF Carries, Thaws
  <2>5. Control(new)
    BY <1>0, <1>5, <2>2, <2>3 DEF Control, Scans, Thaws, Calls
  <2>6. Sees(new)
    BY <1>0, <2>3, <2>4 DEF Sees, Thaws
  <2>7. Good(new) /\ Thaws(new)
    BY <2>3, <2>5, <2>6 DEF Good, Shape, Thaws
  <2> QED BY <2>7 DEF new
<1> QED BY <1>0, <1>1, <1>2, <1>3, <1>4, <1>5

\* A scan without a stopped member has seen that nobody is held.
LEMMA HeldScanEndsGood ==
  ASSUME NEW rd, Reading(rd), rd.scan = "held", rd.todo = {}
  PROVE  LET new == HeldScanEnds(rd) IN Good(new) /\ (Thaws(rd) => Thaws(new))
<1>0. /\ Carries(rd) /\ Sees(rd) /\ Control(rd) /\ rd.doing = "stop" /\ rd.pc = "stat"
  BY GoodCarries DEF Reading, Control
<1>1. CASE \E w \in rd.rows : w.state \in Stopped
  <2>1. HeldScanEnds(rd) = Leave(rd)
    BY <1>1 DEF HeldScanEnds
  <2> QED BY <1>0, <2>1, LeaveGood
<1>2. CASE \A w \in rd.rows : w.state \notin Stopped
  <2>1. HeldScanEnds(rd) = Freezes(rd)
    BY <1>2 DEF HeldScanEnds
  <2>2. NobodyIsHeld
    BY <1>0, <1>2 DEF Sees, NobodyIsHeld, Stopped
  <2> QED BY <1>0, <2>1, <2>2, FreezesGood
<1> QED BY <1>1, <1>2

\* Two scans with zombies alone have seen that nobody is held.
LEMMA LiveScanEndsGood ==
  ASSUME NEW rd, Reading(rd), rd.scan \in {"live", "liveAgain"}, rd.todo = {}
  PROVE  Good(LiveScanEnds(rd)) /\ ~Thaws(rd)
<1> DEFINE gc == rd.doing = "gc"
           zombies == rd.rows # {}
           quiet == \A w \in rd.rows : w.state = "zombie"
           new == LiveScanEnds(rd)
<1>0. /\ Carries(rd) /\ Sees(rd) /\ Control(rd) /\ rd.doing \in {"alive", "gc"}
      /\ rd.pc = "stat" /\ ~rd.frozen /\ ~Thaws(rd) /\ (gc => rd.kind = "proven")
  BY GoodCarries DEF Reading, Control, Thaws
<1>1. Good(Answer(rd, "alive")) /\ Good(Answer(rd, "zombies")) /\ Good(Answer(rd, "runs"))
  BY <1>0, AnswerGood DEF Carries
<1>2. gc => Good(NextJudgement(rd))
  BY <1>0, NextJudgementGood
<1>3. CASE ~quiet
  <2>1. new = IF gc THEN NextJudgement(rd) ELSE Answer(rd, "alive")
    BY <1>3 DEF LiveScanEnds
  <2> QED BY <1>0, <1>1, <1>2, <2>1
<1>4. CASE quiet /\ rd.scan = "live"
  <2> DEFINE call == Scan(rd, "liveAgain")
  <2>1. new = [call EXCEPT !.onlyZombies = zombies]
    BY <1>4 DEF LiveScanEnds
  <2>2. Good(call) /\ call.pc = "list"
    BY <1>0, ScanGood DEF Scan, Carries, Reader
  <2> HIDE DEF call
  <2>3. call \in Reader
    BY <2>2 DEF Good, Shape, Control
  <2>4. new \in Reader
    BY <2>1, <2>3 DEF Reader
  <2>5. /\ new.pc = call.pc /\ new.doing = call.doing /\ new.scan = call.scan
        /\ new.kind = call.kind /\ new.rows = call.rows /\ new.frozen = call.frozen
        /\ new.result = call.result /\ new.todo = call.todo
    BY <2>1, <2>3 DEF Reader
  <2> HIDE DEF new
  <2>6. Good(new)
    BY <2>2, <2>4, <2>5 DEF Good, Shape, Control, Sees, Thaws, Calls
  <2> QED BY <1>0, <2>6 DEF new
<1>5. CASE quiet /\ rd.scan = "liveAgain"
  <2>1. NobodyIsHeld
    BY <1>0, <1>5 DEF Sees, NobodyIsHeld
  <2> DEFINE freezer == [rd EXCEPT !.doing = "gcFrozen"]
  <2>2. gc => Carries(freezer) /\ freezer.doing = "gcFrozen"
    BY <1>0, <2>1 DEF Carries, Thaws, Reader
  <2>3. gc => Good(Freezes(freezer))
    <3> HIDE DEF freezer
    <3> QED BY <2>1, <2>2, FreezesGood
  <2>4. ~gc => Good(NoScan(rd, "probeAgain"))
    BY <1>0, NoScanGood DEF MayBeAt, Calls, Carries
  <2>5. new = IF rd.onlyZombies /\ zombies
              THEN IF gc THEN Freezes(freezer) ELSE Answer(rd, "zombies")
              ELSE IF gc THEN Answer(rd, "runs") ELSE NoScan(rd, "probeAgain")
    BY <1>5 DEF LiveScanEnds
  <2> QED BY <1>0, <1>1, <2>3, <2>4, <2>5
<1> QED BY <1>3, <1>4, <1>5

\* A scan goes on, or ends in the function that it is for.
LEMMA AfterReadGood ==
  ASSUME TokenInv, NEW rd, Reading(rd)
  PROVE  LET new == AfterRead(rd) IN Good(new) /\ (Thaws(rd) => Thaws(new))
<1>0. rd.scan \in {"judge", "judgeAgain", "held", "live", "liveAgain"}
  BY DEF Reading, Control, Reader, Scans
<1>1. CASE rd.todo # {}
  <2>1. AfterRead(rd) = rd
    BY <1>1 DEF AfterRead
  <2> QED BY <1>1, <2>1 DEF Good, Shape, Reading
<1>2. CASE rd.todo = {} /\ rd.scan \in {"judge", "judgeAgain"}
  <2>1. AfterRead(rd) = JudgementEnds(rd)
    BY <1>2 DEF AfterRead
  <2> QED BY <1>2, <2>1, JudgementEndsGood
<1>3. CASE rd.todo = {} /\ rd.scan = "held"
  <2>1. AfterRead(rd) = HeldScanEnds(rd)
    BY <1>3 DEF AfterRead
  <2> QED BY <1>3, <2>1, HeldScanEndsGood
<1>4. CASE rd.todo = {} /\ rd.scan \in {"live", "liveAgain"}
  <2>1. AfterRead(rd) = LiveScanEnds(rd)
    BY <1>4 DEF AfterRead
  <2> QED BY <1>4, <2>1, LiveScanEndsGood
<1> QED BY <1>0, <1>1, <1>2, <1>3, <1>4
-----------------------------------------------------------------------------
\* The step of a reader, seen from the state that it starts from.
MovesTo(r) == reader' = [reader EXCEPT ![r] = reader'[r]] /\ Good(reader'[r])

Moves(r) ==
  /\ MovesTo(r)
  /\ Thaws(reader[r]) => Thaws(reader'[r])

\* A step to a Good reader, which does not forget what it froze.
LEMMA GoesMoves ==
  ASSUME IInv, NEW r \in Readers, NEW new, Goes(r, new),
         Good(new), Thaws(reader[r]) => Thaws(new)
  PROVE  Moves(r)
<1>1. reader'[r] = new
  BY DEF IInv, Goes
<1> QED BY <1>1 DEF Goes, Moves, MovesTo

\* A scan lists every member, so also those that are held.
LEMMA ListMoves ==
  ASSUME IInv, NEW r \in Readers, List(r)
  PROVE  Moves(r)
<1> DEFINE rd == reader[r]
           listed == {p \in Pids : table[p].state # "free"}
           next == [rd EXCEPT !.pc = "stat", !.todo = listed]
<1>1. rd.pc = "list" /\ Goes(r, AfterRead(next)) /\ Good(rd)
  BY DEF List, IInv
<1>2. next \in Reader
  BY <1>1 DEF Good, Shape, Control, Reader
<1>3. /\ next.pc = "stat" /\ next.todo = listed /\ next.scan = rd.scan
      /\ next.doing = rd.doing /\ next.kind = rd.kind /\ next.rows = rd.rows
      /\ next.frozen = rd.frozen /\ next.result = rd.result
  BY <1>1 DEF Good, Shape, Control, Reader
<1> HIDE DEF next, rd
<1>4. Control(next)
  BY <1>1, <1>2, <1>3 DEF Good, Shape, Control, Thaws, Scans, Calls
<1>5. Sees(next)
  BY <1>1, <1>3 DEF Good, Sees, Thaws
<1>6. Reading(next) /\ (Thaws(rd) => Thaws(next))
  BY <1>1, <1>3, <1>4, <1>5 DEF Reading, Good, Shape, Control, Thaws
<1>7. Good(AfterRead(next)) /\ (Thaws(rd) => Thaws(AfterRead(next)))
  BY <1>6, AfterReadGood DEF IInv
<1> QED BY <1>1, <1>7, GoesMoves DEF rd

\* A status that is read puts a held member into rows before it leaves
\* todo.
LEMMA ReadStatMoves ==
  ASSUME IInv, NEW r \in Readers, ReadStat(r)
  PROVE  Moves(r)
<1> DEFINE rd == reader[r]
           p == Listed(rd)
           w == Row(p, "unread")
           read == [rd EXCEPT !.todo = @ \ {p}, !.rows = @ \union {w}]
<1>1. rd.pc = "stat" /\ Good(rd) /\ rd \in Reader /\ rd.todo # {} /\ rd.scan # "none"
  BY DEF ReadStat, IInv, Good, Shape, Control, Scans
<1>2. p \in rd.todo /\ p \in Pids
  BY <1>1, ListedIsListed
<1> HIDE DEF p
<1>3. rd.result = "none" /\ Sees(rd) /\ Control(rd)
  BY <1>1 DEF Good, Shape, Control
<1>4. CASE table[p].state = "free"
  <2> DEFINE next == [rd EXCEPT !.todo = @ \ {p}]
  <2>1. Goes(r, AfterRead(next))
    BY <1>4 DEF ReadStat, p
  <2>2. next \in Reader
    BY <1>1 DEF Reader
  <2>3. /\ next.pc = "stat" /\ next.todo = rd.todo \ {p} /\ next.scan = rd.scan
        /\ next.doing = rd.doing /\ next.kind = rd.kind /\ next.rows = rd.rows
        /\ next.frozen = rd.frozen /\ next.result = rd.result
    BY <1>1 DEF Reader
  <2> HIDE DEF next, rd
  <2>4. Control(next)
    BY <1>1, <1>3, <2>2, <2>3 DEF Control, Thaws, Scans, Calls
  <2>5. Sees(next)
    BY <1>1, <1>3, <1>4, <2>3 DEF Sees, Thaws
  <2>6. Reading(next) /\ (Thaws(rd) => Thaws(next))
    BY <1>3, <2>3, <2>4, <2>5 DEF Reading, Thaws
  <2>7. Good(AfterRead(next)) /\ (Thaws(rd) => Thaws(AfterRead(next)))
    BY <2>6, AfterReadGood DEF IInv
  <2> QED BY <2>1, <2>7, GoesMoves DEF rd
<1>5. CASE table[p].state # "free"
  <2>1. table[p].state \in Live \union {"zombie"}
    BY <1>2, <1>5 DEF IInv, GroupInv
  <2>2. /\ w \in [pid : Pids, state : Live \union {"zombie"}, session : Sessions \union {"unread"}]
        /\ w.pid = p /\ w.state = table[p].state /\ w.session = "unread"
    BY <1>2, <2>1 DEF Row
  <2> HIDE DEF w
  <2>3. read \in Reader
    BY <1>1, <2>2 DEF Reader
  <2>4. /\ read.pc = "stat" /\ read.todo = rd.todo \ {p} /\ read.scan = rd.scan
        /\ read.doing = rd.doing /\ read.kind = rd.kind /\ read.rows = rd.rows \union {w}
        /\ read.frozen = rd.frozen /\ read.result = rd.result
    BY <1>1 DEF Reader
  <2> HIDE DEF read
  <2>5. Thaws(read) <=> Thaws(rd)
    BY <2>4 DEF Thaws
  <2>6. Control(read)
    BY <1>1, <1>3, <2>3, <2>4 DEF Control, Thaws, Scans, Calls
  <2>7. Sees(read)
    <3>1. \A v \in read.rows : v.session # "host" /\ (v.session = "other" => AllOthers)
      BY <1>3, <2>2, <2>4 DEF Sees
    <3>2. rd.scan \in {"held", "live", "liveAgain"} =>
            \A q \in Pids : table[q].state = "held" =>
              q \in read.todo \/ \E v \in read.rows : v.state = "held"
      <4> SUFFICES ASSUME rd.scan \in {"held", "live", "liveAgain"},
                          NEW q \in Pids, table[q].state = "held"
                   PROVE  q \in read.todo \/ \E v \in read.rows : v.state = "held"
        OBVIOUS
      <4>1. CASE q = p
        BY <4>1, <2>2, <2>4
      <4>2. CASE q # p
        BY <4>2, <1>1, <1>3, <2>4 DEF Sees
      <4> QED BY <4>1, <4>2
    <3>3. /\ read.kind = "proven" => token = "program"
          /\ Thaws(read) => NobodyIsHeld
          /\ read.result = "none" /\ read.pc = "stat"
      BY <1>1, <1>3, <2>4, <2>5 DEF Sees
    <3> QED BY <3>1, <3>2, <3>3, <2>4 DEF Sees
  <2>8. CASE ForMembers(rd)
    <3> DEFINE next == [read EXCEPT !.pc = "autogroup", !.at = p]
    <3>1. Goes(r, next)
      BY <1>5, <2>8 DEF ReadStat, p, read, w
    <3>2. next \in Reader
      BY <1>2, <2>3 DEF Reader
    <3>3. /\ next.pc = "autogroup" /\ next.todo = read.todo /\ next.scan = read.scan
          /\ next.doing = read.doing /\ next.kind = read.kind /\ next.rows = read.rows
          /\ next.frozen = read.frozen /\ next.result = read.result
      BY <2>3 DEF Reader
    <3> HIDE DEF next
    <3>4. Good(next) /\ (Thaws(read) <=> Thaws(next))
      BY <2>4, <2>6, <2>7, <2>8, <3>2, <3>3
         DEF Good, Shape, Control, Sees, Thaws, Scans, Calls, ForMembers
    <3> QED BY <2>5, <3>1, <3>4, GoesMoves
  <2>9. CASE ~ForMembers(rd) /\ table[p].state = "zombie"
    <3>1. Goes(r, AfterRead(read))
      BY <1>5, <2>9 DEF ReadStat, p, read, w
    <3>2. Reading(read)
      BY <1>3, <2>4, <2>6, <2>7 DEF Reading
    <3>3. Good(AfterRead(read)) /\ (Thaws(read) => Thaws(AfterRead(read)))
      BY <3>2, AfterReadGood DEF IInv
    <3> QED BY <2>5, <3>1, <3>3, GoesMoves
  <2>10. CASE ~ForMembers(rd) /\ table[p].state # "zombie"
    <3> DEFINE next == [read EXCEPT !.todo = {}]
    <3>1. Goes(r, AfterRead(next))
      BY <1>5, <2>10 DEF ReadStat, p, read, w
    <3>2. next \in Reader
      BY <2>3 DEF Reader
    <3>3. /\ next.pc = read.pc /\ next.todo = {} /\ next.scan = read.scan
          /\ next.doing = read.doing /\ next.kind = read.kind /\ next.rows = read.rows
          /\ next.frozen = read.frozen /\ next.result = read.result
      BY <2>3 DEF Reader
    <3> HIDE DEF next
    <3>4. w \in next.rows /\ w.state # "zombie" /\ next.scan \in {"live", "liveAgain"}
      BY <1>1, <2>2, <2>4, <2>10, <3>3 DEF ForMembers, Reader
    <3>5. next.kind # "none" /\ next.result = "none" /\ ~Thaws(next) /\ Carries(next)
          /\ next.doing \in {"alive", "gc"} /\ (next.doing = "gc" => next.kind = "proven")
      BY <1>3, <2>4, <2>6, <2>7, <3>2, <3>3, <3>4 DEF Control, Sees, Carries, Thaws
    <3>6. AfterRead(next) = IF next.doing = "gc" THEN NextJudgement(next)
                                                 ELSE Answer(next, "alive")
      <4>1. AfterRead(next) = LiveScanEnds(next)
        BY <3>3, <3>4 DEF AfterRead
      <4> QED BY <3>4, <4>1 DEF LiveScanEnds
    <3>7. Good(AfterRead(next))
      BY <3>2, <3>5, <3>6, NextJudgementGood, AnswerGood DEF Thaws, Carries
    <3>8. ~Thaws(rd)
      BY <2>5, <3>3, <3>5 DEF Thaws
    <3> QED BY <3>1, <3>7, <3>8, GoesMoves
  <2> QED BY <2>8, <2>9, <2>10
<1> QED BY <1>4, <1>5

\* An autogroup that is read tells whose all members are.
LEMMA ReadAutogroupMoves ==
  ASSUME IInv, NEW r \in Readers, ReadAutogroup(r)
  PROVE  Moves(r)
<1> DEFINE rd == reader[r]
           p == rd.at
           refused == view = "noAutogroup" \/ ReadsGroup(p) = "none"
           session == IF refused THEN "unread" ELSE ReadsGroup(p)
           rows == {IF w.pid = p THEN [w EXCEPT !.session = session] ELSE w : w \in rd.rows}
           next == [rd EXCEPT !.pc = "stat", !.at = Program, !.rows = rows]
<1>1. rd.pc = "autogroup" /\ Goes(r, AfterRead(next)) /\ Sees(rd) /\ Control(rd) /\ p \in Pids
  BY DEF ReadAutogroup, IInv, Good, Shape, Control, Reader
<1>2. rd.kind = "proven" /\ token = "program" /\ rd.result = "none"
  BY <1>1 DEF Control, Sees
<1>3. /\ session \in {"unread", "program", "other"}
      /\ session = "other" => AllOthers
  <2>1. CASE refused
    BY <2>1
  <2>2. CASE ~refused
    <3>1. table[p].state # "free" /\ session = table[p].session
      BY <2>2 DEF ReadsGroup
    <3>2. session \in {"program", "other"}
      BY <1>1, <1>2, <3>1 DEF IInv, GroupInv, TokenInv, Sessions
    <3>3. session = "other" => AllOthers
      <4> SUFFICES ASSUME session = "other", NEW q \in Pids
                   PROVE  table[q].session = "other"
        BY DEF AllOthers
      <4>1. CASE table[q].state = "free"
        BY <4>1 DEF IInv, GroupInv
      <4>2. CASE table[q].state # "free"
        BY <4>2, <1>1, <3>1 DEF IInv, GroupInv, Members
      <4> QED BY <4>1, <4>2
    <3> QED BY <3>2, <3>3
  <2> QED BY <2>1, <2>2
<1> HIDE DEF session
<1>4. rows \subseteq [pid : Pids, state : Live \union {"zombie"}, session : Sessions \union {"unread"}]
  BY <1>1, <1>3 DEF Control, Reader, Sessions
<1>5. \A w \in rows : w.session # "host" /\ (w.session = "other" => AllOthers)
  BY <1>1, <1>3 DEF Sees, Control, Reader
<1>6. (\E w \in rd.rows : w.state = "held") => \E w \in rows : w.state = "held"
  <2> SUFFICES ASSUME NEW w \in rd.rows, w.state = "held"
               PROVE  \E v \in rows : v.state = "held"
    OBVIOUS
  <2> DEFINE v == IF w.pid = p THEN [w EXCEPT !.session = session] ELSE w
  <2>1. v \in rows
    OBVIOUS
  <2>2. v.state = "held"
    BY <1>1 DEF Control, Reader
  <2> HIDE DEF v, rows
  <2> QED BY <2>1, <2>2
<1> HIDE DEF rows
<1>7. next \in Reader
  BY <1>1, <1>4, GroupAssumption DEF Control, Reader
<1>8. /\ next.pc = "stat" /\ next.todo = rd.todo /\ next.scan = rd.scan
      /\ next.doing = rd.doing /\ next.kind = rd.kind /\ next.rows = rows
      /\ next.frozen = rd.frozen /\ next.result = rd.result
  BY <1>1 DEF Control, Reader
<1> HIDE DEF next, rd
<1>9. Control(next)
  BY <1>1, <1>7, <1>8 DEF Control, Thaws, Scans, Calls
<1>10. Sees(next)
  BY <1>1, <1>2, <1>5, <1>6, <1>8 DEF Sees, Thaws
<1>11. Reading(next) /\ (Thaws(rd) => Thaws(next))
  BY <1>2, <1>8, <1>9, <1>10 DEF Reading, Thaws
<1>12. Good(AfterRead(next)) /\ (Thaws(rd) => Thaws(AfterRead(next)))
  BY <1>11, AfterReadGood DEF IInv
<1> QED BY <1>1, <1>12, GoesMoves DEF rd, rows, session, next

\* A group that kill does not find has ended.
LEMMA ProbeMoves ==
  ASSUME IInv, NEW r \in Readers, Probe(r)
  PROVE  Moves(r)
<1> DEFINE rd == reader[r]
<1>1. rd.pc \in {"probe", "probeAgain"} /\ Sees(rd) /\ Control(rd) /\ Carries(rd)
  BY GoodCarries DEF Probe, IInv, Good, Shape
<1>2. /\ rd.doing \in {"alive", "gc"} /\ ~Thaws(rd) /\ ~rd.frozen
      /\ rd.doing = "gc" => rd.kind = "proven"
  BY <1>1 DEF Control, Carries, Thaws
<1>3. ~GroupExists => ~ProgramLives
  BY DEF GroupExists, ProgramLives, Live
<1>4. Good(Answer(rd, "alive"))
  BY <1>1, AnswerGood DEF Carries
<1>5. ~GroupExists => Good(Answer(rd, "gone")) /\ Good(Answer(rd, "ended"))
  BY <1>1, <1>3, AnswerGood DEF Carries
<1>6. Good(Scan(rd, "live"))
  BY <1>1, <1>2, ScanGood
<1>7. rd.doing = "gc" => Good(NextJudgement(rd))
  BY <1>1, <1>2, NextJudgementGood
<1>8. CASE rd.pc = "probe"
  <2> DEFINE new == IF ~GroupExists THEN Answer(rd, IF rd.doing = "gc" THEN "ended" ELSE "gone")
                    ELSE IF view # "hides" THEN Scan(rd, "live")
                    ELSE IF rd.doing = "gc" THEN NextJudgement(rd) ELSE Answer(rd, "alive")
  <2>1. Goes(r, new)
    BY <1>8 DEF Probe
  <2>2. Good(new)
    BY <1>4, <1>5, <1>6, <1>7
  <2> HIDE DEF new
  <2> QED BY <1>2, <2>1, <2>2, GoesMoves
<1>9. CASE rd.pc = "probeAgain"
  <2> DEFINE new == Answer(rd, IF GroupExists THEN "alive" ELSE "gone")
  <2>1. Goes(r, new)
    BY <1>9 DEF Probe
  <2>2. Good(new)
    BY <1>4, <1>5
  <2> HIDE DEF new
  <2> QED BY <1>2, <2>1, <2>2, GoesMoves
<1> QED BY <1>1, <1>8, <1>9

\* The witness is no longer what it was: the group is frozen and judged again.
LEMMA WitnessLost ==
  ASSUME NEW rd, Carries(rd), rd.doing = "stop"
  PROVE  LET new == IF rd.frozen THEN Freezes(rd) ELSE Scan(rd, "held") IN
         Good(new) /\ (Thaws(new) <=> Thaws(rd))
<1>1. rd.frozen => NobodyIsHeld
  BY DEF Carries, Thaws
<1>2. rd.frozen => Good(Freezes(rd)) /\ (Thaws(Freezes(rd)) <=> Thaws(rd))
  BY <1>1, FreezesGood
<1>3. ~rd.frozen => Good(Scan(rd, "held")) /\ (Thaws(Scan(rd, "held")) <=> Thaws(rd))
  BY ScanGood
<1> QED BY <1>2, <1>3

\* A reader goes to its next step and keeps all it knows.
LEMMA StepGood ==
  ASSUME NEW rd, Carries(rd), rd.scan = "none", Sees(rd), NEW pc \in Calls, MayBeAt(rd, pc)
  PROVE  LET new == [rd EXCEPT !.pc = pc] IN Good(new) /\ (Thaws(new) <=> Thaws(rd))
<1> DEFINE new == [rd EXCEPT !.pc = pc]
<1>1. new \in Reader
  BY DEF Carries, Reader, Calls
<1>2. /\ new.pc = pc /\ new.scan = "none" /\ new.rows = rd.rows
      /\ new.doing = rd.doing /\ new.kind = rd.kind /\ new.frozen = rd.frozen
      /\ new.result = rd.result
  BY DEF Carries, Reader
<1> HIDE DEF new
<1>3. \A w \in new.rows : w.session # "host" /\ (w.session = "other" => AllOthers)
  BY <1>2 DEF Sees
<1>4. Good(new) /\ (Thaws(new) <=> Thaws(rd))
  BY <1>1, <1>2, <1>3, CallGood
<1> QED BY <1>4 DEF new

\* A witness that is seen with the token proves the whole group.
LEMMA WitnessMoves ==
  ASSUME IInv, NEW r \in Readers, WitnessStat(r) \/ WitnessProof(r)
  PROVE  Moves(r)
<1> DEFINE rd == reader[r]
           lost == IF rd.frozen THEN Freezes(rd) ELSE Scan(rd, "held")
<1>1. /\ rd.pc \in {"witness", "proof"} /\ Sees(rd) /\ Control(rd) /\ Carries(rd)
      /\ rd.doing = "stop" /\ rd.scan = "none" /\ rd.kind = "proven" /\ rd.at \in Pids
  BY GoodCarries DEF WitnessStat, WitnessProof, IInv, Good, Shape, Control, Calls, Reader
<1>2. Good(lost) /\ (Thaws(lost) <=> Thaws(rd))
  BY <1>1, WitnessLost
<1> HIDE DEF lost
<1>3. CASE WitnessStat(r)
  <2> DEFINE proof == [rd EXCEPT !.pc = "proof"]
  <2>1. Good(proof) /\ (Thaws(proof) <=> Thaws(rd))
    BY <1>1, StepGood DEF MayBeAt, Calls
  <2>2. Goes(r, IF table[rd.at].state \in Live THEN proof ELSE lost)
    BY <1>3 DEF WitnessStat, lost
  <2> HIDE DEF proof
  <2> QED BY <1>2, <2>1, <2>2, GoesMoves
<1>4. CASE WitnessProof(r)
  <2> DEFINE proven == view # "noAutogroup" /\ ReadsGroup(rd.at) = token
             kill == NoScan(rd, "kill")
  <2>1. proven => OnlyProgram
    <3>1. token = "program"
      BY <1>1 DEF Carries
    <3>2. proven => table[rd.at].session = "program" /\ rd.at \in Members
      BY <1>1, <3>1 DEF ReadsGroup, Members
    <3> QED BY <3>2 DEF OnlyProgram, IInv, GroupInv
  <2>2. proven => Good(kill) /\ (Thaws(kill) <=> Thaws(rd))
    BY <1>1, <2>1, NoScanGood DEF MayBeAt, Calls
  <2>3. Goes(r, IF proven THEN kill ELSE lost)
    BY <1>4 DEF WitnessProof, lost
  <2> HIDE DEF proven, kill
  <2> QED BY <1>2, <2>2, <2>3, GoesMoves
<1> QED BY <1>3, <1>4

\* isProgramGroupAlive begins with nothing frozen.
LEMMA AliveBeginsGood ==
  ASSUME NEW rd, Carries(rd), Sees(rd), rd.scan = "none", ~Thaws(rd)
  PROVE  Good(AliveBegins(rd)) /\ ~Thaws(rd)
<1> DEFINE call == [rd EXCEPT !.doing = "alive", !.count = 0]
<1>1. call \in Reader
  BY DEF Carries, Reader
<1>2. /\ call.doing = "alive" /\ call.scan = "none" /\ call.rows = rd.rows
      /\ call.kind = rd.kind /\ call.frozen = rd.frozen /\ call.result = rd.result
  BY DEF Carries, Reader
<1>3. rd.kind \in {"proven", "bare", "unshared"}
  BY DEF Carries, Reader
<1>4. /\ rd.kind = "proven" => AliveBegins(rd) = Scan(call, "judge")
      /\ rd.kind = "bare" => AliveBegins(rd) = [call EXCEPT !.pc = "probe"]
      /\ rd.kind = "unshared" => AliveBegins(rd) = Answer(call, "alive")
  BY Zenon DEF AliveBegins
<1> HIDE DEF call
<1>5. Carries(call)
  BY <1>1, <1>2 DEF Carries, Thaws
<1>6. rd.kind = "proven" => Good(Scan(call, "judge"))
  BY <1>2, <1>5, ScanGood
<1>7. Good([call EXCEPT !.pc = "probe"])
  <2> DEFINE new == [call EXCEPT !.pc = "probe"]
  <2>1. new \in Reader
    BY <1>1 DEF Reader
  <2>2. /\ new.pc = "probe" /\ new.doing = call.doing /\ new.scan = "none" /\ new.rows = rd.rows
        /\ new.kind = call.kind /\ new.frozen = call.frozen /\ new.result = call.result
    BY <1>1, <1>2 DEF Reader
  <2> HIDE DEF new
  <2>3. MayBeAt(call, "probe")
    BY <1>2, <1>5 DEF MayBeAt, Carries
  <2>4. \A w \in new.rows : w.session # "host" /\ (w.session = "other" => AllOthers)
    BY <2>2 DEF Sees
  <2>5. Good(new)
    BY <1>5, <2>1, <2>2, <2>3, <2>4, CallGood DEF Calls
  <2> QED BY <2>5 DEF new
<1>8. Good(Answer(call, "alive"))
  BY <1>5, AnswerGood DEF Carries
<1> QED BY <1>3, <1>4, <1>6, <1>7, <1>8

\* The steps that look at the host's process.
HostCalls == {"hostProbe", "hostStat", "hostProbeAgain", "hostKill"}

\* What judgeHost finds, and a kill of the host, change nothing of the
\* group.
LEMMA HostMoves ==
  ASSUME IInv, NEW r \in Readers, JudgeHost(r) \/ KillHost(r)
  PROVE  Moves(r)
<1> DEFINE rd == reader[r]
<1>1. /\ rd.pc \in HostCalls /\ Sees(rd) /\ Control(rd) /\ Carries(rd)
  BY GoodCarries DEF JudgeHost, KillHost, HostCalls, IInv, Good, Shape
<1>2. ~Thaws(rd) /\ rd.scan = "none"
  BY <1>1 DEF Control, Thaws, HostCalls, Calls, Scans
<1>3. Good(AliveBegins(rd)) /\ Good(Answer(rd, "alive"))
  BY <1>1, <1>2, AliveBeginsGood, AnswerGood DEF Carries
<1>4. \A pc \in HostCalls : Good([rd EXCEPT !.pc = pc])
  BY <1>1, <1>2, StepGood DEF MayBeAt, HostCalls, Calls, Thaws
<1>5. /\ Good([rd EXCEPT !.pc = "hostProbe"]) /\ Good([rd EXCEPT !.pc = "hostStat"])
      /\ Good([rd EXCEPT !.pc = "hostProbeAgain"]) /\ Good([rd EXCEPT !.pc = "hostKill"])
  BY <1>4 DEF HostCalls
<1>6. host \in {"alive", "zombie", "gone", "reused"}
  BY DEF IInv
<1>7. \A new : Goes(r, new) /\ Good(new) => Moves(r)
  BY <1>2, GoesMoves
<1> HIDE DEF rd
<1>8. CASE JudgeHost(r) /\ rd.pc = "hostProbe"
  <2>1. Goes(r, IF rd.kind = "unshared" THEN Answer(rd, "alive")
                ELSE IF host = "gone" THEN AliveBegins(rd) ELSE [rd EXCEPT !.pc = "hostStat"])
    BY <1>8 DEF JudgeHost, rd
  <2> QED BY <1>3, <1>5, <1>7, <2>1
<1>9. CASE JudgeHost(r) /\ rd.pc = "hostStat"
  <2>1. Goes(r, IF host = "gone" THEN [rd EXCEPT !.pc = "hostProbeAgain"]
                ELSE IF host = "zombie" THEN AliveBegins(rd)
                ELSE IF view = "noBoot" THEN Answer(rd, "alive")
                ELSE IF host = "alive" THEN [rd EXCEPT !.pc = "hostKill"]
                ELSE AliveBegins(rd))
    BY <1>6, <1>9 DEF JudgeHost, rd
  <2> QED BY <1>3, <1>5, <1>7, <2>1
<1>10. CASE JudgeHost(r) /\ rd.pc = "hostProbeAgain"
  <2>1. Goes(r, IF host = "gone" THEN AliveBegins(rd) ELSE Answer(rd, "alive"))
    BY <1>10 DEF JudgeHost, rd
  <2> QED BY <1>3, <1>7, <2>1
<1>11. CASE KillHost(r)
  <2>1. Goes(r, [rd EXCEPT !.pc = "hostProbe"])
    BY <1>11 DEF KillHost, rd
  <2> QED BY <1>5, <1>7, <2>1
<1> QED BY <1>8, <1>9, <1>10, <1>11 DEF JudgeHost, rd

\* A step to a Good reader.
LEMMA GoesMovesTo ==
  ASSUME IInv, NEW r \in Readers, NEW new, Goes(r, new), Good(new)
  PROVE  MovesTo(r) /\ reader'[r] = new
BY DEF IInv, Goes, MovesTo

\* A call begins after the capture of the token.
LEMMA BeginMoves ==
  ASSUME IInv, NEW r \in Readers, Begin(r)
  PROVE  Moves(r) /\ capture.pc = "done"
<1> DEFINE proven == token # "none"
<1>0. reader[r] = Idle /\ capture.pc = "done"
  BY SMTT(40) DEF Begin, IInv, Good, Shape, Control
<1>1. PICK kind \in IF proven THEN {"proven", "unshared"} ELSE {"bare", "unshared"} :
        LET rd == [reader[r] EXCEPT !.kind = kind] IN
        \/ Goes(r, CASE kind = "proven" -> Scan([rd EXCEPT !.doing = "stop"], "judge")
                       [] kind = "bare" -> [rd EXCEPT !.pc = "kill"]
                       [] kind = "unshared" -> [rd EXCEPT !.pc = "hostProbe"])
        \/ Goes(r, IF kind = "proven" THEN Scan([rd EXCEPT !.doing = "gc"], "judge")
                                        ELSE Answer(rd, "unproved"))
  BY DEF Begin
<1> DEFINE rd == [reader[r] EXCEPT !.kind = kind]
           stop == [rd EXCEPT !.doing = "stop"]
           gc == [rd EXCEPT !.doing = "gc"]
<1>2. kind \in {"proven", "bare", "unshared"} /\ (kind = "proven" => token = "program")
  BY <1>1 DEF IInv, TokenInv
<1>3. /\ Idle \in Reader /\ Idle.pc = "idle" /\ Idle.doing = "none" /\ Idle.scan = "none"
      /\ Idle.rows = {} /\ ~Idle.frozen /\ Idle.result = "none"
  BY IdleGood DEF Good, Shape, Control, Idle
<1>4. rd \in Reader /\ rd.kind = kind /\ rd.doing = "none" /\ rd.scan = "none"
      /\ rd.rows = {} /\ ~rd.frozen /\ rd.result = "none" /\ rd.pc = "idle"
  BY <1>0, <1>2, <1>3 DEF Reader
<1> HIDE DEF rd
<1>5. Carries(rd) /\ Sees(rd) /\ ~Thaws(rd)
  BY <1>2, <1>4 DEF Carries, Sees, Thaws
<1>6. kind # "proven" => Good([rd EXCEPT !.pc = "kill"])
  BY <1>4, <1>5, StepGood DEF MayBeAt, Calls
<1>7. Good([rd EXCEPT !.pc = "hostProbe"])
  BY <1>4, <1>5, StepGood DEF MayBeAt, Calls
<1>8. Good(Answer(rd, "unproved"))
  BY <1>2, <1>4, AnswerGood
<1>9. kind = "proven" => Good(Scan(stop, "judge"))
  <2>1. stop \in Reader /\ stop.doing = "stop" /\ stop.kind = kind /\ ~stop.frozen
        /\ stop.result = "none"
    BY <1>4 DEF Reader
  <2> HIDE DEF stop
  <2>2. kind = "proven" => Carries(stop)
    BY <1>2, <2>1 DEF Carries, Thaws
  <2> QED BY <2>1, <2>2, ScanGood
<1>10. kind = "proven" => Good(Scan(gc, "judge"))
  <2>1. gc \in Reader /\ gc.doing = "gc" /\ gc.kind = kind /\ ~gc.frozen
        /\ gc.result = "none"
    BY <1>4 DEF Reader
  <2> HIDE DEF gc
  <2>2. kind = "proven" => Carries(gc)
    BY <1>2, <2>1 DEF Carries, Thaws
  <2> QED BY <2>1, <2>2, ScanGood
<1>11. ~Thaws(reader[r])
  BY <1>0, <1>3 DEF Thaws
<1>12. \A new : Goes(r, new) /\ Good(new) => Moves(r)
  BY <1>11, GoesMoves
<1> HIDE DEF stop, gc
<1>13. CASE kind = "proven"
  <2>1. Goes(r, Scan(stop, "judge")) \/ Goes(r, Scan(gc, "judge"))
    BY <1>1, <1>13, Zenon DEF stop, gc, rd
  <2> QED BY <1>0, <1>9, <1>10, <1>12, <1>13, <2>1
<1>14. CASE kind = "bare"
  <2>1. Goes(r, [rd EXCEPT !.pc = "kill"]) \/ Goes(r, Answer(rd, "unproved"))
    BY <1>1, <1>14, Zenon DEF rd
  <2> QED BY <1>0, <1>6, <1>8, <1>12, <1>14, <2>1
<1>15. CASE kind = "unshared"
  <2>1. Goes(r, [rd EXCEPT !.pc = "hostProbe"]) \/ Goes(r, Answer(rd, "unproved"))
    BY <1>1, <1>15, Zenon DEF rd
  <2> QED BY <1>0, <1>7, <1>8, <1>12, <2>1
<1> QED BY <1>2, <1>13, <1>14, <1>15

\* A kill that the token proves meets only the program.
LEMMA KillMoves ==
  ASSUME IInv, NEW r \in Readers, KillGroup(r)
  PROVE  MovesTo(r) /\ (reader[r].kind = "proven" => OnlyProgram)
<1> DEFINE rd == reader[r]
           new == [rd EXCEPT !.pc = "hostProbe", !.frozen = FALSE, !.count = 0]
<1>1. /\ rd.pc = "kill" /\ Sees(rd) /\ Control(rd) /\ Carries(rd) /\ rd.scan = "none"
      /\ Goes(r, new)
  BY GoodCarries DEF KillGroup, IInv, Good, Shape, Control, Calls
<1>2. new \in Reader
  <2> DEFINE first == [rd EXCEPT !.pc = "hostProbe"]
             second == [first EXCEPT !.frozen = FALSE]
  <2>1. first \in Reader
    BY <1>1 DEF Carries, Reader
  <2> HIDE DEF first
  <2>2. second \in Reader
    BY <2>1 DEF Reader
  <2> HIDE DEF second
  <2>3. [second EXCEPT !.count = 0] \in Reader
    BY <2>2 DEF Reader
  <2> QED BY <2>3 DEF first, second
<1>3. /\ new.pc = "hostProbe" /\ new.scan = "none" /\ new.rows = rd.rows
      /\ new.doing = rd.doing /\ new.kind = rd.kind /\ ~new.frozen
      /\ new.result = rd.result
  BY <1>1 DEF Carries, Reader
<1> HIDE DEF new
<1>4. rd.doing # "gcFrozen"
  BY <1>1 DEF Control, Scans
<1>5. Control(new)
  BY <1>1, <1>2, <1>3, <1>4 DEF Control, Carries, Thaws, Scans, Calls
<1>6. Sees(new)
  BY <1>1, <1>3, <1>4 DEF Sees, Carries, Thaws
<1>7. Good(new)
  BY <1>3, <1>5, <1>6 DEF Good, Shape
<1> QED BY <1>1, <1>7, GoesMovesTo DEF Sees

\* Who freezes a group will let it go on.
LEMMA SigStopMoves ==
  ASSUME IInv, NEW r \in Readers, SigStop(r)
  PROVE  MovesTo(r) /\ (GroupExists => Thaws(reader'[r]))
<1> DEFINE rd == reader[r]
           frozen == rd.frozen \/ GroupExists
           stopped == [rd EXCEPT !.frozen = frozen]
           again == [rd EXCEPT !.frozen = frozen, !.count = @ + 1]
           looked == [rd EXCEPT !.frozenCount = @ + 1]
<1>1. /\ rd.pc = "signal" /\ Sees(rd) /\ Control(rd) /\ Carries(rd)
      /\ rd.doing \in {"stop", "gcFrozen"} /\ NobodyIsHeld /\ rd.kind = "proven"
  BY GoodCarries DEF SigStop, IInv, Good, Shape, Control, Sees
<1>2. frozen \in BOOLEAN
  BY <1>1 DEF Carries, Reader, GroupExists
<1>3. CASE rd.doing = "stop"
  <2>1. stopped \in Reader
    BY <1>1, <1>2 DEF Carries, Reader
  <2>2. stopped.doing = "stop" /\ stopped.kind = "proven" /\ stopped.frozen = frozen
        /\ stopped.result = rd.result
    BY <1>1, <1>3 DEF Carries, Reader
  <2>3. again = [stopped EXCEPT !.count = rd.count + 1]
    OBVIOUS
  <2> HIDE DEF stopped
  <2>4. Carries(stopped)
    BY <1>1, <2>1, <2>2 DEF Carries, Thaws
  <2>5. rd.count + 1 \in Nat
    BY <1>1 DEF Carries, Reader
  <2>6. again \in Reader
    <3> HIDE DEF again
    <3> QED BY <2>1, <2>3, <2>5 DEF Reader
  <2>7. again.doing = "stop" /\ again.kind = "proven" /\ again.frozen = frozen
        /\ again.result = rd.result
    <3> HIDE DEF again
    <3> QED BY <2>1, <2>2, <2>3 DEF Reader
  <2> HIDE DEF again
  <2>8. Carries(again)
    BY <1>1, <2>6, <2>7 DEF Carries, Thaws
  <2>9. Good(Leave(stopped)) /\ (Thaws(Leave(stopped)) <=> Thaws(stopped))
    BY <2>2, <2>4, LeaveGood
  <2>10. Good(Scan(again, "judge")) /\ (Thaws(Scan(again, "judge")) <=> Thaws(again))
    BY <2>7, <2>8, ScanGood
  <2>11. GroupExists => Thaws(stopped) /\ Thaws(again)
    BY <2>2, <2>7 DEF Thaws
  <2>12. Goes(r, IF ~frozen \/ rd.count + 1 = StopAttempts THEN Leave(stopped)
                                                          ELSE Scan(again, "judge"))
    BY <1>3 DEF SigStop, stopped, again
  <2> HIDE DEF frozen
  <2> QED BY <2>9, <2>10, <2>11, <2>12, GoesMovesTo
<1>4. CASE rd.doing = "gcFrozen"
  <2>1. rd.frozenCount + 1 \in Nat
    BY <1>1 DEF Carries, Reader
  <2>2. looked \in Reader
    BY <1>1, <2>1 DEF Carries, Reader
  <2>3. looked.doing = "gcFrozen" /\ looked.kind = "proven" /\ looked.frozen = rd.frozen
        /\ looked.result = rd.result
    BY <1>1, <1>4 DEF Carries, Reader
  <2>4. Goes(r, IF GroupExists THEN Scan(looked, "judge") ELSE Answer(rd, "ended"))
    BY <1>4 DEF SigStop
  <2> HIDE DEF looked
  <2>5. Carries(looked) /\ Thaws(looked)
    BY <1>1, <1>4, <2>2, <2>3 DEF Carries, Thaws
  <2>6. Good(Scan(looked, "judge")) /\ (Thaws(Scan(looked, "judge")) <=> Thaws(looked))
    BY <2>3, <2>5, ScanGood
  <2>7. ~GroupExists => Good(Answer(rd, "ended"))
    <3>1. ~GroupExists => ~ProgramLives
      BY DEF GroupExists, ProgramLives, Live
    <3> QED BY <1>1, <3>1, AnswerGood DEF Carries
  <2> QED BY <2>4, <2>5, <2>6, <2>7, GoesMovesTo
<1> QED BY <1>1, <1>3, <1>4

\* SIGCONT is sent where nobody is held.
LEMMA SigContMoves ==
  ASSUME IInv, NEW r \in Readers, SigCont(r)
  PROVE  MovesTo(r) /\ NobodyIsHeld
<1> DEFINE rd == reader[r]
           new == [rd EXCEPT !.pc = "hostProbe", !.frozen = FALSE]
<1>1. /\ rd.pc = "thaw" /\ Sees(rd) /\ Control(rd) /\ Carries(rd)
      /\ rd.doing \in {"stop", "gcFrozen"} /\ NobodyIsHeld
  BY GoodCarries DEF SigCont, IInv, Good, Shape, Control, Sees
<1>2. CASE rd.doing = "stop"
  <2>1. Goes(r, new)
    BY <1>2 DEF SigCont
  <2>2. new \in Reader
    BY <1>1 DEF Carries, Reader
  <2>3. /\ new.pc = "hostProbe" /\ new.scan = "none" /\ new.rows = rd.rows
        /\ new.doing = "stop" /\ new.kind = rd.kind /\ ~new.frozen
        /\ new.result = rd.result
    BY <1>1, <1>2 DEF Control, Calls, Reader
  <2> HIDE DEF new
  <2>4. Control(new)
    BY <1>1, <1>2, <2>2, <2>3 DEF Control, Carries, Thaws, Scans, Calls
  <2>5. Sees(new)
    BY <1>1, <2>3 DEF Sees, Carries, Thaws
  <2>6. Good(new)
    BY <2>3, <2>4, <2>5 DEF Good, Shape
  <2> QED BY <1>1, <2>1, <2>6, GoesMovesTo
<1>3. CASE rd.doing = "gcFrozen"
  <2>1. Goes(r, FrozenDecides(rd, Verdict(rd.rows)))
    BY <1>3 DEF SigCont
  <2>2. Good(FrozenDecides(rd, Verdict(rd.rows)))
    BY <1>1, <1>3, FrozenDecidesGood DEF IInv
  <2> QED BY <1>1, <2>1, <2>2, GoesMovesTo
<1> QED BY <1>1, <1>2, <1>3
-----------------------------------------------------------------------------
\* No step resumes a member that job control holds.
HeldStays ==
  \A p \in Pids : table[p].state = "held" /\ table'[p].state \in Live => table'[p].state = "held"

\* No step but job control holds a member.
NobodyIsNewlyHeld == \A p \in Pids : table'[p].state = "held" => table[p].state = "held"

\* No step but SIGSTOP freezes a member.
NobodyIsNewlyFrozen == \A p \in Pids : table'[p].state = "frozen" => table[p].state = "frozen"

\* What a step leaves true of the group, for the readers that know it.
TableKeeps ==
  /\ GroupInv'
  /\ AllOthers => AllOthers'
  /\ (\A p \in Pids : table[p].session # "host") =>
       (\A p \in Pids : table'[p].session # "host") /\ (~ProgramLives => ~ProgramLives')
  /\ OnlyProgram => OnlyProgram' \/ \A q \in Readers : reader'[q].pc # "kill"
  /\ NobodyIsNewlyHeld \/ \A q \in Readers : reader'[q].pc = "idle"
  /\ HeldStays
  /\ Start(Program) # "first" => Start(Program)' # "first"

\* A step that only stops, resumes or ends processes.
LEMMA SessionsStay ==
  ASSUME IInv, table' \in [Pids -> [state : {"free", "zombie"} \union Live, session : Sessions]],
         \A p \in Pids : /\ table'[p].session = table[p].session
                         /\ table'[p].state = "free" <=> table[p].state = "free"
                         /\ table'[p].state \in Live => table[p].state \in Live,
         NobodyIsNewlyHeld \/ \A q \in Readers : reader'[q].pc = "idle",
         HeldStays
  PROVE  TableKeeps
<1>1. GroupInv'
  BY DEF IInv, GroupInv, Members
<1>2. AllOthers => AllOthers'
  BY DEF AllOthers
<1>3. ~ProgramLives => ~ProgramLives'
  BY DEF ProgramLives
<1>4. OnlyProgram => OnlyProgram'
  BY DEF OnlyProgram, Members
<1>5. Start(Program)' = Start(Program)
  BY GroupAssumption DEF Start
<1> QED BY <1>1, <1>2, <1>3, <1>4, <1>5 DEF TableKeeps

\* The fields of a process.
LEMMA TableType ==
  ASSUME IInv
  PROVE  /\ table \in [Pids -> [state : {"free", "zombie"} \union Live, session : Sessions]]
         /\ DOMAIN table = Pids
         /\ \A p \in Pids : /\ table[p] = Process(table[p].state, table[p].session)
                            /\ table[p].state = "free" => table[p].session = "other"
BY DEF IInv, GroupInv, Process

\* A process ends.
LEMMA ExitKeeps ==
  ASSUME IInv, NEW p \in Pids, Exit(p)
  PROVE  TableKeeps /\ NobodyIsNewlyFrozen
<1>1. table' = [table EXCEPT ![p].state = "zombie"] /\ table[p].state = "running"
  BY DEF Exit
<1>2. table' \in [Pids -> [state : {"free", "zombie"} \union Live, session : Sessions]]
  BY <1>1, TableType
<1>3. \A q \in Pids : table'[q].session = table[q].session
  BY <1>1, TableType
<1>4. \A q \in Pids : table'[q].state = IF q = p THEN "zombie" ELSE table[q].state
  BY <1>1, TableType
<1>5. NobodyIsNewlyHeld /\ NobodyIsNewlyFrozen /\ HeldStays
  BY <1>1, <1>4 DEF NobodyIsNewlyHeld, NobodyIsNewlyFrozen, HeldStays
<1> QED BY <1>1, <1>2, <1>3, <1>4, <1>5, SessionsStay DEF Live

\* Job control stops a process while no reader looks.
LEMMA HoldKeeps ==
  ASSUME IInv, NEW p \in Pids, Hold(p)
  PROVE  TableKeeps /\ NobodyIsNewlyFrozen
<1>1. /\ table' = [table EXCEPT ![p].state = "held"] /\ table[p].state = "running"
      /\ \A q \in Readers : reader'[q].pc = "idle"
  BY DEF Hold, Process, kernel
<1>2. table' \in [Pids -> [state : {"free", "zombie"} \union Live, session : Sessions]]
  BY <1>1, TableType DEF Live
<1>3. \A q \in Pids : table'[q].session = table[q].session
  BY <1>1, TableType
<1>4. \A q \in Pids : table'[q].state = IF q = p THEN "held" ELSE table[q].state
  BY <1>1, TableType
<1>5. NobodyIsNewlyFrozen /\ HeldStays
  BY <1>1, <1>4 DEF NobodyIsNewlyFrozen, HeldStays
<1> QED BY <1>1, <1>2, <1>3, <1>4, <1>5, SessionsStay DEF Live

\* A zombie is reaped.
LEMMA ReapKeeps ==
  ASSUME IInv, NEW p \in Pids, Reap(p)
  PROVE  TableKeeps /\ NobodyIsNewlyFrozen
<1>1. table' = [table EXCEPT ![p] = Free] /\ table[p].state = "zombie"
  BY DEF Reap
<1>2. table' \in [Pids -> [state : {"free", "zombie"} \union Live, session : Sessions]]
  BY <1>1, TableType DEF Free, Sessions
<1>3. \A q \in Pids : table'[q] = IF q = p THEN Free ELSE table[q]
  BY <1>1, TableType
<1>4. GroupInv'
  BY <1>2, <1>3 DEF IInv, GroupInv, Members, Free
<1>5. AllOthers => AllOthers'
  BY <1>3 DEF AllOthers, Free
<1>6. (\A q \in Pids : table[q].session # "host") => \A q \in Pids : table'[q].session # "host"
  BY <1>3 DEF Free
<1>7. ~ProgramLives => ~ProgramLives'
  BY <1>3 DEF ProgramLives, Free
<1>8. OnlyProgram => OnlyProgram'
  BY <1>3 DEF OnlyProgram, Members, Free
<1>9. NobodyIsNewlyHeld /\ NobodyIsNewlyFrozen /\ HeldStays
  BY <1>1, <1>3 DEF NobodyIsNewlyHeld, NobodyIsNewlyFrozen, HeldStays, Free
<1>10. Start(Program) # "first" => Start(Program)' # "first"
  BY <1>3, GroupAssumption DEF Start, Free
<1> QED BY <1>4, <1>5, <1>6, <1>7, <1>8, <1>9, <1>10 DEF TableKeeps

\* A child is of the session of its parent.
LEMMA ForkKeeps ==
  ASSUME IInv, NEW p \in Pids, NEW q \in Pids, Fork(p, q)
  PROVE  TableKeeps /\ NobodyIsNewlyFrozen
<1>1. /\ table' = [table EXCEPT ![q] = table[p]] /\ table[p].state = "running"
      /\ table[p].session # "host" /\ table[q].state = "free" /\ q # Program
  BY DEF Fork
<1>2. table' \in [Pids -> [state : {"free", "zombie"} \union Live, session : Sessions]]
  BY <1>1, TableType
<1>3. \A s \in Pids : table'[s] = IF s = q THEN table[p] ELSE table[s]
  BY <1>1, TableType
<1>4. GroupInv'
  <2>1. \A s \in Pids : table'[s].state = "free" => table'[s].session = "other"
    BY <1>1, <1>3, TableType
  <2>2. \A s \in Pids : table'[s].session = "host" => s = Program
    BY <1>1, <1>3 DEF IInv, GroupInv
  <2>3. \A s, t \in Members' : table'[s].session = table'[t].session
    BY <1>1, <1>3 DEF IInv, GroupInv, Members
  <2> QED BY <1>2, <2>1, <2>2, <2>3 DEF GroupInv
<1>5. AllOthers => AllOthers'
  BY <1>3 DEF AllOthers
<1>6. (\A s \in Pids : table[s].session # "host") => \A s \in Pids : table'[s].session # "host"
  BY <1>3
<1>7. ~ProgramLives => ~ProgramLives'
  BY <1>3 DEF ProgramLives
<1>8. OnlyProgram => OnlyProgram'
  BY <1>1, <1>3 DEF OnlyProgram, Members
<1>9. NobodyIsNewlyHeld /\ NobodyIsNewlyFrozen /\ HeldStays
  BY <1>1, <1>3 DEF NobodyIsNewlyHeld, NobodyIsNewlyFrozen, HeldStays
<1>10. Start(Program) # "first" => Start(Program)' # "first"
  BY <1>1, <1>3, GroupAssumption DEF Start
<1> QED BY <1>4, <1>5, <1>6, <1>7, <1>8, <1>9, <1>10 DEF TableKeeps

\* The child of the host was alone in the group when it starts its session,
\* and no token was captured.
LEMMA SetsidKeeps ==
  ASSUME IInv, Setsid
  PROVE  TableKeeps /\ NobodyIsNewlyFrozen /\ token # "program"
<1>1. /\ table' = [table EXCEPT ![Program].session = "program"]
      /\ table[Program].state = "running" /\ table[Program].session = "host"
      /\ Program \in Pids
  BY GroupAssumption DEF Setsid, Process
<1>2. table' \in [Pids -> [state : {"free", "zombie"} \union Live, session : Sessions]]
  BY <1>1, TableType DEF Sessions
<1>3. \A s \in Pids : table'[s].state = table[s].state
  BY <1>1, TableType
<1>4. \A s \in Pids : table'[s].session = IF s = Program THEN "program" ELSE table[s].session
  BY <1>1, TableType
<1>5. \A s \in Members : s = Program
  BY <1>1 DEF IInv, GroupInv, Members
<1>6. GroupInv'
  BY <1>1, <1>2, <1>3, <1>4, <1>5 DEF IInv, GroupInv, Members
<1>7. ~AllOthers /\ ~OnlyProgram /\ ~(\A s \in Pids : table[s].session # "host")
  BY <1>1 DEF AllOthers, OnlyProgram, Members
<1>8. NobodyIsNewlyHeld /\ NobodyIsNewlyFrozen /\ HeldStays
  BY <1>3 DEF NobodyIsNewlyHeld, NobodyIsNewlyFrozen, HeldStays
<1>9. Start(Program) = "first"
  BY <1>1 DEF Start
<1>10. token # "program"
  BY <1>1 DEF IInv, TokenInv
<1> QED BY <1>6, <1>7, <1>8, <1>9, <1>10 DEF TableKeeps

\* A number that is given out again belongs to others for good.
LEMMA ReuseKeeps ==
  ASSUME IInv, Reuse
  PROVE  TableKeeps /\ NobodyIsNewlyFrozen
<1>1. /\ table' = [table EXCEPT ![Program] = Process("running", "other")]
      /\ \A s \in Pids : table[s].state = "free"
      /\ \A q \in Readers : reader'[q].pc # "kill"
      /\ Program \in Pids
  BY GroupAssumption DEF Reuse, GroupExists, kernel
<1>2. table' \in [Pids -> [state : {"free", "zombie"} \union Live, session : Sessions]]
  BY <1>1, TableType DEF Sessions, Live, Process
<1>3. \A s \in Pids : table'[s] = IF s = Program THEN Process("running", "other") ELSE table[s]
  BY <1>1, TableType
<1>4. \A s \in Pids : table'[s].session = "other"
  BY <1>1, <1>3, TableType DEF Process
<1>5. \A s \in Pids : table'[s].state \notin {"held", "frozen"}
  BY <1>1, <1>3 DEF Process
<1>6. GroupInv'
  BY <1>2, <1>4 DEF GroupInv, Members
<1>7. AllOthers' /\ ~ProgramLives'
  BY <1>4 DEF AllOthers, ProgramLives
<1>8. NobodyIsNewlyHeld /\ NobodyIsNewlyFrozen /\ HeldStays
  BY <1>1, <1>5 DEF NobodyIsNewlyHeld, NobodyIsNewlyFrozen, HeldStays
<1>9. Start(Program)' # "first"
  BY <1>1, <1>4 DEF Start
<1> QED BY <1>1, <1>4, <1>6, <1>7, <1>8, <1>9 DEF TableKeeps

\* SIGKILL leaves nobody stopped.
LEMMA KillKeeps ==
  ASSUME IInv, table' = Killed
  PROVE  TableKeeps /\ NobodyIsNewlyFrozen /\ \A p \in Pids : table'[p].state # "frozen"
<1>1. \A p \in Pids : table'[p] = IF table[p].state \in Live THEN [table[p] EXCEPT !.state = "zombie"]
                                                            ELSE table[p]
  BY DEF Killed
<1>2. table' \in [Pids -> [state : {"free", "zombie"} \union Live, session : Sessions]]
  BY TableType DEF Killed
<1>3. \A p \in Pids : /\ table'[p].session = table[p].session
                      /\ table'[p].state = IF table[p].state \in Live THEN "zombie" ELSE table[p].state
  BY <1>1, TableType
<1>4. \A p \in Pids : /\ table'[p].state = "free" <=> table[p].state = "free"
                      /\ table'[p].state \notin Live
  BY <1>3 DEF Live
<1>5. NobodyIsNewlyHeld /\ NobodyIsNewlyFrozen /\ HeldStays
  BY <1>4 DEF NobodyIsNewlyHeld, NobodyIsNewlyFrozen, HeldStays, Live
<1>6. TableKeeps
  BY <1>2, <1>3, <1>4, <1>5, SessionsStay
<1> QED BY <1>4, <1>5, <1>6 DEF Live

\* SIGSTOP reaches running members only.
LEMMA SigStopKeeps ==
  ASSUME IInv, table' = [p \in Pids |-> IF table[p].state = "running"
                                        THEN [table[p] EXCEPT !.state = "frozen"] ELSE table[p]]
  PROVE  TableKeeps
<1>1. table' \in [Pids -> [state : {"free", "zombie"} \union Live, session : Sessions]]
  BY TableType DEF Live
<1>2. \A p \in Pids : /\ table'[p].session = table[p].session
                      /\ table'[p].state = IF table[p].state = "running" THEN "frozen" ELSE table[p].state
  BY TableType
<1>3. NobodyIsNewlyHeld /\ HeldStays
  BY <1>2 DEF NobodyIsNewlyHeld, HeldStays
<1> QED BY <1>1, <1>2, <1>3, SessionsStay DEF Live

\* SIGCONT leaves nobody stopped.
LEMMA SigContKeeps ==
  ASSUME IInv, NobodyIsHeld,
         table' = [p \in Pids |-> IF table[p].state \in Stopped
                                  THEN [table[p] EXCEPT !.state = "running"] ELSE table[p]]
  PROVE  TableKeeps /\ NobodyIsNewlyFrozen /\ \A p \in Pids : table'[p].state # "frozen"
<1>1. table' \in [Pids -> [state : {"free", "zombie"} \union Live, session : Sessions]]
  BY TableType DEF Live
<1>2. \A p \in Pids : /\ table'[p].session = table[p].session
                      /\ table'[p].state = IF table[p].state \in Stopped THEN "running" ELSE table[p].state
  BY TableType
<1>3. NobodyIsNewlyHeld /\ HeldStays /\ NobodyIsNewlyFrozen /\ \A p \in Pids : table'[p].state # "frozen"
  BY <1>2 DEF NobodyIsNewlyHeld, NobodyIsNewlyFrozen, HeldStays, NobodyIsHeld, Stopped
<1> QED BY <1>1, <1>2, <1>3, SessionsStay DEF Live, Stopped

\* A step that does not touch the group.
LEMMA TableStays ==
  ASSUME IInv, UNCHANGED table
  PROVE  TableKeeps /\ NobodyIsNewlyFrozen
<1>1. NobodyIsNewlyHeld /\ NobodyIsNewlyFrozen /\ HeldStays
  BY DEF NobodyIsNewlyHeld, NobodyIsNewlyFrozen, HeldStays
<1> QED BY <1>1, TableType, SessionsStay
-----------------------------------------------------------------------------
\* The invariant holds when the host has just forked the program, and when
\* the machine was started again.
LEMMA InitInv == GroupInit => IInv
<1> SUFFICES ASSUME GroupInit PROVE IInv
  OBVIOUS
<1>0. \A r \in Readers : reader[r] = Idle /\ reader = [q \in Readers |-> reader[q]]
  BY DEF GroupInit
<1>1. GroupInv
  BY GroupAssumption DEF GroupInit, GroupInv, Process, Free, Live, Sessions, Members
<1>2. TokenInv
  BY GroupAssumption DEF GroupInit, TokenInv, Process, Free, AllOthers, Sessions
<1>3. \A r \in Readers : Good(reader[r]) /\ reader[r].pc = "idle"
  BY <1>0, IdleGood DEF Idle
<1>4. SomeoneThaws
  <2>1. CASE view # "rebooted"
    <3>1. table = [p \in Pids |-> IF p = Program THEN Process("running", "host") ELSE Free]
      BY <2>1 DEF GroupInit
    <3> QED BY <3>1 DEF SomeoneThaws, Process, Free
  <2>2. CASE view = "rebooted"
    <3>1. PICK q \in {Free, Process("running", "other")} :
            table = [p \in Pids |-> IF p = Program THEN q ELSE Free]
      BY <2>2 DEF GroupInit
    <3>2. q.state # "frozen" /\ Free.state # "frozen"
      BY DEF Process, Free
    <3> QED BY <3>1, <3>2 DEF SomeoneThaws
  <2> QED BY <2>1, <2>2
<1> QED BY <1>0, <1>1, <1>2, <1>3, <1>4, GroupAssumption DEF GroupInit, IInv

\* A reader that was Good before the group changed is Good after it.
LEMMA GoodStays ==
  ASSUME IInv, TableKeeps, NEW q \in Readers, Good(reader'[q]),
         token' = token \/ reader'[q] = Idle
  PROVE  Good(reader[q])'
<1>1. Shape(reader[q])'
  BY DEF Good, Shape, Control, Thaws
<1>2. CASE reader'[q] = Idle
  <2>1. /\ reader'[q].pc = "idle" /\ reader'[q].kind = "none" /\ reader'[q].rows = {}
        /\ ~reader'[q].frozen /\ reader'[q].doing = "none"
    BY <1>2 DEF Idle
  <2> QED BY <1>1, <2>1 DEF Good, Sees, Thaws
<1>3. CASE token' = token /\ reader'[q] # Idle
  <2>1. /\ Sees(reader'[q]) /\ reader'[q].pc # "idle"
    BY <1>3 DEF Good, Shape, Control
  <2>2. NobodyIsNewlyHeld
    BY <2>1 DEF TableKeeps
  <2>3. token = "program" => \A p \in Pids : table[p].session # "host"
    BY DEF IInv, TokenInv
  <2>4. (reader[q].kind = "proven" => token = "program")'
    BY <1>3, <2>1 DEF Sees
  <2>5. (\A w \in reader[q].rows : w.session # "host" /\ (w.session = "other" => AllOthers))'
    BY <2>1 DEF Sees, TableKeeps
  <2>6. (reader[q].pc = "kill" /\ reader[q].kind = "proven" => OnlyProgram)'
    BY <2>1 DEF Sees, TableKeeps
  <2>7. (reader[q].kind = "proven" /\ reader[q].result \in {"gone", "ended"} => ~ProgramLives)'
    BY <2>1, <2>3 DEF Sees, TableKeeps
  <2>8. (Thaws(reader[q]) \/ reader[q].pc \in {"signal", "thaw"} => NobodyIsHeld)'
    BY <2>1, <2>2 DEF Sees, Thaws, NobodyIsHeld, NobodyIsNewlyHeld
  <2>9. (reader[q].pc \in {"stat", "autogroup"} /\ reader[q].scan \in {"held", "live", "liveAgain"} =>
       \A p \in Pids : table[p].state = "held" =>
          p \in reader[q].todo \/ \E w \in reader[q].rows : w.state = "held")'
    BY <2>1, <2>2 DEF Sees, NobodyIsNewlyHeld
  <2>10. Sees(reader[q])'
    BY <2>4, <2>5, <2>6, <2>7, <2>8, <2>9 DEF Sees
  <2> QED BY <1>1, <2>10 DEF Good
<1> QED BY <1>2, <1>3

\* A step of processes or readers keeps the token true.
LEMMA TokenStays ==
  ASSUME IInv, TableKeeps, UNCHANGED <<view, capture, token>>
  PROVE  TokenInv'
BY DEF IInv, TokenInv, TableKeeps

\* A step of processes keeps the invariant.
LEMMA KernelSteps ==
  ASSUME IInv, TableKeeps, NobodyIsNewlyFrozen, UNCHANGED kernel, forks' \in 0..MaxForks,
         host' \in {"alive", "zombie", "gone", "reused"}
  PROVE  IInv'
<1>1. TokenInv'
  BY TokenStays DEF kernel
<1>2. \A q \in Readers : Good(reader[q])'
  <2> SUFFICES ASSUME NEW q \in Readers PROVE Good(reader[q])'
    OBVIOUS
  <2>1. Good(reader'[q]) /\ token' = token
    BY DEF IInv, kernel
  <2> QED BY <2>1, GoodStays
<1>3. SomeoneThaws'
  BY DEF IInv, SomeoneThaws, kernel, NobodyIsNewlyFrozen, Thaws
<1>4. GroupInv'
  BY DEF TableKeeps
<1>5. /\ (reader = [r \in Readers |-> reader[r]])'
      /\ \A r \in Readers : (reader[r].pc # "idle" => capture.pc = "done")'
      /\ hit' \subseteq {"program"}
  BY DEF IInv, kernel
<1> QED BY <1>1, <1>2, <1>3, <1>4, <1>5 DEF IInv

\* A step of a reader keeps the invariant.
LEMMA ReaderSteps ==
  ASSUME IInv, NEW r \in Readers, MovesTo(r), capture.pc = "done", TableKeeps,
         UNCHANGED <<forks, view, capture, token>>,
         \/ NobodyIsNewlyFrozen /\ (Thaws(reader[r]) => Thaws(reader'[r]))
         \/ \A p \in Pids : table'[p].state # "frozen"
         \/ Thaws(reader'[r]),
         hit' \subseteq {"program"}, host' \in {"alive", "zombie", "gone", "reused"}
  PROVE  IInv'
<1>1. TokenInv'
  BY TokenStays
<1>2. \A q \in Readers : Good(reader'[q]) /\ (q # r => reader'[q] = reader[q])
  BY DEF IInv, MovesTo
<1>3. \A q \in Readers : Good(reader[q])'
  BY <1>2, GoodStays
<1>4. SomeoneThaws'
  <2> SUFFICES ASSUME NEW p \in Pids, table'[p].state = "frozen"
               PROVE  \E q \in Readers : Thaws(reader'[q])
    BY DEF SomeoneThaws, Thaws
  <2>1. CASE Thaws(reader'[r])
    BY <2>1
  <2>2. CASE NobodyIsNewlyFrozen /\ ~Thaws(reader[r])
    <3>1. PICK q \in Readers : Thaws(reader[q])
      BY <2>2 DEF IInv, SomeoneThaws, NobodyIsNewlyFrozen
    <3> QED BY <1>2, <2>2, <3>1
  <2> QED BY <2>1, <2>2
<1>5. GroupInv'
  BY DEF TableKeeps
<1>6. /\ (reader = [q \in Readers |-> reader[q]])'
      /\ \A q \in Readers : (reader[q].pc # "idle" => capture.pc = "done")'
      /\ forks' \in 0..MaxForks
  BY DEF IInv, MovesTo
<1> QED BY <1>1, <1>3, <1>4, <1>5, <1>6 DEF IInv

\* captureToken takes the program's token or none: a child that stands
\* there before and after was there when the group was read.
LEMMA CaptureSteps ==
  ASSUME IInv, CaptureProgram
  PROVE  IInv' /\ UNCHANGED table
<1>0. UNCHANGED <<table, forks, view, host, reader, hit>>
  BY DEF CaptureProgram
<1>1. capture.pc \in {"before", "group", "after"}
  BY DEF CaptureProgram, CaptureReads, CaptureEnds
<1>2. \A r \in Readers : reader[r] = Idle /\ reader'[r] = Idle /\ Good(reader'[r])
  BY <1>0, <1>1 DEF IInv, Good, Shape, Control
<1>3. TableKeeps
  BY <1>0, TableStays
<1>4. \A r \in Readers : Good(reader[r])'
  BY <1>2, <1>3, GoodStays
<1>5. ReadsGroup(Program) \in {"none"} \union Sessions
  BY GroupAssumption DEF ReadsGroup, IInv, GroupInv
<1>6. Start(Program) \in {"none", "first", "second"} /\ Start(Program)' = Start(Program)
  BY <1>0 DEF Start
<1>7. token # "program" /\ view # "rebooted" /\ token = "none"
  BY <1>1 DEF IInv, TokenInv
<1>8. TokenInv'
  <2>1. CASE CaptureReads /\ UNCHANGED token /\ capture.pc = "before"
    <3>1. capture' = [pc |-> "group", before |-> Start(Program), group |-> "none"]
      BY <2>1 DEF CaptureReads
    <3> QED BY <1>0, <1>6, <1>7, <2>1, <3>1 DEF TokenInv, IInv
  <2>2. CASE CaptureReads /\ UNCHANGED token /\ capture.pc = "group"
    <3>1. capture' = [capture EXCEPT !.pc = "after", !.group = ReadsGroup(Program)]
      BY <2>2 DEF CaptureReads
    <3>2. ReadsGroup(Program) \in {"none", "other"} => Start(Program) # "first"
      <4>1. table[Program].session \in Sessions
        BY GroupAssumption DEF IInv, GroupInv
      <4> QED BY <4>1 DEF ReadsGroup, Start, Sessions
    <3>3. capture' \in [pc : {"before", "group", "after", "done"},
                  before : {"none", "first", "second"}, group : {"none"} \union Sessions]
      BY <1>5, <3>1 DEF IInv, TokenInv
    <3>4. capture'.group = ReadsGroup(Program)
      BY <3>1 DEF IInv, TokenInv
    <3> QED BY <1>0, <1>6, <1>7, <2>2, <3>2, <3>3, <3>4 DEF TokenInv, IInv
  <2>3. CASE CaptureEnds
    <3> DEFINE same == Start(Program) = "first" /\ capture.before = "first"
               own == table[Program].session = "program"
    <3>1. capture.pc = "after"
      BY <2>3 DEF CaptureEnds
    <3>2. CASE capture' = [capture EXCEPT !.pc = "before"] /\ UNCHANGED token
      <4>1. capture' \in [pc : {"before", "group", "after", "done"},
                  before : {"none", "first", "second"}, group : {"none"} \union Sessions]
        BY <3>2 DEF IInv, TokenInv
      <4>2. capture'.pc = "before"
        BY <3>2 DEF IInv, TokenInv
      <4> QED BY <1>0, <1>7, <3>2, <4>1, <4>2 DEF TokenInv, IInv
    <3>3. CASE /\ capture' = [pc |-> "done", before |-> "none", group |-> "none"]
               /\ token' \in IF same /\ own /\ capture.group # "host"
                             THEN {capture.group, "none"} ELSE {"none"}
      <4>1. capture' \in [pc : {"before", "group", "after", "done"},
                  before : {"none", "first", "second"}, group : {"none"} \union Sessions]
            /\ capture'.pc = "done"
        BY <3>3
      <4>2. CASE token' = "none"
        BY <1>0, <1>7, <4>1, <4>2 DEF TokenInv, IInv
      <4>3. CASE token' # "none"
        <5>1. same /\ own /\ token' = capture.group /\ capture.group # "host"
          BY <3>3, <4>3
        <5>2. capture.group \notin {"none", "other"}
          BY <3>1, <5>1 DEF IInv, TokenInv
        <5>3. capture.group = "program"
          BY <5>1, <5>2 DEF IInv, TokenInv, Sessions
        <5>4. \A p \in Pids : table[p].session # "host"
          <6>1. Program \in Members
            BY <5>1, GroupAssumption DEF IInv, GroupInv, Members
          <6>2. \A p \in Pids : table[p].session = "host" => p \in Members
            BY DEF IInv, GroupInv, Members
          <6> QED BY <5>1, <6>1, <6>2 DEF IInv, GroupInv
        <5> QED BY <1>0, <1>7, <4>1, <5>1, <5>3, <5>4 DEF TokenInv, IInv
      <4> QED BY <4>2, <4>3
    <3> QED BY <2>3, <3>2, <3>3 DEF CaptureEnds
  <2> QED BY <2>1, <2>2, <2>3 DEF CaptureProgram, CaptureReads
<1>9. SomeoneThaws'
  BY <1>0 DEF IInv, SomeoneThaws, Thaws
<1>10. /\ (reader = [q \in Readers |-> reader[q]])' /\ GroupInv'
       /\ \A r \in Readers : (reader[r].pc # "idle" => capture.pc = "done")'
       /\ hit' \subseteq {"program"} /\ forks' \in 0..MaxForks
       /\ host' \in {"alive", "zombie", "gone", "reused"}
  <2>1. \A r \in Readers : reader'[r].pc = "idle"
    BY <1>2 DEF Idle
  <2> QED BY <1>0, <1>3, <2>1 DEF IInv, TableKeeps
<1> QED BY <1>0, <1>4, <1>8, <1>9, <1>10 DEF IInv

\* Every step keeps the invariant, and resumes nobody who was held.
LEMMA NextInv == IInv /\ [Next]_groupVars => IInv' /\ HeldStays
<1> SUFFICES ASSUME IInv, [Next]_groupVars PROVE IInv' /\ HeldStays
  OBVIOUS
<1>1. CASE Setsid
  BY <1>1, SetsidKeeps, KernelSteps DEF Setsid, IInv, TableKeeps
<1>2. CASE Reuse
  <2>1. forks' \in 0..MaxForks
    BY <1>2, GroupAssumption DEF Reuse, IInv
  <2> QED BY <1>2, <2>1, ReuseKeeps, KernelSteps DEF Reuse, IInv, TableKeeps
<1>3. CASE HostEnds
  BY <1>3, TableStays, KernelSteps DEF HostEnds, IInv, TableKeeps
<1>4. CASE CaptureProgram
  BY <1>4, CaptureSteps, TableStays DEF TableKeeps
<1>5. ASSUME NEW p \in Pids, Exit(p) PROVE IInv' /\ HeldStays
  BY <1>5, ExitKeeps, KernelSteps DEF Exit, IInv, TableKeeps
<1>6. ASSUME NEW p \in Pids, Reap(p) PROVE IInv' /\ HeldStays
  BY <1>6, ReapKeeps, KernelSteps DEF Reap, IInv, TableKeeps
<1>7. ASSUME NEW p \in Pids, Hold(p) PROVE IInv' /\ HeldStays
  BY <1>7, HoldKeeps, KernelSteps DEF Hold, IInv, TableKeeps
<1>8. ASSUME NEW p \in Pids, NEW q \in Pids, Fork(p, q) PROVE IInv' /\ HeldStays
  <2>1. forks' \in 0..MaxForks
    BY <1>8, GroupAssumption DEF Fork, IInv
  <2> QED BY <1>8, <2>1, ForkKeeps, KernelSteps DEF Fork, IInv, TableKeeps
<1>9. ASSUME NEW r \in Readers, Reads(r), UNCHANGED <<forks, view, capture, token, host>>
      PROVE  IInv' /\ HeldStays
  <2>0. /\ hit \subseteq {"program"} /\ host' \in {"alive", "zombie", "gone", "reused"}
        /\ reader[r].pc # "idle" => capture.pc = "done"
    BY <1>9 DEF IInv
  <2>1. ASSUME Moves(r), UNCHANGED <<table, hit>>, capture.pc = "done"
        PROVE  IInv' /\ HeldStays
    <3>1. TableKeeps /\ NobodyIsNewlyFrozen
      BY <2>1, TableStays, SMTT(40)
    <3> QED BY <1>9, <2>0, <2>1, <3>1, ReaderSteps DEF Moves, TableKeeps
  <2>2. CASE Begin(r)
    BY <2>1, <2>2, BeginMoves DEF Begin
  <2>3. CASE List(r)
    BY <2>0, <2>1, <2>3, ListMoves DEF List
  <2>4. CASE ReadStat(r)
    BY <2>0, <2>1, <2>4, ReadStatMoves DEF ReadStat
  <2>5. CASE ReadAutogroup(r)
    BY <2>0, <2>1, <2>5, ReadAutogroupMoves DEF ReadAutogroup
  <2>6. CASE Probe(r)
    BY <2>0, <2>1, <2>6, ProbeMoves DEF Probe
  <2>7. CASE WitnessStat(r)
    BY <2>0, <2>1, <2>7, WitnessMoves DEF WitnessStat
  <2>8. CASE WitnessProof(r)
    BY <2>0, <2>1, <2>8, WitnessMoves DEF WitnessProof
  <2>9. CASE KillGroup(r)
    <3>1. table' = Killed /\ capture.pc = "done"
      BY <2>0, <2>9 DEF KillGroup
    <3>2. TableKeeps /\ \A p \in Pids : table'[p].state # "frozen"
      BY <3>1, KillKeeps
    <3>3. MovesTo(r) /\ (reader[r].kind = "proven" => OnlyProgram)
      BY <2>9, KillMoves
    <3>4. OnlyProgram => Struck \subseteq {"program"}
      BY DEF OnlyProgram, Struck, Members, Live
    <3>5. hit' \subseteq {"program"}
      BY <2>0, <2>9, <3>3, <3>4 DEF KillGroup
    <3> QED BY <1>9, <2>0, <3>1, <3>2, <3>3, <3>5, ReaderSteps DEF TableKeeps
  <2>10. CASE SigStop(r)
    <3>1. /\ table' = [p \in Pids |-> IF table[p].state = "running"
                                      THEN [table[p] EXCEPT !.state = "frozen"] ELSE table[p]]
          /\ capture.pc = "done" /\ hit' = hit
      BY <2>0, <2>10 DEF SigStop
    <3>2. TableKeeps
      BY <3>1, SigStopKeeps
    <3>3. MovesTo(r) /\ (GroupExists => Thaws(reader'[r]))
      BY <2>10, SigStopMoves
    <3>4. ~GroupExists => \A p \in Pids : table'[p].state # "frozen"
      BY <3>1 DEF GroupExists
    <3> QED BY <1>9, <2>0, <3>1, <3>2, <3>3, <3>4, ReaderSteps DEF TableKeeps
  <2>11. CASE SigCont(r)
    <3>1. /\ table' = [p \in Pids |-> IF table[p].state \in Stopped
                                      THEN [table[p] EXCEPT !.state = "running"] ELSE table[p]]
          /\ capture.pc = "done" /\ hit' = hit
      BY <2>0, <2>11 DEF SigCont
    <3>2. MovesTo(r) /\ NobodyIsHeld
      BY <2>11, SigContMoves
    <3>3. TableKeeps /\ \A p \in Pids : table'[p].state # "frozen"
      BY <3>1, <3>2, SigContKeeps
    <3> QED BY <1>9, <2>0, <3>1, <3>2, <3>3, ReaderSteps DEF TableKeeps
  <2> QED BY <1>9, <2>2, <2>3, <2>4, <2>5, <2>6, <2>7, <2>8, <2>9, <2>10, <2>11 DEF Reads
<1>10. ASSUME NEW r \in Readers, JudgeHost(r) \/ KillHost(r),
              UNCHANGED <<forks, view, capture, token>>
       PROVE  IInv' /\ HeldStays
  <2>1. /\ Moves(r) /\ UNCHANGED <<table, hit>> /\ reader[r].pc # "idle"
    BY <1>10, HostMoves DEF JudgeHost, KillHost
  <2>2. host' \in {"alive", "zombie", "gone", "reused"}
    BY <1>10 DEF JudgeHost, KillHost, IInv
  <2>3. TableKeeps /\ NobodyIsNewlyFrozen
    BY <2>1, TableStays
  <2> QED BY <1>10, <2>1, <2>2, <2>3, ReaderSteps DEF Moves, TableKeeps, IInv
<1>11. CASE UNCHANGED groupVars
  <2>1. UNCHANGED <<table, forks, host, kernel>>
    BY <1>11 DEF groupVars, kernel
  <2> QED BY <2>1, TableStays, KernelSteps DEF TableKeeps, IInv
<1> QED
  BY <1>1, <1>2, <1>3, <1>4, <1>5, <1>6, <1>7, <1>8, <1>9, <1>10, <1>11 DEF Next

\* The variables keep their types.
THEOREM GroupTypes == Spec => []TypeOK
<1>1. IInv => TypeOK
  BY DEF IInv, GroupInv, TokenInv, Good, Shape, Control, TypeOK, Sessions
<1> QED BY <1>1, InitInv, NextInv, PTL DEF Spec

\* A kill that a token proves reaches the program and nobody else, however
\* the number of the group is used again, and a captured token is the
\* program's (captureToken, stopProgramGroup).
THEOREM KillsAreThePrograms == Spec => []KillsHitTheProgram
<1>1. IInv => KillsHitTheProgram
  BY DEF IInv, TokenInv, KillsHitTheProgram
<1> QED BY <1>1, InitInv, NextInv, PTL DEF Spec

\* A group that was reported gone or ended has no live process of the
\* program, then and later, whatever the members did during the scans
\* (isProgramGroupAlive, judgeGroupForGc, judgeFrozenGroup).
THEOREM GoneStaysGone == Spec => []GoneIsGone
<1>1. IInv => GoneIsGone
  BY DEF IInv, Good, Sees, GoneIsGone
<1> QED BY <1>1, InitInv, NextInv, PTL DEF Spec

\* Freezing leaves no trace: every way out lets the group go on, also when
\* destroy and gc freeze it at once, and no SIGCONT resumes a member that
\* was held (showsStoppedMember).
THEOREM FreezingIsUndone == Spec => FreezingLeavesNoTrace
<1>1. IInv => NobodyIsFrozen
  <2> SUFFICES ASSUME IInv, \A r \in Readers : reader[r].pc \in {"idle", "done"}
               PROVE  \A p \in Pids : table[p].state # "frozen"
    BY DEF NobodyIsFrozen
  <2>1. \A r \in Readers : ~Thaws(reader[r])
    BY DEF IInv, Good, Shape, Control, Thaws, Idle
  <2> QED BY <2>1 DEF IInv, SomeoneThaws
<1>2. IInv' => NobodyIsFrozen'
  BY <1>1, PTL
<1>3. IInv /\ [Next]_groupVars =>
        [/\ NobodyIsFrozen'
         /\ \A p \in Pids : table[p].state = "held" /\ table'[p].state \in Live
                             => table'[p].state = "held"]_groupVars
  BY <1>2, NextInv DEF HeldStays
<1> QED BY <1>3, InitInv, NextInv, PTL DEF Spec, FreezingLeavesNoTrace
=============================================================================
