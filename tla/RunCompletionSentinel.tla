----------------------- MODULE RunCompletionSentinel -----------------------
(***************************************************************************)
(* How a host finds the end of a waited run in the output of its terminal  *)
(* (host/runCompletionSentinel.ts). After the command the host types a     *)
(* line, the postamble, that prints a hidden sentinel. The scanner takes   *)
(* the sentinels out of the output, the sanitizer takes out what the       *)
(* terminal echoed of the postambles. Both work on chunks that the         *)
(* terminal cuts anywhere, and keep the tail that may go on in the next.   *)
(*                                                                         *)
(* Text is a sequence of characters. "esc", "cr", "lf" and "[" are what    *)
(* they say, a run's name is the token that is in its sentinel and in its  *)
(* postamble, and "0" stands for the parameters of a control sequence.     *)
(***************************************************************************)
EXTENDS Integers, Sequences, FiniteSets, SequencesExt

CONSTANTS
  Runs,        \* the markers of waited runs
  EchoPrefix,  \* what all postambles start with; MIN_TOLERANT_ECHO_PREFIX_LENGTH
  MaxControl   \* MAX_SKIPPABLE_ECHO_CONTROL_LENGTH

\* A run's name is in its own sentinel and postamble and nowhere else. What a
\* postamble starts with has no control in it, and its first character once.
ASSUME SentinelAssumption ==
  /\ {"esc", "cr", "lf", "[", "0"} \intersect Runs = {} /\ MaxControl \in Nat
  /\ EchoPrefix \in Seq(STRING \ (Runs \union {"esc", "cr"})) /\ EchoPrefix # <<>>
  /\ \A i \in 2 .. Len(EchoPrefix) : EchoPrefix[i] # EchoPrefix[1]

Sentinel(r) == <<"esc", r>>

\* A terminal echoes the newline of the postamble as CR LF or as LF.
Echoes(r) == {EchoPrefix \o <<r, "lf">>, EchoPrefix \o <<r, "cr", "lf">>}

Rest(text, i) == SubSeq(text, i, Len(text))

StartsWith(text, i, word) == IsPrefix(word, Rest(text, i))
-----------------------------------------------------------------------------
(* RunCompletionSentinelScanner: its state is the active runs and the tail *)

\* Mutant: a sentinel is only found when one chunk holds all of it.
GoesOnNowhere(text, active) == {}

\* The active runs of whose sentinel the whole of `text` is the start.
GoesOn(text, active) ==
  {r \in active : Len(text) < Len(Sentinel(r)) /\ IsPrefix(text, Sentinel(r))}

OutputPiece(data) == IF data = <<>> THEN <<>> ELSE <<[kind |-> "output", data |-> data]>>
CompletePiece(r) == [kind |-> "run_complete", run |-> r]

\* The active runs whose sentinel is at `i`.
Found(text, active, i) == {r \in active : StartsWith(text, i, Sentinel(r))}

\* Where a scan from `i` stops: at a sentinel, or at what may become one.
Stops(text, active, i, final) ==
  {j \in i .. Len(text) : \/ Found(text, active, j) # {}
                          \/ ~final /\ GoesOn(Rest(text, j), active) # {}}

\* #scanBuffer from `i` on: the pieces of `text`, and the scanner after it. A
\* run stops being active with its sentinel. `scan` is the rest of the loop.
ScanFrom(scan, text, i, active, final) ==
  LET j == Min(Stops(text, active, i, final))
      r == CHOOSE r \in Found(text, active, j) : TRUE
      before == OutputPiece(SubSeq(text, i, j - 1))
  IN IF Stops(text, active, i, final) = {}
     THEN [pieces |-> OutputPiece(Rest(text, i)), active |-> active, tail |-> <<>>]
     ELSE IF Found(text, active, j) = {}
     THEN [pieces |-> before, active |-> active, tail |-> Rest(text, j)]
     ELSE [scan[<<j + Len(Sentinel(r)), active \ {r}>>] EXCEPT
             !.pieces = before \o <<CompletePiece(r)>> \o @]

Scan(text, active, final) ==
  LET scan[p \in (1 .. Len(text) + 1) \X SUBSET Runs] == ScanFrom(scan, text, p[1], p[2], final)
  IN scan[<<1, active>>]

\* feed() and flush() of a scanner, with its tail in front of the chunk.
ScannerFeed(s, chunk) == Scan(s.tail \o chunk, s.active, FALSE)
ScannerFlush(s) == Scan(s.tail, s.active, TRUE)
-----------------------------------------------------------------------------
(* RunCompletionPostambleEchoSanitizer: its state is the runs whose echo is *)
(* active, the tail, and the echoes that it is in the middle of stripping  *)

NoStrip == [candidates |-> {}, drop |-> "none"]
FreshSanitizer == [echoes |-> {}, strip |-> NoStrip, tail |-> <<>>]

\* isCsiFinalByte, for the characters here.
IsFinal(char) == char \notin {"esc", "cr", "lf", "0"}

Partial == -1

\* findSkippableEchoControl: the length of the control at i, 0 or Partial.
ControlLength(text, i) ==
  LET ends == {j \in i + 2 .. i + MaxControl - 1 : j <= Len(text) /\ IsFinal(text[j])}
  IN CASE text[i] = "cr" -> 1
       [] text[i] # "cr" /\ text[i] # "esc" -> 0
       [] text[i] = "esc" /\ i = Len(text) -> Partial
       [] text[i] = "esc" /\ i < Len(text) /\ text[i + 1] # "[" -> 2
       [] OTHER -> IF ends # {} THEN Min(ends) - i + 1
                   ELSE IF i + MaxControl - 1 < Len(text) THEN 0 ELSE Partial

ScanResult(i, e, complete, pending) ==
  [used |-> i - 1, matched |-> e, complete |-> complete, pending |-> pending]

\* The loop of scanEchoPrefixToleratingControls from `i` and `e` on; `scan` is
\* the rest of it.
PrefixScanFrom(scan, text, echo, i, e) ==
  LET control == ControlLength(text, i)
  IN CASE i > Len(text) \/ e = Len(echo) ->
            ScanResult(i, e, e = Len(echo), i > Len(text) /\ e < Len(echo))
       [] i <= Len(text) /\ e < Len(echo) /\ control = Partial -> ScanResult(i, e, FALSE, TRUE)
       [] i <= Len(text) /\ e < Len(echo) /\ control > 0 -> scan[<<i + control, e>>]
       [] OTHER -> IF text[i] = echo[e + 1] THEN scan[<<i + 1, e + 1>>]
                                            ELSE ScanResult(i, e, FALSE, FALSE)

\* How much of `text` and of `echo` match.
PrefixScan(text, echo) ==
  LET scan[p \in (1 .. Len(text) + 1) \X (0 .. Len(echo))] ==
        PrefixScanFrom(scan, text, echo, p[1], p[2])
  IN scan[<<1, 0>>]

Candidates(active) ==
  UNION {{[run |-> r, echo |-> echo, index |-> 0] : echo \in Echoes(r)} : r \in active}

\* The matches that are the longest, and of these have consumed the most.
Best(matches) ==
  {m \in matches : \A n \in matches :
     \/ m.scan.matched > n.scan.matched
     \/ m.scan.matched = n.scan.matched /\ m.scan.used >= n.scan.used}

\* How much to drop at the start of a text, by the scans of the candidates,
\* and the echoes it is then in the middle of: the whole echo, or at least
\* `minimum` characters of one.
Match(matches, minimum) ==
  LET whole == {m \in matches : m.scan.complete}
      best == Best({m \in matches : m.scan.matched >= minimum})
  IN CASE whole # {} -> [used |-> Max({m.scan.used : m \in whole}), strip |-> NoStrip]
       [] whole = {} /\ best = {} -> [used |-> 0, strip |-> NoStrip]
       [] OTHER -> [used |-> (CHOOSE m \in best : TRUE).scan.used,
                    strip |-> [drop |-> "none", candidates |->
                      {[m.of EXCEPT !.index = m.scan.matched] : m \in best}]]

Matches(text, active) ==
  {[of |-> c, scan |-> PrefixScan(text, c.echo)] : c \in Candidates(active)}

\* #findTolerantEchoPrefixMatch: nothing is dropped before all of the common
\* start of the postambles has matched.
TolerantMatch(text, active) == Match(Matches(text, active), Len(EchoPrefix))

MaxEcho == Len(EchoPrefix) + 3

\* #hasPartialEchoMatch
EchoGoesOn(text, active) ==
  /\ Len(text) < MaxEcho
  /\ \E m \in Matches(text, active) : m.scan.pending /\ m.scan.matched > 0

\* #consumeTolerantEchoByte: in the middle of an echo, its next character and
\* every control is dropped, and everything else is output.
ConsumeByte(strip, char) ==
  LET next == {[c EXCEPT !.index = @ + 1] :
                 c \in {c \in strip.candidates : c.echo[c.index + 1] = char}}
      drop(how) == [out |-> <<>>, strip |-> [strip EXCEPT !.drop = how]]
  IN CASE strip.drop = "escape" -> drop(IF char = "[" THEN "csi" ELSE "none")
       [] strip.drop = "csi" -> drop(IF IsFinal(char) THEN "none" ELSE "csi")
       [] strip.drop = "none" /\ char = "cr" -> drop("none")
       [] strip.drop = "none" /\ char = "esc" -> drop("escape")
       [] OTHER -> IF next = {} THEN [out |-> <<char>>, strip |-> strip]
                   ELSE [out |-> <<>>,
                         strip |-> IF \E c \in next : c.index = Len(c.echo) THEN NoStrip
                                   ELSE [drop |-> "none", candidates |-> next]]

\* At a character that no echo goes on with: an echo that is whole is dropped,
\* or the start of one, or it is kept back as it may become one, or is output.
\* `next` is the index up to which the characters have been dealt with.
StripEcho(a, i, text, echoes, final) ==
  LET exact == {c \in Candidates(echoes) : StartsWith(text, i, c.echo)}
      match == TolerantMatch(Rest(text, i), echoes)
  IN CASE text[i] = EchoPrefix[1] /\ exact # {} ->
            [a EXCEPT !.next = i + Len((CHOOSE c \in exact : TRUE).echo)]
       [] text[i] = EchoPrefix[1] /\ exact = {} /\ match.used > 0 ->
            [a EXCEPT !.next = i + match.used, !.strip = match.strip]
       [] text[i] = EchoPrefix[1] /\ exact = {} /\ match.used = 0
            /\ ~final /\ EchoGoesOn(Rest(text, i), echoes) ->
            [a EXCEPT !.next = Len(text) + 1, !.tail = Rest(text, i)]
       [] OTHER -> [a EXCEPT !.next = i + 1, !.out = Append(@, text[i])]

StripFrom(a, i, text, echoes, final) ==
  LET byte == ConsumeByte(a.strip, text[i])
  IN CASE i < a.next -> a
       [] i = a.next /\ a.strip # NoStrip ->
            [a EXCEPT !.next = i + 1, !.out = @ \o byte.out, !.strip = byte.strip]
       [] OTHER -> StripEcho(a, i, text, echoes, final)

\* #stripBuffer: what is left of `text` and the sanitizer after it.
Strip(text, echoes, strip, final) ==
  LET upTo[i \in 0 .. Len(text)] ==
        IF i = 0 THEN [next |-> 1, out |-> <<>>, strip |-> strip, tail |-> <<>>]
                 ELSE StripFrom(upTo[i - 1], i, text, echoes, final)
      end == upTo[Len(text)]
  IN [out |-> end.out, sanitizer |-> [echoes |-> echoes, strip |-> end.strip, tail |-> end.tail]]

\* feed(): without an active echo the chunk passes unchanged.
SanitizerFeed(s, chunk) == Strip(s.tail \o chunk, s.echoes, s.strip, FALSE)

\* flush() at the end of the output
SanitizerFlush(s) == Strip(s.tail, s.echoes, s.strip, TRUE)

\* deregister(): the echo of `r` is no longer expected, so the tail, which may
\* only have been kept for it, is looked at again.
Deregister(s, r) ==
  LET left == {c \in s.strip.candidates : c.run # r}
  IN Strip(s.tail, s.echoes \ {r},
           IF left = {} THEN NoStrip ELSE [s.strip EXCEPT !.candidates = left], FALSE)
=============================================================================
