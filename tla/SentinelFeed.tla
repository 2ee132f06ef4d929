---------------------------- MODULE SentinelFeed ----------------------------
(***************************************************************************)
(* The scanner and the sanitizer fed with the output of a terminal, cut    *)
(* into chunks anywhere, while all runs are active. An input says what the *)
(* terminal prints and what of it is the user's: everything but the        *)
(* sentinels, the echoes and the controls inside an echo.                  *)
(***************************************************************************)
EXTENDS RunCompletionSentinel

CONSTANT Inputs  \* [text, user, ends]: ends has the runs in the order they end

VARIABLES
  input,      \* what the terminal prints
  fed,        \* the characters of it that have been fed
  scanner,    \* the scanner's active runs and tail
  sanitizer,  \* the sanitizer's echoes, strip state and tail
  output,     \* what the log would hold as output
  ended,      \* the runs that ended, each with the output before it
  flushed     \* the tails have been flushed

feedVars == <<input, fed, scanner, sanitizer, output, ended, flushed>>

FeedInit ==
  /\ input \in Inputs
  /\ fed = 0 /\ flushed = FALSE
  /\ scanner = [active |-> Runs, tail |-> <<>>]
  /\ sanitizer = [FreshSanitizer EXCEPT !.echoes = Runs]
  /\ output = <<>> /\ ended = <<>>

\* #appendSentinelPieces without the appends: an output piece goes through the
\* sanitizer, and the echo of a run that ends is given up.
TakePiece(a, piece) ==
  LET took(r) ==
        [sanitizer |-> r.sanitizer, output |-> a.output \o r.out,
         ended |-> IF piece.kind = "output" THEN a.ended
                   ELSE Append(a.ended, [run |-> piece.run, at |-> Len(a.output \o r.out)])]
  IN took(IF piece.kind = "output" THEN SanitizerFeed(a.sanitizer, piece.data)
                                   ELSE Deregister(a.sanitizer, piece.run))

Taken(pieces) ==
  FoldLeft(TakePiece, [sanitizer |-> sanitizer, output |-> output, ended |-> ended], pieces)

\* The classes after the pieces of a scan, and what the log then has.
After(scan, taken) ==
  /\ scanner' = [active |-> scan.active, tail |-> scan.tail]
  /\ sanitizer' = taken.sanitizer
  /\ output' = taken.output /\ ended' = taken.ended

Feed ==
  /\ \E n \in 1 .. Len(input.text) - fed :
       /\ fed' = fed + n
       /\ \E scan \in {ScannerFeed(scanner, SubSeq(input.text, fed + 1, fed + n))} :
            \E taken \in {Taken(scan.pieces)} : After(scan, taken)
  /\ UNCHANGED <<input, flushed>>

\* flushPtyDataOnExit: what the sanitizer kept comes last.
Flush ==
  /\ fed = Len(input.text) /\ ~flushed /\ flushed' = TRUE
  /\ \E scan \in {ScannerFlush(scanner)} :
       \E taken \in {Taken(scan.pieces)} :
         \E last \in {SanitizerFlush(taken.sanitizer)} :
           After(scan, [taken EXCEPT !.sanitizer = last.sanitizer, !.output = @ \o last.out])
  /\ UNCHANGED <<input, fed>>

FeedNext == Feed \/ Flush

FeedSpec == FeedInit /\ [][FeedNext]_feedVars
-----------------------------------------------------------------------------
(* Properties *)

\* The classes' own assertions, which would throw into the ingestion and end
\* the host: a tail needs an active run, and is shorter than what it may
\* become; and no tail is left while an echo is being stripped.
TailsAreBounded ==
  /\ scanner.tail # <<>> => GoesOn(scanner.tail, scanner.active) # {}
  /\ Len(sanitizer.tail) < (IF sanitizer.echoes = {} THEN 1 ELSE MaxEcho)
  /\ sanitizer.tail # <<>> => sanitizer.strip = NoStrip

\* Wherever the terminal cuts its output, the log gets exactly the output of
\* the user, never anything hidden for a while, and every run ends once, in
\* the order of the sentinels; the assertions of both hold on the way.
CutsDoNotMatter ==
  /\ TailsAreBounded
  /\ IsPrefix(output, input.user)
  /\ flushed => /\ output = input.user
                /\ [i \in DOMAIN ended |-> ended[i].run] = input.ends
=============================================================================
