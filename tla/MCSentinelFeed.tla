--------------------------- MODULE MCSentinelFeed ---------------------------
(* Inputs for SentinelFeed: up to three pieces of terminal output in a row. *)
EXTENDS SentinelFeed

MCRuns == {"r1", "r2"}
MCEchoPrefix == <<"p", "f", "o">>

Piece(text, user, ends) == [text |-> text, user |-> user, ends |-> ends]

\* The user's own output, which may look like the start of something hidden.
User == {Piece(t, t, <<>>) :
           t \in {<<"x">>, <<"p">>, <<"p", "f", "x">>, <<"esc", "y">>, <<"esc", "r3">>}}

Insert(text, k, noise) == SubSeq(text, 1, k) \o noise \o SubSeq(text, k + 1, Len(text))

Echo(r) == MCEchoPrefix \o <<r, "lf">>

\* A line editor repaints inside the echo: all of it is hidden.
Repainted(r) ==
  {Piece(Insert(Echo(r), k, noise), <<>>, <<>>) :
     k \in 1 .. Len(Echo(r)) - 1,
     noise \in {<<"cr">>, <<"esc", "y">>, <<"esc", "[", "m">>}}

\* A control that is skippable, but with the start of the echo before it as
\* long as an echo.
LongControl == Piece(Insert(Echo("r1"), 2, <<"esc", "[", "0", "0", "m">>), <<>>, <<>>)

\* The command prints inside the echo, after the start that gives it away.
Interleaved(r) ==
  {Piece(Insert(Echo(r), k, <<"x">>), <<"x">>, <<>>) :
     k \in Len(MCEchoPrefix) .. Len(Echo(r)) - 1}

Plain(r) == {Piece(Echo(r), <<>>, <<>>), Piece(MCEchoPrefix \o <<r, "cr", "lf">>, <<>>, <<>>)}

End(r) == Piece(Sentinel(r), <<>>, <<r>>)

Pieces == User \cup Repainted("r1") \cup Interleaved("r1")
            \cup Plain("r1") \cup Plain("r2") \cup {End("r1"), End("r2")}

Join(a, b) == Piece(a.text \o b.text, a.user \o b.user, a.ends \o b.ends)

\* A run ends once, and its postamble has been echoed by then.
Possible(ps) ==
  \A i, j \in DOMAIN ps : i < j /\ ps[i].ends # <<>> =>
    ~ \E k \in DOMAIN ps[j].text : ps[j].text[k] = ps[i].ends[1]

Starts == {Piece(<<"p">>, <<"p">>, <<>>), Piece(<<"esc">>, <<"esc">>, <<>>)}
Finish == Join(End("r1"), Piece(<<"p", "x">>, <<"p", "x">>, <<>>))

MCInputs ==
  {Join(a, b) : <<a, b>> \in {s \in Pieces \X Pieces : Possible(s)}}
    \cup {Join(a, Join(b, Finish)) : <<a, b>> \in {s \in Starts \X Pieces : Possible(<<s[2], Finish>>)}}

MCLongInputs == {Join(LongControl, p) : p \in Pieces}
=============================================================================
