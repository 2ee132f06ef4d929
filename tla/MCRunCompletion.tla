-------------------------- MODULE MCRunCompletion --------------------------
(* Two waited runs, and output that looks like the start of an echo. *)
EXTENDS RunCompletion

MCEchoPrefix == <<"p", "f">>
MCPrints == {<<"p">>}
Symmetry == Permutations(Runs)

\* Bound: what goes on in a log that stopped after the program printed twice.
Bounded == stopped => prints < MaxPrints
=============================================================================
