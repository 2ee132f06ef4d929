------------------------------- MODULE MCBatch -------------------------------
(* Plans of two inputs before a wait, of a wait that follows another, and *)
(* of a run before a wait for the screen to be still.                     *)
EXTENDS Batch

MCPlans == {<<"input", "start", "wait">>, <<"wait", "input", "wait">>, <<"run", "still">>}
=============================================================================
