------------------------------- MODULE MCHost -------------------------------
(* Two commands of any kind on a session, its host and its program; and the *)
(* renderers of a host: `part` says which of the two goes through its steps *)
(* while the other stays as it begins.                                      *)
EXTENDS SessionCommands, MCHostRenderer, TLC

VARIABLE part

Symmetry == Permutations(Commands)

BothInit ==
  /\ part \in {"session", "renderers"} /\ Init /\ RendererInit
  /\ part # "session" => ~token /\ shield = "nobody" /\ phase = "boot"

BothNext ==
  \/ part = "session" /\ Next /\ UNCHANGED <<part, rendererVars>>
  \/ part = "renderers" /\ RendererNext /\ UNCHANGED <<part, vars>>

BothSpec == BothInit /\ [][BothNext]_<<part, vars, rendererVars>>
=============================================================================
