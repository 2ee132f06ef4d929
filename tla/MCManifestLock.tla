---------------------------- MODULE MCManifestLock ----------------------------
(* Writers of ManifestLock for TLC: a and b run, and d died in the middle of  *)
(* a call and left files behind. Only a makes a second call, so that it can   *)
(* meet a lock of its own that it could not release.                          *)
EXTENDS ManifestLock

CONSTANTS a, b, d

MCMaxCalls == [w \in Writers |-> IF w = a THEN 2 ELSE 1]
=============================================================================
