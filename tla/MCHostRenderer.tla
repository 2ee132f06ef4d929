-------------------------- MODULE MCHostRenderer --------------------------
(* Small instances of HostRenderer: requests named for what they ask. *)
EXTENDS HostRenderer

\* A snapshot and a wait on the browser, a screenshot on the native terminal,
\* and mouse requests.
MCKind(r) ==
  CASE r = "snap" -> "snapshot" [] r = "shot" -> "screenshot"
    [] r = "watch" -> "wait" [] OTHER -> "mouse"

MCKey(r) == IF r \in {"snap", "watch"} THEN "web" ELSE "vt"
=============================================================================
