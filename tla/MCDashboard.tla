---------------------------- MODULE MCDashboard ----------------------------
(* Two homes: that of the start with two sessions, and one that was seen later. *)
EXTENDS Dashboard

MCNewest == <<"b1", "a1", "b2">>
MCHomeOf == [s \in {"a1", "b1", "b2"} |-> IF s = "a1" THEN "A" ELSE "B"]
MCHomes == <<"A", "B">>
MCRequests == {[scope |-> "all", session |-> "b2"]}
=============================================================================
