------------------------------- MODULE Picked -------------------------------
(* The filter of the dashboard's lists and records, as a recursive function,  *)
(* which the provers can unfold; of the library's SelectSeq they know nothing. *)
EXTENDS Naturals, Sequences

\* One step of it: what is picked from place `k` on, given `from` for the places behind it.
PickFrom(from, s, places, k) ==
  IF k > Len(s) THEN <<>>
  ELSE (IF k \in places THEN <<s[k]>> ELSE <<>>) \o from[k + 1]

\* The elements of `s` at `places`, in order.
Picked(s, places) ==
  LET from[k \in 1 .. Len(s) + 1] == PickFrom(from, s, places, k) IN from[1]
=============================================================================
