--------------------------- MODULE ClaimsDecided ---------------------------
(***************************************************************************)
(* What conflict.Resolve promises, without saying how: decisions are made  *)
(* one by one in any order, each is one that the whole input calls for,    *)
(* and none is taken back.                                                 *)
(***************************************************************************)
CONSTANT CalledFor(_)   \* the decisions an input calls for

VARIABLES input, decisions

Init == decisions = {}

DecideOne ==
    /\ \E d \in CalledFor(input) \ decisions : decisions' = decisions \cup {d}
    /\ UNCHANGED input

Spec == Init /\ [][DecideOne]_<<input, decisions>>
=============================================================================
