-------------------------- MODULE MCCaptureTheFlag --------------------------
(***************************************************************************)
(* Capture the flag on a map of four places in a row: the corner where the *)
(* map begins, the flag of the first team, the middle, the flag of the     *)
(* second team, and the right edge. A flag gives a point at the edge of    *)
(* the other side.                                                         *)
(***************************************************************************)
EXTENDS CaptureTheFlag

Row == 0 .. 3
Neighbours == {<<a, b>> \in Row \X Row : a - b \in {-1, 0, 1}}
Homes == [f \in {1, 2} |-> IF f = 1 THEN 1 ELSE 3]
Goals == [f \in {1, 2} |-> IF f = 1 THEN {3} ELSE {0, 1}]
=============================================================================
