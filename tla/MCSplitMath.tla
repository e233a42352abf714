---------------------------- MODULE MCSplitMath ----------------------------
(***************************************************************************)
(* The amounts and values of SplitCalls for TLC: odd and even totals, zero *)
(* weights, a percentage list that misses 100 by more and by less than the *)
(* tolerance, fixed amounts that are rounded up and down to whole cents.   *)
(***************************************************************************)
EXTENDS SplitCalls

MCAmounts == [m \in Methods |-> IF m = "percentage" THEN {1, 2, 100} ELSE {1, 3, 4, 7}]

MCValues ==
  [m \in Methods |->
     CASE m = "equal"      -> {0}
       [] m = "percentage" -> {0, 33333, 33340, 50000, 66660, 100000}
       [] m = "fixed"      -> {-10, 0, 4, 5, 10, 15, 30}
       [] m = "shares"     -> {0, 1, 2, 3}]

=============================================================================
