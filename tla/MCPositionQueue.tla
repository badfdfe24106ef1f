---------------------------- MODULE MCPositionQueue ----------------------------
(* Ticks of 10 ms: the sleeps and the delay have the lengths of the code,  *)
(* a line is printed in at most 30 ms, and twice 30 ms are left for the    *)
(* threads of higher priority: the most that fits in a round.              *)
EXTENDS PositionQueue

===============================================================================
