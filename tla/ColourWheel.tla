------------------------------- MODULE ColourWheel -------------------------------
(* What task 2 of prac 1 promises: the colours in their order, again and   *)
(* again.  showing is the place of the colour shown, -1 before the first.  *)
EXTENDS Integers

CONSTANT Colours      (* how many there are                                 *)
VARIABLE showing

Init == showing = -1
Turn == showing' = (showing + 1) % Colours

Spec == Init /\ [][Turn]_showing
===============================================================================
