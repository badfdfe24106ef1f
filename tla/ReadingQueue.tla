------------------------------ MODULE ReadingQueue ------------------------------
(***************************************************************************)
(* What the readers of prac 2 can expect of their ring buffers: readings   *)
(* come out as they went in, one by one and in order, until one is put     *)
(* where there is no room for it.  From then on anything may come out, up  *)
(* to an error, which leaves an empty queue.                               *)
(***************************************************************************)
EXTENDS Naturals, Sequences

CONSTANT Slots       (* readings the queue has room for                      *)

VARIABLES waiting,   (* the readings in the queue                            *)
          taken,     (* number of readings taken                             *)
          value,     (* what was last returned, 0 for an error               *)
          broken     (* whether a reading was put without room               *)

vars == <<waiting, taken, value, broken>>

Init == waiting = << >> /\ taken = 0 /\ value = 0 /\ broken = FALSE

Put == /\ ~ broken /\ Len(waiting) < Slots
       /\ taken' = taken + 1
       /\ waiting' = Append(waiting, taken + 1)
       /\ UNCHANGED <<value, broken>>

PutWithoutRoom == /\ ~ broken /\ Len(waiting) = Slots
                  /\ broken' = TRUE
                  /\ taken' = taken + 1
                  /\ UNCHANGED value

Get == /\ ~ broken /\ waiting # << >>
       /\ value' = Head(waiting)
       /\ waiting' = Tail(waiting)
       /\ UNCHANGED <<taken, broken>>

GetNothing == /\ ~ broken /\ waiting = << >>
              /\ value' = 0
              /\ UNCHANGED <<waiting, taken, broken>>

Anything == broken /\ broken'

Repaired == /\ broken /\ ~ broken'
            /\ waiting' = << >> /\ value' = 0
            /\ UNCHANGED taken

Next == Put \/ PutWithoutRoom \/ Get \/ GetNothing \/ Anything \/ Repaired
Spec == Init /\ [][Next]_vars

===============================================================================
