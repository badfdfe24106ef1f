-------------------------- MODULE PositionQueueProofs --------------------------
(***************************************************************************)
(* The single item of thread_pos is safe for all durations that satisfy    *)
(* the assumptions of PositionQueue.                                       *)
(***************************************************************************)
EXTENDS PositionQueue, TLAPS

(* Time thread_json needs at most until it asks for the next item, and for *)
(* the item that is in the queue when it does.                             *)
Rest == CASE json = "got"   -> jsonTimer + JsonWork + JsonSleep + Lag
          [] json = "work"  -> jsonTimer + JsonSleep + Lag
          [] json = "sleep" -> jsonTimer + Lag
          [] OTHER          -> jsonTimer

Backlog == Rest + (IF fifo = "one" THEN Cycle ELSE 0)

(* The heart of the argument: thread_json has caught up by the time        *)
(* thread_pos starts its next round, because both count down together.     *)
CatchesUp == pos = "sleep" => Backlog =< posTimer

JsonState == /\ json = "waiting" => jsonTimer = 0 /\ fifo = "empty"
             /\ json = "unborn" <=> pos = "unborn"
             /\ fifo # "loop"
             /\ pos = "unborn" => fifo # "one" /\ jsonTimer = 0

(* Before main has initialised the queue nobody has used it, and           *)
(* thread_json, which then stops the node, comes before thread_pos.        *)
BootState == /\ main = "done" => fifo # "zeroed"
             /\ main # "done" => /\ fifo = "zeroed"
                                 /\ json \in {"unborn", "ready"}
                                 /\ json = "ready" => jsonTimer < posTimer

IInv == TypeOK /\ CatchesUp /\ JsonState /\ BootState

USE TimesAssumption, RoundAssumption DEF Cycle

LEMMA InitIInv == Init => IInv
<1> SUFFICES ASSUME Init PROVE IInv
  OBVIOUS
<1>1. startTimer \in 0 .. StartDelay /\ posTimer \in 0 .. PosSleep /\ jsonTimer \in Nat
  <2>1. startTimer = StartDelay /\ posTimer = 0 /\ jsonTimer = 0
    BY DEF Init
  <2> QED
    BY <2>1
<1>2. TypeOK
  BY <1>1 DEF Init, TypeOK
<1>3. CatchesUp /\ JsonState
  BY DEF Init, CatchesUp, JsonState
<1>4. BootState
  BY DEF Init, BootState
<1> QED
  BY <1>2, <1>3, <1>4 DEF IInv

LEMMA StepIInv == IInv /\ [Next]_vars => IInv'
<1> SUFFICES ASSUME IInv, [Next]_vars PROVE IInv'
  OBVIOUS
<1> USE DEF IInv, TypeOK, CatchesUp, JsonState, BootState, Backlog, Rest,
            mainVars, posVars, jsonVars
<1>1. CASE MainFails
  BY <1>1 DEF MainFails
<1>2. CASE MainInit
  BY <1>2 DEF MainInit
<1>3. CASE ThreadsStart
  BY <1>3 DEF ThreadsStart
<1>4. CASE PosRoundNoPut
  BY <1>4 DEF PosRoundNoPut, PosAwake
<1>5. CASE PosRoundPut
  BY <1>5 DEF PosRoundPut, PosAwake
<1>6. CASE JsonGet
  <2>1. CASE fifo = "zeroed"
    <3>1. UNCHANGED <<mainVars, posVars, jsonVars, fifo>> /\ faulted' = TRUE
      BY <1>6, <2>1 DEF JsonGet
    <3> QED
      BY <3>1
  <2>2. CASE fifo # "zeroed"
    BY <1>6, <2>2 DEF JsonGet
  <2> QED
    BY <2>1, <2>2
<1>7. CASE JsonRead
  BY <1>7 DEF JsonRead
<1>8. CASE JsonPrinted
  BY <1>8 DEF JsonPrinted
<1>9. CASE JsonWake
  BY <1>9 DEF JsonWake
<1>10. CASE Tick
  BY <1>10 DEF Tick, Sooner
<1>12. CASE ShellAdds
  BY <1>12 DEF ShellAdds
<1>11. CASE UNCHANGED vars
  BY <1>11 DEF vars
<1> QED
  BY <1>1, <1>2, <1>3, <1>4, <1>5, <1>6, <1>7, <1>8, <1>9, <1>10, <1>11, <1>12 DEF Next

(* The types hold in every state.                                          *)
THEOREM TypeCorrect == Spec => []TypeOK
<1>1. IInv => TypeOK
  BY DEF IInv
<1> QED
  BY <1>1, InitIInv, StepIInv, PTL DEF Spec

(* thread_pos never overwrites or requeues an item that is still to be     *)
(* read, for all sleeps and latencies that satisfy RoundAssumption.        *)
THEOREM QueueCorrect == Spec => []ItemIsFree
<1>1. IInv => ItemIsFree
  BY DEF IInv, TypeOK, CatchesUp, JsonState, Backlog, Rest, ItemIsFree,
         PosAwake, Outstanding
<1> QED
  BY <1>1, InitIInv, StepIInv, PTL DEF Spec

(* However long Bluetooth takes to come up, main initialises a queue that  *)
(* nobody has used, and there is no fault after that.                      *)
THEOREM InitCorrect == Spec => InitBeforeUse
<1> DEFINE Orderly == /\ main' # main => fifo = "zeroed" /\ json \in {"unborn", "ready"}
                      /\ faulted' # faulted => main # "done"
<1>1. IInv /\ [Next]_vars => [Orderly]_vars
  <2> SUFFICES ASSUME IInv, [Next]_vars PROVE Orderly \/ UNCHANGED vars
    OBVIOUS
  <2> USE DEF IInv, BootState
  <2>1. CASE MainFails \/ MainInit
    BY <2>1 DEF MainFails, MainInit
  <2>2. CASE ShellAdds
    BY <2>2 DEF ShellAdds, mainVars
  <2>3. CASE JsonGet
    BY <2>3 DEF JsonGet, mainVars
  <2>4. CASE ThreadsStart \/ PosRoundNoPut \/ PosRoundPut
    BY <2>4 DEF ThreadsStart, PosRoundNoPut, PosRoundPut, mainVars
  <2>5. CASE JsonRead \/ JsonPrinted \/ JsonWake
    BY <2>5 DEF JsonRead, JsonPrinted, JsonWake, mainVars
  <2>6. CASE Tick
    BY <2>6 DEF Tick
  <2> QED
    BY <2>1, <2>2, <2>3, <2>4, <2>5, <2>6 DEF Next
<1> QED
  BY <1>1, InitIInv, StepIInv, PTL DEF Spec, InitBeforeUse

===============================================================================
