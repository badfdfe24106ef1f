----------------------------- MODULE PositionQueue -----------------------------
(***************************************************************************)
(* The queue between thread_pos and thread_json of the base node, with its *)
(* start: pos_queue is a k_fifo, which links the items themselves, and     *)
(* thread_pos always puts the same item, a variable on its stack that it   *)
(* overwrites in every round.  Nothing but time keeps that correct, so     *)
(* time is in the model: timers count down in ticks (10 ms in the runs),   *)
(* and a tick passes only if no deadline would be missed.                  *)
(***************************************************************************)
EXTENDS Integers

CONSTANTS PosSleep,    (* k_msleep(100) in thread_pos                       *)
          JsonSleep,   (* k_msleep(10) in thread_json                       *)
          JsonWork,    (* longest time to encode and print one line         *)
          Lag,         (* longest time a ready thread_json is kept waiting  *)
          StartDelay   (* delay of K_THREAD_DEFINE: 50 ms                   *)

(* A line of 300 characters takes 26 ms at 115200 baud.                    *)
ASSUME TimesAssumption ==
    /\ PosSleep \in Nat /\ JsonSleep \in Nat \ {0} /\ JsonWork \in Nat
    /\ Lag \in Nat /\ StartDelay \in Nat

(* The consumer is through with an item before the producer's next round.  *)
Cycle == Lag + JsonWork + JsonSleep + Lag
ASSUME RoundAssumption == Cycle =< PosSleep

VARIABLES
    main,        (* main(): booting, done, or returned with an error        *)
    startTimer,  (* time until the two threads start                        *)
    pos,         (* thread_pos: not started, or in its sleep                *)
    posTimer,    (* rest of that sleep                                      *)
    json,        (* thread_json                                             *)
    jsonTimer,   (* time in which it leaves its present state               *)
    fifo,        (* pos_queue: zeroed memory, empty, one item, or an item   *)
                 (* linked to itself                                        *)
    faulted      (* the kernel followed a null pointer: the node stops      *)

mainVars == <<main, startTimer>>
posVars  == <<pos, posTimer>>
jsonVars == <<json, jsonTimer>>
vars == <<mainVars, posVars, jsonVars, fifo, faulted>>

TypeOK == /\ main \in {"boot", "done", "failed"}
          /\ startTimer \in 0 .. StartDelay
          /\ pos \in {"unborn", "sleep"}
          /\ posTimer \in 0 .. PosSleep
          /\ json \in {"unborn", "ready", "waiting", "got", "work", "sleep"}
          /\ jsonTimer \in Nat
          /\ fifo \in {"zeroed", "empty", "one", "loop"}
          /\ faulted \in BOOLEAN

Init == /\ main = "boot"
        /\ startTimer = StartDelay
        /\ pos = "unborn"
        /\ posTimer = 0
        /\ json = "unborn"
        /\ jsonTimer = 0
        /\ fifo = "zeroed"
        /\ faulted = FALSE

-------------------------------------------------------------------------------

(* bt_enable and bt_le_scan_start take the time they take, which may be    *)
(* more than the start delay; if one fails main returns before the inits.  *)
MainFails == /\ ~ faulted /\ main = "boot"
             /\ main' = "failed"
             /\ UNCHANGED <<startTimer, posVars, jsonVars, fifo, faulted>>

MainInit == /\ ~ faulted /\ main = "boot"
            /\ main' = "done"
            /\ fifo' = "empty"
            /\ UNCHANGED <<startTimer, posVars, jsonVars, faulted>>

(* The shell needs no Bluetooth.  An add before sys_dlist_init appends to  *)
(* a list of zeroed memory, which has no tail either.                      *)
ShellAdds == /\ ~ faulted /\ main # "done"
             /\ faulted' = TRUE
             /\ UNCHANGED <<mainVars, posVars, jsonVars, fifo>>

(* Mutant: thread_pos begins with a round and sleeps at its end.           *)
ThreadsStartAwake == /\ ~ faulted /\ pos = "unborn" /\ startTimer = 0
                     /\ pos' = "sleep"
                     /\ posTimer' = 0
                     /\ json' = "ready"
                     /\ jsonTimer' = Lag
                     /\ UNCHANGED <<mainVars, fifo, faulted>>

(* K_THREAD_DEFINE: whatever main is doing by then, thread_pos begins with *)
(* its sleep, thread_json with k_fifo_get.                                 *)
ThreadsStart == /\ ~ faulted /\ pos = "unborn" /\ startTimer = 0
                /\ pos' = "sleep"
                /\ posTimer' = PosSleep
                /\ json' = "ready"
                /\ jsonTimer' = Lag
                /\ UNCHANGED <<mainVars, fifo, faulted>>

-------------------------------------------------------------------------------

PosAwake == pos = "sleep" /\ posTimer = 0

(* thread_json has the item, or will find it in the queue, but has not yet *)
(* read it.                                                                *)
Outstanding == fifo \in {"one", "loop"} \/ json = "got"

(* Mutant: a round that puts nothing sleeps once more.                     *)
PosRoundNoPutLonger == /\ ~ faulted /\ PosAwake
                       /\ posTimer' = PosSleep + JsonSleep
                       /\ UNCHANGED <<mainVars, pos, jsonVars, fifo, faulted>>

(* A round without eight beacons, or with an estimate outside the area:    *)
(* nothing is put.                                                         *)
PosRoundNoPut == /\ ~ faulted /\ PosAwake
                 /\ posTimer' = PosSleep
                 /\ UNCHANGED <<mainVars, pos, jsonVars, fifo, faulted>>

(* Mutant: the round begins again without the sleep.                       *)
PosRoundPutNoSleep ==
    /\ ~ faulted /\ PosAwake
    /\ posTimer' = 0
    /\ \/ /\ json = "waiting"
          /\ json' = "got" /\ jsonTimer' = Lag
          /\ UNCHANGED fifo
       \/ /\ json # "waiting"
          /\ fifo' = IF fifo \in {"zeroed", "empty"} THEN "one" ELSE "loop"
          /\ UNCHANGED jsonVars
    /\ UNCHANGED <<mainVars, pos, faulted>>

(* k_fifo_put gives the item to a waiting thread, or appends it; an item   *)
(* that is already the tail is linked to itself.                           *)
PosRoundPut ==
    /\ ~ faulted /\ PosAwake
    /\ posTimer' = PosSleep
    /\ \/ /\ json = "waiting"
          /\ json' = "got" /\ jsonTimer' = Lag
          /\ UNCHANGED fifo
       \/ /\ json # "waiting"
          /\ fifo' = IF fifo \in {"zeroed", "empty"} THEN "one" ELSE "loop"
          /\ UNCHANGED jsonVars
    /\ UNCHANGED <<mainVars, pos, faulted>>

-------------------------------------------------------------------------------

(* In zeroed memory there is no item, and the wait queue that thread_json  *)
(* is to be appended to has no tail: the kernel writes through NULL.       *)
JsonGet ==
    /\ ~ faulted /\ json = "ready"
    /\ \/ fifo = "zeroed" /\ faulted' = TRUE /\ UNCHANGED <<jsonVars, fifo>>
       \/ /\ fifo = "empty"
          /\ json' = "waiting" /\ jsonTimer' = 0
          /\ UNCHANGED <<fifo, faulted>>
       \/ /\ fifo \in {"one", "loop"}
          /\ json' = "got" /\ jsonTimer' = Lag
          /\ fifo' = IF fifo = "one" THEN "empty" ELSE "loop"
          /\ UNCHANGED faulted
    /\ UNCHANGED <<mainVars, posVars>>

(* The fields of the item are read, then encoded and printed.              *)
JsonRead == /\ ~ faulted /\ json = "got"
            /\ json' = "work" /\ jsonTimer' = JsonWork
            /\ UNCHANGED <<mainVars, posVars, fifo, faulted>>

JsonPrinted == /\ ~ faulted /\ json = "work"
               /\ json' = "sleep" /\ jsonTimer' = JsonSleep
               /\ UNCHANGED <<mainVars, posVars, fifo, faulted>>

JsonWake == /\ ~ faulted /\ json = "sleep" /\ jsonTimer = 0
            /\ json' = "ready" /\ jsonTimer' = Lag
            /\ UNCHANGED <<mainVars, posVars, fifo, faulted>>

-------------------------------------------------------------------------------

Sooner(timer) == IF timer > 0 THEN timer - 1 ELSE 0

(* Time passes unless somebody has to act first.  thread_pos may be late.  *)
Tick == /\ ~ faulted
        /\ pos = "unborn" => startTimer > 0
        /\ json \in {"ready", "got", "work", "sleep"} => jsonTimer > 0
        /\ startTimer' = Sooner(startTimer)
        /\ posTimer' = Sooner(posTimer)
        /\ jsonTimer' = Sooner(jsonTimer)
        /\ UNCHANGED <<main, pos, json, fifo, faulted>>

Next == \/ MainFails \/ MainInit \/ ShellAdds \/ ThreadsStart
        \/ PosRoundNoPut \/ PosRoundPut
        \/ JsonGet \/ JsonRead \/ JsonPrinted \/ JsonWake
        \/ Tick

Spec == Init /\ [][Next]_vars

-------------------------------------------------------------------------------

(* When thread_pos can start a round, and so overwrite its one item and    *)
(* put it again, no earlier put of it is still to be read.  Otherwise      *)
(* thread_json would print a mixture of two positions, or the queue would  *)
(* be linked to itself and yield the same item for ever.                   *)
ItemIsFree == PosAwake => ~ Outstanding

(* k_fifo_init never meets a queue in use, where it would lose an item or  *)
(* leave thread_json waiting for ever, although main may come to it long   *)
(* after the start of the threads: the first to use the queue is           *)
(* thread_json, and that use, if it comes before main is done, stops the   *)
(* node.  Once main is done neither the queue nor the list of beacons, to  *)
(* which the shell adds, makes the node fault.                             *)
InitBeforeUse ==
    [][/\ main' # main => fifo = "zeroed" /\ json \in {"unborn", "ready"}
       /\ faulted' # faulted => main # "done"]_vars

===============================================================================
