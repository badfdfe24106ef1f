------------------------------- MODULE GasColour -------------------------------
(***************************************************************************)
(* The gas indicator (thingy52_gas_colour.c).  A control thread asks the   *)
(* sensor thread for values and polls a ring buffer until there is one,    *)
(* raises a signal with it and empties the ring; another thread waits for  *)
(* the signal and sets the colour.  A value that is raised before the set  *)
(* thread has reset the signal of the last one is lost with that reset,    *)
(* and nothing but the sleeps of the threads prevents it: time passes in   *)
(* ticks.                                                                  *)
(*                                                                         *)
(* The sensor thread is not in the repository.  It is modelled with both   *)
(* uses it may make of sensorMutex, which the control thread holds while   *)
(* it polls: to take it for a delivery, or not.                            *)
(***************************************************************************)
EXTENDS Integers, Sequences

CONSTANTS Readings,        (* the gas values that are tried                  *)
          SamplingPeriod,  (* ticks of the sleep of the control thread       *)
          SetPause,        (* ticks of the sleep of the set thread           *)
          SetWork          (* ticks in which it is done with a signal        *)

ASSUME ReadingsAssumption == Readings \subseteq Nat

(* 50 ms and the work are less than the 1000 ms of SAMPLING_PERIOD.        *)
ASSUME SetTimesAssumption ==
    /\ SamplingPeriod \in Nat /\ SetPause \in Nat /\ SetWork \in Nat
    /\ SetPause + SetWork < SamplingPeriod

RingItems == 1         (* bound on the items in the ring                    *)
TooBig == -1           (* an item that does not fit into struct SensorValues *)
Unread == -2           (* what recv holds before the first value            *)

VARIABLES
    sensorSignal,      (* whether a value is asked for                      *)
    sensorMutex,       (* who has it                                        *)
    items,             (* values in the ring buffer, oldest first           *)
    locking, producer, (* whether the sensor thread locks, and where it is  *)
    control, recv,     (* the control thread and the value it has           *)
    rest,              (* ticks until it wakes                              *)
    gasSignal,         (* the signal between the threads and its value      *)
    setter, value,     (* the setting thread and the value it has           *)
    left,              (* ticks in which it is done, or wakes               *)
    colour             (* the colour the LEDs have                          *)

sensorVars == <<sensorSignal, sensorMutex, items, locking, producer>>
setterVars == <<setter, value, left, colour>>
gasVars == <<sensorVars, control, recv, rest, gasSignal, setterVars>>

Palette == {"magenta", "blue", "green", "cyan", "white", "yellow", "red"}
GasTypeOK ==
    /\ sensorSignal \in BOOLEAN
    /\ sensorMutex \in {"free", "control", "producer"}
    /\ items \in Seq(Readings \cup {TooBig}) /\ Len(items) =< RingItems
    /\ locking \in BOOLEAN /\ producer \in {"idle", "lock", "put", "reset"}
    /\ control \in {"lock", "wait", "poll", "got", "big", "raise", "reset", "nap"}
    /\ recv \in Readings \cup {Unread} /\ value \in Readings \cup {0}
    /\ rest \in 0 .. SamplingPeriod /\ left \in Nat
    /\ gasSignal \in [raised: BOOLEAN, value: Readings \cup {0}]
    /\ setter \in {"poll", "check", "colour", "reset", "nap"}
    /\ colour \in Palette

(* All LEDs are configured as active, which is white.                      *)
GasInit == /\ sensorSignal = FALSE /\ sensorMutex = "free" /\ items = << >>
           /\ locking \in BOOLEAN /\ producer = "idle"
           /\ control = "lock" /\ recv = Unread /\ rest = 0
           /\ gasSignal = [raised |-> FALSE, value |-> 0]
           /\ setter = "poll" /\ value = 0 /\ left = SetWork /\ colour = "white"

-------------------------------------------------------------------------------
(* The sensor thread.                                                      *)

(* It is asked by the signal, or samples of its own accord.                *)
ProducerStarts ==
    /\ producer = "idle"
    /\ \/ ~ locking /\ producer' = "put" /\ UNCHANGED sensorMutex
       \/ /\ locking /\ sensorMutex = "free"
          /\ sensorMutex' = "producer" /\ producer' = "put"
       \/ /\ locking /\ sensorMutex = "control"
          /\ producer' = "lock" /\ UNCHANGED sensorMutex
    /\ UNCHANGED <<sensorSignal, items, locking, control, recv, rest, gasSignal, setterVars>>

(* A put into a full ring is dropped.                                      *)
Deliver(v) ==
    /\ producer = "put"
    /\ items' = IF Len(items) < RingItems THEN Append(items, v) ELSE items
    /\ producer' = "reset"
    /\ UNCHANGED <<sensorSignal, sensorMutex, locking, control, recv, rest, gasSignal,
                   setterVars>>

(* The request is done with; a request made since then is lost.  Unlocking *)
(* hands the mutex to the thread that waits for it.                        *)
ProducerEnds ==
    /\ producer = "reset"
    /\ sensorSignal' = FALSE
    /\ producer' = "idle"
    /\ \/ ~ locking /\ UNCHANGED <<sensorMutex, control>>
       \/ /\ locking /\ control = "wait"
          /\ sensorMutex' = "control" /\ control' = "poll"
       \/ /\ locking /\ control # "wait"
          /\ sensorMutex' = "free" /\ UNCHANGED control
    /\ UNCHANGED <<items, locking, recv, rest, gasSignal, setterVars>>

-------------------------------------------------------------------------------
(* The control thread.                                                     *)

ControlLock ==
    /\ control = "lock"
    /\ \/ sensorMutex = "free" /\ sensorMutex' = "control" /\ control' = "poll"
       \/ sensorMutex = "producer" /\ control' = "wait" /\ UNCHANGED sensorMutex
    /\ UNCHANGED <<sensorSignal, items, locking, producer, recv, rest, gasSignal, setterVars>>

(* Mutant: the raise in the loop is commented out, like that in line 71.   *)
ControlAskNot == /\ control = "poll" /\ items = << >>
                 /\ UNCHANGED gasVars

(* Nothing in the ring: ask again, every 20 ms.                            *)
ControlAsk == /\ control = "poll" /\ items = << >>
              /\ sensorSignal' = TRUE
              /\ UNCHANGED <<sensorMutex, items, locking, producer, control, recv, rest,
                             gasSignal, setterVars>>

(* -EMSGSIZE: the item stays.                                              *)
ControlTooBig == /\ control = "poll" /\ items # << >> /\ Head(items) = TooBig
                 /\ sensorSignal' = TRUE
                 /\ control' = "big"
                 /\ UNCHANGED <<sensorMutex, items, locking, producer, recv, rest,
                                gasSignal, setterVars>>

ControlGet == /\ control = "poll" /\ items # << >> /\ Head(items) # TooBig
              /\ sensorSignal' = TRUE
              /\ recv' = Head(items)
              /\ items' = Tail(items)
              /\ control' = "got"
              /\ UNCHANGED <<sensorMutex, locking, producer, rest, gasSignal, setterVars>>

(* After 20 ms more; after an item that is too big the thread starts again *)
(* without a nap.                                                          *)
ControlUnlock ==
    /\ control \in {"got", "big"}
    /\ control' = IF control = "got" THEN "raise" ELSE "lock"
    /\ \/ /\ producer = "lock"
          /\ sensorMutex' = "producer" /\ producer' = "put"
       \/ /\ producer # "lock"
          /\ sensorMutex' = "free" /\ UNCHANGED producer
    /\ UNCHANGED <<sensorSignal, items, locking, recv, rest, gasSignal, setterVars>>

ControlRaise == /\ control = "raise"
                /\ gasSignal' = [raised |-> TRUE, value |-> recv]
                /\ control' = "reset"
                /\ UNCHANGED <<sensorVars, recv, rest, setterVars>>

(* Mutant: the thread sleeps no longer than the set thread.                *)
ControlResetShort == /\ control = "reset"
                     /\ items' = << >>
                     /\ control' = "nap" /\ rest' = SetPause
                     /\ UNCHANGED <<sensorSignal, sensorMutex, locking, producer, recv,
                                    gasSignal, setterVars>>

(* The ring is emptied, without the mutex, and the sleep begins.           *)
ControlReset == /\ control = "reset"
                /\ items' = << >>
                /\ control' = "nap" /\ rest' = SamplingPeriod
                /\ UNCHANGED <<sensorSignal, sensorMutex, locking, producer, recv,
                               gasSignal, setterVars>>

ControlWakes == /\ control = "nap" /\ rest = 0
                /\ control' = "lock"
                /\ UNCHANGED <<sensorVars, recv, rest, gasSignal, setterVars>>

-------------------------------------------------------------------------------
(* The set thread.                                                         *)

SetterPoll == /\ setter = "poll" /\ gasSignal.raised
              /\ setter' = "check"
              /\ UNCHANGED <<sensorVars, control, recv, rest, gasSignal, value, left, colour>>

SetterCheck == /\ setter = "check"
               /\ value' = gasSignal.value
               /\ setter' = IF gasSignal.raised THEN "colour" ELSE "reset"
               /\ UNCHANGED <<sensorVars, control, recv, rest, gasSignal, left, colour>>

base == 250 \div 6

ColourFor(v) ==
    CASE v < base * 1 -> "magenta" [] v >= base * 1 /\ v < base * 2 -> "blue"
      [] v >= base * 2 /\ v < base * 3 -> "green"
      [] v >= base * 3 /\ v < base * 4 -> "cyan"
      [] v >= base * 4 /\ v < base * 5 -> "white"
      [] v >= base * 5 /\ v < base * 6 -> "yellow" [] OTHER -> "red"

SetterColour == /\ setter = "colour"
                /\ colour' = ColourFor(value)
                /\ setter' = "reset"
                /\ UNCHANGED <<sensorVars, control, recv, rest, gasSignal, value, left>>

SetterReset == /\ setter = "reset"
               /\ gasSignal' = [gasSignal EXCEPT !.raised = FALSE]
               /\ setter' = "nap" /\ left' = SetPause
               /\ UNCHANGED <<sensorVars, control, recv, rest, value, colour>>

SetterWakes == /\ setter = "nap" /\ left = 0
               /\ setter' = "poll" /\ left' = SetWork
               /\ UNCHANGED <<sensorVars, control, recv, rest, gasSignal, value, colour>>

(* Time passes, but not beyond the moment in which the set thread is done  *)
(* with a signal, or wakes.  The control thread may wake late.             *)
Busy == setter # "poll" \/ gasSignal.raised
GasTick == /\ Busy => left > 0
           /\ rest' = IF rest > 0 THEN rest - 1 ELSE 0
           /\ left' = IF Busy THEN left - 1 ELSE left
           /\ UNCHANGED <<sensorVars, control, recv, gasSignal, setter, value, colour>>

Control == \/ ControlLock \/ ControlAsk \/ ControlTooBig \/ ControlGet \/ ControlUnlock
           \/ ControlRaise \/ ControlReset \/ ControlWakes
Setter  == SetterPoll \/ SetterCheck \/ SetterColour \/ SetterReset \/ SetterWakes
Delivers == \E v \in Readings \cup {TooBig} : Deliver(v)
Producer == ProducerStarts \/ Delivers \/ ProducerEnds
GasNext == Control \/ Setter \/ Producer \/ GasTick
GasSpec == GasInit /\ [][GasNext]_gasVars

-------------------------------------------------------------------------------

(* When the control thread comes for the next value, the LEDs have the     *)
(* colour of the last one: no signal has been lost to the reset, and the   *)
(* seven colours follow each other from magenta to red in steps of 41.     *)
Bands == <<"magenta", "blue", "green", "cyan", "white", "yellow", "red">>
Step(v) == IF v \div 41 < 6 THEN v \div 41 + 1 ELSE 7
ShowsLatest == control = "lock" /\ recv # Unread => colour = Bands[Step(recv)]

(* New values keep coming to the LEDs, with two exceptions: an item that   *)
(* is too big to fetch stays first in the ring for ever, and a sensor      *)
(* thread that needs sensorMutex to deliver waits for the control thread,  *)
(* which keeps the mutex until there is something in the ring.             *)
Blocked == items # << >> /\ Head(items) = TooBig
Embrace == producer = "lock" /\ sensorMutex = "control" /\ items = << >>
KeepsIndicating == []<>(control = "raise") \/ <>[]Blocked \/ <>[]Embrace
===============================================================================
