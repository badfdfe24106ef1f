------------------------------- MODULE RngDisplay -------------------------------
(***************************************************************************)
(* Task 1 of prac 1.  A thread draws a random number every two seconds and *)
(* raises a signal; another one waits for the signal, looks whether it is  *)
(* raised, prints the number and resets the signal.  A raise between the   *)
(* look and the reset leaves no trace, and nothing but time prevents it.   *)
(*                                                                         *)
(* Numbers are told apart by the order in which they are drawn, modulo     *)
(* Numbers.  Time passes in ticks.                                         *)
(***************************************************************************)
EXTENDS Integers

CONSTANTS Period,    (* ticks of the sleep of the drawing thread            *)
          Work       (* ticks in which the display is done with a number    *)

(* Printing is done before the next number is drawn.                      *)
ASSUME NapAssumption == Period \in Nat /\ Work \in Nat /\ Work < Period

Numbers == 4

VARIABLES
    sig,          (* the signal: raw before k_poll_signal_init              *)
    random_num,   (* the number, counted                                    *)
    nap,          (* ticks until the drawing thread wakes                   *)
    display,      (* where the display is                                   *)
    late,         (* ticks since the display was due                        *)
    shown         (* the last number printed, counted                       *)

rngVars == <<sig, random_num, nap, display, late, shown>>

RngTypeOK == /\ sig \in {"raw", "clear", "raised"}
             /\ random_num \in 0 .. Numbers - 1 /\ shown \in 0 .. Numbers - 1
             /\ nap \in 0 .. Period
             /\ display \in {"poll", "check", "print", "reset"}
             /\ late \in 0 .. Work

RngInit == /\ sig = "raw" /\ random_num = 0 /\ nap = 0
           /\ display = "poll" /\ late = 0 /\ shown = 0

Successor(n) == (n + 1) % Numbers

(* main initialises the signal.  Its priority (0) keeps the two threads,   *)
(* which the kernel starts before main is called, off the processor.       *)
RngMain == /\ sig = "raw"
           /\ sig' = "clear"
           /\ UNCHANGED <<random_num, nap, display, late, shown>>

Started == sig # "raw"

(* Mutant: the thread naps half as long as the display may need.           *)
GenerateHasty == /\ Started /\ nap = 0
                 /\ random_num' = Successor(random_num)
                 /\ sig' = "raised"
                 /\ nap' = Work \div 2
                 /\ UNCHANGED <<display, late, shown>>

(* The drawing thread (priority 4) is not preempted by the display (5).    *)
Generate == /\ Started /\ nap = 0
            /\ random_num' = Successor(random_num)
            /\ sig' = "raised"
            /\ nap' = Period
            /\ UNCHANGED <<display, late, shown>>

DisplayPoll == /\ Started /\ nap > 0
               /\ display = "poll" /\ sig = "raised"
               /\ display' = "check"
               /\ UNCHANGED <<sig, random_num, nap, late, shown>>

DisplayCheck == /\ display = "check" /\ nap > 0
                /\ display' = IF sig = "raised" THEN "print" ELSE "poll"
                /\ UNCHANGED <<sig, random_num, nap, late, shown>>

DisplayPrint == /\ display = "print" /\ nap > 0
                /\ shown' = random_num
                /\ display' = "reset"
                /\ UNCHANGED <<sig, random_num, nap, late>>

DisplayReset == /\ display = "reset" /\ nap > 0
                /\ sig' = "clear"
                /\ display' = "poll" /\ late' = 0
                /\ UNCHANGED <<random_num, nap, shown>>

Due == display # "poll" \/ sig = "raised"

RngTick == /\ nap > 0
           /\ Due => late < Work
           /\ nap' = nap - 1
           /\ late' = IF Due THEN late + 1 ELSE 0
           /\ UNCHANGED <<sig, random_num, display, shown>>

Display == DisplayPoll \/ DisplayCheck \/ DisplayPrint \/ DisplayReset
RngNext == RngMain \/ Generate \/ Display \/ RngTick

RngSpec == RngInit /\ [][RngNext]_rngVars

(* Every number is printed before the next one is drawn, none is skipped   *)
(* and none is printed twice.                                              *)
EachNumberOnce ==
    [][/\ Generate => shown = random_num
       /\ DisplayPrint => shown' = Successor(shown)]_rngVars
===============================================================================
