-------------------------------- MODULE LedShell --------------------------------
(***************************************************************************)
(* Task 3 of prac 1.  The shell command led leaves what was typed in two   *)
(* globals and gives a semaphore; led_thread takes it and works on the two *)
(* LEDs.  The thread (priority 5) runs before the shell (the lowest one)   *)
(* whenever it can, and main (0) is done before either gets the processor. *)
(***************************************************************************)
EXTENDS Integers

Leds == {"led0", "led1"}
Masks == SUBSET Leds                  (* the two bits of a mask that matter  *)
Commands == {"s", "t", "other"}       (* first character of the second word  *)

VARIABLES
    led_command, bitmask,    (* the globals                                  *)
    led_sem,                 (* the semaphore, at most 1                     *)
    cmd,                     (* the command led: how far, what was typed     *)
    led_thread,              (* unborn, waiting or the LED it works on       *)
    led_state,               (* led0_state, led1_state of the thread         *)
    pin,                     (* whether the LEDs are lit                     *)
    ordered                  (* history: what the commands so far amount to  *)

globals == <<led_command, bitmask, led_sem>>
leds    == <<led_state, pin>>
ledVars == <<globals, cmd, led_thread, leds, ordered>>

LedTypeOK ==
    /\ led_command \in Commands \cup {"none"} /\ bitmask \in Masks
    /\ led_sem \in 0 .. 1
    /\ cmd \in [at: {"idle", "mask", "give"}, op: Commands, mask: Masks]
    /\ led_thread \in {"unborn", "waiting"} \cup Leds
    /\ led_state \in [Leds -> BOOLEAN] /\ pin \in [Leds -> BOOLEAN]
    /\ ordered \in [Leds -> BOOLEAN]

AllOff == [l \in Leds |-> FALSE]

LedInit == /\ led_command = "none" /\ bitmask = {} /\ led_sem = 0
           /\ cmd = [at |-> "idle", op |-> "other", mask |-> {}]
           /\ led_thread = "unborn"
           /\ led_state = AllOff /\ pin = AllOff
           /\ ordered = AllOff

(* main configures both pins as active outputs, which lights the LEDs, and *)
(* creates the thread.                                                     *)
LedMain == /\ led_thread = "unborn"
           /\ pin' = [l \in Leds |-> TRUE]
           /\ led_thread' = "waiting"
           /\ UNCHANGED <<globals, cmd, led_state, ordered>>

(* Mutant: led_thread has no higher priority than the shell.               *)
ShellRunsAnyway == led_thread # "unborn"

ShellRuns == led_thread = "waiting" /\ led_sem = 0

(* With the mask missing, strtol reads at NULL: the mask may be any.       *)
CmdLedCommand(c, m) == /\ ShellRuns /\ cmd.at = "idle"
                       /\ led_command' = c
                       /\ cmd' = [at |-> "mask", op |-> c, mask |-> m]
                       /\ UNCHANGED <<bitmask, led_sem, led_thread, leds, ordered>>

CmdLedMask == /\ ShellRuns /\ cmd.at = "mask"
              /\ bitmask' = cmd.mask
              /\ cmd' = [cmd EXCEPT !.at = "give"]
              /\ UNCHANGED <<led_command, led_sem, led_thread, leds, ordered>>

(* An invalid command is reported and then signalled like a valid one.     *)
CmdLedGive == /\ ShellRuns /\ cmd.at = "give"
              /\ led_sem' = 1
              /\ ordered' = [l \in Leds |->
                                CASE cmd.op = "s" -> l \in cmd.mask
                                  [] cmd.op = "t" -> ordered[l] # (l \in cmd.mask)
                                  [] OTHER        -> ordered[l]]
              /\ cmd' = [cmd EXCEPT !.at = "idle"]
              /\ UNCHANGED <<led_command, bitmask, led_thread, leds>>

LedTake == /\ led_thread = "waiting" /\ led_sem = 1
           /\ led_sem' = 0
           /\ led_thread' = "led0"
           /\ UNCHANGED <<led_command, bitmask, cmd, leds, ordered>>

LedNext == led_thread' = IF led_thread = "led0" THEN "led1" ELSE "waiting"

(* An LED that is on as far as the thread knows is left alone.             *)
LedSet(l) == /\ led_thread = l /\ led_command = "s"
             /\ led_state' = [led_state EXCEPT ![l] = l \in bitmask]
             /\ pin' = IF l \in bitmask /\ led_state[l] THEN pin
                       ELSE [pin EXCEPT ![l] = l \in bitmask]
             /\ LedNext
             /\ UNCHANGED <<globals, cmd, ordered>>

(* Mutant: the pin is toggled, the state of the thread is forgotten.       *)
LedToggleBlind(l) == /\ led_thread = l /\ led_command = "t"
                     /\ pin' = IF l \in bitmask THEN [pin EXCEPT ![l] = ~ @] ELSE pin
                     /\ LedNext
                     /\ UNCHANGED <<globals, cmd, led_state, ordered>>

LedToggle(l) == /\ led_thread = l /\ led_command = "t"
                /\ IF l \in bitmask
                   THEN /\ pin' = [pin EXCEPT ![l] = ~ @]
                        /\ led_state' = [led_state EXCEPT ![l] = ~ @]
                   ELSE UNCHANGED leds
                /\ LedNext
                /\ UNCHANGED <<globals, cmd, ordered>>

LedSkip(l) == /\ led_thread = l /\ led_command \notin {"s", "t"}
              /\ LedNext
              /\ UNCHANGED <<globals, cmd, leds, ordered>>

LedThread == LedTake \/ \E l \in Leds : LedSet(l) \/ LedToggle(l) \/ LedSkip(l)

LedsNext == \/ LedMain \/ CmdLedMask \/ CmdLedGive
            \/ \E c \in Commands, m \in Masks : CmdLedCommand(c, m)
            \/ LedThread

(* Each command is carried out exactly once, with the letter and the mask  *)
(* that were typed: whenever the shell prompts, the thread's view of the   *)
(* LEDs is what all commands so far amount to.                             *)
CommandsObeyed == ShellRuns /\ cmd.at = "idle" => led_state = ordered

(* Once the thread is right about an LED it stays right.                   *)
InStep(l) == led_thread # "unborn" /\ pin[l] = led_state[l]
StaysInStep == [][\A l \in Leds : InStep(l) => InStep(l)']_ledVars

(* prac1/task3/README.md: "A shell command led allows users to set or      *)
(* toggle LEDs using a bitmask."  After led s the LEDs show the mask.      *)
SetLightsLeds == ShellRuns /\ cmd.at = "idle" /\ led_command = "s"
                    => pin = [l \in Leds |-> l \in bitmask]

LedSpec == LedInit /\ [][LedsNext]_ledVars
===============================================================================
