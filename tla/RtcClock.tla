-------------------------------- MODULE RtcClock --------------------------------
(***************************************************************************)
(* The real-time clock of prac 2 (rtc.c) and its two users: the shell      *)
(* command rtc (lowest priority) and the JSON thread (5), which dates each *)
(* line.  Both get the date as text in one static buffer.  The JSON thread *)
(* may come between any two steps of the shell, never the other way round. *)
(*                                                                         *)
(* A moment is a pair, so that text put together from two dates shows.     *)
(* The hardware clock is external: it has no time until it is set once,    *)
(* and a read of it may fail at any time.                                  *)
(***************************************************************************)

CONSTANTS Parts,        (* values of either part of a moment                 *)
          Default       (* 2025-05-04 10:10:00                               *)

ASSUME DefaultAssumption == Default \in Parts \X Parts

Moments == Parts \X Parts
Callers == {"shell", "json"}
NoTime  == << >>

VARIABLES
    clock,           (* what the hardware clock shows                       *)
    datetime_str,    (* the static buffer                                   *)
    caller,          (* where each caller is in get_date_time, and its tm   *)
    userSet,         (* history: whether rtc w has set the clock            *)
    misread          (* history: callers on their way to the default whose  *)
                     (* read of the user's time has failed                  *)

rtcVars == <<clock, datetime_str, caller, userSet, misread>>

Stages == {"idle", "default", "again", "front", "back", "use", "1970"}
RtcTypeOK == /\ clock \in Moments \cup {NoTime}
             /\ datetime_str \in Moments
             /\ caller \in [Callers -> [at: Stages, tm: Moments]]
             /\ userSet \in BOOLEAN
             /\ misread \subseteq Callers

NoCall == [at |-> "idle", tm |-> Default]

(* The buffer holds zeros, which nobody gets to see.                       *)
RtcInit == /\ clock = NoTime
           /\ datetime_str = Default
           /\ caller = [c \in Callers |-> NoCall]
           /\ userSet = FALSE /\ misread = {}

ClockTicks == /\ clock # NoTime
              /\ clock' \in Moments
              /\ UNCHANGED <<datetime_str, caller, userSet, misread>>

CallerAt(c, place) == caller[c].at = place
CallerGoesTo(c, place) == caller' = [caller EXCEPT ![c].at = place]

(* Mutant: the shell has the priority of the JSON thread.                  *)
CallerRunsEqual(c) == TRUE

CallerRuns(c) == c = "shell" => CallerAt("json", "idle")

Got(c) == caller' = [caller EXCEPT ![c] = [at |-> "front", tm |-> clock]]

(* A clock without a time answers with an error, and so may any other.     *)
GetTime(c) == /\ CallerRuns(c) /\ CallerAt(c, "idle")
              /\ \/ clock # NoTime /\ Got(c) /\ UNCHANGED misread
                 \/ /\ CallerGoesTo(c, "default")
                    /\ misread' = IF userSet THEN misread \cup {c} ELSE misread
              /\ UNCHANGED <<clock, datetime_str, userSet>>

(* Any error is taken for a clock without a time.  Whether the clock can   *)
(* be set is not looked at.                                                *)
SetDefault(c) == /\ CallerRuns(c) /\ CallerAt(c, "default")
                 /\ clock' \in {Default, clock}
                 /\ CallerGoesTo(c, "again")
                 /\ misread' = misread \ {c}
                 /\ UNCHANGED <<datetime_str, userSet>>

GetTimeAgain(c) == /\ CallerRuns(c) /\ CallerAt(c, "again")
                   /\ \/ clock # NoTime /\ Got(c)
                      \/ CallerGoesTo(c, "1970")
                   /\ UNCHANGED <<clock, datetime_str, userSet, misread>>

(* snprintf writes the text from left to right.                            *)
FormatFront(c) == /\ CallerRuns(c) /\ CallerAt(c, "front")
                  /\ datetime_str' = <<caller[c].tm[1], datetime_str[2]>>
                  /\ CallerGoesTo(c, "back")
                  /\ UNCHANGED <<clock, userSet, misread>>

FormatBack(c) == /\ CallerRuns(c) /\ CallerAt(c, "back")
                 /\ datetime_str' = <<datetime_str[1], caller[c].tm[2]>>
                 /\ CallerGoesTo(c, "use")
                 /\ UNCHANGED <<clock, userSet, misread>>

(* The caller prints the text: its line and its tm are done with.          *)
Use(c) == /\ CallerRuns(c) /\ (CallerAt(c, "use") \/ CallerAt(c, "1970"))
          /\ caller' = [caller EXCEPT ![c] = NoCall]
          /\ UNCHANGED <<clock, datetime_str, userSet, misread>>

(* rtc w.  An error is logged and forgotten; the command returns 0.        *)
SetRtc == \/ /\ CallerRuns("shell") /\ CallerAt("shell", "idle")
             /\ clock' \in Moments /\ userSet' = TRUE
             /\ UNCHANGED <<datetime_str, caller, misread>>
          \/ /\ CallerRuns("shell") /\ CallerAt("shell", "idle")
             /\ UNCHANGED rtcVars

GetDateTime(c) == \/ GetTime(c) \/ SetDefault(c) \/ GetTimeAgain(c)
                  \/ FormatFront(c) \/ FormatBack(c) \/ Use(c)
RtcNext == ClockTicks \/ SetRtc \/ \E c \in Callers : GetDateTime(c)
RtcSpec == RtcInit /\ [][RtcNext]_rtcVars

-------------------------------------------------------------------------------

(* The date in a line of JSON is one moment, whatever the shell was doing  *)
(* with the buffer when the thread came.                                   *)
LinesWhole == CallerAt("json", "use") => datetime_str = caller["json"].tm

(* The default overwrites a time of the user only for a caller whose own   *)
(* read of a clock with that time has failed, never because the user set   *)
(* the clock between a read that found no time and its default.            *)
DefaultOnlyOnMisread ==
    [][\A c \in Callers : SetDefault(c) /\ userSet => c \in misread]_rtcVars
===============================================================================
