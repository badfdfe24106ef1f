------------------------------ MODULE ProgramProofs ------------------------------
(***************************************************************************)
(* Proofs about the small programs: the clock, for any set of moments, the *)
(* LED commands, the start of the Wi-Fi, the distance of the ultrasonic    *)
(* node, for any places, the random number display, for any sleep longer   *)
(* than the work, the gas colours, for any readings, the chainable LED     *)
(* bit by bit, and all programs as the one specification that is run.      *)
(***************************************************************************)
EXTENDS Programs, ByteRingProofs, SamplingControlProofs

(* What is true of a program that is in the middle of getting a date: the  *)
(* JSON thread finds the front of the buffer as it left it, and a thread   *)
(* on its way to the default has misread the clock if the user has set it. *)
FrontIsMine == CallerAt("json", "back") => datetime_str[1] = caller["json"].tm[1]
NotSetYet   == /\ clock = NoTime => ~ userSet
               /\ \A c \in Callers : CallerAt(c, "default") /\ userSet => c \in misread
RtcInv == RtcTypeOK /\ FrontIsMine /\ LinesWhole /\ NotSetYet

LEMMA RtcTypeInit == RtcInit => RtcTypeOK
<1> SUFFICES ASSUME RtcInit PROVE RtcTypeOK
  OBVIOUS
<1>1. Default \in Moments
  BY DefaultAssumption DEF Moments
<1>2. caller \in [Callers -> [at: Stages, tm: Moments]]
  BY <1>1 DEF RtcInit, Stages, NoCall
<1> QED
  BY <1>1, <1>2 DEF RtcInit, RtcTypeOK

LEMMA RtcTypeStep == RtcTypeOK /\ [RtcNext]_rtcVars => RtcTypeOK'
<1> SUFFICES ASSUME RtcTypeOK, [RtcNext]_rtcVars PROVE RtcTypeOK'
  OBVIOUS
<1> USE DEF RtcTypeOK
<1>1. CASE ClockTicks
  BY <1>1 DEF ClockTicks
<1>2. CASE SetRtc
  BY <1>2 DEF SetRtc, rtcVars
<1>3. ASSUME NEW c \in Callers, GetDateTime(c) PROVE RtcTypeOK'
  <2> USE DEF CallerGoesTo, Got, Stages
  <2>1. CASE GetTime(c)
    BY <2>1 DEF GetTime
  <2>2. CASE SetDefault(c)
    BY <2>2, DefaultAssumption DEF SetDefault, Moments
  <2>3. CASE GetTimeAgain(c)
    BY <2>3 DEF GetTimeAgain
  <2>4. CASE FormatFront(c)
    BY <2>4 DEF FormatFront, Moments
  <2>5. CASE FormatBack(c)
    BY <2>5 DEF FormatBack, Moments
  <2>6. CASE Use(c)
    BY <2>6, DefaultAssumption DEF Use, NoCall, Moments
  <2> QED BY <1>3, <2>1, <2>2, <2>3, <2>4, <2>5, <2>6 DEF GetDateTime
<1>4. CASE UNCHANGED rtcVars
  BY <1>4 DEF rtcVars
<1> QED BY <1>1, <1>2, <1>3, <1>4 DEF RtcNext

(* The clock, the buffer and its two callers keep their types.             *)
THEOREM RtcTypeCorrect == RtcSpec => []RtcTypeOK
  BY RtcTypeInit, RtcTypeStep, PTL DEF RtcSpec

-------------------------------------------------------------------------------

LEMMA BufferStep ==
    RtcInv /\ [RtcNext]_rtcVars => FrontIsMine' /\ LinesWhole'
<1> SUFFICES ASSUME RtcInv, [RtcNext]_rtcVars PROVE FrontIsMine' /\ LinesWhole'
  OBVIOUS
<1> "json" \in Callers /\ "shell" \in Callers
  BY DEF Callers
<1> USE DEF RtcInv, FrontIsMine, LinesWhole, CallerAt
<1>1. CASE UNCHANGED <<datetime_str, caller>>
  BY <1>1
<1>2. ASSUME NEW c \in Callers, GetDateTime(c) PROVE FrontIsMine' /\ LinesWhole'
  <2> USE DEF CallerGoesTo, Got, RtcTypeOK
  <2>1. CASE c = "shell"
    <3>1. caller["json"].at = "idle" /\ caller'["json"] = caller["json"]
      BY <1>2, <2>1 DEF GetDateTime, GetTime, SetDefault, GetTimeAgain, FormatFront,
         FormatBack, Use, CallerRuns
    <3> QED BY <3>1
  <2>2. CASE c = "json"
    <3>1. CASE GetTime(c)
      BY <2>2, <3>1 DEF GetTime
    <3>2. CASE SetDefault(c)
      BY <2>2, <3>2 DEF SetDefault
    <3>3. CASE GetTimeAgain(c)
      BY <2>2, <3>3 DEF GetTimeAgain
    <3>4. CASE FormatFront(c)
      BY <2>2, <3>4 DEF FormatFront, Moments
    <3>5. CASE FormatBack(c)
      BY <2>2, <3>5 DEF FormatBack, Moments
    <3>6. CASE Use(c)
      BY <2>2, <3>6 DEF Use, NoCall
    <3> QED BY <1>2, <3>1, <3>2, <3>3, <3>4, <3>5, <3>6 DEF GetDateTime
  <2> QED BY <2>1, <2>2 DEF Callers
<1>3. CASE ClockTicks \/ SetRtc \/ UNCHANGED rtcVars
  BY <1>1, <1>3 DEF ClockTicks, SetRtc, rtcVars
<1> QED BY <1>2, <1>3 DEF RtcNext

LEMMA NotSetStep == RtcInv /\ [RtcNext]_rtcVars => NotSetYet'
<1> SUFFICES ASSUME RtcInv, [RtcNext]_rtcVars PROVE NotSetYet'
  OBVIOUS
<1> "json" \in Callers /\ "shell" \in Callers
  BY DEF Callers
<1> NoTime \notin Moments
  BY DEF NoTime, Moments
<1> USE DEF RtcInv, NotSetYet, CallerAt
<1>1. CASE ClockTicks
  BY <1>1 DEF ClockTicks
<1>2. CASE SetRtc
  BY <1>2 DEF SetRtc, CallerRuns, rtcVars, Callers
<1>3. ASSUME NEW c \in Callers, GetDateTime(c) PROVE NotSetYet'
  <2> USE DEF CallerGoesTo, Got, RtcTypeOK
  <2>1. CASE GetTime(c)
    <3>1. clock' = clock /\ userSet' = userSet
      BY <2>1 DEF GetTime
    <3>2. caller'[c].at = "default" /\ userSet => c \in misread'
      BY <2>1 DEF GetTime
    <3>3. misread \subseteq misread'
      BY <2>1 DEF GetTime
    <3>4. \A d \in Callers \ {c} : caller'[d] = caller[d]
      BY <2>1 DEF GetTime
    <3> QED BY <3>1, <3>2, <3>3, <3>4
  <2>2. CASE SetDefault(c)
    <3>1. clock' \in {Default, clock} /\ userSet' = userSet /\ misread' = misread \ {c}
      BY <2>2 DEF SetDefault
    <3>2. caller'[c].at = "again"
      BY <2>2 DEF SetDefault
    <3>3. \A d \in Callers \ {c} : caller'[d] = caller[d]
      BY <2>2 DEF SetDefault
    <3>4. Default # NoTime
      BY DefaultAssumption DEF Moments
    <3> QED BY <3>1, <3>2, <3>3, <3>4
  <2>3. CASE GetTimeAgain(c)
    BY <2>3 DEF GetTimeAgain
  <2>4. CASE FormatFront(c) \/ FormatBack(c) \/ Use(c)
    BY <2>4 DEF FormatFront, FormatBack, Use, NoCall
  <2> QED BY <1>3, <2>1, <2>2, <2>3, <2>4 DEF GetDateTime
<1>4. CASE UNCHANGED rtcVars
  BY <1>4 DEF rtcVars
<1> QED BY <1>1, <1>2, <1>3, <1>4 DEF RtcNext

LEMMA RtcAlways == RtcSpec => []RtcInv
<1>1. RtcInit => RtcInv
  BY RtcTypeInit DEF RtcInit, RtcInv, FrontIsMine, LinesWhole, NotSetYet, CallerAt, Callers, NoCall
<1>2. RtcInv /\ [RtcNext]_rtcVars => RtcInv'
  BY RtcTypeStep, BufferStep, NotSetStep DEF RtcInv
<1> QED BY <1>1, <1>2, PTL DEF RtcSpec

(* The shell may be anywhere in get_date_time when the JSON thread comes:  *)
(* the date in its line is one moment.                                     *)
THEOREM LinesCorrect == RtcSpec => []LinesWhole
<1>1. RtcInv => LinesWhole
  BY DEF RtcInv
<1> QED BY <1>1, RtcAlways, PTL

(* Only a failed read of the user's time makes a caller replace it.        *)
THEOREM MisreadCorrect == RtcSpec => DefaultOnlyOnMisread
<1>1. RtcInv => (\A c \in Callers : SetDefault(c) /\ userSet => c \in misread)
  BY DEF RtcInv, NotSetYet, SetDefault
<1> QED BY <1>1, RtcAlways, PTL DEF DefaultOnlyOnMisread

-------------------------------------------------------------------------------
(* The LED commands.                                                       *)

(* What the command in the globals makes of an LED.                        *)
Result(l) == CASE led_command = "s" -> l \in bitmask
               [] led_command = "t" -> led_state[l] # (l \in bitmask)
               [] OTHER             -> led_state[l]

(* How far the command that was typed has come, on the shell's side and on *)
(* the thread's.                                                           *)
Typed  == /\ cmd.at # "idle" => /\ led_thread = "waiting" /\ led_sem = 0
                                /\ led_command = cmd.op
          /\ cmd.at = "give" => bitmask = cmd.mask
Worked == /\ led_thread \in Leds => led_sem = 0
          /\ led_thread = "unborn" => led_sem = 0 /\ cmd.at = "idle"
Done(l) == led_sem = 0 /\ ~ (led_thread = l \/ led_thread = "led0")
LedInv == /\ LedTypeOK /\ Typed /\ Worked
          /\ \A l \in Leds : ordered[l] = IF Done(l) THEN led_state[l] ELSE Result(l)

LEMMA LedTypeInit == LedInit => LedTypeOK
  BY DEF LedInit, LedTypeOK, AllOff, Leds, Masks, Commands

LEMMA LedTypeStep == LedTypeOK /\ [LedsNext]_ledVars => LedTypeOK'
<1> SUFFICES ASSUME LedTypeOK, [LedsNext]_ledVars PROVE LedTypeOK'
  OBVIOUS
<1> USE DEF LedTypeOK, globals, leds, Commands
<1>1. CASE LedMain
  BY <1>1 DEF LedMain
<1>2. CASE CmdLedMask
  BY <1>2 DEF CmdLedMask
<1>3. CASE CmdLedGive
  <2> DEFINE after(l) == CASE cmd.op = "s" -> l \in cmd.mask
                           [] cmd.op = "t" -> ordered[l] # (l \in cmd.mask)
                           [] OTHER        -> ordered[l]
  <2>1. ASSUME NEW l \in Leds PROVE after(l) \in BOOLEAN
    <3>1. CASE cmd.op = "s"
      BY <3>1
    <3>2. CASE cmd.op = "t"
      BY <3>2
    <3>3. CASE cmd.op = "other"
      BY <3>3
    <3> QED BY <3>1, <3>2, <3>3
  <2>2. ordered' = [l \in Leds |-> after(l)]
    BY <1>3 DEF CmdLedGive
  <2> HIDE DEF after
  <2>3. ordered' \in [Leds -> BOOLEAN]
    BY <2>1, <2>2
  <2> QED BY <1>3, <2>3 DEF CmdLedGive
<1>4. ASSUME NEW c \in Commands, NEW m \in Masks, CmdLedCommand(c, m) PROVE LedTypeOK'
  BY <1>4 DEF CmdLedCommand
<1>5. CASE LedTake
  BY <1>5 DEF LedTake, Leds
<1>6. ASSUME NEW l \in Leds, LedSet(l) \/ LedToggle(l) \/ LedSkip(l) PROVE LedTypeOK'
  <2>1. led_thread' \in {"unborn", "waiting"} \cup Leds /\ UNCHANGED <<globals, cmd, ordered>>
    BY <1>6 DEF LedSet, LedToggle, LedSkip, LedNext, Leds
  <2>2. CASE LedSet(l)
    BY <2>1, <2>2 DEF LedSet
  <2>3. CASE LedToggle(l)
    BY <2>1, <2>3 DEF LedToggle
  <2>4. CASE LedSkip(l)
    BY <2>1, <2>4 DEF LedSkip
  <2> QED BY <1>6, <2>2, <2>3, <2>4
<1>7. CASE UNCHANGED ledVars
  BY <1>7 DEF ledVars
<1> QED BY <1>1, <1>2, <1>3, <1>4, <1>5, <1>6, <1>7 DEF LedsNext, LedThread

LEMMA LedStep == LedInv /\ [LedsNext]_ledVars => LedInv'
<1> SUFFICES ASSUME LedInv, [LedsNext]_ledVars PROVE LedInv'
  OBVIOUS
<1> LedTypeOK'
  BY LedTypeStep DEF LedInv
<1> USE DEF LedInv, LedTypeOK, Typed, Worked, Done, Result, globals, leds, Leds, ShellRuns
<1>1. CASE LedMain
  BY <1>1 DEF LedMain
<1>2. CASE CmdLedMask
  BY <1>2 DEF CmdLedMask
<1>3. CASE CmdLedGive
  BY <1>3 DEF CmdLedGive
<1>4. ASSUME NEW c \in Commands, NEW m \in Masks, CmdLedCommand(c, m) PROVE LedInv'
  BY <1>4 DEF CmdLedCommand
<1>5. CASE LedTake
  BY <1>5 DEF LedTake
<1>6. ASSUME NEW l \in Leds, LedSet(l) PROVE LedInv'
  BY <1>6 DEF LedSet, LedNext
<1>7. ASSUME NEW l \in Leds, LedToggle(l) PROVE LedInv'
  BY <1>7 DEF LedToggle, LedNext
<1>8. ASSUME NEW l \in Leds, LedSkip(l) PROVE LedInv'
  BY <1>8 DEF LedSkip, LedNext
<1>9. CASE UNCHANGED ledVars
  BY <1>9 DEF ledVars
<1> QED BY <1>1, <1>2, <1>3, <1>4, <1>5, <1>6, <1>7, <1>8, <1>9 DEF LedsNext, LedThread

LEMMA LedAlways == LedSpec => []LedInv
<1>1. LedInit => LedInv
  BY LedTypeInit DEF LedInit, LedInv, Typed, Worked, Done, Result, AllOff, Leds
<1> QED BY <1>1, LedStep, PTL DEF LedSpec

(* Each led command is carried out once, with what was typed.              *)
THEOREM CommandsCorrect == LedSpec => []CommandsObeyed
<1>1. LedInv => CommandsObeyed
  BY DEF LedInv, LedTypeOK, Done, CommandsObeyed, ShellRuns, Leds
<1> QED BY <1>1, LedAlways, PTL

(* The globals of the led command and the thread keep their types.         *)
THEOREM LedTypeCorrect == LedSpec => []LedTypeOK
<1>1. LedInv => LedTypeOK
  BY DEF LedInv
<1> QED BY <1>1, LedAlways, PTL

(* The thread does not lose sight of an LED.                               *)
THEOREM InStepCorrect == LedSpec => StaysInStep
<1>1. LedInv /\ [LedsNext]_ledVars => [\A l \in Leds : InStep(l) => InStep(l)']_ledVars
  <2> SUFFICES ASSUME LedInv, LedsNext, NEW l \in Leds, InStep(l) PROVE InStep(l)'
    OBVIOUS
  <2> USE DEF LedInv, LedTypeOK, InStep, globals, leds
  <2>1. ASSUME NEW k \in Leds, LedSet(k) \/ LedToggle(k) \/ LedSkip(k) PROVE InStep(l)'
    BY <2>1 DEF LedSet, LedToggle, LedSkip, LedNext, Leds
  <2>2. CASE LedMain \/ CmdLedMask \/ CmdLedGive \/ LedTake
    BY <2>2 DEF LedMain, CmdLedMask, CmdLedGive, LedTake
  <2>3. ASSUME NEW c \in Commands, NEW m \in Masks, CmdLedCommand(c, m) PROVE InStep(l)'
    BY <2>3 DEF CmdLedCommand
  <2> QED BY <2>1, <2>2, <2>3 DEF LedsNext, LedThread
<1> QED BY <1>1, LedAlways, PTL DEF LedSpec, StaysInStep

-------------------------------------------------------------------------------
(* The start of the Wi-Fi.                                                 *)

(* The semaphore is up only while the connection is there as far as known. *)
SemaphoreTells == wifi_connected \in 0 .. 1 /\ (wifi_connected = 1 => informed)

LEMMA WifiStep == SemaphoreTells /\ [WifiNext]_wifiVars => SemaphoreTells'
<1> SUFFICES ASSUME SemaphoreTells, [WifiNext]_wifiVars PROVE SemaphoreTells'
  OBVIOUS
<1> USE DEF SemaphoreTells, sems
<1>1. CASE HandleConnectResult \/ HandleDisconnectResult
  BY <1>1 DEF HandleConnectResult, HandleDisconnectResult
<1>2. CASE TakeConnected
  BY <1>2 DEF TakeConnected
<1>3. CASE ~ (HandleConnectResult \/ HandleDisconnectResult \/ TakeConnected)
  <2>1. UNCHANGED <<wifi_connected, informed>>
    BY <1>3 DEF WifiNext, MainSteps, Handler, WifiConnect, WifiStatus, TakeAddress,
       HandleIpv4Result, LinkUp, LinkRefused, LinkLost, LinkKept, Assign, wifiVars
  <2> QED BY <2>1
<1> QED BY <1>1, <1>2, <1>3

LEMMA WifiTypeStep == WifiTypeOK /\ [WifiNext]_wifiVars => WifiTypeOK'
<1> SUFFICES ASSUME WifiTypeOK, [WifiNext]_wifiVars PROVE WifiTypeOK'
  OBVIOUS
<1> USE DEF WifiTypeOK, network, sems
<1>1. ASSUME NEW event \in WifiEvents, Happens(event)
      PROVE  events' \in Seq(WifiEvents) /\ Len(events') =< MaxEvents
  BY <1>1 DEF Happens, MaxEvents
<1>2. ASSUME NEW event, Handle(event)
      PROVE  events' \in Seq(WifiEvents) /\ Len(events') =< MaxEvents
  <2>1. events' \in Seq(WifiEvents) /\ Len(events') = Len(events) - 1
    BY <1>2, HeadTailProperties DEF Handle
  <2> QED BY <2>1 DEF MaxEvents
<1>3. CASE MainSteps
  BY <1>3 DEF MainSteps, WifiConnect, TakeConnected, WifiStatus, TakeAddress
<1>4. CASE LinkUp \/ LinkRefused \/ LinkLost \/ LinkKept \/ Assign
  <2>1. events' \in Seq(WifiEvents) /\ Len(events') =< MaxEvents
    BY <1>1, <1>4 DEF LinkUp, LinkRefused, LinkLost, LinkKept, Assign, WifiEvents
  <2> QED BY <1>4, <2>1 DEF LinkUp, LinkRefused, LinkLost, LinkKept, Assign
<1>5. CASE Handler
  <2>1. events' \in Seq(WifiEvents) /\ Len(events') =< MaxEvents
    BY <1>2, <1>5 DEF Handler, HandleConnectResult, HandleDisconnectResult,
       HandleIpv4Result
  <2>2. /\ UNCHANGED <<wifi_main, network>>
        /\ informed' \in {informed, TRUE, FALSE}
        /\ wifi_connected' \in {wifi_connected, 0, 1}
        /\ ipv4_address_obtained' \in {ipv4_address_obtained, 1}
    BY <1>5 DEF Handler, HandleConnectResult, HandleDisconnectResult, HandleIpv4Result
  <2>3. wifi_connected' \in 0 .. 1 /\ ipv4_address_obtained' \in 0 .. 1
    BY <2>2
  <2>4. informed' \in BOOLEAN
    BY <2>2, Zenon
  <2>5. wifi_main' = wifi_main /\ link' = link /\ address' = address
    BY <2>2
  <2> QED BY <2>1, <2>3, <2>4, <2>5
<1>6. CASE UNCHANGED wifiVars
  BY <1>6 DEF wifiVars
<1> QED BY <1>3, <1>4, <1>5, <1>6 DEF WifiNext

(* The semaphores and the events of the Wi-Fi start keep their types, for  *)
(* any number of pending events.                                           *)
THEOREM WifiTypeCorrect == WifiSpec => []WifiTypeOK
<1>1. << >> \in Seq(WifiEvents) /\ Len(<< >>) =< MaxEvents
  BY DEF MaxEvents
<1>2. ASSUME WifiInit PROVE WifiTypeOK
  <2>1. events = << >>
    BY <1>2 DEF WifiInit
  <2>2. events \in Seq(WifiEvents) /\ Len(events) =< MaxEvents
    BY <1>1, <2>1, Zenon
  <2>3. address \in BOOLEAN /\ informed \in BOOLEAN
    BY <1>2, Zenon DEF WifiInit
  <2>4. wifi_connected \in 0 .. 1 /\ ipv4_address_obtained \in 0 .. 1
    BY <1>2 DEF WifiInit
  <2> QED BY <1>2, <2>2, <2>3, <2>4, Zenon DEF WifiInit, WifiTypeOK
<1> QED BY <1>2, WifiTypeStep, PTL DEF WifiSpec

(* main never goes on with a connection that it could know to be lost.     *)
THEOREM ConnectsCorrect == WifiSpec => ConnectsWhenInformed
<1>1. WifiInit => SemaphoreTells
  BY DEF WifiInit, SemaphoreTells
<1>2. SemaphoreTells => (TakeConnected => informed)
  BY DEF SemaphoreTells, TakeConnected
<1> QED BY <1>1, <1>2, WifiStep, PTL DEF WifiSpec, ConnectsWhenInformed

-------------------------------------------------------------------------------
(* The ultrasonic node.                                                    *)

(* Everything that is sent fits into the signed byte it is read as.        *)
Sendable == measured \cup {Nobody, 0}
UltraInv == /\ person \in Places
            /\ measured \subseteq -1 .. 59
            /\ sample \in Sendable /\ onAir \in Sendable \cup {-2}
            /\ DistWasMeasured

LEMMA Int8Keeps == ASSUME NEW n \in -1 .. 59 PROVE Int8(n) = n
  BY DEF Int8

LEMMA SampleInReach ==
    ASSUME NEW place \in Nat \X Nat PROVE ProcessSample(place) \in -1 .. 59
<1>1. place[1] \in Nat /\ place[2] \in Nat
  OBVIOUS
<1>2. ASSUME NEW m \in Nat, NEW n \in Nat PROVE m * 100 + n \div 10000 \in Nat
  BY <1>2
<1>3. ASSUME NEW d \in Nat PROVE (IF d < 60 THEN d ELSE -1) \in -1 .. 59
  BY <1>3
<1> QED BY <1>1, <1>2, <1>3 DEF ProcessSample

LEMMA UltraStep ==
    UltraInv /\ [UltraNext]_ultraVars => UltraInv'
<1> SUFFICES ASSUME UltraInv, [UltraNext]_ultraVars PROVE UltraInv'
  OBVIOUS
<1> Places \subseteq Nat \X Nat
  BY PlacesAssumption
<1> USE DEF UltraInv, Sendable, DistWasMeasured, Nobody
<1>1. CASE Walk
  BY <1>1 DEF Walk
<1>2. CASE UltraAdvStart
  BY <1>2 DEF UltraAdvStart
<1>3. CASE UltraUpdate \/ UltraUpdateFails
  <2>1. \/ sample' \in -1 .. 59 /\ measured' = measured \cup {sample'}
        \/ sample' = -1 /\ measured' = measured
    BY <1>3, SampleInReach DEF UltraUpdate, UltraUpdateFails, Measured, NotMeasured
  <2> QED BY <1>3, <2>1 DEF UltraUpdate, UltraUpdateFails
<1>4. CASE UltraFound
  <2>1. onAir \in -1 .. 59 /\ dist' = onAir
    BY <1>4, Int8Keeps DEF UltraFound
  <2> QED BY <1>4, <2>1 DEF UltraFound
<1>5. CASE UNCHANGED ultraVars
  BY <1>5 DEF ultraVars
<1> QED BY <1>1, <1>2, <1>3, <1>4, <1>5 DEF UltraNext, UltraNode

LEMMA UltraInitInv == UltraInit => UltraInv
  BY DEF UltraInit, UltraInv, Sendable, DistWasMeasured, Nobody

(* The distance keeps its type through payload, byte and cast.             *)
THEOREM UltraTypeCorrect == UltraSpec => []UltraTypeOK
<1>1. UltraInv => UltraTypeOK
  BY DEF UltraInv, UltraTypeOK, Sendable, DistWasMeasured, Nobody
<1> QED BY <1>1, UltraInitInv, UltraStep, PTL DEF UltraSpec

(* Wherever people stand, the base node works with distances that were     *)
(* measured and with the two values that stand for none.                   *)
THEOREM DistCorrect == UltraSpec => []DistWasMeasured
<1>1. UltraInv => DistWasMeasured
  BY DEF UltraInv
<1> QED BY <1>1, UltraInitInv, UltraStep, PTL DEF UltraSpec

-------------------------------------------------------------------------------
(* The random number display.                                              *)

(* With something to do the display has been late for as long as the other *)
(* thread has slept, so it is done before that one wakes.                  *)
RngInv ==
    /\ RngTypeOK
    /\ sig = "raw" => display = "poll" /\ nap = 0
    /\ ~ Due => shown = random_num /\ late = 0
    /\ Due => /\ sig = "raised" /\ nap + late = Period
              /\ random_num = IF display = "reset" THEN shown ELSE Successor(shown)

LEMMA SuccessorType == ASSUME NEW n \in 0 .. Numbers - 1
                       PROVE  Successor(n) \in 0 .. Numbers - 1
  BY DEF Successor, Numbers

LEMMA RngStep ==
    RngInv /\ [RngNext]_rngVars => RngInv'
<1> SUFFICES ASSUME RngInv, [RngNext]_rngVars PROVE RngInv'
  OBVIOUS
<1> Period \in Nat /\ Work \in Nat /\ Work < Period
  BY NapAssumption
<1> USE DEF RngInv, RngTypeOK, Due
<1>1. CASE RngMain
  BY <1>1 DEF RngMain
<1>2. CASE Generate
  <2>1. ~ Due
    BY <1>2 DEF Generate
  <2>2. random_num' = Successor(shown) /\ sig' = "raised" /\ nap' = Period /\ late = 0
    BY <1>2, <2>1 DEF Generate
  <2> QED BY <1>2, <2>1, <2>2, SuccessorType DEF Generate
<1>3. CASE DisplayPoll
  BY <1>3 DEF DisplayPoll, Started
<1>4. CASE DisplayCheck
  BY <1>4 DEF DisplayCheck
<1>5. CASE DisplayPrint
  BY <1>5 DEF DisplayPrint
<1>6. CASE DisplayReset
  BY <1>6 DEF DisplayReset
<1>7. CASE RngTick
  BY <1>7 DEF RngTick
<1>8. CASE UNCHANGED rngVars
  BY <1>8 DEF rngVars
<1> QED BY <1>1, <1>2, <1>3, <1>4, <1>5, <1>6, <1>7, <1>8 DEF RngNext, Display

LEMMA RngAlways == RngSpec => []RngInv
<1>1. RngInit => RngInv
  BY NapAssumption DEF RngInit, RngInv, RngTypeOK, Due, Numbers
<1> QED BY <1>1, RngStep, PTL DEF RngSpec

(* The number, the signal and the timers keep their types.                 *)
THEOREM RngTypeCorrect == RngSpec => []RngTypeOK
<1>1. RngInv => RngTypeOK
  BY DEF RngInv
<1> QED BY <1>1, RngAlways, PTL

(* If printing takes less than the sleep, each number is printed once.     *)
THEOREM NumbersCorrect == RngSpec => EachNumberOnce
<1>1. RngInv => /\ Generate => shown = random_num
                /\ DisplayPrint => shown' = Successor(shown)
  <2> SUFFICES ASSUME RngInv
               PROVE  /\ Generate => shown = random_num
                      /\ DisplayPrint => shown' = Successor(shown)
    OBVIOUS
  <2>1. Generate => shown = random_num
    BY NapAssumption DEF RngInv, RngTypeOK, Due, Generate
  <2>2. DisplayPrint => shown' = Successor(shown)
    BY DEF RngInv, RngTypeOK, Due, DisplayPrint
  <2> QED BY <2>1, <2>2
<1> QED BY <1>1, RngAlways, PTL DEF RngSpec, EachNumberOnce

-------------------------------------------------------------------------------
(* The gas indicator.                                                      *)

(* The set thread is done with the last value when the control thread      *)
(* fetches the next; a value that is raised is the last one until its      *)
(* colour is set; and while it is being set, the control thread sleeps     *)
(* longer than that takes.                                                 *)
AtRest  == ~ gasSignal.raised /\ setter \in {"poll", "nap"}
Shown   == recv # Unread => colour = ColourFor(recv)
Pending == /\ recv \in Readings /\ gasSignal.value = recv
           /\ \/ gasSignal.raised /\ setter \in {"poll", "check", "nap"}
              \/ gasSignal.raised /\ setter = "colour" /\ value = recv
              \/ gasSignal.raised /\ setter = "reset" /\ colour = ColourFor(recv)
              \/ AtRest /\ colour = ColourFor(recv)

TimeNeeded == IF setter = "nap" THEN left + SetWork ELSE left
LeftBound  == left \in Nat /\ left =< (IF setter = "nap" THEN SetPause ELSE SetWork)
LongNap    == control = "nap" /\ ~ AtRest => rest > TimeNeeded

GasTypes == /\ recv \in Readings \cup {Unread}
            /\ control \in {"lock", "wait", "poll", "got", "big", "raise", "reset", "nap"}
            /\ setter \in {"poll", "check", "colour", "reset", "nap"}
            /\ items \in Seq(Readings \cup {TooBig})
            /\ gasSignal \in [raised: BOOLEAN, value: Readings \cup {0}]
            /\ rest \in Nat
GasStages == /\ control \in {"lock", "wait", "poll", "got", "big", "raise"} => AtRest
             /\ control \in {"lock", "wait", "poll", "big"} => Shown
             /\ control \in {"got", "raise"} => recv \in Readings
             /\ control \in {"reset", "nap"} => Pending
GasInv == GasTypes /\ GasStages /\ LeftBound /\ LongNap

LEMMA ControlStep ==
    GasInv /\ (Control \/ Producer) => GasInv'
<1> SUFFICES ASSUME GasInv, Control \/ Producer PROVE GasInv'
  OBVIOUS
<1> Readings \subseteq Nat
  BY ReadingsAssumption
<1> USE DEF GasInv, GasTypes, GasStages, LeftBound, LongNap, AtRest, Shown, Pending,
            TimeNeeded, sensorVars, setterVars
<1>1. ASSUME NEW v \in Readings \cup {TooBig}, Deliver(v) PROVE GasInv'
  <2>1. items' \in Seq(Readings \cup {TooBig})
    BY <1>1 DEF Deliver
  <2> QED BY <1>1, <2>1 DEF Deliver
<1>2. CASE ProducerStarts \/ ProducerEnds
  BY <1>2 DEF ProducerStarts, ProducerEnds
<1>3. CASE ControlLock \/ ControlAsk \/ ControlTooBig \/ ControlUnlock
  BY <1>3 DEF ControlLock, ControlAsk, ControlTooBig, ControlUnlock
<1>4. CASE ControlGet
  <2>1. Head(items) \in Readings /\ items' \in Seq(Readings \cup {TooBig})
    BY <1>4 DEF ControlGet
  <2> QED BY <1>4, <2>1 DEF ControlGet
<1>5. CASE ControlRaise
  BY <1>5 DEF ControlRaise
<1>6. CASE ControlReset
  <2>1. items' \in Seq(Readings \cup {TooBig})
    BY <1>6 DEF ControlReset
  <2>2. rest' > TimeNeeded' /\ rest' \in Nat
    BY <1>6, SetTimesAssumption DEF ControlReset
  <2> QED BY <1>6, <2>1, <2>2 DEF ControlReset
<1>7. CASE ControlWakes
  <2>1. AtRest
    BY <1>7, SetTimesAssumption DEF ControlWakes
  <2> QED BY <1>7, <2>1 DEF ControlWakes
<1> QED BY <1>1, <1>2, <1>3, <1>4, <1>5, <1>6, <1>7 DEF Control, Producer, Delivers

LEMMA SetterStep ==
    GasInv /\ (Setter \/ GasTick) => GasInv'
<1> SUFFICES ASSUME GasInv, Setter \/ GasTick PROVE GasInv'
  OBVIOUS
<1> USE SetTimesAssumption DEF GasInv, GasTypes, GasStages, LeftBound, LongNap, AtRest,
            Shown, Pending, TimeNeeded, sensorVars
<1>1. CASE SetterPoll \/ SetterCheck
  BY <1>1 DEF SetterPoll, SetterCheck
<1>2. CASE SetterColour
  BY <1>2 DEF SetterColour
<1>3. CASE SetterReset
  <2>1. ~ AtRest /\ control \in {"reset", "nap"} /\ colour = ColourFor(recv)
    BY <1>3 DEF SetterReset
  <2>2. /\ gasSignal' \in [raised: BOOLEAN, value: Readings \cup {0}]
        /\ ~ gasSignal'.raised /\ gasSignal'.value = gasSignal.value
    BY <1>3 DEF SetterReset
  <2>3. setter' = "nap" /\ left' = SetPause /\ AtRest'
    BY <1>3, <2>2 DEF SetterReset
  <2>4. UNCHANGED <<sensorVars, control, recv, rest, value, colour>>
    BY <1>3 DEF SetterReset
  <2>5. GasTypes' /\ LeftBound' /\ LongNap'
    BY <2>2, <2>3, <2>4
  <2>6. GasStages'
    BY <2>1, <2>2, <2>3, <2>4
  <2> QED BY <2>5, <2>6
<1>4. CASE SetterWakes
  BY <1>4 DEF SetterWakes
<1>5. CASE GasTick
  <2>1. left' \in Nat /\ rest' \in Nat /\ left' =< left
    BY <1>5 DEF GasTick, Busy
  <2>2. LongNap'
    BY <1>5 DEF GasTick, Busy
  <2>3. GasTypes' /\ GasStages' /\ LeftBound'
    BY <1>5, <2>1 DEF GasTick
  <2> QED BY <2>2, <2>3
<1> QED BY <1>1, <1>2, <1>3, <1>4, <1>5 DEF Setter

LEMMA GasStep == GasInv /\ [GasNext]_gasVars => GasInv'
<1>1. GasInv /\ UNCHANGED gasVars => GasInv'
  BY DEF GasInv, GasTypes, GasStages, LeftBound, LongNap, AtRest, Shown, Pending,
         TimeNeeded, gasVars, sensorVars, setterVars
<1> QED BY <1>1, ControlStep, SetterStep DEF GasNext

LEMMA GasStarts == GasInit => GasInv
  BY SetTimesAssumption DEF GasInit, GasInv, GasTypes, GasStages, LeftBound, LongNap, AtRest,
     Shown

(* The tests of the code divide the values into steps of 41.               *)
LEMMA ColourSteps == ASSUME NEW v \in Nat PROVE ColourFor(v) = Bands[Step(v)]
<1> DEFINE k == v \div 41
<1>1. base * 1 = 41 /\ base * 2 = 82 /\ base * 3 = 123 /\ base * 4 = 164
      /\ base * 5 = 205 /\ base * 6 = 246
  BY DEF base
<1>2. k \in Nat /\ 41 * k =< v /\ v < 41 * k + 41
  OBVIOUS
<1>3. Step(v) = IF k < 6 THEN k + 1 ELSE 7
  BY DEF Step
<1> HIDE DEF k
<1>4. CASE k \in 0 .. 5
  <2>1. k = 0 \/ k = 1 \/ k = 2 \/ k = 3 \/ k = 4 \/ k = 5
    BY <1>4
  <2>2. ASSUME k = 0 PROVE ColourFor(v) = Bands[Step(v)]
    BY <1>1, <1>2, <1>3, <2>2 DEF ColourFor, Bands
  <2>3. ASSUME k = 1 PROVE ColourFor(v) = Bands[Step(v)]
    BY <1>1, <1>2, <1>3, <2>3 DEF ColourFor, Bands
  <2>4. ASSUME k = 2 PROVE ColourFor(v) = Bands[Step(v)]
    BY <1>1, <1>2, <1>3, <2>4 DEF ColourFor, Bands
  <2>5. ASSUME k \in 3 .. 5 PROVE ColourFor(v) = Bands[Step(v)]
    BY <1>1, <1>2, <1>3, <2>5 DEF ColourFor, Bands
  <2> QED BY <2>1, <2>2, <2>3, <2>4, <2>5
<1>5. CASE k >= 6
  BY <1>1, <1>2, <1>3, <1>5 DEF ColourFor, Bands
<1> QED BY <1>2, <1>4, <1>5

(* The LEDs show the last value, whatever the readings are, if the set     *)
(* thread sleeps and works for less time than the control thread sleeps.   *)
THEOREM LatestCorrect == GasSpec => []ShowsLatest
<1>1. GasInv => ShowsLatest
  <2> SUFFICES ASSUME GasInv, control = "lock", recv # Unread
               PROVE  colour = Bands[Step(recv)]
    BY DEF ShowsLatest
  <2>1. colour = ColourFor(recv) /\ recv \in Nat
    BY ReadingsAssumption DEF GasInv, GasTypes, GasStages, Shown
  <2> QED BY <2>1, ColourSteps
<1> QED BY <1>1, GasStarts, GasStep, PTL DEF GasSpec

LEMMA GasTypeStep == GasInv /\ GasTypeOK /\ [GasNext]_gasVars => GasTypeOK'
<1> SUFFICES ASSUME GasInv, GasTypeOK, [GasNext]_gasVars PROVE GasTypeOK'
  OBVIOUS
<1> USE DEF GasTypeOK, sensorVars, setterVars
<1>1. ASSUME NEW v \in Readings \cup {TooBig}, Deliver(v) PROVE GasTypeOK'
  <2>1. items' \in Seq(Readings \cup {TooBig}) /\ Len(items') =< RingItems
    BY <1>1 DEF Deliver, RingItems
  <2> QED BY <1>1, <2>1 DEF Deliver
<1>2. CASE ProducerStarts \/ ProducerEnds
  BY <1>2 DEF ProducerStarts, ProducerEnds
<1>3. CASE ControlLock \/ ControlAsk \/ ControlTooBig \/ ControlUnlock \/ ControlWakes
  BY <1>3 DEF ControlLock, ControlAsk, ControlTooBig, ControlUnlock, ControlWakes
<1>4. CASE ControlGet
  <2>1. items # << >> /\ items' = Tail(items) /\ recv' = Head(items) /\ recv' # TooBig
    BY <1>4 DEF ControlGet
  <2>2. /\ items' \in Seq(Readings \cup {TooBig}) /\ Len(items') = Len(items) - 1
        /\ recv' \in Readings
    BY <2>1, HeadTailProperties
  <2>3. Len(items') =< RingItems
    BY <2>2 DEF RingItems
  <2> QED BY <1>4, <2>2, <2>3 DEF ControlGet
<1>5. CASE ControlRaise
  <2>1. recv \in Readings
    BY <1>5 DEF ControlRaise, GasInv, GasStages
  <2> QED BY <1>5, <2>1 DEF ControlRaise
<1>6. CASE ControlReset
  <2>1. items' \in Seq(Readings \cup {TooBig})
    BY <1>6 DEF ControlReset
  <2>2. Len(items') =< RingItems
    BY <1>6 DEF ControlReset, RingItems
  <2> QED BY <1>6, <2>1, <2>2, SetTimesAssumption DEF ControlReset
<1>7. CASE SetterPoll \/ SetterReset \/ SetterWakes
  <2>1. gasSignal' \in [raised: BOOLEAN, value: Readings \cup {0}]
    BY <1>7 DEF SetterPoll, SetterReset, SetterWakes
  <2>2. left' \in Nat
    BY <1>7, SetTimesAssumption DEF SetterPoll, SetterReset, SetterWakes
  <2> QED BY <1>7, <2>1, <2>2 DEF SetterPoll, SetterReset, SetterWakes
<1>8. CASE SetterCheck
  BY <1>8 DEF SetterCheck
<1>9. CASE SetterColour
  BY <1>9 DEF SetterColour, ColourFor, Palette
<1>10. CASE GasTick
  <2>1. left' \in Nat
    BY <1>10 DEF GasTick, GasInv, LeftBound
  <2>2. rest' \in 0 .. SamplingPeriod
    BY <1>10, SetTimesAssumption DEF GasTick
  <2> QED BY <1>10, <2>1, <2>2 DEF GasTick
<1>11. CASE UNCHANGED gasVars
  BY <1>11 DEF gasVars
<1> QED BY <1>1, <1>2, <1>3, <1>4, <1>5, <1>6, <1>7, <1>8, <1>9, <1>10, <1>11
        DEF GasNext, Control, Setter, Producer, Delivers

(* The signal, the ring and the two threads keep their types.              *)
THEOREM GasTypeCorrect == GasSpec => []GasTypeOK
<1>1. << >> \in Seq(Readings \cup {TooBig}) /\ Len(<< >>) =< RingItems
  BY DEF RingItems
<1>2. ASSUME GasInit PROVE GasTypeOK
  <2>1. items = << >>
    BY <1>2 DEF GasInit
  <2>2. items \in Seq(Readings \cup {TooBig}) /\ Len(items) =< RingItems
    BY <1>1, <2>1, Zenon
  <2>3. rest \in 0 .. SamplingPeriod /\ left \in Nat
    BY <1>2, SetTimesAssumption DEF GasInit
  <2>4. gasSignal \in [raised: BOOLEAN, value: Readings \cup {0}] /\ locking \in BOOLEAN
    BY <1>2 DEF GasInit
  <2> QED BY <1>2, <2>2, <2>3, <2>4 DEF GasInit, GasTypeOK, Palette
<1> QED BY <1>2, GasStarts, GasStep, GasTypeStep, PTL DEF GasSpec

-------------------------------------------------------------------------------

(* Each colour of the table has its components full on or off.             *)
Full == {0, 255}
LEMMA ColoursAre ==
    ASSUME NEW k \in 1 .. 8
    PROVE  \E red \in Full, green \in Full, blue \in Full :
              colour_sequence[k] = red * 65536 + green * 256 + blue
<1>1. k = 1 \/ k = 2 \/ k = 3 \/ k = 4 \/ k = 5 \/ k = 6 \/ k = 7 \/ k = 8
  OBVIOUS
<1> QED BY <1>1 DEF colour_sequence, Full

LEMMA ColoursInRange == ASSUME NEW k \in 1 .. 8 PROVE colour_sequence[k] \in 0 .. White
<1>1. PICK red \in Full, green \in Full, blue \in Full :
         colour_sequence[k] = red * 65536 + green * 256 + blue
  BY ColoursAre
<1>2. /\ red * 65536 + green * 256 + blue \in Int
      /\ 0 =< red * 65536 + green * 256 + blue
      /\ red * 65536 + green * 256 + blue =< \hFFFFFF
  BY DEF Full
<1>3. White \in Int
  BY DEF White
<1>4. /\ colour_sequence[k] \in Int /\ 0 =< colour_sequence[k]
      /\ colour_sequence[k] =< White
  BY <1>1, <1>2, SMT DEF White
<1> QED BY <1>3, <1>4, SMT

(* The place of a colour in the table is known from the colour.            *)
LEMMA PlaceOf ==
    ASSUME NEW k \in 1 .. 8, NEW seen, seen = colour_sequence[k]
    PROVE  (CHOOSE i \in 1 .. 8 : colour_sequence[i] = seen) = k /\ seen # Dark
<1>1. \A i, j \in 1 .. 8 : colour_sequence[i] = colour_sequence[j] => i = j
  <2> SUFFICES ASSUME NEW i \in 1 .. 8, NEW j \in 1 .. 8,
                      colour_sequence[i] = colour_sequence[j]
               PROVE  i = j
    OBVIOUS
  <2>1. i = 1 \/ i = 2 \/ i = 3 \/ i = 4 \/ i = 5 \/ i = 6 \/ i = 7 \/ i = 8
    OBVIOUS
  <2>2. j = 1 \/ j = 2 \/ j = 3 \/ j = 4 \/ j = 5 \/ j = 6 \/ j = 7 \/ j = 8
    OBVIOUS
  <2> QED BY <2>1, <2>2 DEF colour_sequence
<1>2. (CHOOSE i \in 1 .. 8 : colour_sequence[i] = seen) = k
  BY <1>1
<1>3. seen # Dark
  BY ColoursInRange DEF Dark
<1> QED BY <1>2, <1>3

(* What is sent for components that are full on or off.                    *)
LEMMA ByteBits ==
    ASSUME NEW byte \in Full
    PROVE  /\ SendByte(byte) \in Seq(Bit) /\ Len(SendByte(byte)) = 8
           /\ \A i \in 1 .. 8 : SendByte(byte)[i] = Top(byte)
           /\ Second(byte) = Top(byte) /\ Top(byte) \in Bit /\ byte = 255 * Top(byte)
<1>1. \A i \in 1 .. 8 : Weight[i] \in {128, 64, 32, 16, 8, 4, 2, 1}
  BY DEF Weight
<1>2. ASSUME NEW w \in {128, 64, 32, 16, 8, 4, 2, 1}
      PROVE  (byte \div w) % 2 = byte \div 128
  BY DEF Full
<1>3. Top(byte) \in Bit /\ Second(byte) = Top(byte) /\ byte = 255 * Top(byte)
  BY DEF Top, Second, Full, Bit
<1>4. \A i \in 1 .. 8 : SendByte(byte)[i] = Top(byte)
  BY <1>1, <1>2 DEF SendByte, Top
<1>5. SendByte(byte) \in [1 .. 8 -> Bit]
  BY <1>3, <1>4 DEF SendByte
<1>6. SendByte(byte) \in Seq(Bit) /\ Len(SendByte(byte)) = 8
  BY <1>5 DEF SendByte
<1> QED BY <1>3, <1>4, <1>6

(* The check bits of the prefix are the inverted tops of the components.   *)
LEMMA PrefixBits ==
    ASSUME NEW red \in Full, NEW green \in Full, NEW blue \in Full
    PROVE  LET bits == SendByte(Prefix(red, green, blue))
           IN  /\ bits \in Seq(Bit) /\ Len(bits) = 8 /\ bits[1] = 1 /\ bits[2] = 1
               /\ bits[3] = Inverted(Top(blue))  /\ bits[4] = Inverted(Top(blue))
               /\ bits[5] = Inverted(Top(green)) /\ bits[6] = Inverted(Top(green))
               /\ bits[7] = Inverted(Top(red))   /\ bits[8] = Inverted(Top(red))
<1>1. /\ Top(red) \in Bit /\ Top(green) \in Bit /\ Top(blue) \in Bit
      /\ Second(red) = Top(red) /\ Second(green) = Top(green) /\ Second(blue) = Top(blue)
  BY ByteBits
<1> DEFINE r == Inverted(Top(red))
           g == Inverted(Top(green))
           b == Inverted(Top(blue))
           p == 192 + 48 * b + 12 * g + 3 * r
<1>2. r \in {0, 1} /\ g \in {0, 1} /\ b \in {0, 1}
  BY <1>1 DEF Inverted, Bit
<1>3. Prefix(red, green, blue) = 128 + 64 + 32 * b + 16 * b + 8 * g + 4 * g + 2 * r + r
  BY <1>1 DEF Prefix
<1> HIDE DEF r, g, b
<1>4. Prefix(red, green, blue) = p
  BY <1>2, <1>3
<1>5. /\ (p \div 128) % 2 = 1 /\ (p \div 64) % 2 = 1
      /\ (p \div 32) % 2 = b /\ (p \div 16) % 2 = b
      /\ (p \div 8) % 2 = g /\ (p \div 4) % 2 = g
      /\ (p \div 2) % 2 = r /\ (p \div 1) % 2 = r
  <2>1. CASE b = 0
    BY <1>2, <2>1
  <2>2. CASE b = 1
    BY <1>2, <2>2
  <2> QED BY <1>2, <2>1, <2>2
<1> HIDE DEF p
<1> DEFINE bits == SendByte(p)
<1>6. \A i \in 1 .. 8 : bits[i] = (p \div Weight[i]) % 2
  BY DEF SendByte
<1>7. /\ bits[1] = 1 /\ bits[2] = 1 /\ bits[3] = b /\ bits[4] = b
      /\ bits[5] = g /\ bits[6] = g /\ bits[7] = r /\ bits[8] = r
  BY <1>5, <1>6 DEF Weight
<1>8. bits \in [1 .. 8 -> Bit]
  <2>1. ASSUME NEW i \in 1 .. 8 PROVE (p \div Weight[i]) % 2 \in Bit
    <3>1. i = 1 \/ i = 2 \/ i = 3 \/ i = 4 \/ i = 5 \/ i = 6 \/ i = 7 \/ i = 8
      OBVIOUS
    <3> QED BY <3>1, <1>2, <1>5 DEF Weight, Bit
  <2> QED BY <2>1 DEF SendByte
<1>9. bits \in Seq(Bit) /\ Len(bits) = 8
  BY <1>8 DEF SendByte
<1> QED BY <1>4, <1>7, <1>9 DEF r, g, b

(* How a sequence begins with another one, and goes on with one after m.   *)
Begins(c, a, n)    == \A i \in Nat : 1 =< i /\ i =< n => c[i] = a[i]
Follows(c, m, b, n) == \A i \in Nat : 1 =< i /\ i =< n => c[m + i] = b[i]

IsBits(a, n)      == a \in Seq(Bit) /\ Len(a) = n
IsConcat(c, a, b) == c = a \o b
IsJoined(c, a, m, b, n) == IsBits(c, m + n) /\ Begins(c, a, m) /\ Follows(c, m, b, n)

LEMMA Joined ==
    ASSUME NEW a, NEW b, NEW c, NEW m \in Nat, NEW n \in Nat,
           IsBits(a, m), IsBits(b, n), IsConcat(c, a, b)
    PROVE  IsJoined(c, a, m, b, n)
<1>0. a \in Seq(Bit) /\ b \in Seq(Bit) /\ Len(a) = m /\ Len(b) = n /\ c = a \o b
  BY DEF IsBits, IsConcat
<1>1. /\ c \in Seq(Bit) /\ Len(c) = m + n
      /\ \A i \in 1 .. m + n : c[i] = IF i <= m THEN a[i] ELSE b[i - m]
  BY <1>0, ConcatProperties
<1>2. ASSUME NEW i \in Nat, 1 =< i, i =< m PROVE c[i] = a[i]
  <2>1. i \in 1 .. m + n
    BY <1>2
  <2> QED BY <1>1, <1>2, <2>1
<1>3. ASSUME NEW i \in Nat, 1 =< i, i =< n PROVE c[m + i] = b[i]
  <2>1. m + i \in 1 .. m + n /\ ~ (m + i <= m) /\ (m + i) - m = i
    BY <1>3
  <2>2. c[m + i] = IF m + i <= m THEN a[m + i] ELSE b[(m + i) - m]
    BY <1>1, <2>1
  <2> QED BY <2>1, <2>2
<1> QED BY <1>1, <1>2, <1>3 DEF IsJoined, IsBits, Begins, Follows

(* A frame: a blank word, the four bytes of a word, a blank word.          *)
IsFrame(F, red, green, blue) ==
    /\ F \in Seq(Bit) /\ Len(F) = 96
    /\ \A i \in Nat : 1 =< i /\ i =< 32 => F[i] = 0 /\ F[64 + i] = 0
    /\ \A i \in 1 .. 8 : /\ F[32 + i] = SendByte(Prefix(red, green, blue))[i]
                         /\ F[40 + i] = Top(blue)
                         /\ F[48 + i] = Top(green) /\ F[56 + i] = Top(red)

LEMMA FrameBits ==
    ASSUME NEW red \in Full, NEW green \in Full, NEW blue \in Full
    PROVE  IsFrame(SendRgbData(red, green, blue), red, green, blue)
<1> DEFINE P  == SendByte(Prefix(red, green, blue))
           B  == SendByte(blue)
           G  == SendByte(green)
           R  == SendByte(red)
           F1 == Blank \o P
           F2 == F1 \o B
           F3 == F2 \o G
           F4 == F3 \o R
           F  == F4 \o Blank
<1>1. Blank \in Seq(Bit) /\ Len(Blank) = 32
  <2>1. Blank \in [1 .. 32 -> Bit]
    BY DEF Blank, Bit
  <2> QED BY <2>1 DEF Blank
<1>2. \A i \in Nat : 1 =< i /\ i =< 32 => Blank[i] = 0
  BY DEF Blank
<1>3. P \in Seq(Bit) /\ Len(P) = 8
  BY PrefixBits
<1>4. /\ B \in Seq(Bit) /\ Len(B) = 8 /\ G \in Seq(Bit) /\ Len(G) = 8
      /\ R \in Seq(Bit) /\ Len(R) = 8
  BY ByteBits
<1>5. \A i \in 1 .. 8 : B[i] = Top(blue) /\ G[i] = Top(green) /\ R[i] = Top(red)
  BY ByteBits
<1>6. F = SendRgbData(red, green, blue)
  BY DEF SendRgbData
<1> HIDE DEF P, B, G, R
<1>7. F1 \in Seq(Bit) /\ Len(F1) = 40 /\ Follows(F1, 32, P, 8) /\ Begins(F1, Blank, 32)
  <2>1. IsConcat(F1, Blank, P) /\ IsBits(Blank, 32) /\ IsBits(P, 8)
    BY <1>1, <1>3 DEF IsConcat, IsBits
  <2> HIDE DEF F1
  <2>2. IsJoined(F1, Blank, 32, P, 8)
    BY <2>1, Joined
  <2> QED BY <2>2 DEF IsJoined, IsBits
<1> HIDE DEF F1
<1>8. F2 \in Seq(Bit) /\ Len(F2) = 48 /\ Follows(F2, 40, B, 8) /\ Begins(F2, F1, 40)
  <2>1. IsConcat(F2, F1, B) /\ IsBits(F1, 40) /\ IsBits(B, 8)
    BY <1>4, <1>7 DEF IsConcat, IsBits
  <2> HIDE DEF F2
  <2>2. IsJoined(F2, F1, 40, B, 8)
    BY <2>1, Joined
  <2> QED BY <2>2 DEF IsJoined, IsBits
<1> HIDE DEF F2
<1>9. F3 \in Seq(Bit) /\ Len(F3) = 56 /\ Follows(F3, 48, G, 8) /\ Begins(F3, F2, 48)
  <2>1. IsConcat(F3, F2, G) /\ IsBits(F2, 48) /\ IsBits(G, 8)
    BY <1>4, <1>8 DEF IsConcat, IsBits
  <2> HIDE DEF F3
  <2>2. IsJoined(F3, F2, 48, G, 8)
    BY <2>1, Joined
  <2> QED BY <2>2 DEF IsJoined, IsBits
<1> HIDE DEF F3
<1>10. F4 \in Seq(Bit) /\ Len(F4) = 64 /\ Follows(F4, 56, R, 8) /\ Begins(F4, F3, 56)
  <2>1. IsConcat(F4, F3, R) /\ IsBits(F3, 56) /\ IsBits(R, 8)
    BY <1>4, <1>9 DEF IsConcat, IsBits
  <2> HIDE DEF F4
  <2>2. IsJoined(F4, F3, 56, R, 8)
    BY <2>1, Joined
  <2> QED BY <2>2 DEF IsJoined, IsBits
<1> HIDE DEF F4
<1>11. F \in Seq(Bit) /\ Len(F) = 96 /\ Follows(F, 64, Blank, 32) /\ Begins(F, F4, 64)
  <2>1. IsConcat(F, F4, Blank) /\ IsBits(F4, 64) /\ IsBits(Blank, 32)
    BY <1>1, <1>10 DEF IsConcat, IsBits
  <2> HIDE DEF F
  <2>2. IsJoined(F, F4, 64, Blank, 32)
    BY <2>1, Joined
  <2> QED BY <2>2 DEF IsJoined, IsBits
<1> HIDE DEF F
<1>b. /\ Begins(F1, Blank, 32) /\ Begins(F2, F1, 40) /\ Begins(F3, F2, 48)
      /\ Begins(F4, F3, 56) /\ Begins(F, F4, 64)
  BY <1>7, <1>8, <1>9, <1>10, <1>11
<1>g. /\ Follows(F1, 32, P, 8) /\ Follows(F2, 40, B, 8) /\ Follows(F3, 48, G, 8)
      /\ Follows(F4, 56, R, 8) /\ Follows(F, 64, Blank, 32)
  BY <1>7, <1>8, <1>9, <1>10, <1>11
<1>12. ASSUME NEW i \in Nat, 1 =< i, i =< 32 PROVE F[i] = 0 /\ F[64 + i] = 0
  <2>1. F[i] = F4[i] /\ F4[i] = F3[i] /\ F3[i] = F2[i] /\ F2[i] = F1[i] /\ F1[i] = Blank[i]
    BY <1>b, <1>12 DEF Begins
  <2>2. F[64 + i] = Blank[i]
    BY <1>g, <1>12 DEF Follows
  <2> QED BY <1>2, <1>12, <2>1, <2>2
<1>13. ASSUME NEW i \in 1 .. 8
       PROVE  /\ F[32 + i] = P[i] /\ F[40 + i] = Top(blue)
              /\ F[48 + i] = Top(green) /\ F[56 + i] = Top(red)
  <2> DEFINE a == 32 + i  b == 40 + i  c == 48 + i  d == 56 + i
  <2>1. /\ a \in Nat /\ 1 =< a /\ a =< 40 /\ b \in Nat /\ 1 =< b /\ b =< 48
        /\ c \in Nat /\ 1 =< c /\ c =< 56 /\ d \in Nat /\ 1 =< d /\ d =< 64
    OBVIOUS
  <2>2. F1[a] = P[i] /\ F2[b] = B[i] /\ F3[c] = G[i] /\ F4[d] = R[i]
    BY <1>g DEF Follows
  <2> HIDE DEF a, b, c, d
  <2>3. F[a] = F4[a] /\ F4[a] = F3[a] /\ F3[a] = F2[a] /\ F2[a] = F1[a]
    BY <1>b, <2>1 DEF Begins
  <2>4. F[b] = F4[b] /\ F4[b] = F3[b] /\ F3[b] = F2[b]
    BY <1>b, <2>1 DEF Begins
  <2>5. F[c] = F4[c] /\ F4[c] = F3[c] /\ F[d] = F4[d]
    BY <1>b, <2>1 DEF Begins
  <2>6. F[a] = P[i] /\ F[b] = Top(blue) /\ F[c] = Top(green) /\ F[d] = Top(red)
    BY <1>5, <2>2, <2>3, <2>4, <2>5
  <2> QED BY <2>6 DEF a, b, c, d
<1> QED BY <1>6, <1>11, <1>12, <1>13 DEF P, IsFrame

LEMMA FrameEnds ==
    ASSUME NEW red \in Full, NEW green \in Full, NEW blue \in Full,
           NEW F, IsFrame(F, red, green, blue)
    PROVE  /\ \A i \in Nat : 1 =< i /\ i =< 32 => F[i] = 0 /\ F[64 + i] = 0
           /\ F[33] = 1
<1>1. SendByte(Prefix(red, green, blue))[1] = 1
  BY PrefixBits
<1>2. F[32 + 1] = SendByte(Prefix(red, green, blue))[1]
  BY DEF IsFrame
<1>3. \A i \in Nat : 1 =< i /\ i =< 32 => F[i] = 0 /\ F[64 + i] = 0
  BY DEF IsFrame
<1> QED BY <1>1, <1>2, <1>3

(* The chip accepts the word in the middle of a frame, and reads from it   *)
(* the colour that the frame was made of.                                  *)
LEMMA WordIsRead ==
    ASSUME NEW red \in Full, NEW green \in Full, NEW blue \in Full,
           NEW F, IsFrame(F, red, green, blue), NEW bits, Follows(F, 32, bits, 32)
    PROVE  ChecksOut(bits) /\ ColourOf(bits) = red * 65536 + green * 256 + blue
<1> DEFINE P == SendByte(Prefix(red, green, blue))
<1>1. \A i \in 1 .. 8 : /\ F[32 + i] = P[i] /\ F[40 + i] = Top(blue)
                        /\ F[48 + i] = Top(green) /\ F[56 + i] = Top(red)
  BY DEF IsFrame
<1>p. /\ P[1] = 1 /\ P[2] = 1
      /\ P[3] = Inverted(Top(blue))  /\ P[4] = Inverted(Top(blue))
      /\ P[5] = Inverted(Top(green)) /\ P[6] = Inverted(Top(green))
      /\ P[7] = Inverted(Top(red))   /\ P[8] = Inverted(Top(red))
  BY PrefixBits
<1>b. \A i \in Nat : 1 =< i /\ i =< 32 => F[32 + i] = bits[i]
  BY DEF Follows
<1> HIDE DEF P
<1>2. ASSUME NEW i \in 1 .. 8
      PROVE  /\ bits[i] = P[i] /\ bits[8 + i] = Top(blue)
             /\ bits[16 + i] = Top(green) /\ bits[24 + i] = Top(red)
  <2>1. /\ F[32 + i] = bits[i] /\ F[32 + (8 + i)] = bits[8 + i]
        /\ F[32 + (16 + i)] = bits[16 + i] /\ F[32 + (24 + i)] = bits[24 + i]
    BY <1>b
  <2>2. 32 + (8 + i) = 40 + i /\ 32 + (16 + i) = 48 + i /\ 32 + (24 + i) = 56 + i
    OBVIOUS
  <2> QED BY <1>1, <2>1, <2>2
<1>3. /\ bits[9] = Top(blue) /\ bits[10] = Top(blue) /\ bits[17] = Top(green)
      /\ bits[18] = Top(green) /\ bits[25] = Top(red) /\ bits[26] = Top(red)
  BY <1>2
<1>4. ChecksOut(bits)
  <2>1. bits[1] = 1 /\ bits[2] = 1
    BY <1>2, <1>p
  <2>2. /\ bits[3] = Inverted(bits[9])  /\ bits[4] = Inverted(bits[10])
        /\ bits[5] = Inverted(bits[17]) /\ bits[6] = Inverted(bits[18])
        /\ bits[7] = Inverted(bits[25]) /\ bits[8] = Inverted(bits[26])
    BY <1>2, <1>p, <1>3
  <2>3. ASSUME NEW c \in 0 .. 2
        PROVE  /\ bits[3 + 2 * c] = Inverted(bits[9 + 8 * c])
               /\ bits[4 + 2 * c] = Inverted(bits[10 + 8 * c])
    <3>1. c = 0 \/ c = 1 \/ c = 2
      OBVIOUS
    <3> QED BY <3>1, <2>2
  <2> QED BY <2>1, <2>3 DEF ChecksOut
<1>5. ASSUME NEW first \in {9, 17, 25}, NEW byte \in Full,
             \A i \in 1 .. 8 : bits[first - 1 + i] = Top(byte)
      PROVE  ByteAt(bits, first) = byte
  <2>1. Top(byte) \in Bit /\ byte = 255 * Top(byte)
    BY ByteBits
  <2>2. \A j \in 0 .. 7 : bits[first + j] = Top(byte)
    <3>1. ASSUME NEW j \in 0 .. 7 PROVE bits[first + j] = Top(byte)
      <4>1. j + 1 \in 1 .. 8 /\ first + j = first - 1 + (j + 1)
        OBVIOUS
      <4> QED BY <4>1, <1>5
    <3> QED BY <3>1
  <2>3. /\ bits[first] = Top(byte) /\ bits[first + 1] = Top(byte)
        /\ bits[first + 2] = Top(byte) /\ bits[first + 3] = Top(byte)
        /\ bits[first + 4] = Top(byte) /\ bits[first + 5] = Top(byte)
        /\ bits[first + 6] = Top(byte) /\ bits[first + 7] = Top(byte)
    BY <2>2
  <2> QED BY <2>1, <2>3 DEF ByteAt, Bit
<1>6. ByteAt(bits, 9) = blue
  BY <1>2, <1>5
<1>7. ByteAt(bits, 17) = green
  BY <1>2, <1>5
<1>8. ByteAt(bits, 25) = red
  BY <1>2, <1>5
<1>9. ColourOf(bits) = red * 65536 + green * 256 + blue
  BY <1>6, <1>7, <1>8, SMT DEF ColourOf
<1> QED BY <1>4, <1>9, SMT

(* Every colour of the table is sent in a frame that is made of it.        *)
FrameOf(code) == SendRgbData((code \div 65536) % 256, (code \div 256) % 256,
                               code % 256)

LEMMA FrameOfColour ==
    ASSUME NEW k \in 1 .. 8
    PROVE  \E red \in Full, green \in Full, blue \in Full :
              /\ colour_sequence[k] = red * 65536 + green * 256 + blue
              /\ IsFrame(FrameOf(colour_sequence[k]), red, green, blue)
<1>1. PICK red \in Full, green \in Full, blue \in Full :
         colour_sequence[k] = red * 65536 + green * 256 + blue
  BY ColoursAre
<1> DEFINE code == red * 65536 + green * 256 + blue
<1>2. /\ (code \div 65536) % 256 = red /\ (code \div 256) % 256 = green
      /\ code % 256 = blue
  BY SMT DEF Full
<1> HIDE DEF code
<1>3. colour_sequence[k] = code
  BY <1>1, SMT DEF code
<1>4. FrameOf(colour_sequence[k]) = SendRgbData(red, green, blue)
  BY <1>2, <1>3, SMT DEF FrameOf
<1>5. IsFrame(FrameOf(colour_sequence[k]), red, green, blue)
  BY <1>4, FrameBits, SMT
<1> QED BY <1>1, <1>5, SMT

-------------------------------------------------------------------------------

(* What is true of the frame on its way.  Newest is the place of the       *)
(* colour that was put last, Given and Clocked the number of its bits that *)
(* rgb_thread has put on the data pin and that the chip has seen.  A frame *)
(* that the chip has not read to the end of its word is Ahead of what is   *)
(* shown.                                                                  *)
Newest  == ((col_num + 7) % 8) + 1
Sent    == FrameOf(colour_sequence[Newest])
Given   == 96 - Len(sending)
Clocked == IF phase \in {"low", "high"} THEN Given - 1 ELSE Given
Ahead   == IF colour_msgq # << >> \/ Clocked < 64 THEN 1 ELSE 0

InTheQueue == colour_msgq = << >> \/ /\ colour_msgq = <<colour_sequence[Newest]>>
                                     /\ sending = << >>
OnTheWay == /\ Follows(Sent, Given, sending, Len(sending))
            /\ phase \in {"low", "high"} => Given >= 1 /\ di = Sent[Given]
            /\ phase = "high" => ci = 0
Received == /\ Clocked =< 32 => zeros >= Clocked
            /\ IF 32 < Clocked /\ Clocked < 64
               THEN /\ Len(wordBits) = Clocked - 32
                    /\ Follows(Sent, 32, wordBits, Clocked - 32)
               ELSE wordBits = << >>
Showing == IF lit = Dark THEN col_num = Ahead
           ELSE lit = colour_sequence[((col_num + 7 - Ahead) % 8) + 1]
ChainInv == ChainTypeOK /\ InTheQueue /\ OnTheWay /\ Received /\ Showing

(* What the chip makes of the bit on the data pin.                         *)
LEMMA ChipStep ==
    ASSUME ChainInv, phase = "high", ChipTakes(di)
    PROVE  /\ zeros' \in 0 .. 32 /\ wordBits' \in Seq(Bit) /\ Len(wordBits') < 32
           /\ Given =< 32 => zeros' >= Given
           /\ IF 32 < Given /\ Given < 64
              THEN /\ Len(wordBits') = Given - 32
                   /\ Follows(Sent, 32, wordBits', Given - 32)
              ELSE wordBits' = << >>
           /\ lit' = IF Given = 64 THEN colour_sequence[Newest] ELSE lit
<1>1. /\ Given \in Nat /\ 1 =< Given /\ Given =< 96 /\ di = Sent[Given]
      /\ Clocked = Given - 1 /\ wordBits \in Seq(Bit) /\ Newest \in 1 .. 8
  <2>1. Len(sending) \in Nat /\ Len(sending) =< 96 /\ wordBits \in Seq(Bit)
    BY DEF ChainInv, ChainTypeOK
  <2>2. Given >= 1 /\ di = Sent[Given]
    BY DEF ChainInv, OnTheWay
  <2>3. col_num \in 0 .. 7
    BY DEF ChainInv, ChainTypeOK
  <2>4. Newest \in 1 .. 8
    BY <2>3 DEF Newest
  <2> QED BY <2>1, <2>2, <2>4 DEF Given, Clocked
<1>2. PICK red \in Full, green \in Full, blue \in Full :
         /\ colour_sequence[Newest] = red * 65536 + green * 256 + blue
         /\ IsFrame(Sent, red, green, blue)
  BY <1>1, FrameOfColour, SMT DEF Sent
<1>3. zeros \in Nat /\ zeros =< 32
  BY DEF ChainInv, ChainTypeOK
<1>4. /\ Given =< 33 => zeros >= Given - 1
      /\ IF 33 < Given /\ Given =< 64
         THEN /\ Len(wordBits) = Given - 33
              /\ Follows(Sent, 32, wordBits, Given - 33)
         ELSE wordBits = << >>
  BY <1>1 DEF ChainInv, Received
<1>5. /\ \A i \in Nat : 1 =< i /\ i =< 32 => Sent[i] = 0 /\ Sent[64 + i] = 0
      /\ Sent[33] = 1 /\ \A i \in Nat : i =< 96 /\ 1 =< i => Sent[i] \in Bit
  <2>2. Sent[33] = 1
    BY <1>2, FrameEnds
  <2>3. Sent \in Seq(Bit) /\ Len(Sent) = 96
    BY <1>2 DEF IsFrame
  <2>4. \A i \in 1 .. Len(Sent) : Sent[i] \in Bit
    BY <2>3, ElementOfSeq
  <2>5. \A i \in Nat : 1 =< i /\ i =< 32 => Sent[i] = 0 /\ Sent[64 + i] = 0
    BY <1>2, FrameEnds
  <2>6. \A i \in Nat : i =< 96 /\ 1 =< i => Sent[i] \in Bit
    <3>1. ASSUME NEW i \in Nat, 1 =< i, i =< 96 PROVE i \in 1 .. Len(Sent)
      BY <2>3, <3>1
    <3> QED BY <2>4, <3>1
  <2> QED BY <2>2, <2>5, <2>6
<1>b. di \in Bit
  BY <1>1, <1>5
<1>e. << >> \in Seq(Bit) /\ Len(<< >>) < 32
  OBVIOUS
<1> DEFINE longer == Append(wordBits, di)
<1>6. CASE Given =< 32
  <2>1. di = 0 /\ wordBits = << >>
    BY <1>1, <1>4, <1>5, <1>6
  <2>2. /\ zeros' = IF zeros < 32 THEN zeros + 1 ELSE 32
        /\ wordBits' = wordBits /\ lit' = lit
    BY <2>1 DEF ChipTakes
  <2>3. zeros' \in Nat /\ zeros' =< 32 /\ zeros' >= Given
    BY <1>1, <1>3, <1>4, <1>6, <2>2
  <2>4. wordBits' = << >>
    BY <2>1, <2>2
  <2>5. zeros' \in 0 .. 32 /\ wordBits' \in Seq(Bit) /\ Len(wordBits') < 32
    BY <1>e, <2>3, <2>4
  <2>6. ~ (32 < Given /\ Given < 64) /\ Given # 64
    BY <1>1, <1>6
  <2> QED BY <2>2, <2>3, <2>4, <2>5, <2>6
<1>7. CASE 64 < Given
  <2>1. di = 0 /\ wordBits = << >>
    <3>1. Given - 64 \in Nat /\ 1 =< Given - 64 /\ Given - 64 =< 32 /\ 64 + (Given - 64) = Given
      BY <1>1, <1>7
    <3> QED BY <1>1, <1>4, <1>5, <1>7, <3>1
  <2>2. /\ zeros' = IF zeros < 32 THEN zeros + 1 ELSE 32
        /\ wordBits' = wordBits /\ lit' = lit
    BY <2>1 DEF ChipTakes
  <2>3. zeros' \in Nat /\ zeros' =< 32
    BY <1>3, <2>2
  <2>4. wordBits' = << >>
    BY <2>1, <2>2
  <2>5. zeros' \in 0 .. 32 /\ wordBits' \in Seq(Bit) /\ Len(wordBits') < 32
    BY <1>e, <2>3, <2>4
  <2>6. ~ (32 < Given /\ Given < 64) /\ Given # 64 /\ ~ Given =< 32
    BY <1>1, <1>7
  <2> QED BY <2>2, <2>4, <2>5, <2>6
<1>8. CASE 32 < Given /\ Given =< 64
  <2>1. Len(wordBits) = Given - 33 /\ Follows(Sent, 32, wordBits, Given - 33)
    <3>1. CASE Given = 33
      <4>1. wordBits = << >> /\ Given - 33 = 0
        BY <1>4, <3>1
      <4> QED BY <4>1 DEF Follows
    <3>2. CASE 33 < Given
      BY <1>4, <1>8, <3>2
    <3> QED BY <1>1, <1>8, <3>1, <3>2
  <2>2. zeros' = 0 /\ (Len(wordBits) < 31 => wordBits' = longer /\ lit' = lit)
        /\ (~ Len(wordBits) < 31 => /\ wordBits' = << >>
                                    /\ lit' = IF ChecksOut(longer) THEN ColourOf(longer)
                                              ELSE lit)
    <3>1. ~ (wordBits = << >> /\ (di = 0 \/ zeros < 32))
      <4>1. CASE Given = 33
        <5>1. di = 1 /\ zeros >= 32
          BY <1>1, <1>3, <1>4, <1>5, <4>1
        <5> QED BY <1>3, <5>1
      <4>2. CASE 33 < Given
        <5>1. Len(wordBits) # 0
          BY <1>1, <2>1, <4>2
        <5> QED BY <5>1
      <4> QED BY <1>1, <1>8, <4>1, <4>2
    <3> QED BY <3>1 DEF ChipTakes
  <2>3. longer \in Seq(Bit) /\ Len(longer) = Given - 32 /\ Follows(Sent, 32, longer, Given - 32)
    <3>1. /\ longer \in Seq(Bit) /\ Len(longer) = Len(wordBits) + 1
          /\ \A i \in 1 .. Len(wordBits) : longer[i] = wordBits[i]
          /\ longer[Len(wordBits) + 1] = di
      BY <1>1, <1>b, AppendProperties
    <3> HIDE DEF longer
    <3>2. Len(longer) = Given - 32
      BY <1>1, <2>1, <3>1
    <3>3. ASSUME NEW i \in Nat, 1 =< i, i =< Given - 32 PROVE Sent[32 + i] = longer[i]
      <4>1. CASE i =< Given - 33
        <5>1. i \in 1 .. Len(wordBits) /\ Sent[32 + i] = wordBits[i]
          BY <1>1, <2>1, <3>3, <4>1 DEF Follows
        <5> QED BY <3>1, <5>1
      <4>2. CASE i = Given - 32
        <5>1. i = Len(wordBits) + 1 /\ 32 + i = Given
          BY <1>1, <2>1, <4>2
        <5> QED BY <1>1, <3>1, <5>1
      <4> QED BY <1>1, <3>3, <4>1, <4>2
    <3> QED BY <3>1, <3>2, <3>3 DEF Follows
  <2> HIDE DEF longer
  <2>4. CASE Given < 64
    <3>1. wordBits' = longer /\ lit' = lit
      BY <1>1, <2>1, <2>2, <2>4
    <3>2. zeros' \in 0 .. 32 /\ wordBits' \in Seq(Bit) /\ Len(wordBits') < 32
      BY <1>1, <2>2, <2>3, <2>4, <3>1
    <3>3. Len(wordBits') = Given - 32 /\ Follows(Sent, 32, wordBits', Given - 32)
      BY <2>3, <3>1
    <3> QED BY <1>1, <1>8, <2>4, <3>1, <3>2, <3>3
  <2>5. CASE Given = 64
    <3>1. Follows(Sent, 32, longer, 32) /\ ~ Len(wordBits) < 31
      BY <2>1, <2>3, <2>5
    <3>2. ChecksOut(longer) /\ ColourOf(longer) = colour_sequence[Newest]
      BY <1>2, <3>1, WordIsRead, SMT
    <3>3. wordBits' = << >> /\ lit' = colour_sequence[Newest] /\ Len(<< >>) = 0
      BY <2>2, <3>1, <3>2
    <3> QED BY <2>2, <2>5, <3>3
  <2> QED BY <1>1, <1>8, <2>4, <2>5
<1> QED BY <1>1, <1>6, <1>7, <1>8

(* The frame of the colour put last, and how much of it is where.          *)
LEMMA Latest ==
    ASSUME ChainInv
    PROVE  /\ col_num \in 0 .. 7 /\ Newest \in 1 .. 8 /\ Newest = ((col_num + 7) % 8) + 1
           /\ colour_sequence[Newest] \in 0 .. White /\ colour_sequence[Newest] # Dark
           /\ Sent \in Seq(Bit) /\ Len(Sent) = 96 /\ Sent[96] = 0
           /\ Len(sending) \in Nat /\ Len(sending) =< 96 /\ sending \in Seq(Bit)
           /\ Given \in Nat /\ Given =< 96 /\ Given = 96 - Len(sending)
           /\ Clocked \in Nat /\ Clocked =< 96
<1>1. col_num \in 0 .. 7 /\ sending \in Seq(Bit) /\ Len(sending) =< 96
  BY DEF ChainInv, ChainTypeOK
<1>2. Newest \in 1 .. 8 /\ Newest = ((col_num + 7) % 8) + 1
  BY <1>1 DEF Newest
<1>3. PICK red \in Full, green \in Full, blue \in Full :
         /\ colour_sequence[Newest] = red * 65536 + green * 256 + blue
         /\ IsFrame(Sent, red, green, blue)
  BY <1>2, FrameOfColour, SMT DEF Sent
<1>4. Sent[64 + 32] = 0
  BY <1>3, FrameEnds
<1>5. Len(sending) \in Nat
  BY <1>1
<1>6. Given \in Nat /\ Given =< 96 /\ Given = 96 - Len(sending)
  BY <1>1, <1>5 DEF Given
<1>7. Clocked \in Nat /\ Clocked =< 96
  BY <1>6 DEF Clocked, ChainInv, OnTheWay
<1>8. Sent \in Seq(Bit) /\ Len(Sent) = 96
  BY <1>3 DEF IsFrame
<1>9. colour_sequence[Newest] \in 0 .. White /\ colour_sequence[Newest] # Dark
  BY <1>2, ColoursInRange, PlaceOf
<1>10. Sent[96] = 0
  BY <1>4
<1> QED BY <1>1, <1>2, <1>5, <1>6, <1>7, <1>8, <1>9, <1>10

(* The invariant holds at the start and is kept by each step of main, of   *)
(* control and of rgb_thread; only a rising clock changes what is shown.   *)
LEMMA ChainStarts == ChainInit => ChainInv
<1> SUFFICES ASSUME ChainInit PROVE ChainInv
  OBVIOUS
<1> USE DEF ChainInit
<1>1. \A S : << >> \in Seq(S) /\ Len(<< >>) = 0
  OBVIOUS
<1>2. ChainTypeOK
  <2>1. /\ colour_msgq \in Seq(0 .. White) /\ Len(colour_msgq) =< QueueSize
        /\ sending \in Seq(Bit) /\ Len(sending) =< 96
        /\ wordBits \in Seq(Bit) /\ Len(wordBits) < 32
    BY <1>1 DEF QueueSize
  <2>2. lit \in Dark .. White
    <3>1. Dark \in Int /\ White \in Int /\ Dark =< White
      BY SMT DEF Dark, White
    <3> QED BY <3>1
  <2> QED BY <2>1, <2>2 DEF ChainTypeOK, Bit
<1>3. Given = 96 /\ Clocked = 96 /\ Ahead = 0
  BY <1>1 DEF Given, Clocked, Ahead
<1>4. InTheQueue /\ Received
  BY <1>3 DEF InTheQueue, Received
<1>5. OnTheWay
  BY <1>1 DEF OnTheWay, Follows
<1>6. Showing
  BY <1>3 DEF Showing
<1> QED BY <1>2, <1>4, <1>5, <1>6 DEF ChainInv

LEMMA PutStep == ChainInv /\ ControlPut => ChainInv' /\ lit' = lit
<1> SUFFICES ASSUME ChainInv, ControlPut PROVE ChainInv' /\ lit' = lit
  OBVIOUS
<1>1. /\ phase # "unset" /\ sending = << >> /\ colour_msgq = << >>
      /\ col_num' = (col_num + 1) % 8 /\ lit' = lit /\ wordBits' = wordBits
      /\ zeros' = zeros /\ phase' = phase /\ ci' = ci /\ di' = di /\ sending' = sending
  BY DEF ControlPut, pins, chip
<1>2. col_num' \in 0 .. 7 /\ Newest' = col_num + 1 /\ Newest' \in 1 .. 8
  BY <1>1, Latest DEF Newest
<1>3. Len(colour_msgq) # QueueSize
  BY <1>1 DEF QueueSize
<1>4. colour_msgq' = Append(colour_msgq, colour_sequence[Newest'])
  BY <1>2, <1>3 DEF ControlPut
<1>5. colour_msgq' = <<colour_sequence[Newest']>>
  BY <1>1, <1>4
<1>6. colour_sequence[Newest'] \in 0 .. White
  BY <1>2, ColoursInRange
<1>7. colour_msgq' \in Seq(0 .. White) /\ Len(colour_msgq') =< QueueSize
  <2>1. Len(colour_msgq') = 1
    BY <1>5
  <2>2. ASSUME NEW v \in 0 .. White PROVE <<v>> \in Seq(0 .. White)
    OBVIOUS
  <2>3. colour_msgq' \in Seq(0 .. White)
    BY <1>5, <1>6, <2>2
  <2> QED BY <2>1, <2>3 DEF QueueSize
<1>8. ChainTypeOK'
  BY <1>1, <1>2, <1>7 DEF ChainInv, ChainTypeOK
<1>9. Given = 96 /\ Given' = 96 /\ Clocked \in {95, 96} /\ Clocked' = Clocked
      /\ Len(sending) = 0
  BY <1>1 DEF Given, Clocked
<1>10. Ahead = 0 /\ Ahead' = 1
  <2>1. colour_msgq' # << >>
    BY <1>5
  <2> QED BY <1>1, <1>9, <2>1 DEF Ahead
<1>11. InTheQueue'
  BY <1>1, <1>5 DEF InTheQueue
<1>12. OnTheWay'
  <2>1. \A k \in 1 .. 8 : FrameOf(colour_sequence[k])[96] = 0
    <3>1. ASSUME NEW k \in 1 .. 8 PROVE FrameOf(colour_sequence[k])[64 + 32] = 0
      <4>1. PICK red \in Full, green \in Full, blue \in Full :
               IsFrame(FrameOf(colour_sequence[k]), red, green, blue)
        BY FrameOfColour
      <4> QED BY <4>1, FrameEnds
    <3> QED BY <3>1
  <2>2. Sent'[96] = 0
    BY <1>2, <2>1 DEF Sent
  <2>3. phase \in {"low", "high"} => di = Sent[96]
    BY <1>9 DEF ChainInv, OnTheWay
  <2>4. phase' \in {"low", "high"} => Given' >= 1 /\ di' = Sent'[Given']
    BY <1>1, <1>9, <2>2, <2>3, Latest
  <2>5. phase' = "high" => ci' = 0
    BY <1>1 DEF ChainInv, OnTheWay
  <2>6. Follows(Sent, Given, sending, Len(sending))'
    BY <1>1, <1>9 DEF Follows
  <2> QED BY <2>4, <2>5, <2>6 DEF OnTheWay
<1>13. Received'
  <2>1. wordBits = << >>
    BY <1>9 DEF ChainInv, Received
  <2> QED BY <1>1, <1>9, <2>1 DEF Received
<1>14. Showing'
  <2>1. CASE lit = Dark
    <3>1. col_num = 0
      BY <1>10, <2>1 DEF ChainInv, Showing
    <3> QED BY <1>1, <1>10, <2>1, <3>1 DEF Showing
  <2>2. CASE lit # Dark
    <3>1. lit = colour_sequence[((col_num + 7 - 0) % 8) + 1]
      BY <1>10, <2>2 DEF ChainInv, Showing
    <3>2. (col_num + 7 - 0) % 8 = (col_num' + 7 - 1) % 8
      BY <1>1, Latest
    <3> QED BY <1>1, <1>10, <2>2, <3>1, <3>2 DEF Showing
  <2> QED BY <2>1, <2>2
<1> QED BY <1>1, <1>8, <1>11, <1>12, <1>13, <1>14 DEF ChainInv

LEMMA GetStep == ChainInv /\ RgbGet => ChainInv' /\ lit' = lit
<1> SUFFICES ASSUME ChainInv, RgbGet PROVE ChainInv' /\ lit' = lit
  OBVIOUS
<1>1. /\ phase = "data" /\ sending = << >> /\ colour_msgq # << >>
      /\ col_num' = col_num /\ lit' = lit /\ wordBits' = wordBits
      /\ zeros' = zeros /\ phase' = phase /\ ci' = ci /\ di' = di
      /\ colour_msgq' = Tail(colour_msgq) /\ sending' = FrameOf(Head(colour_msgq))
  BY DEF RgbGet, FrameOf, pins, chip
<1>2. colour_msgq = <<colour_sequence[Newest]>>
  BY <1>1 DEF ChainInv, InTheQueue
<1>3. colour_msgq' = << >> /\ sending' = Sent
  <2>1. Head(colour_msgq) = colour_sequence[Newest] /\ Tail(colour_msgq) = << >>
    BY <1>2
  <2> QED BY <1>1, <2>1 DEF Sent
<1>4. Newest' = Newest /\ Sent' = Sent
  BY <1>1 DEF Newest, Sent
<1>5. Len(sending') = 96 /\ sending' \in Seq(Bit)
  BY <1>3, Latest
<1>6. Given' = 0 /\ Clocked' = 0 /\ Ahead = 1 /\ Ahead' = 1
  <2>1. Given' = 0
    BY <1>5 DEF Given
  <2>2. Clocked' = 0
    BY <1>1, <2>1 DEF Clocked
  <2> QED BY <1>1, <2>1, <2>2 DEF Ahead
<1>7. ChainTypeOK'
  <2>1. << >> \in Seq(0 .. White) /\ Len(<< >>) =< QueueSize
    BY DEF QueueSize
  <2>2. colour_msgq' \in Seq(0 .. White) /\ Len(colour_msgq') =< QueueSize
    BY <1>3, <2>1
  <2>3. sending' \in Seq(Bit) /\ Len(sending') =< 96
    BY <1>5
  <2> QED BY <1>1, <2>2, <2>3 DEF ChainInv, ChainTypeOK
<1>8. InTheQueue'
  BY <1>3 DEF InTheQueue
<1>9. OnTheWay'
  <2>1. Follows(Sent, 0, Sent, 96)
    BY DEF Follows
  <2>2. Follows(Sent, Given, sending, Len(sending))'
    BY <1>3, <1>4, <1>5, <1>6, <2>1
  <2> QED BY <1>1, <2>2 DEF OnTheWay
<1>10. Received'
  <2>1. wordBits = << >>
    <3>1. Len(sending) = 0
      BY <1>1
    <3>2. Clocked = 96
      BY <1>1, <3>1 DEF Given, Clocked
    <3> QED BY <3>2 DEF ChainInv, Received
  <2>2. zeros \in Nat
    BY DEF ChainInv, ChainTypeOK
  <2> QED BY <1>1, <1>6, <2>1, <2>2 DEF Received
<1>11. Showing'
  BY <1>1, <1>6 DEF ChainInv, Showing
<1> QED BY <1>1, <1>7, <1>8, <1>9, <1>10, <1>11 DEF ChainInv

LEMMA DataStep == ChainInv /\ SetData => ChainInv' /\ lit' = lit
<1> SUFFICES ASSUME ChainInv, SetData PROVE ChainInv' /\ lit' = lit
  OBVIOUS
<1>1. /\ phase = "data" /\ sending # << >> /\ di' = Head(sending)
      /\ sending' = Tail(sending) /\ phase' = "low"
      /\ col_num' = col_num /\ lit' = lit /\ wordBits' = wordBits
      /\ zeros' = zeros /\ ci' = ci /\ colour_msgq' = colour_msgq
  BY DEF SetData, chip
<1>2. sending \in Seq(Bit) /\ Len(sending) \in Nat /\ Len(sending) =< 96
  BY Latest
<1>3. /\ Head(sending) = sending[1] /\ Head(sending) \in Bit
      /\ sending' \in Seq(Bit) /\ Len(sending') = Len(sending) - 1 /\ Len(sending) >= 1
      /\ \A i \in 1 .. Len(sending) - 1 : sending'[i] = sending[i + 1]
  <2>1. Len(sending) >= 1
    BY <1>1, <1>2, EmptySeq
  <2>2. Head(sending) = sending[1] /\ Head(sending) \in Bit
    BY <1>1, <1>2, <2>1, ElementOfSeq
  <2>3. /\ Tail(sending) \in Seq(Bit) /\ Len(Tail(sending)) = Len(sending) - 1
        /\ \A i \in 1 .. Len(sending) - 1 : Tail(sending)[i] = sending[i + 1]
    BY <1>1, <1>2, HeadTailProperties
  <2> QED BY <1>1, <2>1, <2>2, <2>3
<1>4. Newest' = Newest /\ Sent' = Sent
  BY <1>1 DEF Newest, Sent
<1>5. Given' = Given + 1 /\ Clocked' = Clocked /\ Given \in Nat
      /\ Given = 96 - Len(sending)
  <2>1. Given' = Given + 1 /\ Given \in Nat /\ Given = 96 - Len(sending)
    BY <1>2, <1>3 DEF Given
  <2> QED BY <1>1, <2>1 DEF Clocked
<1>6. ChainTypeOK'
  BY <1>1, <1>2, <1>3 DEF ChainInv, ChainTypeOK
<1>7. colour_msgq = << >> /\ InTheQueue'
  BY <1>1 DEF ChainInv, InTheQueue
<1>8. OnTheWay'
  <2>1. Follows(Sent, Given, sending, Len(sending))
    BY DEF ChainInv, OnTheWay
  <2>2. Sent[Given + 1] = sending[1]
    BY <1>3, <2>1 DEF Follows
  <2>3. ASSUME NEW i \in Nat, 1 =< i, i =< Len(sending) - 1
        PROVE  Sent[(Given + 1) + i] = sending'[i]
    <3>1. i + 1 \in Nat /\ 1 =< i + 1 /\ i + 1 =< Len(sending)
          /\ Given + (i + 1) = (Given + 1) + i /\ i \in 1 .. Len(sending) - 1
      BY <1>2, <1>5, <2>3
    <3>2. Sent[Given + (i + 1)] = sending[i + 1]
      BY <2>1, <3>1 DEF Follows
    <3> QED BY <1>3, <3>1, <3>2
  <2>4. Follows(Sent', Given', sending', Len(sending'))
    BY <1>3, <1>4, <1>5, <2>3 DEF Follows
  <2>5. phase' \in {"low", "high"} => Given' >= 1 /\ di' = Sent'[Given']
    BY <1>1, <1>3, <1>4, <1>5, <2>2
  <2>6. phase' # "high"
    BY <1>1
  <2> QED BY <2>4, <2>5, <2>6 DEF OnTheWay
<1>9. Received'
  BY <1>1, <1>4, <1>5 DEF ChainInv, Received
<1>10. Ahead' = Ahead
  BY <1>1, <1>5 DEF Ahead
<1>11. Showing'
  BY <1>1, <1>10 DEF ChainInv, Showing
<1> QED BY <1>1, <1>6, <1>7, <1>8, <1>9, <1>11 DEF ChainInv

(* The steps that only move the pins: the start, and the falling clock.    *)
LEMMA PinStep == ChainInv /\ (ChainMain \/ ClkLow) => ChainInv' /\ lit' = lit
<1> SUFFICES ASSUME ChainInv, ChainMain \/ ClkLow PROVE ChainInv' /\ lit' = lit
  OBVIOUS
<1>1. /\ col_num' = col_num /\ colour_msgq' = colour_msgq /\ sending' = sending
      /\ zeros' = zeros /\ wordBits' = wordBits /\ lit' = lit
      /\ \/ phase \in {"unset", "data"} /\ phase' = "data" /\ ci' = 1 /\ di' = 1
         \/ phase = "low" /\ phase' = "high" /\ ci' = 0 /\ di' = di
  BY DEF ChainMain, ClkLow, chip
<1>2. Newest' = Newest /\ Sent' = Sent /\ Given' = Given /\ Clocked' = Clocked
  BY <1>1 DEF Newest, Sent, Given, Clocked
<1>3. Ahead' = Ahead
  BY <1>1, <1>2 DEF Ahead
<1>4. ChainTypeOK'
  BY <1>1 DEF ChainInv, ChainTypeOK, Bit
<1>5. InTheQueue' /\ Showing'
  BY <1>1, <1>2, <1>3 DEF ChainInv, InTheQueue, Showing
<1>6. OnTheWay'
  BY <1>1, <1>2 DEF ChainInv, OnTheWay
<1>7. Received'
  BY <1>1, <1>2 DEF ChainInv, Received
<1> QED BY <1>1, <1>4, <1>5, <1>6, <1>7 DEF ChainInv

LEMMA ClockStep ==
    ChainInv /\ ClkHigh =>
        /\ ChainInv'
        /\ lit' = lit \/ (Ahead = 1 /\ lit' = colour_sequence[Newest])
<1> SUFFICES ASSUME ChainInv, ClkHigh
             PROVE  /\ ChainInv'
                    /\ lit' = lit \/ (Ahead = 1 /\ lit' = colour_sequence[Newest])
  OBVIOUS
<1>1. /\ phase = "high" /\ ci' = 1 /\ phase' = "data" /\ col_num' = col_num
      /\ colour_msgq' = colour_msgq /\ sending' = sending /\ di' = di
  BY DEF ClkHigh
<1>2. ci = 0 /\ Given >= 1
  BY <1>1 DEF ChainInv, OnTheWay
<1>3. ChipTakes(di)
  BY <1>2 DEF ClkHigh
<1>4. /\ zeros' \in 0 .. 32 /\ wordBits' \in Seq(Bit) /\ Len(wordBits') < 32
      /\ Given =< 32 => zeros' >= Given
      /\ IF 32 < Given /\ Given < 64
         THEN /\ Len(wordBits') = Given - 32
              /\ Follows(Sent, 32, wordBits', Given - 32)
         ELSE wordBits' = << >>
      /\ lit' = IF Given = 64 THEN colour_sequence[Newest] ELSE lit
  BY <1>1, <1>3, ChipStep
<1>5. Newest' = Newest /\ Sent' = Sent /\ Given' = Given /\ Clocked' = Given
      /\ Clocked = Given - 1
  BY <1>1 DEF Newest, Sent, Given, Clocked
<1>6. ChainTypeOK'
  <2>1. \A c \in 0 .. White : c \in Dark .. White
    <3>1. White \in Int
      BY SMT DEF White
    <3> QED BY <3>1 DEF Dark
  <2>2. lit' \in Dark .. White
    BY <1>4, <2>1, Latest DEF ChainInv, ChainTypeOK
  <2> QED BY <1>1, <1>4, <2>2 DEF ChainInv, ChainTypeOK, Bit
<1>7. InTheQueue'
  BY <1>1, <1>5 DEF ChainInv, InTheQueue
<1>8. OnTheWay'
  BY <1>1, <1>5 DEF ChainInv, OnTheWay
<1>9. Received'
  BY <1>4, <1>5 DEF Received
<1>10. Given # 64 => Ahead' = Ahead
  BY <1>1, <1>5, Latest DEF Ahead
<1>11. Given = 64 => Ahead = 1 /\ Ahead' = 0
  <2>1. ASSUME Given = 64 PROVE colour_msgq = << >>
    <3>1. Len(sending) \in Nat /\ Given = 96 - Len(sending)
      BY Latest
    <3>2. sending # << >>
      <4>1. ASSUME sending = << >> PROVE Given = 96
        BY <4>1 DEF Given
      <4> QED BY <2>1, <4>1
    <3> QED BY <3>2 DEF ChainInv, InTheQueue
  <2> QED BY <1>1, <1>5, <2>1 DEF Ahead
<1>12. Showing'
  <2>1. CASE Given = 64
    <3>1. lit' = colour_sequence[Newest] /\ lit' # Dark /\ Ahead' = 0
      BY <1>4, <1>11, <2>1, Latest
    <3>2. Newest = ((col_num' + 7 - 0) % 8) + 1
      BY <1>1, Latest
    <3> QED BY <3>1, <3>2 DEF Showing
  <2>2. CASE Given # 64
    BY <1>1, <1>4, <1>10, <2>2 DEF ChainInv, Showing
  <2> QED BY <2>1, <2>2
<1> QED BY <1>4, <1>6, <1>7, <1>8, <1>9, <1>11, <1>12 DEF ChainInv

LEMMA ChainStep == ChainInv /\ [ChainNext]_chainVars => ChainInv'
<1> SUFFICES ASSUME ChainInv, [ChainNext]_chainVars PROVE ChainInv'
  OBVIOUS
<1>1. CASE ChainNext
  BY <1>1, PutStep, GetStep, DataStep, PinStep, ClockStep DEF ChainNext, Rgb
<1>2. CASE UNCHANGED chainVars
  <2>1. /\ col_num' = col_num /\ colour_msgq' = colour_msgq /\ sending' = sending
        /\ zeros' = zeros /\ wordBits' = wordBits /\ lit' = lit
        /\ phase' = phase /\ ci' = ci /\ di' = di
    BY <1>2 DEF chainVars, pins, chip
  <2>2. Newest' = Newest /\ Sent' = Sent /\ Given' = Given /\ Clocked' = Clocked
    BY <2>1 DEF Newest, Sent, Given, Clocked
  <2>3. Ahead' = Ahead
    BY <2>1, <2>2 DEF Ahead
  <2>4. ChainTypeOK'
    BY <2>1 DEF ChainInv, ChainTypeOK
  <2>5. InTheQueue' /\ OnTheWay'
    BY <2>1, <2>2 DEF ChainInv, InTheQueue, OnTheWay
  <2>6. Received' /\ Showing'
    BY <2>1, <2>2, <2>3 DEF ChainInv, Received, Showing
  <2> QED BY <2>4, <2>5, <2>6 DEF ChainInv
<1> QED BY <1>1, <1>2

LEMMA ChainAlways == ChainSpec => []ChainInv
<1>1. QED
  BY ChainStarts, ChainStep, PTL DEF ChainSpec

(* The queue of colours, the pins and the chip keep their types: put never *)
(* finds the queue full, a frame has 96 bits, a word of the chip 32.       *)
THEOREM ChainTypeCorrect == ChainSpec => []ChainTypeOK
<1>1. ChainInv => ChainTypeOK
  BY DEF ChainInv
<1> QED BY <1>1, ChainAlways, PTL

(* Whatever changes what is shown turns the wheel by one.                  *)
LEMMA WheelStep == ChainInv /\ [ChainNext]_chainVars => [Wheel!Turn]_Place
<1> SUFFICES ASSUME ChainInv, [ChainNext]_chainVars
             PROVE  Place' = (Place + 1) % 8 \/ Place' = Place
  BY DEF Wheel!Turn
<1>1. lit' = lit \/ (Ahead = 1 /\ lit' = colour_sequence[Newest])
  BY PutStep, GetStep, DataStep, PinStep, ClockStep DEF ChainNext, Rgb, chainVars, chip
<1>2. CASE lit' = lit
  BY <1>2 DEF Place
<1>3. CASE Ahead = 1 /\ lit' = colour_sequence[Newest]
  <2>1. Place' = (col_num + 7) % 8
    <3>0. Newest \in 1 .. 8
      BY Latest
    <3>1. Place' = Newest - 1
      <4>1. (CHOOSE i \in 1 .. 8 : colour_sequence[i] = lit') = Newest /\ lit' # Dark
        BY <1>3, <3>0, PlaceOf
      <4> QED BY <4>1 DEF Place
    <3> QED BY <3>1, Latest
  <2>2. CASE lit = Dark
    <3>1. col_num = 1
      BY <1>3, <2>2 DEF ChainInv, Showing
    <3>2. Place = -1
      BY <2>2 DEF Place
    <3> QED BY <2>1, <3>1, <3>2
  <2>3. CASE lit # Dark
    <3> DEFINE k == ((col_num + 7 - 1) % 8) + 1
    <3>1. k \in 1 .. 8 /\ k - 1 = (col_num + 6) % 8
      <4>1. col_num \in 0 .. 7
        BY Latest
      <4>2. col_num + 7 - 1 = col_num + 6 /\ (col_num + 6) % 8 \in 0 .. 7
        BY <4>1
      <4> QED BY <4>2
    <3>2. lit = colour_sequence[k]
      BY <1>3, <2>3 DEF ChainInv, Showing
    <3> HIDE DEF k
    <3>3. Place = k - 1
      <4>1. (CHOOSE i \in 1 .. 8 : colour_sequence[i] = lit) = k
        BY <3>1, <3>2, PlaceOf
      <4> QED BY <2>3, <4>1 DEF Place
    <3>4. (((col_num + 6) % 8) + 1) % 8 = (col_num + 7) % 8
      BY Latest
    <3> QED BY <2>1, <3>1, <3>3, <3>4
  <2> QED BY <2>2, <2>3
<1> QED BY <1>1, <1>2, <1>3

(* The chip is made to show the eight colours in the order of the table:   *)
(* no frame of send_rgb_data is refused, none is misread.                  *)
THEOREM WheelCorrect == ChainSpec => ShowsTheWheel
<1>1. ChainInit => Wheel!Init
  BY DEF ChainInit, Wheel!Init, Place
<1> QED BY <1>1, WheelStep, ChainAlways, PTL DEF ChainSpec, ShowsTheWheel, Wheel!Spec

-------------------------------------------------------------------------------

(* A step is one of the program on the board; the others rest.             *)
LEMMA OthersRest ==
    ASSUME [ProgramNext]_everything
    PROVE  /\ [RingNext]_ringVars /\ [RtcNext]_rtcVars /\ [RngNext]_rngVars
           /\ [ChainNext]_chainVars /\ [LedsNext]_ledVars /\ [GasNext]_gasVars
           /\ [WifiNext]_wifiVars /\ [UltraNext]_ultraVars /\ [UploadNext]_uploadVars
BY DEF ProgramNext, On, everything

(* The specification that holds all the programs runs each of them as its  *)
(* own specification says.                                                 *)
THEOREM ProgramsRun ==
    ProgramSpec => /\ RingSpec /\ RtcSpec /\ RngSpec /\ ChainSpec /\ LedSpec
                   /\ GasSpec /\ WifiSpec /\ UltraSpec /\ UploadSpec
<1>1. ProgramInit => /\ RingInit /\ RtcInit /\ RngInit /\ ChainInit /\ LedInit
                     /\ GasInit /\ WifiInit /\ UltraInit /\ UploadInit
  BY DEF ProgramInit
<1> QED BY <1>1, OthersRest, PTL DEF ProgramSpec, RingSpec, RtcSpec, RngSpec, ChainSpec,
           LedSpec, GasSpec, WifiSpec, UltraSpec, UploadSpec

(* No variable of any of the programs ever leaves its type.                *)
THEOREM ProgramTypeCorrect == ProgramSpec => []ProgramTypeOK
<1>1. RingTypeOK /\ RtcTypeOK /\ RngTypeOK /\ ChainTypeOK /\ LedTypeOK
         /\ GasTypeOK /\ WifiTypeOK /\ UltraTypeOK /\ UploadTypeOK => ProgramTypeOK
  BY DEF ProgramTypeOK
<1> QED BY <1>1, ProgramsRun, RingTypeCorrect, RtcTypeCorrect, RngTypeCorrect,
           ChainTypeCorrect, LedTypeCorrect, GasTypeCorrect, WifiTypeCorrect,
           UltraTypeCorrect, UploadTypeCorrect, PTL

(* And what is proved of each program alone holds of it here: every safety *)
(* property that the programs have.                                        *)
THEOREM ProgramsCorrect ==
    ProgramSpec => /\ [](/\ CommandsObeyed /\ ShowsLatest /\ DistWasMeasured
                         /\ SocketsClosed /\ LinesWhole)
                   /\ ErrorResyncs /\ ImplementsQueue /\ DefaultOnlyOnMisread
                   /\ EachNumberOnce /\ ShowsTheWheel /\ StaysInStep
                   /\ ConnectsWhenInformed
BY ProgramsRun, CommandsCorrect, LatestCorrect, DistCorrect, UploadSocketsClosed,
   LinesCorrect, ResyncCorrect, QueueCorrect, MisreadCorrect, NumbersCorrect,
   WheelCorrect, InStepCorrect, ConnectsCorrect, PTL
===============================================================================
