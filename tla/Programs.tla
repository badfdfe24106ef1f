-------------------------------- MODULE Programs --------------------------------
(***************************************************************************)
(* The small programs of the repository.  They have nothing in common, so  *)
(* that one specification can hold them all: program is the one on the     *)
(* board, and only that one moves.                                         *)
(***************************************************************************)
EXTENDS ByteRing, RtcClock, RngDisplay, ChainableLed, LedShell, GasColour, WifiStart,
        UltrasonicNode, UploadSampling

VARIABLE program

ProgramInit ==
    /\ program \in {"ring", "rtc", "rng", "chain", "led", "gas", "wifi", "ultra", "upload"}
    /\ RingInit /\ RtcInit /\ RngInit /\ ChainInit /\ LedInit
    /\ GasInit /\ WifiInit /\ UltraInit /\ UploadInit
    /\ program # "ultra" => person = <<0, 5000>>

On(p) == /\ program = p /\ UNCHANGED program
         /\ p # "ring"   => UNCHANGED ringVars
         /\ p # "rtc"    => UNCHANGED rtcVars
         /\ p # "rng"    => UNCHANGED rngVars
         /\ p # "chain"  => UNCHANGED chainVars
         /\ p # "led"    => UNCHANGED ledVars
         /\ p # "gas"    => UNCHANGED gasVars
         /\ p # "wifi"   => UNCHANGED wifiVars
         /\ p # "ultra"  => UNCHANGED ultraVars
         /\ p # "upload" => UNCHANGED uploadVars

ProgramNext == \/ On("ring") /\ RingNext
               \/ On("rtc") /\ RtcNext
               \/ On("rng") /\ RngNext
               \/ On("chain") /\ ChainNext
               \/ On("led") /\ LedsNext
               \/ On("gas") /\ GasNext
               \/ On("wifi") /\ WifiNext
               \/ On("ultra") /\ UltraNext
               \/ On("upload") /\ UploadNext

everything == <<program, ringVars, rtcVars, rngVars, chainVars, ledVars, gasVars,
                wifiVars, ultraVars, uploadVars>>

(* Threads are scheduled, sleeps end and pins are driven; the sensor       *)
(* thread of the gas indicator delivers when it is asked and gets the      *)
(* mutex that it may need; the handler handles its events;                 *)
(* measurements succeed and frames arrive now and then.  Nothing is        *)
(* assumed of the network and of the server.                               *)
Fairness ==
    /\ WF_everything(On("chain") /\ ChainNext)
    /\ WF_everything(On("gas") /\ Control)
    /\ WF_everything(On("gas") /\ Setter)
    /\ WF_everything(On("gas") /\ GasTick)
    /\ WF_everything(On("gas") /\ sensorSignal /\ ProducerStarts)
    /\ WF_everything(On("gas") /\ (Delivers \/ ProducerEnds))
    /\ WF_everything(On("wifi") /\ MainSteps)
    /\ WF_everything(On("wifi") /\ Handler)
    /\ WF_everything(On("ultra") /\ UltraNode)
    /\ SF_everything(On("ultra") /\ UltraSucceeds)
    /\ \A d \in Distances : SF_everything(On("ultra") /\ Arrives(d))
    /\ WF_everything(On("upload") /\ SingleSensorJson)
    /\ WF_everything(On("upload") /\ AllSensorsReport)
    /\ WF_everything(On("upload") /\ AllSensorsEnds)
    /\ WF_everything(On("upload") /\ AllSensorsWakes)
    /\ WF_everything(On("upload") /\ (Socket \/ Connect \/ Send))
    /\ \A s \in Sensors : WF_everything(On("upload") /\ SensorThread(s))

ProgramSpec == ProgramInit /\ [][ProgramNext]_everything /\ Fairness

-------------------------------------------------------------------------------

(* Types of all programs.                                                  *)
ProgramTypeOK ==
    /\ RingTypeOK /\ RtcTypeOK /\ RngTypeOK /\ ChainTypeOK /\ LedTypeOK
    /\ GasTypeOK /\ WifiTypeOK /\ UltraTypeOK /\ UploadTypeOK

(* prac1/task2/src/main.c: the chip shows the eight colours for ever.      *)
ColoursKeepTurning == program = "chain" => WheelTurns

(* thingy52_gas_colour.c: values keep being shown unless one is too big to *)
(* fetch or the sensor thread and the control thread wait for each other.  *)
GoesOnIndicating == program = "gas" => KeepsIndicating

(* prac3/ultrasonic and basenode: the distance of a person who stays is    *)
(* found out.                                                              *)
PersonIsFound == program = "ultra" => FindsPerson
===============================================================================
