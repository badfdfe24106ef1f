------------------------------- MODULE RssiLink -------------------------------
(***************************************************************************)
(* The way of an RSSI value in prac 3: a beacon is heard by the mobile     *)
(* node's receive thread (device_found), which stores it in beacon_rssi[]; *)
(* the mobile node's main loop copies that array into an advertisement;    *)
(* the base node's receive thread (its device_found) copies the bytes of   *)
(* an advertisement into rssi_values[] under rssi_mutex; thread_pos and    *)
(* thread_json read rssi_values[] under the same mutex.                    *)
(*                                                                         *)
(* A value is a record: whose signal it is and which of the strengths that *)
(* beacon has had in turn.                                                 *)
(***************************************************************************)
EXTENDS Integers

CONSTANTS Beacons,   (* how many beacons there are: 13                      *)
          MaxMoves   (* bound on the changes of signal strength             *)

ASSUME BeaconsAssumption == Beacons \in Nat \ {0, 1}
ASSUME MovesAssumption   == MaxMoves \in Nat

Index   == 1 .. Beacons
Default == [of |-> 0, strength |-> 0]             (* -120, no measurement   *)
Uuid    == [of |-> 0, strength |-> 1]             (* a byte of the UUID     *)
Signal  == [of: Index, strength: 0 .. MaxMoves]
Value   == Signal \cup {Default, Uuid}
Frame   == [Index -> Value]
NoFrame == << >>

VARIABLES
    air,           (* the strength of each beacon where the mobile node is  *)
    filtered,      (* beacons in the scanner's duplicate filter             *)
    beacon_rssi,   (* mobile node: last value heard                         *)
    ad1,           (* mobile node: the frame being built                    *)
    built,         (* mobile node: bytes of it that are done                *)
    advert,        (* the frame on the air; NoFrame before advertising      *)
    packet,        (* base node: the frame its device_found works on        *)
    rssi_values,   (* base node: the values in use                          *)
    reading,       (* base node: values read by the current reader          *)
    snapshot       (* base node: what the reader has copied                 *)

mobileVars == <<air, filtered, beacon_rssi, ad1, built, advert>>
baseVars   == <<packet, rssi_values, reading, snapshot>>
vars == <<mobileVars, baseVars>>

TypeOK == /\ air \in [Index -> 0 .. MaxMoves]
          /\ filtered \subseteq Index
          /\ beacon_rssi \in Frame
          /\ ad1 \in Frame
          /\ built \in 0 .. Beacons
          /\ advert \in Frame \cup {NoFrame}
          /\ packet \in Frame \cup {NoFrame}
          /\ rssi_values \in Frame
          /\ reading \in {-1} \cup 0 .. Beacons
          /\ snapshot \in Frame

Silence == [i \in Index |-> Default]

Init == /\ air = [i \in Index |-> 0]
        /\ filtered = {}
        /\ beacon_rssi = Silence
        /\ ad1 = Silence
        /\ built = 0
        /\ advert = NoFrame
        /\ packet = NoFrame
        /\ rssi_values = Silence
        /\ reading = -1
        /\ snapshot = Silence

-------------------------------------------------------------------------------
(* The mobile node and the air around it.                                  *)

(* The mobile node is carried to a place where beacon i has another        *)
(* strength.                                                               *)
Move(i) == /\ air[i] < MaxMoves
           /\ air' = [air EXCEPT ![i] = @ + 1]
           /\ UNCHANGED <<filtered, beacon_rssi, ad1, built, advert, baseVars>>

(* Mutant: only the first value heard is stored.                           *)
MobileDeviceFoundOnce(i) ==
    /\ i \notin filtered
    /\ filtered' = filtered \cup {i}
    /\ beacon_rssi' = IF beacon_rssi[i] # Default THEN beacon_rssi
                      ELSE [beacon_rssi EXCEPT ![i] = [of |-> i, strength |-> air[i]]]
    /\ UNCHANGED <<air, ad1, built, advert, baseVars>>

(* The scan runs with BT_LE_SCAN_OPT_FILTER_DUPLICATE: the controller      *)
(* reports an address once and then not until it has dropped out of its    *)
(* filter.                                                                 *)
MobileDeviceFound(i) ==
    /\ i \notin filtered
    /\ filtered' = filtered \cup {i}
    /\ beacon_rssi' = [beacon_rssi EXCEPT ![i] = [of |-> i, strength |-> air[i]]]
    /\ UNCHANGED <<air, ad1, built, advert, baseVars>>

FilterForgets(i) ==
    /\ i \in filtered
    /\ filtered' = filtered \ {i}
    /\ UNCHANGED <<air, beacon_rssi, ad1, built, advert, baseVars>>

(* Mutant: the static frame is one byte short.                             *)
AdvStartShort == /\ advert = NoFrame
                 /\ advert' = [i \in 1 .. Beacons - 1 |-> Uuid]
                 /\ UNCHANGED <<air, filtered, beacon_rssi, ad1, built, baseVars>>

(* Advertising starts with the static frame: as long as a frame of values, *)
(* with bytes of the UUID in their place.                                  *)
AdvStart == /\ advert = NoFrame
            /\ advert' = [i \in Index |-> Uuid]
            /\ UNCHANGED <<air, filtered, beacon_rssi, ad1, built, baseVars>>

(* The loop reads the array byte by byte; the receive thread may preempt   *)
(* it anywhere.                                                            *)
BuildByte == /\ advert # NoFrame /\ built < Beacons
             /\ built' = built + 1
             /\ ad1' = [ad1 EXCEPT ![built + 1] = beacon_rssi[built + 1]]
             /\ UNCHANGED <<air, filtered, beacon_rssi, advert, baseVars>>

AdvUpdate == /\ built = Beacons
             /\ advert' = ad1
             /\ built' = 0
             /\ UNCHANGED <<air, filtered, beacon_rssi, ad1, baseVars>>

(* Mutant: after an error advertising starts again with the static frame.  *)
AdvUpdateFailsRestart == /\ built = Beacons
                         /\ built' = 0
                         /\ advert' = [i \in Index |-> Uuid]
                         /\ UNCHANGED <<air, filtered, beacon_rssi, ad1, baseVars>>

(* bt_le_adv_update_data failed: the error is printed, the old frame stays *)
AdvUpdateFails == /\ built = Beacons
                  /\ built' = 0
                  /\ UNCHANGED <<air, filtered, beacon_rssi, ad1, advert, baseVars>>

-------------------------------------------------------------------------------
(* The base node.                                                          *)

Reading == reading >= 0        (* a reader holds rssi_mutex                 *)

(* A frame arrives.  Frames that do not arrive are lost; the same frame    *)
(* arrives any number of times.                                            *)
Receive == /\ advert # NoFrame /\ packet = NoFrame
           /\ packet' = advert
           /\ UNCHANGED <<mobileVars, rssi_values, reading, snapshot>>

(* Mutant: the loop starts one byte too late.                              *)
CopiedShifted(values, frame) ==
    [i \in Index |-> IF i < Beacons THEN frame[i + 1] ELSE values[i]]

(* The loop over data[9] .. data[20] fills all entries but the last.  The  *)
(* receive thread is not preempted, so once it has the mutex the loop is   *)
(* one step.                                                               *)
Copied(values, frame) == [i \in Index |-> IF i < Beacons THEN frame[i] ELSE values[i]]

(* Mutant: the values are stored without the mutex.                        *)
BaseDeviceFoundUnlocked ==
    /\ packet # NoFrame
    /\ rssi_values' = Copied(rssi_values, packet)
    /\ packet' = NoFrame
    /\ UNCHANGED <<mobileVars, reading, snapshot>>

BaseDeviceFound ==
    /\ packet # NoFrame /\ ~ Reading
    /\ rssi_values' = Copied(rssi_values, packet)
    /\ packet' = NoFrame
    /\ UNCHANGED <<mobileVars, reading, snapshot>>

(* thread_pos or thread_json takes the mutex, which goes to the receive    *)
(* thread first if that waits for it, and copies value after value.        *)
ReaderLock == /\ ~ Reading /\ packet = NoFrame
              /\ reading' = 0
              /\ UNCHANGED <<mobileVars, packet, rssi_values, snapshot>>

ReadValue == /\ Reading /\ reading < Beacons
             /\ reading' = reading + 1
             /\ snapshot' = [snapshot EXCEPT ![reading + 1] = rssi_values[reading + 1]]
             /\ UNCHANGED <<mobileVars, packet, rssi_values>>

ReaderUnlock == /\ reading = Beacons
                /\ reading' = -1
                /\ UNCHANGED <<mobileVars, packet, rssi_values, snapshot>>

-------------------------------------------------------------------------------

MobileLoop == AdvStart \/ BuildByte \/ AdvUpdate \/ AdvUpdateFails
Reader     == ReaderLock \/ ReadValue \/ ReaderUnlock

Next == \/ \E i \in Index : Move(i) \/ MobileDeviceFound(i) \/ FilterForgets(i)
        \/ MobileLoop
        \/ Receive \/ BaseDeviceFound
        \/ Reader

Spec == Init /\ [][Next]_vars

(* Threads are scheduled, an update succeeds again and again, a beacon in  *)
(* range whose address is not filtered is reported, and not all frames are *)
(* lost.  Nothing makes the filter forget: it has 16 entries in the build, *)
(* more than there are beacons.                                            *)
FairSpec == /\ Spec
            /\ WF_vars(MobileLoop) /\ SF_vars(AdvUpdate)
            /\ \A i \in Index : WF_vars(MobileDeviceFound(i))
            /\ WF_vars(Receive) /\ WF_vars(BaseDeviceFound)
            /\ WF_vars(ReadValue \/ ReaderUnlock)

-------------------------------------------------------------------------------

(* A reader that has copied all values has the values of one and the same  *)
(* moment: no frame was stored while it was reading.                       *)
SnapshotIsWhole == reading = Beacons => snapshot = rssi_values

(* The byte of a frame and the entry it ends in belong to one beacon, from *)
(* the receive thread of the mobile node to the reader on the base node.   *)
RightBeacon == \A i \in Index : snapshot[i].of \in {0, i}

(* The values in use only get newer: the asynchronous copying from array   *)
(* to frame to array never brings back an older measurement, nor the bytes *)
(* of the UUID that the first frames carry in place of values.             *)
Newer(old, new) == old.of # 0 => new.of # 0 /\ new.strength >= old.strength
NeverOlder == [][\A i \in Index : Newer(rssi_values[i], rssi_values'[i])]_vars

(* prac3/README.md: "The mobile node broadcasts the RSSI values of each    *)
(* beacon to the base node."  A measured value that arrives in a frame is  *)
(* stored for each beacon.                                                 *)
EachBeaconStored ==
    [][BaseDeviceFound =>
          \A i \in Index : packet[i] \in Signal => rssi_values'[i] = packet[i]]_vars

(* Once the mobile node stays where it is, the base node gets to have the *)
(* values that the mobile node has, for all beacons but the last, and these*)
(* are measurements.  They are today's strengths, except of a beacon whose *)
(* address the filter of the scan keeps for ever: what was first heard of  *)
(* it is all that is ever known.                                           *)
Current(i)  == rssi_values[i] = [of |-> i, strength |-> air[i]]
PassedOn(i) == rssi_values[i] = beacon_rssi[i] /\ beacon_rssi[i] # Default
KeepsUp == \A i \in 1 .. Beacons - 1 :
              /\ <>[]PassedOn(i)
              /\ <>[]Current(i) \/ <>[](i \in filtered)

===============================================================================
