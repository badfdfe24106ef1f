------------------------------ MODULE UltrasonicNode ------------------------------
(***************************************************************************)
(* The way of a distance in prac 3: the ultrasonic node measures every     *)
(* 250 ms and advertises the distance in centimetres as the low byte of an *)
(* int, -1 if nobody is near or the sensor fails; the base node's receive  *)
(* thread reads that byte as an int8_t into dist, which the position       *)
(* thread uses until another frame arrives.                                *)
(***************************************************************************)
EXTENDS Integers

CONSTANT Places       (* where a person may stand: <<metres, micrometres>>  *)

ASSUME PlacesAssumption == Places \subseteq Nat \X Nat

Nobody == -1

VARIABLES
    person,        (* where the person is                                   *)
    sample,        (* payload[2]                                            *)
    onAir,         (* the value in the advertisement, -2 before it starts   *)
    dist,          (* base node: the distance in use                        *)
    measured       (* history: the distances measured                       *)

ultraVars == <<person, sample, onAir, dist, measured>>

Int8(n) == LET byte == n % 256 IN IF byte < 128 THEN byte ELSE byte - 256

UltraTypeOK == /\ person \in Places
               /\ sample \in Int /\ onAir \in Int
               /\ dist \in -128 .. 127
               /\ measured \subseteq Int

UltraInit == /\ person \in Places /\ measured = {}
             /\ sample = 0 /\ onAir = -2 /\ dist = Nobody

Walk == /\ person' \in Places \ {person}
        /\ UNCHANGED <<sample, onAir, dist, measured>>

(* Mutant: everything the sensor can see is sent.                          *)
ProcessSampleFar(place) ==
    LET dist_cm == place[1] * 100 + place[2] \div 10000
    IN  IF dist_cm < 400 THEN dist_cm ELSE -1

ProcessSample(place) ==
    LET dist_cm == place[1] * 100 + place[2] \div 10000
    IN  IF dist_cm < 60 THEN dist_cm ELSE -1

(* The static frame with the payload as it is initialised.                 *)
UltraAdvStart == /\ onAir = -2
                 /\ onAir' = sample
                 /\ UNCHANGED <<person, sample, dist, measured>>

(* A sample, then the frame is updated; either may fail.                   *)
Measured == /\ sample' = ProcessSample(person)
            /\ measured' = measured \cup {sample'}
NotMeasured == sample' = -1 /\ UNCHANGED measured

UltraUpdate == /\ onAir # -2
               /\ Measured \/ NotMeasured
               /\ onAir' = sample'
               /\ UNCHANGED <<person, dist>>

UltraUpdateFails == /\ onAir # -2
                    /\ Measured \/ NotMeasured
                    /\ UNCHANGED <<person, onAir, dist>>

(* The frame arrives at the base node, which stores it under ultra_mutex.  *)
(* Mutant: the whole byte is taken as it is.                               *)
UltraFoundUnsigned == /\ onAir # -2
                      /\ dist' = onAir % 256
                      /\ UNCHANGED <<person, sample, onAir, measured>>

UltraFound == /\ onAir # -2
              /\ dist' = Int8(onAir)
              /\ UNCHANGED <<person, sample, onAir, measured>>

(* A measurement is made and goes out.                                     *)
UltraSucceeds == UltraUpdate /\ sample' = ProcessSample(person)

(* A frame with a given value arrives.                                     *)
Distances == {ProcessSample(p) : p \in Places}
Arrives(d) == onAir = d /\ UltraFound

UltraNode == UltraAdvStart \/ UltraUpdate \/ UltraUpdateFails
UltraNext == Walk \/ UltraNode \/ UltraFound
UltraSpec == UltraInit /\ [][UltraNext]_ultraVars

-------------------------------------------------------------------------------

(* The base node never works with a distance that is an artefact of the    *)
(* conversions from int to byte to int8_t: it is one that was measured,    *)
(* none, or the 0 the node advertises before its first measurement.        *)
DistWasMeasured == dist \in measured \cup {Nobody, 0}

(* Where a person stays for good is found out again and again, in reach or *)
(* out of it, as long as measurements succeed now and then and not all     *)
(* frames are lost.                                                        *)
FindsPerson ==
    \A p \in Places : <>[](person = p) => []<>(dist = ProcessSample(p))
===============================================================================
