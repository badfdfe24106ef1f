-------------------------------- MODULE ByteRing --------------------------------
(***************************************************************************)
(* The ring buffer between a sensor thread of prac 2 and the JSON threads. *)
(* It holds bytes, not readings: Zephyr's ring_buf_put takes as many bytes *)
(* as there is room for and ring_buf_get gives as many as there are.  Both *)
(* threads have the same priority and no time slices, so that the calls do *)
(* not interleave.  Nothing empties the ring when sampling stops.          *)
(***************************************************************************)
EXTENDS Integers, Sequences

CONSTANTS Capacity,     (* RING_BUFFER_SIZE                                  *)
          Size,         (* bytes of a reading                                *)
          MaxReadings   (* bound on the readings taken                       *)

ASSUME SizeAssumption == /\ Size \in Nat \ {0} /\ Capacity \in Nat
                         /\ Size =< Capacity /\ MaxReadings \in Nat

VARIABLES ring,     (* the bytes in the ring, oldest first                   *)
          taken,    (* number of readings the sensor thread has taken        *)
          answer,   (* what the last get_latest call returned                *)
          cut       (* history: whether a put was cut since the last error   *)

ringVars == <<ring, taken, answer, cut>>

Bytes == (1 .. MaxReadings) \X (1 .. Size)
Error == << >>

RingTypeOK == /\ ring \in Seq(Bytes) /\ Len(ring) =< Capacity
              /\ taken \in 0 .. MaxReadings
              /\ answer \in Seq(Bytes) /\ Len(answer) \in {0, Size}
              /\ cut \in BOOLEAN

RingInit == ring = << >> /\ taken = 0 /\ answer = Error /\ cut = FALSE

Least(m, n) == IF m =< n THEN m ELSE n

(* The n first bytes of reading r.                                         *)
Reading(r, n) == [i \in 1 .. n |-> <<r, i>>]

(* Mutant: the room that is left is not looked at.                         *)
RoomUnchecked == Size

Room == Least(Size, Capacity - Len(ring))

(* A partial put is not less than zero, hence not an error.                *)
SensorPut == /\ taken < MaxReadings
             /\ taken' = taken + 1
             /\ ring' = ring \o Reading(taken + 1, Room)
             /\ cut' = (cut \/ Room < Size)
             /\ UNCHANGED answer

(* Mutant: the reading is looked at and stays in the ring.                 *)
GetLatestPeeks == /\ Len(ring) >= Size
                  /\ answer' = SubSeq(ring, 1, Size)
                  /\ UNCHANGED <<ring, taken, cut>>

GetLatest == /\ Len(ring) >= Size
             /\ answer' = SubSeq(ring, 1, Size)
             /\ ring' = SubSeq(ring, Size + 1, Len(ring))
             /\ UNCHANGED <<taken, cut>>

(* Mutant: too few bytes are left where they are.                          *)
GetLatestFailsKeeps == /\ Len(ring) < Size
                       /\ answer' = Error
                       /\ cut' = FALSE
                       /\ UNCHANGED <<ring, taken>>

(* Too few bytes are an error, but they are gone.                          *)
GetLatestFails == /\ Len(ring) < Size
                  /\ answer' = Error
                  /\ ring' = << >>
                  /\ cut' = FALSE
                  /\ UNCHANGED taken

RingNext == SensorPut \/ GetLatest \/ GetLatestFails
RingSpec == RingInit /\ [][RingNext]_ringVars

-------------------------------------------------------------------------------

IsWhole(bytes) == bytes = Reading(bytes[1][1], Size)

(* A get that fails brings the ring back into step: the first value after  *)
(* it is a reading, however the ones before it were torn.                  *)
ErrorResyncs ==
    [][GetLatest /\ answer = Error => IsWhole(answer')]_ringVars

(* As long as no put finds the ring too full the ring is a queue of whole  *)
(* readings with room for Capacity \div Size of them; a put that is cut     *)
(* breaks it, and an error repairs it.                                     *)
Waiting == [k \in 1 .. Len(ring) \div Size |-> ring[(k - 1) * Size + 1][1]]
Queue == INSTANCE ReadingQueue
           WITH Slots <- Capacity \div Size, waiting <- Waiting, broken <- cut,
                value <- IF answer = Error THEN 0
                         ELSE IF IsWhole(answer) THEN answer[1][1] ELSE -1
ImplementsQueue == Queue!Spec

(* prac2/README.md: "Encodes the sampled data into JSON fomat."  A value   *)
(* that is printed is one that was sampled.                                *)
WholeReadings == answer # Error => IsWhole(answer)

===============================================================================
