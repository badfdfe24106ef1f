----------------------------- MODULE ByteRingProofs -----------------------------
(***************************************************************************)
(* For a ring and readings of any size, provided that a reading fits into  *)
(* the ring: the types, that an error brings the ring back into step, and  *)
(* that the ring is a queue of readings until a put is cut.                *)
(***************************************************************************)
EXTENDS ByteRing, SequenceTheorems, TLAPS

USE SizeAssumption

(* After an error the ring starts with a whole reading, if it has any      *)
(* bytes: it was empty, and an empty ring has room for a reading.          *)
Aligned == answer = Error /\ ring # << >> =>
             /\ Len(ring) >= Size
             /\ \A i \in 1 .. Size : ring[i] = <<ring[1][1], i>>

RingInv == RingTypeOK /\ Aligned

(* What ring_buf_put appends.                                              *)
LEMMA PutBytes ==
    ASSUME RingTypeOK, SensorPut
    PROVE  /\ Room \in 0 .. Size
           /\ Reading(taken + 1, Room) \in Seq(Bytes)
           /\ Len(Reading(taken + 1, Room)) = Room
           /\ ring' \in Seq(Bytes)
           /\ Len(ring') = Len(ring) + Room /\ Len(ring') =< Capacity
<1>1. Len(ring) \in Nat /\ Len(ring) =< Capacity
  BY DEF RingTypeOK
<1>2. Room \in 0 .. Size /\ Len(ring) + Room =< Capacity
  BY <1>1 DEF Room, Least
<1>3. taken + 1 \in 1 .. MaxReadings
  BY DEF RingTypeOK, SensorPut
<1>4. Reading(taken + 1, Room) \in [1 .. Room -> Bytes]
  BY <1>2, <1>3 DEF Reading, Bytes
<1>5. Reading(taken + 1, Room) \in Seq(Bytes) /\ Len(Reading(taken + 1, Room)) = Room
  BY <1>2, <1>4
<1>6. ring' = ring \o Reading(taken + 1, Room) /\ ring \in Seq(Bytes)
  BY DEF SensorPut, RingTypeOK
<1>7. ring' \in Seq(Bytes) /\ Len(ring') = Len(ring) + Room
  BY <1>5, <1>6, ConcatProperties
<1> QED
  BY <1>1, <1>2, <1>5, <1>7

(* What ring_buf_get takes.                                                *)
LEMMA GetBytes ==
    ASSUME RingTypeOK, GetLatest
    PROVE  /\ answer' \in Seq(Bytes) /\ Len(answer') = Size
           /\ \A i \in 1 .. Size : answer'[i] = ring[i]
           /\ ring' \in Seq(Bytes) /\ Len(ring') =< Capacity
<1>1. ring \in Seq(Bytes) /\ Len(ring) \in Nat /\ Len(ring) =< Capacity /\ Len(ring) >= Size
  BY DEF RingTypeOK, GetLatest
<1>2. answer' = SubSeq(ring, 1, Size) /\ ring' = SubSeq(ring, Size + 1, Len(ring))
  BY DEF GetLatest
<1>3. /\ answer' \in Seq(Bytes) /\ Len(answer') = Size
      /\ \A i \in 1 .. Size : answer'[i] = ring[i]
  BY <1>1, <1>2
<1>4. ring' \in Seq(Bytes) /\ Len(ring') =< Capacity
  BY <1>1, <1>2
<1> QED
  BY <1>3, <1>4

LEMMA RingInitInv == RingInit => RingInv
<1> SUFFICES ASSUME RingInit PROVE RingInv
  OBVIOUS
<1>1. << >> \in Seq(Bytes) /\ Len(<< >>) = 0
  OBVIOUS
<1>2. ring = << >> /\ answer = << >> /\ cut = FALSE /\ taken = 0
  BY DEF RingInit, Error
<1>3. ring \in Seq(Bytes) /\ Len(ring) =< Capacity /\ taken \in 0 .. MaxReadings
      /\ answer \in Seq(Bytes) /\ Len(answer) \in {0, Size}
  BY <1>1, <1>2
<1>4. cut \in BOOLEAN
  BY <1>2
<1> QED
  BY <1>2, <1>3, <1>4 DEF RingInv, RingTypeOK, Aligned

LEMMA RingStepInv == RingInv /\ [RingNext]_ringVars => RingInv'
<1> SUFFICES ASSUME RingInv, [RingNext]_ringVars PROVE RingInv'
  OBVIOUS
<1> USE DEF RingInv
<1>1. CASE SensorPut
  <2>1. RingTypeOK'
    BY <1>1, PutBytes DEF SensorPut, RingTypeOK
  <2>2. ASSUME answer = Error, ring = << >>
        PROVE  Len(ring') >= Size /\ \A i \in 1 .. Size : ring'[i] = <<ring'[1][1], i>>
    <3>1. Room = Size
      BY <2>2 DEF Room, Least
    <3>2. ring' = Reading(taken + 1, Size)
      BY <1>1, <2>2, <3>1, PutBytes DEF SensorPut
    <3>3. Len(ring') = Size
      BY <1>1, <2>2, <3>1, <3>2, PutBytes
    <3>4. \A i \in 1 .. Size : ring'[i] = <<taken + 1, i>>
      BY <3>2 DEF Reading
    <3> QED
      BY <3>3, <3>4
  <2>3. ASSUME answer = Error, ring # << >>
        PROVE  Len(ring') >= Size /\ \A i \in 1 .. Size : ring'[i] = <<ring'[1][1], i>>
    <3>1. Len(ring) >= Size /\ \A i \in 1 .. Size : ring[i] = <<ring[1][1], i>>
      BY <2>3 DEF Aligned
    <3>2. ring' = ring \o Reading(taken + 1, Room)
          /\ ring \in Seq(Bytes) /\ Reading(taken + 1, Room) \in Seq(Bytes)
      BY <1>1, PutBytes DEF SensorPut, RingTypeOK
    <3>3. \A i \in 1 .. Size : ring'[i] = ring[i]
      BY <3>1, <3>2, ConcatProperties
    <3>4. Len(ring') >= Size
      BY <1>1, <3>1, PutBytes DEF RingTypeOK
    <3> QED
      BY <3>1, <3>3, <3>4
  <2> QED
    BY <1>1, <2>1, <2>2, <2>3 DEF SensorPut, Aligned
<1>2. CASE GetLatest
  <2>1. RingTypeOK'
    BY <1>2, GetBytes DEF GetLatest, RingTypeOK
  <2>2. answer' # Error
    BY <1>2, GetBytes DEF Error
  <2> QED
    BY <2>1, <2>2 DEF Aligned
<1>3. CASE GetLatestFails
  <2>1. << >> \in Seq(Bytes) /\ Len(<< >>) = 0
    OBVIOUS
  <2>2. ring' = << >> /\ answer' = << >> /\ cut' = FALSE /\ taken' = taken
    BY <1>3 DEF GetLatestFails, Error
  <2>3. ring' \in Seq(Bytes) /\ Len(ring') =< Capacity /\ taken' \in 0 .. MaxReadings
        /\ answer' \in Seq(Bytes) /\ Len(answer') \in {0, Size}
    BY <2>1, <2>2 DEF RingTypeOK
  <2>4. cut' \in BOOLEAN
    BY <2>2
  <2> QED
    BY <2>2, <2>3, <2>4 DEF RingTypeOK, Aligned
<1>4. CASE UNCHANGED ringVars
  BY <1>4 DEF ringVars, RingTypeOK, Aligned
<1> QED
  BY <1>1, <1>2, <1>3, <1>4 DEF RingNext

(* Types, for every size of ring and reading.                              *)
THEOREM RingTypeCorrect == RingSpec => []RingTypeOK
  BY RingInitInv, RingStepInv, PTL DEF RingSpec, RingInv

(* The value after an error is a reading, whatever was torn before.        *)
THEOREM ResyncCorrect == RingSpec => ErrorResyncs
<1>1. ASSUME RingInv, GetLatest, answer = Error PROVE IsWhole(answer')
  <2>1. ring # << >>
    BY <1>1 DEF GetLatest, RingTypeOK
  <2>2. \A i \in 1 .. Size : ring[i] = <<ring[1][1], i>>
    BY <1>1, <2>1 DEF RingInv, Aligned
  <2>3. answer' \in [1 .. Size -> Bytes] /\ \A i \in 1 .. Size : answer'[i] = ring[i]
    BY <1>1, GetBytes DEF RingInv
  <2>4. answer'[1][1] = ring[1][1]
    BY <2>3
  <2> QED
    BY <2>2, <2>3, <2>4 DEF IsWhole, Reading
<1>2. RingInv => [GetLatest /\ answer = Error => IsWhole(answer')]_ringVars
  BY <1>1
<1> QED
  BY <1>2, RingInitInv, RingStepInv, PTL DEF RingSpec, ErrorResyncs

-------------------------------------------------------------------------------
(* The ring as a queue of readings.                                        *)

(* Where the k-th reading starts in a ring of whole readings.              *)
Start(k) == (k - 1) * Size + 1

LEMMA Starts ==
    /\ Start(1) = 1
    /\ \A k \in Nat \ {0} : Start(k) \in Nat \ {0} /\ Start(k + 1) = Start(k) + Size
    /\ \A k, n \in Nat \ {0} : k < n => Start(k) + Size =< Start(n)
<1>1. \A m \in Nat : m * Size \in Nat
  OBVIOUS
<1>2. \A m, d \in Nat : (m + d) * Size = m * Size + d * Size
  OBVIOUS
<1>3. 0 * Size = 0 /\ 1 * Size = Size
  OBVIOUS
<1>4. ASSUME NEW k \in Nat \ {0}
      PROVE  Start(k) \in Nat \ {0} /\ Start(k + 1) = Start(k) + Size
  <2>1. k - 1 \in Nat /\ (k + 1) - 1 = (k - 1) + 1
    BY <1>4
  <2>2. ((k - 1) + 1) * Size = (k - 1) * Size + Size
    BY <1>2, <1>3, <2>1
  <2> QED BY <1>1, <2>1, <2>2 DEF Start
<1>5. ASSUME NEW k \in Nat \ {0}, NEW n \in Nat \ {0}, k < n
      PROVE  Start(k) + Size =< Start(n)
  <2> DEFINE d == n - k - 1
  <2>1. d \in Nat /\ n - 1 = ((k - 1) + 1) + d /\ k - 1 \in Nat
    BY <1>5
  <2> HIDE DEF d
  <2>2. (n - 1) * Size = ((k - 1) + 1) * Size + d * Size
    BY <1>2, <2>1
  <2>3. ((k - 1) + 1) * Size = (k - 1) * Size + Size
    BY <1>2, <1>3, <2>1
  <2> QED BY <1>1, <2>1, <2>2, <2>3 DEF Start
<1> QED BY <1>3, <1>4, <1>5 DEF Start

(* How often a reading fits into so many bytes.                            *)
LEMMA Fits ==
    ASSUME NEW bytes \in Nat, NEW n \in Nat,
           Start(n + 1) - 1 =< bytes, bytes - (Start(n + 1) - 1) < Size
    PROVE  bytes \div Size = n
<1> DEFINE q == bytes \div Size
           r == bytes % Size
<1>1. q \in Nat /\ r \in 0 .. Size - 1 /\ bytes = Size * q + r
  OBVIOUS
<1> HIDE DEF q, r
<1>2. Start(q + 1) = Size * q + 1
  BY <1>1 DEF Start
<1>3. q + 1 \in Nat \ {0} /\ n + 1 \in Nat \ {0} /\ Start(n + 1) \in Nat
  BY <1>1, Starts
<1>4. CASE q < n
  <2>1. Start(q + 1) + Size =< Start(n + 1)
    BY <1>1, <1>3, <1>4, Starts
  <2>2. bytes < Size * q + Size /\ Size * q \in Nat
    BY <1>1
  <2>3. bytes + 1 < Start(n + 1)
    BY <1>2, <1>3, <2>1, <2>2
  <2> QED BY <1>3, <2>3
<1>5. CASE n < q
  <2>1. Start(n + 1) + Size =< Start(q + 1)
    BY <1>1, <1>3, <1>5, Starts
  <2>2. Size * q =< bytes /\ Size * q \in Nat
    BY <1>1
  <2>3. Start(n + 1) + Size =< bytes + 1
    BY <1>2, <1>3, <2>1, <2>2
  <2> QED BY <1>3, <2>3
<1> QED BY <1>1, <1>4, <1>5 DEF q

(* Bytes that are n whole readings.                                        *)
Consist(bytes, n) == /\ Len(bytes) = Start(n + 1) - 1
                     /\ \A k \in 1 .. n : \A j \in 1 .. Size :
                           bytes[Start(k) + j - 1] = <<bytes[Start(k)][1], j>>
(* The numbers of n readings.                                              *)
Carries(bytes, n) == [k \in 1 .. n |-> bytes[Start(k)][1]]
Whole == ~ cut => \E n \in Nat : Consist(ring, n)

LEMMA NumbersOf ==
    ASSUME NEW bytes \in Seq(Bytes), NEW n \in Nat, Consist(bytes, n)
    PROVE  /\ [k \in 1 .. Len(bytes) \div Size |-> bytes[(k - 1) * Size + 1][1]]
              = Carries(bytes, n)
           /\ Carries(bytes, n) \in Seq(1 .. MaxReadings) /\ Len(Carries(bytes, n)) = n
           /\ \A k \in 1 .. n : Start(k) \in 1 .. Len(bytes) /\ Start(k) + Size =< Len(bytes) + 1
<1>0. n + 1 \in Nat \ {0}
  OBVIOUS
<1>1. Start(n + 1) \in Nat \ {0}
  BY <1>0, Starts
<1>2. Len(bytes) \div Size = n
  <2>1. Len(bytes) \in Nat /\ Len(bytes) = Start(n + 1) - 1
    BY DEF Consist
  <2> QED BY <1>1, <2>1, Fits
<1>3. ASSUME NEW k \in 1 .. n
      PROVE  /\ Start(k) \in 1 .. Len(bytes) /\ Start(k) + Size =< Len(bytes) + 1
             /\ bytes[Start(k)][1] \in 1 .. MaxReadings
  <2>1. k \in Nat \ {0} /\ k < n + 1
    OBVIOUS
  <2>2. Start(k) \in Nat \ {0} /\ Start(k) + Size =< Start(n + 1)
    BY <1>0, <1>1, <2>1, Starts
  <2>3. Start(k) \in 1 .. Len(bytes) /\ Start(k) + Size =< Len(bytes) + 1
    BY <1>1, <2>2 DEF Consist
  <2>4. bytes[Start(k)] \in Bytes
    BY <2>3, ElementOfSeq
  <2> QED BY <2>3, <2>4 DEF Bytes
<1>4. Carries(bytes, n) \in Seq(1 .. MaxReadings) /\ Len(Carries(bytes, n)) = n
  BY <1>3 DEF Carries
<1> QED BY <1>2, <1>3, <1>4 DEF Carries, Start

(* A whole reading at the end is a number at the end.                      *)
LEMMA PutNumbers ==
    ASSUME RingTypeOK, NEW n \in Nat, Consist(ring, n), SensorPut, Room = Size
    PROVE  /\ Consist(ring', n + 1)
           /\ Carries(ring', n + 1) = Append(Carries(ring, n), taken + 1)
           /\ n < Capacity \div Size
<1> DEFINE new == Reading(taken + 1, Size)
<1>1. /\ new \in Seq(Bytes) /\ Len(new) = Size /\ ring \in Seq(Bytes)
      /\ ring' = ring \o new /\ ring' \in Seq(Bytes) /\ Len(ring') =< Capacity
  BY PutBytes DEF SensorPut, RingTypeOK
<1>2. \A j \in 1 .. Size : new[j] = <<taken + 1, j>>
  BY DEF Reading
<1> HIDE DEF new
<1>3. /\ Len(ring') = Len(ring) + Size
      /\ \A i \in 1 .. Len(ring) : ring'[i] = ring[i]
      /\ \A j \in 1 .. Size : ring'[Len(ring) + j] = <<taken + 1, j>>
  <2>1. /\ Len(ring \o new) = Len(ring) + Len(new)
        /\ \A i \in 1 .. Len(ring) + Len(new) :
              (ring \o new)[i] = IF i =< Len(ring) THEN ring[i] ELSE new[i - Len(ring)]
    BY <1>1, ConcatProperties
  <2>2. ASSUME NEW j \in 1 .. Size PROVE ring'[Len(ring) + j] = <<taken + 1, j>>
    <3>1. /\ Len(ring) + j \in 1 .. Len(ring) + Len(new) /\ ~ (Len(ring) + j =< Len(ring))
          /\ (Len(ring) + j) - Len(ring) = j
      BY <1>1
    <3> QED BY <1>1, <1>2, <2>1, <3>1
  <2> QED BY <1>1, <2>1, <2>2
<1>4. /\ n + 1 \in Nat \ {0} /\ Start(n + 1) \in Nat \ {0}
      /\ Start((n + 1) + 1) = Start(n + 1) + Size
  BY Starts
<1>5. Len(ring) = Start(n + 1) - 1 /\ Len(ring') = Start((n + 1) + 1) - 1
  BY <1>3, <1>4 DEF Consist
<1>6. ASSUME NEW k \in 1 .. n, NEW j \in 1 .. Size
      PROVE  /\ ring'[Start(k) + j - 1] = <<ring'[Start(k)][1], j>>
             /\ ring'[Start(k)] = ring[Start(k)]
  <2>1. Start(k) \in 1 .. Len(ring) /\ Start(k) + j - 1 \in 1 .. Len(ring)
    BY <1>1, NumbersOf
  <2>2. ring[Start(k) + j - 1] = <<ring[Start(k)][1], j>>
    BY DEF Consist
  <2> QED BY <1>3, <2>1, <2>2
<1>7. ASSUME NEW j \in 1 .. Size
      PROVE  ring'[Start(n + 1) + j - 1] = <<taken + 1, j>>
  <2>1. Start(n + 1) + j - 1 = Len(ring) + j
    BY <1>4, <1>5
  <2> QED BY <1>3, <2>1
<1>8. ring'[Start(n + 1)] = <<taken + 1, 1>>
  BY <1>4, <1>7
<1>9. Consist(ring', n + 1)
  <2>1. ASSUME NEW k \in 1 .. n + 1, NEW j \in 1 .. Size
        PROVE  ring'[Start(k) + j - 1] = <<ring'[Start(k)][1], j>>
    <3>1. CASE k = n + 1
      BY <1>7, <1>8, <3>1
    <3>2. CASE k # n + 1
      <4>1. k \in 1 .. n
        BY <3>2
      <4> QED BY <1>6, <4>1
    <3> QED BY <3>1, <3>2
  <2> QED BY <1>5, <2>1 DEF Consist
<1>10. Carries(ring', n + 1) = Append(Carries(ring, n), taken + 1)
  <2>1. /\ Carries(ring, n) \in Seq(1 .. MaxReadings) /\ Len(Carries(ring, n)) = n
        /\ taken + 1 \in 1 .. MaxReadings
    BY <1>1, NumbersOf DEF SensorPut, RingTypeOK
  <2>2. /\ Carries(ring', n + 1) \in Seq(1 .. MaxReadings)
        /\ Len(Carries(ring', n + 1)) = n + 1
    BY <1>1, <1>4, <1>9, NumbersOf
  <2>3. /\ Append(Carries(ring, n), taken + 1) \in Seq(1 .. MaxReadings)
        /\ Len(Append(Carries(ring, n), taken + 1)) = n + 1
    BY <2>1
  <2>4. ASSUME NEW k \in 1 .. n + 1
        PROVE  Carries(ring', n + 1)[k] = Append(Carries(ring, n), taken + 1)[k]
    <3>1. Carries(ring', n + 1)[k] = ring'[Start(k)][1]
      BY DEF Carries
    <3>2. CASE k = n + 1
      BY <1>8, <2>1, <3>1, <3>2
    <3>3. CASE k # n + 1
      <4>1. k \in 1 .. n /\ Carries(ring, n)[k] = ring[Start(k)][1]
        BY <3>3 DEF Carries
      <4>2. ring'[Start(k)] = ring[Start(k)]
        BY <1>6, <4>1
      <4> QED BY <2>1, <3>1, <4>1, <4>2
    <3> QED BY <3>2, <3>3
  <2> QED BY <2>2, <2>3, <2>4, SeqEqual
<1>11. n < Capacity \div Size
  <2> DEFINE q == Capacity \div Size
  <2>1. q \in Nat /\ Size * q =< Capacity /\ Capacity < Size * q + Size
    OBVIOUS
  <2> HIDE DEF q
  <2>2. Start(q + 1) = Size * q + 1
    BY <2>1 DEF Start
  <2>3. Start((n + 1) + 1) =< Capacity + 1 /\ (n + 1) + 1 \in Nat \ {0}
    BY <1>1, <1>4, <1>5
  <2>4. ASSUME q =< n PROVE FALSE
    <3>1. q + 1 < (n + 1) + 1 /\ q + 1 \in Nat \ {0} /\ Size * q \in Nat
      BY <2>1, <2>4
    <3>2. Start(q + 1) + Size =< Start((n + 1) + 1)
      BY <2>3, <3>1, Starts
    <3> QED BY <1>4, <2>1, <2>2, <2>3, <3>1, <3>2
  <2> QED BY <2>1, <2>4 DEF q
<1> QED BY <1>9, <1>10, <1>11

(* What is taken from the front is the reading of the first number.        *)
LEMMA GetNumbers ==
    ASSUME RingTypeOK, NEW n \in Nat, Consist(ring, n), GetLatest
    PROVE  /\ n > 0 /\ IsWhole(answer') /\ answer' # Error
           /\ answer'[1][1] = Head(Carries(ring, n))
           /\ Consist(ring', n - 1)
           /\ Carries(ring', n - 1) = Tail(Carries(ring, n))
<1>1. /\ ring \in Seq(Bytes) /\ Len(ring) \in Nat /\ Len(ring) >= Size
      /\ ring' = SubSeq(ring, Size + 1, Len(ring)) /\ ring' \in Seq(Bytes)
      /\ answer' \in Seq(Bytes) /\ Len(answer') = Size
      /\ \A i \in 1 .. Size : answer'[i] = ring[i]
  BY GetBytes DEF GetLatest, RingTypeOK
<1>2. /\ Len(ring') = Len(ring) - Size
      /\ \A i \in 1 .. Len(ring) - Size : ring'[i] = ring[i + Size]
  BY <1>1
<1>3. Len(ring) = Start(n + 1) - 1
  BY DEF Consist
<1>4. n > 0
  <2>1. CASE n = 0
    BY <1>1, <1>3, <2>1, Starts
  <2> QED BY <2>1
<1>5. /\ n \in Nat \ {0} /\ (n - 1) + 1 = n
      /\ Start(n) \in Nat \ {0} /\ Start(n + 1) = Start(n) + Size
  BY <1>4, Starts
<1>6. /\ IsWhole(answer') /\ answer' # Error
      /\ answer'[1][1] = Head(Carries(ring, n))
  <2>1. Start(1) = 1 /\ 1 \in 1 .. n
    BY <1>5, Starts
  <2>2. \A j \in 1 .. Size : ring[Start(1) + j - 1] = <<ring[Start(1)][1], j>>
    BY <2>1 DEF Consist
  <2>3. \A j \in 1 .. Size : ring[j] = <<ring[1][1], j>>
    BY <2>1, <2>2
  <2>4. answer'[1] = ring[1]
    BY <1>1
  <2>5. answer' = [i \in 1 .. Size |-> <<answer'[1][1], i>>]
    <3>1. answer' \in [1 .. Size -> Bytes]
      BY <1>1
    <3>2. \A i \in 1 .. Size : answer'[i] = <<answer'[1][1], i>>
      BY <1>1, <2>3, <2>4
    <3> QED BY <3>1, <3>2
  <2>6. Carries(ring, n) \in Seq(1 .. MaxReadings) /\ Len(Carries(ring, n)) = n
    BY <1>1, NumbersOf
  <2>7. Head(Carries(ring, n)) = ring[1][1]
    BY <1>5, <2>1, <2>6 DEF Carries
  <2> QED BY <1>1, <2>4, <2>5, <2>7 DEF IsWhole, Reading, Error
<1>7. ASSUME NEW k \in 1 .. n - 1, NEW j \in 1 .. Size
      PROVE  ring'[Start(k) + j - 1] = ring[Start(k + 1) + j - 1]
  <2>1. k \in 1 .. n /\ k + 1 \in 1 .. n /\ k \in Nat \ {0}
    BY <1>5
  <2>2. Start(k + 1) = Start(k) + Size /\ Start(k) \in Nat \ {0}
    BY <2>1, Starts
  <2>3. Start(k + 1) + Size =< Len(ring) + 1
    BY <1>1, <2>1, NumbersOf
  <2>4. /\ Start(k) + j - 1 \in 1 .. Len(ring) - Size
        /\ (Start(k) + j - 1) + Size = Start(k + 1) + j - 1
    BY <1>1, <2>2, <2>3
  <2> QED BY <1>2, <2>4
<1>8. ASSUME NEW k \in 1 .. n - 1 PROVE ring'[Start(k)] = ring[Start(k + 1)]
  <2>1. 1 \in 1 .. Size
    OBVIOUS
  <2>2. k \in Nat \ {0} /\ k + 1 \in Nat \ {0}
    OBVIOUS
  <2>3. Start(k) + 1 - 1 = Start(k) /\ Start(k + 1) + 1 - 1 = Start(k + 1)
    BY <2>2, Starts
  <2>4. ring'[Start(k) + 1 - 1] = ring[Start(k + 1) + 1 - 1]
    BY <1>7, <2>1
  <2> QED BY <2>3, <2>4
<1>9. Consist(ring', n - 1)
  <2>1. Len(ring') = Start((n - 1) + 1) - 1
    BY <1>2, <1>3, <1>5
  <2>2. ASSUME NEW k \in 1 .. n - 1, NEW j \in 1 .. Size
        PROVE  ring'[Start(k) + j - 1] = <<ring'[Start(k)][1], j>>
    <3>1. k + 1 \in 1 .. n
      BY <1>5
    <3>2. ring[Start(k + 1) + j - 1] = <<ring[Start(k + 1)][1], j>>
      BY <3>1 DEF Consist
    <3> QED BY <1>7, <1>8, <3>2
  <2> QED BY <2>1, <2>2 DEF Consist
<1>10. Carries(ring', n - 1) = Tail(Carries(ring, n))
  <2>1. Carries(ring, n) \in Seq(1 .. MaxReadings) /\ Len(Carries(ring, n)) = n
    BY <1>1, NumbersOf
  <2>2. n - 1 \in Nat
    BY <1>5
  <2>3. /\ Carries(ring', n - 1) \in Seq(1 .. MaxReadings)
        /\ Len(Carries(ring', n - 1)) = n - 1
    BY <1>1, <1>9, <2>2, NumbersOf
  <2>4. /\ Tail(Carries(ring, n)) \in Seq(1 .. MaxReadings)
        /\ Len(Tail(Carries(ring, n))) = n - 1
        /\ \A k \in 1 .. n - 1 : Tail(Carries(ring, n))[k] = Carries(ring, n)[k + 1]
    BY <1>5, <2>1
  <2>5. ASSUME NEW k \in 1 .. n - 1
        PROVE  Carries(ring', n - 1)[k] = Carries(ring, n)[k + 1]
    <3>1. k + 1 \in 1 .. n
      BY <1>5
    <3> QED BY <1>8, <3>1 DEF Carries
  <2> QED BY <2>3, <2>4, <2>5, SeqEqual
<1> QED BY <1>4, <1>6, <1>9, <1>10

LEMMA WholeInit == RingInit => Whole
<1> SUFFICES ASSUME RingInit PROVE Consist(ring, 0)
  BY DEF Whole
<1> QED BY Starts DEF RingInit, Consist

LEMMA WholeStep == RingTypeOK /\ Whole /\ [RingNext]_ringVars => Whole'
<1> SUFFICES ASSUME RingTypeOK, Whole, [RingNext]_ringVars, ~ cut'
             PROVE  \E n \in Nat : Consist(ring', n)
  BY DEF Whole
<1>1. CASE SensorPut
  <2>0. ~ cut /\ ~ (Room < Size)
    BY <1>1 DEF SensorPut
  <2>1. ~ cut /\ Room = Size
    BY <1>1, <2>0, PutBytes
  <2>2. PICK n \in Nat : Consist(ring, n)
    BY <2>1 DEF Whole
  <2>3. Consist(ring', n + 1) /\ n + 1 \in Nat
    BY <1>1, <2>1, <2>2, PutNumbers
  <2> QED BY <2>3
<1>2. CASE GetLatest
  <2>1. PICK n \in Nat : Consist(ring, n)
    BY <1>2 DEF GetLatest, Whole
  <2>2. Consist(ring', n - 1) /\ n - 1 \in Nat
    BY <1>2, <2>1, GetNumbers
  <2> QED BY <2>2
<1>3. CASE GetLatestFails
  <2>1. Consist(<< >>, 0)
    BY Starts DEF Consist
  <2> QED BY <1>3, <2>1 DEF GetLatestFails
<1>4. CASE UNCHANGED ringVars
  BY <1>4 DEF ringVars, Whole
<1> QED BY <1>1, <1>2, <1>3, <1>4 DEF RingNext

(* The ring refines the queue of whole readings, for every size: a put for *)
(* which there is room appends one, a get returns the oldest, a put that   *)
(* is cut comes only when the queue is full, and an error empties it.      *)
THEOREM QueueCorrect == RingSpec => ImplementsQueue
<1>1. RingInit => Queue!Init
  <2> SUFFICES ASSUME RingInit PROVE Queue!Init
    OBVIOUS
  <2>1. Waiting = << >>
    <3>1. Consist(ring, 0) /\ RingTypeOK
      BY RingInitInv, Starts DEF RingInit, Consist, RingInv
    <3>2. Waiting = Carries(ring, 0) /\ Len(Carries(ring, 0)) = 0
          /\ Carries(ring, 0) \in Seq(1 .. MaxReadings)
      BY <3>1, NumbersOf DEF Waiting, RingTypeOK
    <3> QED BY <3>2, EmptySeq
  <2> QED BY <2>1 DEF RingInit, Queue!Init
<1>2. ASSUME RingTypeOK, RingTypeOK', Whole, [RingNext]_ringVars
      PROVE  [Queue!Next]_(Queue!vars)
  <2>1. CASE UNCHANGED ringVars
    BY <2>1 DEF ringVars, Queue!vars, Waiting, IsWhole
  <2>2. ASSUME NEW n \in Nat, Consist(ring, n)
        PROVE  Waiting = Carries(ring, n) /\ Len(Waiting) = n
               /\ Waiting \in Seq(1 .. MaxReadings)
    BY <1>2, <2>2, NumbersOf DEF Waiting, RingTypeOK
  <2>3. ASSUME NEW n \in Nat, Consist(ring', n)
        PROVE  Waiting' = Carries(ring', n)
    BY <1>2, <2>3, NumbersOf DEF Waiting, RingTypeOK
  <2>4. CASE SensorPut
    <3>1. CASE cut
      BY <2>4, <3>1 DEF SensorPut, Queue!Next, Queue!Anything
    <3>2. CASE ~ cut
      <4>1. PICK n \in Nat : Consist(ring, n)
        BY <1>2, <3>2 DEF Whole
      <4>2. CASE Room = Size
        <5>1. /\ Consist(ring', n + 1) /\ n < Capacity \div Size
              /\ Carries(ring', n + 1) = Append(Carries(ring, n), taken + 1)
          BY <1>2, <2>4, <4>1, <4>2, PutNumbers
        <5>2. Waiting' = Append(Waiting, taken + 1) /\ Len(Waiting) < Capacity \div Size
          BY <2>2, <2>3, <4>1, <5>1
        <5>3. ~ (Room < Size)
          BY <4>2
        <5>4. cut = FALSE /\ cut' = FALSE
          BY <1>2, <2>4, <3>2, <5>3 DEF SensorPut, RingTypeOK
        <5> QED
          BY <2>4, <5>2, <5>4 DEF SensorPut, Queue!Next, Queue!Put
      <4>3. CASE Room # Size
        <5>1. Room < Size
          BY <1>2, <2>4, <4>3, PutBytes
        <5>2. Len(ring) = Start(n + 1) - 1 /\ Len(ring) \in Nat /\ Len(ring) =< Capacity
          BY <1>2, <4>1 DEF Consist, RingTypeOK
        <5>3. Capacity - Len(ring) < Size
          BY <5>1, <5>2 DEF Room, Least
        <5>4. Len(Waiting) = Capacity \div Size
          BY <2>2, <4>1, <5>2, <5>3, Fits
        <5> QED
          BY <2>4, <3>2, <5>1, <5>4 DEF SensorPut, Queue!Next, Queue!PutWithoutRoom
      <4> QED BY <4>2, <4>3
    <3> QED BY <3>1, <3>2
  <2>5. CASE GetLatest
    <3>1. CASE cut
      BY <2>5, <3>1 DEF GetLatest, Queue!Next, Queue!Anything
    <3>2. CASE ~ cut
      <4>1. PICK n \in Nat : Consist(ring, n)
        BY <1>2, <3>2 DEF Whole
      <4>2. /\ n > 0 /\ IsWhole(answer') /\ answer' # Error
            /\ answer'[1][1] = Head(Carries(ring, n))
            /\ Consist(ring', n - 1)
            /\ Carries(ring', n - 1) = Tail(Carries(ring, n))
        BY <1>2, <2>5, <4>1, GetNumbers
      <4>3. Waiting = Carries(ring, n) /\ Waiting # << >>
        BY <2>2, <4>1, <4>2
      <4>4. Waiting' = Tail(Waiting) /\ answer'[1][1] = Head(Waiting)
        BY <2>3, <4>2, <4>3
      <4> QED
        BY <2>5, <3>2, <4>2, <4>3, <4>4 DEF GetLatest, Queue!Next, Queue!Get
    <3> QED BY <3>1, <3>2
  <2>6. CASE GetLatestFails
    <3>1. Consist(ring', 0) /\ Carries(ring', 0) = << >>
      BY <2>6, Starts DEF GetLatestFails, Consist, Carries
    <3>2. Waiting' = << >>
      BY <2>3, <3>1
    <3>3. CASE cut
      BY <2>6, <3>2, <3>3 DEF GetLatestFails, Queue!Next, Queue!Repaired
    <3>4. CASE ~ cut
      <4>1. PICK n \in Nat : Consist(ring, n)
        BY <1>2, <3>4 DEF Whole
      <4>2. n = 0
        <5>1. CASE n > 0
          <6>1. 1 \in 1 .. n
            BY <5>1
          <6>2. Len(ring) \in Nat /\ Start(1) + Size =< Len(ring) + 1
            BY <1>2, <4>1, <6>1, NumbersOf DEF RingTypeOK
          <6> QED BY <2>6, <6>2, Starts DEF GetLatestFails
        <5> QED BY <5>1
      <4>3. Waiting = << >>
        BY <2>2, <4>1, <4>2
      <4>4. cut = FALSE /\ cut' = FALSE
        BY <1>2, <2>6, <3>4 DEF GetLatestFails, RingTypeOK
      <4> QED
        BY <2>6, <3>2, <4>3, <4>4 DEF GetLatestFails, Queue!Next, Queue!GetNothing
    <3> QED BY <3>3, <3>4
  <2> QED BY <1>2, <2>1, <2>4, <2>5, <2>6 DEF RingNext
<1> QED
  BY <1>1, <1>2, RingInitInv, RingStepInv, WholeInit, WholeStep, PTL
  DEF RingSpec, RingInv, ImplementsQueue, Queue!Spec

===============================================================================
