----------------------------- MODULE RssiLinkProofs -----------------------------
(***************************************************************************)
(* Proofs about RssiLink, for any number of beacons and of moves.  The     *)
(* argument follows a value on its way: at each place where it is kept it  *)
(* belongs to the right beacon, and it is not newer than at the place it   *)
(* came from.                                                              *)
(***************************************************************************)
EXTENDS RssiLink, TLAPS

(* Frames of values that belong to their beacon.                           *)
Right(frame) == \A i \in Index : frame[i].of \in {0, i}
AllRight == /\ Right(beacon_rssi) /\ Right(ad1)
            /\ advert # NoFrame => Right(advert)
            /\ packet # NoFrame => Right(packet)
            /\ Right(rssi_values) /\ Right(snapshot)

(* What the reader has copied so far is what is still there.               *)
CopiedSoFar == \A i \in Index : i =< reading => snapshot[i] = rssi_values[i]

(* The way of a value, from its end to its source.                         *)
Ordered(old, new) == \A i \in Index : Newer(old[i], new[i])
OnItsWay ==
    /\ advert = NoFrame => packet = NoFrame /\ rssi_values = Silence /\ built = 0
    /\ advert # NoFrame => Ordered(rssi_values, advert) /\ Ordered(advert, ad1)
    /\ packet # NoFrame => Ordered(rssi_values, packet) /\ Ordered(packet, advert)
    /\ Ordered(ad1, beacon_rssi)
    /\ \A i \in Index : beacon_rssi[i].of # 0 => beacon_rssi[i].strength =< air[i]

IInv == TypeOK /\ AllRight /\ CopiedSoFar /\ OnItsWay

USE BeaconsAssumption, MovesAssumption

-------------------------------------------------------------------------------

LEMMA ValueType == /\ Default \in Value /\ Uuid \in Value
                   /\ \A v \in Value : v.of \in Nat /\ v.strength \in Nat
                   /\ \A i \in Index, n \in 0 .. MaxMoves : [of |-> i, strength |-> n] \in Value
  BY DEF Value, Signal, Default, Uuid, Index

LEMMA FrameIsNotNone == \A f \in Frame : f # NoFrame
<1> SUFFICES ASSUME NEW f \in Frame, f = NoFrame PROVE FALSE
  OBVIOUS
<1>1. 1 \in DOMAIN f
  BY DEF Frame, Index
<1>2. DOMAIN << >> = {}
  OBVIOUS
<1> QED BY <1>1, <1>2 DEF NoFrame

LEMMA NewerTransitive ==
    ASSUME NEW u \in Value, NEW v \in Value, NEW w \in Value, Newer(u, v), Newer(v, w)
    PROVE  Newer(u, w)
  BY ValueType DEF Newer

LEMMA NewerReflexive == ASSUME NEW v \in Value PROVE Newer(v, v)
  BY ValueType DEF Newer

LEMMA OrderedTransitive ==
    ASSUME NEW f \in Frame, NEW g \in Frame, NEW h \in Frame, Ordered(f, g), Ordered(g, h)
    PROVE  Ordered(f, h)
  BY NewerTransitive DEF Ordered, Frame

LEMMA OrderedReflexive == ASSUME NEW f \in Frame PROVE Ordered(f, f)
  BY NewerReflexive DEF Ordered, Frame

LEMMA SilenceIsFrame == Silence \in Frame /\ [i \in Index |-> Uuid] \in Frame
  BY ValueType DEF Silence, Frame

LEMMA CopiedIsFrame ==
    ASSUME NEW f \in Frame, NEW g \in Frame PROVE Copied(f, g) \in Frame
  BY DEF Copied, Frame, Index

-------------------------------------------------------------------------------

LEMMA TypeInit == Init => TypeOK
  BY SilenceIsFrame DEF Init, TypeOK, Index

LEMMA TypeStep == TypeOK /\ [Next]_vars => TypeOK'
<1> SUFFICES ASSUME TypeOK, [Next]_vars PROVE TypeOK'
  OBVIOUS
<1> USE DEF TypeOK, mobileVars, baseVars
<1>1. ASSUME NEW i \in Index, Move(i) PROVE TypeOK'
  BY <1>1 DEF Move, Index
<1>2. ASSUME NEW i \in Index, MobileDeviceFound(i) PROVE TypeOK'
  BY <1>2, ValueType DEF MobileDeviceFound, Frame
<1>3. ASSUME NEW i \in Index, FilterForgets(i) PROVE TypeOK'
  BY <1>3 DEF FilterForgets
<1>4. CASE AdvStart
  BY <1>4, SilenceIsFrame DEF AdvStart
<1>5. CASE BuildByte
  BY <1>5 DEF BuildByte, Frame, Index
<1>6. CASE AdvUpdate
  BY <1>6 DEF AdvUpdate
<1>7. CASE AdvUpdateFails
  BY <1>7 DEF AdvUpdateFails
<1>8. CASE Receive
  BY <1>8 DEF Receive
<1>9. CASE BaseDeviceFound
  BY <1>9, CopiedIsFrame DEF BaseDeviceFound
<1>10. CASE ReaderLock
  BY <1>10 DEF ReaderLock
<1>11. CASE ReadValue
  BY <1>11 DEF ReadValue, Reading, Frame, Index
<1>12. CASE ReaderUnlock
  BY <1>12 DEF ReaderUnlock
<1>13. CASE UNCHANGED vars
  BY <1>13 DEF vars
<1> QED BY <1>1, <1>2, <1>3, <1>4, <1>5, <1>6, <1>7, <1>8, <1>9, <1>10, <1>11, <1>12,
           <1>13 DEF Next, MobileLoop, Reader

(* Array, frames and values in use keep their types.                       *)
THEOREM TypeCorrect == Spec => []TypeOK
  BY TypeInit, TypeStep, PTL DEF Spec

-------------------------------------------------------------------------------

LEMMA InitIInv == Init => IInv
<1> SUFFICES ASSUME Init PROVE IInv
  OBVIOUS
<1>1. Right(Silence)
  BY DEF Right, Silence, Default
<1>2. Ordered(Silence, Silence)
  BY SilenceIsFrame, OrderedReflexive
<1>3. Silence[1].of = 0 /\ \A i \in Index : Silence[i].of = 0
  BY DEF Silence, Default, Index
<1> QED BY TypeInit, <1>1, <1>2, <1>3
        DEF Init, IInv, AllRight, CopiedSoFar, OnItsWay, Index

(* Each step of a value hands it on unchanged to the place of its beacon.  *)
LEMMA RightStep == IInv /\ [Next]_vars => AllRight'
<1> SUFFICES ASSUME IInv, [Next]_vars PROVE AllRight'
  OBVIOUS
<1> USE DEF IInv, TypeOK, AllRight, Right, mobileVars, baseVars
<1>1. ASSUME NEW i \in Index, Move(i) PROVE AllRight'
  BY <1>1 DEF Move
<1>2. ASSUME NEW i \in Index, MobileDeviceFound(i) PROVE AllRight'
  BY <1>2 DEF MobileDeviceFound, Frame
<1>3. ASSUME NEW i \in Index, FilterForgets(i) PROVE AllRight'
  BY <1>3 DEF FilterForgets
<1>4. CASE AdvStart
  BY <1>4 DEF AdvStart, Uuid
<1>5. CASE BuildByte
  BY <1>5 DEF BuildByte, Frame, Index
<1>6. CASE AdvUpdate
  BY <1>6 DEF AdvUpdate
<1>7. CASE AdvUpdateFails
  BY <1>7 DEF AdvUpdateFails
<1>8. CASE Receive
  BY <1>8 DEF Receive
<1>9. CASE BaseDeviceFound
  BY <1>9 DEF BaseDeviceFound, Copied
<1>10. CASE ReaderLock \/ ReaderUnlock
  BY <1>10 DEF ReaderLock, ReaderUnlock
<1>11. CASE ReadValue
  BY <1>11 DEF ReadValue, Reading, Frame, Index
<1>12. CASE UNCHANGED vars
  BY <1>12 DEF vars
<1> QED BY <1>1, <1>2, <1>3, <1>4, <1>5, <1>6, <1>7, <1>8, <1>9, <1>10, <1>11, <1>12
        DEF Next, MobileLoop, Reader

(* Nothing is stored while the mutex is with a reader.                     *)
LEMMA CopiedStep == IInv /\ [Next]_vars => CopiedSoFar'
<1> SUFFICES ASSUME IInv, [Next]_vars PROVE CopiedSoFar'
  OBVIOUS
<1> USE DEF IInv, TypeOK, CopiedSoFar, Index
<1>1. CASE UNCHANGED <<rssi_values, reading, snapshot>>
  BY <1>1
<1>2. CASE BaseDeviceFound
  BY <1>2 DEF BaseDeviceFound, Reading, mobileVars
<1>3. CASE ReaderLock
  BY <1>3 DEF ReaderLock
<1>4. CASE ReadValue
  BY <1>4 DEF ReadValue, Reading, Frame
<1>5. CASE ReaderUnlock
  BY <1>5 DEF ReaderUnlock
<1>6. CASE ~ (BaseDeviceFound \/ Reader)
  BY <1>1, <1>6 DEF Next, Move, MobileDeviceFound, FilterForgets, MobileLoop, AdvStart,
     BuildByte, AdvUpdate, AdvUpdateFails, Receive, vars, baseVars
<1> QED BY <1>2, <1>3, <1>4, <1>5, <1>6 DEF Reader

(* A step that moves a value on keeps the order; one that does not, leaves *)
(* the values where they are.                                              *)
LEMMA WayStep == IInv /\ [Next]_vars => OnItsWay'
<1> SUFFICES ASSUME IInv, [Next]_vars PROVE OnItsWay'
  OBVIOUS
<1> USE DEF IInv, TypeOK, OnItsWay
<1>1. ASSUME NEW i \in Index, Move(i) PROVE OnItsWay'
  BY <1>1, ValueType DEF Move, baseVars, Frame, Index
<1>2. ASSUME NEW i \in Index, MobileDeviceFound(i) PROVE OnItsWay'
  <2>1. UNCHANGED <<air, ad1, built, advert, baseVars>>
    BY <1>2 DEF MobileDeviceFound
  <2>2. beacon_rssi' = [beacon_rssi EXCEPT ![i] = [of |-> i, strength |-> air[i]]]
    BY <1>2 DEF MobileDeviceFound
  <2>3. Newer(ad1[i], [of |-> i, strength |-> air[i]])
    BY ValueType DEF Ordered, Newer, Frame, Index
  <2>4. Ordered(ad1, beacon_rssi)'
    BY <2>1, <2>2, <2>3 DEF Ordered, Frame
  <2>5. \A j \in Index : beacon_rssi'[j].of # 0 => beacon_rssi'[j].strength =< air[j]
    BY <2>2 DEF Frame, Index
  <2> QED BY <2>1, <2>4, <2>5 DEF baseVars
<1>3. ASSUME NEW i \in Index, FilterForgets(i) PROVE OnItsWay'
  BY <1>3 DEF FilterForgets, baseVars
<1>4. CASE AdvStart
  <2>1. advert' = [j \in Index |-> Uuid]
        /\ UNCHANGED <<air, beacon_rssi, ad1, built, baseVars>> /\ advert = NoFrame
    BY <1>4 DEF AdvStart
  <2>2. Ordered(rssi_values, advert')
    BY <2>1 DEF Ordered, Newer, Silence, Default
  <2>3. Ordered(advert', ad1)
    BY <2>1 DEF Ordered, Newer, Uuid
  <2> QED BY <2>1, <2>2, <2>3 DEF baseVars
<1>5. CASE BuildByte
  <2>1. ad1' = [ad1 EXCEPT ![built + 1] = beacon_rssi[built + 1]]
        /\ UNCHANGED <<air, filtered, beacon_rssi, advert, baseVars>> /\ advert # NoFrame
    BY <1>5 DEF BuildByte
  <2>2. built + 1 \in Index
    BY <1>5 DEF BuildByte, Index
  <2>3. Ordered(ad1, beacon_rssi)'
    BY <2>1, <2>2, NewerReflexive DEF Ordered, Frame
  <2>4. Ordered(ad1, ad1')
    BY <2>1, <2>2, NewerReflexive DEF Ordered, Frame
  <2>5. Ordered(advert, ad1')
    BY <2>4, <2>1, OrderedTransitive, TypeStep
  <2> QED BY <2>1, <2>3, <2>5 DEF baseVars
<1>6. CASE AdvUpdate
  <2>1. advert' = ad1 /\ UNCHANGED <<air, filtered, beacon_rssi, ad1, baseVars>>
    BY <1>6 DEF AdvUpdate
  <2>2. advert # NoFrame /\ advert' # NoFrame
    BY <1>6, <2>1, FrameIsNotNone DEF AdvUpdate
  <2>3. Ordered(rssi_values, ad1) /\ Ordered(ad1, ad1)
    BY <2>2, OrderedTransitive, OrderedReflexive
  <2>4. packet # NoFrame => Ordered(packet, ad1)
    BY <2>2, OrderedTransitive
  <2> QED BY <2>1, <2>2, <2>3, <2>4 DEF baseVars
<1>7. CASE AdvUpdateFails
  BY <1>7 DEF AdvUpdateFails, baseVars
<1>8. CASE Receive
  BY <1>8, OrderedReflexive DEF Receive, mobileVars
<1>9. CASE BaseDeviceFound
  <2>1. rssi_values' = Copied(rssi_values, packet) /\ packet' = NoFrame
        /\ UNCHANGED mobileVars /\ packet # NoFrame /\ advert # NoFrame
    BY <1>9 DEF BaseDeviceFound
  <2>2. Ordered(rssi_values', packet)
    BY <2>1, NewerReflexive DEF Ordered, Copied, Frame
  <2>3. Ordered(rssi_values', advert)
    BY <2>1, <2>2, OrderedTransitive, TypeStep
  <2> QED BY <2>1, <2>3 DEF mobileVars
<1>10. CASE Reader
  BY <1>10 DEF Reader, ReaderLock, ReadValue, ReaderUnlock, mobileVars
<1>11. CASE UNCHANGED vars
  BY <1>11 DEF vars, mobileVars, baseVars
<1> QED BY <1>1, <1>2, <1>3, <1>4, <1>5, <1>6, <1>7, <1>8, <1>9, <1>10, <1>11
        DEF Next, MobileLoop

LEMMA IInvAlways == Spec => []IInv
<1>1. IInv /\ [Next]_vars => IInv'
  BY TypeStep, RightStep, CopiedStep, WayStep DEF IInv
<1> QED BY <1>1, InitIInv, PTL DEF Spec

-------------------------------------------------------------------------------

(* A reader never mixes the values of two frames.                          *)
THEOREM SnapshotCorrect == Spec => []SnapshotIsWhole
<1>1. IInv => SnapshotIsWhole
  BY DEF IInv, TypeOK, CopiedSoFar, SnapshotIsWhole, Frame, Index
<1> QED BY <1>1, IInvAlways, PTL

(* No value is ever taken for that of another beacon.                      *)
THEOREM BeaconCorrect == Spec => []RightBeacon
<1>1. IInv => RightBeacon
  BY DEF IInv, AllRight, Right, RightBeacon
<1> QED BY <1>1, IInvAlways, PTL

(* The values in use only get newer.                                       *)
THEOREM NewerCorrect == Spec => NeverOlder
<1>1. IInv /\ [Next]_vars => [\A i \in Index : Newer(rssi_values[i], rssi_values'[i])]_vars
  <2> SUFFICES ASSUME IInv, Next
               PROVE  \A i \in Index : Newer(rssi_values[i], rssi_values'[i])
    OBVIOUS
  <2> USE DEF IInv, TypeOK
  <2>1. CASE BaseDeviceFound
    BY <2>1, NewerReflexive DEF BaseDeviceFound, OnItsWay, Ordered, Copied, Frame
  <2>2. CASE ~ BaseDeviceFound
    <3>1. UNCHANGED rssi_values
      BY <2>2 DEF Next, Move, MobileDeviceFound, FilterForgets, MobileLoop, AdvStart,
         BuildByte, AdvUpdate, AdvUpdateFails, Receive, Reader, ReaderLock, ReadValue,
         ReaderUnlock, baseVars
    <3> QED BY <3>1, NewerReflexive DEF Frame
  <2> QED BY <2>1, <2>2
<1> QED BY <1>1, IInvAlways, PTL DEF Spec, NeverOlder
===============================================================================
