---------------------------- MODULE BaseNodeProofs ----------------------------
(***************************************************************************)
(* The orderly session of module BaseNode is safe for any set of names and *)
(* any number of rows, and its threads never block each other for good.    *)
(***************************************************************************)
EXTENDS BaseNode, SequenceLemmas, SequenceTheorems, FiniteSetTheorems, TLAPS

(* A removal leaves a sequence of names without new elements, and without  *)
(* new repetitions.                                                        *)
Distinct(list) == \A i, j \in 1 .. Len(list) : list[i] = list[j] => i = j

LEMMA RemoveAtDistinct ==
    ASSUME NEW list \in Seq(Names), NEW p \in 1 .. Len(list)
    PROVE  /\ RemoveAt(list, p) \in Seq(Names)
           /\ \A k \in 1 .. Len(RemoveAt(list, p)) :
                 \E j \in 1 .. Len(list) : RemoveAt(list, p)[k] = list[j]
           /\ Distinct(list) => Distinct(RemoveAt(list, p))
<1> DEFINE r == RemoveAt(list, p)
           Old(k) == IF k < p THEN k ELSE k + 1
<1>1. Len(list) \in Nat
  BY LenProperties
<1>2. /\ r \in Seq(Names) /\ Len(r) = Len(list) - 1
      /\ \A k \in 1 .. Len(list) - 1 : r[k] = list[Old(k)]
  BY RemoveAtProperties
<1>3. \A k \in 1 .. Len(list) - 1 : Old(k) \in 1 .. Len(list)
  BY <1>1
<1>4. \A i, j \in 1 .. Len(list) - 1 : Old(i) = Old(j) => i = j
  BY <1>1
<1> HIDE DEF r, Old
<1>5. \A k \in 1 .. Len(r) : \E j \in 1 .. Len(list) : r[k] = list[j]
  BY <1>2, <1>3
<1>6. Distinct(list) => Distinct(r)
  BY <1>2, <1>3, <1>4 DEF Distinct
<1> QED
  BY <1>2, <1>5, <1>6 DEF r

-------------------------------------------------------------------------------

(* A running scan has counted and marked exactly the prefix of the list    *)
(* behind it; while thread_pos waits for the mutex that prefix is empty.   *)
ScanPrefix ==
    pos = "scan" =>
        /\ cursor \in 0 .. Len(beacon_list)
        /\ exists_len = cursor
        /\ \A k \in 1 .. cursor : beacon_list[k] \in exists
        /\ ~ Holds("pos", "dlist") => cursor = 0

MarkedWereListed == exists \subseteq everListed /\ Listed \subseteq everListed

OnceEach == ~ everTwice => Distinct(beacon_list)

(* What the scan leaves to the solver in an orderly session.               *)
MatrixFull == OrderlySession /\ pos = "solve" => RowCount = Rows

(* Type correctness in two parts, numbers and sets apart from the flags;   *)
(* that fed stays in range needs its value between the two updates.        *)
Data == /\ shell \in Commands \cup {Idle}
        /\ pos \in {"sleep", "scan", "solve", "fuse"}
        /\ mutex \in [Locks -> Mutex]
        /\ beacon_list \in Seq(Names)
        /\ exists \subseteq Names
        /\ exists_len \in Nat
        /\ cursor \in Nat
        /\ ultra_node_index \in {"none", "placed", "bare"}
        /\ dist \in {"none", "cm"}
        /\ x_hat \in {"finite", "nan"}
        /\ fed \in 0 .. 2
        /\ pos = "fuse" => fed = 1
        /\ everListed \subseteq Names

Flags == overrun \in BOOLEAN /\ everTwice \in BOOLEAN

IInv == /\ Data /\ Flags /\ ScanPrefix /\ MarkedWereListed /\ OnceEach
        /\ MatrixFull /\ OrderlySessionIsSafe

LEMMA InitIInv == Init => IInv
<1> SUFFICES ASSUME Init PROVE IInv
  OBVIOUS
<1>1. beacon_list \in Seq(Names) /\ Len(beacon_list) = 0
  BY EmptySeq DEF Init
<1>2. Data
  BY <1>1 DEF Init, Data, Mutex
<1>6. Flags
  BY DEF Init, Flags
<1>3. ScanPrefix /\ MatrixFull
  BY DEF Init, ScanPrefix, MatrixFull
<1>4. MarkedWereListed /\ OnceEach
  BY <1>1 DEF Init, MarkedWereListed, Listed, OnceEach, Distinct
<1>5. OrderlySessionIsSafe
  BY DEF Init, OrderlySessionIsSafe
<1> QED
  BY <1>2, <1>3, <1>4, <1>5, <1>6 DEF IInv

(* Locking and unlocking keep the mutexes well-formed and change no owner  *)
(* but that of the mutex concerned.                                        *)
LEMMA RequestType ==
    ASSUME mutex \in [Locks -> Mutex], NEW t \in Threads, NEW l \in Locks, Request(t, l)
    PROVE  /\ mutex' \in [Locks -> Mutex]
           /\ \A m \in Locks : mutex[m].owner # Nobody => mutex'[m].owner = mutex[m].owner
           /\ \A m \in Locks \ {l} : mutex'[m] = mutex[m]
BY DEF Request, Holds, Mutex, Threads, Nobody, Locks

LEMMA ReleaseType ==
    ASSUME mutex \in [Locks -> Mutex], NEW l \in Locks, Release(l)
    PROVE  /\ mutex' \in [Locks -> Mutex]
           /\ \A m \in Locks \ {l} : mutex'[m] = mutex[m]
BY DEF Release, Mutex

(* The other steps of the proof: one lemma for each conjunct.              *)
LEMMA StepData == IInv /\ [Next]_vars => Data'
<1> SUFFICES ASSUME IInv, [Next]_vars PROVE Data'
  OBVIOUS
<1> USE DEF Data, listVars, scanVars, filterVars
<1>0. Data
  BY DEF IInv
<1>1. ASSUME NEW op, CmdReturn(op)
      PROVE  /\ mutex' \in [Locks -> Mutex]
             /\ shell' = Idle
             /\ UNCHANGED <<pos, exists, exists_len, cursor, dist, x_hat, fed>>
  <2>1. LockOf(shell) \in Locks
    BY DEF LockOf, Locks
  <2> QED
    BY <1>0, <1>1, <2>1, ReleaseType DEF CmdReturn
<1>2. ASSUME NEW c \in Commands, CmdCall(c) PROVE Data'
  <2>1. mutex' \in [Locks -> Mutex]
    BY <1>0, <1>2, RequestType DEF CmdCall, LockOf, Locks, Threads
  <2> QED
    BY <1>0, <1>2, <2>1 DEF CmdCall
<1>3. CASE CmdAdd
  <2>1. shell.arg \in Names
    BY <1>0, <1>3 DEF CmdAdd, CmdReturn, Commands, Idle
  <2>2. beacon_list' \in Seq(Names)
    BY <1>0, <1>3, <2>1, AppendProperties DEF CmdAdd
  <2> QED
    BY <1>0, <1>1, <1>3, <2>1, <2>2 DEF CmdAdd
<1>4. CASE CmdClear
  <2>1. beacon_list' \in Seq(Names)
    BY <1>0, <1>4, RemoveAtDistinct DEF CmdClear
  <2> QED
    BY <1>0, <1>1, <1>4, <2>1 DEF CmdClear
<1>5. CASE CmdClearAll
  <2>1. beacon_list' \in Seq(Names)
    BY <1>5, EmptySeq DEF CmdClearAll
  <2> QED
    BY <1>0, <1>1, <1>5, <2>1 DEF CmdClearAll
<1>6. CASE CmdList
  BY <1>0, <1>1, <1>6 DEF CmdList
<1>7. CASE CmdAddUltra
  <2>1. shell.arg \in {"none", "placed", "bare"}
    BY <1>0, <1>7 DEF CmdAddUltra, CmdReturn, Commands, Idle
  <2> QED
    BY <1>0, <1>1, <1>7, <2>1 DEF CmdAddUltra
<1>8. CASE PosWake
  <2>1. mutex' \in [Locks -> Mutex]
    BY <1>0, <1>8, RequestType DEF PosWake, Locks, Threads
  <2> QED
    BY <1>0, <1>8, <2>1 DEF PosWake
<1>9. CASE PosScanNode
  <2>1. beacon_list[cursor + 1] \in Names
    BY <1>0, <1>9, ElementOfSeq, LenProperties DEF PosScanNode
  <2> QED
    BY <1>0, <1>9, <2>1 DEF PosScanNode
<1>10. CASE PosScanEnd
  <2>1. mutex' \in [Locks -> Mutex]
    BY <1>0, <1>10, ReleaseType DEF PosScanEnd, Locks
  <2> QED
    BY <1>0, <1>10, <2>1 DEF PosScanEnd
<1>11. CASE PosSolve
  <2>1. mutex' \in [Locks -> Mutex]
    BY <1>0, <1>11, RequestType DEF PosSolve, Locks, Threads
  <2>2. x_hat' \in {"finite", "nan"}
    BY <1>11 DEF PosSolve, Solutions, Filtered
  <2> QED
    BY <1>0, <1>11, <2>1, <2>2 DEF PosSolve
<1>12. CASE PosFuse
  <2>1. mutex' \in [Locks -> Mutex]
    BY <1>0, <1>12, ReleaseType DEF PosFuse, Locks
  <2>2. fed' \in 0 .. 2
    BY <1>0, <1>12 DEF PosFuse
  <2> QED
    BY <1>0, <1>12, <2>1, <2>2 DEF PosFuse
<1>13. CASE DeviceFoundUltra
  BY <1>0, <1>13 DEF DeviceFoundUltra
<1>14. CASE UNCHANGED vars
  BY <1>0, <1>14 DEF vars
<1> QED
  BY <1>2, <1>3, <1>4, <1>5, <1>6, <1>7, <1>8, <1>9, <1>10, <1>11, <1>12, <1>13,
     <1>14 DEF Next, CmdStep, PosStep

LEMMA StepFlags == IInv /\ [Next]_vars => Flags'
<1> SUFFICES ASSUME Flags, [Next]_vars PROVE Flags'
  BY DEF IInv
<1>1. overrun' \in BOOLEAN
  BY DEF Flags, Next, CmdCall, CmdStep, CmdAdd, CmdClear, CmdClearAll, CmdList,
     CmdAddUltra, CmdReturn, PosStep, PosWake, PosScanNode, PosScanEnd, PosSolve,
     PosFuse, DeviceFoundUltra, vars, filterVars
<1>2. everTwice' \in BOOLEAN
  BY DEF Flags, Next, CmdCall, CmdStep, CmdAdd, CmdClear, CmdClearAll, CmdList,
     CmdAddUltra, CmdReturn, PosStep, PosWake, PosScanNode, PosScanEnd, PosSolve,
     PosFuse, DeviceFoundUltra, vars, listVars
<1> QED
  BY <1>1, <1>2 DEF Flags

(* While thread_pos holds dlist_mutex no command returns, so the list does *)
(* not change under the scan.                                              *)
LEMMA StepScanPrefix == IInv /\ [Next]_vars => ScanPrefix'
<1> SUFFICES ASSUME IInv, [Next]_vars PROVE ScanPrefix'
  OBVIOUS
<1>0. Data /\ ScanPrefix /\ Len(beacon_list) \in Nat
  BY LenProperties DEF IInv, Data
<1>1. CASE UNCHANGED <<pos, mutex, beacon_list, exists, exists_len, cursor>>
  BY <1>0, <1>1 DEF ScanPrefix, Holds
<1>2. ASSUME NEW c \in Commands, CmdCall(c) PROVE ScanPrefix'
  <2>1. Holds("pos", "dlist") => Holds("pos", "dlist")'
    BY <1>0, <1>2 DEF CmdCall, Request, Holds, LockOf, Data, Locks, Mutex, Nobody
  <2> QED
    BY <1>0, <1>2, <2>1 DEF CmdCall, ScanPrefix, listVars, scanVars
<1>3. ASSUME NEW op \in {"add", "clear", "clearAll", "list"}, CmdReturn(op),
             beacon_list' \in Seq(Names)
      PROVE  ScanPrefix'
  <2>1. pos = "scan" => cursor = 0 /\ exists_len = 0
    BY <1>0, <1>3 DEF ScanPrefix, CmdReturn, LockOf, Holds
  <2>2. Len(beacon_list') \in Nat
    BY <1>3, LenProperties
  <2> QED
    BY <1>3, <2>1, <2>2 DEF CmdReturn, ScanPrefix, scanVars
<1>4. beacon_list' \in Seq(Names)
  BY StepData DEF Data
<1>5. CASE CmdAddUltra
  <2>1. Holds("pos", "dlist")' = Holds("pos", "dlist")
    BY <1>0, <1>5, ReleaseType
       DEF CmdAddUltra, CmdReturn, LockOf, Holds, Data, Locks
  <2> QED
    BY <1>0, <1>5, <2>1 DEF CmdAddUltra, CmdReturn, ScanPrefix, listVars, scanVars
<1>6. CASE PosWake
  BY <1>0, <1>6 DEF PosWake, ScanPrefix, listVars
<1>7. CASE PosScanNode
  <2>1. /\ cursor' = cursor + 1 /\ exists_len' = exists_len + 1
        /\ exists' = exists \cup {beacon_list[cursor + 1]}
        /\ UNCHANGED <<pos, mutex, beacon_list>> /\ pos = "scan"
        /\ Holds("pos", "dlist") /\ cursor < Len(beacon_list)
    BY <1>7 DEF PosScanNode, listVars
  <2>2. \A k \in 1 .. cursor + 1 : k \in 1 .. cursor \/ k = cursor + 1
    BY <1>0 DEF Data
  <2>3. \A k \in 1 .. cursor' : beacon_list'[k] \in exists'
    BY <1>0, <2>1, <2>2 DEF ScanPrefix
  <2>4. cursor' \in 0 .. Len(beacon_list') /\ exists_len' = cursor'
    BY <1>0, <2>1 DEF ScanPrefix, Data
  <2>5. Holds("pos", "dlist")'
    BY <2>1 DEF Holds
  <2> QED
    BY <2>3, <2>4, <2>5 DEF ScanPrefix
<1>8. CASE pos' # "scan"
  BY <1>8 DEF ScanPrefix
<1>9. CASE DeviceFoundUltra
  BY <1>1, <1>9 DEF DeviceFoundUltra, listVars, scanVars
<1> QED
  BY <1>1, <1>2, <1>3, <1>4, <1>5, <1>6, <1>7, <1>8, <1>9
     DEF Next, vars, CmdStep, PosStep, CmdAdd, CmdClear, CmdClearAll, CmdList,
         PosScanEnd, PosSolve, PosFuse, listVars, scanVars

(* exists[] grows by listed names, the list by added ones.                 *)
LEMMA StepMarked == IInv /\ [Next]_vars => MarkedWereListed'
<1> SUFFICES ASSUME IInv, [Next]_vars PROVE MarkedWereListed'
  OBVIOUS
<1>0. /\ beacon_list \in Seq(Names) /\ Len(beacon_list) \in Nat
      /\ MarkedWereListed
  BY LenProperties DEF IInv, Data
<1>1. CASE UNCHANGED <<beacon_list, exists, everListed>>
  BY <1>0, <1>1 DEF MarkedWereListed, Listed
<1>2. CASE CmdAdd
  <2>1. shell.arg \in Names
    BY <1>2 DEF IInv, Data, CmdAdd, CmdReturn, Commands, Idle
  <2>2. Listed' \subseteq Listed \cup {shell.arg}
    BY <1>0, <1>2, <2>1, AppendProperties DEF CmdAdd, Listed
  <2> QED
    BY <1>0, <1>2, <2>2 DEF CmdAdd, CmdReturn, MarkedWereListed, scanVars
<1>3. CASE CmdClear
  <2>1. CASE UNCHANGED beacon_list
    BY <1>0, <1>3, <2>1 DEF CmdClear, CmdReturn, MarkedWereListed, Listed, scanVars
  <2>2. ASSUME NEW p \in 1 .. Len(beacon_list), beacon_list' = RemoveAt(beacon_list, p)
        PROVE  MarkedWereListed'
    <3>1. \A k \in 1 .. Len(beacon_list') :
             \E j \in 1 .. Len(beacon_list) : beacon_list'[k] = beacon_list[j]
      BY <1>0, <2>2, RemoveAtDistinct
    <3>2. Listed' \subseteq Listed
      BY <3>1 DEF Listed
    <3> QED
      BY <1>0, <1>3, <3>2 DEF CmdClear, CmdReturn, MarkedWereListed, scanVars
  <2> QED
    BY <1>3, <2>1, <2>2 DEF CmdClear
<1>4. CASE CmdClearAll
  <2>1. Listed' = {}
    BY <1>4, EmptySeq DEF CmdClearAll, Listed
  <2> QED
    BY <1>0, <1>4, <2>1 DEF CmdClearAll, CmdReturn, MarkedWereListed, scanVars
<1>5. CASE PosScanNode
  <2>1. beacon_list[cursor + 1] \in Listed
    BY <1>0, <1>5 DEF PosScanNode, Listed, IInv, Data
  <2> QED
    BY <1>0, <1>5, <2>1 DEF PosScanNode, MarkedWereListed, Listed, listVars
<1> QED
  BY <1>1, <1>2, <1>3, <1>4, <1>5
     DEF Next, vars, CmdCall, CmdStep, CmdList, CmdAddUltra, CmdReturn, PosStep,
         PosWake, PosScanEnd, PosSolve, PosFuse, DeviceFoundUltra, listVars, scanVars

(* A list without repetitions gets one only by an add of a listed name,    *)
(* which everTwice records.                                                *)
LEMMA StepOnceEach == IInv /\ [Next]_vars => OnceEach'
<1> SUFFICES ASSUME IInv, [Next]_vars PROVE OnceEach'
  OBVIOUS
<1>0. /\ beacon_list \in Seq(Names) /\ Len(beacon_list) \in Nat
      /\ OnceEach
  BY LenProperties DEF IInv, Data
<1>1. CASE UNCHANGED <<beacon_list, everTwice>>
  BY <1>0, <1>1 DEF OnceEach, Distinct
<1>2. CASE CmdAdd
  <2> DEFINE n == shell.arg
  <2>1. n \in Names
    BY <1>2 DEF IInv, Data, CmdAdd, CmdReturn, Commands, Idle
  <2>2. ~ everTwice' => ~ everTwice /\ n \notin Listed
    BY <1>2 DEF CmdAdd
  <2>3. beacon_list' = Append(beacon_list, n)
    BY <1>2 DEF CmdAdd
  <2> HIDE DEF n
  <2>4. /\ Len(beacon_list') = Len(beacon_list) + 1
        /\ \A k \in 1 .. Len(beacon_list) : beacon_list'[k] = beacon_list[k]
        /\ beacon_list'[Len(beacon_list) + 1] = n
    BY <1>0, <2>1, <2>3, AppendProperties
  <2>5. Distinct(beacon_list) /\ n \notin Listed => Distinct(beacon_list')
    BY <1>0, <2>4 DEF Distinct, Listed
  <2> QED
    BY <1>0, <2>2, <2>5 DEF OnceEach
<1>3. CASE CmdClear
  <2>1. Distinct(beacon_list) => Distinct(beacon_list')
    BY <1>0, <1>3, RemoveAtDistinct DEF CmdClear
  <2> QED
    BY <1>0, <1>3, <2>1 DEF CmdClear, OnceEach
<1>4. CASE CmdClearAll
  BY <1>4, EmptySeq DEF CmdClearAll, OnceEach, Distinct
<1> QED
  BY <1>1, <1>2, <1>3, <1>4
     DEF Next, vars, CmdCall, CmdStep, CmdList, CmdAddUltra, PosStep,
         PosWake, PosScanNode, PosScanEnd, PosSolve, PosFuse, DeviceFoundUltra, listVars

(* A session that is orderly after a step was orderly before it.           *)
LEMMA OrderlyBefore == IInv /\ [Next]_vars /\ OrderlySession' => OrderlySession
<1> SUFFICES ASSUME IInv, [Next]_vars, OrderlySession' PROVE OrderlySession
  OBVIOUS
<1>1. everListed \subseteq everListed'
  BY DEF Next, vars, CmdCall, CmdStep, CmdAdd, CmdClear, CmdClearAll, CmdList,
         CmdAddUltra, PosStep, PosWake, PosScanNode, PosScanEnd, PosSolve, PosFuse,
         DeviceFoundUltra, listVars
<1>6. everTwice => everTwice'
  BY DEF Next, vars, CmdCall, CmdStep, CmdAdd, CmdClear, CmdClearAll, CmdList,
         CmdAddUltra, PosStep, PosWake, PosScanNode, PosScanEnd, PosSolve, PosFuse,
         DeviceFoundUltra, listVars
<1>2. IsFiniteSet(everListed') /\ IsFiniteSet(everListed)
  BY <1>1, StepData, NamesAssumption, FS_Subset DEF Data, IInv
<1>3. /\ Cardinality(everListed) =< Cardinality(everListed')
      /\ Cardinality(everListed) \in Nat /\ Cardinality(everListed') \in Nat
  BY <1>1, <1>2, FS_Subset, FS_CardinalityType
<1>4. Cardinality(everListed') =< Rows /\ ~ everTwice'
  BY DEF OrderlySession
<1>5. Cardinality(everListed) =< Rows
  BY <1>3, <1>4, RowsAssumption
<1> QED
  BY <1>4, <1>5, <1>6 DEF OrderlySession

(* The scan that counts Rows nodes has marked Rows different names, and    *)
(* there are no others to be marked.                                       *)
LEMMA StepMatrixFull == IInv /\ [Next]_vars => MatrixFull'
<1> SUFFICES ASSUME IInv, [Next]_vars, OrderlySession', pos' = "solve"
             PROVE  RowCount' = Rows
  BY DEF MatrixFull
<1>0. OrderlySession
  BY OrderlyBefore
<1>1. CASE pos = "solve" /\ UNCHANGED exists
  BY <1>0, <1>1 DEF IInv, MatrixFull, RowCount
<1>2. CASE PosScanEnd
  <2>1. /\ exists_len = Rows /\ cursor >= Len(beacon_list) /\ pos = "scan"
        /\ exists' = exists
    BY <1>2 DEF PosScanEnd, scanVars
  <2>2. beacon_list \in Seq(Names) /\ Len(beacon_list) \in Nat
    BY LenProperties DEF IInv, Data
  <2>3. /\ Len(beacon_list) = Rows
        /\ \A k \in 1 .. Len(beacon_list) : beacon_list[k] \in exists
    BY <2>1, <2>2 DEF IInv, ScanPrefix
  <2>4. Distinct(beacon_list)
    BY <1>0 DEF IInv, OnceEach, OrderlySession
  <2>5. IsFiniteSet(Listed) /\ Cardinality(Listed) = Rows
    BY <2>2, <2>3, <2>4, DistinctCardinality DEF Distinct, Listed
  <2>6. Listed \subseteq exists /\ exists \subseteq everListed
    BY <2>3 DEF Listed, IInv, MarkedWereListed
  <2>7. IsFiniteSet(everListed) /\ IsFiniteSet(exists)
    BY <2>6, NamesAssumption, FS_Subset DEF IInv, Data
  <2>8. /\ Cardinality(Listed) =< Cardinality(exists)
        /\ Cardinality(exists) =< Cardinality(everListed)
        /\ Cardinality(exists) \in Nat /\ Cardinality(everListed) \in Nat
    BY <2>6, <2>7, FS_Subset, FS_CardinalityType
  <2>9. Cardinality(everListed) =< Rows
    BY <1>0 DEF OrderlySession
  <2>10. Cardinality(exists) = Rows
    BY <2>5, <2>8, <2>9, RowsAssumption
  <2> QED
    BY <2>1, <2>10 DEF RowCount
<1> QED
  BY <1>1, <1>2 DEF Next, vars, CmdCall, CmdStep, CmdAdd, CmdClear, CmdClearAll,
     CmdList, CmdAddUltra, CmdReturn, PosStep, PosWake, PosScanNode, PosSolve,
     PosFuse, DeviceFoundUltra, scanVars

LEMMA StepSafe == IInv /\ [Next]_vars => OrderlySessionIsSafe'
<1> SUFFICES ASSUME IInv, [Next]_vars, OrderlySession'
             PROVE  ~ overrun' /\ x_hat' = "finite"
  BY DEF OrderlySessionIsSafe
<1>0. OrderlySession /\ ~ overrun /\ x_hat = "finite"
  BY OrderlyBefore DEF IInv, OrderlySessionIsSafe
<1>1. CASE UNCHANGED <<x_hat, overrun>>
  BY <1>0, <1>1
<1>2. CASE PosSolve
  <2>1. RowCount = Rows
    BY <1>0, <1>2 DEF IInv, MatrixFull, PosSolve
  <2>2. ~ (RowCount > Rows)
    BY <2>1, RowsAssumption
  <2>3. x_hat' = "finite"
    BY <1>0, <1>2, <2>1 DEF PosSolve, Solutions, Filtered
  <2>4. ~ overrun'
    BY <1>0, <1>2, <2>2 DEF PosSolve
  <2> QED
    BY <2>3, <2>4
<1> QED
  BY <1>1, <1>2 DEF Next, vars, CmdCall, CmdStep, CmdAdd, CmdClear, CmdClearAll,
     CmdList, CmdAddUltra, CmdReturn, PosStep, PosWake, PosScanNode, PosScanEnd,
     PosFuse, DeviceFoundUltra, filterVars

LEMMA Inductive == Spec => []IInv
<1>1. IInv /\ [Next]_vars => IInv'
  BY StepData, StepFlags, StepScanPrefix, StepMarked, StepOnceEach, StepMatrixFull,
     StepSafe DEF IInv
<1> QED
  BY <1>1, InitIInv, PTL DEF Spec

-------------------------------------------------------------------------------

(* Every variable keeps its type.                                          *)
THEOREM TypeCorrect == Spec => []TypeOK
<1>1. IInv => TypeOK
  BY DEF IInv, Data, Flags, TypeOK
<1> QED
  BY <1>1, Inductive, PTL

(* A finished scan is of one list, however it interleaves with commands.   *)
THEOREM ScanCorrect == Spec => []ScanIsOfOneList
<1>1. IInv => ScanIsOfOneList
  <2> SUFFICES ASSUME IInv, ScanComplete
               PROVE  exists_len = Len(beacon_list) /\ Listed \subseteq exists
    BY DEF ScanIsOfOneList
  <2>1. Len(beacon_list) \in Nat
    BY LenProperties DEF IInv, Data
  <2>2. cursor = Len(beacon_list)
    BY <2>1 DEF IInv, ScanPrefix, ScanComplete
  <2> QED
    BY <2>2 DEF IInv, ScanPrefix, ScanComplete, Listed
<1> QED
  BY <1>1, Inductive, PTL

(* A session with at most Rows different beacons, none listed twice at a   *)
(* time, never writes behind the matrices and never yields a NaN.          *)
THEOREM OrderlyCorrect == Spec => []OrderlySessionIsSafe
<1>1. IInv => OrderlySessionIsSafe
  BY DEF IInv
<1> QED
  BY <1>1, Inductive, PTL

-------------------------------------------------------------------------------

(* The mutexes a thread wants or has: the shell that of its command,       *)
(* thread_pos the one of the list while it scans, the other while it fuses.*)
Wants(t) == IF t = "shell" THEN (IF shell = Idle THEN {} ELSE {LockOf(shell)})
            ELSE IF pos = "scan" THEN {"dlist"}
            ELSE IF pos = "fuse" THEN {"ultra"} ELSE {}
Waits(t, l) == t \in mutex[l].waiters

(* Who owns a mutex or waits for it wants it, who wants it owns it or      *)
(* waits; nobody waits for a mutex that is free or his own.                *)
LocksInOrder ==
    \A l \in Locks :
        /\ \A t \in Threads : l \in Wants(t) <=> (Holds(t, l) \/ Waits(t, l))
        /\ \A t \in Threads : Waits(t, l) => ~ Holds(t, l) /\ ~ Holds(Nobody, l)

(* Nobody waits for a thread that waits itself: there is always one who    *)
(* can go on and will give the mutex back.                                 *)
NobodyIsStuck ==
    \A l \in Locks, t \in Threads : Waits(t, l) =>
        \E o \in Threads \ {t} : Holds(o, l) /\ \A m \in Locks : ~ Waits(o, m)

(* What a lock and an unlock do to who has or awaits a mutex.              *)
HasOrAwaits(t, l) == Holds(t, l) \/ Waits(t, l)
Orderly(l) == \A t \in Threads : Waits(t, l) => ~ Holds(t, l) /\ ~ Holds(Nobody, l)

LEMMA RequestOrder ==
    ASSUME mutex \in [Locks -> Mutex], NEW t \in Threads, NEW l \in Locks,
           Request(t, l), ~ HasOrAwaits(t, l), \A m \in Locks : Orderly(m)
    PROVE  \A m \in Locks :
              /\ Orderly(m)'
              /\ \A o \in Threads :
                    HasOrAwaits(o, m)' <=> HasOrAwaits(o, m) \/ (o = t /\ m = l)
<1> USE DEF HasOrAwaits, Orderly, Holds, Waits
<1>1. \A m \in Locks : mutex[m].waiters \subseteq Threads
  BY DEF Mutex
<1>2. CASE mutex[l].owner = Nobody
  <2>1. /\ \A m \in Locks \ {l} : mutex'[m] = mutex[m]
        /\ mutex'[l].owner = t /\ mutex'[l].waiters = mutex[l].waiters
    BY <1>2 DEF Request, Mutex
  <2>2. mutex[l].waiters = {}
    BY <1>1, <1>2
  <2>3. t # Nobody
    BY DEF Threads, Nobody
  <2> QED BY <1>2, <2>1, <2>2, <2>3 DEF Threads, Nobody
<1>3. CASE mutex[l].owner # Nobody
  <2>1. /\ \A m \in Locks \ {l} : mutex'[m] = mutex[m]
        /\ mutex'[l].owner = mutex[l].owner
        /\ mutex'[l].waiters = mutex[l].waiters \cup {t}
    BY <1>3 DEF Request, Mutex
  <2> QED BY <1>3, <2>1
<1> QED BY <1>2, <1>3

LEMMA ReleaseOrder ==
    ASSUME mutex \in [Locks -> Mutex], NEW t \in Threads, NEW l \in Locks,
           Release(l), Holds(t, l), \A m \in Locks : Orderly(m)
    PROVE  \A m \in Locks :
              /\ Orderly(m)'
              /\ \A o \in Threads :
                    HasOrAwaits(o, m)' <=> HasOrAwaits(o, m) /\ ~ (o = t /\ m = l)
<1> USE DEF HasOrAwaits, Orderly, Holds, Waits
<1>1. \A m \in Locks : mutex[m].waiters \subseteq Threads
  BY DEF Mutex
<1>2. Nobody \notin Threads
  BY DEF Nobody, Threads
<1>3. CASE mutex[l].waiters = {} /\ mutex' = [mutex EXCEPT ![l].owner = Nobody]
  <2>1. /\ \A m \in Locks \ {l} : mutex'[m] = mutex[m]
        /\ mutex'[l].owner = Nobody /\ mutex'[l].waiters = {}
    BY <1>3 DEF Mutex
  <2> QED BY <1>2, <1>3, <2>1
<1>4. ASSUME NEW w \in mutex[l].waiters,
             mutex' = [mutex EXCEPT ![l] = [owner |-> w, waiters |-> @.waiters \ {w}]]
      PROVE  \A m \in Locks :
                /\ Orderly(m)'
                /\ \A o \in Threads :
                      HasOrAwaits(o, m)' <=> HasOrAwaits(o, m) /\ ~ (o = t /\ m = l)
  <2>1. /\ \A m \in Locks \ {l} : mutex'[m] = mutex[m]
        /\ mutex'[l].owner = w /\ mutex'[l].waiters = mutex[l].waiters \ {w}
    BY <1>4 DEF Mutex
  <2>2. w # t /\ w \in Threads
    BY <1>1, <1>4
  <2> QED BY <1>1, <1>2, <1>4, <2>1, <2>2
<1> QED BY <1>3, <1>4 DEF Release

(* Every step keeps the mutexes in order: a thread goes for one only when  *)
(* it wants none, and gives back the one it has.                           *)
LEMMA LocksStep == IInv /\ LocksInOrder /\ [Next]_vars => LocksInOrder'
<1> SUFFICES ASSUME IInv, LocksInOrder, [Next]_vars PROVE LocksInOrder'
  OBVIOUS
<1>1. /\ mutex \in [Locks -> Mutex] /\ shell \in Commands \cup {Idle}
      /\ pos \in {"sleep", "scan", "solve", "fuse"}
  BY DEF IInv, Data
<1>2. /\ \A l \in Locks : Orderly(l)
      /\ \A l \in Locks, t \in Threads : l \in Wants(t) <=> HasOrAwaits(t, l)
  BY DEF LocksInOrder, Orderly, HasOrAwaits
<1>4. \A c \in Commands : c # Idle /\ LockOf(c) \in Locks
  BY DEF Commands, Idle, LockOf, Locks
<1>5. \A t \in Threads : t = "shell" \/ t = "pos"
  BY DEF Threads
<1>t. "shell" \in Threads /\ "pos" \in Threads /\ "dlist" \in Locks /\ "ultra" \in Locks
  BY DEF Threads, Locks
<1>6. ASSUME NEW c \in Commands, CmdCall(c) PROVE LocksInOrder'
  <2>1. shell = Idle /\ shell' = c /\ pos' = pos /\ Request("shell", LockOf(c))
    BY <1>6 DEF CmdCall
  <2>2. Wants("shell") = {} /\ Wants("shell")' = {LockOf(c)} /\ Wants("pos")' = Wants("pos")
    BY <1>4, <2>1 DEF Wants
  <2>3. LockOf(c) \in Locks /\ ~ HasOrAwaits("shell", LockOf(c))
    BY <1>2, <1>4, <1>t, <2>2
  <2>4. \A m \in Locks :
           /\ Orderly(m)'
           /\ \A o \in Threads :
                 HasOrAwaits(o, m)' <=> HasOrAwaits(o, m) \/ (o = "shell" /\ m = LockOf(c))
    BY <1>1, <1>2, <1>t, <2>1, <2>3, RequestOrder
  <2>5. \A l \in Locks, t \in Threads : l \in Wants(t)' <=> HasOrAwaits(t, l)'
    BY <1>2, <1>5, <1>t, <2>2, <2>4
  <2> QED BY <2>4, <2>5 DEF LocksInOrder, Orderly, HasOrAwaits
<1>7. ASSUME NEW op, CmdReturn(op) PROVE LocksInOrder'
  <2>1. /\ Holds("shell", LockOf(shell)) /\ Release(LockOf(shell))
        /\ shell' = Idle /\ pos' = pos
    BY <1>7 DEF CmdReturn
  <2>2. LockOf(shell) \in Locks
    BY DEF LockOf, Locks
  <2>3. HasOrAwaits("shell", LockOf(shell))
    BY <2>1 DEF HasOrAwaits
  <2>4. /\ Wants("shell") = {LockOf(shell)} /\ Wants("shell")' = {}
        /\ Wants("pos")' = Wants("pos")
    BY <1>2, <1>t, <2>1, <2>2, <2>3 DEF Wants
  <2>5. \A m \in Locks :
           /\ Orderly(m)'
           /\ \A o \in Threads :
                 HasOrAwaits(o, m)' <=>
                    HasOrAwaits(o, m) /\ ~ (o = "shell" /\ m = LockOf(shell))
    BY <1>1, <1>2, <1>t, <2>1, <2>2, ReleaseOrder
  <2>6. \A l \in Locks, t \in Threads : l \in Wants(t)' <=> HasOrAwaits(t, l)'
    BY <1>2, <1>5, <1>t, <2>4, <2>5
  <2> QED BY <2>5, <2>6 DEF LocksInOrder, Orderly, HasOrAwaits
<1>8. CASE CmdStep
  BY <1>7, <1>8 DEF CmdStep, CmdAdd, CmdClear, CmdClearAll, CmdList, CmdAddUltra
<1>9. ASSUME NEW l \in Locks, Request("pos", l), shell' = shell,
             Wants("pos") = {}, Wants("pos")' = {l}
      PROVE  LocksInOrder'
  <2>1. ~ HasOrAwaits("pos", l)
    BY <1>2, <1>9, <1>t
  <2>2. Wants("shell")' = Wants("shell")
    BY <1>9 DEF Wants
  <2>3. \A m \in Locks :
           /\ Orderly(m)'
           /\ \A o \in Threads :
                 HasOrAwaits(o, m)' <=> HasOrAwaits(o, m) \/ (o = "pos" /\ m = l)
    BY <1>1, <1>2, <1>9, <1>t, <2>1, RequestOrder
  <2>4. \A m \in Locks, t \in Threads : m \in Wants(t)' <=> HasOrAwaits(t, m)'
    BY <1>2, <1>5, <1>9, <1>t, <2>2, <2>3
  <2> QED BY <2>3, <2>4 DEF LocksInOrder, Orderly, HasOrAwaits
<1>10. ASSUME NEW l \in Locks, Release(l), Holds("pos", l), shell' = shell,
              Wants("pos") = {l}, Wants("pos")' = {}
       PROVE  LocksInOrder'
  <2>1. Wants("shell")' = Wants("shell")
    BY <1>10 DEF Wants
  <2>2. \A m \in Locks :
           /\ Orderly(m)'
           /\ \A o \in Threads :
                 HasOrAwaits(o, m)' <=> HasOrAwaits(o, m) /\ ~ (o = "pos" /\ m = l)
    BY <1>1, <1>2, <1>10, <1>t, ReleaseOrder
  <2>3. \A m \in Locks, t \in Threads : m \in Wants(t)' <=> HasOrAwaits(t, m)'
    BY <1>2, <1>5, <1>10, <1>t, <2>1, <2>2
  <2> QED BY <2>2, <2>3 DEF LocksInOrder, Orderly, HasOrAwaits
<1>11. CASE PosWake
  BY <1>9, <1>11, <1>t DEF PosWake, Wants
<1>12. CASE PosSolve
  BY <1>9, <1>12, <1>t DEF PosSolve, Wants
<1>13. CASE PosScanEnd
  BY <1>10, <1>13, <1>t DEF PosScanEnd, Wants
<1>14. CASE PosFuse
  BY <1>10, <1>14, <1>t DEF PosFuse, Wants
<1>15. CASE UNCHANGED <<shell, pos, mutex>>
  BY <1>15 DEF LocksInOrder, Wants, Waits, Holds, LockOf
<1>16. CASE PosScanNode \/ DeviceFoundUltra \/ UNCHANGED vars
  BY <1>15, <1>16 DEF PosScanNode, DeviceFoundUltra, vars
<1> QED BY <1>6, <1>8, <1>11, <1>12, <1>13, <1>14, <1>16 DEF Next, PosStep

LEMMA LocksAlways == Spec => []LocksInOrder
<1>1. Init => LocksInOrder
  BY DEF Init, LocksInOrder, Wants, Waits, Holds, Threads, Nobody
<1> QED BY <1>1, LocksStep, Inductive, PTL DEF Spec

(* The shell and thread_pos never wait for each other: whoever waits for   *)
(* dlist_mutex or the mutex of the ultrasonic node waits for a thread that *)
(* has it, has no other wait, and is on its way to give it back.           *)
THEOREM NobodyIsStuckCorrect == Spec => []NobodyIsStuck
<1>1. LocksInOrder /\ IInv => NobodyIsStuck
  <2> SUFFICES ASSUME LocksInOrder, IInv, NEW l \in Locks, NEW t \in Threads, Waits(t, l)
               PROVE  \E o \in Threads \ {t} : Holds(o, l) /\ \A m \in Locks : ~ Waits(o, m)
    BY DEF NobodyIsStuck
  <2>1. ~ Holds(t, l) /\ ~ Holds(Nobody, l)
    BY DEF LocksInOrder
  <2>2. PICK o \in Threads \ {t} : Holds(o, l)
    BY <2>1 DEF IInv, Data, Mutex, Holds
  <2>3. ASSUME NEW m \in Locks, Waits(o, m) PROVE FALSE
    <3>1. m \in Wants(o) /\ l \in Wants(o)
      BY <2>2, <2>3 DEF LocksInOrder
    <3>2. m = l
      BY <3>1 DEF Wants
    <3> QED BY <2>2, <2>3, <3>2 DEF LocksInOrder
  <2> QED BY <2>2, <2>3
<1> QED BY <1>1, LocksAlways, Inductive, PTL
===============================================================================
