------------------------------- MODULE BaseNode -------------------------------
(***************************************************************************)
(* The base node of prac 3 while it runs: the shell thread changes the     *)
(* list of beacons and the ultrasonic node, thread_pos scans the list      *)
(* every 100 ms, solves for a position and filters it, and the Bluetooth   *)
(* receive thread stores the ultrasonic distance.  Each shared variable    *)
(* has its k_mutex.  Numbers are abstracted: of an estimate only whether   *)
(* it is a number matters.  The RSSI values are the subject of RssiLink,   *)
(* the queue to the JSON thread that of PositionQueue, the labels and the  *)
(* heap that of BeaconRegistry.                                            *)
(***************************************************************************)
EXTENDS Integers, SequencesExt

CONSTANTS Names,     (* the letters 'A' .. 'M'                              *)
          Rows,      (* ROWS, and the 8 that exists_len is compared with    *)
          MaxListed  (* bound on the length of the list                     *)

ASSUME NamesAssumption == IsFiniteSet(Names)
ASSUME RowsAssumption  == Rows \in Nat \ {0}

Threads == {"shell", "pos"}
Locks   == {"dlist", "ultra"}
Nobody  == "nobody"

(* What a shell command may ask for; "ultra" names a beacon for which      *)
(* thread_pos knows the axis ("placed": B F H I M) or not ("bare").        *)
Commands == [op: {"add", "clear"}, arg: Names]
                \cup [op: {"ultra"}, arg: {"none", "placed", "bare"}]
                \cup {[op |-> "clearAll", arg |-> "-a"], [op |-> "list", arg |-> "-a"]}
Idle == [op |-> "idle", arg |-> "-"]

VARIABLES
    shell,             (* the command being executed                        *)
    pos,               (* where thread_pos is                               *)
    mutex,             (* the kernel mutexes: owner and waiting threads     *)
    beacon_list,       (* names of the registered beacons, in order         *)
    exists,            (* the beacons whose exists[] entry is true          *)
    exists_len,        (* nodes counted by the current scan                 *)
    cursor,            (* nodes visited by the current scan                 *)
    ultra_node_index,  (* kind of the registered ultrasonic node            *)
    dist,              (* ultrasonic distance: -1 or a measurement          *)
    x_hat,             (* the filter state: numbers or not                  *)
    fed,               (* updates of the filter with the current RSSI fix   *)
    overrun,           (* rows were written behind the matrices             *)
    everListed,        (* history: names ever added                         *)
    everTwice          (* history: some name was in the list twice          *)

listVars == <<beacon_list, everListed, everTwice>>
scanVars == <<exists, exists_len, cursor>>
filterVars == <<x_hat, fed, overrun>>
vars == <<shell, pos, mutex, listVars, scanVars, ultra_node_index, dist, filterVars>>

Mutex == [owner: Threads \cup {Nobody}, waiters: SUBSET Threads]

TypeOK == /\ shell \in Commands \cup {Idle}
          /\ pos \in {"sleep", "scan", "solve", "fuse"}
          /\ mutex \in [Locks -> Mutex]
          /\ beacon_list \in Seq(Names)
          /\ exists \subseteq Names
          /\ exists_len \in Nat
          /\ cursor \in Nat
          /\ ultra_node_index \in {"none", "placed", "bare"}
          /\ dist \in {"none", "cm"}
          /\ x_hat \in {"finite", "nan"}
          /\ fed \in 0 .. 2
          /\ overrun \in BOOLEAN
          /\ everListed \subseteq Names
          /\ everTwice \in BOOLEAN

Init == /\ shell = Idle
        /\ pos = "sleep"
        /\ mutex = [l \in Locks |-> [owner |-> Nobody, waiters |-> {}]]
        /\ beacon_list = << >>
        /\ exists = {}
        /\ exists_len = 0
        /\ cursor = 0
        /\ ultra_node_index = "none"
        /\ dist = "none"
        /\ x_hat = "finite"
        /\ fed = 0
        /\ overrun = FALSE
        /\ everListed = {}
        /\ everTwice = FALSE

-------------------------------------------------------------------------------

Listed == {beacon_list[k] : k \in 1 .. Len(beacon_list)}

(* k_mutex_lock takes a free mutex or queues the thread; k_mutex_unlock    *)
(* passes the mutex to a waiting thread, if there is one.                  *)
Holds(t, l) == mutex[l].owner = t

Request(t, l) ==
    mutex' = IF Holds(Nobody, l) THEN [mutex EXCEPT ![l].owner = t]
             ELSE [mutex EXCEPT ![l].waiters = @ \cup {t}]

Release(l) ==
    \/ /\ mutex[l].waiters = {}
       /\ mutex' = [mutex EXCEPT ![l].owner = Nobody]
    \/ \E t \in mutex[l].waiters :
          mutex' = [mutex EXCEPT ![l] = [owner |-> t, waiters |-> @.waiters \ {t}]]

LockOf(command) == IF command.op = "ultra" THEN "ultra" ELSE "dlist"

(* A command with valid arguments goes for its mutex.                      *)
CmdCall(command) ==
    /\ shell = Idle
    /\ command.op = "add" => Len(beacon_list) < MaxListed
    /\ shell' = command
    /\ Request("shell", LockOf(command))
    /\ UNCHANGED <<pos, listVars, scanVars, ultra_node_index, dist, filterVars>>

(* Mutant: the command works without taking its mutex.                     *)
CmdReturnUnlocked(op) == /\ shell.op = op
                         /\ shell' = Idle
                         /\ UNCHANGED <<pos, mutex, scanVars, dist, filterVars>>

CmdReturn(op) == /\ shell.op = op
                 /\ Holds("shell", LockOf(shell))
                 /\ Release(LockOf(shell))
                 /\ shell' = Idle
                 /\ UNCHANGED <<pos, scanVars, dist, filterVars>>

CmdAdd == /\ CmdReturn("add")
          /\ beacon_list' = Append(beacon_list, shell.arg)
          /\ everListed' = everListed \cup {shell.arg}
          /\ everTwice' = (everTwice \/ shell.arg \in Listed)
          /\ UNCHANGED ultra_node_index

(* The first node of that name is unlinked and freed, if there is one.     *)
IsFirst(n, p) == beacon_list[p] = n /\ \A k \in 1 .. p - 1 : beacon_list[k] # n

CmdClear == /\ CmdReturn("clear")
            /\ \/ \E p \in 1 .. Len(beacon_list) :
                     /\ IsFirst(shell.arg, p)
                     /\ beacon_list' = RemoveAt(beacon_list, p)
               \/ shell.arg \notin Listed /\ UNCHANGED beacon_list
            /\ UNCHANGED <<everListed, everTwice, ultra_node_index>>

CmdClearAll == /\ CmdReturn("clearAll")
               /\ beacon_list' = << >>
               /\ UNCHANGED <<everListed, everTwice, ultra_node_index>>

CmdList == CmdReturn("list") /\ UNCHANGED <<listVars, ultra_node_index>>

(* Mutant: any letter is taken.                                            *)
CmdAddUltraUnchecked == /\ CmdReturn("ultra")
                        /\ ultra_node_index' \in {shell.arg, "unknown"}
                        /\ UNCHANGED listVars

CmdAddUltra == /\ CmdReturn("ultra")
               /\ ultra_node_index' = shell.arg
               /\ UNCHANGED listVars

-------------------------------------------------------------------------------

(* k_msleep(100) is over; the scan waits for the list.                     *)
PosWake ==
    /\ pos = "sleep"
    /\ pos' = "scan"
    /\ Request("pos", "dlist")
    /\ exists_len' = 0
    /\ cursor' = 0
    /\ fed' = 0
    /\ UNCHANGED <<shell, listVars, exists, ultra_node_index, dist, x_hat, overrun>>

PosScanNode ==
    /\ pos = "scan" /\ Holds("pos", "dlist")
    /\ cursor < Len(beacon_list)
    /\ cursor' = cursor + 1
    /\ exists' = exists \cup {beacon_list[cursor + 1]}
    /\ exists_len' = exists_len + 1
    /\ UNCHANGED <<shell, pos, mutex, listVars, ultra_node_index, dist, filterVars>>

(* Mutant: a position is solved for whatever the scan counted.             *)
PosScanEndAlways ==
    /\ pos = "scan" /\ Holds("pos", "dlist")
    /\ cursor >= Len(beacon_list)
    /\ Release("dlist")
    /\ pos' = "solve"
    /\ UNCHANGED <<shell, listVars, scanVars, ultra_node_index, dist, filterVars>>

(* Mutant: the early continue comes before the unlock.                     *)
PosScanEndKeepsLock ==
    /\ pos = "scan" /\ Holds("pos", "dlist")
    /\ cursor >= Len(beacon_list)
    /\ IF exists_len = Rows THEN pos' = "solve" /\ Release("dlist")
       ELSE pos' = "sleep" /\ UNCHANGED mutex
    /\ UNCHANGED <<shell, listVars, scanVars, ultra_node_index, dist, filterVars>>

(* Mutant: more than Rows beacons are demanded.                            *)
PosScanEndMore ==
    /\ pos = "scan" /\ Holds("pos", "dlist")
    /\ cursor >= Len(beacon_list)
    /\ Release("dlist")
    /\ pos' = IF exists_len > Rows THEN "solve" ELSE "sleep"
    /\ UNCHANGED <<shell, listVars, scanVars, ultra_node_index, dist, filterVars>>

PosScanEnd ==
    /\ pos = "scan" /\ Holds("pos", "dlist")
    /\ cursor >= Len(beacon_list)
    /\ Release("dlist")
    /\ pos' = IF exists_len = Rows THEN "solve" ELSE "sleep"
    /\ UNCHANGED <<shell, listVars, scanVars, ultra_node_index, dist, filterVars>>

(* One row per entry of exists[], into matrices of Rows rows.              *)
RowCount == Cardinality(exists)

(* Eight different anchors are not in one line, so full matrices have a    *)
(* solution; with rows uninitialised, or written behind the matrices, it   *)
(* may be any number or none.                                              *)
Solutions == IF RowCount = Rows THEN {"finite"} ELSE {"finite", "nan"}

(* A sum with a NaN is NaN: the filter never gets rid of one.              *)
Filtered(position) == IF x_hat = "nan" THEN "nan" ELSE position

PosSolve ==
    /\ pos = "solve"
    /\ \E position \in Solutions : x_hat' = Filtered(position)
    /\ overrun' = (overrun \/ RowCount > Rows)
    /\ fed' = 1
    /\ pos' = "fuse"
    /\ Request("pos", "ultra")
    /\ UNCHANGED <<shell, listVars, scanVars, ultra_node_index, dist>>

(* With a distance and a registered node the filter is updated once more;  *)
(* for a node without an axis pos[] still holds the RSSI fix.  Then the    *)
(* estimate is queued, or dropped when it is outside the area.             *)
PosFuse ==
    /\ pos = "fuse" /\ Holds("pos", "ultra")
    /\ fed' = IF dist # "none" /\ ultra_node_index = "bare" THEN fed + 1 ELSE fed
    /\ Release("ultra")
    /\ pos' = "sleep"
    /\ UNCHANGED <<shell, listVars, scanVars, ultra_node_index, dist, x_hat, overrun>>

(* The receive thread preempts all others and does not block inside.       *)
DeviceFoundUltra ==
    /\ Holds(Nobody, "ultra")
    /\ dist' \in {"none", "cm"}
    /\ UNCHANGED <<shell, pos, mutex, listVars, scanVars, ultra_node_index, filterVars>>

-------------------------------------------------------------------------------

CmdStep == CmdAdd \/ CmdClear \/ CmdClearAll \/ CmdList \/ CmdAddUltra
PosStep == PosWake \/ PosScanNode \/ PosScanEnd \/ PosSolve \/ PosFuse

Next == \/ \E command \in Commands : CmdCall(command)
        \/ CmdStep
        \/ PosStep
        \/ DeviceFoundUltra

Spec == Init /\ [][Next]_vars

(* Nobody has to type a command, but one that runs is scheduled, and the   *)
(* sleep of thread_pos ends.                                               *)
FairSpec == Spec /\ WF_vars(CmdStep) /\ WF_vars(PosStep)

-------------------------------------------------------------------------------

ScanComplete == /\ pos = "scan" /\ Holds("pos", "dlist")
                /\ cursor >= Len(beacon_list)

(* No command changes the list under a running scan: when the scan is over *)
(* it has counted every node once and marked every listed beacon.          *)
ScanIsOfOneList ==
    ScanComplete => exists_len = Len(beacon_list) /\ Listed \subseteq exists

(* A session that never registers more than Rows different beacons, and    *)
(* none of them twice at a time, keeps the matrices full and in bounds and *)
(* the filter free of NaN, however adds, clears and scans interleave.      *)
OrderlySession == Cardinality(everListed) =< Rows /\ ~ everTwice
OrderlySessionIsSafe == OrderlySession => ~ overrun /\ x_hat = "finite"

(* prac3/basenode/README.md: "Shell commands are used to add, list, or     *)
(* clear the used beacons."  A scan that leads to a position has marked    *)
(* the listed beacons and no others.                                       *)
UsedAreListed == ScanComplete /\ exists_len = Rows => exists = Listed

(* prac3/basenode/README.md: the node "calculates the position, fuses the  *)
(* positions using a kalman filter".  One position is fused in once.       *)
FixFusedOnce == fed =< 1

(* A command that was accepted returns: thread_pos always gives back the   *)
(* mutex, whatever the scan finds.                                         *)
CommandsReturn == (shell # Idle) ~> (shell = Idle)

(* If the list stays at Rows entries, positions keep being computed.       *)
KeepsTracking == <>[](Len(beacon_list) = Rows) => []<>(pos = "fuse")

===============================================================================
