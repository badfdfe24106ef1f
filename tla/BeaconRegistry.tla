---------------------------- MODULE BeaconRegistry ----------------------------
(***************************************************************************)
(* The shell commands of the base node on the beacon registry: add, clear, *)
(* clear -a, list, list -a.  The shell runs one command at a time and      *)
(* every command works on the list under dlist_mutex, so a command is one  *)
(* action here; module BaseNode interleaves its steps with the threads.    *)
(***************************************************************************)
EXTENDS BeaconList

CONSTANTS Args,      (* the numbers typed as <MAJOR> and <MINOR>            *)
          HeapBlocks (* nodes that fit in the kernel heap                   *)

ASSUME ArgsAssumption == Args \subseteq Int
ASSUME HeapAssumption == HeapBlocks \in Nat

VARIABLES list,      (* beacon_list                                         *)
          table,     (* major and minor in beacon_nodes[]                   *)
          heap,      (* free blocks of the kernel heap                      *)
          faulted,   (* the CPU took a fault: nothing runs any more         *)
          reply      (* what the last command returned and showed           *)

vars == <<list, table, heap, faulted, reply>>

Zero == [major |-> 0, minor |-> 0]
Silent(rc) == [rc |-> rc, shown |-> {}]

TypeOK == /\ list \in Seq(Node)
          /\ table \in [Names -> Ident]
          /\ heap \in 0 .. HeapBlocks
          /\ faulted \in BOOLEAN
          /\ reply \in [rc: {"OK", "EINVAL", "ENOENT"}, shown: SUBSET Ident]

Init == /\ list = << >>
        /\ table = [n \in Names |-> Zero]
        /\ heap = HeapBlocks
        /\ faulted = FALSE
        /\ reply = Silent("OK")

-------------------------------------------------------------------------------

(* A name outside A .. M, a wrong number of arguments.                     *)
CmdRejected ==
    /\ ~ faulted
    /\ \E rc \in {"EINVAL", "ENOENT"} : reply' = Silent(rc)
    /\ UNCHANGED <<list, table, heap, faulted>>

(* The test for zero comes after the cast to 16 bits.                      *)
AcceptedId(major, minor) == Uint16(major) # 0 /\ Uint16(minor) # 0

CmdAddBadId(major, minor) ==
    /\ ~ faulted
    /\ ~ AcceptedId(major, minor)
    /\ reply' = Silent("EINVAL")
    /\ UNCHANGED <<list, table, heap, faulted>>

NewId(major, minor) == [major |-> Uint16(major), minor |-> Uint16(minor)]

CmdAdd(n, major, minor) ==
    /\ ~ faulted
    /\ AcceptedId(major, minor)
    /\ heap > 0
    /\ table' = [table EXCEPT ![n] = NewId(major, minor)]
    /\ heap' = heap - 1
    /\ list' = LinkTail(list, n, NewId(major, minor))
    /\ reply' = Silent("OK")
    /\ UNCHANGED faulted

(* k_malloc returned NULL and the code writes through it.                  *)
CmdAddNoMemory(n, major, minor) ==
    /\ ~ faulted
    /\ AcceptedId(major, minor)
    /\ heap = 0
    /\ table' = [table EXCEPT ![n] = NewId(major, minor)]
    /\ faulted' = TRUE
    /\ UNCHANGED <<list, heap, reply>>

(* Mutant: the loop goes on to the last node of that name.                 *)
IsLast(n, p) == /\ p \in Positions(list, n)
                /\ \A k \in Positions(list, n) : k =< p

(* The loop stops at the first node of that name.                          *)
IsFirst(n, p) == /\ p \in Positions(list, n)
                 /\ \A k \in Positions(list, n) : p =< k

(* Mutant: the node is unlinked but not freed.                             *)
CmdClearLeaks(n) ==
    /\ ~ faulted
    /\ \E p \in 1 .. Len(list) : IsFirst(n, p) /\ list' = Unlink(list, p)
    /\ reply' = Silent("OK")
    /\ UNCHANGED <<table, heap, faulted>>

CmdClear(n) ==
    /\ ~ faulted
    /\ \E p \in 1 .. Len(list) : IsFirst(n, p) /\ list' = Unlink(list, p)
    /\ heap' = heap + 1
    /\ reply' = Silent("OK")
    /\ UNCHANGED <<table, faulted>>

CmdClearAll ==
    /\ ~ faulted
    /\ list' = << >>
    /\ heap' = heap + Len(list)
    /\ reply' = Silent("OK")
    /\ UNCHANGED <<table, faulted>>

(* list <A-M> shows the first node of that name.                           *)
CmdList(n) ==
    /\ ~ faulted
    /\ \E p \in 1 .. Len(list) :
          IsFirst(n, p) /\ reply' = [rc |-> "OK", shown |-> {list[p].id}]
    /\ UNCHANGED <<list, table, heap, faulted>>

(* list -a shows every node.                                               *)
CmdListAll ==
    /\ ~ faulted
    /\ reply' = [rc |-> "OK", shown |-> {list[k].id : k \in 1 .. Len(list)}]
    /\ UNCHANGED <<list, table, heap, faulted>>

(* clear and list of a name that has no node.                              *)
CmdNotFound(n) ==
    /\ ~ faulted
    /\ n \notin Listed(list)
    /\ reply' = Silent("ENOENT")
    /\ UNCHANGED <<list, table, heap, faulted>>

Next == \/ CmdRejected
        \/ \E major, minor \in Args : CmdAddBadId(major, minor)
        \/ \E n \in Names, major, minor \in Args :
              CmdAdd(n, major, minor) \/ CmdAddNoMemory(n, major, minor)
        \/ \E n \in Names : CmdClear(n) \/ CmdList(n) \/ CmdNotFound(n)
        \/ CmdClearAll
        \/ CmdListAll

Spec == Init /\ [][Next]_vars

-------------------------------------------------------------------------------

(* The labels LEFT and RIGHT that list prints are the names of the actual  *)
(* neighbours, after any history of adds and clears: cmd_add and cmd_clear *)
(* repair both sides of the place where they change the list, at its ends  *)
(* and in its middle.                                                      *)
LinksAgree == Linked(list)

(* No block of the kernel heap is lost or freed twice: cmd_clear and       *)
(* clear -a free exactly the nodes they unlink.                            *)
HeapAccounted == heap + Len(list) = HeapBlocks

(* A registered beacon never has major or minor 0, whatever was typed: the *)
(* check in cmd_add is on the value that is stored, not on the one read.   *)
IdsAccepted == \A k \in 1 .. Len(list) :
                  list[k].id.major # 0 /\ list[k].id.minor # 0

(* Among the nodes of one name the last carries what beacon_nodes[] holds  *)
(* for it: cmd_add copies the table at the tail, cmd_clear takes the node  *)
(* in front, so it is the stale copies that go first.                      *)
NewestIsCurrent ==
    faulted \/ \A n \in Names, p \in 1 .. Len(list) :
        /\ list[p].name = n
        /\ \A k \in p + 1 .. Len(list) : list[k].name # n
        => list[p].id = table[n]

(* The registry is, name by name, a queue of identities: add enqueues,     *)
(* clear dequeues the oldest, list shows it, and the order in which the    *)
(* names are mixed in the one list never matters.  Identities have no      *)
(* zeros.                                                                  *)
AcceptedIds == {id \in {NewId(a, b) : a \in Args, b \in Args} :
                   id.major # 0 /\ id.minor # 0}
Queues == INSTANCE NameQueues WITH
              queue <- [n \in Names |-> IdsOf(list, n)],
              Ids <- AcceptedIds,
              Capacity <- HeapBlocks, stopped <- faulted
ImplementsQueues == Queues!Spec

===============================================================================
