------------------------- MODULE BeaconRegistryProofs -------------------------
(***************************************************************************)
(* The invariants of the beacon registry for any set of names, any word    *)
(* width, any arguments and any heap size.                                 *)
(***************************************************************************)
EXTENDS BeaconRegistry, SequenceLemmas, SequenceTheorems, TLAPS

(* The list that cmd_add leaves: one node more, the old ones with the same *)
(* name, identity and left label.                                          *)
LEMMA LinkTailProperties ==
    ASSUME NEW l \in Seq(Node), NEW n \in Names, NEW id \in Ident
    PROVE  /\ LinkTail(l, n, id) \in Seq(Node)
           /\ Len(LinkTail(l, n, id)) = Len(l) + 1
           /\ \A k \in 1 .. Len(l) :
                 /\ LinkTail(l, n, id)[k].name = l[k].name
                 /\ LinkTail(l, n, id)[k].id = l[k].id
                 /\ LinkTail(l, n, id)[k].left = l[k].left
                 /\ LinkTail(l, n, id)[k].right =
                       IF k = Len(l) THEN n ELSE l[k].right
           /\ LinkTail(l, n, id)[Len(l) + 1] =
                 [name |-> n, id |-> id, left |-> NameAt(l, Len(l)),
                  right |-> NoName]
<1> DEFINE old  == [k \in 1 .. Len(l) |->
                       IF k = Len(l) THEN [l[k] EXCEPT !.right = n] ELSE l[k]]
           last == [name |-> n, id |-> id, left |-> NameAt(l, Len(l)),
                    right |-> NoName]
<1>1. Len(l) \in Nat /\ \A k \in 1 .. Len(l) : l[k] \in Node
  BY ElementOfSeq, LenProperties
<1>2. /\ old \in Seq(Node) /\ Len(old) = Len(l)
      /\ \A k \in 1 .. Len(l) :
            /\ old[k].name = l[k].name
            /\ old[k].id = l[k].id
            /\ old[k].left = l[k].left
            /\ old[k].right = IF k = Len(l) THEN n ELSE l[k].right
  <2>1. \A k \in 1 .. Len(l) : [l[k] EXCEPT !.right = n] \in Node
    BY <1>1 DEF Node, Label
  <2>2. \A k \in 1 .. Len(l) : old[k] \in Node
    BY <1>1, <2>1
  <2>3. old \in Seq(Node) /\ Len(old) = Len(l)
    BY <1>1, <2>2, IsASeq
  <2> QED
    BY <1>1, <2>3 DEF Node
<1>3. last \in Node
  BY <1>1 DEF Node, Label, NameAt
<1>4. LinkTail(l, n, id) = Append(old, last)
  BY DEF LinkTail
<1> HIDE DEF old, last
<1>5. /\ Append(old, last) \in Seq(Node)
      /\ Len(Append(old, last)) = Len(l) + 1
      /\ \A k \in 1 .. Len(l) : Append(old, last)[k] = old[k]
      /\ Append(old, last)[Len(l) + 1] = last
  BY <1>2, <1>3, AppendProperties
<1> QED
  BY <1>2, <1>4, <1>5 DEF last

(* The list that cmd_clear leaves, in terms of the positions the remaining *)
(* nodes had before: only the two labels at the gap differ.                *)
LEMMA UnlinkProperties ==
    ASSUME NEW l \in Seq(Node), NEW p \in 1 .. Len(l)
    PROVE  /\ Unlink(l, p) \in Seq(Node)
           /\ Len(Unlink(l, p)) = Len(l) - 1
           /\ \A k \in 1 .. Len(l) - 1 :
                 LET old == IF k < p THEN k ELSE k + 1
                 IN  /\ Unlink(l, p)[k].name = l[old].name
                     /\ Unlink(l, p)[k].id = l[old].id
                     /\ Unlink(l, p)[k].left = IF old = p + 1
                           THEN NameAt(l, p - 1) ELSE l[old].left
                     /\ Unlink(l, p)[k].right = IF old = p - 1
                           THEN NameAt(l, p + 1) ELSE l[old].right
<1> DEFINE r == Relabel(l, p)
<1>1. Len(l) \in Nat /\ p \in Nat /\ \A k \in 1 .. Len(l) : l[k] \in Node
  BY ElementOfSeq, LenProperties
<1>2. NameAt(l, p - 1) \in Label /\ NameAt(l, p + 1) \in Label
  BY <1>1 DEF NameAt, Label, Node
<1>3. ASSUME NEW k \in 1 .. Len(l)
      PROVE  /\ r[k] \in Node
             /\ r[k].name = l[k].name
             /\ r[k].id = l[k].id
             /\ r[k].left = IF k = p + 1 THEN NameAt(l, p - 1) ELSE l[k].left
             /\ r[k].right = IF k = p - 1 THEN NameAt(l, p + 1) ELSE l[k].right
  <2>1. CASE k = p - 1
    <3>1. k # p + 1 /\ r[k] = [l[k] EXCEPT !.right = NameAt(l, p + 1)]
      BY <1>1, <2>1 DEF Relabel
    <3> QED
      BY <1>1, <1>2, <2>1, <3>1 DEF Node
  <2>2. CASE k = p + 1
    <3>1. k # p - 1 /\ r[k] = [l[k] EXCEPT !.left = NameAt(l, p - 1)]
      BY <1>1, <2>2 DEF Relabel
    <3> QED
      BY <1>1, <1>2, <2>2, <3>1 DEF Node
  <2>3. CASE k # p - 1 /\ k # p + 1
    <3>1. r[k] = l[k]
      BY <1>1, <2>3 DEF Relabel
    <3> QED
      BY <1>1, <2>3, <3>1
  <2> QED
    BY <2>1, <2>2, <2>3
<1>4. r \in Seq(Node) /\ Len(r) = Len(l)
  <2>1. r = [k \in 1 .. Len(l) |-> r[k]]
    BY DEF Relabel
  <2> HIDE DEF r
  <2>2. [k \in 1 .. Len(l) |-> r[k]] \in Seq(Node)
    BY <1>1, <1>3, IsASeq
  <2> QED
    BY <1>1, <2>1, <2>2, LenProperties
<1>5. Unlink(l, p) = RemoveAt(r, p)
  BY DEF Unlink
<1> HIDE DEF r
<1>6. /\ RemoveAt(r, p) \in Seq(Node)
      /\ Len(RemoveAt(r, p)) = Len(l) - 1
      /\ \A k \in 1 .. Len(l) - 1 :
            RemoveAt(r, p)[k] = IF k < p THEN r[k] ELSE r[k + 1]
  BY <1>4, RemoveAtProperties
<1> QED
  BY <1>1, <1>3, <1>5, <1>6

-------------------------------------------------------------------------------

(* cmd_add keeps the labels in agreement with the order of the list.       *)
LEMMA LinkTailLinked ==
    ASSUME NEW l \in Seq(Node), Linked(l), NEW n \in Names, NEW id \in Ident
    PROVE  Linked(LinkTail(l, n, id))
<1> DEFINE t == LinkTail(l, n, id)
<1>1. Len(l) \in Nat
  BY LenProperties
<1>2. /\ Len(t) = Len(l) + 1
      /\ \A k \in 1 .. Len(l) :
            /\ t[k].name = l[k].name
            /\ t[k].left = l[k].left
            /\ t[k].right = IF k = Len(l) THEN n ELSE l[k].right
      /\ t[Len(l) + 1] = [name |-> n, id |-> id, left |-> NameAt(l, Len(l)),
                          right |-> NoName]
  BY LinkTailProperties
<1> HIDE DEF t
<1>3. \A k \in Int : NameAt(t, k) = IF k = Len(l) + 1 THEN n ELSE NameAt(l, k)
  BY <1>1, <1>2 DEF NameAt
<1>4. ASSUME NEW k \in 1 .. Len(t)
      PROVE  LinkedAt(t, k)
  <2>1. CASE k = Len(l) + 1
    BY <1>1, <1>2, <1>3, <2>1 DEF LinkedAt, NameAt
  <2>2. CASE k \in 1 .. Len(l)
    <3>1. l[k].left = NameAt(l, k - 1) /\ l[k].right = NameAt(l, k + 1)
      BY <2>2 DEF Linked, LinkedAt
    <3> QED
      BY <1>1, <1>2, <1>3, <2>2, <3>1 DEF LinkedAt
  <2> QED
    BY <1>1, <1>2, <2>1, <2>2
<1> QED
  BY <1>4 DEF Linked, t

(* cmd_clear keeps the labels in agreement with the order of the list.     *)
LEMMA UnlinkLinked ==
    ASSUME NEW l \in Seq(Node), Linked(l), NEW p \in 1 .. Len(l)
    PROVE  Linked(Unlink(l, p))
<1> DEFINE u == Unlink(l, p)
           Old(k) == IF k < p THEN k ELSE k + 1
<1>1. Len(l) \in Nat /\ p \in Nat
  BY LenProperties
<1>2. /\ Len(u) = Len(l) - 1
      /\ \A k \in 1 .. Len(l) - 1 :
            /\ u[k].name = l[Old(k)].name
            /\ u[k].left = IF Old(k) = p + 1 THEN NameAt(l, p - 1)
                           ELSE l[Old(k)].left
            /\ u[k].right = IF Old(k) = p - 1 THEN NameAt(l, p + 1)
                            ELSE l[Old(k)].right
  BY UnlinkProperties
<1> HIDE DEF u
<1>3. \A k \in 0 .. Len(l) : NameAt(u, k) = NameAt(l, Old(k))
  BY <1>1, <1>2 DEF NameAt
<1>4. ASSUME NEW k \in 1 .. Len(u)
      PROVE  LinkedAt(u, k)
  <2>1. k \in 1 .. Len(l) - 1 /\ Old(k) \in 1 .. Len(l)
    BY <1>1, <1>2
  <2>2. /\ l[Old(k)].left = NameAt(l, Old(k) - 1)
        /\ l[Old(k)].right = NameAt(l, Old(k) + 1)
    BY <2>1 DEF Linked, LinkedAt
  <2>3. u[k].left = NameAt(l, Old(k - 1))
    BY <1>1, <1>2, <2>1, <2>2
  <2>4. u[k].right = NameAt(l, Old(k + 1))
    BY <1>1, <1>2, <2>1, <2>2
  <2>5. k - 1 \in 0 .. Len(l) /\ k + 1 \in 0 .. Len(l)
    BY <1>1, <2>1
  <2> QED
    BY <1>3, <2>3, <2>4, <2>5 DEF LinkedAt
<1> QED
  BY <1>4 DEF Linked, u

-------------------------------------------------------------------------------

(* What uint16_t arithmetic leaves of a typed number is a 16-bit word.     *)
LEMMA Uint16Type == ASSUME NEW k \in Int PROVE Uint16(k) \in Word
BY WidthAssumption DEF Uint16, Word

(* An identity that cmd_add accepts fits the node and has no zero in it.   *)
LEMMA NewIdProperties ==
    ASSUME NEW a \in Args, NEW b \in Args, AcceptedId(a, b)
    PROVE  NewId(a, b) \in Ident /\ NewId(a, b).major # 0 /\ NewId(a, b).minor # 0
<1>1. Uint16(a) \in Word /\ Uint16(b) \in Word
  BY Uint16Type, ArgsAssumption
<1> QED
  BY <1>1 DEF NewId, AcceptedId, Ident

(* Type correctness needs the account of the heap: a command that frees a  *)
(* block must not take the free count above the size of the heap.          *)
IInv == TypeOK /\ HeapAccounted

LEMMA InitIInv == Init => IInv
<1> SUFFICES ASSUME Init PROVE IInv
  OBVIOUS
<1>1. list \in Seq(Node) /\ Len(list) = 0
  BY EmptySeq DEF Init
<1>2. Zero \in Ident
  BY WidthAssumption DEF Zero, Ident, Word
<1>3. table \in [Names -> Ident]
  BY <1>2 DEF Init
<1>4. reply \in [rc: {"OK", "EINVAL", "ENOENT"}, shown: SUBSET Ident]
  BY DEF Init, Silent
<1>5. heap = HeapBlocks /\ faulted = FALSE
  BY DEF Init
<1>6. heap \in 0 .. HeapBlocks
  <2>1. HeapBlocks \in 0 .. HeapBlocks
    BY HeapAssumption
  <2> QED
    BY <1>5, <2>1
<1>7. TypeOK
  BY <1>1, <1>3, <1>4, <1>5, <1>6 DEF TypeOK
<1>8. HeapAccounted
  BY <1>1, <1>5, HeapAssumption DEF HeapAccounted
<1> QED
  BY <1>7, <1>8 DEF IInv

LEMMA StepIInv == IInv /\ [Next]_vars => IInv'
<1> SUFFICES ASSUME IInv, [Next]_vars PROVE IInv'
  OBVIOUS
<1> USE HeapAssumption
<1>0. /\ list \in Seq(Node) /\ Len(list) \in Nat
      /\ heap \in Nat /\ heap + Len(list) = HeapBlocks
  BY LenProperties DEF IInv, TypeOK, HeapAccounted
<1>1. CASE CmdRejected
  BY <1>1 DEF CmdRejected, IInv, TypeOK, HeapAccounted, Silent
<1>2. ASSUME NEW a \in Args, NEW b \in Args, CmdAddBadId(a, b) PROVE IInv'
  BY <1>2 DEF CmdAddBadId, IInv, TypeOK, HeapAccounted, Silent
<1>3. ASSUME NEW n \in Names, NEW a \in Args, NEW b \in Args, CmdAdd(n, a, b)
      PROVE  IInv'
  <2>1. NewId(a, b) \in Ident
    BY <1>3, NewIdProperties DEF CmdAdd
  <2>2. list' \in Seq(Node) /\ Len(list') = Len(list) + 1
    BY <1>0, <1>3, <2>1, LinkTailProperties DEF CmdAdd
  <2>3. HeapAccounted'
    BY <1>0, <1>3, <2>2 DEF CmdAdd, HeapAccounted
  <2>4. TypeOK'
    BY <1>0, <1>3, <2>1, <2>2 DEF CmdAdd, IInv, TypeOK, Silent
  <2> QED
    BY <2>3, <2>4 DEF IInv
<1>4. ASSUME NEW n \in Names, NEW a \in Args, NEW b \in Args,
             CmdAddNoMemory(n, a, b)
      PROVE  IInv'
  <2>1. NewId(a, b) \in Ident
    BY <1>4, NewIdProperties DEF CmdAddNoMemory
  <2> QED
    BY <1>4, <2>1 DEF CmdAddNoMemory, IInv, TypeOK, HeapAccounted
<1>5. ASSUME NEW n \in Names, CmdClear(n) PROVE IInv'
  <2>1. PICK p \in 1 .. Len(list) : list' = Unlink(list, p)
    BY <1>5 DEF CmdClear
  <2>2. list' \in Seq(Node) /\ Len(list') = Len(list) - 1 /\ Len(list) > 0
    BY <1>0, <2>1, UnlinkProperties
  <2> QED
    BY <1>0, <1>5, <2>2 DEF CmdClear, IInv, TypeOK, HeapAccounted, Silent
<1>6. ASSUME NEW n \in Names, CmdList(n) PROVE IInv'
  <2>1. PICK p \in 1 .. Len(list) : reply' = [rc |-> "OK", shown |-> {list[p].id}]
    BY <1>6 DEF CmdList
  <2>2. list[p] \in Node
    BY <1>0, ElementOfSeq
  <2>3. list[p].id \in Ident
    BY <2>2 DEF Node
  <2> QED
    BY <1>6, <2>1, <2>3 DEF CmdList, IInv, TypeOK, HeapAccounted
<1>7. ASSUME NEW n \in Names, CmdNotFound(n) PROVE IInv'
  BY <1>7 DEF CmdNotFound, IInv, TypeOK, HeapAccounted, Silent
<1>8. CASE CmdClearAll
  <2>1. list' \in Seq(Node) /\ Len(list') = 0
    BY <1>8, EmptySeq DEF CmdClearAll
  <2> QED
    BY <1>0, <1>8, <2>1 DEF CmdClearAll, IInv, TypeOK, HeapAccounted, Silent
<1>9. CASE CmdListAll
  <2>1. \A k \in 1 .. Len(list) : list[k] \in Node
    BY <1>0, ElementOfSeq
  <2>2. {list[k].id : k \in 1 .. Len(list)} \in SUBSET Ident
    BY <2>1 DEF Node
  <2> QED
    BY <1>9, <2>2 DEF CmdListAll, IInv, TypeOK, HeapAccounted
<1>10. CASE UNCHANGED vars
  BY <1>10 DEF vars, IInv, TypeOK, HeapAccounted
<1> QED
  BY <1>1, <1>2, <1>3, <1>4, <1>5, <1>6, <1>7, <1>8, <1>9, <1>10 DEF Next

LEMMA Always == Spec => []IInv
  BY InitIInv, StepIInv, PTL DEF Spec

(* Every variable keeps its type, and the table its 16-bit identities.     *)
THEOREM TypeCorrect == Spec => []TypeOK
<1>1. IInv => TypeOK
  BY DEF IInv
<1> QED
  BY <1>1, Always, PTL

(* No block of the heap is lost or freed twice by adds and clears.         *)
THEOREM HeapCorrect == Spec => []HeapAccounted
<1>1. IInv => HeapAccounted
  BY DEF IInv
<1> QED
  BY <1>1, Always, PTL

-------------------------------------------------------------------------------

(* The labels of all nodes agree with the order of the list, whatever adds *)
(* and clears led to it.                                                   *)
THEOREM LabelsCorrect == Spec => []LinksAgree
<1>1. Init => LinksAgree
  BY EmptySeq DEF Init, LinksAgree, Linked
<1>2. IInv /\ LinksAgree /\ [Next]_vars => LinksAgree'
  <2> SUFFICES ASSUME IInv, LinksAgree, [Next]_vars PROVE LinksAgree'
    OBVIOUS
  <2>0. list \in Seq(Node) /\ Linked(list)
    BY DEF IInv, TypeOK, LinksAgree
  <2>1. CASE list' = list
    BY <2>0, <2>1 DEF LinksAgree
  <2>2. ASSUME NEW n \in Names, NEW a \in Args, NEW b \in Args, CmdAdd(n, a, b)
        PROVE  LinksAgree'
    <3>1. NewId(a, b) \in Ident /\ list' = LinkTail(list, n, NewId(a, b))
      BY <2>2, NewIdProperties DEF CmdAdd
    <3> QED
      BY <2>0, <3>1, LinkTailLinked DEF LinksAgree
  <2>3. ASSUME NEW n \in Names, CmdClear(n) PROVE LinksAgree'
    <3>1. PICK p \in 1 .. Len(list) : list' = Unlink(list, p)
      BY <2>3 DEF CmdClear
    <3> QED
      BY <2>0, <3>1, UnlinkLinked DEF LinksAgree
  <2>4. CASE CmdClearAll
    BY <2>4, EmptySeq DEF CmdClearAll, LinksAgree, Linked
  <2> QED
    BY <2>1, <2>2, <2>3, <2>4 DEF Next, vars, CmdRejected, CmdAddBadId,
       CmdAddNoMemory, CmdList, CmdListAll, CmdNotFound
<1> QED
  BY <1>1, <1>2, InitIInv, StepIInv, PTL DEF Spec

(* No registered beacon has major or minor 0, whatever numbers were typed. *)
THEOREM IdsCorrect == Spec => []IdsAccepted
<1>1. Init => IdsAccepted
  BY EmptySeq DEF Init, IdsAccepted
<1>2. IInv /\ IdsAccepted /\ [Next]_vars => IdsAccepted'
  <2> SUFFICES ASSUME IInv, IdsAccepted, [Next]_vars PROVE IdsAccepted'
    OBVIOUS
  <2>0. list \in Seq(Node) /\ Len(list) \in Nat
    BY LenProperties DEF IInv, TypeOK
  <2>1. CASE list' = list
    BY <2>1 DEF IdsAccepted
  <2>2. ASSUME NEW n \in Names, NEW a \in Args, NEW b \in Args, CmdAdd(n, a, b)
        PROVE  IdsAccepted'
    <3> DEFINE id == NewId(a, b)
    <3>1. id \in Ident /\ id.major # 0 /\ id.minor # 0
      BY <2>2, NewIdProperties DEF CmdAdd
    <3> HIDE DEF id
    <3>2. list' = LinkTail(list, n, id)
      BY <2>2 DEF CmdAdd, id
    <3>3. /\ Len(list') = Len(list) + 1
          /\ \A k \in 1 .. Len(list) : list'[k].id = list[k].id
          /\ list'[Len(list) + 1] =
                [name |-> n, id |-> id, left |-> NameAt(list, Len(list)),
                 right |-> NoName]
      BY <2>0, <3>1, <3>2, LinkTailProperties
    <3> QED
      BY <2>0, <3>1, <3>3 DEF IdsAccepted
  <2>3. ASSUME NEW n \in Names, CmdClear(n) PROVE IdsAccepted'
    <3>1. PICK p \in 1 .. Len(list) : list' = Unlink(list, p)
      BY <2>3 DEF CmdClear
    <3>2. /\ Len(list') = Len(list) - 1
          /\ \A k \in 1 .. Len(list) - 1 :
                list'[k].id = list[IF k < p THEN k ELSE k + 1].id
      BY <2>0, <3>1, UnlinkProperties
    <3> QED
      BY <2>0, <3>2 DEF IdsAccepted
  <2>4. CASE CmdClearAll
    BY <2>4, EmptySeq DEF CmdClearAll, IdsAccepted
  <2> QED
    BY <2>1, <2>2, <2>3, <2>4 DEF Next, vars, CmdRejected, CmdAddBadId,
       CmdAddNoMemory, CmdList, CmdListAll, CmdNotFound
<1> QED
  BY <1>1, <1>2, InitIInv, StepIInv, PTL DEF Spec

(* Of the nodes of one name it is always the last that agrees with         *)
(* beacon_nodes[], so what clear removes first is the oldest entry.        *)
THEOREM NewestCorrect == Spec => []NewestIsCurrent
<1>1. Init => NewestIsCurrent
  BY EmptySeq DEF Init, NewestIsCurrent
<1>2. IInv /\ NewestIsCurrent /\ [Next]_vars => NewestIsCurrent'
  <2> SUFFICES ASSUME IInv, NewestIsCurrent, [Next]_vars PROVE NewestIsCurrent'
    OBVIOUS
  <2>0. /\ list \in Seq(Node) /\ Len(list) \in Nat
        /\ table \in [Names -> Ident]
    BY LenProperties DEF IInv, TypeOK
  <2>1. CASE list' = list /\ table' = table /\ faulted' = faulted
    BY <2>1 DEF NewestIsCurrent
  <2>2. ASSUME NEW n \in Names, NEW a \in Args, NEW b \in Args, CmdAdd(n, a, b)
        PROVE  NewestIsCurrent'
    <3> DEFINE id == NewId(a, b)
    <3>1. id \in Ident
      BY <2>2, NewIdProperties DEF CmdAdd
    <3>2. list' = LinkTail(list, n, id) /\ table' = [table EXCEPT ![n] = id]
      BY <2>2 DEF CmdAdd
    <3> HIDE DEF id
    <3>3. /\ Len(list') = Len(list) + 1
          /\ \A k \in 1 .. Len(list) :
                list'[k].id = list[k].id /\ list'[k].name = list[k].name
          /\ list'[Len(list) + 1] =
                [name |-> n, id |-> id, left |-> NameAt(list, Len(list)),
                 right |-> NoName]
      BY <2>0, <3>1, <3>2, LinkTailProperties
    <3>4. ~ faulted
      BY <2>2 DEF CmdAdd
    <3>5. ASSUME NEW m \in Names, NEW p \in 1 .. Len(list'), list'[p].name = m,
                 \A k \in p + 1 .. Len(list') : list'[k].name # m
          PROVE  list'[p].id = table'[m]
      <4>1. CASE p = Len(list) + 1
        BY <2>0, <3>2, <3>3, <3>5, <4>1
      <4>2. CASE p \in 1 .. Len(list)
        <5>1. m # n
          BY <2>0, <3>3, <3>5, <4>2
        <5>2. list[p].name = m /\ \A k \in p + 1 .. Len(list) : list[k].name # m
          BY <2>0, <3>3, <3>5, <4>2
        <5>3. list[p].id = table[m]
          BY <3>4, <4>2, <5>2 DEF NewestIsCurrent
        <5> QED
          BY <2>0, <3>2, <3>3, <4>2, <5>1, <5>3
      <4> QED
        BY <2>0, <3>3, <4>1, <4>2
    <3> QED
      BY <3>5 DEF NewestIsCurrent
  <2>3. ASSUME NEW n \in Names, NEW a \in Args, NEW b \in Args,
               CmdAddNoMemory(n, a, b)
        PROVE  NewestIsCurrent'
    BY <2>3 DEF CmdAddNoMemory, NewestIsCurrent
  <2>4. ASSUME NEW n \in Names, CmdClear(n) PROVE NewestIsCurrent'
    <3>1. PICK q \in 1 .. Len(list) : IsFirst(n, q) /\ list' = Unlink(list, q)
      BY <2>4 DEF CmdClear
    <3> DEFINE Old(k) == IF k < q THEN k ELSE k + 1
    <3>2. /\ Len(list') = Len(list) - 1
          /\ \A k \in 1 .. Len(list) - 1 :
                list'[k].id = list[Old(k)].id /\ list'[k].name = list[Old(k)].name
      BY <2>0, <3>1, UnlinkProperties
    <3>3. ~ faulted /\ table' = table
      BY <2>4 DEF CmdClear
    <3>4. ASSUME NEW m \in Names, NEW p \in 1 .. Len(list'), list'[p].name = m,
                 \A k \in p + 1 .. Len(list') : list'[k].name # m
          PROVE  list'[p].id = table'[m]
      <4>1. p \in 1 .. Len(list) - 1 /\ Old(p) \in 1 .. Len(list)
        BY <2>0, <3>2
      <4>2. list[Old(p)].name = m
        BY <3>2, <3>4, <4>1
      <4>3. ASSUME NEW k \in Old(p) + 1 .. Len(list), list[k].name = m PROVE FALSE
        <5>1. CASE k = q
          \* the node taken out is the first of its name, and p is in front of it
          BY <2>0, <3>1, <4>1, <4>2, <4>3, <5>1 DEF IsFirst, Positions
        <5>2. CASE k < q
          <6>1. k \in p + 1 .. Len(list') /\ Old(k) = k
            BY <2>0, <3>2, <4>1, <5>2
          <6> QED
            BY <2>0, <3>2, <3>4, <4>1, <4>3, <6>1
        <5>3. CASE k > q
          <6>1. k - 1 \in p + 1 .. Len(list') /\ Old(k - 1) = k
            BY <2>0, <3>2, <4>1, <5>3
          <6>2. list'[k - 1].name # m
            BY <3>4, <6>1
          <6>3. k - 1 \in 1 .. Len(list) - 1
            BY <2>0, <3>2, <4>1, <6>1
          <6>4. list'[k - 1].name = list[k].name
            BY <3>2, <6>1, <6>3
          <6> QED
            BY <4>3, <6>2, <6>4
        <5> QED
          BY <2>0, <4>1, <5>1, <5>2, <5>3
      <4>4. list[Old(p)].id = table[m]
        BY <3>3, <4>1, <4>2, <4>3 DEF NewestIsCurrent
      <4> QED
        BY <3>2, <3>3, <4>1, <4>4
    <3> QED
      BY <3>4 DEF NewestIsCurrent
  <2>5. CASE CmdClearAll
    BY <2>5, EmptySeq DEF CmdClearAll, NewestIsCurrent
  <2> QED
    BY <2>1, <2>2, <2>3, <2>4, <2>5 DEF Next, vars, CmdRejected, CmdAddBadId,
       CmdList, CmdListAll, CmdNotFound
<1> QED
  BY <1>1, <1>2, InitIInv, StepIInv, PTL DEF Spec

-------------------------------------------------------------------------------

(* Ranks in a set of positions.                                            *)

(* Of two positions of a set the later one has the higher rank, and ranks  *)
(* count from one to the size of the set.                                  *)
LEMMA RankOrder ==
    ASSUME NEW S \in SUBSET Int, IsFiniteSet(S)
    PROVE  /\ Cardinality(S) \in Nat
           /\ \A p \in S : Rank(S, p) \in 1 .. Cardinality(S)
           /\ \A p, q \in S : q < p => Rank(S, q) < Rank(S, p)
<1>1. Cardinality(S) \in Nat
  BY FS_CardinalityType
<1>2. ASSUME NEW p \in S
      PROVE  IsFiniteSet(Upto(S, p)) /\ Rank(S, p) \in Nat /\ Rank(S, p) =< Cardinality(S)
  <2>1. Upto(S, p) \in SUBSET S
    BY DEF Upto
  <2>2. IsFiniteSet(Upto(S, p)) /\ Cardinality(Upto(S, p)) =< Cardinality(S)
    BY <2>1, FS_Subset
  <2> QED BY <2>2, FS_CardinalityType DEF Rank
<1>3. ASSUME NEW p \in S PROVE Rank(S, p) # 0
  <2>1. p \in Upto(S, p)
    BY DEF Upto
  <2> QED BY <1>2, <2>1, FS_EmptySet DEF Rank
<1>4. ASSUME NEW p \in S, NEW q \in S, q < p PROVE Rank(S, q) < Rank(S, p)
  <2> DEFINE rest == Upto(S, p) \ {p}
  <2>0. \A j \in S : j =< q => j =< p /\ j # p
    <3>1. p \in Int /\ q \in Int /\ \A j \in S : j \in Int
      OBVIOUS
    <3> QED BY <1>4, <3>1
  <2>1. p \in Upto(S, p) /\ Upto(S, q) \in SUBSET rest
    <3>1. p =< p
      OBVIOUS
    <3> QED BY <2>0, <3>1 DEF Upto
  <2>2. IsFiniteSet(rest) /\ Cardinality(rest) = Rank(S, p) - 1
    BY <1>2, <2>1, FS_RemoveElement DEF Rank
  <2> HIDE DEF rest
  <2>3. Rank(S, q) =< Rank(S, p) - 1
    BY <2>1, <2>2, FS_Subset DEF Rank
  <2> QED BY <1>2, <2>3
<1> QED BY <1>1, <1>2, <1>3, <1>4

(* Every rank is taken by exactly one position, which Nth finds.           *)
LEMMA NthProperties ==
    ASSUME NEW S \in SUBSET Int, IsFiniteSet(S)
    PROVE  /\ \A k \in 1 .. Cardinality(S) : Nth(S, k) \in S /\ Rank(S, Nth(S, k)) = k
           /\ \A p \in S : Nth(S, Rank(S, p)) = p
<1> DEFINE N == Cardinality(S)
           f == [p \in S |-> Rank(S, p)]
<1>1. N \in Nat /\ \A p \in S : Rank(S, p) \in 1 .. N
  BY RankOrder
<1>2. ASSUME NEW p \in S, NEW q \in S, Rank(S, p) = Rank(S, q) PROVE p = q
  <2>1. p \in Int /\ q \in Int /\ Rank(S, p) \in Int
    BY <1>1
  <2>2. ~ (p < q) /\ ~ (q < p)
    BY <1>2, <2>1, RankOrder
  <2> QED BY <2>1, <2>2
<1>3. f \in Injection(S, 1 .. N)
  BY <1>1, <1>2 DEF Injection, IsInjective
<1>4. IsFiniteSet(1 .. N) /\ Cardinality(1 .. N) = N
  BY <1>1, FS_Interval
<1>5. f \in Surjection(S, 1 .. N)
  <2> HIDE DEF f, N
  <2>1. Cardinality(S) = Cardinality(1 .. N)
    BY <1>4 DEF N
  <2> QED BY <1>3, <1>4, <2>1, FS_Injection
<1>6. \A k \in 1 .. N : \E p \in S : Rank(S, p) = k
  BY <1>5 DEF Surjection
<1> QED BY <1>1, <1>2, <1>6 DEF Nth

(* A position behind all others comes last and disturbs no rank.           *)
LEMMA RankAdd ==
    ASSUME NEW S \in SUBSET Int, IsFiniteSet(S), NEW last \in Int,
           \A p \in S : p < last
    PROVE  LET T == S \cup {last}
           IN  /\ IsFiniteSet(T) /\ Cardinality(T) = Cardinality(S) + 1
               /\ \A k \in 1 .. Cardinality(S) : Nth(T, k) = Nth(S, k)
               /\ Nth(T, Cardinality(S) + 1) = last
<1> DEFINE T == S \cup {last}
<1>1. last \notin S /\ T \in SUBSET Int
  OBVIOUS
<1>2. IsFiniteSet(T) /\ Cardinality(T) = Cardinality(S) + 1
  BY <1>1, FS_AddElement
<1>3. ASSUME NEW p \in S PROVE Rank(T, p) = Rank(S, p)
  <2>1. Upto(T, p) = Upto(S, p)
    BY DEF Upto
  <2> QED BY <2>1 DEF Rank
<1>4. Rank(T, last) = Cardinality(S) + 1
  <2>1. Upto(T, last) = T
    <3>1. \A j \in T : j =< last
      BY <1>1
    <3> QED BY <3>1 DEF Upto
  <2> QED BY <1>2, <2>1 DEF Rank
<1>5. last \in T /\ S \subseteq T
  OBVIOUS
<1> HIDE DEF T
<1>6. ASSUME NEW k \in 1 .. Cardinality(S) PROVE Nth(T, k) = Nth(S, k)
  <2>1. Nth(S, k) \in S /\ Rank(S, Nth(S, k)) = k
    BY NthProperties
  <2>2. Rank(T, Nth(S, k)) = k
    BY <1>3, <2>1
  <2> QED BY <1>1, <1>2, <1>5, <2>1, <2>2, NthProperties
<1>7. Nth(T, Cardinality(S) + 1) = last
  BY <1>1, <1>2, <1>4, <1>5, NthProperties
<1> QED BY <1>2, <1>6, <1>7 DEF T

(* Without its least position a set has the others one rank lower.         *)
LEMMA RankDrop ==
    ASSUME NEW S \in SUBSET Int, IsFiniteSet(S), NEW first \in S,
           \A p \in S : first =< p
    PROVE  LET T == S \ {first}
           IN  /\ IsFiniteSet(T) /\ Cardinality(T) = Cardinality(S) - 1
               /\ \A k \in 1 .. Cardinality(S) - 1 : Nth(T, k) = Nth(S, k + 1)
               /\ Nth(S, 1) = first
<1> DEFINE T == S \ {first}
<1>1. T \in SUBSET Int /\ T \subseteq S
  OBVIOUS
<1>2. IsFiniteSet(T) /\ Cardinality(T) = Cardinality(S) - 1
  BY FS_RemoveElement
<1>3. ASSUME NEW p \in T PROVE Rank(S, p) = Rank(T, p) + 1 /\ Rank(T, p) \in Nat
  <2>1. Upto(T, p) = Upto(S, p) \ {first} /\ first \in Upto(S, p)
    BY DEF Upto
  <2>2. Upto(S, p) \in SUBSET S
    BY DEF Upto
  <2>3. IsFiniteSet(Upto(S, p)) /\ Cardinality(Upto(S, p)) \in Nat
    BY <2>2, FS_Subset, FS_CardinalityType
  <2>4. Cardinality(Upto(S, p) \ {first}) = Cardinality(Upto(S, p)) - 1
    BY <2>1, <2>3, FS_RemoveElement
  <2>5. Rank(T, p) = Rank(S, p) - 1
    BY <2>1, <2>4 DEF Rank
  <2>6. Rank(T, p) \in 1 .. Cardinality(T) /\ Cardinality(T) \in Nat
    BY <1>1, <1>2, RankOrder
  <2> HIDE DEF T
  <2>7. Rank(S, p) \in Nat
    BY <2>3 DEF Rank
  <2> QED BY <2>5, <2>6, <2>7
<1>4. Rank(S, first) = 1
  <2>1. Upto(S, first) = {first}
    <3>1. \A j \in S : j \in Int
      OBVIOUS
    <3>2. \A j \in S : j =< first <=> j = first
      BY <3>1
    <3> QED BY <3>2 DEF Upto
  <2> QED BY <2>1, FS_Singleton DEF Rank
<1> HIDE DEF T
<1>5. Cardinality(S) \in Nat
  BY RankOrder
<1>6. ASSUME NEW k \in 1 .. Cardinality(S) - 1 PROVE Nth(T, k) = Nth(S, k + 1)
  <2>1. Nth(T, k) \in T /\ Rank(T, Nth(T, k)) = k
    BY <1>1, <1>2, NthProperties
  <2>2. Rank(S, Nth(T, k)) = k + 1 /\ Nth(T, k) \in S
    BY <1>1, <1>3, <2>1
  <2>3. Nth(S, Rank(S, Nth(T, k))) = Nth(T, k)
    BY <2>2, NthProperties
  <2> QED BY <2>2, <2>3
<1>7. Nth(S, 1) = first
  BY <1>4, NthProperties
<1> QED BY <1>2, <1>6, <1>7 DEF T

(* Closing the gap at p moves the positions behind it but not their ranks. *)
Gap(p, k) == IF k < p THEN k ELSE k + 1
LEMMA RankGap ==
    ASSUME NEW S \in SUBSET Int, IsFiniteSet(S), NEW p \in Int, p \notin S,
           NEW T \in SUBSET Int, \A k \in Int : k \in T <=> Gap(p, k) \in S
    PROVE  /\ IsFiniteSet(T) /\ Cardinality(T) = Cardinality(S)
           /\ \A k \in 1 .. Cardinality(S) : Gap(p, Nth(T, k)) = Nth(S, k)
<1>1. ASSUME NEW A \in SUBSET Int, IsFiniteSet(A), p \notin A,
             NEW B \in SUBSET Int, \A k \in Int : k \in B <=> Gap(p, k) \in A
      PROVE  IsFiniteSet(B) /\ Cardinality(B) = Cardinality(A)
  <2> DEFINE g == [i \in A |-> IF i < p THEN i ELSE i - 1]
  <2>1. ASSUME NEW i \in A PROVE g[i] \in B /\ Gap(p, g[i]) = i
    <3>1. i \in Int /\ i # p /\ g[i] \in Int /\ Gap(p, g[i]) = i
      BY <1>1 DEF Gap
    <3> QED BY <1>1, <3>1
  <2>2. ASSUME NEW i \in B PROVE Gap(p, i) \in A /\ g[Gap(p, i)] = i
    BY <1>1 DEF Gap
  <2>3. g \in [A -> B]
    BY <2>1
  <2>4. g \in Bijection(A, B)
    <3>1. \A i, j \in A : g[i] = g[j] => i = j
      BY <2>1
    <3>2. \A i \in B : \E j \in A : g[j] = i
      BY <2>2
    <3> HIDE DEF g
    <3> QED BY <2>3, <3>1, <3>2 DEF Bijection, Injection, Surjection, IsInjective
  <2> QED BY <1>1, <2>4, FS_Bijection DEF ExistsBijection
<1>2. IsFiniteSet(T) /\ Cardinality(T) = Cardinality(S)
  BY <1>1
<1>3. ASSUME NEW k \in T PROVE Gap(p, k) \in S /\ Rank(T, k) = Rank(S, Gap(p, k))
  <2>1. Gap(p, k) \in S
    OBVIOUS
  <2> DEFINE A == Upto(S, Gap(p, k))
             B == Upto(T, k)
  <2>2. A \in SUBSET S /\ A \in SUBSET Int /\ B \in SUBSET Int /\ p \notin A
    BY DEF Upto
  <2>3. IsFiniteSet(A)
    BY <2>2, FS_Subset
  <2>4. \A i \in Int : i \in B <=> Gap(p, i) \in A
    BY <2>1 DEF Upto, Gap
  <2> HIDE DEF A, B
  <2>5. Cardinality(B) = Cardinality(A)
    BY <1>1, <2>2, <2>3, <2>4
  <2> QED BY <2>1, <2>5 DEF A, B, Rank
<1>4. ASSUME NEW k \in 1 .. Cardinality(S) PROVE Gap(p, Nth(T, k)) = Nth(S, k)
  <2>1. Nth(T, k) \in T /\ Rank(T, Nth(T, k)) = k
    BY <1>2, NthProperties
  <2>2. Gap(p, Nth(T, k)) \in S /\ Rank(S, Gap(p, Nth(T, k))) = k
    BY <1>3, <2>1
  <2> QED BY <2>2, NthProperties
<1> QED BY <1>2, <1>4
-------------------------------------------------------------------------------

(* The queues that the list stands for.                                    *)

(* The positions of a name are finitely many numbers.                      *)
LEMMA PositionsFinite ==
    ASSUME NEW l \in Seq(Node), NEW n
    PROVE  /\ Positions(l, n) \in SUBSET Int /\ IsFiniteSet(Positions(l, n))
           /\ Cardinality(Positions(l, n)) \in Nat
<1>1. Len(l) \in Nat /\ Positions(l, n) \in SUBSET (1 .. Len(l))
  BY LenProperties DEF Positions
<1>2. IsFiniteSet(1 .. Len(l)) /\ 1 .. Len(l) \subseteq Int
  BY <1>1, FS_Interval
<1> QED BY <1>1, <1>2, FS_Subset, FS_CardinalityType

(* The queue of a name is a sequence of the identities of its nodes.       *)
LEMMA IdsOfType ==
    ASSUME NEW l \in Seq(Node), NEW n
    PROVE  /\ IdsOf(l, n) \in Seq(Ident)
           /\ Len(IdsOf(l, n)) = Cardinality(Positions(l, n))
           /\ DOMAIN IdsOf(l, n) = 1 .. Cardinality(Positions(l, n))
           /\ \A k \in 1 .. Cardinality(Positions(l, n)) :
                 IdsOf(l, n)[k] = l[Nth(Positions(l, n), k)].id
<1> DEFINE S == Positions(l, n)
           q == [k \in 1 .. Cardinality(S) |-> l[Nth(S, k)].id]
<1>1. S \in SUBSET Int /\ IsFiniteSet(S) /\ Cardinality(S) \in Nat
  BY PositionsFinite
<1>2. S \subseteq 1 .. Len(l)
  BY DEF Positions
<1> HIDE DEF S
<1>3. ASSUME NEW k \in 1 .. Cardinality(S) PROVE l[Nth(S, k)].id \in Ident
  <2>1. Nth(S, k) \in 1 .. Len(l)
    BY <1>1, <1>2, NthProperties
  <2>2. l[Nth(S, k)] \in Node
    BY <2>1, ElementOfSeq
  <2> QED BY <2>2 DEF Node
<1>4. q \in Seq(Ident) /\ Len(q) = Cardinality(S)
  BY <1>1, <1>3, IsASeq
<1>5. IdsOf(l, n) = q
  BY DEF IdsOf, S
<1> QED BY <1>1, <1>4, <1>5 DEF S

(* Two sequences of identities are equal if they agree everywhere.         *)
LEMMA SameIds ==
    ASSUME NEW s \in Seq(Ident), NEW t \in Seq(Ident), Len(s) = Len(t),
           \A k \in 1 .. Len(s) : s[k] = t[k]
    PROVE  s = t
BY SeqEqual

(* cmd_add enqueues at the name that was typed.                            *)
LEMMA AddEnqueues ==
    ASSUME NEW l \in Seq(Node), NEW n \in Names, NEW id \in Ident, NEW m \in Names
    PROVE  IdsOf(LinkTail(l, n, id), m) =
              IF m = n THEN Append(IdsOf(l, m), id) ELSE IdsOf(l, m)
<1> DEFINE t == LinkTail(l, n, id)
           S == Positions(l, m)
           T == Positions(t, m)
<1>1. Len(l) \in Nat
  BY LenProperties
<1>2. /\ t \in Seq(Node) /\ Len(t) = Len(l) + 1
      /\ \A k \in 1 .. Len(l) : t[k].name = l[k].name /\ t[k].id = l[k].id
      /\ t[Len(l) + 1].name = n /\ t[Len(l) + 1].id = id
  <2>1. t[Len(l) + 1] = [name |-> n, id |-> id, left |-> NameAt(l, Len(l)),
                         right |-> NoName]
    BY LinkTailProperties
  <2>2. t[Len(l) + 1].name = n /\ t[Len(l) + 1].id = id
    <3> HIDE DEF t
    <3> QED BY <2>1
  <2> QED BY <2>2, LinkTailProperties
<1> HIDE DEF t
<1>3. /\ S \in SUBSET Int /\ IsFiniteSet(S) /\ Cardinality(S) \in Nat
      /\ \A p \in S : p \in 1 .. Len(l)
  BY PositionsFinite DEF Positions
<1>4. T = IF m = n THEN S \cup {Len(l) + 1} ELSE S
  BY <1>1, <1>2 DEF Positions
<1>5. /\ IdsOf(t, m) \in Seq(Ident) /\ Len(IdsOf(t, m)) = Cardinality(T)
      /\ \A k \in 1 .. Cardinality(T) : IdsOf(t, m)[k] = t[Nth(T, k)].id
  BY <1>2, IdsOfType
<1>6. /\ IdsOf(l, m) \in Seq(Ident) /\ Len(IdsOf(l, m)) = Cardinality(S)
      /\ \A k \in 1 .. Cardinality(S) : IdsOf(l, m)[k] = l[Nth(S, k)].id
  BY IdsOfType
<1>7. \A k \in 1 .. Cardinality(S) : Nth(S, k) \in S
  BY <1>3, NthProperties
<1> HIDE DEF S, T
<1>8. \A k \in 1 .. Cardinality(S) : t[Nth(S, k)].id = l[Nth(S, k)].id
  BY <1>2, <1>3, <1>7
<1>9. CASE m # n
  <2>1. \A k \in 1 .. Cardinality(S) : IdsOf(t, m)[k] = IdsOf(l, m)[k]
    BY <1>4, <1>5, <1>6, <1>8, <1>9
  <2>2. IdsOf(t, m) = IdsOf(l, m)
    BY <1>4, <1>5, <1>6, <1>9, <2>1, SameIds
  <2> QED BY <1>9, <2>2 DEF t
<1>10. CASE m = n
  <2> DEFINE q == Append(IdsOf(l, m), id)
  <2>1. \A p \in S : p < Len(l) + 1
    BY <1>1, <1>3
  <2>2. /\ Cardinality(T) = Cardinality(S) + 1
        /\ \A k \in 1 .. Cardinality(S) : Nth(T, k) = Nth(S, k)
        /\ Nth(T, Cardinality(S) + 1) = Len(l) + 1
    <3>1. T = S \cup {Len(l) + 1} /\ Len(l) + 1 \in Int
      BY <1>1, <1>4, <1>10
    <3> QED BY <1>3, <2>1, <3>1, RankAdd
  <2>3. /\ q \in Seq(Ident) /\ Len(q) = Cardinality(S) + 1
        /\ \A k \in 1 .. Cardinality(S) : q[k] = IdsOf(l, m)[k]
        /\ q[Cardinality(S) + 1] = id
    BY <1>6, AppendProperties
  <2> HIDE DEF q
  <2>4. \A k \in 1 .. Cardinality(S) : IdsOf(t, m)[k] = q[k]
    BY <1>3, <1>5, <1>6, <1>8, <2>2, <2>3
  <2>5. IdsOf(t, m)[Cardinality(S) + 1] = q[Cardinality(S) + 1]
    <3>1. Cardinality(S) + 1 \in 1 .. Cardinality(T)
      BY <1>3, <2>2
    <3>2. IdsOf(t, m)[Cardinality(S) + 1] = t[Nth(T, Cardinality(S) + 1)].id
      BY <1>5, <3>1
    <3>3. t[Nth(T, Cardinality(S) + 1)] = t[Len(l) + 1]
      BY <2>2
    <3> QED BY <1>2, <2>3, <3>2, <3>3
  <2>6. \A k \in 1 .. Cardinality(S) + 1 : IdsOf(t, m)[k] = q[k]
    BY <1>3, <2>4, <2>5
  <2>7. IdsOf(t, m) = q
    BY <1>5, <2>2, <2>3, <2>6, SameIds
  <2> QED BY <1>10, <2>7 DEF q, t
<1> QED BY <1>9, <1>10

(* cmd_clear dequeues at the name that was typed.                          *)
LEMMA ClearDequeues ==
    ASSUME NEW l \in Seq(Node), NEW n \in Names, NEW p \in Positions(l, n),
           \A k \in Positions(l, n) : p =< k, NEW m \in Names
    PROVE  IdsOf(Unlink(l, p), m) =
              IF m = n THEN Tail(IdsOf(l, m)) ELSE IdsOf(l, m)
<1> DEFINE u == Unlink(l, p)
           S == Positions(l, m)
           T == Positions(u, m)
           R == S \ {p}
<1>1. Len(l) \in Nat /\ p \in 1 .. Len(l) /\ l[p].name = n
  BY LenProperties DEF Positions
<1>2. /\ u \in Seq(Node) /\ Len(u) = Len(l) - 1
      /\ \A k \in 1 .. Len(l) - 1 :
            u[k].name = l[Gap(p, k)].name /\ u[k].id = l[Gap(p, k)].id
  BY <1>1, UnlinkProperties DEF Gap
<1> HIDE DEF u
<1>3. /\ S \in SUBSET Int /\ IsFiniteSet(S) /\ Cardinality(S) \in Nat
      /\ \A k \in S : k \in 1 .. Len(l)
  BY PositionsFinite DEF Positions
<1>4. T \in SUBSET Int /\ \A k \in T : k \in 1 .. Len(l) - 1
  BY <1>2, PositionsFinite DEF Positions
<1>5. \A k \in Int : k \in T <=> Gap(p, k) \in R
  <2>1. ASSUME NEW k \in Int
        PROVE  /\ Gap(p, k) # p
               /\ k \in 1 .. Len(l) - 1 <=> Gap(p, k) \in 1 .. Len(l)
    BY <1>1 DEF Gap
  <2> QED BY <1>2, <2>1 DEF Positions
<1>6. /\ IdsOf(u, m) \in Seq(Ident) /\ Len(IdsOf(u, m)) = Cardinality(T)
      /\ \A k \in 1 .. Cardinality(T) : IdsOf(u, m)[k] = u[Nth(T, k)].id
  BY <1>2, IdsOfType
<1>7. /\ IdsOf(l, m) \in Seq(Ident) /\ Len(IdsOf(l, m)) = Cardinality(S)
      /\ \A k \in 1 .. Cardinality(S) : IdsOf(l, m)[k] = l[Nth(S, k)].id
  BY IdsOfType
<1>8. m = n => p \in S /\ \A k \in S : p =< k
  OBVIOUS
<1>9. m # n => p \notin S
  BY <1>1 DEF Positions
<1>10. R \in SUBSET Int /\ p \notin R /\ p \in Int
  BY <1>1, <1>3
<1> HIDE DEF S, T
<1>11. IsFiniteSet(R)
  BY <1>3, FS_RemoveElement
<1> HIDE DEF R
<1>12. /\ IsFiniteSet(T) /\ Cardinality(T) = Cardinality(R)
       /\ \A k \in 1 .. Cardinality(R) : Gap(p, Nth(T, k)) = Nth(R, k)
  BY <1>4, <1>5, <1>10, <1>11, RankGap
<1>13. \A k \in 1 .. Cardinality(R) : IdsOf(u, m)[k] = l[Nth(R, k)].id
  <2>1. \A k \in 1 .. Cardinality(T) : Nth(T, k) \in T
    BY <1>4, <1>12, NthProperties
  <2> QED BY <1>2, <1>4, <1>6, <1>12, <2>1
<1>14. CASE m # n
  <2>1. R = S
    BY <1>9, <1>14 DEF R
  <2>2. IdsOf(u, m) = IdsOf(l, m)
    BY <1>6, <1>7, <1>12, <1>13, <2>1, SameIds
  <2> QED BY <1>14, <2>2 DEF u
<1>15. CASE m = n
  <2> DEFINE q == Tail(IdsOf(l, m))
  <2>1. /\ Cardinality(R) = Cardinality(S) - 1
        /\ \A k \in 1 .. Cardinality(S) - 1 : Nth(R, k) = Nth(S, k + 1)
    BY <1>3, <1>8, <1>15, RankDrop DEF R
  <2>2. Cardinality(S) # 0
    BY <1>3, <1>8, <1>15, FS_EmptySet
  <2>3. IdsOf(l, m) # << >>
    BY <1>3, <1>7, <2>2, EmptySeq
  <2>4. /\ q \in Seq(Ident) /\ Len(q) = Cardinality(S) - 1
        /\ \A k \in 1 .. Cardinality(S) - 1 : q[k] = IdsOf(l, m)[k + 1]
    BY <1>7, <2>3, HeadTailProperties
  <2> HIDE DEF q
  <2>5. \A k \in 1 .. Cardinality(R) : IdsOf(u, m)[k] = q[k]
    <3>1. ASSUME NEW k \in 1 .. Cardinality(S) - 1
          PROVE  IdsOf(u, m)[k] = l[Nth(S, k + 1)].id /\ q[k] = l[Nth(S, k + 1)].id
      <4>1. k + 1 \in 1 .. Cardinality(S)
        BY <1>3
      <4> QED BY <1>7, <1>13, <2>1, <2>4, <4>1
    <3> QED BY <2>1, <3>1
  <2>6. IdsOf(u, m) = q
    BY <1>6, <1>12, <2>1, <2>4, <2>5, SameIds
  <2> QED BY <1>15, <2>6 DEF q, u
<1> QED BY <1>14, <1>15

(* The first node of a name is the head of its queue.                      *)
LEMMA FirstIsHead ==
    ASSUME NEW l \in Seq(Node), NEW n \in Names, NEW p \in Positions(l, n),
           \A k \in Positions(l, n) : p =< k
    PROVE  IdsOf(l, n) # << >> /\ Head(IdsOf(l, n)) = l[p].id
<1> DEFINE S == Positions(l, n)
<1>1. S \in SUBSET Int /\ IsFiniteSet(S) /\ Cardinality(S) \in Nat
  BY PositionsFinite
<1>2. /\ IdsOf(l, n) \in Seq(Ident) /\ Len(IdsOf(l, n)) = Cardinality(S)
      /\ \A k \in 1 .. Cardinality(S) : IdsOf(l, n)[k] = l[Nth(S, k)].id
  BY IdsOfType
<1>3. p \in S /\ \A k \in S : p =< k
  OBVIOUS
<1> HIDE DEF S
<1>4. Cardinality(S) # 0 /\ Nth(S, 1) = p
  BY <1>1, <1>3, FS_EmptySet, RankDrop
<1>5. IdsOf(l, n) # << >>
  BY <1>1, <1>2, <1>4, EmptySeq
<1>6. Head(IdsOf(l, n)) = IdsOf(l, n)[1] /\ 1 \in 1 .. Cardinality(S)
  BY <1>1, <1>2, <1>4, <1>5, HeadTailProperties
<1> QED BY <1>2, <1>4, <1>5, <1>6

(* Only a name without a node has an empty queue.                          *)
LEMMA UnlistedIsEmpty ==
    ASSUME NEW l \in Seq(Node), NEW n \in Names, n \notin Listed(l)
    PROVE  IdsOf(l, n) = << >>
<1>1. Positions(l, n) = {}
  BY DEF Positions, Listed
<1>2. Cardinality(Positions(l, n)) = 0
  BY <1>1, FS_EmptySet
<1> QED BY <1>2, IdsOfType, EmptySeq

(* The queues together hold the nodes of the list, one place for each.     *)
LEMMA TakenIsLength ==
    ASSUME NEW l \in Seq(Node)
    PROVE  Cardinality(UNION {{n} \X DOMAIN IdsOf(l, n) : n \in Names}) = Len(l)
<1> DEFINE U == UNION {{n} \X DOMAIN IdsOf(l, n) : n \in Names}
           f == [p \in 1 .. Len(l) |-> <<l[p].name, Rank(Positions(l, l[p].name), p)>>]
<1>1. Len(l) \in Nat /\ \A p \in 1 .. Len(l) : l[p].name \in Names
  <2>1. \A p \in 1 .. Len(l) : l[p] \in Node
    BY ElementOfSeq
  <2> QED BY <2>1, LenProperties DEF Node
<1>2. ASSUME NEW n \in Names
      PROVE  /\ DOMAIN IdsOf(l, n) = 1 .. Cardinality(Positions(l, n))
             /\ \A p \in Positions(l, n) :
                   Rank(Positions(l, n), p) \in 1 .. Cardinality(Positions(l, n))
             /\ \A k \in 1 .. Cardinality(Positions(l, n)) :
                   /\ Nth(Positions(l, n), k) \in Positions(l, n)
                   /\ Rank(Positions(l, n), Nth(Positions(l, n), k)) = k
             /\ \A p \in Positions(l, n) :
                   Nth(Positions(l, n), Rank(Positions(l, n), p)) = p
  BY IdsOfType, PositionsFinite, RankOrder, NthProperties
<1>3. \A p \in 1 .. Len(l) : p \in Positions(l, l[p].name)
  BY DEF Positions
<1>4. \A n \in Names : \A p \in Positions(l, n) : p \in 1 .. Len(l) /\ l[p].name = n
  BY DEF Positions
<1>5. ASSUME NEW p \in 1 .. Len(l) PROVE f[p] \in U
  <2>1. Rank(Positions(l, l[p].name), p) \in DOMAIN IdsOf(l, l[p].name)
    BY <1>1, <1>2, <1>3
  <2>2. f[p] = <<l[p].name, Rank(Positions(l, l[p].name), p)>>
    OBVIOUS
  <2>3. f[p] \in {l[p].name} \X DOMAIN IdsOf(l, l[p].name)
    BY <2>1, <2>2
  <2> QED BY <1>1, <2>3
<1>6. ASSUME NEW p \in 1 .. Len(l), NEW q \in 1 .. Len(l), f[p] = f[q] PROVE p = q
  <2>1. l[p].name = l[q].name
    BY <1>6
  <2>2. Rank(Positions(l, l[p].name), p) = Rank(Positions(l, l[p].name), q)
    BY <1>6
  <2> QED BY <1>1, <1>2, <1>3, <2>1, <2>2
<1>7. ASSUME NEW u \in U PROVE \E p \in 1 .. Len(l) : f[p] = u
  <2>1. PICK n \in Names : u \in {n} \X (1 .. Cardinality(Positions(l, n)))
    BY <1>2
  <2>2. PICK k \in 1 .. Cardinality(Positions(l, n)) : u = <<n, k>>
    BY <2>1
  <2>3. Nth(Positions(l, n), k) \in 1 .. Len(l) /\ f[Nth(Positions(l, n), k)] = u
    BY <1>2, <1>4, <2>2
  <2> QED BY <2>3
<1>8. f \in Bijection(1 .. Len(l), U)
  <2>1. f \in [1 .. Len(l) -> U]
    BY <1>5
  <2> HIDE DEF f, U
  <2> QED BY <1>6, <1>7, <2>1 DEF Bijection, Injection, Surjection, IsInjective
<1>9. IsFiniteSet(1 .. Len(l)) /\ Cardinality(1 .. Len(l)) = Len(l)
  <2>1. Cardinality(1 .. Len(l)) = IF 1 > Len(l) THEN 0 ELSE Len(l) - 1 + 1
    BY <1>1, FS_Interval
  <2> QED BY <1>1, <2>1, FS_Interval
<1> HIDE DEF f, U
<1>10. Cardinality(U) = Len(l)
  BY <1>8, <1>9, FS_Bijection DEF ExistsBijection
<1> QED BY <1>10 DEF U

(* What is shown of all queues is what is shown of the list.               *)
LEMMA AllShown ==
    ASSUME NEW l \in Seq(Node)
    PROVE  UNION {Range(IdsOf(l, n)) : n \in Names} = {l[k].id : k \in 1 .. Len(l)}
<1>1. ASSUME NEW n \in Names
      PROVE  Range(IdsOf(l, n)) = {l[p].id : p \in Positions(l, n)}
  <2> DEFINE S == Positions(l, n)
  <2>1. S \in SUBSET Int /\ IsFiniteSet(S)
    BY PositionsFinite
  <2>2. /\ DOMAIN IdsOf(l, n) = 1 .. Cardinality(S)
        /\ \A k \in 1 .. Cardinality(S) : IdsOf(l, n)[k] = l[Nth(S, k)].id
    BY IdsOfType
  <2> HIDE DEF S
  <2>3. /\ \A k \in 1 .. Cardinality(S) : Nth(S, k) \in S
        /\ \A p \in S : Rank(S, p) \in 1 .. Cardinality(S) /\ Nth(S, Rank(S, p)) = p
    BY <2>1, NthProperties, RankOrder
  <2>4. Range(IdsOf(l, n)) = {l[p].id : p \in S}
    BY <2>2, <2>3 DEF Range
  <2> QED BY <2>4 DEF S
<1>2. \A p \in 1 .. Len(l) : l[p].name \in Names
  <2>1. \A p \in 1 .. Len(l) : l[p] \in Node
    BY ElementOfSeq
  <2> QED BY <2>1 DEF Node
<1>3. \A id : (\E n \in Names : id \in Range(IdsOf(l, n)))
                 <=> \E k \in 1 .. Len(l) : id = l[k].id
  BY <1>1, <1>2 DEF Positions
<1> QED BY <1>3
-------------------------------------------------------------------------------

(* The abstract registry counts with its own copy of the library.          *)
LEMMA SameCardinality == ASSUME NEW S PROVE Queues!Cardinality(S) = Cardinality(S)
BY DEF Queues!Cardinality, Cardinality

(* A command that leaves the list alone leaves the queues alone, and the   *)
(* other commands do to the queues what the abstract registry does.        *)
LEMMA QueueInit == Init => Queues!Init
<1> SUFFICES ASSUME Init PROVE Queues!Init
  OBVIOUS
<1>1. list \in Seq(Node) /\ Listed(list) = {}
  BY EmptySeq DEF Init, Listed
<1>2. \A n \in Names : IdsOf(list, n) = << >>
  BY <1>1, UnlistedIsEmpty
<1> QED BY <1>2 DEF Init, Silent, Queues!Init

LEMMA QueueStep ==
    IInv /\ [Next]_vars =>
       [Queues!Next]_<<[n \in Names |-> IdsOf(list, n)], reply, faulted>>
<1> DEFINE queue == [n \in Names |-> IdsOf(list, n)]
<1> SUFFICES ASSUME IInv, [Next]_vars PROVE [Queues!Next]_<<queue, reply, faulted>>
  OBVIOUS
<1>0. /\ list \in Seq(Node) /\ Len(list) \in Nat /\ HeapBlocks \in Nat
      /\ heap \in Nat /\ heap + Len(list) = HeapBlocks
  BY LenProperties, HeapAssumption DEF IInv, TypeOK, HeapAccounted
<1>1. Queues!Total(queue) = Len(list)
  <2>1. Queues!Taken(queue) = UNION {{n} \X DOMAIN IdsOf(list, n) : n \in Names}
    <3>1. \A n \in Names : {n} \X DOMAIN queue[n] = {n} \X DOMAIN IdsOf(list, n)
      OBVIOUS
    <3> HIDE DEF queue
    <3> QED BY <3>1 DEF Queues!Taken
  <2> HIDE DEF queue
  <2>2. Cardinality(Queues!Taken(queue)) = Len(list)
    BY <1>0, <2>1, TakenIsLength
  <2> QED BY <2>2, SameCardinality DEF Queues!Total
<1>2. \A n \in Names : queue[n] = IdsOf(list, n)
  OBVIOUS
<1>3. list' = list => queue' = queue
  OBVIOUS
<1>4. CASE CmdRejected \/ \E a, b \in Args : CmdAddBadId(a, b)
  <2>1. Queues!Reject /\ ~ faulted
    BY <1>3, <1>4 DEF CmdRejected, CmdAddBadId, Silent, Queues!Reject, Queues!Answer
  <2> QED BY <2>1 DEF Queues!Next
<1>5. ASSUME NEW n \in Names, NEW a \in Args, NEW b \in Args, CmdAdd(n, a, b)
      PROVE  Queues!Next
  <2> DEFINE id == NewId(a, b)
  <2>1. id \in Ident /\ id \in AcceptedIds
    BY <1>5, NewIdProperties DEF CmdAdd, AcceptedIds
  <2>2. list' = LinkTail(list, n, id) /\ Len(list) < HeapBlocks
    BY <1>0, <1>5 DEF CmdAdd
  <2> HIDE DEF id
  <2>3. \A m \in Names : IdsOf(list', m) = IF m = n THEN Append(IdsOf(list, m), id)
                                           ELSE IdsOf(list, m)
    BY <1>0, <2>1, <2>2, AddEnqueues
  <2>4. queue' = [queue EXCEPT ![n] = Append(@, id)]
    BY <2>3
  <2>5. Queues!Enqueue(n, id)
    BY <1>1, <1>5, <2>2, <2>4 DEF CmdAdd, Silent, Queues!Enqueue, Queues!Answer
  <2>6. ~ faulted
    BY <1>5 DEF CmdAdd
  <2> QED BY <2>1, <2>5, <2>6 DEF Queues!Next
<1>6. ASSUME NEW n \in Names, NEW a \in Args, NEW b \in Args, CmdAddNoMemory(n, a, b)
      PROVE  Queues!Next
  <2>1. Queues!Overflow
    BY <1>0, <1>1, <1>3, <1>6 DEF CmdAddNoMemory, Queues!Overflow
  <2> QED BY <1>6, <2>1 DEF CmdAddNoMemory, Queues!Next
<1>7. ASSUME NEW n \in Names, CmdClear(n) PROVE Queues!Next
  <2>1. PICK p \in Positions(list, n) : /\ \A k \in Positions(list, n) : p =< k
                                        /\ list' = Unlink(list, p)
    BY <1>7 DEF CmdClear, IsFirst
  <2>2. \A m \in Names : IdsOf(list', m) = IF m = n THEN Tail(IdsOf(list, m))
                                           ELSE IdsOf(list, m)
    BY <1>0, <2>1, ClearDequeues
  <2>3. queue' = [queue EXCEPT ![n] = Tail(@)]
    BY <2>2
  <2>4. queue[n] # << >>
    BY <1>0, <2>1, FirstIsHead
  <2>5. Queues!Dequeue(n)
    BY <1>7, <2>3, <2>4 DEF CmdClear, Silent, Queues!Dequeue, Queues!Answer
  <2> QED BY <1>7, <2>5 DEF CmdClear, Queues!Next
<1>8. ASSUME NEW n \in Names, CmdList(n) PROVE Queues!Next
  <2>1. PICK p \in Positions(list, n) :
           /\ \A k \in Positions(list, n) : p =< k
           /\ reply' = [rc |-> "OK", shown |-> {list[p].id}]
    BY <1>8 DEF CmdList, IsFirst
  <2>2. queue[n] # << >> /\ Head(queue[n]) = list[p].id
    BY <1>0, <2>1, FirstIsHead
  <2>3. Queues!Show(n)
    BY <1>3, <1>8, <2>1, <2>2 DEF CmdList, Queues!Show, Queues!Answer
  <2> QED BY <1>8, <2>3 DEF CmdList, Queues!Next
<1>9. ASSUME NEW n \in Names, CmdNotFound(n) PROVE Queues!Next
  <2>1. queue[n] = << >>
    BY <1>0, <1>9, UnlistedIsEmpty DEF CmdNotFound
  <2>2. Queues!NotFound(n)
    BY <1>3, <1>9, <2>1 DEF CmdNotFound, Silent, Queues!NotFound, Queues!Answer
  <2> QED BY <1>9, <2>2 DEF CmdNotFound, Queues!Next
<1>10. CASE CmdClearAll
  <2>1. list' \in Seq(Node) /\ Listed(list') = {}
    BY <1>10, EmptySeq DEF CmdClearAll, Listed
  <2>2. \A n \in Names : IdsOf(list', n) = << >>
    BY <2>1, UnlistedIsEmpty
  <2>3. queue' = [n \in Names |-> << >>]
    BY <2>2
  <2>4. Queues!DequeueAll
    BY <1>10, <2>3 DEF CmdClearAll, Silent, Queues!DequeueAll, Queues!Answer
  <2> QED BY <1>10, <2>4 DEF CmdClearAll, Queues!Next
<1>11. CASE CmdListAll
  <2>1. UNION {Range(queue[n]) : n \in Names} = {list[k].id : k \in 1 .. Len(list)}
    <3>1. {Range(queue[n]) : n \in Names} = {Range(IdsOf(list, n)) : n \in Names}
      BY <1>2
    <3> QED BY <1>0, <3>1, AllShown
  <2>2. Queues!ShowAll
    BY <1>3, <1>11, <2>1 DEF CmdListAll, Range, Queues!Range, Queues!ShowAll,
       Queues!Answer
  <2> QED BY <1>11, <2>2 DEF CmdListAll, Queues!Next
<1>12. CASE UNCHANGED vars
  BY <1>3, <1>12 DEF vars
<1> HIDE DEF queue
<1> QED BY <1>4, <1>5, <1>6, <1>7, <1>8, <1>9, <1>10, <1>11, <1>12 DEF Next

(* The list with its labels implements one queue of identities per name:   *)
(* whatever adds and clears of other names come in between, clear takes    *)
(* away and list shows the oldest entry of the name that was typed.        *)
THEOREM QueuesCorrect == Spec => ImplementsQueues
<1>1. Init => Queues!Init
  BY QueueInit
<1>2. IInv /\ [Next]_vars =>
         [Queues!Next]_<<[n \in Names |-> IdsOf(list, n)], reply, faulted>>
  BY QueueStep
<1> QED BY <1>1, <1>2, Always, PTL DEF Spec, ImplementsQueues, Queues!Spec

===============================================================================
