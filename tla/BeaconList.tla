------------------------------ MODULE BeaconList ------------------------------
(***************************************************************************)
(* The list of registered beacons of the base node (beacon_list in         *)
(* prac3/basenode/src/main.c) as a sequence of nodes.  Every node carries  *)
(* its own name and, in two label fields, the names of its neighbours,     *)
(* which cmd_add and cmd_clear keep up to date by hand.  The sys_dlist     *)
(* calls (append, remove, peek) are the sequence operations.               *)
(***************************************************************************)
EXTENDS Integers, SequencesExt

CONSTANTS Names,     (* the letters 'A' .. 'M' a beacon may have            *)
          NoName,    (* the label '-' of a missing neighbour                *)
          Width      (* 2^16: majors and minors are uint16_t                *)

ASSUME NoNameAssumption == NoName \notin Names
ASSUME WidthAssumption  == Width \in Nat \ {0, 1}

Label == Names \cup {NoName}
Word  == 0 .. Width - 1
Ident == [major: Word, minor: Word]
Node  == [name: Names, id: Ident, left: Label, right: Label]

(* Mutant: the argument is stored as read.                                 *)
Uint16NoCast(k) == k

(* The cast (uint16_t) atoi(...) of a shell argument.                      *)
Uint16(k) == k % Width

(* The name printed for position k: a neighbour that does not exist is '-' *)
NameAt(list, k) == IF k \in 1 .. Len(list) THEN list[k].name ELSE NoName

(* What the labels of every node should be.                                *)
LinkedAt(list, k) == /\ list[k].left  = NameAt(list, k - 1)
                     /\ list[k].right = NameAt(list, k + 1)
Linked(list) == \A k \in 1 .. Len(list) : LinkedAt(list, k)

Positions(list, n) == {k \in 1 .. Len(list) : list[k].name = n}
Listed(list) == {list[k].name : k \in 1 .. Len(list)}

(* The how manieth of the positions in S position p is, and the position   *)
(* that is the kth.                                                        *)
Upto(S, p) == {j \in S : j =< p}
Rank(S, p) == Cardinality(Upto(S, p))
Nth(S, k)  == CHOOSE p \in S : Rank(S, p) = k

(* The identities of the nodes of one name in the order of the list.       *)
IdsOf(list, n) ==
    LET mine == Positions(list, n)
    IN  [k \in 1 .. Cardinality(mine) |-> list[Nth(mine, k)].id]

(* Mutant: the new node goes to the head.                                  *)
LinkHead(list, n, id) ==
    <<[name |-> n, id |-> id, left |-> NoName, right |-> NameAt(list, 1)]>>
        \o [k \in 1 .. Len(list) |->
               IF k = 1 THEN [list[k] EXCEPT !.left = n] ELSE list[k]]

(***************************************************************************)
(* cmd_add: the new node goes to the tail, so it has no next; its left     *)
(* label is the name of the old tail, whose right label becomes its name.  *)
(***************************************************************************)
LinkTail(list, n, id) ==
    LET size == Len(list)
    IN  Append([k \in 1 .. size |->
                   IF k = size THEN [list[k] EXCEPT !.right = n] ELSE list[k]],
               [name |-> n, id |-> id, left |-> NameAt(list, size),
                right |-> NoName])

(***************************************************************************)
(* cmd_clear: the neighbours of position p get each other's names as their *)
(* labels, and the node leaves the list.                                   *)
(***************************************************************************)
Relabel(list, p) ==
    [k \in 1 .. Len(list) |->
        CASE k = p - 1 -> [list[k] EXCEPT !.right = NameAt(list, p + 1)]
          [] k = p + 1 -> [list[k] EXCEPT !.left  = NameAt(list, p - 1)]
          [] OTHER     -> list[k]]

(* Mutant: only the node in front is relabelled.                           *)
UnlinkOneSided(list, p) ==
    RemoveAt([k \in 1 .. Len(list) |->
                 IF k = p - 1 THEN [list[k] EXCEPT !.right = NameAt(list, p + 1)]
                 ELSE list[k]], p)

Unlink(list, p) == RemoveAt(Relabel(list, p), p)

===============================================================================
