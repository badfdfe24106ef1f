--------------------------- MODULE MCBeaconRegistry ---------------------------
(* Two names, numbers on both sides of the 16-bit boundary, a heap of four *)
(* nodes: duplicates of one name, nodes of another between them, removal   *)
(* at both ends and in the middle, and a full heap all occur.              *)
EXTENDS BeaconRegistry

MCArgs == {1, 65536, 65538}

===============================================================================
