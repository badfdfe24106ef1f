------------------------------ MODULE MCBaseNode ------------------------------
(* Two rows instead of eight and three names instead of thirteen: fewer,   *)
(* as many and more names marked than there are rows, and repeated names.  *)
EXTENDS BaseNode

===============================================================================
