------------------------------- MODULE MCByteRing -------------------------------
(* The ring of the code: ten bytes, readings of four.                      *)
EXTENDS ByteRing
===============================================================================
