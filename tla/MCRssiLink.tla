------------------------------ MODULE MCRssiLink ------------------------------
(* Two beacons are a first and a last entry of a frame that is built,      *)
(* received and read byte by byte; that each changes its strength once     *)
(* separates old values from new ones.                                     *)
EXTENDS RssiLink

===============================================================================
