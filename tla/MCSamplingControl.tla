--------------------------- MODULE MCSamplingControl ---------------------------
(* Three sensors: two of the kind that share an entry point of the JSON    *)
(* threads, one of them not ready, and the magnetometer with its own.      *)
EXTENDS SamplingControl

MCOrder == <<"temp", "hum", "mag">>

===============================================================================
