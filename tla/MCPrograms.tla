------------------------------- MODULE MCPrograms -------------------------------
EXTENDS Programs

MCDefault == <<1, 1>>
(* 0 and 59 cm, 60 cm, and two metres 56, whose low byte is zero.          *)
MCPlaces == {<<0, 5000>>, <<0, 599999>>, <<0, 600000>>, <<2, 560000>>}
(* The sensor can be sampled alone or as all there are, which uploads.     *)
MCOrder == <<"temp">>
===============================================================================
