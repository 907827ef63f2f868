------------------------------- MODULE MCMcuSend ------------------------------
(* McuSend with two writers and records of 7 and 9 bytes: a queue of 16 is *)
(* full with one of each, and cuts a second long or a third short one.     *)
EXTENDS McuSend

CONSTANTS w1, w2

MCWriters == {w1, w2}
MCMessages == {<<1>>, <<255, 85, 1>>}
=============================================================================
