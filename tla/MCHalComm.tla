------------------------------- MODULE MCHalComm ------------------------------
(* HalComm with messages of 1 and 2 words and one that is refused: a queue *)
(* of 4 words gives one or two up to take another.                         *)
EXTENDS HalComm

MCMessages == {<<1>>, <<2, 3>>, <<1, 1, 1, 1>>}
=============================================================================
