----------------------------- MODULE MCMcuReceive -----------------------------
(* McuReceive with two messages.  The frame of the first, of 13 bytes, is  *)
(* cut by the first chunk, of 12, and holds what looks like the start of   *)
(* another; that of the second has 6 bytes.  Their records have 11 and 4,  *)
(* so a queue of 12 cuts a record put behind the first, and then refuses   *)
(* the next: a third one there is when a transfer that failed makes the    *)
(* driver parse a whole chunk again.                                       *)
EXTENDS McuReceive

MCPayloads == {<<2, 255, 85, 12, 1, 1, 1, 1, 1>>, <<4, 5>>}
MCMessages == <<<<2, 255, 85, 12, 1, 1, 1, 1, 1>>, <<4, 5>>>>
=============================================================================
