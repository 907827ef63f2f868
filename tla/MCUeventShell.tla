----------------------------- MODULE MCUeventShell -----------------------------
(* The empty command, one that does nothing to the driver, and one that writes
   to a node whose handler queues two more. *)
EXTENDS UeventShell

MCCommands == {<<>>, <<1, 1>>, <<2, 2, 2>>}
MCScript == [c \in MCCommands |-> IF c = <<2, 2, 2>> THEN <<<<1, 1>>, <<>>>> ELSE <<>>]
=============================================================================
