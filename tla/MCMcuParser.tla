----------------------------- MODULE MCMcuParser ------------------------------
(* McuParser fed with every stream of up to MaxBytes bytes over Alphabet:  *)
(* of eight bytes, for two empty frames, or one with data and what comes   *)
(* before or after it, or one of length zero that overruns a buffer of     *)
(* three bytes.                                                            *)
EXTENDS McuParser

CONSTANTS Alphabet, MaxBytes

Next ==
    \E b \in Alphabet : ~overrun /\ Len(fed) < MaxBytes /\ readFromMCUProcessor(b)

Spec == ParserInit /\ [][Next]_parsing

MCAlphabet == {0, 1, 2, 85, 255}

MCPayloads == {<<>>, <<255>>, <<255, 85>>, <<255, 85, 2, 0, 2>>, <<200, 100>>}
=============================================================================
