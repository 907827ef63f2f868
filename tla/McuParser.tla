------------------------------- MODULE McuParser -------------------------------
(***************************************************************************)
(* readFromMCUProcessor (lidbg_lpc.c), the part of the MCU's driver that   *)
(* takes frames out of the bytes read, one byte a step.  A byte stored     *)
(* past the end of buffFromMCU is noted, and what is said of the parser is *)
(* said of it up to there: the systems built from this module stop then,   *)
(* for what a driver does whose state is overwritten is not modelled.      *)
(***************************************************************************)
EXTENDS McuWire

CONSTANTS
    Payloads,   \* what is framed
    BuffSize    \* DATA_BUFF_LENGTH_FROM_MCU, the size of buffFromMCU

(* The byte that says the length of a frame counts the checksum too. *)
ASSUME PayloadsAssumption ==
    Payloads \subseteq Seq(Byte) /\ \A m \in Payloads : Len(m) < 255

ASSUME BuffAssumption == BuffSize \in Nat \ {0}

VARIABLES
    parser,     \* pGlobalHardwareInfo
    overrun,    \* a byte has been stored past the end of buffFromMCU
    fed,        \* history: the bytes it has been given
    out         \* history: the payloads given to LPCReadDataEnqueue

parsing == <<parser, overrun, fed, out>>

ParserInit == parser = NoFrame /\ overrun = FALSE /\ fed = <<>> /\ out = <<>>

readFromMCUProcessor(b) ==
    /\ fed' = Append(fed, b)
    /\ overrun' = Overruns(parser, BuffSize)
    /\ LET r == Step([parser |-> parser, out |-> out], b)
       IN  parser' = r.parser /\ out' = r.out

----------------------------------------------------------------------------
(* Properties. *)

(* The parser, which sees the bytes one by one and keeps its state from    *)
(* chunk to chunk, delivers exactly the good frames of the stream, in      *)
(* their order, however the stream begins and whatever is between them, up *)
(* to the first byte that overruns buffFromMCU.                            *)
ParsedAreFrames == out = FramesOf(fed)

(* What the parser p delivers of the bytes of s. *)
Delivered(p, s) == Parse([parser |-> p, out |-> <<>>], s).out

(* Some byte of s overruns buffFromMCU. *)
OverrunBy(p, s) ==
    \E i \in 0 .. Len(s) - 1 :
        Overruns(Parse([parser |-> p, out |-> <<>>], SubSeq(s, 1, i)).parser, BuffSize)

(* Whenever the parser is not inside a frame, a frame built as the driver  *)
(* builds its own is delivered whole, at its last byte and not before, if  *)
(* buffFromMCU holds its payload; and it overruns buffFromMCU if not.      *)
RoundTrip ==
    parser.at <= 1 =>
        \A m \in Payloads :
            /\ OverrunBy(parser, Frame(m)) <=> Len(m) > BuffSize
            /\ Len(m) <= BuffSize =>
                  /\ Delivered(parser, Frame(m)) = <<m>>
                  /\ Delivered(parser, Front(Frame(m))) = <<>>
=============================================================================
