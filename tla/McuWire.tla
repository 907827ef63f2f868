------------------------------- MODULE McuWire --------------------------------
(***************************************************************************)
(* The data formats of the MCU link (lidbg_lpc.c), as operators: the frame *)
(* FF 55 length payload checksum on the I2C bus, the state machine that    *)
(* takes frames out of a stream of bytes and a reference for it, and the   *)
(* records (a two byte length and the data) of the two kfifos, which are   *)
(* queues of bytes.                                                        *)
(***************************************************************************)
EXTENDS Naturals, Integers, Sequences, SequencesExt

Byte == 0 .. 255

----------------------------------------------------------------------------
(* Frames. *)

(* checksum += p[i], in a BYTE. *)
AddByte(sum, b) == (sum + b) % 256

CheckSum(first, s) ==
    LET sum[i \in 0 .. Len(s)] == IF i = 0 THEN first ELSE AddByte(sum[i - 1], s[i])
    IN  sum[Len(s)]

(* Mutant: the length byte is not part of the checksum. *)
FramePayloadSum(m) ==
    <<255, 85, (Len(m) + 1) % 256>> \o m \o <<CheckSum(0, m)>>

Frame(m) ==
    LET n == (Len(m) + 1) % 256
    IN  <<255, 85, n>> \o m \o <<CheckSum(n, m)>>

(* buffFromMCUProcessorStatus, ..FrameLengthMax, ..CRC, and the payload:    *)
(* buffFromMCU up to buffFromMCUFrameLength, and without an end of its own *)
(* (see Overruns).                                                         *)
NoFrame == [at |-> 0, max |-> 0, crc |-> 0, buf |-> <<>>]

(* A payload stays shorter than the length byte, unless that was zero. *)
ParserStates ==
    {p \in [at : 0 .. 3, max : Byte, crc : Byte, buf : Seq(Byte)] :
        p.max # 0 => Len(p.buf) < p.max}

(* buffFromMCUFrameLengthMax is unsigned: of zero, one less is 2^32 - 1. *)
Filling(p) == p.max = 0 \/ Len(p.buf) < p.max - 1

(* Mutant: a second FF gives up the frame the first one may begin. *)
SyncOnce(p, b) == [p EXCEPT !.at = IF b = 85 THEN 2 ELSE 0]

Sync(p, b) == [p EXCEPT !.at = CASE b = 255 -> 1 [] b = 85 -> 2 [] OTHER -> 0]

Feed(p, b) ==
    CASE p.at = 0 -> [p EXCEPT !.at = IF b = 255 THEN 1 ELSE 0]
      [] p.at = 1 -> Sync(p, b)
      [] p.at = 2 -> [at |-> 3, max |-> b, crc |-> b, buf |-> <<>>]
      [] p.at = 3 /\ Filling(p) ->
            [p EXCEPT !.crc = AddByte(@, b), !.buf = Append(@, b)]
      [] OTHER -> [p EXCEPT !.at = 0]

(* The next byte is one more of the payload than a buffFromMCU of `size'   *)
(* bytes holds: the code does not look at the size, and stores it over the *)
(* parser's own state and what follows.  Feed knows of no such end: it is  *)
(* the driver's parser up to there.                                        *)
Overruns(p, size) == p.at = 3 /\ Filling(p) /\ Len(p.buf) >= size

(* The byte ends a frame whose checksum is right: LPCReadDataEnqueue. *)
Delivers(p, b) == p.at = 3 /\ ~Filling(p) /\ p.crc = b

(* One turn of the loop: the parser, and what is given to                  *)
(* LPCReadDataEnqueue.                                                     *)
Step(r, b) ==
    [parser |-> Feed(r.parser, b),
     out    |-> IF Delivers(r.parser, b) THEN Append(r.out, r.parser.buf) ELSE r.out]

(* The turns of the loop for the bytes of s.  The set makes TLC evaluate   *)
(* what comes before a byte once, not at each use.                         *)
Parse(r, s) ==
    LET after[i \in 0 .. Len(s)] ==
            IF i = 0 THEN r
            ELSE CHOOSE x \in {Step(a, s[i]) : a \in {after[i - 1]}} : TRUE
    IN  after[Len(s)]

(* Where a frame may begin, from i on. *)
Starts(s, i) == {j \in i .. Len(s) - 3 : s[j] = 255 /\ s[j + 1] = 85}

(* The good frames of a stream: the first FF 55 begins a frame, its length *)
(* byte n counts payload and checksum, and the next frame is looked for    *)
(* behind the checksum.  A length of zero never ends.                      *)
FramesOf(s) ==
    LET scan[i \in 1 .. Len(s) + 1] ==
            IF Starts(s, i) = {} THEN <<>>
            ELSE LET j == CHOOSE j \in Starts(s, i) : \A k \in Starts(s, i) : j <= k
                     n == s[j + 2]
                     m == SubSeq(s, j + 3, j + n + 1)
                 IN  IF n = 0 \/ j + n + 2 > Len(s) THEN <<>>
                     ELSE (IF s[j + n + 2] = CheckSum(n, m) THEN <<m>> ELSE <<>>)
                          \o scan[j + n + 3]
    IN  scan[1]

----------------------------------------------------------------------------
(* Records in a kfifo of `size' bytes. *)

Record(s) == <<Len(s) % 256, Len(s) \div 256>> \o s

(* The records of a sequence of data, one after another. *)
Packed(ss) == FlattenSeq([i \in DOMAIN ss |-> Record(ss[i])])

Least(a, b) == IF a < b THEN a ELSE b

(* Mutant: the room is not looked at. *)
InsertAll(q, s, size) == q \o s

(* kfifo_in inserts what there is room for. *)
Insert(q, s, size) == q \o SubSeq(s, 1, Least(Len(s), size - Len(q)))

(* Only a queue that is completely full refuses a record. *)
Enqueue(q, s, size) ==
    IF Len(q) = size THEN q ELSE Insert(q, Record(s), size)

Fits(q, s, size) == Len(q) + Len(Record(s)) <= size

(* A C short. *)
Short == {n \in Int : n < 32768 /\ n + 32768 >= 0}
AsShort(n) == IF n < 32768 THEN n ELSE n - 65536

ByteAt(q, i, old) == IF Len(q) >= i THEN q[i] ELSE old

(* Mutant: the length is read with its upper byte first. *)
ReadBigEndian(q, old) ==
    AsShort(ByteAt(q, 2, old % 256) + 256 * ByteAt(q, 1, (old % 65536) \div 256))

(* kfifo_out of two bytes into length_buf, a little-endian short that holds *)
(* `old': a queue with less than two bytes leaves the rest of it.          *)
ReadLength(q, old) ==
    AsShort(ByteAt(q, 1, old % 256) + 256 * ByteAt(q, 2, (old % 65536) \div 256))

(* kfifo_out of n more bytes, when n is positive. *)
Payload(q, n) == SubSeq(q, 3, Least(Len(q), 2 + n))
AfterRecord(q, n) == SubSeq(q, IF n > 0 THEN 3 + n ELSE 3, Len(q))
=============================================================================
