--------------------------- MODULE McuReceiveProofs ---------------------------
(***************************************************************************)
(* For any messages, any sizes of the queue and of buffFromMCU and any     *)
(* number of failed transfers and suspends, up to the first byte that      *)
(* overruns buffFromMCU: no byte the MCU holds is left unasked for,        *)
(* lpc_read returns nothing at most once per record, the parser delivers   *)
(* the good frames of what is read, the queue is a row of whole records    *)
(* until one is cut, and while nothing fails or is lost the messages come  *)
(* to lpc_read whole and in their order.                                   *)
(***************************************************************************)
EXTENDS McuReceive, QueueProofs

(* The MCU's request: the line is low only with something on its way.      *)
THEOREM RequestsServed == Spec => []NoRequestStranded
<1>1. Init => NoRequestStranded
  BY DEF Init, NoRequestStranded
<1>2. NoRequestStranded /\ [Next]_vars => NoRequestStranded'
  <2> SUFFICES ASSUME NoRequestStranded, [Next]_vars PROVE NoRequestStranded'
    OBVIOUS
  <2> USE DEF NoRequestStranded
  <2>1. CASE McuSends
    BY <2>1 DEF McuSends, driver
  <2>2. CASE MCUIIC_isr
    BY <2>2 DEF MCUIIC_isr
  <2>3. CASE BeginWork
    BY <2>3 DEF BeginWork
  <2>4. CASE TestLine \/ EndWork
    BY <2>4 DEF TestLine, EndWork, Rest
  <2>5. CASE \/ ReadChunk \/ ReadFails \/ EndChunk \/ FeedByte
             \/ LPCReadDataEnqueue \/ ClearFlag \/ WakeUp
    BY <2>5 DEF ReadChunk, ReadFails, EndChunk, FeedByte,
                LPCReadDataEnqueue, ClearFlag, WakeUp
  <2>6. CASE lpc_read \/ Interrupted
    BY <2>6 DEF lpc_read, SetFlag, WaitEvent, Take, Interrupted, Others
  <2>7. CASE LockExpires \/ lpc_suspend \/ lpc_resume
    BY <2>7 DEF LockExpires, lpc_suspend, lpc_resume, driver
  <2>8. CASE UNCHANGED vars
    BY <2>8 DEF vars, driver
  <2> QED
    BY <2>1, <2>2, <2>3, <2>4, <2>5, <2>6, <2>7, <2>8 DEF Next, workFlyMCUIIC
<1> QED
  BY <1>1, <1>2, PTL DEF Spec

----------------------------------------------------------------------------
(* What the MCU sends: payloads, and their frames. *)
LEMMA MessageFrame ==
    \A i \in DOMAIN Messages :
        /\ Messages[i] \in Payloads /\ Messages[i] \in Seq(Byte)
        /\ Len(Messages[i]) < 255 /\ Messages[i] # <<>>
        /\ Frame(Messages[i]) \in Seq(Byte)
<1> TAKE i \in DOMAIN Messages
<1>1. Messages[i] \in Payloads /\ Messages[i] # <<>>
  BY ReceiveAssumption, ElementOfSeq
<1>2. PICK m \in Seq(Byte) : m = Messages[i] /\ Len(m) < 255
  BY <1>1, PayloadsAssumption
<1>3. Frame(m) \in Seq(Byte)
  BY <1>2, FrameType
<1> QED
  BY <1>1, <1>2, <1>3

LEMMA ZerosType ==
    ASSUME NEW n \in Nat
    PROVE  Zeros(n) \in Seq(Byte) /\ Len(Zeros(n)) = n
BY DEF Zeros, Byte

(* What a transfer of k bytes leaves in a buffer of sixteen, and in the    *)
(* MCU.                                                                    *)
LEMMA TransferType ==
    ASSUME NEW s \in Seq(Byte), NEW b \in Seq(Byte), Len(b) = 16, NEW k \in {12, 16},
           NEW n, n = Least(Len(s), k)
    PROVE  /\ SubSeq(s, 1, n) \o Zeros(k - n) \o SubSeq(b, k + 1, 16) \in Seq(Byte)
           /\ Len(SubSeq(s, 1, n) \o Zeros(k - n) \o SubSeq(b, k + 1, 16)) = 16
           /\ SubSeq(s, n + 1, Len(s)) \in Seq(Byte)
<1> DEFINE x == SubSeq(s, 1, n)
           y == Zeros(k - n)
           z == SubSeq(b, k + 1, 16)
<1>1. Len(s) \in Nat
  BY LenProperties
<1>2. n \in 0 .. Len(s) /\ n \in 0 .. k /\ k - n \in Nat
  BY <1>1 DEF Least
<1>3. \A i \in 1 .. n : s[i] \in Byte
  BY <1>1, <1>2, ElementOfSeq
<1>4. x \in Seq(Byte) /\ Len(x) = n
  BY <1>2, <1>3, SubSeqProperties
<1>5. y \in Seq(Byte) /\ Len(y) = k - n
  BY <1>2, ZerosType
<1>6. \A i \in k + 1 .. 16 : i \in 1 .. Len(b)
  OBVIOUS
<1>7. \A i \in k + 1 .. 16 : b[i] \in Byte
  BY <1>6, ElementOfSeq
<1>8. z \in Seq(Byte) /\ Len(z) = 16 - k
  BY <1>7, SubSeqProperties
<1> HIDE DEF x, y, z
<1>9. x \o y \in Seq(Byte) /\ Len(x \o y) = k
  BY <1>2, <1>4, <1>5, ConcatBytes
<1>10. (x \o y) \o z \in Seq(Byte) /\ Len((x \o y) \o z) = 16
  BY <1>8, <1>9, ConcatBytes
<1>11. \A i \in n + 1 .. Len(s) : i \in 1 .. Len(s)
  BY <1>1, <1>2
<1>12. \A i \in n + 1 .. Len(s) : s[i] \in Byte
  BY <1>11, ElementOfSeq
<1>13. SubSeq(s, n + 1, Len(s)) \in Seq(Byte)
  BY <1>1, <1>2, <1>12, SubSeqProperties
<1> QED
  BY <1>10, <1>13 DEF x, y, z

LEMMA ChunkType ==
    ASSUME NEW b \in Seq(Byte), Len(b) = 16, NEW k \in {12, 16}
    PROVE  SubSeq(b, 1, k) \in Seq(Byte) /\ Len(SubSeq(b, 1, k)) = k
<1>1. \A i \in 1 .. k : i \in 1 .. Len(b)
  OBVIOUS
<1>2. \A i \in 1 .. k : b[i] \in Byte
  BY <1>1, ElementOfSeq
<1> QED
  BY <1>2, SubSeqProperties

LEMMA InitType == Init => TypeOK
<1> SUFFICES ASSUME Init PROVE TypeOK
  OBVIOUS
<1>1. mcu \in Seq(Byte) /\ sent \in 0 .. Len(Messages)
  <2>1. CASE sent = 0
    BY <2>1, ReceiveAssumption DEF Init
  <2>2. CASE sent = 1 /\ 1 <= Len(Messages)
    <3>1. 1 \in DOMAIN Messages
      BY <2>2, ReceiveAssumption
    <3> QED
      BY <2>2, <3>1, MessageFrame DEF Init
  <2> QED
    BY <2>1, <2>2 DEF Init
<1>2. buff \in Seq(Byte) /\ Len(buff) = 16
  BY ZerosType DEF Init
<1>3. parser \in ParserStates
  BY DEF Init, ParserInit, NoFrame, ParserStates, Byte
<1>4. queue \in Seq(Byte) /\ Len(queue) <= FifoSize
  BY ReceiveAssumption DEF Init
<1>5. chunk \in Seq(Byte) /\ Len(chunk) <= 16 /\ iReadLen \in {12, 16}
  BY DEF Init
<1>6. /\ edge \in BOOLEAN /\ irqOn \in BOOLEAN /\ wakelock \in BOOLEAN
      /\ pending \in BOOLEAN /\ isEmpty \in BOOLEAN
      /\ work \in WorkLabels /\ reader \in ReadLabels
      /\ torn \in BOOLEAN /\ lost \in BOOLEAN /\ (torn => lost)
  BY DEF Init, WorkLabels, ReadLabels
<1>7. enqueued \in Nat /\ zeros \in Nat
  BY DEF Init
<1>8. overrun \in BOOLEAN
  BY Zenon DEF Init, ParserInit
<1> QED
  BY <1>1, <1>2, <1>3, <1>4, <1>5, <1>6, <1>7, <1>8, Zenon DEF TypeOK

(* The part of TypeOK that the steps of the driver's control preserve. *)
Flags ==
    /\ edge \in BOOLEAN /\ irqOn \in BOOLEAN /\ wakelock \in BOOLEAN
    /\ pending \in BOOLEAN /\ isEmpty \in BOOLEAN
    /\ work \in WorkLabels /\ reader \in ReadLabels
    /\ torn \in BOOLEAN /\ lost \in BOOLEAN /\ (torn => lost)
    /\ enqueued \in Nat /\ zeros \in Nat

LEMMA FlagsStep == TypeOK /\ Next => Flags'
<1> SUFFICES ASSUME TypeOK, Next PROVE Flags'
  OBVIOUS
<1>t. Flags
  BY Zenon DEF TypeOK, Flags
<1> USE DEF WorkLabels, ReadLabels
<1>1. CASE McuSends
  <2>1. edge' \in BOOLEAN
    BY <1>1, Zenon DEF McuSends
  <2> QED
    BY <1>t, <1>1, <2>1 DEF McuSends, Flags, driver, history
<1>2. CASE MCUIIC_isr
  BY <1>t, <1>2 DEF MCUIIC_isr, Flags, history
<1>3. CASE BeginWork \/ TestLine \/ EndWork \/ ReadChunk \/ ReadFails \/ EndChunk \/ FeedByte
  <2>1. pending' \in BOOLEAN
    BY <1>t, <1>3, Zenon DEF BeginWork, TestLine, EndWork, ReadChunk, ReadFails, EndChunk,
                             FeedByte, Flags
  <2>2. work' \in WorkLabels
    BY <1>t, <1>3 DEF BeginWork, TestLine, EndWork, ReadChunk, ReadFails, EndChunk,
                      FeedByte, Flags
  <2>3. UNCHANGED <<edge, irqOn, wakelock, isEmpty, reader, history>>
    BY <1>3 DEF BeginWork, TestLine, EndWork, ReadChunk, ReadFails, EndChunk,
                FeedByte, Rest
  <2> QED
    BY <1>t, <2>1, <2>2, <2>3 DEF Flags, history
<1>4. CASE LPCReadDataEnqueue
  <2>1. torn' \in BOOLEAN /\ lost' \in BOOLEAN /\ (torn' => lost')
    BY <1>t, <1>4, Zenon DEF LPCReadDataEnqueue, Flags
  <2> QED
    BY <1>t, <1>4, <2>1 DEF LPCReadDataEnqueue, Flags, Rest
<1>5. CASE ClearFlag \/ WakeUp
  <2>1. isEmpty' \in BOOLEAN
    BY <1>t, <1>5, Zenon DEF ClearFlag, WakeUp, Flags
  <2>2. work' \in WorkLabels /\ reader' \in ReadLabels
    BY <1>t, <1>5 DEF ClearFlag, WakeUp, Flags
  <2>3. enqueued' \in Nat
    BY <1>t, <1>5 DEF ClearFlag, WakeUp, Flags, history
  <2>4. UNCHANGED <<edge, irqOn, wakelock, pending, torn, lost, zeros>>
    BY <1>5 DEF ClearFlag, WakeUp, Rest, history
  <2> QED
    BY <1>t, <2>1, <2>2, <2>3, <2>4 DEF Flags
<1>6. CASE SetFlag
  <2>1. isEmpty' \in BOOLEAN
    BY <1>6, Zenon DEF SetFlag
  <2> QED
    BY <1>t, <1>6, <2>1 DEF SetFlag, Flags, history, Others
<1>7. CASE WaitEvent \/ Interrupted
  BY <1>t, <1>7 DEF WaitEvent, Interrupted, Flags, history, Others
<1>8. CASE Take
  <2>1. torn' \in BOOLEAN /\ (torn' => torn)
    BY <1>8, Zenon DEF Take
  <2>2. zeros' \in Nat
    BY <1>t, <1>8 DEF Take, Flags
  <2> QED
    BY <1>t, <1>8, <2>1, <2>2 DEF Take, Flags, Others
<1>9. CASE LockExpires \/ lpc_suspend \/ lpc_resume
  <2>1. CASE LockExpires
    BY <1>t, <2>1 DEF LockExpires, Flags, history
  <2>2. CASE lpc_suspend
    BY <1>t, <2>2 DEF lpc_suspend, Flags, history
  <2>3. CASE lpc_resume
    BY <1>t, <2>3 DEF lpc_resume, Flags, driver, history
  <2> QED
    BY <1>9, <2>1, <2>2, <2>3
<1> QED
  BY <1>1, <1>2, <1>3, <1>4, <1>5, <1>6, <1>7, <1>8, <1>9 DEF Next, workFlyMCUIIC, lpc_read

Buffers ==
    /\ mcu \in Seq(Byte) /\ sent \in 0 .. Len(Messages)
    /\ buff \in Seq(Byte) /\ Len(buff) = 16
    /\ iReadLen \in {12, 16} /\ chunk \in Seq(Byte) /\ Len(chunk) <= 16
    /\ parser \in ParserStates
    /\ queue \in Seq(Byte) /\ Len(queue) <= FifoSize

LEMMA DataStep == TypeOK /\ Next => Buffers'
<1> SUFFICES ASSUME TypeOK, Next PROVE Buffers'
  OBVIOUS
<1>t. Buffers
  BY Zenon DEF TypeOK, Buffers
<1>1. CASE McuSends
  <2>1. sent + 1 \in DOMAIN Messages /\ sent' = sent + 1
    BY <1>t, <1>1, ReceiveAssumption DEF McuSends, Buffers
  <2>2. Frame(Messages[sent + 1]) \in Seq(Byte)
    BY <2>1, MessageFrame
  <2>3. mcu' \in Seq(Byte)
    BY <1>t, <1>1, <2>1, <2>2, ConcatBytes DEF McuSends, Buffers
  <2>4. sent' \in 0 .. Len(Messages)
    BY <2>1, ReceiveAssumption
  <2> QED
    BY <1>t, <1>1, <2>3, <2>4 DEF McuSends, Buffers, driver, parsing
<1>2. CASE MCUIIC_isr
  BY <1>t, <1>2 DEF MCUIIC_isr, Buffers, parsing
<1>3. CASE BeginWork
  BY <1>t, <1>3 DEF BeginWork, Buffers, Rest, parsing
<1>4. CASE TestLine \/ EndWork
  BY <1>t, <1>4 DEF TestLine, EndWork, Buffers, Rest, parsing
<1>5. CASE ReadChunk
  <2>1. buff' \in Seq(Byte) /\ Len(buff') = 16 /\ mcu' \in Seq(Byte)
    <3> DEFINE n == Least(Len(mcu), iReadLen)
    <3>1. /\ buff' = SubSeq(mcu, 1, n) \o Zeros(iReadLen - n)
                      \o SubSeq(buff, iReadLen + 1, 16)
          /\ mcu' = SubSeq(mcu, n + 1, Len(mcu))
      BY <1>5 DEF ReadChunk
    <3>2. /\ mcu \in Seq(Byte) /\ buff \in Seq(Byte) /\ Len(buff) = 16
          /\ iReadLen \in {12, 16}
      BY <1>t DEF Buffers
    <3> QED
      BY <3>1, <3>2, TransferType
  <2>2. chunk' \in Seq(Byte) /\ Len(chunk') <= 16
    <3>1. chunk' \in Seq(Byte) /\ Len(chunk') = iReadLen
      BY <1>t, <1>5, <2>1, ChunkType DEF ReadChunk, Buffers
    <3> QED
      BY <1>t, <3>1 DEF Buffers
  <2> QED
    BY <1>t, <1>5, <2>1, <2>2 DEF ReadChunk, Buffers, Rest, parsing
<1>6. CASE ReadFails
  <2>1. Zeros(16) \in Seq(Byte) /\ Len(Zeros(16)) = 16
    BY ZerosType
  <2>2. buff' \in Seq(Byte) /\ Len(buff') = 16
    BY <1>t, <1>6, <2>1 DEF ReadFails, Buffers
  <2>3. chunk' \in Seq(Byte) /\ Len(chunk') <= 16
    <3>1. chunk' \in Seq(Byte) /\ Len(chunk') = iReadLen
      BY <1>t, <1>6, <2>2, ChunkType DEF ReadFails, Buffers
    <3> QED
      BY <1>t, <3>1 DEF Buffers
  <2>4. mcu' \in Seq(Byte)
    <3>1. mcu \in Seq(Byte) /\ iReadLen \in {12, 16}
      BY <1>t DEF Buffers
    <3>2. PICK n \in {0, Least(Len(mcu), iReadLen)} : mcu' = SubSeq(mcu, n + 1, Len(mcu))
      BY <1>6 DEF ReadFails
    <3>3. Len(mcu) \in Nat /\ n \in 0 .. Len(mcu)
      BY <3>1, <3>2, LenProperties DEF Least
    <3>4. n + 1 \in 1 .. Len(mcu) + 1 /\ Len(mcu) \in n + 1 - 1 .. Len(mcu)
      BY <3>3
    <3> QED
      BY <3>1, <3>2, <3>4, SliceType
  <2> QED
    BY <1>t, <1>6, <2>2, <2>3, <2>4 DEF ReadFails, Buffers, Rest, parsing
<1>7. CASE EndChunk
  BY <1>t, <1>7 DEF EndChunk, Buffers, Rest, parsing
<1>8. CASE FeedByte \/ LPCReadDataEnqueue
  <2>1. chunk # <<>> /\ chunk' = Tail(chunk) /\ parser' = Feed(parser, Head(chunk))
    BY <1>8 DEF FeedByte, LPCReadDataEnqueue, readFromMCUProcessor, Step
  <2>2. /\ Head(chunk) \in Byte /\ chunk' \in Seq(Byte)
        /\ Len(chunk') = Len(chunk) - 1
    BY <1>t, <2>1, HeadTailProperties DEF Buffers
  <2>3. Len(chunk') <= 16
    BY <1>t, <2>2, LenProperties DEF Buffers
  <2>4. parser' \in ParserStates
    BY <1>t, <2>1, <2>2, FeedType DEF Buffers
  <2>5. queue' \in Seq(Byte) /\ Len(queue') <= FifoSize
    <3>1. CASE FeedByte
      BY <1>t, <3>1 DEF FeedByte, Buffers
    <3>2. CASE LPCReadDataEnqueue
      <4>1. parser.buf \in Seq(Byte) /\ Len(parser.buf) < 65536
        <5>1. parser.buf \in Seq(Byte) /\ Len(parser.buf) < 255
          BY <1>t, <2>2, <3>2, DeliversShort DEF LPCReadDataEnqueue, Buffers
        <5> QED
          BY <5>1, LenProperties
      <4>2. queue' = Enqueue(queue, parser.buf, FifoSize)
        BY <3>2 DEF LPCReadDataEnqueue
      <4> QED
        BY <1>t, <4>1, <4>2, EnqueueType, ReceiveAssumption DEF Buffers
    <3> QED
      BY <1>8, <3>1, <3>2
  <2>6. UNCHANGED <<mcu, sent, buff, iReadLen>>
    BY <1>8 DEF FeedByte, LPCReadDataEnqueue, Rest
  <2> QED
    BY <1>t, <2>2, <2>3, <2>4, <2>5, <2>6 DEF Buffers
<1>9. CASE ClearFlag \/ WakeUp \/ SetFlag \/ WaitEvent \/ Interrupted
  BY <1>t, <1>9 DEF ClearFlag, WakeUp, SetFlag, WaitEvent, Interrupted, Buffers, Rest, Others,
                    parsing
<1>10. CASE Take
  <2>1. ReadLength(queue, 0) \in Short
    <3>1. 0 \in Short
      BY DEF Short
    <3> QED
      BY <1>t, <3>1, ReadLengthType DEF Buffers
  <2>2. queue' = AfterRecord(queue, ReadLength(queue, 0))
    BY <1>10 DEF Take
  <2>3. queue' \in Seq(Byte) /\ Len(queue') <= Len(queue)
    BY <1>t, <2>1, <2>2, AfterRecordType DEF Buffers
  <2>4. Len(queue') <= FifoSize
    BY <1>t, <2>3, LenProperties, ReceiveAssumption DEF Buffers
  <2> QED
    BY <1>t, <1>10, <2>3, <2>4 DEF Take, Buffers, Others, parsing
<1>11. CASE LockExpires \/ lpc_suspend \/ lpc_resume
  BY <1>t, <1>11 DEF LockExpires, lpc_suspend, lpc_resume, Buffers, driver, parsing
<1> QED
  BY <1>1, <1>2, <1>3, <1>4, <1>5, <1>6, <1>7, <1>8, <1>9, <1>10, <1>11
  DEF Next, workFlyMCUIIC, lpc_read

LEMMA OverrunStep == TypeOK /\ Next => overrun' \in BOOLEAN
<1> SUFFICES ASSUME TypeOK, Next PROVE overrun' \in BOOLEAN
  OBVIOUS
<1>1. CASE FeedByte \/ LPCReadDataEnqueue
  BY <1>1, Zenon DEF FeedByte, LPCReadDataEnqueue, readFromMCUProcessor, Overruns
<1>2. CASE overrun' = overrun
  BY <1>2, Zenon DEF TypeOK
<1>3. CASE \/ McuSends \/ MCUIIC_isr \/ BeginWork \/ TestLine \/ EndWork \/ ReadChunk \/ ReadFails
           \/ EndChunk \/ ClearFlag \/ WakeUp \/ SetFlag \/ WaitEvent \/ Take \/ Interrupted
           \/ LockExpires \/ lpc_suspend \/ lpc_resume
  <2>1. overrun' = overrun
    BY <1>3 DEF McuSends, MCUIIC_isr, BeginWork, TestLine, EndWork, ReadChunk, ReadFails,
                EndChunk, ClearFlag, WakeUp, SetFlag, WaitEvent, Take, Interrupted,
                LockExpires, lpc_suspend, lpc_resume, driver, Others, parsing
  <2> QED
    BY <1>2, <2>1
<1> QED
  BY <1>1, <1>3 DEF Next, workFlyMCUIIC, lpc_read

(* A payload stays shorter than its length byte, and the queue and buff    *)
(* keep their sizes.                                                       *)
THEOREM TypeCorrect == Spec => []TypeOK
<1>1. TypeOK /\ [Next]_vars => TypeOK'
  <2>1. TypeOK /\ Next => TypeOK'
    BY FlagsStep, DataStep, OverrunStep, Zenon DEF Flags, Buffers, TypeOK
  <2>2. TypeOK /\ UNCHANGED vars => TypeOK'
    BY DEF TypeOK, vars, driver, parsing, history
  <2> QED
    BY <2>1, <2>2
<1> QED
  BY InitType, <1>1, PTL DEF Spec

----------------------------------------------------------------------------
(* A reader that will find the queue empty, because its test of the flag   *)
(* has passed or will pass, owes it to a record that came since it set the *)
(* flag and that no empty read has been counted against.                   *)
Credit ==
    queue = <<>> /\ (reader = "out" \/ (reader \in {"wait", "asleep"} /\ ~isEmpty))
        => zeros < enqueued

CreditInv == EmptyReadsAreRare /\ Credit

LEMMA CreditStep == TypeOK /\ CreditInv /\ Next => CreditInv'
<1> SUFFICES ASSUME TypeOK, CreditInv, Next PROVE CreditInv'
  OBVIOUS
<1>t. /\ zeros \in Nat /\ enqueued \in Nat /\ isEmpty \in BOOLEAN
      /\ zeros <= enqueued /\ Credit
  BY DEF TypeOK, CreditInv, EmptyReadsAreRare
<1> USE DEF CreditInv, EmptyReadsAreRare
<1>1. CASE UNCHANGED <<queue, reader, isEmpty, zeros, enqueued>>
  BY <1>t, <1>1 DEF Credit
<1>2. CASE LPCReadDataEnqueue
  <2>1. queue' = <<>> => queue = <<>>
    <3>1. /\ chunk \in Seq(Byte) /\ chunk # <<>> /\ parser \in ParserStates
          /\ Delivers(parser, Head(chunk)) /\ queue' = Enqueue(queue, parser.buf, FifoSize)
          /\ queue \in Seq(Byte) /\ Len(queue) <= FifoSize
      BY <1>2 DEF LPCReadDataEnqueue, TypeOK
    <3>2. Head(chunk) \in Byte
      BY <3>1, HeadTailProperties
    <3>3. parser.buf \in Seq(Byte) /\ Len(parser.buf) < 255
      BY <3>1, <3>2, DeliversShort
    <3>4. Len(parser.buf) < 65536
      BY <3>3, LenProperties
    <3>5. FifoSize \in Nat
      BY ReceiveAssumption
    <3>6. Len(queue) <= Len(queue')
      BY <3>1, <3>3, <3>4, <3>5, EnqueueType
    <3> QED
      BY <3>1, <3>6, EmptySeq
  <2> QED
    BY <1>t, <1>2, <2>1 DEF LPCReadDataEnqueue, Credit
<1>3. CASE ClearFlag
  BY <1>t, <1>3 DEF ClearFlag, Credit
<1>4. CASE WakeUp
  BY <1>t, <1>4 DEF WakeUp, Credit, history
<1>5. CASE SetFlag
  BY <1>t, <1>5 DEF SetFlag, Credit, history
<1>6. CASE WaitEvent
  BY <1>t, <1>6 DEF WaitEvent, Credit, history
<1>7. CASE Interrupted \/ lpc_suspend
  BY <1>t, <1>7 DEF Interrupted, lpc_suspend, Credit, history
<1>8. CASE Take
  BY <1>t, <1>8 DEF Take, Credit
<1>9. CASE \/ McuSends \/ MCUIIC_isr \/ BeginWork \/ TestLine \/ EndWork \/ ReadChunk \/ ReadFails
           \/ EndChunk \/ FeedByte \/ LockExpires \/ lpc_resume
  <2>1. UNCHANGED <<queue, reader, isEmpty, zeros, enqueued>>
    BY <1>9 DEF McuSends, MCUIIC_isr, BeginWork, TestLine, EndWork, ReadChunk, ReadFails, EndChunk,
                FeedByte, LockExpires, lpc_resume, driver, history
  <2> QED
    BY <1>1, <2>1
<1> QED
  BY <1>2, <1>3, <1>4, <1>5, <1>6, <1>7, <1>8, <1>9 DEF Next, workFlyMCUIIC, lpc_read

(* A read returns nothing at most once per record. *)
THEOREM EmptyReads == Spec => []EmptyReadsAreRare
<1>1. Init => CreditInv
  BY DEF Init, CreditInv, Credit, EmptyReadsAreRare
<1>2. TypeOK /\ CreditInv /\ [Next]_vars => CreditInv'
  <2>1. CreditInv /\ UNCHANGED vars => CreditInv'
    BY DEF CreditInv, Credit, EmptyReadsAreRare, vars, driver, history
  <2> QED
    BY <2>1, CreditStep
<1>3. CreditInv => EmptyReadsAreRare
  BY DEF CreditInv
<1> QED
  BY <1>1, <1>2, <1>3, TypeCorrect, PTL DEF Spec

----------------------------------------------------------------------------
(* The parser: what it has delivered, and its state, are what Parse makes  *)
(* of all the bytes it has been given.                                     *)
Fresh == [parser |-> NoFrame, out |-> <<>>]

ParserInv ==
    /\ fed \in Seq(Byte) /\ out \in Seq(Seq(Byte))
    /\ [parser |-> parser, out |-> out] = Parse(Fresh, fed)

LEMMA FreshType == Fresh \in Results /\ Fresh.parser.at = 0 /\ Fresh.out = <<>>
<1>1. NoFrame \in ParserStates
  BY DEF NoFrame, ParserStates, Byte
<1>2. <<>> \in Seq(Seq(Byte))
  BY EmptySeq
<1> QED
  BY <1>1, <1>2 DEF Fresh, Results, NoFrame

LEMMA ParserInitInv == ParserInit => ParserInv
<1> SUFFICES ASSUME ParserInit PROVE ParserInv
  OBVIOUS
<1>1. fed = <<>> /\ out = <<>> /\ [parser |-> parser, out |-> out] = Fresh
  BY DEF ParserInit, Fresh
<1>2. <<>> \in Seq(Byte) /\ <<>> \in Seq(Seq(Byte))
  BY EmptySeq
<1>3. Parse(Fresh, <<>>) = Fresh
  BY ParseEmpty
<1> QED
  BY <1>1, <1>2, <1>3 DEF ParserInv

LEMMA ParserStep ==
    ASSUME NEW b \in Byte, parser \in ParserStates, ParserInv, readFromMCUProcessor(b)
    PROVE  /\ ParserInv'
           /\ [parser |-> parser', out |-> out'] = Step([parser |-> parser, out |-> out], b)
<1> DEFINE r == [parser |-> parser, out |-> out]
<1>1. r = Parse(Fresh, fed) /\ fed \in Seq(Byte) /\ r \in Results
  BY DEF ParserInv, Results
<1>2. Step(r, b) \in Results
  BY <1>1, StepType
<1>3. fed' = Append(fed, b) /\ parser' = Step(r, b).parser /\ out' = Step(r, b).out
  BY DEF readFromMCUProcessor
<1>4. [parser |-> parser', out |-> out'] = Step(r, b) /\ out' \in Seq(Seq(Byte))
  BY <1>2, <1>3 DEF Results
<1>5. Parse(Fresh, Append(fed, b)) = Step(r, b)
  BY <1>1, ParseAppend, TurnIsStep
<1>6. fed' \in Seq(Byte)
  BY <1>1, <1>3, AppendProperties
<1> HIDE DEF r
<1>7. ParserInv'
  BY <1>3, <1>4, <1>5, <1>6 DEF ParserInv
<1> QED
  BY <1>4, <1>7 DEF r

LEMMA ParserInvStep == TypeOK /\ ParserInv /\ [Next]_vars => ParserInv'
<1> SUFFICES ASSUME TypeOK, ParserInv, [Next]_vars PROVE ParserInv'
  OBVIOUS
<1>1. CASE FeedByte \/ LPCReadDataEnqueue
  <2>1. chunk # <<>> /\ chunk \in Seq(Byte) /\ parser \in ParserStates
        /\ readFromMCUProcessor(Head(chunk))
    BY <1>1 DEF FeedByte, LPCReadDataEnqueue, TypeOK
  <2>2. Head(chunk) \in Byte
    BY <2>1, HeadTailProperties
  <2> QED
    BY <2>1, <2>2, ParserStep
<1>2. CASE UNCHANGED parsing
  BY <1>2 DEF ParserInv, parsing
<1>3. CASE UNCHANGED vars
  BY <1>2, <1>3 DEF vars, driver
<1>4. CASE \/ McuSends \/ MCUIIC_isr \/ BeginWork \/ TestLine \/ EndWork \/ ReadChunk \/ ReadFails
           \/ EndChunk \/ ClearFlag \/ WakeUp \/ SetFlag \/ WaitEvent \/ Take \/ Interrupted
           \/ LockExpires \/ lpc_suspend \/ lpc_resume
  BY <1>2, <1>4 DEF McuSends, MCUIIC_isr, BeginWork, TestLine, EndWork, ReadChunk, ReadFails,
                    EndChunk, ClearFlag, WakeUp, SetFlag, WaitEvent, Take, Interrupted,
                    LockExpires, lpc_suspend, lpc_resume, driver, Others
<1> QED
  BY <1>1, <1>3, <1>4 DEF Next, workFlyMCUIIC, lpc_read

THEOREM ParserCorrect == Spec => []ParserInv
<1>1. Init => ParserInv
  BY ParserInitInv DEF Init
<1> QED
  BY <1>1, ParserInvStep, TypeCorrect, PTL DEF Spec

(* What is delivered are the good frames of all the bytes read, although   *)
(* the parser sees them one by one, and chunks end anywhere in a frame:    *)
(* until a byte overruns buffFromMCU, where the specification ends.        *)
THEOREM ParserDeliversFrames == Spec => []ParsedAreFrames
<1>1. ParserInv => ParsedAreFrames
  <2> SUFFICES ASSUME ParserInv PROVE out = FramesOf(fed)
    BY DEF ParsedAreFrames
  <2>1. [parser |-> parser, out |-> out] = Parse(Fresh, fed) /\ fed \in Seq(Byte)
    BY DEF ParserInv
  <2>2. Parse(Fresh, fed).out = FramesOf(fed)
    BY <2>1, ParseFrames DEF Fresh
  <2>3. out = Parse(Fresh, fed).out
    BY <2>1
  <2> QED
    BY <2>2, <2>3
<1> QED
  BY <1>1, ParserCorrect, PTL

(* The parser has taken the header and the bytes x of the payload.         *)
LEMMA BeginningParse ==
    ASSUME NEW r \in Results, r.parser.at \in {0, 1}, NEW n \in Byte,
           NEW x \in Seq(Byte), n = 0 \/ Len(x) < n
    PROVE  Parse(r, <<255>> \o (<<85, n>> \o x)) = [parser |-> Inside(n, x), out |-> r.out]
<1>1. PICK a \in Results : a = Step(r, 255) /\ a.parser.at = 1 /\ a.out = r.out
  <2>1. Step(r, 255) \in Results
    BY SmallBytes, StepType
  <2>2. Step(r, 255) = [parser |-> [r.parser EXCEPT !.at = 1], out |-> r.out]
    BY SyncStep
  <2>3. r.parser \in [at : 0 .. 3, max : Byte, crc : Byte, buf : Seq(Byte)]
    BY DEF Results, ParserStates
  <2> QED
    BY <2>1, <2>2, <2>3
<1>2. <<85, n>> \in Seq(Byte)
  BY SmallBytes, ByteTuples
<1>3. PICK h \in Seq(Byte) : h = <<85, n>> \o x
  BY <1>2, ConcatProperties
<1>4. Parse(r, <<255>> \o h) = Parse(a, h)
  BY <1>1, SmallBytes, ParseHead
<1>5. Parse(a, <<85, n>> \o x) = Parse(Parse(a, <<85, n>>), x)
  BY <1>2, ParseConcat
<1>6. Parse(a, <<85, n>>) = [parser |-> Inside(n, <<>>), out |-> r.out]
  BY <1>1, HeaderParse
<1>7. Parse([parser |-> Inside(n, <<>>), out |-> r.out], x)
        = [parser |-> Inside(n, x), out |-> r.out]
  BY PayloadParse
<1> QED
  BY <1>3, <1>4, <1>5, <1>6, <1>7

LEMMA Regroup == \A S : \A p, q, w \in Seq(S) : p \o (q \o w) = (p \o q) \o w
<1> TAKE S
<1> TAKE p, q, w \in Seq(S)
<1>1. (p \o q) \o w = p \o (q \o w)
  BY ConcatAssociative
<1> QED
  BY <1>1

(* A sequence in two parts and a last element, cut behind the first part.  *)
LEMMA CutBehind ==
    ASSUME NEW S, NEW p \in Seq(S), NEW q \in Seq(S), NEW c \in S
    PROVE  SubSeq(Append(p \o q, c), 1, Len(p)) = p
<1>1. p \o Append(q, c) = Append(p \o q, c)
  BY AppendConcat
<1>2. PICK w \in Seq(S) : w = Append(q, c)
  BY AppendProperties
<1>3. SubSeq(p \o w, 1, Len(p)) = p
  BY SliceJoint
<1> QED
  BY <1>1, <1>2, <1>3, Zenon

Bytes == Seq(Byte)

LEMMA ByteParts ==
    /\ \A p, q \in Bytes : p \o q \in Bytes
    /\ \A p, q, w \in Bytes : p \o (q \o w) = (p \o q) \o w
    /\ \A p, q \in Bytes : \A c \in Byte : SubSeq(Append(p \o q, c), 1, Len(p)) = p
<1>1. \A p, q \in Seq(Byte) : p \o q \in Seq(Byte)
  BY ConcatProperties
<1>2. \A p, q, w \in Seq(Byte) : p \o (q \o w) = (p \o q) \o w
  BY Regroup
<1>3. \A p, q \in Seq(Byte) : \A c \in Byte : SubSeq(Append(p \o q, c), 1, Len(p)) = p
  BY CutBehind
<1> QED
  BY <1>1, <1>2, <1>3, Zenon DEF Bytes

(* The same, in four parts, behind the third.                              *)
CutsThird(u, v, x, y, c) ==
    SubSeq(Append(u \o (v \o (x \o y)), c), 1, Len(u \o (v \o x))) = u \o (v \o x)

LEMMA CutFour == \A u, v, x, y \in Bytes : \A c \in Byte : CutsThird(u, v, x, y, c)
<1> TAKE u, v, x, y \in Bytes
<1> TAKE c \in Byte
<1>1. v \o (x \o y) = (v \o x) \o y
  BY ByteParts, Zenon
<1>2. PICK h \in Bytes : h = v \o x
  BY ByteParts, Zenon
<1>3. PICK g \in Bytes : g = u \o h
  BY ByteParts, Zenon
<1>4. u \o (h \o y) = g \o y
  <2>1. u \o (h \o y) = (u \o h) \o y
    BY ByteParts, Zenon
  <2> QED
    BY <1>3, <2>1, Zenon
<1>5. SubSeq(Append(g \o y, c), 1, Len(g)) = g
  BY ByteParts, Zenon
<1> QED
  BY <1>1, <1>2, <1>3, <1>4, <1>5, Zenon DEF CutsThird

(* A frame, cut behind the byte i of its payload.                          *)
LEMMA FrameCut ==
    ASSUME NEW m \in Seq(Byte), Len(m) < 255, NEW n \in Byte, n = Len(m) + 1,
           NEW i \in Nat, i <= Len(m)
    PROVE  /\ SubSeq(m, 1, i) \in Seq(Byte) /\ Len(SubSeq(m, 1, i)) = i
           /\ SubSeq(Frame(m), 1, i + 3) = <<255>> \o (<<85, n>> \o SubSeq(m, 1, i))
<1>1. PICK l \in Nat : l = Len(m)
  BY LenProperties
<1>2. PICK x \in Seq(Byte) : x = SubSeq(m, 1, i) /\ Len(x) = i
  <2>1. 1 \in 1 .. Len(m) + 1 /\ i \in 1 - 1 .. Len(m) /\ i + 1 - 1 = i
    BY <1>1
  <2>2. SubSeq(m, 1, i) \in Seq(Byte) /\ Len(SubSeq(m, 1, i)) = i + 1 - 1
    BY <2>1, SliceType
  <2> QED
    BY <2>1, <2>2
<1>3. PICK y \in Seq(Byte) : m = x \o y
  <2>1. i + 1 \in 1 .. Len(m) + 1 /\ Len(m) \in i + 1 - 1 .. Len(m)
    BY <1>1
  <2>2. SubSeq(m, i + 1, Len(m)) \in Seq(Byte)
    BY <2>1, SliceType
  <2>3. 1 \in 1 .. Len(m) + 1 /\ i \in 1 - 1 .. Len(m) /\ Len(m) \in i .. Len(m)
    BY <1>1
  <2>4. SubSeq(m, 1, i) \o SubSeq(m, i + 1, Len(m)) = SubSeq(m, 1, Len(m))
    BY <2>3, ConcatAdjacentSubSeq
  <2>5. SubSeq(m, 1, Len(m)) = m
    BY SubSeqFull
  <2> QED
    BY <1>2, <2>2, <2>4, <2>5
<1>4. PICK c \in Byte : Frame(m) = Append(<<255>> \o (<<85, n>> \o m), c)
  BY FrameType
<1>5. PICK u \in Seq(Byte) : u = <<255>> /\ Len(u) = 1
  <2>1. <<255>> \in Seq(Byte) /\ Len(<<255>>) = 1
    BY SmallBytes, ByteTuples
  <2> QED
    BY <2>1, Zenon
<1>6. PICK v \in Seq(Byte) : v = <<85, n>> /\ Len(v) = 2
  <2>1. <<85, n>> \in Seq(Byte) /\ Len(<<85, n>>) = 2
    BY SmallBytes, ByteTuples
  <2> QED
    BY <2>1, Zenon
<1>7. Len(u \o (v \o x)) = i + 3
  <2>1. v \o x \in Seq(Byte) /\ Len(v \o x) = Len(v) + Len(x)
    BY ConcatProperties
  <2>2. Len(u \o (v \o x)) = Len(u) + Len(v \o x)
    BY <2>1, ConcatProperties
  <2>3. Len(u) = 1 /\ Len(v) = 2 /\ Len(x) = i
    BY <1>2, <1>5, <1>6
  <2> QED
    BY <2>1, <2>2, <2>3
<1>8. SubSeq(Append(u \o (v \o (x \o y)), c), 1, Len(u \o (v \o x))) = u \o (v \o x)
  <2>1. u \in Bytes /\ v \in Bytes /\ x \in Bytes /\ y \in Bytes
    BY Zenon DEF Bytes
  <2>2. CutsThird(u, v, x, y, c)
    BY <2>1, CutFour, Zenon
  <2> QED
    BY <2>2, Zenon DEF CutsThird
<1>9. Frame(m) = Append(u \o (v \o (x \o y)), c)
  <2>1. Frame(m) = Append(u \o (v \o m), c)
    BY <1>4, <1>5, <1>6, Zenon
  <2> QED
    BY <1>3, <2>1, Zenon
<1>10. SubSeq(Frame(m), 1, i + 3) = u \o (v \o x)
  BY <1>7, <1>8, <1>9, Zenon
<1>11. SubSeq(Frame(m), 1, i + 3) = <<255>> \o (<<85, n>> \o x)
  BY <1>5, <1>6, <1>10, Zenon
<1> QED
  BY <1>2, <1>11, Zenon

(* The parser in the course of a frame, before its last byte.              *)
LEMMA FrameCourse ==
    ASSUME NEW r \in Results, r.parser.at \in {0, 1}, NEW m \in Seq(Byte), Len(m) < 255,
           NEW i \in Nat, i <= Len(m)
    PROVE  LET p == Parse(r, SubSeq(Frame(m), 1, i + 3)).parser
           IN  p.at = 3 /\ p.max = Len(m) + 1 /\ Len(p.buf) = i
<1>1. PICK n \in Byte : n = Len(m) + 1
  BY FrameType
<1>2. /\ SubSeq(m, 1, i) \in Seq(Byte) /\ Len(SubSeq(m, 1, i)) = i
      /\ SubSeq(Frame(m), 1, i + 3) = <<255>> \o (<<85, n>> \o SubSeq(m, 1, i))
  BY <1>1, FrameCut
<1>x. PICK x \in Seq(Byte) : x = SubSeq(m, 1, i)
  BY <1>2
<1>3. n = 0 \/ Len(x) < n
  <2>1. Len(m) \in Nat
    BY LenProperties
  <2> QED
    BY <1>1, <1>2, <1>x, <2>1
<1>4. Parse(r, SubSeq(Frame(m), 1, i + 3)) = [parser |-> Inside(n, x), out |-> r.out]
  <2>1. Parse(r, <<255>> \o (<<85, n>> \o x)) = [parser |-> Inside(n, x), out |-> r.out]
    BY <1>3, BeginningParse
  <2> QED
    BY <1>2, <1>x, <2>1, Zenon
<1>5. Inside(n, x).at = 3 /\ Inside(n, x).max = n /\ Inside(n, x).buf = x
  BY DEF Inside
<1>6. Parse(r, SubSeq(Frame(m), 1, i + 3)).parser = Inside(n, x)
  BY <1>4
<1>7. Len(x) = i
  BY <1>2, <1>x, Zenon
<1> QED
  BY <1>1, <1>5, <1>6, <1>7, Zenon

LEMMA ParseOne ==
    ASSUME NEW r \in Results, NEW s \in Seq(Byte), NEW b \in Byte
    PROVE  Parse(r, Append(s, b)) = Step(Parse(r, s), b)
<1>1. Parse(r, s) \in Results
  BY ParseType
<1> QED
  BY <1>1, ParseAppend, TurnIsStep

(* Its first three bytes: the parser is not inside of it before the third. *)
LEMMA FrameBegins ==
    ASSUME NEW r \in Results, r.parser.at \in {0, 1}, NEW m \in Seq(Byte), Len(m) < 255
    PROVE  \A i \in 0 .. 2 : Parse(r, SubSeq(Frame(m), 1, i)).parser.at # 3
<1>1. PICK n \in Byte : n = Len(m) + 1 /\ Frame(m) \in Seq(Byte) /\ Len(Frame(m)) = Len(m) + 4
  BY FrameType
<1>2. Len(m) \in Nat
  BY LenProperties
<1>3. SubSeq(Frame(m), 1, 3) = <<255, 85, n>>
  <2>1. SubSeq(m, 1, 0) = <<>>
    OBVIOUS
  <2>2. SubSeq(Frame(m), 1, 0 + 3) = <<255>> \o (<<85, n>> \o SubSeq(m, 1, 0))
    <3>1. 0 \in Nat /\ 0 <= Len(m) /\ n = Len(m) + 1
      BY <1>1, <1>2
    <3> QED
      BY <3>1, FrameCut
  <2>3. PICK v \in Seq(Byte) : v = <<85, n>> /\ <<255, 85, n>> = <<255>> \o v
    <3>1. <<85, n>> \in Seq(Byte) /\ <<255, 85, n>> = <<255>> \o <<85, n>>
      BY SmallBytes, ByteTuples
    <3> QED
      BY <3>1, Zenon
  <2>4. v \o <<>> = v
    BY ConcatEmptySeq
  <2>5. 0 + 3 = 3
    OBVIOUS
  <2> QED
    BY <2>1, <2>2, <2>3, <2>4, <2>5, Zenon
<1>4. PICK f \in Seq(Byte) : f = Frame(m) /\ Len(f) = Len(m) + 4
  BY <1>1
<1>5. f[1] = 255 /\ f[2] = 85
  <2>1. SubSeq(f, 1, 3)[1] = f[1] /\ SubSeq(f, 1, 3)[2] = f[2]
    <3>1. \A j \in 1 .. 3 : j \in 1 .. Len(f)
      BY <1>2, <1>4
    <3>2. \A j \in 1 .. 3 : f[j] \in Byte
      BY <3>1, ElementOfSeq
    <3>3. \A j \in 1 .. 3 : SubSeq(f, 1, 3)[j] = f[1 + j - 1]
      BY <3>2, SubSeqProperties
    <3> QED
      BY <3>3
  <2>2. \A g : g = <<255, 85, n>> => g[1] = 255 /\ g[2] = 85
    OBVIOUS
  <2>3. SubSeq(f, 1, 3) = <<255, 85, n>>
    BY <1>3, <1>4, Zenon
  <2>4. SubSeq(f, 1, 3)[1] = 255 /\ SubSeq(f, 1, 3)[2] = 85
    BY <2>2, <2>3, Zenon
  <2> QED
    BY <2>1, <2>4, Zenon
<1>6. \A i \in 0 .. 1 : SubSeq(f, 1, i + 1) = Append(SubSeq(f, 1, i), f[i + 1])
                        /\ SubSeq(f, 1, i) \in Seq(Byte)
  <2> TAKE i \in 0 .. 1
  <2>1. 1 \in 1 .. Len(f) + 1 /\ i \in 1 - 1 .. Len(f) /\ i + 1 \in 1 - 1 .. Len(f)
    BY <1>2, <1>4
  <2>2. SubSeq(f, 1, i) \in Seq(Byte) /\ SubSeq(f, 1, i + 1) \in Seq(Byte)
    BY <2>1, SliceType
  <2>3. SubSeq(f, 1, i + 1) = Append(SubSeq(f, 1, i), f[i + 1])
    BY <1>2, <1>4
  <2> QED
    BY <2>2, <2>3
<1>7. SubSeq(f, 1, 0) = <<>>
  OBVIOUS
<1>8. Parse(r, SubSeq(f, 1, 0)) = r
  BY <1>7, ParseEmpty
<1>9. Parse(r, SubSeq(f, 1, 1)) = Step(r, 255)
  <2>1. SubSeq(f, 1, 1) = Append(SubSeq(f, 1, 0), 255) /\ SubSeq(f, 1, 0) \in Seq(Byte)
    <3>1. 0 \in 0 .. 1 /\ 0 + 1 = 1
      OBVIOUS
    <3> QED
      BY <1>5, <1>6, <3>1
  <2>2. Parse(r, Append(SubSeq(f, 1, 0), 255)) = Step(Parse(r, SubSeq(f, 1, 0)), 255)
    <3>1. \A s \in Seq(Byte) : Parse(r, Append(s, 255)) = Step(Parse(r, s), 255)
      BY SmallBytes, ParseOne
    <3> QED
      BY <2>1, <3>1, Zenon
  <2> QED
    BY <1>8, <2>1, <2>2
<1>10. PICK a \in Results : a = Step(r, 255) /\ a.parser.at = 1
  <2>1. Step(r, 255) \in Results
    BY SmallBytes, StepType
  <2>2. Step(r, 255) = [parser |-> [r.parser EXCEPT !.at = 1], out |-> r.out]
    BY SyncStep
  <2>3. r.parser \in [at : 0 .. 3, max : Byte, crc : Byte, buf : Seq(Byte)]
    BY DEF Results, ParserStates
  <2> QED
    BY <2>1, <2>2, <2>3
<1>11. Parse(r, SubSeq(f, 1, 2)) = Step(a, 85)
  <2>1. SubSeq(f, 1, 2) = Append(SubSeq(f, 1, 1), 85) /\ SubSeq(f, 1, 1) \in Seq(Byte)
    <3>1. 1 \in 0 .. 1 /\ 1 + 1 = 2
      OBVIOUS
    <3> QED
      BY <1>5, <1>6, <3>1
  <2>2. Parse(r, Append(SubSeq(f, 1, 1), 85)) = Step(Parse(r, SubSeq(f, 1, 1)), 85)
    BY <2>1, SmallBytes, ParseOne
  <2> QED
    BY <1>9, <1>10, <2>1, <2>2
<1>12. Step(a, 85).parser.at = 2
  <2>1. a.parser \in [at : 0 .. 3, max : Byte, crc : Byte, buf : Seq(Byte)]
    BY DEF Results, ParserStates
  <2>2. Feed(a.parser, 85).at = 2
    BY <1>10, <2>1 DEF Feed, Sync
  <2> QED
    BY <2>2 DEF Step
<1>13. \A i \in 0 .. 2 : i = 0 \/ i = 1 \/ i = 2
  OBVIOUS
<1> QED
  BY <1>4, <1>8, <1>9, <1>10, <1>11, <1>12, <1>13

(* A frame overruns a buffer that does not hold its payload, and no other. *)
LEMMA FrameOverruns ==
    ASSUME NEW p \in ParserStates, p.at \in {0, 1}, NEW m \in Seq(Byte), Len(m) < 255
    PROVE  OverrunBy(p, Frame(m)) <=> Len(m) > BuffSize
<1> DEFINE r == [parser |-> p, out |-> <<>>]
           P(i) == Parse(r, SubSeq(Frame(m), 1, i)).parser
<1>1. r \in Results /\ r.parser.at \in {0, 1}
  BY EmptySeq DEF Results
<1>2. Len(m) \in Nat /\ BuffSize \in Nat /\ Len(Frame(m)) = Len(m) + 4
  BY LenProperties, BuffAssumption, FrameType
<1> HIDE DEF r
<1>3. \A i \in 0 .. 2 : P(i).at # 3
  BY <1>1, FrameBegins
<1>4. \A i \in 0 .. Len(m) : P(i + 3).at = 3 /\ P(i + 3).max = Len(m) + 1 /\ Len(P(i + 3).buf) = i
  BY <1>1, FrameCourse
<1>5. OverrunBy(p, Frame(m)) <=> \E i \in 0 .. Len(m) + 3 : Overruns(P(i), BuffSize)
  <2>1. Len(Frame(m)) - 1 = Len(m) + 3
    BY <1>2
  <2> QED
    BY <2>1 DEF OverrunBy, r
<1> HIDE DEF P
<1>6. \A i \in 0 .. Len(m) : Overruns(P(i + 3), BuffSize) <=> i >= BuffSize /\ i < Len(m)
  BY <1>2, <1>4 DEF Overruns, Filling
<1>7. ASSUME Len(m) > BuffSize PROVE OverrunBy(p, Frame(m))
  <2>1. BuffSize \in 0 .. Len(m) /\ BuffSize + 3 \in 0 .. Len(m) + 3
    BY <1>2, <1>7
  <2>2. Overruns(P(BuffSize + 3), BuffSize)
    BY <1>2, <1>6, <1>7, <2>1
  <2> QED
    BY <1>5, <2>1, <2>2
<1>8. ASSUME NEW i \in 0 .. Len(m) + 3, Overruns(P(i), BuffSize) PROVE Len(m) > BuffSize
  <2>1. i \notin 0 .. 2
    BY <1>3, <1>8 DEF Overruns
  <2>2. PICK j \in 0 .. Len(m) : i = j + 3
    <3>1. i - 3 \in 0 .. Len(m) /\ i = (i - 3) + 3
      BY <1>2, <2>1
    <3> QED
      BY <3>1
  <2> QED
    BY <1>2, <1>6, <1>8, <2>2
<1> QED
  BY <1>5, <1>7, <1>8

(* A frame that begins outside of another one is delivered whole, at its   *)
(* last byte, if buffFromMCU holds its payload, of which no byte is then   *)
(* stored elsewhere; and one is, if not.                                   *)
THEOREM FramesRoundTrip == Spec => []RoundTrip
<1>1. TypeOK => RoundTrip
  <2> SUFFICES ASSUME TypeOK, parser.at <= 1, NEW m \in Payloads
               PROVE  /\ OverrunBy(parser, Frame(m)) <=> Len(m) > BuffSize
                      /\ Delivered(parser, Frame(m)) = <<m>>
                      /\ Delivered(parser, Front(Frame(m))) = <<>>
    BY DEF RoundTrip
  <2> DEFINE r == [parser |-> parser, out |-> <<>>]
  <2>1. parser \in ParserStates /\ parser.at \in 0 .. 3
    BY DEF TypeOK, ParserStates
  <2>2. <<>> \in Seq(Seq(Byte))
    BY EmptySeq
  <2>3. r \in Results /\ r.parser.at \in {0, 1} /\ r.out = <<>>
    BY <2>1, <2>2 DEF Results
  <2>4. m \in Seq(Byte) /\ Len(m) < 255
    BY PayloadsAssumption
  <2>7. OverrunBy(parser, Frame(m)) <=> Len(m) > BuffSize
    BY <2>1, <2>4, FrameOverruns
  <2> HIDE DEF r
  <2>5. Parse(r, Frame(m)).out = Append(r.out, m) /\ Parse(r, Front(Frame(m))).out = r.out
    BY <2>3, <2>4, FrameParse
  <2>6. Append(<<>>, m) = <<m>>
    BY <2>4
  <2> QED
    BY <2>3, <2>5, <2>6, <2>7 DEF Delivered, r
<1> QED
  BY <1>1, TypeCorrect, PTL

----------------------------------------------------------------------------
(* The queue is a row of the whole records due, until one is cut; none is  *)
(* due from then on until it has run empty.                                *)
RowInv ==
    /\ due \in Seq(Data) /\ (torn => due = <<>>)
    /\ ~torn => queue = Packed(due)

LEMMA DeliveredData ==
    ASSUME TypeOK, chunk # <<>>, Delivers(parser, Head(chunk))
    PROVE  parser.buf \in Data /\ parser.buf \in Seq(Byte)
<1>1. Head(chunk) \in Byte /\ parser \in ParserStates
  BY HeadTailProperties DEF TypeOK
<1>2. parser.buf \in Seq(Byte) /\ Len(parser.buf) < 255
  BY <1>1, DeliversShort
<1>3. Len(parser.buf) < 32768
  BY <1>2, LenProperties
<1> QED
  BY <1>2, <1>3 DEF Data

LEMMA RowEnqueue ==
    ASSUME TypeOK, RowInv, LPCReadDataEnqueue
    PROVE  RowInv'
<1>f. PICK f \in Data : f = parser.buf
  BY DeliveredData DEF LPCReadDataEnqueue
<1>q. FifoSize \in Nat
  BY ReceiveAssumption
<1>i. due \in Seq(Data) /\ (torn => due = <<>>) /\ (~torn => queue = Packed(due))
  BY DEF RowInv
<1>1. /\ queue' = Enqueue(queue, f, FifoSize)
      /\ torn' = (torn \/ (Len(queue) # FifoSize /\ ~Fits(queue, f, FifoSize)))
      /\ due' = IF torn' THEN <<>> ELSE IF Len(queue) = FifoSize THEN due ELSE Append(due, f)
  BY <1>f DEF LPCReadDataEnqueue
<1>2. CASE torn'
  <2>1. due' = <<>> /\ <<>> \in Seq(Data)
    BY <1>1, <1>2, EmptySeq
  <2> QED
    BY <1>2, <2>1 DEF RowInv
<1>3. CASE ~torn' /\ Len(queue) = FifoSize
  <2>1. due' = due /\ ~torn /\ queue' = queue
    BY <1>1, <1>3 DEF Enqueue
  <2> QED
    BY <1>3, <1>i, <2>1 DEF RowInv
<1>4. CASE ~torn' /\ Len(queue) # FifoSize
  <2>1. ~torn /\ Fits(queue, f, FifoSize) /\ due' = Append(due, f)
    BY <1>1, <1>4, Zenon
  <2>2. queue = Packed(due)
    BY <1>i, <2>1
  <2>3. queue' = Packed(Append(due, f))
    BY <1>1, <1>4, <1>i, <1>q, <2>1, <2>2, EnqueueRow
  <2>4. due' \in Seq(Data)
    BY <1>i, <2>1, AppendProperties
  <2> QED
    BY <1>4, <2>1, <2>3, <2>4 DEF RowInv
<1> QED
  BY <1>2, <1>3, <1>4

LEMMA RowTake ==
    ASSUME TypeOK, RowInv, Take
    PROVE  RowInv'
<1>i. due \in Seq(Data) /\ (torn => due = <<>>) /\ (~torn => queue = Packed(due))
  BY DEF RowInv
<1>1. /\ queue' = AfterRecord(queue, ReadLength(queue, 0))
      /\ torn' = (torn /\ queue' # <<>>)
      /\ due' = IF due = <<>> THEN <<>> ELSE Tail(due)
  BY DEF Take
<1>2. CASE due = <<>>
  <2>1. due' = <<>> /\ <<>> \in Seq(Data)
    BY <1>1, <1>2, EmptySeq
  <2>2. ~torn' => queue' = <<>>
    <3>1. CASE torn
      BY <1>1, <3>1
    <3>2. CASE ~torn
      <4>1. queue = <<>> /\ 0 \in Short
        BY <1>2, <1>i, <3>2, PackedEmpty DEF Short
      <4> QED
        BY <1>1, <4>1, TakeNothing
    <3> QED
      BY <3>1, <3>2
  <2> QED
    BY <2>1, <2>2, PackedEmpty DEF RowInv
<1>3. CASE due # <<>>
  <2>1. ~torn /\ queue = Packed(due) /\ ~torn' /\ due' = Tail(due)
    BY <1>1, <1>3, <1>i
  <2>2. /\ Tail(due) \in Seq(Data)
        /\ ReadLength(Packed(due), 0) = Len(Head(due))
        /\ AfterRecord(Packed(due), Len(Head(due))) = Packed(Tail(due))
    BY <1>3, <1>i, TakeRow
  <2>3. queue' = Packed(due')
    BY <1>1, <2>1, <2>2
  <2> QED
    BY <2>1, <2>2, <2>3 DEF RowInv
<1> QED
  BY <1>2, <1>3

LEMMA RowStep == TypeOK /\ RowInv /\ [Next]_vars => RowInv'
<1> SUFFICES ASSUME TypeOK, RowInv, [Next]_vars PROVE RowInv'
  OBVIOUS
<1>1. CASE LPCReadDataEnqueue
  BY <1>1, RowEnqueue
<1>2. CASE Take
  BY <1>2, RowTake
<1>3. CASE UNCHANGED <<queue, due, torn>>
  BY <1>3 DEF RowInv
<1>4. CASE UNCHANGED vars
  BY <1>3, <1>4 DEF vars, driver, history
<1>5. CASE \/ McuSends \/ MCUIIC_isr \/ BeginWork \/ TestLine \/ EndWork \/ ReadChunk \/ ReadFails
           \/ EndChunk \/ FeedByte \/ ClearFlag \/ WakeUp \/ SetFlag \/ WaitEvent \/ Interrupted
           \/ LockExpires \/ lpc_suspend \/ lpc_resume
  BY <1>3, <1>5 DEF McuSends, MCUIIC_isr, BeginWork, TestLine, EndWork, ReadChunk, ReadFails,
                    EndChunk, FeedByte, ClearFlag, WakeUp, SetFlag, WaitEvent, Interrupted,
                    LockExpires, lpc_suspend, lpc_resume, driver, history
<1> QED
  BY <1>1, <1>2, <1>4, <1>5 DEF Next, workFlyMCUIIC, lpc_read

THEOREM RowsCorrect == Spec => []RowInv
<1>1. Init => RowInv
  <2>1. <<>> \in Seq(Data)
    BY EmptySeq
  <2> QED
    BY <2>1, PackedEmpty DEF Init, RowInv
<1> QED
  BY <1>1, RowStep, TypeCorrect, PTL DEF Spec

(* What lpc_read reads of are whole records, until one has been cut.       *)
THEOREM RecordsStayWhole == Spec => []WholeRecords
<1>1. RowInv => WholeRecords
  BY DEF RowInv, WholeRecords
<1> QED
  BY <1>1, RowsCorrect, PTL

----------------------------------------------------------------------------
(* There are bytes to be parsed only between the transfer and its end.     *)
IdleInv ==
    /\ faults \in Nat
    /\ work \in {"idle", "line", "i2c", "end"} => chunk = <<>>

LEMMA IdleStep == IdleInv /\ [Next]_vars => IdleInv'
<1> SUFFICES ASSUME IdleInv, [Next]_vars PROVE IdleInv'
  OBVIOUS
<1> USE DEF IdleInv
<1>1. CASE UNCHANGED <<work, chunk, faults>>
  BY <1>1
<1>2. CASE BeginWork \/ TestLine \/ EndWork \/ EndChunk
  BY <1>2 DEF BeginWork, TestLine, EndWork, EndChunk
<1>3. CASE ReadChunk \/ ReadFails
  <2>1. work' = "feed" /\ faults' \in Nat
    BY <1>3 DEF ReadChunk, ReadFails
  <2> QED
    BY <2>1
<1>4. CASE FeedByte \/ LPCReadDataEnqueue \/ ClearFlag \/ WakeUp
  <2>1. work' \in {"feed", "flag", "wake"} /\ faults' = faults
    BY <1>4 DEF FeedByte, LPCReadDataEnqueue, ClearFlag, WakeUp
  <2> QED
    BY <2>1
<1>5. CASE \/ McuSends \/ MCUIIC_isr \/ SetFlag \/ WaitEvent \/ Take \/ Interrupted
           \/ LockExpires \/ lpc_suspend \/ lpc_resume \/ UNCHANGED vars
  BY <1>1, <1>5 DEF McuSends, MCUIIC_isr, SetFlag, WaitEvent, Take, Interrupted, LockExpires,
                    lpc_suspend, lpc_resume, driver, Others, vars
<1> QED
  BY <1>2, <1>3, <1>4, <1>5 DEF Next, workFlyMCUIIC, lpc_read

(* What the parser will have delivered when it has been given the rest of  *)
(* the chunk and what the MCU holds: all that has been sent, and then it   *)
(* is outside of a frame again.                                            *)
Ahead == Parse([parser |-> parser, out |-> out], chunk \o mcu)

SentInv == faults = 0 => Ahead.parser.at = 0 /\ Ahead.out = SubSeq(Messages, 1, sent)

LEMMA AheadType ==
    ASSUME TypeOK, ParserInv
    PROVE  /\ [parser |-> parser, out |-> out] \in Results
           /\ chunk \in Seq(Byte) /\ mcu \in Seq(Byte) /\ chunk \o mcu \in Seq(Byte)
           /\ Ahead \in Results
<1>1. /\ parser \in ParserStates /\ out \in Seq(Seq(Byte))
      /\ chunk \in Seq(Byte) /\ mcu \in Seq(Byte)
  BY DEF TypeOK, ParserInv
<1>2. [parser |-> parser, out |-> out] \in Results
  BY <1>1 DEF Results
<1>3. chunk \o mcu \in Seq(Byte)
  BY <1>1, ConcatBytes
<1>4. Parse([parser |-> parser, out |-> out], chunk \o mcu) \in Results
  BY <1>2, <1>3, ParseType
<1> QED
  BY <1>1, <1>2, <1>3, <1>4 DEF Ahead

(* A byte is parsed: what is ahead stays what it was. *)
LEMMA AheadFeed ==
    ASSUME TypeOK, ParserInv, FeedByte \/ LPCReadDataEnqueue
    PROVE  Ahead' = Ahead
<1>1. chunk # <<>> /\ chunk' = Tail(chunk) /\ mcu' = mcu /\ readFromMCUProcessor(Head(chunk))
  BY DEF FeedByte, LPCReadDataEnqueue
<1>2. /\ chunk \in Seq(Byte) /\ mcu \in Seq(Byte) /\ parser \in ParserStates
  BY DEF TypeOK
<1>3. PICK b \in Byte : b = Head(chunk)
  BY <1>1, <1>2, HeadTailProperties
<1>4. PICK t \in Seq(Byte) : t = Tail(chunk)
  BY <1>1, <1>2, HeadTailProperties
<1>5. chunk = <<b>> \o t
  BY <1>1, <1>2, <1>3, <1>4, HeadAndTail
<1>6. <<b>> \in Seq(Byte) /\ t \o mcu \in Seq(Byte)
  BY <1>2, ConcatBytes
<1>7. chunk \o mcu = <<b>> \o (t \o mcu)
  BY <1>2, <1>5, <1>6, ConcatAssociative
<1> DEFINE r == [parser |-> parser, out |-> out]
<1>8. [parser |-> parser', out |-> out'] = Step(r, b)
  BY <1>1, <1>2, <1>3, ParserStep
<1> HIDE DEF r
<1>9. Parse(r, <<b>> \o (t \o mcu)) = Parse(Step(r, b), t \o mcu)
  BY <1>6, ParseHead
<1>10. Ahead = Parse(r, <<b>> \o (t \o mcu))
  BY <1>7 DEF Ahead, r
<1>11. Ahead' = Parse(Step(r, b), t \o mcu)
  BY <1>1, <1>4, <1>8 DEF Ahead
<1> QED
  BY <1>9, <1>10, <1>11

(* A chunk that is read, and what the MCU holds then, are what it held, up *)
(* to zeros at the end.                                                    *)
ZeroFilled(s, t) == \E z \in Seq(Byte) : (\A i \in 1 .. Len(z) : z[i] = 0) /\ t = s \o z

LEMMA ChunkJoin ==
    ASSUME NEW s \in Seq(Byte), NEW b \in Seq(Byte), Len(b) = 16, NEW k \in {12, 16},
           NEW n, n = Least(Len(s), k)
    PROVE  ZeroFilled(s, SubSeq(SubSeq(s, 1, n) \o Zeros(k - n) \o SubSeq(b, k + 1, 16), 1, k)
                         \o SubSeq(s, n + 1, Len(s)))
<1>1. PICK l \in Nat : l = Len(s)
  BY LenProperties
<1>2. n \in 0 .. l /\ n \in 0 .. k /\ k - n \in Nat /\ (n = l \/ n = k)
  BY <1>1 DEF Least
<1>3. PICK x \in Seq(Byte) : x = SubSeq(s, 1, n) /\ Len(x) = n
  <2>1. 1 \in 1 .. Len(s) + 1 /\ n \in 1 - 1 .. Len(s) /\ n + 1 - 1 = n
    BY <1>1, <1>2
  <2>2. SubSeq(s, 1, n) \in Seq(Byte) /\ Len(SubSeq(s, 1, n)) = n + 1 - 1
    BY <2>1, SliceType
  <2> QED
    BY <2>1, <2>2
<1>4. PICK y \in Seq(Byte) : /\ y = Zeros(k - n) /\ Len(y) = k - n
                             /\ \A i \in 1 .. Len(y) : y[i] = 0
  <2>1. \A i \in 1 .. k - n : Zeros(k - n)[i] = 0
    BY <1>2 DEF Zeros
  <2>2. Zeros(k - n) \in Seq(Byte) /\ Len(Zeros(k - n)) = k - n
    BY <1>2, ZerosType
  <2> QED
    BY <2>1, <2>2
<1>5. PICK w \in Seq(Byte) : w = SubSeq(b, k + 1, 16)
  <2>1. \A i \in k + 1 .. 16 : i \in 1 .. Len(b)
    OBVIOUS
  <2>2. \A i \in k + 1 .. 16 : b[i] \in Byte
    BY <2>1, ElementOfSeq
  <2>3. SubSeq(b, k + 1, 16) \in Seq(Byte)
    BY <2>2, SubSeqProperties
  <2> QED
    BY <2>3
<1>6. PICK h \in Seq(Byte) : h = x \o y /\ Len(h) = k
  <2>1. x \o y \in Seq(Byte) /\ Len(x \o y) = Len(x) + Len(y)
    BY ConcatBytes
  <2>2. n + (k - n) = k
    BY <1>2
  <2> QED
    BY <1>3, <1>4, <2>1, <2>2
<1>7. SubSeq(h \o w, 1, k) = h
  BY <1>6, SliceJoint
<1>8. PICK u \in Seq(Byte) : u = SubSeq(s, n + 1, Len(s))
  <2>1. n + 1 \in 1 .. Len(s) + 1 /\ Len(s) \in n + 1 - 1 .. Len(s)
    BY <1>1, <1>2
  <2>2. SubSeq(s, n + 1, Len(s)) \in Seq(Byte)
    BY <2>1, SliceType
  <2> QED
    BY <2>2
<1>9. x \o u = s
  <2>1. 1 \in 1 .. l + 1 /\ n \in 1 - 1 .. l /\ l \in n .. l
    BY <1>2
  <2>2. SubSeq(s, 1, n) \o SubSeq(s, n + 1, l) = SubSeq(s, 1, l)
    BY <1>1, <2>1, ConcatAdjacentSubSeq
  <2> QED
    BY <1>1, <1>3, <1>8, <2>2, SubSeqFull
<1>10. CASE n = l
  <2>1. u = <<>>
    BY <1>1, <1>8, <1>10, SubSeqEmpty
  <2>2. x = s
    BY <1>3, <1>9, <2>1, ConcatEmptySeq
  <2>3. h \o u = s \o y
    BY <1>6, <2>1, <2>2, ConcatEmptySeq
  <2> QED
    BY <1>3, <1>4, <1>5, <1>6, <1>7, <1>8, <2>3 DEF ZeroFilled
<1>11. CASE n = k
  <2>1. y = <<>>
    <3>1. Len(y) = 0
      BY <1>2, <1>4, <1>11
    <3> QED
      BY <3>1, EmptySeq
  <2>2. h = x
    BY <1>6, <2>1, ConcatEmptySeq
  <2>3. h \o u = s \o <<>>
    BY <1>9, <2>2, ConcatEmptySeq
  <2>4. <<>> \in Seq(Byte) /\ \A i \in 1 .. Len(<<>>) : <<>>[i] = 0
    BY <1>4, <2>1
  <2> QED
    BY <1>3, <1>4, <1>5, <1>6, <1>7, <1>8, <2>3, <2>4 DEF ZeroFilled
<1> QED
  BY <1>2, <1>10, <1>11

LEMMA SentRead ==
    ASSUME TypeOK, ParserInv, IdleInv, SentInv, ReadChunk, faults = 0
    PROVE  Ahead' = Ahead
<1> DEFINE r == [parser |-> parser, out |-> out]
           n == Least(Len(mcu), iReadLen)
<1>1. chunk = <<>>
  BY DEF ReadChunk, IdleInv
<1>2. /\ r \in Results /\ mcu \in Seq(Byte) /\ Ahead \in Results
  BY AheadType
<1>3. <<>> \o mcu = mcu
  BY <1>2, ConcatEmptySeq
<1>4. Ahead = Parse(r, mcu) /\ Ahead.parser.at = 0
  BY <1>1, <1>3 DEF Ahead, SentInv
<1>5. /\ chunk' = SubSeq(SubSeq(mcu, 1, n) \o Zeros(iReadLen - n)
                         \o SubSeq(buff, iReadLen + 1, 16), 1, iReadLen)
      /\ mcu' = SubSeq(mcu, n + 1, Len(mcu))
      /\ parser' = parser /\ out' = out
  BY DEF ReadChunk, parsing
<1>6. buff \in Seq(Byte) /\ Len(buff) = 16 /\ iReadLen \in {12, 16}
  BY DEF TypeOK
<1>7. ZeroFilled(mcu, chunk' \o mcu')
  <2>1. n = Least(Len(mcu), iReadLen)
    OBVIOUS
  <2> HIDE DEF n
  <2>2. ZeroFilled(mcu, SubSeq(SubSeq(mcu, 1, n) \o Zeros(iReadLen - n)
                               \o SubSeq(buff, iReadLen + 1, 16), 1, iReadLen)
                        \o SubSeq(mcu, n + 1, Len(mcu)))
    BY <1>2, <1>6, <2>1, ChunkJoin
  <2> QED
    BY <1>5, <2>2
<1> HIDE DEF n, r
<1>8. PICK z \in Seq(Byte) : /\ \A i \in 1 .. Len(z) : z[i] = 0
                             /\ chunk' \o mcu' = mcu \o z
  BY <1>7 DEF ZeroFilled
<1>9. Parse(r, mcu \o z) = Parse(Parse(r, mcu), z)
  BY <1>2, ParseConcat
<1>10. Parse(Ahead, z) = Ahead
  BY <1>2, <1>4, <1>8, ZerosParse
<1>11. Ahead' = Parse(r, mcu \o z)
  BY <1>5, <1>8 DEF Ahead, r
<1> QED
  BY <1>4, <1>9, <1>10, <1>11

LEMMA SentSends ==
    ASSUME TypeOK, ParserInv, SentInv, McuSends
    PROVE  SentInv'
<1> DEFINE r == [parser |-> parser, out |-> out]
<1>1. /\ sent \in Nat /\ sent + 1 \in DOMAIN Messages /\ sent' = sent + 1
      /\ mcu' = mcu \o Frame(Messages[sent + 1])
      /\ UNCHANGED <<parser, out, chunk, faults>>
  BY ReceiveAssumption DEF McuSends, TypeOK, driver, parsing
<1>2. PICK m \in Seq(Byte) : /\ m = Messages[sent + 1] /\ Len(m) < 255
                             /\ Frame(m) \in Seq(Byte)
  BY <1>1, MessageFrame
<1>3. /\ r \in Results /\ chunk \in Seq(Byte) /\ mcu \in Seq(Byte)
      /\ chunk \o mcu \in Seq(Byte) /\ Ahead \in Results
  BY AheadType
<1>4. chunk' \o mcu' = (chunk \o mcu) \o Frame(m)
  <2>1. PICK f \in Seq(Byte) : f = Frame(m)
    BY <1>2
  <2>2. chunk \o (mcu \o f) = (chunk \o mcu) \o f
    BY <1>3, ConcatAssociative
  <2> QED
    BY <1>1, <1>2, <2>1, <2>2
<1>5. Ahead = Parse(r, chunk \o mcu)
  BY DEF Ahead
<1>6. Ahead' = Parse(r, (chunk \o mcu) \o Frame(m))
  BY <1>1, <1>4 DEF Ahead
<1> HIDE DEF r
<1>7. Ahead' = Parse(Ahead, Frame(m))
  BY <1>2, <1>3, <1>5, <1>6, ParseConcat
<1> SUFFICES ASSUME faults = 0
             PROVE  Ahead'.parser.at = 0 /\ Ahead'.out = SubSeq(Messages, 1, sent + 1)
  BY <1>1 DEF SentInv
<1>8. Ahead.parser.at = 0 /\ Ahead.out = SubSeq(Messages, 1, sent)
  BY DEF SentInv
<1>9. /\ Parse(Ahead, Frame(m)).parser.at = 0
      /\ Parse(Ahead, Frame(m)).out = Append(Ahead.out, m)
  BY <1>2, <1>3, <1>8, FrameParse
<1>10. SubSeq(Messages, 1, sent + 1) = Append(SubSeq(Messages, 1, sent), m)
  BY <1>1, <1>2, ReceiveAssumption
<1> QED
  BY <1>7, <1>8, <1>9, <1>10

LEMMA SentStep ==
    ASSUME TypeOK, ParserInv, IdleInv, SentInv, [Next]_vars
    PROVE  SentInv'
<1>1. CASE UNCHANGED <<parsing, chunk, mcu, sent, faults>>
  BY <1>1 DEF SentInv, Ahead, parsing
<1>2. CASE McuSends
  BY <1>2, SentSends
<1>3. CASE ReadChunk
  <2>1. faults' = faults /\ sent' = sent
    BY <1>3 DEF ReadChunk, Rest
  <2> SUFFICES ASSUME faults = 0
               PROVE  Ahead'.parser.at = 0 /\ Ahead'.out = SubSeq(Messages, 1, sent)
    BY <2>1 DEF SentInv
  <2>2. Ahead' = Ahead
    BY <1>3, SentRead
  <2> QED
    BY <2>2 DEF SentInv
<1>4. CASE ReadFails
  <2>1. faults' # 0
    BY <1>4 DEF ReadFails, IdleInv
  <2> QED
    BY <2>1 DEF SentInv
<1>5. CASE FeedByte \/ LPCReadDataEnqueue
  <2>1. Ahead' = Ahead
    BY <1>5, AheadFeed
  <2>2. faults' = faults /\ sent' = sent
    BY <1>5 DEF FeedByte, LPCReadDataEnqueue, Rest
  <2> QED
    BY <2>1, <2>2 DEF SentInv
<1>6. CASE \/ MCUIIC_isr \/ BeginWork \/ TestLine \/ EndWork
           \/ EndChunk \/ ClearFlag \/ WakeUp \/ SetFlag \/ WaitEvent \/ Take \/ Interrupted
           \/ LockExpires \/ lpc_suspend \/ lpc_resume \/ UNCHANGED vars
  BY <1>1, <1>6 DEF MCUIIC_isr, BeginWork, TestLine, EndWork, EndChunk, ClearFlag, WakeUp,
                    SetFlag, WaitEvent, Take, Interrupted, LockExpires, lpc_suspend,
                    lpc_resume, driver, Others, Rest, vars
<1> QED
  BY <1>2, <1>3, <1>4, <1>5, <1>6 DEF Next, workFlyMCUIIC, lpc_read

(* As long as nothing failed and nothing was lost, what user space has     *)
(* read and what is queued are what the parser has delivered.              *)
OrderInv ==
    /\ got \in Seq(Seq(Byte))
    /\ (faults = 0 /\ ~lost) => got \o due = out

LEMMA DueType ==
    ASSUME RowInv
    PROVE  due \in Seq(Seq(Byte)) /\ due \in Seq(Data)
<1>1. Data \subseteq Seq(Byte)
  BY DEF Data
<1> QED
  BY <1>1, SeqMonotone DEF RowInv

(* What has been delivered is what has been sent, up to there. *)
LEMMA OutIsSent ==
    ASSUME TypeOK, ParserInv, SentInv, faults = 0
    PROVE  \E u \in Seq(Seq(Byte)) : out \o u = SubSeq(Messages, 1, sent)
<1> DEFINE r == [parser |-> parser, out |-> out]
<1>1. r \in Results /\ chunk \o mcu \in Seq(Byte) /\ r.out = out
  BY AheadType
<1>2. Ahead = Parse(r, chunk \o mcu)
  BY DEF Ahead
<1> HIDE DEF r
<1>3. PICK u \in Seq(Seq(Byte)) : Parse(r, chunk \o mcu).out = r.out \o u
  BY <1>1, ParseGrows
<1> QED
  BY <1>1, <1>2, <1>3 DEF SentInv

(* So no record that is queued is empty.                                   *)
LEMMA DueFilled ==
    ASSUME TypeOK, ParserInv, SentInv, RowInv, OrderInv, faults = 0, ~lost, due # <<>>
    PROVE  Head(due) # <<>>
<1>1. PICK u \in Seq(Seq(Byte)) : out \o u = SubSeq(Messages, 1, sent)
  BY OutIsSent
<1>2. PICK d \in Seq(Seq(Byte)) : d = due /\ d # <<>>
  BY DueType
<1>3. PICK g \in Seq(Seq(Byte)) : g = got /\ g \o d = out
  BY <1>2 DEF OrderInv
<1>4. PICK i \in Nat : i = Len(g) + 1
  BY LenProperties
<1>5. PICK l \in Nat : l = Len(d) /\ l # 0
  BY <1>2, EmptySeq
<1>6. Head(d) = d[1]
  BY <1>2, HeadAndTail
<1>7. (g \o d)[i] = d[1] /\ Len(g \o d) = i - 1 + l
  <2>1. PICK k \in Nat : k = Len(g)
    BY LenProperties
  <2>2. /\ Len(g \o d) = k + l
        /\ \A j \in 1 .. k + l : (g \o d)[j] = IF j <= k THEN g[j] ELSE d[j - k]
    BY <1>5, <2>1, ConcatProperties
  <2>3. i \in 1 .. k + l /\ ~(i <= k) /\ i - k = 1 /\ k + l = i - 1 + l
    BY <1>4, <1>5, <2>1
  <2> QED
    BY <2>2, <2>3
<1>8. PICK e \in Seq(Seq(Byte)) : e = g \o d /\ e = out
  BY <1>3, ConcatProperties
<1>9. (e \o u)[i] = e[i] /\ i <= Len(e \o u)
  <2>1. PICK k \in Nat, h \in Nat : k = Len(e) /\ h = Len(u)
    BY LenProperties
  <2>2. /\ Len(e \o u) = k + h
        /\ \A j \in 1 .. k + h : (e \o u)[j] = IF j <= k THEN e[j] ELSE u[j - k]
    BY <2>1, ConcatProperties
  <2>3. k = i - 1 + l
    BY <1>7, <1>8, <2>1
  <2>4. i \in 1 .. k + h /\ i <= k /\ i <= k + h
    BY <1>4, <1>5, <2>1, <2>3, LenProperties
  <2> QED
    BY <2>2, <2>4
<1>10. PICK s \in Nat : s = sent /\ s <= Len(Messages)
  BY ReceiveAssumption DEF TypeOK
<1>11. Len(SubSeq(Messages, 1, s)) = s /\ \A j \in 1 .. s : SubSeq(Messages, 1, s)[j] = Messages[j]
  BY <1>10, ReceiveAssumption
<1>12. i \in 1 .. s /\ i \in DOMAIN Messages
  <2>1. i <= s /\ 1 <= i
    BY <1>1, <1>4, <1>8, <1>9, <1>10, <1>11, LenProperties
  <2> QED
    BY <1>10, <2>1, ReceiveAssumption
<1>13. Messages[i] = d[1]
  BY <1>1, <1>7, <1>8, <1>9, <1>10, <1>11, <1>12
<1>14. Messages[i] # <<>>
  BY <1>12, MessageFrame
<1> QED
  BY <1>2, <1>6, <1>13, <1>14

LEMMA OrderTake ==
    ASSUME TypeOK, ParserInv, SentInv, RowInv, OrderInv, Take
    PROVE  OrderInv'
<1>1. /\ got' = IF ReadLength(queue, 0) > 0
                THEN Append(got, Payload(queue, ReadLength(queue, 0))) ELSE got
      /\ due' = IF due = <<>> THEN <<>> ELSE Tail(due)
      /\ UNCHANGED <<faults, lost, out>>
  BY DEF Take, Others, parsing
<1>2. got' \in Seq(Seq(Byte))
  <2>1. queue \in Seq(Byte) /\ 0 \in Short
    BY DEF TypeOK, Short
  <2>2. PICK n \in Short : n = ReadLength(queue, 0)
    BY <2>1, ReadLengthType
  <2>3. n > 0 => Payload(queue, n) \in Seq(Byte)
    BY <2>1, PayloadType DEF Data
  <2>4. got \in Seq(Seq(Byte))
    BY DEF OrderInv
  <2> QED
    BY <1>1, <2>2, <2>3, <2>4, AppendProperties
<1> SUFFICES ASSUME faults = 0, ~lost PROVE got' \o due' = out
  BY <1>1, <1>2 DEF OrderInv
<1>3. /\ got \in Seq(Seq(Byte)) /\ due \in Seq(Seq(Byte)) /\ due \in Seq(Data)
      /\ got \o due = out /\ queue = Packed(due)
  BY DueType DEF OrderInv, RowInv, TypeOK
<1>4. CASE due = <<>>
  <2>1. queue = <<>> /\ ~(0 > 0)
    BY <1>3, <1>4, PackedEmpty
  <2>2. got' = got
    BY <1>1, <2>1, TakeNothing
  <2> QED
    BY <1>1, <1>3, <1>4, <2>2
<1>5. CASE due # <<>>
  <2>1. Head(due) # <<>>
    BY <1>5, DueFilled
  <2>2. /\ Head(due) \in Data
        /\ ReadLength(Packed(due), 0) = Len(Head(due))
        /\ Len(Head(due)) > 0 => Payload(Packed(due), Len(Head(due))) = Head(due)
    BY <1>3, <1>5, TakeRow
  <2>3. Len(Head(due)) > 0
    BY <2>1, <2>2, DataRecord, EmptySeq
  <2>4. got' = Append(got, Head(due)) /\ due' = Tail(due)
    BY <1>1, <1>3, <1>5, <2>2, <2>3
  <2> QED
    BY <1>3, <1>5, <2>4, ShiftHead
<1> QED
  BY <1>4, <1>5

LEMMA OrderStep ==
    ASSUME TypeOK, ParserInv, SentInv, IdleInv, RowInv, OrderInv, [Next]_vars
    PROVE  OrderInv'
<1>1. CASE UNCHANGED <<got, due, out, lost>> /\ (faults' = 0 => faults = 0)
  BY <1>1 DEF OrderInv
<1>2. CASE FeedByte
  <2>1. out' = out
    BY <1>2 DEF FeedByte, readFromMCUProcessor, Step
  <2> QED
    BY <1>1, <1>2, <2>1 DEF FeedByte, history
<1>3. CASE LPCReadDataEnqueue
  <2>1. out' = Append(out, parser.buf) /\ parser.buf \in Seq(Byte)
    BY <1>3, DeliveredData DEF LPCReadDataEnqueue, readFromMCUProcessor, Step
  <2>2. got' = got /\ faults' = faults
    BY <1>3 DEF LPCReadDataEnqueue
  <2> SUFFICES ASSUME faults = 0, ~lost' PROVE got \o due' = out'
    BY <2>2 DEF OrderInv
  <2>3. ~lost /\ due' = Append(due, parser.buf)
    BY <1>3 DEF LPCReadDataEnqueue, TypeOK
  <2>4. got \in Seq(Seq(Byte)) /\ due \in Seq(Seq(Byte)) /\ got \o due = out
    BY <2>3, DueType DEF OrderInv
  <2>5. PICK x \in Seq(Byte) : x = parser.buf
    BY <2>1
  <2>6. got \o Append(due, x) = Append(got \o due, x)
    BY <2>4, AppendConcat
  <2> QED
    BY <2>1, <2>3, <2>4, <2>5, <2>6
<1>4. CASE Take
  BY <1>4, OrderTake
<1>5. CASE ReadFails
  <2>1. faults' # 0
    BY <1>5 DEF ReadFails, IdleInv
  <2> QED
    BY <1>1, <1>5, <2>1 DEF ReadFails, parsing, history
<1>6. CASE \/ McuSends \/ MCUIIC_isr \/ BeginWork \/ TestLine \/ EndWork \/ ReadChunk
           \/ EndChunk \/ ClearFlag \/ WakeUp \/ SetFlag \/ WaitEvent \/ Interrupted
           \/ LockExpires \/ lpc_suspend \/ lpc_resume \/ UNCHANGED vars
  BY <1>1, <1>6 DEF McuSends, MCUIIC_isr, BeginWork, TestLine, EndWork, ReadChunk, EndChunk,
                    ClearFlag, WakeUp, SetFlag, WaitEvent, Interrupted, LockExpires, lpc_suspend,
                    lpc_resume, driver, parsing, history, Others, Rest, vars
<1> QED
  BY <1>2, <1>3, <1>4, <1>5, <1>6 DEF Next, workFlyMCUIIC, lpc_read

LEMMA InitOrder == Init => IdleInv /\ SentInv /\ OrderInv
<1> SUFFICES ASSUME Init PROVE IdleInv /\ SentInv /\ OrderInv
  OBVIOUS
<1>1. /\ chunk = <<>> /\ faults = 0 /\ got = <<>> /\ due = <<>> /\ out = <<>>
      /\ [parser |-> parser, out |-> out] = Fresh
  BY DEF Init, ParserInit, Fresh
<1>2. <<>> \in Seq(Seq(Byte)) /\ <<>> \in Seq(Byte)
  BY EmptySeq
<1>3. IdleInv
  BY <1>1 DEF IdleInv
<1>4. OrderInv
  BY <1>1, <1>2, ConcatEmptySeq DEF OrderInv
<1>5. CASE sent = 0
  <2>1. mcu = <<>> /\ <<>> \o <<>> = <<>>
    BY <1>2, <1>5, ConcatEmptySeq DEF Init
  <2>2. Ahead = Fresh
    BY <1>1, <2>1, ParseEmpty DEF Ahead
  <2>3. SubSeq(Messages, 1, 0) = <<>>
    BY SubSeqEmpty
  <2> QED
    BY <1>3, <1>4, <1>5, <2>2, <2>3, FreshType DEF SentInv
<1>6. CASE sent = 1 /\ 1 \in DOMAIN Messages
  <2>1. PICK m \in Seq(Byte) : m = Messages[1] /\ Len(m) < 255 /\ Frame(m) \in Seq(Byte)
    BY <1>6, MessageFrame
  <2>2. mcu = Frame(m) /\ <<>> \o Frame(m) = Frame(m)
    BY <1>6, <2>1, ConcatEmptySeq DEF Init
  <2>3. Ahead = Parse(Fresh, Frame(m))
    BY <1>1, <2>2 DEF Ahead
  <2>4. /\ Parse(Fresh, Frame(m)).parser.at = 0
        /\ Parse(Fresh, Frame(m)).out = Append(Fresh.out, m)
    BY <2>1, FreshType, FrameParse
  <2>5. SubSeq(Messages, 1, 1) = Append(<<>>, m)
    <3>1. Messages \in Seq(Payloads) /\ 1 \in 1 .. Len(Messages)
      BY <1>6, ReceiveAssumption
    <3>2. SubSeq(Messages, 1, 1) = <<Messages[1]>>
      <4>1. Messages[1] \in Payloads /\ <<Messages[1]>> \in Seq(Payloads)
        BY <3>1, MessageFrame
      <4>2. 1 \in 1 .. Len(Messages) /\ 1 \in 1 .. Len(Messages) /\ 1 + 1 = 2 /\ 1 < 2
        BY <3>1
      <4>3. SubSeq(Messages, 1, 1) = <<Messages[1]>> \o SubSeq(Messages, 1 + 1, 1)
        BY <3>1, <4>2, SubSeqRecursiveFirst, Zenon
      <4>4. SubSeq(Messages, 2, 1) = <<>>
        BY <4>2, SubSeqEmpty
      <4>5. <<Messages[1]>> \o <<>> = <<Messages[1]>>
        BY <4>1, ConcatEmptySeq
      <4> QED
        BY <4>2, <4>3, <4>4, <4>5
    <3> QED
      BY <2>1, <3>2
  <2> QED
    BY <1>3, <1>4, <1>6, <2>3, <2>4, <2>5, FreshType DEF SentInv
<1> QED
  BY <1>5, <1>6, ReceiveAssumption DEF Init

THEOREM OrderCorrect == Spec => [](SentInv /\ OrderInv)
<1>1. TypeOK /\ ParserInv /\ RowInv /\ IdleInv /\ SentInv /\ OrderInv /\ [Next]_vars
         => IdleInv' /\ SentInv' /\ OrderInv'
  BY IdleStep, SentStep, OrderStep
<1> QED
  BY <1>1, InitOrder, TypeCorrect, ParserCorrect, RowsCorrect, PTL DEF Spec

(* User space reads what the MCU sent, in order, as long as no transfer    *)
(* fails and nothing is lost; when all the MCU held is parsed, nothing of  *)
(* what it sent is missing.                                                *)
THEOREM MessagesInOrder == Spec => []DeliveredInOrder
<1>1. TypeOK /\ ParserInv /\ SentInv /\ OrderInv => DeliveredInOrder
  <2> SUFFICES ASSUME TypeOK, ParserInv, SentInv, OrderInv, faults = 0, ~lost
               PROVE  /\ IsPrefix(got \o due, SubSeq(Messages, 1, sent))
                      /\ (mcu = <<>> /\ chunk = <<>>) => got \o due = SubSeq(Messages, 1, sent)
    BY DEF DeliveredInOrder
  <2>1. PICK u \in Seq(Seq(Byte)) : out \o u = SubSeq(Messages, 1, sent)
    BY OutIsSent
  <2>2. out \in Seq(Seq(Byte)) /\ got \o due = out
    BY DEF ParserInv, OrderInv
  <2>3. IsPrefix(out, out \o u)
    BY <2>2, PrefixOf
  <2>4. ASSUME mcu = <<>>, chunk = <<>> PROVE out = SubSeq(Messages, 1, sent)
    <3>1. chunk \o mcu = <<>>
      BY <2>4
    <3>2. Ahead = [parser |-> parser, out |-> out]
      BY <3>1, ParseEmpty DEF Ahead
    <3> QED
      BY <3>2 DEF SentInv
  <2> QED
    BY <2>1, <2>2, <2>3, <2>4
<1> QED
  BY <1>1, OrderCorrect, TypeCorrect, ParserCorrect, PTL
=============================================================================
