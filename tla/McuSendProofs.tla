----------------------------- MODULE McuSendProofs ----------------------------
(***************************************************************************)
(* For any writers, messages, size of the queue and counts of writes, busy *)
(* periods and suspends: no data stays behind for an MCU that is ready,    *)
(* and what is sent are the frames written, whole and in their order, as   *)
(* long as none is cut or refused.                                         *)
(***************************************************************************)
EXTENDS McuSend, QueueProofs

(* What is written is framed in bytes. *)
LEMMA MessageFrame ==
    \A m \in Messages : /\ m \in Seq(Byte) /\ Len(m) < 255
                        /\ Frame(m) \in Seq(Byte) /\ Frame(m) # <<>>
                        /\ Len(Frame(m)) < 259 /\ Len(Frame(m)) < 65536
<1> TAKE m \in Messages
<1>1. PICK n \in Nat : n = Len(m) /\ n < 255 /\ m \in Seq(Byte)
  BY SendAssumption, LenProperties
<1>2. Frame(m) \in Seq(Byte) /\ Len(Frame(m)) = n + 4
  BY <1>1, FrameType
<1>3. Frame(m) # <<>>
  BY <1>1, <1>2, EmptySeq
<1> QED
  BY <1>1, <1>2, <1>3

LEMMA InitType == Init => TypeOK
<1> SUFFICES ASSUME Init PROVE TypeOK
  OBVIOUS
<1>1. ready \in BOOLEAN
  BY Zenon DEF Init
<1>2. queue \in Seq(Byte) /\ Len(queue) <= FifoSize
  BY SendAssumption DEF Init
<1>3. length_buf \in Short
  BY DEF Init, Short
<1>4. edge \in BOOLEAN /\ irqOn \in BOOLEAN /\ pending \in BOOLEAN
  BY Zenon DEF Init
<1>5. torn \in BOOLEAN /\ lost \in BOOLEAN /\ (torn => lost)
  BY Zenon DEF Init
<1>6. work \in {"idle", "loop", "take", "end"} /\ writer \in [Writers -> {"idle", "schedule"}]
  BY DEF Init
<1>7. /\ writes \in 0 .. MaxWrites /\ busies \in 0 .. MaxBusy
      /\ suspends \in 0 .. MaxSuspends
  BY SendAssumption DEF Init
<1> QED
  BY <1>1, <1>2, <1>3, <1>4, <1>5, <1>6, <1>7, Zenon DEF TypeOK

(* The two parts of TypeOK: the control of the driver, and its data. *)
Flags ==
    /\ ready \in BOOLEAN /\ edge \in BOOLEAN /\ irqOn \in BOOLEAN
    /\ pending \in BOOLEAN /\ work \in {"idle", "loop", "take", "end"}
    /\ writer \in [Writers -> {"idle", "schedule"}]
    /\ torn \in BOOLEAN /\ lost \in BOOLEAN /\ (torn => lost)
    /\ writes \in 0 .. MaxWrites /\ busies \in 0 .. MaxBusy
    /\ suspends \in 0 .. MaxSuspends

LEMMA FlagsStep == TypeOK /\ Next => Flags'
<1> SUFFICES ASSUME TypeOK, Next PROVE Flags'
  OBVIOUS
<1>t. Flags
  BY Zenon DEF TypeOK, Flags
<1>1. ASSUME NEW w \in Writers, NEW m \in Messages, LPCWriteDataEnqueue(w, m)
      PROVE  Flags'
  <2>1. torn' \in BOOLEAN /\ lost' \in BOOLEAN /\ (torn' => lost')
    BY <1>t, <1>1, Zenon DEF LPCWriteDataEnqueue, Flags
  <2>2. writes' \in 0 .. MaxWrites
    BY <1>t, <1>1, SendAssumption DEF LPCWriteDataEnqueue, Flags
  <2> QED
    BY <1>t, <1>1, <2>1, <2>2 DEF LPCWriteDataEnqueue, Flags, line
<1>2. ASSUME NEW w \in Writers, Schedule(w)
      PROVE  Flags'
  BY <1>t, <1>2 DEF Schedule, Flags, line, history, counts
<1>3. CASE BecomesBusy
  <2>1. busies' \in 0 .. MaxBusy
    BY <1>t, <1>3, SendAssumption DEF BecomesBusy, Flags
  <2> QED
    BY <1>t, <1>3, <2>1 DEF BecomesBusy, Flags, history
<1>4. CASE BecomesReady
  <2>1. edge' \in BOOLEAN
    BY <1>t, <1>4, SendAssumption, Zenon DEF BecomesReady, Flags
  <2> QED
    BY <1>t, <1>4, <2>1 DEF BecomesReady, Flags, history, counts
<1>5. CASE MCUDQBuf_isr
  BY <1>t, <1>5 DEF MCUDQBuf_isr, Flags, history, counts
<1>6. CASE BeginWork \/ TestReady \/ NothingQueued \/ EndWork
  <2>1. pending' \in BOOLEAN
    BY <1>t, <1>6, Zenon DEF BeginWork, TestReady, NothingQueued, EndWork, Flags
  <2>2. work' \in {"idle", "loop", "take", "end"}
    BY <1>6 DEF BeginWork, TestReady, NothingQueued, EndWork
  <2>3. UNCHANGED <<line, writer, history, counts>>
    BY <1>6 DEF BeginWork, TestReady, NothingQueued, EndWork
  <2> QED
    BY <1>t, <2>1, <2>2, <2>3 DEF Flags, line, history, counts
<1>7. CASE Take
  <2>1. torn' \in BOOLEAN /\ (torn' => torn)
    BY <1>7, Zenon DEF Take
  <2> QED
    BY <1>t, <1>7, <2>1 DEF Take, Flags, line, counts
<1>8. CASE lpc_suspend
  <2>1. suspends' \in 0 .. MaxSuspends
    BY <1>t, <1>8, SendAssumption DEF lpc_suspend, Flags
  <2> QED
    BY <1>t, <1>8, <2>1 DEF lpc_suspend, Flags, history
<1>9. CASE lpc_resume
  BY <1>t, <1>9 DEF lpc_resume, Flags, history, counts
<1> QED
  BY <1>1, <1>2, <1>3, <1>4, <1>5, <1>6, <1>7, <1>8, <1>9 DEF Next, workFlyMCUDQBuf

Buffers == length_buf \in Short /\ queue \in Seq(Byte) /\ Len(queue) <= FifoSize

LEMMA DataStep == TypeOK /\ Next => Buffers'
<1> SUFFICES ASSUME TypeOK, Next PROVE Buffers'
  OBVIOUS
<1>t. Buffers
  BY Zenon DEF TypeOK, Buffers
<1>1. ASSUME NEW w \in Writers, NEW m \in Messages, LPCWriteDataEnqueue(w, m)
      PROVE  Buffers'
  <2>1. Frame(m) \in Seq(Byte) /\ Len(Frame(m)) < 65536
    BY MessageFrame
  <2>2. queue' = Enqueue(queue, Frame(m), FifoSize) /\ length_buf' = length_buf
    BY <1>1 DEF LPCWriteDataEnqueue
  <2> QED
    BY <1>t, <2>1, <2>2, EnqueueType, SendAssumption DEF Buffers
<1>2. CASE Take
  <2>1. length_buf' \in Short
    BY <1>t, <1>2, ReadLengthType DEF Take, Buffers
  <2>2. queue' = AfterRecord(queue, length_buf')
    BY <1>2 DEF Take
  <2>3. queue' \in Seq(Byte) /\ Len(queue') <= Len(queue)
    BY <1>t, <2>1, <2>2, AfterRecordType DEF Buffers
  <2>4. Len(queue') <= FifoSize
    BY <1>t, <2>3, LenProperties, SendAssumption DEF Buffers
  <2> QED
    BY <2>1, <2>3, <2>4 DEF Buffers
<1>3. CASE BeginWork
  <2>1. 0 \in Short
    BY DEF Short
  <2> QED
    BY <1>t, <1>3, <2>1 DEF BeginWork, Buffers
<1>4. CASE UNCHANGED <<length_buf, queue>>
  BY <1>t, <1>4 DEF Buffers
<1>5. CASE \/ \E w \in Writers : Schedule(w)
           \/ BecomesBusy \/ BecomesReady \/ MCUDQBuf_isr
           \/ TestReady \/ NothingQueued \/ EndWork \/ lpc_suspend \/ lpc_resume
  BY <1>4, <1>5 DEF Schedule, BecomesBusy, BecomesReady, MCUDQBuf_isr, TestReady,
                    NothingQueued, EndWork, lpc_suspend, lpc_resume
<1> QED
  BY <1>1, <1>2, <1>3, <1>5 DEF Next, workFlyMCUDQBuf

(* The queue stays within its buffer, and length_buf is a short. *)
THEOREM TypeCorrect == Spec => []TypeOK
<1>1. TypeOK /\ [Next]_vars => TypeOK'
  <2>1. TypeOK /\ Next => TypeOK'
    BY FlagsStep, DataStep, Zenon DEF Flags, Buffers, TypeOK
  <2>2. TypeOK /\ UNCHANGED vars => TypeOK'
    BY DEF TypeOK, vars, line, history, counts
  <2> QED
    BY <2>1, <2>2
<1> QED
  BY InitType, <1>1, PTL DEF Spec

----------------------------------------------------------------------------
(* Buffers that the MCU is ready for has something on its way. *)
LEMMA StrandedStep == TypeOK /\ NoDataStranded /\ Next => NoDataStranded'
<1> SUFFICES ASSUME TypeOK, NoDataStranded, Next PROVE NoDataStranded'
  OBVIOUS
<1> USE DEF NoDataStranded, MayLoop
<1>1. ASSUME NEW w \in Writers, NEW m \in Messages, LPCWriteDataEnqueue(w, m)
      PROVE  NoDataStranded'
  <2>1. writer'[w] = "schedule"
    BY <1>1 DEF LPCWriteDataEnqueue, TypeOK
  <2> QED
    BY <2>1
<1>2. ASSUME NEW w \in Writers, Schedule(w)
      PROVE  NoDataStranded'
  BY <1>2 DEF Schedule, line
<1>3. CASE BecomesBusy
  BY <1>3 DEF BecomesBusy
<1>4. CASE BecomesReady
  <2>1. CASE CHECK_MCU_BUSY
    <3>1. edge'
      BY <1>4, <2>1, Zenon DEF BecomesReady
    <3> QED
      BY <3>1, Zenon
  <2>2. CASE ~CHECK_MCU_BUSY
    <3>1. /\ edge' = edge
          /\ UNCHANGED <<queue, pending, work, writer>>
      BY <1>4, <2>2, SendAssumption DEF BecomesReady, TypeOK
    <3> QED
      BY <3>1, <2>2
  <2> QED
    BY <2>1, <2>2
<1>5. CASE MCUDQBuf_isr
  BY <1>5 DEF MCUDQBuf_isr
<1>6. CASE workFlyMCUDQBuf
  BY <1>6 DEF workFlyMCUDQBuf, BeginWork, TestReady, NothingQueued, EndWork, Take, line
<1>7. CASE lpc_suspend \/ lpc_resume
  BY <1>7 DEF lpc_suspend, lpc_resume
<1> QED
  BY <1>1, <1>2, <1>3, <1>4, <1>5, <1>6, <1>7 DEF Next

THEOREM DataNotStranded == Spec => []NoDataStranded
<1>1. Init => NoDataStranded
  BY DEF Init, NoDataStranded
<1>2. TypeOK /\ NoDataStranded /\ [Next]_vars => NoDataStranded'
  <2>1. NoDataStranded /\ UNCHANGED vars => NoDataStranded'
    BY DEF NoDataStranded, MayLoop, vars, line
  <2> QED
    BY <2>1, StrandedStep
<1> QED
  BY <1>1, <1>2, TypeCorrect, PTL DEF Spec

----------------------------------------------------------------------------
(* The queue is a row of the whole records due, none of them empty, until  *)
(* one is cut; none is due from then on until the queue has run empty.     *)
FramesInv ==
    /\ Filled(due) /\ wire \in Seq(Data) /\ written \in Seq(Data)
    /\ torn => due = <<>>
    /\ ~torn => queue = Packed(due)
    /\ ~lost => wire \o due = written

LEMMA FrameIsData == \A m \in Messages : Frame(m) \in Data
BY MessageFrame, LenProperties DEF Data

LEMMA FramesWrite ==
    ASSUME TypeOK, FramesInv, NEW w \in Writers, NEW m \in Messages,
           LPCWriteDataEnqueue(w, m)
    PROVE  FramesInv'
<1>f. PICK f \in Data : f = Frame(m) /\ f # <<>>
  BY FrameIsData, MessageFrame
<1>q. queue \in Seq(Byte) /\ FifoSize \in Nat
  BY SendAssumption DEF TypeOK
<1>i. /\ Filled(due) /\ due \in Seq(Data) /\ wire \in Seq(Data) /\ written \in Seq(Data)
      /\ torn => due = <<>>
      /\ ~torn => queue = Packed(due)
      /\ ~lost => wire \o due = written
  BY DEF FramesInv, Filled
<1>1. /\ queue' = Enqueue(queue, f, FifoSize)
      /\ written' = Append(written, f) /\ wire' = wire
      /\ torn' = (torn \/ (Len(queue) # FifoSize /\ ~Fits(queue, f, FifoSize)))
      /\ lost' = (lost \/ (Len(queue) # FifoSize /\ ~Fits(queue, f, FifoSize))
                       \/ Len(queue) = FifoSize)
      /\ due' = IF torn' THEN <<>> ELSE IF Len(queue) = FifoSize THEN due ELSE Append(due, f)
  BY <1>f DEF LPCWriteDataEnqueue
<1>2. written' \in Seq(Data)
  BY <1>i, <1>1, AppendProperties
<1>3. CASE torn'
  <2>1. due' = <<>> /\ lost'
    BY <1>1, <1>3 DEF TypeOK
  <2>2. Filled(<<>>)
    BY EmptySeq DEF Filled
  <2> QED
    BY <1>1, <1>2, <1>3, <1>i, <2>1, <2>2 DEF FramesInv
<1>4. CASE ~torn' /\ Len(queue) = FifoSize
  <2>1. due' = due /\ ~torn /\ lost' /\ queue' = queue
    BY <1>1, <1>4 DEF Enqueue
  <2> QED
    BY <1>1, <1>2, <1>4, <1>i, <2>1 DEF FramesInv
<1>5. CASE ~torn' /\ Len(queue) # FifoSize
  <2>1. ~torn /\ Fits(queue, f, FifoSize) /\ due' = Append(due, f) /\ (lost' => lost)
    BY <1>1, <1>5, Zenon
  <2>2. queue' = queue \o Record(f)
    BY <1>1, <1>5, <1>q, <2>1, EnqueueWhole
  <2>3. queue' = Packed(due')
    BY <1>i, <2>1, <2>2, PackedAppend
  <2>4. Filled(due')
    BY <1>f, <2>1, FilledAppend DEF FramesInv
  <2>5. wire \o Append(due, f) = Append(wire \o due, f)
    BY <1>i, AppendConcat
  <2> QED
    BY <1>1, <1>2, <1>5, <1>i, <2>1, <2>3, <2>4, <2>5 DEF FramesInv
<1> QED
  BY <1>3, <1>4, <1>5

LEMMA FramesTake ==
    ASSUME TypeOK, FramesInv, Take
    PROVE  FramesInv'
<1>i. /\ Filled(due) /\ due \in Seq(Data) /\ wire \in Seq(Data) /\ written \in Seq(Data)
      /\ torn => due = <<>>
      /\ ~torn => queue = Packed(due)
      /\ ~lost => wire \o due = written
  BY DEF FramesInv, Filled
<1>q. queue \in Seq(Byte) /\ length_buf \in Short /\ (torn => lost)
  BY DEF TypeOK
<1>1. /\ queue # <<>>
      /\ length_buf' = ReadLength(queue, length_buf)
      /\ queue' = AfterRecord(queue, length_buf')
      /\ wire' = IF length_buf' > 0 THEN Append(wire, Payload(queue, length_buf'))
                 ELSE wire
      /\ torn' = (torn /\ queue' # <<>>)
      /\ due' = IF due = <<>> THEN <<>> ELSE Tail(due)
      /\ written' = written /\ lost' = lost
  BY DEF Take
<1>2. CASE due = <<>>
  <2>1. torn /\ lost' /\ due' = <<>>
    BY <1>1, <1>2, <1>i, <1>q, PackedEmpty
  <2>2. wire' \in Seq(Data)
    <3>1. length_buf' \in Short
      BY <1>q, <1>1, ReadLengthType
    <3>2. length_buf' > 0 => Payload(queue, length_buf') \in Data
      BY <1>q, <3>1, PayloadType
    <3> QED
      BY <1>1, <1>i, <3>2, AppendProperties
  <2>3. ~torn' => queue' = Packed(due')
    BY <1>1, <2>1, PackedEmpty
  <2>4. Filled(<<>>)
    BY EmptySeq DEF Filled
  <2> QED
    BY <1>1, <1>i, <2>1, <2>2, <2>3, <2>4 DEF FramesInv
<1>3. CASE due # <<>>
  <2>1. /\ ~torn /\ ~torn'
        /\ Head(due) \in Data /\ Head(due) # <<>> /\ Filled(Tail(due))
        /\ Packed(Tail(due)) \in Seq(Byte)
        /\ queue = Record(Head(due)) \o Packed(Tail(due))
    <3>1. ~torn /\ queue = Packed(due)
      BY <1>3, <1>i
    <3>2. ~torn'
      BY <1>1, <3>1
    <3>3. Head(due) \in Data /\ Head(due) # <<>> /\ Filled(Tail(due))
      BY <1>3, FilledHead DEF FramesInv
    <3>4. /\ Packed(Tail(due)) \in Seq(Byte)
          /\ Packed(due) = Record(Head(due)) \o Packed(Tail(due))
      BY <1>3, <1>i, PackedHead
    <3> QED
      BY <3>1, <3>2, <3>3, <3>4
  <2>2. PICK x \in Data : x = Head(due) /\ x # <<>>
    BY <2>1
  <2>3. PICK t \in Seq(Byte) : t = Packed(Tail(due))
    BY <2>1
  <2>4. /\ ReadLength(Record(x) \o t, length_buf) = Len(x)
        /\ AfterRecord(Record(x) \o t, Len(x)) = t
        /\ Len(x) > 0 => Payload(Record(x) \o t, Len(x)) = x
    BY ReadRecord
  <2>5. Len(x) > 0
    BY <2>2, DataRecord, EmptySeq
  <2>6. queue = Record(x) \o t
    BY <2>1, <2>2, <2>3
  <2>7. length_buf' = Len(x)
    BY <1>1, <2>4, <2>6
  <2>8. queue' = Packed(Tail(due)) /\ wire' = Append(wire, Head(due)) /\ due' = Tail(due)
    BY <1>1, <1>3, <2>2, <2>3, <2>4, <2>5, <2>6, <2>7
  <2>9. wire' \in Seq(Data)
    BY <1>i, <2>1, <2>8, AppendProperties
  <2>10. wire' \o due' = wire \o due
    BY <1>3, <1>i, <2>8, ShiftHead
  <2> QED
    BY <1>1, <1>i, <2>1, <2>8, <2>9, <2>10 DEF FramesInv
<1> QED
  BY <1>2, <1>3

(* The queue holds whole records, and the wire and the queue together hold *)
(* what was written, in order.                                             *)
THEOREM FramesStayWhole == Spec => []WholeFrames
<1>1. Init => FramesInv
  <2> SUFFICES ASSUME Init PROVE FramesInv
    OBVIOUS
  <2>1. /\ due = <<>> /\ wire = <<>> /\ written = <<>> /\ queue = <<>> /\ ~torn
    BY DEF Init
  <2>2. <<>> \in Seq(Data) /\ Len(<<>>) = 0
    BY EmptySeq
  <2>3. <<>> \o <<>> = <<>>
    BY <2>2, ConcatEmptySeq
  <2> QED
    BY <2>1, <2>2, <2>3, PackedEmpty DEF FramesInv, Filled
<1>2. TypeOK /\ FramesInv /\ [Next]_vars => FramesInv'
  <2> SUFFICES ASSUME TypeOK, FramesInv, [Next]_vars PROVE FramesInv'
    OBVIOUS
  <2>1. ASSUME NEW w \in Writers, NEW m \in Messages, LPCWriteDataEnqueue(w, m)
        PROVE  FramesInv'
    BY <2>1, FramesWrite
  <2>2. CASE Take
    BY <2>2, FramesTake
  <2>3. CASE UNCHANGED <<queue, history>>
    BY <2>3 DEF FramesInv, history
  <2>4. CASE UNCHANGED vars
    BY <2>3, <2>4 DEF vars
  <2>5. ASSUME NEW w \in Writers, Schedule(w) PROVE FramesInv'
    BY <2>3, <2>5 DEF Schedule
  <2>6. CASE \/ BecomesBusy \/ BecomesReady \/ MCUDQBuf_isr \/ lpc_suspend \/ lpc_resume
             \/ BeginWork \/ TestReady \/ NothingQueued \/ EndWork
    BY <2>3, <2>6 DEF BecomesBusy, BecomesReady, MCUDQBuf_isr, lpc_suspend, lpc_resume,
                      BeginWork, TestReady, NothingQueued, EndWork
  <2> QED
    BY <2>1, <2>2, <2>4, <2>5, <2>6 DEF Next, workFlyMCUDQBuf
<1>3. FramesInv => WholeFrames
  BY DEF FramesInv, WholeFrames
<1> QED
  BY <1>1, <1>2, <1>3, TypeCorrect, PTL DEF Spec
=============================================================================
