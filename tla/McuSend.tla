-------------------------------- MODULE McuSend -------------------------------
(***************************************************************************)
(* From user space to the MCU (lidbg_lpc.c): lpc_write puts a frame into   *)
(* wbuf_data_fifo and queues a work, which hands frame after frame to the  *)
(* I2C bus for as long as the MCU is not busy.  With CHECK_MCU_BUSY, the   *)
(* rising edge of the MCU's line queues the work again.  Suspending        *)
(* disables the interrupt.                                                 *)
(***************************************************************************)
EXTENDS McuWire

CONSTANTS
    Writers,        \* the threads that write the device
    Messages,       \* what they write
    FifoSize,       \* the size of wbuf_data_fifo
    CHECK_MCU_BUSY, \* the build looks at the MCU's line
    MaxWrites,      \* bound on the writes
    MaxBusy,        \* bound on how often the MCU becomes busy
    MaxSuspends     \* bound on the suspends

ASSUME SendAssumption ==
    /\ Messages \subseteq Seq(Byte) /\ \A m \in Messages : Len(m) < 255
    /\ FifoSize \in Nat \ {0, 1} /\ CHECK_MCU_BUSY \in BOOLEAN
    /\ MaxWrites \in Nat /\ MaxBusy \in Nat /\ MaxSuspends \in Nat

VARIABLES
    ready,          \* MCU_READ_BUSY_GPIO is high
    edge,           \* a rising edge the interrupt has not been taken for
    irqOn,          \* the interrupt is enabled: not between suspend and resume
    pending,        \* wBuf_work is queued
    work,           \* where workFlyMCUDQBuf is
    length_buf,     \* its local
    queue,          \* wbuf_data_fifo
    writer,         \* where lpc_write is

    written,        \* history: the frames of the writes, in the queue's order
    due,            \* history: the whole records in the queue, while not torn
    wire,           \* history: what was handed to SOC_I2C_Send
    torn,           \* history: a record was cut, the queue not empty since
    lost,           \* history: some record was cut or refused
    writes, busies, suspends

line == <<ready, edge, irqOn>>
history == <<written, due, wire, torn, lost>>
counts == <<writes, busies, suspends>>
vars == <<line, pending, work, length_buf, queue, writer, history, counts>>

Init ==
    /\ ready \in BOOLEAN /\ edge = FALSE /\ irqOn = TRUE
    /\ pending = FALSE /\ work = "idle" /\ length_buf = 0
    /\ queue = <<>> /\ writer = [w \in Writers |-> "idle"]
    /\ written = <<>> /\ due = <<>> /\ wire = <<>> /\ torn = FALSE /\ lost = FALSE
    /\ writes = 0 /\ busies = 0 /\ suspends = 0

(* The condition of the work's loop; lpc_work_en is never cleared. *)
MayLoop == CHECK_MCU_BUSY => ready

----------------------------------------------------------------------------
(* lpc_write.  User space is frozen while the system is suspended. *)

(* LPCWriteDataEnqueue. *)
LPCWriteDataEnqueue(w, m) ==
    /\ irqOn /\ writer[w] = "idle" /\ writes < MaxWrites
    /\ writes' = writes + 1
    /\ writer' = [writer EXCEPT ![w] = "schedule"]
    /\ queue' = Enqueue(queue, Frame(m), FifoSize)
    /\ LET full == Len(queue) = FifoSize
           cut == ~full /\ ~Fits(queue, Frame(m), FifoSize)
       IN  /\ torn' = (torn \/ cut)
           /\ lost' = (lost \/ cut \/ full)
           /\ due' = IF torn' THEN <<>> ELSE IF full THEN due ELSE Append(due, Frame(m))
    /\ written' = Append(written, Frame(m))
    /\ UNCHANGED <<line, pending, work, length_buf, wire, busies, suspends>>

(* Mutant: a work that runs is taken for one that is queued. *)
ScheduleUnlessBusy(w) ==
    /\ writer[w] = "schedule"
    /\ writer' = [writer EXCEPT ![w] = "idle"]
    /\ pending' = (pending \/ work = "idle")
    /\ UNCHANGED <<line, work, length_buf, queue, history, counts>>

Schedule(w) ==
    /\ writer[w] = "schedule"
    /\ writer' = [writer EXCEPT ![w] = "idle"]
    /\ pending' = TRUE
    /\ UNCHANGED <<line, work, length_buf, queue, history, counts>>

----------------------------------------------------------------------------
(* The MCU, and the interrupt controller, which keeps an edge that comes   *)
(* while the interrupt is disabled.                                        *)

BecomesBusy ==
    /\ ready /\ ready' = FALSE
    /\ busies < MaxBusy /\ busies' = busies + 1
    /\ UNCHANGED <<edge, irqOn, pending, work, length_buf, queue, writer,
                   history, writes, suspends>>

BecomesReady ==
    /\ ~ready /\ ready' = TRUE
    /\ edge' = (edge \/ CHECK_MCU_BUSY)
    /\ UNCHANGED <<irqOn, pending, work, length_buf, queue, writer, history, counts>>

MCUDQBuf_isr ==
    /\ irqOn /\ edge /\ edge' = FALSE
    /\ pending' = TRUE
    /\ UNCHANGED <<ready, irqOn, work, length_buf, queue, writer, history, counts>>

----------------------------------------------------------------------------
(* workFlyMCUDQBuf *)

BeginWork ==
    /\ pending /\ work = "idle"
    /\ pending' = FALSE /\ work' = "loop" /\ length_buf' = 0
    /\ UNCHANGED <<line, queue, writer, history, counts>>

TestReady ==
    /\ work = "loop"
    /\ work' = IF MayLoop THEN "take" ELSE "end"
    /\ UNCHANGED <<line, pending, length_buf, queue, writer, history, counts>>

NothingQueued ==
    /\ work = "take" /\ queue = <<>>
    /\ work' = "end"
    /\ UNCHANGED <<line, pending, length_buf, queue, writer, history, counts>>

(* The work has nothing left to do, and still runs until now. *)
EndWork ==
    /\ work = "end" /\ work' = "idle"
    /\ UNCHANGED <<line, pending, length_buf, queue, writer, history, counts>>

(* The result of SOC_I2C_Send is not looked at.  When the queue holds less *)
(* than length_buf says, what is sent after it is not initialised.         *)
Take ==
    /\ work = "take" /\ queue # <<>>
    /\ work' = "loop"
    /\ length_buf' = ReadLength(queue, length_buf)
    /\ queue' = AfterRecord(queue, length_buf')
    /\ wire' = IF length_buf' > 0 THEN Append(wire, Payload(queue, length_buf'))
               ELSE wire
    /\ torn' = (torn /\ queue' # <<>>)
    /\ due' = IF due = <<>> THEN <<>> ELSE Tail(due)
    /\ UNCHANGED <<line, pending, writer, written, lost, counts>>

workFlyMCUDQBuf == BeginWork \/ TestReady \/ NothingQueued \/ EndWork \/ Take

----------------------------------------------------------------------------
(* The freezer waits for lpc_write to return before the drivers suspend. *)

lpc_suspend ==
    /\ irqOn /\ \A w \in Writers : writer[w] = "idle"
    /\ suspends < MaxSuspends /\ suspends' = suspends + 1
    /\ irqOn' = FALSE
    /\ UNCHANGED <<ready, edge, pending, work, length_buf, queue, writer, history,
                   writes, busies>>

(* Mutant: the edges that came while suspended are dropped. *)
ResumeAfresh ==
    /\ ~irqOn /\ irqOn' = TRUE /\ edge' = FALSE
    /\ UNCHANGED <<ready, pending, work, length_buf, queue, writer, history, counts>>

lpc_resume ==
    /\ ~irqOn /\ irqOn' = TRUE
    /\ UNCHANGED <<ready, edge, pending, work, length_buf, queue, writer, history,
                   counts>>

----------------------------------------------------------------------------
Next ==
    \/ \E w \in Writers : Schedule(w) \/ \E m \in Messages : LPCWriteDataEnqueue(w, m)
    \/ BecomesBusy \/ BecomesReady \/ MCUDQBuf_isr
    \/ workFlyMCUDQBuf \/ lpc_suspend \/ lpc_resume

Spec == Init /\ [][Next]_vars

(* Calls and works run to their end, the MCU does not stay busy, and the   *)
(* system does not stay suspended.  Nobody need write.                     *)
Fairness ==
    /\ \A w \in Writers : WF_vars(Schedule(w))
    /\ WF_vars(workFlyMCUDQBuf) /\ WF_vars(MCUDQBuf_isr)
    /\ WF_vars(BecomesReady) /\ WF_vars(lpc_resume)

FairSpec == Spec /\ Fairness

----------------------------------------------------------------------------
(* Properties. *)

(* The queue stays within its buffer, and length_buf, which keeps its      *)
(* upper byte when only one byte is left to read, is a short.              *)
TypeOK ==
    /\ ready \in BOOLEAN /\ edge \in BOOLEAN /\ irqOn \in BOOLEAN
    /\ pending \in BOOLEAN /\ work \in {"idle", "loop", "take", "end"}
    /\ length_buf \in Short
    /\ queue \in Seq(Byte) /\ Len(queue) <= FifoSize
    /\ writer \in [Writers -> {"idle", "schedule"}]
    /\ torn \in BOOLEAN /\ lost \in BOOLEAN /\ (torn => lost)
    /\ writes \in 0 .. MaxWrites /\ busies \in 0 .. MaxBusy
    /\ suspends \in 0 .. MaxSuspends

(* The queue is a row of whole records until one is cut, and again once it *)
(* has run empty.  As long as nothing is cut or refused, what was handed   *)
(* to the bus and what is queued are the frames written, in their order,   *)
(* although writers, the work and the MCU interleave in every way.         *)
WholeFrames ==
    /\ ~torn => queue = Packed(due)
    /\ ~lost => wire \o due = written

(* Data that the MCU is ready for will be sent: the work is queued, or     *)
(* runs and is not about to end, a writer is about to queue it, or an edge *)
(* is waiting.  The work may find the MCU busy, or nothing queued, and end *)
(* while the line rises, or a writer adds a frame, or the interrupt is     *)
(* disabled.                                                               *)
NoDataStranded ==
    (queue # <<>> /\ MayLoop) =>
        pending \/ work \in {"loop", "take"} \/ edge \/ \E w \in Writers : writer[w] = "schedule"

(* With an MCU that becomes ready again the queue runs empty again. *)
EverythingSent == queue # <<>> ~> queue = <<>>
=============================================================================
