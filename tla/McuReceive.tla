------------------------------ MODULE McuReceive ------------------------------
(***************************************************************************)
(* From the MCU to user space (lidbg_lpc.c): the MCU pulls its request     *)
(* line low while it has bytes; the falling edge queues a work, which      *)
(* reads chunk after chunk over I2C until the line is high, feeds the      *)
(* parser (McuParser) and puts what it delivers into notify_data_fifo;     *)
(* lpc_read takes one record per call.  Suspending disables the interrupt. *)
(***************************************************************************)
EXTENDS McuParser

CONSTANTS
    Messages,       \* the payloads the MCU sends, in their order, none empty
    FifoSize,       \* HAL_NOTIFY_FIFO_SIZE
    MaxFaults,      \* bound on the I2C transfers that fail
    MaxSuspends     \* bound on the suspends

ASSUME ReceiveAssumption ==
    /\ Messages \in Seq(Payloads) /\ \A i \in DOMAIN Messages : Messages[i] # <<>>
    /\ FifoSize \in Nat \ {0, 1}
    /\ MaxFaults \in Nat /\ MaxSuspends \in Nat

VARIABLES
    mcu,            \* the bytes the MCU holds; the line is low when there are any
    edge,           \* a falling edge the interrupt has not been taken for
    irqOn,          \* the interrupt is enabled: not between suspend and resume
    wakelock,       \* lpc_wakelock, for SUSPEND_DATA_WAIT_TIME
    pending,        \* iic_work is queued
    work,           \* where workFlyMCUIIC is
    buff,           \* its buff[16]
    iReadLen,
    chunk,          \* the bytes of buff that are not parsed yet
    queue,          \* notify_data_fifo
    isEmpty,        \* is_kfifo_empty
    reader          \* where lpc_read is

VARIABLES           \* histories
    sent,           \* how many messages the MCU has sent
    due,            \* the whole records in the queue, while it is not torn
    got,            \* the payloads lpc_read has returned
    torn,           \* a record was cut and the queue has not been empty since
    lost,           \* some record was cut or refused
    enqueued,       \* calls of LPCReadDataEnqueue that woke the reader
    zeros,          \* reads that found the queue empty
    faults, suspends

driver == <<wakelock, pending, work, buff, iReadLen, parsing, chunk, queue, isEmpty, reader>>
history == <<due, got, torn, lost, enqueued, zeros>>
vars == <<mcu, edge, irqOn, driver, sent, history, faults, suspends>>

WorkLabels == {"idle", "line", "i2c", "feed", "flag", "wake", "end"}
ReadLabels == {"idle", "wait", "asleep", "out"}

Zeros(n) == [i \in 1 .. n |-> 0]

(* mcuFirstInit queues the work once: the line may be low already. *)
Init ==
    /\ sent \in {n \in {0, 1} : n <= Len(Messages)}
    /\ mcu = IF sent = 0 THEN <<>> ELSE Frame(Messages[1])
    /\ edge = FALSE /\ irqOn = TRUE /\ wakelock = FALSE
    /\ pending = TRUE /\ work = "idle"
    /\ buff = Zeros(16) /\ iReadLen = 12
    /\ ParserInit /\ chunk = <<>> /\ queue = <<>> /\ isEmpty = TRUE /\ reader = "idle"
    /\ due = <<>> /\ got = <<>> /\ torn = FALSE /\ lost = FALSE
    /\ enqueued = 0 /\ zeros = 0 /\ faults = 0 /\ suspends = 0

----------------------------------------------------------------------------
(* The MCU, and the interrupt controller, which keeps an edge that comes   *)
(* while the interrupt is disabled.                                        *)

McuSends ==
    /\ sent < Len(Messages) /\ sent' = sent + 1
    /\ mcu' = mcu \o Frame(Messages[sent'])
    /\ edge' = (edge \/ mcu = <<>>)
    /\ UNCHANGED <<irqOn, driver, history, faults, suspends>>

(* Mutant: the work is not queued again while it runs. *)
IsrSkipsBusy ==
    /\ irqOn /\ edge /\ edge' = FALSE
    /\ wakelock' = TRUE
    /\ pending' = (pending \/ work = "idle")
    /\ UNCHANGED <<mcu, irqOn, work, buff, iReadLen, parsing, chunk, queue,
                   isEmpty, reader, sent, history, faults, suspends>>

MCUIIC_isr ==
    /\ irqOn /\ edge /\ edge' = FALSE
    /\ wakelock' = TRUE
    /\ pending' = TRUE
    /\ UNCHANGED <<mcu, irqOn, work, buff, iReadLen, parsing, chunk, queue,
                   isEmpty, reader, sent, history, faults, suspends>>

----------------------------------------------------------------------------
(* workFlyMCUIIC, actualReadFromMCU, readFromMCUProcessor *)

Rest == <<edge, irqOn, wakelock, sent, suspends>>

BeginWork ==
    /\ pending /\ work = "idle"
    /\ pending' = FALSE /\ work' = "line" /\ iReadLen' = 12
    /\ UNCHANGED <<Rest, faults, mcu, buff, parsing, chunk, queue, isEmpty, reader, history>>

TestLine ==
    /\ work = "line"
    /\ work' = IF mcu = <<>> THEN "end" ELSE "i2c"
    /\ UNCHANGED <<Rest, faults, mcu, pending, buff, iReadLen, parsing, chunk, queue,
                   isEmpty, reader, history>>

(* The work has seen the line high, and still runs until now. *)
EndWork ==
    /\ work = "end" /\ work' = "idle"
    /\ UNCHANGED <<Rest, faults, mcu, pending, buff, iReadLen, parsing, chunk, queue,
                   isEmpty, reader, history>>

(* SOC_I2C_Rec_Simple; the MCU fills up with zeros. *)
ReadChunk ==
    /\ work = "i2c" /\ work' = "feed"
    /\ LET n == Least(Len(mcu), iReadLen)
       IN  /\ buff' = SubSeq(mcu, 1, n) \o Zeros(iReadLen - n)
                      \o SubSeq(buff, iReadLen + 1, 16)
           /\ mcu' = SubSeq(mcu, n + 1, Len(mcu))
    /\ chunk' = SubSeq(buff', 1, iReadLen)
    /\ UNCHANGED <<Rest, faults, pending, iReadLen, parsing, queue, isEmpty, reader,
                   history>>

(* The transfer fails; its result is not looked at and buff is parsed.  On *)
(* the first transfer buff has not been initialised: it holds what the     *)
(* stack does, for instance what the last run of the work left there.  The *)
(* MCU has given away none of its bytes, or all of the chunk.              *)
ReadFails ==
    /\ work = "i2c" /\ work' = "feed"
    /\ faults < MaxFaults /\ faults' = faults + 1
    /\ buff' \in {buff} \cup (IF iReadLen = 12 THEN {Zeros(16)} ELSE {})
    /\ chunk' = SubSeq(buff', 1, iReadLen)
    /\ \E n \in {0, Least(Len(mcu), iReadLen)} : mcu' = SubSeq(mcu, n + 1, Len(mcu))
    /\ UNCHANGED <<Rest, pending, iReadLen, parsing, queue, isEmpty, reader, history>>

(* Mutant: each chunk is parsed from the start of a frame. *)
EndChunkAndFrame ==
    /\ work = "feed" /\ chunk = <<>>
    /\ work' = "line" /\ iReadLen' = 16 /\ parser' = NoFrame
    /\ UNCHANGED <<Rest, faults, mcu, pending, buff, overrun, fed, out, chunk, queue,
                   isEmpty, reader, history>>

(* The state of the parser is kept for the next chunk. *)
EndChunk ==
    /\ work = "feed" /\ chunk = <<>>
    /\ work' = "line" /\ iReadLen' = 16
    /\ UNCHANGED <<Rest, faults, mcu, pending, buff, chunk, parsing, queue,
                   isEmpty, reader, history>>

(* A byte that does not end a good frame. *)
FeedByte ==
    /\ work = "feed" /\ chunk # <<>> /\ ~Delivers(parser, Head(chunk))
    /\ readFromMCUProcessor(Head(chunk)) /\ chunk' = Tail(chunk)
    /\ UNCHANGED <<Rest, faults, mcu, pending, work, buff, iReadLen, queue,
                   isEmpty, reader, history>>

(* The last byte of a good frame; under the lock. *)
LPCReadDataEnqueue ==
    /\ work = "feed" /\ chunk # <<>> /\ Delivers(parser, Head(chunk))
    /\ readFromMCUProcessor(Head(chunk)) /\ chunk' = Tail(chunk)
    /\ LET m == parser.buf
           full == Len(queue) = FifoSize
           cut == ~full /\ ~Fits(queue, m, FifoSize)
       IN  /\ queue' = Enqueue(queue, m, FifoSize)
           /\ work' = IF full THEN "feed" ELSE "flag"
           /\ torn' = (torn \/ cut)
           /\ lost' = (lost \/ cut \/ full)
           /\ due' = IF torn' THEN <<>> ELSE IF full THEN due ELSE Append(due, m)
    /\ UNCHANGED <<Rest, faults, mcu, pending, buff, iReadLen, isEmpty, reader,
                   got, enqueued, zeros>>

(* Mutant: is_kfifo_empty is left to lpc_read. *)
FlagUntouched ==
    /\ work = "flag" /\ work' = "wake"
    /\ enqueued' = enqueued + 1
    /\ UNCHANGED <<Rest, faults, mcu, pending, buff, iReadLen, parsing, chunk, queue,
                   isEmpty, reader, due, got, torn, lost, zeros>>

(* is_kfifo_empty = 0, after the lock has been given back. *)
ClearFlag ==
    /\ work = "flag" /\ work' = "wake"
    /\ isEmpty' = FALSE
    /\ enqueued' = enqueued + 1
    /\ UNCHANGED <<Rest, faults, mcu, pending, buff, iReadLen, parsing, chunk, queue,
                   reader, due, got, torn, lost, zeros>>

WakeUp ==
    /\ work = "wake" /\ work' = "feed"
    /\ reader' = IF reader = "asleep" THEN "wait" ELSE reader
    /\ UNCHANGED <<Rest, faults, mcu, pending, buff, iReadLen, parsing, chunk, queue,
                   isEmpty, history>>

workFlyMCUIIC ==
    \/ BeginWork \/ TestLine \/ EndWork \/ ReadChunk \/ EndChunk
    \/ FeedByte \/ LPCReadDataEnqueue \/ ClearFlag \/ WakeUp

----------------------------------------------------------------------------
(* lpc_read.  User space is frozen while the system is suspended. *)

Others == <<mcu, edge, irqOn, wakelock, pending, work, buff, iReadLen,
            parsing, chunk, sent, faults, suspends>>

(* Mutant: the flag, once cleared, is never set again. *)
KeepFlag ==
    /\ irqOn /\ reader = "idle" /\ reader' = "wait"
    /\ UNCHANGED <<Others, queue, isEmpty, history>>

SetFlag ==
    /\ irqOn /\ reader = "idle" /\ reader' = "wait"
    /\ isEmpty' = (queue = <<>>)
    /\ UNCHANGED <<Others, queue, history>>

(* The test of the flag, outside the lock, and that of wait_event. *)
WaitEvent ==
    /\ irqOn /\ reader = "wait"
    /\ reader' = IF isEmpty THEN "asleep" ELSE "out"
    /\ UNCHANGED <<Others, queue, isEmpty, history>>

(* A signal: -ERESTARTSYS. *)
Interrupted ==
    /\ irqOn /\ reader = "asleep" /\ reader' = "idle"
    /\ UNCHANGED <<Others, queue, isEmpty, history>>

(* Mutant: the length is not taken out of the queue with the data. *)
TakeBare ==
    /\ irqOn /\ reader = "out" /\ reader' = "idle"
    /\ LET n == ReadLength(queue, 0)
       IN  /\ queue' = SubSeq(queue, n + 1, Len(queue))
           /\ got' = IF n > 0 THEN Append(got, SubSeq(queue, 1, n)) ELSE got
           /\ zeros' = IF queue = <<>> THEN zeros + 1 ELSE zeros
    /\ torn' = (torn /\ queue' # <<>>)
    /\ due' = IF due = <<>> THEN <<>> ELSE Tail(due)
    /\ UNCHANGED <<Others, isEmpty, lost, enqueued>>

Take ==
    /\ irqOn /\ reader = "out" /\ reader' = "idle"
    /\ LET n == ReadLength(queue, 0)
       IN  /\ queue' = AfterRecord(queue, n)
           /\ got' = IF n > 0 THEN Append(got, Payload(queue, n)) ELSE got
           /\ zeros' = IF queue = <<>> THEN zeros + 1 ELSE zeros
    /\ torn' = (torn /\ queue' # <<>>)
    /\ due' = IF due = <<>> THEN <<>> ELSE Tail(due)
    /\ UNCHANGED <<Others, isEmpty, lost, enqueued>>

lpc_read == SetFlag \/ WaitEvent \/ Take

----------------------------------------------------------------------------
(* Power management. *)

LockExpires ==
    /\ wakelock /\ wakelock' = FALSE
    /\ UNCHANGED <<mcu, edge, irqOn, pending, work, buff, iReadLen, parsing, chunk,
                   queue, isEmpty, reader, sent, history, faults, suspends>>

(* The freezer interrupts a sleeping reader before the drivers suspend. *)
lpc_suspend ==
    /\ irqOn /\ ~wakelock /\ reader \in {"idle", "asleep"}
    /\ suspends < MaxSuspends /\ suspends' = suspends + 1
    /\ irqOn' = FALSE /\ reader' = "idle"
    /\ UNCHANGED <<mcu, edge, wakelock, pending, work, buff, iReadLen,
                   parsing, chunk, queue, isEmpty, sent, history, faults>>

lpc_resume ==
    /\ ~irqOn /\ irqOn' = TRUE
    /\ UNCHANGED <<mcu, edge, driver, sent, history, faults, suspends>>

----------------------------------------------------------------------------
(* The model ends where buffFromMCU is overrun. *)
Next ==
    /\ ~overrun
    /\ \/ McuSends \/ MCUIIC_isr \/ workFlyMCUIIC \/ ReadFails
       \/ lpc_read \/ Interrupted
       \/ LockExpires \/ lpc_suspend \/ lpc_resume

Spec == Init /\ [][Next]_vars

(* The interrupt is taken, the work runs, user space reads again and       *)
(* again, and the system does not stay suspended.                          *)
Fairness ==
    /\ WF_vars(~overrun /\ MCUIIC_isr) /\ WF_vars(~overrun /\ workFlyMCUIIC)
    /\ WF_vars(~overrun /\ lpc_read) /\ WF_vars(~overrun /\ lpc_resume)

FairSpec == Spec /\ Fairness

----------------------------------------------------------------------------
(* Properties. *)

(* A payload stays shorter than its length byte, unless that was zero, and *)
(* the queue within its buffer, whatever is parsed: after failed transfers *)
(* and cut records too.                                                    *)
TypeOK ==
    /\ mcu \in Seq(Byte) /\ sent \in 0 .. Len(Messages)
    /\ edge \in BOOLEAN /\ irqOn \in BOOLEAN /\ wakelock \in BOOLEAN
    /\ pending \in BOOLEAN /\ isEmpty \in BOOLEAN
    /\ work \in WorkLabels /\ reader \in ReadLabels
    /\ buff \in Seq(Byte) /\ Len(buff) = 16
    /\ iReadLen \in {12, 16} /\ chunk \in Seq(Byte) /\ Len(chunk) <= 16
    /\ parser \in ParserStates /\ overrun \in BOOLEAN
    /\ queue \in Seq(Byte) /\ Len(queue) <= FifoSize
    /\ torn \in BOOLEAN /\ lost \in BOOLEAN /\ (torn => lost)
    /\ enqueued \in Nat /\ zeros \in Nat

(* Every byte the MCU holds will be asked for: as long as its line is low  *)
(* an edge waits to be taken, or the work is queued, or runs and has not   *)
(* seen the line high.  An edge that comes when the work has seen it and   *)
(* is about to end must not be lost, nor one that comes while suspended,   *)
(* nor a line that was low before the interrupt was requested.             *)
NoRequestStranded ==
    mcu # <<>> => edge \/ pending \/ work \notin {"idle", "end"}

(* The queue is a row of whole records, of what the parser delivered and   *)
(* in its order, until one is cut; and again once it has run empty.        *)
WholeRecords == ~torn => queue = Packed(due)

(* As long as no transfer fails and the queue is never too full, user      *)
(* space gets what the MCU sent, nothing twice and nothing left out, in    *)
(* order: what it has read, then what is queued, then what is not parsed;  *)
(* and once all the MCU held is parsed there is nothing of the third.      *)
DeliveredInOrder ==
    (faults = 0 /\ ~lost) =>
        /\ IsPrefix(got \o due, SubSeq(Messages, 1, sent))
        /\ (mcu = <<>> /\ chunk = <<>>) => got \o due = SubSeq(Messages, 1, sent)

(* lpc_read may return nothing, because is_kfifo_empty is cleared outside  *)
(* the lock after the record has been read; but at most once per record,   *)
(* so a program that reads in a loop does not spin.                        *)
EmptyReadsAreRare == zeros <= enqueued

(* All the MCU sends is taken from it and from the queue in the end,       *)
(* whatever is lost on the way, and however often the system suspends,     *)
(* unless buffFromMCU is overrun.                                          *)
EverythingRead ==
    (mcu # <<>> \/ queue # <<>>) ~> (mcu = <<>> /\ queue = <<>>) \/ overrun
=============================================================================
