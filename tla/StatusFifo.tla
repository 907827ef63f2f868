------------------------------ MODULE StatusFifo ------------------------------
(***************************************************************************)
(* The queue behind /dev/flyaudio_pm0 (lidbg_rmtctrl.c): send_app_status   *)
(* and rmtctrl_fifo_in, called from timers, works, notifiers and writers,  *)
(* and rmtctrl_read, called by FlyBootService in a loop.  rmtctrl_sem      *)
(* guards the kfifo, but not the store to `status', the tests of           *)
(* is_kfifo_empty, or the wake-up.  Shown to implement StatusChannel.      *)
(***************************************************************************)
EXTENDS Naturals, Sequences

CONSTANTS
    Senders,    \* the contexts that call send_app_status
    Readers,    \* the threads that read the device
    Capacity,   \* rmtctrl_FIFO_SIZE / 4
    MaxSends,   \* bound on the calls of send_app_status
    Nobody      \* rmtctrl_sem is free

ASSUME FifoAssumption ==
    /\ Capacity \in Nat \ {0} /\ MaxSends \in Nat
    /\ Senders \cap Readers = {} /\ Nobody \notin Senders

VARIABLES
    status,     \* the atomic `status', as the number of the store
    fifo,       \* rmtctrl_state_fifo
    isEmpty,    \* is_kfifo_empty, one global for all readers
    sem,        \* the holder of rmtctrl_sem, or Nobody
    seen,       \* the local `i' of rmtctrl_fifo_in
    taken,      \* history: the last status read
    lost,       \* history: the last kfifo_in found the queue full
    pc

vars == <<status, fifo, isEmpty, sem, seen, taken, lost, pc>>

Labels == {"idle", "down", "in", "flag", "wake", "check", "test", "wait", "asleep", "out"}

Init ==
    /\ status = 0 /\ fifo = <<>> /\ isEmpty = TRUE /\ sem = Nobody
    /\ seen = [s \in Senders |-> 0]
    /\ taken = 0 /\ lost = FALSE
    /\ pc = [a \in Senders \cup Readers |-> "idle"]

Goto(a, from, to) == pc[a] = from /\ pc' = [pc EXCEPT ![a] = to]

----------------------------------------------------------------------------
(* send_app_status and rmtctrl_fifo_in *)

AtomicSet(s) ==
    /\ Goto(s, "idle", "down")
    /\ status < MaxSends
    /\ status' = status + 1
    /\ UNCHANGED <<fifo, isEmpty, sem, seen, taken, lost>>

(* Mutant: `status' is read before the semaphore is taken. *)
ReadBeforeDown(s) ==
    \/ /\ pc[s] = "down" /\ seen[s] = 0
       /\ seen' = [seen EXCEPT ![s] = status]
       /\ UNCHANGED <<status, fifo, isEmpty, sem, taken, lost, pc>>
    \/ /\ seen[s] # 0
       /\ Goto(s, "down", "in")
       /\ sem = Nobody /\ sem' = s
       /\ UNCHANGED <<status, fifo, isEmpty, seen, taken, lost>>

DownAndRead(s) ==
    /\ Goto(s, "down", "in")
    /\ sem = Nobody /\ sem' = s
    /\ seen' = [seen EXCEPT ![s] = status]
    /\ UNCHANGED <<status, fifo, isEmpty, taken, lost>>

(* Mutant: the oldest status makes room for the new one. *)
DropOldest(s) ==
    /\ Goto(s, "in", "flag")
    /\ fifo' = IF Len(fifo) < Capacity THEN Append(fifo, seen[s])
               ELSE Append(Tail(fifo), seen[s])
    /\ lost' = FALSE
    /\ seen' = [seen EXCEPT ![s] = 0]
    /\ UNCHANGED <<status, isEmpty, sem, taken>>

(* Mutant: the size of the queue is not looked at. *)
InsertAnyway(s) ==
    /\ Goto(s, "in", "flag")
    /\ fifo' = Append(fifo, seen[s])
    /\ lost' = FALSE
    /\ seen' = [seen EXCEPT ![s] = 0]
    /\ UNCHANGED <<status, isEmpty, sem, taken>>

kfifo_in(s) ==
    /\ Goto(s, "in", "flag")
    /\ fifo' = IF Len(fifo) < Capacity THEN Append(fifo, seen[s]) ELSE fifo
    /\ lost' = (Len(fifo) >= Capacity)
    /\ seen' = [seen EXCEPT ![s] = 0]
    /\ UNCHANGED <<status, isEmpty, sem, taken>>

(* Mutant: is_kfifo_empty is left to the readers. *)
UpOnly(s) ==
    /\ Goto(s, "flag", "wake")
    /\ sem' = Nobody
    /\ UNCHANGED <<status, fifo, isEmpty, seen, taken, lost>>

FlagAndUp(s) ==
    /\ Goto(s, "flag", "wake")
    /\ isEmpty' = FALSE
    /\ sem' = Nobody
    /\ UNCHANGED <<status, fifo, seen, taken, lost>>

(* wake_up_interruptible: every sleeper tests the condition again. *)
WakeUp(s) ==
    /\ pc[s] = "wake"
    /\ pc' = [a \in DOMAIN pc |-> IF a = s THEN "idle"
                                  ELSE IF pc[a] = "asleep" THEN "wait" ELSE pc[a]]
    /\ UNCHANGED <<status, fifo, isEmpty, sem, seen, taken, lost>>

rmtctrl_fifo_in(s) == DownAndRead(s) \/ kfifo_in(s) \/ FlagAndUp(s)
send_app_status(s) == AtomicSet(s) \/ rmtctrl_fifo_in(s) \/ WakeUp(s)

----------------------------------------------------------------------------
(* rmtctrl_read *)

Call(r) ==
    /\ Goto(r, "idle", "check")
    /\ UNCHANGED <<status, fifo, isEmpty, sem, seen, taken, lost>>

CheckEmpty(r) ==
    /\ Goto(r, "check", "test")
    /\ sem = Nobody
    /\ isEmpty' = (fifo = <<>>)
    /\ UNCHANGED <<status, fifo, sem, seen, taken, lost>>

TestFlag(r) ==
    /\ Goto(r, "test", IF isEmpty THEN "wait" ELSE "out")
    /\ UNCHANGED <<status, fifo, isEmpty, sem, seen, taken, lost>>

(* wait_event: a reader on the wait queue tests before it sleeps. *)
WaitEvent(r) ==
    /\ Goto(r, "wait", IF isEmpty THEN "asleep" ELSE "out")
    /\ UNCHANGED <<status, fifo, isEmpty, sem, seen, taken, lost>>

(* A signal (the freezer's, when the system suspends): -ERESTARTSYS. *)
Interrupted(r) ==
    /\ Goto(r, "asleep", "idle")
    /\ UNCHANGED <<status, fifo, isEmpty, sem, seen, taken, lost>>

(* Another reader may have emptied the queue: goto wait_for_data. *)
LenIsZero(r) ==
    /\ Goto(r, "out", "check")
    /\ sem = Nobody /\ fifo = <<>>
    /\ UNCHANGED <<status, fifo, isEmpty, sem, seen, taken, lost>>

kfifo_out(r) ==
    /\ Goto(r, "out", "idle")
    /\ sem = Nobody /\ fifo # <<>>
    /\ taken' = Head(fifo)
    /\ fifo' = Tail(fifo)
    /\ UNCHANGED <<status, isEmpty, sem, seen, lost>>

rmtctrl_read(r) == Call(r) \/ CheckEmpty(r) \/ TestFlag(r) \/ WaitEvent(r)
                   \/ LenIsZero(r) \/ kfifo_out(r)

----------------------------------------------------------------------------
Next ==
    \/ \E s \in Senders : send_app_status(s)
    \/ \E r \in Readers : rmtctrl_read(r) \/ Interrupted(r)

Spec == Init /\ [][Next]_vars

(* A sender runs to the end of its call; user space reads again and again. *)
(* Nobody need call send_app_status: AtomicSet has no fairness.            *)
Fairness ==
    /\ \A s \in Senders : WF_vars(rmtctrl_fifo_in(s)) /\ WF_vars(WakeUp(s))
    /\ \A r \in Readers : WF_vars(rmtctrl_read(r))

FairSpec == Spec /\ Fairness

----------------------------------------------------------------------------
(* Properties. *)

(* The queue never holds more than rmtctrl_FIFO_SIZE, however the          *)
(* insertions of several senders and the reads interleave.                 *)
TypeOK ==
    /\ status \in 0 .. MaxSends /\ taken \in 0 .. MaxSends
    /\ fifo \in Seq(1 .. MaxSends) /\ Len(fifo) <= Capacity
    /\ seen \in [Senders -> 0 .. MaxSends]
    /\ isEmpty \in BOOLEAN /\ lost \in BOOLEAN
    /\ sem \in Senders \cup {Nobody}
    /\ pc \in [Senders \cup Readers -> Labels]

(* No wake-up is lost: when a reader sleeps, or is about to because it has *)
(* read is_kfifo_empty, and the queue holds something, a sender still has  *)
(* the flag to clear or the wake-up to do.  The flag is one for all        *)
(* readers and is tested outside the semaphore.                            *)
SleeperWillBeWoken ==
    (fifo # <<>> /\ \E r \in Readers : pc[r] = "asleep" \/ (pc[r] = "wait" /\ isEmpty)) =>
        \E s \in Senders : pc[s] \in {"flag", "wake"}

(* User space sees the statuses in the order they were set: none that is   *)
(* read, or waits to be, is older than one before it, although the store   *)
(* and the insertion of several senders interleave.                        *)
InOrder ==
    /\ \A i \in 1 .. Len(fifo) : taken <= fifo[i] /\ fifo[i] <= status
    /\ \A i, j \in 1 .. Len(fifo) : i <= j => fifo[i] <= fifo[j]

(* The last word reaches user space: when no sender is between its store   *)
(* and its insertion, and the queue was not full, the last status posted   *)
(* is the driver's `status', so the two cannot disagree for ever.          *)
LastPostedIsStatus ==
    (~lost /\ \A s \in Senders : pc[s] \notin {"down", "in"}) =>
        status = IF fifo = <<>> THEN taken ELSE fifo[Len(fifo)]

(* The status is posted when rmtctrl_fifo_in reads it: from there to       *)
(* kfifo_in the sender holds the semaphore.                                *)
Posted(s) == IF Len(fifo) < Capacity THEN Append(fifo, seen[s]) ELSE fifo

Channel == INSTANCE StatusChannel WITH
    latest <- status,
    owing <- {s \in Senders : pc[s] = "down"},
    queue <- IF sem # Nobody /\ pc[sem] = "in" THEN Posted(sem) ELSE fifo

(* The code, with its semaphore, flag and wait queue, implements the       *)
(* channel; its fairness part says that no posted status waits for ever.   *)
ImplementsChannel == Channel!FairSpec
=============================================================================
