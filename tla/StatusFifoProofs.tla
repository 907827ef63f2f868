--------------------------- MODULE StatusFifoProofs ---------------------------
(***************************************************************************)
(* For every number of senders and readers and every capacity: the queue   *)
(* of lidbg_rmtctrl.c keeps the order of the statuses, loses no wake-up,   *)
(* posts the driver's last word, and implements StatusChannel step by      *)
(* step.  (The fairness part of ImplementsChannel stays with TLC.)         *)
(***************************************************************************)
EXTENDS StatusFifo, SequenceTheorems, TLAPS

SenderLabels == {"idle", "down", "in", "flag", "wake"}
ReaderLabels == {"idle", "check", "test", "wait", "asleep", "out"}

(* Who is where, and the semaphore's holder is where it is held. *)
SemInv ==
    /\ \A s \in Senders : pc[s] \in SenderLabels /\ (sem = s <=> pc[s] \in {"in", "flag"})
    /\ \A r \in Readers : pc[r] \in ReaderLabels
    /\ \A s \in Senders : pc[s] \in {"down", "in"} => status >= 1
    /\ \A s \in Senders : pc[s] = "in" => seen[s] >= 1

(* A sender about to insert has a status no older than any posted. *)
NewerThanPosted ==
    /\ taken <= status
    /\ \A s \in Senders : pc[s] = "in" =>
        /\ seen[s] \in 1 .. status
        /\ taken <= seen[s]
        /\ \A i \in 1 .. Len(fifo) : fifo[i] <= seen[s]

OrderInv == InOrder /\ NewerThanPosted

(* With no store left to be read, the sender in `in' has the last one. *)
LastRead ==
    (\A s \in Senders : pc[s] # "down") =>
        \A s \in Senders : pc[s] = "in" => seen[s] = status

(* What makes SleeperWillBeWoken inductive: a flag that is stale is so     *)
(* only while its sender is about to clear it.                             *)
WakeInv ==
    /\ (fifo # <<>> /\ isEmpty) => \E s \in Senders : pc[s] = "flag"
    /\ (fifo # <<>> /\ \E r \in Readers : pc[r] = "asleep") =>
            \E s \in Senders : pc[s] \in {"flag", "wake"}

TypeInv == TypeOK /\ SemInv

LEMMA InitType == Init => TypeInv
<1> SUFFICES ASSUME Init PROVE TypeInv
  OBVIOUS
<1> USE FifoAssumption DEF Init
<1>1. TypeOK
  <2>1. <<>> \in Seq(1 .. MaxSends) /\ Len(<<>>) = 0
    OBVIOUS
  <2>2. pc \in [Senders \cup Readers -> Labels]
    BY DEF Labels
  <2>3. isEmpty \in BOOLEAN /\ lost \in BOOLEAN
    BY Zenon
  <2>4. /\ status \in 0 .. MaxSends /\ taken \in 0 .. MaxSends
        /\ seen \in [Senders -> 0 .. MaxSends] /\ sem \in Senders \cup {Nobody}
    OBVIOUS
  <2>5. fifo \in Seq(1 .. MaxSends) /\ Len(fifo) <= Capacity
    BY <2>1
  <2>. QED BY <2>2, <2>3, <2>4, <2>5 DEF TypeOK
<1>2. SemInv
  BY DEF SemInv, SenderLabels, ReaderLabels
<1>. QED BY <1>1, <1>2 DEF TypeInv

LEMMA StepType == TypeInv /\ [Next]_vars => TypeInv'
<1> SUFFICES ASSUME TypeInv, [Next]_vars PROVE TypeInv'
  OBVIOUS
<1> USE FifoAssumption DEF TypeInv, TypeOK, SemInv, Labels, SenderLabels, ReaderLabels, Goto
<1>1. ASSUME NEW s \in Senders, AtomicSet(s) PROVE TypeInv'
  BY <1>1 DEF AtomicSet
<1>2. ASSUME NEW s \in Senders, DownAndRead(s) PROVE TypeInv'
  BY <1>2 DEF DownAndRead
<1>3. ASSUME NEW s \in Senders, kfifo_in(s) PROVE TypeInv'
  <2> USE <1>3 DEF kfifo_in
  <2>1. seen[s] \in 1 .. MaxSends
    OBVIOUS
  <2>2. CASE Len(fifo) < Capacity
    <3>1. fifo' = Append(fifo, seen[s])
      BY <2>2
    <3>. QED BY <2>1, <2>2, <3>1
  <2>3. CASE ~(Len(fifo) < Capacity)
    <3>1. fifo' = fifo
      BY <2>3
    <3>. QED BY <2>1, <3>1
  <2>. QED BY <2>2, <2>3
<1>4. ASSUME NEW s \in Senders, FlagAndUp(s) PROVE TypeInv'
  BY <1>4 DEF FlagAndUp
<1>5. ASSUME NEW s \in Senders, WakeUp(s) PROVE TypeInv'
  BY <1>5 DEF WakeUp
<1>6. ASSUME NEW r \in Readers, rmtctrl_read(r) PROVE TypeInv'
  <2>1. CASE Call(r)
    BY <2>1 DEF Call
  <2>2. CASE CheckEmpty(r)
    BY <2>2 DEF CheckEmpty
  <2>3. CASE TestFlag(r)
    BY <2>3 DEF TestFlag
  <2>4. CASE WaitEvent(r)
    BY <2>4 DEF WaitEvent
  <2>5. CASE LenIsZero(r)
    BY <2>5 DEF LenIsZero
  <2>6. CASE kfifo_out(r)
    BY <2>6 DEF kfifo_out
  <2>. QED BY <1>6, <2>1, <2>2, <2>3, <2>4, <2>5, <2>6 DEF rmtctrl_read
<1>7. ASSUME NEW r \in Readers, Interrupted(r) PROVE TypeInv'
  BY <1>7 DEF Interrupted
<1>8. CASE UNCHANGED vars
  BY <1>8 DEF vars
<1>. QED BY <1>1, <1>2, <1>3, <1>4, <1>5, <1>6, <1>7, <1>8
         DEF Next, send_app_status, rmtctrl_fifo_in

(* The queue never holds more than its capacity and the semaphore has one  *)
(* holder at a time, where rmtctrl_fifo_in holds it.                       *)
THEOREM TypeCorrect == Spec => [](TypeOK /\ SemInv)
<1>1. Init => TypeInv
  BY InitType
<1>2. TypeInv /\ [Next]_vars => TypeInv'
  BY StepType
<1>. QED BY <1>1, <1>2, PTL DEF Spec, TypeInv

----------------------------------------------------------------------------
LEMMA StepOrder == TypeInv /\ OrderInv /\ [Next]_vars => OrderInv'
<1> SUFFICES ASSUME TypeInv, OrderInv, [Next]_vars PROVE OrderInv'
  OBVIOUS
<1> USE FifoAssumption
    DEF TypeInv, TypeOK, SemInv, OrderInv, InOrder, NewerThanPosted, Goto
<1>1. ASSUME NEW s \in Senders, AtomicSet(s) PROVE OrderInv'
  BY <1>1 DEF AtomicSet
<1>2. ASSUME NEW s \in Senders, DownAndRead(s) PROVE OrderInv'
  <2> USE <1>2 DEF DownAndRead
  <2>1. InOrder'
    OBVIOUS
  <2>2. NewerThanPosted'
    OBVIOUS
  <2>. QED BY <2>1, <2>2
<1>3. ASSUME NEW s \in Senders, kfifo_in(s) PROVE OrderInv'
  <2> USE <1>3 DEF kfifo_in
  <2>1. NewerThanPosted'
    OBVIOUS
  <2>2. CASE Len(fifo) < Capacity
    <3>1. fifo' = Append(fifo, seen[s])
      BY <2>2
    <3>2. Len(fifo') = Len(fifo) + 1 /\ fifo'[Len(fifo) + 1] = seen[s]
      BY <3>1
    <3>3. \A i \in 1 .. Len(fifo) : fifo'[i] = fifo[i]
      BY <3>1
    <3>. QED BY <2>1, <3>2, <3>3
  <2>3. CASE ~(Len(fifo) < Capacity)
    <3>1. fifo' = fifo
      BY <2>3
    <3>. QED BY <2>1, <3>1
  <2>. QED BY <2>2, <2>3
<1>4. ASSUME NEW s \in Senders, FlagAndUp(s) PROVE OrderInv'
  BY <1>4 DEF FlagAndUp
<1>5. ASSUME NEW s \in Senders, WakeUp(s) PROVE OrderInv'
  BY <1>5 DEF WakeUp
<1>6. ASSUME NEW r \in Readers, kfifo_out(r) PROVE OrderInv'
  <2> USE <1>6 DEF kfifo_out
  <2>1. Len(fifo') = Len(fifo) - 1 /\ \A i \in 1 .. Len(fifo') : fifo'[i] = fifo[i + 1]
    OBVIOUS
  <2>2. taken' = fifo[1] /\ 1 \in 1 .. Len(fifo)
    OBVIOUS
  <2>3. InOrder'
    BY <2>1, <2>2
  <2>4. NewerThanPosted'
    OBVIOUS
  <2>. QED BY <2>3, <2>4
<1>7. ASSUME NEW r \in Readers, rmtctrl_read(r) \/ Interrupted(r), ~kfifo_out(r)
      PROVE OrderInv'
  BY <1>7 DEF rmtctrl_read, Interrupted, Call, CheckEmpty, TestFlag, WaitEvent, LenIsZero
<1>8. CASE UNCHANGED vars
  BY <1>8 DEF vars
<1>. QED BY <1>1, <1>2, <1>3, <1>4, <1>5, <1>6, <1>7, <1>8
         DEF Next, send_app_status, rmtctrl_fifo_in

(* Whatever senders interleave, user space reads the statuses in the order *)
(* in which the driver set them.                                           *)
THEOREM StatusesInOrder == Spec => []InOrder
<1>1. Init => TypeInv /\ OrderInv
  <2>1. Init => OrderInv
    BY DEF Init, OrderInv, InOrder, NewerThanPosted
  <2>. QED BY <2>1, InitType
<1>2. TypeInv /\ OrderInv /\ [Next]_vars => (TypeInv /\ OrderInv)'
  BY StepType, StepOrder
<1>3. OrderInv => InOrder
  BY DEF OrderInv
<1>. QED BY <1>1, <1>2, <1>3, PTL DEF Spec

----------------------------------------------------------------------------
LEMMA TailFacts ==
  ASSUME NEW S, NEW q \in Seq(S), q # <<>>
  PROVE  /\ Len(q) = 1 => Tail(q) = <<>> /\ Head(q) = q[Len(q)]
         /\ Len(q) # 1 => Tail(q) # <<>> /\ Tail(q)[Len(Tail(q))] = q[Len(q)]
<1>1. Len(q) \in Nat \ {0} /\ Head(q) = q[1]
  BY EmptySeq
<1>2. /\ Tail(q) \in Seq(S) /\ Len(Tail(q)) = Len(q) - 1
      /\ \A i \in 1 .. Len(Tail(q)) : Tail(q)[i] = q[i + 1]
  BY HeadTailProperties
<1>3. CASE Len(q) = 1
  <2>1. Len(Tail(q)) = 0
    BY <1>2, <1>3
  <2>2. Tail(q) = <<>>
    BY <1>2, <2>1, EmptySeq
  <2>. QED BY <1>1, <1>3, <2>2
<1>4. CASE Len(q) # 1
  <2>1. Len(Tail(q)) \in 1 .. Len(Tail(q)) /\ Len(Tail(q)) + 1 = Len(q)
    BY <1>1, <1>2, <1>4
  <2>2. Tail(q)[Len(Tail(q))] = q[Len(q)]
    BY <1>2, <2>1
  <2>3. Len(<<>>) = 0 /\ Len(Tail(q)) # 0
    BY <2>1, EmptySeq
  <2>4. Tail(q) # <<>>
    BY <2>3, Zenon
  <2>. QED BY <1>4, <2>2, <2>4
<1>. QED BY <1>3, <1>4

LastInv == LastPostedIsStatus /\ LastRead

LEMMA StepLast == TypeInv /\ LastInv /\ [Next]_vars => LastInv'
<1> SUFFICES ASSUME TypeInv, LastInv, [Next]_vars PROVE LastInv'
  OBVIOUS
<1> USE FifoAssumption
    DEF TypeInv, TypeOK, SemInv, LastInv, LastPostedIsStatus, LastRead, Goto
<1>1. ASSUME NEW s \in Senders, AtomicSet(s) PROVE LastInv'
  BY <1>1 DEF AtomicSet
<1>2. ASSUME NEW s \in Senders, DownAndRead(s) PROVE LastInv'
  <2> USE <1>2 DEF DownAndRead
  <2>1. \A t \in Senders : pc'[t] = "in" => t = s
    OBVIOUS
  <2>. QED BY <2>1
<1>3. ASSUME NEW s \in Senders, kfifo_in(s) PROVE LastInv'
  <2> USE <1>3 DEF kfifo_in
  <2>1. CASE Len(fifo) < Capacity
    <3>1. fifo' = Append(fifo, seen[s])
      BY <2>1
    <3>2. fifo' # <<>> /\ fifo'[Len(fifo')] = seen[s]
      BY <3>1
    <3>. QED BY <3>2
  <2>2. CASE ~(Len(fifo) < Capacity)
    <3>1. Len(fifo) >= Capacity
      BY <2>2
    <3>. HIDE DEF LastInv, TypeInv
    <3>2. lost'
      BY <3>1, Zenon
    <3>3. LastRead'
      BY DEF LastInv, TypeInv
    <3>. QED BY <3>2, <3>3 DEF LastInv
  <2>. QED BY <2>1, <2>2
<1>4. ASSUME NEW s \in Senders, FlagAndUp(s) PROVE LastInv'
  BY <1>4 DEF FlagAndUp
<1>5. ASSUME NEW s \in Senders, WakeUp(s) PROVE LastInv'
  BY <1>5 DEF WakeUp
<1>6. ASSUME NEW r \in Readers, kfifo_out(r) PROVE LastInv'
  <2> USE <1>6 DEF kfifo_out
  <2>1. (IF fifo' = <<>> THEN taken' ELSE fifo'[Len(fifo')]) = fifo[Len(fifo)]
    BY TailFacts
  <2>2. LastRead'
    OBVIOUS
  <2>3. LastPostedIsStatus'
    BY <2>1
  <2>. QED BY <2>2, <2>3
<1>7. ASSUME NEW r \in Readers, rmtctrl_read(r) \/ Interrupted(r), ~kfifo_out(r)
      PROVE LastInv'
  BY <1>7 DEF rmtctrl_read, Interrupted, Call, CheckEmpty, TestFlag, WaitEvent, LenIsZero
<1>8. CASE UNCHANGED vars
  BY <1>8 DEF vars
<1>. QED BY <1>1, <1>2, <1>3, <1>4, <1>5, <1>6, <1>7, <1>8
         DEF Next, send_app_status, rmtctrl_fifo_in

(* When every sender has posted and the queue was not full, the last entry *)
(* is the driver's status: a status passed over is replaced by a newer.    *)
THEOREM LastWord == Spec => []LastPostedIsStatus
<1>1. Init => TypeInv /\ LastInv
  <2>1. Init => LastInv
    BY DEF Init, LastInv, LastPostedIsStatus, LastRead
  <2>. QED BY <2>1, InitType
<1>2. TypeInv /\ LastInv /\ [Next]_vars => (TypeInv /\ LastInv)'
  BY StepType, StepLast
<1>3. LastInv => LastPostedIsStatus
  BY DEF LastInv
<1>. QED BY <1>1, <1>2, <1>3, PTL DEF Spec

----------------------------------------------------------------------------
LEMMA StepWake == TypeInv /\ WakeInv /\ [Next]_vars => WakeInv'
<1> SUFFICES ASSUME TypeInv, WakeInv, [Next]_vars PROVE WakeInv'
  OBVIOUS
<1> USE FifoAssumption
    DEF TypeInv, TypeOK, SemInv, WakeInv, Goto, SenderLabels, ReaderLabels
<1>1. ASSUME NEW s \in Senders, AtomicSet(s) PROVE WakeInv'
  BY <1>1 DEF AtomicSet
<1>2. ASSUME NEW s \in Senders, DownAndRead(s) PROVE WakeInv'
  BY <1>2 DEF DownAndRead
<1>3. ASSUME NEW s \in Senders, kfifo_in(s) PROVE WakeInv'
  BY <1>3 DEF kfifo_in
<1>4. ASSUME NEW s \in Senders, FlagAndUp(s) PROVE WakeInv'
  BY <1>4 DEF FlagAndUp
<1>5. ASSUME NEW s \in Senders, WakeUp(s) PROVE WakeInv'
  BY <1>5 DEF WakeUp
<1>6. ASSUME NEW r \in Readers, rmtctrl_read(r) PROVE WakeInv'
  <2>1. CASE Call(r)
    BY <2>1 DEF Call
  <2>2. CASE CheckEmpty(r)
    BY <2>2 DEF CheckEmpty
  <2>3. CASE TestFlag(r)
    BY <2>3 DEF TestFlag
  <2>4. CASE WaitEvent(r)
    BY <2>4 DEF WaitEvent
  <2>5. CASE LenIsZero(r)
    BY <2>5 DEF LenIsZero
  <2>6. CASE kfifo_out(r)
    BY <2>6 DEF kfifo_out
  <2>. QED BY <1>6, <2>1, <2>2, <2>3, <2>4, <2>5, <2>6 DEF rmtctrl_read
<1>7. ASSUME NEW r \in Readers, Interrupted(r) PROVE WakeInv'
  BY <1>7 DEF Interrupted
<1>8. CASE UNCHANGED vars
  BY <1>8 DEF vars
<1>. QED BY <1>1, <1>2, <1>3, <1>4, <1>5, <1>6, <1>7, <1>8
         DEF Next, send_app_status, rmtctrl_fifo_in

(* A reader asleep, or about to sleep on a stale flag, beside a queue that *)
(* holds something has its wake-up on the way: the flag and the wait queue *)
(* are used so that none is lost, for any number of readers and senders.   *)
THEOREM NoLostWakeup == Spec => []SleeperWillBeWoken
<1>1. Init => TypeInv /\ WakeInv
  <2>1. Init => WakeInv
    BY DEF Init, WakeInv
  <2>. QED BY <2>1, InitType
<1>2. TypeInv /\ WakeInv /\ [Next]_vars => (TypeInv /\ WakeInv)'
  BY StepType, StepWake
<1>3. WakeInv => SleeperWillBeWoken
  BY DEF WakeInv, SleeperWillBeWoken
<1>. QED BY <1>1, <1>2, <1>3, PTL DEF Spec

----------------------------------------------------------------------------
(* Refinement: the read of `status' inside the semaphore is the Post.      *)

InSection == sem # Nobody /\ pc[sem] = "in"
chanQueue == IF InSection THEN Posted(sem) ELSE fifo

LEMMA ChannelInit == Init => Channel!Init
  BY DEF Init, Channel!Init

LEMMA ChannelStep == TypeInv /\ [Next]_vars => [Channel!Next]_(Channel!chan)
<1> SUFFICES ASSUME TypeInv, [Next]_vars PROVE [Channel!Next]_(Channel!chan)
  OBVIOUS
<1> USE FifoAssumption DEF TypeInv, TypeOK, SemInv, Goto, SenderLabels, ReaderLabels
<1> DEFINE owing == {s \in Senders : pc[s] = "down"}
<1>1. ASSUME NEW s \in Senders, AtomicSet(s) PROVE Channel!Set(s)
  <2> USE <1>1 DEF AtomicSet
  <2>1. owing' = owing \cup {s} /\ s \notin owing
    OBVIOUS
  <2>2. chanQueue' = chanQueue
    BY DEF chanQueue, InSection, Posted
  <2>. QED BY <2>1, <2>2 DEF Channel!Set, chanQueue, InSection
<1>2. ASSUME NEW s \in Senders, DownAndRead(s) PROVE Channel!Post(s)
  <2> USE <1>2 DEF DownAndRead
  <2>1. owing' = owing \ {s} /\ s \in owing
    OBVIOUS
  <2>2. chanQueue = fifo /\ InSection' /\ sem' = s
    BY DEF chanQueue, InSection
  <2>3. chanQueue' = IF Len(fifo) < Capacity THEN Append(fifo, status) ELSE fifo
    BY <2>2 DEF chanQueue, Posted
  <2>. QED BY <2>1, <2>2, <2>3 DEF Channel!Post, chanQueue, InSection
<1>3. ASSUME NEW s \in Senders, kfifo_in(s) \/ FlagAndUp(s) \/ WakeUp(s)
      PROVE UNCHANGED Channel!chan
  <2>1. owing' = owing /\ status' = status /\ taken' = taken
    BY <1>3 DEF kfifo_in, FlagAndUp, WakeUp
  <2>2. chanQueue' = chanQueue
    <3>1. CASE kfifo_in(s)
      <4>1. sem = s /\ InSection /\ ~InSection'
        BY <3>1 DEF kfifo_in, InSection
      <4>. QED BY <3>1, <4>1 DEF kfifo_in, chanQueue, Posted
    <3>2. CASE FlagAndUp(s)
      <4>1. ~InSection /\ ~InSection' /\ fifo' = fifo
        BY <3>2 DEF FlagAndUp, InSection
      <4>. QED BY <4>1 DEF chanQueue
    <3>3. CASE WakeUp(s)
      <4>1. (InSection <=> InSection') /\ fifo' = fifo /\ sem' = sem /\ seen' = seen
        BY <3>3 DEF WakeUp, InSection
      <4>. QED BY <4>1 DEF chanQueue, Posted
    <3>. QED BY <1>3, <3>1, <3>2, <3>3
  <2>. QED BY <2>1, <2>2 DEF Channel!chan, chanQueue, InSection
<1>4. ASSUME NEW r \in Readers, kfifo_out(r) PROVE Channel!Take
  <2> USE <1>4 DEF kfifo_out
  <2>1. owing' = owing
    OBVIOUS
  <2>2. chanQueue = fifo /\ chanQueue' = fifo'
    BY DEF chanQueue, InSection
  <2>. QED BY <2>1, <2>2 DEF Channel!Take, chanQueue, InSection
<1>5. ASSUME NEW r \in Readers, rmtctrl_read(r) \/ Interrupted(r), ~kfifo_out(r)
      PROVE UNCHANGED Channel!chan
  <2> USE <1>5 DEF rmtctrl_read, Interrupted, Call, CheckEmpty, TestFlag, WaitEvent, LenIsZero
  <2>1. owing' = owing /\ status' = status /\ taken' = taken
    OBVIOUS
  <2>2. (InSection <=> InSection') /\ fifo' = fifo /\ sem' = sem /\ seen' = seen
    BY DEF InSection
  <2>3. chanQueue' = chanQueue
    BY <2>2 DEF chanQueue, Posted
  <2>. QED BY <2>1, <2>3 DEF Channel!chan, chanQueue, InSection
<1>6. CASE UNCHANGED vars
  BY <1>6 DEF vars, Channel!chan, Posted
<1>. QED BY <1>1, <1>2, <1>3, <1>4, <1>5, <1>6
         DEF Next, send_app_status, rmtctrl_fifo_in, Channel!Next

(* The code implements the safety part of the channel: the newest status   *)
(* is what a call posts, in order, and a full queue drops the new one.     *)
THEOREM ChannelSafety == Spec => Channel!Spec
<1>1. Init => TypeInv
  BY InitType
<1>2. TypeInv /\ [Next]_vars => TypeInv'
  BY StepType
<1>. QED BY <1>1, <1>2, ChannelInit, ChannelStep, PTL DEF Spec, Channel!Spec
=============================================================================
