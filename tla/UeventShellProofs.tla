-------------------------- MODULE UeventShellProofs --------------------------
(***************************************************************************)
(* The commands are read as they were queued.  Two facts carry the proof:  *)
(* until a record is cut the queue is a row of records, each the length of *)
(* a command and then the command; and how far it can be filled grows with *)
(* the number of those who found room together, since the room is tested   *)
(* before the mutex is taken.                                              *)
(***************************************************************************)
EXTENDS UeventShell, QueueProofs, FiniteSetTheorems

----------------------------------------------------------------------------
(* Types, and who holds fifo_lock. *)

CallerLabels == {"idle", "test", "lock", "data", "wake"}
Labels == CallerLabels \cup {"register", "poll", "epoll_wait", "read", "take", "get", "system"}

CallType ==
    /\ pc \in [Shells -> Labels] /\ \A p \in Callers : pc[p] \in CallerLabels
    /\ shell_cmd \in [Shells -> Seq(Nat)]
    /\ \A p \in Shells : pc[p] \in {"test", "lock", "data"} => shell_cmd[p] \in Commands
    /\ script \in Seq(Commands)

QueueType ==
    /\ cmd_fifo \in Seq(Nat) /\ mstrlen \in Nat
    /\ ready \in BOOLEAN /\ calls \in Nat

LockInv ==
    /\ fifo_lock \in Shells \cup {Nobody}
    /\ \A p \in Shells : fifo_lock = p <=> pc[p] \in {"data", "get"}

TypeInv == CallType /\ QueueType /\ LockInv

LEMMA ShellFacts ==
    /\ Server \in Shells /\ Nobody \notin Shells
    /\ \A p \in Callers : p \in Shells /\ p # Server
    /\ \A p \in Shells : p = Server \/ p \in Callers
    /\ \A c \in Commands : c \in Seq(Nat) /\ Len(c) \in Nat
BY UeventAssumption, LenProperties DEF Shells

(* What Goto changes. *)
LEMMA Went ==
    ASSUME pc \in [Shells -> Labels], NEW p \in Shells, NEW l \in Labels, Goto(p, l)
    PROVE  /\ pc' \in [Shells -> Labels] /\ pc'[p] = l
           /\ \A q \in Shells : q # p => pc'[q] = pc[q]
BY DEF Goto

(* What taking a command up, or letting it go, changes. *)
LEMMA TookUp ==
    ASSUME shell_cmd \in [Shells -> Seq(Nat)], NEW p \in Shells, NEW c \in Seq(Nat),
           shell_cmd' = [shell_cmd EXCEPT ![p] = c]
    PROVE  /\ shell_cmd' \in [Shells -> Seq(Nat)] /\ shell_cmd'[p] = c
           /\ \A q \in Shells : q # p => shell_cmd'[q] = shell_cmd[q]
OBVIOUS

(* What kfifo_in makes of a queue, and all of it when there is room. *)
LEMMA KfifoInType ==
    ASSUME NEW q \in Seq(Nat), NEW w \in Seq(Nat)
    PROVE  /\ KfifoIn(q, w) \in Seq(Nat)
           /\ q # <<>> => KfifoIn(q, w) # <<>>
           /\ Len(KfifoIn(q, w)) >= Len(q)
           /\ ~Cut(q, w) => KfifoIn(q, w) = q \o w
<1>1. PICK n \in Nat, m \in Nat : n = Len(q) /\ m = Len(w)
  BY LenProperties
<1>r. PICK room \in Int : room = Capacity - n
  BY UeventAssumption
<1>2. PICK k \in Int : k = (IF m <= room THEN m ELSE room) /\ k <= m
  OBVIOUS
<1>3. PICK s \in Seq(Nat) : s = SubSeq(w, 1, k)
  <2>1. \A i \in 1 .. k : w[i] \in Nat
    BY <1>1, <1>2, ElementOfSeq
  <2>2. 1 \in Int
    OBVIOUS
  <2>3. SubSeq(w, 1, k) \in Seq(Nat)
    BY <2>1, <2>2, SubSeqProperties
  <2> QED
    BY <2>3
<1>4. KfifoIn(q, w) = q \o s
  BY <1>1, <1>r, <1>2, <1>3 DEF KfifoIn
<1>5. q \o s \in Seq(Nat) /\ Len(q \o s) = Len(q) + Len(s) /\ Len(s) \in Nat
  BY ConcatProperties, LenProperties
<1>6. q # <<>> => q \o s # <<>>
  BY <1>1, <1>5, EmptySeq
<1>7. ~Cut(q, w) => s = w
  BY <1>1, <1>r, <1>2, <1>3, SubSeqFull, UeventAssumption DEF Cut
<1>8. Len(q \o s) >= Len(q)
  BY <1>1, <1>5
<1> QED
  BY <1>4, <1>5, <1>6, <1>7, <1>8

(* A process moves on: what must hold of where it goes. *)
LEMMA CallTypeKept ==
    ASSUME CallType, NEW p \in Shells, NEW l \in Labels, Goto(p, l),
           p \in Callers => l \in CallerLabels,
           shell_cmd' \in [Shells -> Seq(Nat)],
           \A q \in Shells : q # p => shell_cmd'[q] = shell_cmd[q],
           l \in {"test", "lock", "data"} => shell_cmd'[p] \in Commands,
           script' \in Seq(Commands)
    PROVE  CallType'
<1>1. /\ pc' \in [Shells -> Labels] /\ pc'[p] = l
      /\ \A q \in Shells : q # p => pc'[q] = pc[q]
  BY Went DEF CallType
<1>2. \A q \in Callers : pc'[q] \in CallerLabels
  BY <1>1, ShellFacts DEF CallType
<1>3. \A q \in Shells : pc'[q] \in {"test", "lock", "data"} => shell_cmd'[q] \in Commands
  BY <1>1 DEF CallType
<1> QED
  BY <1>1, <1>2, <1>3 DEF CallType

LEMMA LockKept ==
    ASSUME CallType, LockInv, NEW p \in Shells, NEW l \in Labels, Goto(p, l),
           pc[p] \notin {"data", "get"}, l \notin {"data", "get"}, fifo_lock' = fifo_lock
    PROVE  LockInv'
<1>1. pc'[p] = l /\ \A q \in Shells : q # p => pc'[q] = pc[q]
  BY Went DEF CallType
<1> QED
  BY <1>1 DEF LockInv

LEMMA LockTaken ==
    ASSUME CallType, LockInv, NEW p \in Shells, NEW l \in Labels, Goto(p, l),
           fifo_lock = Nobody, l \in {"data", "get"}, fifo_lock' = p
    PROVE  LockInv'
<1>1. pc'[p] = l /\ \A q \in Shells : q # p => pc'[q] = pc[q]
  BY Went DEF CallType
<1> QED
  BY <1>1, ShellFacts DEF LockInv

LEMMA LockLeft ==
    ASSUME CallType, LockInv, NEW p \in Shells, NEW l \in Labels, Goto(p, l),
           pc[p] \in {"data", "get"}, l \notin {"data", "get"}, fifo_lock' = Nobody
    PROVE  LockInv'
<1>1. pc'[p] = l /\ \A q \in Shells : q # p => pc'[q] = pc[q]
  BY Went DEF CallType
<1> QED
  BY <1>1, ShellFacts DEF LockInv

(* The calls of lidbg_uevent_shell. *)
LEMMA CallTypes ==
    ASSUME TypeInv, NEW p \in Callers, NEW c \in Commands, Call(p, c)
    PROVE  TypeInv'
<1>1. /\ p \in Shells /\ "test" \in Labels /\ "test" \in CallerLabels /\ c \in Seq(Nat)
  BY ShellFacts DEF Labels, CallerLabels
<1>2. /\ Goto(p, "test") /\ shell_cmd' = [shell_cmd EXCEPT ![p] = c] /\ pc[p] = "idle"
      /\ UNCHANGED <<cmd_fifo, fifo_lock, mstrlen, script, ready>> /\ calls' = calls + 1
  BY DEF Call
<1>3. /\ shell_cmd' \in [Shells -> Seq(Nat)] /\ shell_cmd'[p] = c
      /\ \A q \in Shells : q # p => shell_cmd'[q] = shell_cmd[q]
  BY <1>1, <1>2, TookUp DEF TypeInv, CallType
<1>4. CallType'
  BY <1>1, <1>2, <1>3, CallTypeKept DEF TypeInv, CallType
<1>5. LockInv'
  BY <1>1, <1>2, LockKept DEF TypeInv
<1>6. QueueType'
  BY <1>2 DEF TypeInv, QueueType
<1> QED
  BY <1>4, <1>5, <1>6 DEF TypeInv

LEMMA FindRoomTypes ==
    ASSUME TypeInv, NEW p \in Shells, FindRoom(p)
    PROVE  TypeInv'
<1>1. "lock" \in Labels /\ "lock" \in CallerLabels
  BY DEF Labels, CallerLabels
<1>2. /\ Goto(p, "lock") /\ pc[p] = "test"
      /\ UNCHANGED <<cmd_fifo, fifo_lock, shell_cmd, mstrlen, script, ready, calls>>
  BY DEF FindRoom
<1>3. shell_cmd[p] \in Commands
  BY <1>2 DEF TypeInv, CallType
<1>4. CallType'
  BY <1>1, <1>2, <1>3, CallTypeKept DEF TypeInv, CallType
<1>5. LockInv'
  BY <1>1, <1>2, LockKept DEF TypeInv
<1>6. QueueType'
  BY <1>2 DEF TypeInv, QueueType
<1> QED
  BY <1>4, <1>5, <1>6 DEF TypeInv

LEMMA PutLengthTypes ==
    ASSUME TypeInv, NEW p \in Shells, PutLength(p)
    PROVE  TypeInv'
<1>1. "data" \in Labels /\ "data" \in CallerLabels
  BY DEF Labels, CallerLabels
<1>2. /\ Goto(p, "data") /\ pc[p] = "lock" /\ fifo_lock = Nobody /\ fifo_lock' = p
      /\ cmd_fifo' = KfifoIn(cmd_fifo, <<Len(shell_cmd[p])>>)
      /\ UNCHANGED <<shell_cmd, mstrlen, script, ready, calls>>
  BY DEF PutLength
<1>3. shell_cmd[p] \in Commands /\ <<Len(shell_cmd[p])>> \in Seq(Nat)
  BY <1>2, ShellFacts, OneElement DEF TypeInv, CallType
<1>4. CallType'
  BY <1>1, <1>2, <1>3, CallTypeKept DEF TypeInv, CallType
<1>5. LockInv'
  BY <1>1, <1>2, LockTaken DEF TypeInv
<1>6. QueueType'
  BY <1>2, <1>3, KfifoInType DEF TypeInv, QueueType
<1> QED
  BY <1>4, <1>5, <1>6 DEF TypeInv

LEMMA PutCommandTypes ==
    ASSUME TypeInv, NEW p \in Shells, PutCommand(p)
    PROVE  TypeInv'
<1>1. "wake" \in Labels /\ "wake" \in CallerLabels
  BY DEF Labels, CallerLabels
<1>2. /\ Goto(p, "wake") /\ pc[p] = "data" /\ fifo_lock' = Nobody
      /\ cmd_fifo' = KfifoIn(cmd_fifo, shell_cmd[p])
      /\ UNCHANGED <<shell_cmd, mstrlen, script, ready, calls>>
  BY DEF PutCommand
<1>3. shell_cmd[p] \in Seq(Nat)
  BY DEF TypeInv, CallType
<1>4. CallType'
  BY <1>1, <1>2, CallTypeKept DEF TypeInv, CallType
<1>5. LockInv'
  BY <1>1, <1>2, LockLeft DEF TypeInv
<1>6. QueueType'
  BY <1>2, <1>3, KfifoInType DEF TypeInv, QueueType
<1> QED
  BY <1>4, <1>5, <1>6 DEF TypeInv

LEMMA WakeUpTypes ==
    ASSUME TypeInv, NEW p \in Shells, WakeUp(p)
    PROVE  TypeInv'
<1>1. PICK l \in Labels : /\ l = (IF p = Server THEN "system" ELSE "idle")
                          /\ p \in Callers => l \in CallerLabels
                          /\ l \notin {"test", "lock", "data", "get"}
  BY ShellFacts DEF Labels, CallerLabels
<1>2. /\ Goto(p, l) /\ pc[p] = "wake" /\ shell_cmd' = [shell_cmd EXCEPT ![p] = <<>>]
      /\ ready' = Ready(p)
      /\ UNCHANGED <<cmd_fifo, fifo_lock, mstrlen, script, calls>>
  BY <1>1 DEF WakeUp
<1>3. /\ shell_cmd' \in [Shells -> Seq(Nat)]
      /\ \A q \in Shells : q # p => shell_cmd'[q] = shell_cmd[q]
  BY <1>2, TookUp, EmptySeq DEF TypeInv, CallType
<1>4. CallType'
  BY <1>1, <1>2, <1>3, CallTypeKept DEF TypeInv, CallType
<1>5. LockInv'
  BY <1>1, <1>2, LockKept DEF TypeInv
<1>6. ready' \in BOOLEAN
  BY <1>2 DEF Ready
<1>7. QueueType'
  BY <1>2, <1>6 DEF TypeInv, QueueType
<1> QED
  BY <1>4, <1>5, <1>7 DEF TypeInv

(* What lidbg_userver does without taking the mutex. *)
LEMMA ServerMoves ==
    ASSUME TypeInv, NEW l \in Labels, Goto(Server, l),
           pc[Server] \notin {"data", "get"}, l \notin {"data", "get"},
           shell_cmd' \in [Shells -> Seq(Nat)],
           \A q \in Shells : q # Server => shell_cmd'[q] = shell_cmd[q],
           l \in {"test", "lock"} => shell_cmd'[Server] \in Commands,
           script' \in Seq(Commands), ready' \in BOOLEAN,
           UNCHANGED <<cmd_fifo, fifo_lock, mstrlen, calls>>
    PROVE  TypeInv'
<1>1. Server \in Shells /\ Server \notin Callers
  BY ShellFacts
<1>2. CallType'
  BY <1>1, CallTypeKept DEF TypeInv
<1>3. LockInv'
  BY <1>1, LockKept DEF TypeInv
<1>4. QueueType'
  BY DEF TypeInv, QueueType
<1> QED
  BY <1>2, <1>3, <1>4 DEF TypeInv

LEMMA WaitTypes ==
    ASSUME TypeInv, epoll_register \/ epoll_wait \/ lidbg_uevent_poll \/ SystemReturns
    PROVE  TypeInv'
<1>1. shell_cmd' = shell_cmd /\ script' = script /\ UNCHANGED <<cmd_fifo, fifo_lock, mstrlen, calls>>
  BY DEF epoll_register, epoll_wait, lidbg_uevent_poll, SystemReturns
<1>2. ready' \in BOOLEAN
  BY DEF epoll_register, epoll_wait, lidbg_uevent_poll, SystemReturns, TypeInv, QueueType
<1>3. \E l \in {"poll", "read", "epoll_wait"} : Goto(Server, l) /\ pc[Server] \notin {"data", "get"}
  BY DEF epoll_register, epoll_wait, lidbg_uevent_poll, SystemReturns
<1>4. PICK l \in Labels : Goto(Server, l) /\ pc[Server] \notin {"data", "get"}
                          /\ l \notin {"data", "get", "test", "lock"}
  BY <1>3 DEF Labels
<1> QED
  BY <1>1, <1>2, <1>4, ServerMoves DEF TypeInv, CallType

LEMMA ScriptType == \A c : ScriptsOf(c) \subseteq Seq(Commands)
<1> TAKE c
<1>1. CASE c \in Commands
  <2>1. Script[c] \in Seq(Commands)
    BY <1>1, UeventAssumption
  <2>2. ScriptsOf(c) \subseteq {Script[c], <<>>}
    BY <1>1 DEF ScriptsOf
  <2> QED
    BY <2>1, <2>2, EmptySeq
<1>2. CASE c \notin Commands
  BY <1>2, EmptySeq DEF ScriptsOf
<1> QED
  BY <1>1, <1>2

LEMMA TestEmptyTypes ==
    ASSUME TypeInv, TestEmpty
    PROVE  TypeInv'
<1>1. /\ pc[Server] = "read"
      /\ UNCHANGED <<cmd_fifo, fifo_lock, shell_cmd, mstrlen, ready, calls>>
  BY DEF TestEmpty
<1>2. PICK l \in {"system", "take"} : Goto(Server, l)
  BY DEF TestEmpty, System
<1>3. script' \in Seq(Commands)
  BY ScriptType DEF TestEmpty, System, TypeInv, CallType
<1>4. l \in Labels
  BY DEF Labels
<1> QED
  BY <1>1, <1>2, <1>3, <1>4, ServerMoves DEF TypeInv, CallType, QueueType

LEMMA WriteNodeTypes ==
    ASSUME TypeInv, WriteNode
    PROVE  /\ TypeInv' /\ Goto(Server, "test") /\ Head(script) \in Commands
           /\ shell_cmd' = [shell_cmd EXCEPT ![Server] = Head(script)]
<1>1. /\ pc[Server] = "system" /\ script # <<>>
      /\ shell_cmd' = [shell_cmd EXCEPT ![Server] = Head(script)]
      /\ script' = Tail(script) /\ Goto(Server, "test")
      /\ UNCHANGED <<cmd_fifo, fifo_lock, mstrlen, ready, calls>>
  BY DEF WriteNode
<1>2. Head(script) \in Commands /\ Tail(script) \in Seq(Commands)
  BY <1>1, HeadAndTail DEF TypeInv, CallType
<1>3. Server \in Shells /\ Head(script) \in Seq(Nat)
  BY <1>2, ShellFacts
<1>4. /\ shell_cmd' \in [Shells -> Seq(Nat)] /\ shell_cmd'[Server] = Head(script)
      /\ \A q \in Shells : q # Server => shell_cmd'[q] = shell_cmd[q]
  BY <1>1, <1>3, TookUp DEF TypeInv, CallType
<1>5. "test" \in Labels
  BY DEF Labels, CallerLabels
<1>6. TypeInv'
  BY <1>1, <1>2, <1>4, <1>5, ServerMoves DEF TypeInv, QueueType
<1> QED
  BY <1>1, <1>2, <1>6

LEMMA TakeLengthTypes ==
    ASSUME TypeInv, TakeLength
    PROVE  TypeInv'
<1>1. /\ pc[Server] = "take" /\ fifo_lock = Nobody /\ cmd_fifo # <<>> /\ fifo_lock' = Server
      /\ mstrlen' = Head(cmd_fifo) /\ cmd_fifo' = Tail(cmd_fifo) /\ Goto(Server, "get")
      /\ UNCHANGED <<shell_cmd, script, ready, calls>>
  BY DEF TakeLength
<1>2. "get" \in Labels /\ Server \in Shells /\ Server \notin Callers
  BY ShellFacts DEF Labels
<1>3. CallType'
  BY <1>1, <1>2, CallTypeKept DEF TypeInv, CallType
<1>4. LockInv'
  BY <1>1, <1>2, LockTaken DEF TypeInv
<1>5. QueueType'
  BY <1>1, HeadAndTail DEF TypeInv, QueueType
<1> QED
  BY <1>3, <1>4, <1>5 DEF TypeInv

(* The end of the queue that TakeCommand leaves. *)
LEMMA Leavings ==
    ASSUME NEW q \in Seq(Nat), NEW m \in Nat,
           NEW n, n = IF m <= Len(q) THEN m ELSE Len(q)
    PROVE  /\ n \in Nat /\ SubSeq(q, 1, n) \in Seq(Nat)
           /\ SubSeq(q, n + 1, Len(q)) \in Seq(Nat)
           /\ Len(SubSeq(q, n + 1, Len(q))) <= Len(q)
<1>1. PICK k \in Nat : k = Len(q)
  BY LenProperties
<1>2. n \in Nat /\ n <= k
  BY <1>1
<1>3. \A i \in 1 .. n : q[i] \in Nat
  BY <1>1, <1>2, ElementOfSeq
<1>4. PICK a \in Int : a = n + 1 /\ a >= 1
  BY <1>2
<1>5. \A i \in a .. k : q[i] \in Nat
  BY <1>1, <1>4, ElementOfSeq
<1>6. SubSeq(q, 1, n) \in Seq(Nat)
  <2>1. 1 \in Int /\ n \in Int
    BY <1>2
  <2> QED
    BY <1>3, <2>1, SubSeqProperties
<1>7. SubSeq(q, a, k) \in Seq(Nat) /\ Len(SubSeq(q, a, k)) = IF a <= k THEN k - a + 1 ELSE 0
  BY <1>5, SubSeqProperties
<1> QED
  BY <1>1, <1>2, <1>4, <1>6, <1>7

LEMMA TakeCommandTypes ==
    ASSUME TypeInv, TakeCommand
    PROVE  TypeInv'
<1>1. PICK n : n = IF mstrlen <= Len(cmd_fifo) THEN mstrlen ELSE Len(cmd_fifo)
  OBVIOUS
<1>2. /\ pc[Server] = "get" /\ fifo_lock' = Nobody /\ mstrlen' = 0
      /\ Goto(Server, "system")
      /\ script' \in ScriptsOf(SubSeq(cmd_fifo, 1, n))
      /\ cmd_fifo' = SubSeq(cmd_fifo, n + 1, Len(cmd_fifo))
      /\ UNCHANGED <<shell_cmd, ready, calls>>
  BY <1>1 DEF TakeCommand, System
<1>3. "system" \in Labels /\ Server \in Shells /\ Server \notin Callers
  BY ShellFacts DEF Labels
<1>4. script' \in Seq(Commands)
  BY <1>2, ScriptType
<1>5. CallType'
  BY <1>2, <1>3, <1>4, CallTypeKept DEF TypeInv, CallType
<1>6. LockInv'
  BY <1>2, <1>3, LockLeft DEF TypeInv
<1>7. cmd_fifo' \in Seq(Nat)
  BY <1>1, <1>2, Leavings DEF TypeInv, QueueType
<1>8. QueueType'
  BY <1>2, <1>7 DEF TypeInv, QueueType
<1> QED
  BY <1>5, <1>6, <1>8 DEF TypeInv

LEMMA InitTypes == Init => TypeInv
<1> SUFFICES ASSUME Init PROVE TypeInv
  OBVIOUS
<1>1. CallType
  BY ShellFacts, EmptySeq DEF Init, CallType, Labels, CallerLabels
<1>2. LockInv
  BY ShellFacts DEF Init, LockInv
<1>3. QueueType
  BY EmptySeq DEF Init, QueueType
<1> QED
  BY <1>1, <1>2, <1>3 DEF TypeInv

LEMMA TypeStep == TypeInv /\ [Next]_vars => TypeInv'
<1> SUFFICES ASSUME TypeInv, [Next]_vars PROVE TypeInv'
  OBVIOUS
<1>1. ASSUME NEW p \in Shells, lidbg_uevent_shell(p) PROVE TypeInv'
  BY <1>1, FindRoomTypes, PutLengthTypes, PutCommandTypes, WakeUpTypes DEF lidbg_uevent_shell
<1>2. ASSUME NEW p \in Callers, NEW c \in Commands, Call(p, c) PROVE TypeInv'
  BY <1>2, CallTypes
<1>3. CASE main
  BY <1>1, <1>3, ShellFacts, WaitTypes, TestEmptyTypes, TakeLengthTypes, TakeCommandTypes,
     WriteNodeTypes DEF main, lidbg_uevent_read
<1>4. CASE UNCHANGED vars
  BY <1>4 DEF vars, TypeInv, CallType, QueueType, LockInv
<1> QED
  BY <1>1, <1>2, <1>3, <1>4, ShellFacts DEF Next

----------------------------------------------------------------------------
(* Room for all who have found room. *)

(* No record takes more than w, and one takes as much. *)
Wide(w) ==
    /\ w \in Nat /\ \A c \in Commands : Len(c) + 1 <= w
    /\ Commands # {} => \E c \in Commands : Len(c) + 1 = w

Widest == CHOOSE w : Wide(w)

LEMMA WidestType == Wide(Widest)
<1> DEFINE T == {w \in Nat : \A c \in Commands : Len(c) + 1 <= w}
<1>1. \A c \in Commands : Len(c) \in Nat /\ Len(c) + 1 <= FifoSize
  <2> TAKE c \in Commands
  <2>1. Len(c) \in Nat /\ 2 * Len(c) < FifoSize /\ FifoSize \in Nat
    BY ShellFacts, UeventAssumption
  <2> QED
    BY <2>1
<1>2. T # {} /\ T \subseteq Nat
  BY <1>1, UeventAssumption
<1>3. PICK w \in T : \A v \in T : w <= v
  <2> HIDE DEF T
  <2> QED
    BY <1>2, NatMin
<1>4. ASSUME NEW d \in Commands PROVE \E c \in Commands : Len(c) + 1 = w
  <2>1. w \in Nat /\ Len(d) + 1 <= w /\ Len(d) \in Nat
    BY <1>1, <1>3
  <2>2. w - 1 \in Nat /\ w - 1 \notin T
    <3>1. w - 1 \in Nat /\ ~(w <= w - 1)
      BY <2>1
    <3> HIDE DEF T
    <3> QED
      BY <1>3, <3>1
  <2>3. PICK c \in Commands : ~(Len(c) + 1 <= w - 1)
    BY <2>2
  <2>4. Len(c) + 1 = w
    BY <1>1, <1>3, <2>3
  <2> QED
    BY <2>4
<1>5. Wide(w)
  BY <1>3, <1>4 DEF Wide
<1> QED
  BY <1>5 DEF Widest

(* How far the queue may have been filled when of n who may join another one
   n - k have done so. *)
Limit(n, k) == FifoSize + (n - k) * Widest

LEMMA Limits ==
    ASSUME NEW n \in Nat
    PROVE  /\ \A k \in 0 .. n : /\ Limit(n, k) \in Nat /\ FifoSize <= Limit(n, k)
                               /\ Limit(n, k) <= Limit(n, 0)
           /\ \A k \in 1 .. n : Limit(n, k - 1) = Limit(n, k) + Widest
<1>1. PICK w \in Nat : w = Widest
  BY WidestType DEF Wide
<1>2. PICK f \in Nat : f = FifoSize
  BY UeventAssumption
<1>3. \A k : Limit(n, k) = f + (n - k) * w
  BY <1>1, <1>2 DEF Limit
<1>4. ASSUME NEW k \in 0 .. n
      PROVE  Limit(n, k) \in Nat /\ f <= Limit(n, k) /\ Limit(n, k) <= Limit(n, 0)
  <2>1. PICK j \in Nat : j = n - k
    OBVIOUS
  <2>2. j * w \in Nat /\ k * w \in Nat /\ n = j + k
    BY <2>1
  <2>3. n * w = j * w + k * w
    BY <2>2
  <2>4. n - 0 = n
    OBVIOUS
  <2>5. Limit(n, 0) = f + n * w /\ Limit(n, k) = f + j * w
    BY <1>3, <2>1, <2>4
  <2> QED
    BY <2>2, <2>3, <2>5
<1>5. ASSUME NEW k \in 1 .. n PROVE Limit(n, k - 1) = Limit(n, k) + w
  <2>1. PICK j \in Nat : j = n - k /\ j + 1 = n - (k - 1)
    OBVIOUS
  <2>2. (j + 1) * w = j * w + w /\ j * w \in Nat
    OBVIOUS
  <2>3. Limit(n, k - 1) = f + (j + 1) * w /\ Limit(n, k) = f + j * w
    BY <1>3, <2>1
  <2> QED
    BY <2>2, <2>3
<1> QED
  BY <1>1, <1>2, <1>4, <1>5

(* Who has found room and not yet taken the mutex, and what the length in
   the queue announces. *)
Admitted == {p \in Shells : pc[p] = "lock"}
Coming == IF fifo_lock \in Shells /\ pc[fifo_lock] = "data"
          THEN Len(shell_cmd[fifo_lock]) ELSE 0
Load == Len(cmd_fifo) + Coming

(* No more than one besides those ahead of it is in the crowd, and one of those
   admitted found room enough: of the others each takes no more than the
   widest command. *)
RoomInv ==
    /\ ahead \in Nat /\ Cardinality(Crowd) <= ahead + 1
    /\ Load <= Limit(ahead, 0)
    /\ Admitted # {} =>
          \E p \in Admitted :
             Load + 1 + Len(shell_cmd[p]) <= Limit(ahead, Cardinality(Admitted) - 1)

LEMMA CrowdCount ==
    ASSUME NEW n \in Nat, NEW C, C \subseteq Shells, Cardinality(C) <= n + 1,
           NEW T, T \subseteq C
    PROVE  /\ IsFiniteSet(T) /\ Cardinality(T) \in 0 .. n + 1
           /\ T = {} <=> Cardinality(T) = 0
           /\ Cardinality(T) <= Cardinality(C)
           /\ \A p \in C : p \notin T => Cardinality(T) \in 0 .. n
           /\ \A p \in T : Cardinality(T \ {p}) = Cardinality(T) - 1
           /\ \A p : p \notin T => Cardinality(T \cup {p}) = Cardinality(T) + 1
<1>1. IsFiniteSet(C)
  <2>1. IsFiniteSet(Callers) /\ Server \notin Callers
    BY UeventAssumption
  <2>2. IsFiniteSet(Shells)
    BY <2>1, FS_AddElement DEF Shells
  <2> QED
    BY <2>2, FS_Subset
<1>2. IsFiniteSet(T) /\ Cardinality(T) \in Nat /\ Cardinality(T) <= Cardinality(C)
      /\ Cardinality(C) \in Nat
  BY <1>1, FS_Subset, FS_CardinalityType
<1>3. Cardinality(T) <= n + 1
  BY <1>2
<1>4. T = {} <=> Cardinality(T) = 0
  BY <1>2, FS_EmptySet
<1>5. \A p : p \notin T => Cardinality(T \cup {p}) = Cardinality(T) + 1
  BY <1>2, FS_AddElement
<1>6. ASSUME NEW p \in C, p \notin T PROVE Cardinality(T) \in 0 .. n
  <2>1. Cardinality(T \cup {p}) = Cardinality(T) + 1
    BY <1>5, <1>6
  <2>2. Cardinality(T \cup {p}) <= Cardinality(C)
    BY <1>1, <1>6, FS_Subset
  <2> QED
    BY <1>2, <2>1, <2>2
<1>7. ASSUME NEW p \in T PROVE Cardinality(T \ {p}) = Cardinality(T) - 1
  BY <1>2, <1>7, FS_RemoveElement
<1> QED
  BY <1>2, <1>3, <1>4, <1>5, <1>6, <1>7

LEMMA AdmittedCrowd == Admitted \subseteq Crowd /\ Crowd \subseteq Shells
BY DEF Admitted, Crowd

(* The numbers RoomInv is about. *)
LEMMA LoadType ==
    ASSUME TypeInv
    PROVE  /\ Len(cmd_fifo) \in Nat /\ Coming \in Nat /\ Load \in Nat
           /\ Coming # 0 => fifo_lock \in Shells /\ fifo_lock \notin Admitted
           /\ Coming < Widest \/ Coming = 0
           /\ \A p \in Admitted : /\ p \in Shells /\ shell_cmd[p] \in Commands
                                /\ Len(shell_cmd[p]) \in Nat /\ Len(shell_cmd[p]) + 1 <= Widest
<1>1. Len(cmd_fifo) \in Nat
  BY LenProperties DEF TypeInv, QueueType
<1>2. \A c \in Commands : Len(c) \in Nat /\ Len(c) + 1 <= Widest
  BY ShellFacts, WidestType DEF Wide
<1>3. \A p \in Admitted : p \in Shells /\ shell_cmd[p] \in Commands
  BY DEF Admitted, TypeInv, CallType
<1>4. CASE fifo_lock \in Shells /\ pc[fifo_lock] = "data"
  <2>1. Coming = Len(shell_cmd[fifo_lock]) /\ shell_cmd[fifo_lock] \in Commands
    BY <1>4 DEF Coming, TypeInv, CallType
  <2>2. fifo_lock \notin Admitted
    BY <1>4 DEF Admitted
  <2>3. Widest \in Nat
    BY WidestType DEF Wide
  <2> QED
    BY <1>1, <1>2, <1>3, <1>4, <2>1, <2>2, <2>3 DEF Load
<1>5. CASE ~(fifo_lock \in Shells /\ pc[fifo_lock] = "data")
  <2>1. Coming = 0
    BY <1>5 DEF Coming
  <2> QED
    BY <1>1, <1>2, <1>3, <2>1 DEF Load
<1> QED
  BY <1>4, <1>5

(* There is room for what is being put in. *)
LEMMA LengthFits ==
    ASSUME TypeInv, RoomInv, NEW p \in Admitted
    PROVE  /\ Load + 1 + Len(shell_cmd[p]) <= Limit(ahead, 0)
           /\ Admitted \ {p} # {} =>
                 \E q \in Admitted \ {p} : Load + 1 + Len(shell_cmd[p]) + 1 + Len(shell_cmd[q])
                                            <= Limit(ahead, Cardinality(Admitted) - 2)
<1>1. PICK n \in Nat : n = ahead
  BY DEF RoomInv
<1>2. PICK k \in 1 .. n + 1 : k = Cardinality(Admitted) /\ Cardinality(Admitted \ {p}) = k - 1
  <2>1. Admitted # {} /\ Cardinality(Crowd) <= n + 1
    BY <1>1 DEF RoomInv
  <2> QED
    BY <2>1, AdmittedCrowd, CrowdCount
<1>3. PICK v \in Nat : v = Load
  BY LoadType
<1>4. PICK w \in Nat : w = Widest
  BY WidestType DEF Wide
<1>5. PICK a \in Nat : a = Len(shell_cmd[p]) /\ a + 1 <= w
  BY <1>4, LoadType
<1>6. PICK r \in Admitted : v + 1 + Len(shell_cmd[r]) <= Limit(ahead, k - 1)
  BY <1>2, <1>3 DEF RoomInv
<1>7. /\ \A j \in 0 .. n : Limit(ahead, j) \in Nat /\ Limit(ahead, j) <= Limit(ahead, 0)
      /\ \A j \in 1 .. n : Limit(ahead, j - 1) = Limit(ahead, j) + w
  BY <1>1, <1>4, Limits
<1>8. PICK m \in Nat, top \in Nat : m = Limit(ahead, k - 1) /\ top = Limit(ahead, 0) /\ m <= top
  <2>1. k - 1 \in 0 .. n /\ 0 \in 0 .. n
    OBVIOUS
  <2> QED
    BY <1>7, <2>1
<1>9. PICK b \in Nat : b = Len(shell_cmd[r]) /\ v + 1 + b <= m
  <2>1. Len(shell_cmd[r]) \in Nat
    BY LoadType
  <2> QED
    BY <1>6, <1>8, <2>1
<1>10. Admitted \ {p} # {} => k - 1 \in 1 .. n /\ Limit(ahead, k - 2) = m + w /\ m + w <= top
  <2> SUFFICES ASSUME Admitted \ {p} # {}
               PROVE  k - 1 \in 1 .. n /\ Limit(ahead, k - 2) = m + w /\ m + w <= top
    OBVIOUS
  <2>1. Admitted \ {p} \subseteq Crowd /\ Cardinality(Crowd) <= n + 1
    BY <1>1, AdmittedCrowd DEF RoomInv
  <2>2. k - 1 # 0
    BY <1>2, <2>1, AdmittedCrowd, CrowdCount
  <2>3. k - 1 \in 1 .. n /\ k - 1 - 1 = k - 2 /\ k - 2 \in 0 .. n
    BY <2>2
  <2>4. Limit(ahead, k - 2) = Limit(ahead, k - 1) + w /\ Limit(ahead, k - 2) <= Limit(ahead, 0)
    BY <1>7, <2>3
  <2> QED
    BY <1>8, <2>3, <2>4
<1>a. a + 1 <= w
  BY <1>5
<1>b. v + 1 + b <= m
  BY <1>9
<1>t. m <= top
  BY <1>8
<1>11. CASE r = p
  <2>1. a = b
    BY <1>5, <1>9, <1>11
  <2>2. v + 1 + a <= m /\ v + 1 + a <= top
    BY <1>b, <1>t, <2>1
  <2>3. ASSUME NEW q \in Admitted \ {p}
        PROVE  v + 1 + a + 1 + Len(shell_cmd[q]) <= Limit(ahead, k - 2)
    <3>1. PICK c \in Nat : c = Len(shell_cmd[q]) /\ c + 1 <= w
      BY <1>4, LoadType
    <3>2. Limit(ahead, k - 2) = m + w
      BY <1>10
    <3>3. c + 1 <= w
      BY <3>1
    <3>4. v + 1 + a + 1 + c <= m + w
      BY <2>2, <3>3
    <3> QED
      BY <3>1, <3>2, <3>4
  <2> QED
    BY <1>2, <1>3, <1>5, <1>8, <2>2, <2>3
<1>12. CASE r # p
  <2>1. r \in Admitted \ {p}
    BY <1>12
  <2>2. Limit(ahead, k - 2) = m + w
    BY <1>10, <2>1
  <2>3. m + w <= top
    BY <1>10, <2>1
  <2>4. v + 1 + a + 1 + b <= m + w
    BY <1>a, <1>b
  <2>5. v + 1 + a <= top
    BY <1>a, <1>b, <2>3
  <2> QED
    BY <1>2, <1>3, <1>5, <1>8, <1>9, <2>1, <2>2, <2>4, <2>5
<1> QED
  BY <1>11, <1>12

LEMMA LoadNext ==
    ASSUME TypeInv'
    PROVE  Len(cmd_fifo') \in Nat /\ Coming' \in Nat /\ Load' \in Nat
<1>1. Len(cmd_fifo') \in Nat
  BY LenProperties DEF TypeInv, QueueType
<1>2. \A q \in Shells : Len(shell_cmd'[q]) \in Nat
  BY LenProperties DEF TypeInv, CallType
<1>3. Coming' \in Nat
  BY <1>2 DEF Coming
<1> QED
  BY <1>1, <1>3 DEF Load

(* Steps that admit nobody and put nothing in. *)
LEMMA RoomKept ==
    ASSUME TypeInv, TypeInv', RoomInv, Admitted' = Admitted,
           \A q \in Admitted : shell_cmd'[q] = shell_cmd[q],
           Load' <= Load, Crowd' \subseteq Crowd, ahead' = ahead
    PROVE  RoomInv'
<1>1. PICK v \in Nat, u \in Nat : v = Load /\ u = Load'
  BY LoadType, LoadNext
<1>2. u <= v
  BY <1>1
<1>3. PICK top \in Nat : top = Limit(ahead, 0)
  <2>1. ahead \in Nat /\ 0 \in 0 .. ahead
    BY DEF RoomInv
  <2> QED
    BY <2>1, Limits
<1>4. u <= top
  <2>1. v <= top
    BY <1>1, <1>3 DEF RoomInv
  <2> QED
    BY <1>2, <2>1
<1>5. ASSUME Admitted # {}
      PROVE  \E q \in Admitted : u + 1 + Len(shell_cmd[q]) <= Limit(ahead, Cardinality(Admitted) - 1)
  <2>1. PICK n \in Nat : n = ahead /\ Cardinality(Crowd) <= n + 1
    BY DEF RoomInv
  <2>2. PICK q \in Admitted : v + 1 + Len(shell_cmd[q]) <= Limit(ahead, Cardinality(Admitted) - 1)
    BY <1>1, <1>5 DEF RoomInv
  <2>3. PICK b \in Nat : b = Len(shell_cmd[q])
    BY LoadType
  <2>4. Cardinality(Admitted) - 1 \in 0 .. n
    <3>1. Cardinality(Admitted) \in 0 .. n + 1 /\ Cardinality(Admitted) # 0
      BY <1>5, <2>1, AdmittedCrowd, CrowdCount
    <3> QED
      BY <3>1
  <2>5. PICK m \in Nat : m = Limit(ahead, Cardinality(Admitted) - 1)
    BY <2>1, <2>4, Limits
  <2>6. v + 1 + b <= m
    BY <2>2, <2>3, <2>5
  <2>7. u + 1 + b <= m
    BY <1>2, <2>6
  <2> QED
    BY <2>3, <2>5, <2>7
<1>6. Admitted # {} =>
         \E q \in Admitted : u + 1 + Len(shell_cmd'[q]) <= Limit(ahead, Cardinality(Admitted) - 1)
  BY <1>5
<1>7. Cardinality(Crowd') <= ahead + 1
  <2>1. PICK n \in Nat : n = ahead /\ Cardinality(Crowd) <= n + 1
    BY DEF RoomInv
  <2>2. Cardinality(Crowd') \in 0 .. n + 1
    BY <2>1, AdmittedCrowd, CrowdCount
  <2> QED
    BY <2>1, <2>2
<1> QED
  BY <1>1, <1>3, <1>4, <1>6, <1>7 DEF RoomInv

(* A process moves on and does not touch the queue. *)
LEMMA RoomIdle ==
    ASSUME TypeInv, TypeInv', RoomInv, NEW p \in Shells, NEW l \in Labels, Goto(p, l),
           pc[p] \notin {"lock", "data", "get"}, l \notin {"lock", "data", "get"},
           \A q \in Shells : q # p => shell_cmd'[q] = shell_cmd[q],
           UNCHANGED <<cmd_fifo, fifo_lock, ahead>>
    PROVE  RoomInv'
<1>1. pc'[p] = l /\ \A q \in Shells : q # p => pc'[q] = pc[q]
  BY Went DEF TypeInv, CallType
<1>2. Admitted' = Admitted /\ \A q \in Admitted : q # p
  BY <1>1 DEF Admitted
<1>3. fifo_lock # p
  BY DEF TypeInv, LockInv
<1>4. Coming' = Coming
  BY <1>1, <1>3 DEF Coming
<1>5. Load' = Load /\ Load \in Nat
  BY <1>4, LoadType DEF Load
<1>6. \A q \in Admitted : shell_cmd'[q] = shell_cmd[q]
  BY <1>2 DEF Admitted
<1>7. Crowd' \subseteq Crowd
  BY <1>1 DEF Crowd
<1> QED
  BY <1>2, <1>5, <1>6, <1>7, RoomKept

(* Whoever finds room is admitted with room enough for himself. *)
LEMMA FindRoomRoom ==
    ASSUME TypeInv, TypeInv', RoomInv, NEW p \in Shells, FindRoom(p)
    PROVE  RoomInv'
<1>1. /\ pc[p] = "test" /\ HasRoom(p) /\ Goto(p, "lock")
      /\ UNCHANGED <<cmd_fifo, fifo_lock, shell_cmd>>
      /\ ahead' = IF Cardinality(Crowd) > ahead THEN Cardinality(Crowd) ELSE ahead
  BY DEF FindRoom
<1>2. pc'[p] = "lock" /\ \A q \in Shells : q # p => pc'[q] = pc[q]
  BY <1>1, Went DEF TypeInv, CallType, Labels, CallerLabels
<1>3. /\ p \in Admitted' /\ p \notin Crowd /\ Crowd' = Crowd \cup {p}
      /\ Admitted' \subseteq Crowd' /\ Crowd' \subseteq Shells
  BY <1>1, <1>2 DEF Admitted, Crowd
<1>4. fifo_lock # p
  BY <1>1 DEF TypeInv, LockInv
<1>5. Coming' = Coming
  BY <1>1, <1>2, <1>4 DEF Coming
<1>6. PICK n \in Nat : n = ahead' /\ Cardinality(Crowd') <= n + 1
  <2>1. PICK m \in Nat : m = ahead /\ Cardinality(Crowd) <= m + 1
    BY DEF RoomInv
  <2>2. PICK c \in Nat : c = Cardinality(Crowd) /\ Cardinality(Crowd \cup {p}) = c + 1
    BY <1>3, <2>1, AdmittedCrowd, CrowdCount
  <2>3. ahead' = (IF c > m THEN c ELSE m) /\ Cardinality(Crowd') = c + 1
    BY <1>1, <1>3, <2>1, <2>2
  <2> QED
    BY <2>3
<1>7. PICK k \in 1 .. n + 1 : /\ k = Cardinality(Admitted')
                              /\ Coming # 0 => k \in 1 .. n
  <2>1. Cardinality(Admitted') \in 0 .. n + 1 /\ Cardinality(Admitted') # 0
    BY <1>3, <1>6, CrowdCount
  <2>2. ASSUME Coming # 0 PROVE Cardinality(Admitted') \in 0 .. n
    <3>1. fifo_lock \in Shells /\ pc[fifo_lock] = "data"
      BY <2>2 DEF Coming
    <3>2. fifo_lock \in Crowd' /\ fifo_lock \notin Admitted'
      BY <1>2, <1>4, <3>1 DEF Admitted, Crowd
    <3> QED
      BY <1>3, <1>6, <3>2, CrowdCount
  <2> QED
    BY <2>1, <2>2
<1>8. PICK f \in Nat, w \in Nat, a \in Nat, v \in Nat, c \in Nat, x \in Nat :
         /\ f = FifoSize /\ w = Widest /\ a = Len(shell_cmd[p])
         /\ v = Len(cmd_fifo) /\ c = Coming /\ x = Load
  <2>1. shell_cmd[p] \in Commands
    BY <1>1 DEF TypeInv, CallType
  <2> QED
    BY <2>1, ShellFacts, UeventAssumption, WidestType, LoadType DEF Wide
<1>9. x = v + c /\ v < f - 2 * a /\ (c < w \/ c = 0)
  BY <1>1, <1>8, LoadType DEF Load, HasRoom
<1>10. PICK m \in Nat, top \in Nat : m = Limit(n, k - 1) /\ top = Limit(n, 0) /\ f <= m /\ m <= top
  <2>1. k - 1 \in 0 .. n
    OBVIOUS
  <2>2. \A j \in 0 .. n : Limit(n, j) \in Nat /\ FifoSize <= Limit(n, j) /\ Limit(n, j) <= Limit(n, 0)
    BY Limits
  <2>3. 0 \in 0 .. n
    OBVIOUS
  <2> QED
    BY <1>8, <2>1, <2>2, <2>3
<1>11. c # 0 => f + w <= m
  <2> SUFFICES ASSUME c # 0 PROVE f + w <= m
    OBVIOUS
  <2>1. k \in 1 .. n
    BY <1>7, <1>8
  <2>2. Limit(n, k - 1) = Limit(n, k) + w /\ f <= Limit(n, k) /\ Limit(n, k) \in Nat
    <3>1. /\ \A j \in 0 .. n : Limit(n, j) \in Nat /\ FifoSize <= Limit(n, j)
          /\ \A j \in 1 .. n : Limit(n, j - 1) = Limit(n, j) + Widest
      BY Limits
    <3> QED
      BY <1>8, <2>1, <3>1
  <2> QED
    BY <1>10, <2>2
<1>12. v + 1 + a <= f
  BY <1>9
<1>13. x + 1 + a <= m
  <2>1. CASE c = 0
    <3>1. x = v /\ f <= m
      BY <1>9, <1>10, <2>1
    <3> QED
      BY <1>12, <3>1
  <2>2. CASE c # 0
    <3>1. c < w /\ x = v + c /\ f + w <= m
      BY <1>9, <1>11, <2>2
    <3> QED
      BY <1>12, <3>1
  <2> QED
    BY <2>1, <2>2
<1>14. x <= top
  <2>1. m <= top
    BY <1>10
  <2> QED
    BY <1>13, <2>1
<1>15. Load' = x /\ shell_cmd'[p] = shell_cmd[p]
  BY <1>1, <1>5, <1>8 DEF Load
<1> QED
  BY <1>3, <1>6, <1>7, <1>8, <1>10, <1>13, <1>14, <1>15 DEF RoomInv

(* Where nothing is cut, kfifo_in takes the length and the command whole. *)
LEMMA PutLengthWhole ==
    ASSUME TypeInv, ~torn', NEW p \in Shells, PutLength(p)
    PROVE  /\ cmd_fifo' = cmd_fifo \o <<Len(shell_cmd[p])>>
           /\ Len(cmd_fifo') = Len(cmd_fifo) + 1
           /\ p \in Admitted /\ Coming = 0
<1>1. /\ pc[p] = "lock" /\ fifo_lock = Nobody
      /\ cmd_fifo' = KfifoIn(cmd_fifo, <<Len(shell_cmd[p])>>)
      /\ ~Cut(cmd_fifo, <<Len(shell_cmd[p])>>)
  BY DEF PutLength
<1>2. p \in Admitted
  BY <1>1 DEF Admitted
<1>3. Coming = 0
  BY <1>1, ShellFacts DEF Coming
<1>4. PICK h \in Seq(Nat) : h = <<Len(shell_cmd[p])>> /\ Len(h) = 1
  <2>1. Len(shell_cmd[p]) \in Nat
    BY <1>2, LoadType
  <2>2. <<Len(shell_cmd[p])>> \in Seq(Nat) /\ Len(<<Len(shell_cmd[p])>>) = 1
    BY <2>1, OneElement
  <2> QED
    BY <2>2
<1>5. cmd_fifo \in Seq(Nat)
  BY DEF TypeInv, QueueType
<1>6. cmd_fifo' = cmd_fifo \o h
  BY <1>1, <1>4, <1>5, KfifoInType
<1>7. Len(cmd_fifo \o h) = Len(cmd_fifo) + Len(h)
  BY <1>5, ConcatProperties
<1> QED
  BY <1>2, <1>3, <1>4, <1>6, <1>7

LEMMA PutCommandWhole ==
    ASSUME TypeInv, ~torn', NEW p \in Shells, PutCommand(p)
    PROVE  /\ cmd_fifo' = cmd_fifo \o shell_cmd[p]
           /\ Len(cmd_fifo') = Len(cmd_fifo) + Len(shell_cmd[p])
           /\ Coming = Len(shell_cmd[p])
<1>1. /\ pc[p] = "data" /\ cmd_fifo' = KfifoIn(cmd_fifo, shell_cmd[p])
      /\ ~Cut(cmd_fifo, shell_cmd[p])
  BY DEF PutCommand
<1>2. fifo_lock = p
  BY <1>1 DEF TypeInv, LockInv
<1>3. Coming = Len(shell_cmd[p])
  BY <1>1, <1>2 DEF Coming
<1>4. shell_cmd[p] \in Seq(Nat) /\ cmd_fifo \in Seq(Nat)
  BY DEF TypeInv, CallType, QueueType
<1>5. cmd_fifo' = cmd_fifo \o shell_cmd[p]
  BY <1>1, <1>4, KfifoInType
<1> QED
  BY <1>3, <1>4, <1>5, ConcatProperties

LEMMA PutLengthRoom ==
    ASSUME TypeInv, TypeInv', RoomInv, ~torn', NEW p \in Shells, PutLength(p)
    PROVE  RoomInv'
<1>1. /\ Goto(p, "data") /\ pc[p] = "lock" /\ fifo_lock' = p /\ shell_cmd' = shell_cmd
      /\ ahead' = ahead
  BY DEF PutLength
<1>2. pc'[p] = "data" /\ \A q \in Shells : q # p => pc'[q] = pc[q]
  BY <1>1, Went DEF TypeInv, CallType, Labels, CallerLabels
<1>3. p \in Admitted /\ Admitted' = Admitted \ {p} /\ Coming = 0
      /\ Len(cmd_fifo') = Len(cmd_fifo) + 1
  BY <1>2, PutLengthWhole DEF Admitted
<1>4. Coming' = Len(shell_cmd[p])
  BY <1>1, <1>2 DEF Coming
<1>5. Load' = Load + 1 + Len(shell_cmd[p])
  BY <1>3, <1>4, LoadType DEF Load
<1>6. Cardinality(Admitted') - 1 = Cardinality(Admitted) - 2
  <2>1. PICK n \in Nat : n = ahead /\ Cardinality(Crowd) <= n + 1
    BY DEF RoomInv
  <2>2. Cardinality(Admitted) \in 0 .. n + 1
        /\ Cardinality(Admitted \ {p}) = Cardinality(Admitted) - 1
    BY <1>3, <2>1, AdmittedCrowd, CrowdCount
  <2> QED
    BY <1>3, <2>2
<1>7. Load' <= Limit(ahead, 0)
  BY <1>3, <1>5, LengthFits
<1>8. ASSUME Admitted' # {}
      PROVE  \E q \in Admitted' : Load' + 1 + Len(shell_cmd'[q])
                                  <= Limit(ahead, Cardinality(Admitted') - 1)
  <2>1. PICK q \in Admitted \ {p} :
           Load + 1 + Len(shell_cmd[p]) + 1 + Len(shell_cmd[q])
           <= Limit(ahead, Cardinality(Admitted) - 2)
    BY <1>3, <1>8, LengthFits
  <2> QED
    BY <1>1, <1>3, <1>5, <1>6, <2>1
<1>9. Crowd' = Crowd
  BY <1>1, <1>2 DEF Crowd
<1> QED
  BY <1>1, <1>7, <1>8, <1>9 DEF RoomInv

(* What was announced has come. *)
LEMMA PutCommandRoom ==
    ASSUME TypeInv, TypeInv', RoomInv, ~torn', NEW p \in Shells, PutCommand(p)
    PROVE  RoomInv'
<1>1. /\ Goto(p, "wake") /\ pc[p] = "data" /\ fifo_lock' = Nobody /\ shell_cmd' = shell_cmd
      /\ ahead' = ahead
  BY DEF PutCommand
<1>2. pc'[p] = "wake" /\ \A q \in Shells : q # p => pc'[q] = pc[q]
  BY <1>1, Went DEF TypeInv, CallType, Labels, CallerLabels
<1>3. Admitted' = Admitted /\ Crowd' \subseteq Crowd
  BY <1>1, <1>2 DEF Admitted, Crowd
<1>4. Coming' = 0
  BY <1>1, ShellFacts DEF Coming
<1>5. Load' <= Load
  BY <1>4, PutCommandWhole, LoadType, LoadNext DEF Load
<1> QED
  BY <1>1, <1>3, <1>5, RoomKept

LEMMA TakeLengthRoom ==
    ASSUME TypeInv, TypeInv', RoomInv, TakeLength
    PROVE  RoomInv'
<1>1. /\ Goto(Server, "get") /\ pc[Server] = "take" /\ fifo_lock = Nobody /\ fifo_lock' = Server
      /\ shell_cmd' = shell_cmd /\ cmd_fifo # <<>> /\ cmd_fifo' = Tail(cmd_fifo)
      /\ ahead' = ahead
  BY DEF TakeLength, history
<1>2. Server \in Shells /\ pc'[Server] = "get" /\ \A q \in Shells : q # Server => pc'[q] = pc[q]
  BY <1>1, ShellFacts, Went DEF TypeInv, CallType, Labels
<1>3. Admitted' = Admitted /\ Crowd' = Crowd
  BY <1>1, <1>2 DEF Admitted, Crowd
<1>4. Coming' = 0 /\ Coming = 0
  BY <1>1, <1>2, ShellFacts DEF Coming
<1>5. Len(cmd_fifo') = Len(cmd_fifo) - 1
  BY <1>1, HeadAndTail DEF TypeInv, QueueType
<1>6. Load' <= Load
  BY <1>4, <1>5, LoadType, LoadNext DEF Load
<1> QED
  BY <1>1, <1>3, <1>6, RoomKept

LEMMA TakeCommandRoom ==
    ASSUME TypeInv, TypeInv', RoomInv, TakeCommand
    PROVE  RoomInv'
<1>1. PICK n : n = IF mstrlen <= Len(cmd_fifo) THEN mstrlen ELSE Len(cmd_fifo)
  OBVIOUS
<1>2. /\ pc[Server] = "get" /\ fifo_lock' = Nobody /\ Goto(Server, "system")
      /\ cmd_fifo' = SubSeq(cmd_fifo, n + 1, Len(cmd_fifo)) /\ shell_cmd' = shell_cmd
      /\ ahead' = ahead
  BY <1>1 DEF TakeCommand, System
<1>3. Server \in Shells /\ pc'[Server] = "system" /\ \A q \in Shells : q # Server => pc'[q] = pc[q]
  BY <1>2, ShellFacts, Went DEF TypeInv, CallType, Labels
<1>4. Admitted' = Admitted /\ Crowd' = Crowd
  BY <1>2, <1>3 DEF Admitted, Crowd
<1>5. Coming' = 0 /\ Coming = 0
  BY <1>2, <1>3, ShellFacts DEF Coming, TypeInv, LockInv
<1>6. Len(cmd_fifo') <= Len(cmd_fifo)
  BY <1>1, <1>2, Leavings DEF TypeInv, QueueType
<1>7. Load' <= Load
  BY <1>5, <1>6, LoadType, LoadNext DEF Load
<1> QED
  BY <1>2, <1>4, <1>7, RoomKept

(* A process moves on without touching the queue: Call, FindRoom, WakeUp, and
   what lidbg_userver does besides reading. *)
Idle(p, l) ==
    /\ Goto(p, l) /\ pc[p] \notin {"data", "get"} /\ l \notin {"data", "get"}
    /\ \A q \in Shells : q # p => shell_cmd'[q] = shell_cmd[q]
    /\ UNCHANGED <<cmd_fifo, fifo_lock, sent>>

LEMMA CallIdle ==
    ASSUME TypeInv, NEW p \in Callers, NEW c \in Commands, Call(p, c)
    PROVE  p \in Shells /\ "test" \in Labels /\ Idle(p, "test")
           /\ pc[p] # "lock" /\ taken' = taken /\ mstrlen' = mstrlen /\ ahead' = ahead
<1>1. /\ p \in Shells /\ p # Server /\ Server \in Shells /\ c \in Seq(Nat)
      /\ "test" \in Labels
  BY ShellFacts DEF Labels, CallerLabels
<1>2. /\ Goto(p, "test") /\ shell_cmd' = [shell_cmd EXCEPT ![p] = c] /\ pc[p] = "idle"
      /\ UNCHANGED <<cmd_fifo, fifo_lock, sent, taken, mstrlen, ahead>>
  BY DEF Call, history
<1>3. \A q \in Shells : q # p => shell_cmd'[q] = shell_cmd[q]
  BY <1>1, <1>2, TookUp DEF TypeInv, CallType
<1> QED
  BY <1>1, <1>2, <1>3 DEF Idle

LEMMA WakeUpIdle ==
    ASSUME TypeInv, NEW p \in Shells, WakeUp(p)
    PROVE  /\ pc[p] # "lock" /\ taken' = taken /\ mstrlen' = mstrlen /\ ahead' = ahead
           /\ \E l \in Labels : Idle(p, l) /\ l \in {"system", "idle"}
<1>1. PICK l \in Labels : l = (IF p = Server THEN "system" ELSE "idle")
  BY DEF Labels, CallerLabels
<1>2. /\ Goto(p, l) /\ pc[p] = "wake" /\ shell_cmd' = [shell_cmd EXCEPT ![p] = <<>>]
      /\ UNCHANGED <<cmd_fifo, fifo_lock, sent, taken, mstrlen, ahead>>
  BY <1>1 DEF WakeUp, history
<1>3. \A q \in Shells : q # p => shell_cmd'[q] = shell_cmd[q]
  BY <1>2, TookUp, EmptySeq DEF TypeInv, CallType
<1>4. l \in {"system", "idle"}
  BY <1>1
<1> QED
  BY <1>2, <1>3, <1>4 DEF Idle

LEMMA ServerIdle ==
    ASSUME TypeInv, \/ epoll_register \/ epoll_wait \/ lidbg_uevent_poll \/ SystemReturns
                    \/ TestEmpty \/ WriteNode
    PROVE  /\ pc[Server] # "lock" /\ mstrlen' = mstrlen /\ (TestEmpty \/ taken' = taken)
           /\ ahead' = ahead
           /\ \E l \in Labels : /\ Idle(Server, l) /\ l # "lock"
                                /\ l = "read" => cmd_fifo # <<>>
                                /\ l = "take" => pc[Server] = "read"
<1>1. CASE epoll_register \/ epoll_wait \/ lidbg_uevent_poll \/ SystemReturns
  <2>1. /\ shell_cmd' = shell_cmd /\ taken' = taken /\ mstrlen' = mstrlen
        /\ UNCHANGED <<cmd_fifo, fifo_lock, sent, ahead>>
    BY <1>1 DEF epoll_register, epoll_wait, lidbg_uevent_poll, SystemReturns, history
  <2>2. \E l \in {"poll", "read", "epoll_wait"} :
           /\ Goto(Server, l) /\ pc[Server] \notin {"lock", "data", "get"}
           /\ l = "read" => cmd_fifo # <<>>
    BY <1>1 DEF epoll_register, epoll_wait, lidbg_uevent_poll, SystemReturns
  <2>3. PICK l \in {"poll", "read", "epoll_wait"} :
           /\ Goto(Server, l) /\ pc[Server] \notin {"lock", "data", "get"}
           /\ l = "read" => cmd_fifo # <<>>
    BY <2>2
  <2>4. l \in Labels /\ l \notin {"lock", "data", "get", "take"}
    BY DEF Labels
  <2> QED
    BY <2>1, <2>3, <2>4 DEF Idle
<1>2. CASE TestEmpty
  <2>1. /\ pc[Server] = "read" /\ shell_cmd' = shell_cmd /\ mstrlen' = mstrlen
        /\ UNCHANGED <<cmd_fifo, fifo_lock, sent, ahead>>
    BY <1>2 DEF TestEmpty
  <2>2. PICK l \in {"system", "take"} : Goto(Server, l)
    BY <1>2 DEF TestEmpty, System
  <2>3. l \in Labels /\ l \notin {"lock", "data", "get", "read"}
    BY DEF Labels
  <2> QED
    BY <1>2, <2>1, <2>2, <2>3 DEF Idle
<1>3. CASE WriteNode
  <2>1. /\ pc[Server] = "system" /\ taken' = taken /\ mstrlen' = mstrlen
        /\ UNCHANGED <<cmd_fifo, fifo_lock, sent, ahead>>
    BY <1>3 DEF WriteNode, history
  <2>2. /\ Goto(Server, "test") /\ shell_cmd' = [shell_cmd EXCEPT ![Server] = Head(script)]
        /\ Head(script) \in Seq(Nat)
    BY <1>3, WriteNodeTypes, ShellFacts
  <2>3. \A q \in Shells : q # Server => shell_cmd'[q] = shell_cmd[q]
    BY <2>2, ShellFacts, TookUp DEF TypeInv, CallType
  <2>4. "test" \in Labels
    BY DEF Labels, CallerLabels
  <2> QED
    BY <2>1, <2>2, <2>3, <2>4 DEF Idle
<1> QED
  BY <1>1, <1>2, <1>3

LEMMA InitRoom == Init => RoomInv
<1> SUFFICES ASSUME Init PROVE RoomInv
  OBVIOUS
<1>1. /\ Admitted = {} /\ Crowd = {} /\ Coming = 0 /\ Len(cmd_fifo) = 0 /\ ahead = 0
  BY ShellFacts DEF Init, Admitted, Crowd, Coming
<1>2. Limit(0, 0) \in Nat /\ Cardinality({}) = 0
  BY Limits, FS_EmptySet
<1> QED
  BY <1>1, <1>2 DEF RoomInv, Load

LEMMA RoomStep == TypeInv /\ TypeInv' /\ RoomInv /\ Next /\ ~torn' => RoomInv'
<1> SUFFICES ASSUME TypeInv, TypeInv', RoomInv, Next, ~torn' PROVE RoomInv'
  OBVIOUS
<1>1. ASSUME NEW p \in Shells, NEW l \in Labels, Idle(p, l), pc[p] # "lock", l # "lock",
             ahead' = ahead
      PROVE  RoomInv'
  BY <1>1, RoomIdle DEF Idle
<1>2. ASSUME NEW p \in Shells, lidbg_uevent_shell(p) PROVE RoomInv'
  BY <1>1, <1>2, FindRoomRoom, PutLengthRoom, PutCommandRoom, WakeUpIdle DEF lidbg_uevent_shell
<1>3. ASSUME NEW p \in Callers, NEW c \in Commands, Call(p, c) PROVE RoomInv'
  BY <1>1, <1>3, CallIdle
<1>4. CASE main
  BY <1>1, <1>2, <1>4, ShellFacts, ServerIdle, TakeLengthRoom, TakeCommandRoom
     DEF main, lidbg_uevent_read
<1> QED
  BY <1>2, <1>3, <1>4, ShellFacts DEF Next

(* What is more than all who found room might fill is too many of them. *)
LEMMA Overfull ==
    ASSUME RoomInv, NEW d \in Commands, NEW x \in Nat, x <= Limit(ahead, 0), x > Capacity
    PROVE  TooMany(ahead)
<1>1. PICK n \in Nat : n = ahead
  BY DEF RoomInv
<1>2. PICK c \in Commands : Len(c) + 1 = Widest
  BY WidestType DEF Wide
<1>3. n - 0 = n
  OBVIOUS
<1>4. Limit(ahead, 0) = FifoSize + ahead * (Len(c) + 1)
  BY <1>1, <1>2, <1>3 DEF Limit
<1>5. PICK y \in Nat : y = Limit(ahead, 0)
  <2>1. 0 \in 0 .. n
    OBVIOUS
  <2> QED
    BY <1>1, <2>1, Limits
<1>6. y > Capacity
  BY <1>5, UeventAssumption
<1>7. FifoSize + ahead * (Len(c) + 1) > Capacity
  BY <1>4, <1>5, <1>6
<1> QED
  BY <1>7 DEF TooMany

(* The first record that is cut. *)
LEMMA TornStep ==
    ASSUME TypeInv, RoomInv, Next, torn'
    PROVE  TooMany(ahead)'
<1>1. ASSUME NEW p \in Shells, PutLength(p) PROVE TooMany(ahead)'
  <2>1. /\ pc[p] = "lock" /\ fifo_lock = Nobody /\ ahead' = ahead
        /\ torn \/ Cut(cmd_fifo, <<Len(shell_cmd[p])>>)
    BY <1>1 DEF PutLength
  <2>2. p \in Admitted /\ Coming = 0
    BY <2>1, ShellFacts DEF Admitted, Coming
  <2>3. PICK v \in Nat, a \in Nat : v = Len(cmd_fifo) /\ a = Len(shell_cmd[p])
    BY <2>2, LoadType
  <2>4. shell_cmd[p] \in Commands
    BY <2>2, LoadType
  <2>5. v + 1 + a <= Limit(ahead, 0)
    <3>1. Load = v
      BY <2>2, <2>3 DEF Load
    <3>2. Load + 1 + Len(shell_cmd[p]) <= Limit(ahead, 0)
      BY <2>2, LengthFits
    <3> QED
      BY <2>3, <3>1, <3>2
  <2>6. v + 1 + a > Capacity
    <3>1. Len(cmd_fifo) + Len(<<Len(shell_cmd[p])>>) > Capacity
      BY <2>1 DEF Next, Cut
    <3>2. Len(<<Len(shell_cmd[p])>>) = 1
      BY <2>3, OneElement
    <3>3. v + 1 > Capacity
      BY <2>3, <3>1, <3>2
    <3> QED
      BY <3>3, UeventAssumption
  <2>7. TooMany(ahead)
    BY <2>4, <2>5, <2>6, Overfull
  <2> QED
    BY <2>1, <2>7 DEF TooMany
<1>2. ASSUME NEW p \in Shells, PutCommand(p) PROVE TooMany(ahead)'
  <2>1. /\ pc[p] = "data" /\ ahead' = ahead
        /\ torn \/ Cut(cmd_fifo, shell_cmd[p])
    BY <1>2 DEF PutCommand
  <2>2. Coming = Len(shell_cmd[p]) /\ shell_cmd[p] \in Commands
    BY <2>1 DEF Coming, TypeInv, LockInv, CallType
  <2>3. Load > Capacity /\ Load \in Nat
    BY <2>1, <2>2, LoadType DEF Next, Cut, Load
  <2>4. TooMany(ahead)
    BY <2>2, <2>3, Overfull DEF RoomInv
  <2> QED
    BY <2>1, <2>4 DEF TooMany
<1>3. PICK p \in Shells : PutLength(p) \/ PutCommand(p)
  BY ShellFacts DEF Next, main, lidbg_uevent_shell, Call, FindRoom, WakeUp, epoll_register,
     epoll_wait, lidbg_uevent_poll, lidbg_uevent_read, TestEmpty, TakeLength, TakeCommand,
     WriteNode, SystemReturns, history
<1> QED
  BY <1>1, <1>2, <1>3

----------------------------------------------------------------------------
(* The queue is the row of the commands not yet run. *)

CommandForm == [c \in Commands |-> <<Len(c)>> \o c]

LEMMA RecordsRow ==
    /\ CommandForm \in [Commands -> Seq(Nat)]
    /\ \A c \in Commands : CommandForm[c] = <<Len(c)>> \o c
    /\ \A s \in Seq(Commands) : Records(s) = RowOf(CommandForm, s)
<1>1. \A c \in Commands : <<Len(c)>> \o c \in Seq(Nat)
  <2> TAKE c \in Commands
  <2>1. c \in Seq(Nat) /\ <<Len(c)>> \in Seq(Nat)
    BY ShellFacts, OneElement
  <2> QED
    BY <2>1, ConcatProperties
<1>2. /\ CommandForm \in [Commands -> Seq(Nat)]
      /\ \A c \in Commands : CommandForm[c] = <<Len(c)>> \o c
  BY <1>1 DEF CommandForm
<1>3. ASSUME NEW s \in Seq(Commands) PROVE Records(s) = RowOf(CommandForm, s)
  <2>1. \A i \in DOMAIN s : s[i] \in Commands
    BY ElementOfSeq, LenProperties
  <2>2. [i \in DOMAIN s |-> <<Len(s[i])>> \o s[i]] = Images(CommandForm, s)
    BY <1>2, <2>1 DEF Images
  <2> QED
    BY <2>2 DEF Records, RowOf
<1> QED
  BY <1>2, <1>3

LEMMA ConcatThree ==
    \A u, v, w \in Seq(Nat) : (u \o v) \o w = u \o (v \o w) /\ v \o w \in Seq(Nat)
BY ConcatAssociative, ConcatProperties

LEMMA ConcatCommands ==
    \A u, v, w \in Seq(Commands) : u \o (v \o w) = (u \o v) \o w
BY ConcatAssociative

LEMMA RecordsFacts ==
    /\ Records(<<>>) = <<>>
    /\ \A s \in Seq(Commands) : Records(s) \in Seq(Nat)
    /\ \A s \in Seq(Commands), c \in Commands :
          /\ Records(Append(s, c)) = (Records(s) \o <<Len(c)>>) \o c
          /\ Records(<<c>> \o s) = <<Len(c)>> \o (c \o Records(s))
<1>1. Records(<<>>) = <<>>
  BY RecordsRow, RowOfNothing, EmptySeq
<1>2. \A s \in Seq(Commands) : Records(s) \in Seq(Nat)
  BY RecordsRow, RowOfType
<1>3. ASSUME NEW s \in Seq(Commands), NEW c \in Commands
      PROVE  /\ Records(Append(s, c)) = (Records(s) \o <<Len(c)>>) \o c
             /\ Records(<<c>> \o s) = <<Len(c)>> \o (c \o Records(s))
  <2>1. PICK h \in Seq(Nat) : h = <<Len(c)>>
    BY ShellFacts, OneElement
  <2>2. c \in Seq(Nat) /\ Records(s) \in Seq(Nat)
    BY <1>2, ShellFacts
  <2>3. Append(s, c) \in Seq(Commands) /\ <<c>> \o s \in Seq(Commands)
    BY AppendProperties, OneElement, ConcatProperties
  <2>r. /\ Records(s) = RowOf(CommandForm, s) /\ CommandForm[c] = <<Len(c)>> \o c
        /\ Records(Append(s, c)) = RowOf(CommandForm, Append(s, c))
        /\ Records(<<c>> \o s) = RowOf(CommandForm, <<c>> \o s)
    BY <2>3, RecordsRow
  <2>f. CommandForm \in [Commands -> Seq(Nat)]
    BY RecordsRow
  <2>4. Records(Append(s, c)) = Records(s) \o (h \o c)
    <3>1. RowOf(CommandForm, Append(s, c)) = RowOf(CommandForm, s) \o CommandForm[c]
      BY <2>f, RowOfAppend
    <3> QED
      BY <2>1, <2>r, <3>1, Zenon
  <2>5. Records(<<c>> \o s) = (h \o c) \o Records(s)
    <3>1. RowOf(CommandForm, <<c>> \o s) = CommandForm[c] \o RowOf(CommandForm, s)
      BY <2>f, RowOfHead
    <3> QED
      BY <2>1, <2>r, <3>1, Zenon
  <2>6. Records(s) \o (h \o c) = (Records(s) \o h) \o c
    BY <2>2, ConcatThree
  <2>7. (h \o c) \o Records(s) = h \o (c \o Records(s))
    BY <2>2, ConcatThree
  <2> QED
    BY <2>1, <2>4, <2>5, <2>6, <2>7
<1> QED
  BY <1>1, <1>2, <1>3

(* The commands not yet run, and what of the first of them has been taken out
   or of the last been put in. *)
Holds(rest) ==
    /\ sent = taken \o rest
    /\ fifo_lock = Nobody => cmd_fifo = Records(rest)
    /\ \A p \in Shells : pc[p] = "data" =>
          cmd_fifo = Records(rest) \o <<Len(shell_cmd[p])>>
    /\ pc[Server] = "get" =>
          \E c \in Commands, r \in Seq(Commands) :
             rest = <<c>> \o r /\ mstrlen = Len(c) /\ cmd_fifo = c \o Records(r)

QueueInv ==
    /\ taken \in Seq(Commands)
    /\ pc[Server] \in {"read", "take"} => cmd_fifo # <<>>
    /\ \E rest \in Seq(Commands) : Holds(rest)

LEMMA QueueIdle ==
    ASSUME TypeInv, TypeInv', QueueInv, NEW p \in Shells, NEW l \in Labels, Idle(p, l),
           taken' = taken, mstrlen' = mstrlen,
           p = Server /\ l \in {"read", "take"} => cmd_fifo # <<>>
    PROVE  QueueInv'
<1>1. pc'[p] = l /\ \A q \in Shells : q # p => pc'[q] = pc[q]
  BY Went DEF Idle, TypeInv, CallType
<1>2. pc'[Server] \in {"read", "take"} => cmd_fifo # <<>>
  <2>1. CASE p = Server
    BY <1>1, <2>1
  <2>2. CASE p # Server
    BY <1>1, <2>2, ShellFacts DEF QueueInv
  <2> QED
    BY <2>1, <2>2
<1>3. PICK rest \in Seq(Commands) : Holds(rest)
  BY DEF QueueInv
<1>4. sent' = taken' \o rest /\ (fifo_lock' = Nobody => cmd_fifo' = Records(rest))
  BY <1>3 DEF Holds, Idle
<1>5. ASSUME NEW q \in Shells, pc'[q] = "data"
      PROVE  cmd_fifo' = Records(rest) \o <<Len(shell_cmd'[q])>>
  <2>1. q # p /\ pc[q] = "data" /\ shell_cmd'[q] = shell_cmd[q]
    BY <1>1, <1>5 DEF Idle
  <2> QED
    BY <1>3, <2>1 DEF Holds, Idle
<1>6. pc'[Server] = "get" => pc[Server] = "get"
  BY <1>1, ShellFacts DEF Idle
<1>7. pc'[Server] = "get" =>
         \E c \in Commands, r \in Seq(Commands) :
            rest = <<c>> \o r /\ mstrlen' = Len(c) /\ cmd_fifo' = c \o Records(r)
  BY <1>3, <1>6 DEF Holds, Idle
<1>8. Holds(rest)'
  BY <1>4, <1>5, <1>7 DEF Holds
<1> QED
  BY <1>2, <1>8 DEF QueueInv, Idle

(* While no one else holds the mutex, no one else is between its two ends. *)
LEMMA Alone ==
    ASSUME TypeInv
    PROVE  /\ \A p, q \in Shells : /\ pc[p] \in {"data", "get"} /\ pc[q] \in {"data", "get"}
                                   => p = q
           /\ fifo_lock = Nobody => \A q \in Shells : pc[q] \notin {"data", "get"}
BY ShellFacts DEF TypeInv, LockInv

LEMMA PutLengthQueue ==
    ASSUME TypeInv, TypeInv', ~torn', QueueInv, NEW p \in Shells, PutLength(p)
    PROVE  QueueInv'
<1>1. /\ Goto(p, "data") /\ pc[p] = "lock" /\ fifo_lock = Nobody /\ fifo_lock' = p
      /\ UNCHANGED <<shell_cmd, mstrlen, sent, taken>>
  BY DEF PutLength
<1>2. pc'[p] = "data" /\ \A q \in Shells : q # p => pc'[q] = pc[q]
  BY <1>1, Went DEF TypeInv, CallType, Labels, CallerLabels
<1>3. cmd_fifo' = cmd_fifo \o <<Len(shell_cmd[p])>>
  BY PutLengthWhole
<1>4. PICK rest \in Seq(Commands) : Holds(rest)
  BY DEF QueueInv
<1>5. \A q \in Shells : pc'[q] = "data" => q = p
  BY <1>1, <1>2, Alone
<1>6. pc'[Server] # "get"
  BY <1>1, <1>2, Alone, ShellFacts
<1>7. cmd_fifo' = Records(rest) \o <<Len(shell_cmd'[p])>>
  BY <1>1, <1>3, <1>4 DEF Holds
<1>8. Holds(rest)'
  BY <1>1, <1>4, <1>5, <1>6, <1>7, ShellFacts DEF Holds
<1>9. cmd_fifo # <<>> => cmd_fifo' # <<>>
  BY <1>1, KfifoInType, LenProperties, OneElement DEF PutLength, TypeInv, CallType, QueueType
<1>10. pc'[Server] \in {"read", "take"} => pc[Server] \in {"read", "take"}
  BY <1>2, ShellFacts
<1> QED
  BY <1>1, <1>8, <1>9, <1>10 DEF QueueInv

LEMMA PutCommandQueue ==
    ASSUME TypeInv, TypeInv', ~torn', QueueInv, NEW p \in Shells, PutCommand(p)
    PROVE  QueueInv'
<1>1. /\ Goto(p, "wake") /\ pc[p] = "data" /\ fifo_lock' = Nobody
      /\ sent' = Append(sent, shell_cmd[p])
      /\ UNCHANGED <<shell_cmd, mstrlen, taken>>
  BY DEF PutCommand
<1>2. pc'[p] = "wake" /\ \A q \in Shells : q # p => pc'[q] = pc[q]
  BY <1>1, Went DEF TypeInv, CallType, Labels, CallerLabels
<1>3. PICK c \in Commands : c = shell_cmd[p]
  BY <1>1 DEF TypeInv, CallType
<1>4. PICK rest \in Seq(Commands) : Holds(rest)
  BY DEF QueueInv
<1>5. PICK more \in Seq(Commands) : more = Append(rest, c)
  BY AppendProperties
<1>6. sent' = taken \o more
  <2>1. sent = taken \o rest /\ taken \in Seq(Commands)
    BY <1>4 DEF Holds, QueueInv
  <2>2. taken \o Append(rest, c) = Append(taken \o rest, c)
    BY <2>1, AppendConcat
  <2> QED
    BY <1>1, <1>3, <1>5, <2>1, <2>2
<1>7. cmd_fifo' = Records(more)
  <2>1. cmd_fifo = Records(rest) \o <<Len(c)>>
    BY <1>1, <1>3, <1>4 DEF Holds
  <2>2. cmd_fifo' = cmd_fifo \o c
    BY <1>3, PutCommandWhole
  <2>3. Records(Append(rest, c)) = (Records(rest) \o <<Len(c)>>) \o c
    BY RecordsFacts
  <2> QED
    BY <1>5, <2>1, <2>2, <2>3
<1>8. \A q \in Shells : pc'[q] \notin {"data", "get"}
  BY <1>1, <1>2, Alone
<1>9. Holds(more)'
  BY <1>1, <1>6, <1>7, <1>8, ShellFacts DEF Holds
<1>10. cmd_fifo # <<>> => cmd_fifo' # <<>>
  BY <1>3, KfifoInType, ShellFacts DEF PutCommand, TypeInv, QueueType
<1>11. pc'[Server] \in {"read", "take"} => pc[Server] \in {"read", "take"}
  BY <1>2, ShellFacts
<1> QED
  BY <1>1, <1>9, <1>10, <1>11 DEF QueueInv

(* The length that is taken out is that of the command that follows it. *)
LEMMA TakeLengthQueue ==
    ASSUME TypeInv, TypeInv', QueueInv, TakeLength
    PROVE  QueueInv'
<1>1. /\ Goto(Server, "get") /\ fifo_lock = Nobody /\ cmd_fifo # <<>> /\ fifo_lock' = Server
      /\ mstrlen' = Head(cmd_fifo) /\ cmd_fifo' = Tail(cmd_fifo)
      /\ UNCHANGED <<shell_cmd, sent, taken>>
  BY DEF TakeLength, history
<1>2. Server \in Shells /\ pc'[Server] = "get" /\ \A q \in Shells : q # Server => pc'[q] = pc[q]
  BY <1>1, ShellFacts, Went DEF TypeInv, CallType, Labels
<1>3. PICK rest \in Seq(Commands) : Holds(rest)
  BY DEF QueueInv
<1>4. cmd_fifo = Records(rest) /\ rest # <<>>
  BY <1>1, <1>3, RecordsFacts DEF Holds
<1>5. PICK c \in Commands, r \in Seq(Commands) : rest = <<c>> \o r
  <2>1. Head(rest) \in Commands /\ Tail(rest) \in Seq(Commands)
    BY <1>4, HeadAndTail
  <2>2. rest = <<Head(rest)>> \o Tail(rest)
    BY <1>4, HeadAndTail
  <2> QED
    BY <2>1, <2>2, Zenon
<1>6. PICK t \in Seq(Nat) : t = c \o Records(r)
  <2>1. c \in Seq(Nat) /\ Records(r) \in Seq(Nat)
    BY RecordsFacts, ShellFacts
  <2> QED
    BY <2>1, ConcatProperties
<1>7. cmd_fifo = <<Len(c)>> \o t
  BY <1>4, <1>5, <1>6, RecordsFacts
<1>8. Head(cmd_fifo) = Len(c) /\ Tail(cmd_fifo) = t
  <2>1. Len(c) \in Nat
    BY ShellFacts
  <2>2. Head(<<Len(c)>> \o t) = Len(c) /\ Tail(<<Len(c)>> \o t) = t
    BY <2>1
  <2> QED
    BY <1>7, <2>2
<1>9. \E d \in Commands, u \in Seq(Commands) :
         rest = <<d>> \o u /\ mstrlen' = Len(d) /\ cmd_fifo' = d \o Records(u)
  BY <1>1, <1>5, <1>6, <1>8
<1>10. \A q \in Shells : pc'[q] # "data"
  BY <1>1, <1>2, Alone
<1>11. Holds(rest)'
  BY <1>1, <1>2, <1>3, <1>9, <1>10, ShellFacts DEF Holds
<1> QED
  BY <1>1, <1>2, <1>11 DEF QueueInv

LEMMA TakeCommandQueue ==
    ASSUME TypeInv, TypeInv', QueueInv, TakeCommand
    PROVE  QueueInv'
<1>1. PICK n : n = IF mstrlen <= Len(cmd_fifo) THEN mstrlen ELSE Len(cmd_fifo)
  OBVIOUS
<1>2. /\ pc[Server] = "get" /\ fifo_lock' = Nobody /\ Goto(Server, "system")
      /\ taken' = Append(taken, SubSeq(cmd_fifo, 1, n))
      /\ cmd_fifo' = SubSeq(cmd_fifo, n + 1, Len(cmd_fifo))
      /\ UNCHANGED <<shell_cmd, sent>>
  BY <1>1 DEF TakeCommand, System
<1>3. Server \in Shells /\ pc'[Server] = "system" /\ \A q \in Shells : q # Server => pc'[q] = pc[q]
  BY <1>2, ShellFacts, Went DEF TypeInv, CallType, Labels
<1>4. PICK rest \in Seq(Commands) : Holds(rest)
  BY DEF QueueInv
<1>5. PICK c \in Commands, r \in Seq(Commands) :
         rest = <<c>> \o r /\ mstrlen = Len(c) /\ cmd_fifo = c \o Records(r)
  BY <1>2, <1>4 DEF Holds
<1>6. PICK d \in Seq(Nat), t \in Seq(Nat) : d = c /\ t = Records(r)
  BY RecordsFacts, ShellFacts
<1>7. SubSeq(cmd_fifo, 1, n) = c /\ SubSeq(cmd_fifo, n + 1, Len(cmd_fifo)) = Records(r)
  <2>1. Len(d \o t) = Len(d) + Len(t) /\ Len(d) \in Nat /\ Len(t) \in Nat
    BY ConcatProperties, LenProperties
  <2>2. cmd_fifo = d \o t /\ mstrlen = Len(d)
    BY <1>5, <1>6
  <2>3. n = Len(d)
    BY <1>1, <2>1, <2>2
  <2>4. SubSeq(d \o t, 1, Len(d)) = d /\ SubSeq(d \o t, Len(d) + 1, Len(d \o t)) = t
    BY SliceJoint
  <2> QED
    BY <1>6, <2>2, <2>3, <2>4
<1>8. taken' = Append(taken, c) /\ cmd_fifo' = Records(r) /\ taken' \in Seq(Commands)
  BY <1>2, <1>7, AppendProperties DEF QueueInv
<1>9. sent' = taken' \o r
  <2>1. sent = taken \o (<<c>> \o r) /\ taken \in Seq(Commands) /\ <<c>> \in Seq(Commands)
    BY <1>4, <1>5, OneElement DEF Holds, QueueInv
  <2>2. taken \o (<<c>> \o r) = (taken \o <<c>>) \o r
    <3>1. PICK h \in Seq(Commands) : h = <<c>>
      BY <2>1
    <3>2. taken \o (h \o r) = (taken \o h) \o r
      BY <2>1, ConcatCommands
    <3> QED
      BY <3>1, <3>2, Zenon
  <2>3. Append(taken, c) = taken \o <<c>>
    BY <2>1, AppendIsConcat
  <2> QED
    BY <1>2, <1>8, <2>1, <2>2, <2>3
<1>10. \A q \in Shells : pc'[q] \notin {"data", "get"}
  BY <1>2, <1>3, Alone
<1>11. Holds(r)'
  BY <1>2, <1>3, <1>8, <1>9, <1>10 DEF Holds
<1> QED
  BY <1>3, <1>8, <1>11 DEF QueueInv

LEMMA InitQueue == Init => QueueInv
<1> SUFFICES ASSUME Init PROVE QueueInv
  OBVIOUS
<1>1. <<>> \in Seq(Commands) /\ <<>> \o <<>> = <<>>
  OBVIOUS
<1>2. Holds(<<>>)
  BY <1>1, RecordsFacts, ShellFacts DEF Init, Holds
<1> QED
  BY <1>1, <1>2, ShellFacts DEF Init, QueueInv

LEMMA QueueStep ==
    TypeInv /\ TypeInv' /\ QueueInv /\ Next /\ ~torn' => QueueInv'
<1> SUFFICES ASSUME TypeInv, TypeInv', QueueInv, Next, ~torn' PROVE QueueInv'
  OBVIOUS
<1>1. ASSUME NEW p \in Shells, lidbg_uevent_shell(p) PROVE QueueInv'
  <2>1. CASE FindRoom(p)
    <3>1. "lock" \in Labels /\ Idle(p, "lock") /\ taken' = taken /\ mstrlen' = mstrlen
      BY <2>1 DEF FindRoom, Idle, Labels, CallerLabels
    <3> QED
      BY <3>1, QueueIdle
  <2>2. CASE WakeUp(p)
    <3>1. PICK l \in Labels : Idle(p, l) /\ l \notin {"read", "take"}
      BY <2>2, WakeUpIdle
    <3> QED
      BY <2>2, <3>1, WakeUpIdle, QueueIdle
  <2> QED
    BY <1>1, <2>1, <2>2, PutLengthQueue, PutCommandQueue DEF lidbg_uevent_shell
<1>2. ASSUME NEW p \in Callers, NEW c \in Commands, Call(p, c) PROVE QueueInv'
  BY <1>2, CallIdle, QueueIdle
<1>3. ASSUME \/ epoll_register \/ epoll_wait \/ lidbg_uevent_poll \/ SystemReturns
             \/ TestEmpty \/ WriteNode
      PROVE  QueueInv'
  <2>1. PICK l \in Labels : /\ Idle(Server, l)
                            /\ l = "read" => cmd_fifo # <<>>
                            /\ l = "take" => pc[Server] = "read"
    BY <1>3, ServerIdle
  <2>2. TestEmpty => taken' = taken
    BY DEF TestEmpty, QueueInv
  <2>3. taken' = taken /\ mstrlen' = mstrlen
    BY <1>3, <2>2, ServerIdle
  <2>4. l \in {"read", "take"} => cmd_fifo # <<>>
    BY <2>1 DEF QueueInv
  <2> QED
    BY <2>1, <2>3, <2>4, ShellFacts, QueueIdle
<1>4. CASE main
  BY <1>1, <1>3, <1>4, ShellFacts, TakeLengthQueue, TakeCommandQueue DEF main, lidbg_uevent_read
<1> QED
  BY <1>1, <1>2, <1>4, ShellFacts DEF Next

(* While nothing is cut all is in order, and what is cut is the doing of too
   many. *)
OrderInv ==
    /\ TypeInv /\ torn \in BOOLEAN
    /\ torn => TooMany(ahead)
    /\ ~torn => RoomInv /\ QueueInv

LEMMA InitOrder == Init => OrderInv
BY InitTypes, InitRoom, InitQueue DEF Init, OrderInv

LEMMA OrderStep == OrderInv /\ [Next]_vars => OrderInv'
<1>1. ASSUME OrderInv, Next PROVE OrderInv'
  <2>1. TypeInv' /\ ~torn
    BY <1>1, TypeStep DEF OrderInv, Next
  <2>2. torn' \in BOOLEAN
    BY <1>1 DEF OrderInv, Next, main, lidbg_uevent_shell, Call, FindRoom, PutLength, PutCommand,
       WakeUp, epoll_register, epoll_wait, lidbg_uevent_poll, lidbg_uevent_read, TestEmpty,
       TakeLength, TakeCommand, WriteNode, SystemReturns, history, Cut
  <2>3. torn' => TooMany(ahead)'
    BY <1>1, <2>1, TornStep DEF OrderInv
  <2>4. ~torn' => RoomInv' /\ QueueInv'
    BY <1>1, <2>1, RoomStep, QueueStep DEF OrderInv
  <2> QED
    BY <2>1, <2>2, <2>3, <2>4 DEF OrderInv
<1>2. ASSUME OrderInv, UNCHANGED vars PROVE OrderInv'
  <2>1. TypeInv'
    BY <1>2, TypeStep DEF OrderInv
  <2>2. torn' = torn /\ ahead' = ahead
    BY <1>2 DEF vars, history
  <2>3. RoomInv => RoomInv'
    BY <1>2 DEF vars, history, RoomInv, Crowd, Admitted, Load, Coming
  <2>4. QueueInv => QueueInv'
    BY <1>2 DEF vars, history, QueueInv, Holds
  <2>5. TooMany(ahead) => TooMany(ahead)'
    BY <2>2 DEF TooMany
  <2> QED
    BY <1>2, <2>1, <2>2, <2>3, <2>4, <2>5 DEF OrderInv
<1> QED
  BY <1>1, <1>2

----------------------------------------------------------------------------
(* The theorems. *)

(* The processes are where the code can be, fifo_lock is held by the one process
   between the two ends of an operation on the queue, and whoever queues
   has a command. *)
THEOREM ShellTypes == Spec => []TypeInv
BY InitTypes, TypeStep, PTL DEF Spec

(* What kfifo_in cuts: until it cuts a record, what the queue holds, what its
   last length announces and one record for each of those who have found room
   are no more than FIFO_SIZE and the widest record for each but one of them;
   so where that many records fit beside FIFO_SIZE nothing is cut.  Neither
   how many call nor what kfifo_alloc makes of FIFO_SIZE is assumed. *)
THEOREM RoomForAll ==
    Spec => [](IF torn THEN TooMany(ahead) ELSE RoomInv)
<1>1. OrderInv => IF torn THEN TooMany(ahead) ELSE RoomInv
  BY DEF OrderInv
<1>2. Spec => []OrderInv
  BY InitOrder, OrderStep, PTL DEF Spec
<1> QED
  BY <1>1, <1>2, PTL

(* Until a record is cut the commands are handed to lidbg_userver whole, each once
   and in its turn, though lidbg_uevent_shell tests the room and
   lidbg_uevent_read the queue before they take the mutex, and between two
   operations the queue holds the records of the rest; and a record is cut
   only when too many have found room together. *)
THEOREM CommandsInOrder == Spec => []CommandsReadInOrder
<1>1. OrderInv => CommandsReadInOrder
  <2> SUFFICES ASSUME OrderInv PROVE CommandsReadInOrder
    OBVIOUS
  <2>1. CASE torn
    BY <2>1 DEF OrderInv, CommandsReadInOrder
  <2>2. CASE ~torn
    <3>1. QueueInv
      BY <2>2 DEF OrderInv
    <3>2. PICK rest \in Seq(Commands) : Holds(rest)
      BY <3>1 DEF QueueInv
    <3>3. taken \in Seq(Commands) /\ sent = taken \o rest
      BY <3>1, <3>2 DEF QueueInv, Holds
    <3>4. IsPrefix(taken, taken \o rest)
      BY <3>3, PrefixOf
    <3>5. SubSeq(taken \o rest, Len(taken) + 1, Len(taken \o rest)) = rest
      BY <3>3, SliceJoint
    <3> QED
      BY <2>2, <3>2, <3>3, <3>4, <3>5 DEF CommandsReadInOrder, Holds
  <2> QED
    BY <2>1, <2>2
<1>2. Spec => []OrderInv
  BY InitOrder, OrderStep, PTL DEF Spec
<1> QED
  BY <1>1, <1>2, PTL

(* A wait that does not end: lidbg_userver, in a handler of a command it runs
   itself, finds no room, and nobody else makes any. *)
WaitsForEver == ServerWaits => ServerWaits' /\ taken' = taken

(* More in the queue is no more room. *)
LEMMA StillNoRoom ==
    ASSUME TypeInv, TypeInv', ServerWaits, pc'[Server] = pc[Server],
           shell_cmd'[Server] = shell_cmd[Server], Len(cmd_fifo') >= Len(cmd_fifo)
    PROVE  ServerWaits'
<1>1. PICK v \in Nat, w \in Nat, a \in Nat :
         v = Len(cmd_fifo) /\ w = Len(cmd_fifo') /\ a = Len(shell_cmd[Server]) /\ v <= w
  BY ShellFacts, LenProperties DEF TypeInv, CallType, QueueType
<1>2. ~(v < Capacity /\ v < FifoSize - 2 * a)
  BY <1>1 DEF ServerWaits, HasRoom
<1>3. ~(w < Capacity /\ w < FifoSize - 2 * a)
  BY <1>1, <1>2, UeventAssumption
<1> QED
  BY <1>1, <1>3 DEF ServerWaits, HasRoom

(* While lidbg_userver waits, what another process does leaves it so. *)
LEMMA OthersAddOnly ==
    ASSUME TypeInv, TypeInv', ServerWaits, NEW p \in Callers,
           (\E c \in Commands : Call(p, c)) \/ lidbg_uevent_shell(p)
    PROVE  /\ pc'[Server] = pc[Server] /\ shell_cmd'[Server] = shell_cmd[Server]
           /\ taken' = taken /\ Len(cmd_fifo') >= Len(cmd_fifo)
<1>1. /\ p \in Shells /\ p # Server /\ Server \in Shells
      /\ Len(cmd_fifo) \in Nat /\ Len(shell_cmd[p]) \in Nat
      /\ pc \in [Shells -> Labels] /\ shell_cmd \in [Shells -> Seq(Nat)]
  BY ShellFacts, LenProperties DEF TypeInv, CallType, QueueType
<1>2. Len(cmd_fifo) >= Len(cmd_fifo)
  BY <1>1
<1>3. ASSUME NEW c \in Commands, Call(p, c)
      PROVE  /\ pc'[Server] = pc[Server] /\ shell_cmd'[Server] = shell_cmd[Server]
             /\ taken' = taken /\ cmd_fifo' = cmd_fifo
  BY <1>1, <1>3 DEF Call, Goto, history
<1>4. CASE FindRoom(p)
  BY <1>1, <1>2, <1>4 DEF FindRoom, Goto
<1>5. CASE PutLength(p)
  <2>1. pc'[Server] = pc[Server] /\ shell_cmd' = shell_cmd /\ taken' = taken
    BY <1>1, <1>5 DEF PutLength, Goto
  <2>2. cmd_fifo' = KfifoIn(cmd_fifo, <<Len(shell_cmd[p])>>)
    BY <1>5 DEF PutLength
  <2>3. <<Len(shell_cmd[p])>> \in Seq(Nat) /\ cmd_fifo \in Seq(Nat)
    BY <1>1, OneElement DEF TypeInv, QueueType
  <2>4. Len(cmd_fifo') >= Len(cmd_fifo)
    BY <2>2, <2>3, KfifoInType
  <2> QED
    BY <2>1, <2>4
<1>6. CASE PutCommand(p)
  <2>1. pc'[Server] = pc[Server] /\ shell_cmd' = shell_cmd /\ taken' = taken
    BY <1>1, <1>6 DEF PutCommand, Goto
  <2>2. cmd_fifo' = KfifoIn(cmd_fifo, shell_cmd[p])
    BY <1>6 DEF PutCommand
  <2>3. shell_cmd[p] \in Seq(Nat) /\ cmd_fifo \in Seq(Nat)
    BY <1>1 DEF TypeInv, QueueType
  <2>4. Len(cmd_fifo') >= Len(cmd_fifo)
    BY <2>2, <2>3, KfifoInType
  <2> QED
    BY <2>1, <2>4
<1>7. CASE WakeUp(p)
  BY <1>1, <1>2, <1>7 DEF WakeUp, Goto, history
<1> QED
  BY <1>2, <1>3, <1>4, <1>5, <1>6, <1>7 DEF lidbg_uevent_shell

(* Once lidbg_userver waits for room in the queue that only it empties, it waits
   for ever and no command is handed to it any more: the exception
   CommandsAreRead makes is the end of every command, not a delay. *)
THEOREM ServerWaitsForEver == Spec => [][WaitsForEver]_vars
<1>1. TypeInv /\ TypeInv' /\ [Next]_vars => [WaitsForEver]_vars
  <2> SUFFICES ASSUME TypeInv, TypeInv', Next, ServerWaits
               PROVE  ServerWaits' /\ taken' = taken
    BY DEF WaitsForEver
  <2>1. pc[Server] = "test" /\ ~HasRoom(Server)
    BY DEF ServerWaits
  <2>2. ~main
    BY <2>1 DEF main, epoll_register, epoll_wait, lidbg_uevent_poll, lidbg_uevent_read,
                TestEmpty, TakeLength, TakeCommand, WriteNode, SystemReturns,
                lidbg_uevent_shell, FindRoom, PutLength, PutCommand, WakeUp
  <2>3. PICK p \in Callers : (\E c \in Commands : Call(p, c)) \/ lidbg_uevent_shell(p)
    BY <2>2 DEF Next
  <2> QED
    BY <2>3, OthersAddOnly, StillNoRoom
<1> QED
  BY <1>1, InitTypes, TypeStep, PTL DEF Spec
=============================================================================
