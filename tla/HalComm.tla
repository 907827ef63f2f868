-------------------------------- MODULE HalComm -------------------------------
(***************************************************************************)
(* The channels between the HAL and its clients (lidbg_hal_comm.c; the     *)
(* same code, with larger queues, is lidbg_module_comm.c).  An ioctl names *)
(* a channel, which is made on its first use, and writes a message to its  *)
(* kfifo or waits for one; a write to All goes to every channel there is.  *)
(* A full kfifo gives up its oldest messages.  A queue holds words: the    *)
(* length of a message in one, then the message.                           *)
(***************************************************************************)
EXTENDS Naturals, SequencesExt

CONSTANTS
    Callers,        \* the threads that call hal_comm_ioctl
    Channels,       \* pairs of a type and an ID
    All,            \* the pair of type 0xff; it can be read like any other
    Messages,       \* what is written, in words
    ArgvSize,       \* the size of argv, in words
    FifoSize,       \* HAL_FIFO_SIZE, in words
    Nobody,         \* no thread
    MaxWrites,      \* bound on the writes
    MaxFailures     \* bound on the failures of kmalloc

(* The code copies a message to argv, on its stack, without a look at its
   length, which the ioctl's number has 30 bits for: what a longer one
   overwrites is not modelled.  Nothing is assumed of ArgvSize and FifoSize:
   with the code's own, 1024 and 16384 bytes, no message argv holds is
   refused. *)
ASSUME HalCommAssumption ==
    /\ Nobody \notin Callers /\ ArgvSize \in Nat
    /\ Messages \subseteq Seq(Nat)
    /\ \A m \in Messages : Len(m) \in Nat \ {0} /\ Len(m) <= ArgvSize
    /\ FifoSize \in Nat \ {0} /\ MaxWrites \in Nat /\ MaxFailures \in Nat

VARIABLES
    list,           \* klisthead: the channels that have been made
    fifo,           \* the data_fifo of each
    rw_lock,        \* the holder of the lock of each
    list_mutex,     \* the holder of the list's mutex
    pc,             \* where each caller is
    key,            \* the channel its call names
    argv,           \* the message it writes, empty when it reads
    tmp_list,       \* the place in the list of the channel it works on
    data_len,       \* the length it has taken out of the queue

    sent,           \* history: what each queue has taken, with the number of
                    \* the broadcast it came by, 0 if by none
    born,           \* history: the broadcasts there were before each channel
    casts,          \* history: the broadcasts
    got,            \* history: what each caller has read, until it calls again
    writes, failures

channels == <<list, fifo, rw_lock>>
locals == <<pc, key, argv, tmp_list, data_len>>
history == <<sent, born, casts, got>>
vars == <<channels, list_mutex, locals, history, writes, failures>>

Init ==
    /\ list = <<>> /\ fifo = <<>> /\ rw_lock = <<>> /\ list_mutex = Nobody
    /\ pc = [t \in Callers |-> "idle"]
    /\ key = [t \in Callers |-> All]
    /\ argv = [t \in Callers |-> <<>>]
    /\ tmp_list = [t \in Callers |-> 0]
    /\ data_len = [t \in Callers |-> 0]
    /\ sent = <<>> /\ born = <<>> /\ casts = 0
    /\ got = [t \in Callers |-> <<>>]
    /\ writes = 0 /\ failures = 0

Writing(t) == argv[t] # <<>>
SendsAll(t) == Writing(t) /\ key[t] = All

(* The test of put_buf_fifo before it touches the queue. *)
Accepted(m) == Len(m) + 1 <= FifoSize

Goto(t, label) == pc' = [pc EXCEPT ![t] = label]

(* The end of a call, and of its locals; where says where the callers are. *)
EndCall(t, where) ==
    /\ pc' = [where EXCEPT ![t] = "idle"]
    /\ key' = [key EXCEPT ![t] = All]
    /\ argv' = [argv EXCEPT ![t] = <<>>]
    /\ tmp_list' = [tmp_list EXCEPT ![t] = 0]
    /\ data_len' = [data_len EXCEPT ![t] = 0]
Return(t) == EndCall(t, pc)

----------------------------------------------------------------------------
(* The kernel's kfifo: it takes, and gives, as much as there is. *)

KfifoIn(q, w) ==
    LET room == FifoSize - Len(q)
    IN  q \o SubSeq(w, 1, IF Len(w) <= room THEN Len(w) ELSE room)
KfifoOut(q, n) == SubSeq(q, 1, IF n <= Len(q) THEN n ELSE Len(q))
KfifoRest(q, n) == SubSeq(q, n + 1, Len(q))

----------------------------------------------------------------------------
(* hal_comm_ioctl up to the release of the list's mutex. *)

(* A write of m to k, or a read of k when m is empty, up to the list's mutex:
   a call that waits for it has done nothing yet. *)
Call(t, k, m) ==
    /\ pc[t] = "idle" /\ list_mutex = Nobody
    /\ m # <<>> => writes < MaxWrites
    /\ writes' = IF m # <<>> THEN writes + 1 ELSE writes
    /\ key' = [key EXCEPT ![t] = k]
    /\ argv' = [argv EXCEPT ![t] = m]
    /\ list_mutex' = t
    /\ Goto(t, "search")
    /\ got' = [got EXCEPT ![t] = <<>>]
    /\ UNCHANGED <<channels, tmp_list, data_len, sent, born, casts, failures>>

(* Where a call goes once it has its channel. *)
Work(t) == IF Writing(t) THEN "write" ELSE "wait"

(* search_each_node: the first node of that type and ID. *)
search_each_node(t) ==
    /\ pc[t] = "search" /\ ~SendsAll(t)
    /\ \/ \E n \in DOMAIN list :
            /\ list[n] = key[t] /\ \A i \in 1 .. n - 1 : list[i] # key[t]
            /\ tmp_list' = [tmp_list EXCEPT ![t] = n]
            /\ list_mutex' = Nobody
            /\ Goto(t, Work(t))
       \/ /\ \A n \in DOMAIN list : list[n] # key[t]
          /\ Goto(t, "add")
          /\ UNCHANGED <<tmp_list, list_mutex>>
    /\ UNCHANGED <<channels, key, argv, data_len, history, writes, failures>>

add_node_list(t) ==
    /\ pc[t] = "add"
    /\ list' = Append(list, key[t])
    /\ fifo' = Append(fifo, <<>>)
    /\ rw_lock' = Append(rw_lock, Nobody)
    /\ sent' = Append(sent, <<>>)
    /\ born' = Append(born, casts)
    /\ tmp_list' = [tmp_list EXCEPT ![t] = Len(list) + 1]
    /\ list_mutex' = Nobody
    /\ Goto(t, Work(t))
    /\ UNCHANGED <<key, argv, data_len, casts, got, writes, failures>>

(* There is no memory for the node: the call returns and keeps the mutex. *)
AddFails(t) ==
    /\ pc[t] = "add" /\ failures < MaxFailures
    /\ failures' = failures + 1
    /\ Return(t)
    /\ UNCHANGED <<channels, list_mutex, history, writes>>

----------------------------------------------------------------------------
(* listWrite: put_buf_fifo under rw_lock, then the wake-up. *)

StartBroadcast(t) ==
    /\ pc[t] = "search" /\ SendsAll(t) /\ list # <<>>
    /\ tmp_list' = [tmp_list EXCEPT ![t] = 1]
    /\ casts' = IF Accepted(argv[t]) THEN casts + 1 ELSE casts
    /\ Goto(t, "write")
    /\ UNCHANGED <<channels, list_mutex, key, argv, data_len, sent, born, got,
                   writes, failures>>

NobodyToSendTo(t) ==
    /\ pc[t] = "search" /\ SendsAll(t) /\ list = <<>>
    /\ Return(t)
    /\ UNCHANGED <<channels, history, writes, failures>>

(* Mutant: the early return of send_all_fifo is one of the ioctl. *)
send_all_fifo_Returns(t) ==
    \/ StartBroadcast(t)
    \/ NobodyToSendTo(t) /\ UNCHANGED list_mutex

(* send_all_fifo holds the list's mutex and takes the nodes in turn; a
   broadcast is numbered when it starts, if the queues are to take it. *)
send_all_fifo(t) ==
    \/ StartBroadcast(t)
    \/ NobodyToSendTo(t) /\ list_mutex' = Nobody

LockToWrite(t) ==
    /\ pc[t] = "write" /\ rw_lock[tmp_list[t]] = Nobody
    /\ IF Accepted(argv[t])
       THEN /\ rw_lock' = [rw_lock EXCEPT ![tmp_list[t]] = t]
            /\ Goto(t, "put")
       ELSE UNCHANGED rw_lock /\ Goto(t, "wake")
    /\ UNCHANGED <<list, fifo, list_mutex, key, argv, tmp_list, data_len, history,
                   writes, failures>>

(* Mutant: the room for the length is forgotten. *)
HasRoomForData(t) == FifoSize - Len(fifo[tmp_list[t]]) >= Len(argv[t])

(* kfifo_avail against the message and its length. *)
HasRoom(t) == FifoSize - Len(fifo[tmp_list[t]]) >= Len(argv[t]) + 1

(* Nothing is written to data_len by an empty queue: put_buf_fifo does not
   ask one, for it has room. *)
DropLength(t) ==
    LET n == tmp_list[t]
    IN  /\ pc[t] = "put" /\ ~HasRoom(t)
        /\ fifo[n] # <<>>
        /\ data_len' = [data_len EXCEPT ![t] = Head(fifo[n])]
        /\ fifo' = [fifo EXCEPT ![n] = Tail(@)]
        /\ Goto(t, "drop")
        /\ UNCHANGED <<list, rw_lock, list_mutex, key, argv, tmp_list, history,
                       writes, failures>>

DropData(t) ==
    /\ pc[t] = "drop"
    /\ fifo' = [fifo EXCEPT ![tmp_list[t]] = KfifoRest(@, data_len[t])]
    /\ Goto(t, "put")
    /\ UNCHANGED <<list, rw_lock, list_mutex, key, argv, tmp_list, data_len, history,
                   writes, failures>>

PutLength(t) ==
    /\ pc[t] = "put" /\ HasRoom(t)
    /\ fifo' = [fifo EXCEPT ![tmp_list[t]] = KfifoIn(@, <<Len(argv[t])>>)]
    /\ Goto(t, "data")
    /\ UNCHANGED <<list, rw_lock, list_mutex, key, argv, tmp_list, data_len, history,
                   writes, failures>>

(* The message, and the release of the lock. *)
PutData(t) ==
    LET n == tmp_list[t]
    IN  /\ pc[t] = "data"
        /\ fifo' = [fifo EXCEPT ![n] = KfifoIn(@, argv[t])]
        /\ rw_lock' = [rw_lock EXCEPT ![n] = Nobody]
        /\ sent' = [sent EXCEPT ![n] =
                       Append(@, [msg |-> argv[t], cast |-> IF SendsAll(t) THEN casts ELSE 0])]
        /\ Goto(t, "wake")
        /\ UNCHANGED <<list, list_mutex, key, argv, tmp_list, data_len, born, casts, got,
                       writes, failures>>

(* Mutant: the wake-up is exclusive. *)
WokenOne(n) ==
    LET asleep == {r \in Callers : pc[r] = "asleep" /\ tmp_list[r] = n}
    IN  [r \in Callers |-> IF asleep # {} /\ r = CHOOSE x \in asleep : TRUE
                           THEN "wait" ELSE pc[r]]

(* Those who sleep on channel n go back to the test of wait_event. *)
Woken(n) ==
    [r \in Callers |-> IF pc[r] = "asleep" /\ tmp_list[r] = n THEN "wait" ELSE pc[r]]

(* After the wake-up of node n, a broadcast goes on to the next, up to the
   node last. *)
WakeUpTo(t, last) ==
    LET n == tmp_list[t]
    IN  /\ pc[t] = "wake"
        /\ IF SendsAll(t) /\ n < last
           THEN /\ pc' = [Woken(n) EXCEPT ![t] = "write"]
                /\ tmp_list' = [tmp_list EXCEPT ![t] = n + 1]
                /\ UNCHANGED <<key, argv, data_len, list_mutex>>
           ELSE /\ EndCall(t, Woken(n))
                /\ list_mutex' = IF SendsAll(t) THEN Nobody ELSE list_mutex
        /\ UNCHANGED <<channels, history, writes, failures>>

(* Mutant: the walk over the list stops before its end. *)
WakeUpShort(t) == WakeUpTo(t, Len(list) - 1)

(* wake_up_interruptible. *)
WakeUp(t) == WakeUpTo(t, Len(list))

----------------------------------------------------------------------------
(* The read. *)

(* wait_event_interruptible: the test, without a lock. *)
WaitEvent(t) ==
    /\ pc[t] = "wait"
    /\ Goto(t, IF fifo[tmp_list[t]] = <<>> THEN "asleep" ELSE "read")
    /\ UNCHANGED <<channels, list_mutex, key, argv, tmp_list, data_len, history,
                   writes, failures>>

(* -ERESTARTSYS. *)
Interrupted(t) ==
    /\ pc[t] = "asleep"
    /\ Return(t)
    /\ UNCHANGED <<channels, list_mutex, history, writes, failures>>

(* listRead: another reader may have emptied the queue, and then the call
   returns nothing; otherwise it takes the length. *)
GetLength(t) ==
    LET n == tmp_list[t]
    IN  /\ pc[t] = "read" /\ rw_lock[n] = Nobody
        /\ IF Len(fifo[n]) <= 1
           THEN Return(t) /\ UNCHANGED <<fifo, rw_lock>>
           ELSE /\ data_len' = [data_len EXCEPT ![t] = Head(fifo[n])]
                /\ fifo' = [fifo EXCEPT ![n] = Tail(@)]
                /\ rw_lock' = [rw_lock EXCEPT ![n] = t]
                /\ Goto(t, "get")
                /\ UNCHANGED <<key, argv, tmp_list>>
        /\ UNCHANGED <<list, list_mutex, history, writes, failures>>

GetData(t) ==
    LET n == tmp_list[t]
    IN  /\ pc[t] = "get"
        /\ got' = [got EXCEPT ![t] = KfifoOut(fifo[n], data_len[t])]
        /\ fifo' = [fifo EXCEPT ![n] = KfifoRest(@, data_len[t])]
        /\ rw_lock' = [rw_lock EXCEPT ![n] = Nobody]
        /\ Return(t)
        /\ UNCHANGED <<list, list_mutex, sent, born, casts, writes, failures>>

----------------------------------------------------------------------------

hal_comm_ioctl(t) ==
    \/ search_each_node(t) \/ add_node_list(t) \/ send_all_fifo(t)
    \/ LockToWrite(t) \/ DropLength(t) \/ DropData(t) \/ PutLength(t) \/ PutData(t)
    \/ WakeUp(t) \/ WaitEvent(t) \/ GetLength(t) \/ GetData(t)

Next ==
    \E t \in Callers :
        \/ \E k \in Channels \cup {All}, m \in Messages \cup {<<>>} : Call(t, k, m)
        \/ AddFails(t) \/ Interrupted(t)
        \/ hal_comm_ioctl(t)

(* A call goes on.  Nobody need call, and kmalloc need not fail. *)
Fairness == \A t \in Callers : WF_vars(hal_comm_ioctl(t))

Spec == Init /\ [][Next]_vars
FairSpec == Spec /\ Fairness

----------------------------------------------------------------------------
(* Properties. *)

Labels == {"idle", "search", "add", "write", "put", "drop", "data", "wake",
           "wait", "asleep", "read", "get"}

TypeOK ==
    /\ list \in Seq(Channels \cup {All})
    /\ fifo \in Seq(Seq(Nat)) /\ rw_lock \in Seq(Callers \cup {Nobody})
    /\ sent \in Seq(Seq([msg : Messages, cast : Nat])) /\ born \in Seq(Nat)
    /\ Len(fifo) = Len(list) /\ Len(rw_lock) = Len(list)
    /\ Len(sent) = Len(list) /\ Len(born) = Len(list)
    /\ \A n \in DOMAIN fifo : Len(fifo[n]) <= FifoSize
    /\ list_mutex \in Callers \cup {Nobody}
    /\ pc \in [Callers -> Labels]
    /\ key \in [Callers -> Channels \cup {All}]
    /\ argv \in [Callers -> Messages \cup {<<>>}]
    /\ tmp_list \in [Callers -> 0 .. Len(list)]
    /\ data_len \in [Callers -> Nat]
    /\ got \in [Callers -> Seq(Nat)]
    /\ casts \in Nat /\ writes \in Nat /\ failures \in Nat

(* What a queue holds for the entries s of its history. *)
Records(s) == FlattenSeq([i \in DOMAIN s |-> <<Len(s[i].msg)>> \o s[i].msg])

(* put_buf_fifo and get_buf_fifo take lengths out of the middle of a queue
   that others write: while nobody holds its lock, a queue is a row of whole
   records, the newest of those it was given in their order; and what is read
   is a message that was written, neither cut nor joined. *)
WholeRecords ==
    /\ \A n \in DOMAIN list :
          rw_lock[n] = Nobody =>
              \E k \in 0 .. Len(sent[n]) :
                  fifo[n] = Records(SubSeq(sent[n], k + 1, Len(sent[n])))
    /\ \A t \in Callers : got[t] \in Messages \cup {<<>>}

(* The broadcasts channel n should have had by now: not the one under way
   when its turn is still to come. *)
Coming(t, n) ==
    /\ SendsAll(t) /\ Accepted(argv[t])
    /\ \/ pc[t] \in {"write", "put", "drop", "data"} /\ tmp_list[t] <= n
       \/ pc[t] = "wake" /\ tmp_list[t] < n
Reached(n) == IF \E t \in Callers : Coming(t, n) THEN casts - 1 ELSE casts

(* A channel is made by whoever finds it missing, and send_all_fifo walks a
   list that others add to and queues that others write: there is one queue to
   a channel, it takes every broadcast that starts after it was made, once,
   and all channels take them in the same order. *)
BroadcastsReachAll ==
    /\ IsInjective(list)
    /\ \A n \in DOMAIN list :
        /\ \A k \in born[n] + 1 .. Reached(n) :
              \E i \in DOMAIN sent[n] : sent[n][i].cast = k
        /\ \A i \in DOMAIN sent[n] : sent[n][i].cast <= Reached(n)
        /\ \A i, j \in DOMAIN sent[n] :
              i < j /\ sent[n][j].cast # 0 => sent[n][i].cast < sent[n][j].cast

(* The emptiness test of wait_event is made without the lock, and a message
   can be given up or taken by another reader before its own reader runs: who
   sleeps on a channel that holds something is about to be woken. *)
SleeperWillBeWoken ==
    \A r \in Callers :
        pc[r] = "asleep" /\ fifo[tmp_list[r]] # <<>> =>
            \E t \in Callers : tmp_list[t] = tmp_list[r] /\ pc[t] \in {"data", "wake"}

(* A broadcast takes every lock in turn with the list's mutex held, and no
   call can start meanwhile: the mutex comes free again, unless kmalloc has
   failed, for then hal_comm_ioctl returns with it (line 351). *)
MutexComesFree == list_mutex # Nobody ~> list_mutex = Nobody \/ failures > 0
=============================================================================
