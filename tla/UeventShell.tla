------------------------------ MODULE UeventShell -----------------------------
(***************************************************************************)
(* The queue of shell commands: lidbg_uevent_shell (lidbg_uevent.c) puts   *)
(* commands into cmd_fifo, and lidbg_userver takes them out one at a time  *)
(* and runs each to its end with system().  A command may write to one of  *)
(* the driver's nodes, whose handler queues commands of its own, and then  *)
(* lidbg_userver waits for its own call of lidbg_uevent_shell.             *)
(*                                                                         *)
(* The model ends with the first record that kfifo_in cuts: from there on  *)
(* lidbg_uevent_read takes text for lengths and copies as many bytes to    *)
(* its stack.                                                              *)
(***************************************************************************)
EXTENDS Naturals, FiniteSets, SequencesExt

CONSTANTS
    Callers,        \* the kernel threads that queue commands
    Server,         \* lidbg_userver
    Commands,       \* the commands shorter than PER_SHELL_SIZE, in characters
    Script,         \* the commands that the run of each queues
    FifoSize,       \* FIFO_SIZE; a length takes one place
    Capacity,       \* what kfifo_alloc makes of it, rounded up or down
    LineSize,       \* the longest command whose line is whole in shellstring
    Nobody,         \* no process
    MaxCalls        \* bound on the calls that no command makes

Shells == Callers \cup {Server}

(* Of Capacity nothing more is known: kfifo_alloc makes 131072 bytes of
   78000, or 65536 before Linux 3.9. *)
ASSUME UeventAssumption ==
    /\ Server \notin Callers /\ Nobody \notin Shells /\ IsFiniteSet(Callers)
    /\ Commands \subseteq Seq(Nat) /\ Script \in [Commands -> Seq(Commands)]
    /\ FifoSize \in Nat /\ Capacity \in Nat /\ LineSize \in Nat /\ MaxCalls \in Nat
    /\ \A c \in Commands : 2 * Len(c) < FifoSize

VARIABLES
    cmd_fifo, fifo_lock,
    pc,             \* where each process is
    shell_cmd,      \* the command it queues
    mstrlen,        \* the length lidbg_uevent_read has taken out
    script,         \* what the command being run has still to queue
    ready,          \* the node is on epoll's list of what is ready
    sent,           \* history: the commands queued, in their order
    taken,          \* history: what lidbg_uevent_read has handed to lidbg_userver
    torn,           \* history: kfifo_in has cut something
    ahead,          \* history: the most who had found room, and not used it
                    \* up, when one more found it
    calls

history == <<sent, taken, torn, ahead>>
vars == <<cmd_fifo, fifo_lock, pc, shell_cmd, mstrlen, script, ready, history, calls>>

Init ==
    /\ cmd_fifo = <<>> /\ fifo_lock = Nobody
    /\ pc = [p \in Shells |-> IF p = Server THEN "register" ELSE "idle"]
    /\ shell_cmd = [p \in Shells |-> <<>>]
    /\ mstrlen = 0 /\ script = <<>> /\ ready = FALSE
    /\ sent = <<>> /\ taken = <<>> /\ torn = FALSE /\ ahead = 0 /\ calls = 0

Goto(p, label) == pc' = [pc EXCEPT ![p] = label]

(* kfifo_in takes as much as there is room for. *)
Cut(q, w) == Len(q) + Len(w) > Capacity

KfifoIn(q, w) ==
    LET room == Capacity - Len(q)
    IN  q \o SubSeq(w, 1, IF Len(w) <= room THEN Len(w) ELSE room)

----------------------------------------------------------------------------
(* lidbg_uevent_shell. *)

Call(p, c) ==
    /\ pc[p] = "idle" /\ calls < MaxCalls
    /\ calls' = calls + 1
    /\ shell_cmd' = [shell_cmd EXCEPT ![p] = c]
    /\ Goto(p, "test")
    /\ UNCHANGED <<cmd_fifo, fifo_lock, mstrlen, script, ready, history>>

(* Mutant: only a full queue is waited for. *)
NotFull(p) == Len(cmd_fifo) < Capacity

HasRoom(p) ==
    Len(cmd_fifo) < Capacity /\ Len(cmd_fifo) < FifoSize - 2 * Len(shell_cmd[p])

(* Who has found room and has not used it up. *)
Crowd == {p \in Shells : pc[p] \in {"lock", "data"}}

(* The loop round msleep ends; the mutex is not held. *)
FindRoom(p) ==
    /\ pc[p] = "test" /\ HasRoom(p)
    /\ ahead' = IF Cardinality(Crowd) > ahead THEN Cardinality(Crowd) ELSE ahead
    /\ Goto(p, "lock")
    /\ UNCHANGED <<cmd_fifo, fifo_lock, shell_cmd, mstrlen, script, ready, sent, taken,
                   torn, calls>>

PutLength(p) ==
    /\ pc[p] = "lock" /\ fifo_lock = Nobody
    /\ fifo_lock' = p
    /\ cmd_fifo' = KfifoIn(cmd_fifo, <<Len(shell_cmd[p])>>)
    /\ torn' = (torn \/ Cut(cmd_fifo, <<Len(shell_cmd[p])>>))
    /\ Goto(p, "data")
    /\ UNCHANGED <<shell_cmd, mstrlen, script, ready, sent, taken, ahead, calls>>

PutCommand(p) ==
    /\ pc[p] = "data"
    /\ fifo_lock' = Nobody
    /\ cmd_fifo' = KfifoIn(cmd_fifo, shell_cmd[p])
    /\ torn' = (torn \/ Cut(cmd_fifo, shell_cmd[p]))
    /\ sent' = Append(sent, shell_cmd[p])
    /\ Goto(p, "wake")
    /\ UNCHANGED <<shell_cmd, mstrlen, script, ready, taken, ahead, calls>>

(* Mutant: only a command that is alone in the queue is announced. *)
ReadyIfAlone(p) == ready \/ Len(cmd_fifo) = Len(shell_cmd[p]) + 1

(* wake_up_interruptible puts the node on epoll's list, once epoll is on the
   node's wait queue. *)
Ready(p) == ready \/ pc[Server] # "register"

(* Back from its handler, lidbg_userver goes on with the command it runs. *)
WakeUp(p) ==
    /\ pc[p] = "wake"
    /\ ready' = Ready(p)
    /\ shell_cmd' = [shell_cmd EXCEPT ![p] = <<>>]
    /\ Goto(p, IF p = Server THEN "system" ELSE "idle")
    /\ UNCHANGED <<cmd_fifo, fifo_lock, mstrlen, script, history, calls>>

lidbg_uevent_shell(p) == FindRoom(p) \/ PutLength(p) \/ PutCommand(p) \/ WakeUp(p)

----------------------------------------------------------------------------
(* lidbg_userver. *)

(* EPOLL_CTL_ADD: poll_wait puts epoll on the node's wait queue. *)
epoll_register ==
    /\ pc[Server] = "register"
    /\ Goto(Server, "poll")
    /\ UNCHANGED <<cmd_fifo, fifo_lock, shell_cmd, mstrlen, script, ready, history, calls>>

(* epoll takes the node off its list and polls it again. *)
epoll_wait ==
    /\ pc[Server] = "epoll_wait" /\ ready
    /\ ready' = FALSE
    /\ Goto(Server, "poll")
    /\ UNCHANGED <<cmd_fifo, fifo_lock, shell_cmd, mstrlen, script, history, calls>>

(* The node is registered for EPOLLIN without EPOLLET: it goes back on the
   list as often as it has something to read. *)
lidbg_uevent_poll ==
    /\ pc[Server] = "poll" /\ fifo_lock = Nobody
    /\ IF cmd_fifo # <<>>
       THEN ready' = TRUE /\ Goto(Server, "read")
       ELSE UNCHANGED ready /\ Goto(Server, "epoll_wait")
    /\ UNCHANGED <<cmd_fifo, fifo_lock, shell_cmd, mstrlen, script, history, calls>>

(* What read returns is run, the empty string too; where the mutex is not
   held, an empty queue gives one.  Of the line of a long command shellstring
   has not room for all: the shell may run it as it is, or with one argument
   more, or not understand it. *)
ScriptsOf(c) ==
    CASE c \notin Commands -> {<<>>}
      [] c \in Commands /\ Len(c) <= LineSize -> {Script[c]}
      [] OTHER -> {Script[c], <<>>}

System(c) ==
    /\ taken' = Append(taken, c)
    /\ script' \in ScriptsOf(c)
    /\ Goto(Server, "system")

TestEmpty ==
    /\ pc[Server] = "read"
    /\ \/ cmd_fifo = <<>> /\ System(<<>>)
       \/ cmd_fifo # <<>> /\ UNCHANGED <<taken, script>> /\ Goto(Server, "take")
    /\ UNCHANGED <<cmd_fifo, fifo_lock, shell_cmd, mstrlen, ready, sent, torn, ahead, calls>>

TakeLength ==
    /\ pc[Server] = "take" /\ fifo_lock = Nobody /\ cmd_fifo # <<>>
    /\ fifo_lock' = Server
    /\ mstrlen' = Head(cmd_fifo)
    /\ cmd_fifo' = Tail(cmd_fifo)
    /\ Goto(Server, "get")
    /\ UNCHANGED <<shell_cmd, script, ready, history, calls>>

TakeCommand ==
    LET n == IF mstrlen <= Len(cmd_fifo) THEN mstrlen ELSE Len(cmd_fifo)
    IN  /\ pc[Server] = "get"
        /\ fifo_lock' = Nobody
        /\ mstrlen' = 0
        /\ System(SubSeq(cmd_fifo, 1, n))
        /\ cmd_fifo' = SubSeq(cmd_fifo, n + 1, Len(cmd_fifo))
        /\ UNCHANGED <<shell_cmd, ready, sent, torn, ahead, calls>>

lidbg_uevent_read == TestEmpty \/ TakeLength \/ TakeCommand

(* The command writes to a node whose handler calls lidbg_uevent_shell. *)
WriteNode ==
    /\ pc[Server] = "system" /\ script # <<>>
    /\ shell_cmd' = [shell_cmd EXCEPT ![Server] = Head(script)]
    /\ script' = Tail(script)
    /\ Goto(Server, "test")
    /\ UNCHANGED <<cmd_fifo, fifo_lock, mstrlen, ready, history, calls>>

SystemReturns ==
    /\ pc[Server] = "system" /\ script = <<>>
    /\ Goto(Server, "epoll_wait")
    /\ UNCHANGED <<cmd_fifo, fifo_lock, shell_cmd, mstrlen, script, ready, history, calls>>

main ==
    \/ epoll_register \/ epoll_wait \/ lidbg_uevent_poll \/ lidbg_uevent_read
    \/ WriteNode \/ SystemReturns
    \/ lidbg_uevent_shell(Server)

----------------------------------------------------------------------------

(* The model ends where a record is cut. *)
Next ==
    /\ ~torn
    /\ \/ \E p \in Callers : (\E c \in Commands : Call(p, c)) \/ lidbg_uevent_shell(p)
       \/ main

(* Who is in a call goes on with it, and lidbg_userver runs.  Nobody need
   call. *)
Fairness ==
    /\ \A p \in Callers : WF_vars(~torn /\ lidbg_uevent_shell(p))
    /\ WF_vars(~torn /\ main)

Spec == Init /\ [][Next]_vars
FairSpec == Spec /\ Fairness

----------------------------------------------------------------------------
(* Properties. *)

(* What the queue holds for the commands s. *)
Records(s) == FlattenSeq([i \in DOMAIN s |-> <<Len(s[i])>> \o s[i]])

(* FIFO_SIZE, and a record for each of n besides, are more than the queue
   holds. *)
TooMany(n) == \E c \in Commands : FifoSize + n * (Len(c) + 1) > Capacity

(* lidbg_uevent_shell tests the room before it takes the mutex, so several
   callers may pass the test with room for one, and never looks at what
   kfifo_in returns; lidbg_uevent_read tests for emptiness before it takes
   the mutex and believes the length it finds.  A record is cut only when so
   many have found room together that what kfifo_alloc adds to FIFO_SIZE is
   not enough for all but one of them.  Until then the commands are read as
   they were queued, whole, each once and in their order (lidbg_pm_probe
   queues a remount and what needs it, 1246-1251), and the queue holds the
   rest. *)
CommandsReadInOrder ==
    /\ torn => TooMany(ahead)
    /\ ~torn => IsPrefix(taken, sent)
    /\ ~torn /\ fifo_lock = Nobody =>
          cmd_fifo = Records(SubSeq(sent, Len(taken) + 1, Len(sent)))

(* lidbg_userver waits for room in the queue that only it empties. *)
ServerWaits == pc[Server] = "test" /\ ~HasRoom(Server)

(* epoll_wait may take the node off its list while commands are put in, and
   lidbg_userver is away while it runs one: every command is handed to it in
   its turn, unless it runs one that waits for room, or a record is cut. *)
CommandsAreRead ==
    \A n \in 1 .. MaxCalls : Len(sent) >= n ~> Len(taken) >= n \/ ServerWaits \/ torn
=============================================================================
