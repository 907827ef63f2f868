---------------------------- MODULE StatusChannel ----------------------------
(***************************************************************************)
(* What send_app_status and the read of /dev/flyaudio_pm0 promise to the   *)
(* driver and to user space (lidbg_rmtctrl.c): the status is one register, *)
(* the newest value wins, and a bounded queue hands its values over in the *)
(* order they were set.  A call stores first and posts later what is then  *)
(* in the register, so a status may be passed over and a newer one posted  *)
(* twice.  Statuses are numbered in the order of their stores: which of    *)
(* them is which plays no part.                                            *)
(***************************************************************************)
EXTENDS Naturals, Sequences

CONSTANTS
    Senders,    \* the contexts that call send_app_status
    Capacity,   \* entries of the queue
    MaxSends    \* bound on the calls

VARIABLES
    latest,     \* number of the newest status
    owing,      \* senders that have stored and have not posted
    queue,      \* what has been posted and not taken
    taken       \* the last status taken, 0 before the first

chan == <<latest, owing, queue, taken>>

Init == latest = 0 /\ owing = {} /\ queue = <<>> /\ taken = 0

Set(s) ==
    /\ latest < MaxSends
    /\ s \notin owing
    /\ latest' = latest + 1
    /\ owing' = owing \cup {s}
    /\ UNCHANGED <<queue, taken>>

(* A full queue keeps what it has: the new status is dropped. *)
Post(s) ==
    /\ s \in owing
    /\ owing' = owing \ {s}
    /\ queue' = IF Len(queue) < Capacity THEN Append(queue, latest) ELSE queue
    /\ UNCHANGED <<latest, taken>>

Take ==
    /\ queue # <<>>
    /\ taken' = Head(queue)
    /\ queue' = Tail(queue)
    /\ UNCHANGED <<latest, owing>>

Next == Take \/ \E s \in Senders : Set(s) \/ Post(s)

Spec == Init /\ [][Next]_chan

(* Whoever has stored posts; what has been posted is taken. *)
FairSpec == Spec /\ WF_chan(Take) /\ \A s \in Senders : WF_chan(Post(s))
=============================================================================
