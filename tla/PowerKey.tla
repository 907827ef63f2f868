------------------------------- MODULE PowerKey -------------------------------
(***************************************************************************)
(* The staged power manager of the boards without SUSPEND_ONLINE:          *)
(* src/drivers/powermanager/lidbg_powerkey.c, with the commands of         *)
(* lidbg_pm.c its stages write to /dev/lidbg_pm0.                          *)
(*                                                                         *)
(* `status' climbs the enumeration FLY_SYSTEM_STATUS: a blanked screen     *)
(* starts it at SCREEN_OFF and an unblanked one sends it up to SCREEN_ON.  *)
(* Each store to it completes sleep_powerkey_wait; the worker thread puts  *)
(* the status in powerkey_state_fifo, which drops it when full and which   *)
(* FlyBootService, the one reader, empties; then it does what the stage    *)
(* asks, and arms the timer whose handler increments `status'.             *)
(* FASTBOOT_REQUEST is left by a second thread, which polls a GPIO.        *)
(* `status' is an atomic_t, but every test of it and the store that        *)
(* follows are two operations, and timer, framebuffer notifier and both    *)
(* threads run concurrently.                                               *)
(* Delays are abstracted: an armed timer may fire at any time.             *)
(***************************************************************************)
EXTENDS Integers, Sequences

CONSTANTS
    Capacity,      \* statuses powerkey_state_fifo holds: POWERKEY_FIFO_SIZE / 4
    MaxBlanks,     \* bound on the framebuffer blank and unblank events
    MaxSuspends    \* bound on the suspends of the system

ASSUME CapacityAssumption == Capacity \in Nat \ {0}
ASSUME BoundsAssumption == MaxBlanks \in Nat /\ MaxSuspends \in Nat

(* FLY_SYSTEM_STATUS without SUSPEND_ONLINE, in the order of the enum. *)
SCREEN_OFF       == 0
DEVICE_DOWN      == 1
FASTBOOT_REQUEST == 2
ANDROID_DOWN     == 3
GOTO_SLEEP       == 4
KERNEL_DOWN      == 5
KERNEL_UP        == 6
ANDROID_UP       == 7
DEVICE_UP        == 8
SCREEN_ON        == 9

DownStages == {SCREEN_OFF, DEVICE_DOWN, ANDROID_DOWN}   \* these set acc_flag
UpStages   == {ANDROID_UP, DEVICE_UP, SCREEN_ON}        \* and so do these
Arming     == DownStages \cup UpStages                  \* and all arm the timer

Levels == {"ON", "OFF"}
Actors == {"timer", "fb", "worker", "gpio", "user"}
Labels == {"idle",
           "t_test", "t_inc", "t_complete",
           "s_test", "s_set",
           "r_off", "r_down", "r_fastboot", "r_android", "r_system", "r_del_on",
           "r_set_on", "r_del_up", "r_set_up", "r_set_android", "fb_complete",
           "w_fifo", "w_switch", "w_acc", "w_lock", "w_write", "w_arm", "w_request",
           "g_poll", "g_arm", "u_unlock"}

VARIABLES
    status,    \* the atomic `status'
    wake,      \* completions of sleep_powerkey_wait
    request,   \* completions of request_fastboot_wait
    armed,     \* the timer is pending
    case,      \* the status on which the worker switches
    fifo,      \* powerkey_state_fifo
    posted,    \* history: the last status it took, -1 before
    lost,      \* history: the last status put in it found it full
    asked,     \* GOTO_SLEEP has been read and not answered
    accFlag,   \* g_var.acc_flag
    system,    \* g_var.system_status
    pmLock,    \* pm_wakelock is held
    suspended, \* the system is suspended
    pc,        \* [Actors -> Labels]
    blanks, suspends    \* what is left of the bounds

fifoVars == <<fifo, posted, lost, asked>>
pmVars == <<system, pmLock, suspended, suspends>>
vars == <<status, wake, request, armed, case, fifoVars, accFlag, pmVars, pc, blanks>>

Init ==
    /\ status = SCREEN_ON /\ wake = 0 /\ request = 0 /\ armed = FALSE
    /\ case = SCREEN_ON
    /\ fifo = <<>> /\ posted = -1 /\ lost = FALSE /\ asked = FALSE
    /\ accFlag \in Levels       \* sampled by the drivers probed before
    /\ system = SCREEN_ON /\ pmLock = TRUE /\ suspended = FALSE
    /\ pc = [a \in Actors |-> "idle"]
    /\ blanks = MaxBlanks /\ suspends = MaxSuspends

Go(a, from, to) == pc[a] = from /\ pc' = [pc EXCEPT ![a] = to]
Step(a, from, to) == ~suspended /\ Go(a, from, to)

(* Steps that do one thing and go on. *)
Branch(a, from, to) ==
    /\ Step(a, from, to)
    /\ UNCHANGED <<status, wake, request, armed, case, fifoVars, accFlag, pmVars, blanks>>

Store(a, from, to, value) ==
    /\ Step(a, from, to)
    /\ status' = value
    /\ UNCHANGED <<wake, request, armed, case, fifoVars, accFlag, pmVars, blanks>>

Complete(a, from) ==       \* complete(&sleep_powerkey_wait), the last call
    /\ Step(a, from, "idle")
    /\ wake' = wake + 1
    /\ UNCHANGED <<status, request, armed, case, fifoVars, accFlag, pmVars, blanks>>

SetTimer(a, from, to, value) ==    \* mod_timer or del_timer
    /\ Step(a, from, to)
    /\ armed' = value
    /\ UNCHANGED <<status, wake, request, case, fifoVars, accFlag, pmVars, blanks>>

----------------------------------------------------------------------------
(* The timer and its handler. *)

TimerFires == armed /\ SetTimer("timer", "idle", "t_test", FALSE)

(* Mutant: the handler does not wake the worker. *)
IncSilently ==
    \/ Branch("timer", "t_test", IF status # SCREEN_ON THEN "t_inc" ELSE "idle")
    \/ Store("timer", "t_inc", "idle", status + 1)

powerkey_suspend_timer ==
    \/ Branch("timer", "t_test", IF status # SCREEN_ON THEN "t_inc" ELSE "idle")
    \/ Store("timer", "t_inc", "t_complete", status + 1)
    \/ Complete("timer", "t_complete")

----------------------------------------------------------------------------
(* The framebuffer notifier. *)

FbEvent(to) ==
    /\ blanks > 0 /\ blanks' = blanks - 1
    /\ Step("fb", "idle", to)
    /\ UNCHANGED <<status, wake, request, armed, case, fifoVars, accFlag, pmVars>>

FbPowerdown == FbEvent("s_test")
FbUnblank == FbEvent("r_off")

powerkey_suspend ==
    \/ Branch("fb", "s_test", IF status = SCREEN_ON THEN "s_set" ELSE "idle")
    \/ Store("fb", "s_set", "fb_complete", SCREEN_OFF)
    \/ Complete("fb", "fb_complete")

(* Mutant: the worker is woken before the store. *)
ResumeCompletesFirst ==
    \/ Branch("fb", "r_off", IF status = SCREEN_OFF THEN "r_del_on" ELSE "r_down")
    \/ Branch("fb", "r_down", IF status = DEVICE_DOWN THEN "r_del_up" ELSE "r_fastboot")
    \/ Branch("fb", "r_fastboot", IF status = FASTBOOT_REQUEST THEN "r_del_up" ELSE "r_android")
    \/ Branch("fb", "r_android", "idle")
    \/ SetTimer("fb", "r_del_on", "fb_complete", FALSE)
    \/ SetTimer("fb", "r_del_up", "fb_complete", FALSE)
    \/ /\ Step("fb", "fb_complete", "r_set_on") /\ wake' = wake + 1
       /\ UNCHANGED <<status, request, armed, case, fifoVars, accFlag, pmVars, blanks>>
    \/ Store("fb", "r_set_on", "idle", SCREEN_ON)

(* Four tests of `status' and one of system_status, each a read of its     *)
(* own; after the last ones an unblank that comes too late, on the way to  *)
(* sleep, is dropped.                                                      *)
powerkey_resume ==
    \/ Branch("fb", "r_off", IF status = SCREEN_OFF THEN "r_del_on" ELSE "r_down")
    \/ Branch("fb", "r_down", IF status = DEVICE_DOWN THEN "r_del_up" ELSE "r_fastboot")
    \/ Branch("fb", "r_fastboot", IF status = FASTBOOT_REQUEST THEN "r_del_up" ELSE "r_android")
    \/ Branch("fb", "r_android", IF status = ANDROID_DOWN THEN "idle" ELSE "r_system")
    \/ Branch("fb", "r_system",
              IF system \in {ANDROID_DOWN, GOTO_SLEEP} THEN "idle" ELSE "r_set_android")
    \/ SetTimer("fb", "r_del_on", "r_set_on", FALSE)
    \/ SetTimer("fb", "r_del_up", "r_set_up", FALSE)
    \/ Store("fb", "r_set_on", "fb_complete", SCREEN_ON)
    \/ Store("fb", "r_set_up", "fb_complete", DEVICE_UP)
    \/ Store("fb", "r_set_android", "fb_complete", ANDROID_UP)
    \/ Complete("fb", "fb_complete")

----------------------------------------------------------------------------
(* thread_powerkey_func. *)

WaitForWake ==
    /\ Step("worker", "idle", "w_fifo")
    /\ wake > 0 /\ wake' = wake - 1
    /\ UNCHANGED <<status, request, armed, case, fifoVars, accFlag, pmVars, blanks>>

(* kfifo_in takes nothing when the queue is full, and nobody looks. *)
powerkey_fifo_in ==
    /\ Step("worker", "w_fifo", "w_switch")
    /\ \/ /\ Len(fifo) < Capacity
          /\ fifo' = Append(fifo, status) /\ posted' = status /\ lost' = FALSE
       \/ Len(fifo) >= Capacity /\ lost' = TRUE /\ UNCHANGED <<fifo, posted>>
    /\ UNCHANGED <<status, wake, request, armed, case, asked, accFlag, pmVars, blanks>>

Switch ==
    /\ Step("worker", "w_switch", IF status \in Arming THEN "w_acc"
                                  ELSE IF status = FASTBOOT_REQUEST THEN "w_request"
                                  ELSE "idle")
    /\ case' = status
    /\ UNCHANGED <<status, wake, request, armed, fifoVars, accFlag, pmVars, blanks>>

SetAcc ==
    /\ Step("worker", "w_acc", IF case = SCREEN_ON THEN "w_lock" ELSE "w_write")
    /\ accFlag' = IF case \in UpStages THEN "ON" ELSE "OFF"
    /\ UNCHANGED <<status, wake, request, armed, case, fifoVars, pmVars, blanks>>

ScreenOnLock ==
    /\ Step("worker", "w_lock", "w_write")
    /\ pmLock' = TRUE
    /\ UNCHANGED <<status, wake, request, armed, case, fifoVars, accFlag, system, suspended,
                   suspends, blanks>>

(* The stage's command sets system_status; "screen_on" takes pm_wakelock   *)
(* first.                                                                  *)
SystemStatus ==
    /\ Step("worker", "w_write", "w_arm")
    /\ system' = case
    /\ UNCHANGED <<status, wake, request, armed, case, fifoVars, accFlag, pmLock, suspended,
                   suspends, blanks>>

pm_write == ScreenOnLock \/ SystemStatus

(* Mutant: the second thread is not woken. *)
RequestNothing == Branch("worker", "w_request", "idle")

RequestFastboot ==
    /\ Step("worker", "w_request", "idle")
    /\ request' = request + 1
    /\ UNCHANGED <<status, wake, armed, case, fifoVars, accFlag, pmVars, blanks>>

thread_powerkey_func ==
    \/ WaitForWake \/ powerkey_fifo_in \/ Switch \/ SetAcc \/ pm_write \/ RequestFastboot
    \/ SetTimer("worker", "w_arm", "idle", TRUE)

----------------------------------------------------------------------------
(* thread_gpio_powerkey_status.  The level of the GPIO and the number of   *)
(* polls are not kept: at each poll the thread may find the GPIO set or    *)
(* give up, and arm the timer; or notice that the request is over; or poll *)
(* again, at most ten times.                                               *)

WaitForRequest ==
    /\ Step("gpio", "idle", "g_poll")
    /\ request > 0 /\ request' = request - 1
    /\ UNCHANGED <<status, wake, armed, case, fifoVars, accFlag, pmVars, blanks>>

(* Mutant: the thread gives up without arming the timer. *)
GiveUpSilently ==
    \/ WaitForRequest
    \/ Branch("gpio", "g_poll", "g_arm")
    \/ Branch("gpio", "g_poll", "idle")
    \/ SetTimer("gpio", "g_arm", "idle", TRUE)

thread_gpio_powerkey_status ==
    \/ WaitForRequest
    \/ Branch("gpio", "g_poll", "g_arm")
    \/ status # FASTBOOT_REQUEST /\ Branch("gpio", "g_poll", "idle")
    \/ SetTimer("gpio", "g_arm", "idle", TRUE)

----------------------------------------------------------------------------
(* User space reads the statuses in its own time and answers GOTO_SLEEP    *)
(* with "gotosleep"; the system suspends when pm_wakelock is free, and     *)
(* wakes.                                                                  *)

powerkey_read ==
    /\ ~suspended /\ pc["user"] = "idle"
    /\ fifo # <<>>
    /\ fifo' = Tail(fifo)
    /\ asked' = (asked \/ Head(fifo) = GOTO_SLEEP)
    /\ UNCHANGED <<status, wake, request, armed, case, posted, lost, accFlag, pmVars, pc, blanks>>

GotoSleep ==
    /\ asked /\ asked' = FALSE
    /\ Step("user", "idle", "u_unlock")
    /\ system' = GOTO_SLEEP
    /\ UNCHANGED <<status, wake, request, armed, case, fifo, posted, lost, accFlag, pmLock, suspended,
                   suspends, blanks>>

GotoSleepUnlock ==
    /\ Step("user", "u_unlock", "idle")
    /\ pmLock' = FALSE
    /\ UNCHANGED <<status, wake, request, armed, case, fifoVars, accFlag, system, suspended,
                   suspends, blanks>>

Suspend ==
    /\ ~suspended /\ ~pmLock
    /\ \A a \in {"fb", "timer", "user"} : pc[a] = "idle"
    /\ suspends > 0 /\ suspends' = suspends - 1
    /\ suspended' = TRUE
    /\ system' = KERNEL_DOWN
    /\ UNCHANGED <<status, wake, request, armed, case, fifoVars, accFlag, pmLock, pc,
                   blanks>>

Wake ==
    /\ suspended
    /\ suspended' = FALSE
    /\ system' = KERNEL_UP
    /\ UNCHANGED <<status, wake, request, armed, case, fifoVars, accFlag, pmLock, suspends,
                   pc, blanks>>

Next ==
    \/ TimerFires \/ powerkey_suspend_timer
    \/ FbPowerdown \/ FbUnblank \/ powerkey_suspend \/ powerkey_resume
    \/ thread_powerkey_func
    \/ thread_gpio_powerkey_status
    \/ powerkey_read \/ GotoSleep \/ GotoSleepUnlock \/ Suspend \/ Wake

Spec == Init /\ [][Next]_vars

(* Threads and timer handlers go on, and an armed timer fires; the request *)
(* for FASTBOOT ends after ten polls at most.  A suspended system wakes.   *)
(* No framebuffer event, read, answer or suspend need come.                *)
Fairness ==
    /\ WF_vars(TimerFires) /\ WF_vars(powerkey_suspend_timer)
    /\ WF_vars(powerkey_suspend) /\ WF_vars(powerkey_resume)
    /\ WF_vars(thread_powerkey_func)
    /\ WF_vars(thread_gpio_powerkey_status)
    /\ WF_vars(GotoSleepUnlock)
    /\ WF_vars(Wake)

FairSpec == Spec /\ Fairness

----------------------------------------------------------------------------
(* Properties. *)

FifoTypeOK == fifo \in Seq(Nat) /\ Len(fifo) <= Capacity

(* No completion is waited for more often than it is given, and the queue  *)
(* holds no more than it has room for.                                     *)
TypeOK ==
    /\ status \in Nat /\ case \in Nat /\ system \in 0 .. SCREEN_ON
    /\ FifoTypeOK
    /\ posted \in Nat \cup {-1} /\ lost \in BOOLEAN
    /\ wake \in Nat /\ request \in Nat
    /\ armed \in BOOLEAN /\ asked \in BOOLEAN /\ pmLock \in BOOLEAN /\ suspended \in BOOLEAN
    /\ accFlag \in Levels
    /\ pc \in [Actors -> Labels]
    /\ blanks \in 0 .. MaxBlanks /\ suspends \in 0 .. MaxSuspends

(* Every store to `status' has been answered by the worker. *)
Delivered == /\ wake = 0 /\ pc["worker"] = "idle"
             /\ pc["timer"] # "t_complete" /\ pc["fb"] # "fb_complete"

(* The last word is there for user space: however the stores of the timer  *)
(* and of the framebuffer notifier interleave with the worker's two reads, *)
(* when nothing is left to do and the queue had room for the last status   *)
(* put in it, the last status it took is `status'.                         *)
LastStatusPosted == (Delivered /\ posted # -1 /\ ~lost) => posted = status

(* acc_flag, which other drivers read, follows the stage: once every store *)
(* is answered it is ON in the stages of the way up and OFF in those of    *)
(* the way down, though the worker sets it for the status it read, which   *)
(* may have been overtaken.                                                *)
FlagFollowsStage ==
    (Delivered /\ posted # -1 /\ status \in Arming) =>
        accFlag = IF status \in UpStages THEN "ON" ELSE "OFF"

(* No stage is a dead end: in a stage that is not meant to last, something *)
(* is still on the way to leave it: the timer, its handler, the notifier,  *)
(* the worker, or the thread that polls for FASTBOOT_REQUEST.  At stake    *)
(* are the del_timer of powerkey_resume against the mod_timer of both      *)
(* threads, and that thread's exit when the request is over.               *)
StageWillBeLeft ==
    (Delivered /\ status \in (Arming \ {SCREEN_ON}) \cup {FASTBOOT_REQUEST}) =>
        \/ armed
        \/ pc["timer"] \in {"t_test", "t_inc"}
        \/ pc["fb"] \in {"r_set_on", "r_set_up", "r_set_android"}
        \/ status = FASTBOOT_REQUEST /\ (request > 0 \/ pc["gpio"] # "idle")

(* The chain ends: when blank and unblank events cease, `status' leaves    *)
(* the stages in between for good.                                         *)
ChainEnds == <>[](status \notin (Arming \ {SCREEN_ON}) \cup {FASTBOOT_REQUEST})
=============================================================================
