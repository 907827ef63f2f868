------------------------------- MODULE RmtCtrl -------------------------------
(***************************************************************************)
(* The ACC (ignition) state machine of the SUSPEND_ONLINE power manager:   *)
(* src/drivers/powermanager/lidbg_rmtctrl.c, with the two commands of      *)
(* lidbg_pm.c that take and release pm_wakelock.                           *)
(*                                                                         *)
(* An edge on MCU_ACC_STATE_IO runs acc_state_isr, which queues            *)
(* work_acc_status; that work arms acc_detect_timer, which queues          *)
(* acc_state_work, which samples the pin again and, if it differs from     *)
(* acc_flag, runs acc_status_handle.  With ACC off, rmtctrl_timer asks     *)
(* user space to sleep, again and again, until ACC comes back.             *)
(*                                                                         *)
(* Every context the kernel may run concurrently is an actor with a        *)
(* program counter; a call of send_app_status is two steps (atomic_set,    *)
(* then rmtctrl_fifo_in), because other senders run between them.          *)
(* The queue itself, and whether it has room, are StatusFifo's; here only  *)
(* the last status handed to rmtctrl_fifo_in is kept.                      *)
(* Delays (3 s, 15 s, 30 s) are abstracted: an armed timer may             *)
(* fire at any time.  Backlight GPIOs, properties and logs are left out.   *)
(***************************************************************************)
EXTENDS Naturals, FiniteSets

CONSTANTS
    MaxEdges,      \* bound on the changes of the ACC pin
    MaxBlanks,     \* bound on the framebuffer blank and unblank events
    MaxWrites,     \* bound on the pre_wakeup writes
    MaxSuspends,   \* bound on the suspends of the system
    MaxTimeouts,   \* bound on the observer's SLEEP_TIMEOUT notifications
    MaxFakes,      \* bound on the calls of the debug entry fake_acc_off
    UnormalMax,    \* UNORMAL_WAKEUP_CNT
    RepeatMax,     \* the 5 of unormal_wakeup_handle
    Protect        \* g_var.suspend_timeout_protect # 0

Bounds == [edges |-> MaxEdges, blanks |-> MaxBlanks, writes |-> MaxWrites,
           suspends |-> MaxSuspends, timeouts |-> MaxTimeouts, fakes |-> MaxFakes]

ASSUME BoundsAssumption ==
    /\ MaxEdges \in Nat /\ MaxBlanks \in Nat /\ MaxWrites \in Nat
    /\ MaxSuspends \in Nat /\ MaxTimeouts \in Nat /\ MaxFakes \in Nat
    /\ UnormalMax \in Nat /\ RepeatMax \in Nat \ {0} /\ Protect \in BOOLEAN

Levels == {"ON", "OFF"}

(* The members of FLY_SYSTEM_STATUS that this driver sends. *)
Statuses == {"SCREEN_OFF", "GOTO_SLEEP", "DEVICE_DOWN", "ANDROID_DOWN",
             "SLEEP_TIMEOUT", "KERNEL_UP", "ANDROID_UP", "DEVICE_UP",
             "SCREEN_ON", "PRE_WAKEUP"}

(* The contexts: the boot thread, the acc_state_work worker, the softirq   *)
(* running rmtctrl_timer_func, the framebuffer notifier, a writer of       *)
(* /dev/flyaudio_pm0, the resume callback, the observer's notifier call    *)
(* and the debug command.                                                  *)
Actors == {"boot", "state", "timer", "fb", "write", "pm", "event", "dbg"}
UserActors == {"fb", "write", "dbg"}      \* frozen while the system suspends
Handlers == {"state", "dbg"}              \* those that run acc_status_handle

(* Call sites of send_app_status: the status sent and where control goes.  *)
Calls == [on_kernel_up   |-> [sends |-> "KERNEL_UP",     next |-> "on_notify"],
          on_screen_on   |-> [sends |-> "SCREEN_ON",     next |-> "on_pm"],
          off_screen_off |-> [sends |-> "SCREEN_OFF",    next |-> "off_fork"],
          off_fake       |-> [sends |-> "GOTO_SLEEP",    next |-> "off_unlock"],
          t_sleep        |-> [sends |-> "GOTO_SLEEP",    next |-> "t_arm"],
          s_device_down  |-> [sends |-> "DEVICE_DOWN",   next |-> "s_android_down"],
          s_android_down |-> [sends |-> "ANDROID_DOWN",  next |-> "s_pm"],
          r_android_up   |-> [sends |-> "ANDROID_UP",    next |-> "r_device_up"],
          r_device_up    |-> [sends |-> "DEVICE_UP",     next |-> "r_fork"],
          r_fake         |-> [sends |-> "SCREEN_ON",     next |-> "r_check"],
          w_pre_wakeup   |-> [sends |-> "PRE_WAKEUP",    next |-> "w_arm"],
          p_timeout      |-> [sends |-> "SLEEP_TIMEOUT", next |-> "p_repeat"],
          e_timeout      |-> [sends |-> "SLEEP_TIMEOUT", next |-> "idle"]]

CallLabels == {"on_kernel_up", "on_screen_on", "off_screen_off", "off_fake", "t_sleep",
               "s_device_down", "s_android_down", "r_android_up", "r_device_up",
               "r_fake", "w_pre_wakeup", "p_timeout", "e_timeout"}

Labels == CallLabels \cup
    {"idle", "b_first", "b_second", "b_force", "b_isr",
     "on_flag", "on_del", "on_lock", "on_notify", "on_pm",
     "off_flag", "off_notify", "off_fork", "off_arm", "off_unlock",
     "f_fake", "f_call", "t_check", "t_arm", "s_pm", "r_fork", "r_check", "r_arm", "w_arm",
     "p_start", "p_count", "p_repeat", "p_again", "p_reboot", "p_clear",
     "p_fake", "p_check", "p_arm"}

VARIABLES
    io,         \* level of MCU_ACC_STATE_IO
    irq,        \* an edge is latched and acc_state_isr has not run
    isrAdded,   \* SOC_IO_ISR_Add has been called
    edgeSeen,   \* history: some edge came after SOC_IO_ISR_Add
    statusPend, \* work_pending(&work_acc_status)
    detect,     \* acc_detect_timer is pending
    statePend,  \* work_pending(&acc_state_work)
    accFlag,    \* g_var.acc_flag
    fake,       \* is_fake_acc_off
    told,       \* last ACC event given to the notifier chain
    armed,      \* rmtctrl_timer is pending
    status,     \* the atomic `status'
    posted,     \* the last status handed to rmtctrl_fifo_in
    setters,    \* actors between atomic_set and rmtctrl_fifo_in
    stale,      \* history: GOTO_SLEEP set by the timer since ACC came on
    rmtLock,    \* rmtctrl_wakelock is held
    pmLock,     \* pm_wakelock is held
    suspended,  \* the system is suspended
    observing,  \* completions of sleep_observer_wait, the one observed included
    cnt,        \* system_unormal_wakeup_cnt
    repeat,     \* repeat_times
    reg,        \* the register in which pm_resume increments a counter
    reboot,     \* a "reboot" given to the shell has brought the system down
    pc,         \* [Actors -> Labels]
    left        \* what is left of the bounds

pinVars   == <<io, irq, isrAdded, edgeSeen>>
workVars  == <<statusPend, detect, statePend>>
accVars   == <<accFlag, fake, told>>
sendVars  == <<status, posted, setters, stale>>
powerVars == <<rmtLock, pmLock, suspended, observing>>
countVars == <<cnt, repeat, reg, reboot>>
vars == <<pinVars, workVars, accVars, armed, sendVars, powerVars, countVars, pc, left>>

Init ==
    /\ io \in Levels
    /\ irq = FALSE /\ isrAdded = FALSE /\ edgeSeen = FALSE
    /\ statusPend = FALSE /\ detect = FALSE /\ statePend = FALSE
    /\ accFlag = "ON" /\ fake = FALSE /\ told = "none" /\ armed = FALSE
    /\ status = "SCREEN_ON" /\ posted = "SCREEN_ON" /\ setters = {} /\ stale = 0
    /\ rmtLock = FALSE /\ pmLock = TRUE /\ suspended = FALSE /\ observing = 0
    /\ cnt = 0 /\ repeat = 0 /\ reg = 0 /\ reboot = FALSE
    /\ pc = [a \in Actors |-> IF a = "boot" THEN "b_first" ELSE "idle"]
    /\ left = Bounds

Running == ~suspended /\ ~reboot
Thawed == Running /\ pc["pm"] = "idle"    \* user space runs too
Go(a, from, to) == pc[a] = from /\ pc' = [pc EXCEPT ![a] = to]
Step(a, from, to) == Running /\ Go(a, from, to)
Spend(what) == left[what] > 0 /\ left' = [left EXCEPT ![what] = @ - 1]

----------------------------------------------------------------------------
(* The pin, its interrupt and the deferred work. *)

Edge ==
    /\ ~reboot
    /\ Spend("edges")
    /\ io' \in Levels \ {io}
    /\ irq' = (irq \/ isrAdded)
    /\ edgeSeen' = (edgeSeen \/ isrAdded)
    /\ UNCHANGED <<isrAdded, workVars, accVars, armed, sendVars, powerVars, countVars, pc>>

acc_state_isr ==
    /\ Running /\ irq
    /\ irq' = FALSE
    /\ statusPend' = TRUE       \* queued already, or queued now
    /\ UNCHANGED <<io, isrAdded, edgeSeen, detect, statePend, accVars, armed, sendVars,
                   powerVars, countVars, pc, left>>

(* Both branches arm acc_detect_timer; they differ in the delay only. *)
work_acc_status_handle ==
    /\ Running /\ statusPend
    /\ statusPend' = FALSE
    /\ detect' = TRUE
    /\ UNCHANGED <<pinVars, statePend, accVars, armed, sendVars, powerVars, countVars,
                   pc, left>>

(* Mutant: the work is not queued while its handler runs. *)
DetectSkipsBusyWork ==
    /\ Running /\ detect
    /\ detect' = FALSE
    /\ statePend' = (pc["state"] = "idle")
    /\ UNCHANGED <<pinVars, statusPend, accVars, armed, sendVars, powerVars, countVars,
                   pc, left>>

acc_detect_timer_func ==
    /\ Running /\ detect
    /\ detect' = FALSE
    /\ statePend' = TRUE        \* queued already, or queued now
    /\ UNCHANGED <<pinVars, statusPend, accVars, armed, sendVars, powerVars, countVars,
                   pc, left>>

(* The sample is kept as the branch taken. *)
acc_state_work_func ==
    /\ statePend
    /\ statePend' = FALSE
    /\ Step("state", "idle", IF io = accFlag THEN "idle"
                             ELSE IF io = "ON" THEN "on_flag" ELSE "off_flag")
    /\ UNCHANGED <<pinVars, statusPend, detect, accVars, armed, sendVars, powerVars,
                   countVars, left>>

----------------------------------------------------------------------------
(* send_app_status, wherever it is called. *)

SetStatus(a) ==
    /\ Running
    /\ pc[a] \in CallLabels /\ a \notin setters
    /\ status' = Calls[pc[a]].sends
    /\ setters' = setters \cup {a}
    /\ stale' = IF pc[a] = "t_sleep" /\ accFlag = "ON" THEN stale + 1 ELSE stale
    /\ UNCHANGED <<pinVars, workVars, accVars, armed, posted, powerVars, countVars, pc, left>>

rmtctrl_fifo_in(a) ==
    /\ a \in setters
    /\ posted' = status
    /\ setters' = setters \ {a}
    /\ Step(a, pc[a], Calls[pc[a]].next)
    /\ UNCHANGED <<pinVars, workVars, accVars, armed, status, stale, powerVars, countVars,
                   left>>

Send(a) == SetStatus(a) \/ rmtctrl_fifo_in(a)

(* Mutant: the timer is left alone when it is not pending. *)
ModTimerPending(a, from, to) ==
    /\ Step(a, from, to)
    /\ UNCHANGED <<pinVars, workVars, accVars, armed, sendVars, powerVars, countVars, left>>

(* mod_timer(&rmtctrl_timer, ...), wherever it is called. *)
ModTimer(a, from, to) ==
    /\ Step(a, from, to)
    /\ armed' = TRUE
    /\ UNCHANGED <<pinVars, workVars, accVars, sendVars, powerVars, countVars, left>>

(* A step that only chooses where its actor goes. *)
Branch(a, from, to) ==
    /\ Step(a, from, to)
    /\ UNCHANGED <<pinVars, workVars, accVars, armed, sendVars, powerVars, countVars, left>>

(* The handlers arm rmtctrl_timer only with ACC off and no fake. *)
AccReallyOff == accFlag = "OFF" /\ ~fake

----------------------------------------------------------------------------
(* acc_status_handle(FLY_ACC_ON): del_timer, wake_lock and the zeroing of  *)
(* the counters, KERNEL_UP, the notifier chain, SCREEN_ON, and "screen_on" *)
(* written to /dev/lidbg_pm0.                                              *)

AccOnFlag(a) ==
    /\ Step(a, "on_flag", "on_del")
    /\ accFlag' = "ON"
    /\ stale' = 0
    /\ UNCHANGED <<pinVars, workVars, fake, told, armed, status, posted, setters, powerVars,
                   countVars, left>>

AccOnDelTimer(a) ==
    /\ Step(a, "on_del", "on_lock")
    /\ armed' = FALSE
    /\ UNCHANGED <<pinVars, workVars, accVars, sendVars, powerVars, countVars, left>>

(* Mutant: the wake lock is not taken. *)
AccOnNoLock(a) ==
    /\ Step(a, "on_lock", "on_kernel_up")
    /\ cnt' = 0 /\ repeat' = 0
    /\ UNCHANGED <<pinVars, workVars, accVars, armed, sendVars, powerVars, reg, reboot, left>>

AccOnLock(a) ==
    /\ Step(a, "on_lock", "on_kernel_up")
    /\ rmtLock' = TRUE
    /\ cnt' = 0 /\ repeat' = 0
    /\ UNCHANGED <<pinVars, workVars, accVars, armed, sendVars, pmLock, suspended, observing,
                   reg, reboot, left>>

AccOnNotify(a) ==
    /\ Step(a, "on_notify", "on_screen_on")
    /\ told' = "ON"
    /\ UNCHANGED <<pinVars, workVars, accFlag, fake, armed, sendVars, powerVars, countVars,
                   left>>

AccOnPm(a) ==
    /\ Step(a, "on_pm", "idle")
    /\ pmLock' = TRUE
    /\ UNCHANGED <<pinVars, workVars, accVars, armed, sendVars, rmtLock, suspended,
                   observing, countVars, left>>

(* acc_status_handle(FLY_ACC_OFF): the notifier chain unless faked,        *)
(* SCREEN_OFF, then GOTO_SLEEP at once (faked) or the 30 s timer, and      *)
(* wake_unlock last.                                                       *)

(* Mutant: nobody is notified of ACC_OFF. *)
AccOffSilent(a) ==
    /\ Step(a, "off_flag", "off_screen_off")
    /\ accFlag' = "OFF"
    /\ UNCHANGED <<pinVars, workVars, fake, told, armed, sendVars, powerVars, countVars, left>>

AccOffFlag(a) ==
    /\ Step(a, "off_flag", IF fake THEN "off_screen_off" ELSE "off_notify")
    /\ accFlag' = "OFF"
    /\ UNCHANGED <<pinVars, workVars, fake, told, armed, sendVars, powerVars, countVars, left>>

AccOffNotify(a) ==
    /\ Step(a, "off_notify", "off_screen_off")
    /\ told' = "OFF"
    /\ UNCHANGED <<pinVars, workVars, accFlag, fake, armed, sendVars, powerVars, countVars,
                   left>>

AccOffUnlock(a) ==
    /\ Step(a, "off_unlock", "idle")
    /\ rmtLock' = FALSE
    /\ UNCHANGED <<pinVars, workVars, accVars, armed, sendVars, pmLock, suspended, observing,
                   countVars, left>>

acc_status_handle(a) ==
    \/ AccOnFlag(a) \/ AccOnDelTimer(a) \/ AccOnLock(a) \/ AccOnNotify(a) \/ AccOnPm(a)
    \/ AccOffFlag(a) \/ AccOffNotify(a) \/ AccOffUnlock(a)
    \/ Branch(a, "off_fork", IF fake THEN "off_fake" ELSE "off_arm")
    \/ ModTimer(a, "off_arm", "off_unlock")
    \/ Send(a)

----------------------------------------------------------------------------
(* rmtctrl_timer: expiry, then the handler. *)

RmtTimerFires ==
    /\ armed
    /\ Step("timer", "idle", "t_check")
    /\ armed' = FALSE
    /\ UNCHANGED <<pinVars, workVars, accVars, sendVars, powerVars, countVars, left>>

(* Mutant: the handler sends and re-arms whatever acc_flag is. *)
TimerIgnoresAcc ==
    \/ Branch("timer", "t_check", IF fake THEN "idle" ELSE "t_sleep")
    \/ ModTimer("timer", "t_arm", "idle")
    \/ Send("timer")

(* Mutant: the handler ignores is_fake_acc_off. *)
TimerIgnoresFake ==
    \/ Branch("timer", "t_check", IF accFlag = "OFF" THEN "t_sleep" ELSE "idle")
    \/ ModTimer("timer", "t_arm", "idle")
    \/ Send("timer")

(* Mutant: the handler does not re-arm its timer. *)
TimerOneShot ==
    \/ Branch("timer", "t_check", IF AccReallyOff THEN "t_sleep" ELSE "idle")
    \/ Branch("timer", "t_arm", "idle")
    \/ Send("timer")

rmtctrl_timer_func ==
    \/ Branch("timer", "t_check", IF AccReallyOff THEN "t_sleep" ELSE "idle")
    \/ ModTimer("timer", "t_arm", "idle")
    \/ Send("timer")

----------------------------------------------------------------------------
(* The framebuffer notifier. *)

FbEvent(to) ==
    /\ Thawed
    /\ Spend("blanks")
    /\ Go("fb", "idle", to)
    /\ UNCHANGED <<pinVars, workVars, accVars, armed, sendVars, powerVars, countVars>>

FbPowerdown == FbEvent("s_device_down")
FbUnblank == FbEvent("r_android_up")

(* "android_down" written to /dev/lidbg_pm0 by rmtctrl_suspend. *)
AndroidDown ==
    /\ Step("fb", "s_pm", "idle")
    /\ pmLock' = FALSE
    /\ observing' = observing + 1
    /\ UNCHANGED <<pinVars, workVars, accVars, armed, sendVars, rmtLock, suspended,
                   countVars, left>>

(* rmtctrl_suspend: DEVICE_DOWN, ANDROID_DOWN.  rmtctrl_resume: ANDROID_UP, *)
(* DEVICE_UP, SCREEN_ON if faked, then the timer with ACC off.             *)
fb_notifier_callback ==
    \/ AndroidDown
    \/ Branch("fb", "r_fork", IF fake THEN "r_fake" ELSE "r_check")
    \/ Branch("fb", "r_check", IF AccReallyOff THEN "r_arm" ELSE "idle")
    \/ ModTimer("fb", "r_arm", "idle")
    \/ Send("fb")

----------------------------------------------------------------------------
(* The pre_wakeup command, the observer's notification, the debug entry. *)

PreWakeup ==
    /\ Thawed
    /\ Spend("writes")
    /\ Go("write", "idle", "w_pre_wakeup")
    /\ UNCHANGED <<pinVars, workVars, accVars, armed, sendVars, powerVars, countVars>>

rmtctrl_write == ModTimer("write", "w_arm", "idle") \/ Send("write")

(* thread_observer takes a completion, and leaves its loop when it sees    *)
(* ACC on; while it loops it reports FLY_SLEEP_TIMEOUT through the         *)
(* notifier chain.                                                         *)
ObserverStops ==
    /\ Running /\ observing > 0 /\ accFlag = "ON"
    /\ observing' = observing - 1
    /\ UNCHANGED <<pinVars, workVars, accVars, armed, sendVars, rmtLock, pmLock, suspended,
                   countVars, pc, left>>

SleepTimeout ==
    /\ observing > 0 /\ accFlag = "OFF" /\ Protect
    /\ Spend("timeouts")
    /\ Step("event", "idle", "e_timeout")
    /\ UNCHANGED <<pinVars, workVars, accVars, armed, sendVars, powerVars, countVars>>

lidbg_rmtctrl_event == Send("event")

fake_acc_off ==
    /\ Thawed
    /\ Spend("fakes")
    /\ Go("dbg", "idle", "f_fake")
    /\ accFlag' = "OFF"
    /\ UNCHANGED <<pinVars, workVars, fake, told, armed, sendVars, powerVars, countVars>>

FakeFlagSet ==
    /\ Step("dbg", "f_fake", "f_call")
    /\ fake' = TRUE
    /\ UNCHANGED <<pinVars, workVars, accFlag, told, armed, sendVars, powerVars, countVars,
                   left>>

(* acc_status_handle is given acc_flag as it is now, not FLY_ACC_OFF: the  *)
(* worker may have stored ACC_ON since.                                    *)
FakeCall == Branch("dbg", "f_call", IF accFlag = "ON" THEN "on_flag" ELSE "off_flag")

----------------------------------------------------------------------------
(* thread_check_acc_and_response_acc_off_delay.  Its last sample of the    *)
(* pin is overwritten with 1, so its call of acc_status_handle is dead.    *)

update_acc_status ==
    /\ \/ Step("boot", "b_first", "b_second")
       \/ Step("boot", "b_second", "b_force")
    /\ accFlag' = io
    /\ stale' = IF io = "ON" THEN 0 ELSE stale
    /\ UNCHANGED <<pinVars, workVars, fake, told, armed, status, posted, setters, powerVars,
                   countVars, left>>

BootForceOn ==
    /\ Step("boot", "b_force", "b_isr")
    /\ accFlag' = "ON"
    /\ stale' = 0
    /\ UNCHANGED <<pinVars, workVars, fake, told, armed, status, posted, setters, powerVars,
                   countVars, left>>

BootAddIsr ==
    /\ Step("boot", "b_isr", "idle")
    /\ isrAdded' = TRUE
    /\ UNCHANGED <<io, irq, edgeSeen, workVars, accVars, armed, sendVars, powerVars,
                   countVars, left>>

----------------------------------------------------------------------------
(* Suspend, wake-up, and rmtctrl_pm_resume with unormal_wakeup_handle.     *)

Suspend ==
    /\ Running
    /\ ~rmtLock /\ ~pmLock /\ ~irq
    /\ \A a \in UserActors \cup {"timer", "pm"} : pc[a] = "idle"
    /\ Spend("suspends")
    /\ suspended' = TRUE
    /\ UNCHANGED <<pinVars, workVars, accVars, armed, sendVars, rmtLock, pmLock, observing,
                   countVars, pc>>

(* By the ACC interrupt, which is a wake-up source, or by an alarm. *)
Wake ==
    /\ suspended
    /\ suspended' = FALSE
    /\ Go("pm", "idle", IF accFlag = "OFF" THEN "p_start" ELSE "p_fake")
    /\ UNCHANGED <<pinVars, workVars, accVars, armed, sendVars, rmtLock, pmLock, observing,
                   countVars, left>>

(* system_unormal_wakeup_cnt++ and repeat_times++ are not atomic: they     *)
(* race with the zeroes of acc_status_handle, so each is a read of the     *)
(* counter into a register and a write of the register, dead afterwards.   *)
ReadCounter ==
    /\ \/ Step("pm", "p_start", "p_count") /\ reg' = cnt + 1
       \/ Step("pm", "p_repeat", "p_again") /\ reg' = repeat + 1
    /\ UNCHANGED <<pinVars, workVars, accVars, armed, sendVars, powerVars, cnt, repeat,
                   reboot, left>>

(* Past the limit, whether 30 minutes have gone by is nondeterministic. *)
CountWakeup ==
    /\ cnt' = reg /\ reg' = 0
    /\ \/ reg <= UnormalMax /\ Step("pm", "p_count", "p_fake")
       \/ reg > UnormalMax /\ Step("pm", "p_count", "p_clear")
       \/ reg > UnormalMax /\ accFlag = "OFF" /\ Protect /\ Step("pm", "p_count", "p_timeout")
    /\ UNCHANGED <<pinVars, workVars, accVars, armed, sendVars, powerVars, repeat, reboot,
                   left>>

CountRepeat ==
    /\ Step("pm", "p_again", IF reg >= RepeatMax THEN "p_reboot" ELSE "p_clear")
    /\ repeat' = reg /\ reg' = 0
    /\ UNCHANGED <<pinVars, workVars, accVars, armed, sendVars, powerVars, cnt, reboot, left>>

(* After ssleep(10), without another look at ACC, "reboot" is queued for   *)
(* the user space server and the resume goes on: the system may come down  *)
(* at once, or go on until the server has run it, or for good if the       *)
(* command is dropped.                                                     *)
Reboot ==
    /\ Step("pm", "p_reboot", "p_clear")
    /\ reboot' \in BOOLEAN
    /\ UNCHANGED <<pinVars, workVars, accVars, armed, sendVars, powerVars, cnt, repeat, reg,
                   left>>

(* Mutant: the count is not started again. *)
KeepCount ==
    /\ Step("pm", "p_clear", "p_fake")
    /\ UNCHANGED <<pinVars, workVars, accVars, armed, sendVars, powerVars, countVars, left>>

ClearCount ==
    /\ Step("pm", "p_clear", "p_fake")
    /\ cnt' = 0
    /\ UNCHANGED <<pinVars, workVars, accVars, armed, sendVars, powerVars, repeat, reg,
                   reboot, left>>

ResumeFake ==
    /\ Step("pm", "p_fake", "p_check")
    /\ told' = IF fake THEN "ON" ELSE told
    /\ UNCHANGED <<pinVars, workVars, accFlag, fake, armed, sendVars, powerVars, countVars,
                   left>>

rmtctrl_pm_resume ==
    \/ ReadCounter \/ CountWakeup \/ CountRepeat \/ Reboot \/ ClearCount \/ ResumeFake
    \/ Branch("pm", "p_check", IF AccReallyOff THEN "p_arm" ELSE "idle")
    \/ ModTimer("pm", "p_arm", "idle")
    \/ Send("pm")

----------------------------------------------------------------------------
(* What the outside may do, within the bounds. *)
Environment == Edge \/ FbPowerdown \/ FbUnblank \/ PreWakeup \/ SleepTimeout
               \/ fake_acc_off \/ Suspend

Boot == update_acc_status \/ BootForceOn \/ BootAddIsr

Next ==
    \/ Environment
    \/ acc_state_isr
    \/ work_acc_status_handle
    \/ acc_detect_timer_func
    \/ acc_state_work_func
    \/ \E a \in Handlers : acc_status_handle(a)
    \/ RmtTimerFires
    \/ rmtctrl_timer_func
    \/ fb_notifier_callback
    \/ rmtctrl_write
    \/ lidbg_rmtctrl_event
    \/ ObserverStops
    \/ FakeFlagSet \/ FakeCall
    \/ Boot
    \/ Wake
    \/ rmtctrl_pm_resume

Spec == Init /\ [][Next]_vars

(* Queued works, expired timers and running contexts go on to their end.   *)
(* A suspended system wakes, at the latest by the alarm whose period the   *)
(* probe registers as alarmtimer_wakeup_time: acc_state_isr holds no wake  *)
(* lock, so a suspend may come between the interrupt and its work.         *)
(* Nothing is assumed of the rest of the environment: no edge, blank,      *)
(* write, notification or suspend need come.                               *)
Fairness ==
    /\ WF_vars(acc_state_isr)
    /\ WF_vars(work_acc_status_handle)
    /\ WF_vars(acc_detect_timer_func)
    /\ WF_vars(acc_state_work_func)
    /\ \A a \in Handlers : WF_vars(acc_status_handle(a))
    /\ WF_vars(FakeFlagSet \/ FakeCall)
    /\ WF_vars(RmtTimerFires)
    /\ WF_vars(rmtctrl_timer_func)
    /\ WF_vars(fb_notifier_callback)
    /\ WF_vars(rmtctrl_write)
    /\ WF_vars(lidbg_rmtctrl_event)
    /\ WF_vars(Boot)
    /\ WF_vars(Wake)
    /\ WF_vars(rmtctrl_pm_resume)

FairSpec == Spec /\ Fairness

----------------------------------------------------------------------------
(* Properties. *)

(* The counter of abnormal wake-ups never passes its limit by more than    *)
(* the one that triggers, in spite of the unprotected increments.          *)
TypeOK ==
    /\ io \in Levels /\ accFlag \in Levels /\ told \in Levels \cup {"none"}
    /\ irq \in BOOLEAN /\ isrAdded \in BOOLEAN /\ edgeSeen \in BOOLEAN
    /\ statusPend \in BOOLEAN /\ detect \in BOOLEAN /\ statePend \in BOOLEAN
    /\ fake \in BOOLEAN /\ armed \in BOOLEAN
    /\ rmtLock \in BOOLEAN /\ pmLock \in BOOLEAN
    /\ suspended \in BOOLEAN /\ observing \in Nat /\ reboot \in BOOLEAN
    /\ status \in Statuses /\ posted \in Statuses
    /\ setters \subseteq Actors
    /\ stale \in Nat /\ repeat \in Nat /\ reg \in Nat
    /\ cnt \in 0 .. UnormalMax + 1
    /\ pc \in [Actors -> Labels]
    /\ left \in [DOMAIN Bounds -> Nat]

OnPath == {"on_del", "on_lock", "on_kernel_up", "on_notify", "on_screen_on", "on_pm"}
OffPath == {"off_notify", "off_screen_off", "off_fork", "off_fake", "off_arm", "off_unlock"}

(* Something on its way will sample the pin again. *)
Chasing == irq \/ statusPend \/ detect \/ statePend

(* ISR added, and no call of the debug entry so far. *)
Normal == isrAdded /\ ~fake /\ pc["dbg"] = "idle"

(* Normal, a first ACC_OFF has been announced, and no handler is running.  *)
Settled == Normal /\ told # "none" /\ pc["state"] \notin OnPath \cup OffPath

(* No edge of the ACC line is lost: once the interrupt has been seen, the  *)
(* line and acc_flag differ only while an interrupt, a work, the debounce  *)
(* timer or the worker about to store its sample is still on its way.  At  *)
(* stake are the work_pending tests of acc_state_isr and                   *)
(* acc_detect_timer_func, against edges that come while the works run.     *)
NoLostEdge ==
    (edgeSeen /\ Normal /\ io # accFlag) =>
        Chasing \/ pc["state"] = IF io = "ON" THEN "on_flag" ELSE "off_flag"

(* With ACC off the head unit is never left awake for ever: the            *)
(* goto_sleep timer is pending, or its handler or acc_status_handle is on  *)
(* the way to arm it.  del_timer in acc_status_handle races with the       *)
(* handler's own mod_timer and with those of the resume paths.             *)
SleepTimerArmed ==
    (Normal /\ accFlag = "OFF") =>
        \/ armed
        \/ pc["timer"] \in {"t_check", "t_sleep", "t_arm"}
        \/ pc["state"] \in {"off_notify", "off_screen_off", "off_fork", "off_arm"}

(* A sleep request that overtakes the return of ACC is not repeated:       *)
(* del_timer does not wait for a running rmtctrl_timer_func, which may set *)
(* GOTO_SLEEP and re-arm the timer after ACC_ON, but at most once for each *)
(* ACC_ON.                                                                 *)
StaleSleepAtMostOnce == stale <= 1

(* The wake lock follows ACC: when no handler runs, rmtctrl_wakelock is    *)
(* held iff ACC is on, once a first ACC_OFF has been handled (it is not    *)
(* taken at boot, where pm_wakelock is).                                   *)
LockTracksAcc == Settled => (rmtLock <=> accFlag = "ON")

(* The system is never suspended with ACC on, except between the store to  *)
(* acc_flag and the wake_lock of acc_status_handle; before the first       *)
(* ACC_OFF only pm_wakelock protects it.                                   *)
AwakeWhileAccOn ==
    (suspended /\ Normal /\ accFlag = "ON" /\ told # "none") =>
        pc["state"] \in {"on_del", "on_lock"}

(* The drivers on the notifier chain agree with acc_flag when no handler   *)
(* runs, whatever glitches and resumes came between.                       *)
SubscribersAgree == Settled => told = accFlag

(* Once the line is quiet acc_flag takes its level and keeps it, unless    *)
(* the abnormal wake-ups have rebooted the system.                         *)
AccConverges == <>[](edgeSeen /\ Normal => accFlag = io \/ reboot)

(* A GOTO_SLEEP handed to the queue. *)
AskToSleep == \E a \in Actors : rmtctrl_fifo_in(a) /\ posted' = "GOTO_SLEEP"

(* User space is asked to sleep again and again: if ACC goes off for good  *)
(* and the system is not rebooted, GOTO_SLEEP is posted infinitely often,  *)
(* suspends and blank events in between or not.  One request, which user   *)
(* space may have ignored, is not enough.                                  *)
SleepAskedAgain == <>[](AccReallyOff /\ ~reboot) => []<><<AskToSleep>>_vars

(* The debug entry ends the sleep loop: after fake_acc_off the timer runs  *)
(* out, and, but for a pre_wakeup, nothing arms it again, so long as the   *)
(* system is not rebooted.                                                 *)
FakeEndsSleepLoop == <>[](fake /\ left["writes"] = MaxWrites => ~armed \/ reboot)

(* ACC off at the end of the boot is answered, as the name of the thread   *)
(* and its branch for FLY_ACC_OFF say.                                     *)
AccOffAtBootAnswered ==
    (isrAdded /\ io = "OFF" /\ accFlag = "ON") => Chasing \/ pc["state"] # "idle"
=============================================================================
