------------------------------- MODULE PmObserver -----------------------------
(***************************************************************************)
(* thread_observer of lidbg_pm.c on the boards with SUSPEND_ONLINE.  Each  *)
(* android_down starts a watch: as long as ACC is off the thread counts    *)
(* seconds, relaxes every wake lock when a timetable says so, asks for a   *)
(* timeout, reboots, and at last cuts the power.  Beside it run the        *)
(* handler of the ACC line (lidbg_rmtctrl.c), the framebuffer notifier     *)
(* that writes android_down, users of the lock that lidbg_pm0 lends, and   *)
(* the suspend of the kernel, which resets the seconds.                    *)
(***************************************************************************)
EXTENDS Integers, FiniteSets

CONSTANTS
    Users,          \* who writes "flyaudio lock" and "flyaudio unlock"
    ForceAt,        \* 60*10: the seconds after which every lock is relaxed
    RebootAt,       \* 60*19: the reboot
    PowerOffAt,     \* 60*30: LPC_CMD_DISABLE_SOC_POWER
    Protect,        \* g_var.suspend_timeout_protect
    ws_lh,          \* the kernel has handed its list of wake locks over
    MaxEdges,       \* bound on the changes of ACC
    MaxStarts       \* bound on the starts of a watch

ASSUME PmObserverAssumption ==
    /\ IsFiniteSet(Users)
    /\ ForceAt \in Nat \ {0} /\ RebootAt \in Nat \ {0} /\ PowerOffAt \in Nat \ {0}
    /\ ForceAt < RebootAt /\ RebootAt < PowerOffAt
    /\ Protect \in BOOLEAN /\ ws_lh \in BOOLEAN
    /\ MaxEdges \in Nat /\ MaxStarts \in Nat

VARIABLES
    acc_flag,               \* g_var.acc_flag: ACC is on
    locks,                  \* the wake locks that are active
    user_lock_cnt,
    sleep_observer_wait,    \* the completions of that name not consumed
    S,                      \* have_triggerd_sleep_S
    power,                  \* the unit is up, suspended, or ended by the observer
    observer,               \* where thread_observer is
    reg,                    \* its copy of S
    todo,                   \* the locks it is still to relax
    handler,                \* where the handler of the ACC line is
    blank,                  \* where the framebuffer notifier is
    user,                   \* where each user is

    due,                    \* history: a watch was started, ACC off ever since
    overtaken,              \* history: ACC came on behind the observer's last look
    edges, starts

kernel == <<power, S>>
thread == <<observer, reg, todo>>
writers == <<handler, blank, user>>
history == <<due, overtaken>>
observerVars == <<acc_flag, locks, user_lock_cnt, sleep_observer_wait, kernel, thread,
                  writers, history, edges, starts>>

Locks == {"rmtctrl_wakelock", "pm_wakelock", "user_wakelock"}

ObserverInit ==
    /\ acc_flag = TRUE
    /\ locks = {"pm_wakelock"} /\ user_lock_cnt = 0
    /\ sleep_observer_wait = 0 /\ S = 0 /\ power = "up"
    /\ observer = "top" /\ reg = 0 /\ todo = {}
    /\ handler = "idle" /\ blank = "idle" /\ user = [u \in Users |-> "free"]
    /\ due = FALSE /\ overtaken = FALSE /\ edges = 0 /\ starts = 0

Up == power = "up"

(* The observer has seen that ACC is off and acts on it. *)
Looked == {"count", "store", "force"}

----------------------------------------------------------------------------
(* acc_status_handle, as far as the observer is concerned; RmtCtrl has the
   rest of it. *)

AccOn ==
    /\ Up /\ handler = "idle" /\ ~acc_flag /\ edges < MaxEdges
    /\ acc_flag' = TRUE /\ edges' = edges + 1
    /\ handler' = "lock"
    /\ due' = FALSE
    /\ overtaken' = (observer \in Looked)
    /\ UNCHANGED <<locks, user_lock_cnt, sleep_observer_wait, kernel, thread, blank, user,
                   starts>>

TakeLock ==
    /\ Up /\ handler = "lock"
    /\ locks' = locks \cup {"rmtctrl_wakelock"}
    /\ handler' = "screen_on"
    /\ UNCHANGED <<acc_flag, user_lock_cnt, sleep_observer_wait, kernel, thread, blank, user,
                   history, edges, starts>>

(* It writes "flyaudio screen_on" to lidbg_pm0. *)
screen_on ==
    /\ Up /\ handler = "screen_on"
    /\ locks' = locks \cup {"pm_wakelock"}
    /\ handler' = "idle"
    /\ UNCHANGED <<acc_flag, user_lock_cnt, sleep_observer_wait, kernel, thread, blank, user,
                   history, edges, starts>>

AccOff ==
    /\ Up /\ handler = "idle" /\ acc_flag /\ edges < MaxEdges
    /\ acc_flag' = FALSE /\ edges' = edges + 1
    /\ handler' = "unlock"
    /\ overtaken' = FALSE
    /\ UNCHANGED <<locks, user_lock_cnt, sleep_observer_wait, kernel, thread, blank, user,
                   due, starts>>

ReleaseLock ==
    /\ Up /\ handler = "unlock"
    /\ locks' = locks \ {"rmtctrl_wakelock"}
    /\ handler' = "idle"
    /\ UNCHANGED <<acc_flag, user_lock_cnt, sleep_observer_wait, kernel, thread, blank, user,
                   history, edges, starts>>

----------------------------------------------------------------------------
(* Commands. *)

(* complete() does not tell whether somebody waits. *)
observer_start ==
    /\ starts < MaxStarts /\ starts' = starts + 1
    /\ sleep_observer_wait' = sleep_observer_wait + 1
    /\ due' = (due \/ ~acc_flag)

(* "flyaudio android_down", from the framebuffer notifier of lidbg_rmtctrl. *)
android_down ==
    /\ Up /\ blank = "idle"
    /\ observer_start
    /\ blank' = "unlock"
    /\ UNCHANGED <<acc_flag, locks, user_lock_cnt, kernel, thread, handler, user, overtaken,
                   edges>>

android_down_unlock ==
    /\ Up /\ blank = "unlock"
    /\ locks' = locks \ {"pm_wakelock"}
    /\ blank' = "idle"
    /\ UNCHANGED <<acc_flag, user_lock_cnt, sleep_observer_wait, kernel, thread, handler,
                   user, history, edges, starts>>

(* "ws pm 1"; "ws pm 0" is observer_stop, which does nothing. *)
ws_pm ==
    /\ Up
    /\ observer_start
    /\ UNCHANGED <<acc_flag, locks, user_lock_cnt, kernel, thread, writers, overtaken, edges>>

At(u, from, to) == Up /\ user[u] = from /\ user' = [user EXCEPT ![u] = to]

(* "flyaudio lock": the count, then the lock. *)
lock_count(u) ==
    /\ At(u, "free", "locking")
    /\ user_lock_cnt' = user_lock_cnt + 1
    /\ UNCHANGED <<acc_flag, locks, sleep_observer_wait, kernel, thread, handler, blank,
                   history, edges, starts>>

lock(u) ==
    /\ At(u, "locking", "held")
    /\ locks' = locks \cup {"user_wakelock"}
    /\ UNCHANGED <<acc_flag, user_lock_cnt, sleep_observer_wait, kernel, thread, handler,
                   blank, history, edges, starts>>

(* Mutant: the lock is released below zero only. *)
unlock_count_Below(u) ==
    /\ At(u, "held", IF user_lock_cnt <= 0 THEN "unlocking" ELSE "free")
    /\ user_lock_cnt' = user_lock_cnt - 1
    /\ UNCHANGED <<acc_flag, locks, sleep_observer_wait, kernel, thread, handler, blank,
                   history, edges, starts>>

(* "flyaudio unlock": it goes by the count it has made. *)
unlock_count(u) ==
    /\ At(u, "held", IF user_lock_cnt <= 1 THEN "unlocking" ELSE "free")
    /\ user_lock_cnt' = user_lock_cnt - 1
    /\ UNCHANGED <<acc_flag, locks, sleep_observer_wait, kernel, thread, handler, blank,
                   history, edges, starts>>

unlock(u) ==
    /\ At(u, "unlocking", "free")
    /\ locks' = locks \ {"user_wakelock"}
    /\ UNCHANGED <<acc_flag, user_lock_cnt, sleep_observer_wait, kernel, thread, handler,
                   blank, history, edges, starts>>

----------------------------------------------------------------------------
(* thread_observer. *)

Others == <<acc_flag, user_lock_cnt, writers, history, edges, starts>>

Moves(from, to) == Up /\ observer = from /\ observer' = to

(* Mutant: the completions that have piled up are thrown away. *)
TopForgets ==
    /\ Moves("top", "wait")
    /\ S' = 0 /\ sleep_observer_wait' = 0
    /\ UNCHANGED <<Others, locks, power, reg, todo>>

Top ==
    /\ Moves("top", "wait")
    /\ S' = 0
    /\ UNCHANGED <<Others, locks, sleep_observer_wait, power, reg, todo>>

Wait ==
    /\ Moves("wait", "sleep")
    /\ sleep_observer_wait > 0
    /\ sleep_observer_wait' = sleep_observer_wait - 1
    /\ UNCHANGED <<Others, locks, kernel, reg, todo>>

(* Mutant: ACC is not looked at any more once seconds have been counted. *)
LookOnce ==
    /\ Moves("sleep", IF acc_flag /\ S = 0 THEN "top" ELSE "count")
    /\ UNCHANGED <<Others, locks, sleep_observer_wait, kernel, reg, todo>>

(* Mutant: the watch pauses while a user has the lock. *)
LookPauses ==
    /\ \/ Moves("sleep", "top") /\ acc_flag
       \/ Moves("sleep", "count") /\ ~acc_flag /\ "user_wakelock" \notin locks
    /\ UNCHANGED <<Others, locks, sleep_observer_wait, kernel, reg, todo>>

(* After ssleep(1): the test of acc_flag. *)
Look ==
    /\ Moves("sleep", IF acc_flag THEN "top" ELSE "count")
    /\ UNCHANGED <<Others, locks, sleep_observer_wait, kernel, reg, todo>>

(* have_triggerd_sleep_S++, which the suspend does not exclude. *)
Load ==
    /\ Moves("count", "store")
    /\ reg' = S
    /\ UNCHANGED <<Others, locks, sleep_observer_wait, kernel, todo>>

(* What the timetable has for the second s.  FLY_SLEEP_TIMEOUT, at 60*15, goes
   to the notifier chain, where RmtCtrl takes it; the other entries log. *)
Forces(s) == s = ForceAt /\ ws_lh
Ends(s) == (s = RebootAt /\ Protect) \/ s = PowerOffAt

StoreSeconds ==
    /\ Moves("store", IF Forces(reg + 1) THEN "force" ELSE "sleep")
    /\ S' = reg + 1
    /\ todo' = IF Forces(reg + 1) THEN Locks ELSE todo
    /\ power' = IF Ends(reg + 1) THEN "ended" ELSE power
    /\ UNCHANGED <<Others, locks, sleep_observer_wait, reg>>

(* kernel_wakelock_force_unlock: every lock of the list, one by one, after
   kernel_wakelock_save_wakelock has written them to a file. *)
Relax(l) ==
    /\ Moves("force", "force") /\ l \in todo
    /\ locks' = locks \ {l}
    /\ todo' = todo \ {l}
    /\ UNCHANGED <<Others, sleep_observer_wait, kernel, reg>>

Relaxed ==
    /\ Moves("force", "sleep") /\ todo = {}
    /\ UNCHANGED <<Others, locks, sleep_observer_wait, kernel, reg, todo>>

thread_observer ==
    \/ Top \/ Wait \/ Look \/ Load \/ StoreSeconds \/ Relaxed
    \/ \E l \in Locks : Relax(l)

----------------------------------------------------------------------------
(* lidbg_pm_step_call.  The thread is not one that the freezer stops. *)

(* PM_SUSPEND_ENTER8, which no active wake lock lets the kernel reach. *)
SuspendEnter ==
    /\ Up /\ locks = {}
    /\ power' = "suspended"
    /\ S' = 0
    /\ UNCHANGED <<Others, locks, sleep_observer_wait, thread>>

(* PM_SUSPEMD_OPS_ENTER9P1. *)
SuspendExit ==
    /\ power = "suspended"
    /\ power' = "up"
    /\ UNCHANGED <<Others, locks, sleep_observer_wait, S, thread>>

----------------------------------------------------------------------------

ObserverNext ==
    \/ AccOn \/ TakeLock \/ screen_on \/ AccOff \/ ReleaseLock
    \/ android_down \/ android_down_unlock \/ ws_pm
    \/ \E u \in Users : lock_count(u) \/ lock(u) \/ unlock_count(u) \/ unlock(u)
    \/ thread_observer
    \/ SuspendEnter \/ SuspendExit

ObserverSpec == ObserverInit /\ [][ObserverNext]_observerVars

(* The thread is scheduled.  Everybody else may do nothing. *)
ObserverFairSpec == ObserverSpec /\ WF_observerVars(thread_observer)

----------------------------------------------------------------------------
(* Properties. *)

ObserverTypeOK ==
    /\ acc_flag \in BOOLEAN /\ locks \subseteq Locks
    /\ user_lock_cnt \in Int /\ sleep_observer_wait \in Nat
    /\ S \in Nat /\ power \in {"up", "suspended", "ended"}
    /\ observer \in {"top", "wait", "sleep"} \cup Looked
    /\ reg \in Nat /\ todo \subseteq Locks
    /\ handler \in {"idle", "lock", "screen_on", "unlock"}
    /\ blank \in {"idle", "unlock"}
    /\ user \in [Users -> {"free", "locking", "held", "unlocking"}]
    /\ due \in BOOLEAN /\ overtaken \in BOOLEAN
    /\ edges \in Nat /\ starts \in Nat

(* observer_start does not tell whether the thread waits, and the thread
   consumes one start per watch, leaves on ACC and resets its seconds apart:
   a start given with ACC off is never lost as long as ACC stays off. *)
NightWatched ==
    due => sleep_observer_wait > 0 \/ observer \notin {"top", "wait"}

(* The observer relaxes every lock on the strength of a look at ACC that may
   be old by then: the lock ACC_ON takes is never missing while ACC is on,
   unless ACC came on after the last look that found it off. *)
LockLostOnlyInRace ==
    acc_flag /\ edges > 0 /\ handler = "idle" /\ "rmtctrl_wakelock" \notin locks
        => overtaken

(* The count and the lock of lidbg_pm0 are changed one after the other, by
   several writers, and the observer relaxes the lock without the count: once
   every user has given back what it took, the lock is not left active. *)
UserLockGivenBack ==
    (\A u \in Users : user[u] = "free") => "user_wakelock" \notin locks

(* No wake lock keeps the unit awake for ever with ACC off: whatever the
   suspends, late starts and lost resets of the seconds, a watch that is due
   comes to relax every lock or to end it all, unless ACC comes on or the unit
   suspends by itself. *)
StuckLocksEnd ==
    due ~> \/ ~due
           \/ power # "up"
           \/ observer = "force" /\ todo = {}
=============================================================================
