--------------------------- MODULE PowerManagerProofs --------------------------
(***************************************************************************)
(* Proofs about the two small parts of the power management, each for      *)
(* itself, for they share no variable.  PowerKey, the staged power manager *)
(* of lidbg_powerkey.c, for any number of blanks and suspends: it posts its *)
(* last status, keeps acc_flag with the stage and leaves no stage in between *)
(* without something on its way.  PmObserver, thread_observer of lidbg_pm.c, *)
(* for every timetable, set of users and bound.                            *)
(***************************************************************************)
EXTENDS PowerKey, PmObserver, FiniteSetTheorems, TLAPS

----------------------------------------------------------------------------
(* PowerKey. *)

TimerLabels  == {"idle", "t_test", "t_inc", "t_complete"}
FbLabels     == {"idle", "s_test", "s_set", "r_off", "r_down", "r_fastboot", "r_android",
                 "r_system", "r_del_on", "r_set_on", "r_del_up", "r_set_up", "r_set_android",
                 "fb_complete"}
WorkerLabels == {"idle", "w_fifo", "w_switch", "w_acc", "w_lock", "w_write", "w_arm",
                 "w_request"}
GpioLabels   == {"idle", "g_poll", "g_arm"}
UserLabels   == {"idle", "u_unlock"}

(* Who is where; past the switch, the case taken is the one of the label.  *)
PcInv ==
    /\ pc["timer"] \in TimerLabels /\ pc["fb"] \in FbLabels
    /\ pc["worker"] \in WorkerLabels
    /\ pc["gpio"] \in GpioLabels /\ pc["user"] \in UserLabels
    /\ pc["worker"] \in {"w_acc", "w_lock", "w_write", "w_arm"} => case \in Arming
    /\ pc["worker"] = "w_request" => case = FASTBOOT_REQUEST

TypeInv == TypeOK /\ PcInv

(* A store to `status' that the worker has not read yet: every store is    *)
(* followed by a completion of its own, and a completion by a read.        *)
Pending == \/ wake > 0 \/ pc["worker"] = "w_fifo"
           \/ pc["timer"] = "t_complete" \/ pc["fb"] = "fb_complete"

(* With no store pending, all that the worker has read is up to date.      *)
ReadInv ==
    ~Pending => /\ posted # -1 /\ ~lost => posted = status
                /\ pc["worker"] # "w_switch" => case = status

(* acc_flag is the one of the case taken, once it has been stored.         *)
FlagOf(stage) == IF stage \in UpStages THEN "ON" ELSE "OFF"
FlagInv ==
    (posted # -1 /\ pc["worker"] \notin {"w_fifo", "w_switch", "w_acc"} /\ case \in Arming) =>
        accFlag = FlagOf(case)

(* The stages that are not meant to last. *)
Passing == (Arming \ {SCREEN_ON}) \cup {FASTBOOT_REQUEST}

(* What StageWillBeLeft leaves out: the worker itself is on its way.       *)
OnTheWay ==
    \/ armed
    \/ pc["timer"] \in {"t_test", "t_inc"}
    \/ pc["fb"] \in {"r_set_on", "r_set_up", "r_set_android"}
    \/ pc["worker"] \notin {"idle", "w_fifo"}
    \/ status = FASTBOOT_REQUEST /\ (request > 0 \/ pc["gpio"] # "idle")
LeaveInv == (~Pending /\ status \in Passing) => OnTheWay

Inv == TypeInv /\ ReadInv /\ FlagInv /\ LeaveInv

----------------------------------------------------------------------------
LEMMA InitType == Init => TypeInv
<1> SUFFICES ASSUME Init PROVE TypeInv
  OBVIOUS
<1> USE BoundsAssumption DEF Init
<1>1. TypeOK
  <2>1. pc \in [Actors -> Labels]
    BY DEF Labels
  <2>3. FifoTypeOK
    BY CapacityAssumption DEF FifoTypeOK
  <2>2. armed \in BOOLEAN /\ lost \in BOOLEAN /\ asked \in BOOLEAN /\ pmLock \in BOOLEAN /\ suspended \in BOOLEAN
    BY Zenon
  <2>. QED BY <2>1, <2>2, <2>3 DEF TypeOK, SCREEN_ON
<1>2. PcInv
  BY DEF PcInv, Actors, TimerLabels, FbLabels, WorkerLabels, GpioLabels, UserLabels
<1>. QED BY <1>1, <1>2 DEF TypeInv

(* The queue, apart: three steps change it. *)
LEMMA StepFifoType == TypeInv /\ [Next]_vars => FifoTypeOK'
<1> SUFFICES ASSUME TypeOK, [Next]_vars PROVE FifoTypeOK'
  BY DEF TypeInv
<1>1. fifo \in Seq(Nat) /\ Len(fifo) <= Capacity /\ status \in Nat /\ Capacity \in Nat
  BY CapacityAssumption DEF TypeOK, FifoTypeOK
<1>2. CASE powerkey_fifo_in
  <2>1. fifo' = fifo \/ (Len(fifo) < Capacity /\ fifo' = Append(fifo, status))
    BY <1>2 DEF powerkey_fifo_in
  <2>. QED BY <1>1, <2>1 DEF FifoTypeOK
<1>3. CASE powerkey_read
  <2>1. fifo # <<>> /\ fifo' = Tail(fifo)
    BY <1>3 DEF powerkey_read
  <2>. QED BY <1>1, <2>1 DEF FifoTypeOK
<1>4. CASE fifo' = fifo
  BY <1>1, <1>4 DEF FifoTypeOK
<1>5. powerkey_fifo_in \/ powerkey_read \/ fifo' = fifo
  BY DEF Next, TimerFires, SetTimer, powerkey_suspend_timer, Branch, Store, Complete, FbPowerdown,
         FbUnblank, FbEvent, powerkey_suspend, powerkey_resume, thread_powerkey_func, WaitForWake,
         Switch, SetAcc, pm_write, ScreenOnLock, SystemStatus, RequestFastboot,
         thread_gpio_powerkey_status, WaitForRequest, GotoSleep, GotoSleepUnlock, Suspend, Wake,
         vars, fifoVars
<1>. QED BY <1>2, <1>3, <1>4, <1>5

LEMMA StepType == TypeInv /\ [Next]_vars => TypeInv'
<1> SUFFICES ASSUME TypeInv, [Next]_vars PROVE TypeInv'
  OBVIOUS
<1>0. FifoTypeOK'
  BY StepFifoType
<1> USE <1>0
<1> USE BoundsAssumption
    DEF TypeInv, TypeOK, PcInv, Actors, Labels, TimerLabels, FbLabels, WorkerLabels,
        GpioLabels, UserLabels, Go, Step, fifoVars, pmVars, Arming, DownStages, UpStages,
        SCREEN_OFF, DEVICE_DOWN, FASTBOOT_REQUEST, ANDROID_DOWN, GOTO_SLEEP, KERNEL_DOWN,
        KERNEL_UP, ANDROID_UP, DEVICE_UP, SCREEN_ON, Levels
<1>1. CASE TimerFires
  <2>1. armed' \in BOOLEAN
    BY <1>1, Zenon DEF TimerFires, SetTimer
  <2>. QED BY <1>1, <2>1 DEF TimerFires, SetTimer
<1>2. CASE powerkey_suspend_timer
  BY <1>2 DEF powerkey_suspend_timer, Branch, Store, Complete
<1>3. CASE FbPowerdown
  BY <1>3 DEF FbPowerdown, FbEvent
<1>4. CASE FbUnblank
  BY <1>4 DEF FbUnblank, FbEvent
<1>5. CASE powerkey_suspend
  BY <1>5 DEF powerkey_suspend, Branch, Store, Complete
<1>6. CASE powerkey_resume
  <2>1. CASE \E to \in FbLabels \ {"fb_complete"} : \E from \in FbLabels : Branch("fb", from, to)
    BY <2>1 DEF Branch
  <2>2. CASE \E from, to \in FbLabels : \E value \in Nat : Store("fb", from, to, value)
    BY <2>2 DEF Store
  <2>3. CASE \E from, to \in FbLabels : SetTimer("fb", from, to, FALSE)
    <3>1. armed' \in BOOLEAN
      BY <2>3, Zenon DEF SetTimer
    <3>. QED BY <2>3, <3>1 DEF SetTimer
  <2>4. CASE Complete("fb", "fb_complete")
    BY <2>4 DEF Complete
  <2>. QED BY <1>6, <2>1, <2>2, <2>3, <2>4 DEF powerkey_resume
<1>7. CASE WaitForWake
  BY <1>7 DEF WaitForWake
<1>8. CASE powerkey_fifo_in
  <2>1. lost' \in BOOLEAN
    BY <1>8, Zenon DEF powerkey_fifo_in
  <2>2. posted' = posted \/ posted' = status
    BY <1>8 DEF powerkey_fifo_in
  <2>3. Step("worker", "w_fifo", "w_switch")
        /\ UNCHANGED <<status, wake, request, armed, case, asked, accFlag, pmVars, blanks>>
    BY <1>8 DEF powerkey_fifo_in
  <2>. QED BY <2>1, <2>2, <2>3
<1>9. CASE Switch
  BY <1>9 DEF Switch
<1>10. CASE SetAcc
  <2>1. accFlag' \in {"ON", "OFF"}
    BY <1>10 DEF SetAcc
  <2>2. PICK to \in {"w_lock", "w_write"} : Go("worker", "w_acc", to)
    BY <1>10 DEF SetAcc
  <2>. QED BY <1>10, <2>1, <2>2 DEF SetAcc
<1>11. CASE pm_write
  <2>1. CASE ScreenOnLock
    <3>1. pmLock' \in BOOLEAN
      BY <2>1, Zenon DEF ScreenOnLock
    <3>. QED BY <2>1, <3>1 DEF ScreenOnLock
  <2>2. CASE SystemStatus
    BY <2>2 DEF SystemStatus
  <2>. QED BY <1>11, <2>1, <2>2 DEF pm_write
<1>12. CASE RequestFastboot
  BY <1>12 DEF RequestFastboot
<1>13. CASE SetTimer("worker", "w_arm", "idle", TRUE)
  <2>1. armed' \in BOOLEAN
    BY <1>13, Zenon DEF SetTimer
  <2>. QED BY <1>13, <2>1 DEF SetTimer
<1>14. CASE thread_gpio_powerkey_status
  <2>1. CASE WaitForRequest
    BY <2>1 DEF WaitForRequest
  <2>2. CASE Branch("gpio", "g_poll", "g_arm")
    BY <2>2 DEF Branch
  <2>3. CASE Branch("gpio", "g_poll", "idle")
    BY <2>3 DEF Branch
  <2>4. CASE SetTimer("gpio", "g_arm", "idle", TRUE)
    <3>1. armed' \in BOOLEAN
      BY <2>4, Zenon DEF SetTimer
    <3>. QED BY <2>4, <3>1 DEF SetTimer
  <2>. QED BY <1>14, <2>1, <2>2, <2>3, <2>4, Zenon DEF thread_gpio_powerkey_status
<1>15. CASE GotoSleep
  <2>1. asked' \in BOOLEAN
    BY <1>15, Zenon DEF GotoSleep
  <2>. QED BY <1>15, <2>1 DEF GotoSleep
<1>16. CASE GotoSleepUnlock
  <2>1. pmLock' \in BOOLEAN
    BY <1>16, Zenon DEF GotoSleepUnlock
  <2>. QED BY <1>16, <2>1 DEF GotoSleepUnlock
<1>17. CASE Suspend
  <2>1. suspended' \in BOOLEAN
    BY <1>17, Zenon DEF Suspend
  <2>2. system' \in 0 .. SCREEN_ON /\ suspends' \in 0 .. MaxSuspends
    BY <1>17 DEF Suspend
  <2>3. UNCHANGED <<status, wake, request, armed, case, fifoVars, accFlag, pmLock, pc,
                    blanks>>
    BY <1>17, Zenon DEF Suspend
  <2>. QED BY <2>1, <2>2, <2>3
<1>18. CASE Wake
  <2>1. suspended' \in BOOLEAN
    BY <1>18, Zenon DEF Wake
  <2>. QED BY <1>18, <2>1 DEF Wake
<1>19. CASE UNCHANGED vars
  BY <1>19 DEF vars, fifoVars, pmVars
<1>20. CASE powerkey_read
  <2>1. asked' \in BOOLEAN
    BY <1>20, Zenon DEF powerkey_read
  <2>2. UNCHANGED <<status, wake, request, armed, case, posted, lost, accFlag, pmVars, pc, blanks>>
    BY <1>20 DEF powerkey_read
  <2>. QED BY <2>1, <2>2
<1>. QED BY <1>1, <1>2, <1>3, <1>4, <1>5, <1>6, <1>7, <1>8, <1>9, <1>10, <1>11, <1>12, <1>13,
            <1>14, <1>15, <1>16, <1>17, <1>18, <1>19, <1>20
     DEF Next, thread_powerkey_func

LEMMA StepRead == TypeInv /\ ReadInv /\ [Next]_vars => ReadInv'
<1> SUFFICES ASSUME TypeInv, ReadInv, [Next]_vars PROVE ReadInv'
  OBVIOUS
<1> USE DEF TypeInv, TypeOK, PcInv, ReadInv, Pending, Actors, TimerLabels, FbLabels,
            WorkerLabels, GpioLabels, UserLabels, Go, Step, fifoVars, pmVars
<1>1. CASE TimerFires
  BY <1>1 DEF TimerFires, SetTimer
<1>2. CASE powerkey_suspend_timer
  BY <1>2 DEF powerkey_suspend_timer, Branch, Store, Complete
<1>3. CASE FbPowerdown
  BY <1>3 DEF FbPowerdown, FbEvent
<1>4. CASE FbUnblank
  BY <1>4 DEF FbUnblank, FbEvent
<1>5. CASE powerkey_suspend
  BY <1>5 DEF powerkey_suspend, Branch, Store, Complete
<1>6. CASE powerkey_resume
  BY <1>6 DEF powerkey_resume, Branch, Store, SetTimer, Complete
<1>7. CASE WaitForWake
  BY <1>7 DEF WaitForWake
<1>8. CASE powerkey_fifo_in
  <2>1. lost' \/ posted' = status
    BY <1>8, Zenon DEF powerkey_fifo_in
  <2>2. Step("worker", "w_fifo", "w_switch")
        /\ UNCHANGED <<status, wake, request, armed, case, asked, accFlag, pmVars, blanks>>
    BY <1>8 DEF powerkey_fifo_in
  <2>. QED BY <2>1, <2>2
<1>9. CASE Switch
  BY <1>9 DEF Switch
<1>10. CASE SetAcc
  BY <1>10 DEF SetAcc
<1>11. CASE pm_write
  BY <1>11 DEF pm_write, ScreenOnLock, SystemStatus
<1>12. CASE RequestFastboot
  BY <1>12 DEF RequestFastboot
<1>13. CASE SetTimer("worker", "w_arm", "idle", TRUE)
  BY <1>13 DEF SetTimer
<1>14. CASE thread_gpio_powerkey_status
  BY <1>14 DEF thread_gpio_powerkey_status, WaitForRequest, Branch, SetTimer
<1>15. CASE GotoSleep
  BY <1>15 DEF GotoSleep
<1>16. CASE GotoSleepUnlock
  BY <1>16 DEF GotoSleepUnlock
<1>17. CASE Suspend
  BY <1>17 DEF Suspend
<1>18. CASE Wake
  BY <1>18 DEF Wake
<1>19. CASE UNCHANGED vars
  BY <1>19 DEF vars, fifoVars, pmVars
<1>20. CASE powerkey_read
  BY <1>20 DEF powerkey_read
<1>. QED BY <1>1, <1>2, <1>3, <1>4, <1>5, <1>6, <1>7, <1>8, <1>9, <1>10, <1>11, <1>12, <1>13,
            <1>14, <1>15, <1>16, <1>17, <1>18, <1>19, <1>20
     DEF Next, thread_powerkey_func

LEMMA StepFlag == TypeInv /\ FlagInv /\ [Next]_vars => FlagInv'
<1> SUFFICES ASSUME TypeInv, FlagInv, [Next]_vars PROVE FlagInv'
  OBVIOUS
<1> USE DEF TypeInv, TypeOK, PcInv, FlagInv, FlagOf, Actors, TimerLabels, FbLabels,
            WorkerLabels, GpioLabels, UserLabels, Go, Step, fifoVars, pmVars
<1>1. CASE TimerFires
  BY <1>1 DEF TimerFires, SetTimer
<1>2. CASE powerkey_suspend_timer
  BY <1>2 DEF powerkey_suspend_timer, Branch, Store, Complete
<1>3. CASE FbPowerdown
  BY <1>3 DEF FbPowerdown, FbEvent
<1>4. CASE FbUnblank
  BY <1>4 DEF FbUnblank, FbEvent
<1>5. CASE powerkey_suspend
  BY <1>5 DEF powerkey_suspend, Branch, Store, Complete
<1>6. CASE powerkey_resume
  BY <1>6 DEF powerkey_resume, Branch, Store, SetTimer, Complete
<1>7. CASE WaitForWake
  BY <1>7 DEF WaitForWake
<1>8. CASE powerkey_fifo_in
  BY <1>8 DEF powerkey_fifo_in
<1>9. CASE Switch
  BY <1>9 DEF Switch
<1>10. CASE SetAcc
  BY <1>10 DEF SetAcc
<1>11. CASE pm_write
  BY <1>11 DEF pm_write, ScreenOnLock, SystemStatus
<1>12. CASE RequestFastboot
  BY <1>12 DEF RequestFastboot
<1>13. CASE SetTimer("worker", "w_arm", "idle", TRUE)
  BY <1>13 DEF SetTimer
<1>14. CASE thread_gpio_powerkey_status
  BY <1>14 DEF thread_gpio_powerkey_status, WaitForRequest, Branch, SetTimer
<1>15. CASE GotoSleep
  BY <1>15 DEF GotoSleep
<1>16. CASE GotoSleepUnlock
  BY <1>16 DEF GotoSleepUnlock
<1>17. CASE Suspend
  BY <1>17 DEF Suspend
<1>18. CASE Wake
  BY <1>18 DEF Wake
<1>19. CASE UNCHANGED vars
  BY <1>19 DEF vars, fifoVars, pmVars
<1>20. CASE powerkey_read
  BY <1>20 DEF powerkey_read
<1>. QED BY <1>1, <1>2, <1>3, <1>4, <1>5, <1>6, <1>7, <1>8, <1>9, <1>10, <1>11, <1>12, <1>13,
            <1>14, <1>15, <1>16, <1>17, <1>18, <1>19, <1>20
     DEF Next, thread_powerkey_func

LEMMA StepLeave == TypeInv /\ ReadInv /\ LeaveInv /\ [Next]_vars => LeaveInv'
<1> SUFFICES ASSUME TypeInv, ReadInv, LeaveInv, [Next]_vars PROVE LeaveInv'
  OBVIOUS
<1> USE DEF TypeInv, TypeOK, PcInv, ReadInv, LeaveInv, OnTheWay, Pending, Passing, Actors,
            TimerLabels, FbLabels, WorkerLabels, GpioLabels, UserLabels, Go, Step, fifoVars, pmVars
<1>1. CASE TimerFires
  BY <1>1 DEF TimerFires, SetTimer
<1>2. CASE powerkey_suspend_timer
  <2>1. CASE Branch("timer", "t_test", IF status # SCREEN_ON THEN "t_inc" ELSE "idle")
    <3>1. CASE status = SCREEN_ON
      BY <2>1, <3>1 DEF Branch, SCREEN_ON, FASTBOOT_REQUEST
    <3>2. CASE status # SCREEN_ON
      BY <2>1, <3>2 DEF Branch
    <3>. QED BY <3>1, <3>2
  <2>2. CASE Store("timer", "t_inc", "t_complete", status + 1)
    BY <2>2 DEF Store
  <2>3. CASE Complete("timer", "t_complete")
    BY <2>3 DEF Complete
  <2>. QED BY <1>2, <2>1, <2>2, <2>3 DEF powerkey_suspend_timer
<1>3. CASE FbPowerdown
  BY <1>3 DEF FbPowerdown, FbEvent
<1>4. CASE FbUnblank
  BY <1>4 DEF FbUnblank, FbEvent
<1>5. CASE powerkey_suspend
  BY <1>5 DEF powerkey_suspend, Branch, Store, Complete
<1>6. CASE powerkey_resume
  BY <1>6 DEF powerkey_resume, Branch, Store, SetTimer, Complete
<1>7. CASE WaitForWake
  BY <1>7 DEF WaitForWake
<1>8. CASE powerkey_fifo_in
  BY <1>8 DEF powerkey_fifo_in
<1>9. CASE Switch
  BY <1>9 DEF Switch
<1>10. CASE SetAcc
  BY <1>10 DEF SetAcc
<1>11. CASE pm_write
  BY <1>11 DEF pm_write, ScreenOnLock, SystemStatus
<1>12. CASE RequestFastboot
  BY <1>12 DEF RequestFastboot
<1>13. CASE SetTimer("worker", "w_arm", "idle", TRUE)
  BY <1>13 DEF SetTimer
<1>14. CASE thread_gpio_powerkey_status
  BY <1>14 DEF thread_gpio_powerkey_status, WaitForRequest, Branch, SetTimer
<1>15. CASE GotoSleep
  BY <1>15 DEF GotoSleep
<1>16. CASE GotoSleepUnlock
  BY <1>16 DEF GotoSleepUnlock
<1>17. CASE Suspend
  BY <1>17 DEF Suspend
<1>18. CASE Wake
  BY <1>18 DEF Wake
<1>19. CASE UNCHANGED vars
  BY <1>19 DEF vars, fifoVars, pmVars
<1>20. CASE powerkey_read
  BY <1>20 DEF powerkey_read
<1>. QED BY <1>1, <1>2, <1>3, <1>4, <1>5, <1>6, <1>7, <1>8, <1>9, <1>10, <1>11, <1>12, <1>13,
            <1>14, <1>15, <1>16, <1>17, <1>18, <1>19, <1>20
     DEF Next, thread_powerkey_func

----------------------------------------------------------------------------
LEMMA InitInv == Init => Inv
<1> SUFFICES ASSUME Init PROVE Inv
  OBVIOUS
<1>1. TypeInv
  BY InitType
<1>2. ReadInv /\ FlagInv
  BY DEF Init, ReadInv, FlagInv
<1>3. LeaveInv
  BY DEF Init, LeaveInv, Passing, SCREEN_ON, FASTBOOT_REQUEST
<1>. QED BY <1>1, <1>2, <1>3 DEF Inv

(* The inductive invariant holds in every reachable state. *)
LEMMA Invariance == Spec => []Inv
<1>1. Inv /\ [Next]_vars => Inv'
  BY StepType, StepRead, StepFlag, StepLeave DEF Inv
<1>. QED BY InitInv, <1>1, PTL DEF Spec

(* Type correctness: statuses, completions, flags and program counters of  *)
(* lidbg_powerkey.c stay in their ranges, and system_status is a stage.    *)
THEOREM TypeCorrect == Spec => []TypeOK
<1>1. Inv => TypeOK
  BY DEF Inv, TypeInv
<1>. QED BY Invariance, <1>1, PTL

(* Once every store to `status' is answered by thread_powerkey_func, the   *)
(* last status given to user space is `status'.                            *)
THEOREM LastStatus == Spec => []LastStatusPosted
<1>1. Inv => LastStatusPosted
  BY DEF Inv, TypeInv, TypeOK, ReadInv, Pending, LastStatusPosted, Delivered
<1>. QED BY Invariance, <1>1, PTL

(* Once every store is answered, acc_flag is the one of the stage.         *)
THEOREM FlagFollows == Spec => []FlagFollowsStage
<1>1. Inv => FlagFollowsStage
  BY DEF Inv, TypeInv, TypeOK, ReadInv, FlagInv, FlagOf, Pending, FlagFollowsStage, Delivered
<1>. QED BY Invariance, <1>1, PTL

(* No stage in between is left without a timer, handler or thread on its   *)
(* way to leave it, for all interleavings of powerkey_resume with both     *)
(* threads.                                                                *)
THEOREM NoDeadEnd == Spec => []StageWillBeLeft
<1>1. Inv => StageWillBeLeft
  BY DEF Inv, TypeInv, TypeOK, LeaveInv, Pending, OnTheWay, Passing, StageWillBeLeft, Delivered
<1>. QED BY Invariance, <1>1, PTL

----------------------------------------------------------------------------
(* PmObserver. *)

(* A watch is due only while ACC is off. *)
DueInv == due => ~acc_flag

(* What the observer acts on is still so, or ACC has come on since. *)
LookInv == observer \in Looked /\ acc_flag => overtaken

(* The handler is in the branch of acc_flag, and has the lock of ACC_ON from
   its first step on. *)
HandlerInv ==
    /\ handler \in {"lock", "screen_on"} => acc_flag
    /\ handler = "unlock" => ~acc_flag
    /\ acc_flag /\ edges > 0 /\ handler # "lock" /\ "rmtctrl_wakelock" \notin locks
          => overtaken

(* Those the count counts: from the increment of their lock to the decrement
   of their unlock. *)
Counted == {u \in Users : user[u] \in {"locking", "held"}}

UserInv ==
    /\ user_lock_cnt = Cardinality(Counted)
    /\ "user_wakelock" \in locks =>
          user_lock_cnt > 0 \/ \E u \in Users : user[u] = "unlocking"

ObserverInv == ObserverTypeOK /\ DueInv /\ NightWatched /\ LookInv /\ HandlerInv /\ UserInv

----------------------------------------------------------------------------
(* Who is added to the count, and who leaves it. *)

LEMMA Joins ==
    ASSUME ObserverTypeOK, NEW u \in Users, user[u] = "free",
           user' = [user EXCEPT ![u] = "locking"]
    PROVE  /\ Counted' = Counted \cup {u} /\ u \notin Counted
           /\ Cardinality(Counted') = Cardinality(Counted) + 1
<1>1. Counted' = Counted \cup {u} /\ u \notin Counted
      BY DEF ObserverTypeOK, Counted
<1>2. IsFiniteSet(Counted)
      BY PmObserverAssumption, FS_Subset DEF Counted
<1>3. QED BY <1>1, <1>2, FS_AddElement

LEMMA Leaves ==
    ASSUME ObserverTypeOK, NEW u \in Users, NEW l \in {"free", "unlocking"}, user[u] = "held",
           user' = [user EXCEPT ![u] = l]
    PROVE  /\ Counted' = Counted \ {u} /\ u \in Counted
           /\ Cardinality(Counted') = Cardinality(Counted) - 1
<1>1. Counted' = Counted \ {u} /\ u \in Counted
      BY DEF ObserverTypeOK, Counted
<1>2. IsFiniteSet(Counted)
      BY PmObserverAssumption, FS_Subset DEF Counted
<1>3. QED BY <1>1, <1>2, FS_RemoveElement

LEMMA Stays ==
    ASSUME ObserverTypeOK, NEW u \in Users, NEW l \in {"free", "held"},
           user[u] = (IF l = "held" THEN "locking" ELSE "unlocking"),
           user' = [user EXCEPT ![u] = l]
    PROVE  Counted' = Counted
BY DEF ObserverTypeOK, Counted

(* A user that is counted shows in the count. *)
LEMMA CountedShows ==
    ASSUME ObserverTypeOK, UserInv
    PROVE  /\ user_lock_cnt \in Nat
           /\ Counted # {} <=> user_lock_cnt > 0
<1>1. IsFiniteSet(Counted)
      BY PmObserverAssumption, FS_Subset DEF Counted
<1>2. Cardinality(Counted) \in Nat /\ (Cardinality(Counted) = 0 <=> Counted = {})
      BY <1>1, FS_CardinalityType, FS_EmptySet
<1>3. QED BY <1>2 DEF UserInv

----------------------------------------------------------------------------

LEMMA ObserverInitInv == ObserverInit => ObserverInv
<1>1. SUFFICES ASSUME ObserverInit PROVE ObserverInv
      OBVIOUS
<1>2. ObserverTypeOK
  <2>1. acc_flag \in BOOLEAN /\ due \in BOOLEAN /\ overtaken \in BOOLEAN
        BY <1>1, Zenon DEF ObserverInit
  <2>2. QED BY <1>1, <2>1 DEF ObserverInit, ObserverTypeOK, Locks, Looked
<1>3. UserInv
  <2>1. Counted = {}
        BY <1>1 DEF ObserverInit, Counted
  <2>2. QED BY <1>1, <2>1, FS_EmptySet DEF ObserverInit, UserInv
<1>4. QED
      BY <1>1, <1>2, <1>3
      DEF ObserverInit, ObserverInv, DueInv, NightWatched, LookInv, Looked, HandlerInv

LEMMA ObserverTypeStep == ObserverTypeOK /\ [ObserverNext]_observerVars => ObserverTypeOK'
<1>1. SUFFICES ASSUME ObserverTypeOK, [ObserverNext]_observerVars PROVE ObserverTypeOK'
      OBVIOUS
<1>a. ASSUME AccOn
      PROVE  acc_flag' \in BOOLEAN /\ due' \in BOOLEAN /\ overtaken' \in BOOLEAN
  <2>1. acc_flag' = TRUE /\ due' = FALSE /\ overtaken' = (observer \in Looked)
        BY <1>a, Zenon DEF AccOn
  <2>2. (observer \in Looked) \in BOOLEAN
        OBVIOUS
  <2>3. QED BY <2>1, <2>2, Zenon
<1> USE <1>1, PmObserverAssumption
    DEF ObserverTypeOK, Locks, Looked, kernel, thread, writers, history
<1>2. CASE AccOn
  <2>1. acc_flag' \in BOOLEAN /\ due' \in BOOLEAN /\ overtaken' \in BOOLEAN
        BY <1>2, <1>a, Zenon
  <2>2. QED BY <1>2, <2>1 DEF AccOn
<1>3. CASE TakeLock BY <1>3 DEF TakeLock
<1>4. CASE screen_on BY <1>4 DEF screen_on
<1>5. CASE AccOff
  <2>1. acc_flag' \in BOOLEAN /\ overtaken' \in BOOLEAN
        BY <1>5, Zenon DEF AccOff
  <2>2. QED BY <1>5, <2>1 DEF AccOff
<1>6. CASE ReleaseLock BY <1>6 DEF ReleaseLock
<1>7. CASE android_down BY <1>7 DEF android_down, observer_start
<1>8. CASE android_down_unlock BY <1>8 DEF android_down_unlock
<1>9. CASE ws_pm BY <1>9 DEF ws_pm, observer_start
<1>10. ASSUME NEW u \in Users, lock_count(u) PROVE ObserverTypeOK' BY <1>10 DEF lock_count, At
<1>11. ASSUME NEW u \in Users, lock(u) PROVE ObserverTypeOK' BY <1>11 DEF lock, At
<1>12. ASSUME NEW u \in Users, unlock_count(u) PROVE ObserverTypeOK'
       BY <1>12 DEF unlock_count, At
<1>13. ASSUME NEW u \in Users, unlock(u) PROVE ObserverTypeOK' BY <1>13 DEF unlock, At
<1>14. CASE Top BY <1>14 DEF Top, Moves, Others
<1>15. CASE Wait BY <1>15 DEF Wait, Moves, Others
<1>16. CASE Look BY <1>16 DEF Look, Moves, Others
<1>17. CASE Load BY <1>17 DEF Load, Moves, Others
<1>18. CASE StoreSeconds BY <1>18 DEF StoreSeconds, Moves, Others
<1>19. ASSUME NEW l \in Locks, Relax(l) PROVE ObserverTypeOK' BY <1>19 DEF Relax, Moves, Others
<1>20. CASE Relaxed BY <1>20 DEF Relaxed, Moves, Others
<1>21. CASE SuspendEnter BY <1>21 DEF SuspendEnter, Others
<1>22. CASE SuspendExit BY <1>22 DEF SuspendExit, Others
<1>23. CASE UNCHANGED observerVars BY <1>23 DEF observerVars
<1>24. QED
       BY <1>2, <1>3, <1>4, <1>5, <1>6, <1>7, <1>8, <1>9, <1>10, <1>11, <1>12, <1>13, <1>14,
          <1>15, <1>16, <1>17, <1>18, <1>19, <1>20, <1>21, <1>22, <1>23
       DEF ObserverNext, thread_observer

----------------------------------------------------------------------------

(* A step of a user touches only the lock, the count and that user. *)
LEMMA UserSteps ==
    ASSUME ObserverTypeOK, UserInv, NEW u \in Users,
           lock_count(u) \/ lock(u) \/ unlock_count(u) \/ unlock(u)
    PROVE  UserInv'
<1> USE DEF At
<1>0. user_lock_cnt \in Nat /\ (Counted # {} <=> user_lock_cnt > 0)
      BY CountedShows
<1>1. CASE lock_count(u)
  <2>1. Cardinality(Counted') = Cardinality(Counted) + 1
        BY <1>1, Joins DEF lock_count
  <2>2. user_lock_cnt' = user_lock_cnt + 1
        BY <1>1 DEF lock_count
  <2>3. QED BY <1>0, <2>1, <2>2 DEF UserInv
<1>2. CASE lock(u)
  <2>1. Counted' = Counted
        BY <1>2, Stays DEF lock
  <2>2. u \in Counted
        BY <1>2 DEF lock, Counted
  <2>3. user_lock_cnt' = user_lock_cnt
        BY <1>2 DEF lock
  <2>4. QED BY <1>0, <2>1, <2>2, <2>3 DEF UserInv
<1>3. CASE unlock_count(u)
  <2> DEFINE l == IF user_lock_cnt <= 1 THEN "unlocking" ELSE "free"
  <2>1. Cardinality(Counted') = Cardinality(Counted) - 1
        BY <1>3, Leaves DEF unlock_count
  <2>2. user_lock_cnt' = user_lock_cnt - 1 /\ user'[u] = l
        BY <1>3 DEF unlock_count, ObserverTypeOK
  <2>3. user_lock_cnt' > 0 \/ user'[u] = "unlocking"
        BY <1>0, <2>2
  <2>4. QED BY <2>1, <2>2, <2>3 DEF UserInv
<1>4. CASE unlock(u)
  <2>1. Counted' = Counted
        BY <1>4, Stays DEF unlock
  <2>2. "user_wakelock" \notin locks' /\ user_lock_cnt' = user_lock_cnt
        BY <1>4 DEF unlock
  <2>3. QED BY <2>1, <2>2 DEF UserInv
<1>5. QED BY <1>1, <1>2, <1>3, <1>4

(* No other step adds the user's lock. *)
LEMMA UserKept ==
    ASSUME UserInv, UNCHANGED <<user, user_lock_cnt>>,
           "user_wakelock" \in locks' => "user_wakelock" \in locks
    PROVE  UserInv'
BY DEF UserInv, Counted

LEMMA ObserverNextStep ==
    ASSUME ObserverInv, [ObserverNext]_observerVars
    PROVE  ObserverInv'
<1>1. ObserverTypeOK'
      BY ObserverTypeStep DEF ObserverInv
<1> SUFFICES (DueInv /\ NightWatched /\ LookInv /\ HandlerInv /\ UserInv)'
      BY <1>1 DEF ObserverInv
<1> DEFINE Goal == (DueInv /\ NightWatched /\ LookInv /\ HandlerInv /\ UserInv)'
<1> USE DEF ObserverInv, ObserverTypeOK, DueInv, NightWatched, LookInv, Looked, HandlerInv,
            kernel, thread, writers, history
<1>2. CASE AccOn BY <1>2, UserKept DEF AccOn
<1>3. CASE TakeLock BY <1>3, UserKept DEF TakeLock
<1>4. CASE screen_on BY <1>4, UserKept DEF screen_on
<1>5. CASE AccOff BY <1>5, UserKept DEF AccOff
<1>6. CASE ReleaseLock BY <1>6, UserKept DEF ReleaseLock
<1>7. CASE android_down BY <1>7, UserKept DEF android_down, observer_start
<1>8. CASE android_down_unlock BY <1>8, UserKept DEF android_down_unlock
<1>9. CASE ws_pm BY <1>9, UserKept DEF ws_pm, observer_start
<1>10. ASSUME NEW u \in Users, lock_count(u) \/ lock(u) \/ unlock_count(u) \/ unlock(u)
       PROVE  Goal
  <2>1. UserInv'
        BY <1>10, UserSteps
  <2>2. /\ UNCHANGED <<due, acc_flag, sleep_observer_wait, observer, overtaken, handler, edges>>
        /\ "rmtctrl_wakelock" \in locks => "rmtctrl_wakelock" \in locks'
        BY <1>10 DEF lock_count, lock, unlock_count, unlock
  <2>3. QED BY <2>1, <2>2
<1>14. CASE Top BY <1>14, UserKept DEF Top, Moves, Others
<1>15. CASE Wait BY <1>15, UserKept DEF Wait, Moves, Others
<1>16. CASE Look BY <1>16, UserKept DEF Look, Moves, Others
<1>17. CASE Load BY <1>17, UserKept DEF Load, Moves, Others
<1>18. CASE StoreSeconds BY <1>18, UserKept DEF StoreSeconds, Moves, Others
<1>19. ASSUME NEW l \in Locks, Relax(l) PROVE Goal
       BY <1>19, UserKept DEF Relax, Moves, Others
<1>20. CASE Relaxed BY <1>20, UserKept DEF Relaxed, Moves, Others
<1>21. CASE SuspendEnter BY <1>21, UserKept DEF SuspendEnter, Others
<1>22. CASE SuspendExit BY <1>22, UserKept DEF SuspendExit, Others
<1>23. CASE UNCHANGED observerVars BY <1>23, UserKept DEF observerVars
<1>24. QED
       BY <1>2, <1>3, <1>4, <1>5, <1>6, <1>7, <1>8, <1>9, <1>10, <1>14, <1>15, <1>16, <1>17,
          <1>18, <1>19, <1>20, <1>21, <1>22, <1>23
       DEF ObserverNext, thread_observer

----------------------------------------------------------------------------

LEMMA ObserverInductive == ObserverSpec => []ObserverInv
<1>1. ObserverInit => ObserverInv
      BY ObserverInitInv
<1>2. ObserverInv /\ [ObserverNext]_observerVars => ObserverInv'
      BY ObserverNextStep
<1>3. QED BY <1>1, <1>2, PTL DEF ObserverSpec

(* The variables have their types. *)
THEOREM ObserverTypeCorrect == ObserverSpec => []ObserverTypeOK
<1>1. ObserverInv => ObserverTypeOK
      BY DEF ObserverInv
<1>2. QED BY <1>1, ObserverInductive, PTL

(* A watch that is started with ACC off is not lost while ACC stays off. *)
THEOREM Watched == ObserverSpec => []NightWatched
<1>1. ObserverInv => NightWatched
      BY DEF ObserverInv
<1>2. QED BY <1>1, ObserverInductive, PTL

(* With ACC on the lock of ACC_ON is missing only if ACC came on behind the
   observer's last look. *)
THEOREM LockLost == ObserverSpec => []LockLostOnlyInRace
<1>1. ObserverInv => LockLostOnlyInRace
      BY DEF ObserverInv, HandlerInv, LockLostOnlyInRace
<1>2. QED BY <1>1, ObserverInductive, PTL

(* When every user has given its lock back, the lock is not active. *)
THEOREM GivenBack == ObserverSpec => []UserLockGivenBack
<1>1. ASSUME ObserverInv, \A u \in Users : user[u] = "free"
      PROVE  "user_wakelock" \notin locks
  <2>1. Counted = {} /\ ~ \E u \in Users : user[u] = "unlocking"
        BY <1>1 DEF Counted
  <2>2. user_lock_cnt \in Nat /\ ~(user_lock_cnt > 0)
        BY <1>1, <2>1, CountedShows DEF ObserverInv
  <2>3. QED BY <1>1, <2>1, <2>2 DEF ObserverInv, UserInv
<1>2. ObserverInv => UserLockGivenBack
      BY <1>1 DEF UserLockGivenBack
<1>3. QED BY <1>2, ObserverInductive, PTL
=============================================================================
