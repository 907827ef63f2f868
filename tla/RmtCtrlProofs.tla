---------------------------- MODULE RmtCtrlProofs ----------------------------
(***************************************************************************)
(* The safety properties of RmtCtrl for every value of its bounds.         *)
(*                                                                         *)
(* The argument, one lemma per layer:                                      *)
(*   TypeInv    types, which labels each actor may stand at, and the       *)
(*              counter read into a register by rmtctrl_pm_resume;         *)
(*   OriginInv  nothing runs before the ISR is added and an edge comes,    *)
(*              acc_flag is ON when the boot thread adds it, and is_fake   *)
(*              is set before the debug entry runs acc_status_handle;      *)
(*   EdgeInv    the line, acc_flag and the sample in acc_status_handle     *)
(*              differ only while something on its way will sample again;  *)
(*   PathInv    acc_flag, the notified state and the wake lock along the   *)
(*              two branches of acc_status_handle;                         *)
(*   SleepInv, StaleInv, AwakeInv   on top of these.                       *)
(***************************************************************************)
EXTENDS RmtCtrl, TLAPS

OnLabels == {"on_flag"} \cup OnPath
OffLabels == {"off_flag"} \cup OffPath

(* Where each actor may be. *)
PcInv ==
    /\ pc["boot"] \in {"idle", "b_first", "b_second", "b_force", "b_isr"}
    /\ pc["state"] \in {"idle"} \cup OnLabels \cup OffLabels
    /\ pc["dbg"] \in {"idle", "f_fake", "f_call"} \cup OnLabels \cup OffLabels
    /\ pc["timer"] \in {"idle", "t_check", "t_sleep", "t_arm"}
    /\ pc["fb"] \in {"idle", "s_device_down", "s_android_down", "s_pm", "r_android_up",
                     "r_device_up", "r_fork", "r_fake", "r_check", "r_arm"}
    /\ pc["write"] \in {"idle", "w_pre_wakeup", "w_arm"}
    /\ pc["event"] \in {"idle", "e_timeout"}
    /\ pc["pm"] \in {"idle", "p_start", "p_count", "p_timeout", "p_repeat", "p_again",
                     "p_reboot", "p_clear", "p_fake", "p_check", "p_arm"}

(* The limit is passed only between p_count and p_clear. *)
CountInv ==
    /\ pc["pm"] \in {"idle", "p_start", "p_count", "p_fake", "p_check", "p_arm"} =>
            cnt <= UnormalMax
    /\ pc["pm"] = "p_count" => reg <= UnormalMax + 1

(* Only a caller of send_app_status is between its two steps. *)
SetterInv == \A a \in setters : pc[a] \in CallLabels

TypeInv == TypeOK /\ PcInv /\ CountInv /\ SetterInv

(* is_fake_acc_off is set before acc_status_handle runs for the debug      *)
(* entry, and is never cleared.                                            *)
FakeInv == fake \/ pc["dbg"] \in {"idle", "f_fake"}

BootInv ==
    /\ isrAdded <=> pc["boot"] = "idle"
    /\ (pc["boot"] = "b_isr" /\ ~fake /\ pc["dbg"] = "idle") => accFlag = "ON"
    /\ (~isrAdded /\ ~fake) => told = "none"

QuietInv ==
    /\ edgeSeen => isrAdded
    /\ ~edgeSeen => ~Chasing /\ pc["state"] = "idle"

OriginInv == FakeInv /\ BootInv /\ QuietInv

(* The sample acc_status_handle is about to store is the line's level, or  *)
(* the line will be sampled again.                                         *)
SampleInv ==
    Normal =>
        /\ (pc["state"] = "on_flag" /\ io = "OFF") => Chasing
        /\ (pc["state"] = "off_flag" /\ io = "ON") => Chasing

EdgeInv == NoLostEdge /\ SampleInv

(* What holds along the two branches of acc_status_handle. *)
PathInv ==
    Normal =>
        /\ pc["state"] \in OnPath => accFlag = "ON"
        /\ pc["state"] \in OffPath => accFlag = "OFF"
        /\ pc["state"] \in OnPath \ {"on_del", "on_lock"} => rmtLock
        /\ pc["state"] \in {"on_screen_on", "on_pm"} => told = "ON"
        /\ pc["state"] \in OffPath \ {"off_notify"} => told = "OFF"

HandlerInv == PathInv /\ LockTracksAcc /\ SubscribersAgree

(* A timer handler about to send has seen ACC off; if ACC has come back    *)
(* since, it has not sent yet.                                             *)
StaleInv ==
    /\ stale <= 1
    /\ (pc["timer"] = "t_sleep" /\ "timer" \notin setters /\ accFlag = "ON") => stale = 0

----------------------------------------------------------------------------
LEMMA CallFacts ==
  /\ Calls["on_kernel_up"]   = [sends |-> "KERNEL_UP",     next |-> "on_notify"]
  /\ Calls["on_screen_on"]   = [sends |-> "SCREEN_ON",     next |-> "on_pm"]
  /\ Calls["off_screen_off"] = [sends |-> "SCREEN_OFF",    next |-> "off_fork"]
  /\ Calls["off_fake"]       = [sends |-> "GOTO_SLEEP",    next |-> "off_unlock"]
  /\ Calls["t_sleep"]        = [sends |-> "GOTO_SLEEP",    next |-> "t_arm"]
  /\ Calls["s_device_down"]  = [sends |-> "DEVICE_DOWN",   next |-> "s_android_down"]
  /\ Calls["s_android_down"] = [sends |-> "ANDROID_DOWN",  next |-> "s_pm"]
  /\ Calls["r_android_up"]   = [sends |-> "ANDROID_UP",    next |-> "r_device_up"]
  /\ Calls["r_device_up"]    = [sends |-> "DEVICE_UP",     next |-> "r_fork"]
  /\ Calls["r_fake"]         = [sends |-> "SCREEN_ON",     next |-> "r_check"]
  /\ Calls["w_pre_wakeup"]   = [sends |-> "PRE_WAKEUP",    next |-> "w_arm"]
  /\ Calls["p_timeout"]      = [sends |-> "SLEEP_TIMEOUT", next |-> "p_repeat"]
  /\ Calls["e_timeout"]      = [sends |-> "SLEEP_TIMEOUT", next |-> "idle"]
  BY DEF Calls

(* A call site sends a status, and leads to a label other than itself. *)
LEMMA CallTyped ==
  \A l \in CallLabels : Calls[l].sends \in Statuses /\ Calls[l].next \in Labels
  BY CallFacts DEF CallLabels, Statuses, Labels

LEMMA InitType == Init => TypeInv
<1> SUFFICES ASSUME Init PROVE TypeInv
  OBVIOUS
<1> USE BoundsAssumption DEF Init
<1>1. PcInv
  BY DEF PcInv, Actors
<1>2. CountInv
  BY <1>1 DEF CountInv, Actors
<1>3. /\ irq \in BOOLEAN /\ isrAdded \in BOOLEAN /\ edgeSeen \in BOOLEAN
      /\ statusPend \in BOOLEAN /\ detect \in BOOLEAN /\ statePend \in BOOLEAN
      /\ fake \in BOOLEAN /\ armed \in BOOLEAN
      /\ rmtLock \in BOOLEAN /\ pmLock \in BOOLEAN
      /\ suspended \in BOOLEAN /\ reboot \in BOOLEAN
  BY Zenon
<1>4. left \in [DOMAIN Bounds -> Nat]
  BY DEF Bounds
<1>5. pc \in [Actors -> Labels]
  BY DEF Labels
<1>6. TypeOK
  BY <1>3, <1>4, <1>5 DEF TypeOK, Levels, Statuses
<1>. QED BY <1>1, <1>2, <1>6 DEF TypeInv, SetterInv

----------------------------------------------------------------------------
(* TypeInv, action by action. *)

LEMMA SetStatusType ==
  ASSUME TypeInv, NEW a \in Actors, SetStatus(a) PROVE TypeInv'
<1> USE DEF TypeInv, SetStatus, pinVars, workVars, accVars, powerVars, countVars
<1>1. status' \in Statuses
  BY CallTyped
<1>2. stale' \in Nat
  BY DEF TypeOK
<1>3. TypeOK'
  BY <1>1, <1>2 DEF TypeOK
<1>4. PcInv' /\ CountInv'
  BY DEF PcInv, CountInv
<1>5. SetterInv'
  BY DEF SetterInv
<1>. QED BY <1>3, <1>4, <1>5

LEMMA FifoInType ==
  ASSUME TypeInv, NEW a \in Actors, rmtctrl_fifo_in(a)
  PROVE  TypeInv' /\ (a # "pm" => pc'["pm"] = pc["pm"])
<1> USE DEF TypeInv, rmtctrl_fifo_in, Step, Go, pinVars, workVars, accVars, powerVars,
            countVars
<1>1. pc[a] \in CallLabels /\ Calls[pc[a]].next \in Labels
  BY CallTyped DEF SetterInv
<1>2. TypeOK'
  BY <1>1 DEF TypeOK
<1>3. PcInv'
  BY <1>1, CallFacts DEF TypeOK, PcInv, CallLabels, OnLabels, OffLabels, OnPath, OffPath,
                         Actors
<1>4. CountInv'
  BY <1>1, CallFacts DEF TypeOK, PcInv, CountInv, CallLabels, Actors
<1>5. SetterInv'
  BY DEF SetterInv, TypeOK
<1>. QED BY <1>2, <1>3, <1>4, <1>5 DEF TypeOK

LEMMA SendType ==
  ASSUME TypeInv, NEW a \in Actors, Send(a) PROVE TypeInv'
BY SetStatusType, FifoInType DEF Send

(* The steps that only move an actor, and perhaps arm the timer. *)
LEMMA MoveType ==
  ASSUME TypeInv, NEW a \in Actors, NEW from \in Labels \ CallLabels, NEW to \in Labels,
         Branch(a, from, to) \/ ModTimer(a, from, to),
         PcInv', CountInv'
  PROVE  TypeInv'
<1> USE DEF TypeInv, Branch, ModTimer, Step, Go, pinVars, workVars, accVars, sendVars,
            powerVars, countVars
<1>1. armed' \in BOOLEAN
  BY Zenon DEF TypeOK
<1>2. TypeOK'
  BY <1>1 DEF TypeOK
<1>3. SetterInv'
  BY DEF SetterInv, TypeOK
<1>. QED BY <1>2, <1>3

LEMMA HandlerType ==
  ASSUME TypeInv, NEW a \in Handlers, acc_status_handle(a) PROVE TypeInv'
<1> USE DEF TypeInv, Step, Go, pinVars, workVars, accVars, sendVars, powerVars, countVars,
            Handlers, Actors
<1>1. ASSUME AccOnFlag(a) PROVE TypeInv'
  <2> USE <1>1 DEF AccOnFlag
  <2>1. TypeOK'
    BY DEF TypeOK, Levels, Labels, CallLabels
  <2>2. PcInv' /\ CountInv'
    BY BoundsAssumption DEF TypeOK, PcInv, CountInv, OnLabels, OffLabels, OnPath, OffPath
  <2>3. SetterInv'
    BY DEF TypeOK, SetterInv, CallLabels
  <2>. QED BY <2>1, <2>2, <2>3
<1>2. ASSUME AccOnDelTimer(a) PROVE TypeInv'
  <2> USE <1>2 DEF AccOnDelTimer
  <2>0. armed' \in BOOLEAN
    BY Zenon
  <2>1. TypeOK'
    BY <2>0, BoundsAssumption DEF TypeOK, Levels, Labels, CallLabels
  <2>2. PcInv' /\ CountInv'
    BY BoundsAssumption DEF TypeOK, PcInv, CountInv, OnLabels, OffLabels, OnPath, OffPath
  <2>3. SetterInv'
    BY DEF TypeOK, SetterInv, CallLabels
  <2>. QED BY <2>1, <2>2, <2>3
<1>3. ASSUME AccOnLock(a) PROVE TypeInv'
  <2> USE <1>3 DEF AccOnLock
  <2>0. rmtLock' \in BOOLEAN
    BY Zenon
  <2>1. TypeOK'
    BY <2>0, BoundsAssumption DEF TypeOK, Levels, Labels, CallLabels
  <2>2. PcInv' /\ CountInv'
    BY BoundsAssumption DEF TypeOK, PcInv, CountInv, OnLabels, OffLabels, OnPath, OffPath
  <2>3. SetterInv'
    BY DEF TypeOK, SetterInv, CallLabels
  <2>. QED BY <2>1, <2>2, <2>3
<1>4. ASSUME AccOnNotify(a) PROVE TypeInv'
  <2> USE <1>4 DEF AccOnNotify
  <2>1. TypeOK'
    BY DEF TypeOK, Levels, Labels, CallLabels
  <2>2. PcInv' /\ CountInv'
    BY BoundsAssumption DEF TypeOK, PcInv, CountInv, OnLabels, OffLabels, OnPath, OffPath
  <2>3. SetterInv'
    BY DEF TypeOK, SetterInv, CallLabels
  <2>. QED BY <2>1, <2>2, <2>3
<1>5. ASSUME AccOnPm(a) PROVE TypeInv'
  <2> USE <1>5 DEF AccOnPm
  <2>0. pmLock' \in BOOLEAN
    BY Zenon
  <2>1. TypeOK'
    BY <2>0, BoundsAssumption DEF TypeOK, Levels, Labels, CallLabels
  <2>2. PcInv' /\ CountInv'
    BY BoundsAssumption DEF TypeOK, PcInv, CountInv, OnLabels, OffLabels, OnPath, OffPath
  <2>3. SetterInv'
    BY DEF TypeOK, SetterInv, CallLabels
  <2>. QED BY <2>1, <2>2, <2>3
<1>6. ASSUME AccOffFlag(a) PROVE TypeInv'
  <2> USE <1>6 DEF AccOffFlag
  <2>1. TypeOK'
    BY DEF TypeOK, Levels, Labels, CallLabels
  <2>2. PcInv' /\ CountInv'
    BY BoundsAssumption DEF TypeOK, PcInv, CountInv, OnLabels, OffLabels, OnPath, OffPath
  <2>3. SetterInv'
    BY DEF TypeOK, SetterInv, CallLabels
  <2>. QED BY <2>1, <2>2, <2>3
<1>7. ASSUME AccOffNotify(a) PROVE TypeInv'
  <2> USE <1>7 DEF AccOffNotify
  <2>1. TypeOK'
    BY DEF TypeOK, Levels, Labels, CallLabels
  <2>2. PcInv' /\ CountInv'
    BY BoundsAssumption DEF TypeOK, PcInv, CountInv, OnLabels, OffLabels, OnPath, OffPath
  <2>3. SetterInv'
    BY DEF TypeOK, SetterInv, CallLabels
  <2>. QED BY <2>1, <2>2, <2>3
<1>8. ASSUME AccOffUnlock(a) PROVE TypeInv'
  <2> USE <1>8 DEF AccOffUnlock
  <2>0. rmtLock' \in BOOLEAN
    BY Zenon
  <2>1. TypeOK'
    BY <2>0, BoundsAssumption DEF TypeOK, Levels, Labels, CallLabels
  <2>2. PcInv' /\ CountInv'
    BY BoundsAssumption DEF TypeOK, PcInv, CountInv, OnLabels, OffLabels, OnPath, OffPath
  <2>3. SetterInv'
    BY DEF TypeOK, SetterInv, CallLabels
  <2>. QED BY <2>1, <2>2, <2>3
<1>9. ASSUME Branch(a, "off_fork", IF fake THEN "off_fake" ELSE "off_arm") PROVE TypeInv'
  <2> USE <1>9 DEF Branch
  <2>1. PcInv' /\ CountInv'
    BY DEF TypeOK, PcInv, CountInv, OnLabels, OffLabels, OnPath, OffPath
  <2>2. (IF fake THEN "off_fake" ELSE "off_arm") \in Labels
    BY DEF Labels, CallLabels
  <2>3. "off_fork" \in Labels \ CallLabels
    BY DEF Labels, CallLabels
  <2>. QED BY <2>1, <2>2, <2>3, MoveType
<1>10. ASSUME ModTimer(a, "off_arm", "off_unlock") PROVE TypeInv'
  <2> USE <1>10 DEF ModTimer
  <2>1. PcInv' /\ CountInv'
    BY DEF TypeOK, PcInv, CountInv, OnLabels, OffLabels, OnPath, OffPath
  <2>. QED BY <2>1, MoveType DEF Labels, CallLabels
<1>. QED BY <1>1, <1>2, <1>3, <1>4, <1>5, <1>6, <1>7, <1>8, <1>9, <1>10, SendType
         DEF acc_status_handle

LEMMA StepType == TypeInv /\ [Next]_vars => TypeInv'
<1> SUFFICES ASSUME TypeInv, [Next]_vars PROVE TypeInv'
  OBVIOUS
<1> USE BoundsAssumption
    DEF TypeInv, Step, Go, Spend, pinVars, workVars, accVars, sendVars, powerVars, countVars
<1>1. ASSUME Edge PROVE TypeInv'
  <2> USE <1>1 DEF Edge
  <2>0. irq' \in BOOLEAN /\ edgeSeen' \in BOOLEAN
    BY Zenon DEF TypeOK
  <2>1. TypeOK'
    BY <2>0 DEF TypeOK, Levels, Labels, CallLabels, Actors, OnPath, OffPath, Bounds
  <2>2. PcInv' /\ CountInv'
    BY DEF TypeOK, PcInv, CountInv, OnLabels, OffLabels, OnPath, OffPath, Actors
  <2>3. SetterInv'
    BY DEF TypeOK, SetterInv, CallLabels, Actors
  <2>. QED BY <2>1, <2>2, <2>3
<1>2. ASSUME acc_state_isr PROVE TypeInv'
  <2> USE <1>2 DEF acc_state_isr
  <2>0. irq' \in BOOLEAN /\ statusPend' \in BOOLEAN
    BY Zenon DEF TypeOK
  <2>1. TypeOK'
    BY <2>0 DEF TypeOK, Levels, Labels, CallLabels, Actors, OnPath, OffPath, Bounds
  <2>2. PcInv' /\ CountInv'
    BY DEF TypeOK, PcInv, CountInv, OnLabels, OffLabels, OnPath, OffPath, Actors
  <2>3. SetterInv'
    BY DEF TypeOK, SetterInv, CallLabels, Actors
  <2>. QED BY <2>1, <2>2, <2>3
<1>3. ASSUME work_acc_status_handle PROVE TypeInv'
  <2> USE <1>3 DEF work_acc_status_handle
  <2>0. statusPend' \in BOOLEAN /\ detect' \in BOOLEAN
    BY Zenon DEF TypeOK
  <2>1. TypeOK'
    BY <2>0 DEF TypeOK, Levels, Labels, CallLabels, Actors, OnPath, OffPath, Bounds
  <2>2. PcInv' /\ CountInv'
    BY DEF TypeOK, PcInv, CountInv, OnLabels, OffLabels, OnPath, OffPath, Actors
  <2>3. SetterInv'
    BY DEF TypeOK, SetterInv, CallLabels, Actors
  <2>. QED BY <2>1, <2>2, <2>3
<1>4. ASSUME acc_detect_timer_func PROVE TypeInv'
  <2> USE <1>4 DEF acc_detect_timer_func
  <2>0. detect' \in BOOLEAN /\ statePend' \in BOOLEAN
    BY Zenon DEF TypeOK
  <2>1. TypeOK'
    BY <2>0 DEF TypeOK, Levels, Labels, CallLabels, Actors, OnPath, OffPath, Bounds
  <2>2. PcInv' /\ CountInv'
    BY DEF TypeOK, PcInv, CountInv, OnLabels, OffLabels, OnPath, OffPath, Actors
  <2>3. SetterInv'
    BY DEF TypeOK, SetterInv, CallLabels, Actors
  <2>. QED BY <2>1, <2>2, <2>3
<1>5. ASSUME acc_state_work_func PROVE TypeInv'
  <2> USE <1>5 DEF acc_state_work_func
  <2>0. statePend' \in BOOLEAN
    BY Zenon DEF TypeOK
  <2>1. TypeOK'
    BY <2>0 DEF TypeOK, Levels, Labels, CallLabels, Actors, OnPath, OffPath, Bounds
  <2>2. PcInv' /\ CountInv'
    BY DEF TypeOK, PcInv, CountInv, OnLabels, OffLabels, OnPath, OffPath, Actors
  <2>3. SetterInv'
    BY DEF TypeOK, SetterInv, CallLabels, Actors
  <2>. QED BY <2>1, <2>2, <2>3
<1>6. ASSUME RmtTimerFires PROVE TypeInv'
  <2> USE <1>6 DEF RmtTimerFires
  <2>0. armed' \in BOOLEAN
    BY Zenon DEF TypeOK
  <2>1. TypeOK'
    BY <2>0 DEF TypeOK, Levels, Labels, CallLabels, Actors, OnPath, OffPath, Bounds
  <2>2. PcInv' /\ CountInv'
    BY DEF TypeOK, PcInv, CountInv, OnLabels, OffLabels, OnPath, OffPath, Actors
  <2>3. SetterInv'
    BY DEF TypeOK, SetterInv, CallLabels, Actors
  <2>. QED BY <2>1, <2>2, <2>3
<1>7. ASSUME FbPowerdown \/ FbUnblank PROVE TypeInv'
  <2> USE <1>7 DEF FbPowerdown, FbUnblank, FbEvent
  <2>0. pc' \in [Actors -> Labels]
    BY DEF TypeOK, Labels, CallLabels
  <2>1. TypeOK'
    BY <2>0 DEF TypeOK, Bounds
  <2>2. PcInv' /\ CountInv'
    BY DEF TypeOK, PcInv, CountInv, OnLabels, OffLabels, OnPath, OffPath, Actors
  <2>3. SetterInv'
    BY DEF TypeOK, SetterInv, CallLabels, Actors
  <2>. QED BY <2>1, <2>2, <2>3
<1>8. ASSUME AndroidDown PROVE TypeInv'
  <2> USE <1>8 DEF AndroidDown
  <2>0. pmLock' \in BOOLEAN
    BY Zenon DEF TypeOK
  <2>1. TypeOK'
    BY <2>0 DEF TypeOK, Levels, Labels, CallLabels, Actors, OnPath, OffPath, Bounds
  <2>2. PcInv' /\ CountInv'
    BY DEF TypeOK, PcInv, CountInv, OnLabels, OffLabels, OnPath, OffPath, Actors
  <2>3. SetterInv'
    BY DEF TypeOK, SetterInv, CallLabels, Actors
  <2>. QED BY <2>1, <2>2, <2>3
<1>9. ASSUME PreWakeup PROVE TypeInv'
  <2> USE <1>9 DEF PreWakeup
  <2>1. TypeOK'
    BY DEF TypeOK, Levels, Labels, CallLabels, Actors, OnPath, OffPath, Bounds
  <2>2. PcInv' /\ CountInv'
    BY DEF TypeOK, PcInv, CountInv, OnLabels, OffLabels, OnPath, OffPath, Actors
  <2>3. SetterInv'
    BY DEF TypeOK, SetterInv, CallLabels, Actors
  <2>. QED BY <2>1, <2>2, <2>3
<1>10. ASSUME ObserverStops PROVE TypeInv'
  <2> USE <1>10 DEF ObserverStops
  <2>1. TypeOK'
    BY DEF TypeOK, Levels, Labels, CallLabels, Actors, OnPath, OffPath, Bounds
  <2>2. PcInv' /\ CountInv'
    BY DEF TypeOK, PcInv, CountInv, OnLabels, OffLabels, OnPath, OffPath, Actors
  <2>3. SetterInv'
    BY DEF TypeOK, SetterInv, CallLabels, Actors
  <2>. QED BY <2>1, <2>2, <2>3
<1>11. ASSUME SleepTimeout PROVE TypeInv'
  <2> USE <1>11 DEF SleepTimeout
  <2>1. TypeOK'
    BY DEF TypeOK, Levels, Labels, CallLabels, Actors, OnPath, OffPath, Bounds
  <2>2. PcInv' /\ CountInv'
    BY DEF TypeOK, PcInv, CountInv, OnLabels, OffLabels, OnPath, OffPath, Actors
  <2>3. SetterInv'
    BY DEF TypeOK, SetterInv, CallLabels, Actors
  <2>. QED BY <2>1, <2>2, <2>3
<1>12. ASSUME fake_acc_off PROVE TypeInv'
  <2> USE <1>12 DEF fake_acc_off
  <2>1. TypeOK'
    BY DEF TypeOK, Levels, Labels, CallLabels, Actors, OnPath, OffPath, Bounds
  <2>2. PcInv' /\ CountInv'
    BY DEF TypeOK, PcInv, CountInv, OnLabels, OffLabels, OnPath, OffPath, Actors
  <2>3. SetterInv'
    BY DEF TypeOK, SetterInv, CallLabels, Actors
  <2>. QED BY <2>1, <2>2, <2>3
<1>13. ASSUME FakeFlagSet PROVE TypeInv'
  <2> USE <1>13 DEF FakeFlagSet
  <2>0. fake' \in BOOLEAN
    BY Zenon DEF TypeOK
  <2>1. TypeOK'
    BY <2>0 DEF TypeOK, Levels, Labels, CallLabels, Actors, OnPath, OffPath, Bounds
  <2>2. PcInv' /\ CountInv'
    BY DEF TypeOK, PcInv, CountInv, OnLabels, OffLabels, OnPath, OffPath, Actors
  <2>3. SetterInv'
    BY DEF TypeOK, SetterInv, CallLabels, Actors
  <2>. QED BY <2>1, <2>2, <2>3
<1>14. ASSUME update_acc_status PROVE TypeInv'
  <2> USE <1>14 DEF update_acc_status
  <2>1. TypeOK'
    BY DEF TypeOK, Levels, Labels, CallLabels, Actors, OnPath, OffPath, Bounds
  <2>2. PcInv' /\ CountInv'
    BY DEF TypeOK, PcInv, CountInv, OnLabels, OffLabels, OnPath, OffPath, Actors
  <2>3. SetterInv'
    BY DEF TypeOK, SetterInv, CallLabels, Actors
  <2>. QED BY <2>1, <2>2, <2>3
<1>15. ASSUME BootForceOn PROVE TypeInv'
  <2> USE <1>15 DEF BootForceOn
  <2>1. TypeOK'
    BY DEF TypeOK, Levels, Labels, CallLabels, Actors, OnPath, OffPath, Bounds
  <2>2. PcInv' /\ CountInv'
    BY DEF TypeOK, PcInv, CountInv, OnLabels, OffLabels, OnPath, OffPath, Actors
  <2>3. SetterInv'
    BY DEF TypeOK, SetterInv, CallLabels, Actors
  <2>. QED BY <2>1, <2>2, <2>3
<1>16. ASSUME BootAddIsr PROVE TypeInv'
  <2> USE <1>16 DEF BootAddIsr
  <2>0. isrAdded' \in BOOLEAN
    BY Zenon DEF TypeOK
  <2>1. TypeOK'
    BY <2>0 DEF TypeOK, Levels, Labels, CallLabels, Actors, OnPath, OffPath, Bounds
  <2>2. PcInv' /\ CountInv'
    BY DEF TypeOK, PcInv, CountInv, OnLabels, OffLabels, OnPath, OffPath, Actors
  <2>3. SetterInv'
    BY DEF TypeOK, SetterInv, CallLabels, Actors
  <2>. QED BY <2>1, <2>2, <2>3
<1>17. ASSUME Suspend PROVE TypeInv'
  <2> USE <1>17 DEF Suspend
  <2>0. suspended' \in BOOLEAN
    BY Zenon DEF TypeOK
  <2>1. TypeOK'
    BY <2>0 DEF TypeOK, Levels, Labels, CallLabels, Actors, OnPath, OffPath, Bounds
  <2>2. PcInv' /\ CountInv'
    BY DEF TypeOK, PcInv, CountInv, OnLabels, OffLabels, OnPath, OffPath, Actors
  <2>3. SetterInv'
    BY DEF TypeOK, SetterInv, CallLabels, Actors
  <2>. QED BY <2>1, <2>2, <2>3
<1>18. ASSUME Wake PROVE TypeInv'
  <2> USE <1>18 DEF Wake
  <2>0. suspended' \in BOOLEAN
    BY Zenon DEF TypeOK
  <2>1. TypeOK'
    BY <2>0 DEF TypeOK, Levels, Labels, CallLabels, Actors, OnPath, OffPath, Bounds
  <2>2. PcInv' /\ CountInv'
    BY DEF TypeOK, PcInv, CountInv, OnLabels, OffLabels, OnPath, OffPath, Actors
  <2>3. SetterInv'
    BY DEF TypeOK, SetterInv, CallLabels, Actors
  <2>. QED BY <2>1, <2>2, <2>3
<1>19. ASSUME ReadCounter PROVE TypeInv'
  <2> USE <1>19 DEF ReadCounter
  <2>1. TypeOK'
    BY DEF TypeOK, Levels, Labels, CallLabels, Actors, OnPath, OffPath, Bounds
  <2>2. PcInv' /\ CountInv'
    BY DEF TypeOK, PcInv, CountInv, OnLabels, OffLabels, OnPath, OffPath, Actors
  <2>3. SetterInv'
    BY DEF TypeOK, SetterInv, CallLabels, Actors
  <2>. QED BY <2>1, <2>2, <2>3
<1>20. ASSUME CountWakeup PROVE TypeInv'
  <2> USE <1>20 DEF CountWakeup
  <2>0. cnt' \in 0 .. UnormalMax + 1 /\ reg' \in Nat
    BY DEF TypeOK, CountInv
  <2>1. TypeOK'
    BY <2>0 DEF TypeOK, Labels, CallLabels, Actors
  <2>2. PcInv' /\ CountInv'
    BY DEF TypeOK, PcInv, CountInv, OnLabels, OffLabels, OnPath, OffPath, Actors
  <2>3. SetterInv'
    BY DEF TypeOK, SetterInv, CallLabels, Actors
  <2>. QED BY <2>1, <2>2, <2>3
<1>21. ASSUME CountRepeat PROVE TypeInv'
  <2> USE <1>21 DEF CountRepeat
  <2>1. TypeOK'
    BY DEF TypeOK, Levels, Labels, CallLabels, Actors, OnPath, OffPath, Bounds
  <2>2. PcInv' /\ CountInv'
    BY DEF TypeOK, PcInv, CountInv, OnLabels, OffLabels, OnPath, OffPath, Actors
  <2>3. SetterInv'
    BY DEF TypeOK, SetterInv, CallLabels, Actors
  <2>. QED BY <2>1, <2>2, <2>3
<1>22. ASSUME Reboot PROVE TypeInv'
  <2> USE <1>22 DEF Reboot
  <2>0. reboot' \in BOOLEAN
    BY Zenon DEF TypeOK
  <2>1. TypeOK'
    BY <2>0 DEF TypeOK, Levels, Labels, CallLabels, Actors, OnPath, OffPath, Bounds
  <2>2. PcInv' /\ CountInv'
    BY DEF TypeOK, PcInv, CountInv, OnLabels, OffLabels, OnPath, OffPath, Actors
  <2>3. SetterInv'
    BY DEF TypeOK, SetterInv, CallLabels, Actors
  <2>. QED BY <2>1, <2>2, <2>3
<1>23. ASSUME ClearCount PROVE TypeInv'
  <2> USE <1>23 DEF ClearCount
  <2>1. TypeOK'
    BY DEF TypeOK, Levels, Labels, CallLabels, Actors, OnPath, OffPath, Bounds
  <2>2. PcInv' /\ CountInv'
    BY DEF TypeOK, PcInv, CountInv, OnLabels, OffLabels, OnPath, OffPath, Actors
  <2>3. SetterInv'
    BY DEF TypeOK, SetterInv, CallLabels, Actors
  <2>. QED BY <2>1, <2>2, <2>3
<1>24. ASSUME ResumeFake PROVE TypeInv'
  <2> USE <1>24 DEF ResumeFake
  <2>1. TypeOK'
    BY DEF TypeOK, Levels, Labels, CallLabels, Actors, OnPath, OffPath, Bounds
  <2>2. PcInv' /\ CountInv'
    BY DEF TypeOK, PcInv, CountInv, OnLabels, OffLabels, OnPath, OffPath, Actors
  <2>3. SetterInv'
    BY DEF TypeOK, SetterInv, CallLabels, Actors
  <2>. QED BY <2>1, <2>2, <2>3
<1>25. ASSUME rmtctrl_timer_func PROVE TypeInv'
  <2>1. CASE Branch("timer", "t_check", IF AccReallyOff THEN "t_sleep" ELSE "idle")
    <3>1. PcInv' /\ CountInv'
      BY <2>1 DEF Branch, TypeOK, PcInv, CountInv, Actors
    <3>2. /\ "t_check" \in Labels \ CallLabels
          /\ (IF AccReallyOff THEN "t_sleep" ELSE "idle") \in Labels
      BY DEF Labels, CallLabels
    <3>. QED BY <2>1, <3>1, <3>2, MoveType DEF Actors
  <2>2. CASE ModTimer("timer", "t_arm", "idle")
    <3>1. PcInv' /\ CountInv'
      BY <2>2 DEF ModTimer, TypeOK, PcInv, CountInv, Actors
    <3>2. "t_arm" \in Labels \ CallLabels /\ ("idle") \in Labels
      BY DEF Labels, CallLabels
    <3>. QED BY <2>2, <3>1, <3>2, MoveType DEF Actors
  <2>. QED BY <1>25, <2>1, <2>2, SendType DEF rmtctrl_timer_func, Actors
<1>26. ASSUME fb_notifier_callback PROVE TypeInv'
  <2>1. CASE Branch("fb", "r_fork", IF fake THEN "r_fake" ELSE "r_check")
    <3>1. PcInv' /\ CountInv'
      BY <2>1 DEF Branch, TypeOK, PcInv, CountInv, Actors
    <3>2. "r_fork" \in Labels \ CallLabels /\ (IF fake THEN "r_fake" ELSE "r_check") \in Labels
      BY DEF Labels, CallLabels
    <3>. QED BY <2>1, <3>1, <3>2, MoveType DEF Actors
  <2>2. CASE Branch("fb", "r_check", IF AccReallyOff THEN "r_arm" ELSE "idle")
    <3>1. PcInv' /\ CountInv'
      BY <2>2 DEF Branch, TypeOK, PcInv, CountInv, Actors
    <3>2. /\ "r_check" \in Labels \ CallLabels
          /\ (IF AccReallyOff THEN "r_arm" ELSE "idle") \in Labels
      BY DEF Labels, CallLabels
    <3>. QED BY <2>2, <3>1, <3>2, MoveType DEF Actors
  <2>3. CASE ModTimer("fb", "r_arm", "idle")
    <3>1. PcInv' /\ CountInv'
      BY <2>3 DEF ModTimer, TypeOK, PcInv, CountInv, Actors
    <3>2. "r_arm" \in Labels \ CallLabels /\ ("idle") \in Labels
      BY DEF Labels, CallLabels
    <3>. QED BY <2>3, <3>1, <3>2, MoveType DEF Actors
  <2>. QED BY <1>26, <2>1, <2>2, <2>3, <1>8, SendType DEF fb_notifier_callback, Actors
<1>27. ASSUME rmtctrl_write PROVE TypeInv'
  <2>1. CASE ModTimer("write", "w_arm", "idle")
    <3>1. PcInv' /\ CountInv'
      BY <2>1 DEF ModTimer, TypeOK, PcInv, CountInv, Actors
    <3>2. "w_arm" \in Labels \ CallLabels /\ ("idle") \in Labels
      BY DEF Labels, CallLabels
    <3>. QED BY <2>1, <3>1, <3>2, MoveType DEF Actors
  <2>. QED BY <1>27, <2>1, SendType DEF rmtctrl_write, Actors
<1>28. ASSUME rmtctrl_pm_resume PROVE TypeInv'
  <2>1. CASE Branch("pm", "p_check", IF AccReallyOff THEN "p_arm" ELSE "idle")
    <3>1. PcInv' /\ CountInv'
      BY <2>1 DEF Branch, TypeOK, PcInv, CountInv, Actors
    <3>2. /\ "p_check" \in Labels \ CallLabels
          /\ (IF AccReallyOff THEN "p_arm" ELSE "idle") \in Labels
      BY DEF Labels, CallLabels
    <3>. QED BY <2>1, <3>1, <3>2, MoveType DEF Actors
  <2>2. CASE ModTimer("pm", "p_arm", "idle")
    <3>1. PcInv' /\ CountInv'
      BY <2>2 DEF ModTimer, TypeOK, PcInv, CountInv, Actors
    <3>2. "p_arm" \in Labels \ CallLabels /\ ("idle") \in Labels
      BY DEF Labels, CallLabels
    <3>. QED BY <2>2, <3>1, <3>2, MoveType DEF Actors
  <2>. QED BY <1>28, <2>1, <2>2, <1>19, <1>20, <1>21, <1>22, <1>23, <1>24, SendType
           DEF rmtctrl_pm_resume, Actors
<1>29. ASSUME FakeCall PROVE TypeInv'
  <2>1. PcInv' /\ CountInv'
    BY <1>29 DEF FakeCall, Branch, TypeOK, PcInv, CountInv, Actors, OnLabels, OffLabels
  <2>2. (IF accFlag = "ON" THEN "on_flag" ELSE "off_flag") \in Labels
    BY DEF Labels, CallLabels
  <2>3. "f_call" \in Labels \ CallLabels
    BY DEF Labels, CallLabels
  <2>. QED BY <1>29, <2>1, <2>2, <2>3, MoveType DEF FakeCall, Actors
<1>30. CASE UNCHANGED vars
  BY <1>30 DEF vars, TypeOK, PcInv, CountInv, SetterInv
<1>. QED BY <1>1, <1>2, <1>3, <1>4, <1>5, <1>6, <1>7, <1>8, <1>9, <1>10, <1>11, <1>12, <1>13,
            <1>14, <1>15, <1>16, <1>17, <1>18, <1>19, <1>20, <1>21, <1>22, <1>23, <1>24,
            <1>25, <1>26, <1>27, <1>28, <1>29, <1>30, HandlerType, SendType
         DEF Next, Environment, Boot, lidbg_rmtctrl_event, Actors

(* The types, and the bound on the counter of abnormal wake-ups whatever   *)
(* the unprotected increments of rmtctrl_pm_resume race with.              *)
THEOREM TypeCorrect == Spec => []TypeOK
<1>1. TypeInv => TypeOK
  BY DEF TypeInv
<1>. QED BY <1>1, InitType, StepType, PTL DEF Spec

----------------------------------------------------------------------------
(* The actions that neither touch the line, its works, acc_flag, the fake  *)
(* flag and the wake lock, nor move the boot thread, the worker or the     *)
(* debug entry.                                                            *)
Bystander ==
    \/ RmtTimerFires \/ rmtctrl_timer_func
    \/ FbPowerdown \/ FbUnblank \/ fb_notifier_callback
    \/ PreWakeup \/ rmtctrl_write
    \/ SleepTimeout \/ lidbg_rmtctrl_event \/ ObserverStops
    \/ Suspend \/ Wake \/ rmtctrl_pm_resume
    \/ UNCHANGED vars

Frame ==
    /\ UNCHANGED <<pinVars, workVars, accFlag, fake, rmtLock>>
    /\ \A b \in {"boot", "state", "dbg"} : pc'[b] = pc[b]
    /\ told' = told \/ fake

LEMMA SendFrame ==
  ASSUME TypeInv, NEW a \in Actors, Send(a)
  PROVE  /\ UNCHANGED <<pinVars, workVars, accVars, armed, powerVars>>
         /\ \A b \in Actors : b # a => pc'[b] = pc[b]
         /\ pc[a] \in CallLabels
         /\ pc'[a] = pc[a] \/ pc'[a] = Calls[pc[a]].next
<1>1. CASE SetStatus(a)
  BY <1>1 DEF SetStatus
<1>2. CASE rmtctrl_fifo_in(a)
  BY <1>2 DEF rmtctrl_fifo_in, Step, Go, TypeInv, TypeOK, SetterInv
<1>. QED BY <1>1, <1>2 DEF Send

LEMMA BystanderFrame == ASSUME TypeInv, Bystander PROVE Frame
<1> USE DEF TypeInv, TypeOK, Frame, Step, Go, Branch, ModTimer, Actors,
            pinVars, workVars, accVars, sendVars, powerVars, countVars
<1>1. CASE RmtTimerFires \/ FbPowerdown \/ FbUnblank \/ PreWakeup \/ SleepTimeout
  BY <1>1 DEF RmtTimerFires, FbPowerdown, FbUnblank, FbEvent, PreWakeup, SleepTimeout
<1>2. CASE ObserverStops \/ Suspend \/ Wake \/ UNCHANGED vars
  BY <1>2 DEF ObserverStops, Suspend, Wake, vars
<1>3. CASE rmtctrl_timer_func
  BY <1>3, SendFrame DEF rmtctrl_timer_func
<1>4. CASE fb_notifier_callback
  BY <1>4, SendFrame DEF fb_notifier_callback, AndroidDown
<1>5. CASE rmtctrl_write \/ lidbg_rmtctrl_event
  BY <1>5, SendFrame DEF rmtctrl_write, lidbg_rmtctrl_event
<1>6. CASE rmtctrl_pm_resume
  BY <1>6, SendFrame DEF rmtctrl_pm_resume, ReadCounter, CountWakeup, CountRepeat, Reboot,
                         ClearCount, ResumeFake
<1>. QED BY <1>1, <1>2, <1>3, <1>4, <1>5, <1>6 DEF Bystander

(* Every step is a bystander's or one of these. *)
LEMMA NextCases ==
  ASSUME [Next]_vars
  PROVE  \/ Bystander \/ Edge \/ acc_state_isr \/ work_acc_status_handle
         \/ acc_detect_timer_func \/ acc_state_work_func
         \/ acc_status_handle("state") \/ acc_status_handle("dbg")
         \/ fake_acc_off \/ FakeFlagSet \/ FakeCall \/ Boot
  BY DEF Next, Bystander, Environment, Handlers

LEMMA InitOrigin == Init => OriginInv
  BY DEF Init, OriginInv, FakeInv, BootInv, QuietInv, Chasing, Actors

LEMMA StepOrigin == TypeInv /\ OriginInv /\ [Next]_vars => OriginInv'
<1> SUFFICES ASSUME TypeInv, OriginInv, [Next]_vars PROVE OriginInv'
  OBVIOUS
<1> USE DEF OriginInv, FakeInv, BootInv, QuietInv, Chasing, TypeInv, TypeOK, PcInv,
            Step, Go, pinVars, workVars, accVars, sendVars, powerVars, countVars,
            Actors, OnLabels, OffLabels, OnPath, OffPath
<1>1. CASE Bystander
  BY <1>1, BystanderFrame DEF Frame
<1>2. CASE Edge
  BY <1>2 DEF Edge
<1>3. CASE acc_state_isr \/ work_acc_status_handle \/ acc_detect_timer_func
  BY <1>3 DEF acc_state_isr, work_acc_status_handle, acc_detect_timer_func
<1>4. CASE acc_state_work_func
  BY <1>4 DEF acc_state_work_func
<1>5. CASE acc_status_handle("state")
  <2>1. CASE Send("state")
    BY <2>1, SendFrame DEF CallLabels
  <2>2. CASE ~Send("state")
    BY <1>5, <2>2 DEF acc_status_handle, AccOnFlag, AccOnDelTimer, AccOnLock, AccOnNotify,
             AccOnPm, AccOffFlag, AccOffNotify, AccOffUnlock, Branch, ModTimer
  <2>. QED BY <2>1, <2>2
<1>6. CASE acc_status_handle("dbg")
  <2>1. CASE Send("dbg")
    BY <2>1, SendFrame DEF CallLabels
  <2>2. CASE ~Send("dbg")
    BY <1>6, <2>2 DEF acc_status_handle, AccOnFlag, AccOnDelTimer, AccOnLock, AccOnNotify,
             AccOnPm, AccOffFlag, AccOffNotify, AccOffUnlock, Branch, ModTimer
  <2>. QED BY <2>1, <2>2
<1>7. CASE fake_acc_off \/ FakeFlagSet \/ FakeCall
  BY <1>7 DEF fake_acc_off, FakeFlagSet, FakeCall, Branch
<1>8. CASE Boot
  BY <1>8 DEF Boot, update_acc_status, BootForceOn, BootAddIsr
<1>. QED BY <1>1, <1>2, <1>3, <1>4, <1>5, <1>6, <1>7, <1>8, NextCases

----------------------------------------------------------------------------
(* What the debug entry and the boot thread do is outside Normal, or       *)
(* brings the system into it with nothing running.                         *)
LEMMA OutsideNormal ==
  ASSUME TypeInv, OriginInv, acc_status_handle("dbg") \/ fake_acc_off \/ FakeFlagSet \/ FakeCall
  PROVE  ~Normal'
<1> USE DEF Normal, OriginInv, FakeInv, TypeInv, TypeOK, PcInv, Step, Go, Actors,
            OnLabels, OnPath, OffLabels, OffPath, pinVars, workVars, accVars, sendVars, powerVars,
            countVars
<1>1. CASE Send("dbg")
  BY <1>1, SendFrame DEF CallLabels
<1>2. CASE acc_status_handle("dbg") /\ ~Send("dbg")
  BY <1>2 DEF acc_status_handle, AccOnFlag, AccOnDelTimer, AccOnLock, AccOnNotify,
              AccOnPm, AccOffFlag, AccOffNotify, AccOffUnlock, Branch, ModTimer
<1>3. CASE fake_acc_off \/ FakeFlagSet \/ FakeCall
  BY <1>3 DEF fake_acc_off, FakeFlagSet, FakeCall, Branch
<1>. QED BY <1>1, <1>2, <1>3

LEMMA EnteringNormal ==
  ASSUME TypeInv, OriginInv, Boot, Normal'
  PROVE  /\ told' = "none" /\ accFlag' = "ON" /\ ~edgeSeen' /\ pc'["state"] = "idle"
<1> USE DEF Normal, OriginInv, FakeInv, BootInv, QuietInv, TypeInv, TypeOK, PcInv, Step, Go,
            Actors, pinVars, workVars, accVars, sendVars, powerVars, countVars
<1>1. CASE update_acc_status \/ BootForceOn
  BY <1>1 DEF update_acc_status, BootForceOn
<1>2. CASE BootAddIsr
  BY <1>2 DEF BootAddIsr
<1>. QED BY <1>1, <1>2 DEF Boot

LEMMA InitEdge == Init => EdgeInv
  BY DEF Init, EdgeInv, NoLostEdge, SampleInv, Normal

LEMMA StepEdge == TypeInv /\ OriginInv /\ EdgeInv /\ [Next]_vars => EdgeInv'
<1> SUFFICES ASSUME TypeInv, OriginInv, EdgeInv, [Next]_vars PROVE EdgeInv'
  OBVIOUS
<1> USE DEF EdgeInv, NoLostEdge, SampleInv, Chasing, TypeInv, TypeOK, PcInv, Levels,
            Step, Go, pinVars, workVars, accVars, sendVars, powerVars, countVars, Actors
<1>1. CASE Bystander
  BY <1>1, BystanderFrame DEF Frame, Normal
<1>2. CASE Edge
  BY <1>2 DEF Edge, Normal, OriginInv, QuietInv
<1>3. CASE acc_state_isr \/ work_acc_status_handle \/ acc_detect_timer_func
  BY <1>3 DEF acc_state_isr, work_acc_status_handle, acc_detect_timer_func, Normal
<1>4. CASE acc_state_work_func
  BY <1>4 DEF acc_state_work_func, Normal
<1>5. CASE acc_status_handle("state")
  <2>1. CASE Send("state")
    BY <2>1, SendFrame, CallFacts DEF CallLabels, Normal
  <2>2. CASE AccOnFlag("state") \/ AccOffFlag("state")
    BY <2>2 DEF AccOnFlag, AccOffFlag, Normal
  <2>3. CASE acc_status_handle("state") /\ ~Send("state")
             /\ ~(AccOnFlag("state") \/ AccOffFlag("state"))
    BY <2>3 DEF acc_status_handle, AccOnDelTimer, AccOnLock, AccOnNotify,
                AccOnPm, AccOffNotify, AccOffUnlock, Branch, ModTimer, Normal
  <2>. QED BY <1>5, <2>1, <2>2, <2>3
<1>6. CASE acc_status_handle("dbg") \/ fake_acc_off \/ FakeFlagSet \/ FakeCall
  BY <1>6, OutsideNormal
<1>7. CASE Boot
  BY <1>7, EnteringNormal
<1>. QED BY <1>1, <1>2, <1>3, <1>4, <1>5, <1>6, <1>7, NextCases

(* No edge of the ACC line is lost by the work_pending tests, the debounce *)
(* timer or a worker that is busy when the next edge comes.                *)
THEOREM EdgesNotLost == Spec => []NoLostEdge
<1> DEFINE Inv == TypeInv /\ OriginInv /\ EdgeInv
<1>1. Init => Inv
  BY InitType, InitOrigin, InitEdge
<1>2. Inv /\ [Next]_vars => Inv'
  BY StepType, StepOrigin, StepEdge
<1>3. Inv => NoLostEdge
  BY DEF EdgeInv
<1>. QED BY <1>1, <1>2, <1>3, PTL DEF Spec

----------------------------------------------------------------------------
LEMMA InitHandler == Init => HandlerInv
  BY DEF Init, HandlerInv, PathInv, LockTracksAcc, SubscribersAgree, Settled, Normal

LEMMA StepHandler == TypeInv /\ OriginInv /\ HandlerInv /\ [Next]_vars => HandlerInv'
<1> SUFFICES ASSUME TypeInv, OriginInv, HandlerInv, [Next]_vars PROVE HandlerInv'
  OBVIOUS
<1> USE DEF HandlerInv, PathInv, LockTracksAcc, SubscribersAgree, Settled, OnPath, OffPath,
            TypeInv, TypeOK, PcInv, Levels, Step, Go, Actors,
            pinVars, workVars, accVars, sendVars, powerVars, countVars
<1>1. CASE Bystander
  BY <1>1, BystanderFrame DEF Frame, Normal
<1>2. CASE Edge
  BY <1>2 DEF Edge, Normal
<1>3. CASE acc_state_isr \/ work_acc_status_handle \/ acc_detect_timer_func
  BY <1>3 DEF acc_state_isr, work_acc_status_handle, acc_detect_timer_func, Normal
<1>4. CASE acc_state_work_func
  BY <1>4 DEF acc_state_work_func, Normal
<1>5. CASE acc_status_handle("state")
  <2>1. CASE Send("state")
    BY <2>1, SendFrame, CallFacts DEF CallLabels, Normal
  <2>2. CASE AccOnFlag("state") \/ AccOffFlag("state")
    BY <2>2 DEF AccOnFlag, AccOffFlag, Normal
  <2>3. CASE AccOnDelTimer("state") \/ AccOnLock("state")
    BY <2>3 DEF AccOnDelTimer, AccOnLock, Normal
  <2>4. CASE AccOnNotify("state") \/ AccOffNotify("state")
    BY <2>4 DEF AccOnNotify, AccOffNotify, Normal
  <2>5. CASE AccOnPm("state") \/ AccOffUnlock("state")
    BY <2>5 DEF AccOnPm, AccOffUnlock, Normal
  <2>6. CASE \/ Branch("state", "off_fork", IF fake THEN "off_fake" ELSE "off_arm")
             \/ ModTimer("state", "off_arm", "off_unlock")
    BY <2>6 DEF Branch, ModTimer, Normal
  <2>. QED BY <1>5, <2>1, <2>2, <2>3, <2>4, <2>5, <2>6 DEF acc_status_handle
<1>6. CASE acc_status_handle("dbg") \/ fake_acc_off \/ FakeFlagSet \/ FakeCall
  BY <1>6, OutsideNormal
<1>7. CASE Boot
  BY <1>7, EnteringNormal
<1>. QED BY <1>1, <1>2, <1>3, <1>4, <1>5, <1>6, <1>7, NextCases

BaseInv == TypeInv /\ OriginInv /\ HandlerInv

LEMMA BaseInductive ==
  /\ Init => BaseInv
  /\ BaseInv /\ [Next]_vars => BaseInv'
  BY InitType, InitOrigin, InitHandler, StepType, StepOrigin, StepHandler DEF BaseInv

(* Between two handlings of ACC the wake lock is held iff ACC is on.       *)
THEOREM WakeLockFollowsAcc == Spec => []LockTracksAcc
<1>1. BaseInv => LockTracksAcc
  BY DEF BaseInv, HandlerInv
<1>. QED BY <1>1, BaseInductive, PTL DEF Spec

(* Between two handlings of ACC the notified drivers agree with acc_flag.  *)
THEOREM DriversAgree == Spec => []SubscribersAgree
<1>1. BaseInv => SubscribersAgree
  BY DEF BaseInv, HandlerInv
<1>. QED BY <1>1, BaseInductive, PTL DEF Spec

----------------------------------------------------------------------------
(* The steps of the bystanders that SleepTimerArmed depends on. *)
LEMMA BystanderTimer ==
  ASSUME TypeInv, Bystander, ~fake, accFlag = "OFF",
         armed \/ pc["timer"] \in {"t_check", "t_sleep", "t_arm"}
  PROVE  armed' \/ pc'["timer"] \in {"t_check", "t_sleep", "t_arm"}
<1> USE DEF TypeInv, TypeOK, PcInv, Step, Go, Branch, ModTimer, Actors,
            pinVars, workVars, accVars, sendVars, powerVars, countVars
<1>1. CASE RmtTimerFires \/ FbPowerdown \/ FbUnblank \/ PreWakeup \/ SleepTimeout
  BY <1>1 DEF RmtTimerFires, FbPowerdown, FbUnblank, FbEvent, PreWakeup, SleepTimeout
<1>2. CASE ObserverStops \/ Suspend \/ Wake \/ UNCHANGED vars
  BY <1>2 DEF ObserverStops, Suspend, Wake, vars
<1>3. CASE rmtctrl_timer_func
  <2>1. CASE Send("timer")
    BY <2>1, SendFrame, CallFacts DEF CallLabels
  <2>2. CASE ~Send("timer")
    BY <1>3, <2>2 DEF rmtctrl_timer_func, AccReallyOff
  <2>. QED BY <2>1, <2>2
<1>4. CASE fb_notifier_callback
  BY <1>4, SendFrame DEF fb_notifier_callback, AndroidDown
<1>5. CASE rmtctrl_write \/ lidbg_rmtctrl_event
  BY <1>5, SendFrame DEF rmtctrl_write, lidbg_rmtctrl_event
<1>6. CASE rmtctrl_pm_resume
  BY <1>6, SendFrame DEF rmtctrl_pm_resume, ReadCounter, CountWakeup, CountRepeat, Reboot,
                         ClearCount, ResumeFake
<1>. QED BY <1>1, <1>2, <1>3, <1>4, <1>5, <1>6 DEF Bystander

LEMMA StepSleep == BaseInv /\ SleepTimerArmed /\ [Next]_vars => SleepTimerArmed'
<1> SUFFICES ASSUME BaseInv, SleepTimerArmed, [Next]_vars PROVE SleepTimerArmed'
  OBVIOUS
<1> USE DEF BaseInv, SleepTimerArmed, TypeInv, TypeOK, PcInv, Levels, Step, Go, Actors,
            pinVars, workVars, accVars, sendVars, powerVars, countVars
<1>1. CASE Bystander
  BY <1>1, BystanderFrame, BystanderTimer DEF Frame, Normal
<1>2. CASE Edge \/ acc_state_isr \/ work_acc_status_handle \/ acc_detect_timer_func
  BY <1>2 DEF Edge, acc_state_isr, work_acc_status_handle, acc_detect_timer_func, Normal
<1>3. CASE acc_state_work_func
  BY <1>3 DEF acc_state_work_func, Normal
<1>4. CASE acc_status_handle("state")
  <2>1. CASE Send("state")
    <3>1. /\ UNCHANGED <<isrAdded, fake, accFlag, armed>>
          /\ pc'["dbg"] = pc["dbg"] /\ pc'["timer"] = pc["timer"]
      BY <2>1, SendFrame
    <3>2. pc["state"] = "off_screen_off" => pc'["state"] \in {"off_screen_off", "off_fork"}
      BY <2>1, SendFrame, CallFacts
    <3>3. pc["state"] \notin {"off_notify", "off_fork", "off_arm"}
      BY <2>1, SendFrame DEF CallLabels
    <3>. QED BY <3>1, <3>2, <3>3 DEF Normal
  <2>2. CASE AccOnFlag("state") \/ AccOnDelTimer("state")
    BY <2>2 DEF AccOnFlag, AccOnDelTimer, Normal, HandlerInv, PathInv, OnPath
  <2>3. CASE AccOnLock("state") \/ AccOnNotify("state") \/ AccOnPm("state")
    BY <2>3 DEF AccOnLock, AccOnNotify, AccOnPm, Normal
  <2>4. CASE AccOffFlag("state") \/ AccOffNotify("state") \/ AccOffUnlock("state")
    BY <2>4 DEF AccOffFlag, AccOffNotify, AccOffUnlock, Normal
  <2>5. CASE \/ Branch("state", "off_fork", IF fake THEN "off_fake" ELSE "off_arm")
             \/ ModTimer("state", "off_arm", "off_unlock")
    BY <2>5 DEF Branch, ModTimer, Normal
  <2>. QED BY <1>4, <2>1, <2>2, <2>3, <2>4, <2>5 DEF acc_status_handle
<1>5. CASE acc_status_handle("dbg") \/ fake_acc_off \/ FakeFlagSet \/ FakeCall
  BY <1>5, OutsideNormal
<1>6. CASE Boot
  BY <1>6, EnteringNormal
<1>. QED BY <1>1, <1>2, <1>3, <1>4, <1>5, <1>6, NextCases

(* With ACC off something will always ask user space to sleep: del_timer,  *)
(* the handler's own re-arming and the other mod_timer calls cannot leave  *)
(* the timer down.                                                         *)
THEOREM SleepTimerStaysArmed == Spec => []SleepTimerArmed
<1>1. Init => SleepTimerArmed
  BY DEF Init, SleepTimerArmed
<1>. QED BY <1>1, StepSleep, BaseInductive, PTL DEF Spec

----------------------------------------------------------------------------
LEMMA StepAwake == BaseInv /\ AwakeWhileAccOn /\ [Next]_vars => AwakeWhileAccOn'
<1> SUFFICES ASSUME BaseInv, AwakeWhileAccOn, [Next]_vars PROVE AwakeWhileAccOn'
  OBVIOUS
<1> USE DEF BaseInv, AwakeWhileAccOn, TypeInv, TypeOK, PcInv
<1>1. CASE Suspend
  <2>1. ~rmtLock /\ UNCHANGED <<pinVars, accVars, rmtLock, pc>>
    BY <1>1 DEF Suspend
  <2>2. (Normal /\ accFlag = "ON" /\ told # "none") => pc["state"] \in {"on_del", "on_lock"}
    BY <2>1 DEF HandlerInv, PathInv, LockTracksAcc, Settled, OnPath, OffPath
  <2>. QED BY <2>1, <2>2 DEF Normal, pinVars, accVars
<1>2. CASE suspended /\ suspended'
  <2>1. Edge \/ UNCHANGED vars
    BY <1>2 DEF Next, Environment, Boot, Running, Thawed, Step, Spend, FbPowerdown, FbUnblank,
        FbEvent, PreWakeup, SleepTimeout, fake_acc_off, Suspend, acc_state_isr,
        work_acc_status_handle, acc_detect_timer_func, acc_state_work_func, acc_status_handle,
        AccOnFlag, AccOnDelTimer, AccOnLock, AccOnNotify, AccOnPm, AccOffFlag, AccOffNotify,
        AccOffUnlock, Branch, ModTimer, Send, SetStatus, rmtctrl_fifo_in, RmtTimerFires,
        rmtctrl_timer_func, fb_notifier_callback, AndroidDown, rmtctrl_write,
        lidbg_rmtctrl_event, ObserverStops, FakeFlagSet, FakeCall, update_acc_status, BootForceOn,
        BootAddIsr, Wake, rmtctrl_pm_resume, ReadCounter, CountWakeup, CountRepeat, Reboot,
        ClearCount, ResumeFake
  <2>. QED BY <2>1, <1>2 DEF Edge, vars, pinVars, accVars, powerVars, Normal
<1>3. CASE ~suspended /\ ~Suspend
  <2>1. ~suspended'
    BY <1>3, SendFrame DEF Next, Environment, Boot, FbPowerdown, FbUnblank, FbEvent, PreWakeup,
        SleepTimeout, fake_acc_off, Edge, acc_state_isr, work_acc_status_handle,
        acc_detect_timer_func, acc_state_work_func, acc_status_handle, Handlers, Actors,
        AccOnFlag, AccOnDelTimer, AccOnLock, AccOnNotify, AccOnPm, AccOffFlag, AccOffNotify,
        AccOffUnlock, Branch, ModTimer, RmtTimerFires, rmtctrl_timer_func,
        fb_notifier_callback, AndroidDown, rmtctrl_write, lidbg_rmtctrl_event, ObserverStops,
        FakeFlagSet, FakeCall, update_acc_status, BootForceOn, BootAddIsr, Wake, rmtctrl_pm_resume,
        ReadCounter, CountWakeup, CountRepeat, Reboot, ClearCount, ResumeFake, vars, powerVars
  <2>. QED BY <2>1
<1>. QED BY <1>1, <1>2, <1>3

(* The system is suspended with ACC on only between the store to acc_flag  *)
(* and wake_lock, whatever suspends, edges and blanks come.                *)
THEOREM AwakeWithAcc == Spec => []AwakeWhileAccOn
<1>1. Init => AwakeWhileAccOn
  BY DEF Init, AwakeWhileAccOn
<1>. QED BY <1>1, StepAwake, BaseInductive, PTL DEF Spec

----------------------------------------------------------------------------
LEMMA StepStale == TypeInv /\ StaleInv /\ [Next]_vars => StaleInv'
<1> SUFFICES ASSUME TypeInv, StaleInv, [Next]_vars PROVE StaleInv'
  OBVIOUS
<1> USE DEF StaleInv, TypeInv, TypeOK, PcInv, Levels, Step, Go, Actors,
            pinVars, workVars, accVars, sendVars, powerVars, countVars
<1>1. CASE \E a \in Actors : SetStatus(a)
  BY <1>1 DEF SetStatus, CallLabels, OnLabels, OffLabels, OnPath, OffPath
<1>2. CASE \E a \in Actors : rmtctrl_fifo_in(a)
  <2> PICK a \in Actors : rmtctrl_fifo_in(a)
    BY <1>2
  <2>1. stale' = stale /\ accFlag' = accFlag /\ setters' = setters \ {a}
    BY DEF rmtctrl_fifo_in
  <2>2. a # "timer" => pc'["timer"] = pc["timer"]
    BY DEF rmtctrl_fifo_in
  <2>3. a = "timer" => pc'["timer"] # "t_sleep"
    BY CallFacts DEF rmtctrl_fifo_in, SetterInv, CallLabels
  <2>. QED BY <2>1, <2>2, <2>3
<1>3. CASE rmtctrl_timer_func /\ ~Send("timer")
  BY <1>3 DEF rmtctrl_timer_func, Branch, ModTimer, AccReallyOff
<1>4. CASE AccOnFlag("state") \/ AccOnFlag("dbg") \/ update_acc_status \/ BootForceOn
  BY <1>4 DEF AccOnFlag, update_acc_status, BootForceOn
<1>5. CASE /\ ~(\E a \in Actors : SetStatus(a) \/ rmtctrl_fifo_in(a))
           /\ acc_status_handle("state") \/ acc_status_handle("dbg")
           /\ ~(AccOnFlag("state") \/ AccOnFlag("dbg"))
  BY <1>5 DEF acc_status_handle, Send, AccOnDelTimer, AccOnLock, AccOnNotify, AccOnPm,
              AccOffFlag, AccOffNotify, AccOffUnlock, Branch, ModTimer
<1>6. CASE Edge \/ acc_state_isr \/ work_acc_status_handle \/ acc_detect_timer_func
           \/ acc_state_work_func \/ RmtTimerFires \/ ObserverStops \/ Suspend \/ Wake
           \/ BootAddIsr \/ UNCHANGED vars
  BY <1>6 DEF Edge, acc_state_isr, work_acc_status_handle, acc_detect_timer_func,
              acc_state_work_func, RmtTimerFires, ObserverStops, Suspend, Wake, BootAddIsr,
              vars
<1>7. CASE FbPowerdown \/ FbUnblank \/ PreWakeup \/ SleepTimeout \/ fake_acc_off
           \/ FakeFlagSet \/ FakeCall \/ AndroidDown
  BY <1>7 DEF FbPowerdown, FbUnblank, FbEvent, PreWakeup, SleepTimeout, fake_acc_off,
              FakeFlagSet, FakeCall, Branch, AndroidDown
<1>8. CASE /\ ~(\E a \in Actors : SetStatus(a) \/ rmtctrl_fifo_in(a))
           /\ fb_notifier_callback \/ rmtctrl_write \/ lidbg_rmtctrl_event
              \/ rmtctrl_pm_resume
           /\ ~AndroidDown
  BY <1>8 DEF fb_notifier_callback, rmtctrl_write, lidbg_rmtctrl_event, rmtctrl_pm_resume,
              Send, Branch, ModTimer, ReadCounter, CountWakeup, CountRepeat, Reboot,
              ClearCount, ResumeFake
<1>. QED BY <1>1, <1>2, <1>3, <1>4, <1>5, <1>6, <1>7, <1>8
         DEF Next, Environment, Boot, Handlers, Send, rmtctrl_timer_func

(* For each return of ACC, user space is asked to sleep at most once too   *)
(* many, however the timer handler and acc_status_handle interleave.       *)
THEOREM AtMostOneStaleSleep == Spec => []StaleSleepAtMostOnce
<1>1. Init => StaleInv
  BY DEF Init, StaleInv, Actors
<1>2. StaleInv => StaleSleepAtMostOnce
  BY DEF StaleInv, StaleSleepAtMostOnce
<1>. QED BY <1>1, <1>2, InitType, StepType, StepStale, PTL DEF Spec
=============================================================================
