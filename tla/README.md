# Formal models of the lidbg drivers

lidbg is a family of Linux kernel modules, and a few Android services beside
them, for car head units. This directory holds TLA+ models of its own
concurrent logic, TLC configurations that check them on small instances, and
TLAPS proofs that hold for every value of the constants. `PROJECT.json` maps
every definition to the source lines it stands for.

    tlc -config RmtCtrlSafety.cfg RmtCtrl.tla      # model-check
    tlapm RmtCtrlProofs.tla                        # check proofs

## 1. Inventory

The tree holds about 2300 files, most of them vendored (vold, ntfs and exfat
tools, touch-screen and accelerometer drivers, `uvc_cam`, alsa, libusb, i2c
tools, the FM and audio chips) or board files under `soc/`. What is the
project's own is in `core/`, in part of `drivers/`, and in `app/`.

| Component | Source | State | Operations | Hard behaviour |
|---|---|---|---|---|
| ACC state machine (boards with `SUSPEND_ONLINE`) | `drivers/powermanager/lidbg_rmtctrl.c` | level of the ACC line, two works, two timers, `acc_flag`, `rmtctrl_wakelock`, counters of abnormal wake-ups | interrupt, works, timers, framebuffer notifier, `pre_wakeup`, observer's event, resume callback, boot thread, debug entry | every context runs concurrently with the worker; `del_timer` does not wait for a running handler; suspend between an interrupt and its work; unprotected counters |
| Status queue `/dev/flyaudio_pm0` | same file, 79-87, 121-127, 309-345 | `status`, kfifo of 128 entries, `is_kfifo_empty`, semaphore, wait queue | `send_app_status`, `rmtctrl_read` | store and insertion are two steps; the flag is one for all readers and is tested outside the semaphore; a full queue drops the newest |
| Staged power manager (the other boards) | `drivers/powermanager/lidbg_powerkey.c` | `status`, two completions, a timer, queue | blank, unblank, timer, two threads, read | tests of `status` and stores to it are apart; timer races with the notifier; a full queue drops the newest |
| Power command device, observer | `drivers/powermanager/lidbg_pm.c` | `system_status`, `pm_wakelock`, `user_wakelock` and its count, observer's completion and seconds | commands written to `/dev/lidbg_pm0`, suspend states, `thread_observer`, which relaxes every lock after ten minutes | timetable against ACC; completions that pile up; lock count against lock |
| Shared interface | `drivers/interface/lidbg_interface.c` | `g_var` | function table | fields written by several drivers |
| FlyBootService | `app/apps/LidbgPmService/.../FlyBootService.java` | last status read | read loop; answers by commands | answers a status that has been overtaken |
| MCU link `/dev/fly_lpc0` | `drivers/lpc/lidbg_lpc.c` | frame parser, two byte queues, `is_kfifo_empty`, two works, request and busy lines, `lpc_wakelock` | read, write, poll, two interrupts, suspend, resume | partial insertion in a nearly full queue; frames spread over transfers; data queued while the MCU is busy; an edge as the work ends, or with the interrupts off over a suspend |
| S32K SPI link | `drivers/s32k_ipc/s32k_ipc.c` | exchange state, frame numbers, two queues, three completions | exchange with ACK, NACK, RESEND | one completion shared by three contexts; no detection of a resent frame |
| HAL channels | `drivers/hal_comm`, `drivers/module_comm` | list of channels, each with a queue, a lock and a wait queue | ioctl: write, read, broadcast | one mutex for the list, one lock a queue; the oldest message is given up; the wait is outside the lock; a failed `kmalloc` keeps the mutex |
| Shell command queue | `core/lidbg_uevent.c`, `app/lidbg_userver` | byte queue of length-prefixed records; the command being run | `lidbg_uevent_shell`, read, poll; the server's loop | room and emptiness are tested outside the mutex, and `kfifo_in` cuts what has none; the server runs commands that call the driver, and waits for them |
| Message ring, servicer | `core/lidbg_msg.c`, `core/lidbg_servicer.c` | ring of 100 lines | print, read | overwriting unread lines |
| Notifier chain | `core/lidbg_notifier.c` | the kernel's | call | synchronous calls into other drivers |
| Configuration store, logs | `core/lidbg_fs_*.c`, `core/lidbg_mem_log.c` | list of key and value records; ring of characters | load, set, append | several writers |
| Camera control | `drivers/flycam/lidbg_flycam.c` | recording state, completions | start, stop, reset | a timeout racing a late answer |
| Loader, buses, GPIO | `core/lidbg_loader.c`, `lidbg_i2c.c`, `lidbg_spi.c`, `lidbg_io.c` | little | one transfer per call | kernel code does the work |
| Peripherals | `drivers/ad`, `temp`, `gps`, `button`, ... | last sample | polling threads | little |

How they meet: the two power managers are alternatives, chosen by
`SUSPEND_ONLINE`. Either posts statuses on `/dev/flyaudio_pm0`;
FlyBootService reads them in a loop and answers by commands on
`/dev/lidbg_pm0`, which the power managers write to as well; `lidbg_pm` takes
and releases `pm_wakelock`, sets `system_status` and tells the notifier chain.
`acc_flag` is read everywhere and written by the power managers (and, at boot,
by two probes). The observer of `lidbg_pm` is started when the power managers
announce ANDROID_DOWN, and undoes, ten minutes later, what locks they and user
space still hold. Every driver may hand a command to the shell queue, and a
command may write to any driver's node. The HAL and its clients exchange
messages over channels that neither end opens: the first who names one makes it.

What makes each correct, in short: no edge of the ACC line is lost, and
`acc_flag`, the wake lock, the drivers told and the sleep timer agree with it;
the status user space ends with is the driver's; no stage of the staged
manager is a dead end; no frame or record of a byte queue is cut or misread; an
exchange with the MCU delivers each frame once; a queue's reader is woken; a
broadcast reaches every channel; commands are read whole and in order; locks that
user space forgot do not keep the unit awake for ever, and the observer does not
take the ACC_ON lock away but in the race the code allows.

## 2. Modules

| Module | What it is | Checked by | Proofs |
|---|---|---|---|
| `RmtCtrl` | the ACC state machine with the two `lidbg_pm` commands it uses | `RmtCtrlSafety`, `RmtCtrlLive`, `RmtCtrlFake`, `RmtCtrlBoot` | `RmtCtrlProofs` |
| `StatusChannel` | what the status queue promises, abstractly | through `StatusFifo` | |
| `StatusFifo` | the status queue as it is coded | `StatusFifo` | `StatusFifoProofs` |
| `PowerKey` | the staged power manager with its `lidbg_pm` commands | `PowerKey` | `PowerManagerProofs` |
| `McuWire` | frames, parser and queue records of the MCU link, as operators | through the next three | `QueueProofs` |
| `McuParser` | the frame parser against a reference definition | `McuParser` (`MCMcuParser`) | in `McuReceiveProofs`, which has its bytes from the MCU |
| `McuReceive` | from the MCU to `lpc_read`; extends `McuParser` | `McuReceive` (`MCMcuReceive`) | `McuReceiveProofs` |
| `McuSend` | from `lpc_write` to the MCU | `McuSend` (`MCMcuSend`) | `McuSendProofs` |
| `HalComm` | the channels of `lidbg_hal_comm` | `HalComm` (`MCHalComm`) | `HalCommProofs` |
| `PmObserver` | the observer of `lidbg_pm`, the wake locks it relaxes, the lock lent to user space | `PmObserver` | `PowerManagerProofs` |
| `UeventShell` | the shell command queue and its server | `UeventShell` (`MCUeventShell`) | `UeventShellProofs` |

### RmtCtrl

Each context the kernel may run concurrently is an actor with a program
counter: the boot thread, the `acc_state_work` worker, the softirq of
`rmtctrl_timer`, the framebuffer notifier, a writer of the device, the resume
callback, the observer's notifier call and the debug command. The interrupt,
the first work and the debounce timer are single actions, because each does
one thing to the shared state. `acc_status_handle(a)` is one step per access to
the state: the flag, `del_timer`, the wake lock, each half of `send_app_status`,
the notifier chain, the command to `lidbg_pm`. A call of `send_app_status` is
two steps at every call site (`SetStatus`, `rmtctrl_fifo_in`); the table `Calls`
says what each site sends and where it returns. Works and timers are flags: a
work or timer that is pending is not queued twice, one whose handler runs may
be. `unormal_wakeup_handle` reads a counter into `reg` and writes it back in
another step, because the increments are not protected.

Abstracted: delays (an armed timer may fire at any time, which includes every
timing of 3, 15 and 30 s), the LCD, amplifier and MCU pins, properties, logs,
and the commands of `lidbg_pm` that only set `system_status`. `posted` is the last
status handed to `rmtctrl_fifo_in`; the queue, and what it drops, is `StatusFifo`'s. The
reboot after an abnormal wake-up is a command queued for user space, and the resume
goes on: the system comes down, or does not. In recovery mode
the boot thread does not start: that is the behaviour of the model in which the
actor `boot` takes no step.

`stale`, `edgeSeen` and `setters` are the only variables the code does not
have: the first two are history, the last is the middle of `send_app_status`.

### StatusFifo and StatusChannel

Statuses are numbers in the order of their stores, so "older" can be said. One
step of `StatusFifo` is one access: the store, `down` with the read of `status`,
`kfifo_in`, the flag with `up`, the wake-up; and of the reader, the store to the
flag, the test, the test of `wait_event`, the length, `kfifo_out`. A critical
section of the reader is one step when it contains one access to the queue.
Readers may be interrupted while they sleep (the freezer does it on suspend).

`StatusChannel` says what is left when the semaphore, the flag and the wait
queue are forgotten: a register and a bounded queue; a caller stores, then
posts what is then in the register. `ImplementsChannel` maps a sender between
its store and `atomic_read` to an owing sender, and counts a status as posted
when `rmtctrl_fifo_in` reads it, since it holds the semaphore from there on.

### PowerKey

`status` is a number, as in the enumeration, for the timer increments it. Each
test of `status` and each store is a step. The polling thread's GPIO level and
its count of ten polls are abstracted to a choice at each poll.
`powerkey_state_fifo` holds `Capacity` statuses (128 in the code); `powerkey_fifo_in`
puts the status it reads into it, or loses it when it is full (`lost`), since the code does
not look at what `kfifo_in` took. User space, one reader, takes a status in its own
time or never (`powerkey_read`), and, having read `GOTO_SLEEP`, answers with `gotosleep`,
when it likes or never. So what is said of the last word
(`LastStatusPosted`) is said of the queue's last status, and only if the
queue had room for it.

The model shows behaviours a reader of the code may not expect; none
contradicts a statement of the repository, and the properties below hold in
spite of them. A timer handler that has tested `status` before
`powerkey_resume` stores `SCREEN_ON` increments past it, to the number of
`FLY_SLEEP_TIMEOUT`; blank events are ignored until an unblank. A request for
fastboot that is answered late arms the timer again and skips a stage, or moves
on from `GOTO_SLEEP`. An unblank during `ANDROID_DOWN` or `GOTO_SLEEP` is
dropped. A late `gotosleep` releases `pm_wakelock` with the screen on.

### McuWire, McuParser, McuReceive, McuSend

The two directions of the MCU link share no state but the interrupts' being
disabled by `lpc_suspend`, so each is a module of its own; the formats they
share are operators in `McuWire`. Queues are sequences of bytes, as the kfifos
are, because what can go wrong is that a record is cut and a length read out of
the middle of data. `Feed` is one turn of the parser's loop, `Delivers` its call of
`LPCReadDataEnqueue`; the payload is `buffFromMCU` up to `buffFromMCUFrameLength`.
A frame of length zero makes the payload endless, as the unsigned
`buffFromMCUFrameLengthMax - 1` does. The code does not look whether `buffFromMCU`, of
128 bytes (`BuffSize`), has room for the next byte, and stores the 129th
over the parser's own state. `Feed` has no such end; `Overruns` says which byte does
it. The two `kfifo_in` of a record are one
insertion of `Record`, since nothing comes between them under the lock and a
queue with room for less takes the same bytes.

`McuParser` is `readFromMCUProcessor` a byte at a time, with what it has been fed
and has delivered, and with a note of the first overrun (`overrun`), where the systems
built on it end: what they say of the driver they say up to there. `FramesOf`, which it is compared with, looks at the whole stream
at once. `MCMcuParser` feeds it any bytes. `McuReceive` extends `McuParser` and
feeds it what comes over the bus, so what is said of the parser there is said of
the driver's.

`McuReceive`: the work is a step per test of the line, per transfer and per
byte parsed; `LPCReadDataEnqueue` a step under the lock, one for the flag, one
for the wake-up. `lpc_read` is a step per critical section and one for the test
of the flag; there is one reader. A failed transfer (`ReadFails`) leaves `buff` as
it was, which for the first transfer of a work is what is on the stack: zeros or
the last work's chunk stand for it; the MCU has then given away none of its bytes, or
all of the chunk. `McuSend`: writers, each with a step that
enqueues and a step that queues the work; the work has a step per test of the
busy line, per record taken, and one for the end of the work, which may be queued
again before it has ended (so does the receiving work).

What stands outside the source: the MCU (request line low while it has bytes,
zeros when it is asked for more than it has), and the interrupt controller,
which keeps an edge that comes while the interrupt is disabled, as the kernel
does for edge interrupts. Abstracted: the timeout of `lpc_wakelock` (it may
expire at any time) and `lpc_work_en`, which is never cleared. The system's
workqueue is not frozen, so works may run between `lpc_suspend` and the suspend
itself; the reader and the writers do not.

`due`, `got`, `written`, `wire`, `torn`, `lost`, `overrun` and the counts are history.

### HalComm

Each caller of `hal_comm_ioctl` is an actor. A call takes `list_mutex`, looks
its channel up (`search_each_node`), makes it when it is missing
(`add_node_list`), and then writes under the channel's `rw_lock` or waits. A
broadcast keeps the mutex and walks the list. A message is a length and its
words; `put_buf_fifo` and `get_buf_fifo` are a step per access to the kfifo, so
that what keeps a record whole is the lock and not the model. A caller that
waits for a lock has no step: it is where it was. `born`, `casts`, `sent` and
`got` are history: which broadcasts a channel was there for, what its queue took
and what a caller last read.

The model reads on `lidbg_hal_comm.c`; `lidbg_module_comm.c` differs in names
and in the size of the queue. The type `char` of a channel is compared with 0xff,
which works where `char` is unsigned, as it is on ARM. A message has at most `ArgvSize`
words: the code copies it to `argv`, 1024 bytes on the stack, without a look at its
length, for which the ioctl's number has 30 bits, and what a longer one
overwrites is not modelled. With the code's own sizes (1024 bytes and a queue of 16384) no
message that `argv` holds is refused; the run takes a smaller queue to go through that
branch, too. Left out: messages of length zero, a `copy_from_user` that fails, and a failed `kfifo_alloc`, which
the code only logs (a put into such a queue would look for room for ever, with
the lock held).

When `kmalloc` fails for a node the call returns with `list_mutex` held and no
later call gets past it. No statement of the repository is about it, so it is
no finding; `MutexComesFree` excepts it, and it stands in the list of hazards as one
no property covers.

### PmObserver

What is shared between `thread_observer` and the rest is modelled around it:
`acc_flag` with the lock of ACC_ON (`AccOn`, `TakeLock`, `AccOff`,
`ReleaseLock`, the steps `RmtCtrl` has in full), `pm_wakelock`, the user lock with
its count, and the suspend states, which reset the thread's seconds. The marks of the
timetable are constants: the unlock (`ForceAt`, 600), the reboot under `Protect`
(`RebootAt`, 1140) and the end of the power (`PowerOffAt`, 1800); the other marks log or
post a status that `RmtCtrl` takes. `have_triggerd_sleep_S++` is a load and a store,
because the suspend's reset may come between. `kernel_wakelock_force_unlock`
relaxes the locks one by one (`Relax`). User space's lock is a count and then a
lock, in two steps, per user.

The count may go below zero in the code, and a lock then is not taken; no user
of the model gives back what it has not taken.

`RmtCtrl` leaves this unlock out: there `LockTracksAcc` and `AwakeWhileAccOn`
speak of a unit whose observer has not come to its ten minutes.
`LockLostOnlyInRace` says when they fail with it: only when ACC came on behind the observer's
last look. `ws_lh`, the list of the kernel's locks, is set by the kernel outside
the repository (`lidbg_interface.c:507` stores NULL), and `Protect`, which
starts false (524-528), decides whether the unit is rebooted at `RebootAt`. A blank with ACC
on starts a watch too; it finds ACC on and leaves, and has used its start up.

### UeventShell

`lidbg_uevent_shell` is a step for the end of its loop, for the length, for the
command and for the wake-up; the two kfifo insertions are apart because others
test the room between them. `lidbg_userver` is the only reader, so it is the
actor `Server`; what it runs is a command whose `Script` says which commands the
handlers it reaches queue, and for those the server itself goes through
`lidbg_uevent_shell`. A command that ends in `&` is another caller. `ready` is epoll's
list of nodes with something to read; epoll is the kernel's and is modelled from how
`lidbg_userver` registers (level-triggered): a node is taken off, polled again, and
put back if there is something to read.

A command of the model is its characters, a length takes one place where the code's
takes four bytes. `Capacity` is what `kfifo_alloc` makes of FIFO_SIZE, and nothing is
assumed of it: 78000 bytes become 131072, or 65536 on a kernel before 3.9, such as the 3.4
that some platforms are built with. Nor is the number of callers bounded. So
`kfifo_in` may cut a record: callers who pass the test together share the room of one,
and with 65536 bytes one caller is enough. `torn` says that it has happened; from then on
`lidbg_uevent_read` takes text for lengths and copies as many bytes to its stack, which is
not modelled: the model ends. `ahead` is the most processes that had found
room, and not yet used it, when one more found it. `CommandsReadInOrder` says both
when a record can be cut, only if FIFO_SIZE and a record for each of those
ahead do not fit (`TooMany`; with 131072 bytes that takes some 200 callers at once), and that until then
all is read in order.

`lidbg_userver` builds the line it runs, the command with its redirection, in 256
bytes. A command longer than `LineSize` (about 238 characters) has its line cut: the shell may
run it as it is, with the redirection's rest as an argument, or not understand it. `ScriptsOf`
leaves open whether the handlers it would have reached are reached. The properties therefore
speak of what `lidbg_userver` is handed (`taken`), not of what the shell makes of it.

## 3. Runs

| Run | Bounds | States | What it shows |
|---|---|---|---|
| `RmtCtrlSafety` | 3 edges, 1 blank or unblank, 1 `pre_wakeup`, 2 suspends; counter limits 0 and 1 | 4.1 M | `TypeOK`, `NoLostEdge`, `SleepTimerArmed`, `StaleSleepAtMostOnce`, `LockTracksAcc`, `AwakeWhileAccOn`, `SubscribersAgree` |
| `RmtCtrlLive` | 2 edges, 1 blank, 1 suspend, 1 timeout report | 177 k | `AccConverges`, `SleepAskedAgain` |
| `RmtCtrlFake` | 1 edge, 1 blank, 1 suspend, 1 timeout report, 1 `fake_acc_off` | 452 k | `FakeEndsSleepLoop` |
| `RmtCtrlBoot` | 1 edge | stops at the violation | finding: `AccOffAtBootAnswered` is violated |
| `StatusFifo` | 2 senders, 2 readers, queue of 2, 4 calls | 26 k | `TypeOK`, `SleeperWillBeWoken`, `InOrder`, `LastPostedIsStatus`, `ImplementsChannel` |
| `PowerKey` | 3 blanks or unblanks, 1 suspend, queue of 1 | 747 k | `LastStatusPosted`, `FlagFollowsStage`, `StageWillBeLeft`, `ChainEnds` |
| `McuParser` | streams of up to 8 bytes of {0, 1, 2, 85, 255}; 5 payloads framed; `buffFromMCU` of 3 bytes | 479 k | `ParsedAreFrames`, `RoundTrip` |
| `McuReceive` | 2 messages, queue of 12 bytes, `buffFromMCU` of 9, 2 failed transfers, 2 suspends | 500 k | `TypeOK`, `NoRequestStranded`, `WholeRecords`, `DeliveredInOrder`, `EmptyReadsAreRare`, `EverythingRead` |
| `McuSend` | 2 writers, 4 writes of 2 messages, queue of 16 bytes, MCU busy twice, 1 suspend, `CHECK_MCU_BUSY` | 434 k | `WholeFrames`, `NoDataStranded`, `EverythingSent` |
| `HalComm` | 3 callers, a channel and the channel of type 0xff, messages of 1, 2 and 4 words, `argv` and queues of 4 words, 2 writes, 1 failure of `kmalloc` | 627 k | `WholeRecords`, `BroadcastsReachAll`, `SleeperWillBeWoken`, `MutexComesFree` |
| `PmObserver` | 2 users, 4 changes of ACC, 2 starts, marks at 2, 3 and 4 s | 268 k | `NightWatched`, `LockLostOnlyInRace`, `UserLockGivenBack`, `StuckLocksEnd` |
| `UeventShell` | 2 callers, 4 calls, commands of 0, 2 and 3 characters, of which the last queues two more; FIFO_SIZE 7, capacity 8, lines whole up to 2 characters | 659 k | `CommandsReadInOrder`, `CommandsAreRead` |

Why the bounds are enough. Three edges are an ACC_ON, ACC_OFF, ACC_ON sequence
from either level, so a handler for one level can be overtaken by the two that
follow; the second suspend is entered from a state an earlier wake-up left.
`UNORMAL_WAKEUP_CNT` is 300 in the code; 0 makes every wake-up with ACC off an
abnormal one, and `RepeatMax` 1 reaches the reboot. A queue of two with four
calls is full, and overfull, with both senders in the middle of a call; two
readers are needed for one to take what the other was woken for. Three blank
events let an unblank come before, inside and after each stage of a chain that
another started. Eight bytes are two empty frames, or one with data and garbage
before or after it, and the alphabet has both bytes of the preamble and the
lengths that can end within eight. The first frame to receive, of
13 bytes, does not fit one transfer of 12, so its parsing goes on in the next chunk,
and a parser that began each chunk anew would lose it and deliver the second; its
payload holds the two bytes a frame begins with. The queue of 12 takes the first
record, cuts the next unless the reader comes first, and is then full for the one
after it. That third record is there when two transfers fail: one makes the next
transfer a long one, which takes the frame whole, the other makes the driver parse
that chunk again. The second suspend is entered from what the first has left.
The queue of 16 takes both records exactly, and cuts or refuses the third.
In `HalComm` the two writes and the queue of four make one message give way to
another, and the message of four is refused; with three callers a channel can be
made while another broadcasts and a third sleeps. In `PmObserver` two starts
are one too many for the thread, and four changes of ACC let it come on, go and
come on again behind a look. A queue of one is full in `PowerKey` as soon as user
space leaves a status unread. In `McuParser` three bytes of `buffFromMCU` are
overrun by the frame of the longest of the five payloads, by others of the streams and by
those with a frame of length zero; in `McuReceive` the nine bytes hold both messages, and
are overrun by what the driver makes of failed transfers. In `UeventShell` the queue has
room for a record of one of those who found room together, and two of them do cut
one; the server meets a full queue with a command of its own; the command that queues two
more is one whose line is cut. What holds for every bound is proved (section 5).

Deadlock is not checked: when the bounds are spent a run may rest, as the
drivers do when nothing happens; `lidbg_userver` may wait for itself; and a model
ends with an overrun or a cut record.

**Finding.** `RmtCtrlBoot`: the boot thread samples the ACC line and, in the
next line (501), overwrites the sample with 1 before it tests it for
`FLY_ACC_OFF`. Its name,
`thread_check_acc_and_response_acc_off_delay`, and the message of the branch it
can no longer take, `<response_acc_off,more delay 20S`, say otherwise. With ACC
off at the end of the boot the head unit stays awake until the line moves.

## 4. Fairness

Weak fairness is assumed of contexts that are scheduled once they are ready: a
queued work, an armed timer, a thread that has a completion, an interrupt that
is latched, a handler in its middle. It is not assumed of the environment: no
edge, blank, write, suspend, `gotosleep` or status need ever come. A suspended
system is assumed to wake, because `lidbg_rmtctrl_probe` registers an alarm
period (`alarmtimer_wakeup_time`, line 521) that ends a suspend at the latest.
The MCU is assumed not to stay busy, and `lpc_resume` to follow `lpc_suspend`;
`lpc_read` is assumed to be called again, for it is the only thing that empties
its queue; the MCU need not send, transfers need not fail, and nobody need
write. Where a model ends (a `buffFromMCU` overrun, a record cut) nothing is assumed to go
on, and the liveness properties except it. In `PowerKey` no `powerkey_read` need
come. In `StatusFifo` user space is assumed to read again and again, as the loop of
FlyBootService does; a sender's store has no fairness, its insertion and
wake-up have. In `HalComm` a call that has begun goes on; nobody need call, and a
sleeper need not be interrupted. In `PmObserver` only the thread is scheduled:
ACC, users, starts and suspends may come or not. In `UeventShell` a call that
has begun goes on and `lidbg_userver` runs; `CommandsAreRead` asks nothing of a caller that waits for
room, for msleep gives it no turn.

## 5. Proofs

All theorems hold for every value of the constants, under the assumptions named
in the modules (bounds are naturals; `RepeatMax`, `BuffSize` and the `Capacity` of a
status queue are not 0; a sender is not a reader; a message framed is bytes, fewer than
255; a message to a channel fits `argv`; the shell queue's callers are finitely many
and twice a command is less than FIFO_SIZE).
Each module proves an inductive invariant, built from named parts, with one step per action;
TLC checked each of them on the runs' instances before it was proved.

`StatusFifoProofs`. Order: a sender that holds the semaphore has read a status no
older than any posted (`NewerThanPosted`), because it reads inside the critical
section. Last word: when nobody is about to read, the holder has the newest
(`LastRead`). Wake-ups: the shared flag may be stale only while a sender is
about to clear it, and a sleeper over data has a sender on its way to wake it
(`WakeInv`). `ChannelSafety`: every step maps to a step of `StatusChannel` or a
stutter.

`RmtCtrlProofs`. `PcInv` says who may be where, `SetterInv`, `CountInv` and
`FakeInv` what that implies; `TypeOK` needs `CountInv`, because the counter's
bound holds only together with that of `reg`. `EdgeInv` strengthens
`NoLostEdge` with the sample the worker is about to act on (`SampleInv`).
`PathInv` relates `acc_flag`, the lock and the drivers told at each label of
`acc_status_handle`; only the worker runs it in normal operation
(`OriginInv`, `QuietInv`). `HandlerInv` does the same for the sleep timer, and
`StaleInv` bounds what a timer handler may still send after ACC came on.

`PowerManagerProofs`, `PowerKey`. `Pending` says that a store to `status` has not been read by
the worker: each is followed by its own completion. With none pending,
whatever the worker has read is up to date (`ReadInv`), so the flag it stored is
that of the stage (`FlagInv`), and a passing stage has a timer, handler or
thread on its way (`LeaveInv`).

`QueueProofs` has the lemmas about `McuWire` and about sequences that all proofs
about queues rest on. What a recursive function computes for every sequence is proved by
induction; since the provers cannot instantiate the library's induction theorems,
which take an operator, induction is stated over a set (`NatInd`, `SeqInd`: a set
that holds 0 and the successor of each of its members holds every natural) and
proved from the least element of a nonempty set of naturals. On it stand: `FlattenSeq`
grows at both ends by what is put there; the checksum of a longer sequence;
`Parse` of two sequences one after the other; `FrameParse`, that `Feed` takes in the frame
of a payload whole, at its last byte; `ScanIsParse`, that `Feed`,
byte by byte, delivers what the scan of `FramesOf`
finds (both are facts about `Feed`, which is the driver's parser up to an overrun:
what is claimed of the driver is claimed in `McuReceiveProofs`), by induction from the end of the sequence, with a case for a frame that is
good, bad, unfinished or of length zero; and rows. A row of any records, whatever the function that gives a message its record
(`RowOf`), grows by a record at its end and loses one at its head; the MCU link, the
HAL channels and the shell queue each have rows of their own form. On those of the MCU
link `Enqueue` puts a record that fits behind a row, and `ReadLength`, `Payload` and
`AfterRecord` take the first off one.

`McuReceiveProofs`. `RequestsServed` is inductive as it stands, as is the
property of `DataNotStranded` in `McuSendProofs`, with `TypeOK`. `EmptyReads` needs
`Credit`: a read that is going to find nothing has been paid for by a call of
`LPCReadDataEnqueue` that has not been used up. `ParserInv`: parser and deliveries are
`Parse` of the bytes fed, from which `ParsedAreFrames` follows by
`ScanIsParse`, for all that has been fed until `buffFromMCU` is overrun and the system
ends. `RoundTrip` follows from `FrameParse` and, for the buffer, from the
course a frame takes through the parser (`FrameCourse`, `FrameCut`): it stores nothing
past the end unless the payload is longer than `buffFromMCU`, and then it does. `RowInv`: the
queue is the row of what is due, until a record is cut, and then nothing is due
until it has run empty; a record that is cut may be the last piece the queue has
room for, so a queue torn is not a row and nothing can be said of it.
`DeliveredInOrder` needs `SentInv`, which looks ahead: with no failed transfer, the
parser, fed what is left of the chunk and all that the MCU still holds, will have
delivered what was sent, so that chunks may end anywhere in a frame; and
`OrderInv`, that what was delivered is what was read and what is due. The property
says both that nothing read or due is foreign or out of turn, and that nothing is
missing once the MCU has no bytes left and the last chunk is parsed.

`McuSendProofs`. `FramesStayWhole` has the same row of what is due (`FramesInv`),
with frames, none of them empty, for records.

`HalCommProofs`. `PlaceInv` says that who works on a channel has a place in the
list, and the four sequences keep one length. `MutexInv` and `ListInv`: whoever is
between the search and the addition holds the mutex, so a missing channel is
added once. `Served` says what one queue's history owes to the broadcasts begun,
from the number it was born with to the last that has passed its place; a
broadcast extends it to one place after the other. `NoLostWakeUp` is inductive
with the type. `RecordsStayWhole`: a queue whose lock is free holds the newest
records of its history (`Free`), and so does one whose holder is about to put or to
give up a record; in between, the length of a record is out, or in without
its message, and `Part` says so for each place in `put_buf_fifo` and `get_buf_fifo`
(`Holder`). A step touches one queue, that of a lock its caller holds or finds
free, and no two callers hold one lock (`RecordsOfChannel`).

`PowerManagerProofs`, `PmObserver` (its definitions are called `Observer...` where both
modules have one). `DueInv` (a watch is due only with ACC off) carries
`NightWatched`; `LookInv` says that what the thread acts on still holds or ACC
came on behind it; `HandlerInv` follows the handler's branch and its lock;
`UserInv` says that the count is the number of users between the increment of
their lock and the decrement of their unlock. Its cardinality facts are lemmas.

`UeventShellProofs`. That commands stay whole hangs on the room: `kfifo_in` cuts
what it has no room for, its result is not looked at, and the room was tested before
the mutex was taken. `RoomInv` says how far the queue can be filled. `Crowd` are the
processes that have found room and not used it up; there is never more than one besides
the `ahead` that the last of them found there. `Admitted` are those of them who have not yet put in
their length, `Coming` is what the last length in the
queue still announces, `Load` is the queue and `Coming`. A process that finds room
leaves itself twice its command below FIFO_SIZE, and each of the others that were
admitted meanwhile adds at most the widest record (`Widest`). So, with k admitted,
the load and the record of one of them lie below FIFO_SIZE and `Widest` for each of those
ahead but k - 1 (`Limit(ahead, k - 1)`): which one is not known, for they may put in in any
order, and when one has, the bound for k - 1 gives up its `Widest`. Nothing is assumed of
the capacity or the number of callers. When a record is cut, what was bounded did
not fit, so `Limit(ahead, 0)` is more than the capacity (`Overfull`, `TornStep`): that is
`TooMany(ahead)`, and `RoomForAll` is the whole of it.

Until then the queue is a row of records (`QueueInv`): it
holds the records of what was sent and not read, or, with the mutex held, is a length ahead
or a length behind (`Holds`). The test for emptiness before the mutex is sound
because the server alone takes out: a queue it has found with something in it still
has (`QueueInv` again). `OrderInv` is `TooMany(ahead)` if a record is cut, and these
invariants if not; `CommandsInOrder` follows.

`ServerWaitsForEver` says what the exception in `CommandsAreRead` is worth: if a
handler that a command of the server reaches finds no room, the server waits for the
room that it alone could make, and from then on no command is read. TLC reaches such a
state on the run's instance. No statement of the repository is about it, so it is a
hazard and no finding.

The type invariants of `PowerKey`, `McuSend`, `HalComm`, `PmObserver` and `UeventShell`
are theorems and not repeated by a run.

Only model-checked: the liveness properties, the fairness part of `ImplementsChannel`
(liveness under fairness is out of the prover's reach), and `FakeEndsSleepLoop`. Every
safety property that a run checks is a theorem.

## 6. Not modelled

The components marked `not_modelled` in `PROJECT.json`, each with its reason there.
Of those with state of their own:

- the S32K link. Its resend path calls `Enable(socSRQEnable)`
  (`s32k_ipc.c:544`), which passes a flag's value where a pointer is
  expected, so nothing can be said of what follows a resend; and what the MCU
  does with a NACK is not in the repository.
- the camera control, which is mostly commands to user space and ioctls of
  `uvc_cam`, whose answers are not in the repository.
- the message ring, the in-memory log and the configuration store: debugging
  aids, or lists filled at start-up.
- FlyBootService, but for its read loop (the reader of `StatusFifo`) and its
  `gotosleep` (an action of `PowerKey`).

Of the modelled components: the initialisation order of the probes (a
framebuffer event may come before the queue exists); that `down` may not sleep
in a timer's softirq; a second reader of the staged manager's queue; the
debugging commands of `lidbg_pm` (`ws` and `power_on_off_test`); writes of
`acc_flag` by the touch-screen and I2C probes at boot, before the ACC interrupt
is added. Of the MCU link:
`LPCCombinDataStream` when the kernel sends past the queue, `lpc_poll` and the
command `debug raw`.

Three of the code's stores are past the end of a buffer, and what they overwrite is
outside every model: the byte behind the 128 of `buffFromMCU` (`lidbg_lpc.c:197`; the
models of the MCU link end there, the theorems speak of what comes before), a message
behind the 1024 bytes of `argv` (`lidbg_hal_comm.c:304`; an assumption of `HalComm`
excludes it) and what `lidbg_uevent_read` copies after a record was cut
(`UeventShell` ends with the cut).

In a few places a store and the code's next read of what was stored are one step: the
counter of abnormal wake-ups (`CountWakeup`), `acc_flag` as the system wakes (`Wake`),
the seconds and their look-up in the timetable (`StoreSeconds`). Another actor's store that
came just between is in the model one that comes just before or after.

## 7. Plan

`PmService`: RmtCtrl's senders, `StatusFifo` and the read loop of
FlyBootService with its answers: a sleep request that has been overtaken by
ACC_ON must not be obeyed.
