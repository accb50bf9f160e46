# Verification of the A311Y3 kernel drivers

The repository holds three Linux drivers of the Amlogic A311Y3: **ADLA**, the
driver of the NPU (`modules/adla/source/adla/kmd/drv`), the **W2L Wi-Fi**
full-MAC driver (`modules/w2l/source/aml_drv`) and the **W2L Bluetooth**
transport (`modules/w2l/source/aml_bt`), with firmware images, register maps and
user-space headers.  This directory models their control logic in TLA+, checks
the models with TLC and proves the main invariants with TLAPS.

Paths below are relative to `modules/adla/source/adla/kmd/drv` unless they say
otherwise.

## 1. The system and its parts

### ADLA

| part | state | operations | who calls it |
|---|---|---|---|
| invocation queue (`common/adlak_submit.c`, `adlak_queue.c`) | `pending_list`, `scheduled_list`, `finished_list`, `pending_num`, `sched_num`; one reserved `struct adlak_task` per sub-task | invoke, cancel, delete all, schedule, report, wait | ioctls (under `dev_mutex`, except WAIT), inference thread; list operations under `wq_mutex` |
| inference thread (`common/adlak_inference.h`) | `ptask_sch_cur`, `net_id_invoke_previous`, `reset_hw_enable`, `device_state` | poll, schedule, reset, execute, wait for the interrupt, report, signal | itself |
| interrupt path (`adlak_device.c`, `adlak_interrupt.c`, `adlak_hal_gen3b.c`) | `pwq->ptask_sch_cur`, `sem_irq`, the interrupt status and mask | top half; `adlak_irq_proc`; reset | the device; the thread after a timeout |
| contexts (`common/adlak_context.c`) | `state`, `ctx_idle`, `invoke_state`, `invoke_cnt`, net id | open, register, destroy network, release | file operations |
| TEE (`common/adlak_tee.c`) | a model in the secure world | execute, blocking | inference thread |
| memory (`common/adlak_mm.c`, `common/mm`) | pools, bitmaps, IOMMU tables, a context's buffers | alloc, free, attach, map | ioctls |
| power (`adlak_dpm.c`, `adlak_platform_device.c`) | `pm_suspend`, `sem_pm_wakeup`, clock stage | suspend, resume, stage adjust | PM core, inference thread |

The parts meet in three places: the lists under `wq_mutex`; the two semaphores
`sem_irq` (interrupt to thread) and `invoke_state` (thread to waiter); and the
handshake of a release with the thread, `CONTEXT_STATE_CLOSED` one way and
`ctx_idle` the other.

### Wi-Fi and Bluetooth

Paths of this part are relative to `modules/w2l/source/aml_drv`.

| part | state | operations | who calls it |
|---|---|---|---|
| command manager (`aml_cmds.c`) | `state`, the list `cmds`, `queue_sz`, `next_tkn`; a `struct aml_cmd` per call, with flags, result and completion | `queue`, `llind` (acknowledgement), `msgind` (confirmation), `next_cmd`, `drain`, `deinit` | `aml_send_msg` in any context; the interrupt; `aml_msg_task` (SDIO, USB); `aml_platform_off` |
| mailbox (`ipc_host.c`) | `msga2e_hostid`, one message in shared memory | push, acknowledgement | senders, `aml_msg_task`, on PCIe the interrupt |
| waits for the queue (`fullmac/aml_main.c`) | none | `aml_close`, suspend poll `queue_sz` | the network stack |
| RX reorder (`aml_reorder.c`) | per station and traffic class a window (`ssn`, `lsn`, `buf_size`), a buffer, `in_buffer`, a packet number; one aging list | enqueue, BAR, ageing, ADDBA, DELBA, key change, reset | the RX task; the IRQ task (messages); suspend and recovery |
| shared memory (`aml_sdio_usb_rx.c`, `aml_sdio_usb_tx.c`, `aml_irqs.c`) | `tx_page_free_num`, `tx_page_tot_num`, two stop flags, `rx->fw.*`, `rx->fw.confirm` | take and confirm TX pages, stop and start TX, drain RX, confirm a layout | the TX, TX confirmation and IRQ tasks; the firmware through registers |
| recovery (`aml_recy.c`) | a flag set and a link record | reload the firmware, reset pages, layouts and sessions, replay the association | a timer, the command manager |
| TX queues (`aml_txq.c`, `fullmac/aml_tx.c`) | per station and traffic class a queue, credits, stop flags; per access category a list | push, retry, start and stop, service periods, credit update | `ndo_start_xmit`, the confirmation, the IRQ task, a timer |

The parts meet in the tasks they share: the IRQ task takes messages (which open
and close reorder sessions and give TX credits), the switch orders of the shared
memory, and the RX buffer; the RX task runs the sessions on what the IRQ task has
read; a command that times out starts the recovery, which resets the shared
memory and marks the sessions.

TCP-ack suppression (`aml_tcp_ack.c`) and the rings of PCIe (`ipc_host.c`) are the
other parts with a state of their own.  The rest (`aml_main.c`, `aml_msg_tx.c`,
`aml_iwpriv_cmds.c`, ...) translates cfg80211 and private commands into messages
whose state machines are in the firmware.  Bluetooth is transports and character
devices; its `rc_list.c` is a list of remote-control addresses behind sysfs.

### What is hard

* Two actors on one queue: an ioctl cancels, destroys or closes between any two
  critical sections of the inference thread.
* A task's memory is reused by the next invoke of its sub-task.
* Counters kept beside the lists they count.
* A software timeout races the interrupt, and both give the same semaphore.
* A release frees the context the thread still names.
* A Wi-Fi command is completed by the acknowledgement, the confirmation, a refused
  push, a time-out or the drain, whichever comes, and freed by its sender or by its
  completion: five actors must agree on who owns it.
* The wake-up of the next deferred command is the business of whoever completes the
  one before it.
* Sequence numbers wrap at 4096 and are compared in half of the circle; the window
  jumps for BAR, ADDBA, ageing and reset, while the RX task is between two locks.
* Both sides use one memory and move the border between TX pages and RX buffer while
  frames are in flight; two causes of a stop share one flag and one wake-up.
* A TX queue is stopped and started for credits, power save, channel and interface
  independently; a queue with frames that is neither stopped nor on the list of the
  hardware queue is never served.  Frames outlive their station, and a timer finishes
  its work without the lock.

`PROJECT.json` lists these hazards at their lines with the properties that cover
them.  More is reachable in the models and denied by no text of the repository: a
waiter takes the token of another invocation (`common/adlak_submit.c:687`) or reads a
task that has been reused (`:722`); `aml_msg_task` uses a command its sender has freed
(`aml_cmds.c:118`, recorded in `stray`); the RX task uses a session a DELBA has freed
(`aml_reorder.c:501`, which ends in the state "freed"); a release frees the model under
the thread, a new key loses frames, and a frame is left without a wake-up (the end of
section 3).

## 2. The modules

| module | what it models |
|---|---|
| `AdlaQueue` | the queue, the inference thread, the interrupt, the device and the contexts |
| `AdlaQueueProps` | what they promise, and the claims of the source they do not keep |
| `MCAdlaQueue` | instances for TLC |
| `AdlaQueueProofs` | proofs for every instance |
| `WlanCmd` | the Wi-Fi command manager, its senders, `aml_msg_task`, the mailbox, the tear-down |
| `WlanCmdProps`, `MCWlanCmd`, `WlanCmdProofs` | as above |
| `WlanTurnProofs` | more proofs: whose turn the mailbox is, and what was answered |
| `RxReorder` | a block-ack reorder session, the RX task, the firmware's requests, stop and restart of RX |
| `InOrderStream` | what a session promises the network stack; `RxReorder` implements it |
| `RxReorderProps`, `MCRxReorder`, `RxReorderProofs` | as above |
| `SharedMem` | the memory TX pages and RX buffer share, with the three host tasks, the firmware and the recovery |
| `SharedMemProps`, `MCSharedMem`, `SharedMemProofs` | as above |
| `TxQueue` | the TX queues of a station, the hardware queue, credits, power save, stops, the cleanup timer |
| `TxQueueProps`, `MCTxQueue`, `TxQueueProofs` | as above |
| `NumberLemmas` | facts about naturals and remainders that several proofs rest on |

The modules do not `INSTANCE` each other: an ADLA queue and a Wi-Fi command share
nothing, and the Wi-Fi parts meet only in steps each module already contains (the IRQ
task's messages, the recovery).

### AdlaQueue

**State.**  A task is a pair of a net id and a sub-task, because the driver keeps
one `struct adlak_task` per sub-task.  The lists are sets of tasks; the order of
`pending_list`, the only one that matters, is the relation `ahead`.  `task` holds
of each task what later steps read: `state`, `error_code`, the cancelled flag and
`hw_stat`.  `ipc` says in which step of its loop the inference thread is, and
`cur`, `hold`, `reset_hw`, `dev_err`, `timedout` are its local variables.
`sch_cur`, `sem_irq`, `hwjob`, `irq`, `irq_on` are what it shares with the
interrupt handler and the device.  `live` and `ran` are history.

**Atomicity.**  Every ioctl but WAIT_UNTIL_FINISH holds `dev_mutex`, and changes
the lists in one critical section of `wq_mutex`: one action.  `drv_release` does not
hold `dev_mutex`, so closing is `CloseBegin`, `CloseDelAll`, `CloseDrained`,
`CloseDetach` (the model and the semaphores, under `context_mutex`) and `CloseFree` (the
context leaves its list and is freed, under `dev_mutex`).  A wait takes a token and searches in `WaitTake`, once a turn.  The
thread has an action per critical section and per access to the device: `Poll`,
`CheckNet`, `Schedule`/`ScheduleNone`, `Post`, `Exec`/`ExecTee`, `WaitIrq` or
`WaitIrqTimeout` and `TimeoutProc`, `BottomHalf`, `ReportDone`/`ReportCancelled`,
`Notify`.

**Left out.**  `wk_update`, the semaphore an invoke gives the thread: the thread
waits for it at most 10 ms, so it only speeds up a poll that happens anyway.  The
choice of clock stages.  `ADLAK_HAL_IRQ_STATE_SKIP`, which the gen3b status mask
excludes.  `submit_blocking`, off in the build.

**Assumptions on clients.**  A client invokes a sub-task only when its reserved
task is on no list, as the user library does; a context names only itself.  The
first is a real precondition: `INIT_LIST_HEAD` on a linked task is undefined for
the list, and is to be modelled apart.

**Undefined behaviour.**  When a context is freed under the thread (`BusyDelaysFree`
shows that it can be), nothing the thread does next is defined.
`Defined` says that this has not happened and guards every action: the model stops
there, and says nothing of what would follow.  After an early token of `ctx_idle` the
release may also have detached the context of the task in hand and not freed it yet.
What the thread reads is then freed memory while the rest of the driver is sound:
`Attached` keeps only the thread from going on, and the release does.

**Bounds.**  `MaxOpen` opens of the device, `MaxInvoke` invokes of a context; two
contexts or two sub-tasks.  Two tasks are enough for overtaking, two opens for the
reuse of a net id, two invokes of a sub-task for the reuse of its memory, three for
a reuse while a cancelled one is on the device.

### WlanCmd

**State.**  A command is one call of `aml_send_msg`; `flags`, `result`, `tkn`, `msg`
(its `a2e_msg`), `completed` (its completion) and `memory` are the fields of its
`struct aml_cmd`, and `pc` says where its sender is.  The list is the set `cmds`: a
command takes its token and joins the tail in one critical section, so the order of
the list is the order of `tkn`.  `task` and `sem` are `aml_msg_task` and its
semaphore.  `hostid`, `unacked` and `unconfirmed` are the mailbox and what the
firmware still owes.  `torn` and `draining` follow `aml_platform_off`.  `acked`,
`confirmed` and `stray` are history.

**Actions.**  `Send` is the first critical section of `cmd_mgr_queue`: refuse, defer
or go on to push.  `SendPush` pushes outside the lock, `SendPushed` and `SendRefused`
are what follows under it.  `Woken`, `WaitBroken`, `KilledPoll`, `ExpiredCheck`,
`ExpiredCrash` are the wait and its ends; the sender's last step frees a blocking
command.  `TaskTake`, `TaskClear`, `TaskPush`, `TaskPushed`/`TaskRefused` are a turn of
`aml_msg_task`.  `Ack` is the interrupt's handler with `cmd_mgr_llind`, `Confirm` is
`cmd_mgr_msgind`; on PCIe both include `cmd_mgr_next_cmd`, whose loop over refused
pushes is the relation `NextRun`.  The drain is `DrainUnlink` and `DrainFree`, because
a woken sender runs between them without the lock.

**Memory.**  After `kfree` memory keeps its contents: of what a use of freed memory
may do the model follows the quiet outcome and records the user in `stray`.  Walking
the list of a wiped manager is a fault, and the sender ends in `oops`.

**Bus.**  `bus` is `aml_bus_type`, set when the driver is loaded and never changed:
PCIE, or SDIO, which stands for USB too.

**Abstractions.**  What the firmware does is external: it acknowledges each message
once and confirms a command of `ReqCfm` at most once, in any order, since "ATM IPC
design makes it possible to get the CFM before the ACK" (`aml_cmds.h:41`).  A push may
be refused where `MayFail` says so (suspend, `g_pci_shutdown`); its code is `EBUSY`.
The callback of `cmd_mgr_msgind` accepts what it is given.  A time-out may come at any
time.  One life of the manager: nothing resets `CRASHED` but `aml_cmd_mgr_init`, and
the recovery that calls it is not modelled.  The checks of `aml_send_msg` that return
before a command exists are left out, as is `CONFIG_AML_FHOST`.

**Bounds.**  Four commands, each sent once, and a queue of three: two commands share a
confirmation, two do not block, one of these goes through `aml_msg_task`; three are
enough for a head, a deferred command and one behind it, four to find the queue full.
`AML_CMD_MAX_QUEUED` is 8.

### RxReorder

**State.**  `reo` is `struct aml_reo_session` for one station and traffic class,
`reos` whether `sta->reos[tid]` points to it.  A frame is the number its sender counts
without end and its packet number; the code sees the number modulo `SnModulo`.  `key` is the
number behind which the frames come with the present key, whose packet numbers count from 1
(`Numbers`).  Time is
the ticks a stored frame has `left`.  `rx` is the RX task between its lookup of the
session (or of the aging list) and the lock, `ctl` a release between unlinking, flush
and `kfree`, `stop` the stop of RX for a suspend or a recovery.  `base`, `held`, `last`,
`turn` are history: the number `ssn` stands for, and the variables of `InOrderStream`.

**Operations.**  `Enqueue` is `aml_reo_enqueue` in the order of its tests: reset, stale,
beyond the window, already stored, in order, buffered.  `ShiftTo` is `aml_reo_shift_to`,
whose one loop gives out what is in front of the new start and what is continuous from
there: `Round` is a turn of it, `over` its end, and `Rounds` repeats it as often as it can
go round the circle, which it never does (`LoopEnds`); `ForwardTo` is `aml_reo_forward_to` with the condition as it is written;
`Aging` is `aml_reo_entry_aging` with `aml_reo_entry_expired_lsn`.

**Atomicity.**  A section under `reo->lock` is an action.  `RxLookup` and `AgingTake` read
without it; `Detach`, `ReleaseFree`, `AddKey` and `ResetMark` write without it.  `AddKey` is
`aml_reo_sta_addkey` as `aml_main.c:2377-2379` calls it: it zeroes `pn`, sets `pn_check` and
leaves in the buffer what is stored.

**Choices.**  `Rekeys` are the numbers behind which a new key may begin.  `MayMix` lets frames
of two keys meet in the session: a key then begins whatever is stored, and a frame of an
earlier key, which counted from wherever it began, may come at any time.  The run has it off:
a key begins on an empty buffer and no frame of the last one follows.  What happens
otherwise is told at the end of section 3.

**A fault** ends the behaviour: `oops` says which `BUG_ON` was hit or that a freed
session was still in use, and `Defined` guards every action.

**Left out.**  Statistics and the bitmap of delivered numbers they use; duplicates
detected before the session; the other traffic classes, which share only the lists.

**Bounds.**  `SnModulo` 16 (4096 in the code) with windows of 3 and 4: the ratio of
window to half circle is what `Less` depends on, and 3 has a cache of 4.  Numbers from
13 to 17 wrap, and a new key begins behind 15, the last number of the circle.  A frame is in reach if it is less than half a circle from the window, as
the standard's senders keep it.

### InOrderStream

Three variables: `held` (taken in, not given out), `last` (given out last), `turn`.
`Advance` takes in at most one frame and gives out all held up to some number;
`Move` (BAR, ADDBA, first frame after a reset) goes elsewhere and holds nothing.  A
frame counts as taken in when it is not stale and its packet number is new; the
history variables of `RxReorder` are the refinement mapping, `Stream!Spec` the property
`InStream`.

### SharedMem

**State.**  Pages and frames are counted.  `free`, `tot`, `batch`, `sent` follow
`tx_page_free_num`, `tx_page_tot_num`, the transfer in preparation and what the device
has not confirmed; `leaked` counts pages that a failed `kzalloc` loses
(`aml_sdio_usb_tx.c`).  `layout`, `state`, `flags`, `last`, `moved` are `rx->fw` and
`rx->fw.confirm`.  `irq`, `status`, `defer` are the IRQ task.  `pending`, `ext`, `notified`,
`fw_state`, `confirmed` are registers between the two sides.  `tx_sem` is the TX task's
semaphore.  `blocked` stands for what turns that task away although frames are queued
(`bus_err`, `fw_rst_stop_tx`, a suspended bus), and `missed` is history: its last token was
spent so.

**Actions.**  One per access the other side can see: `TxWake` looks at the stop flags,
`TxNotifyDyn` and `TxNotifyMac` write the two notifications, `TxTake` fills a batch,
`TxSend` hands it over, `TxConfirm` is `aml_tx_cfm_task`.  `IrqAck` reads status and layout bits,
`IrqIpc` handles them, `IrqRead` drains the buffer, `IrqConfirm` is
`aml_sdio_usb_rx_confirm` with `aml_shared_mem_layout_appy`.  `Block` is an error of the
firmware or the bus (`ipc_host.c:1246`, `w2_sdio.c:217-223`) or a suspend
(`sdio_common.c:334`), `Unblock` the end of its cause (`aml_recy.c:873`,
`sdio_common.c:354`), which gives no token.  Only `TxWake` looks at `blocked`: that the rest
may go on meanwhile adds behaviours and takes none away.  `Recover` is what
`aml_recy_doit` resets and what it forgets to.

**The firmware** is external: it follows the protocol of `aml_sdio_usb_rx.h:14-68` (stop,
drain, start) and reads a register write before it makes the next one in the same
direction.  A MAC reset may overlap a switch.

**Choices.**  `MayFail`: `kzalloc` may fail.  `MayStarve`: the host's RX buffer may be
full, so a drain may be partial.  `MayCrash`: the recovery may come "never", "settled"
(when `rx->fw.confirm` is at rest) or at "any" time.

**Bounds.**  3 and 4 pages (90 and more in the code), frames of 1 or 2, one frame queued
and one unread, two switches, resets, blocks or recoveries (`MaxStop`): enough for a switch over a reset, a switch back,
a crash in each phase.  The invariants were also checked with two unread frames and
three switches (7.7 million states).

### TxQueue

**State.**  A queue of `txq` is a `struct aml_txq`: `active` (its index is not
`TXQ_INACTIVE`), the bits of `status`, `credits`, `pushed` (`pkt_pushed`), `len` and `retry`
(the length of `sk_list` and `nb_retry`), `limit` (`push_limit`).  `list`, `credits`, `need`
are the hardware queue, `ps` is `sta->ps`, `subq` the stopped netdev subqueues, `fw` the
frames the firmware has.  `todo` is what `aml_hwq_process` has still to visit: `tx_lock` is
held while it is not empty.  `tail` is where the timer is after it has let go of the lock.
`cut` and `dead` are history.

**Actions.**  `Xmit` is `aml_start_xmit` with `aml_txq_queue_skb`; it begins a pass where the
code does.  `Process` begins the pass of `aml_hwq_process_all`, whose turns are `VisitSkip`,
`VisitNoCredit` and `VisitPush`.  `Confirm` and `ConfirmRetry` are a confirmation, with
`aml_txq_confirm_any`, `aml_txdatacfm` and `aml_tx_retry`.  `CreditUpdate`, `PsEnable`,
`PsDisable`, `TrafficReq` are messages of the firmware, `VifStop` and `VifStart` those of a
channel change or of an interface.  `TimerDrop` is the cleanup timer under the lock,
`TimerCheck`, `TimerClear`, `TimerWake` what it does without.  `Deinit` and `Join` are a station
that leaves and one that takes its index.

**Abstractions.**  Frames are counted, so which of them are dropped or sent again is not
in the model.  The list is a set: a pass may visit it in any order, which includes the
code's.  One hardware queue and one user position.  `sp` and `ready` run modulo `Wide`
(`u16` in the code); the width of `push_limit` (`u8`) is not modelled, nor are the counters
of power save while it is off.  U-APSD, MU-MIMO, A-MSDU, the multicast queue and the
queues without a station are left out.

**Choices.**  `MayRepeat`: management frames are sent again.  `MayRace`: the timer writes
back the status it read, with what others changed lost.  Both break `Scheduled` (see
below) and are off in the run and in its theorem; the other theorems do without.

**Bounds.**  Two queues, one with a subqueue; two hardware credits and one of the queue
(64 or more and 4 in the code), two frames and one: enough for a queue to run out of either
kind of credits, for a pass to end before the second queue, for flow control to stop and
start.  `Wide` is 4, so that a debt of `MaxDebt` wraps; one update or new station.

## 3. The runs

Runs that pass:

| run | instance | shows |
|---|---|---|
| `adla_subtasks` | one context, two sub-tasks of different priority, two opens, three invokes, holds | the lists and counters agree (`PendingCovers`, `OneOnDevice`), a reused task is fresh (`ExecutesPending`), device and thread stay in step (`DeviceInStep`), results are real (`FinishedWasRun`), cancelled tasks are not reported (`CancelledNotReported`), priority comes first and then the queue's order (`PriorityThenFifo`) |
| `adla_contexts` | two contexts of one sub-task, one TEE, three opens, timeout | a freed context leaves nothing behind (`FreedUnlinked`), the model of the running task exists while its file is released (`ModelAlive`) |
| `adla_live` | one context, two sub-tasks, timeout | a release ends (`CloseEnds`), a queued task is served (`Served`) |
| `wlan_safety` | either bus, four commands, refused pushes, time-outs, tear-down | the counter is the length of the list (`QueueInStep`), what is listed waits (`ListedWaits`), the mailbox is used by one at a time (`MailboxAgrees`) and in order (`DeliveredInOrder`), nothing freed is listed (`FreedUnlisted`), success is told only of answered commands and of those whose deferred push was refused (`AnsweredOrRefused`) |
| `wlan_live` | either bus, the firmware answers, no time-outs | every command leaves the queue (`Served`), the wait of `aml_close` ends (`CloseReturns`) |
| `wlan_returns` | the firmware may be silent, time-outs, tear-down | every call of `aml_send_msg` returns (`SenderReturns`) |
| `rx_reorder` | windows of 3 and 4 in a circle of 16, packet numbers, a new key on an empty buffer, DELBA, stop and restart | window, buffer, counter and aging list agree (`BufferAgrees`), a reset session is empty (`ResetMeetsEmpty`), the session implements `InOrderStream` (`InStream`), no expired frame survives a pass (`AgingExpels`), every one is expelled in the end (`Expelled`) |
| `shared_pages` | 3 and 4 pages, two switches, resets or blocks of the TX task, failed allocations, crashes between switches | no page is lost or counted twice (`PagesAgree`), the host is quiet while the firmware counts on it (`DeviceQuiet`), both sides have one border after a switch (`LayoutsAgree`), the layout changes on a drained buffer (`Drained`), switches end, frames move unless the TX task was turned away with the last token, deferred messages are handled (`SwitchEnds`, `TxMoves`, `MsgHandled`) |
| `tx_queues` | a queue with a subqueue and one without, power save, a channel stop, an update of credits or a new station, the timer | no hardware credit is lost (`CreditsKept`), bit, list, credits, stops and `need_processing` agree (`Scheduled`), a stopped subqueue has somebody to wake it (`FlowKept`), no deadlock |

Runs that find a claim of the source violated, one property each:

| run | claim | what happens |
|---|---|---|
| `adla_busyfree` | "is busy,so destroy delay!", `adlak_context.c:155` | a completion between `CLOSED` and the deletion gives `ctx_idle` too early |
| `wlan_uselive` | "Prevent critical resources kfree by msg ack hw irq", `aml_cmds.c:235` | the sender reads and frees `cmd->a2e_msg` of a non-blocking command that the acknowledgement has freed |
| `rx_aging` | `BUG_ON(!aml_reo_has_buffer(reo))`, `aml_reorder.c:213` | a re-ADDBA empties the session between the aging list and the lock |

Other disagreements were met while modelling; the models contain the behaviour, and no
run is spent on them:

* `adlak_invoke_del_with_invokeid` sets `ret = 0` before `pending_num - ret`
  (`adlak_submit.c:307`), so a cancel leaves the count too high and the thread comes to
  `ASSERT(ret == 0)` (`adlak_inference.h:353`) with nothing to schedule.  `ASSERT` is
  compiled out of the release build.  `pending_num` is safe *because* of this: were
  the subtraction to take effect, a cancel between the poll and the scheduler would
  make the thread's own decrement leave a queued task uncounted.  That is the mutant
  `NumAfterDel_Subtract`, and it breaks `PendingCovers` and `Served`.
* `ADLAK_TASK_CANCELED` is never cleared (`adlak_submit.c:272`): a reused task is dropped
  by "delete the task had canceled" (`:651`) although nobody cancelled it.
* After a software timeout `adlak_submit_wait` gives `sem_irq` a token that ends the
  next task's wait before the device has answered (`ASSERT(0)`, `adlak_inference.h:586`).
* The thread signals a context after the lock that kept it (`adlak_inference.h:429`).
* A held net id is looked up by number and matches its next owner (`:157`).
* Cancelling a finished task leaves its token (`ASSERT(0)`, `adlak_submit.c:714`).
* `cmd_mgr_drain` frees a non-blocking command only if it was not pushed yet
  (`aml_cmds.c:571`), against "cmd will be freed in @cmd_complete" (`aml_msg_tx.c:613`).
* A command whose deferred push was refused completes with result 0 (`aml_cmds.c:133`,
  `:382`), against "0 on success, or a negative error code" (`aml_msg_tx.c:5732`).
* A refused direct push wakes nobody for the commands deferred behind it
  (`aml_cmds.c:254`), and the counter of `aml_close` is declared in its loop's body
  (`fullmac/aml_main.c:1603`), so it never reaches its limit and may wait for ever.
* A drain cut short because the host's RX buffer is full (`aml_sdio_usb_rx.c:1590`) is
  confirmed like a whole one, and the layout applied with frames unread, against "RX
  buffer is drained" (`:1136`): `Drained` with `MayStarve` and two unread frames.
* The recovery keeps `rx->fw.confirm.flags` (`aml_sdio_usb_rx.c:1749`): after a crash in a
  switch the next one is confirmed without its layout being applied, against
  `aml_sdio_usb_rx.h:34-37`: `LayoutsAgree` with `MayCrash = "any"` and three stops.
  `Followed` is why a crash at rest is harmless.
* `!less(reo->ssn, ssn) && !less(reo->lsn, ssn)` (`aml_reorder.c:363`) holds for an ssn in
  front of the window only: a BAR inside the buffer takes the last branch, gives out
  everything stored and sets `ssn` and `lsn` back to its own number, against "ssn is in
  buffer range (reo->ssn < ssn <= reo->lsn)" in the next line.
* In the TX queues (`fullmac/aml_tx.c` unless another file is named):
  * A service period wakes its queues with `aml_txq_start(txq, AML_TXQ_STOP_STA_PS)` (`:227`,
    `:249`, `:255`), which does nothing once the first period has cleared that bit.  When a
    period ends with frames left, its queue is unlinked without being stopped; the next
    request, or the end of power save (`:145`), does not link it, against "add this txq to
    hwq list" (`:243`).  These are the queues in `cut`: the next frame or credit links them.
  * A frame pushed outside a period takes `sp_cnt` below 0 (`:526`, a `u16`), and a station
    whose `sp_cnt` is not 0 gets no further period.
  * On SDIO and USB a confirmation only sets `need_processing`; the pass waits for the next
    sender or message.
  * "Drop all the retry packets" (`:2438`) counts up to `nb_retry` while each turn lowers it:
    half of them go, `pkt_ready` keeps them, and a queue it has emptied stays on the list.
  * On SDIO and USB an update that would bring the credits to 0 or below sets them to
    `size - pkt_pushed` instead (`:2413-2420`): the firmware takes credits and the queue gains.
    On PCIe they do go below 0, and compared with the `u16` of `:232` look like many.
  * The timer tests, clears and wakes flow control after `tx_lock` (`aml_txq.c:660-666`): with
    `MayRace` it writes back an old status, a bit set meanwhile is lost, and `Scheduled`
    fails in 8 states.
  * A management frame is sent again whatever became of its queue (`:1949`, `:1980`): a
    queue without an owner is linked, and the next owner's `aml_txq_init` clears the bit of
    a queue that is on the list; `Scheduled` fails with `MayRepeat` and two credits.
  * A queue that is made anew while its subqueue is stopped has forgotten the flow control
    (`dead`): nothing wakes the subqueue until the interface comes up again.
  * A frame of a station that has left, confirmed when its index has a new owner, gives
    the new queue credits and lowers its `pkt_pushed`.

Three more behaviours are denied by no text, and are the bounds of what three properties
say:

* With two sub-tasks the early token of `adla_busyfree` lets `adlak_net_dettach` free the
  model (`adlak_context.c:161-173`) while the thread holds a task of the context, before
  the context itself goes.  `ModelAlive` fails on the instance of `adla_subtasks`; it is
  checked and proved for contexts of one sub-task, and for any number up to that
  moment (`ModelKept`).
* A new key restarts the packet numbers, and `aml_reo_sta_addkey` (`aml_reorder.c:651-666`)
  flushes nothing.  A frame of the old key that is given out later raises `reo->pn` again,
  and the frames of the new key, stored or still to come, are dropped as replays
  (`aml_reorder.c:142-150`).  With `MayMix` `InStream` fails; `TypeOK`, `BufferAgrees` and
  `ResetMeetsEmpty` do not (7.6 million states, and their theorems).
* `aml_tx_task` takes its token and then turns away for `bus_err`, `fw_rst_stop_tx` or a
  suspended bus (`aml_utils.c:1226-1237`).  What ends the cause does not give a token back
  (`aml_recy.c:873`), so a frame in the queue waits for the next push, the next confirmation
  or the next order of the firmware.  `TxMoves` excepts such frames (`missed`); without the
  exception TLC finds them.

All runs but `tx_queues` set `CHECK_DEADLOCK FALSE`: the bounds on opens, invokes,
commands, numbers and stops end every behaviour, and in `SharedMem` pages lost to failed
allocations may stop TX for good.

**Fairness.**  Weak fairness of the thread (a kernel thread that can run does, and
its waits have timeouts), of the interrupt, of a release that was begun and, only
when `hw_timeout_ms` is 0, of the device: with a timeout nothing is assumed of the
device.  No fairness of clients.  `CloseEnds` and `Served` are stated for behaviours
in which no context is freed under the thread.  `Served` is checked without holds: a
held net that neither invokes nor closes keeps the others waiting, by design.

In `WlanCmd`, `HostFairness` is weak fairness of each sender's next step (a thread that
can run does, and a wait that is not answered runs out), of `aml_msg_task`, of a begun
tear-down and of the poll of `aml_close`.  `FirmwareFairness` says that the firmware
acknowledges and confirms; `wlan_returns` does without it.  `Served` is checked without
refused direct pushes and, on PCIe, without refused pushes at all: nobody is woken behind
one (see above).  The blocking commands are symmetric in `wlan_safety`; no
liveness run uses symmetry.

In `RxReorder`, time passes and each thread goes on (weak fairness).  `AgingTake` has
strong fairness: the RX task ages its sessions each time it has handled what it found,
frames may come between, and nothing but the device wakes it (the FIXME at
`aml_sdio_usb_rx.c:1529`).  `Expelled` is therefore about a device that keeps receiving, and
about behaviours without a fault.

In `SharedMem`, the TX and IRQ tasks run when they can, the firmware goes on with a
switch or a reset it has begun and confirms every frame.  A block of the TX task ends: a
restart that fails (`goto out`, `aml_recy.c:850-866`) and leaves TX stopped until
another recovery is assumed away.  The three liveness properties
except behaviours that lose pages (`leaked > 0`): with `tx_page_free_num` below
`tx_page_tot_num` for good, the stop is never notified.  `TxMoves` also excepts `missed`.

## 4. The proofs

For every finite set of contexts and sub-tasks, every assignment of priorities, TEE
networks and flags, and every bound:

| theorem | property | argument |
|---|---|---|
| `TypeCorrect` | `TypeOK` | with `CurKnown`: the thread has a task in hand from scheduling to reporting |
| `CountCorrect` | `PendingCovers` | `CountInv` adds that between the poll and the scheduler at least one is counted; only the thread takes from the count, and it takes one only with a task or with an empty list |
| `OneOnDeviceCorrect` | `OneOnDevice` | inductive: scheduling needs an empty hand, a deletion leaves `scheduled_list` alone |
| `OrderCorrect` | `PendingOrdered` (no run: proved only) | inductive with the type of `ahead` |
| `PriorityCorrect` | `PriorityThenFifo` | `OnlyScheduleAdds`, then a case for each non-empty class |
| `ModelKeptCorrect` | `ModelKept` (no run: proved only) | until its context is detached the task in hand has its model, for any number of sub-tasks.  `OwnInv`: a pending task's network is registered, its context neither drained nor freed; DESTROY_NETWORK takes a model only when no task of it is on the device |
| `ModelAliveCorrect` | `ModelAlive` | for contexts of one sub-task: `ModelKept`, and `SoloInv` says that the context of the task in hand is not detached |
| `ExecutesCorrect` | `ExecutesPending` | `StateInv` from pending to execution; a re-registration resets only tasks on no list |
| `CancelCorrect` | `CancelledNotReported` | `LiveInv`: what is pending, or scheduled and not flagged, is not cancelled; `OnlyReportAdds` |
| `DeviceCorrect` | `DeviceInStep` | `DeviceInv`: without a software timeout one thing at most is under way, a job, then its interrupt, then a token, and only while the thread waits |
| `RanCorrect` | `FinishedWasRun` | `RanInv`: while the context of the task in hand exists, job, interrupt, token and `hw_stat` are of that task, and a normal result means that the device has ended it |
| `FreedCorrect` | `FreedUnlinked` | for contexts of one sub-task (with two it is false, `adla_busyfree`): `GoneInv` and `SoloInv` |

They rest on the named assumptions of `AdlaQueue`: finite sets, priorities 0 to 2,
distinct null values.  `FreedCorrect` and `ModelAliveCorrect` add that `Sub` is one element: it
is where the claims are true, and what makes them true is `SoloInv`, that the early token of
`ctx_idle` can only be given when the context's one task has been reported, after which
there is nothing left to schedule.  `OwnInv`, `StateInv` and `LiveInv` are one induction
(`LifeNext`), because a re-registration must not reset a task that is queued and
only `OwnInv` says that it cannot.

For every finite set of commands, every assignment of flags and confirmation ids,
either bus and every choice of failures (`WlanCmdProofs`):

| theorem | property | argument |
|---|---|---|
| `TypeCorrect` | `TypeOK` | a lemma per helper (`CompleteType`, `CompleteAndNextType`), then a step per action |
| `QueueInStepCorrect` | `QueueInStep` | `CompleteSize`: `cmd_complete` counts off exactly what it unlinks, although it is also called for commands that have left the list |
| `ListedWaitsCorrect` | `ListedWaits` | an answer that leaves a command no flag to wait for completes it in the same section |
| `FreedUnlistedCorrect` | `FreedUnlisted` | a command is freed unlisted because every way to free it passes through its completion, or finds it completed, or finds the list empty |

They are one induction (`ListNext`) on `ListInv`, which adds to the three properties
that an unsent command is nowhere (`UnsentNowhere`), that a command whose completion
was given is off the list (`CompletedUnlisted`: the woken sender frees it) and that the
manager is `DEINIT` only after the handlers have stopped (`TornDown`: a sender whose
wait runs out in `DEINIT` frees a listed command, and must not be able to before).
The assumptions are `CommandAssumption` and `ModeAssumption`.

`WlanTurnProofs` builds on them, under the same assumptions:

| theorem | property | argument |
|---|---|---|
| `MailboxCorrect` | `MailboxAgrees` | `TurnInv`, below |
| `DeliveredCorrect` | `DeliveredInOrder` | only the command that has the turn is pushed, and it is the oldest of those not pushed yet |
| `AnsweredCorrect` | `AnsweredOrRefused` | `AnswerInv`: a flag that is gone was cleared by the answer it stands for (`AnswersAgree`), a confirmation still due has its command (`ConfirmDue`), a result 0 was earned (`ResultEarned`) |

`TurnInv` is the protocol of the queue, which the code keeps by convention: one command
has the turn at most, and if none has, one token of `aml_msg_sem` at most stands for it
(`OneTurn`).  The turn is in one of four places (`Kind`, `Turn`): with a sender that
pushes, with `aml_msg_task`, in the mailbox, or with a command that is acknowledged and
not yet confirmed.  The flags of a listed command agree with the place (`FlagsAgree`), the
tokens with the order of the list (`TokensAgree`), and whoever has the turn is the head of
the list while the rest waits for its push (`HeadHasTurn`).  `cmd_complete` passes the
turn to the oldest deferred command (`Passes`, `CompleteOne`) unless it completes one
without the turn (`CompleteNone`); that there is an oldest is `LeastNat` of
`NumberLemmas`, a minimum of a set of natural numbers by `WellFoundedInduction`.  After a
crash of the manager a late confirmation may be taken for another command's: `Dead` says
that nothing is pushed any more then, which is what `AnswerInv` needs.  TLC checked both
invariants on the instance of `wlan_safety` before they were proved.

For any number of pages, size of frame and batch, any bound, with failed allocations, a
full RX buffer and crashes (`SharedMemProofs`):

| theorem | property | argument |
|---|---|---|
| `TypeCorrect` | `TypeOK` | with `SeenThere`: the IRQ task never reads more frames than there are |
| `SharedCorrect` | the whole of `SharedInv` | below |
| `PagesCorrect` | `PagesAgree` | a layout overwrites `tx_page_free_num` only in the drain, where no page is out |
| `QuietCorrect` | `DeviceQuiet` | `HeldDyn`, `HeldMac`: from the notification on, the flag of its cause keeps the TX task out |
| `AppliedInDrain` | - | a layout is applied in the firmware's drain only, and is the one it asked for |
| `LayoutsCorrect` | `LayoutsAgree` | if the device crashes between switches only (`MayCrash # "any"`): `Followed`, the host's flags follow the firmware's phases |
| `DrainedCorrect` | `Drained` | if the host does not starve (`~MayStarve`): in the drain RX is stopped, so the frames left are those the IRQ task has seen (`AllSeen`), and it has read them when it confirms (`AllRead`) |

`SharedInv` is one induction.  What makes it hard is that the IRQ task acts on layout bits
it read earlier (`state`), and the firmware on confirmations written earlier:
`StateOfDrain` says that bits still to be acted on are those of the present drain,
`NoneLeft` that a fresh interrupt cannot follow them, `ReadIsLast` and `NotBefore` that
a confirmation the firmware can see is of this drain and of a drain the IRQ task is done
with.  `HeldDyn` and `HeldMac` do not refer to `send_tx_stop_to_fw`: the flag both causes
share is not what keeps TX quiet.  The assumptions are `PageAssumption`,
`FaultAssumption` and `BoundAssumption`.

For any number of TX queues, any credits, thresholds, reasons to stop and bounds
(`TxQueueProofs`):

| theorem | property | argument |
|---|---|---|
| `TypeCorrect` | `TypeOK` | no subtraction goes below zero, and `retry` never exceeds `len` |
| `CreditsCorrect` | `CreditsKept` | `TotalGrows`: what is pushed or confirmed moves one column of the sum; a credit comes back whoever owns the queue, because the sum says there is room |
| `FlowCorrect` | `FlowKept` | inductive: only `VisitPush`, `TimerClear` and `Join` take a flag away, and each leaves a waker or a record in `dead` |
| `ScheduledCorrect` | `Scheduled` | if neither `MayRepeat` nor `MayRace` |

`Scheduled` is not inductive: in the middle of a pass `need_processing` is cleared and
queues are still to come.  `Ahead` says that while there are hardware credits a linked
queue with frames is in `todo` or `need_processing` is set.  A pass that finds no credits
may forget the rest, since every credit that comes back sets the flag again.  `EachQueue` is
what each queue keeps on its own, with a lemma per helper (`StartedKeeps`, `StoppedKeeps`,
`RecountedKeeps`, `QueuedKeeps`, `TxPushKeeps`, `AfterPushKeeps`), and `SetQueuesSched` carries it
to the list.  These proofs rest on `QueueAssumption`, `ReasonAssumption`, `FaultAssumption`
and `BoundAssumption`.

For every circle of numbers, every set of window sizes below half the circle, any time-out
and range of numbers, with or without packet numbers, new keys, stops and releases
(`RxReorderProofs`):

| theorem | property | argument |
|---|---|---|
| `TypeCorrect` | `TypeOK` | with the rest of `RxInv` |
| `BufferCorrect` | `BufferAgrees` | `Kept`: the window starts at a hole `base`, the last frame stored is `lsn`, what lies between is at the index of its number |
| `ResetCorrect` | `ResetMeetsEmpty` | the flush of a stop leaves nothing stored and no frame comes between mark and flush |
| `AgingCorrect` | `AgingExpels` | `Ages`: the shift goes beyond the last expired frame, or none is expired |
| `StreamCorrect` | `InStream` | if frames of two keys do not meet (`~MayMix`): the refinement of `InOrderStream`: every step is an `Advance`, a `Move` or a stutter |

The code compares numbers modulo `SnModulo`; the history variables count without end.
`LessSn`, `Forward`, `SnInj` and `SignedSn` say that the two agree on numbers less than half
a circle apart (`Congruent`, `Remainder`, `ModMod` of `NumberLemmas`), and `IndexSn` and
`SlotInj` that an index of the buffer has one number of the window.  From there on the proof
speaks of numbers only.

The loop of `aml_reo_shift_to` is an induction over its turns.  `Goes` is its invariant: it has
given out, in order, all that passes in front of its place (`AtFront`), and what it has
not reached is as it was.  `TurnOn` is one turn, `LoopEnds` that the last turn finds the
loop over, `Shift` its result.  The induction is by the least turn that breaks the
invariant (`LeastNat`), for want of an induction theorem the provers can instantiate.

`RxInv` is the inductive invariant.  `Sits` says that the window of `reo` starts at `base`, that
nothing in front of it was held back, and that each frame held back is stored and will
pass the check of its packet number when its turn comes (`Keeps`): that is why no step
may lower what is stored, nor raise `pn` beyond what was given out (`PnKept`).  Packet numbers
are counted from `key`.  With `MayMix` no frame is sure to pass, and `Owes`, what the session
is sure to give out, is empty; the rest of the invariant holds all the same.  A
lemma for each operation (`Handles` for a frame, `Forwards` and `ForwardsAll` for a move of
the window, `Ages`, `ShiftBack`) says that it leaves such a session and gives out a
stretch of the stream; `RxNext` proves `RxInv'` and the step of the stream together.  TLC
checked `RxInv` on the instance of `rx_reorder` before it was proved.

The assumptions are `NumberAssumption`, `NoneAssumption` (`None` is not an entry) and
`WindowAssumption`: `BUG_ON(win_size > IEEE80211_SN_MODULO)` (`aml_reorder.c:550`), and that the
cache size divides the circle because both are powers of two.  The proof also needs what the
model says of the sender, `InReach`.

Only model-checked: liveness, which is out of the prover's reach.  Every invariant and action
property of a passing run is a theorem.  Six have a hypothesis, outside of which the
code breaks them (section 3): `FreedCorrect`, `ModelAliveCorrect`, `LayoutsCorrect`,
`DrainedCorrect`, `ScheduledCorrect`, `StreamCorrect`.

## 5. Plan

1. `AdlaTaskList`: the lists with their links, and what a second invoke of a linked
   task does to them; GET_STAT walking `finished_list` without the lock.
2. `AdlaInvokeCount`: `invoke_cnt`, counted under two different locks, against the
   refusal of `adlak_mm.c` to free buffers in use.
3. `AdlaBitmapPool`: the allocator of net ids and of the memory pool.
4. Suspend and resume against the inference thread; bring-up and tear-down; the
   order of `dev_mutex` and `wq_mutex`.
5. Wi-Fi: U-APSD and the multicast queue of `TxQueue`, the ring positions of the RX buffer, the PCIe rings, TCP-ack suppression.

## 6. Not modelled

The drivers are 146 000 lines; most have no protocol of their own.  Register
programming, clock trees, firmware images, RF tables, device-tree parsing, debugfs,
statistics and tracing are data and hardware.  `aml_main.c`, `aml_msg_tx.c`,
`aml_msg_rx.c` and `aml_iwpriv_cmds.c` (25 000 lines) fill and unpack messages for state
machines that are in the firmware image; of them the models contain the calls that
change host state.  The Bluetooth transports move bytes between a bus and a character
device.  The vendored headers are data.  What the plan lists is protocol that remains.
