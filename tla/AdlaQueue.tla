------------------------------ MODULE AdlaQueue ------------------------------
(***************************************************************************)
(* The invocation queue of the ADLA (NPU) kernel driver: the three work     *)
(* lists of struct adlak_workqueue, the inference thread that drains them,  *)
(* the interrupt handler, the device as the thread sees it, and the life of *)
(* the contexts (open files) that own the tasks.                            *)
(*                                                                          *)
(* Atomicity.  Every ioctl but WAIT_UNTIL_FINISH runs under dev_mutex, and  *)
(* every list operation under wq_mutex, so an ioctl is one action and every *)
(* critical section of the inference thread is one action.                  *)
(*                                                                          *)
(* A task is a pair <<net id, sub-task>>: the driver keeps ONE struct       *)
(* adlak_task per sub-task (invoke_attr_rsv) and reuses it for each invoke. *)
(***************************************************************************)
EXTENDS Integers, FiniteSets

CONSTANTS
  Ctx,        \* net ids; a context is named by the id it is given
  Sub,        \* sub-task indices of a registered network
  Tee,        \* the ids whose context registers a TEE network
  Prio,       \* priority of a task: 0 default, 1 low, 2 high
  HwTimeout,  \* hw_timeout_ms # 0: the wait for the interrupt is bounded
  MayHold,    \* clients may set CONTEXT_HOLD on an invoke
  MaxOpen,    \* bound: opens of the device
  MaxInvoke,  \* bound: invokes of one open context
  NoTask,     \* a NULL task pointer
  Orphan      \* the task memory of a context that was freed

Task == Ctx \X Sub
Owner(t) == t[1]
NoNet == -1

ASSUME CtxAssumption == Ctx \subseteq Nat /\ IsFiniteSet(Ctx) /\ IsFiniteSet(Sub)
ASSUME TeeAssumption == Tee \subseteq Ctx
ASSUME PrioAssumption == Prio \in [Task -> 0..2]
ASSUME FlagAssumption == HwTimeout \in BOOLEAN /\ MayHold \in BOOLEAN
ASSUME BoundAssumption == MaxOpen \in Nat /\ MaxInvoke \in Nat
ASSUME NullAssumption == NoTask \notin Task /\ Orphan \notin Task /\ NoTask # Orphan

VARIABLES
  pending, scheduled, finished,  \* the three lists, as sets of tasks
  ahead,        \* ahead[t]: the tasks in front of t on pending_list
  pending_num, sched_num,
  task,         \* the reserved struct adlak_task of every sub-task
  ctx,          \* where each context is in its life
  model,        \* contexts whose network is registered
  invoked,      \* bound: invokes of each open context
  opens,        \* bound: opens so far
  invoke_state, \* the semaphore a completed task gives, per context
  ctx_idle,     \* the semaphore adlak_destroy_context waits for, per context
  waiting,      \* sub-task a thread of the context waits for, if any
  ipc,          \* where the inference thread is
  cur,          \* its local ptask_sch_cur
  hold,         \* its local net_id_invoke_previous
  reset_hw,     \* its local reset_hw_enable
  dev_err,      \* its local device_state = ADLAK_DEVICE_ERR
  timedout,     \* hw_stat_timeout of the task in hand
  sch_cur,      \* pwq->ptask_sch_cur, which the interrupt handler reads
  sem_irq,      \* pinference->sem_irq
  hwjob,        \* the task the device is executing
  irq,          \* the interrupt the device is asserting
  irq_on,       \* the interrupt mask is open
  live,         \* history: tasks invoked and not cancelled since
  ran           \* history: tasks the device completed since their invoke

lists   == <<pending, scheduled, finished, ahead, pending_num, sched_num>>
context == <<ctx, model, invoked, opens, ctx_idle>>
waiters == <<invoke_state, waiting>>
thread  == <<ipc, cur, hold, reset_hw, dev_err, timedout>>
device  == <<sch_cur, sem_irq, hwjob, irq, irq_on>>
history == <<live, ran>>
vars    == <<lists, task, context, waiters, thread, device, history>>

NoSub == -1

Linked == pending \cup scheduled \cup finished
TasksOf(c) == {t \in Task : Owner(t) = c}

\* context->state = CONTEXT_STATE_CLOSED.
Closed_LateMark(c) == ctx[c] \in {"freeing", "detached"}
Closed(c) == ctx[c] \in {"closing", "drain", "freeing", "detached"}

\* One of the tasks of the context is on scheduled_list.
OnDevice_LastListOnly(c) == FALSE
OnDevice(c) == scheduled \cap TasksOf(c) # {}

NewTask == [st |-> "idle", err |-> "ok", can |-> FALSE, hw |-> "null"]

TaskRecord == [st : {"idle", "pending", "running", "finished", "fail"},
               err : {"ok", "swtimeout", "hwtimeout"},
               can : BOOLEAN,
               hw : {"null", "normal", "error"}]

TypeOK ==
  /\ pending \subseteq Task /\ scheduled \subseteq Task /\ finished \subseteq Task
  /\ ahead \in [Task -> SUBSET Task]
  /\ pending_num \in Int /\ sched_num \in Int
  /\ task \in [Task -> TaskRecord]
  /\ ctx \in [Ctx -> {"free", "open", "closing", "drain", "freeing", "detached"}]
  /\ model \subseteq Ctx
  /\ invoked \in [Ctx -> Nat] /\ opens \in Nat
  /\ invoke_state \in [Ctx -> Nat] /\ ctx_idle \in [Ctx -> Nat]
  /\ waiting \in [Ctx -> Sub \cup {NoSub}]
  /\ ipc \in {"poll", "chk", "sched", "post", "exec", "wait", "timeout",
              "bottom", "report", "notify"}
  /\ cur \in Task \cup {NoTask}
  /\ hold \in Ctx \cup {NoNet}
  /\ reset_hw \in BOOLEAN /\ dev_err \in BOOLEAN /\ timedout \in BOOLEAN
  /\ sch_cur \in Task \cup {NoTask, Orphan}
  /\ sem_irq \in Nat
  /\ hwjob \in Task \cup {NoTask, Orphan}
  /\ irq \in {"none", "normal", "error"} /\ irq_on \in BOOLEAN
  /\ live \subseteq Task /\ ran \subseteq Task

Init ==
  /\ pending = {} /\ scheduled = {} /\ finished = {}
  /\ ahead = [t \in Task |-> {}]
  /\ pending_num = 0 /\ sched_num = 0
  /\ task = [t \in Task |-> NewTask]
  /\ ctx = [c \in Ctx |-> "free"]
  /\ model = {}
  /\ invoked = [c \in Ctx |-> 0] /\ opens = 0
  /\ invoke_state = [c \in Ctx |-> 0] /\ ctx_idle = [c \in Ctx |-> 0]
  /\ waiting = [c \in Ctx |-> NoSub]
  /\ ipc = "poll" /\ cur = NoTask /\ hold = NoNet
  /\ reset_hw = FALSE /\ dev_err = FALSE /\ timedout = FALSE
  /\ sch_cur = NoTask /\ sem_irq = 0
  /\ hwjob = NoTask /\ irq = "none" /\ irq_on = TRUE
  /\ live = {} /\ ran = {}

-----------------------------------------------------------------------------
(* The pending list.                                                       *)

\* list_del of the tasks of S from pending_list.
DropPending(S) ==
  /\ pending' = pending \ S
  /\ ahead' = [t \in Task |-> IF t \in S THEN {} ELSE ahead[t] \ S]

\* The first task of E in list order.
IsFirst(t, E) == t \in E /\ ahead[t] \cap E = {}

OfPrio(p) == {t \in pending : Prio[t] = p}

\* What the scan for a task to run may choose: without a held net the first
\* high-priority task, else the first default one, else the head of the list.
Candidates_EnumOrder ==
  IF hold # NoNet THEN {t \in pending : Owner(t) = hold}
  ELSE IF OfPrio(0) # {} THEN OfPrio(0)
  ELSE IF OfPrio(1) # {} THEN OfPrio(1)
  ELSE pending
Candidates ==
  IF hold # NoNet THEN {t \in pending : Owner(t) = hold}
  ELSE IF OfPrio(2) # {} THEN OfPrio(2)
  ELSE IF OfPrio(0) # {} THEN OfPrio(0)
  ELSE pending

-----------------------------------------------------------------------------
(* Clients: the ioctls of an open context.                                 *)

\* drv_open: adlak_create_context takes the lowest free net id.
Open(c) ==
  /\ ctx[c] = "free" /\ \A d \in Ctx : d < c => ctx[d] # "free"
  /\ opens < MaxOpen
  /\ opens' = opens + 1
  /\ ctx' = [ctx EXCEPT ![c] = "open"]
  /\ invoked' = [invoked EXCEPT ![c] = 0]
  /\ UNCHANGED <<lists, task, model, ctx_idle, waiters, thread, device, history>>

\* REGISTER_NETWORK(S) / REGISTER_TEE_NETWORK: a context binds one model, and
\* its sub-tasks get fresh reserved tasks at their first invoke.
Register(c) ==
  /\ ctx[c] = "open" /\ c \notin model
  /\ model' = model \cup {c}
  /\ task' = [t \in Task |-> IF Owner(t) = c THEN NewTask ELSE task[t]]
  /\ UNCHANGED <<lists, ctx, invoked, opens, ctx_idle, waiters, thread, device, history>>

\* What adlak_invoke_create and adlak_invoke_add_queue leave in the task: flag
\* and hw_stat keep the values of the previous invoke.
Recreated_NoState(r) == [r EXCEPT !.err = "ok"]
Recreated(r) == [r EXCEPT !.st = "pending", !.err = "ok"]

\* INVOKE / TEE_INVOKE: re-initialise the reserved task and append it to
\* pending_list.  A client invokes a sub-task again only when its task is on no
\* list.
Invoke(t) ==
  /\ ctx[Owner(t)] = "open" /\ Owner(t) \in model
  /\ t \notin Linked
  /\ waiting[Owner(t)] # t[2]
  /\ invoked[Owner(t)] < MaxInvoke
  /\ invoked' = [invoked EXCEPT ![Owner(t)] = @ + 1]
  /\ task' = [task EXCEPT ![t] = Recreated(@)]
  /\ pending' = pending \cup {t}
  /\ ahead' = [ahead EXCEPT ![t] = pending]
  /\ pending_num' = pending_num + 1
  /\ live' = live \cup {t}
  /\ ran' = ran \ {t}
  /\ UNCHANGED <<scheduled, finished, sched_num, ctx, model, opens, ctx_idle,
                 waiters, thread, device>>

\* pending_num after a deletion: the code subtracts ret once ret is 0.
NumAfterDel_Subtract(S) == pending_num - Cardinality(S \cap pending)
NumAfterDel(S) == pending_num

\* The tasks a deletion flags ADLAK_TASK_CANCELED.
Flagged_None(S) == {}
Flagged(S) == S \cap scheduled

\* scheduled_list after a deletion: a task on the device stays on it.
SchedAfterDel_Removed(S) == scheduled \ S
SchedAfterDel(S) == scheduled

\* adlak_invoke_del_with_invokeid.
DelInvokes(S) ==
  /\ finished' = finished \ S
  /\ DropPending(S \cap pending)
  /\ pending_num' = NumAfterDel(S)
  /\ scheduled' = SchedAfterDel(S)
  /\ task' = [t \in Task |->
                IF t \in Flagged(S) THEN [task[t] EXCEPT !.can = TRUE] ELSE task[t]]
  /\ live' = live \ S
  /\ UNCHANGED <<sched_num, ran>>

\* INVOKE_CANCEL of one invocation.
Cancel(t) ==
  /\ ctx[Owner(t)] = "open" /\ t \in Linked
  /\ DelInvokes({t})
  /\ UNCHANGED <<context, waiters, thread, device>>

\* A pointer to a task of context c once nothing reaches its memory any more.
Released(p, c) == IF p \in TasksOf(c) THEN Orphan ELSE p

\* DESTROY_NETWORK / DESTROY_TEE_NETWORK: drop every invocation of the net; the
\* model goes only when none of them was on the device.
Unregister(c) ==
  /\ ctx[c] = "open" /\ c \in model
  /\ DelInvokes(TasksOf(c))
  /\ IF OnDevice(c)
       THEN UNCHANGED <<model, sch_cur, hwjob>>
       ELSE /\ model' = model \ {c}
            /\ sch_cur' = Released(sch_cur, c) /\ hwjob' = Released(hwjob, c)
  /\ UNCHANGED <<ctx, invoked, opens, ctx_idle, waiters, thread, sem_irq, irq, irq_on>>

\* WAIT_UNTIL_FINISH, entered by another thread of the process.
WaitStart(t) ==
  /\ ctx[Owner(t)] = "open" /\ waiting[Owner(t)] = NoSub /\ t \in live
  /\ waiting' = [waiting EXCEPT ![Owner(t)] = t[2]]
  /\ UNCHANGED <<lists, task, context, invoke_state, thread, device, history>>

HasToken_Ignored(c) == TRUE
HasToken(c) == invoke_state[c] > 0

\* One turn of its loop: a token is taken and finished_list searched for the
\* invocation; a token given for another invocation is used up all the same.
WaitTake(t) ==
  /\ waiting[Owner(t)] = t[2] /\ HasToken(Owner(t))
  /\ invoke_state' = [invoke_state EXCEPT ![Owner(t)] = @ - 1]
  /\ waiting' = [waiting EXCEPT ![Owner(t)] = IF t \in finished THEN NoSub ELSE @]
  /\ UNCHANGED <<lists, task, context, thread, device, history>>

\* Its timeout: ret_state = ADLAK_INVOKE_TIMEOUT.
WaitTimeout(c) ==
  /\ waiting[c] # NoSub /\ invoke_state[c] = 0
  /\ waiting' = [waiting EXCEPT ![c] = NoSub]
  /\ UNCHANGED <<lists, task, context, invoke_state, thread, device, history>>

-----------------------------------------------------------------------------
(* drv_release: adlak_destroy_context.                                     *)

CloseBegin(c) ==
  /\ ctx[c] = "open" /\ waiting[c] = NoSub
  /\ ctx' = [ctx EXCEPT ![c] = "closing"]
  /\ UNCHANGED <<lists, task, model, invoked, opens, ctx_idle, waiters, thread, device, history>>

\* adlak_invoke_del_all, and the test of its result.
CloseDelAll(c) ==
  /\ ctx[c] = "closing"
  /\ DelInvokes(TasksOf(c))
  /\ ctx' = [ctx EXCEPT ![c] = IF OnDevice(c) THEN "drain" ELSE "freeing"]
  /\ UNCHANGED <<model, invoked, opens, ctx_idle, waiters, thread, device>>

CloseDrained(c) ==
  /\ ctx[c] = "drain" /\ ctx_idle[c] > 0
  /\ ctx_idle' = [ctx_idle EXCEPT ![c] = @ - 1]
  /\ ctx' = [ctx EXCEPT ![c] = "freeing"]
  /\ UNCHANGED <<lists, task, model, invoked, opens, waiters, thread, device, history>>

\* Under context_mutex: free the model and destroy the semaphores.  The reserved
\* tasks are never freed: pointers to them stay valid, to an orphan.
CloseDetach(c) ==
  /\ ctx[c] = "freeing"
  /\ ctx' = [ctx EXCEPT ![c] = "detached"]
  /\ model' = model \ {c}
  /\ ctx_idle' = [ctx_idle EXCEPT ![c] = 0]
  /\ invoke_state' = [invoke_state EXCEPT ![c] = 0]
  /\ sch_cur' = Released(sch_cur, c) /\ hwjob' = Released(hwjob, c)
  /\ ran' = ran \ TasksOf(c)
  /\ UNCHANGED <<lists, task, invoked, opens, waiting, thread, sem_irq, irq, irq_on, live>>

\* Under dev_mutex: unlink and free the context, and give its net id back.
CloseFree(c) ==
  /\ ctx[c] = "detached"
  /\ ctx' = [ctx EXCEPT ![c] = "free"]
  /\ UNCHANGED <<lists, task, model, invoked, opens, ctx_idle, waiters, thread, device, history>>

-----------------------------------------------------------------------------
(* The inference thread: adlak_dev_inference_cb.                           *)

HeldPending == {t \in pending : Owner(t) = hold}

\* adlak_get_valid_num under wq_mutex.  The thread leaves its polling loop when
\* pending_num is not 0; a held net with nothing pending is first looked up.
Poll ==
  /\ ipc = "poll" /\ pending_num # 0
  /\ ipc' = IF hold # NoNet /\ pending_num > 0 /\ HeldPending = {} THEN "chk" ELSE "sched"
  /\ hold' = IF hold # NoNet /\ pending_num > 0 /\ HeldPending # {} /\ Closed(hold)
             THEN NoNet ELSE hold
  /\ UNCHANGED <<lists, task, context, waiters, cur, reset_hw, dev_err, timedout,
                 device, history>>

\* adlak_check_netid_is_valid, under dev_mutex and without wq_mutex.
CheckNet ==
  /\ ipc = "chk"
  /\ IF ctx[hold] = "free"
       THEN hold' = NoNet /\ ipc' = "poll"
       ELSE hold' = hold /\ ipc' = "sched"
  /\ UNCHANGED <<lists, task, context, waiters, cur, reset_hw, dev_err, timedout,
                 device, history>>

\* adlak_queue_schedule_update with a task to run.
Schedule ==
  /\ ipc = "sched"
  /\ \E t \in pending :
       /\ IsFirst(t, Candidates)
       /\ DropPending({t})
       /\ scheduled' = scheduled \cup {t}
       /\ cur' = t
  /\ pending_num' = pending_num - 1 /\ sched_num' = sched_num + 1
  /\ ipc' = "post"
  /\ UNCHANGED <<finished, task, context, waiters, hold, reset_hw, dev_err,
                 timedout, device, history>>

\* adlak_queue_schedule_update without: an empty list takes one off
\* pending_num, a held net with nothing pending does not.
ScheduleNone ==
  /\ ipc = "sched" /\ Candidates = {}
  /\ pending_num' = IF pending = {} THEN pending_num - 1 ELSE pending_num
  /\ ipc' = "poll"
  /\ UNCHANGED <<pending, scheduled, finished, ahead, sched_num, task, context,
                 waiters, cur, hold, reset_hw, dev_err, timedout, device, history>>

\* Reset the device if the last task asked for it or failed, and publish the
\* task to the interrupt handler.
Post ==
  /\ ipc = "post"
  /\ ipc' = "exec"
  /\ sch_cur' = cur
  /\ hwjob' = IF reset_hw THEN NoTask ELSE hwjob
  /\ irq' = IF reset_hw THEN "none" ELSE irq
  /\ irq_on' = (irq_on \/ reset_hw)
  /\ UNCHANGED <<lists, task, context, waiters, cur, hold, reset_hw, dev_err,
                 timedout, sem_irq, history>>

\* adlak_submit_patch_and_exec: smmu_config waits for an idle device, gives up
\* on one that hangs.  net_id_invoke_previous follows the control flags.
Exec ==
  /\ ipc = "exec" /\ Owner(cur) \notin Tee
  /\ task[cur].st = "pending"
  /\ hwjob = NoTask \/ HwTimeout
  /\ task' = [task EXCEPT ![cur].st = "running"]
  /\ hwjob' = cur
  /\ hold' \in {NoNet} \cup (IF MayHold THEN {Owner(cur)} ELSE {})
  /\ timedout' = FALSE /\ dev_err' = FALSE
  /\ ipc' = "wait"
  /\ UNCHANGED <<lists, context, waiters, cur, reset_hw, sch_cur, sem_irq, irq,
                 irq_on, history>>

\* The result of a TEE task: FINISHED whatever the secure world answers.
EndedTee(r, ok) ==
  [r EXCEPT !.st = "finished", !.err = IF ok THEN "ok" ELSE "hwtimeout"]

\* adlak_submit_tee_task: blocks in the secure world, then resets the device.
ExecTee ==
  /\ ipc = "exec" /\ Owner(cur) \in Tee
  /\ \E ok \in BOOLEAN :
       /\ task' = [task EXCEPT ![cur] = EndedTee(@, ok)]
       /\ dev_err' = ~ok
       /\ ran' = IF ok THEN ran \cup {cur} ELSE ran
  /\ hwjob' = NoTask /\ irq' = "none" /\ irq_on' = TRUE
  /\ hold' = NoNet /\ timedout' = FALSE
  /\ ipc' = "report"
  /\ UNCHANGED <<lists, context, waiters, cur, reset_hw, sch_cur, sem_irq, live>>

\* adlak_submit_wait.
WaitIrq_KeepToken ==
  /\ ipc = "wait" /\ sem_irq > 0
  /\ ipc' = "bottom"
  /\ UNCHANGED <<lists, task, context, waiters, cur, hold, reset_hw, dev_err,
                 timedout, device, history>>
WaitIrq ==
  /\ ipc = "wait" /\ sem_irq > 0
  /\ sem_irq' = sem_irq - 1
  /\ ipc' = "bottom"
  /\ UNCHANGED <<lists, task, context, waiters, cur, hold, reset_hw, dev_err,
                 timedout, sch_cur, hwjob, irq, irq_on, history>>

WaitIrqTimeout ==
  /\ ipc = "wait" /\ HwTimeout /\ sem_irq = 0
  /\ timedout' = TRUE
  /\ ipc' = "timeout"
  /\ UNCHANGED <<lists, task, context, waiters, cur, hold, reset_hw, dev_err,
                 device, history>>

\* adlak_irq_proc: get_irq_status reads and clears the interrupt; no interrupt
\* counts as an error, and an error closes the mask.  sem_irq is given.
IrqProc ==
  LET status == IF irq = "normal" THEN "normal" ELSE "error" IN
  /\ sch_cur # NoTask
  /\ task' = [t \in Task |-> IF t = sch_cur THEN [task[t] EXCEPT !.hw = status] ELSE task[t]]
  /\ irq' = "none"
  /\ irq_on' = (irq_on /\ status = "normal")
  /\ sem_irq' = sem_irq + 1

\* After the timeout the thread calls adlak_irq_proc itself.
TimeoutProc ==
  /\ ipc = "timeout"
  /\ IrqProc
  /\ ipc' = "bottom"
  /\ UNCHANGED <<lists, context, waiters, cur, hold, reset_hw, dev_err, timedout,
                 sch_cur, hwjob, history>>

EndState_AlwaysOk(hw) == "finished"
EndState(hw) == IF hw = "normal" THEN "finished" ELSE "fail"

\* The result of a task: an hw_stat that is neither normal nor error leaves
\* error_code as the invoke set it.
Ended(r) ==
  [r EXCEPT !.st = EndState(r.hw),
            !.err = CASE r.hw = "normal" -> "ok"
                      [] r.hw = "error" -> IF timedout THEN "swtimeout" ELSE "hwtimeout"
                      [] OTHER -> r.err]

\* adlak_irq_bottom_half.
BottomHalf ==
  /\ ipc = "bottom"
  /\ task' = [task EXCEPT ![cur] = Ended(@)]
  /\ dev_err' = (task[cur].hw # "normal")
  /\ ipc' = "report"
  /\ UNCHANGED <<lists, context, waiters, cur, hold, reset_hw, timedout, device, history>>

\* What the end of the loop body leaves behind: the device is reset before the
\* next task when this one failed or carries RESET_AFTER_TASK.
LoopEnd ==
  /\ reset_hw' \in {dev_err, TRUE}
  /\ cur' = NoTask
  /\ ipc' = "poll"

\* adlak_queue_update_task_state of a task that carries ADLAK_TASK_CANCELED.
ReportCancelled ==
  /\ ipc = "report" /\ task[cur].can
  /\ scheduled' = scheduled \ {cur}
  /\ sched_num' = sched_num - 1
  /\ ctx_idle' = [ctx_idle EXCEPT ![Owner(cur)] = IF Closed(Owner(cur)) THEN @ + 1 ELSE @]
  /\ LoopEnd
  /\ UNCHANGED <<pending, finished, ahead, pending_num, task, ctx, model, invoked,
                 opens, waiters, hold, dev_err, timedout, device, history>>

\* adlak_queue_update_task_state of any other task.
ReportDone ==
  /\ ipc = "report" /\ ~task[cur].can
  /\ scheduled' = scheduled \ {cur}
  /\ finished' = finished \cup {cur}
  /\ sched_num' = sched_num - 1
  /\ invoke_state' = [invoke_state EXCEPT ![Owner(cur)] = @ + 1]
  /\ ctx_idle' = [ctx_idle EXCEPT ![Owner(cur)] = IF Closed(Owner(cur)) THEN @ + 1 ELSE @]
  /\ ipc' = "notify"
  /\ UNCHANGED <<pending, ahead, pending_num, task, ctx, model, invoked, opens,
                 waiting, cur, hold, reset_hw, dev_err, timedout, device, history>>

\* adlak_to_umd_sinal_give(ptask_sch_cur->context->wait), outside any lock.
Notify ==
  /\ ipc = "notify"
  /\ LoopEnd
  /\ UNCHANGED <<lists, task, context, waiters, hold, dev_err, timedout, device, history>>

-----------------------------------------------------------------------------
(* The device and its interrupt.                                           *)

\* The device ends its job and, if the mask is open, asserts its interrupt.
HwFinish ==
  /\ hwjob # NoTask
  /\ \E r \in {"normal", "error"} :
       /\ irq' = IF irq_on THEN r ELSE irq
       /\ ran' = IF r = "normal" /\ hwjob # Orphan THEN ran \cup {hwjob} ELSE ran
  /\ hwjob' = NoTask
  /\ UNCHANGED <<lists, task, context, waiters, thread, sch_cur, sem_irq, irq_on, live>>

\* adlak_irq_top_half.
IrqTopHalf ==
  /\ irq # "none"
  /\ IrqProc
  /\ UNCHANGED <<lists, context, waiters, thread, sch_cur, hwjob, history>>

-----------------------------------------------------------------------------
\* The task the thread has in hand belongs to a context that still exists.  The
\* thread reads ptask->context until it lets go of the task; once that memory
\* is freed nothing the thread does is defined, and the model stops.
Defined == cur # NoTask => ctx[Owner(cur)] # "free"

\* Before that, the model and the semaphores of the context are gone, which the
\* thread dereferences at every step with the task in hand: it stops, while the
\* release goes on.
Attached == cur # NoTask => ctx[Owner(cur)] # "detached"

Thread ==
  /\ Defined /\ Attached
  /\ \/ Poll \/ CheckNet \/ Schedule \/ ScheduleNone \/ Post \/ Exec \/ ExecTee
     \/ WaitIrq \/ WaitIrqTimeout \/ TimeoutProc \/ BottomHalf
     \/ ReportCancelled \/ ReportDone \/ Notify

CloseGoesOn(c) ==
  Defined /\ (CloseDelAll(c) \/ CloseDrained(c) \/ CloseDetach(c) \/ CloseFree(c))

Client ==
  /\ Defined
  /\ \/ \E c \in Ctx : \/ Open(c) \/ Register(c) \/ Unregister(c) \/ WaitTimeout(c)
                      \/ CloseBegin(c) \/ CloseGoesOn(c)
     \/ \E t \in Task : Invoke(t) \/ Cancel(t) \/ WaitStart(t) \/ WaitTake(t)

Device == Defined /\ (HwFinish \/ IrqTopHalf)

Next == Client \/ Thread \/ Device

Spec == Init /\ [][Next]_vars

\* A kernel thread that can run does, an interrupt is delivered, a release that
\* was begun goes on, and, where nothing bounds the wait for it, the device ends
\* the jobs it is given.
Fairness ==
  /\ WF_vars(Thread) /\ WF_vars(Defined /\ IrqTopHalf)
  /\ \A c \in Ctx : WF_vars(CloseGoesOn(c))
  /\ ~HwTimeout => WF_vars(Defined /\ HwFinish)

FairSpec == Spec /\ Fairness
=============================================================================
