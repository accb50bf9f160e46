--------------------------- MODULE AdlaQueueProps ---------------------------
(***************************************************************************)
(* What the invocation queue of the ADLA driver promises, and what its own  *)
(* assertions, comments and log messages claim of it.                       *)
(***************************************************************************)
EXTENDS AdlaQueue

\* The inference thread has a task in hand that is on scheduled_list.
Busy == ipc \in {"post", "exec", "wait", "timeout", "bottom", "report"}

\* Every pending task is counted.  The inference thread looks at pending_list
\* only while pending_num is not 0, so an uncounted task would never run
\* (adlak_get_valid_num, adlak_queue_schedule_update, adlak_invoke_del...).
PendingCovers == Cardinality(pending) <= pending_num

\* The lists are disjoint, scheduled_list holds exactly the task the thread has
\* in hand, and sched_num counts it: one task at a time on the device, whatever
\* is cancelled or closed meanwhile (ADLAK_SCHEDULE_LIST_MAX is never tested).
OneOnDevice ==
  /\ pending \cap scheduled = {} /\ pending \cap finished = {} /\ scheduled \cap finished = {}
  /\ scheduled = IF Busy THEN {cur} ELSE {}
  /\ sched_num = IF Busy THEN 1 ELSE 0

\* pending_list is one chain: of two pending tasks one is in front of the other.
PendingOrdered ==
  /\ \A t \in pending : ahead[t] \subseteq pending \ {t}
  /\ \A t, u \in pending : t # u => (t \in ahead[u] <=> u \notin ahead[t])

\* A freed context leaves nothing behind that names it: no task on a list, no
\* model.  Holds for contexts of one sub-task; see BusyDelaysFree for the others.
FreedUnlinked ==
  \A c \in Ctx : ctx[c] = "free" => Linked \cap TasksOf(c) = {} /\ c \notin model

\* The model attributes the thread dereferences exist from the moment a task is
\* scheduled until its result is stored, although DESTROY_NETWORK and the
\* release of the file can come at any time.  Holds for contexts of one
\* sub-task: an early ctx_idle token (BusyDelaysFree) takes the model as well.
ModelAlive == Busy => Owner(cur) \in model

\* ASSERT(0) at adlak_submit.c:767 is not reached: a task that is executed is in
\* the state PENDING, also when its memory has served other invocations before.
ExecutesPending == ipc = "exec" => task[cur].st = "pending"

\* Between two tasks the device is idle: no job, no interrupt, no token of
\* sem_irq that a later wait could take for its own (unbounded wait only).
DeviceInStep ==
  ~HwTimeout => /\ ipc # "wait" => hwjob = NoTask /\ irq = "none" /\ sem_irq = 0
                /\ sem_irq <= 1

\* A task reported as finished has been executed to its end by the device since
\* it was invoked (unbounded wait only; the state of a TEE task says nothing).
FinishedWasRun ==
  ~HwTimeout => \A t \in finished :
                  task[t].st = "finished" /\ Owner(t) \notin Tee => t \in ran

\* A task that was cancelled is not reported: it does not enter finished_list.
CancelledNotReported ==
  [][\A t \in Task : t \in finished' \ finished => t \in live]_vars

\* Rank of a priority, from the enumeration 0 default, 1 low, 2 high.
Rank(t) == CASE Prio[t] = 2 -> 0 [] Prio[t] = 0 -> 1 [] Prio[t] = 1 -> 2

\* With no net held, a task that is scheduled leaves none of a better priority
\* behind and none of its own priority that was queued before it.
PriorityThenFifo ==
  [][hold = NoNet =>
       \A t \in scheduled' \ scheduled : \A u \in pending \ {t} :
         Rank(t) < Rank(u) \/ (Rank(t) = Rank(u) /\ u \notin ahead[t])]_vars

\* A release that was begun ends: the thread gives ctx_idle for the last task
\* of a context that waits for it.  (Defined: no context is freed under the thread.)
CloseEnds == []Defined => \A c \in Ctx : ctx[c] = "closing" ~> ctx[c] = "free"

\* A queued invocation is not forgotten: it is scheduled, cancelled or dropped.
Served == []Defined => \A t \in Task : t \in pending ~> t \notin pending

-----------------------------------------------------------------------------
(* Claims of the source that the code does not keep.                       *)

\* "net [%d] is busy,so destroy delay!" at adlak_context.c:155: while a task of a
\* context is on the device the context is not freed.
BusyDelaysFree == \A c \in Ctx : ctx[c] = "free" => scheduled \cap TasksOf(c) = {}

=============================================================================
