--------------------------- MODULE AdlaQueueProofs ---------------------------
(***************************************************************************)
(* Proofs about the invocation queue, for every set of contexts and         *)
(* sub-tasks, every assignment of priorities and every bound.               *)
(***************************************************************************)
EXTENDS AdlaQueueProps, TLAPS, FiniteSetTheorems

\* From the moment it schedules a task until it lets go of it, the inference
\* thread has a task in hand.
CurKnown ==
  ipc \in {"post", "exec", "wait", "timeout", "bottom", "report", "notify"} => cur \in Task

\* A task belongs to a context.
LEMMA OwnerType == \A t \in Task : Owner(t) \in Ctx
  BY DEF Task, Owner

-----------------------------------------------------------------------------
(* Types.                                                                  *)

TypeInv == TypeOK /\ CurKnown

\* The initial state is well typed.
LEMMA TypeInit == Init => TypeInv
  <1> SUFFICES ASSUME Init PROVE TypeInv
    OBVIOUS
  <1>1. NewTask \in TaskRecord
    BY DEF NewTask, TaskRecord
  <1>2. task \in [Task -> TaskRecord] /\ ahead \in [Task -> SUBSET Task]
    BY <1>1 DEF Init
  <1>3. reset_hw \in BOOLEAN /\ dev_err \in BOOLEAN /\ timedout \in BOOLEAN /\ irq_on \in BOOLEAN
    BY Zenon DEF Init
  <1> QED
    BY <1>2, <1>3 DEF Init, TypeInv, TypeOK, CurKnown, NoSub, NoNet

\* A task the interrupt handler stores a status in is still a task.
LEMMA IrqProcType ==
  ASSUME TypeOK, IrqProc
  PROVE  /\ task' \in [Task -> TaskRecord] /\ irq' \in {"none", "normal", "error"}
         /\ irq_on' \in BOOLEAN /\ sem_irq' \in Nat
  <1>1. \A r \in TaskRecord : /\ [r EXCEPT !.hw = "normal"] \in TaskRecord
                             /\ [r EXCEPT !.hw = "error"] \in TaskRecord
    BY DEF TaskRecord
  <1>2. task \in [Task -> TaskRecord] /\ sem_irq \in Nat
    BY DEF TypeOK
  <1>3. task' \in [Task -> TaskRecord]
    BY <1>1, <1>2 DEF IrqProc
  <1>4. irq_on' \in BOOLEAN
    BY Zenon DEF IrqProc
  <1> QED
    BY <1>2, <1>3, <1>4 DEF IrqProc

\* A deletion of any set of tasks keeps the variables it changes well typed.
LEMMA DelInvokesType ==
  ASSUME NEW S \in SUBSET Task, TypeOK, DelInvokes(S)
  PROVE  /\ pending' \subseteq Task /\ scheduled' \subseteq Task /\ finished' \subseteq Task
         /\ ahead' \in [Task -> SUBSET Task]
         /\ pending_num' \in Int /\ sched_num' \in Int
         /\ task' \in [Task -> TaskRecord]
         /\ live' \subseteq Task /\ ran' \subseteq Task
  <1>1. \A r \in TaskRecord : [r EXCEPT !.can = TRUE] \in TaskRecord
    BY DEF TaskRecord
  <1>2. task' \in [Task -> TaskRecord]
    BY <1>1 DEF TypeOK, DelInvokes
  <1>3. ahead' \in [Task -> SUBSET Task]
    BY DEF TypeOK, DelInvokes, DropPending
  <1> QED
    BY <1>2, <1>3 DEF TypeOK, DelInvokes, DropPending, NumAfterDel, SchedAfterDel

\* Every step keeps the variables well typed.
LEMMA TypeNext == TypeInv /\ [Next]_vars => TypeInv'
  <1> SUFFICES ASSUME TypeInv, [Next]_vars PROVE TypeInv'
    OBVIOUS
  <1> USE OwnerType, NullAssumption DEF TypeInv, CurKnown
  <1>1. ASSUME NEW c \in Ctx, Open(c) PROVE TypeInv'
    BY <1>1 DEF Open, TypeOK, lists, waiters, thread, device, history
  <1>2. ASSUME NEW c \in Ctx, Register(c) PROVE TypeInv'
    BY <1>2 DEF Register, TypeOK, NewTask, TaskRecord, lists, waiters, thread, device, history
  <1>3. ASSUME NEW t \in Task, Invoke(t) PROVE TypeInv'
    <2>1. \A r \in TaskRecord : Recreated(r) \in TaskRecord
      BY DEF Recreated, TaskRecord
    <2>2. task' \in [Task -> TaskRecord] /\ ahead' \in [Task -> SUBSET Task]
      BY <1>3, <2>1 DEF Invoke, TypeOK
    <2>3. invoked' \in [Ctx -> Nat]
      BY <1>3 DEF Invoke, TypeOK
    <2>4. pending' \subseteq Task /\ live' \subseteq Task /\ ran' \subseteq Task /\ pending_num' \in Int
      BY <1>3 DEF Invoke, TypeOK
    <2> QED
      BY <1>3, <2>2, <2>3, <2>4 DEF Invoke, TypeOK, waiters, thread, device
  <1>4. ASSUME NEW t \in Task, Cancel(t) PROVE TypeInv'
    BY <1>4, DelInvokesType DEF Cancel, TypeOK, context, waiters, thread, device
  <1>5. ASSUME NEW c \in Ctx, Unregister(c) PROVE TypeInv'
    <2>1. TasksOf(c) \in SUBSET Task
      BY DEF TasksOf
    <2> QED
      BY <1>5, <2>1, DelInvokesType DEF Unregister, Released, TypeOK, waiters, thread
  <1>6. ASSUME NEW t \in Task, WaitStart(t) PROVE TypeInv'
    BY <1>6 DEF WaitStart, TypeOK, Task, lists, context, thread, device, history
  <1>7. ASSUME NEW t \in Task, WaitTake(t) PROVE TypeInv'
    BY <1>7 DEF WaitTake, HasToken, TypeOK, NoSub, lists, context, thread, device, history
  <1>8. ASSUME NEW c \in Ctx, WaitTimeout(c) PROVE TypeInv'
    BY <1>8 DEF WaitTimeout, TypeOK, NoSub, lists, context, thread, device, history
  <1>9. ASSUME NEW c \in Ctx, CloseBegin(c) PROVE TypeInv'
    BY <1>9 DEF CloseBegin, TypeOK, lists, waiters, thread, device, history
  <1>10. ASSUME NEW c \in Ctx, CloseDelAll(c) PROVE TypeInv'
    <2>1. TasksOf(c) \in SUBSET Task
      BY DEF TasksOf
    <2> QED
      BY <1>10, <2>1, DelInvokesType DEF CloseDelAll, TypeOK, waiters, thread, device
  <1>11. ASSUME NEW c \in Ctx, CloseDrained(c) PROVE TypeInv'
    BY <1>11 DEF CloseDrained, TypeOK, lists, waiters, thread, device, history
  <1>30. ASSUME NEW c \in Ctx, CloseDetach(c) PROVE TypeInv'
    BY <1>30 DEF CloseDetach, Released, TasksOf, TypeOK, lists, thread
  <1>12. ASSUME NEW c \in Ctx, CloseFree(c) PROVE TypeInv'
    BY <1>12 DEF CloseFree, TypeOK, lists, waiters, thread, device, history
  <1>13. CASE Poll
    BY <1>13 DEF Poll, TypeOK, lists, context, waiters, device, history
  <1>14. CASE CheckNet
    BY <1>14 DEF CheckNet, TypeOK, lists, context, waiters, device, history
  <1>15. CASE Schedule
    BY <1>15 DEF Schedule, DropPending, TypeOK, context, waiters, device, history
  <1>16. CASE ScheduleNone
    BY <1>16 DEF ScheduleNone, TypeOK, context, waiters, device, history
  <1>17. CASE Post
    BY <1>17 DEF Post, TypeOK, lists, context, waiters, history
  <1>18. CASE Exec
    <2>1. \A r \in TaskRecord : [r EXCEPT !.st = "running"] \in TaskRecord
      BY DEF TaskRecord
    <2>2. task' \in [Task -> TaskRecord]
      BY <1>18, <2>1 DEF Exec, TypeOK
    <2>3. hold' \in Ctx \cup {NoNet} /\ hwjob' \in Task
      BY <1>18 DEF Exec
    <2> QED
      BY <1>18, <2>2, <2>3 DEF Exec, TypeOK, lists, context, waiters, history
  <1>19. CASE ExecTee
    <2>1. dev_err' \in BOOLEAN /\ irq_on' \in BOOLEAN /\ timedout' \in BOOLEAN
      BY <1>19, Zenon DEF ExecTee
    <2>2. ran' \subseteq Task /\ task' \in [Task -> TaskRecord]
      <3>1. \A r \in TaskRecord, ok \in BOOLEAN : EndedTee(r, ok) \in TaskRecord
        BY DEF EndedTee, TaskRecord
      <3> QED
        BY <1>19, <3>1 DEF ExecTee, TypeOK
    <2> QED
      BY <1>19, <2>1, <2>2 DEF ExecTee, TypeOK, lists, context, waiters
  <1>20. CASE WaitIrq
    BY <1>20 DEF WaitIrq, TypeOK, lists, context, waiters, history
  <1>21. CASE WaitIrqTimeout
    BY <1>21 DEF WaitIrqTimeout, TypeOK, lists, context, waiters, device, history
  <1>22. CASE TimeoutProc
    BY <1>22, IrqProcType DEF TimeoutProc, TypeOK, lists, context, waiters, history
  <1>23. CASE BottomHalf
    <2>1. dev_err' \in BOOLEAN
      BY <1>23, Zenon DEF BottomHalf
    <2>2. task' \in [Task -> TaskRecord]
      <3>1. \A r \in TaskRecord : Ended(r) \in TaskRecord
        BY Zenon DEF Ended, EndState, TaskRecord
      <3> QED
        BY <1>23, <3>1 DEF BottomHalf, TypeOK
    <2> QED
      BY <1>23, <2>1, <2>2 DEF BottomHalf, TypeOK, lists, context, waiters, device, history
  <1>24. CASE ReportCancelled
    <2>1. reset_hw' \in BOOLEAN
      BY <1>24, Zenon DEF ReportCancelled, LoopEnd, TypeOK
    <2> QED
      BY <1>24, <2>1 DEF ReportCancelled, LoopEnd, TypeOK, waiters, device, history
  <1>25. CASE ReportDone
    BY <1>25 DEF ReportDone, TypeOK, device, history
  <1>26. CASE Notify
    <2>1. reset_hw' \in BOOLEAN
      BY <1>26, Zenon DEF Notify, LoopEnd, TypeOK
    <2> QED
      BY <1>26, <2>1 DEF Notify, LoopEnd, TypeOK, lists, context, waiters, device, history
  <1>27. CASE HwFinish
    <2>1. ran' \subseteq Task
      BY <1>27 DEF HwFinish, TypeOK
    <2>2. irq' \in {"none", "normal", "error"}
      BY <1>27 DEF HwFinish, TypeOK
    <2> QED
      BY <1>27, <2>1, <2>2 DEF HwFinish, TypeOK, lists, context, waiters, thread
  <1>28. CASE IrqTopHalf
    BY <1>28, IrqProcType DEF IrqTopHalf, TypeOK, lists, context, waiters, thread, history
  <1>29. CASE UNCHANGED vars
    BY <1>29 DEF vars, TypeOK, lists, context, waiters, thread, device, history
  <1> QED
    BY <1>1, <1>2, <1>3, <1>4, <1>5, <1>6, <1>7, <1>8, <1>9, <1>10, <1>11, <1>12, <1>30,
       <1>13, <1>14, <1>15, <1>16, <1>17, <1>18, <1>19, <1>20, <1>21, <1>22, <1>23,
       <1>24, <1>25, <1>26, <1>27, <1>28, <1>29
    DEF Next, Client, Thread, Device, CloseGoesOn

\* In every reachable state the variables of the queue, of the inference thread
\* and of the contexts have their types; semaphores never go below zero.
THEOREM TypeCorrect == Spec => []TypeOK
  <1>1. TypeInv => TypeOK
    BY DEF TypeInv
  <1> QED
    BY TypeInit, TypeNext, <1>1, PTL DEF Spec

-----------------------------------------------------------------------------
(* pending_num covers the pending list.                                    *)

\* The sets the lists are drawn from are finite.
LEMMA FiniteTask == IsFiniteSet(Task)
  BY CtxAssumption, FS_Product DEF Task

\* What PendingCovers needs to be inductive: when the thread is on its way to
\* the scheduler the count it has seen is still there, because nothing but the
\* thread itself takes from it.
CountInv ==
  /\ pending \subseteq Task /\ pending_num \in Int
  /\ PendingCovers
  /\ ipc \in {"chk", "sched"} => pending_num >= 1

\* Initially nothing is pending.
LEMMA CountInit == Init => CountInv
  BY FS_EmptySet DEF Init, CountInv, PendingCovers

\* Tasks taken off the list never break the bound.
LEMMA FewerPending ==
  ASSUME NEW S, CountInv
  PROVE  Cardinality(pending \ S) <= pending_num
  <1>1. IsFiniteSet(pending)
    BY FiniteTask, FS_Subset DEF CountInv
  <1>2. /\ IsFiniteSet(pending \ S) /\ Cardinality(pending \ S) <= Cardinality(pending)
    BY <1>1, FS_Subset
  <1>3. Cardinality(pending) \in Nat /\ Cardinality(pending \ S) \in Nat
    BY <1>1, <1>2, FS_CardinalityType
  <1> QED
    BY <1>2, <1>3 DEF CountInv, PendingCovers

\* Every step keeps the pending tasks counted.
LEMMA CountNext == CountInv /\ [Next]_vars => CountInv'
  <1> SUFFICES ASSUME CountInv, [Next]_vars PROVE CountInv'
    OBVIOUS
  <1> USE DEF CountInv, PendingCovers
  <1>1. ASSUME NEW c \in Ctx, Open(c) PROVE CountInv'
    BY <1>1 DEF Open, lists, context, waiters, thread, device, history
  <1>2. ASSUME NEW c \in Ctx, Register(c) PROVE CountInv'
    BY <1>2 DEF Register, lists, context, waiters, thread, device, history
  <1>3. ASSUME NEW t \in Task, Invoke(t) PROVE CountInv'
    <2>1. IsFiniteSet(pending) /\ t \notin pending
      BY <1>3, FiniteTask, FS_Subset DEF Invoke, Linked
    <2>2. Cardinality(pending \cup {t}) = Cardinality(pending) + 1
      BY <2>1, FS_AddElement
    <2>3. Cardinality(pending) \in Nat
      BY <2>1, FS_CardinalityType
    <2> QED
      BY <1>3, <2>2, <2>3 DEF Invoke, thread
  <1>4. ASSUME NEW t \in Task, Cancel(t) PROVE CountInv'
    <2>1. pending \ ({t} \cap pending) = pending \ {t}
      OBVIOUS
    <2> QED
      BY <1>4, <2>1, FewerPending DEF Cancel, DelInvokes, DropPending, NumAfterDel, thread
  <1>5. ASSUME NEW c \in Ctx, Unregister(c) PROVE CountInv'
    <2>1. pending' = pending \ (TasksOf(c) \cap pending) /\ pending_num' = pending_num /\ ipc' = ipc
      BY <1>5 DEF Unregister, DelInvokes, DropPending, NumAfterDel, thread
    <2> QED
      BY <2>1, FewerPending
  <1>6. ASSUME NEW t \in Task, WaitStart(t) PROVE CountInv'
    BY <1>6 DEF WaitStart, lists, context, waiters, thread, device, history
  <1>7. ASSUME NEW t \in Task, WaitTake(t) PROVE CountInv'
    BY <1>7 DEF WaitTake, lists, context, waiters, thread, device, history
  <1>8. ASSUME NEW c \in Ctx, WaitTimeout(c) PROVE CountInv'
    BY <1>8 DEF WaitTimeout, lists, context, waiters, thread, device, history
  <1>9. ASSUME NEW c \in Ctx, CloseBegin(c) PROVE CountInv'
    BY <1>9 DEF CloseBegin, lists, context, waiters, thread, device, history
  <1>10. ASSUME NEW c \in Ctx, CloseDelAll(c) PROVE CountInv'
    <2>1. pending' = pending \ (TasksOf(c) \cap pending) /\ pending_num' = pending_num /\ ipc' = ipc
      BY <1>10 DEF CloseDelAll, DelInvokes, DropPending, NumAfterDel, thread
    <2> QED
      BY <2>1, FewerPending
  <1>11. ASSUME NEW c \in Ctx, CloseDrained(c) PROVE CountInv'
    BY <1>11 DEF CloseDrained, lists, context, waiters, thread, device, history
  <1>30. ASSUME NEW c \in Ctx, CloseDetach(c) PROVE CountInv'
    BY <1>30 DEF CloseDetach, lists, context, waiters, thread, device, history
  <1>12. ASSUME NEW c \in Ctx, CloseFree(c) PROVE CountInv'
    BY <1>12 DEF CloseFree, lists, context, waiters, thread, device, history
  <1>13. CASE Poll
    <2>1. Cardinality(pending) \in Nat
      BY FiniteTask, FS_Subset, FS_CardinalityType
    <2> QED
      BY <1>13, <2>1 DEF Poll, lists
  <1>14. CASE CheckNet
    BY <1>14 DEF CheckNet, lists, context, waiters, thread, device, history
  <1>15. CASE Schedule
    <2>1. IsFiniteSet(pending)
      BY FiniteTask, FS_Subset
    <2>2. PICK t \in pending : pending' = pending \ {t}
      BY <1>15 DEF Schedule, DropPending
    <2>3. Cardinality(pending \ {t}) = Cardinality(pending) - 1
      BY <2>1, FS_RemoveElement
    <2>4. Cardinality(pending) \in Nat
      BY <2>1, FS_CardinalityType
    <2> QED
      BY <1>15, <2>2, <2>3, <2>4 DEF Schedule
  <1>16. CASE ScheduleNone
    <2>1. pending = {} => Cardinality(pending) = 0
      BY FS_EmptySet
    <2> QED
      BY <1>16, <2>1 DEF ScheduleNone
  <1>17. CASE Post
    BY <1>17 DEF Post, lists, context, waiters, thread, device, history
  <1>18. CASE Exec
    BY <1>18 DEF Exec, lists, context, waiters, thread, device, history
  <1>19. CASE ExecTee
    BY <1>19 DEF ExecTee, lists, context, waiters, thread, device, history
  <1>20. CASE WaitIrq
    BY <1>20 DEF WaitIrq, lists, context, waiters, thread, device, history
  <1>21. CASE WaitIrqTimeout
    BY <1>21 DEF WaitIrqTimeout, lists, context, waiters, thread, device, history
  <1>22. CASE TimeoutProc
    BY <1>22 DEF TimeoutProc, lists, context, waiters, thread, device, history
  <1>23. CASE BottomHalf
    BY <1>23 DEF BottomHalf, lists, context, waiters, thread, device, history
  <1>24. CASE ReportCancelled
    BY <1>24 DEF ReportCancelled, LoopEnd, lists, context, waiters, thread, device, history
  <1>25. CASE ReportDone
    BY <1>25 DEF ReportDone, lists, context, waiters, thread, device, history
  <1>26. CASE Notify
    BY <1>26 DEF Notify, LoopEnd, lists, context, waiters, thread, device, history
  <1>27. CASE HwFinish
    BY <1>27 DEF HwFinish, lists, context, waiters, thread, device, history
  <1>28. CASE IrqTopHalf
    BY <1>28 DEF IrqTopHalf, lists, context, waiters, thread, device, history
  <1>29. CASE UNCHANGED vars
    BY <1>29 DEF vars, lists, context, waiters, thread, device, history
  <1> QED
    BY <1>1, <1>2, <1>3, <1>4, <1>5, <1>6, <1>7, <1>8, <1>9, <1>10, <1>11, <1>12, <1>30,
       <1>13, <1>14, <1>15, <1>16, <1>17, <1>18, <1>19, <1>20, <1>21, <1>22, <1>23, <1>24,
       <1>25, <1>26, <1>27, <1>28, <1>29
    DEF Next, Client, Thread, Device, CloseGoesOn

\* The inference thread never overlooks a task: pending_num, which it polls, is
\* at least the length of pending_list, although cancellation leaves it too high
\* and an empty scan of the list takes one off.
THEOREM CountCorrect == Spec => []PendingCovers
  <1>1. CountInv => PendingCovers
    BY DEF CountInv
  <1> QED
    BY CountInit, CountNext, <1>1, PTL DEF Spec

-----------------------------------------------------------------------------
(* One task at a time on the device.                                       *)

\* Initially the lists are empty and the thread has nothing in hand.
LEMMA OneInit == Init => OneOnDevice
  BY DEF Init, OneOnDevice, Busy

\* Every step keeps the lists disjoint and scheduled_list in step with the thread.
LEMMA OneNext == OneOnDevice /\ [Next]_vars => OneOnDevice'
  <1> SUFFICES ASSUME OneOnDevice, [Next]_vars PROVE OneOnDevice'
    OBVIOUS
  <1> USE DEF OneOnDevice, Busy
  <1>1. ASSUME NEW c \in Ctx, Open(c) PROVE OneOnDevice'
    BY <1>1 DEF Open, lists, context, waiters, thread, device, history
  <1>2. ASSUME NEW c \in Ctx, Register(c) PROVE OneOnDevice'
    BY <1>2 DEF Register, lists, context, waiters, thread, device, history
  <1>3. ASSUME NEW t \in Task, Invoke(t) PROVE OneOnDevice'
    BY <1>3 DEF Invoke, Linked, thread
  <1>4. ASSUME NEW t \in Task, Cancel(t) PROVE OneOnDevice'
    BY <1>4 DEF Cancel, DelInvokes, DropPending, SchedAfterDel, thread
  <1>5. ASSUME NEW c \in Ctx, Unregister(c) PROVE OneOnDevice'
    BY <1>5 DEF Unregister, DelInvokes, DropPending, SchedAfterDel, thread
  <1>6. ASSUME NEW t \in Task, WaitStart(t) PROVE OneOnDevice'
    BY <1>6 DEF WaitStart, lists, context, waiters, thread, device, history
  <1>7. ASSUME NEW t \in Task, WaitTake(t) PROVE OneOnDevice'
    BY <1>7 DEF WaitTake, lists, context, waiters, thread, device, history
  <1>8. ASSUME NEW c \in Ctx, WaitTimeout(c) PROVE OneOnDevice'
    BY <1>8 DEF WaitTimeout, lists, context, waiters, thread, device, history
  <1>9. ASSUME NEW c \in Ctx, CloseBegin(c) PROVE OneOnDevice'
    BY <1>9 DEF CloseBegin, lists, context, waiters, thread, device, history
  <1>10. ASSUME NEW c \in Ctx, CloseDelAll(c) PROVE OneOnDevice'
    BY <1>10 DEF CloseDelAll, DelInvokes, DropPending, SchedAfterDel, thread
  <1>11. ASSUME NEW c \in Ctx, CloseDrained(c) PROVE OneOnDevice'
    BY <1>11 DEF CloseDrained, lists, context, waiters, thread, device, history
  <1>30. ASSUME NEW c \in Ctx, CloseDetach(c) PROVE OneOnDevice'
    BY <1>30 DEF CloseDetach, lists, context, waiters, thread, device, history
  <1>12. ASSUME NEW c \in Ctx, CloseFree(c) PROVE OneOnDevice'
    BY <1>12 DEF CloseFree, lists, context, waiters, thread, device, history
  <1>13. CASE Poll
    BY <1>13 DEF Poll, lists, context, waiters, thread, device, history
  <1>14. CASE CheckNet
    BY <1>14 DEF CheckNet, lists, context, waiters, thread, device, history
  <1>15. CASE Schedule
    <2>1. PICK t \in pending : /\ pending' = pending \ {t} /\ scheduled' = scheduled \cup {t}
                             /\ cur' = t
      BY <1>15 DEF Schedule, DropPending
    <2> QED
      BY <1>15, <2>1 DEF Schedule
  <1>16. CASE ScheduleNone
    BY <1>16 DEF ScheduleNone, lists, context, waiters, thread, device, history
  <1>17. CASE Post
    BY <1>17 DEF Post, lists, context, waiters, thread, device, history
  <1>18. CASE Exec
    BY <1>18 DEF Exec, lists, context, waiters, thread, device, history
  <1>19. CASE ExecTee
    BY <1>19 DEF ExecTee, lists, context, waiters, thread, device, history
  <1>20. CASE WaitIrq
    BY <1>20 DEF WaitIrq, lists, context, waiters, thread, device, history
  <1>21. CASE WaitIrqTimeout
    BY <1>21 DEF WaitIrqTimeout, lists, context, waiters, thread, device, history
  <1>22. CASE TimeoutProc
    BY <1>22 DEF TimeoutProc, IrqProc, lists, context, waiters, thread, device, history
  <1>23. CASE BottomHalf
    BY <1>23 DEF BottomHalf, lists, context, waiters, thread, device, history
  <1>24. CASE ReportCancelled
    BY <1>24 DEF ReportCancelled, LoopEnd, lists, context, waiters, thread, device, history
  <1>25. CASE ReportDone
    BY <1>25 DEF ReportDone, lists, context, waiters, thread, device, history
  <1>26. CASE Notify
    BY <1>26 DEF Notify, LoopEnd, lists, context, waiters, thread, device, history
  <1>27. CASE HwFinish
    BY <1>27 DEF HwFinish, lists, context, waiters, thread, device, history
  <1>28. CASE IrqTopHalf
    BY <1>28 DEF IrqTopHalf, IrqProc, lists, context, waiters, thread, device, history
  <1>29. CASE UNCHANGED vars
    BY <1>29 DEF vars, lists, context, waiters, thread, device, history
  <1> QED
    BY <1>1, <1>2, <1>3, <1>4, <1>5, <1>6, <1>7, <1>8, <1>9, <1>10, <1>11, <1>12, <1>30,
       <1>13, <1>14, <1>15, <1>16, <1>17, <1>18, <1>19, <1>20, <1>21, <1>22, <1>23, <1>24,
       <1>25, <1>26, <1>27, <1>28, <1>29
    DEF Next, Client, Thread, Device, CloseGoesOn

\* At most one task is on the device, it is the one the inference thread has in
\* hand, and no task is on two lists, whatever is invoked, cancelled, destroyed or
\* closed meanwhile.
THEOREM OneOnDeviceCorrect == Spec => []OneOnDevice
  BY OneInit, OneNext, PTL DEF Spec

-----------------------------------------------------------------------------
(* The order of pending_list.                                              *)

\* PendingOrdered with the type it rests on.
OrderInv == pending \subseteq Task /\ ahead \in [Task -> SUBSET Task] /\ PendingOrdered

\* Initially nothing is pending.
LEMMA OrderInit == Init => OrderInv
  BY DEF Init, OrderInv, PendingOrdered

\* Taking tasks off the list keeps the order of the rest.
LEMMA DropKeepsOrder ==
  ASSUME NEW S, OrderInv, DropPending(S)
  PROVE  OrderInv'
  BY DEF OrderInv, PendingOrdered, DropPending

\* Every step keeps pending_list a chain.
LEMMA OrderNext == OrderInv /\ [Next]_vars => OrderInv'
  <1> SUFFICES ASSUME OrderInv, [Next]_vars PROVE OrderInv'
    OBVIOUS
  <1> USE DEF OrderInv, PendingOrdered
  <1>1. ASSUME NEW c \in Ctx, Open(c) PROVE OrderInv'
    BY <1>1 DEF Open, lists, context, waiters, thread, device, history
  <1>2. ASSUME NEW c \in Ctx, Register(c) PROVE OrderInv'
    BY <1>2 DEF Register, lists, context, waiters, thread, device, history
  <1>3. ASSUME NEW t \in Task, Invoke(t) PROVE OrderInv'
    BY <1>3 DEF Invoke, Linked
  <1>4. ASSUME NEW t \in Task, Cancel(t) PROVE OrderInv'
    BY <1>4, DropKeepsOrder DEF Cancel, DelInvokes
  <1>5. ASSUME NEW c \in Ctx, Unregister(c) PROVE OrderInv'
    BY <1>5, DropKeepsOrder DEF Unregister, DelInvokes
  <1>6. ASSUME NEW t \in Task, WaitStart(t) PROVE OrderInv'
    BY <1>6 DEF WaitStart, lists, context, waiters, thread, device, history
  <1>7. ASSUME NEW t \in Task, WaitTake(t) PROVE OrderInv'
    BY <1>7 DEF WaitTake, lists, context, waiters, thread, device, history
  <1>8. ASSUME NEW c \in Ctx, WaitTimeout(c) PROVE OrderInv'
    BY <1>8 DEF WaitTimeout, lists, context, waiters, thread, device, history
  <1>9. ASSUME NEW c \in Ctx, CloseBegin(c) PROVE OrderInv'
    BY <1>9 DEF CloseBegin, lists, context, waiters, thread, device, history
  <1>10. ASSUME NEW c \in Ctx, CloseDelAll(c) PROVE OrderInv'
    BY <1>10, DropKeepsOrder DEF CloseDelAll, DelInvokes
  <1>11. ASSUME NEW c \in Ctx, CloseDrained(c) PROVE OrderInv'
    BY <1>11 DEF CloseDrained, lists, context, waiters, thread, device, history
  <1>30. ASSUME NEW c \in Ctx, CloseDetach(c) PROVE OrderInv'
    BY <1>30 DEF CloseDetach, lists, context, waiters, thread, device, history
  <1>12. ASSUME NEW c \in Ctx, CloseFree(c) PROVE OrderInv'
    BY <1>12 DEF CloseFree, lists, context, waiters, thread, device, history
  <1>13. CASE Poll
    BY <1>13 DEF Poll, lists, context, waiters, thread, device, history
  <1>14. CASE CheckNet
    BY <1>14 DEF CheckNet, lists, context, waiters, thread, device, history
  <1>15. CASE Schedule
    BY <1>15, DropKeepsOrder DEF Schedule
  <1>16. CASE ScheduleNone
    BY <1>16 DEF ScheduleNone, lists, context, waiters, thread, device, history
  <1>17. CASE Post
    BY <1>17 DEF Post, lists, context, waiters, thread, device, history
  <1>18. CASE Exec
    BY <1>18 DEF Exec, lists, context, waiters, thread, device, history
  <1>19. CASE ExecTee
    BY <1>19 DEF ExecTee, lists, context, waiters, thread, device, history
  <1>20. CASE WaitIrq
    BY <1>20 DEF WaitIrq, lists, context, waiters, thread, device, history
  <1>21. CASE WaitIrqTimeout
    BY <1>21 DEF WaitIrqTimeout, lists, context, waiters, thread, device, history
  <1>22. CASE TimeoutProc
    BY <1>22 DEF TimeoutProc, lists, context, waiters, thread, device, history
  <1>23. CASE BottomHalf
    BY <1>23 DEF BottomHalf, lists, context, waiters, thread, device, history
  <1>24. CASE ReportCancelled
    BY <1>24 DEF ReportCancelled, lists, context, waiters, thread, device, history
  <1>25. CASE ReportDone
    BY <1>25 DEF ReportDone, lists, context, waiters, thread, device, history
  <1>26. CASE Notify
    BY <1>26 DEF Notify, lists, context, waiters, thread, device, history
  <1>27. CASE HwFinish
    BY <1>27 DEF HwFinish, lists, context, waiters, thread, device, history
  <1>28. CASE IrqTopHalf
    BY <1>28 DEF IrqTopHalf, lists, context, waiters, thread, device, history
  <1>29. CASE UNCHANGED vars
    BY <1>29 DEF vars, lists, context, waiters, thread, device, history
  <1> QED
    BY <1>1, <1>2, <1>3, <1>4, <1>5, <1>6, <1>7, <1>8, <1>9, <1>10, <1>11, <1>12, <1>30,
       <1>13, <1>14, <1>15, <1>16, <1>17, <1>18, <1>19, <1>20, <1>21, <1>22, <1>23, <1>24,
       <1>25, <1>26, <1>27, <1>28, <1>29
    DEF Next, Client, Thread, Device, CloseGoesOn

\* pending_list stays one chain under every mixture of appends, deletions in the
\* middle and moves to scheduled_list.
THEOREM OrderCorrect == Spec => []PendingOrdered
  <1>1. OrderInv => PendingOrdered
    BY DEF OrderInv
  <1> QED
    BY OrderInit, OrderNext, <1>1, PTL DEF Spec

-----------------------------------------------------------------------------
(* Priorities.                                                             *)

\* Every task has one of the three priorities.
LEMMA Priorities == \A t \in Task : Prio[t] \in {0, 1, 2}
  BY PrioAssumption

\* A step adds to scheduled_list only by scheduling.
LEMMA OnlyScheduleAdds ==
  ASSUME TypeInv, [Next]_vars, ~Schedule
  PROVE  scheduled' \subseteq scheduled
  <1>1. ASSUME NEW c \in Ctx, Open(c) PROVE scheduled' \subseteq scheduled
    BY <1>1 DEF Open, lists, context, waiters, thread, device, history
  <1>2. ASSUME NEW c \in Ctx, Register(c) PROVE scheduled' \subseteq scheduled
    BY <1>2 DEF Register, lists, context, waiters, thread, device, history
  <1>3. ASSUME NEW t \in Task, Invoke(t) PROVE scheduled' \subseteq scheduled
    BY <1>3 DEF Invoke, lists, context, waiters, thread, device, history
  <1>4. ASSUME NEW t \in Task, Cancel(t) PROVE scheduled' \subseteq scheduled
    BY <1>4 DEF Cancel, DelInvokes, SchedAfterDel
  <1>5. ASSUME NEW c \in Ctx, Unregister(c) PROVE scheduled' \subseteq scheduled
    BY <1>5 DEF Unregister, DelInvokes, SchedAfterDel
  <1>6. ASSUME NEW t \in Task, WaitStart(t) PROVE scheduled' \subseteq scheduled
    BY <1>6 DEF WaitStart, lists, context, waiters, thread, device, history
  <1>7. ASSUME NEW t \in Task, WaitTake(t) PROVE scheduled' \subseteq scheduled
    BY <1>7 DEF WaitTake, lists, context, waiters, thread, device, history
  <1>8. ASSUME NEW c \in Ctx, WaitTimeout(c) PROVE scheduled' \subseteq scheduled
    BY <1>8 DEF WaitTimeout, lists, context, waiters, thread, device, history
  <1>9. ASSUME NEW c \in Ctx, CloseBegin(c) PROVE scheduled' \subseteq scheduled
    BY <1>9 DEF CloseBegin, lists, context, waiters, thread, device, history
  <1>10. ASSUME NEW c \in Ctx, CloseDelAll(c) PROVE scheduled' \subseteq scheduled
    BY <1>10 DEF CloseDelAll, DelInvokes, SchedAfterDel
  <1>11. ASSUME NEW c \in Ctx, CloseDrained(c) PROVE scheduled' \subseteq scheduled
    BY <1>11 DEF CloseDrained, lists, context, waiters, thread, device, history
  <1>30. ASSUME NEW c \in Ctx, CloseDetach(c) PROVE scheduled' \subseteq scheduled
    BY <1>30 DEF CloseDetach, lists, context, waiters, thread, device, history
  <1>12. ASSUME NEW c \in Ctx, CloseFree(c) PROVE scheduled' \subseteq scheduled
    BY <1>12 DEF CloseFree, lists, context, waiters, thread, device, history
  <1>13. CASE Poll
    BY <1>13 DEF Poll, lists, context, waiters, thread, device, history
  <1>14. CASE CheckNet
    BY <1>14 DEF CheckNet, lists, context, waiters, thread, device, history
  <1>15. CASE Schedule
    BY <1>15
  <1>16. CASE ScheduleNone
    BY <1>16 DEF ScheduleNone, lists, context, waiters, thread, device, history
  <1>17. CASE Post
    BY <1>17 DEF Post, lists, context, waiters, thread, device, history
  <1>18. CASE Exec
    BY <1>18 DEF Exec, lists, context, waiters, thread, device, history
  <1>19. CASE ExecTee
    BY <1>19 DEF ExecTee, lists, context, waiters, thread, device, history
  <1>20. CASE WaitIrq
    BY <1>20 DEF WaitIrq, lists, context, waiters, thread, device, history
  <1>21. CASE WaitIrqTimeout
    BY <1>21 DEF WaitIrqTimeout, lists, context, waiters, thread, device, history
  <1>22. CASE TimeoutProc
    BY <1>22 DEF TimeoutProc, lists, context, waiters, thread, device, history
  <1>23. CASE BottomHalf
    BY <1>23 DEF BottomHalf, lists, context, waiters, thread, device, history
  <1>24. CASE ReportCancelled
    BY <1>24 DEF ReportCancelled, lists, context, waiters, thread, device, history
  <1>25. CASE ReportDone
    BY <1>25 DEF ReportDone, lists, context, waiters, thread, device, history
  <1>26. CASE Notify
    BY <1>26 DEF Notify, lists, context, waiters, thread, device, history
  <1>27. CASE HwFinish
    BY <1>27 DEF HwFinish, lists, context, waiters, thread, device, history
  <1>28. CASE IrqTopHalf
    BY <1>28 DEF IrqTopHalf, lists, context, waiters, thread, device, history
  <1>29. CASE UNCHANGED vars
    BY <1>29 DEF vars, lists, context, waiters, thread, device, history
  <1> QED
    BY <1>1, <1>2, <1>3, <1>4, <1>5, <1>6, <1>7, <1>8, <1>9, <1>10, <1>11, <1>12, <1>30,
       <1>13, <1>14, <1>15, <1>16, <1>17, <1>18, <1>19, <1>20, <1>21, <1>22, <1>23, <1>24,
       <1>25, <1>26, <1>27, <1>28, <1>29
    DEF Next, Client, Thread, Device, CloseGoesOn

\* With no net held the scheduler takes a task of the best priority there is, and
\* of those the one that was queued first.
LEMMA PriorityStep ==
  TypeInv /\ OrderInv /\ [Next]_vars =>
    (hold = NoNet =>
       \A t \in scheduled' \ scheduled : \A u \in pending \ {t} :
         Rank(t) < Rank(u) \/ (Rank(t) = Rank(u) /\ u \notin ahead[t]))
  <1> SUFFICES ASSUME TypeInv, OrderInv, [Next]_vars, hold = NoNet,
                      NEW t \in scheduled' \ scheduled, NEW u \in pending \ {t}
               PROVE  Rank(t) < Rank(u) \/ (Rank(t) = Rank(u) /\ u \notin ahead[t])
    OBVIOUS
  <1>1. Schedule
    BY OnlyScheduleAdds
  <1>2. t \in pending /\ IsFirst(t, Candidates)
    BY <1>1 DEF Schedule
  <1>3. t \in Candidates /\ (u \in Candidates => u \notin ahead[t])
    BY <1>2 DEF IsFirst
  <1>4. t \in Task /\ u \in Task
    BY <1>2 DEF OrderInv
  <1>5. Prio[t] \in {0, 1, 2} /\ Prio[u] \in {0, 1, 2}
    BY <1>4, Priorities
  <1>6. CASE OfPrio(2) # {}
    BY <1>2, <1>3, <1>5, <1>6 DEF Candidates, OfPrio, Rank
  <1>7. CASE OfPrio(2) = {} /\ OfPrio(0) # {}
    BY <1>2, <1>3, <1>5, <1>7 DEF Candidates, OfPrio, Rank
  <1>8. CASE OfPrio(2) = {} /\ OfPrio(0) = {}
    BY <1>2, <1>3, <1>5, <1>8 DEF Candidates, OfPrio, Rank
  <1> QED
    BY <1>6, <1>7, <1>8

\* The scheduler's order, for every assignment of priorities to tasks.
THEOREM PriorityCorrect == Spec => PriorityThenFifo
  BY TypeInit, TypeNext, OrderInit, OrderNext, PriorityStep, PTL DEF Spec, PriorityThenFifo

-----------------------------------------------------------------------------
(* The life of a task: its model, its state and its cancellation.          *)

\* Until the release of its file detaches it, the context of the task in hand
\* keeps the model the thread dereferences, although DESTROY_NETWORK can come at
\* any time.
ModelKept ==
  Busy /\ ctx[Owner(cur)] \notin {"detached", "free"} => Owner(cur) \in model

\* A pending task belongs to a registered network of a context that has not yet
\* dropped its tasks; the model of the task in hand is kept.
OwnInv ==
  /\ \A t \in pending : Owner(t) \in model /\ ctx[Owner(t)] \in {"open", "closing"}
  /\ ModelKept

\* A task is in the state PENDING until it is executed.
StateInv ==
  /\ \A t \in pending : task[t].st = "pending"
  /\ ipc \in {"post", "exec"} => task[cur].st = "pending"

\* What is pending, or scheduled and not flagged, has not been cancelled.
LiveInv ==
  /\ pending \subseteq live
  /\ \A t \in scheduled : ~task[t].can => t \in live

LifeInv == OwnInv /\ StateInv /\ LiveInv
BaseInv == TypeInv /\ OneOnDevice

\* Initially there is no task.
LEMMA LifeInit == Init => LifeInv
  BY DEF Init, LifeInv, OwnInv, StateInv, LiveInv, ModelKept, Busy

\* A deletion keeps the states of the tasks, and flags or unlinks what it cancels.
LEMMA DelInvokesLife ==
  ASSUME NEW S \in SUBSET Task, TypeOK, LiveInv, DelInvokes(S)
  PROVE  /\ pending' = pending \ S /\ scheduled' = scheduled
         /\ \A t \in Task : task'[t].st = task[t].st
         /\ LiveInv'
  <1>1. \A t \in Task : task'[t] = IF t \in S \cap scheduled
                                   THEN [task[t] EXCEPT !.can = TRUE] ELSE task[t]
    BY DEF DelInvokes, Flagged
  <1>2. \A t \in Task : task[t] \in TaskRecord
    BY DEF TypeOK
  <1>3. \A t \in Task : /\ task'[t].st = task[t].st
                       /\ task'[t].can = (task[t].can \/ t \in S \cap scheduled)
    <2> SUFFICES ASSUME NEW t \in Task
                 PROVE  /\ task'[t].st = task[t].st
                        /\ task'[t].can = (task[t].can \/ t \in S \cap scheduled)
      OBVIOUS
    <2>1. CASE t \in S \cap scheduled
      BY <1>1, <1>2, <2>1 DEF TaskRecord
    <2>2. CASE t \notin S \cap scheduled
      BY <1>1, <1>2, <2>2 DEF TaskRecord
    <2> QED
      BY <2>1, <2>2
  <1>4. pending' = pending \ S /\ scheduled' = scheduled /\ live' = live \ S
    BY DEF DelInvokes, DropPending, SchedAfterDel
  <1> QED
    BY <1>3, <1>4 DEF LiveInv, TypeOK

\* A step taken while the context of the task in hand exists keeps all of it.
LEMMA LifeStep == BaseInv /\ LifeInv /\ Defined /\ [Next]_vars => LifeInv'
  <1> SUFFICES ASSUME BaseInv, LifeInv, Defined, [Next]_vars PROVE LifeInv'
    OBVIOUS
  <1> USE OwnerType, NullAssumption
      DEF BaseInv, TypeInv, CurKnown, LifeInv, OwnInv, StateInv, LiveInv,
          ModelKept, OneOnDevice, Busy, Defined
  <1>1. ASSUME NEW c \in Ctx, Open(c) PROVE LifeInv'
    BY <1>1 DEF Open, TypeOK, lists, context, waiters, thread, device, history
  <1>2. ASSUME NEW c \in Ctx, Register(c) PROVE LifeInv'
    BY <1>2 DEF Register, TypeOK, lists, context, waiters, thread, device, history
  <1>3. ASSUME NEW t \in Task, Invoke(t) PROVE LifeInv'
    <2>1. Recreated(task[t]).st = "pending"
      BY DEF Recreated, TypeOK, TaskRecord
    <2>2. t \notin scheduled /\ pending' = pending \cup {t} /\ live' = live \cup {t}
      BY <1>3 DEF Invoke, Linked
    <2>3. task'[t].st = "pending" /\ \A u \in Task \ {t} : task'[u] = task[u]
      BY <1>3, <2>1 DEF Invoke, TypeOK
    <2>4. StateInv'
      BY <1>3, <2>2, <2>3 DEF Invoke, Linked, TypeOK, thread
    <2>5. LiveInv'
      BY <1>3, <2>2, <2>3 DEF Invoke, TypeOK
    <2>6. OwnInv'
      BY <1>3, <2>2 DEF Invoke, TypeOK, thread
    <2> QED
      BY <2>4, <2>5, <2>6
  <1>4. ASSUME NEW t \in Task, Cancel(t) PROVE LifeInv'
    <2>1. /\ pending' = pending \ {t} /\ scheduled' = scheduled
         /\ \A u \in Task : task'[u].st = task[u].st
      BY <1>4, DelInvokesLife DEF Cancel, TasksOf
    <2>4. LiveInv'
      BY <1>4, DelInvokesLife DEF Cancel, TasksOf
    <2>2. StateInv'
      BY <1>4, <2>1 DEF Cancel, TypeOK, thread
    <2>3. OwnInv'
      BY <1>4, <2>1 DEF Cancel, OnDevice, TasksOf, TypeOK, context, thread
    <2> QED
      BY <2>4, <2>2, <2>3
  <1>5. ASSUME NEW c \in Ctx, Unregister(c) PROVE LifeInv'
    <2>1. /\ pending' = pending \ TasksOf(c) /\ scheduled' = scheduled
         /\ \A u \in Task : task'[u].st = task[u].st
      BY <1>5, DelInvokesLife DEF Unregister, TasksOf
    <2>4. LiveInv'
      BY <1>5, DelInvokesLife DEF Unregister, TasksOf
    <2>2. StateInv'
      BY <1>5, <2>1 DEF Unregister, TypeOK, thread
    <2>3. OwnInv'
      BY <1>5, <2>1 DEF Unregister, OnDevice, TasksOf, TypeOK, context, thread
    <2> QED
      BY <2>4, <2>2, <2>3
  <1>6. ASSUME NEW t \in Task, WaitStart(t) PROVE LifeInv'
    BY <1>6 DEF WaitStart, TypeOK, lists, context, waiters, thread, device, history
  <1>7. ASSUME NEW t \in Task, WaitTake(t) PROVE LifeInv'
    BY <1>7 DEF WaitTake, TypeOK, lists, context, waiters, thread, device, history
  <1>8. ASSUME NEW c \in Ctx, WaitTimeout(c) PROVE LifeInv'
    BY <1>8 DEF WaitTimeout, TypeOK, lists, context, waiters, thread, device, history
  <1>9. ASSUME NEW c \in Ctx, CloseBegin(c) PROVE LifeInv'
    BY <1>9 DEF CloseBegin, TypeOK, lists, context, waiters, thread, device, history
  <1>10. ASSUME NEW c \in Ctx, CloseDelAll(c) PROVE LifeInv'
    <2>1. /\ pending' = pending \ TasksOf(c) /\ scheduled' = scheduled
         /\ \A u \in Task : task'[u].st = task[u].st
      BY <1>10, DelInvokesLife DEF CloseDelAll, TasksOf
    <2>4. LiveInv'
      BY <1>10, DelInvokesLife DEF CloseDelAll, TasksOf
    <2>2. StateInv'
      BY <1>10, <2>1 DEF CloseDelAll, TypeOK, thread
    <2>3. OwnInv'
      BY <1>10, <2>1 DEF CloseDelAll, OnDevice, TasksOf, TypeOK, context, thread
    <2> QED
      BY <2>4, <2>2, <2>3
  <1>11. ASSUME NEW c \in Ctx, CloseDrained(c) PROVE LifeInv'
    BY <1>11 DEF CloseDrained, TypeOK, lists, context, waiters, thread, device, history
  <1>30. ASSUME NEW c \in Ctx, CloseDetach(c) PROVE LifeInv'
    BY <1>30 DEF CloseDetach, TypeOK, lists, context, waiters, thread, device, history
  <1>12. ASSUME NEW c \in Ctx, CloseFree(c) PROVE LifeInv'
    BY <1>12 DEF CloseFree, TypeOK, lists, waiters, thread, device, history
  <1>13. CASE Poll
    BY <1>13 DEF Poll, TypeOK, lists, context, waiters, thread, device, history
  <1>14. CASE CheckNet
    BY <1>14 DEF CheckNet, TypeOK, lists, context, waiters, thread, device, history
  <1>15. CASE Schedule
    <2>1. PICK t \in pending : /\ pending' = pending \ {t} /\ scheduled' = scheduled \cup {t}
                             /\ cur' = t
      BY <1>15 DEF Schedule, DropPending
    <2> QED
      BY <1>15, <2>1 DEF Schedule, TypeOK, context, history
  <1>16. CASE ScheduleNone
    BY <1>16 DEF ScheduleNone, TypeOK, lists, context, waiters, thread, device, history
  <1>17. CASE Post
    BY <1>17 DEF Post, TypeOK, lists, context, waiters, thread, device, history
  <1>18. CASE Exec
    BY <1>18 DEF Exec, TypeOK, lists, context, waiters, thread, device, history
  <1>19. CASE ExecTee
    <2>1. \A ok \in BOOLEAN : EndedTee(task[cur], ok).can = task[cur].can
      BY <1>19 DEF ExecTee, EndedTee, TypeOK, TaskRecord
    <2>2. task'[cur].can = task[cur].can /\ \A t \in Task \ {cur} : task'[t] = task[t]
      BY <1>19, <2>1 DEF ExecTee, TypeOK
    <2> QED
      BY <1>19, <2>2 DEF ExecTee, TypeOK, lists, context
  <1>20. CASE WaitIrq
    BY <1>20 DEF WaitIrq, TypeOK, lists, context, waiters, thread, device, history
  <1>21. CASE WaitIrqTimeout
    BY <1>21 DEF WaitIrqTimeout, TypeOK, lists, context, waiters, thread, device, history
  <1>22. CASE TimeoutProc
    BY <1>22 DEF TimeoutProc, IrqProc, TypeOK, lists, context, waiters, thread, device, history
  <1>23. CASE BottomHalf
    <2>1. Ended(task[cur]).can = task[cur].can
      BY <1>23 DEF BottomHalf, Ended, TypeOK, TaskRecord
    <2>2. task'[cur].can = task[cur].can /\ \A t \in Task \ {cur} : task'[t] = task[t]
      BY <1>23, <2>1 DEF BottomHalf, TypeOK
    <2> QED
      BY <1>23, <2>2 DEF BottomHalf, TypeOK, lists, context, history
  <1>24. CASE ReportCancelled
    BY <1>24 DEF ReportCancelled, LoopEnd, TypeOK, lists, context, waiters, thread, device, history
  <1>25. CASE ReportDone
    BY <1>25 DEF ReportDone, TypeOK, lists, context, waiters, thread, device, history
  <1>26. CASE Notify
    BY <1>26 DEF Notify, LoopEnd, TypeOK, lists, context, waiters, thread, device, history
  <1>27. CASE HwFinish
    BY <1>27 DEF HwFinish, TypeOK, lists, context, waiters, thread, device, history
  <1>28. CASE IrqTopHalf
    BY <1>28 DEF IrqTopHalf, IrqProc, TypeOK, lists, context, waiters, thread, device, history
  <1>29. CASE UNCHANGED vars
    BY <1>29 DEF vars, lists, context, waiters, thread, device, history
  <1> QED
    BY <1>1, <1>2, <1>3, <1>4, <1>5, <1>6, <1>7, <1>8, <1>9, <1>10, <1>11, <1>12, <1>30,
       <1>13, <1>14, <1>15, <1>16, <1>17, <1>18, <1>19, <1>20, <1>21, <1>22, <1>23, <1>24,
       <1>25, <1>26, <1>27, <1>28, <1>29
    DEF Next, Client, Thread, Device, CloseGoesOn

LEMMA LifeNext == BaseInv /\ LifeInv /\ [Next]_vars => LifeInv'
  <1>1. CASE Next
    BY <1>1, LifeStep DEF Next, Client, Thread, Device
  <1>2. LifeInv /\ UNCHANGED vars => LifeInv'
    BY DEF vars, lists, context, waiters, thread, device, history, LifeInv, OwnInv,
           StateInv, LiveInv, ModelKept, Busy, Defined
  <1> QED
    BY <1>1, <1>2

\* What the theorems below follow from, in every reachable state.
LEMMA LifeCorrect == Spec => [](BaseInv /\ LifeInv)
  <1>1. Init => BaseInv /\ LifeInv
    BY TypeInit, OneInit, LifeInit DEF BaseInv
  <1>2. BaseInv /\ LifeInv /\ [Next]_vars => (BaseInv /\ LifeInv)'
    BY TypeNext, OneNext, LifeNext DEF BaseInv
  <1> QED
    BY <1>1, <1>2, PTL DEF Spec

\* DESTROY_NETWORK and whatever else comes before the release detaches the
\* context never take the model of the task in hand, for any number of sub-tasks.
THEOREM ModelKeptCorrect == Spec => []ModelKept
  <1>1. LifeInv => ModelKept
    BY DEF LifeInv, OwnInv
  <1> QED
    BY LifeCorrect, <1>1, PTL

\* The assertion on the state of a task at its execution holds, whatever its
\* reused memory went through before.
THEOREM ExecutesCorrect == Spec => []ExecutesPending
  <1>1. LifeInv => ExecutesPending
    BY DEF LifeInv, StateInv, ExecutesPending
  <1> QED
    BY LifeCorrect, <1>1, PTL

\* A step adds to finished_list only by reporting a task that is not flagged.
LEMMA OnlyReportAdds ==
  ASSUME TypeInv, [Next]_vars, ~ReportDone
  PROVE  finished' \subseteq finished
  <1>1. ASSUME NEW c \in Ctx, Open(c) PROVE finished' \subseteq finished
    BY <1>1 DEF Open, lists, context, waiters, thread, device, history
  <1>2. ASSUME NEW c \in Ctx, Register(c) PROVE finished' \subseteq finished
    BY <1>2 DEF Register, lists, context, waiters, thread, device, history
  <1>3. ASSUME NEW t \in Task, Invoke(t) PROVE finished' \subseteq finished
    BY <1>3 DEF Invoke, lists, context, waiters, thread, device, history
  <1>4. ASSUME NEW t \in Task, Cancel(t) PROVE finished' \subseteq finished
    BY <1>4 DEF Cancel, DelInvokes
  <1>5. ASSUME NEW c \in Ctx, Unregister(c) PROVE finished' \subseteq finished
    BY <1>5 DEF Unregister, DelInvokes
  <1>6. ASSUME NEW t \in Task, WaitStart(t) PROVE finished' \subseteq finished
    BY <1>6 DEF WaitStart, lists, context, waiters, thread, device, history
  <1>7. ASSUME NEW t \in Task, WaitTake(t) PROVE finished' \subseteq finished
    BY <1>7 DEF WaitTake, lists, context, waiters, thread, device, history
  <1>8. ASSUME NEW c \in Ctx, WaitTimeout(c) PROVE finished' \subseteq finished
    BY <1>8 DEF WaitTimeout, lists, context, waiters, thread, device, history
  <1>9. ASSUME NEW c \in Ctx, CloseBegin(c) PROVE finished' \subseteq finished
    BY <1>9 DEF CloseBegin, lists, context, waiters, thread, device, history
  <1>10. ASSUME NEW c \in Ctx, CloseDelAll(c) PROVE finished' \subseteq finished
    BY <1>10 DEF CloseDelAll, DelInvokes
  <1>11. ASSUME NEW c \in Ctx, CloseDrained(c) PROVE finished' \subseteq finished
    BY <1>11 DEF CloseDrained, lists, context, waiters, thread, device, history
  <1>30. ASSUME NEW c \in Ctx, CloseDetach(c) PROVE finished' \subseteq finished
    BY <1>30 DEF CloseDetach, lists, context, waiters, thread, device, history
  <1>12. ASSUME NEW c \in Ctx, CloseFree(c) PROVE finished' \subseteq finished
    BY <1>12 DEF CloseFree, lists, context, waiters, thread, device, history
  <1>13. CASE Poll
    BY <1>13 DEF Poll, lists, context, waiters, thread, device, history
  <1>14. CASE CheckNet
    BY <1>14 DEF CheckNet, lists, context, waiters, thread, device, history
  <1>15. CASE Schedule
    BY <1>15 DEF Schedule, lists, context, waiters, thread, device, history
  <1>16. CASE ScheduleNone
    BY <1>16 DEF ScheduleNone, lists, context, waiters, thread, device, history
  <1>17. CASE Post
    BY <1>17 DEF Post, lists, context, waiters, thread, device, history
  <1>18. CASE Exec
    BY <1>18 DEF Exec, lists, context, waiters, thread, device, history
  <1>19. CASE ExecTee
    BY <1>19 DEF ExecTee, lists, context, waiters, thread, device, history
  <1>20. CASE WaitIrq
    BY <1>20 DEF WaitIrq, lists, context, waiters, thread, device, history
  <1>21. CASE WaitIrqTimeout
    BY <1>21 DEF WaitIrqTimeout, lists, context, waiters, thread, device, history
  <1>22. CASE TimeoutProc
    BY <1>22 DEF TimeoutProc, lists, context, waiters, thread, device, history
  <1>23. CASE BottomHalf
    BY <1>23 DEF BottomHalf, lists, context, waiters, thread, device, history
  <1>24. CASE ReportCancelled
    BY <1>24 DEF ReportCancelled, lists, context, waiters, thread, device, history
  <1>25. CASE ReportDone
    BY <1>25
  <1>26. CASE Notify
    BY <1>26 DEF Notify, lists, context, waiters, thread, device, history
  <1>27. CASE HwFinish
    BY <1>27 DEF HwFinish, lists, context, waiters, thread, device, history
  <1>28. CASE IrqTopHalf
    BY <1>28 DEF IrqTopHalf, lists, context, waiters, thread, device, history
  <1>29. CASE UNCHANGED vars
    BY <1>29 DEF vars, lists, context, waiters, thread, device, history
  <1> QED
    BY <1>1, <1>2, <1>3, <1>4, <1>5, <1>6, <1>7, <1>8, <1>9, <1>10, <1>11, <1>12, <1>30,
       <1>13, <1>14, <1>15, <1>16, <1>17, <1>18, <1>19, <1>20, <1>21, <1>22, <1>23, <1>24,
       <1>25, <1>26, <1>27, <1>28, <1>29
    DEF Next, Client, Thread, Device, CloseGoesOn

\* A cancelled task is never reported as finished, also when it was on the device
\* at the time it was cancelled.
THEOREM CancelCorrect == Spec => CancelledNotReported
  <1>1. BaseInv /\ LifeInv /\ [Next]_vars =>
          \A t \in Task : t \in finished' \ finished => t \in live
    <2> SUFFICES ASSUME BaseInv, LifeInv, [Next]_vars, NEW t \in Task, t \in finished' \ finished
                 PROVE  t \in live
      OBVIOUS
    <2>1. ReportDone
      BY OnlyReportAdds DEF BaseInv
    <2>2. t = cur /\ ~task[cur].can /\ cur \in scheduled
      BY <2>1 DEF ReportDone, BaseInv, OneOnDevice, Busy
    <2> QED
      BY <2>2 DEF LifeInv, LiveInv
  <1> QED
    BY LifeCorrect, <1>1, PTL DEF Spec, CancelledNotReported

-----------------------------------------------------------------------------
(* The device and the interrupt between two tasks.                         *)

\* While the wait for the interrupt has no bound there is one thing under way at
\* most: a job, then its interrupt, then a token, and only while the thread waits.
DeviceInv ==
  ~HwTimeout => /\ ipc # "timeout" /\ sem_irq <= 1
                /\ ipc # "wait" => hwjob = NoTask /\ irq = "none" /\ sem_irq = 0
                /\ hwjob # NoTask => irq = "none" /\ sem_irq = 0
                /\ irq # "none" => sem_irq = 0

\* Initially the device is idle.
LEMMA DeviceInit == Init => DeviceInv
  BY DEF Init, DeviceInv

\* Every step keeps at most one thing under way.
LEMMA DeviceNext == TypeInv /\ DeviceInv /\ [Next]_vars => DeviceInv'
  <1> SUFFICES ASSUME TypeInv, DeviceInv, [Next]_vars, ~HwTimeout PROVE DeviceInv'
    BY FlagAssumption DEF DeviceInv
  <1> USE NullAssumption DEF DeviceInv
  <1>0. sem_irq \in Nat
    BY DEF TypeInv, TypeOK
  <1>1. ASSUME NEW c \in Ctx, Open(c) PROVE DeviceInv'
    BY <1>1 DEF Open, lists, context, waiters, thread, device, history
  <1>2. ASSUME NEW c \in Ctx, Register(c) PROVE DeviceInv'
    BY <1>2 DEF Register, lists, context, waiters, thread, device, history
  <1>3. ASSUME NEW t \in Task, Invoke(t) PROVE DeviceInv'
    BY <1>3 DEF Invoke, lists, context, waiters, thread, device, history
  <1>4. ASSUME NEW t \in Task, Cancel(t) PROVE DeviceInv'
    BY <1>4 DEF Cancel, thread, device
  <1>5. ASSUME NEW c \in Ctx, Unregister(c) PROVE DeviceInv'
    BY <1>5 DEF Unregister, Released, TasksOf, thread
  <1>6. ASSUME NEW t \in Task, WaitStart(t) PROVE DeviceInv'
    BY <1>6 DEF WaitStart, lists, context, waiters, thread, device, history
  <1>7. ASSUME NEW t \in Task, WaitTake(t) PROVE DeviceInv'
    BY <1>7 DEF WaitTake, lists, context, waiters, thread, device, history
  <1>8. ASSUME NEW c \in Ctx, WaitTimeout(c) PROVE DeviceInv'
    BY <1>8 DEF WaitTimeout, lists, context, waiters, thread, device, history
  <1>9. ASSUME NEW c \in Ctx, CloseBegin(c) PROVE DeviceInv'
    BY <1>9 DEF CloseBegin, lists, context, waiters, thread, device, history
  <1>10. ASSUME NEW c \in Ctx, CloseDelAll(c) PROVE DeviceInv'
    BY <1>10 DEF CloseDelAll, thread, device
  <1>11. ASSUME NEW c \in Ctx, CloseDrained(c) PROVE DeviceInv'
    BY <1>11 DEF CloseDrained, lists, context, waiters, thread, device, history
  <1>30. ASSUME NEW c \in Ctx, CloseDetach(c) PROVE DeviceInv'
    BY <1>30 DEF CloseDetach, Released, TasksOf, thread
  <1>12. ASSUME NEW c \in Ctx, CloseFree(c) PROVE DeviceInv'
    BY <1>12 DEF CloseFree, thread, device
  <1>13. CASE Poll
    BY <1>13 DEF Poll, lists, context, waiters, thread, device, history
  <1>14. CASE CheckNet
    BY <1>14 DEF CheckNet, lists, context, waiters, thread, device, history
  <1>15. CASE Schedule
    BY <1>15 DEF Schedule, lists, context, waiters, thread, device, history
  <1>16. CASE ScheduleNone
    BY <1>16 DEF ScheduleNone, lists, context, waiters, thread, device, history
  <1>17. CASE Post
    BY <1>17 DEF Post, lists, context, waiters, thread, device, history
  <1>18. CASE Exec
    BY <1>18 DEF Exec, lists, context, waiters, thread, device, history
  <1>19. CASE ExecTee
    BY <1>19 DEF ExecTee, lists, context, waiters, thread, device, history
  <1>20. CASE WaitIrq
    BY <1>20, <1>0 DEF WaitIrq
  <1>21. CASE WaitIrqTimeout
    BY <1>21 DEF WaitIrqTimeout, lists, context, waiters, thread, device, history
  <1>22. CASE TimeoutProc
    BY <1>22 DEF TimeoutProc, IrqProc, lists, context, waiters, thread, device, history
  <1>23. CASE BottomHalf
    BY <1>23 DEF BottomHalf, lists, context, waiters, thread, device, history
  <1>24. CASE ReportCancelled
    BY <1>24 DEF ReportCancelled, LoopEnd, lists, context, waiters, thread, device, history
  <1>25. CASE ReportDone
    BY <1>25 DEF ReportDone, lists, context, waiters, thread, device, history
  <1>26. CASE Notify
    BY <1>26 DEF Notify, LoopEnd, lists, context, waiters, thread, device, history
  <1>27. CASE HwFinish
    BY <1>27 DEF HwFinish, lists, context, waiters, thread, device, history
  <1>28. CASE IrqTopHalf
    BY <1>28 DEF IrqTopHalf, IrqProc, lists, context, waiters, thread, device, history
  <1>29. CASE UNCHANGED vars
    BY <1>29 DEF vars, lists, context, waiters, thread, device, history
  <1> QED
    BY <1>1, <1>2, <1>3, <1>4, <1>5, <1>6, <1>7, <1>8, <1>9, <1>10, <1>11, <1>12, <1>30,
       <1>13, <1>14, <1>15, <1>16, <1>17, <1>18, <1>19, <1>20, <1>21, <1>22, <1>23, <1>24,
       <1>25, <1>26, <1>27, <1>28, <1>29
    DEF Next, Client, Thread, Device, CloseGoesOn

\* Between two tasks the device is idle: no job, interrupt or token of one task is
\* left for the next, as long as the wait for the interrupt has no bound.
THEOREM DeviceCorrect == Spec => []DeviceInStep
  <1>1. Init => TypeInv /\ DeviceInv
    BY TypeInit, DeviceInit
  <1>2. TypeInv /\ DeviceInv /\ [Next]_vars => (TypeInv /\ DeviceInv)'
    BY TypeNext, DeviceNext
  <1>3. DeviceInv => DeviceInStep
    BY DEF DeviceInv, DeviceInStep
  <1> QED
    BY <1>1, <1>2, <1>3, PTL DEF Spec

-----------------------------------------------------------------------------
(* What a context leaves behind.                                           *)

\* Once adlak_invoke_del_all has run for a context none of its tasks is pending or
\* finished and what it has on the device is flagged; a detached one has no model.
GoneInv ==
  /\ \A c \in Ctx : ctx[c] \in {"drain", "freeing", "detached", "free"} =>
       /\ \A t \in pending \cup finished : Owner(t) # c
       /\ \A t \in scheduled : Owner(t) = c => task[t].can
  /\ \A c \in Ctx : ctx[c] \in {"detached", "free"} => c \notin model

\* Initially there is no task and no model.
LEMMA GoneInit == Init => GoneInv
  BY DEF Init, GoneInv

\* A deletion changes nothing of a task but its flag, and flags what it leaves on
\* scheduled_list.
LEMMA DelInvokesKeeps ==
  ASSUME NEW S \in SUBSET Task, TypeOK, DelInvokes(S)
  PROVE  /\ pending' = pending \ S /\ scheduled' = scheduled /\ finished' = finished \ S
         /\ ran' = ran
         /\ \A t \in Task : /\ task'[t].st = task[t].st /\ task'[t].hw = task[t].hw
                           /\ task'[t].can = (task[t].can \/ t \in S \cap scheduled)
  <1>1. \A t \in Task : task'[t] = IF t \in S \cap scheduled
                                   THEN [task[t] EXCEPT !.can = TRUE] ELSE task[t]
    BY DEF DelInvokes, Flagged
  <1>2. \A t \in Task : task[t] \in TaskRecord
    BY DEF TypeOK
  <1>3. ASSUME NEW t \in Task
        PROVE  /\ task'[t].st = task[t].st /\ task'[t].hw = task[t].hw
               /\ task'[t].can = (task[t].can \/ t \in S \cap scheduled)
    <2>1. CASE t \in S \cap scheduled
      BY <1>1, <1>2, <2>1 DEF TaskRecord
    <2>2. CASE t \notin S \cap scheduled
      BY <1>1, <1>2, <2>2 DEF TaskRecord
    <2> QED
      BY <2>1, <2>2
  <1> QED
    BY <1>3 DEF DelInvokes, DropPending, SchedAfterDel

\* Every step keeps that.
LEMMA GoneNext == BaseInv /\ GoneInv /\ [Next]_vars => GoneInv'
  <1> SUFFICES ASSUME BaseInv, GoneInv, [Next]_vars PROVE GoneInv'
    OBVIOUS
  <1> USE OwnerType DEF GoneInv, BaseInv, TypeInv
  <1>0. pending \subseteq Task /\ scheduled \subseteq Task /\ finished \subseteq Task
    BY DEF TypeOK
  <1>1. ASSUME NEW c \in Ctx, Open(c) PROVE GoneInv'
    BY <1>1, <1>0 DEF Open, TypeOK, lists
  <1>2. ASSUME NEW c \in Ctx, Register(c) PROVE GoneInv'
    BY <1>2, <1>0 DEF Register, TypeOK, lists
  <1>3. ASSUME NEW t \in Task, Invoke(t) PROVE GoneInv'
    <2>1. \A u \in Task \ {t} : task'[u] = task[u]
      BY <1>3 DEF Invoke, TypeOK
    <2> QED
      BY <1>3, <1>0, <2>1 DEF Invoke, Linked
  <1>4. ASSUME NEW t \in Task, Cancel(t) PROVE GoneInv'
    <2>1. /\ pending' = pending \ {t} /\ scheduled' = scheduled /\ finished' = finished \ {t}
          /\ \A u \in Task : task'[u].can = (task[u].can \/ u \in {t} \cap scheduled)
      BY <1>4, DelInvokesKeeps DEF Cancel
    <2> QED
      BY <1>4, <1>0, <2>1 DEF Cancel, context
  <1>5. ASSUME NEW c \in Ctx, Unregister(c) PROVE GoneInv'
    <2>1. TasksOf(c) \in SUBSET Task /\ \A t \in Task : t \in TasksOf(c) <=> Owner(t) = c
      BY DEF TasksOf
    <2>2. /\ pending' = pending \ TasksOf(c) /\ scheduled' = scheduled
          /\ finished' = finished \ TasksOf(c)
          /\ \A t \in Task : task'[t].can = (task[t].can \/ t \in TasksOf(c) \cap scheduled)
      BY <1>5, <2>1, DelInvokesKeeps DEF Unregister
    <2> QED
      BY <1>5, <1>0, <2>1, <2>2 DEF Unregister, TypeOK, context
  <1>6. ASSUME NEW t \in Task, WaitStart(t) PROVE GoneInv'
    BY <1>6 DEF WaitStart, lists, context, waiters, thread, device, history
  <1>7. ASSUME NEW t \in Task, WaitTake(t) PROVE GoneInv'
    BY <1>7 DEF WaitTake, lists, context, waiters, thread, device, history
  <1>8. ASSUME NEW c \in Ctx, WaitTimeout(c) PROVE GoneInv'
    BY <1>8 DEF WaitTimeout, lists, context, waiters, thread, device, history
  <1>9. ASSUME NEW c \in Ctx, CloseBegin(c) PROVE GoneInv'
    BY <1>9, <1>0 DEF CloseBegin, TypeOK, lists
  <1>10. ASSUME NEW c \in Ctx, CloseDelAll(c) PROVE GoneInv'
    <2>1. TasksOf(c) \in SUBSET Task /\ \A t \in Task : t \in TasksOf(c) <=> Owner(t) = c
      BY DEF TasksOf
    <2>2. /\ pending' = pending \ TasksOf(c) /\ scheduled' = scheduled
          /\ finished' = finished \ TasksOf(c)
          /\ \A t \in Task : task'[t].can = (task[t].can \/ t \in TasksOf(c) \cap scheduled)
      BY <1>10, <2>1, DelInvokesKeeps DEF CloseDelAll
    <2> QED
      BY <1>10, <1>0, <2>1, <2>2 DEF CloseDelAll, TypeOK, context
  <1>11. ASSUME NEW c \in Ctx, CloseDrained(c) PROVE GoneInv'
    BY <1>11, <1>0 DEF CloseDrained, TypeOK, lists
  <1>30. ASSUME NEW c \in Ctx, CloseDetach(c) PROVE GoneInv'
    BY <1>30, <1>0 DEF CloseDetach, TypeOK, lists
  <1>12. ASSUME NEW c \in Ctx, CloseFree(c) PROVE GoneInv'
    BY <1>12, <1>0 DEF CloseFree, TypeOK, lists
  <1>13. CASE Poll
    BY <1>13 DEF Poll, lists, context, waiters, thread, device, history
  <1>14. CASE CheckNet
    BY <1>14 DEF CheckNet, lists, context, waiters, thread, device, history
  <1>15. CASE Schedule
    <2>1. PICK t \in pending : pending' = pending \ {t} /\ scheduled' = scheduled \cup {t}
      BY <1>15 DEF Schedule, DropPending
    <2>2. scheduled = {}
      BY <1>15 DEF Schedule, OneOnDevice, Busy
    <2> QED
      BY <1>15, <1>0, <2>1, <2>2 DEF Schedule, context
  <1>16. CASE ScheduleNone
    BY <1>16 DEF ScheduleNone, lists, context, waiters, thread, device, history
  <1>17. CASE Post
    BY <1>17 DEF Post, lists, context, waiters, thread, device, history
  <1>18. CASE Exec
    <2>1. \A t \in Task : task'[t].can = task[t].can
      BY <1>18 DEF Exec, TypeOK, TaskRecord
    <2> QED
      BY <1>18, <1>0, <2>1 DEF Exec, lists, context
  <1>19. CASE ExecTee
    <2>1. \A ok \in BOOLEAN : EndedTee(task[cur], ok).can = task[cur].can
      BY <1>19 DEF ExecTee, EndedTee, CurKnown, TypeOK, TaskRecord
    <2>2. \A t \in Task : task'[t].can = task[t].can
      BY <1>19, <2>1 DEF ExecTee, TypeOK
    <2> QED
      BY <1>19, <1>0, <2>2 DEF ExecTee, lists, context
  <1>20. CASE WaitIrq
    BY <1>20 DEF WaitIrq, lists, context, waiters, thread, device, history
  <1>21. CASE WaitIrqTimeout
    BY <1>21 DEF WaitIrqTimeout, lists, context, waiters, thread, device, history
  <1>22. CASE TimeoutProc
    <2>1. \A t \in Task : task'[t].can = task[t].can
      BY <1>22 DEF TimeoutProc, IrqProc, TypeOK, TaskRecord
    <2> QED
      BY <1>22, <1>0, <2>1 DEF TimeoutProc, lists, context
  <1>23. CASE BottomHalf
    <2>1. Ended(task[cur]).can = task[cur].can
      BY <1>23 DEF BottomHalf, Ended, CurKnown, TypeOK, TaskRecord
    <2>2. \A t \in Task : task'[t].can = task[t].can
      BY <1>23, <2>1 DEF BottomHalf, TypeOK
    <2> QED
      BY <1>23, <1>0, <2>2 DEF BottomHalf, lists, context
  <1>24. CASE ReportCancelled
    BY <1>24 DEF ReportCancelled, LoopEnd, lists, context, waiters, thread, device, history
  <1>25. CASE ReportDone
    <2>1. cur \in scheduled
      BY <1>25 DEF ReportDone, OneOnDevice, Busy
    <2> QED
      BY <1>25, <1>0, <2>1 DEF ReportDone
  <1>26. CASE Notify
    BY <1>26 DEF Notify, LoopEnd, lists, context, waiters, thread, device, history
  <1>27. CASE HwFinish
    BY <1>27 DEF HwFinish, lists, context, waiters, thread, device, history
  <1>28. CASE IrqTopHalf
    <2>1. \A t \in Task : task'[t].can = task[t].can
      BY <1>28 DEF IrqTopHalf, IrqProc, TypeOK, TaskRecord
    <2> QED
      BY <1>28, <1>0, <2>1 DEF IrqTopHalf, lists, context
  <1>29. CASE UNCHANGED vars
    BY <1>29 DEF vars, lists, context, waiters, thread, device, history
  <1> QED
    BY <1>1, <1>2, <1>3, <1>4, <1>5, <1>6, <1>7, <1>8, <1>9, <1>10, <1>11, <1>12, <1>30,
       <1>13, <1>14, <1>15, <1>16, <1>17, <1>18, <1>19, <1>20, <1>21, <1>22, <1>23, <1>24,
       <1>25, <1>26, <1>27, <1>28, <1>29
    DEF Next, Client, Thread, Device, CloseGoesOn

\* What a context leaves behind, in every reachable state.
LEMMA GoneCorrect == Spec => [](BaseInv /\ GoneInv)
  <1>1. Init => BaseInv /\ GoneInv
    BY TypeInit, OneInit, GoneInit DEF BaseInv
  <1>2. BaseInv /\ GoneInv /\ [Next]_vars => (BaseInv /\ GoneInv)'
    BY TypeNext, OneNext, GoneNext DEF BaseInv
  <1> QED
    BY <1>1, <1>2, PTL DEF Spec

\* A context of one sub-task is given ctx_idle only when nothing of it is left, so
\* it is freed only then.
SoloInv ==
  \A c \in Ctx :
    /\ ctx_idle[c] > 0 => Closed(c) /\ \A t \in pending \cup scheduled : Owner(t) # c
    /\ ctx[c] \in {"freeing", "detached", "free"} => \A t \in scheduled : Owner(t) # c
    /\ ctx[c] = "detached" => ctx_idle[c] = 0

\* Initially nobody was given ctx_idle.
LEMMA SoloInit == Init => SoloInv
  BY DEF Init, SoloInv

\* Every step keeps that, for contexts of one sub-task.
LEMMA SoloNext ==
  ASSUME NEW s, Sub = {s}, BaseInv, GoneInv, SoloInv, [Next]_vars
  PROVE  SoloInv'
  <1> USE OwnerType DEF SoloInv, BaseInv, TypeInv, Closed
  <1>0. pending \subseteq Task /\ scheduled \subseteq Task /\ finished \subseteq Task
    BY DEF TypeOK
  <1>a. ctx_idle \in [Ctx -> Nat] 
          /\ ctx \in [Ctx -> {"free", "open", "closing", "drain", "freeing", "detached"}]
    BY DEF TypeOK
  <1>1. ASSUME NEW c \in Ctx, Open(c) PROVE SoloInv'
    BY <1>1, <1>0, <1>a DEF Open, lists
  <1>2. ASSUME NEW c \in Ctx, Register(c) PROVE SoloInv'
    BY <1>2, <1>0, <1>a DEF Register, lists
  <1>3. ASSUME NEW t \in Task, Invoke(t) PROVE SoloInv'
    BY <1>3, <1>0, <1>a DEF Invoke
  <1>4. ASSUME NEW t \in Task, Cancel(t) PROVE SoloInv'
    <2>1. pending' \subseteq pending /\ scheduled' = scheduled
      BY <1>4, DelInvokesKeeps DEF Cancel
    <2> QED
      BY <1>4, <1>0, <2>1 DEF Cancel, context
  <1>5. ASSUME NEW c \in Ctx, Unregister(c) PROVE SoloInv'
    <2>1. TasksOf(c) \in SUBSET Task /\ \A t \in Task : t \in TasksOf(c) <=> Owner(t) = c
      BY DEF TasksOf
    <2>2. pending' \subseteq pending /\ scheduled' = scheduled
      BY <1>5, <2>1, DelInvokesKeeps DEF Unregister
    <2> QED
      BY <1>5, <1>0, <1>a, <2>1, <2>2 DEF Unregister, OnDevice, context
  <1>6. ASSUME NEW t \in Task, WaitStart(t) PROVE SoloInv'
    BY <1>6 DEF WaitStart, lists, context, waiters, thread, device, history
  <1>7. ASSUME NEW t \in Task, WaitTake(t) PROVE SoloInv'
    BY <1>7 DEF WaitTake, lists, context, waiters, thread, device, history
  <1>8. ASSUME NEW c \in Ctx, WaitTimeout(c) PROVE SoloInv'
    BY <1>8 DEF WaitTimeout, lists, context, waiters, thread, device, history
  <1>9. ASSUME NEW c \in Ctx, CloseBegin(c) PROVE SoloInv'
    BY <1>9, <1>0, <1>a DEF CloseBegin, lists
  <1>10. ASSUME NEW c \in Ctx, CloseDelAll(c) PROVE SoloInv'
    <2>1. TasksOf(c) \in SUBSET Task /\ \A t \in Task : t \in TasksOf(c) <=> Owner(t) = c
      BY DEF TasksOf
    <2>2. pending' \subseteq pending /\ scheduled' = scheduled
      BY <1>10, <2>1, DelInvokesKeeps DEF CloseDelAll
    <2> QED
      BY <1>10, <1>0, <1>a, <2>1, <2>2 DEF CloseDelAll, OnDevice, context
  <1>11. ASSUME NEW c \in Ctx, CloseDrained(c) PROVE SoloInv'
    BY <1>11, <1>0, <1>a DEF CloseDrained, lists
  <1>30. ASSUME NEW c \in Ctx, CloseDetach(c) PROVE SoloInv'
    BY <1>30, <1>0, <1>a DEF CloseDetach, lists
  <1>12. ASSUME NEW c \in Ctx, CloseFree(c) PROVE SoloInv'
    BY <1>12, <1>0, <1>a DEF CloseFree, lists
  <1>13. CASE Poll
    BY <1>13 DEF Poll, lists, context, waiters, thread, device, history
  <1>14. CASE CheckNet
    BY <1>14 DEF CheckNet, lists, context, waiters, thread, device, history
  <1>15. CASE Schedule
    <2>1. PICK t \in pending : pending' = pending \ {t} /\ scheduled' = scheduled \cup {t}
      BY <1>15 DEF Schedule, DropPending
    <2> QED
      BY <1>15, <1>0, <2>1 DEF Schedule, GoneInv, context
  <1>16. CASE ScheduleNone
    BY <1>16 DEF ScheduleNone, lists, context, waiters, thread, device, history
  <1>17. CASE Post
    BY <1>17 DEF Post, lists, context, waiters, thread, device, history
  <1>18. CASE Exec
    BY <1>18 DEF Exec, lists, context, waiters, thread, device, history
  <1>19. CASE ExecTee
    BY <1>19 DEF ExecTee, lists, context, waiters, thread, device, history
  <1>20. CASE WaitIrq
    BY <1>20 DEF WaitIrq, lists, context, waiters, thread, device, history
  <1>21. CASE WaitIrqTimeout
    BY <1>21 DEF WaitIrqTimeout, lists, context, waiters, thread, device, history
  <1>22. CASE TimeoutProc
    BY <1>22 DEF TimeoutProc, IrqProc, lists, context, waiters, thread, device, history
  <1>23. CASE BottomHalf
    BY <1>23 DEF BottomHalf, lists, context, waiters, thread, device, history
  <1>24. CASE ReportCancelled
    <2>1. scheduled = {cur} /\ scheduled' = {} /\ cur \in Task /\ pending' = pending
      BY <1>24, <1>0 DEF ReportCancelled, OneOnDevice, Busy
    <2>2. \A t \in pending : Owner(t) # Owner(cur)
      BY <1>0, <2>1 DEF OneOnDevice, Task, Owner
    <2> QED
      BY <1>24, <1>a, <2>1, <2>2 DEF ReportCancelled
  <1>25. CASE ReportDone
    <2>1. scheduled = {cur} /\ scheduled' = {} /\ cur \in Task /\ pending' = pending
      BY <1>25, <1>0 DEF ReportDone, OneOnDevice, Busy
    <2>2. \A t \in pending : Owner(t) # Owner(cur)
      BY <1>0, <2>1 DEF OneOnDevice, Task, Owner
    <2> QED
      BY <1>25, <1>a, <2>1, <2>2 DEF ReportDone
  <1>26. CASE Notify
    BY <1>26 DEF Notify, LoopEnd, lists, context, waiters, thread, device, history
  <1>27. CASE HwFinish
    BY <1>27 DEF HwFinish, lists, context, waiters, thread, device, history
  <1>28. CASE IrqTopHalf
    BY <1>28 DEF IrqTopHalf, IrqProc, lists, context, waiters, thread, device, history
  <1>29. CASE UNCHANGED vars
    BY <1>29 DEF vars, lists, context, waiters, thread, device, history
  <1> QED
    BY <1>1, <1>2, <1>3, <1>4, <1>5, <1>6, <1>7, <1>8, <1>9, <1>10, <1>11, <1>12, <1>30,
       <1>13, <1>14, <1>15, <1>16, <1>17, <1>18, <1>19, <1>20, <1>21, <1>22, <1>23, <1>24,
       <1>25, <1>26, <1>27, <1>28, <1>29
    DEF Next, Client, Thread, Device, CloseGoesOn

\* When a context of one sub-task is freed, whatever was invoked, cancelled or on
\* the device as it was closed, no list names it any more and its model is gone.
THEOREM FreedCorrect == ASSUME NEW CONSTANT s, Sub = {s} PROVE Spec => []FreedUnlinked
  <1>1. Init => BaseInv /\ GoneInv /\ SoloInv
    BY TypeInit, OneInit, GoneInit, SoloInit DEF BaseInv
  <1>2. BaseInv /\ GoneInv /\ SoloInv /\ [Next]_vars => (BaseInv /\ GoneInv /\ SoloInv)'
    BY TypeNext, OneNext, GoneNext, SoloNext DEF BaseInv
  <1>3. BaseInv /\ GoneInv /\ SoloInv => FreedUnlinked
    <2> SUFFICES ASSUME BaseInv, GoneInv, SoloInv, NEW c \in Ctx, ctx[c] = "free"
                 PROVE  Linked \cap TasksOf(c) = {} /\ c \notin model
      BY DEF FreedUnlinked
    <2>1. \A t \in pending \cup finished \cup scheduled : Owner(t) # c
      BY DEF GoneInv, SoloInv
    <2>2. c \notin model
      BY DEF GoneInv
    <2> QED
      BY <2>1, <2>2 DEF Linked, TasksOf
  <1> QED
    BY <1>1, <1>2, <1>3, PTL DEF Spec

\* With one sub-task per context the thread never meets a task in hand whose
\* model is gone, whenever DESTROY_NETWORK or the release of a file comes.
THEOREM ModelAliveCorrect == ASSUME NEW CONSTANT s, Sub = {s} PROVE Spec => []ModelAlive
  <1>1. Init => BaseInv /\ LifeInv /\ GoneInv /\ SoloInv
    BY TypeInit, OneInit, LifeInit, GoneInit, SoloInit DEF BaseInv
  <1>2. BaseInv /\ LifeInv /\ GoneInv /\ SoloInv /\ [Next]_vars
          => (BaseInv /\ LifeInv /\ GoneInv /\ SoloInv)'
    BY TypeNext, OneNext, LifeNext, GoneNext, SoloNext DEF BaseInv
  <1>3. BaseInv /\ LifeInv /\ SoloInv => ModelAlive
    <2> SUFFICES ASSUME BaseInv, LifeInv, SoloInv, Busy PROVE Owner(cur) \in model
      BY DEF ModelAlive
    <2>1. scheduled = {cur} /\ cur \in Task
      BY DEF BaseInv, OneOnDevice, TypeInv, TypeOK
    <2>2. Owner(cur) \in Ctx
      BY <2>1, OwnerType
    <2>3. ctx[Owner(cur)] \notin {"detached", "free"}
      BY <2>1, <2>2 DEF SoloInv
    <2> QED
      BY <2>3 DEF LifeInv, OwnInv, ModelKept
  <1> QED
    BY <1>1, <1>2, <1>3, PTL DEF Spec

-----------------------------------------------------------------------------
(* A finished task was run.                                                *)

\* While the context of the task in hand is attached, what the device, the interrupt
\* handler and the thread pass on is the result of that task, and a normal result
\* means that the device has ended it.
RanInv ==
  /\ Defined /\ Attached =>
       /\ hwjob # NoTask => hwjob = cur
       /\ ipc \in {"exec", "wait", "bottom"} => sch_cur = cur
       /\ irq = "normal" => cur \in ran
       /\ (sem_irq > 0 \/ ipc = "bottom") /\ task[cur].hw = "normal" => cur \in ran
       /\ ipc = "report" /\ task[cur].st = "finished" /\ Owner(cur) \notin Tee => cur \in ran
  /\ FinishedWasRun

\* Initially nothing is finished.
LEMMA RanInit == Init => RanInv
  BY DEF Init, RanInv, FinishedWasRun

\* A step taken while the context of the task in hand exists keeps that.
LEMMA RanStep ==
  ASSUME BaseInv, DeviceInv, GoneInv, RanInv, ~HwTimeout, Defined, Next
  PROVE  RanInv'
  <1> USE OwnerType, NullAssumption
      DEF BaseInv, TypeInv, DeviceInv, RanInv, FinishedWasRun
  <1>0. /\ finished \subseteq Task /\ sem_irq \in Nat /\ cur \in Task \cup {NoTask}
        /\ task \in [Task -> TaskRecord]
    BY DEF TypeOK
  <1>a. Busy => cur \in Task /\ cur \in scheduled /\ cur \notin finished
    BY DEF CurKnown, Busy, OneOnDevice
  <1>b. hwjob # NoTask \/ irq # "none" \/ sem_irq > 0 => Busy /\ ipc = "wait"
    BY DEF Busy
  <1>1. ASSUME NEW c \in Ctx, Open(c) PROVE RanInv'
    BY <1>1, <1>0, <1>a, <1>b DEF Open, Defined, Attached, Busy, TypeOK, lists, context, waiters, thread, device, history
  <1>2. ASSUME NEW c \in Ctx, Register(c) PROVE RanInv'
    <2>1. \A u \in Task : task'[u] = NewTask \/ task'[u] = task[u]
      BY <1>2 DEF Register
    <2> QED
      BY <1>2, <1>0, <1>a, <1>b, <2>1 DEF Register, NewTask, Defined, Attached, Busy, lists, thread, device, history
  <1>3. ASSUME NEW t \in Task, Invoke(t) PROVE RanInv'
    <2>1. /\ t \notin finished /\ t \notin scheduled /\ ran' = ran \ {t}
          /\ \A u \in Task \ {t} : task'[u] = task[u]
      BY <1>3 DEF Invoke, Linked, TypeOK
    <2> QED
      BY <1>3, <1>0, <1>a, <1>b, <2>1 DEF Invoke, Defined, Attached, Busy, thread, device
  <1>4. ASSUME NEW t \in Task, Cancel(t) PROVE RanInv'
    <2>2. /\ finished' = finished \ {t} /\ ran' = ran
          /\ \A u \in Task : task'[u].st = task[u].st /\ task'[u].hw = task[u].hw
      BY <1>4, DelInvokesKeeps DEF Cancel
    <2> QED
      BY <1>4, <1>0, <1>a, <1>b, <2>2 DEF Cancel, Defined, Attached, Busy, thread, device, context
  <1>5. ASSUME NEW c \in Ctx, Unregister(c) PROVE RanInv'
    <2>1. TasksOf(c) \in SUBSET Task
      BY DEF TasksOf
    <2>2. /\ finished' = finished \ TasksOf(c) /\ ran' = ran
          /\ \A t \in Task : task'[t].st = task[t].st /\ task'[t].hw = task[t].hw
      BY <1>5, <2>1, DelInvokesKeeps DEF Unregister
    <2>3. /\ Attached /\ hwjob' # NoTask => hwjob' = hwjob /\ hwjob # NoTask
          /\ Attached /\ ipc \in {"exec", "wait", "bottom"} => sch_cur' = sch_cur
      BY <1>5, <1>a, <1>b DEF Unregister, Released, OnDevice, Busy, TasksOf, Defined, Attached
    <2> QED
      BY <1>5, <1>0, <1>a, <1>b, <2>2, <2>3 DEF Unregister, Defined, Attached, Busy, thread
  <1>6. ASSUME NEW t \in Task, WaitStart(t) PROVE RanInv'
    BY <1>6, <1>0, <1>a, <1>b DEF WaitStart, Defined, Attached, Busy, TypeOK, lists, context, waiters, thread, device, history
  <1>7. ASSUME NEW t \in Task, WaitTake(t) PROVE RanInv'
    BY <1>7, <1>0, <1>a, <1>b DEF WaitTake, Defined, Attached, Busy, TypeOK, lists, context, waiters, thread, device, history
  <1>8. ASSUME NEW c \in Ctx, WaitTimeout(c) PROVE RanInv'
    BY <1>8, <1>0, <1>a, <1>b DEF WaitTimeout, Defined, Attached, Busy, TypeOK, lists, context, waiters, thread, device, history
  <1>9. ASSUME NEW c \in Ctx, CloseBegin(c) PROVE RanInv'
    BY <1>9, <1>0, <1>a, <1>b DEF CloseBegin, Defined, Attached, Busy, TypeOK, lists, context, waiters, thread, device, history
  <1>10. ASSUME NEW c \in Ctx, CloseDelAll(c) PROVE RanInv'
    <2>1. TasksOf(c) \in SUBSET Task
      BY DEF TasksOf
    <2>2. /\ finished' = finished \ TasksOf(c) /\ ran' = ran
          /\ \A t \in Task : task'[t].st = task[t].st /\ task'[t].hw = task[t].hw
      BY <1>10, <2>1, DelInvokesKeeps DEF CloseDelAll
    <2> QED
      BY <1>10, <1>0, <1>a, <1>b, <2>2 DEF CloseDelAll, Defined, Attached, Busy, thread, device, context
  <1>11. ASSUME NEW c \in Ctx, CloseDrained(c) PROVE RanInv'
    BY <1>11, <1>0, <1>a, <1>b DEF CloseDrained, Defined, Attached, Busy, TypeOK, lists, context, waiters, thread, device, history
  <1>30. ASSUME NEW c \in Ctx, CloseDetach(c) PROVE RanInv'
    <2>1. \A t \in finished : Owner(t) # c
      BY <1>30 DEF CloseDetach, GoneInv
    <2>2. \A t \in Task : Owner(t) # c => (t \in ran' <=> t \in ran)
      BY <1>30 DEF CloseDetach, TasksOf
    <2>3. FinishedWasRun'
      BY <1>30, <1>0, <2>1, <2>2 DEF CloseDetach, lists
    <2>4. CASE Attached' /\ cur # NoTask
      <3>1. Owner(cur) # c /\ cur \in Task
        BY <1>30, <1>0, <2>4 DEF CloseDetach, Defined, Attached, TypeOK, thread
      <3> QED
        BY <1>30, <1>0, <1>b, <2>2, <2>3, <2>4, <3>1 DEF CloseDetach, Released, TasksOf, Defined, Attached, thread
    <2>5. CASE cur = NoTask
      BY <1>30, <1>0, <1>a, <1>b, <2>3, <2>5 DEF CloseDetach, Released, TasksOf, Busy, thread
    <2>6. CASE ~Attached'
      BY <2>3, <2>6
    <2> QED
      BY <1>30, <1>0, <2>4, <2>5, <2>6
  <1>12. ASSUME NEW c \in Ctx, CloseFree(c) PROVE RanInv'
    <2>1. FinishedWasRun'
      BY <1>12 DEF CloseFree, lists, context, history
    <2>2. CASE cur \in Task /\ Owner(cur) = c
      BY <1>12, <2>1, <2>2 DEF CloseFree, TypeOK, Defined, thread
    <2>3. CASE cur = NoTask \/ Owner(cur) # c
      BY <1>12, <1>0, <1>a, <1>b, <2>1, <2>3
      DEF CloseFree, Defined, Attached, Busy, TypeOK, lists, waiters, thread, device, history
    <2> QED
      BY <1>0, <2>2, <2>3
  <1>13. CASE Poll
    BY <1>13, <1>0, <1>a, <1>b DEF Poll, Defined, Attached, Busy, lists, context, waiters, thread, device, history
  <1>14. CASE CheckNet
    BY <1>14, <1>0, <1>a, <1>b DEF CheckNet, Defined, Attached, Busy, lists, context, waiters, thread, device, history
  <1>15. CASE Attached /\ Schedule
    BY <1>15, <1>0, <1>b DEF Schedule, Defined, Attached, device, history
  <1>16. CASE ScheduleNone
    BY <1>16, <1>0, <1>a, <1>b DEF ScheduleNone, Defined, Attached, Busy, lists, context, waiters, thread, device, history
  <1>17. CASE Post
    BY <1>17, <1>0, <1>a, <1>b DEF Post, Defined, Attached, Busy, lists, context, waiters, thread, device, history
  <1>18. CASE Exec
    <2>1. /\ \A t \in Task \ {cur} : task'[t] = task[t]
          /\ task'[cur].hw = task[cur].hw
      BY <1>18, <1>0, <1>a DEF Exec, Busy, TaskRecord
    <2> QED
      BY <1>18, <1>0, <1>a, <1>b, <2>1 DEF Exec, Defined, Attached, Busy, lists, context, history
  <1>19. CASE ExecTee
    <2>1. \A t \in Task \ {cur} : task'[t] = task[t]
      BY <1>19, <1>0 DEF ExecTee
    <2>2. ran \subseteq ran'
      BY <1>19 DEF ExecTee
    <2> QED
      BY <1>19, <1>0, <1>a, <1>b, <2>1, <2>2 DEF ExecTee, Defined, Attached, Busy, lists, context
  <1>20. CASE WaitIrq
    BY <1>20, <1>0, <1>a, <1>b DEF WaitIrq, Defined, Attached, Busy, lists, context, waiters, thread, device, history
  <1>21. CASE WaitIrqTimeout
    BY <1>21 DEF WaitIrqTimeout
  <1>22. CASE TimeoutProc
    BY <1>22 DEF TimeoutProc
  <1>23. CASE BottomHalf
    <2>1. \A t \in Task \ {cur} : task'[t] = task[t]
      BY <1>23, <1>0 DEF BottomHalf
    <2>2. task'[cur].st = "finished" => task[cur].hw = "normal"
      BY <1>23, <1>0, <1>a DEF BottomHalf, Busy, Ended, EndState, TaskRecord
    <2> QED
      BY <1>23, <1>0, <1>a, <1>b, <2>1, <2>2 DEF BottomHalf, Defined, Attached, Busy, lists, context, device, history
  <1>24. CASE Attached /\ ReportCancelled
    BY <1>24, <1>0, <1>a, <1>b DEF ReportCancelled, LoopEnd, Defined, Attached, Busy, lists, context, waiters, thread, device, history
  <1>25. CASE Attached /\ ReportDone
    BY <1>25, <1>0, <1>a, <1>b DEF ReportDone, Defined, Attached, Busy, device, history
  <1>26. CASE Attached /\ Notify
    BY <1>26, <1>0, <1>a, <1>b DEF Notify, LoopEnd, Defined, Attached, Busy, lists, context, waiters, thread, device, history
  <1>31. CASE ~Attached /\ (HwFinish \/ IrqTopHalf)
    BY <1>31, <1>0 DEF HwFinish, IrqTopHalf, IrqProc, TaskRecord, Attached, lists, context, thread, history
  <1>27. CASE Attached /\ HwFinish
    <2>1. hwjob = cur /\ cur \in Task /\ ipc = "wait" /\ irq = "none" /\ sem_irq = 0
      BY <1>27, <1>a, <1>b DEF HwFinish
    <2>2. ran \subseteq ran' /\ (irq' = "normal" => cur \in ran')
      BY <1>27, <2>1 DEF HwFinish
    <2> QED
      BY <1>27, <1>0, <2>1, <2>2 DEF HwFinish, Defined, Attached, lists, context, thread
  <1>28. CASE Attached /\ IrqTopHalf
    <2>1. sch_cur = cur /\ cur \in Task /\ cur \notin finished /\ ipc = "wait"
      BY <1>28, <1>a, <1>b DEF IrqTopHalf
    <2>2. /\ \A t \in Task \ {cur} : task'[t] = task[t]
          /\ task'[cur].hw = "normal" => irq = "normal"
      BY <1>28, <1>0, <2>1 DEF IrqTopHalf, IrqProc, TaskRecord
    <2> QED
      BY <1>28, <1>0, <1>b, <2>1, <2>2 DEF IrqTopHalf, IrqProc, Defined, Attached, lists, context, thread, history
  <1> QED
    BY <1>1, <1>2, <1>3, <1>4, <1>5, <1>6, <1>7, <1>8, <1>9, <1>10, <1>11, <1>12, <1>30,
       <1>13, <1>14, <1>15, <1>16, <1>17, <1>18, <1>19, <1>20, <1>21, <1>22, <1>23, <1>24,
       <1>25, <1>26, <1>27, <1>28, <1>31
    DEF Next, Client, Thread, Device, CloseGoesOn

\* Once the context of the task in hand is gone the model stops.
LEMMA RanNext ==
  ~HwTimeout /\ BaseInv /\ DeviceInv /\ GoneInv /\ RanInv /\ [Next]_vars => RanInv'
  <1>1. CASE Next
    BY <1>1, RanStep DEF Next, Client, Thread, Device
  <1>2. RanInv /\ UNCHANGED vars => RanInv'
    BY DEF vars, lists, context, waiters, thread, device, history, RanInv, FinishedWasRun,
           Defined, Attached
  <1> QED
    BY <1>1, <1>2

\* A task that is reported as finished was executed to its end by the device since
\* it was last invoked, as long as the wait for the interrupt has no bound.
THEOREM RanCorrect == Spec => []FinishedWasRun
  <1> DEFINE Inv == BaseInv /\ DeviceInv /\ GoneInv /\ (~HwTimeout => RanInv)
  <1>1. Init => Inv
    BY TypeInit, OneInit, DeviceInit, GoneInit, RanInit DEF BaseInv
  <1>2. Inv /\ [Next]_vars => Inv'
    <2>1. BaseInv /\ [Next]_vars => BaseInv'
      BY TypeNext, OneNext DEF BaseInv
    <2>2. BaseInv /\ DeviceInv /\ [Next]_vars => DeviceInv'
      BY DeviceNext DEF BaseInv
    <2> QED
      BY <2>1, <2>2, GoneNext, RanNext
  <1>3. Inv => FinishedWasRun
    BY DEF RanInv, FinishedWasRun
  <1> QED
    BY <1>1, <1>2, <1>3, PTL DEF Spec
=============================================================================
