----------------------------- MODULE TxQueueProps -----------------------------
(* Properties of the TX queues.                                            *)
EXTENDS TxQueue

\* A credit of the hardware queue is either there or with a frame of the
\* firmware: none is lost when stations leave with frames in the firmware, when
\* a frame comes back to be sent again, or when its queue has a new owner.
CreditsKept == credits + Total(fw) = HwSize

\* The bit AML_TXQ_IN_HWQ_LIST, the list, the credits and the reasons to stop
\* agree: only a queue that is alive, not stopped and has credits is linked, and
\* a queue with frames that nothing stops is linked, or nobody would push them.
\* The exception is a queue a service period of power save has unlinked: neither
\* stopped nor linked, it waits for the next thing that looks at it.
\* And while a linked queue could push a frame, need_processing is set: the next
\* aml_hwq_process_all does not pass the hardware queue over, although the flag is
\* cleared before a pass that may end in the middle of the list.
ListAgrees == \A q \in TxQ : Linked(txq[q]) <=> q \in list
LinkedMayPush == \A q \in TxQ : Linked(txq[q]) => txq[q].active /\ ~IsStopped(txq[q])
FullAgrees == \A q \in TxQ : txq[q].active => ("full" \in txq[q].status <=> txq[q].credits <= 0)
FramesLinked ==
  \A q \in TxQ : txq[q].active /\ txq[q].len > 0 /\ ~IsStopped(txq[q])
                 => Linked(txq[q]) \/ q \in cut
NeedKept ==
  Unlocked /\ credits > 0 => \A q \in TxQ : Linked(txq[q]) /\ txq[q].len > 0 => need
Scheduled == ListAgrees /\ LinkedMayPush /\ FullAgrees /\ FramesLinked /\ NeedKept

\* A stopped subqueue has somebody left to wake it: the flag of its queue or the
\* timer on its way; only that of a queue whose station left while it was
\* stopped has nobody.
FlowKept ==
  \A q \in subq : \/ "flow" \in txq[q].status
                  \/ tail.at = "wake" /\ tail.q = q
                  \/ q \in dead
=============================================================================
