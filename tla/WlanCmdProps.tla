----------------------------- MODULE WlanCmdProps -----------------------------
(* Properties of the Wi-Fi command manager.                                *)
EXTENDS WlanCmd

\* queue_sz is the length of the list and never above max_queue_sz: it is what
\* the full check, aml_close and the suspend path rely on, and cmd_complete is
\* also called for commands that are no longer listed.
QueueInStep == queue_sz = Cardinality(cmds) /\ queue_sz <= MaxQueued

\* A listed command still waits for the firmware and is not done, so the test
\* of the tail's flags in cmd_mgr_queue is right to defer behind any tail.
ListedWaits == \A c \in cmds : flags[c] \cap Waits # {} /\ "DONE" \notin flags[c]

\* ASSERT_ERR(!env->msga2e_hostid) of a push and ASSERT_ERR(hostid) of an
\* acknowledgement: the mailbox is free when a command is pushed, and holds
\* one when the firmware answers.
MailboxAgrees == torn = "up" => unacked = (IF hostid = None THEN 0 ELSE 1)

\* Commands reach the firmware in the order they were queued: whatever is
\* delivered is in front of all that is listed.
DeliveredInOrder ==
  [][hostid' # hostid /\ hostid' # None /\ state = "INITED" /\ torn = "up"
     => \A c \in cmds' : tkn[hostid'] <= tkn[c]]_vars

\* A freed command is not on the list, however acknowledgement, confirmation,
\* refused push and time-out follow each other (until the manager is torn down:
\* a sender whose wait expires in DEINIT leaves its command listed).
FreedUnlisted == torn \in {"up", "stopped"} => \A c \in cmds : memory[c] = "live"

Answered(c) == c \in acked /\ (c \in ReqCfm => c \in confirmed)

\* aml_send_msg reports success of a blocking command only if the firmware
\* has acknowledged it and, where that is asked for, confirmed it ("0 on
\* success, or a negative error code on failure"), but for a command whose
\* deferred push was refused: no order of acknowledgement, confirmation, time-out,
\* kill and drain makes another exception.
AnsweredOrRefused ==
  \A c \in Cmd \ NonBlocking : ret[c] = "0" => Answered(c) \/ c \in refused

\* "Prevent critical resources kfree by msg ack hw irq, Using local variables":
\* a sender does not touch a command that the interrupt may have freed.
SenderUsesLive == \A c \in Cmd : <<"sender", c>> \notin stray

\* The invariant the safety proofs rest on.  A command that was not sent is
\* nowhere; a completed one is off the list; the manager is DEINIT only once the
\* handlers and aml_msg_task have stopped.
UnsentNowhere == \A c \in Cmd : pc[c] = "idle" => c \notin cmds /\ ~completed[c] /\ task.cmd # c
CompletedUnlisted == \A c \in cmds : ~completed[c]
TornDown == /\ torn \in {"up", "stopped"} => state # "DEINIT"
            /\ draining # None => torn = "draining"
            /\ task.at # "down" => torn = "up" /\ task.cmd \in Cmd

ListInv == QueueInStep /\ ListedWaits /\ UnsentNowhere /\ CompletedUnlisted
           /\ TornDown /\ FreedUnlisted

\* Every queued command leaves the queue: no deferred command is forgotten.
Served == \A c \in Cmd : c \in cmds ~> c \notin cmds

\* Every call of aml_send_msg returns (or faults on a wiped manager).
SenderReturns == \A c \in Cmd : pc[c] # "idle" ~> pc[c] \in {"done", "oops"}

\* The wait of aml_close for the queue ends.
CloseReturns == closer = "waiting" ~> closer = "done"

=============================================================================
