------------------------------- MODULE WlanCmd -------------------------------
(***************************************************************************)
(* The command manager of the Wi-Fi driver (aml_cmds.c): the queue of       *)
(* commands between the callers of aml_send_msg and the firmware, with the  *)
(* one-message mailbox of the IPC layer below it.                           *)
(*                                                                          *)
(* Atomicity.  A section under cmd_mgr->lock is one action; pushing a       *)
(* message to the firmware outside the lock is one; what a sender does with *)
(* its command after the wait, without the lock, is one.                    *)
(*                                                                          *)
(* A command is the struct aml_cmd of one call of aml_send_msg.  cmds holds *)
(* the commands on the list; their order on the list is the order of tkn,   *)
(* because a command takes its token and joins the tail in one section.     *)
(*                                                                          *)
(* The model covers one life of the manager, from aml_cmd_mgr_init to       *)
(* aml_cmd_mgr_deinit.  Memory keeps its contents after kfree: of what a    *)
(* use of freed memory may do, the model follows the quiet outcome, and     *)
(* records in stray who used a freed command.                               *)
(***************************************************************************)
EXTENDS Integers, FiniteSets

CONSTANTS
  Cmd,          \* commands, each sent at most once
  NonBlocking,  \* AML_CMD_FLAG_NONBLOCK: nobody waits, cmd_complete frees
  CallThread,   \* AML_CMD_FLAG_CALL_THREAD: left to aml_msg_task, not on PCIe
  ReqCfm,       \* AML_CMD_FLAG_REQ_CFM: the firmware also confirms
  ReqId,        \* reqid: the id of the confirmation, per command
  MaxQueued,    \* max_queue_sz
  MayFail,      \* the pushes that may be refused: "direct", "thread", "next"
  Timeouts,     \* a wait may run out or be killed
  MayStop,      \* the platform may be switched off
  MayClose,     \* an interface may be closed (USB)
  None          \* a NULL command

ASSUME CommandAssumption ==
  /\ IsFiniteSet(Cmd) /\ None \notin Cmd
  /\ NonBlocking \subseteq Cmd /\ ReqCfm \subseteq Cmd
  /\ CallThread \subseteq NonBlocking
  /\ DOMAIN ReqId = Cmd
ASSUME ModeAssumption ==
  /\ MaxQueued \in Nat \ {0}
  /\ Timeouts \in BOOLEAN /\ MayStop \in BOOLEAN /\ MayClose \in BOOLEAN

VARIABLES
  bus,          \* aml_bus_type: PCIE, or SDIO, which stands for USB too
  state,        \* cmd_mgr->state
  cmds,         \* the commands on cmd_mgr->cmds
  queue_sz, next_tkn,
  tkn, flags, result,
  msg,          \* a2e_msg of a command is allocated
  completed,    \* complete() was called on its completion
  memory,       \* the struct aml_cmd itself
  pc,           \* where the sender of a command is
  ret,          \* what aml_send_msg returned
  task,         \* aml_msg_task: where it is, and with which command
  sem,          \* aml_msg_sem
  hostid,       \* ipc_env->msga2e_hostid
  unacked,      \* messages the firmware has and did not acknowledge
  unconfirmed,  \* commands the firmware will confirm
  torn,         \* how far the platform is switched off
  draining,     \* command whose completion cmd_mgr_drain just gave
  closer,       \* a thread closing the last interface
  acked,        \* history: commands the firmware acknowledged
  confirmed,    \* history: commands the firmware confirmed
  refused,      \* history: commands whose deferred push was refused
  stray         \* history: <<who, command>>, uses of a freed command

manager  == <<state, cmds, queue_sz, next_tkn>>
command  == <<tkn, flags, result, msg, completed, memory>>
senders  == <<pc, ret>>
thread   == <<task, sem>>
mailbox  == <<hostid, unacked, unconfirmed>>
teardown == <<torn, draining>>
history  == <<acked, confirmed, refused, stray>>
vars == <<bus, manager, command, senders, thread, mailbox, teardown, closer, history>>

Waits  == {"WAIT_ACK", "WAIT_CFM"}
Flag   == Waits \cup {"WAIT_PUSH", "DONE"}
Result == {"0", "EINTR", "EPIPE", "ENOMEM", "ETIMEDOUT"}
Idle   == [at |-> "down", cmd |-> None]

TypeOK ==
  /\ bus \in {"PCIE", "SDIO"}
  /\ state \in {"INITED", "CRASHED", "DEINIT"}
  /\ cmds \subseteq Cmd /\ queue_sz \in Int /\ next_tkn \in Nat
  /\ tkn \in [Cmd -> Nat]
  /\ flags \in [Cmd -> SUBSET Flag]
  /\ result \in [Cmd -> Result]
  /\ msg \in [Cmd -> BOOLEAN] /\ completed \in [Cmd -> BOOLEAN]
  /\ memory \in [Cmd -> {"none", "live", "freed"}]
  /\ pc \in [Cmd -> {"idle", "pushing", "pushed", "refused", "waiting",
                     "killed", "expired", "crashing", "done", "oops"}]
  /\ ret \in [Cmd -> (Result \ {"EINTR"}) \cup {"none", "EBUSY"}]
  /\ task \in [at : {"down", "found", "cleared", "pushed", "refused"},
               cmd : Cmd \cup {None}]
  /\ sem \in Nat
  /\ hostid \in Cmd \cup {None} /\ unacked \in Nat
  /\ unconfirmed \subseteq Cmd
  /\ torn \in {"up", "stopped", "deinit", "draining", "drained", "gone"}
  /\ draining \in Cmd \cup {None}
  /\ closer \in {"idle", "waiting", "done"}
  /\ acked \subseteq Cmd /\ confirmed \subseteq Cmd /\ refused \subseteq Cmd
  /\ stray \subseteq {"sender", "task", "ack", "drain"} \X Cmd

Init ==
  /\ bus \in {"PCIE", "SDIO"}
  /\ state = "INITED" /\ cmds = {} /\ queue_sz = 0 /\ next_tkn = 0
  /\ tkn = [c \in Cmd |-> 0]
  /\ flags = [c \in Cmd |-> {}]
  /\ result = [c \in Cmd |-> "0"]
  /\ msg = [c \in Cmd |-> FALSE] /\ completed = [c \in Cmd |-> FALSE]
  /\ memory = [c \in Cmd |-> "none"]
  /\ pc = [c \in Cmd |-> "idle"] /\ ret = [c \in Cmd |-> "none"]
  /\ task = Idle /\ sem = 0
  /\ hostid = None /\ unacked = 0 /\ unconfirmed = {}
  /\ torn = "up" /\ draining = None /\ closer = "idle"
  /\ acked = {} /\ confirmed = {} /\ refused = {} /\ stray = {}

-----------------------------------------------------------------------------
(* Helpers.                                                                *)

\* cmd_mgr->lock is free: cmd_mgr_drain keeps it from its first step to its last.
Unlocked == torn # "draining"

\* AML_CMD_WAIT_COMPLETE: a command with these flags waits for no more answers.
Over_AckOnly(f) == "WAIT_ACK" \notin f
Over(f) == f \cap Waits = {}

\* The first command of S in list order.
IsFirst_Newest(c, S) == c \in S /\ \A d \in S : tkn[d] <= tkn[c]
IsFirst(c, S) == c \in S /\ \A d \in S : tkn[c] <= tkn[d]

WaitingPush(S, f) == {c \in S : "WAIT_PUSH" \in f[c]}

\* The flags once those of drop are cleared in the commands of S.
Cleared(S, drop) == [c \in Cmd |-> IF c \in S THEN flags[c] \ drop ELSE flags[c]]

\* queue_sz once cmd_complete has been called for the commands of S: only those
\* it finds on the list are counted off.
SizeWithout_Unsearched(S) == queue_sz - Cardinality(S)
SizeWithout(S) == queue_sz - Cardinality(S \cap cmds)

\* cmd_complete of the commands of S, whose flags and results are f and r; the
\* commands of own are freed at once by their senders.
CompleteAll(S, f, r, own) ==
  LET woken == {c \in S \ NonBlocking : Over(f[c])} IN
  /\ cmds' = cmds \ S
  /\ queue_sz' = SizeWithout(S)
  /\ flags' = [c \in Cmd |-> IF c \in S THEN f[c] \cup {"DONE"} ELSE f[c]]
  /\ result' = [c \in Cmd |-> IF c \in woken THEN "0" ELSE r[c]]
  /\ completed' = [c \in Cmd |-> completed[c] \/ c \in woken]
  /\ memory' = [c \in Cmd |-> IF c \in own \/ c \in S \cap NonBlocking
                              THEN "freed" ELSE memory[c]]

\* A use of c by who; it is recorded when c is freed.
Use(who, c) == stray' = stray \cup {<<who, d>> : d \in {c} \cap {e \in Cmd : memory[e] = "freed"}}

\* aml_ipc_msg_push of c succeeds: the firmware has the message.
Deliver(c) ==
  /\ hostid' = c
  /\ unacked' = unacked + 1
  /\ unconfirmed' = unconfirmed \cup ({c} \cap ReqCfm)

\* aml_send_msg ends with code r; a blocking command is freed by its sender.
Returns(c, r) ==
  /\ pc' = [pc EXCEPT ![c] = "done"]
  /\ ret' = [ret EXCEPT ![c] = r]

SenderFrees(c) == memory' = [memory EXCEPT ![c] = "freed"]

\* The result of a blocking command, as aml_send_msg reports it.
Reported_Raw(c) == result[c]
Reported(c) == IF result[c] = "EINTR" THEN "ETIMEDOUT" ELSE result[c]

-----------------------------------------------------------------------------
(* aml_send_msg and cmd_mgr_queue.                                         *)

\* The manager refuses the command: its message is freed, and so is it.
Refuse(c, r) ==
  /\ result' = [result EXCEPT ![c] = r]
  /\ SenderFrees(c) /\ Returns(c, r)
  /\ UNCHANGED <<manager, tkn, flags, msg, completed>>

\* The tail of the list still waits for something: the command is deferred.
IsTail(c) == c \in cmds /\ \A d \in cmds : tkn[d] <= tkn[c]
Deferred_UntilCfm == \E c \in cmds : IsTail(c) /\ "WAIT_CFM" \in flags[c]
Deferred == \E c \in cmds : IsTail(c) /\ flags[c] \cap (Waits \cup {"WAIT_PUSH"}) # {}

NewFlags_CfmOnly(c) == (IF c \in ReqCfm THEN {"WAIT_CFM"} ELSE {})
                       \cup (IF Deferred THEN {"WAIT_PUSH"} ELSE {})
NewFlags(c) == {"WAIT_ACK"} \cup (IF c \in ReqCfm THEN {"WAIT_CFM"} ELSE {})
                            \cup (IF Deferred THEN {"WAIT_PUSH"} ELSE {})

Enqueue(c) ==
  /\ flags' = [flags EXCEPT ![c] = NewFlags(c)]
  /\ tkn' = [tkn EXCEPT ![c] = next_tkn] /\ next_tkn' = next_tkn + 1
  /\ result' = [result EXCEPT ![c] = "EINTR"]
  /\ cmds' = cmds \cup {c} /\ queue_sz' = queue_sz + 1
  /\ msg' = [msg EXCEPT ![c] = TRUE]
  /\ memory' = [memory EXCEPT ![c] = "live"]
  /\ UNCHANGED <<state, completed>>
  /\ IF ~Deferred THEN pc' = [pc EXCEPT ![c] = "pushing"] /\ UNCHANGED ret
     ELSE IF c \in NonBlocking THEN Returns(c, "0")
     ELSE pc' = [pc EXCEPT ![c] = "waiting"] /\ UNCHANGED ret

Full == cmds # {} /\ queue_sz = MaxQueued

Send(c) ==
  /\ pc[c] = "idle" /\ Unlocked /\ torn # "gone"
  /\ IF state = "CRASHED" THEN Refuse(c, "EPIPE")
     ELSE IF Full THEN Refuse(c, "ENOMEM")
     ELSE Enqueue(c)
  /\ UNCHANGED <<thread, mailbox, teardown, closer, bus, history>>

\* After its push: a sender that nobody may free waits, the others are through.
Proceed(c) ==
  IF c \in NonBlocking THEN Returns(c, "0")
  ELSE pc' = [pc EXCEPT ![c] = "waiting"] /\ UNCHANGED ret

ByThread(c) == bus # "PCIE" /\ c \in CallThread

SendByThread(c) ==
  /\ pc[c] = "pushing" /\ ByThread(c) /\ Unlocked
  /\ flags' = [flags EXCEPT ![c] = @ \cup {"WAIT_PUSH"}]
  /\ sem' = sem + 1
  /\ Proceed(c)
  /\ UNCHANGED <<manager, tkn, result, msg, completed, memory, task, mailbox,
                 teardown, closer, bus, history>>

SendPush(c) ==
  /\ pc[c] = "pushing" /\ ~ByThread(c)
  /\ \/ /\ torn # "gone" /\ Deliver(c)
        /\ pc' = [pc EXCEPT ![c] = "pushed"]
     \/ /\ "direct" \in MayFail \/ torn = "gone"
        /\ pc' = [pc EXCEPT ![c] = "refused"]
        /\ UNCHANGED mailbox
  /\ UNCHANGED <<manager, command, ret, thread, teardown, closer, bus, history>>

SendPushed(c) ==
  /\ pc[c] = "pushed" /\ Unlocked
  /\ Use("sender", c)
  /\ msg' = [msg EXCEPT ![c] = FALSE]
  /\ Proceed(c)
  /\ UNCHANGED <<manager, tkn, flags, result, completed, memory, thread, mailbox,
                 teardown, closer, bus, acked, confirmed, refused>>

\* The push failed: the command is completed by its sender.  Once the manager
\* is wiped its list head is zero, and walking the list is a fault.
SendRefused(c) ==
  /\ pc[c] = "refused" /\ Unlocked
  /\ Use("sender", c)
  /\ msg' = [msg EXCEPT ![c] = FALSE]
  /\ IF torn = "gone"
     THEN /\ pc' = [pc EXCEPT ![c] = "oops"]
          /\ UNCHANGED <<cmds, queue_sz, flags, result, completed, memory, ret>>
     ELSE /\ CompleteAll({c}, Cleared({c}, Waits), result, {c})
          /\ Returns(c, "EBUSY")
  /\ UNCHANGED <<state, next_tkn, tkn, thread, mailbox, teardown, closer, bus, acked, confirmed, refused>>

-----------------------------------------------------------------------------
(* The wait of a blocking command.                                         *)

\* What a sender does outside the lock, once its wait is over.
Finish(c) == SenderFrees(c) /\ Returns(c, Reported(c))

Woken(c) ==
  /\ pc[c] = "waiting" /\ completed[c]
  /\ Finish(c)
  /\ UNCHANGED <<manager, tkn, flags, result, msg, completed, thread, mailbox,
                 teardown, closer, bus, history>>

\* The wait is broken by a kill, or runs out.
WaitBroken(c) ==
  /\ Timeouts /\ pc[c] = "waiting" /\ ~completed[c]
  /\ \E p \in {"killed", "expired"} : pc' = [pc EXCEPT ![c] = p]
  /\ UNCHANGED <<manager, command, ret, thread, mailbox, teardown, closer, bus, history>>

\* A killed sender polls AML_CMD_FLAG_DONE until its time is over.
KilledPoll_NoLimit(c) ==
  /\ pc[c] = "killed" /\ Unlocked /\ "DONE" \in flags[c]
  /\ Finish(c)
  /\ UNCHANGED <<manager, tkn, flags, result, msg, completed, thread, mailbox,
                 teardown, closer, bus, history>>
KilledPoll(c) ==
  /\ pc[c] = "killed" /\ Unlocked
  /\ \/ "DONE" \in flags[c] /\ Finish(c)
     \/ pc' = [pc EXCEPT ![c] = "expired"] /\ UNCHANGED <<memory, ret>>
  /\ UNCHANGED <<manager, tkn, flags, result, msg, completed, thread, mailbox,
                 teardown, closer, bus, history>>

\* An expired sender leaves if the list is empty; a wiped list is not.
ExpiredCheck(c) ==
  /\ pc[c] = "expired" /\ Unlocked
  /\ IF cmds = {} /\ torn # "gone" THEN Finish(c)
     ELSE pc' = [pc EXCEPT ![c] = "crashing"] /\ UNCHANGED <<memory, ret>>
  /\ UNCHANGED <<manager, tkn, flags, result, msg, completed, thread, mailbox,
                 teardown, closer, bus, history>>

\* A sender that has crashed the manager leaves its command to the drain.
ExpiredCrash_Leave(c) ==
  /\ pc[c] = "crashing" /\ Unlocked
  /\ state' = IF state = "DEINIT" THEN state ELSE "CRASHED"
  /\ Finish(c)
  /\ UNCHANGED <<cmds, queue_sz, flags, result, completed, next_tkn, tkn, msg, thread,
                 mailbox, teardown, closer, bus, history>>
\* Then it declares the manager crashed and completes its own command.
ExpiredCrash(c) ==
  /\ pc[c] = "crashing" /\ Unlocked
  /\ \/ /\ state = "DEINIT" \/ "DONE" \in flags[c]
        /\ state' = IF state = "DEINIT" THEN state ELSE "CRASHED"
        /\ Finish(c)
        /\ UNCHANGED <<cmds, queue_sz, flags, result, completed>>
     \/ /\ state # "DEINIT" /\ "DONE" \notin flags[c]
        /\ state' = "CRASHED"
        /\ LET r == [result EXCEPT ![c] = "ETIMEDOUT"]
           IN CompleteAll({c}, flags, r, {c})
        /\ Returns(c, IF Over(flags[c]) THEN "0" ELSE "ETIMEDOUT")
  /\ UNCHANGED <<next_tkn, tkn, msg, thread, mailbox, teardown, closer, bus, history>>

-----------------------------------------------------------------------------
(* aml_msg_task.                                                           *)

Running == torn = "up"

TaskTake ==
  /\ task.at = "down" /\ sem > 0 /\ Running
  /\ sem' = sem - 1
  /\ LET W == WaitingPush(cmds, flags)
     IN IF W = {} THEN UNCHANGED task
        ELSE \E c \in W : IsFirst(c, W) /\ task' = [at |-> "found", cmd |-> c]
  /\ UNCHANGED <<manager, command, senders, mailbox, teardown, closer, bus, history>>

TaskClear ==
  /\ task.at = "found" /\ Unlocked
  /\ Use("task", task.cmd)
  /\ flags' = Cleared({task.cmd}, {"WAIT_PUSH"})
  /\ task' = [task EXCEPT !.at = "cleared"]
  /\ UNCHANGED <<manager, tkn, result, msg, completed, memory, senders, sem, mailbox,
                 teardown, closer, bus, acked, confirmed, refused>>

TaskPush ==
  /\ task.at = "cleared"
  /\ Use("task", task.cmd)
  /\ \/ /\ msg[task.cmd]
        /\ Deliver(task.cmd)
        /\ task' = [task EXCEPT !.at = "pushed"]
     \/ /\ "thread" \in MayFail \/ ~msg[task.cmd]
        /\ task' = [task EXCEPT !.at = "refused"]
        /\ UNCHANGED mailbox
  /\ UNCHANGED <<manager, command, senders, sem, teardown, closer, bus, acked, confirmed, refused>>

TaskPushed ==
  /\ task.at = "pushed" /\ Unlocked
  /\ Use("task", task.cmd)
  /\ msg' = [msg EXCEPT ![task.cmd] = FALSE]
  /\ task' = Idle
  /\ UNCHANGED <<manager, tkn, flags, result, completed, memory, senders, sem, mailbox,
                 teardown, closer, bus, acked, confirmed, refused>>

\* The task looks again if the list is not empty.
LookAgain_Never == sem
LookAgain == IF queue_sz' > 0 THEN sem + 1 ELSE sem

\* A failed push completes the command, and the task looks for the next one.
TaskRefused ==
  /\ task.at = "refused" /\ Unlocked
  /\ Use("task", task.cmd)
  /\ msg' = [msg EXCEPT ![task.cmd] = FALSE]
  /\ CompleteAll({task.cmd}, Cleared({task.cmd}, Waits), result, {})
  /\ refused' = refused \cup {task.cmd}
  /\ sem' = LookAgain
  /\ task' = Idle
  /\ UNCHANGED <<state, next_tkn, tkn, senders, mailbox, teardown, closer, bus,
                 acked, confirmed>>

-----------------------------------------------------------------------------
(* The interrupt: acknowledgements and confirmations.                      *)

\* cmd_mgr_next_cmd, under the lock, on the list S with flags f: the commands
\* of fails are refused one after the other, from n on, and p is delivered.
\* After a refusal the loop goes on with the head of the list, unless that is
\* also its tail.
Continues(S, f, h) == IsFirst(h, S) /\ "WAIT_PUSH" \in f[h] /\ S # {h}

NextRun(S, f, n, fails, p) ==
  \/ fails = {} /\ p = n
  \/ /\ "next" \in MayFail /\ n \in fails /\ fails \subseteq S
     /\ \A c \in fails \ {n} :
          Continues({c} \cup {d \in S \ {n} : d \notin fails \/ tkn[d] > tkn[c]}, f, c)
     /\ LET left == S \ fails
        IN IF \E h \in left : Continues(left, f, h)
           THEN p \in left /\ Continues(left, f, p)
           ELSE p = None

\* cmd_mgr_llind and cmd_mgr_msgind end alike: the commands of S are complete
\* and the others have the flags f; next is the deferred command to send, if
\* any.  h, u and w are the mailbox before that.
CompleteAndNext(S, f, next, h, u, w) ==
  \E fails \in SUBSET (cmds \ S), p \in cmds \cup {None} :
    /\ IF next = None \/ bus # "PCIE" THEN fails = {} /\ p = None
       ELSE NextRun(cmds \ S, f, next, fails, p)
    /\ CompleteAll(S \cup fails,
                   [c \in Cmd |-> f[c] \ (IF c \in fails THEN Waits \cup {"WAIT_PUSH"}
                                          ELSE IF c = p THEN {"WAIT_PUSH"} ELSE {})],
                   result, {})
    /\ msg' = [c \in Cmd |-> msg[c] /\ c \notin fails /\ c # p]
    /\ hostid' = (IF p = None THEN h ELSE p)
    /\ unacked' = (IF p = None THEN u ELSE u + 1)
    /\ unconfirmed' = w \cup ({p} \cap ReqCfm)
    /\ refused' = refused \cup fails
    /\ sem' = (IF next = None \/ bus = "PCIE" THEN sem ELSE sem + 1)

IsFirstOrNone(n, S) == IF S = {} THEN n = None ELSE IsFirst(n, S)

\* cmd_mgr_llind.  The scan stops at the first deferred command, so a command
\* behind it is not found.
Found(c, n) == c \in cmds /\ (n = None \/ tkn[c] < tkn[n])

Llind(c) ==
  /\ IF cmds = {} THEN UNCHANGED stray ELSE Use("ack", c)
  /\ acked' = acked \cup {c}
  /\ \E n \in cmds \cup {None} :
       /\ IsFirstOrNone(n, WaitingPush(cmds \ {c}, flags))
       /\ LET f    == Cleared({c} \cap {d \in cmds : Found(d, n)}, {"WAIT_ACK"})
              over == Found(c, n) /\ Over(f[c])
          IN IF over THEN CompleteAndNext({c}, f, n, None, unacked - 1, unconfirmed)
             ELSE CompleteAndNext({}, f, None, None, unacked - 1, unconfirmed)

Ack ==
  /\ Running /\ unacked > 0
  /\ IF hostid = None
     THEN /\ unacked' = unacked - 1
          /\ UNCHANGED <<manager, command, sem, hostid, unconfirmed, acked, refused, stray>>
     ELSE Llind(hostid) /\ UNCHANGED <<state, next_tkn, tkn>>
  /\ UNCHANGED <<bus, senders, task, teardown, closer, confirmed>>

\* cmd_mgr_msgind: a confirmation belongs to the first command on the list
\* that waits for its id.  The deferred command to send is the one behind it.
Awaiting(id) == {d \in cmds : ReqId[d] = id /\ "WAIT_CFM" \in flags[d]}

Behind_None(d) == {}
Behind(d) == {e \in cmds : tkn[e] > tkn[d]}

Msgind(id, w) ==
  \E d \in Awaiting(id) : 
    /\ IsFirst(d, Awaiting(id))
    /\ LET f == Cleared({d}, {"WAIT_CFM"})
       IN IF ~Over(f[d]) THEN CompleteAndNext({}, f, None, hostid, unacked, w)
          ELSE \E n \in cmds \cup {None} :
                 /\ \E e \in cmds \cup {None} :
                      /\ IsFirstOrNone(e, Behind(d))
                      /\ n = IF e \in WaitingPush(cmds, f) THEN e ELSE None
                 /\ CompleteAndNext({d}, f, n, hostid, unacked, w)

Confirm(c) ==
  /\ Running /\ c \in unconfirmed
  /\ confirmed' = confirmed \cup {c}
  /\ IF Awaiting(ReqId[c]) = {}
     THEN /\ unconfirmed' = unconfirmed \ {c}
          /\ UNCHANGED <<manager, command, sem, hostid, unacked, refused>>
     ELSE Msgind(ReqId[c], unconfirmed \ {c}) /\ UNCHANGED <<state, next_tkn, tkn>>
  /\ UNCHANGED <<bus, senders, task, teardown, closer, acked, stray>>

-----------------------------------------------------------------------------
(* Switching the platform off: aml_platform_off, aml_cmd_mgr_deinit.       *)

\* The interrupt is off and aml_msg_task has ended.
Stop ==
  /\ MayStop /\ torn = "up" /\ task.at = "down"
  /\ torn' = "stopped"
  /\ UNCHANGED <<manager, command, senders, thread, mailbox, draining, closer, bus, history>>

Deinit ==
  /\ torn = "stopped"
  /\ torn' = "deinit" /\ state' = "DEINIT"
  /\ UNCHANGED <<cmds, queue_sz, next_tkn, command, senders, thread, mailbox, draining,
                 closer, bus, history>>

DrainBegin ==
  /\ torn = "deinit"
  /\ torn' = "draining"
  /\ UNCHANGED <<manager, command, senders, thread, mailbox, draining, closer, bus, history>>

\* cmd_mgr_drain unlinks a command and wakes its sender; then, without having
\* let go of the lock, it frees what a deferred command holds.
DrainUnlink(c) ==
  /\ torn = "draining" /\ draining = None /\ IsFirst(c, cmds)
  /\ cmds' = cmds \ {c} /\ queue_sz' = queue_sz - 1
  /\ completed' = [completed EXCEPT ![c] = c \notin NonBlocking]
  /\ draining' = c
  /\ UNCHANGED <<state, next_tkn, tkn, flags, result, msg, memory, senders, thread,
                 mailbox, torn, closer, bus, history>>

DrainFree ==
  /\ draining # None
  /\ Use("drain", draining)
  /\ IF "WAIT_PUSH" \in flags[draining]
     THEN /\ msg' = [msg EXCEPT ![draining] = FALSE]
          /\ IF draining \in NonBlocking THEN SenderFrees(draining) ELSE UNCHANGED memory
     ELSE UNCHANGED <<msg, memory>>
  /\ draining' = None
  /\ UNCHANGED <<manager, tkn, flags, result, completed, senders, thread, mailbox, torn,
                 closer, bus, acked, confirmed, refused>>

DrainEnd ==
  /\ torn = "draining" /\ draining = None /\ cmds = {}
  /\ torn' = "drained"
  /\ UNCHANGED <<manager, command, senders, thread, mailbox, draining, closer, bus, history>>

\* The manager is wiped, and the IPC environment freed.
Wipe ==
  /\ torn = "drained"
  /\ torn' = "gone" /\ cmds' = {} /\ queue_sz' = 0 /\ next_tkn' = 0
  /\ UNCHANGED <<state, command, senders, thread, mailbox, draining, closer, bus, history>>

TearDown ==
  \/ Deinit \/ DrainBegin \/ (\E c \in Cmd : DrainUnlink(c)) \/ DrainFree \/ DrainEnd
  \/ Wipe

-----------------------------------------------------------------------------
(* Closing the last interface waits for the queue to be empty.  The turns   *)
(* are counted in a variable of the loop body, so the wait has no end of    *)
(* its own.                                                                 *)

CloseBegin ==
  /\ MayClose /\ bus # "PCIE" /\ closer = "idle"
  /\ closer' = "waiting"
  /\ UNCHANGED <<bus, manager, command, senders, thread, mailbox, teardown, history>>

CloseEnd ==
  /\ closer = "waiting" /\ queue_sz <= 0
  /\ closer' = "done"
  /\ UNCHANGED <<bus, manager, command, senders, thread, mailbox, teardown, history>>

-----------------------------------------------------------------------------
\* The steps of the sender of c, once it has sent it.
Sender(c) ==
  \/ SendByThread(c) \/ SendPush(c) \/ SendPushed(c) \/ SendRefused(c)
  \/ Woken(c) \/ KilledPoll(c) \/ ExpiredCheck(c) \/ ExpiredCrash(c)

Task == TaskTake \/ TaskClear \/ TaskPush \/ TaskPushed \/ TaskRefused

Firmware == Ack \/ \E c \in Cmd : Confirm(c)

Next ==
  \/ \E c \in Cmd : Send(c) \/ Sender(c) \/ WaitBroken(c)
  \/ Task \/ Firmware
  \/ Stop \/ TearDown
  \/ CloseBegin \/ CloseEnd

Spec == Init /\ [][Next]_vars

\* The driver's own threads run; a timer expires; a tear-down goes on.
HostFairness ==
  /\ \A c \in Cmd : WF_vars(Sender(c) \/ WaitBroken(c))
  /\ WF_vars(Task) /\ WF_vars(TearDown) /\ WF_vars(CloseEnd)

\* The firmware acknowledges and confirms what it was sent.
FirmwareFairness == WF_vars(Ack) /\ \A c \in Cmd : WF_vars(Confirm(c))

HostFairSpec == Spec /\ HostFairness
FairSpec == HostFairSpec /\ FirmwareFairness

=============================================================================
