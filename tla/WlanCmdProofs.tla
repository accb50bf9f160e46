---------------------------- MODULE WlanCmdProofs ----------------------------
(***************************************************************************)
(* Proofs about the Wi-Fi command manager, for every set of commands, every *)
(* mix of their kinds, every queue limit and both kinds of bus.             *)
(***************************************************************************)
EXTENDS WlanCmdProps, TLAPS, FiniteSetTheorems

-----------------------------------------------------------------------------
(* Types.                                                                  *)

\* Away from its semaphore the message task has a command in hand.
TaskKnown == task.at # "down" => task.cmd \in Cmd

TypeInv == TypeOK /\ TaskKnown

\* The initial state is well typed.
LEMMA TypeInit == Init => TypeInv
  <1> SUFFICES ASSUME Init PROVE TypeInv
    OBVIOUS
  <1>1. msg \in [Cmd -> BOOLEAN] /\ completed \in [Cmd -> BOOLEAN]
    BY Zenon DEF Init
  <1> QED
    BY <1>1 DEF Init, TypeInv, TypeOK, TaskKnown, Idle, Result, Flag

\* Recording a use keeps the history well typed.
LEMMA UseType ==
  ASSUME TypeOK, NEW who \in {"sender", "task", "ack", "drain"}, NEW c \in Cmd, Use(who, c)
  PROVE  stray' \subseteq {"sender", "task", "ack", "drain"} \X Cmd
  BY DEF TypeOK, Use

\* The flags and results of completed commands are flags and results again.
LEMMA CompleteType ==
  ASSUME TypeOK, NEW S \in SUBSET Cmd, NEW f \in [Cmd -> SUBSET Flag],
         NEW r \in [Cmd -> Result], NEW own \in SUBSET Cmd, CompleteAll(S, f, r, own)
  PROVE  /\ cmds' \subseteq Cmd /\ queue_sz' \in Int
         /\ flags' \in [Cmd -> SUBSET Flag] /\ result' \in [Cmd -> Result]
         /\ completed' \in [Cmd -> BOOLEAN]
         /\ memory' \in [Cmd -> {"none", "live", "freed"}]
  <1>1. Cardinality(S \cap cmds) \in Int
    <2>1. IsFiniteSet(S \cap cmds)
      BY CommandAssumption, FS_Subset DEF TypeOK
    <2> QED
      BY <2>1, FS_CardinalityType
  <1>2. completed' \in [Cmd -> BOOLEAN]
    BY Zenon DEF CompleteAll, TypeOK
  <1>3. flags' \in [Cmd -> SUBSET Flag]
    BY DEF CompleteAll, TypeOK, Flag
  <1>4. result' \in [Cmd -> Result]
    BY DEF CompleteAll, TypeOK, Result
  <1> QED
    BY <1>1, <1>2, <1>3, <1>4 DEF CompleteAll, TypeOK, SizeWithout

\* Clearing flags leaves flags.
LEMMA ClearedType ==
  ASSUME TypeOK, NEW S, NEW drop PROVE Cleared(S, drop) \in [Cmd -> SUBSET Flag]
  BY DEF TypeOK, Cleared

\* The end of an acknowledgement or a confirmation keeps what it changes well
\* typed.
LEMMA CompleteAndNextType ==
  ASSUME TypeOK, NEW S \in SUBSET Cmd, NEW f \in [Cmd -> SUBSET Flag], NEW next,
         NEW h \in Cmd \cup {None}, NEW u \in Nat, NEW w \in SUBSET Cmd,
         CompleteAndNext(S, f, next, h, u, w)
  PROVE  /\ cmds' \subseteq Cmd /\ queue_sz' \in Int
         /\ flags' \in [Cmd -> SUBSET Flag] /\ result' \in [Cmd -> Result]
         /\ completed' \in [Cmd -> BOOLEAN] /\ msg' \in [Cmd -> BOOLEAN]
         /\ memory' \in [Cmd -> {"none", "live", "freed"}]
         /\ hostid' \in Cmd \cup {None} /\ unacked' \in Nat /\ unconfirmed' \subseteq Cmd
         /\ sem' \in Nat /\ refused' \subseteq Cmd
  <1>1. PICK fails \in SUBSET (cmds \ S), p \in cmds \cup {None} :
          /\ CompleteAll(S \cup fails,
                         [c \in Cmd |-> f[c] \ (IF c \in fails THEN Waits \cup {"WAIT_PUSH"}
                                                ELSE IF c = p THEN {"WAIT_PUSH"} ELSE {})],
                         result, {})
          /\ msg' = [c \in Cmd |-> msg[c] /\ c \notin fails /\ c # p]
          /\ hostid' = (IF p = None THEN h ELSE p)
          /\ unacked' = (IF p = None THEN u ELSE u + 1)
          /\ unconfirmed' = w \cup ({p} \cap ReqCfm)
          /\ refused' = refused \cup fails
          /\ sem' = (IF next = None \/ bus = "PCIE" THEN sem ELSE sem + 1)
    BY DEF CompleteAndNext
  <1> DEFINE g == [c \in Cmd |-> f[c] \ (IF c \in fails THEN Waits \cup {"WAIT_PUSH"}
                                         ELSE IF c = p THEN {"WAIT_PUSH"} ELSE {})]
  <1>2. g \in [Cmd -> SUBSET Flag] /\ S \cup fails \in SUBSET Cmd /\ {} \in SUBSET Cmd
    BY DEF TypeOK
  <1>3. CompleteAll(S \cup fails, g, result, {})
    BY <1>1
  <1>4. result \in [Cmd -> Result]
    BY DEF TypeOK
  <1> HIDE DEF g
  <1>5. /\ cmds' \subseteq Cmd /\ queue_sz' \in Int
        /\ flags' \in [Cmd -> SUBSET Flag] /\ result' \in [Cmd -> Result]
        /\ completed' \in [Cmd -> BOOLEAN]
        /\ memory' \in [Cmd -> {"none", "live", "freed"}]
    BY <1>2, <1>3, <1>4, CompleteType
  <1>6. msg' \in [Cmd -> BOOLEAN]
    BY <1>1, Zenon
  <1>7. hostid' \in Cmd \cup {None} /\ unacked' \in Nat /\ unconfirmed' \subseteq Cmd /\ sem' \in Nat
        /\ refused' \subseteq Cmd
    BY <1>1, CommandAssumption DEF TypeOK
  <1> QED
    BY <1>5, <1>6, <1>7

\* Every step keeps the variables well typed.
LEMMA TypeNext == TypeInv /\ [Next]_vars => TypeInv'
  <1> SUFFICES ASSUME TypeInv, [Next]_vars PROVE TypeInv'
    OBVIOUS
  <1> USE CommandAssumption DEF TypeInv, TaskKnown
  <1>1. ASSUME NEW c \in Cmd, Send(c) PROVE TypeInv'
    <2>1. CASE Refuse(c, "EPIPE")
      BY <1>1, <2>1 DEF Send, Refuse, SenderFrees, Returns, TypeOK, Result, manager, command, senders, thread, mailbox, teardown, history
    <2>2. CASE Refuse(c, "ENOMEM")
      BY <1>1, <2>2 DEF Send, Refuse, SenderFrees, Returns, TypeOK, Result, manager, command, senders, thread, mailbox, teardown, history
    <2>3. CASE Enqueue(c)
      <3>1. NewFlags(c) \in SUBSET Flag
        BY DEF NewFlags, Flag, Waits
      <3>2. flags' \in [Cmd -> SUBSET Flag]
        BY <2>3, <3>1 DEF Enqueue, TypeOK
      <3>3. msg' \in [Cmd -> BOOLEAN]
        BY <2>3 DEF Enqueue, TypeOK
      <3>4. /\ pc' \in [Cmd -> {"idle", "pushing", "pushed", "refused", "waiting",
                               "killed", "expired", "crashing", "done", "oops"}]
            /\ ret' \in [Cmd -> (Result \ {"EINTR"}) \cup {"none", "EBUSY"}]
        BY <2>3 DEF Enqueue, Returns, TypeOK, Result
      <3>5. /\ tkn' \in [Cmd -> Nat] /\ next_tkn' \in Nat /\ result' \in [Cmd -> Result]
            /\ memory' \in [Cmd -> {"none", "live", "freed"}]
        BY <2>3 DEF Enqueue, TypeOK, Result
      <3> QED
        BY <1>1, <2>3, <3>2, <3>3, <3>4, <3>5 DEF Send, Enqueue, TypeOK, manager, command, senders, thread, mailbox, teardown, history
    <2> QED
      BY <1>1, <2>1, <2>2, <2>3 DEF Send
  <1>2. ASSUME NEW c \in Cmd, SendByThread(c) PROVE TypeInv'
    BY <1>2 DEF SendByThread, Proceed, Returns, TypeOK, Result, Flag, Waits, manager, command, senders, thread, mailbox, teardown, history
  <1>3. ASSUME NEW c \in Cmd, SendPush(c) PROVE TypeInv'
    BY <1>3 DEF SendPush, Deliver, TypeOK, Result, Flag, Waits, manager, command, senders, thread, mailbox, teardown, history
  <1>4. ASSUME NEW c \in Cmd, SendPushed(c) PROVE TypeInv'
    <2>1. stray' \subseteq {"sender", "task", "ack", "drain"} \X Cmd
      BY <1>4, UseType DEF SendPushed, TaskKnown, TypeOK
    <2>2. msg' \in [Cmd -> BOOLEAN]
      BY <1>4 DEF SendPushed, TypeOK, command
    <2> QED
      BY <1>4, <2>1, <2>2 DEF SendPushed, Proceed, Returns, TypeOK, Result, manager, command, senders, thread, mailbox, teardown, history
  <1>5. ASSUME NEW c \in Cmd, SendRefused(c) PROVE TypeInv'
    <2>1. stray' \subseteq {"sender", "task", "ack", "drain"} \X Cmd
      BY <1>5, UseType DEF SendRefused, TaskKnown, TypeOK
    <2>2. msg' \in [Cmd -> BOOLEAN]
      BY <1>5 DEF SendRefused, TypeOK
    <2>3. Cleared({c}, Waits) \in [Cmd -> SUBSET Flag] /\ result \in [Cmd -> Result]
          /\ {c} \in SUBSET Cmd /\ {} \in SUBSET Cmd
      BY <1>5, ClearedType DEF SendRefused, TaskKnown, TypeOK
    <2>4. CASE torn = "gone"
      BY <1>5, <2>1, <2>2, <2>4 DEF SendRefused, TypeOK, manager, command, senders, thread, mailbox, teardown, history
    <2>5. CASE torn # "gone"
      <3>1. CompleteAll({c}, Cleared({c}, Waits), result, {c}) /\ Returns(c, "EBUSY")
        BY <1>5, <2>5 DEF SendRefused
      <3>2. /\ cmds' \subseteq Cmd /\ queue_sz' \in Int
            /\ flags' \in [Cmd -> SUBSET Flag] /\ result' \in [Cmd -> Result]
            /\ completed' \in [Cmd -> BOOLEAN]
            /\ memory' \in [Cmd -> {"none", "live", "freed"}]
        BY <2>3, <3>1, CompleteType
      <3>3. /\ pc' \in [Cmd -> {"idle", "pushing", "pushed", "refused", "waiting",
                               "killed", "expired", "crashing", "done", "oops"}]
            /\ ret' \in [Cmd -> (Result \ {"EINTR"}) \cup {"none", "EBUSY"}]
        BY <3>1 DEF Returns, TypeOK
      <3> QED
        BY <1>5, <2>1, <2>2, <3>2, <3>3 DEF SendRefused, TypeOK, manager, command, senders, thread, mailbox, teardown, history
    <2> QED
      BY <2>4, <2>5
  <1>6. ASSUME NEW c \in Cmd, Woken(c) PROVE TypeInv'
    <2>1. Reported(c) \in (Result \ {"EINTR"}) \cup {"none", "EBUSY"}
      BY DEF Reported, TypeOK, Result
    <2> QED
      BY <1>6, <2>1 DEF Woken, Finish, SenderFrees, Returns, TypeOK, manager, command, senders, thread, mailbox, teardown, history
  <1>7. ASSUME NEW c \in Cmd, WaitBroken(c) PROVE TypeInv'
    BY <1>7 DEF WaitBroken, TypeOK, Result, Flag, Waits, manager, command, senders, thread, mailbox, teardown, history
  <1>8. ASSUME NEW c \in Cmd, KilledPoll(c) PROVE TypeInv'
    <2>1. Reported(c) \in (Result \ {"EINTR"}) \cup {"none", "EBUSY"}
      BY DEF Reported, TypeOK, Result
    <2> QED
      BY <1>8, <2>1 DEF KilledPoll, Finish, SenderFrees, Returns, TypeOK, manager, command, senders, thread, mailbox, teardown, history
  <1>9. ASSUME NEW c \in Cmd, ExpiredCheck(c) PROVE TypeInv'
    <2>1. Reported(c) \in (Result \ {"EINTR"}) \cup {"none", "EBUSY"}
      BY DEF Reported, TypeOK, Result
    <2> QED
      BY <1>9, <2>1 DEF ExpiredCheck, Finish, SenderFrees, Returns, TypeOK, manager, command, senders, thread, mailbox, teardown, history
  <1>10. ASSUME NEW c \in Cmd, ExpiredCrash(c) PROVE TypeInv'
    <2>1. CASE Finish(c) /\ UNCHANGED <<cmds, queue_sz, flags, result, completed>>
               /\ state' \in {"DEINIT", "CRASHED", state}
      <3>1. Reported(c) \in (Result \ {"EINTR"}) \cup {"none", "EBUSY"}
        BY DEF Reported, TypeOK, Result
      <3> QED
        BY <1>10, <2>1, <3>1 DEF ExpiredCrash, Finish, SenderFrees, Returns, TypeOK, manager, command, senders, thread, mailbox, teardown, history
    <2>2. CASE /\ state' = "CRASHED"
               /\ CompleteAll({c}, flags, [result EXCEPT ![c] = "ETIMEDOUT"], {c})
               /\ Returns(c, IF Over(flags[c]) THEN "0" ELSE "ETIMEDOUT")
      <3>1. [result EXCEPT ![c] = "ETIMEDOUT"] \in [Cmd -> Result] /\ flags \in [Cmd -> SUBSET Flag]
            /\ {c} \in SUBSET Cmd
        BY DEF TypeOK, Result
      <3>2. /\ cmds' \subseteq Cmd /\ queue_sz' \in Int
            /\ flags' \in [Cmd -> SUBSET Flag] /\ result' \in [Cmd -> Result]
            /\ completed' \in [Cmd -> BOOLEAN]
            /\ memory' \in [Cmd -> {"none", "live", "freed"}]
        BY <2>2, <3>1, CompleteType
      <3> QED
        BY <1>10, <2>2, <3>2, Zenon DEF ExpiredCrash, Returns, TypeOK, Result, manager, command, senders, thread, mailbox, teardown, history
    <2> QED
      BY <1>10, <2>1, <2>2 DEF ExpiredCrash
  <1>11. CASE TaskTake
    BY <1>11 DEF TaskTake, WaitingPush, IsFirst, Running, TypeOK, Result, Flag, Waits, manager, command, senders, thread, mailbox, teardown, history
  <1>12. CASE TaskClear
    <2>1. stray' \subseteq {"sender", "task", "ack", "drain"} \X Cmd
      BY <1>12, UseType DEF TaskClear, TaskKnown, TypeOK
    <2>2. flags' \in [Cmd -> SUBSET Flag]
      BY <1>12, ClearedType DEF TaskClear
    <2> QED
      BY <1>12, <2>1, <2>2 DEF TaskClear, TypeOK, Result, manager, command, senders, thread, mailbox, teardown, history
  <1>13. CASE TaskPush
    <2>1. stray' \subseteq {"sender", "task", "ack", "drain"} \X Cmd
      BY <1>13, UseType DEF TaskPush, TaskKnown, TypeOK
    <2>2. msg' \in [Cmd -> BOOLEAN]
      BY <1>13 DEF TaskPush, TypeOK, command
    <2> QED
      BY <1>13, <2>1, <2>2 DEF TaskPush, Deliver, TypeOK, Result, manager, command, senders, thread, mailbox, teardown, history
  <1>14. CASE TaskPushed
    <2>1. stray' \subseteq {"sender", "task", "ack", "drain"} \X Cmd
      BY <1>14, UseType DEF TaskPushed, TaskKnown, TypeOK
    <2>2. msg' \in [Cmd -> BOOLEAN]
      BY <1>14 DEF TaskPushed, TypeOK, command
    <2> QED
      BY <1>14, <2>1, <2>2 DEF TaskPushed, Idle, TypeOK, Result, manager, command, senders, thread, mailbox, teardown, history
  <1>15. CASE TaskRefused
    <2>1. stray' \subseteq {"sender", "task", "ack", "drain"} \X Cmd
      BY <1>15, UseType DEF TaskRefused, TaskKnown, TypeOK
    <2>2. msg' \in [Cmd -> BOOLEAN]
      BY <1>15 DEF TaskRefused, TypeOK
    <2>3. Cleared({task.cmd}, Waits) \in [Cmd -> SUBSET Flag] /\ result \in [Cmd -> Result]
          /\ {task.cmd} \in SUBSET Cmd /\ {} \in SUBSET Cmd
      BY <1>15, ClearedType DEF TaskRefused, TaskKnown, TypeOK
    <2>4. CompleteAll({task.cmd}, Cleared({task.cmd}, Waits), result, {})
      BY <1>15 DEF TaskRefused
    <2>5. /\ cmds' \subseteq Cmd /\ queue_sz' \in Int
          /\ flags' \in [Cmd -> SUBSET Flag] /\ result' \in [Cmd -> Result]
          /\ completed' \in [Cmd -> BOOLEAN]
          /\ memory' \in [Cmd -> {"none", "live", "freed"}]
      BY <2>3, <2>4, CompleteType
    <2> QED
      BY <1>15, <2>1, <2>2, <2>5 DEF TaskRefused, LookAgain, Idle, TypeOK, manager, command, senders, thread, mailbox, teardown, history
  <1>16. CASE Ack
    <2>1. CASE hostid = None
      BY <1>16, <2>1 DEF Ack, TypeOK, manager, command, senders, thread, mailbox, teardown, history
    <2>2. CASE hostid # None
      <3> DEFINE c == hostid
      <3>1. c \in Cmd
        BY <2>2 DEF TypeOK
      <3>2. Llind(c) /\ unacked - 1 \in Nat
        BY <1>16, <2>2 DEF Ack, TypeOK
      <3>3. stray' \subseteq {"sender", "task", "ack", "drain"} \X Cmd
        BY <3>1, <3>2, UseType DEF Llind, TypeOK
      <3>4. PICK n \in cmds \cup {None} :
              LET f == Cleared({c} \cap {d \in cmds : Found(d, n)}, {"WAIT_ACK"})
              IN \/ CompleteAndNext({c}, f, n, None, unacked - 1, unconfirmed)
                 \/ CompleteAndNext({}, f, None, None, unacked - 1, unconfirmed)
        BY <3>2 DEF Llind
      <3> DEFINE f == Cleared({c} \cap {d \in cmds : Found(d, n)}, {"WAIT_ACK"})
      <3>5. f \in [Cmd -> SUBSET Flag] /\ unconfirmed \in SUBSET Cmd /\ {c} \in SUBSET Cmd
            /\ {} \in SUBSET Cmd /\ None \in Cmd \cup {None}
        BY <3>1, <3>4, ClearedType DEF TypeOK
      <3>6. acked' \subseteq Cmd
        BY <3>1, <3>2 DEF Llind, TypeOK
      <3> HIDE DEF c, f
      <3>7. PICK S \in SUBSET Cmd, m \in cmds \cup {None} :
              CompleteAndNext(S, f, m, None, unacked - 1, unconfirmed)
        BY <3>4, <3>5 DEF f
      <3>8. /\ cmds' \subseteq Cmd /\ queue_sz' \in Int
            /\ flags' \in [Cmd -> SUBSET Flag] /\ result' \in [Cmd -> Result]
            /\ completed' \in [Cmd -> BOOLEAN] /\ msg' \in [Cmd -> BOOLEAN]
            /\ memory' \in [Cmd -> {"none", "live", "freed"}]
            /\ hostid' \in Cmd \cup {None} /\ unacked' \in Nat /\ unconfirmed' \subseteq Cmd
            /\ sem' \in Nat /\ refused' \subseteq Cmd
        BY <3>2, <3>5, <3>7, CompleteAndNextType
      <3>9. TypeOK'
        BY <1>16, <2>2, <3>3, <3>6, <3>8 DEF Ack, TypeOK, senders, teardown
      <3> QED
        BY <1>16, <3>9 DEF Ack, TaskKnown
    <2> QED
      BY <2>1, <2>2
  <1>17. ASSUME NEW c \in Cmd, Confirm(c) PROVE TypeInv'
    <2>1. CASE Awaiting(ReqId[c]) = {}
      BY <1>17, <2>1 DEF Confirm, TypeOK, manager, command, senders, thread, mailbox, teardown, history
    <2>2. CASE Awaiting(ReqId[c]) # {}
      <3>1. Msgind(ReqId[c], unconfirmed \ {c})
        BY <1>17, <2>2 DEF Confirm
      <3>2. PICK d \in cmds, S \in SUBSET Cmd, n \in cmds \cup {None} :
              CompleteAndNext(S, Cleared({d}, {"WAIT_CFM"}), n, hostid, unacked, unconfirmed \ {c})
        <4>1. PICK d \in Awaiting(ReqId[c]) :
                LET f == Cleared({d}, {"WAIT_CFM"})
                IN IF ~Over(f[d])
                   THEN CompleteAndNext({}, f, None, hostid, unacked, unconfirmed \ {c})
                   ELSE \E n \in cmds \cup {None} :
                          CompleteAndNext({d}, f, n, hostid, unacked, unconfirmed \ {c})
          BY <3>1 DEF Msgind
        <4>2. d \in cmds /\ {d} \in SUBSET Cmd /\ {} \in SUBSET Cmd
          BY DEF Awaiting, TypeOK
        <4> QED
          BY <4>1, <4>2
      <3>3. Cleared({d}, {"WAIT_CFM"}) \in [Cmd -> SUBSET Flag] /\ unconfirmed \ {c} \in SUBSET Cmd
            /\ S \in SUBSET Cmd /\ hostid \in Cmd \cup {None} /\ unacked \in Nat
        BY <3>2, ClearedType DEF TypeOK
      <3>4. /\ cmds' \subseteq Cmd /\ queue_sz' \in Int
            /\ flags' \in [Cmd -> SUBSET Flag] /\ result' \in [Cmd -> Result]
            /\ completed' \in [Cmd -> BOOLEAN] /\ msg' \in [Cmd -> BOOLEAN]
            /\ memory' \in [Cmd -> {"none", "live", "freed"}]
            /\ hostid' \in Cmd \cup {None} /\ unacked' \in Nat /\ unconfirmed' \subseteq Cmd
            /\ sem' \in Nat /\ refused' \subseteq Cmd
        <4> DEFINE f == Cleared({d}, {"WAIT_CFM"})
                   w == unconfirmed \ {c}
        <4>1. f \in [Cmd -> SUBSET Flag] /\ w \in SUBSET Cmd
          BY <3>3
        <4>2. CompleteAndNext(S, f, n, hostid, unacked, w)
          BY <3>2
        <4> HIDE DEF f, w
        <4> QED
          BY <3>3, <4>1, <4>2, CompleteAndNextType
      <3>5. TypeOK'
        BY <1>17, <2>2, <3>4 DEF Confirm, TypeOK, senders, teardown
      <3> QED
        BY <1>17, <3>5 DEF Confirm, TaskKnown
    <2> QED
      BY <2>1, <2>2
  <1>18. CASE Stop
    BY <1>18 DEF Stop, TypeOK, Result, Flag, Waits, manager, command, senders, thread, mailbox, teardown, history
  <1>19. CASE Deinit
    BY <1>19 DEF Deinit, TypeOK, Result, Flag, Waits, manager, command, senders, thread, mailbox, teardown, history
  <1>20. CASE DrainBegin
    BY <1>20 DEF DrainBegin, TypeOK, Result, Flag, Waits, manager, command, senders, thread, mailbox, teardown, history
  <1>21. ASSUME NEW c \in Cmd, DrainUnlink(c) PROVE TypeInv'
    BY <1>21 DEF DrainUnlink, IsFirst, TypeOK, Result, Flag, Waits, manager, command, senders, thread, mailbox, teardown, history
  <1>22. CASE DrainFree
    <2>1. stray' \subseteq {"sender", "task", "ack", "drain"} \X Cmd
      BY <1>22, UseType DEF DrainFree, TaskKnown, TypeOK
    <2>2. msg' \in [Cmd -> BOOLEAN]
      BY <1>22 DEF DrainFree, SenderFrees, TypeOK, command
    <2> QED
      BY <1>22, <2>1, <2>2 DEF DrainFree, SenderFrees, TypeOK, Result, manager, command, senders, thread, mailbox, teardown, history
  <1>23. CASE DrainEnd
    BY <1>23 DEF DrainEnd, TypeOK, Result, Flag, Waits, manager, command, senders, thread, mailbox, teardown, history
  <1>24. CASE Wipe
    BY <1>24 DEF Wipe, TypeOK, Result, Flag, Waits, manager, command, senders, thread, mailbox, teardown, history
  <1>25. CASE CloseBegin
    BY <1>25 DEF CloseBegin, TypeOK, Result, Flag, Waits, manager, command, senders, thread, mailbox, teardown, history
  <1>26. CASE CloseEnd
    BY <1>26 DEF CloseEnd, TypeOK, Result, Flag, Waits, manager, command, senders, thread, mailbox, teardown, history
  <1>27. CASE UNCHANGED vars
    BY <1>27 DEF vars, TypeOK, manager, command, senders, thread, mailbox, teardown, history
  <1> QED
    BY <1>1, <1>2, <1>3, <1>4, <1>5, <1>6, <1>7, <1>8, <1>9, <1>10, <1>11, <1>12,
       <1>13, <1>14, <1>15, <1>16, <1>17, <1>18, <1>19, <1>20, <1>21, <1>22, <1>23, <1>24,
       <1>25, <1>26, <1>27
    DEF Next, Sender, Task, Firmware, TearDown

\* The model is well typed: in particular no caller of aml_send_msg is ever
\* given -EINTR, which marks a command nobody has answered.
THEOREM TypeCorrect == Spec => []TypeOK
  <1>1. TypeInv => TypeOK
    BY DEF TypeInv
  <1> QED
    BY TypeInit, TypeNext, <1>1, PTL DEF Spec

-----------------------------------------------------------------------------
(* The list.                                                               *)

\* The initial state satisfies the invariant.
LEMMA ListInit == Init => ListInv
  <1> SUFFICES ASSUME Init PROVE ListInv
    OBVIOUS
  <1>1. Cardinality({}) = 0
    BY FS_EmptySet
  <1>2. \A c \in Cmd : ~completed[c]
    BY DEF Init
  <1>3. QueueInStep
    BY <1>1, ModeAssumption DEF Init, QueueInStep
  <1> QED
    BY <1>2, <1>3, CommandAssumption
    DEF Init, ListInv, ListedWaits, UnsentNowhere, CompletedUnlisted, TornDown, FreedUnlisted, Idle

\* cmd_complete keeps queue_sz the length of the list, whether or not it finds
\* the commands it is called for.
LEMMA CompleteSize ==
  ASSUME TypeOK, QueueInStep, NEW S \in SUBSET Cmd, NEW f, NEW r, NEW own, CompleteAll(S, f, r, own)
  PROVE  QueueInStep'
  <1>1. IsFiniteSet(S) /\ IsFiniteSet(cmds)
    BY CommandAssumption, FS_Subset DEF TypeOK
  <1>2. Cardinality(cmds \ S) = Cardinality(cmds) - Cardinality(cmds \cap S)
    BY <1>1, FS_Difference
  <1>3. Cardinality(cmds \cap S) \in Nat /\ Cardinality(cmds) \in Nat
    <2>1. IsFiniteSet(cmds \cap S)
      BY <1>1, FS_Subset
    <2> QED
      BY <1>1, <2>1, FS_CardinalityType
  <1>4. cmds' = cmds \ S /\ queue_sz' = queue_sz - Cardinality(cmds \cap S)
    <2>1. S \cap cmds = cmds \cap S
      OBVIOUS
    <2> QED
      BY <2>1 DEF CompleteAll, SizeWithout
  <1> QED
    BY <1>2, <1>3, <1>4, ModeAssumption DEF QueueInStep

\* What is left on the list after cmd_complete is as it was, if the flags f of
\* what is left still wait.
LEMMA CompleteList ==
  ASSUME TypeOK, UnsentNowhere, CompletedUnlisted, FreedUnlisted, torn' = torn,
         NEW S \in SUBSET Cmd, NEW f, NEW r, NEW own \in SUBSET S,
         CompleteAll(S, f, r, own),
         \A c \in cmds \ S : f[c] \cap Waits # {} /\ "DONE" \notin f[c],
         \A c \in S : pc[c] # "idle"
  PROVE  /\ ListedWaits' /\ CompletedUnlisted' /\ FreedUnlisted'
         /\ \A c \in Cmd : pc[c] = "idle" => c \notin cmds' /\ ~completed'[c]
  <1>1. cmds' = cmds \ S /\ cmds' \subseteq Cmd
    BY DEF CompleteAll, TypeOK
  <1>2. \A c \in Cmd \ S : flags'[c] = f[c] /\ (completed'[c] <=> completed[c]) /\ memory'[c] = memory[c]
    BY DEF CompleteAll
  <1>3. ListedWaits'
    BY <1>1, <1>2 DEF ListedWaits
  <1>4. CompletedUnlisted'
    BY <1>1, <1>2 DEF CompletedUnlisted
  <1>5. FreedUnlisted'
    BY <1>1, <1>2 DEF FreedUnlisted
  <1>6. \A c \in Cmd : pc[c] = "idle" => c \notin cmds' /\ ~completed'[c]
    BY <1>1, <1>2 DEF UnsentNowhere
  <1> QED
    BY <1>3, <1>4, <1>5, <1>6

\* The same for the end of an acknowledgement or a confirmation, which may send
\* deferred commands on.
LEMMA CompleteAndNextList ==
  ASSUME TypeOK, QueueInStep, UnsentNowhere, CompletedUnlisted, FreedUnlisted, torn' = torn,
         NEW S \in SUBSET cmds, NEW f \in [Cmd -> SUBSET Flag], NEW next,
         NEW h, NEW u, NEW w,
         CompleteAndNext(S, f, next, h, u, w),
         \A c \in cmds \ S : f[c] \cap Waits # {} /\ "DONE" \notin f[c]
  PROVE  /\ QueueInStep' /\ ListedWaits' /\ CompletedUnlisted' /\ FreedUnlisted'
         /\ \A c \in Cmd : pc[c] = "idle" => c \notin cmds' /\ ~completed'[c]
  <1>1. PICK fails \in SUBSET (cmds \ S), p \in cmds \cup {None} :
          CompleteAll(S \cup fails,
                      [c \in Cmd |-> f[c] \ (IF c \in fails THEN Waits \cup {"WAIT_PUSH"}
                                             ELSE IF c = p THEN {"WAIT_PUSH"} ELSE {})],
                      result, {})
    BY DEF CompleteAndNext
  <1> DEFINE g == [c \in Cmd |-> f[c] \ (IF c \in fails THEN Waits \cup {"WAIT_PUSH"}
                                         ELSE IF c = p THEN {"WAIT_PUSH"} ELSE {})]
             T == S \cup fails
  <1>2. T \in SUBSET Cmd /\ T \subseteq cmds /\ {} \in SUBSET T
    BY DEF TypeOK
  <1>3. \A c \in cmds \ T : g[c] \cap Waits # {} /\ "DONE" \notin g[c]
    BY DEF TypeOK, Waits
  <1>4. \A c \in T : pc[c] # "idle"
    BY <1>2 DEF UnsentNowhere, TypeOK
  <1>5. CompleteAll(T, g, result, {})
    BY <1>1
  <1> HIDE DEF g, T
  <1>6. QueueInStep'
    BY <1>2, <1>5, CompleteSize
  <1> QED
    BY <1>2, <1>3, <1>4, <1>5, <1>6, CompleteList

\* Every step keeps the invariant.
LEMMA ListNext == TypeInv /\ ListInv /\ [Next]_vars => ListInv'
  <1> SUFFICES ASSUME TypeOK, ListInv, [Next]_vars PROVE ListInv'
    BY DEF TypeInv
  <1> USE CommandAssumption
  <1>1. ASSUME NEW c \in Cmd, Send(c) PROVE ListInv'
    <2>1. ASSUME NEW r \in Result, Refuse(c, r) PROVE ListInv'
      BY <1>1, <2>1 DEF Send, Refuse, SenderFrees, Returns, ListInv, QueueInStep, ListedWaits, UnsentNowhere, CompletedUnlisted, TornDown, FreedUnlisted, TypeOK, manager, command, senders, thread, mailbox, teardown, history
    <2>2. CASE Enqueue(c) /\ ~Full
      <3>1. c \notin cmds /\ ~completed[c] /\ task.cmd # c
        BY <1>1 DEF Send, ListInv, UnsentNowhere
      <3>2. IsFiniteSet(cmds)
        BY CommandAssumption, FS_Subset DEF TypeOK
      <3>3. Cardinality(cmds \cup {c}) = Cardinality(cmds) + 1 /\ Cardinality(cmds) \in Nat
        BY <3>1, <3>2, FS_AddElement, FS_CardinalityType
      <3>4. cmds = {} => Cardinality(cmds) = 0
        BY FS_EmptySet
      <3>5. QueueInStep'
        BY <2>2, <3>3, <3>4, ModeAssumption DEF Enqueue, Full, ListInv, QueueInStep
      <3>6. "WAIT_ACK" \in NewFlags(c) /\ "DONE" \notin NewFlags(c)
        BY DEF NewFlags
      <3>7. flags' = [flags EXCEPT ![c] = NewFlags(c)] /\ cmds' = cmds \cup {c}
            /\ memory' = [memory EXCEPT ![c] = "live"]
            /\ completed' = completed /\ state' = state
        BY <2>2 DEF Enqueue
      <3>8. ListedWaits'
        BY <3>6, <3>7 DEF ListInv, ListedWaits, Waits, TypeOK
      <3>9. pc'[c] # "idle" /\ \A d \in Cmd : d # c => pc'[d] = pc[d]
        BY <2>2 DEF Enqueue, Returns, TypeOK
      <3>10. UnsentNowhere' /\ CompletedUnlisted' /\ FreedUnlisted' /\ TornDown'
        BY <1>1, <3>1, <3>7, <3>9 DEF Send, ListInv, UnsentNowhere, CompletedUnlisted, FreedUnlisted, TornDown,
           TypeOK, thread, teardown
      <3> QED
        BY <3>5, <3>8, <3>10 DEF ListInv
    <2> QED
      BY <1>1, <2>1, <2>2 DEF Send, Result
  <1>2. ASSUME NEW c \in Cmd, SendByThread(c) PROVE ListInv'
    BY <1>2 DEF SendByThread, Proceed, Returns, Waits, ListInv, QueueInStep, ListedWaits, UnsentNowhere, CompletedUnlisted, TornDown, FreedUnlisted, TypeOK, manager, command, senders, thread, mailbox, teardown, history
  <1>3. ASSUME NEW c \in Cmd, SendPush(c) PROVE ListInv'
    BY <1>3 DEF SendPush, Deliver, ListInv, QueueInStep, ListedWaits, UnsentNowhere, CompletedUnlisted, TornDown, FreedUnlisted, TypeOK, manager, command, senders, thread, mailbox, teardown, history
  <1>4. ASSUME NEW c \in Cmd, SendPushed(c) PROVE ListInv'
    BY <1>4 DEF SendPushed, Proceed, Returns, Use, ListInv, QueueInStep, ListedWaits, UnsentNowhere, CompletedUnlisted, TornDown, FreedUnlisted, TypeOK, manager, command, senders, thread, mailbox, teardown, history
  <1>5. ASSUME NEW c \in Cmd, SendRefused(c) PROVE ListInv'
    <2>1. CASE torn = "gone"
      BY <1>5, <2>1 DEF SendRefused, ListInv, QueueInStep, ListedWaits, UnsentNowhere, CompletedUnlisted, TornDown, FreedUnlisted, TypeOK, manager, command, senders, thread, mailbox, teardown, history
    <2>2. CASE torn # "gone"
      <3> DEFINE f == Cleared({c}, Waits)
                 r == result
                 own == {c}
                 x == c
      <3>1. CompleteAll({x}, f, r, own)
        BY <1>5, <2>2 DEF SendRefused
      <3>2. x \in Cmd /\ {x} \in SUBSET Cmd /\ pc[x] # "idle" /\ own \in SUBSET {x} /\ torn' = torn
        BY <1>5 DEF SendRefused, ListInv, UnsentNowhere, TornDown, TypeOK, teardown
      <3>3. \A d \in cmds \ {x} : f[d] \cap Waits # {} /\ "DONE" \notin f[d]
        BY DEF ListInv, ListedWaits, Cleared, TypeOK
      <3> HIDE DEF f, r, own, x
      <3>4. QueueInStep'
        BY <3>1, <3>2, CompleteSize DEF ListInv
      <3>5. /\ ListedWaits' /\ CompletedUnlisted' /\ FreedUnlisted'
            /\ \A d \in Cmd : pc[d] = "idle" => d \notin cmds' /\ ~completed'[d]
        BY <3>1, <3>2, <3>3, CompleteList DEF ListInv
      <3>6. UnsentNowhere' /\ TornDown'
        BY <1>5, <2>2, <3>2, <3>5 DEF SendRefused, Returns, ListInv, QueueInStep, ListedWaits, UnsentNowhere, CompletedUnlisted, TornDown, FreedUnlisted, TypeOK, manager, command, senders, thread, mailbox, teardown, history
      <3> QED
        BY <3>4, <3>5, <3>6 DEF ListInv
    <2> QED
      BY <2>1, <2>2
  <1>6. ASSUME NEW c \in Cmd, Woken(c) PROVE ListInv'
    BY <1>6 DEF Woken, Finish, SenderFrees, Returns, Reported, ListInv, QueueInStep, ListedWaits, UnsentNowhere, CompletedUnlisted, TornDown, FreedUnlisted, TypeOK, manager, command, senders, thread, mailbox, teardown, history
  <1>7. ASSUME NEW c \in Cmd, WaitBroken(c) PROVE ListInv'
    BY <1>7 DEF WaitBroken, ListInv, QueueInStep, ListedWaits, UnsentNowhere, CompletedUnlisted, TornDown, FreedUnlisted, TypeOK, manager, command, senders, thread, mailbox, teardown, history
  <1>8. ASSUME NEW c \in Cmd, KilledPoll(c) PROVE ListInv'
    BY <1>8 DEF KilledPoll, Finish, SenderFrees, Returns, Reported, ListInv, QueueInStep, ListedWaits, UnsentNowhere, CompletedUnlisted, TornDown, FreedUnlisted, TypeOK, manager, command, senders, thread, mailbox, teardown, history
  <1>9. ASSUME NEW c \in Cmd, ExpiredCheck(c) PROVE ListInv'
    BY <1>9 DEF ExpiredCheck, Finish, SenderFrees, Returns, Reported, ListInv, QueueInStep, ListedWaits, UnsentNowhere, CompletedUnlisted, TornDown, FreedUnlisted, TypeOK, manager, command, senders, thread, mailbox, teardown, history
  <1>10. ASSUME NEW c \in Cmd, ExpiredCrash(c) PROVE ListInv'
    <2>1. CASE /\ state = "DEINIT" \/ "DONE" \in flags[c]
               /\ state' = IF state = "DEINIT" THEN state ELSE "CRASHED"
               /\ Finish(c)
               /\ UNCHANGED <<cmds, queue_sz, flags, result, completed>>
      BY <1>10, <2>1 DEF ExpiredCrash, Finish, SenderFrees, Returns, ListInv, QueueInStep, ListedWaits, UnsentNowhere, CompletedUnlisted, TornDown, FreedUnlisted, TypeOK, manager, command, senders, thread, mailbox, teardown, history
    <2>2. CASE /\ state # "DEINIT" /\ state' = "CRASHED"
               /\ CompleteAll({c}, flags, [result EXCEPT ![c] = "ETIMEDOUT"], {c})
               /\ Returns(c, IF Over(flags[c]) THEN "0" ELSE "ETIMEDOUT")
      <3> DEFINE f == flags
                 r == [result EXCEPT ![c] = "ETIMEDOUT"]
                 own == {c}
                 x == c
      <3>1. CompleteAll({x}, f, r, own)
        BY <2>2
      <3>2. x \in Cmd /\ {x} \in SUBSET Cmd /\ pc[x] # "idle" /\ own \in SUBSET {x} /\ torn' = torn
        BY <1>10 DEF ExpiredCrash, ListInv, UnsentNowhere, TornDown, TypeOK, teardown
      <3>3. \A d \in cmds \ {x} : f[d] \cap Waits # {} /\ "DONE" \notin f[d]
        BY DEF ListInv, ListedWaits, Cleared, TypeOK
      <3> HIDE DEF f, r, own, x
      <3>4. QueueInStep'
        BY <3>1, <3>2, CompleteSize DEF ListInv
      <3>5. /\ ListedWaits' /\ CompletedUnlisted' /\ FreedUnlisted'
            /\ \A d \in Cmd : pc[d] = "idle" => d \notin cmds' /\ ~completed'[d]
        BY <3>1, <3>2, <3>3, CompleteList DEF ListInv
      <3>6. UnsentNowhere' /\ TornDown'
        BY <1>10, <2>2, <3>2, <3>5 DEF ExpiredCrash, Returns, ListInv, QueueInStep, ListedWaits, UnsentNowhere, CompletedUnlisted, TornDown, FreedUnlisted, TypeOK, manager, command, senders, thread, mailbox, teardown, history
      <3> QED
        BY <3>4, <3>5, <3>6 DEF ListInv
    <2> QED
      BY <1>10, <2>1, <2>2 DEF ExpiredCrash
  <1>11. CASE TaskTake
    BY <1>11 DEF TaskTake, WaitingPush, IsFirst, Running, ListInv, QueueInStep, ListedWaits, UnsentNowhere, CompletedUnlisted, TornDown, FreedUnlisted, TypeOK, manager, command, senders, thread, mailbox, teardown, history
  <1>12. CASE TaskClear
    BY <1>12 DEF TaskClear, Use, Cleared, Waits, ListInv, QueueInStep, ListedWaits, UnsentNowhere, CompletedUnlisted, TornDown, FreedUnlisted, TypeOK, manager, command, senders, thread, mailbox, teardown, history
  <1>13. CASE TaskPush
    BY <1>13 DEF TaskPush, Use, Deliver, ListInv, QueueInStep, ListedWaits, UnsentNowhere, CompletedUnlisted, TornDown, FreedUnlisted, TypeOK, manager, command, senders, thread, mailbox, teardown, history
  <1>14. CASE TaskPushed
    BY <1>14 DEF TaskPushed, Use, Idle, ListInv, QueueInStep, ListedWaits, UnsentNowhere, CompletedUnlisted, TornDown, FreedUnlisted, TypeOK, manager, command, senders, thread, mailbox, teardown, history
  <1>15. CASE TaskRefused
    <2> DEFINE f == Cleared({task.cmd}, Waits)
               r == result
               own == {}
               x == task.cmd
    <2>1. CompleteAll({x}, f, r, own)
      BY <1>15 DEF TaskRefused
    <2>2. x \in Cmd /\ {x} \in SUBSET Cmd /\ pc[x] # "idle" /\ own \in SUBSET {x} /\ torn' = torn
      BY <1>15 DEF TaskRefused, ListInv, UnsentNowhere, TornDown, TypeOK, teardown
    <2>3. \A d \in cmds \ {x} : f[d] \cap Waits # {} /\ "DONE" \notin f[d]
      BY DEF ListInv, ListedWaits, Cleared, TypeOK
    <2> HIDE DEF f, r, own, x
    <2>4. QueueInStep'
      BY <2>1, <2>2, CompleteSize DEF ListInv
    <2>5. /\ ListedWaits' /\ CompletedUnlisted' /\ FreedUnlisted'
          /\ \A d \in Cmd : pc[d] = "idle" => d \notin cmds' /\ ~completed'[d]
      BY <2>1, <2>2, <2>3, CompleteList DEF ListInv
    <2>6. UnsentNowhere' /\ TornDown'
      BY <1>15, <2>2, <2>5 DEF TaskRefused, Use, Idle, LookAgain, Cleared, ListInv, QueueInStep, ListedWaits, UnsentNowhere, CompletedUnlisted, TornDown, FreedUnlisted, TypeOK, manager, command, senders, thread, mailbox, teardown, history
    <2> QED
      BY <2>4, <2>5, <2>6 DEF ListInv
  <1>16. CASE Ack
    <2>1. CASE hostid = None
      BY <1>16, <2>1 DEF Ack, ListInv, QueueInStep, ListedWaits, UnsentNowhere, CompletedUnlisted, TornDown, FreedUnlisted, TypeOK, manager, command, senders, thread, mailbox, teardown, history
    <2>2. CASE hostid # None
      <3>1. Llind(hostid) /\ torn' = torn /\ pc' = pc /\ task' = task /\ state' = state /\ draining' = draining
        BY <1>16, <2>2 DEF Ack, senders, teardown
      <3>2. PICK n \in cmds \cup {None} :
              LET f    == Cleared({hostid} \cap {d \in cmds : Found(d, n)}, {"WAIT_ACK"})
                  over == Found(hostid, n) /\ Over(f[hostid])
              IN IF over THEN CompleteAndNext({hostid}, f, n, None, unacked - 1, unconfirmed)
                 ELSE CompleteAndNext({}, f, None, None, unacked - 1, unconfirmed)
        BY <3>1 DEF Llind
      <3> DEFINE f == Cleared({hostid} \cap {d \in cmds : Found(d, n)}, {"WAIT_ACK"})
                 over == Found(hostid, n) /\ Over(f[hostid])
                 S == IF over THEN {hostid} ELSE {}
      <3>3. \E m \in cmds \cup {None} : CompleteAndNext(S, f, m, None, unacked - 1, unconfirmed)
        BY <3>2
      <3>4. S \in SUBSET cmds /\ f \in [Cmd -> SUBSET Flag]
        BY ClearedType DEF Found
      <3>5. \A d \in cmds \ S : f[d] \cap Waits # {} /\ "DONE" \notin f[d]
        BY DEF ListInv, ListedWaits, Cleared, Over, TypeOK
      <3> HIDE DEF f, over, S
      <3>6. /\ QueueInStep' /\ ListedWaits' /\ CompletedUnlisted' /\ FreedUnlisted'
            /\ \A d \in Cmd : pc[d] = "idle" => d \notin cmds' /\ ~completed'[d]
        BY <3>1, <3>3, <3>4, <3>5, CompleteAndNextList DEF ListInv
      <3>7. UnsentNowhere' /\ TornDown'
        BY <3>1, <3>6 DEF ListInv, UnsentNowhere, TornDown
      <3> QED
        BY <3>6, <3>7 DEF ListInv
    <2> QED
      BY <2>1, <2>2
  <1>17. ASSUME NEW c \in Cmd, Confirm(c) PROVE ListInv'
    <2>1. CASE Awaiting(ReqId[c]) = {}
      BY <1>17, <2>1 DEF Confirm, ListInv, QueueInStep, ListedWaits, UnsentNowhere, CompletedUnlisted, TornDown, FreedUnlisted, TypeOK, manager, command, senders, thread, mailbox, teardown, history
    <2>2. CASE Awaiting(ReqId[c]) # {}
      <3> DEFINE w == unconfirmed \ {c}
      <3>1. Msgind(ReqId[c], w) /\ torn' = torn /\ pc' = pc /\ task' = task /\ state' = state
            /\ draining' = draining
        BY <1>17, <2>2 DEF Confirm, senders, teardown
      <3>2. PICK d \in Awaiting(ReqId[c]) :
              LET f == Cleared({d}, {"WAIT_CFM"})
              IN IF ~Over(f[d]) THEN CompleteAndNext({}, f, None, hostid, unacked, w)
                 ELSE \E n \in cmds \cup {None} : CompleteAndNext({d}, f, n, hostid, unacked, w)
        BY <3>1 DEF Msgind
      <3> DEFINE f == Cleared({d}, {"WAIT_CFM"})
                 S == IF Over(f[d]) THEN {d} ELSE {}
      <3>3. \E m \in cmds \cup {None} : CompleteAndNext(S, f, m, hostid, unacked, w)
        BY <3>2
      <3>4. S \in SUBSET cmds /\ f \in [Cmd -> SUBSET Flag]
        BY ClearedType DEF Awaiting
      <3>5. \A e \in cmds \ S : f[e] \cap Waits # {} /\ "DONE" \notin f[e]
        BY DEF ListInv, ListedWaits, Cleared, Over, TypeOK
      <3> HIDE DEF f, S, w
      <3>6. /\ QueueInStep' /\ ListedWaits' /\ CompletedUnlisted' /\ FreedUnlisted'
            /\ \A e \in Cmd : pc[e] = "idle" => e \notin cmds' /\ ~completed'[e]
        BY <3>1, <3>3, <3>4, <3>5, CompleteAndNextList DEF ListInv
      <3>7. UnsentNowhere' /\ TornDown'
        BY <3>1, <3>6 DEF ListInv, UnsentNowhere, TornDown
      <3> QED
        BY <3>6, <3>7 DEF ListInv
    <2> QED
      BY <2>1, <2>2
  <1>18. CASE Stop
    BY <1>18 DEF Stop, ListInv, QueueInStep, ListedWaits, UnsentNowhere, CompletedUnlisted, TornDown, FreedUnlisted, TypeOK, manager, command, senders, thread, mailbox, teardown, history
  <1>19. CASE Deinit
    BY <1>19 DEF Deinit, ListInv, QueueInStep, ListedWaits, UnsentNowhere, CompletedUnlisted, TornDown, FreedUnlisted, TypeOK, manager, command, senders, thread, mailbox, teardown, history
  <1>20. CASE DrainBegin
    BY <1>20 DEF DrainBegin, ListInv, QueueInStep, ListedWaits, UnsentNowhere, CompletedUnlisted, TornDown, FreedUnlisted, TypeOK, manager, command, senders, thread, mailbox, teardown, history
  <1>21. ASSUME NEW c \in Cmd, DrainUnlink(c) PROVE ListInv'
    <2>1. IsFiniteSet(cmds) /\ c \in cmds
      BY <1>21, CommandAssumption, FS_Subset DEF DrainUnlink, IsFirst, TypeOK
    <2>2. Cardinality(cmds \ {c}) = Cardinality(cmds) - 1 /\ Cardinality(cmds) \in Nat
      BY <2>1, FS_RemoveElement, FS_CardinalityType
    <2>3. QueueInStep'
      BY <1>21, <2>2, ModeAssumption DEF DrainUnlink, ListInv, QueueInStep
    <2>4. pc[c] # "idle"
      BY <2>1 DEF ListInv, UnsentNowhere, TypeOK
    <2> QED
      BY <1>21, <2>1, <2>3, <2>4 DEF DrainUnlink, ListInv, ListedWaits, UnsentNowhere, CompletedUnlisted,
         TornDown, FreedUnlisted, TypeOK, senders, thread
  <1>22. CASE DrainFree
    BY <1>22 DEF DrainFree, Use, SenderFrees, ListInv, QueueInStep, ListedWaits, UnsentNowhere, CompletedUnlisted, TornDown, FreedUnlisted, TypeOK, manager, command, senders, thread, mailbox, teardown, history
  <1>23. CASE DrainEnd
    BY <1>23 DEF DrainEnd, ListInv, QueueInStep, ListedWaits, UnsentNowhere, CompletedUnlisted, TornDown, FreedUnlisted, TypeOK, manager, command, senders, thread, mailbox, teardown, history
  <1>24. CASE Wipe
    <2>1. Cardinality({}) = 0
      BY FS_EmptySet
    <2> QED
      BY <1>24, <2>1, ModeAssumption DEF Wipe, ListInv, QueueInStep, ListedWaits, UnsentNowhere, CompletedUnlisted, TornDown, FreedUnlisted, TypeOK, manager, command, senders, thread, mailbox, teardown, history
  <1>25. CASE CloseBegin
    BY <1>25 DEF CloseBegin, ListInv, QueueInStep, ListedWaits, UnsentNowhere, CompletedUnlisted, TornDown, FreedUnlisted, TypeOK, manager, command, senders, thread, mailbox, teardown, history
  <1>26. CASE CloseEnd
    BY <1>26 DEF CloseEnd, ListInv, QueueInStep, ListedWaits, UnsentNowhere, CompletedUnlisted, TornDown, FreedUnlisted, TypeOK, manager, command, senders, thread, mailbox, teardown, history
  <1>27. CASE UNCHANGED vars
    BY <1>27 DEF vars, ListInv, QueueInStep, ListedWaits, UnsentNowhere, CompletedUnlisted, TornDown, FreedUnlisted, TypeOK, manager, command, senders, thread, mailbox, teardown, history
  <1> QED
    BY <1>1, <1>2, <1>3, <1>4, <1>5, <1>6, <1>7, <1>8, <1>9, <1>10, <1>11, <1>12,
       <1>13, <1>14, <1>15, <1>16, <1>17, <1>18, <1>19, <1>20, <1>21, <1>22, <1>23, <1>24,
       <1>25, <1>26, <1>27
    DEF Next, Sender, Task, Firmware, TearDown

\* The invariant holds in every reachable state.
LEMMA ListCorrect == Spec => [](TypeInv /\ ListInv)
  <1>1. Init => TypeInv /\ ListInv
    BY TypeInit, ListInit
  <1>2. TypeInv /\ ListInv /\ [Next]_vars => (TypeInv /\ ListInv)'
    BY TypeNext, ListNext
  <1> QED
    BY <1>1, <1>2, PTL DEF Spec

\* queue_sz is the length of the list and never above its limit, also when
\* cmd_complete is called for a command that has left the list.
THEOREM QueueInStepCorrect == Spec => []QueueInStep
  <1>1. TypeInv /\ ListInv => QueueInStep
    BY DEF ListInv
  <1> QED
    BY ListCorrect, <1>1, PTL

\* A listed command still waits for the firmware, so every command queued
\* behind another is deferred.
THEOREM ListedWaitsCorrect == Spec => []ListedWaits
  <1>1. TypeInv /\ ListInv => ListedWaits
    BY DEF ListInv
  <1> QED
    BY ListCorrect, <1>1, PTL

\* Until the manager is torn down no freed command is on the list.
THEOREM FreedUnlistedCorrect == Spec => []FreedUnlisted
  <1>1. TypeInv /\ ListInv => FreedUnlisted
    BY DEF ListInv
  <1> QED
    BY ListCorrect, <1>1, PTL

=============================================================================
