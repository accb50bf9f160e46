---------------------------- MODULE WlanTurnProofs ----------------------------
(***************************************************************************)
(* Whose turn it is: of the commands on the list one at a time is with the  *)
(* firmware, the head, and the others are deferred behind it.               *)
(***************************************************************************)
EXTENDS WlanCmdProofs, NumberLemmas

-----------------------------------------------------------------------------
(* The turn.  Of all the commands one at most is on its way to the firmware *)
(* or awaited from it; it is the head of the list, and the others wait for  *)
(* their push.                                                              *)

\* The interrupt may still come: the platform is not yet switched off.
Serving == torn \in {"up", "stopped"}

Kind == {"sender", "task", "box", "answer"}

\* Command c has the turn: its sender pushes it, aml_msg_task has it in hand, the
\* mailbox holds it, or it is acknowledged and not yet confirmed.
Turn(k, c) ==
  \/ k = "sender" /\ pc[c] \in {"pushing", "refused"}
  \/ k = "task" /\ task.cmd = c /\ task.at \in {"found", "cleared", "refused"}
  \/ k = "box" /\ hostid = c
  \/ k = "answer" /\ c \in cmds /\ flags[c] \cap {"WAIT_ACK", "WAIT_PUSH"} = {}

\* One command has the turn, or a token of aml_msg_sem stands for it.
OneTurn ==
  /\ \A j, k \in Kind, c, d \in Cmd : Turn(j, c) /\ Turn(k, d) => j = k /\ c = d
  /\ sem <= 1 /\ (sem > 0 => \A k \in Kind, c \in Cmd : ~Turn(k, c))

\* What the flags of a listed command say of its turn.
FlagsAgree ==
  /\ \A c \in Cmd : Turn("sender", c) => c \in cmds
  /\ \A c \in cmds : "WAIT_PUSH" \in flags[c] => "WAIT_ACK" \in flags[c]
  /\ \A c \in cmds : Turn("sender", c) \/ Turn("box", c) \/ (Turn("task", c) /\ task.at # "found")
                     => "WAIT_ACK" \in flags[c] /\ "WAIT_PUSH" \notin flags[c]
  /\ \A c \in cmds : Turn("task", c) /\ task.at = "found" => "WAIT_PUSH" \in flags[c]

\* The list is in the order of the tokens.
TokensAgree ==
  /\ \A c, d \in cmds : tkn[c] = tkn[d] => c = d
  /\ \A c \in cmds : tkn[c] < next_tkn

\* Whoever has the turn is the head of the list, unless it was given up, and the
\* rest of the list waits for its push.
HeadHasTurn ==
  /\ \A k \in Kind, c \in cmds : Turn(k, c) => \A d \in cmds : tkn[c] <= tkn[d]
  /\ \A c \in cmds : "WAIT_PUSH" \in flags[c] \/ \E k \in Kind : Turn(k, c)
  /\ state = "INITED" => /\ \A k \in Kind, c \in Cmd : Turn(k, c) => c \in cmds
                         /\ sem > 0 => cmds # {}

TurnInv ==
  /\ Serving <=> state # "DEINIT"
  /\ Serving => /\ unacked = (IF hostid = None THEN 0 ELSE 1)
                /\ OneTurn /\ FlagsAgree /\ TokensAgree /\ HeadHasTurn

\* Initially nobody has the turn.
LEMMA TurnInit == Init => TurnInv
  <1>1. Init => \A k \in Kind, c \in Cmd : ~Turn(k, c)
    BY CommandAssumption DEF Init, Kind, Turn, Idle
  <1> QED
    BY <1>1 DEF Init, TurnInv, Serving, OneTurn, FlagsAgree, TokensAgree, HeadHasTurn, Kind

\* A command is pushed by its sender only if the list was empty: the tail of a list
\* always waits for something.
LEMMA NotDeferred == ASSUME TypeOK, ListedWaits, TokensAgree, ~Deferred PROVE cmds = {}
  <1> SUFFICES ASSUME cmds # {} PROVE FALSE
    OBVIOUS
  <1> DEFINE T == {next_tkn - tkn[c] : c \in cmds}
  <1>1. T \in SUBSET Nat /\ T # {}
    BY DEF TypeOK, TokensAgree
  <1>2. PICK x \in T : \A y \in T : x <= y
    BY <1>1, LeastNat
  <1>3. PICK c \in cmds : x = next_tkn - tkn[c]
    OBVIOUS
  <1>4. \A d \in cmds : tkn[d] <= tkn[c]
    <2> SUFFICES ASSUME NEW d \in cmds PROVE tkn[d] <= tkn[c]
      OBVIOUS
    <2>1. next_tkn - tkn[c] <= next_tkn - tkn[d]
      BY <1>2, <1>3
    <2>2. next_tkn \in Nat /\ tkn[c] \in Nat /\ tkn[d] \in Nat
      BY DEF TypeOK
    <2> QED
      BY <2>1, <2>2
  <1>5. IsTail(c)
    BY <1>4 DEF IsTail
  <1> QED
    BY <1>5 DEF Deferred, ListedWaits

\* The end of an answer that completes nothing.
LEMMA CompleteNone ==
  ASSUME TypeOK, NEW f \in [Cmd -> SUBSET Flag], NEW h, NEW u, NEW w \in SUBSET Cmd,
         CompleteAndNext({}, f, None, h, u, w)
  PROVE  /\ cmds' = cmds /\ \A d \in Cmd : flags'[d] = f[d] /\ result'[d] = result[d]
         /\ hostid' = h /\ unacked' = u /\ unconfirmed' = w /\ sem' = sem /\ refused' = refused
  BY CommandAssumption DEF CompleteAndNext, CompleteAll, TypeOK

\* x is complete: the commands of F are refused, and p, the head of what is left, is
\* pushed, or nothing is, or aml_msg_task is told to do it.
Passes(x, f, u, w, F, p) ==
  /\ cmds' = cmds \ ({x} \cup F)
  /\ p # None => IsFirst(p, cmds')
  /\ hostid' = p /\ unacked' = (IF p = None THEN u ELSE u + 1)
  /\ unconfirmed' = w \cup ({p} \cap ReqCfm)
  /\ \A d \in Cmd \ ({x} \cup F) : /\ flags'[d] = IF d = p THEN f[d] \ {"WAIT_PUSH"} ELSE f[d]
                                   /\ result'[d] = result[d]
  /\ \A d \in {x} \cup F : "DONE" \in flags'[d]
  /\ refused' = refused \cup F
  /\ sem' = sem \/ (sem' = sem + 1 /\ p = None /\ cmds' # {})

\* That is the end of an answer that completes x, when all the others wait for their push.
LEMMA CompleteOne ==
  ASSUME TypeOK, NEW x \in cmds, NEW f \in [Cmd -> SUBSET Flag], NEW n, NEW u, NEW w \in SUBSET Cmd,
         CompleteAndNext({x}, f, n, None, u, w),
         \A d \in cmds \ {x} : "WAIT_PUSH" \in f[d],
         IsFirstOrNone(n, cmds \ {x})
  PROVE  \E F \in SUBSET (cmds \ {x}), p \in Cmd \cup {None} : Passes(x, f, u, w, F, p)
  <1>1. PICK fails \in SUBSET (cmds \ {x}), p \in cmds \cup {None} :
          /\ IF n = None \/ bus # "PCIE" THEN fails = {} /\ p = None
             ELSE NextRun(cmds \ {x}, f, n, fails, p)
          /\ CompleteAll({x} \cup fails,
                         [c \in Cmd |-> f[c] \ (IF c \in fails THEN Waits \cup {"WAIT_PUSH"}
                                                ELSE IF c = p THEN {"WAIT_PUSH"} ELSE {})],
                         result, {})
          /\ hostid' = (IF p = None THEN None ELSE p)
          /\ unacked' = (IF p = None THEN u ELSE u + 1)
          /\ unconfirmed' = w \cup ({p} \cap ReqCfm)
          /\ refused' = refused \cup fails
          /\ sem' = (IF n = None \/ bus = "PCIE" THEN sem ELSE sem + 1)
    BY DEF CompleteAndNext
  <1>2. /\ cmds' = cmds \ ({x} \cup fails)
        /\ \A d \in {x} \cup fails : "DONE" \in flags'[d]
        /\ \A d \in Cmd \ ({x} \cup fails) :
             /\ flags'[d] = IF d = p THEN f[d] \ {"WAIT_PUSH"} ELSE f[d]
             /\ result'[d] = result[d]
    BY <1>1 DEF CompleteAll, TypeOK
  <1>3. n # None => n \in cmds \ {x} /\ IsFirst(n, cmds \ {x})
    BY DEF IsFirstOrNone, IsFirst
  <1>4. p # None => IsFirst(p, cmds')
    <2>1. CASE n = None \/ bus # "PCIE"
      BY <1>1, <2>1
    <2>2. CASE NextRun(cmds \ {x}, f, n, fails, p) /\ n # None
      <3>1. CASE fails = {} /\ p = n
        <4>1. cmds' = cmds \ {x}
          BY <1>2, <3>1
        <4> QED
          BY <1>3, <2>2, <3>1, <4>1
      <3>2. CASE ~(fails = {} /\ p = n)
        <4>1. p # None => Continues((cmds \ {x}) \ fails, f, p)
          BY <2>2, <3>2 DEF NextRun
        <4>2. (cmds \ {x}) \ fails = cmds'
          BY <1>2
        <4> QED
          BY <4>1, <4>2 DEF Continues
      <3> QED
        BY <3>1, <3>2
    <2> QED
      BY <1>1, <2>1, <2>2
  <1>5. sem' = sem \/ (sem' = sem + 1 /\ p = None /\ cmds' # {})
    BY <1>1, <1>2, <1>3
  <1>6. p \in Cmd \cup {None} /\ hostid' = p
    BY <1>1 DEF TypeOK
  <1> QED
    BY <1>1, <1>2, <1>4, <1>5, <1>6 DEF Passes

\* Whose turn it is has the mailbox and the semaphore for itself.
LEMMA TurnAlone ==
  ASSUME TypeOK, TurnInv, Serving, NEW k \in Kind, NEW x \in Cmd, Turn(k, x)
  PROVE  /\ \A j \in Kind, d \in Cmd : Turn(j, d) => j = k /\ d = x
         /\ sem = 0
         /\ \A d \in cmds \ {x} : d \in Cmd /\ "WAIT_PUSH" \in flags[d] /\ "WAIT_ACK" \in flags[d]
         /\ x \in cmds => \A d \in cmds \ {x} : tkn[x] < tkn[d]
         /\ k # "box" => hostid = None /\ unacked = 0
         /\ k = "box" => hostid = x /\ unacked = 1
  <1>0. OneTurn /\ FlagsAgree /\ TokensAgree /\ HeadHasTurn
    BY DEF TurnInv
  <1>1. \A j \in Kind, d \in Cmd : Turn(j, d) => j = k /\ d = x
    BY <1>0 DEF OneTurn
  <1>2. sem = 0
    BY <1>0 DEF OneTurn, TypeOK
  <1>3. \A d \in cmds \ {x} : d \in Cmd /\ "WAIT_PUSH" \in flags[d]
    BY <1>0, <1>1 DEF HeadHasTurn, TypeOK
  <1>4. \A d \in cmds \ {x} : "WAIT_ACK" \in flags[d]
    BY <1>0, <1>3 DEF FlagsAgree
  <1>5. x \in cmds => \A d \in cmds \ {x} : tkn[x] < tkn[d]
    <2>1. x \in cmds => \A d \in cmds : tkn[x] <= tkn[d] /\ (d # x => tkn[d] # tkn[x])
      BY <1>0 DEF HeadHasTurn, TokensAgree
    <2> QED
      BY <1>3, <2>1 DEF TypeOK
  <1>6. k # "box" => hostid = None
    BY <1>1 DEF Turn, Kind, TypeOK
  <1>7. k = "box" => hostid = x
    BY DEF Turn
  <1> QED
    BY <1>1, <1>2, <1>3, <1>4, <1>5, <1>6, <1>7, CommandAssumption DEF TurnInv

\* x is complete, and the turn passes; w is yet to be confirmed.
Completes(x, w) ==
  x \in cmds /\ \E F \in SUBSET (cmds \ {x}), p \in Cmd \cup {None} : Passes(x, flags, 0, w, F, p)

\* The command in the mailbox is acknowledged and not complete.
AcksOnly ==
  /\ UNCHANGED <<cmds, sem, unconfirmed, refused>> /\ hostid' = None /\ unacked' = 0
  /\ \A d \in Cmd : d # hostid \/ hostid \notin cmds => flags'[d] = flags[d]
  /\ hostid \in cmds => /\ flags'[hostid] = flags[hostid] \ {"WAIT_ACK"}
                        /\ flags'[hostid] \cap Waits # {}
  /\ \A d \in Cmd : result'[d] = result[d]

\* An acknowledgement is that of the command in the mailbox: either it is not complete,
\* or it is and the turn passes.
LEMMA AckStep ==
  ASSUME TypeOK, TurnInv, Ack
  PROVE  /\ Serving /\ hostid \in Cmd /\ Turn("box", hostid) /\ acked' = acked \cup {hostid}
         /\ UNCHANGED <<pc, ret, task, torn, state, tkn, next_tkn, confirmed>>
         /\ AcksOnly \/ ("WAIT_CFM" \notin flags[hostid] /\ Completes(hostid, unconfirmed))
  <1>0. Serving /\ unacked > 0
    BY DEF Ack, Running, Serving
  <1>a. hostid # None /\ unacked = 1
    BY <1>0 DEF TurnInv
  <1> DEFINE x == hostid
             u == unacked - 1
             f(n) == Cleared({x} \cap {d \in cmds : Found(d, n)}, {"WAIT_ACK"})
  <1>1. /\ x \in Cmd /\ Turn("box", x) /\ u = 0 /\ Llind(x)
        /\ UNCHANGED <<pc, ret, task, torn, state, tkn, next_tkn, confirmed>>
    BY <1>a DEF Ack, TypeOK, Turn, senders, teardown
  <1>2. PICK n \in cmds \cup {None} :
          /\ IsFirstOrNone(n, WaitingPush(cmds \ {x}, flags))
          /\ IF Found(x, n) /\ Over(f(n)[x])
             THEN CompleteAndNext({x}, f(n), n, None, u, unconfirmed)
             ELSE CompleteAndNext({}, f(n), None, None, u, unconfirmed)
    BY <1>1 DEF Llind
  <1> DEFINE g == f(n)
  <1>3. /\ g \in [Cmd -> SUBSET Flag]
        /\ \A d \in Cmd : d # x \/ x \notin cmds => g[d] = flags[d]
    <2>1. g \in [Cmd -> SUBSET Flag]
      BY ClearedType
    <2> QED
      BY <2>1 DEF Cleared
  <1>4. /\ \A d \in cmds \ {x} : d \in Cmd /\ "WAIT_PUSH" \in flags[d]
        /\ x \in cmds => \A d \in cmds \ {x} : tkn[x] < tkn[d]
    BY <1>0, <1>1, TurnAlone DEF Kind
  <1>5. unconfirmed \in SUBSET Cmd
    BY DEF TypeOK
  <1>6. ASSUME x \in cmds
        PROVE  Found(x, n) /\ g[x] = flags[x] \ {"WAIT_ACK"}
    <2>1. n = None \/ n \in cmds \ {x}
      BY <1>2 DEF IsFirstOrNone, IsFirst, WaitingPush
    <2>2. Found(x, n)
      BY <1>4, <1>6, <2>1 DEF Found
    <2> QED
      BY <1>1, <1>6, <2>2 DEF Cleared
  <1>7. acked' = acked \cup {x}
    BY <1>1 DEF Llind
  <1>8. CASE Found(x, n) /\ Over(g[x])
    <2>1. x \in cmds /\ CompleteAndNext({x}, g, n, None, u, unconfirmed)
      BY <1>2, <1>8 DEF Found
    <2>2. IsFirstOrNone(n, cmds \ {x})
      <3>1. WaitingPush(cmds \ {x}, flags) = cmds \ {x}
        BY <1>4 DEF WaitingPush
      <3> QED
        BY <1>2, <3>1
    <2>3. (\A d \in cmds \ {x} : "WAIT_PUSH" \in g[d]) /\ "WAIT_CFM" \notin flags[x]
      BY <1>3, <1>4, <1>6, <1>8, <2>1 DEF Over, Waits
    <2>4. \E F \in SUBSET (cmds \ {x}), p \in Cmd \cup {None} : Passes(x, g, u, unconfirmed, F, p)
      <3> HIDE DEF g, x, u
      <3> QED
        BY <1>3, <1>5, <2>1, <2>2, <2>3, CompleteOne
    <2>5. ASSUME NEW F \in SUBSET (cmds \ {x}), NEW p, Passes(x, g, u, unconfirmed, F, p)
          PROVE  Passes(x, flags, 0, unconfirmed, F, p)
      <3> HIDE DEF g, x, u
      <3> QED
        BY <1>1, <1>3, <2>5 DEF Passes
    <2>6. Completes(x, unconfirmed)
      BY <2>1, <2>4, <2>5 DEF Completes
    <2> QED
      BY <1>0, <1>1, <1>7, <2>3, <2>6
  <1>9. CASE ~(Found(x, n) /\ Over(g[x]))
    <2>1. CompleteAndNext({}, g, None, None, u, unconfirmed)
      BY <1>2, <1>9
    <2>2. /\ cmds' = cmds /\ \A d \in Cmd : flags'[d] = g[d] /\ result'[d] = result[d]
          /\ hostid' = None /\ unacked' = u /\ unconfirmed' = unconfirmed /\ sem' = sem /\ refused' = refused
      <3> HIDE DEF g, u
      <3> QED
        BY <1>3, <1>5, <2>1, CompleteNone
    <2>3. x \in cmds => flags'[x] = flags[x] \ {"WAIT_ACK"} /\ flags'[x] \cap Waits # {}
      BY <1>1, <1>6, <1>9, <2>2 DEF Over
    <2>4. AcksOnly
      <3> HIDE DEF g
      <3> QED
        BY <1>1, <1>3, <2>2, <2>3 DEF AcksOnly
    <2> QED
      BY <1>0, <1>1, <1>7, <2>4
  <1> QED
    BY <1>8, <1>9

\* No listed command waits for the id of c.
NotAwaited(c) ==
  /\ UNCHANGED <<cmds, flags, result, sem, hostid, unacked, refused>>
  /\ Awaiting(ReqId[c]) = {} /\ unconfirmed' = unconfirmed \ {c}

\* The confirmation of c is taken for that of d, which is not complete.
ConfirmsOnly(c, d) ==
  /\ IsFirst(d, Awaiting(ReqId[c]))
  /\ UNCHANGED <<cmds, sem, hostid, unacked, refused>> /\ unconfirmed' = unconfirmed \ {c}
  /\ \A e \in Cmd : flags'[e] = IF e = d THEN flags[e] \ {"WAIT_CFM"} ELSE flags[e]
  /\ flags'[d] \cap Waits # {}
  /\ \A e \in Cmd : result'[e] = result[e]

\* A confirmation is taken for that of the first listed command which waits for its id:
\* there is none, or nothing is complete, or this command is and the turn passes.
LEMMA ConfirmStep ==
  ASSUME TypeOK, TurnInv, NEW c \in Cmd, Confirm(c)
  PROVE  /\ Serving /\ c \in unconfirmed /\ confirmed' = confirmed \cup {c}
         /\ UNCHANGED <<pc, ret, task, torn, state, tkn, next_tkn, acked>>
         /\ \/ NotAwaited(c)
            \/ \E d \in Awaiting(ReqId[c]) : ConfirmsOnly(c, d)
            \/ \E d \in Awaiting(ReqId[c]) : Turn("answer", d) /\ Completes(d, unconfirmed \ {c})
  <1>1. Serving /\ c \in unconfirmed /\ confirmed' = confirmed \cup {c}
        /\ UNCHANGED <<pc, ret, task, torn, acked>>
    BY DEF Confirm, Running, Serving, senders, teardown
  <1>2. UNCHANGED <<state, next_tkn, tkn>>
    <2>1. UNCHANGED <<manager, command>> \/ UNCHANGED <<state, next_tkn, tkn>>
      BY DEF Confirm
    <2> QED
      BY <2>1 DEF manager, command
  <1>3. CASE Awaiting(ReqId[c]) = {}
    BY <1>1, <1>2, <1>3 DEF Confirm, NotAwaited, manager, command
  <1>4. CASE Awaiting(ReqId[c]) # {}
    <2> DEFINE w == unconfirmed \ {c}
               f(d) == Cleared({d}, {"WAIT_CFM"})
    <2>1. PICK d \in Awaiting(ReqId[c]) :
            /\ IsFirst(d, Awaiting(ReqId[c]))
            /\ IF ~Over(f(d)[d]) THEN CompleteAndNext({}, f(d), None, hostid, unacked, w)
               ELSE \E n \in cmds \cup {None} :
                      /\ \E e \in cmds \cup {None} : /\ IsFirstOrNone(e, Behind(d))
                                                     /\ n = IF e \in WaitingPush(cmds, f(d)) THEN e ELSE None
                      /\ CompleteAndNext({d}, f(d), n, hostid, unacked, w)
      BY <1>4 DEF Confirm, Msgind
    <2> DEFINE g == f(d)
    <2>2. /\ g \in [Cmd -> SUBSET Flag] /\ d \in cmds /\ d \in Cmd /\ w \in SUBSET Cmd
          /\ \A e \in Cmd : g[e] = IF e = d THEN flags[e] \ {"WAIT_CFM"} ELSE flags[e]
      BY ClearedType DEF Cleared, Awaiting, TypeOK
    <2>3. CASE ~Over(g[d])
      <3>1. CompleteAndNext({}, g, None, hostid, unacked, w)
        BY <2>1, <2>3
      <3> HIDE DEF f, g, w
      <3>2. /\ cmds' = cmds /\ \A e \in Cmd : flags'[e] = g[e] /\ result'[e] = result[e]
            /\ hostid' = hostid /\ unacked' = unacked /\ unconfirmed' = w /\ sem' = sem /\ refused' = refused
        BY <2>2, <3>1, CompleteNone
      <3>3. flags'[d] \cap Waits # {}
        BY <2>2, <2>3, <3>2 DEF Over
      <3>4. ConfirmsOnly(c, d)
        BY <2>1, <2>2, <3>2, <3>3 DEF ConfirmsOnly, w
      <3> QED
        BY <1>1, <1>2, <3>4
    <2>4. CASE Over(g[d])
      <3>1. PICK n \in cmds \cup {None}, e \in cmds \cup {None} :
              /\ IsFirstOrNone(e, Behind(d))
              /\ n = IF e \in WaitingPush(cmds, g) THEN e ELSE None
              /\ CompleteAndNext({d}, g, n, hostid, unacked, w)
        BY <2>1, <2>4
      <3> HIDE DEF f, g
      <3>2. Turn("answer", d)
        <4>1. "WAIT_ACK" \notin flags[d]
          BY <2>2, <2>4 DEF Over, Waits
        <4>2. "WAIT_PUSH" \notin flags[d]
          BY <1>1, <2>2, <4>1 DEF TurnInv, FlagsAgree
        <4> QED
          BY <2>2, <4>1, <4>2 DEF Turn
      <3>3. /\ hostid = None /\ unacked = 0
            /\ \A y \in cmds \ {d} : "WAIT_PUSH" \in flags[y] /\ y \in Cmd /\ tkn[d] < tkn[y]
        BY <1>1, <2>2, <3>2, TurnAlone DEF Kind
      <3>4. Behind(d) = cmds \ {d}
        BY <2>2, <3>3 DEF Behind, TypeOK
      <3>5. n = e
        <4>1. e # None => e \in cmds \ {d}
          BY <3>1, <3>4 DEF IsFirstOrNone, IsFirst
        <4>2. e # None => e \in WaitingPush(cmds, g)
          BY <2>2, <3>3, <4>1 DEF WaitingPush
        <4> QED
          BY <3>1, <4>2
      <3>6. IsFirstOrNone(n, cmds \ {d}) /\ CompleteAndNext({d}, g, n, None, unacked, w)
        BY <3>1, <3>3, <3>4, <3>5
      <3>7. \A y \in cmds \ {d} : "WAIT_PUSH" \in g[y]
        BY <2>2, <3>3
      <3>8. PICK F \in SUBSET (cmds \ {d}), p \in Cmd \cup {None} : Passes(d, g, unacked, w, F, p)
        <4> HIDE DEF w
        <4> QED
          BY <2>2, <3>6, <3>7, CompleteOne
      <3>9. Passes(d, flags, 0, w, F, p)
        BY <2>2, <3>3, <3>8 DEF Passes
      <3>10. Completes(d, w)
        BY <2>2, <3>9 DEF Completes
      <3> QED
        BY <1>1, <1>2, <3>2, <3>10
    <2> QED
      BY <2>3, <2>4
  <1> QED
    BY <1>3, <1>4

\* The turn passes from x, which is complete, to the next.
LEMMA TurnPassed ==
  ASSUME TypeOK, TurnInv, Serving, NEW k0 \in {"box", "answer"}, NEW x \in Cmd, Turn(k0, x),
         NEW w, Completes(x, w), UNCHANGED <<pc, task, torn, state, tkn, next_tkn>>
  PROVE  /\ TurnInv'
         /\ \E F \in SUBSET (cmds \ {x}), p \in Cmd \cup {None} :
              Passes(x, flags, 0, w, F, p) /\ \A k \in Kind, d \in Cmd : Turn(k, d)' <=> k = "box" /\ d = p
  <1>x. x \in cmds
    BY DEF Completes
  <1>p. PICK F \in SUBSET (cmds \ {x}), p \in Cmd \cup {None} : Passes(x, flags, 0, w, F, p)
    BY DEF Completes
  <1>0. \A d \in cmds : d \in Cmd
    BY DEF TypeOK
  <1>1. /\ cmds' = cmds \ ({x} \cup F)
        /\ p # None => IsFirst(p, cmds')
        /\ hostid' = p /\ unacked' = (IF p = None THEN 0 ELSE 1)
        /\ \A d \in Cmd \ ({x} \cup F) : flags'[d] = IF d = p THEN flags[d] \ {"WAIT_PUSH"} ELSE flags[d]
        /\ sem' = sem \/ (sem' = sem + 1 /\ p = None /\ cmds' # {})
    BY <1>p DEF Passes
  <1>a. /\ \A j \in Kind, d \in Cmd : Turn(j, d) => j = k0 /\ d = x
        /\ sem = 0
        /\ \A d \in cmds \ {x} : d \in Cmd /\ "WAIT_PUSH" \in flags[d] /\ "WAIT_ACK" \in flags[d]
    BY <1>0, TurnAlone DEF Kind
  <1>2. ASSUME NEW d \in cmds'
        PROVE  d \in cmds /\ d \in Cmd /\ d # x /\ "WAIT_ACK" \in flags'[d] /\ ("WAIT_PUSH" \in flags'[d] <=> d # p)
    <2>1. d \in cmds /\ d \in Cmd /\ d # x /\ d \notin F
      BY <1>0, <1>1
    <2>2. flags'[d] = IF d = p THEN flags[d] \ {"WAIT_PUSH"} ELSE flags[d]
      BY <1>1, <2>1
    <2> QED
      BY <1>a, <2>1, <2>2
  <1>3. ASSUME NEW k \in Kind, NEW d \in Cmd PROVE Turn(k, d)' <=> k = "box" /\ d = p
    <2>1. ~Turn("sender", d) /\ ~Turn("task", d)
      BY <1>a DEF Kind
    <2>2. ~Turn("sender", d)' /\ ~Turn("task", d)'
      BY <2>1 DEF Turn
    <2>3. ~Turn("answer", d)'
      BY <1>2 DEF Turn
    <2>4. Turn("box", d)' <=> d = p
      BY <1>1 DEF Turn
    <2> QED
      BY <2>2, <2>3, <2>4 DEF Kind
  <1>4. p # None => p \in cmds' /\ \A d \in cmds' : tkn[p] <= tkn[d]
    BY <1>1 DEF IsFirst
  <1>5. OneTurn'
    BY <1>1, <1>3, <1>a, CommandAssumption DEF OneTurn
  <1>6. FlagsAgree'
    BY <1>2, <1>3 DEF FlagsAgree, Kind
  <1>7. TokensAgree'
    BY <1>2 DEF TurnInv, TokensAgree
  <1>8. HeadHasTurn'
    BY <1>1, <1>2, <1>3, <1>4, <1>a, CommandAssumption DEF HeadHasTurn, Kind
  <1> QED
    BY <1>p, <1>1, <1>3, <1>5, <1>6, <1>7, <1>8 DEF TurnInv, Serving
\* A step that leaves alone the list, its flags, the mailbox and the task, and that no
\* sender takes up or ends its push in.
LEMMA TurnFrame ==
  ASSUME TypeOK, TurnInv,
         UNCHANGED <<cmds, state, tkn, next_tkn, flags, task, sem, hostid, unacked, torn>>,
         \A d \in Cmd : pc'[d] \in {"pushing", "refused"} <=> pc[d] \in {"pushing", "refused"}
  PROVE  TurnInv'
  <1>1. \A k \in Kind, d \in Cmd : Turn(k, d)' <=> Turn(k, d)
    BY DEF Turn
  <1>2. cmds \subseteq Cmd
    BY DEF TypeOK
  <1>3. OneTurn => OneTurn'
    BY <1>1 DEF OneTurn
  <1>4. FlagsAgree => FlagsAgree'
    BY <1>1, <1>2 DEF FlagsAgree, Kind
  <1>5. TokensAgree => TokensAgree'
    BY DEF TokensAgree
  <1>6. HeadHasTurn => HeadHasTurn'
    BY <1>1, <1>2 DEF HeadHasTurn
  <1> QED
    BY <1>3, <1>4, <1>5, <1>6 DEF TurnInv, Serving

\* Every step keeps it.
LEMMA TurnNext == TypeInv /\ ListInv /\ TurnInv /\ [Next]_vars => TurnInv'
  <1> SUFFICES ASSUME TypeInv, TypeOK, ListInv, TurnInv, [Next]_vars PROVE TurnInv'
    BY DEF TypeInv
  <1>0. ListInv'
    BY ListNext DEF TypeInv
  <1>1. ASSUME NEW c \in Cmd, Send(c) PROVE TurnInv'
    <2>1. ASSUME NEW r, Refuse(c, r) PROVE TurnInv'
      <3>1. /\ UNCHANGED <<cmds, state, tkn, next_tkn, flags, task, sem, hostid, unacked, torn>>
            /\ pc[c] = "idle" /\ pc' = [pc EXCEPT ![c] = "done"]
        BY <1>1, <2>1 DEF Send, Refuse, SenderFrees, Returns, manager, thread, mailbox, teardown
      <3>2. \A d \in Cmd : pc'[d] \in {"pushing", "refused"} <=> pc[d] \in {"pushing", "refused"}
        BY <3>1 DEF TypeOK
      <3> QED
        BY <3>1, <3>2, TurnFrame
    <2>2. CASE Enqueue(c) /\ state # "CRASHED"
      <3>1. /\ pc[c] = "idle" /\ cmds' = cmds \cup {c} /\ c \notin cmds /\ task.cmd # c
            /\ flags' = [flags EXCEPT ![c] = NewFlags(c)]
            /\ tkn' = [tkn EXCEPT ![c] = next_tkn] /\ next_tkn' = next_tkn + 1
            /\ UNCHANGED <<state, task, sem, hostid, unacked, torn>>
        BY <1>1, <2>2 DEF Send, Enqueue, ListInv, UnsentNowhere, thread, mailbox, teardown
      <3>2. /\ \A d \in Cmd : d # c => flags'[d] = flags[d] /\ tkn'[d] = tkn[d]
            /\ flags'[c] = NewFlags(c) /\ tkn'[c] = next_tkn
        BY <3>1 DEF TypeOK
      <3>3. "WAIT_ACK" \in NewFlags(c) /\ ("WAIT_PUSH" \in NewFlags(c) <=> Deferred)
        BY DEF NewFlags
      <3>4. \A d \in Cmd : d # c => pc'[d] = pc[d]
        BY <2>2 DEF Enqueue, Returns, TypeOK
      <3>5. CASE ~Serving
        BY <3>1, <3>5 DEF TurnInv, Serving
      <3>6. CASE Serving
        <4>0. OneTurn /\ FlagsAgree /\ TokensAgree /\ HeadHasTurn /\ state = "INITED"
          BY <2>2, <3>6 DEF TypeOK, TurnInv
        <4>2. \A d \in cmds : tkn[d] < next_tkn /\ tkn[d] \in Nat /\ d # c /\ d \in Cmd
          BY <3>1, <4>0 DEF TypeOK, TokensAgree
        <4>3. next_tkn \in Nat
          BY DEF TypeOK
        <4>4. TokensAgree'
          BY <3>1, <3>2, <4>0, <4>2, <4>3 DEF TokensAgree
        <4>5. \A k \in Kind : ~Turn(k, c)
          BY <3>1, <4>0 DEF HeadHasTurn
        <4>6. \A k \in Kind, d \in Cmd : d # c => (Turn(k, d)' <=> Turn(k, d))
          BY <3>1, <3>2, <3>4 DEF Turn
        <4>7. \A k \in Kind : Turn(k, c)' => k = "sender"
          <5>1. ~Turn("task", c) /\ ~Turn("box", c)
            BY <4>5 DEF Kind
          <5>2. ~Turn("task", c)' /\ ~Turn("box", c)'
            BY <3>1, <5>1 DEF Turn
          <5>3. ~Turn("answer", c)'
            BY <3>2, <3>3 DEF Turn
          <5> QED
            BY <5>2, <5>3 DEF Kind
        <4>8. CASE Deferred
          <5>1. ~Turn("sender", c)'
            BY <2>2, <4>8 DEF Enqueue, Returns, TypeOK, Turn
          <5>2. \A k \in Kind, d \in Cmd : Turn(k, d)' <=> Turn(k, d)
            BY <4>5, <4>6, <4>7, <5>1
          <5>3. OneTurn'
            BY <3>1, <4>0, <5>2 DEF OneTurn
          <5>4. FlagsAgree'
            BY <3>1, <3>2, <3>3, <4>0, <4>2, <4>5, <5>2 DEF FlagsAgree, Kind
          <5>5. HeadHasTurn'
            <6>1. ASSUME NEW k \in Kind, NEW d \in cmds', Turn(k, d)' PROVE \A e \in cmds' : tkn'[d] <= tkn'[e]
              BY <3>1, <3>2, <4>0, <4>2, <4>3, <4>5, <5>2, <6>1 DEF HeadHasTurn
            <6>2. \A d \in cmds' : "WAIT_PUSH" \in flags'[d] \/ \E k \in Kind : Turn(k, d)'
              BY <3>1, <3>2, <3>3, <4>0, <4>2, <4>8, <5>2 DEF HeadHasTurn
            <6>3. \A k \in Kind, d \in Cmd : Turn(k, d)' => d \in cmds'
              BY <3>1, <4>0, <5>2 DEF HeadHasTurn
            <6> QED
              BY <3>1, <6>1, <6>2, <6>3 DEF HeadHasTurn
          <5> QED
            BY <3>1, <3>6, <4>4, <5>3, <5>4, <5>5 DEF TurnInv, Serving
        <4>9. CASE ~Deferred
          <5>1. cmds = {}
            BY <4>0, <4>9, NotDeferred DEF ListInv
          <5>a. Turn("sender", c)'
            BY <2>2, <4>9 DEF Enqueue, TypeOK, Turn
          <5>2. \A k \in Kind, d \in Cmd : ~Turn(k, d)
            BY <4>0, <5>1 DEF HeadHasTurn
          <5>3. \A k \in Kind, d \in Cmd : Turn(k, d)' <=> k = "sender" /\ d = c
            BY <4>6, <4>7, <5>2, <5>a DEF Kind
          <5>4. sem = 0
            BY <4>0, <5>1 DEF HeadHasTurn, TypeOK
          <5>5. OneTurn'
            BY <3>1, <5>3, <5>4 DEF OneTurn
          <5>6. FlagsAgree'
            BY <3>1, <3>2, <3>3, <4>9, <5>1, <5>3 DEF FlagsAgree, Kind
          <5>7. HeadHasTurn'
            BY <3>1, <3>2, <4>3, <5>1, <5>3, <5>4 DEF HeadHasTurn, Kind
          <5> QED
            BY <3>1, <3>6, <4>4, <5>5, <5>6, <5>7 DEF TurnInv, Serving
        <4> QED
          BY <4>8, <4>9
      <3> QED
        BY <3>5, <3>6
    <2> QED
      BY <1>1, <2>1, <2>2 DEF Send
  <1>2. ASSUME NEW c \in Cmd, SendByThread(c) PROVE TurnInv'
    <2>1. /\ c \in NonBlocking /\ pc[c] = "pushing" /\ sem' = sem + 1
          /\ pc' = [pc EXCEPT ![c] = "done"]
          /\ flags' = [flags EXCEPT ![c] = @ \cup {"WAIT_PUSH"}]
          /\ UNCHANGED <<cmds, state, tkn, next_tkn, task, hostid, unacked, torn>>
      BY <1>2, CommandAssumption DEF SendByThread, ByThread, Proceed, Returns, manager, thread, mailbox, teardown
    <2>2. CASE ~Serving
      BY <2>1, <2>2 DEF TurnInv, Serving
    <2>3. CASE Serving
      <3>1. Turn("sender", c) /\ c \in cmds /\ OneTurn /\ FlagsAgree /\ TokensAgree /\ HeadHasTurn
        BY <2>1, <2>3 DEF TurnInv, Turn, FlagsAgree
      <3>2. \A k \in Kind, d \in Cmd : Turn(k, d) => k = "sender" /\ d = c
        BY <3>1 DEF OneTurn, Kind
      <3>3. \A d \in Cmd : d # c => pc'[d] = pc[d] /\ flags'[d] = flags[d]
        BY <2>1 DEF TypeOK
      <3>4. flags'[c] = flags[c] \cup {"WAIT_PUSH"} /\ pc'[c] = "done"
        BY <2>1 DEF TypeOK
      <3>5. ASSUME NEW k \in Kind, NEW d \in Cmd PROVE ~Turn(k, d)'
        <4>1. ~Turn("task", d) /\ ~Turn("box", d) /\ (d # c => ~Turn(k, d))
          BY <3>2 DEF Kind
        <4>2. ~Turn("task", d)' /\ ~Turn("box", d)'
          BY <2>1, <4>1 DEF Turn
        <4> QED
          BY <2>1, <3>3, <3>4, <4>1, <4>2 DEF Turn, Kind
      <3>6. sem = 0 /\ sem \in Nat
        BY <3>1 DEF OneTurn, Kind, TypeOK
      <3>7. OneTurn'
        BY <2>1, <3>5, <3>6 DEF OneTurn
      <3>8. \A d \in cmds : "WAIT_PUSH" \in flags'[d] /\ ("WAIT_PUSH" \in flags[d] \/ d = c) /\ d \in Cmd
        BY <3>1, <3>2, <3>3, <3>4 DEF HeadHasTurn, TypeOK
      <3>9. FlagsAgree'
        <4>1. \A d \in cmds : "WAIT_ACK" \in flags[d]
          BY <3>1, <3>8 DEF FlagsAgree, Kind
        <4> QED
          BY <2>1, <3>3, <3>4, <3>5, <3>8, <4>1 DEF FlagsAgree, Kind
      <3>10. TokensAgree'
        BY <2>1, <3>1 DEF TokensAgree
      <3>11. HeadHasTurn'
        BY <2>1, <3>1, <3>5, <3>8 DEF HeadHasTurn
      <3> QED
        BY <2>1, <2>3, <3>7, <3>9, <3>10, <3>11 DEF TurnInv, Serving
    <2> QED
      BY <2>2, <2>3
  <1>3. ASSUME NEW c \in Cmd, SendPush(c) PROVE TurnInv'
    <2>1. /\ pc[c] = "pushing" /\ \E r \in {"pushed", "refused"} : pc' = [pc EXCEPT ![c] = r]
          /\ UNCHANGED <<cmds, flags, sem, state, tkn, next_tkn, task, torn>>
      BY <1>3 DEF SendPush, manager, command, thread, teardown
    <2>2. CASE pc'[c] = "refused"
      <3>1. UNCHANGED <<hostid, unacked>>
        BY <1>3, <2>2 DEF SendPush, mailbox, TypeOK
      <3>2. \A d \in Cmd : pc'[d] \in {"pushing", "refused"} <=> pc[d] \in {"pushing", "refused"}
        BY <2>1, <2>2 DEF TypeOK
      <3> QED
        BY <2>1, <3>1, <3>2, TurnFrame
    <2>3. CASE ~Serving
      BY <2>1, <2>3 DEF TurnInv, Serving
    <2>4. CASE Serving /\ pc'[c] # "refused"
      <3>1. hostid' = c /\ unacked' = unacked + 1 /\ pc' = [pc EXCEPT ![c] = "pushed"]
        BY <1>3, <2>4 DEF SendPush, Deliver, TypeOK
      <3>2. Turn("sender", c) /\ c \in cmds /\ OneTurn /\ FlagsAgree /\ TokensAgree /\ HeadHasTurn
        BY <2>1, <2>4 DEF TurnInv, Turn, FlagsAgree
      <3>3. \A k \in Kind, d \in Cmd : Turn(k, d) => k = "sender" /\ d = c
        BY <3>2 DEF OneTurn, Kind
      <3>4. ASSUME NEW k \in Kind, NEW d \in Cmd PROVE Turn(k, d)' <=> k = "box" /\ d = c
        <4>1. ~Turn("task", d) /\ ~Turn("answer", d) /\ (d # c => ~Turn("sender", d))
          BY <3>3 DEF Kind
        <4>2. ~Turn("task", d)' /\ ~Turn("answer", d)' /\ ~Turn("sender", d)'
          BY <2>1, <3>1, <4>1 DEF Turn, TypeOK
        <4>3. Turn("box", d)' <=> d = c
          BY <3>1 DEF Turn
        <4> QED
          BY <4>2, <4>3 DEF Kind
      <3>5. hostid = None /\ unacked = 0 /\ sem = 0
        <4>1. hostid = None
          BY <3>3 DEF Turn, Kind, TypeOK
        <4> QED
          BY <2>4, <3>2, <4>1 DEF TurnInv, OneTurn, Kind, TypeOK
      <3>6. OneTurn'
        BY <2>1, <3>4, <3>5 DEF OneTurn
      <3>7. FlagsAgree'
        BY <2>1, <3>2, <3>4 DEF FlagsAgree, Kind, TypeOK
      <3>8. TokensAgree'
        BY <2>1, <3>2 DEF TokensAgree
      <3>9. HeadHasTurn'
        <4>1. \A d \in cmds : d \in Cmd /\ ("WAIT_PUSH" \in flags[d] \/ d = c) /\ tkn[c] <= tkn[d]
          BY <3>2, <3>3 DEF HeadHasTurn, TypeOK, Kind
        <4> QED
          BY <2>1, <3>2, <3>4, <3>5, <4>1 DEF HeadHasTurn, Kind
      <3> QED
        BY <2>1, <2>4, <3>1, <3>5, <3>6, <3>7, <3>8, <3>9, CommandAssumption DEF TurnInv, Serving
    <2> QED
      BY <2>2, <2>3, <2>4
  <1>4. ASSUME NEW c \in Cmd, SendPushed(c) PROVE TurnInv'
    <2>1. /\ UNCHANGED <<cmds, state, tkn, next_tkn, flags, task, sem, hostid, unacked, torn>>
          /\ pc[c] \notin {"pushing", "refused"}
          /\ \E r \in {"waiting", "expired", "crashing", "done"} : pc' = [pc EXCEPT ![c] = r]
      BY <1>4 DEF SendPushed, Proceed, Returns, Use, manager, command, senders, thread, mailbox, teardown, history
    <2>2. \A d \in Cmd : pc'[d] \in {"pushing", "refused"} <=> pc[d] \in {"pushing", "refused"}
      BY <2>1 DEF TypeOK
    <2> QED
      BY <2>1, <2>2, TurnFrame
  <1>5. ASSUME NEW c \in Cmd, SendRefused(c) PROVE TurnInv'
    <2>1. CASE torn = "gone"
      BY <1>5, <2>1 DEF SendRefused, TurnInv, Serving, manager, teardown
    <2>2. CASE ~Serving /\ torn # "gone"
      BY <1>5, <2>2 DEF SendRefused, TurnInv, Serving, teardown
    <2>3. CASE Serving
      <3>1. /\ cmds' = cmds \ {c} /\ \A d \in Cmd : d # c => flags'[d] = flags[d]
            /\ UNCHANGED <<state, tkn, next_tkn, task, sem, hostid, unacked, torn>>
            /\ pc[c] = "refused" /\ pc' = [pc EXCEPT ![c] = "done"]
        BY <1>5, <2>3 DEF Serving, SendRefused, CompleteAll, Cleared, Returns, thread, mailbox, teardown
      <3>2. Turn("sender", c) /\ c \in cmds /\ OneTurn /\ FlagsAgree /\ TokensAgree /\ HeadHasTurn
        BY <3>1, <2>3 DEF TurnInv, Turn, FlagsAgree
      <3>3. \A k \in Kind, d \in Cmd : Turn(k, d) => k = "sender" /\ d = c
        BY <3>2 DEF OneTurn, Kind
      <3>4. ASSUME NEW k \in Kind, NEW d \in Cmd PROVE ~Turn(k, d)'
        <4>1. ~Turn("task", d) /\ ~Turn("box", d) /\ ~Turn("answer", d) /\ (d # c => ~Turn("sender", d))
          BY <3>3 DEF Kind
        <4>2. ~Turn("task", d)' /\ ~Turn("box", d)' /\ ~Turn("sender", d)'
          BY <3>1, <4>1 DEF Turn, TypeOK
        <4>3. ~Turn("answer", d)'
          BY <3>1, <4>1 DEF Turn, TypeOK
        <4> QED
          BY <4>2, <4>3 DEF Kind
      <3>5. sem = 0
        BY <3>2 DEF OneTurn, Kind, TypeOK
      <3>6. OneTurn'
        BY <3>1, <3>4, <3>5 DEF OneTurn
      <3>7. \A d \in cmds' : d \in cmds /\ d \in Cmd /\ flags'[d] = flags[d] /\ "WAIT_PUSH" \in flags[d]
        BY <3>1, <3>2, <3>3 DEF HeadHasTurn, TypeOK
      <3>8. FlagsAgree' /\ TokensAgree'
        BY <3>1, <3>2, <3>4, <3>7 DEF FlagsAgree, TokensAgree, Kind
      <3>9. HeadHasTurn'
        BY <3>1, <3>4, <3>5, <3>7 DEF HeadHasTurn
      <3> QED
        BY <2>3, <3>1, <3>6, <3>8, <3>9 DEF TurnInv, Serving
    <2> QED
      BY <2>1, <2>2, <2>3
  <1>6. ASSUME NEW c \in Cmd, Woken(c) PROVE TurnInv'
    <2>1. /\ UNCHANGED <<cmds, state, tkn, next_tkn, flags, task, sem, hostid, unacked, torn>>
          /\ pc[c] \notin {"pushing", "refused"}
          /\ \E r \in {"waiting", "expired", "crashing", "done"} : pc' = [pc EXCEPT ![c] = r]
      BY <1>6 DEF Woken, Finish, SenderFrees, Returns, Reported, manager, command, senders, thread, mailbox, teardown, history
    <2>2. \A d \in Cmd : pc'[d] \in {"pushing", "refused"} <=> pc[d] \in {"pushing", "refused"}
      BY <2>1 DEF TypeOK
    <2> QED
      BY <2>1, <2>2, TurnFrame
  <1>7. ASSUME NEW c \in Cmd, WaitBroken(c) PROVE TurnInv'
    BY <1>7, TurnFrame DEF WaitBroken, TypeOK, manager, command, senders, thread, mailbox, teardown, history
  <1>8. ASSUME NEW c \in Cmd, KilledPoll(c) PROVE TurnInv'
    <2>1. /\ UNCHANGED <<cmds, state, tkn, next_tkn, flags, task, sem, hostid, unacked, torn>>
          /\ pc[c] \notin {"pushing", "refused"}
          /\ \E r \in {"waiting", "expired", "crashing", "done"} : pc' = [pc EXCEPT ![c] = r]
      BY <1>8 DEF KilledPoll, Finish, SenderFrees, Returns, Reported, manager, command, senders, thread, mailbox, teardown, history
    <2>2. \A d \in Cmd : pc'[d] \in {"pushing", "refused"} <=> pc[d] \in {"pushing", "refused"}
      BY <2>1 DEF TypeOK
    <2> QED
      BY <2>1, <2>2, TurnFrame
  <1>9. ASSUME NEW c \in Cmd, ExpiredCheck(c) PROVE TurnInv'
    <2>1. /\ UNCHANGED <<cmds, state, tkn, next_tkn, flags, task, sem, hostid, unacked, torn>>
          /\ pc[c] \notin {"pushing", "refused"}
          /\ \E r \in {"waiting", "expired", "crashing", "done"} : pc' = [pc EXCEPT ![c] = r]
      BY <1>9 DEF ExpiredCheck, Finish, SenderFrees, Returns, Reported, manager, command, senders, thread, mailbox, teardown, history
    <2>2. \A d \in Cmd : pc'[d] \in {"pushing", "refused"} <=> pc[d] \in {"pushing", "refused"}
      BY <2>1 DEF TypeOK
    <2> QED
      BY <2>1, <2>2, TurnFrame
  <1>10. ASSUME NEW c \in Cmd, ExpiredCrash(c) PROVE TurnInv'
    <2>1. CASE /\ state' = (IF state = "DEINIT" THEN state ELSE "CRASHED")
               /\ Finish(c)
               /\ UNCHANGED <<cmds, queue_sz, flags, result, completed>>
      <3>1. /\ UNCHANGED <<cmds, tkn, next_tkn, flags, task, sem, hostid, unacked, torn>>
            /\ pc[c] = "crashing" /\ pc' = [pc EXCEPT ![c] = "done"]
        BY <1>10, <2>1 DEF ExpiredCrash, Finish, Returns, thread, mailbox, teardown
      <3>2. \A d \in Cmd : pc'[d] \in {"pushing", "refused"} <=> pc[d] \in {"pushing", "refused"}
        BY <3>1 DEF TypeOK
      <3>3. \A k \in Kind, d \in Cmd : Turn(k, d)' <=> Turn(k, d)
        BY <3>1, <3>2 DEF Turn
      <3>4. cmds \subseteq Cmd
        BY DEF TypeOK
      <3>5. TurnInv => (OneTurn /\ FlagsAgree /\ TokensAgree /\ HeadHasTurn => OneTurn' /\ FlagsAgree' /\ TokensAgree')
        BY <3>1, <3>3, <3>4 DEF OneTurn, FlagsAgree, TokensAgree, Kind
      <3>6. HeadHasTurn => HeadHasTurn'
        BY <2>1, <3>1, <3>3, <3>4 DEF HeadHasTurn
      <3> QED
        BY <2>1, <3>1, <3>5, <3>6 DEF TurnInv, Serving
    <2>2. CASE /\ state # "DEINIT" /\ state' = "CRASHED"
               /\ CompleteAll({c}, flags, [result EXCEPT ![c] = "ETIMEDOUT"], {c})
               /\ Returns(c, IF Over(flags[c]) THEN "0" ELSE "ETIMEDOUT")
      <3>1. /\ cmds' = cmds \ {c} /\ \A d \in Cmd : d # c => flags'[d] = flags[d]
            /\ UNCHANGED <<tkn, next_tkn, task, sem, hostid, unacked, torn>>
            /\ pc[c] = "crashing" /\ pc' = [pc EXCEPT ![c] = "done"]
        BY <1>10, <2>2 DEF ExpiredCrash, CompleteAll, Returns, thread, mailbox, teardown
      <3>2. \A d \in Cmd : pc'[d] \in {"pushing", "refused"} <=> pc[d] \in {"pushing", "refused"}
        BY <3>1 DEF TypeOK
      <3>3. \A d \in cmds' : flags'[d] = flags[d] /\ d \in Cmd /\ d \in cmds /\ d # c
        BY <3>1 DEF TypeOK
      <3>4. \A k \in Kind, d \in Cmd : Turn(k, d)' <=> Turn(k, d) /\ ~(k = "answer" /\ d = c)
        <4>1. \A d \in Cmd : Turn("sender", d)' <=> Turn("sender", d)
          BY <3>2 DEF Turn
        <4>2. \A d \in Cmd : (Turn("task", d)' <=> Turn("task", d)) /\ (Turn("box", d)' <=> Turn("box", d))
          BY <3>1 DEF Turn
        <4>3. \A d \in Cmd : Turn("answer", d)' <=> Turn("answer", d) /\ d # c
          BY <3>1, <3>3 DEF Turn
        <4> QED
          BY <4>1, <4>2, <4>3 DEF Kind
      <3>5. ~Turn("sender", c) /\ OneTurn /\ FlagsAgree /\ TokensAgree /\ HeadHasTurn
        BY <2>2, <3>1 DEF Turn, TurnInv
      <3>6. OneTurn'
        BY <3>1, <3>4, <3>5 DEF OneTurn
      <3>7. FlagsAgree'
        BY <3>1, <3>3, <3>4, <3>5 DEF FlagsAgree, Kind
      <3>8. TokensAgree'
        BY <3>1, <3>5 DEF TokensAgree
      <3>9. HeadHasTurn'
        <4>1. \A k \in Kind, d \in cmds' : Turn(k, d)' => \A e \in cmds' : tkn'[d] <= tkn'[e]
          BY <3>1, <3>3, <3>4, <3>5 DEF HeadHasTurn
        <4>2. \A d \in cmds' : "WAIT_PUSH" \in flags'[d] \/ \E k \in Kind : Turn(k, d)'
          BY <3>3, <3>4, <3>5 DEF HeadHasTurn
        <4> QED
          BY <2>2, <4>1, <4>2 DEF HeadHasTurn
      <3> QED
        BY <2>2, <3>1, <3>6, <3>7, <3>8, <3>9 DEF TurnInv, Serving
    <2> QED
      BY <1>10, <2>1, <2>2 DEF ExpiredCrash
  <1>11. CASE TaskTake
    <2>1. /\ task.at = "down" /\ sem > 0 /\ sem' = sem - 1 /\ torn = "up"
          /\ UNCHANGED <<cmds, state, tkn, next_tkn, flags, pc, hostid, unacked, torn>>
      BY <1>11 DEF TaskTake, Running, manager, command, senders, mailbox, teardown
    <2>2. OneTurn /\ FlagsAgree /\ TokensAgree /\ HeadHasTurn /\ Serving
      BY <2>1 DEF TurnInv, Serving
    <2>3. sem = 1 /\ sem' = 0 /\ \A k \in Kind, d \in Cmd : ~Turn(k, d)
      BY <2>1, <2>2 DEF OneTurn, TypeOK
    <2>4. \A d \in cmds : d \in Cmd /\ "WAIT_PUSH" \in flags[d]
      BY <2>2, <2>3 DEF HeadHasTurn, TypeOK
    <2>5. TokensAgree'
      BY <2>1, <2>2 DEF TokensAgree
    <2>6. CASE UNCHANGED task
      <3>1. \A d \in Cmd : pc'[d] \in {"pushing", "refused"} <=> pc[d] \in {"pushing", "refused"}
        BY <2>1
      <3>2. \A k \in Kind, d \in Cmd : ~Turn(k, d)'
        BY <2>1, <2>3, <2>6 DEF Turn
      <3>3. OneTurn'
        BY <2>3, <3>2 DEF OneTurn
      <3>4. FlagsAgree'
        BY <2>1, <2>2, <2>4, <3>2 DEF FlagsAgree, Kind
      <3>5. HeadHasTurn'
        BY <2>1, <2>3, <2>4, <3>2 DEF HeadHasTurn
      <3> QED
        BY <2>1, <2>2, <2>5, <3>3, <3>4, <3>5 DEF TurnInv, Serving
    <2>7. ASSUME NEW x \in cmds, IsFirst(x, WaitingPush(cmds, flags)),
                 task' = [at |-> "found", cmd |-> x]
          PROVE  TurnInv'
      <3>1. ASSUME NEW k \in Kind, NEW d \in Cmd PROVE Turn(k, d)' <=> k = "task" /\ d = x
        <4>1. ~Turn("sender", d)' /\ ~Turn("box", d)' /\ ~Turn("answer", d)'
          BY <2>1, <2>3 DEF Turn, Kind
        <4>2. Turn("task", d)' <=> d = x
          BY <2>7 DEF Turn
        <4> QED
          BY <4>1, <4>2 DEF Kind
      <3>2. \A d \in cmds : tkn[x] <= tkn[d]
        BY <2>4, <2>7 DEF IsFirst, WaitingPush
      <3>3. OneTurn'
        BY <2>3, <3>1 DEF OneTurn
      <3>4. FlagsAgree'
        BY <2>1, <2>2, <2>4, <2>7, <3>1 DEF FlagsAgree, Kind
      <3>5. HeadHasTurn'
        BY <2>1, <2>3, <2>4, <3>1, <3>2 DEF HeadHasTurn, Kind
      <3> QED
        BY <2>1, <2>2, <2>5, <3>3, <3>4, <3>5 DEF TurnInv, Serving
    <2> QED
      BY <1>11, <2>6, <2>7 DEF TaskTake, WaitingPush
  <1>12. CASE TaskClear
    <2>1. /\ task.at = "found" /\ task.cmd \in Cmd /\ Serving /\ task' = [task EXCEPT !.at = "cleared"]
          /\ flags' = Cleared({task.cmd}, {"WAIT_PUSH"})
          /\ UNCHANGED <<cmds, state, tkn, next_tkn, pc, sem, hostid, unacked, torn>>
      BY <1>12 DEF TaskClear, ListInv, TornDown, Serving, manager, senders, mailbox, teardown
    <2>2. OneTurn /\ FlagsAgree /\ TokensAgree /\ HeadHasTurn /\ Turn("task", task.cmd)
      BY <2>1 DEF TurnInv, Turn
    <2>3. task'.at = "cleared" /\ task'.cmd = task.cmd /\ cmds \subseteq Cmd
      BY <2>1 DEF TypeOK
    <2>4. \A d \in Cmd : flags'[d] = IF d = task.cmd THEN flags[d] \ {"WAIT_PUSH"} ELSE flags[d]
      BY <2>1 DEF Cleared
    <2>5. \A k \in Kind, d \in Cmd : Turn(k, d) => k = "task" /\ d = task.cmd
      BY <2>1, <2>2 DEF OneTurn, Kind
    <2>6. \A d \in cmds : "WAIT_PUSH" \in flags[d] /\ "WAIT_ACK" \in flags[d]
      BY <2>1, <2>2, <2>3, <2>5 DEF FlagsAgree, HeadHasTurn
    <2>7. ASSUME NEW k \in Kind, NEW d \in Cmd PROVE Turn(k, d)' <=> Turn(k, d)
      <3>1. (Turn("sender", d)' <=> Turn("sender", d)) /\ (Turn("box", d)' <=> Turn("box", d))
        BY <2>1 DEF Turn
      <3>2. Turn("task", d)' <=> Turn("task", d)
        BY <2>1, <2>3 DEF Turn
      <3>3. ~Turn("answer", d) /\ ~Turn("answer", d)'
        BY <2>1, <2>4, <2>6 DEF Turn
      <3> QED
        BY <3>1, <3>2, <3>3 DEF Kind
    <2>8. OneTurn'
      BY <2>1, <2>2, <2>7 DEF OneTurn
    <2>9. FlagsAgree'
      <3>1. \A d \in cmds : "WAIT_ACK" \in flags'[d]
        BY <2>3, <2>4, <2>6
      <3>2. \A d \in Cmd : ~Turn("sender", d)' /\ ~Turn("box", d)' /\ (Turn("task", d)' => d = task.cmd)
        BY <2>5, <2>7 DEF Kind
      <3> QED
        BY <2>1, <2>3, <2>4, <3>1, <3>2 DEF FlagsAgree
    <2>10. TokensAgree'
      BY <2>1, <2>2 DEF TokensAgree
    <2>11. HeadHasTurn'
      <3>1. \A d \in cmds : "WAIT_PUSH" \in flags'[d] \/ Turn("task", d)'
        BY <2>2, <2>3, <2>4, <2>6, <2>7 DEF Kind
      <3> QED
        BY <2>1, <2>2, <2>3, <2>7, <3>1 DEF HeadHasTurn, Kind
    <2> QED
      BY <2>1, <2>8, <2>9, <2>10, <2>11 DEF TurnInv, Serving
  <1>13. CASE TaskPush
    <2>1. /\ task.at = "cleared" /\ task.cmd \in Cmd /\ Serving
          /\ \E r \in {"pushed", "refused"} : task' = [task EXCEPT !.at = r]
          /\ UNCHANGED <<cmds, state, tkn, next_tkn, flags, pc, sem, torn>>
      BY <1>13 DEF TaskPush, ListInv, TornDown, Serving, manager, command, senders, teardown
    <2>2. OneTurn /\ FlagsAgree /\ TokensAgree /\ HeadHasTurn /\ Turn("task", task.cmd)
      BY <2>1 DEF TurnInv, Turn
    <2>3. task'.cmd = task.cmd /\ task'.at \in {"pushed", "refused"} /\ cmds \subseteq Cmd
      BY <2>1 DEF TypeOK
    <2>4. \A k \in Kind, d \in Cmd : Turn(k, d) => k = "task" /\ d = task.cmd
      BY <2>1, <2>2 DEF OneTurn, Kind
    <2>5. TokensAgree'
      BY <2>1, <2>2 DEF TokensAgree
    <2>6. sem = 0 /\ hostid = None /\ unacked = 0
      <3>1. sem = 0 /\ hostid = None
        BY <2>1, <2>2, <2>4 DEF OneTurn, Kind, Turn, TypeOK
      <3> QED
        BY <2>1, <3>1 DEF TurnInv
    <2>7. \A d \in Cmd : ~Turn("sender", d)' /\ ~Turn("answer", d)'
      BY <2>1, <2>4 DEF Turn, Kind
    <2>8. CASE task'.at = "refused"
      <3>1. UNCHANGED <<hostid, unacked>>
        BY <1>13, <2>8 DEF TaskPush, mailbox, TypeOK
      <3>2. \A d \in Cmd : ~Turn("box", d)' /\ (Turn("task", d)' <=> d = task.cmd)
        BY <2>3, <2>6, <2>8, <3>1, CommandAssumption DEF Turn
      <3>3. \A k \in Kind, d \in Cmd : Turn(k, d)' <=> Turn(k, d)
        BY <2>2, <2>4, <2>7, <3>2 DEF Kind
      <3>4. OneTurn'
        BY <2>1, <2>2, <3>3 DEF OneTurn
      <3>5. FlagsAgree'
        BY <2>1, <2>2, <2>3, <2>8, <3>3 DEF FlagsAgree, Kind
      <3>6. HeadHasTurn'
        BY <2>1, <2>2, <2>3, <3>3 DEF HeadHasTurn
      <3> QED
        BY <2>1, <2>5, <3>1, <3>4, <3>5, <3>6 DEF TurnInv, Serving
    <2>9. CASE task'.at = "pushed"
      <3>1. hostid' = task.cmd /\ unacked' = 1
        BY <1>13, <2>6, <2>9 DEF TaskPush, Deliver, TypeOK
      <3>2. \A k \in Kind, d \in Cmd : Turn(k, d)' <=> k = "box" /\ d = task.cmd
        <4>1. \A d \in Cmd : ~Turn("task", d)' /\ (Turn("box", d)' <=> d = task.cmd)
          BY <2>9, <3>1 DEF Turn
        <4> QED
          BY <2>7, <4>1 DEF Kind
      <3>3. OneTurn'
        BY <2>1, <2>6, <3>2 DEF OneTurn
      <3>4. FlagsAgree'
        BY <2>1, <2>2, <2>3, <3>2 DEF FlagsAgree, Kind
      <3>5. HeadHasTurn'
        <4>1. \A d \in cmds : "WAIT_PUSH" \in flags[d] \/ d = task.cmd
          BY <2>2, <2>3, <2>4 DEF HeadHasTurn
        <4>2. task.cmd \in cmds => \A d \in cmds : tkn[task.cmd] <= tkn[d]
          BY <2>2 DEF HeadHasTurn, Kind
        <4>3. state = "INITED" => task.cmd \in cmds
          BY <2>1, <2>2 DEF HeadHasTurn, Kind
        <4> QED
          BY <2>1, <2>3, <2>6, <3>2, <4>1, <4>2, <4>3 DEF HeadHasTurn, Kind
      <3> QED
        BY <2>1, <2>5, <3>1, <3>3, <3>4, <3>5, CommandAssumption DEF TurnInv, Serving
    <2> QED
      BY <2>3, <2>8, <2>9
  <1>14. CASE TaskPushed
    <2>1. /\ task.at = "pushed" /\ task' = Idle
          /\ UNCHANGED <<cmds, state, tkn, next_tkn, flags, pc, sem, hostid, unacked, torn>>
      BY <1>14 DEF TaskPushed, manager, senders, mailbox, teardown
    <2>2. \A k \in Kind, d \in Cmd : Turn(k, d)' <=> Turn(k, d)
      BY <2>1 DEF Turn, Idle
    <2>3. \A d \in Cmd : ~Turn("task", d)' /\ ~Turn("task", d)
      BY <2>1 DEF Turn, Idle
    <2>4. cmds \subseteq Cmd
      BY DEF TypeOK
    <2>5. OneTurn => OneTurn'
      BY <2>1, <2>2 DEF OneTurn
    <2>6. FlagsAgree => FlagsAgree'
      BY <2>1, <2>2, <2>3, <2>4 DEF FlagsAgree, Kind
    <2>7. TokensAgree => TokensAgree'
      BY <2>1 DEF TokensAgree
    <2>8. HeadHasTurn => HeadHasTurn'
      BY <2>1, <2>2, <2>4 DEF HeadHasTurn
    <2> QED
      BY <2>1, <2>5, <2>6, <2>7, <2>8 DEF TurnInv, Serving
  <1>15. CASE TaskRefused
    <2>1. /\ task.at = "refused" /\ task.cmd \in Cmd /\ Serving /\ task' = Idle
          /\ cmds' = cmds \ {task.cmd} /\ sem' = (IF queue_sz' > 0 THEN sem + 1 ELSE sem)
          /\ \A d \in Cmd : d # task.cmd => flags'[d] = flags[d]
          /\ UNCHANGED <<state, tkn, next_tkn, pc, hostid, unacked, torn>>
      BY <1>15 DEF TaskRefused, LookAgain, CompleteAll, Cleared, ListInv, TornDown, Serving, senders, mailbox, teardown
    <2>2. OneTurn /\ FlagsAgree /\ TokensAgree /\ HeadHasTurn /\ Turn("task", task.cmd)
      BY <2>1 DEF TurnInv, Turn
    <2>3. \A k \in Kind, d \in Cmd : Turn(k, d) => k = "task" /\ d = task.cmd
      BY <2>1, <2>2 DEF OneTurn, Kind
    <2>4. \A d \in cmds' : d \in Cmd /\ d \in cmds /\ flags'[d] = flags[d] /\ "WAIT_PUSH" \in flags[d]
      BY <2>1, <2>2, <2>3 DEF HeadHasTurn, TypeOK
    <2>5. \A k \in Kind, d \in Cmd : ~Turn(k, d)'
      <3>1. \A d \in Cmd : ~Turn("sender", d)' /\ ~Turn("box", d)'
        BY <2>1, <2>3 DEF Turn, Kind
      <3>2. \A d \in Cmd : ~Turn("task", d)'
        BY <2>1 DEF Turn, Idle
      <3>3. \A d \in Cmd : ~Turn("answer", d)'
        BY <2>4 DEF Turn
      <3> QED
        BY <3>1, <3>2, <3>3 DEF Kind
    <2>6. sem = 0
      BY <2>1, <2>2 DEF OneTurn, Kind, TypeOK
    <2>7. OneTurn'
      BY <2>1, <2>5, <2>6 DEF OneTurn
    <2>8. sem' > 0 => cmds' # {}
      <3>1. QueueInStep'
        BY <1>0 DEF ListInv
      <3> QED
        BY <2>1, <2>6, <3>1, FS_EmptySet DEF QueueInStep
    <2>9. FlagsAgree' /\ TokensAgree'
      BY <2>1, <2>2, <2>4, <2>5 DEF FlagsAgree, TokensAgree, Kind
    <2>10. HeadHasTurn'
      BY <2>4, <2>5, <2>8 DEF HeadHasTurn
    <2> QED
      BY <2>1, <2>7, <2>9, <2>10 DEF TurnInv, Serving
  <1>16. CASE Ack
    <2> DEFINE x == hostid
    <2>0. /\ Serving /\ x \in Cmd /\ Turn("box", x)
          /\ UNCHANGED <<pc, task, torn, state, tkn, next_tkn>>
      BY <1>16, AckStep
    <2>1. CASE AcksOnly
      <3>a. /\ UNCHANGED <<cmds, sem>> /\ hostid' = None /\ unacked' = 0
            /\ \A d \in Cmd : d # x \/ x \notin cmds => flags'[d] = flags[d]
            /\ x \in cmds => flags'[x] = flags[x] \ {"WAIT_ACK"}
        BY <2>1 DEF AcksOnly
      <3>0. OneTurn /\ FlagsAgree /\ TokensAgree /\ HeadHasTurn
        BY <2>0 DEF TurnInv
      <3>1. /\ \A k \in Kind, d \in Cmd : Turn(k, d) => k = "box" /\ d = x
            /\ sem = 0
            /\ \A d \in cmds \ {x} : d \in Cmd /\ "WAIT_PUSH" \in flags[d] /\ "WAIT_ACK" \in flags[d]
        BY <2>0, TurnAlone DEF Kind
      <3>2. x \in cmds => "WAIT_PUSH" \notin flags[x]
        BY <2>0, <3>0 DEF FlagsAgree
      <3> HIDE DEF x
      <3>3. ASSUME NEW k \in Kind, NEW d \in Cmd PROVE Turn(k, d)' <=> k = "answer" /\ d = x /\ x \in cmds
        <4>1. ~Turn("sender", d)' /\ ~Turn("task", d)'
          BY <2>0, <3>1 DEF Turn, Kind
        <4>2. ~Turn("box", d)'
          BY <3>a, CommandAssumption DEF Turn
        <4>3. Turn("answer", d)' <=> d = x /\ x \in cmds
          <5>1. d # x /\ d \in cmds => "WAIT_PUSH" \in flags'[d]
            BY <3>a, <3>1
          <5> QED
            BY <3>a, <3>2, <5>1 DEF Turn
        <4> QED
          BY <4>1, <4>2, <4>3 DEF Kind
      <3>4. OneTurn'
        BY <3>a, <3>1, <3>3 DEF OneTurn
      <3>5. \A d \in cmds : d \in Cmd /\ (d # x => flags'[d] = flags[d]) /\ ("WAIT_PUSH" \in flags'[d] <=> d # x)
        BY <2>0, <3>a, <3>1, <3>2
      <3>6. FlagsAgree'
        BY <3>a, <3>0, <3>3, <3>5 DEF FlagsAgree, Kind
      <3>7. TokensAgree'
        BY <2>0, <3>a, <3>0 DEF TokensAgree
      <3>8. HeadHasTurn'
        <4>1. x \in cmds => \A d \in cmds : tkn[x] <= tkn[d]
          BY <2>0, <3>0 DEF HeadHasTurn, Kind
        <4>2. \A k \in Kind, d \in Cmd : Turn(k, d)' => d \in cmds'
          BY <3>a, <3>3
        <4> QED
          BY <2>0, <3>a, <3>1, <3>3, <3>5, <4>1, <4>2 DEF HeadHasTurn, Kind
      <3> QED
        BY <2>0, <3>a, <3>4, <3>6, <3>7, <3>8 DEF TurnInv, Serving
    <2>2. CASE Completes(x, unconfirmed)
      <3> HIDE DEF x
      <3> QED
        BY <2>0, <2>2, TurnPassed
    <2> QED
      BY <1>16, AckStep, <2>1, <2>2
  <1>17. ASSUME NEW c \in Cmd, Confirm(c) PROVE TurnInv'
    <2>0. Serving /\ UNCHANGED <<pc, task, torn, state, tkn, next_tkn>>
      BY <1>17, ConfirmStep
    <2>1. CASE NotAwaited(c)
      BY <2>0, <2>1, TurnFrame DEF NotAwaited
    <2>2. ASSUME NEW d \in Awaiting(ReqId[c]), ConfirmsOnly(c, d) PROVE TurnInv'
      <3>0. OneTurn /\ FlagsAgree /\ TokensAgree /\ HeadHasTurn
        BY <2>0 DEF TurnInv
      <3>a. /\ UNCHANGED <<cmds, sem, hostid, unacked>>
            /\ \A e \in Cmd : flags'[e] = IF e = d THEN flags[e] \ {"WAIT_CFM"} ELSE flags[e]
        BY <2>2 DEF ConfirmsOnly
      <3>1. \A e \in cmds : e \in Cmd /\ ("WAIT_ACK" \in flags'[e] <=> "WAIT_ACK" \in flags[e])
                            /\ ("WAIT_PUSH" \in flags'[e] <=> "WAIT_PUSH" \in flags[e])
        BY <3>a DEF TypeOK
      <3>2. \A k \in Kind, e \in Cmd : Turn(k, e)' <=> Turn(k, e)
        <4>1. \A e \in Cmd : Turn("answer", e)' <=> Turn("answer", e)
          BY <3>a, <3>1 DEF Turn
        <4>2. \A e \in Cmd : (Turn("box", e)' <=> Turn("box", e)) /\ (Turn("task", e)' <=> Turn("task", e))
                             /\ (Turn("sender", e)' <=> Turn("sender", e))
          BY <2>0, <3>a DEF Turn
        <4> QED
          BY <4>1, <4>2 DEF Kind
      <3>3. OneTurn' /\ TokensAgree'
        BY <2>0, <3>a, <3>0, <3>2 DEF OneTurn, TokensAgree
      <3>4. FlagsAgree'
        BY <2>0, <3>a, <3>0, <3>1, <3>2 DEF FlagsAgree, Kind
      <3>5. HeadHasTurn'
        BY <2>0, <3>a, <3>0, <3>1, <3>2 DEF HeadHasTurn
      <3> QED
        BY <2>0, <3>a, <3>3, <3>4, <3>5 DEF TurnInv, Serving
    <2>3. ASSUME NEW d \in Awaiting(ReqId[c]), Turn("answer", d), Completes(d, unconfirmed \ {c})
          PROVE  TurnInv'
      <3> DEFINE w == unconfirmed \ {c}
      <3>1. d \in Cmd /\ Completes(d, w)
        BY <2>3 DEF Awaiting, TypeOK
      <3> HIDE DEF w
      <3> QED
        BY <2>0, <2>3, <3>1, TurnPassed
    <2> QED
      BY <1>17, ConfirmStep, <2>1, <2>2, <2>3
  <1>18. CASE Stop
    BY <1>18 DEF Stop, TurnInv, Serving, OneTurn, FlagsAgree, TokensAgree, HeadHasTurn, Turn, manager, command, senders, thread, mailbox, teardown, history
  <1>19. CASE Deinit
    BY <1>19 DEF Deinit, TurnInv, Serving, ListInv, TornDown, manager, command, senders, thread, mailbox, teardown, history
  <1>20. CASE DrainBegin
    BY <1>20 DEF DrainBegin, TurnInv, Serving, ListInv, TornDown, manager, command, senders, thread, mailbox, teardown, history
  <1>21. ASSUME NEW c \in Cmd, DrainUnlink(c) PROVE TurnInv'
    BY <1>21 DEF DrainUnlink, TurnInv, Serving, ListInv, TornDown, manager, command, senders, thread, mailbox, teardown, history
  <1>22. CASE DrainFree
    BY <1>22, TurnFrame DEF DrainFree, Use, SenderFrees, TypeOK, manager, command, senders, thread, mailbox, teardown, history
  <1>23. CASE DrainEnd
    BY <1>23 DEF DrainEnd, TurnInv, Serving, ListInv, TornDown, manager, command, senders, thread, mailbox, teardown, history
  <1>24. CASE Wipe
    BY <1>24 DEF Wipe, TurnInv, Serving, ListInv, TornDown, manager, command, senders, thread, mailbox, teardown, history
  <1>25. CASE CloseBegin
    BY <1>25, TurnFrame DEF CloseBegin, TypeOK, manager, command, senders, thread, mailbox, teardown, history
  <1>26. CASE CloseEnd
    BY <1>26, TurnFrame DEF CloseEnd, TypeOK, manager, command, senders, thread, mailbox, teardown, history
  <1>27. CASE UNCHANGED vars
    BY <1>27, TurnFrame DEF vars, manager, command, senders, thread, mailbox, teardown, history
  <1> QED
    BY <1>1, <1>2, <1>3, <1>4, <1>5, <1>6, <1>7, <1>8, <1>9, <1>10, <1>11, <1>12,
       <1>13, <1>14, <1>15, <1>16, <1>17, <1>18, <1>19, <1>20, <1>21, <1>22, <1>23, <1>24,
       <1>25, <1>26, <1>27
    DEF Next, Sender, Task, Firmware, TearDown

\* The invariant holds in every reachable state.
LEMMA TurnCorrect == Spec => [](TypeInv /\ ListInv /\ TurnInv)
  <1>1. Init => TypeInv /\ ListInv /\ TurnInv
    BY TypeInit, ListInit, TurnInit
  <1>2. TypeInv /\ ListInv /\ TurnInv /\ [Next]_vars => (TypeInv /\ ListInv /\ TurnInv)'
    BY TypeNext, ListNext, TurnNext
  <1> QED
    BY <1>1, <1>2, PTL DEF Spec

\* The mailbox is free whenever a command is pushed, and holds one whenever the
\* firmware answers: neither assertion of the IPC layer fails.
THEOREM MailboxCorrect == Spec => []MailboxAgrees
  <1>1. TurnInv => MailboxAgrees
    BY DEF TurnInv, Serving, MailboxAgrees
  <1> QED
    BY TurnCorrect, <1>1, PTL

\* What a step delivers is in front of all that is listed.
LEMMA DeliverNext ==
  ASSUME TypeInv, ListInv, TurnInv, [Next]_vars,
         hostid' # hostid, hostid' # None, state = "INITED", torn = "up"
  PROVE  \A x \in cmds' : tkn[hostid'] <= tkn[x]
  <1> DEFINE Goal == \A x \in cmds' : tkn[hostid'] <= tkn[x]
  <1> SUFFICES Goal
    OBVIOUS
  <1>0. TypeOK /\ Serving /\ HeadHasTurn /\ FlagsAgree
    BY DEF TypeInv, Serving, TurnInv
  <1>1. ASSUME NEW c \in Cmd, Send(c) PROVE Goal
    BY <1>1 DEF Send, mailbox
  <1>2. ASSUME NEW c \in Cmd, SendByThread(c) PROVE Goal
    BY <1>2 DEF SendByThread, mailbox
  <1>3. ASSUME NEW c \in Cmd, SendPush(c) PROVE Goal
    <2>1. hostid' = c /\ Turn("sender", c) /\ cmds' = cmds
      BY <1>3 DEF SendPush, Deliver, Turn, manager, mailbox
    <2> QED
      BY <1>0, <2>1 DEF FlagsAgree, HeadHasTurn, Kind
  <1>4. ASSUME NEW c \in Cmd, SendPushed(c) PROVE Goal
    BY <1>4 DEF SendPushed, mailbox
  <1>5. ASSUME NEW c \in Cmd, SendRefused(c) PROVE Goal
    BY <1>5 DEF SendRefused, mailbox
  <1>6. ASSUME NEW c \in Cmd, Woken(c) PROVE Goal
    BY <1>6 DEF Woken, mailbox
  <1>7. ASSUME NEW c \in Cmd, WaitBroken(c) PROVE Goal
    BY <1>7 DEF WaitBroken, mailbox
  <1>8. ASSUME NEW c \in Cmd, KilledPoll(c) PROVE Goal
    BY <1>8 DEF KilledPoll, mailbox
  <1>9. ASSUME NEW c \in Cmd, ExpiredCheck(c) PROVE Goal
    BY <1>9 DEF ExpiredCheck, mailbox
  <1>10. ASSUME NEW c \in Cmd, ExpiredCrash(c) PROVE Goal
    BY <1>10 DEF ExpiredCrash, mailbox
  <1>11. CASE TaskTake
    BY <1>11 DEF TaskTake, mailbox
  <1>12. CASE TaskClear
    BY <1>12 DEF TaskClear, mailbox
  <1>13. CASE TaskPush
    <2>1. hostid' = task.cmd /\ task.cmd \in Cmd /\ Turn("task", task.cmd) /\ cmds' = cmds
      BY <1>13 DEF TaskPush, Deliver, Turn, ListInv, TornDown, manager, mailbox
    <2> QED
      BY <1>0, <2>1 DEF HeadHasTurn, Kind
  <1>14. CASE TaskPushed
    BY <1>14 DEF TaskPushed, mailbox
  <1>15. CASE TaskRefused
    BY <1>15 DEF TaskRefused, mailbox
  <1>16. CASE Ack
    <2>1. Completes(hostid, unconfirmed)
      BY <1>0, <1>16, AckStep DEF AcksOnly
    <2> QED
      BY <2>1 DEF Completes, Passes, IsFirst
  <1>17. ASSUME NEW c \in Cmd, Confirm(c) PROVE Goal
    <2>1. PICK d \in Awaiting(ReqId[c]) : Completes(d, unconfirmed \ {c})
      BY <1>0, <1>17, ConfirmStep DEF NotAwaited, ConfirmsOnly
    <2> QED
      BY <2>1 DEF Completes, Passes, IsFirst
  <1>18. CASE Stop
    BY <1>18 DEF Stop, mailbox
  <1>19. CASE Deinit
    BY <1>19 DEF Deinit, mailbox
  <1>20. CASE DrainBegin
    BY <1>20 DEF DrainBegin, mailbox
  <1>21. ASSUME NEW c \in Cmd, DrainUnlink(c) PROVE Goal
    BY <1>21 DEF DrainUnlink, mailbox
  <1>22. CASE DrainFree
    BY <1>22 DEF DrainFree, mailbox
  <1>23. CASE DrainEnd
    BY <1>23 DEF DrainEnd, mailbox
  <1>24. CASE Wipe
    BY <1>24 DEF Wipe, mailbox
  <1>25. CASE CloseBegin
    BY <1>25 DEF CloseBegin, mailbox
  <1>26. CASE CloseEnd
    BY <1>26 DEF CloseEnd, mailbox
  <1>27. CASE UNCHANGED vars
    BY <1>27 DEF vars, mailbox
  <1> QED
    BY <1>1, <1>2, <1>3, <1>4, <1>5, <1>6, <1>7, <1>8, <1>9, <1>10, <1>11, <1>12,
       <1>13, <1>14, <1>15, <1>16, <1>17, <1>18, <1>19, <1>20, <1>21, <1>22, <1>23, <1>24,
       <1>25, <1>26, <1>27
    DEF Next, Sender, Task, Firmware, TearDown

\* While the platform is up, commands reach the firmware in the order they were queued.
THEOREM DeliveredCorrect == Spec => DeliveredInOrder
  <1>1. TypeInv /\ ListInv /\ TurnInv /\ [Next]_vars
        => [hostid' # hostid /\ hostid' # None /\ state = "INITED" /\ torn = "up"
            => \A c \in cmds' : tkn[hostid'] <= tkn[c]]_vars
    BY DeliverNext
  <1> QED
    BY TurnCorrect, <1>1, PTL DEF Spec, DeliveredInOrder

-----------------------------------------------------------------------------
(* Success is reported for answered commands only.                         *)

\* The manager has crashed and nothing more will be pushed: a confirmation that
\* still comes in may be taken for that of another command.
Dead == /\ state # "INITED" /\ sem = 0
        /\ \A k \in Kind, c \in Cmd : Turn(k, c) => k = "box" /\ c \notin cmds

\* The firmware does not yet have c.
Undelivered(c) ==
  \/ pc[c] = "idle"
  \/ c \in cmds /\ ("WAIT_PUSH" \in flags[c] \/ Turn("sender", c) \/ Turn("task", c))

\* Where the sender of c is done with the firmware.
Through(p) == p \in {"idle", "done", "oops"}

\* Only the command that has the turn is still to be confirmed.
ConfirmDue ==
  \A c \in unconfirmed : \/ Dead
                         \/ /\ c \in cmds /\ "WAIT_CFM" \in flags[c]
                            /\ Turn("box", c) \/ Turn("answer", c)

\* What the flags of a listed command say of its answers.
AnswersAgree ==
  /\ \A c \in cmds : c \in ReqCfm /\ "WAIT_CFM" \notin flags[c] => c \in confirmed \/ Dead
  /\ \A c \in cmds : "WAIT_ACK" \notin flags[c] => c \in acked
  /\ \A c \in Cmd : Undelivered(c) => c \notin unconfirmed \cup confirmed

\* A command leaves the list only when it is done.
ListedOrDone == \A c \in Cmd : Through(pc[c]) \/ c \in cmds \/ "DONE" \in flags[c]

\* A result that is to be reported as success was earned.
ResultEarned ==
  \A c \in Cmd \ NonBlocking : Through(pc[c]) \/ result[c] # "0" \/ Answered(c) \/ c \in refused

AnswerInv ==
  /\ Serving => ConfirmDue /\ AnswersAgree /\ ListedOrDone
  /\ ResultEarned /\ AnsweredOrRefused

\* Initially nothing was sent.
LEMMA AnswerInit == Init => AnswerInv
  BY DEF Init, AnswerInv, ConfirmDue, AnswersAgree, ListedOrDone, Through, ResultEarned, AnsweredOrRefused

\* A step that changes neither the list and its flags nor whose turn it is.
LEMMA AnswerFrame ==
  ASSUME TypeOK, AnswerInv,
         UNCHANGED <<cmds, flags, sem, unconfirmed, acked, confirmed, refused>>,
         Serving' => Serving, state' = state \/ state' # "INITED",
         \A k \in Kind, c \in Cmd : Turn(k, c)' <=> Turn(k, c),
         \A c \in Cmd : /\ pc'[c] = "idle" => pc[c] = "idle"
                        /\ ~Through(pc'[c]) => ~Through(pc[c]) /\ result'[c] = result[c],
         AnsweredOrRefused'
  PROVE  AnswerInv'
  <1>1. Dead => Dead'
    BY DEF Dead
  <1>2. \A c \in Cmd : Undelivered(c)' => Undelivered(c)
    BY DEF Undelivered, Kind
  <1>3. cmds \subseteq Cmd /\ unconfirmed \subseteq Cmd
    BY DEF TypeOK
  <1>4. ConfirmDue => ConfirmDue'
    BY <1>1, <1>3 DEF ConfirmDue, Kind
  <1>5. AnswersAgree => AnswersAgree'
    BY <1>1, <1>2, <1>3 DEF AnswersAgree
  <1>6. ListedOrDone => ListedOrDone'
    BY DEF ListedOrDone
  <1>7. ResultEarned'
    BY DEF AnswerInv, ResultEarned, Answered
  <1> QED
    BY <1>4, <1>5, <1>6, <1>7 DEF AnswerInv

\* While a command is on its way, nothing is to be confirmed.
LEMMA NoneDue ==
  ASSUME TypeOK, TurnInv, AnswerInv, Serving, NEW k \in {"sender", "task"}, NEW c \in Cmd, Turn(k, c)
  PROVE  ~Dead /\ unconfirmed = {}
  <1>1. ~Dead
    BY DEF Dead, Kind
  <1>2. \A j \in Kind, d \in Cmd : Turn(j, d) => j = k
    BY TurnAlone DEF Kind
  <1> QED
    BY <1>1, <1>2 DEF AnswerInv, ConfirmDue, Kind, TypeOK

\* The turn passes from x, which has its answers.
LEMMA AnswerPassed ==
  ASSUME TypeOK, UnsentNowhere, TurnInv, AnswerInv, Serving, NEW k0 \in {"box", "answer"}, NEW x \in Cmd, Turn(k0, x),
         NEW w \in SUBSET {}, Completes(x, w), UNCHANGED <<pc, ret, task, torn, state, tkn, next_tkn>>,
         acked \subseteq acked', confirmed \subseteq confirmed', confirmed' \subseteq confirmed \cup {x},
         Answered(x)'
  PROVE  AnswerInv'
  <1>0. ConfirmDue /\ AnswersAgree /\ ListedOrDone /\ cmds \subseteq Cmd
    BY DEF AnswerInv, TypeOK
  <1>1. PICK F \in SUBSET (cmds \ {x}), p \in Cmd \cup {None} :
          Passes(x, flags, 0, w, F, p) /\ \A k \in Kind, d \in Cmd : Turn(k, d)' <=> k = "box" /\ d = p
    BY TurnPassed
  <1>2. /\ cmds' = cmds \ ({x} \cup F) /\ (p # None => p \in cmds') /\ x \in cmds
        /\ unconfirmed' = {p} \cap ReqCfm
        /\ \A d \in Cmd \ ({x} \cup F) : /\ flags'[d] = IF d = p THEN flags[d] \ {"WAIT_PUSH"} ELSE flags[d]
                                         /\ result'[d] = result[d]
        /\ \A d \in {x} \cup F : "DONE" \in flags'[d]
        /\ refused' = refused \cup F
    BY <1>1 DEF Passes, Completes, IsFirst
  <1>3. ~Dead
    BY <1>2 DEF Dead, Kind
  <1>4. /\ \A j \in Kind, d \in Cmd : Turn(j, d) => j = k0 /\ d = x
        /\ \A d \in cmds \ {x} : d \in Cmd /\ "WAIT_PUSH" \in flags[d] /\ "WAIT_ACK" \in flags[d]
    BY TurnAlone DEF Kind
  <1>5. \A d \in cmds \ {x} : d \notin confirmed' /\ (d \in ReqCfm => "WAIT_CFM" \in flags[d])
    <2>1. \A d \in cmds \ {x} : Undelivered(d)
      BY <1>4 DEF Undelivered
    <2> QED
      BY <1>0, <1>3, <1>4, <2>1 DEF AnswersAgree
  <1>6. \A d \in cmds' : /\ d \in cmds \ {x} /\ d \in Cmd /\ "WAIT_ACK" \in flags'[d]
                         /\ d \in ReqCfm => "WAIT_CFM" \in flags'[d]
                         /\ "WAIT_PUSH" \in flags'[d] <=> d # p
    BY <1>0, <1>2, <1>4, <1>5
  <1>7. ConfirmDue'
    BY <1>1, <1>2, <1>6, CommandAssumption DEF ConfirmDue, Kind
  <1>8. \A d \in Cmd : Undelivered(d)' => d \notin unconfirmed' \cup confirmed'
    <2> SUFFICES ASSUME NEW d \in Cmd, Undelivered(d)' PROVE d \notin unconfirmed' \cup confirmed'
      OBVIOUS
    <2>1. CASE pc[d] = "idle"
      <3>1. d \notin cmds /\ d \notin confirmed
        BY <1>0, <2>1 DEF AnswersAgree, Undelivered, UnsentNowhere
      <3>2. d # p
        BY <1>2, <3>1, CommandAssumption
      <3> QED
        BY <1>2, <3>1, <3>2
    <2>2. CASE d \in cmds' /\ "WAIT_PUSH" \in flags'[d]
      BY <1>2, <1>5, <1>6, <2>2
    <2>3. ~Turn("sender", d)' /\ ~Turn("task", d)'
      BY <1>1 DEF Kind
    <2> QED
      BY <2>1, <2>2, <2>3 DEF Undelivered
  <1>9. AnswersAgree'
    BY <1>6, <1>8 DEF AnswersAgree
  <1>10. ListedOrDone'
    BY <1>0, <1>2 DEF ListedOrDone
  <1>11. ResultEarned' /\ AnsweredOrRefused'
    BY <1>2 DEF AnswerInv, ResultEarned, AnsweredOrRefused, Answered
  <1> QED
    BY <1>7, <1>9, <1>10, <1>11 DEF AnswerInv

\* Every step keeps it.
LEMMA AnswerNext == TypeInv /\ ListInv /\ TurnInv /\ AnswerInv /\ [Next]_vars => AnswerInv'
  <1> SUFFICES ASSUME TypeInv, TypeOK, ListInv, TurnInv, AnswerInv, [Next]_vars PROVE AnswerInv'
    BY DEF TypeInv
  <1>a. cmds \subseteq Cmd /\ unconfirmed \subseteq Cmd
    BY DEF TypeOK
  <1>b. (Serving <=> state # "DEINIT") /\ state \in {"INITED", "CRASHED", "DEINIT"}
    BY DEF TurnInv, TypeOK
  <1>1. ASSUME NEW c \in Cmd, Send(c) PROVE AnswerInv'
    <2>1. ASSUME NEW r, r # "0", Refuse(c, r) PROVE AnswerInv'
      <3>1. /\ UNCHANGED <<cmds, flags, task, sem, hostid, unconfirmed, torn, acked, confirmed, refused, state>>
            /\ pc[c] = "idle" /\ pc' = [pc EXCEPT ![c] = "done"] /\ ret' = [ret EXCEPT ![c] = r]
            /\ result' = [result EXCEPT ![c] = r]
        BY <1>1, <2>1 DEF Send, Refuse, Returns, manager, command, senders, thread, mailbox, teardown, history
      <3>2. \A k \in Kind, d \in Cmd : Turn(k, d)' <=> Turn(k, d)
        BY <3>1 DEF Turn, TypeOK
      <3>3. /\ Serving' => Serving
            /\ \A d \in Cmd : /\ pc'[d] = "idle" => pc[d] = "idle"
                              /\ ~Through(pc'[d]) => ~Through(pc[d]) /\ result'[d] = result[d]
        BY <3>1 DEF Serving, Through, TypeOK
      <3>4. AnsweredOrRefused'
        BY <2>1, <3>1 DEF AnswerInv, AnsweredOrRefused, Answered, TypeOK
      <3> QED
        BY <3>1, <3>2, <3>3, <3>4, AnswerFrame
    <2>2. CASE Enqueue(c) /\ state # "CRASHED"
      <3>1. /\ pc[c] = "idle" /\ cmds' = cmds \cup {c} /\ c \notin cmds /\ task.cmd # c
            /\ flags' = [flags EXCEPT ![c] = NewFlags(c)]
            /\ result' = [result EXCEPT ![c] = "EINTR"]
            /\ UNCHANGED <<state, task, sem, hostid, unconfirmed, torn, acked, confirmed, refused>>
        BY <1>1, <2>2 DEF Send, Enqueue, ListInv, UnsentNowhere, thread, mailbox, teardown, history
      <3>2. /\ \A d \in Cmd : d # c => flags'[d] = flags[d] /\ pc'[d] = pc[d] /\ result'[d] = result[d]
            /\ flags'[c] = NewFlags(c) /\ pc'[c] # "idle" /\ result'[c] # "0"
        BY <2>2, <3>1 DEF Enqueue, Returns, TypeOK
      <3>3. ResultEarned' /\ AnsweredOrRefused'
        <4>1. \A d \in Cmd \ NonBlocking : ret'[d] = "0" => ret[d] = "0"
          BY <2>2 DEF Enqueue, Returns, TypeOK
        <4> QED
          BY <3>1, <3>2, <4>1 DEF AnswerInv, ResultEarned, AnsweredOrRefused, Through, Answered
      <3>4. CASE Serving
        <4>1. ~Dead
          BY <1>b, <2>2, <3>4 DEF Dead
        <4>2. ConfirmDue /\ AnswersAgree /\ ListedOrDone
          BY <3>4 DEF AnswerInv
        <4>3. c \notin unconfirmed \cup confirmed
          BY <3>1, <4>2 DEF AnswersAgree, Undelivered
        <4>4. \A k \in Kind, d \in Cmd : d # c => (Turn(k, d)' <=> Turn(k, d))
          BY <3>1, <3>2 DEF Turn
        <4>5. ConfirmDue'
          BY <1>a, <3>1, <3>2, <4>1, <4>2, <4>3, <4>4 DEF ConfirmDue, Kind
        <4>6. \A d \in cmds' : d \in ReqCfm /\ "WAIT_CFM" \notin flags'[d] => d \in confirmed'
          BY <1>a, <3>1, <3>2, <4>1, <4>2 DEF AnswersAgree, NewFlags
        <4>7. \A d \in cmds' : "WAIT_ACK" \notin flags'[d] => d \in acked'
          BY <1>a, <3>1, <3>2, <4>2 DEF AnswersAgree, NewFlags
        <4>8. \A d \in Cmd : Undelivered(d)' => d \notin unconfirmed' \cup confirmed'
          <5>1. \A d \in Cmd : d # c => (Undelivered(d)' => Undelivered(d))
            BY <3>1, <3>2, <4>4 DEF Undelivered, Kind
          <5> QED
            BY <3>1, <4>2, <4>3, <5>1 DEF AnswersAgree
        <4>9. ListedOrDone'
          BY <3>1, <3>2, <4>2 DEF ListedOrDone
        <4> QED
          BY <3>3, <4>5, <4>6, <4>7, <4>8, <4>9 DEF AnswerInv, AnswersAgree
      <3>5. CASE ~Serving
        BY <3>1, <3>3, <3>5 DEF AnswerInv, Serving
      <3> QED
        BY <3>4, <3>5
    <2> QED
      BY <1>1, <2>1, <2>2 DEF Send
  <1>2. ASSUME NEW c \in Cmd, SendByThread(c) PROVE AnswerInv'
    <2>1. /\ c \in NonBlocking /\ pc[c] = "pushing" /\ pc' = [pc EXCEPT ![c] = "done"]
          /\ ret' = [ret EXCEPT ![c] = "0"]
          /\ flags' = [flags EXCEPT ![c] = @ \cup {"WAIT_PUSH"}]
          /\ UNCHANGED <<cmds, state, task, hostid, unconfirmed, torn, result, acked, confirmed, refused>>
      BY <1>2, CommandAssumption DEF SendByThread, ByThread, Proceed, Returns, manager, thread, mailbox, teardown, history
    <2>2. ResultEarned' /\ AnsweredOrRefused'
      BY <2>1 DEF AnswerInv, ResultEarned, AnsweredOrRefused, Through, Answered, TypeOK
    <2>3. CASE Serving
      <3>1. Turn("sender", c) /\ c \in cmds /\ ConfirmDue /\ AnswersAgree /\ ListedOrDone
        BY <2>1, <2>3 DEF TurnInv, AnswerInv, Turn, FlagsAgree
      <3>2. ~Dead /\ unconfirmed = {}
        BY <2>3, <3>1, NoneDue
      <3>3. /\ \A d \in Cmd : d # c => pc'[d] = pc[d] /\ flags'[d] = flags[d]
            /\ flags'[c] = flags[c] \cup {"WAIT_PUSH"} /\ pc'[c] = "done"
        BY <2>1 DEF TypeOK
      <3>4. \A d \in Cmd : Undelivered(d)' => Undelivered(d)
        BY <2>1, <3>1, <3>3 DEF Undelivered, Turn
      <3>5. ConfirmDue' /\ ListedOrDone'
        BY <2>1, <3>1, <3>2, <3>3 DEF ConfirmDue, ListedOrDone, Through
      <3>6. AnswersAgree'
        BY <1>a, <2>1, <3>1, <3>2, <3>3, <3>4 DEF AnswersAgree
      <3> QED
        BY <2>2, <3>5, <3>6 DEF AnswerInv
    <2>4. CASE ~Serving
      BY <2>1, <2>2, <2>4 DEF AnswerInv, Serving
    <2> QED
      BY <2>3, <2>4
  <1>3. ASSUME NEW c \in Cmd, SendPush(c) PROVE AnswerInv'
    <2>1. /\ pc[c] = "pushing" /\ \E r \in {"pushed", "refused"} : pc' = [pc EXCEPT ![c] = r]
          /\ UNCHANGED <<cmds, flags, sem, state, task, torn, ret, result, acked, confirmed, refused>>
      BY <1>3 DEF SendPush, manager, command, thread, teardown, history
    <2>2. ResultEarned' /\ AnsweredOrRefused'
      BY <2>1 DEF AnswerInv, ResultEarned, AnsweredOrRefused, Through, Answered, TypeOK
    <2>3. CASE ~Serving
      BY <2>1, <2>2, <2>3 DEF AnswerInv, Serving
    <2>4. CASE Serving
      <3>1. Turn("sender", c) /\ c \in cmds /\ ConfirmDue /\ AnswersAgree /\ ListedOrDone
        BY <2>1, <2>4 DEF TurnInv, AnswerInv, Turn, FlagsAgree
      <3>2. ~Dead /\ unconfirmed = {}
        BY <2>4, <3>1, NoneDue
      <3>3. "WAIT_PUSH" \notin flags[c] /\ c \notin confirmed
        BY <2>4, <3>1 DEF TurnInv, FlagsAgree, AnswersAgree, Undelivered
      <3>4. \A d \in Cmd : Undelivered(d)' => Undelivered(d)
        BY <2>1 DEF Undelivered, Turn, TypeOK
      <3>5. \A d \in cmds : (d \in ReqCfm /\ "WAIT_CFM" \notin flags[d] => d \in confirmed)
                            /\ ("WAIT_ACK" \notin flags[d] => d \in acked)
        BY <3>1, <3>2 DEF AnswersAgree
      <3>6. ListedOrDone'
        BY <2>1, <3>1 DEF ListedOrDone, Through, TypeOK
      <3>7. CASE UNCHANGED <<hostid, unconfirmed>>
        <4>1. ConfirmDue'
          BY <3>2, <3>7 DEF ConfirmDue
        <4>2. AnswersAgree'
          BY <2>1, <3>1, <3>4, <3>5, <3>7 DEF AnswersAgree
        <4> QED
          BY <2>2, <3>6, <4>1, <4>2 DEF AnswerInv
      <3>8. CASE /\ hostid' = c /\ unconfirmed' = unconfirmed \cup ({c} \cap ReqCfm)
                 /\ pc' = [pc EXCEPT ![c] = "pushed"]
        <4>1. ConfirmDue'
          BY <2>1, <3>1, <3>2, <3>3, <3>5, <3>8 DEF ConfirmDue, Turn
        <4>2. ~Undelivered(c)'
          <5>1. ~Turn("task", c)
            BY <2>4, <3>1, TurnAlone DEF Kind
          <5> QED
            BY <2>1, <3>3, <3>8, <5>1 DEF Undelivered, Turn, TypeOK
        <4>3. AnswersAgree'
          BY <2>1, <3>1, <3>2, <3>4, <3>5, <3>8, <4>2 DEF AnswersAgree
        <4> QED
          BY <2>2, <3>6, <4>1, <4>3 DEF AnswerInv
      <3> QED
        BY <1>3, <3>7, <3>8 DEF SendPush, Deliver, mailbox
    <2> QED
      BY <2>3, <2>4
  <1>4. ASSUME NEW c \in Cmd, SendPushed(c) PROVE AnswerInv'
    <2>1. /\ UNCHANGED <<cmds, flags, task, sem, hostid, unconfirmed, torn, acked, confirmed, refused>>
          /\ pc[c] = "pushed" /\ (\E r \in {"done", "waiting"} : pc' = [pc EXCEPT ![c] = r]) /\ UNCHANGED <<result, state>>
      BY <1>4 DEF SendPushed, Proceed, Returns, Use, manager, command, senders, thread, mailbox, teardown, history
    <2>2. \A k \in Kind, d \in Cmd : Turn(k, d)' <=> Turn(k, d)
      BY <2>1 DEF Turn, TypeOK
    <2>3. /\ Serving' => Serving
          /\ \A d \in Cmd : /\ pc'[d] = "idle" => pc[d] = "idle"
                            /\ ~Through(pc'[d]) => ~Through(pc[d]) /\ result'[d] = result[d]
      BY <2>1 DEF Serving, Through, TypeOK
    <2>4. AnsweredOrRefused'
      BY <1>4 DEF SendPushed, Proceed, Returns, AnswerInv, AnsweredOrRefused, Answered, TypeOK
    <2> QED
      BY <2>1, <2>2, <2>3, <2>4, AnswerFrame
  <1>5. ASSUME NEW c \in Cmd, SendRefused(c) PROVE AnswerInv'
    <2>1. /\ pc[c] = "refused" /\ (\E r \in {"oops", "done"} : pc' = [pc EXCEPT ![c] = r])
          /\ \A d \in Cmd : d # c => result'[d] = result[d] /\ ret'[d] = ret[d]
          /\ ret'[c] = ret[c] \/ ret'[c] = "EBUSY"
          /\ UNCHANGED <<state, sem, hostid, task, unconfirmed, torn, acked, confirmed, refused>>
      <3>1. CASE torn = "gone"
        BY <1>5, <3>1 DEF SendRefused, TypeOK, thread, mailbox, teardown
      <3>2. CASE torn # "gone"
        <4>1. /\ \A d \in Cmd : d # c => result'[d] = result[d]
              /\ pc' = [pc EXCEPT ![c] = "done"] /\ ret' = [ret EXCEPT ![c] = "EBUSY"]
          BY <1>5, <3>2 DEF SendRefused, CompleteAll, Returns
        <4> QED
          BY <1>5, <4>1 DEF SendRefused, TypeOK, thread, mailbox, teardown
      <3> QED
        BY <3>1, <3>2
    <2>2. ResultEarned' /\ AnsweredOrRefused'
      BY <2>1 DEF AnswerInv, ResultEarned, AnsweredOrRefused, Through, Answered, TypeOK
    <2>3. CASE ~Serving
      BY <2>1, <2>2, <2>3 DEF AnswerInv, Serving
    <2>4. CASE Serving
      <3>1. Turn("sender", c) /\ ConfirmDue /\ AnswersAgree /\ ListedOrDone
        BY <2>1, <2>4 DEF TurnInv, AnswerInv, Turn
      <3>2. ~Dead /\ unconfirmed = {}
        BY <2>4, <3>1, NoneDue
      <3>3. /\ cmds' = cmds \ {c} /\ \A d \in Cmd : d # c => flags'[d] = flags[d]
            /\ pc' = [pc EXCEPT ![c] = "done"]
        BY <1>5, <2>4 DEF Serving, SendRefused, CompleteAll, Cleared, Returns
      <3>4. \A d \in Cmd : Undelivered(d)' => Undelivered(d)
        BY <2>1, <3>3 DEF Undelivered, Turn, TypeOK
      <3>5. ConfirmDue' /\ ListedOrDone'
        BY <2>1, <3>1, <3>2, <3>3 DEF ConfirmDue, ListedOrDone, Through, TypeOK
      <3>6. AnswersAgree'
        BY <1>a, <2>1, <3>1, <3>2, <3>3, <3>4 DEF AnswersAgree
      <3> QED
        BY <2>2, <3>5, <3>6 DEF AnswerInv
    <2> QED
      BY <2>3, <2>4
  <1>6. ASSUME NEW c \in Cmd, Woken(c) PROVE AnswerInv'
    <2>1. /\ UNCHANGED <<cmds, flags, task, sem, hostid, unconfirmed, torn, acked, confirmed, refused>>
          /\ pc[c] = "waiting" /\ pc' = [pc EXCEPT ![c] = "done"] /\ UNCHANGED <<result, state>>
      BY <1>6 DEF Woken, Finish, SenderFrees, Returns, Reported, manager, command, senders, thread, mailbox, teardown, history
    <2>2. \A k \in Kind, d \in Cmd : Turn(k, d)' <=> Turn(k, d)
      BY <2>1 DEF Turn, TypeOK
    <2>3. /\ Serving' => Serving
          /\ \A d \in Cmd : /\ pc'[d] = "idle" => pc[d] = "idle"
                            /\ ~Through(pc'[d]) => ~Through(pc[d]) /\ result'[d] = result[d]
      BY <2>1 DEF Serving, Through, TypeOK
    <2>4. AnsweredOrRefused'
      <3>1. UNCHANGED ret \/ (ret' = [ret EXCEPT ![c] = Reported(c)] /\ (Reported(c) = "0" => result[c] = "0"))
        BY <1>6 DEF Woken, Finish, SenderFrees, Returns, Reported, Reported
      <3> QED
        BY <2>1, <3>1 DEF AnswerInv, AnsweredOrRefused, ResultEarned, Through, Answered, TypeOK
    <2> QED
      BY <2>1, <2>2, <2>3, <2>4, AnswerFrame
  <1>7. ASSUME NEW c \in Cmd, WaitBroken(c) PROVE AnswerInv'
    <2>1. /\ UNCHANGED <<cmds, flags, task, sem, hostid, unconfirmed, torn, acked, confirmed, refused>>
          /\ pc[c] = "waiting" /\ (\E r \in {"killed", "expired"} : pc' = [pc EXCEPT ![c] = r]) /\ UNCHANGED <<ret, result, state>>
      BY <1>7 DEF WaitBroken, manager, command, senders, thread, mailbox, teardown, history
    <2>2. \A k \in Kind, d \in Cmd : Turn(k, d)' <=> Turn(k, d)
      BY <2>1 DEF Turn, TypeOK
    <2>3. /\ Serving' => Serving
          /\ \A d \in Cmd : /\ pc'[d] = "idle" => pc[d] = "idle"
                            /\ ~Through(pc'[d]) => ~Through(pc[d]) /\ result'[d] = result[d]
      BY <2>1 DEF Serving, Through, TypeOK
    <2>4. AnsweredOrRefused'
      BY <2>1 DEF AnswerInv, AnsweredOrRefused, Answered, TypeOK
    <2> QED
      BY <2>1, <2>2, <2>3, <2>4, AnswerFrame
  <1>8. ASSUME NEW c \in Cmd, KilledPoll(c) PROVE AnswerInv'
    <2>1. /\ UNCHANGED <<cmds, flags, task, sem, hostid, unconfirmed, torn, acked, confirmed, refused>>
          /\ pc[c] = "killed" /\ (\E r \in {"done", "expired"} : pc' = [pc EXCEPT ![c] = r]) /\ UNCHANGED <<result, state>>
      BY <1>8 DEF KilledPoll, Finish, SenderFrees, Returns, Reported, manager, command, senders, thread, mailbox, teardown, history
    <2>2. \A k \in Kind, d \in Cmd : Turn(k, d)' <=> Turn(k, d)
      BY <2>1 DEF Turn, TypeOK
    <2>3. /\ Serving' => Serving
          /\ \A d \in Cmd : /\ pc'[d] = "idle" => pc[d] = "idle"
                            /\ ~Through(pc'[d]) => ~Through(pc[d]) /\ result'[d] = result[d]
      BY <2>1 DEF Serving, Through, TypeOK
    <2>4. AnsweredOrRefused'
      <3>1. UNCHANGED ret \/ (ret' = [ret EXCEPT ![c] = Reported(c)] /\ (Reported(c) = "0" => result[c] = "0"))
        BY <1>8 DEF KilledPoll, Finish, SenderFrees, Returns, Reported, Reported
      <3> QED
        BY <2>1, <3>1 DEF AnswerInv, AnsweredOrRefused, ResultEarned, Through, Answered, TypeOK
    <2> QED
      BY <2>1, <2>2, <2>3, <2>4, AnswerFrame
  <1>9. ASSUME NEW c \in Cmd, ExpiredCheck(c) PROVE AnswerInv'
    <2>1. /\ UNCHANGED <<cmds, flags, task, sem, hostid, unconfirmed, torn, acked, confirmed, refused>>
          /\ pc[c] = "expired" /\ (\E r \in {"done", "crashing"} : pc' = [pc EXCEPT ![c] = r]) /\ UNCHANGED <<result, state>>
      BY <1>9 DEF ExpiredCheck, Finish, SenderFrees, Returns, Reported, manager, command, senders, thread, mailbox, teardown, history
    <2>2. \A k \in Kind, d \in Cmd : Turn(k, d)' <=> Turn(k, d)
      BY <2>1 DEF Turn, TypeOK
    <2>3. /\ Serving' => Serving
          /\ \A d \in Cmd : /\ pc'[d] = "idle" => pc[d] = "idle"
                            /\ ~Through(pc'[d]) => ~Through(pc[d]) /\ result'[d] = result[d]
      BY <2>1 DEF Serving, Through, TypeOK
    <2>4. AnsweredOrRefused'
      <3>1. UNCHANGED ret \/ (ret' = [ret EXCEPT ![c] = Reported(c)] /\ (Reported(c) = "0" => result[c] = "0"))
        BY <1>9 DEF ExpiredCheck, Finish, SenderFrees, Returns, Reported, Reported
      <3> QED
        BY <2>1, <3>1 DEF AnswerInv, AnsweredOrRefused, ResultEarned, Through, Answered, TypeOK
    <2> QED
      BY <2>1, <2>2, <2>3, <2>4, AnswerFrame
  <1>10. ASSUME NEW c \in Cmd, ExpiredCrash(c) PROVE AnswerInv'
    <2>1. CASE /\ state' = (IF state = "DEINIT" THEN state ELSE "CRASHED")
               /\ Finish(c)
               /\ UNCHANGED <<cmds, queue_sz, flags, result, completed>>
      <3>1. /\ UNCHANGED <<cmds, flags, task, sem, hostid, unconfirmed, torn, acked, confirmed, refused, result>>
            /\ pc[c] = "crashing" /\ pc' = [pc EXCEPT ![c] = "done"] /\ state' # "INITED"
            /\ ret' = [ret EXCEPT ![c] = Reported(c)] /\ (Reported(c) = "0" => result[c] = "0")
        BY <1>10, <2>1 DEF ExpiredCrash, Finish, Returns, Reported, thread, mailbox, teardown, history
      <3>2. \A k \in Kind, d \in Cmd : Turn(k, d)' <=> Turn(k, d)
        BY <3>1 DEF Turn, TypeOK
      <3>3. /\ Serving' => Serving
            /\ \A d \in Cmd : /\ pc'[d] = "idle" => pc[d] = "idle"
                              /\ ~Through(pc'[d]) => ~Through(pc[d]) /\ result'[d] = result[d]
        BY <3>1 DEF Serving, Through, TypeOK
      <3>4. AnsweredOrRefused'
        BY <3>1 DEF AnswerInv, AnsweredOrRefused, ResultEarned, Through, Answered, TypeOK
      <3> QED
        BY <3>1, <3>2, <3>3, <3>4, AnswerFrame
    <2>2. CASE /\ state # "DEINIT" /\ "DONE" \notin flags[c] /\ state' = "CRASHED"
               /\ CompleteAll({c}, flags, [result EXCEPT ![c] = "ETIMEDOUT"], {c})
               /\ Returns(c, IF Over(flags[c]) THEN "0" ELSE "ETIMEDOUT")
      <3>1. /\ cmds' = cmds \ {c} /\ \A d \in Cmd : d # c => flags'[d] = flags[d]
            /\ \A d \in Cmd : d # c => result'[d] = result[d]
            /\ UNCHANGED <<task, sem, hostid, unconfirmed, torn, acked, confirmed, refused>>
            /\ pc[c] = "crashing" /\ pc' = [pc EXCEPT ![c] = "done"]
            /\ ret' = [ret EXCEPT ![c] = IF Over(flags[c]) THEN "0" ELSE "ETIMEDOUT"]
        BY <1>10, <2>2 DEF ExpiredCrash, CompleteAll, Returns, TypeOK, thread, mailbox, teardown, history
      <3>2. Serving /\ ConfirmDue /\ AnswersAgree /\ ListedOrDone
        BY <1>b, <2>2 DEF AnswerInv
      <3>3. c \in cmds /\ ~Over(flags[c])
        BY <2>2, <3>1, <3>2 DEF ListedOrDone, Through, ListInv, ListedWaits, Over
      <3>4. ResultEarned' /\ AnsweredOrRefused'
        BY <3>1, <3>3 DEF AnswerInv, ResultEarned, AnsweredOrRefused, Through, Answered, TypeOK
      <3>5. \A k \in Kind, d \in Cmd : Turn(k, d)' <=> Turn(k, d) /\ ~(k = "answer" /\ d = c)
        <4>1. \A d \in Cmd : Turn("sender", d)' <=> Turn("sender", d)
          BY <3>1 DEF Turn, TypeOK
        <4>2. \A d \in Cmd : (Turn("task", d)' <=> Turn("task", d)) /\ (Turn("box", d)' <=> Turn("box", d))
          BY <3>1 DEF Turn
        <4>3. \A d \in Cmd : Turn("answer", d)' <=> Turn("answer", d) /\ d # c
          BY <3>1 DEF Turn
        <4> QED
          BY <4>1, <4>2, <4>3 DEF Kind
      <3>6. Dead => Dead'
        BY <2>2, <3>1, <3>5 DEF Dead
      <3>7. c \in unconfirmed => Dead'
        <4>1. SUFFICES ASSUME NEW k \in {"box", "answer"}, Turn(k, c) PROVE Dead'
          BY <3>2, <3>6 DEF ConfirmDue
        <4>2. sem = 0 /\ \A j \in Kind, d \in Cmd : Turn(j, d) => j = k /\ d = c
          BY <3>2, <4>1, TurnAlone DEF Kind
        <4> QED
          BY <2>2, <3>1, <3>5, <4>2 DEF Dead
      <3>8. ConfirmDue'
        BY <1>a, <3>1, <3>2, <3>5, <3>6, <3>7 DEF ConfirmDue, Kind
      <3>9. \A d \in Cmd : Undelivered(d)' => Undelivered(d)
        BY <3>1, <3>5 DEF Undelivered, Kind, TypeOK
      <3>10. AnswersAgree'
        BY <1>a, <3>1, <3>2, <3>6, <3>9 DEF AnswersAgree
      <3>11. ListedOrDone'
        BY <3>1, <3>2 DEF ListedOrDone, Through, TypeOK
      <3> QED
        BY <3>4, <3>8, <3>10, <3>11 DEF AnswerInv
    <2> QED
      BY <1>10, <2>1, <2>2 DEF ExpiredCrash
  <1>11. CASE TaskTake
    <2>1. /\ sem > 0 /\ torn = "up" /\ task.at = "down"
          /\ UNCHANGED <<cmds, flags, state, pc, ret, result, hostid, unconfirmed, torn, acked, confirmed, refused>>
      BY <1>11 DEF TaskTake, Running, manager, command, senders, mailbox, teardown, history
    <2>2. ResultEarned' /\ AnsweredOrRefused' /\ Serving
      BY <2>1 DEF AnswerInv, ResultEarned, AnsweredOrRefused, Answered, Serving
    <2>3. ConfirmDue /\ AnswersAgree /\ ListedOrDone /\ ~Dead /\ OneTurn
      BY <2>1, <2>2 DEF AnswerInv, Dead, TurnInv
    <2>4. unconfirmed = {}
      BY <1>a, <2>1, <2>3 DEF OneTurn, ConfirmDue, Kind
    <2>5. \A d \in Cmd : Undelivered(d)' => Undelivered(d)
      <3>1. \A d \in Cmd : Turn("task", d)' => d \in WaitingPush(cmds, flags)
        BY <1>11, <2>1 DEF TaskTake, Turn, IsFirst
      <3>2. \A d \in Cmd : Turn("sender", d)' <=> Turn("sender", d)
        BY <2>1 DEF Turn
      <3> QED
        BY <2>1, <3>1, <3>2 DEF Undelivered, WaitingPush
    <2>6. AnswersAgree'
      BY <2>1, <2>3, <2>5 DEF AnswersAgree
    <2> QED
      BY <2>1, <2>2, <2>3, <2>4, <2>6 DEF AnswerInv, ConfirmDue, ListedOrDone
  <1>12. CASE TaskClear
    <2>1. /\ task.at = "found" /\ task.cmd \in Cmd /\ Serving /\ task' = [task EXCEPT !.at = "cleared"]
          /\ flags' = Cleared({task.cmd}, {"WAIT_PUSH"})
          /\ UNCHANGED <<cmds, state, pc, ret, result, sem, hostid, unconfirmed, torn, acked, confirmed, refused>>
      BY <1>12 DEF TaskClear, ListInv, TornDown, Serving, manager, senders, mailbox, teardown
    <2>2. ResultEarned' /\ AnsweredOrRefused'
      BY <2>1 DEF AnswerInv, ResultEarned, AnsweredOrRefused, Answered
    <2>3. ConfirmDue /\ AnswersAgree /\ ListedOrDone /\ Turn("task", task.cmd)
      BY <2>1 DEF AnswerInv, Turn
    <2>4. ~Dead /\ unconfirmed = {}
      BY <2>1, <2>3, NoneDue
    <2>5. /\ \A d \in Cmd : flags'[d] = IF d = task.cmd THEN flags[d] \ {"WAIT_PUSH"} ELSE flags[d]
          /\ task'.cmd = task.cmd
      BY <2>1 DEF Cleared, TypeOK
    <2>6. \A d \in Cmd : Undelivered(d)' => Undelivered(d)
      BY <2>1, <2>5 DEF Undelivered, Turn
    <2>7. AnswersAgree'
      BY <1>a, <2>1, <2>3, <2>4, <2>5, <2>6 DEF AnswersAgree
    <2>8. ListedOrDone'
      BY <2>1, <2>3, <2>5 DEF ListedOrDone
    <2> QED
      BY <2>1, <2>2, <2>4, <2>7, <2>8 DEF AnswerInv, ConfirmDue
  <1>13. CASE TaskPush
    <2>x. PICK x \in Cmd : x = task.cmd
      BY <1>13 DEF TaskPush, ListInv, TornDown
    <2>1. /\ task.at = "cleared" /\ x = task.cmd /\ Serving
          /\ \E r \in {"pushed", "refused"} : task' = [task EXCEPT !.at = r]
          /\ UNCHANGED <<cmds, state, flags, pc, ret, result, sem, torn, acked, confirmed, refused>>
      BY <1>13, <2>x DEF TaskPush, ListInv, TornDown, Serving, manager, command, senders, teardown
    <2>2. ResultEarned' /\ AnsweredOrRefused'
      BY <2>1 DEF AnswerInv, ResultEarned, AnsweredOrRefused, Answered
    <2>3. ConfirmDue /\ AnswersAgree /\ ListedOrDone /\ Turn("task", x)
      BY <2>1 DEF AnswerInv, Turn
    <2>4. ~Dead /\ unconfirmed = {}
      BY <2>1, <2>3, NoneDue
    <2>5. task'.cmd = task.cmd /\ task'.at \in {"pushed", "refused"}
      BY <2>1 DEF TypeOK
    <2>6. \A d \in Cmd : Undelivered(d)' => Undelivered(d)
      BY <2>1, <2>5 DEF Undelivered, Turn
    <2>7. \A d \in cmds : (d \in ReqCfm /\ "WAIT_CFM" \notin flags[d] => d \in confirmed)
                          /\ ("WAIT_ACK" \notin flags[d] => d \in acked)
      BY <2>3, <2>4 DEF AnswersAgree
    <2>8. ListedOrDone'
      BY <2>1, <2>3 DEF ListedOrDone
    <2>9. CASE UNCHANGED <<hostid, unconfirmed>>
      <3>1. AnswersAgree'
        BY <2>1, <2>3, <2>6, <2>7, <2>9 DEF AnswersAgree
      <3> QED
        BY <2>2, <2>4, <2>8, <2>9, <3>1 DEF AnswerInv, ConfirmDue
    <2>10. CASE /\ hostid' = x /\ unconfirmed' = unconfirmed \cup ({x} \cap ReqCfm)
                /\ task'.at = "pushed"
      <3>1. /\ \A j \in Kind, d \in Cmd : Turn(j, d) => j = "task" /\ d = x
            /\ sem = 0
        BY <2>1, <2>3, TurnAlone DEF Kind
      <3>2. pc[x] # "idle"
        BY <2>1 DEF ListInv, UnsentNowhere
      <3>3. x \in cmds => x \notin confirmed /\ "WAIT_PUSH" \notin flags[x]
        BY <2>1, <2>3 DEF AnswersAgree, Undelivered, TurnInv, FlagsAgree
      <3>4. x \notin cmds => Dead'
        <4>1. x \notin cmds => state # "INITED"
          BY <2>1, <2>3 DEF TurnInv, HeadHasTurn, Kind
        <4>2. \A j \in Kind, d \in Cmd : Turn(j, d)' => j = "box" /\ d = x
          <5>1. \A d \in Cmd : ~Turn("sender", d)' /\ ~Turn("answer", d)'
            BY <2>1, <3>1 DEF Turn, Kind
          <5>2. \A d \in Cmd : ~Turn("task", d)' /\ (Turn("box", d)' => d = x)
            BY <2>10 DEF Turn
          <5> QED
            BY <5>1, <5>2 DEF Kind
        <4> QED
          BY <2>1, <3>1, <4>1, <4>2 DEF Dead
      <3>5. ~Undelivered(x)'
        <4>1. ~Turn("sender", x)' /\ ~Turn("task", x)'
          BY <2>1, <2>10, <3>1 DEF Turn, Kind
        <4> QED
          BY <2>1, <3>2, <3>3, <4>1 DEF Undelivered
      <3>6. x \notin cmds \/ x \notin ReqCfm \/ ("WAIT_CFM" \in flags[x] /\ Turn("box", x)')
        BY <2>7, <2>10, <3>3 DEF Turn
      <3>7. ConfirmDue'
        BY <2>1, <2>4, <2>10, <3>4, <3>6 DEF ConfirmDue
      <3>8. AnswersAgree'
        BY <2>1, <2>3, <2>4, <2>6, <2>7, <2>10, <3>5 DEF AnswersAgree
      <3> QED
        BY <2>2, <2>8, <3>7, <3>8 DEF AnswerInv
    <2> QED
      BY <1>13, <2>x, <2>9, <2>10 DEF TaskPush, Deliver, mailbox, TypeOK
  <1>14. CASE TaskPushed
    <2>1. /\ UNCHANGED <<cmds, flags, sem, hostid, unconfirmed, torn, acked, confirmed, refused, pc, ret, result, state>>
          /\ task.at = "pushed" /\ task' = Idle
      BY <1>14 DEF TaskPushed, Use, Idle, manager, command, senders, thread, mailbox, teardown, history
    <2>2. \A k \in Kind, d \in Cmd : Turn(k, d)' <=> Turn(k, d)
      BY <2>1 DEF Turn, Idle
    <2>3. AnsweredOrRefused' /\ (Serving' => Serving)
      BY <2>1 DEF AnswerInv, AnsweredOrRefused, Answered, Serving
    <2> QED
      BY <2>1, <2>2, <2>3, AnswerFrame
  <1>15. CASE TaskRefused
    <2>x. PICK x \in Cmd : x = task.cmd
      BY <1>15 DEF TaskRefused, ListInv, TornDown
    <2>1. /\ task.at = "refused" /\ x = task.cmd /\ Serving /\ task' = Idle
          /\ cmds' = cmds \ {x} /\ refused' = refused \cup {x}
          /\ \A d \in Cmd : d # x => flags'[d] = flags[d] /\ result'[d] = result[d]
          /\ "DONE" \in flags'[x]
          /\ UNCHANGED <<state, pc, ret, hostid, unconfirmed, torn, acked, confirmed>>
      BY <1>15, <2>x DEF TaskRefused, CompleteAll, Cleared, ListInv, TornDown, Serving, TypeOK, senders, mailbox, teardown
    <2>2. ResultEarned' /\ AnsweredOrRefused'
      BY <2>1 DEF AnswerInv, ResultEarned, AnsweredOrRefused, Answered
    <2>3. ConfirmDue /\ AnswersAgree /\ ListedOrDone /\ Turn("task", x)
      BY <2>1 DEF AnswerInv, Turn
    <2>4. ~Dead /\ unconfirmed = {}
      BY <2>1, <2>3, NoneDue
    <2>5. \A d \in Cmd : Undelivered(d)' => Undelivered(d)
      BY <2>1 DEF Undelivered, Turn, Idle
    <2>6. AnswersAgree'
      BY <1>a, <2>1, <2>3, <2>4, <2>5 DEF AnswersAgree
    <2>7. ListedOrDone'
      BY <2>1, <2>3 DEF ListedOrDone
    <2> QED
      BY <2>1, <2>2, <2>4, <2>6, <2>7 DEF AnswerInv, ConfirmDue
  <1>16. CASE Ack
    <2>x. PICK x \in Cmd : x = hostid
      BY <1>16, AckStep
    <2>0. /\ Serving /\ x = hostid /\ Turn("box", x) /\ acked' = acked \cup {x}
          /\ UNCHANGED <<pc, ret, task, torn, state, tkn, next_tkn, confirmed>>
      BY <1>16, <2>x, AckStep
    <2>1. ConfirmDue /\ AnswersAgree /\ ListedOrDone
      BY <2>0 DEF AnswerInv
    <2>2. /\ \A j \in Kind, d \in Cmd : Turn(j, d) => j = "box" /\ d = x
          /\ sem = 0
      BY <2>0, TurnAlone DEF Kind
    <2>3. CASE AcksOnly
      <3>1. /\ UNCHANGED <<cmds, sem, unconfirmed, refused>> /\ hostid' = None
            /\ \A d \in Cmd : d # x \/ x \notin cmds => flags'[d] = flags[d]
            /\ x \in cmds => flags'[x] = flags[x] \ {"WAIT_ACK"}
            /\ \A d \in Cmd : result'[d] = result[d]
        BY <2>x, <2>3 DEF AcksOnly
      <3>2. ResultEarned' /\ AnsweredOrRefused'
        BY <2>0, <3>1 DEF AnswerInv, ResultEarned, AnsweredOrRefused, Answered
      <3>3. x \in cmds => "WAIT_PUSH" \notin flags[x]
        BY <2>0 DEF TurnInv, FlagsAgree
      <3>4. Dead => Dead'
        <4> SUFFICES ASSUME Dead PROVE Dead'
          OBVIOUS
        <4>1. x \notin cmds
          BY <2>0 DEF Dead, Kind
        <4>2. \A d \in Cmd : ~Turn("sender", d)' /\ ~Turn("task", d)'
          BY <2>0, <2>2 DEF Turn, Kind
        <4>3. \A d \in Cmd : ~Turn("box", d)'
          BY <3>1, CommandAssumption DEF Turn
        <4>4. \A d \in Cmd : ~Turn("answer", d)'
          <5>1. \A d \in Cmd : ~Turn("answer", d)
            BY <2>2 DEF Kind
          <5> QED
            BY <3>1, <4>1, <5>1 DEF Turn
        <4> QED
          BY <2>0, <3>1, <4>2, <4>3, <4>4 DEF Dead, Kind
      <3>5. ConfirmDue'
        <4> SUFFICES ASSUME NEW d \in unconfirmed, ~Dead' PROVE d \in cmds' /\ "WAIT_CFM" \in flags'[d] /\ Turn("answer", d)'
          BY <3>1 DEF ConfirmDue
        <4>1. d \in cmds /\ d = x /\ "WAIT_CFM" \in flags[d]
          BY <1>a, <2>1, <2>2, <3>4 DEF ConfirmDue, Kind
        <4> QED
          BY <1>a, <3>1, <3>3, <4>1 DEF Turn
      <3>6. \A d \in Cmd : Undelivered(d)' => Undelivered(d)
        <4>1. \A d \in Cmd : (Turn("sender", d)' <=> Turn("sender", d)) /\ (Turn("task", d)' <=> Turn("task", d))
          BY <2>0 DEF Turn
        <4> QED
          BY <2>0, <3>1, <4>1 DEF Undelivered
      <3>7. AnswersAgree'
        BY <1>a, <2>0, <2>1, <3>1, <3>4, <3>6 DEF AnswersAgree
      <3>8. ListedOrDone'
        BY <2>0, <2>1, <3>1 DEF ListedOrDone
      <3> QED
        BY <3>2, <3>5, <3>7, <3>8 DEF AnswerInv
    <2>4. CASE "WAIT_CFM" \notin flags[x] /\ Completes(x, unconfirmed)
      <3>1. x \in cmds
        BY <2>4 DEF Completes
      <3>2. ~Dead
        BY <2>0, <3>1 DEF Dead, Kind
      <3>3. unconfirmed = {}
        BY <1>a, <2>1, <2>2, <2>4, <3>2 DEF ConfirmDue, Kind
      <3>4. Answered(x)'
        BY <2>0, <2>1, <2>4, <3>1, <3>2 DEF AnswersAgree, Answered
      <3> QED
        BY <2>0, <2>4, <3>3, <3>4, AnswerPassed DEF ListInv
    <2> QED
      BY <1>16, <2>x, AckStep, <2>3, <2>4
  <1>17. ASSUME NEW c \in Cmd, Confirm(c) PROVE AnswerInv'
    <2>0. /\ Serving /\ c \in unconfirmed /\ confirmed' = confirmed \cup {c}
          /\ UNCHANGED <<pc, ret, task, torn, state, tkn, next_tkn, acked>>
      BY <1>17, ConfirmStep
    <2>1. ConfirmDue /\ AnswersAgree /\ ListedOrDone
      BY <2>0 DEF AnswerInv
    <2>2. ~Undelivered(c)
      BY <2>0, <2>1 DEF AnswersAgree
    <2>3. ~Dead => /\ c \in cmds /\ "WAIT_CFM" \in flags[c] /\ c \in Awaiting(ReqId[c])
                   /\ \A d \in unconfirmed : d = c
                   /\ \A d \in cmds \ {c} : tkn[c] < tkn[d]
      <3> SUFFICES ASSUME NEW k \in {"box", "answer"}, Turn(k, c), ~Dead, c \in cmds, "WAIT_CFM" \in flags[c]
                   PROVE  /\ c \in Awaiting(ReqId[c])
                          /\ \A d \in unconfirmed : d = c
                          /\ \A d \in cmds \ {c} : tkn[c] < tkn[d]
        BY <2>0, <2>1 DEF ConfirmDue
      <3>1. /\ \A j \in Kind, d \in Cmd : Turn(j, d) => d = c
            /\ \A d \in cmds \ {c} : tkn[c] < tkn[d]
        BY <2>0, TurnAlone DEF Kind
      <3>2. \A d \in unconfirmed : d = c
        BY <1>a, <2>1, <3>1 DEF ConfirmDue, Kind
      <3> QED
        BY <3>1, <3>2 DEF Awaiting
    <2>4. ASSUME NEW d \in Awaiting(ReqId[c]), IsFirst(d, Awaiting(ReqId[c])), ~Dead PROVE d = c
      <3>1. tkn[d] <= tkn[c] /\ d \in cmds
        BY <2>3, <2>4 DEF IsFirst, Awaiting
      <3> QED
        BY <1>a, <2>3, <2>4, <3>1 DEF TypeOK
    <2>5. CASE NotAwaited(c)
      <3>1. Dead /\ UNCHANGED <<cmds, flags, result, sem, hostid, refused>> /\ unconfirmed' = unconfirmed \ {c}
        BY <2>3, <2>5 DEF NotAwaited
      <3>2. \A k \in Kind, d \in Cmd : Turn(k, d)' <=> Turn(k, d)
        BY <2>0, <3>1 DEF Turn
      <3>3. Dead'
        BY <2>0, <3>1, <3>2 DEF Dead
      <3>4. \A d \in Cmd : Undelivered(d)' => Undelivered(d)
        BY <2>0, <3>1, <3>2 DEF Undelivered, Kind
      <3>5. AnswersAgree'
        BY <1>a, <2>0, <2>1, <2>2, <3>1, <3>3, <3>4 DEF AnswersAgree
      <3>6. ResultEarned' /\ AnsweredOrRefused' /\ ListedOrDone'
        BY <2>0, <2>1, <3>1 DEF AnswerInv, ResultEarned, AnsweredOrRefused, Answered, ListedOrDone
      <3> QED
        BY <3>3, <3>5, <3>6 DEF AnswerInv, ConfirmDue
    <2>6. ASSUME NEW d \in Awaiting(ReqId[c]), ConfirmsOnly(c, d) PROVE AnswerInv'
      <3>1. /\ UNCHANGED <<cmds, sem, hostid, refused>> /\ unconfirmed' = unconfirmed \ {c}
            /\ \A e \in Cmd : flags'[e] = IF e = d THEN flags[e] \ {"WAIT_CFM"} ELSE flags[e]
            /\ \A e \in Cmd : result'[e] = result[e]
            /\ IsFirst(d, Awaiting(ReqId[c]))
        BY <2>6 DEF ConfirmsOnly
      <3>2. \A k \in Kind, e \in Cmd : Turn(k, e)' <=> Turn(k, e)
        <4>1. \A e \in cmds : e \in Cmd /\ ("WAIT_ACK" \in flags'[e] <=> "WAIT_ACK" \in flags[e])
                              /\ ("WAIT_PUSH" \in flags'[e] <=> "WAIT_PUSH" \in flags[e])
          BY <1>a, <3>1
        <4>2. \A e \in Cmd : Turn("answer", e)' <=> Turn("answer", e)
          BY <3>1, <4>1 DEF Turn
        <4>3. \A e \in Cmd : (Turn("box", e)' <=> Turn("box", e)) /\ (Turn("task", e)' <=> Turn("task", e))
                             /\ (Turn("sender", e)' <=> Turn("sender", e))
          BY <2>0, <3>1 DEF Turn
        <4> QED
          BY <4>2, <4>3 DEF Kind
      <3>3. Dead => Dead'
        BY <2>0, <3>1, <3>2 DEF Dead
      <3>4. ~Dead => d = c /\ unconfirmed' = {}
        BY <2>3, <2>4, <3>1
      <3>5. ConfirmDue'
        BY <3>3, <3>4 DEF ConfirmDue
      <3>6. \A e \in Cmd : Undelivered(e)' => Undelivered(e)
        BY <2>0, <3>1, <3>2 DEF Undelivered, Kind
      <3>7. \A e \in cmds : /\ e \in ReqCfm /\ "WAIT_CFM" \notin flags'[e] => e \in confirmed' \/ Dead'
                            /\ "WAIT_ACK" \notin flags'[e] => e \in acked'
        BY <1>a, <2>0, <2>1, <3>1, <3>3, <3>4 DEF AnswersAgree
      <3>8. AnswersAgree'
        BY <2>0, <2>1, <2>2, <3>1, <3>6, <3>7 DEF AnswersAgree
      <3>9. ResultEarned' /\ AnsweredOrRefused' /\ ListedOrDone'
        BY <2>0, <2>1, <3>1 DEF AnswerInv, ResultEarned, AnsweredOrRefused, Answered, ListedOrDone
      <3> QED
        BY <3>5, <3>8, <3>9 DEF AnswerInv
    <2>7. ASSUME NEW d \in Awaiting(ReqId[c]), Turn("answer", d), Completes(d, unconfirmed \ {c})
          PROVE  AnswerInv'
      <3>1. d \in Cmd /\ d \in cmds
        BY <1>a DEF Awaiting
      <3>2. ~Dead
        BY <2>7, <3>1 DEF Dead, Kind
      <3>3. d = c
        BY <1>a, <2>0, <2>1, <2>7, <3>1, <3>2, TurnAlone DEF ConfirmDue, Kind
      <3>4. Answered(d)'
        <4>1. "WAIT_ACK" \notin flags[d]
          BY <2>7 DEF Turn
        <4> QED
          BY <2>0, <2>1, <3>1, <3>3, <4>1 DEF AnswersAgree, Answered
      <3> DEFINE w == unconfirmed \ {c}
      <3>5. w \in SUBSET {} /\ Completes(d, w)
        BY <2>3, <2>7, <3>2
      <3> HIDE DEF w
      <3> QED
        BY <2>0, <2>7, <3>1, <3>3, <3>4, <3>5, AnswerPassed DEF ListInv
    <2> QED
      BY <1>17, ConfirmStep, <2>5, <2>6, <2>7
  <1>18. CASE Stop
    <2>1. /\ UNCHANGED <<cmds, flags, task, sem, hostid, unconfirmed, acked, confirmed, refused, pc, ret, result>>
          /\ state' = state \/ state' # "INITED"
          /\ Serving' => Serving
      BY <1>18 DEF Stop, Serving, manager, command, senders, thread, mailbox, teardown, history
    <2>2. \A k \in Kind, d \in Cmd : Turn(k, d)' <=> Turn(k, d)
      BY <2>1 DEF Turn
    <2>3. AnsweredOrRefused'
      BY <2>1 DEF AnswerInv, AnsweredOrRefused, Answered
    <2> QED
      BY <2>1, <2>2, <2>3, AnswerFrame
  <1>19. CASE Deinit
    <2>1. /\ UNCHANGED <<cmds, flags, task, sem, hostid, unconfirmed, acked, confirmed, refused, pc, ret, result>>
          /\ state' = state \/ state' # "INITED"
          /\ Serving' => Serving
      BY <1>19 DEF Deinit, Serving, manager, command, senders, thread, mailbox, teardown, history
    <2>2. \A k \in Kind, d \in Cmd : Turn(k, d)' <=> Turn(k, d)
      BY <2>1 DEF Turn
    <2>3. AnsweredOrRefused'
      BY <2>1 DEF AnswerInv, AnsweredOrRefused, Answered
    <2> QED
      BY <2>1, <2>2, <2>3, AnswerFrame
  <1>20. CASE DrainBegin
    <2>1. /\ UNCHANGED <<cmds, flags, task, sem, hostid, unconfirmed, acked, confirmed, refused, pc, ret, result>>
          /\ state' = state \/ state' # "INITED"
          /\ Serving' => Serving
      BY <1>20 DEF DrainBegin, Serving, manager, command, senders, thread, mailbox, teardown, history
    <2>2. \A k \in Kind, d \in Cmd : Turn(k, d)' <=> Turn(k, d)
      BY <2>1 DEF Turn
    <2>3. AnsweredOrRefused'
      BY <2>1 DEF AnswerInv, AnsweredOrRefused, Answered
    <2> QED
      BY <2>1, <2>2, <2>3, AnswerFrame
  <1>21. ASSUME NEW c \in Cmd, DrainUnlink(c) PROVE AnswerInv'
    <2>1. UNCHANGED <<pc, ret, result, acked, confirmed, refused>> /\ ~Serving'
      BY <1>21 DEF DrainUnlink, IsFirst, Serving, ListInv, TornDown, manager, command, senders, thread, mailbox, teardown, history
    <2> QED
      BY <2>1 DEF AnswerInv, ResultEarned, AnsweredOrRefused, Answered
  <1>22. CASE DrainFree
    <2>1. /\ UNCHANGED <<cmds, flags, task, sem, hostid, unconfirmed, acked, confirmed, refused, pc, ret, result>>
          /\ state' = state \/ state' # "INITED"
          /\ Serving' => Serving
      BY <1>22 DEF DrainFree, Use, SenderFrees, Serving, manager, command, senders, thread, mailbox, teardown, history
    <2>2. \A k \in Kind, d \in Cmd : Turn(k, d)' <=> Turn(k, d)
      BY <2>1 DEF Turn
    <2>3. AnsweredOrRefused'
      BY <2>1 DEF AnswerInv, AnsweredOrRefused, Answered
    <2> QED
      BY <2>1, <2>2, <2>3, AnswerFrame
  <1>23. CASE DrainEnd
    <2>1. /\ UNCHANGED <<cmds, flags, task, sem, hostid, unconfirmed, acked, confirmed, refused, pc, ret, result>>
          /\ state' = state \/ state' # "INITED"
          /\ Serving' => Serving
      BY <1>23 DEF DrainEnd, Serving, manager, command, senders, thread, mailbox, teardown, history
    <2>2. \A k \in Kind, d \in Cmd : Turn(k, d)' <=> Turn(k, d)
      BY <2>1 DEF Turn
    <2>3. AnsweredOrRefused'
      BY <2>1 DEF AnswerInv, AnsweredOrRefused, Answered
    <2> QED
      BY <2>1, <2>2, <2>3, AnswerFrame
  <1>24. CASE Wipe
    <2>1. UNCHANGED <<pc, ret, result, acked, confirmed, refused>> /\ ~Serving'
      BY <1>24 DEF Wipe, Serving, ListInv, TornDown, manager, command, senders, thread, mailbox, teardown, history
    <2> QED
      BY <2>1 DEF AnswerInv, ResultEarned, AnsweredOrRefused, Answered
  <1>25. CASE CloseBegin
    <2>1. /\ UNCHANGED <<cmds, flags, task, sem, hostid, unconfirmed, acked, confirmed, refused, pc, ret, result>>
          /\ state' = state \/ state' # "INITED"
          /\ Serving' => Serving
      BY <1>25 DEF CloseBegin, Serving, manager, command, senders, thread, mailbox, teardown, history
    <2>2. \A k \in Kind, d \in Cmd : Turn(k, d)' <=> Turn(k, d)
      BY <2>1 DEF Turn
    <2>3. AnsweredOrRefused'
      BY <2>1 DEF AnswerInv, AnsweredOrRefused, Answered
    <2> QED
      BY <2>1, <2>2, <2>3, AnswerFrame
  <1>26. CASE CloseEnd
    <2>1. /\ UNCHANGED <<cmds, flags, task, sem, hostid, unconfirmed, acked, confirmed, refused, pc, ret, result>>
          /\ state' = state \/ state' # "INITED"
          /\ Serving' => Serving
      BY <1>26 DEF CloseEnd, Serving, manager, command, senders, thread, mailbox, teardown, history
    <2>2. \A k \in Kind, d \in Cmd : Turn(k, d)' <=> Turn(k, d)
      BY <2>1 DEF Turn
    <2>3. AnsweredOrRefused'
      BY <2>1 DEF AnswerInv, AnsweredOrRefused, Answered
    <2> QED
      BY <2>1, <2>2, <2>3, AnswerFrame
  <1>27. CASE UNCHANGED vars
    BY <1>27 DEF vars, AnswerInv, ConfirmDue, AnswersAgree, ListedOrDone, ResultEarned,
                 AnsweredOrRefused, Answered, Dead, Undelivered, Turn, Serving, manager, command,
                 senders, thread, mailbox, teardown, history
  <1> QED
    BY <1>1, <1>2, <1>3, <1>4, <1>5, <1>6, <1>7, <1>8, <1>9, <1>10, <1>11, <1>12,
       <1>13, <1>14, <1>15, <1>16, <1>17, <1>18, <1>19, <1>20, <1>21, <1>22, <1>23, <1>24,
       <1>25, <1>26, <1>27
    DEF Next, Sender, Task, Firmware, TearDown

\* Success is reported only for a command that the firmware has answered, or whose
\* deferred push was refused.
THEOREM AnsweredCorrect == Spec => []AnsweredOrRefused
  <1>1. Init => AnswerInv
    BY AnswerInit
  <1>2. AnswerInv => AnsweredOrRefused
    BY DEF AnswerInv
  <1> QED
    BY <1>1, <1>2, TurnCorrect, AnswerNext, PTL DEF Spec

=============================================================================
