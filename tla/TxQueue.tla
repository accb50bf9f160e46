------------------------------- MODULE TxQueue -------------------------------
(***************************************************************************)
(* The TX queues of a station and the hardware queue they feed (aml_txq.c,   *)
(* aml_tx.c): frames wait in a TX queue until both the queue and the         *)
(* hardware queue have credits; a queue that can be served is linked to the  *)
(* list of the hardware queue.  Senders, the confirmations of the firmware,  *)
(* the messages it sends (power save, credits, channel) and the cleanup      *)
(* timer meet under tx_lock; the tail of the timer runs without it.          *)
(*                                                                           *)
(* Frames are counted.  The list is a set: any order of a pass is allowed,   *)
(* which includes the code's (oldest first, rotated by pkt_sent).  One       *)
(* hardware queue, one user position (CONFIG_USER_MAX is 1), legacy power    *)
(* save.                                                                     *)
(***************************************************************************)
EXTENDS Integers, FiniteSets

CONSTANTS
  TxQ,          \* TIDs, by rising priority
  FlowQ,        \* those with a netdev subqueue; the others carry management frames
  HwSize,       \* hwq->size
  InitCredits,  \* NX_TXQ_INITIAL_CREDITS
  FlowStop, FlowRestart,  \* AML_NDEV_FLOW_CTRL_STOP, AML_NDEV_FLOW_CTRL_RESTART
  Wide,         \* the u16 counters of power save run modulo this
  Reasons,      \* why a vif stops its queues: AML_TXQ_STOP_CHAN, _VIF_PS, _CSA ...
  Request,      \* frames a station in power save asks for; 0: all
  Update,       \* what the firmware may add to the credits of a queue
  MayRepeat,    \* management frames may be sent again
  MayRace,      \* the timer's tail writes back the status it has read
  MaxLen,       \* bound: frames in each queue
  MaxDebt,      \* bound: credits below 0
  MaxTurns      \* bound: updates of credits and new stations

ASSUME QueueAssumption ==
  /\ TxQ \subseteq Nat /\ IsFiniteSet(TxQ) /\ FlowQ \subseteq TxQ
  /\ Wide \in Nat \ {0} /\ HwSize \in 1 .. Wide - 1 /\ InitCredits \in 1 .. HwSize
  /\ FlowStop \in Nat /\ FlowRestart \in Nat
  /\ Request \subseteq Nat /\ Update \subseteq Int
ASSUME ReasonAssumption == Reasons \cap {"full", "ps", "listed", "flow"} = {}
ASSUME FaultAssumption == MayRepeat \in BOOLEAN /\ MayRace \in BOOLEAN
ASSUME BoundAssumption == MaxLen \in [TxQ -> 0 .. Wide - 1] /\ MaxDebt \in Nat /\ MaxTurns \in Nat

VARIABLES
  bus,      \* aml_bus_type: PCIE_MODE or one of the other two
  txq,      \* the TX queues
  list,     \* hwq->list
  credits,  \* hwq->credits
  need,     \* hwq->need_processing
  todo,     \* what aml_hwq_process has still to visit; tx_lock is held meanwhile
  fw,       \* frames of each queue the firmware has not confirmed
  ps,       \* sta->ps
  subq,     \* netdev subqueues that are stopped
  tail,     \* where the timer is after it has let go of tx_lock
  cut,      \* history: queues a service period unlinked with frames left
  dead,     \* history: queues made anew while their subqueue was stopped
  turns     \* bound: what MaxTurns counts

vars == <<bus, txq, list, credits, need, todo, fw, ps, subq, tail, cut, dead, turns>>

Stop   == Reasons \cup {"full", "ps"}           \* AML_TXQ_STOP
Status == Stop \cup {"listed", "flow"}
IsStopped(t) == t.status \cap Stop # {}

NoTail == [at |-> "none"]
Tail == {NoTail} \cup [at : {"check", "clear", "wake"}, q : TxQ, saw : SUBSET Status]

Queue == [active : BOOLEAN, status : SUBSET Status, credits : Int, pushed : Nat,
          len : Nat, retry : Nat, limit : Nat]

TypeOK ==
  /\ bus \in {"pcie", "sdio"}
  /\ txq \in [TxQ -> Queue] /\ \A q \in TxQ : txq[q].retry <= txq[q].len
  /\ list \subseteq TxQ /\ credits \in Nat /\ need \in BOOLEAN /\ todo \subseteq TxQ
  /\ fw \in [TxQ -> Nat]
  /\ ps \in [active : BOOLEAN, ready : 0 .. Wide - 1, sp : 0 .. Wide - 1]
  /\ subq \subseteq FlowQ /\ tail \in Tail
  /\ cut \subseteq TxQ /\ dead \subseteq TxQ /\ turns \in Nat

Fresh(s) == [active |-> TRUE, status |-> s, credits |-> InitCredits,
             pushed |-> 0, len |-> 0, retry |-> 0, limit |-> 0]   \* aml_txq_init

\* While active is FALSE the counters are not read, and kept at 0 here.
Awake == [active |-> FALSE, ready |-> 0, sp |-> 0]

Init ==
  /\ bus \in {"pcie", "sdio"}
  /\ txq = [q \in TxQ |-> Fresh({})] /\ list = {}
  /\ credits = HwSize /\ need = FALSE /\ todo = {} /\ fw = [q \in TxQ |-> 0]
  /\ ps = Awake
  /\ subq = {} /\ tail = NoTail /\ cut = {} /\ dead = {} /\ turns = 0

-----------------------------------------------------------------------------
\* The sum of a function whose values are at most Wide (a queue is shorter than that).
Total(f) == Cardinality({x \in (DOMAIN f) \X (1 .. Wide) : x[2] <= f[x[1]]})

(* One queue. *)

Least(a, b) == IF a < b THEN a ELSE b
Less(a, b)  == IF a > b THEN a - b ELSE 0

AddToHwList(t)   == [t EXCEPT !.status = @ \cup {"listed"}]
DelFromHwList(t) == [t EXCEPT !.status = @ \ {"listed"}]

Started_Alone(t, reason) ==
  LET u == [t EXCEPT !.status = @ \ {reason}]
  IN  IF ~t.active \/ reason \notin t.status THEN t
      ELSE IF u.len = 0 THEN u ELSE AddToHwList(u)
Started(t, reason) ==
  LET u == [t EXCEPT !.status = @ \ {reason}]
  IN  IF ~t.active \/ reason \notin t.status THEN t
      ELSE IF IsStopped(u) \/ u.len = 0 THEN u ELSE AddToHwList(u)

StoppedFor(t, reason) ==
  IF t.active THEN DelFromHwList([t EXCEPT !.status = @ \cup {reason}]) ELSE t

\* aml_txq_stop or aml_txq_start for AML_TXQ_STOP_FULL after a change of credits
Recounted(t) == IF t.credits <= 0 THEN StoppedFor(t, "full") ELSE Started(t, "full")

FlowStops(q, t) == q \in FlowQ /\ t.len + 1 > FlowStop

Queued(q, t, retry) ==
  LET u == [t EXCEPT !.len = @ + 1, !.retry = @ + (IF retry THEN 1 ELSE 0),
                     !.status = IF FlowStops(q, t) THEN @ \cup {"flow"} ELSE @]
  IN  IF IsStopped(u) THEN u ELSE AddToHwList(u)

\* A queue whose bit is set is linked, one whose bit is cleared is unlinked.
Linked(t) == "listed" \in t.status
SetQueues(n, wanted) ==
  LET added   == {q \in TxQ : Linked(n[q]) /\ ~Linked(txq[q])}
      removed == {q \in TxQ : Linked(txq[q]) /\ ~Linked(n[q])}
  IN  /\ txq' = n
      /\ list' = (list \cup added) \ removed
      /\ need' = (need \/ wanted \/ added # {})
      /\ cut' = {q \in cut : ~Linked(n[q]) /\ n[q].len > 0}

-----------------------------------------------------------------------------
(* Senders, and the pass over the list. *)

Unlocked == todo = {}

PsQueued == IF ps.active THEN [ps EXCEPT !.ready = (@ + 1) % Wide] ELSE ps
Stops_AtLimit(q) ==
  IF q \in FlowQ /\ txq[q].len + 1 >= FlowStop THEN subq \cup {q} ELSE subq
Stops(q) == IF FlowStops(q, txq[q]) THEN subq \cup {q} ELSE subq

Xmit(q) ==
  /\ Unlocked /\ q \notin subq /\ txq[q].active /\ txq[q].len < MaxLen[q]
  /\ ps' = PsQueued /\ subq' = Stops(q)
  /\ LET t == Queued(q, txq[q], FALSE) IN
       /\ txq' = [txq EXCEPT ![q] = t]
       /\ list' = IF Linked(t) THEN list \cup {q} ELSE list
       /\ need' = (need /\ IsStopped(t))
       /\ todo' = IF IsStopped(t) THEN {} ELSE list'
       /\ cut' = IF Linked(t) THEN cut \ {q} ELSE cut
  /\ UNCHANGED <<bus, credits, fw, tail, dead, turns>>

Process ==                      \* aml_hwq_process_all
  /\ Unlocked /\ need /\ need' = FALSE /\ todo' = list
  /\ UNCHANGED <<bus, txq, list, credits, fw, ps, subq, tail, cut, dead, turns>>

Skipped(t) == ~Linked(t) \/ ~t.active \/ t.credits <= 0 \/ t.len = 0

VisitSkip(q) ==
  /\ q \in todo /\ Skipped(txq[q]) /\ todo' = todo \ {q}
  /\ UNCHANGED <<bus, txq, list, credits, need, fw, ps, subq, tail, cut, dead, turns>>

VisitNoCredit(q) ==
  /\ q \in todo /\ ~Skipped(txq[q]) /\ credits = 0 /\ todo' = {}
  /\ UNCHANGED <<bus, txq, list, credits, need, fw, ps, subq, tail, cut, dead, turns>>

GetCredits(t) == IF t.limit # 0 /\ t.credits > t.limit THEN t.limit ELSE t.credits
NbToPush(t)   == Least(t.len, Least(GetCredits(t), credits))

TxPush_KeepRetry(t, n) ==
  LET u == [t EXCEPT !.credits = @ - n, !.pushed = @ + n, !.len = @ - n, !.limit = Less(@, n)]
  IN  IF u.credits <= 0 THEN StoppedFor(u, "full") ELSE u
TxPush(t, n) ==
  LET u == [t EXCEPT !.credits = @ - n, !.pushed = @ + n, !.len = @ - n,
                     !.retry = Less(@, n), !.limit = Less(@, n)]
  IN  IF u.credits <= 0 THEN StoppedFor(u, "full") ELSE u

\* The queue is done: nothing is left, or the service period is over.
Done(t, n) == n = t.len \/ (t.limit # 0 /\ n = t.limit)

Restarts(t) == "flow" \in t.status /\ t.len < FlowRestart

AfterPush(t, n) ==
  LET u == TxPush(t, n)
      v == IF Done(t, n) THEN DelFromHwList(u) ELSE u
  IN  [v EXCEPT !.limit = 0, !.status = IF Restarts(v) THEN @ \ {"flow"} ELSE @]

VisitPush(q) ==
  /\ q \in todo /\ ~Skipped(txq[q]) /\ credits > 0
  /\ LET n == NbToPush(txq[q])
         u == TxPush(txq[q], n)
         t == AfterPush(txq[q], n)
     IN  /\ txq' = [txq EXCEPT ![q] = t]
         /\ list' = IF Linked(t) THEN list ELSE list \ {q}
         /\ credits' = credits - n /\ fw' = [fw EXCEPT ![q] = @ + n]
         /\ ps' = IF ps.active
                    THEN [ps EXCEPT !.ready = (@ - n) % Wide, !.sp = (@ - n - u.limit) % Wide]
                    ELSE ps
         /\ subq' = IF Restarts(u) THEN subq \ {q} ELSE subq
         /\ cut' = IF ~Linked(t) /\ ~IsStopped(t) /\ t.len > 0 THEN cut \cup {q} ELSE cut
  /\ todo' = todo \ {q} /\ dead' = dead \cap subq'
  /\ UNCHANGED <<bus, need, tail, turns>>

-----------------------------------------------------------------------------
(* Confirmations. *)

\* aml_txq_confirm_any: what every confirmation does, whoever owns the queue now.
Returned(t) == [t EXCEPT !.pushed = Less(@, 1)]
Returns == credits <= HwSize
ConfirmAny_Active(q) ==
  /\ Unlocked /\ fw[q] > 0
  /\ fw' = [fw EXCEPT ![q] = @ - 1]
  /\ credits' = IF txq[q].active THEN credits + 1 ELSE credits
  /\ UNCHANGED <<bus, todo, tail, dead, turns>>
ConfirmAny(q) ==
  /\ Unlocked /\ fw[q] > 0
  /\ fw' = [fw EXCEPT ![q] = @ - 1]
  /\ credits' = IF Returns THEN credits + 1 ELSE credits
  /\ UNCHANGED <<bus, todo, tail, dead, turns>>

\* The firmware gives a credit with a confirmation; on PCIe it may give none.
Confirm(q, given) ==
  /\ ConfirmAny(q) /\ (bus = "sdio" => given = 1)
  /\ LET t == Returned(txq[q])
         u == IF t.active /\ given # 0 THEN Recounted([t EXCEPT !.credits = @ + given]) ELSE t
     IN  SetQueues([txq EXCEPT ![q] = u], Returns)
  /\ UNCHANGED <<ps, subq>>

\* aml_tx_retry: the firmware could not send the frame, or nobody acknowledged
\* a management frame that has to arrive.
ConfirmRetry(q) ==
  /\ ConfirmAny(q) /\ txq[q].len < MaxLen[q]
  /\ IF q \in FlowQ THEN txq[q].active ELSE MayRepeat
  /\ LET t == [Returned(txq[q]) EXCEPT !.credits = @ + 1]
         u == IF t.credits > 0 THEN Started(t, "full") ELSE t
     IN  SetQueues([txq EXCEPT ![q] = Queued(q, u, TRUE)], Returns)
  /\ ps' = PsQueued /\ subq' = Stops(q)

-----------------------------------------------------------------------------
(* Messages of the firmware, and the stops of an interface. *)

Offset(u) == IF bus = "sdio" /\ u > InitCredits THEN HwSize - InitCredits ELSE u

Credited(t, u) ==
  IF (bus = "sdio" => t.credits + u > 0) /\ t.credits + t.pushed + u < HwSize
    THEN t.credits + u
    ELSE HwSize - t.pushed

\* The loop counts up to nb_retry while each turn takes one off it.
RetryDropped(t) == (t.retry + 1) \div 2

CreditUpdate(q, update) ==
  /\ Unlocked /\ turns < MaxTurns /\ turns' = turns + 1
  /\ -MaxDebt <= txq[q].credits + update
  /\ LET u == Offset(update)
         t == IF txq[q].active
                THEN Recounted([txq[q] EXCEPT !.credits = Credited(txq[q], u)])
                ELSE txq[q]
         d == IF u < InitCredits THEN RetryDropped(t) ELSE 0
     IN  SetQueues([txq EXCEPT ![q] = [t EXCEPT !.len = @ - d, !.retry = @ - d]], FALSE)
  /\ UNCHANGED <<bus, credits, todo, fw, ps, subq, tail, dead>>

PsEnable ==
  /\ Unlocked
  /\ ps' = [active |-> TRUE, ready |-> Total([q \in TxQ |-> txq[q].len]) % Wide, sp |-> 0]
  /\ SetQueues([q \in TxQ |-> StoppedFor(txq[q], "ps")], FALSE)
  /\ UNCHANGED <<bus, credits, todo, fw, subq, tail, dead, turns>>

PsDisable ==
  /\ Unlocked /\ ps' = Awake
  /\ SetQueues([q \in TxQ |-> Started([txq[q] EXCEPT !.limit = 0], "ps")], FALSE)
  /\ UNCHANGED <<bus, credits, todo, fw, subq, tail, dead, turns>>

\* What a queue can contribute to a request: a u16, to which credits below 0
\* are a large number.
Available(q) == IF txq[q].len > txq[q].credits THEN txq[q].credits % Wide ELSE txq[q].len

\* The request is dealt out by falling priority.
Before(q)   == Total([p \in {r \in TxQ : r > q} |-> Available(p)])
Grant(q, n) == IF Before(q) < n THEN Least(Available(q), n - Before(q)) ELSE 0

Granted(n) == [q \in TxQ |-> IF Grant(q, n) = 0 THEN txq[q]
                             ELSE Started([txq[q] EXCEPT !.limit = Grant(q, n)], "ps")]

TrafficReq(request) ==
  /\ Unlocked /\ ps.active /\ ps.sp = 0 /\ ps.ready > 0
  /\ LET n == IF request = 0 THEN ps.ready ELSE Least(request, ps.ready)
     IN  /\ SetQueues(Granted(n), FALSE)
         /\ ps' = [ps EXCEPT !.sp = Total([q \in TxQ |-> Grant(q, n)]) % Wide]
  /\ UNCHANGED <<bus, credits, todo, fw, subq, tail, dead, turns>>

VifStop(reason) ==
  /\ Unlocked /\ SetQueues([q \in TxQ |-> StoppedFor(txq[q], reason)], FALSE)
  /\ UNCHANGED <<bus, credits, todo, fw, ps, subq, tail, dead, turns>>

VifStart(reason) ==
  /\ Unlocked /\ SetQueues([q \in TxQ |-> Started(txq[q], reason)], FALSE)
  /\ UNCHANGED <<bus, credits, todo, fw, ps, subq, tail, dead, turns>>

-----------------------------------------------------------------------------
(* The cleanup timer: aml_txq_drop_old_traffic, for one queue at a time. *)

TimerDrop(q, old) ==
  /\ Unlocked /\ tail = NoTail /\ txq[q].active /\ old <= txq[q].len - txq[q].retry
  /\ LET d == IF ps.active THEN Least(old, ps.sp) ELSE 0
         t == [txq[q] EXCEPT !.len = @ - old, !.limit = Less(@, d)]
     IN  /\ SetQueues([txq EXCEPT ![q] = IF t.len = 0 THEN DelFromHwList(t) ELSE t], FALSE)
         /\ ps' = IF ps.active THEN [ps EXCEPT !.ready = (@ - old) % Wide, !.sp = @ - d] ELSE ps
  /\ tail' = IF q \in FlowQ THEN [at |-> "check", q |-> q, saw |-> {}] ELSE NoTail
  /\ UNCHANGED <<bus, credits, todo, fw, subq, dead, turns>>

TimerCheck ==
  /\ tail.at = "check"
  /\ tail' = IF "flow" \in txq[tail.q].status /\ txq[tail.q].len = 0
               THEN [tail EXCEPT !.at = "clear",
                                 !.saw = IF MayRace THEN txq[tail.q].status ELSE {}]
               ELSE NoTail
  /\ UNCHANGED <<bus, txq, list, credits, need, todo, fw, ps, subq, cut, dead, turns>>

TimerClear ==
  /\ tail.at = "clear"
  /\ LET s == IF MayRace THEN tail.saw ELSE txq[tail.q].status
     IN  txq' = [txq EXCEPT ![tail.q].status = s \ {"flow"}]
  /\ tail' = [tail EXCEPT !.at = "wake", !.saw = {}]
  /\ UNCHANGED <<bus, list, credits, need, todo, fw, ps, subq, cut, dead, turns>>

TimerWake ==
  /\ tail.at = "wake" /\ subq' = subq \ {tail.q} /\ dead' = dead \ {tail.q}
  /\ tail' = NoTail
  /\ UNCHANGED <<bus, txq, list, credits, need, todo, fw, ps, cut, turns>>

-----------------------------------------------------------------------------
(* The station leaves, and another one takes its index. *)

Deinit(q) ==
  /\ Unlocked /\ txq[q].active /\ turns < MaxTurns
  /\ LET t == [DelFromHwList(txq[q]) EXCEPT !.active = FALSE, !.len = 0, !.retry = 0]
     IN  SetQueues([txq EXCEPT ![q] = t], FALSE)
  /\ ps' = Awake
  /\ UNCHANGED <<bus, credits, todo, fw, subq, tail, dead, turns>>

\* aml_txq_init does not look at the bit it overwrites, nor at the subqueue.
Join(status) ==
  /\ \A q \in TxQ : ~txq[q].active
  /\ turns < MaxTurns /\ turns' = turns + 1
  /\ txq' = [q \in TxQ |-> Fresh(status)]
  /\ dead' = dead \cup subq
  /\ UNCHANGED <<bus, list, credits, need, todo, fw, ps, subq, tail, cut>>

-----------------------------------------------------------------------------
Senders == \/ \E q \in TxQ : Xmit(q) \/ VisitSkip(q) \/ VisitNoCredit(q) \/ VisitPush(q)
           \/ Process
Confirmations == \E q \in TxQ : (\E c \in {0, 1} : Confirm(q, c)) \/ ConfirmRetry(q)
Messages ==
  \/ \E q \in TxQ : \E u \in Update : CreditUpdate(q, u)
  \/ PsEnable \/ PsDisable \/ \E n \in Request : TrafficReq(n)
  \/ \E r \in Reasons : VifStop(r) \/ VifStart(r)
Timer == \/ \E q \in TxQ : \E old \in 0 .. MaxLen[q] : TimerDrop(q, old)
         \/ TimerCheck \/ TimerClear \/ TimerWake
Stations == (\E q \in TxQ : Deinit(q)) \/ (\E s \in {{}} \cup {{r} : r \in Reasons} : Join(s))

Next == Senders \/ Confirmations \/ Messages \/ Timer \/ Stations
Spec == Init /\ [][Next]_vars
=============================================================================
