---------------------------- MODULE TxQueueProofs ----------------------------
(* Proofs about the TX queues, for any number of queues, any credits and         *)
(* thresholds, any reason to stop and any bound.                                 *)
EXTENDS TxQueueProps, FiniteSetTheorems, TLAPS

-----------------------------------------------------------------------------
(* Sums.  Total(f) counts the pairs of Points(f).                              *)

Points(f) == {x \in (DOMAIN f) \X (1 .. Wide) : x[2] <= f[x[1]]}

LEMMA PointsFinite ==
  ASSUME NEW f, IsFiniteSet(DOMAIN f)
  PROVE  IsFiniteSet(Points(f)) /\ Total(f) \in Nat /\ Total(f) = Cardinality(Points(f))
<1>1. IsFiniteSet(1 .. Wide)
  BY FS_Interval, QueueAssumption
<1>2. IsFiniteSet((DOMAIN f) \X (1 .. Wide))
  BY <1>1, FS_Product
<1>3. Points(f) \subseteq (DOMAIN f) \X (1 .. Wide)
  BY DEF Points
<1>4. IsFiniteSet(Points(f))
  BY <1>2, <1>3, FS_Subset
<1>5. Cardinality(Points(f)) \in Nat
  BY <1>4, FS_CardinalityType
<1> QED
  BY <1>4, <1>5 DEF Total, Points

\* The pairs a .. b of one index, of which there are as many as numbers.
LEMMA ColumnSize ==
  ASSUME NEW q, NEW a \in Int, NEW b \in Int
  PROVE  /\ IsFiniteSet({q} \X (a .. b))
         /\ Cardinality({q} \X (a .. b)) = IF a > b THEN 0 ELSE b - a + 1
<1>1. IsFiniteSet(a .. b) /\ Cardinality(a .. b) = IF a > b THEN 0 ELSE b - a + 1
  BY FS_Interval
<1>2. IsFiniteSet({q}) /\ Cardinality({q}) = 1
  BY FS_Singleton
<1>3. IsFiniteSet({q} \X (a .. b)) /\ Cardinality({q} \X (a .. b)) = 1 * Cardinality(a .. b)
  BY <1>1, <1>2, FS_Product, Zenon
<1> QED
  BY <1>1, <1>3

\* What an index adds to a sum grows with it.
LEMMA TotalGrows ==
  ASSUME NEW f \in [TxQ -> Nat], NEW q \in TxQ, NEW n \in Nat, f[q] + n <= Wide
  PROVE  Total([f EXCEPT ![q] = @ + n]) = Total(f) + n
<1> DEFINE g == [f EXCEPT ![q] = @ + n]
           New == {q} \X (f[q] + 1 .. f[q] + n)
<1>1. g \in [TxQ -> Nat] /\ IsFiniteSet(TxQ) /\ Wide \in Nat
  BY QueueAssumption
<1>2. IsFiniteSet(Points(f)) /\ Total(f) \in Nat /\ Total(f) = Cardinality(Points(f))
  BY <1>1, PointsFinite
<1>3. Total(g) = Cardinality(Points(g))
  BY <1>1, PointsFinite
<1>4. Points(g) = Points(f) \cup New
  BY <1>1 DEF Points
<1>5. Points(f) \cap New = {}
  BY <1>1 DEF Points
<1>6. IsFiniteSet(New) /\ Cardinality(New) = n
  <2>1. f[q] + 1 \in Int /\ f[q] + n \in Int
    OBVIOUS
  <2>2. /\ IsFiniteSet(New)
        /\ Cardinality(New) = IF f[q] + 1 > f[q] + n THEN 0 ELSE (f[q] + n) - (f[q] + 1) + 1
    BY <2>1, ColumnSize
  <2> QED
    BY <2>2
<1> HIDE DEF g, New
<1>7. Cardinality(Points(f) \cup New) = Cardinality(Points(f)) + Cardinality(New) - Cardinality({})
  BY <1>2, <1>5, <1>6, FS_Union
<1>8. Cardinality({}) = 0
  BY FS_EmptySet
<1>9. Total(g) = Total(f) + n
  BY <1>2, <1>3, <1>4, <1>6, <1>7, <1>8
<1> QED
  BY <1>9 DEF g

\* No index adds more than the whole sum.
LEMMA TotalCovers ==
  ASSUME NEW f \in [TxQ -> Nat], NEW q \in TxQ
  PROVE  Least(f[q], Wide) <= Total(f)
<1> DEFINE n == Least(f[q], Wide)
           Own == {q} \X (1 .. n)
<1>1. IsFiniteSet(TxQ) /\ Wide \in Nat /\ n \in Nat /\ n <= Wide /\ n <= f[q]
  BY QueueAssumption DEF Least
<1>2. IsFiniteSet(Points(f)) /\ Total(f) \in Nat /\ Total(f) = Cardinality(Points(f))
  BY <1>1, PointsFinite
<1>3. Own \subseteq Points(f)
  BY <1>1 DEF Points
<1> HIDE DEF n
<1>4. Cardinality(Own) = n
  <2>1. n \in Int /\ 1 \in Int
    BY <1>1
  <2>2. Cardinality(Own) = IF 1 > n THEN 0 ELSE n - 1 + 1
    BY <2>1, ColumnSize
  <2> QED
    BY <1>1, <2>2
<1> HIDE DEF Own
<1>5. Cardinality(Own) <= Cardinality(Points(f))
  BY <1>2, <1>3, FS_Subset
<1>6. n <= Total(f)
  BY <1>2, <1>4, <1>5
<1> QED
  BY <1>6 DEF n

-----------------------------------------------------------------------------
(* One queue.                                                                  *)

\* A queue that is linked may push, and is stopped for lack of credits exactly
\* when it has none; a queue that waits has frames nothing stops, and no link.
MayPush(t)    == Linked(t) => t.active /\ ~IsStopped(t)
FullIsFull(t) == t.active => ("full" \in t.status <=> t.credits <= 0)
Waits(t)      == t.active /\ t.len > 0 /\ ~IsStopped(t) /\ ~Linked(t)
FlowLeft(t, u) == "flow" \in t.status => "flow" \in u.status

LEMMA StatusApart ==
  /\ Stop \subseteq Status /\ "listed" \notin Stop /\ "flow" \notin Stop
  /\ "full" \in Stop /\ "ps" \in Stop /\ Reasons \subseteq Stop \ {"full", "ps"}
BY ReasonAssumption DEF Stop, Status

\* aml_txq_start takes a reason away and links the queue, nothing else.
LEMMA StartedKeeps ==
  ASSUME NEW t \in Queue, NEW r \in Stop
  PROVE  LET u == Started(t, r) IN
         /\ u \in Queue /\ u = [t EXCEPT !.status = u.status] /\ FlowLeft(t, u)
         /\ MayPush(t) => MayPush(u)
         /\ r # "full" /\ FullIsFull(t) => FullIsFull(u)
         /\ r = "full" /\ t.credits > 0 => FullIsFull(u)
         /\ Waits(u) => Waits(t)
<1> DEFINE u == Started(t, r)
<1> USE StatusApart DEF Queue, AddToHwList, FlowLeft
<1>1. u \in Queue /\ u = [t EXCEPT !.status = u.status] /\ FlowLeft(t, u)
  BY DEF Started, Status
<1>2. MayPush(t) => MayPush(u)
  BY DEF MayPush, Started, Linked, IsStopped
<1>3. /\ r # "full" /\ FullIsFull(t) => FullIsFull(u)
      /\ r = "full" /\ t.credits > 0 => FullIsFull(u)
  BY DEF FullIsFull, Started
<1>4. Waits(u) => Waits(t)
  BY DEF Waits, Started, Linked, IsStopped
<1> QED
  BY <1>1, <1>2, <1>3, <1>4

\* aml_txq_stop adds a reason and takes the link away, nothing else.
LEMMA StoppedKeeps ==
  ASSUME NEW t \in Queue, NEW r \in Stop
  PROVE  LET u == StoppedFor(t, r) IN
         /\ u \in Queue /\ u = [t EXCEPT !.status = u.status] /\ FlowLeft(t, u)
         /\ MayPush(t) => MayPush(u)
         /\ r # "full" /\ FullIsFull(t) => FullIsFull(u)
         /\ r = "full" /\ t.credits <= 0 => FullIsFull(u)
         /\ ~Waits(u)
         /\ t.active => ~Linked(u)
<1> DEFINE u == StoppedFor(t, r)
<1> USE StatusApart DEF Queue, DelFromHwList, FlowLeft
<1>1. u \in Queue /\ u = [t EXCEPT !.status = u.status] /\ FlowLeft(t, u)
  BY DEF StoppedFor, Status
<1>2. (MayPush(t) => MayPush(u)) /\ (t.active => ~Linked(u))
  BY DEF MayPush, StoppedFor, Linked, IsStopped
<1>3. /\ r # "full" /\ FullIsFull(t) => FullIsFull(u)
      /\ r = "full" /\ t.credits <= 0 => FullIsFull(u)
  BY DEF FullIsFull, StoppedFor
<1>4. ~Waits(u)
  BY DEF Waits, StoppedFor, Linked, IsStopped
<1> QED
  BY <1>1, <1>2, <1>3, <1>4

\* After a change of credits the reason "full" is right again.
LEMMA RecountedKeeps ==
  ASSUME NEW t \in Queue
  PROVE  LET u == Recounted(t) IN
         /\ u \in Queue /\ u = [t EXCEPT !.status = u.status] /\ FlowLeft(t, u)
         /\ MayPush(t) => MayPush(u)
         /\ FullIsFull(u)
         /\ Waits(u) => Waits(t)
<1>1. CASE t.credits <= 0
  BY <1>1, StoppedKeeps, StatusApart DEF Recounted
<1>2. CASE t.credits > 0
  BY <1>2, StartedKeeps, StatusApart DEF Recounted, Queue
<1> QED
  BY <1>1, <1>2 DEF Queue

\* A frame is added to the end or to the frames sent again, and the queue linked
\* if nothing stops it.
LEMMA QueuedKeeps ==
  ASSUME NEW q \in TxQ, NEW t \in Queue, t.retry <= t.len, NEW again \in BOOLEAN
  PROVE  LET u == Queued(q, t, again) IN
         /\ u \in Queue /\ u.retry <= u.len /\ u.len = t.len + 1
         /\ u.active = t.active /\ u.credits = t.credits
         /\ FlowLeft(t, u) /\ (FlowStops(q, t) => "flow" \in u.status)
         /\ MayPush(t) /\ t.active => MayPush(u)
         /\ FullIsFull(t) => FullIsFull(u)
         /\ ~Waits(u)
         /\ IsStopped(u) <=> IsStopped(t)
         /\ Linked(u) <=> Linked(t) \/ ~IsStopped(t)
<1> DEFINE u == Queued(q, t, again)
<1> USE StatusApart DEF Queue, AddToHwList, FlowLeft
<1>1. /\ u \in Queue /\ u.retry <= u.len /\ u.len = t.len + 1
      /\ u.active = t.active /\ u.credits = t.credits
  <2> DEFINE s == IF FlowStops(q, t) THEN t.status \cup {"flow"} ELSE t.status
             k == t.retry + (IF again THEN 1 ELSE 0)
             v == [t EXCEPT !.len = @ + 1, !.retry = k, !.status = s]
  <2>1. s \in SUBSET Status /\ k \in Nat /\ k <= t.len + 1
    BY DEF Status
  <2>2. u = IF IsStopped(v) THEN v ELSE [v EXCEPT !.status = @ \cup {"listed"}]
    BY DEF Queued
  <2>3. /\ v \in Queue /\ v.retry = k /\ v.len = t.len + 1
        /\ v.active = t.active /\ v.credits = t.credits
    <3>1. t.len + 1 \in Nat
      OBVIOUS
    <3> HIDE DEF s, k, u
    <3> QED
      BY <2>1, <3>1
  <2> HIDE DEF s, k, v, u
  <2> QED
    BY <2>1, <2>2, <2>3 DEF Status
<1>2. FlowLeft(t, u) /\ (FlowStops(q, t) => "flow" \in u.status)
  BY DEF Queued
<1>3. /\ IsStopped(u) <=> IsStopped(t)
      /\ Linked(u) <=> Linked(t) \/ ~IsStopped(t)
  BY DEF Queued, Linked, IsStopped
<1>4. FullIsFull(t) => FullIsFull(u)
  BY DEF Queued, FullIsFull
<1> QED
  BY <1>1, <1>2, <1>3, <1>4 DEF MayPush, Waits

\* aml_tx_push, n times: the credits go down with the frames, and a queue that
\* has none left is stopped and unlinked.
LEMMA TxPushKeeps ==
  ASSUME NEW t \in Queue, NEW n \in Nat, n <= t.len, t.retry <= t.len
  PROVE  LET u == TxPush(t, n) IN
         /\ u \in Queue /\ u.retry <= u.len /\ u.len = t.len - n
         /\ u.active = t.active /\ u.credits = t.credits - n
         /\ "flow" \in u.status <=> "flow" \in t.status
         /\ MayPush(t) => MayPush(u)
         /\ t.credits > 0 /\ FullIsFull(t) => FullIsFull(u)
         /\ t.active /\ Linked(u) => Linked(t) /\ u.credits > 0
<1> DEFINE c == t.credits - n
           p == t.pushed + n
           l == t.len - n
           k == Less(t.retry, n)
           m == Less(t.limit, n)
           v == [t EXCEPT !.credits = c, !.pushed = p, !.len = l, !.retry = k, !.limit = m]
           u == TxPush(t, n)
<1>1. c \in Int /\ p \in Nat /\ l \in Nat /\ k \in Nat /\ m \in Nat /\ k <= l
  BY DEF Queue, Less
<1>2. u = IF v.credits <= 0 THEN StoppedFor(v, "full") ELSE v
  BY DEF TxPush
<1>3. /\ v \in Queue /\ v.credits = c /\ v.len = l /\ v.retry = k
      /\ v.active = t.active /\ v.status = t.status
  <2> HIDE DEF c, p, l, k, m, u
  <2> QED
    BY <1>1 DEF Queue
<1> SUFFICES /\ u \in Queue /\ u.retry <= u.len /\ u.len = l
             /\ u.active = t.active /\ u.credits = c
             /\ "flow" \in u.status <=> "flow" \in t.status
             /\ MayPush(t) => MayPush(u)
             /\ t.credits > 0 /\ FullIsFull(t) => FullIsFull(u)
             /\ t.active /\ Linked(u) => Linked(t) /\ u.credits > 0
  OBVIOUS
<1> HIDE DEF c, p, l, k, m, v, u
<1>4. CASE v.credits <= 0
  <2>1. /\ u \in Queue /\ u = [v EXCEPT !.status = u.status] /\ FullIsFull(u)
        /\ (MayPush(v) => MayPush(u)) /\ (v.active => ~Linked(u))
    BY <1>3, <1>2, <1>4, StoppedKeeps, StatusApart
  <2>2. "flow" \in u.status <=> "flow" \in v.status
    BY <1>2, <1>3, <1>4, StatusApart DEF StoppedFor, DelFromHwList, Queue
  <2>3. /\ u.retry = v.retry /\ u.len = v.len /\ u.active = v.active /\ u.credits = v.credits
    BY <1>3, <2>1 DEF Queue
  <2>4. MayPush(t) => MayPush(v)
    BY <1>3 DEF MayPush, Linked, IsStopped
  <2> QED
    BY <1>1, <1>3, <2>1, <2>2, <2>3, <2>4
<1>5. CASE v.credits > 0
  <2>1. u = v
    BY <1>2, <1>3, <1>5 DEF Queue
  <2>2. (MayPush(t) => MayPush(v)) /\ (t.credits > 0 /\ FullIsFull(t) => FullIsFull(v))
    BY <1>1, <1>3, <1>5 DEF MayPush, FullIsFull, Linked, IsStopped, Queue
  <2> QED
    BY <1>1, <1>3, <1>5, <2>1, <2>2 DEF Linked
<1> QED
  BY <1>1, <1>3, <1>4, <1>5

\* What a visit of aml_hwq_process leaves of a queue: linked only if it has
\* credits and is not done, flow controlled unless few frames are left.
LEMMA AfterPushKeeps ==
  ASSUME NEW t \in Queue, NEW n \in Nat, n <= t.len, t.retry <= t.len, FlowRestart \in Nat
  PROVE  LET u == AfterPush(t, n) IN
         /\ u \in Queue /\ u.retry <= u.len /\ u.len = t.len - n
         /\ u.active = t.active /\ u.credits = t.credits - n
         /\ "flow" \in u.status <=> "flow" \in t.status /\ ~Restarts(TxPush(t, n))
         /\ MayPush(t) => MayPush(u)
         /\ t.credits > 0 /\ FullIsFull(t) => FullIsFull(u)
         /\ t.active /\ Linked(u) => Linked(t) /\ u.credits > 0 /\ ~Done(t, n)
<1> DEFINE w == TxPush(t, n)
           v == IF Done(t, n) THEN DelFromHwList(w) ELSE w
           u == AfterPush(t, n)
<1>1. /\ w \in Queue /\ w.retry <= w.len /\ w.len = t.len - n
      /\ w.active = t.active /\ w.credits = t.credits - n
      /\ "flow" \in w.status <=> "flow" \in t.status
      /\ MayPush(t) => MayPush(w)
      /\ t.credits > 0 /\ FullIsFull(t) => FullIsFull(w)
      /\ t.active /\ Linked(w) => Linked(t) /\ w.credits > 0
  BY TxPushKeeps
<1>2. u = [v EXCEPT !.limit = 0, !.status = IF Restarts(v) THEN @ \ {"flow"} ELSE @]
  BY DEF AfterPush
<1> HIDE DEF w, u
<1>3. /\ v \in Queue /\ v.retry = w.retry /\ v.len = w.len /\ v.active = w.active
      /\ v.credits = w.credits
      /\ "flow" \in v.status <=> "flow" \in w.status
      /\ MayPush(w) => MayPush(v)
      /\ FullIsFull(w) => FullIsFull(v)
      /\ Linked(v) => Linked(w) /\ ~Done(t, n)
  BY <1>1, StatusApart DEF DelFromHwList, Queue, MayPush, FullIsFull, Linked, IsStopped
<1> HIDE DEF v
<1>4. /\ u \in Queue /\ u.retry = v.retry /\ u.len = v.len /\ u.active = v.active
      /\ u.credits = v.credits
      /\ u.status = IF Restarts(v) THEN v.status \ {"flow"} ELSE v.status
  BY <1>2, <1>3 DEF Queue
<1>5. Restarts(v) <=> Restarts(w)
  BY <1>3 DEF Restarts
<1>6. /\ "flow" \in u.status <=> "flow" \in v.status /\ ~Restarts(v)
      /\ MayPush(v) => MayPush(u)
      /\ FullIsFull(v) => FullIsFull(u)
      /\ Linked(u) => Linked(v)
  BY <1>4, StatusApart DEF MayPush, FullIsFull, Linked, IsStopped
<1> HIDE DEF Restarts
<1>7. Restarts(w) <=> Restarts(TxPush(t, n))
  BY DEF w
<1> QED
  BY <1>1, <1>3, <1>4, <1>5, <1>6, <1>7 DEF u

-----------------------------------------------------------------------------
(* Types.                                                                      *)

LEMMA ModType ==
  ASSUME NEW x \in Int
  PROVE  x % Wide \in 0 .. Wide - 1
BY QueueAssumption

LEMMA SetQueuesType ==
  ASSUME TypeOK, NEW n \in [TxQ -> Queue], NEW wanted \in BOOLEAN, SetQueues(n, wanted)
  PROVE  txq' = n /\ list' \subseteq TxQ /\ need' \in BOOLEAN /\ cut' \subseteq TxQ
BY DEF TypeOK, SetQueues

LEMMA PushedNumber ==
  ASSUME NEW t \in Queue, t.credits > 0, credits \in Nat
  PROVE  NbToPush(t) \in Nat /\ NbToPush(t) <= t.len /\ NbToPush(t) <= credits
BY DEF Queue, NbToPush, GetCredits, Least

LEMMA DroppedNumber ==
  ASSUME NEW t \in Queue
  PROVE  RetryDropped(t) \in Nat /\ RetryDropped(t) <= t.retry
BY DEF Queue, RetryDropped

LEMMA FrameTakenType ==
  ASSUME TypeOK, NEW q \in TxQ
  PROVE  Returned(txq[q]) \in Queue
BY DEF TypeOK, Queue, Returned, Less

LEMMA PsQueuedType ==
  ASSUME TypeOK
  PROVE  PsQueued \in [active : BOOLEAN, ready : 0 .. Wide - 1, sp : 0 .. Wide - 1]
<1>1. ps.ready + 1 \in Int
  BY QueueAssumption DEF TypeOK
<1>2. (ps.ready + 1) % Wide \in 0 .. Wide - 1
  BY <1>1, ModType
<1> QED
  BY <1>2 DEF TypeOK, PsQueued

LEMMA GrantType ==
  ASSUME TypeOK, NEW q \in TxQ, NEW m \in Nat
  PROVE  Grant(q, m) \in Nat
<1> USE QueueAssumption
<1>1. Available(q) \in Nat
  <2>1. txq[q].credits \in Int /\ txq[q].len \in Nat
    BY DEF TypeOK, Queue
  <2>2. txq[q].credits % Wide \in 0 .. Wide - 1
    BY <2>1, ModType
  <2> QED
    BY <2>1, <2>2 DEF Available
<1>2. Before(q) \in Nat
  <2>1. IsFiniteSet({r \in TxQ : r > q})
    BY FS_Subset
  <2> QED
    BY <2>1, PointsFinite DEF Before
<1> QED
  BY <1>1, <1>2 DEF Grant, Least

LEMMA CreditedType ==
  ASSUME TypeOK, NEW q \in TxQ, NEW a \in Update
  PROVE  Credited(txq[q], Offset(a)) \in Int
<1>1. a \in Int /\ HwSize \in Int /\ InitCredits \in Int
  BY QueueAssumption
<1>2. Offset(a) \in Int
  BY <1>1 DEF Offset
<1>3. txq[q].credits \in Int /\ txq[q].pushed \in Int
  BY DEF TypeOK, Queue
<1> QED
  BY <1>1, <1>2, <1>3 DEF Credited

\* One step keeps every variable in its type: a visit takes no more frames than
\* there are, and no more credits; more frames are dropped or sent than are to be
\* sent again only together with those.
LEMMA TypeStep ==
  TypeOK /\ [Next]_vars => TypeOK'
<1> SUFFICES ASSUME TypeOK, [Next]_vars
             PROVE  TypeOK'
  OBVIOUS
<1> USE QueueAssumption
<1>1. ASSUME NEW q \in TxQ, Xmit(q) PROVE TypeOK'
  <2> DEFINE t == Queued(q, txq[q], FALSE)
  <2>1. t \in Queue /\ t.retry <= t.len
    BY QueuedKeeps DEF TypeOK
  <2>2. PsQueued \in [active : BOOLEAN, ready : 0 .. Wide - 1, sp : 0 .. Wide - 1]
    BY PsQueuedType
  <2>3. Stops(q) \subseteq FlowQ
    BY DEF TypeOK, Stops, FlowStops
  <2>4. /\ txq' = [txq EXCEPT ![q] = t] /\ ps' = PsQueued /\ subq' = Stops(q)
        /\ list' = IF Linked(t) THEN list \cup {q} ELSE list
        /\ need' = (need /\ IsStopped(t))
        /\ todo' = IF IsStopped(t) THEN {} ELSE list'
        /\ cut' = IF Linked(t) THEN cut \ {q} ELSE cut
        /\ UNCHANGED <<bus, credits, fw, tail, dead, turns>>
    BY <1>1 DEF Xmit
  <2> HIDE DEF t
  <2>5. txq' \in [TxQ -> Queue] /\ \A p \in TxQ : txq'[p].retry <= txq'[p].len
    BY <2>1, <2>4 DEF TypeOK
  <2> QED
    BY <2>2, <2>3, <2>4, <2>5 DEF TypeOK, IsStopped
<1>2. CASE Process
  BY <1>2 DEF TypeOK, Process
<1>3. ASSUME NEW q \in TxQ, VisitSkip(q) \/ VisitNoCredit(q) PROVE TypeOK'
  BY <1>3 DEF TypeOK, VisitSkip, VisitNoCredit
<1>4. ASSUME NEW q \in TxQ, VisitPush(q) PROVE TypeOK'
  <2> DEFINE n == NbToPush(txq[q])
             u == TxPush(txq[q], n)
             t == AfterPush(txq[q], n)
  <2>1. txq[q] \in Queue /\ txq[q].retry <= txq[q].len /\ txq[q].credits > 0
    BY <1>4 DEF TypeOK, VisitPush, Skipped, Queue
  <2>2. n \in Nat /\ n <= txq[q].len /\ n <= credits
    BY <2>1, PushedNumber DEF TypeOK
  <2>3. /\ txq' = [txq EXCEPT ![q] = t]
        /\ list' = IF Linked(t) THEN list ELSE list \ {q}
        /\ credits' = credits - n /\ fw' = [fw EXCEPT ![q] = @ + n]
        /\ ps' = IF ps.active
                   THEN [ps EXCEPT !.ready = (@ - n) % Wide, !.sp = (@ - n - u.limit) % Wide]
                   ELSE ps
        /\ subq' = IF Restarts(u) THEN subq \ {q} ELSE subq
        /\ cut' = IF ~Linked(t) /\ ~IsStopped(t) /\ t.len > 0 THEN cut \cup {q} ELSE cut
        /\ todo' = todo \ {q} /\ dead' = dead \cap subq'
        /\ UNCHANGED <<bus, need, tail, turns>>
    BY <1>4 DEF VisitPush
  <2> HIDE DEF n
  <2>4. u \in Queue /\ t \in Queue /\ t.retry <= t.len
    BY <2>1, <2>2, TxPushKeeps, AfterPushKeeps
  <2> HIDE DEF u, t
  <2>5. ps.ready - n \in Int /\ ps.sp - n - u.limit \in Int
    BY <2>2, <2>4 DEF TypeOK, Queue
  <2>6. (ps.ready - n) % Wide \in 0 .. Wide - 1 /\ (ps.sp - n - u.limit) % Wide \in 0 .. Wide - 1
    BY <2>5, ModType
  <2>7. ps' \in [active : BOOLEAN, ready : 0 .. Wide - 1, sp : 0 .. Wide - 1]
    BY <2>3, <2>6 DEF TypeOK
  <2>8. /\ txq' \in [TxQ -> Queue] /\ \A p \in TxQ : txq'[p].retry <= txq'[p].len
        /\ credits' \in Nat /\ fw' \in [TxQ -> Nat]
    BY <2>2, <2>3, <2>4 DEF TypeOK
  <2> QED
    BY <2>3, <2>7, <2>8 DEF TypeOK
<1>5. ASSUME NEW q \in TxQ, NEW c \in {0, 1}, Confirm(q, c) PROVE TypeOK'
  <2> DEFINE t == Returned(txq[q])
             v == [t EXCEPT !.credits = @ + c]
             u == IF t.active /\ c # 0 THEN Recounted(v) ELSE t
             n == [txq EXCEPT ![q] = u]
  <2>1. t \in Queue /\ t.retry <= t.len
    BY FrameTakenType DEF TypeOK, Returned, Queue
  <2>2. /\ SetQueues(n, Returns) /\ fw[q] > 0 /\ fw' = [fw EXCEPT ![q] = @ - 1]
        /\ credits' = IF Returns THEN credits + 1 ELSE credits
        /\ UNCHANGED <<bus, todo, tail, dead, turns, ps, subq>>
    BY <1>5 DEF Confirm, ConfirmAny
  <2> HIDE DEF t
  <2>3. v \in Queue /\ v.retry <= v.len
    BY <2>1 DEF Queue
  <2> HIDE DEF v
  <2>4. u \in Queue /\ u.retry <= u.len
    BY <2>1, <2>3, RecountedKeeps DEF Queue
  <2> HIDE DEF u
  <2>5. n \in [TxQ -> Queue] /\ \A p \in TxQ : n[p].retry <= n[p].len
    BY <2>4 DEF TypeOK
  <2>6. Returns \in BOOLEAN
    BY DEF Returns
  <2> HIDE DEF n
  <2>7. txq' = n /\ list' \subseteq TxQ /\ need' \in BOOLEAN /\ cut' \subseteq TxQ
    BY <2>2, <2>5, <2>6, SetQueuesType
  <2>8. fw' \in [TxQ -> Nat] /\ credits' \in Nat
    BY <2>2 DEF TypeOK
  <2> QED
    BY <2>2, <2>5, <2>7, <2>8 DEF TypeOK
<1>6. ASSUME NEW q \in TxQ, ConfirmRetry(q) PROVE TypeOK'
  <2> DEFINE r == Returned(txq[q])
             t == [r EXCEPT !.credits = @ + 1]
             u == IF t.credits > 0 THEN Started(t, "full") ELSE t
             w == Queued(q, u, TRUE)
             n == [txq EXCEPT ![q] = w]
  <2>1. r \in Queue /\ r.retry <= r.len
    BY FrameTakenType DEF TypeOK, Returned, Queue
  <2>2. /\ SetQueues(n, Returns) /\ fw[q] > 0 /\ fw' = [fw EXCEPT ![q] = @ - 1]
        /\ credits' = IF Returns THEN credits + 1 ELSE credits
        /\ ps' = PsQueued /\ subq' = Stops(q)
        /\ UNCHANGED <<bus, todo, tail, dead, turns>>
    BY <1>6 DEF ConfirmRetry, ConfirmAny
  <2> HIDE DEF r
  <2>3. t \in Queue /\ t.retry <= t.len
    BY <2>1 DEF Queue
  <2> HIDE DEF t
  <2>4. u \in Queue /\ u.retry <= u.len
    BY <2>3, StartedKeeps, StatusApart DEF Queue
  <2> HIDE DEF u
  <2>5. w \in Queue /\ w.retry <= w.len
    BY <2>4, QueuedKeeps
  <2> HIDE DEF w
  <2>6. n \in [TxQ -> Queue] /\ \A p \in TxQ : n[p].retry <= n[p].len
    BY <2>5 DEF TypeOK
  <2>7. Returns \in BOOLEAN
    BY DEF Returns
  <2> HIDE DEF n
  <2>8. txq' = n /\ list' \subseteq TxQ /\ need' \in BOOLEAN /\ cut' \subseteq TxQ
    BY <2>2, <2>6, <2>7, SetQueuesType
  <2>9. PsQueued \in [active : BOOLEAN, ready : 0 .. Wide - 1, sp : 0 .. Wide - 1]
    BY PsQueuedType
  <2>10. Stops(q) \subseteq FlowQ /\ fw' \in [TxQ -> Nat] /\ credits' \in Nat
    BY <2>2 DEF TypeOK, Stops, FlowStops
  <2> QED
    BY <2>2, <2>6, <2>8, <2>9, <2>10 DEF TypeOK
<1>7. ASSUME NEW q \in TxQ, NEW a \in Update, CreditUpdate(q, a) PROVE TypeOK'
  <2> DEFINE v == [txq[q] EXCEPT !.credits = Credited(txq[q], Offset(a))]
             t == IF txq[q].active THEN Recounted(v) ELSE txq[q]
             d == IF Offset(a) < InitCredits THEN RetryDropped(t) ELSE 0
             u == [t EXCEPT !.len = @ - d, !.retry = @ - d]
             n == [txq EXCEPT ![q] = u]
  <2>1. txq[q] \in Queue /\ txq[q].retry <= txq[q].len
    BY DEF TypeOK
  <2>2. /\ SetQueues(n, FALSE) /\ turns' = turns + 1
        /\ UNCHANGED <<bus, credits, todo, fw, ps, subq, tail, dead>>
    BY <1>7 DEF CreditUpdate
  <2>3. Credited(txq[q], Offset(a)) \in Int
    BY CreditedType
  <2>4. v \in Queue /\ v.retry <= v.len
    BY <2>1, <2>3 DEF Queue
  <2> HIDE DEF v
  <2>5. t \in Queue /\ t.retry <= t.len
    BY <2>1, <2>4, RecountedKeeps DEF Queue
  <2> HIDE DEF t
  <2>6. d \in Nat /\ d <= t.retry
    BY <2>5, DroppedNumber DEF Queue
  <2> HIDE DEF d
  <2>7. u \in Queue /\ u.retry <= u.len
    <3>1. t.len - d \in Nat /\ t.retry - d \in Nat /\ t.retry - d <= t.len - d
      BY <2>5, <2>6 DEF Queue
    <3> QED
      BY <2>5, <3>1 DEF Queue
  <2> HIDE DEF u
  <2>8. n \in [TxQ -> Queue] /\ \A p \in TxQ : n[p].retry <= n[p].len
    BY <2>7 DEF TypeOK
  <2> HIDE DEF n
  <2>9. txq' = n /\ list' \subseteq TxQ /\ need' \in BOOLEAN /\ cut' \subseteq TxQ
    BY <2>2, <2>8, SetQueuesType
  <2> QED
    BY <2>2, <2>8, <2>9 DEF TypeOK
\* The stops and starts of all queues at once.
<1>8. ASSUME NEW n \in [TxQ -> Queue], SetQueues(n, FALSE),
             \A p \in TxQ : n[p].retry <= n[p].len,
             ps' \in [active : BOOLEAN, ready : 0 .. Wide - 1, sp : 0 .. Wide - 1],
             UNCHANGED <<bus, credits, todo, fw, subq, tail, dead, turns>>
      PROVE  TypeOK'
  <2>1. txq' = n /\ list' \subseteq TxQ /\ need' \in BOOLEAN /\ cut' \subseteq TxQ
    BY <1>8, SetQueuesType
  <2> QED
    BY <1>8, <2>1 DEF TypeOK
<1>9. ASSUME NEW r \in Stop
      PROVE  /\ [q \in TxQ |-> StoppedFor(txq[q], r)] \in [TxQ -> Queue]
             /\ \A p \in TxQ : StoppedFor(txq[p], r).retry <= StoppedFor(txq[p], r).len
             /\ [q \in TxQ |-> Started(txq[q], r)] \in [TxQ -> Queue]
             /\ \A p \in TxQ : Started(txq[p], r).retry <= Started(txq[p], r).len
  BY <1>9, StoppedKeeps, StartedKeeps DEF TypeOK, Queue
<1>10. CASE PsEnable
  <2>1. Total([q \in TxQ |-> txq[q].len]) % Wide \in 0 .. Wide - 1
    BY PointsFinite, ModType
  <2>2. 0 \in 0 .. Wide - 1
    OBVIOUS
  <2>3. ps' \in [active : BOOLEAN, ready : 0 .. Wide - 1, sp : 0 .. Wide - 1]
    BY <1>10, <2>1, <2>2 DEF PsEnable
  <2> QED
    BY <1>8, <1>9, <1>10, <2>3, StatusApart DEF PsEnable
<1>11. CASE PsDisable
  <2> DEFINE n == [q \in TxQ |-> Started([txq[q] EXCEPT !.limit = 0], "ps")]
  <2>1. ASSUME NEW q \in TxQ
        PROVE  n[q] \in Queue /\ n[q].retry <= n[q].len
    <3> DEFINE t == [txq[q] EXCEPT !.limit = 0]
    <3>1. t \in Queue /\ t.retry <= t.len /\ n[q] = Started(t, "ps")
      BY DEF TypeOK, Queue
    <3> HIDE DEF t, n
    <3> QED
      BY <3>1, StartedKeeps, StatusApart DEF Queue
  <2>2. n \in [TxQ -> Queue] /\ \A p \in TxQ : n[p].retry <= n[p].len
    BY <2>1
  <2>3. ps' \in [active : BOOLEAN, ready : 0 .. Wide - 1, sp : 0 .. Wide - 1]
    BY <1>11 DEF PsDisable, Awake
  <2> QED
    BY <1>8, <1>11, <2>2, <2>3 DEF PsDisable
<1>12. ASSUME NEW k \in Request, TrafficReq(k) PROVE TypeOK'
  <2> DEFINE m == IF k = 0 THEN ps.ready ELSE Least(k, ps.ready)
             g == [q \in TxQ |-> Grant(q, m)]
  <2>1. ps.ready \in Nat /\ m \in Nat
    BY DEF TypeOK, Least
  <2>2. /\ SetQueues(Granted(m), FALSE) /\ ps' = [ps EXCEPT !.sp = Total(g) % Wide]
        /\ UNCHANGED <<bus, credits, todo, fw, subq, tail, dead, turns>>
    BY <1>12 DEF TrafficReq
  <2> HIDE DEF m
  <2>3. ASSUME NEW q \in TxQ
        PROVE  Granted(m)[q] \in Queue /\ Granted(m)[q].retry <= Granted(m)[q].len
    <3> DEFINE t == [txq[q] EXCEPT !.limit = Grant(q, m)]
    <3>3. Grant(q, m) \in Nat
      BY <2>1, GrantType
    <3>4. t \in Queue /\ t.retry <= t.len
      BY <3>3 DEF TypeOK, Queue
    <3>5. Granted(m)[q] = IF Grant(q, m) = 0 THEN txq[q] ELSE Started(t, "ps")
      BY DEF Granted
    <3> HIDE DEF t
    <3>6. Started(t, "ps") \in Queue /\ Started(t, "ps").retry <= Started(t, "ps").len
      BY <3>4, StartedKeeps, StatusApart DEF Queue
    <3> QED
      BY <3>5, <3>6 DEF TypeOK
  <2>4. Total(g) % Wide \in 0 .. Wide - 1
    <3>1. IsFiniteSet(DOMAIN g)
      OBVIOUS
    <3>2. Total(g) \in Int
      BY <3>1, PointsFinite
    <3> QED
      BY <3>2, ModType
  <2>5. ps' \in [active : BOOLEAN, ready : 0 .. Wide - 1, sp : 0 .. Wide - 1]
    BY <2>2, <2>4 DEF TypeOK
  <2>6. Granted(m) \in [TxQ -> Queue]
    BY <2>3 DEF Granted
  <2> QED
    BY <1>8, <2>2, <2>3, <2>5, <2>6
<1>13. ASSUME NEW r \in Reasons, VifStop(r) \/ VifStart(r) PROVE TypeOK'
  <2>1. /\ r \in Stop
        /\ ps' \in [active : BOOLEAN, ready : 0 .. Wide - 1, sp : 0 .. Wide - 1]
        /\ UNCHANGED <<bus, credits, todo, fw, subq, tail, dead, turns>>
    BY <1>13, StatusApart DEF VifStop, VifStart, TypeOK
  <2>2. CASE VifStop(r)
    BY <1>8, <1>9, <2>1, <2>2 DEF VifStop
  <2>3. CASE VifStart(r)
    BY <1>8, <1>9, <2>1, <2>3 DEF VifStart
  <2> QED
    BY <1>13, <2>2, <2>3
<1>14. ASSUME NEW q \in TxQ, NEW old \in 0 .. MaxLen[q], TimerDrop(q, old) PROVE TypeOK'
  <2> DEFINE d == IF ps.active THEN Least(old, ps.sp) ELSE 0
             t == [txq[q] EXCEPT !.len = @ - old, !.limit = Less(@, d)]
             u == IF t.len = 0 THEN DelFromHwList(t) ELSE t
             n == [txq EXCEPT ![q] = u]
  <2>1. old \in Nat /\ d \in Nat /\ ps.sp - d \in 0 .. Wide - 1 /\ ps.ready - old \in Int
    BY BoundAssumption DEF TypeOK, Least
  <2>2. /\ old <= txq[q].len - txq[q].retry /\ SetQueues(n, FALSE)
        /\ ps' = IF ps.active THEN [ps EXCEPT !.ready = (@ - old) % Wide, !.sp = @ - d] ELSE ps
        /\ tail' = IF q \in FlowQ THEN [at |-> "check", q |-> q, saw |-> {}] ELSE NoTail
        /\ UNCHANGED <<bus, credits, todo, fw, subq, dead, turns>>
    BY <1>14 DEF TimerDrop
  <2> HIDE DEF d
  <2>3. /\ txq[q] \in Queue
        /\ txq[q].len - old \in Nat /\ txq[q].retry <= txq[q].len - old
        /\ Less(txq[q].limit, d) \in Nat
    BY <2>1, <2>2 DEF TypeOK, Queue, Less
  <2>4. t \in Queue /\ t.retry <= t.len
    BY <2>3 DEF Queue
  <2> HIDE DEF t
  <2>5. u \in Queue /\ u.retry <= u.len
    BY <2>4 DEF Queue, DelFromHwList
  <2> HIDE DEF u
  <2>6. n \in [TxQ -> Queue] /\ \A p \in TxQ : n[p].retry <= n[p].len
    BY <2>5 DEF TypeOK
  <2> HIDE DEF n
  <2>7. txq' = n /\ list' \subseteq TxQ /\ need' \in BOOLEAN /\ cut' \subseteq TxQ
    BY <2>2, <2>6, SetQueuesType
  <2>8. (ps.ready - old) % Wide \in 0 .. Wide - 1
    BY <2>1, ModType
  <2>9. ps' \in [active : BOOLEAN, ready : 0 .. Wide - 1, sp : 0 .. Wide - 1]
    BY <2>1, <2>2, <2>8 DEF TypeOK
  <2>10. tail' \in Tail
    BY <2>2 DEF Tail
  <2> QED
    BY <2>2, <2>6, <2>7, <2>9, <2>10 DEF TypeOK
<1>15. CASE TimerCheck
  <2>1. tail \in [at : {"check", "clear", "wake"}, q : TxQ, saw : SUBSET Status]
    BY <1>15 DEF TypeOK, TimerCheck, Tail, NoTail
  <2> DEFINE s == IF MayRace THEN txq[tail.q].status ELSE {}
  <2>2. s \in SUBSET Status
    BY <2>1 DEF TypeOK, Queue
  <2>3. tail' \in {NoTail, [tail EXCEPT !.at = "clear", !.saw = s]}
    BY <1>15 DEF TimerCheck
  <2> HIDE DEF s
  <2>4. tail' \in Tail
    BY <2>1, <2>2, <2>3 DEF Tail
  <2> QED
    BY <1>15, <2>4 DEF TypeOK, TimerCheck
<1>16. CASE TimerClear
  <2>1. tail.q \in TxQ /\ tail.saw \in SUBSET Status /\ tail' \in Tail
    <3>1. tail \in [at : {"check", "clear", "wake"}, q : TxQ, saw : SUBSET Status]
      BY <1>16 DEF TypeOK, TimerClear, Tail, NoTail
    <3> QED
      BY <1>16, <3>1 DEF TimerClear, Tail
  <2> DEFINE s == (IF MayRace THEN tail.saw ELSE txq[tail.q].status) \ {"flow"}
  <2>2. s \in SUBSET Status /\ txq' = [txq EXCEPT ![tail.q].status = s]
    BY <1>16, <2>1 DEF TypeOK, TimerClear, Queue
  <2> HIDE DEF s
  <2>3. txq' \in [TxQ -> Queue] /\ \A p \in TxQ : txq'[p].retry <= txq'[p].len
    BY <2>1, <2>2 DEF TypeOK, Queue
  <2> QED
    BY <1>16, <2>1, <2>3 DEF TypeOK, TimerClear
<1>17. CASE TimerWake
  BY <1>17 DEF TypeOK, TimerWake, Tail
<1>18. ASSUME NEW q \in TxQ, Deinit(q) PROVE TypeOK'
  <2> DEFINE t == [DelFromHwList(txq[q]) EXCEPT !.active = FALSE, !.len = 0, !.retry = 0]
             n == [txq EXCEPT ![q] = t]
  <2>1. t \in Queue /\ t.retry <= t.len
    <3> DEFINE w == DelFromHwList(txq[q])
    <3>1. w \in Queue
      BY DEF TypeOK, Queue, DelFromHwList
    <3> HIDE DEF w
    <3>2. [w EXCEPT !.active = FALSE, !.len = 0, !.retry = 0] \in Queue
      BY <3>1 DEF Queue
    <3>3. t = [w EXCEPT !.active = FALSE, !.len = 0, !.retry = 0]
      BY DEF w
    <3>4. t.retry = 0 /\ t.len = 0
      BY <3>1, <3>3 DEF Queue
    <3> QED
      BY <3>2, <3>3, <3>4
  <2> HIDE DEF t
  <2>2. n \in [TxQ -> Queue] /\ \A p \in TxQ : n[p].retry <= n[p].len
    BY <2>1 DEF TypeOK
  <2>3. ps' \in [active : BOOLEAN, ready : 0 .. Wide - 1, sp : 0 .. Wide - 1]
    BY <1>18 DEF Deinit, Awake
  <2>4. SetQueues(n, FALSE) /\ UNCHANGED <<bus, credits, todo, fw, subq, tail, dead, turns>>
    BY <1>18 DEF Deinit, t
  <2> QED
    BY <1>8, <2>2, <2>3, <2>4
<1>19. ASSUME NEW s \in {{}} \cup {{r} : r \in Reasons}, Join(s) PROVE TypeOK'
  <2>1. s \in SUBSET Status
    BY StatusApart
  <2>2. Fresh(s) \in Queue /\ Fresh(s).retry <= Fresh(s).len
    BY <2>1 DEF Fresh, Queue
  <2> QED
    BY <1>19, <2>2 DEF TypeOK, Join
<1>20. CASE UNCHANGED vars
  BY <1>20 DEF TypeOK, vars
<1> QED
  BY <1>1, <1>2, <1>3, <1>4, <1>5, <1>6, <1>7, <1>10, <1>11, <1>12, <1>13, <1>14, <1>15, <1>16,
     <1>17, <1>18, <1>19, <1>20 DEF Next, Senders, Confirmations, Messages, Timer, Stations

\* Every variable keeps its type; no credit of the hardware queue and no number
\* of frames goes below zero, and no queue has more frames to send again than
\* frames, which aml_tx_push and aml_txq_drop_old_traffic count on.
THEOREM TypeCorrect == Spec => []TypeOK
<1>1. Init => TypeOK
  <2>1. Fresh({}) \in Queue /\ Fresh({}).retry <= Fresh({}).len
    BY QueueAssumption DEF Fresh, Queue
  <2>2. Awake \in [active : BOOLEAN, ready : 0 .. Wide - 1, sp : 0 .. Wide - 1]
    BY QueueAssumption DEF Awake
  <2>3. NoTail \in Tail
    BY DEF Tail
  <2>4. HwSize \in Nat
    BY QueueAssumption
  <2> SUFFICES ASSUME Init PROVE TypeOK
    OBVIOUS
  <2>5. txq \in [TxQ -> Queue] /\ \A q \in TxQ : txq[q].retry <= txq[q].len
    BY <2>1 DEF Init
  <2>6. fw \in [TxQ -> Nat] /\ turns \in Nat /\ credits \in Nat
    BY <2>4 DEF Init
  <2>7. /\ bus \in {"pcie", "sdio"} /\ list \subseteq TxQ /\ need \in BOOLEAN /\ todo \subseteq TxQ
        /\ subq \subseteq FlowQ /\ cut \subseteq TxQ /\ dead \subseteq TxQ
    BY DEF Init
  <2>8. ps \in [active : BOOLEAN, ready : 0 .. Wide - 1, sp : 0 .. Wide - 1] /\ tail \in Tail
    BY <2>2, <2>3 DEF Init
  <2> QED
    BY <2>5, <2>6, <2>7, <2>8 DEF TypeOK
<1> QED
  BY <1>1, TypeStep, PTL DEF Spec

-----------------------------------------------------------------------------
(* Credits.                                                                    *)

\* A credit of the hardware queue leaves with a frame and returns with its
\* confirmation, which the size of the hardware queue never refuses.
LEMMA CreditsStep ==
  TypeOK /\ CreditsKept /\ [Next]_vars => CreditsKept'
<1> SUFFICES ASSUME TypeOK, CreditsKept, [Next]_vars
             PROVE  CreditsKept'
  OBVIOUS
<1> USE QueueAssumption
<1>1. /\ fw \in [TxQ -> Nat] /\ credits \in Nat
      /\ Total(fw) \in Nat /\ credits + Total(fw) = HwSize
  BY PointsFinite DEF TypeOK, CreditsKept
<1>2. ASSUME NEW q \in TxQ, VisitPush(q) PROVE CreditsKept'
  <2> DEFINE n == NbToPush(txq[q])
  <2>1. credits' = credits - n /\ fw' = [fw EXCEPT ![q] = @ + n]
    BY <1>2 DEF VisitPush
  <2>2. n \in Nat /\ n <= credits
    <3>1. txq[q] \in Queue /\ txq[q].credits > 0
      BY <1>2 DEF TypeOK, VisitPush, Skipped, Queue
    <3> QED
      BY <1>1, <3>1, PushedNumber
  <2> HIDE DEF n
  <2>3. Least(fw[q], Wide) <= Total(fw)
    BY <1>1, TotalCovers
  <2>4. fw[q] + n <= Wide
    BY <1>1, <2>2, <2>3 DEF Least
  <2>5. Total(fw') = Total(fw) + n
    BY <1>1, <2>1, <2>2, <2>4, TotalGrows
  <2> QED
    BY <1>1, <2>1, <2>2, <2>5 DEF CreditsKept
<1>3. ASSUME NEW q \in TxQ, ConfirmAny(q) PROVE CreditsKept'
  <2>1. fw[q] > 0 /\ fw' = [fw EXCEPT ![q] = @ - 1] /\ credits' = credits + 1
    BY <1>1, <1>3 DEF ConfirmAny, Returns
  <2> DEFINE k == fw[q] - 1
  <2>k. k \in Nat /\ k + 1 = fw[q] /\ fw' = [fw EXCEPT ![q] = k]
    BY <1>1, <2>1
  <2> HIDE DEF k
  <2>2. /\ fw' \in [TxQ -> Nat] /\ fw'[q] + 1 = fw[q]
        /\ fw = [fw' EXCEPT ![q] = @ + 1]
    BY <1>1, <2>k
  <2>3. Least(fw[q], Wide) <= Total(fw)
    BY <1>1, TotalCovers
  <2>4. fw'[q] + 1 <= Wide
    BY <1>1, <2>2, <2>3 DEF Least
  <2>5. Total(fw) = Total(fw') + 1 /\ Total(fw') \in Nat
    <3>1. Total([fw' EXCEPT ![q] = @ + 1]) = Total(fw') + 1
      BY <2>2, <2>4, TotalGrows
    <3> QED
      BY <2>2, <3>1, PointsFinite
  <2> QED
    BY <1>1, <2>1, <2>5 DEF CreditsKept
<1>4. CASE UNCHANGED <<fw, credits>>
  BY <1>4 DEF CreditsKept
<1> QED
  BY <1>2, <1>3, <1>4 DEF Next, Senders, Confirmations, Messages, Timer, Stations, vars,
     Xmit, Process, VisitSkip, VisitNoCredit, Confirm, ConfirmRetry, CreditUpdate, PsEnable,
     PsDisable, TrafficReq, VifStop, VifStart, TimerDrop, TimerCheck, TimerClear, TimerWake,
     Deinit, Join

\* A credit of the hardware queue is there or with a frame of the firmware, for
\* any number of queues, whoever owns them when the frames come back.
THEOREM CreditsCorrect == Spec => []CreditsKept
<1>1. Init => CreditsKept
  <2> SUFFICES ASSUME Init PROVE CreditsKept
    OBVIOUS
  <2>1. fw = [q \in TxQ |-> 0] /\ credits = HwSize
    BY DEF Init
  <2>2. Points(fw) = {}
    BY <2>1, QueueAssumption DEF Points
  <2>3. Total(fw) = 0
    <3>1. IsFiniteSet(DOMAIN fw)
      BY <2>1, QueueAssumption
    <3> QED
      BY <2>2, <3>1, PointsFinite, FS_EmptySet
  <2> QED
    BY <2>1, <2>3, QueueAssumption DEF CreditsKept
<1> QED
  BY <1>1, CreditsStep, TypeCorrect, PTL DEF Spec

-----------------------------------------------------------------------------
(* Flow control.                                                               *)

\* Whoever clears the flag wakes the subqueue: the visit in the same step, the
\* timer in its next one, also when it writes back a status that is stale.
LEMMA FlowStep ==
  TypeOK /\ FlowKept /\ [Next]_vars => FlowKept'
<1> SUFFICES ASSUME TypeOK, FlowKept, [Next]_vars
             PROVE  FlowKept'
  OBVIOUS
<1> USE QueueAssumption
<1>0. /\ subq \subseteq FlowQ /\ FlowQ \subseteq TxQ
      /\ \A q \in TxQ : txq[q] \in Queue /\ txq[q].retry <= txq[q].len
  BY DEF TypeOK
\* A step that leaves the subqueues, the timer and the dead queues alone.
<1> DEFINE Calm == UNCHANGED <<subq, tail, dead>>
<1>s. ASSUME NEW n \in [TxQ -> Queue], NEW w \in BOOLEAN, SetQueues(n, w), Calm,
             \A q \in TxQ : FlowLeft(txq[q], n[q])
      PROVE  FlowKept'
  BY <1>0, <1>s DEF FlowKept, FlowLeft, SetQueues
<1>1. ASSUME NEW q \in TxQ, Xmit(q) PROVE FlowKept'
  <2> DEFINE t == Queued(q, txq[q], FALSE)
  <2>1. FlowLeft(txq[q], t) /\ (FlowStops(q, txq[q]) => "flow" \in t.status)
    BY <1>0, QueuedKeeps
  <2>2. txq' = [txq EXCEPT ![q] = t] /\ subq' = Stops(q) /\ UNCHANGED <<tail, dead>>
    BY <1>1 DEF Xmit
  <2> HIDE DEF t
  <2>3. \A p \in TxQ : FlowLeft(txq[p], txq'[p])
    BY <2>1, <2>2 DEF FlowLeft, TypeOK
  <2>4. txq'[q] = t
    BY <2>2 DEF TypeOK
  <2> QED
    BY <1>0, <2>1, <2>2, <2>3, <2>4 DEF FlowKept, FlowLeft, Stops
<1>2. ASSUME NEW q \in TxQ, VisitPush(q) PROVE FlowKept'
  <2> DEFINE n == NbToPush(txq[q])
             u == TxPush(txq[q], n)
             t == AfterPush(txq[q], n)
  <2>1. n \in Nat /\ n <= txq[q].len
    <3>1. txq[q] \in Queue /\ txq[q].credits > 0
      BY <1>2 DEF TypeOK, VisitPush, Skipped, Queue
    <3> QED
      BY <3>1, PushedNumber DEF TypeOK
  <2>2. /\ txq' = [txq EXCEPT ![q] = t] /\ UNCHANGED tail
        /\ subq' = IF Restarts(u) THEN subq \ {q} ELSE subq
        /\ dead' = dead \cap subq'
    BY <1>2 DEF VisitPush
  <2> HIDE DEF n
  <2>3. "flow" \in t.status <=> "flow" \in txq[q].status /\ ~Restarts(u)
    BY <1>0, <2>1, AfterPushKeeps
  <2> HIDE DEF u, t
  <2>4. txq'[q] = t /\ \A p \in TxQ \ {q} : txq'[p] = txq[p]
    BY <2>2 DEF TypeOK
  <2> QED
    BY <1>0, <2>2, <2>3, <2>4 DEF FlowKept
<1>3. ASSUME NEW q \in TxQ, NEW c \in {0, 1}, Confirm(q, c) PROVE FlowKept'
  <2> DEFINE t == Returned(txq[q])
             v == [t EXCEPT !.credits = @ + c]
             u == IF t.active /\ c # 0 THEN Recounted(v) ELSE t
             n == [txq EXCEPT ![q] = u]
  <2>1. t \in Queue /\ t.status = txq[q].status
    BY FrameTakenType DEF TypeOK, Returned, Queue
  <2>2. SetQueues(n, Returns) /\ Calm /\ Returns \in BOOLEAN
    BY <1>3 DEF Confirm, ConfirmAny, Returns
  <2> HIDE DEF t
  <2>3. v \in Queue /\ v.status = t.status
    BY <2>1 DEF Queue
  <2> HIDE DEF v
  <2>4. u \in Queue /\ FlowLeft(txq[q], u)
    BY <2>1, <2>3, RecountedKeeps DEF FlowLeft
  <2> HIDE DEF u
  <2>5. n \in [TxQ -> Queue] /\ \A p \in TxQ : FlowLeft(txq[p], n[p])
    BY <2>4 DEF TypeOK, FlowLeft
  <2> QED
    BY <1>s, <2>2, <2>5
<1>4. ASSUME NEW q \in TxQ, ConfirmRetry(q) PROVE FlowKept'
  <2> DEFINE r == Returned(txq[q])
             t == [r EXCEPT !.credits = @ + 1]
             u == IF t.credits > 0 THEN Started(t, "full") ELSE t
             w == Queued(q, u, TRUE)
             n == [txq EXCEPT ![q] = w]
  <2>1. r \in Queue /\ r.status = txq[q].status /\ r.len = txq[q].len /\ r.retry <= r.len
    BY <1>0, FrameTakenType DEF TypeOK, Returned, Queue
  <2>2. txq' = n /\ subq' = Stops(q) /\ UNCHANGED <<tail, dead>>
    BY <1>4 DEF ConfirmRetry, ConfirmAny, SetQueues
  <2> HIDE DEF r
  <2>3. t \in Queue /\ t.status = r.status /\ t.len = r.len /\ t.retry = r.retry
    BY <2>1 DEF Queue
  <2> HIDE DEF t
  <2>4. u \in Queue /\ u.len = t.len /\ u.retry = t.retry /\ FlowLeft(t, u)
    BY <2>3, StartedKeeps, StatusApart DEF Queue, FlowLeft
  <2> HIDE DEF u
  <2>5. FlowLeft(u, w) /\ (FlowStops(q, u) => "flow" \in w.status)
    BY <2>1, <2>3, <2>4, QueuedKeeps
  <2>6. FlowStops(q, u) <=> FlowStops(q, txq[q])
    BY <2>1, <2>3, <2>4 DEF FlowStops
  <2> HIDE DEF w
  <2>7. txq'[q] = w /\ \A p \in TxQ \ {q} : txq'[p] = txq[p]
    BY <2>2 DEF TypeOK
  <2> QED
    BY <1>0, <2>1, <2>2, <2>3, <2>4, <2>5, <2>6, <2>7 DEF FlowKept, FlowLeft, Stops
<1>5. ASSUME NEW q \in TxQ, NEW a \in Update, CreditUpdate(q, a) PROVE FlowKept'
  <2> DEFINE v == [txq[q] EXCEPT !.credits = Credited(txq[q], Offset(a))]
             t == IF txq[q].active THEN Recounted(v) ELSE txq[q]
             d == IF Offset(a) < InitCredits THEN RetryDropped(t) ELSE 0
             u == [t EXCEPT !.len = @ - d, !.retry = @ - d]
             n == [txq EXCEPT ![q] = u]
  <2>1. txq' = n /\ Calm
    BY <1>5 DEF CreditUpdate, SetQueues
  <2>2. Credited(txq[q], Offset(a)) \in Int
    BY CreditedType
  <2>3. v \in Queue /\ v.status = txq[q].status
    BY <1>0, <2>2 DEF Queue
  <2> HIDE DEF v
  <2>4. t \in Queue /\ FlowLeft(txq[q], t)
    BY <1>0, <2>3, RecountedKeeps DEF FlowLeft
  <2> HIDE DEF t, d
  <2>5. u.status = t.status
    BY <2>4 DEF Queue
  <2> HIDE DEF u
  <2>6. txq'[q] = u /\ \A p \in TxQ \ {q} : txq'[p] = txq[p]
    BY <2>1 DEF TypeOK
  <2> QED
    BY <1>0, <2>1, <2>4, <2>5, <2>6 DEF FlowKept, FlowLeft
<1>6. ASSUME NEW r \in Stop
      PROVE  \A q \in TxQ : /\ FlowLeft(txq[q], StoppedFor(txq[q], r))
                            /\ FlowLeft(txq[q], Started(txq[q], r))
  BY <1>0, <1>6, StoppedKeeps, StartedKeeps
\* The stops and starts of all queues at once.
<1>7. ASSUME Calm, \A q \in TxQ : FlowLeft(txq[q], txq'[q])
      PROVE  FlowKept'
  BY <1>0, <1>7 DEF FlowKept, FlowLeft
<1>8. CASE PsEnable
  BY <1>6, <1>7, <1>8, StatusApart DEF PsEnable, SetQueues
<1>9. ASSUME NEW q \in TxQ, NEW k \in Nat
      PROVE  FlowLeft(txq[q], Started([txq[q] EXCEPT !.limit = k], "ps"))
  <2> DEFINE t == [txq[q] EXCEPT !.limit = k]
  <2>1. t \in Queue /\ t.status = txq[q].status
    BY <1>0 DEF Queue
  <2> HIDE DEF t
  <2>2. FlowLeft(txq[q], Started(t, "ps"))
    BY <2>1, StartedKeeps, StatusApart DEF FlowLeft
  <2> QED
    BY <2>2 DEF t
<1>10. CASE PsDisable
  BY <1>7, <1>9, <1>10 DEF PsDisable, SetQueues
<1>11. ASSUME NEW k \in Request, TrafficReq(k) PROVE FlowKept'
  <2> DEFINE m == IF k = 0 THEN ps.ready ELSE Least(k, ps.ready)
  <2>1. txq' = Granted(m) /\ Calm
    BY <1>11 DEF TrafficReq, SetQueues
  <2>2. m \in Nat
    BY DEF TypeOK, Least
  <2> HIDE DEF m
  <2>3. ASSUME NEW q \in TxQ PROVE FlowLeft(txq[q], Granted(m)[q])
    <3>1. Grant(q, m) \in Nat
      BY <2>2, GrantType
    <3> QED
      BY <3>1, <1>9 DEF Granted, FlowLeft
  <2> QED
    BY <1>7, <2>1, <2>3
<1>12. ASSUME NEW r \in Reasons, VifStop(r) \/ VifStart(r) PROVE FlowKept'
  <2>1. r \in Stop
    BY StatusApart
  <2>2. \/ txq' = [q \in TxQ |-> StoppedFor(txq[q], r)]
        \/ txq' = [q \in TxQ |-> Started(txq[q], r)]
    BY <1>12 DEF VifStop, VifStart, SetQueues
  <2>3. \A q \in TxQ : FlowLeft(txq[q], txq'[q])
    <3>1. CASE txq' = [q \in TxQ |-> StoppedFor(txq[q], r)]
      BY <1>6, <2>1, <3>1
    <3>2. CASE txq' = [q \in TxQ |-> Started(txq[q], r)]
      BY <1>6, <2>1, <3>2
    <3> QED
      BY <2>2, <3>1, <3>2
  <2>4. Calm
    BY <1>12 DEF VifStop, VifStart
  <2> QED
    BY <1>7, <2>3, <2>4
<1>13. ASSUME NEW q \in TxQ, NEW old \in 0 .. MaxLen[q], TimerDrop(q, old) PROVE FlowKept'
  <2> DEFINE d == IF ps.active THEN Least(old, ps.sp) ELSE 0
             t == [txq[q] EXCEPT !.len = @ - old, !.limit = Less(@, d)]
             u == IF t.len = 0 THEN DelFromHwList(t) ELSE t
             n == [txq EXCEPT ![q] = u]
  <2>1. txq' = n /\ UNCHANGED <<subq, dead>> /\ tail.at # "wake"
    BY <1>13 DEF TimerDrop, SetQueues, NoTail
  <2> HIDE DEF d
  <2>2. t.status = txq[q].status
    BY <1>0 DEF Queue
  <2>3. "flow" \in u.status <=> "flow" \in txq[q].status
    BY <1>0, <2>2 DEF DelFromHwList, Queue
  <2> HIDE DEF u
  <2>4. txq'[q] = u /\ \A p \in TxQ \ {q} : txq'[p] = txq[p]
    BY <2>1 DEF TypeOK
  <2> QED
    BY <1>0, <2>1, <2>3, <2>4 DEF FlowKept
<1>14. CASE TimerCheck
  BY <1>14 DEF TimerCheck, FlowKept
<1>15. CASE TimerClear
  <2>1. /\ UNCHANGED <<subq, dead>> /\ tail.at # "wake"
        /\ \A p \in TxQ : p # tail.q => txq'[p] = txq[p]
    BY <1>15 DEF TimerClear, TypeOK
  <2>2. tail'.at = "wake" /\ tail'.q = tail.q
    <3>1. tail \in [at : {"check", "clear", "wake"}, q : TxQ, saw : SUBSET Status]
      BY <1>15 DEF TypeOK, TimerClear, Tail, NoTail
    <3> QED
      BY <1>15, <3>1 DEF TimerClear
  <2> QED
    BY <1>0, <2>1, <2>2 DEF FlowKept
<1>16. CASE TimerWake
  BY <1>16 DEF TimerWake, FlowKept
<1>17. ASSUME NEW q \in TxQ, Deinit(q) PROVE FlowKept'
  <2> DEFINE w == DelFromHwList(txq[q])
             t == [w EXCEPT !.active = FALSE, !.len = 0, !.retry = 0]
  <2>1. txq' = [txq EXCEPT ![q] = t] /\ Calm
    BY <1>17 DEF Deinit, SetQueues
  <2>2. w \in Queue /\ ("flow" \in w.status <=> "flow" \in txq[q].status)
    BY <1>0 DEF DelFromHwList, Queue
  <2> HIDE DEF w
  <2>3. t.status = w.status
    BY <2>2 DEF Queue
  <2> HIDE DEF t
  <2>4. txq'[q] = t /\ \A p \in TxQ \ {q} : txq'[p] = txq[p]
    BY <2>1 DEF TypeOK
  <2> QED
    BY <1>0, <2>1, <2>2, <2>3, <2>4 DEF FlowKept
<1>18. ASSUME NEW s \in {{}} \cup {{r} : r \in Reasons}, Join(s) PROVE FlowKept'
  BY <1>18 DEF Join, FlowKept
<1>19. CASE UNCHANGED <<txq, subq, tail, dead>>
  BY <1>19 DEF FlowKept
<1> QED
  BY <1>1, <1>2, <1>3, <1>4, <1>5, <1>8, <1>10, <1>11, <1>12, <1>13, <1>14, <1>15, <1>16, <1>17,
     <1>18, <1>19 DEF Next, Senders, Confirmations, Messages, Timer, Stations, vars, Process,
     VisitSkip, VisitNoCredit

\* A stopped subqueue has somebody left to wake it, for any thresholds and with
\* the timer's tail racing with everything else.
THEOREM FlowCorrect == Spec => []FlowKept
<1>1. Init => FlowKept
  BY DEF Init, FlowKept
<1> QED
  BY <1>1, FlowStep, TypeCorrect, PTL DEF Spec

-----------------------------------------------------------------------------
(* The list.                                                                   *)

\* Scheduled says nothing while a pass runs.  Meanwhile a queue that could push
\* is one the pass has still to visit, unless need_processing is set again; and
\* the parts of Scheduled are properties of each queue.
Ahead == credits > 0 => \A q \in TxQ : Linked(txq[q]) /\ txq[q].len > 0 => need \/ q \in todo
EachQueue == \A q \in TxQ : /\ MayPush(txq[q]) /\ FullIsFull(txq[q])
                            /\ Waits(txq[q]) => q \in cut
Sched == ListAgrees /\ EachQueue /\ Ahead

LEMMA SchedImplies ==
  Sched => Scheduled
BY DEF Sched, EachQueue, Ahead, Scheduled, ListAgrees, LinkedMayPush, FullAgrees, FramesLinked,
       NeedKept, MayPush, FullIsFull, Waits, Unlocked

\* What a change of the queues has to respect under the lock.
LEMMA SetQueuesSched ==
  ASSUME TypeOK, Sched, NEW n \in [TxQ -> Queue], NEW wanted \in BOOLEAN, SetQueues(n, wanted),
         todo = {}, todo' = {},
         \A q \in TxQ : MayPush(n[q]) /\ FullIsFull(n[q]) /\ (Waits(n[q]) => Waits(txq[q])),
         \/ wanted
         \/ credits' = credits /\ \A q \in TxQ : n[q].len > 0 => txq[q].len > 0
  PROVE  Sched'
<1>1. txq' = n /\ TxQ = DOMAIN n
  BY DEF SetQueues
<1>2. ListAgrees'
  BY <1>1 DEF Sched, ListAgrees, SetQueues
<1>3. EachQueue'
  BY <1>1 DEF Sched, EachQueue, SetQueues, Waits
<1>4. Ahead'
  <2> SUFFICES ASSUME credits' > 0, NEW q \in TxQ, Linked(n[q]), n[q].len > 0
               PROVE  need'
    BY <1>1 DEF Ahead
  <2>1. CASE ~Linked(txq[q])
    BY <2>1 DEF SetQueues
  <2>2. CASE wanted
    BY <2>2 DEF SetQueues
  <2>3. CASE Linked(txq[q]) /\ ~wanted
    <3>1. credits > 0 /\ txq[q].len > 0
      BY <2>3
    <3> QED
      BY <2>3, <3>1 DEF Sched, Ahead, SetQueues
  <2> QED
    BY <2>1, <2>2, <2>3
<1> QED
  BY <1>2, <1>3, <1>4 DEF Sched

\* A visit that leaves the queue linked has used up its own credits, which
\* unlinks it, or those of the hardware queue.
LEMMA PushedOut ==
  ASSUME NEW t \in Queue, t.active, t.credits > 0, t.retry <= t.len, credits \in Nat,
         FlowRestart \in Nat,
         LET u == AfterPush(t, NbToPush(t)) IN Linked(u) /\ u.len > 0
  PROVE  NbToPush(t) = credits
<1> DEFINE n == NbToPush(t)
           u == AfterPush(t, n)
<1>1. n \in Nat /\ n <= t.len
  BY PushedNumber
<1>2. n = Least(t.len, Least(GetCredits(t), credits))
  BY DEF NbToPush
<1> HIDE DEF n
<1>3. u.credits = t.credits - n /\ u.credits > 0 /\ ~Done(t, n)
  BY <1>1, AfterPushKeeps DEF n
<1>4. n # t.len /\ n # t.credits /\ (t.limit # 0 => n # t.limit)
  BY <1>1, <1>3 DEF Done, Queue
<1>5. GetCredits(t) = t.credits \/ (t.limit # 0 /\ GetCredits(t) = t.limit)
  BY DEF GetCredits
<1>6. n = credits
  BY <1>2, <1>4, <1>5 DEF Least
<1> QED
  BY <1>6 DEF n

\* The queue that a message, a timer or a confirmation leaves behind keeps what
\* Sched says of each, and waits only if it has waited before.
Keeps(t, u) == MayPush(u) /\ FullIsFull(u) /\ (Waits(u) => Waits(t))

LEMMA SchedStep ==
  ASSUME ~MayRepeat, ~MayRace
  PROVE  TypeOK /\ CreditsKept /\ Sched /\ [Next]_vars => Sched'
<1> SUFFICES ASSUME TypeOK, CreditsKept, Sched, [Next]_vars
             PROVE  Sched'
  OBVIOUS
<1> USE QueueAssumption
<1>0. /\ \A q \in TxQ : /\ txq[q] \in Queue /\ txq[q].retry <= txq[q].len
                        /\ MayPush(txq[q]) /\ FullIsFull(txq[q])
                        /\ Waits(txq[q]) => q \in cut
      /\ credits \in Nat /\ list \subseteq TxQ /\ DOMAIN txq = TxQ
      /\ txq \in [TxQ -> Queue]
  BY DEF TypeOK, Sched, EachQueue
<1>1. Returns
  <2>1. Total(fw) \in Nat
    BY PointsFinite DEF TypeOK
  <2> QED
    BY <1>0, <2>1 DEF CreditsKept, Returns
\* Steps that change one queue under the lock, or all of them.
<1>2. ASSUME NEW q \in TxQ, NEW u \in Queue, NEW w \in BOOLEAN,
             SetQueues([txq EXCEPT ![q] = u], w), todo = {}, todo' = {}, Keeps(txq[q], u),
             \/ w
             \/ credits' = credits /\ (u.len > 0 => txq[q].len > 0)
      PROVE  Sched'
  <2> DEFINE n == [txq EXCEPT ![q] = u]
  <2>1. /\ n \in [TxQ -> Queue] /\ n[q] = u
        /\ \A p \in TxQ : p # q => n[p] = txq[p]
    BY <1>0
  <2>2. SetQueues(n, w)
    BY <1>2
  <2> HIDE DEF n
  <2>3. /\ \A p \in TxQ : MayPush(n[p]) /\ FullIsFull(n[p]) /\ (Waits(n[p]) => Waits(txq[p]))
        /\ \/ w
           \/ credits' = credits /\ \A p \in TxQ : n[p].len > 0 => txq[p].len > 0
    BY <1>0, <1>2, <2>1 DEF Keeps
  <2> QED
    BY <1>2, <2>1, <2>2, <2>3, SetQueuesSched
<1>3. ASSUME NEW n \in [TxQ -> Queue], SetQueues(n, FALSE), todo = {}, todo' = {},
             credits' = credits,
             \A q \in TxQ : Keeps(txq[q], n[q]) /\ n[q].len = txq[q].len
      PROVE  Sched'
  <2>1. /\ \A q \in TxQ : MayPush(n[q]) /\ FullIsFull(n[q]) /\ (Waits(n[q]) => Waits(txq[q]))
        /\ \A q \in TxQ : n[q].len > 0 => txq[q].len > 0
    BY <1>3 DEF Keeps
  <2> QED
    BY <1>3, <2>1, SetQueuesSched
<1>4. ASSUME NEW q \in TxQ, Xmit(q) PROVE Sched'
  <2> DEFINE t == Queued(q, txq[q], FALSE)
  <2>1. /\ MayPush(t) /\ FullIsFull(t) /\ ~Waits(t)
        /\ Linked(t) <=> Linked(txq[q]) \/ ~IsStopped(txq[q])
        /\ IsStopped(t) <=> IsStopped(txq[q])
    BY <1>0, <1>4, QueuedKeeps DEF Xmit
  <2>2. /\ txq' = [txq EXCEPT ![q] = t] /\ todo = {} /\ UNCHANGED credits
        /\ list' = IF Linked(t) THEN list \cup {q} ELSE list
        /\ need' = (need /\ IsStopped(t))
        /\ todo' = IF IsStopped(t) THEN {} ELSE list'
        /\ cut' = IF Linked(t) THEN cut \ {q} ELSE cut
    BY <1>4 DEF Xmit, Unlocked
  <2> HIDE DEF t
  <2>3. txq'[q] = t /\ \A p \in TxQ : p # q => txq'[p] = txq[p]
    BY <1>0, <2>2
  <2>4. ListAgrees'
    BY <1>0, <2>1, <2>2, <2>3 DEF Sched, ListAgrees
  <2>5. EachQueue'
    BY <1>0, <2>1, <2>2, <2>3 DEF EachQueue
  <2>6. Ahead'
    <3>1. CASE IsStopped(t)
      <4>1. ~Linked(t)
        BY <2>1, <3>1 DEF MayPush
      <4>2. need' = need
        BY <2>2, <3>1 DEF TypeOK
      <4> QED
        BY <2>2, <2>3, <3>1, <4>1, <4>2 DEF Sched, Ahead
    <3>2. CASE ~IsStopped(t)
      BY <2>2, <2>4, <3>2 DEF Ahead, ListAgrees
    <3> QED
      BY <3>1, <3>2
  <2> QED
    BY <2>4, <2>5, <2>6 DEF Sched
<1>5. CASE Process
  BY <1>5 DEF Process, Sched, ListAgrees, EachQueue, Ahead
<1>6. ASSUME NEW q \in TxQ, VisitSkip(q) PROVE Sched'
  <2>1. ~(Linked(txq[q]) /\ txq[q].len > 0)
    BY <1>0, <1>6, StatusApart DEF VisitSkip, Skipped, MayPush, FullIsFull, IsStopped, Queue
  <2> QED
    BY <1>6, <2>1 DEF VisitSkip, Sched, ListAgrees, EachQueue, Ahead
<1>7. ASSUME NEW q \in TxQ, VisitNoCredit(q) PROVE Sched'
  BY <1>7 DEF VisitNoCredit, Sched, ListAgrees, EachQueue, Ahead
<1>8. ASSUME NEW q \in TxQ, VisitPush(q) PROVE Sched'
  <2> DEFINE n == NbToPush(txq[q])
             t == AfterPush(txq[q], n)
  <2>1. Linked(txq[q]) /\ txq[q].active /\ txq[q].credits > 0
    BY <1>0, <1>8 DEF VisitPush, Skipped, Queue
  <2>2. n \in Nat /\ n <= txq[q].len /\ n <= credits
    BY <1>0, <2>1, PushedNumber
  <2>3. /\ txq' = [txq EXCEPT ![q] = t]
        /\ list' = IF Linked(t) THEN list ELSE list \ {q}
        /\ cut' = IF ~Linked(t) /\ ~IsStopped(t) /\ t.len > 0 THEN cut \cup {q} ELSE cut
        /\ credits' = credits - n /\ todo' = todo \ {q} /\ UNCHANGED need
    BY <1>8 DEF VisitPush
  <2>4. Linked(t) /\ t.len > 0 => n = credits
    BY <1>0, <2>1, PushedOut
  <2> HIDE DEF n
  <2>5. MayPush(t) /\ FullIsFull(t)
    BY <1>0, <2>1, <2>2, AfterPushKeeps
  <2> HIDE DEF t
  <2>6. txq'[q] = t /\ \A p \in TxQ : p # q => txq'[p] = txq[p]
    BY <1>0, <2>3
  <2>7. ListAgrees'
    BY <1>0, <2>1, <2>3, <2>6 DEF Sched, ListAgrees
  <2>8. EachQueue'
    BY <1>0, <2>3, <2>5, <2>6 DEF EachQueue, Waits
  <2>9. Ahead'
    <3>1. credits' > 0 => credits > 0 /\ ~(Linked(t) /\ t.len > 0)
      BY <1>0, <2>2, <2>3, <2>4
    <3> QED
      BY <2>3, <2>6, <3>1 DEF Sched, Ahead
  <2> QED
    BY <2>7, <2>8, <2>9 DEF Sched
<1>9. ASSUME NEW q \in TxQ, NEW c \in {0, 1}, Confirm(q, c) PROVE Sched'
  <2> DEFINE t == Returned(txq[q])
             v == [t EXCEPT !.credits = @ + c]
             u == IF t.active /\ c # 0 THEN Recounted(v) ELSE t
  <2>1. /\ t \in Queue /\ t.status = txq[q].status /\ t.len = txq[q].len
        /\ t.active = txq[q].active /\ t.credits = txq[q].credits
    BY FrameTakenType DEF TypeOK, Returned, Queue
  <2>2. SetQueues([txq EXCEPT ![q] = u], Returns) /\ todo = {} /\ todo' = {}
    BY <1>9 DEF Confirm, ConfirmAny, Unlocked
  <2> HIDE DEF t
  <2>3. Keeps(txq[q], t)
    BY <1>0, <2>1 DEF Keeps, MayPush, FullIsFull, Waits, Linked, IsStopped
  <2>4. v \in Queue /\ v.status = t.status /\ v.len = t.len /\ v.active = t.active
    BY <2>1 DEF Queue
  <2> HIDE DEF v
  <2>5. u \in Queue /\ Keeps(txq[q], u)
    <3>1. MayPush(v) /\ (Waits(v) => Waits(t))
      BY <2>3, <2>4 DEF Keeps, MayPush, Waits, Linked, IsStopped
    <3>2. /\ Recounted(v) \in Queue /\ MayPush(Recounted(v)) /\ FullIsFull(Recounted(v))
          /\ Waits(Recounted(v)) => Waits(v)
      BY <2>4, <3>1, RecountedKeeps
    <3> QED
      BY <2>1, <2>3, <3>1, <3>2 DEF Keeps
  <2> HIDE DEF u
  <2> QED
    BY <1>1, <1>2, <2>2, <2>5 DEF Returns
<1>10. ASSUME NEW q \in TxQ, ConfirmRetry(q) PROVE Sched'
  <2> DEFINE r == Returned(txq[q])
             t == [r EXCEPT !.credits = @ + 1]
             u == IF t.credits > 0 THEN Started(t, "full") ELSE t
             w == Queued(q, u, TRUE)
  <2>1. /\ r \in Queue /\ r.status = txq[q].status /\ r.len = txq[q].len /\ r.retry <= r.len
        /\ r.active = txq[q].active /\ r.credits = txq[q].credits
    BY <1>0, FrameTakenType DEF TypeOK, Returned, Queue
  <2>2. /\ SetQueues([txq EXCEPT ![q] = w], Returns) /\ todo = {} /\ todo' = {}
        /\ txq[q].active
    BY <1>10 DEF ConfirmRetry, ConfirmAny, Unlocked
  <2> HIDE DEF r
  <2>3. /\ t \in Queue /\ t.status = r.status /\ t.len = r.len /\ t.retry = r.retry
        /\ t.active = r.active /\ t.credits = r.credits + 1
    BY <2>1 DEF Queue
  <2> HIDE DEF t
  <2>4. u \in Queue /\ u.len = t.len /\ u.retry = t.retry /\ u.active = t.active
    BY <2>3, StartedKeeps, StatusApart DEF Queue
  <2>5. MayPush(t)
    BY <1>0, <2>1, <2>3 DEF MayPush, Linked, IsStopped
  <2>6. FullIsFull(u)
    <3>1. CASE t.credits > 0
      BY <2>3, <3>1, StartedKeeps, StatusApart
    <3>2. CASE ~(t.credits > 0)
      <4>1. u = t /\ t.credits <= 0 /\ txq[q].credits <= 0
        BY <1>0, <2>1, <2>3, <3>2 DEF Queue
      <4> QED
        BY <1>0, <2>1, <2>2, <2>3, <4>1 DEF FullIsFull
    <3> QED
      BY <3>1, <3>2
  <2>7. MayPush(u)
    BY <2>3, <2>5, StartedKeeps, StatusApart
  <2> HIDE DEF u
  <2>8. w \in Queue /\ Keeps(txq[q], w)
    BY <2>1, <2>2, <2>3, <2>4, <2>6, <2>7, QueuedKeeps DEF Keeps
  <2> HIDE DEF w
  <2> QED
    BY <1>1, <1>2, <2>2, <2>8 DEF Returns
<1>11. ASSUME NEW q \in TxQ, NEW a \in Update, CreditUpdate(q, a) PROVE Sched'
  <2> DEFINE v == [txq[q] EXCEPT !.credits = Credited(txq[q], Offset(a))]
             t == IF txq[q].active THEN Recounted(v) ELSE txq[q]
             d == IF Offset(a) < InitCredits THEN RetryDropped(t) ELSE 0
             u == [t EXCEPT !.len = @ - d, !.retry = @ - d]
  <2>1. /\ SetQueues([txq EXCEPT ![q] = u], FALSE) /\ todo = {} /\ todo' = {}
        /\ credits' = credits
    BY <1>11 DEF CreditUpdate, Unlocked
  <2>2. Credited(txq[q], Offset(a)) \in Int
    BY CreditedType
  <2>3. /\ v \in Queue /\ v.status = txq[q].status /\ v.active = txq[q].active
        /\ v.len = txq[q].len /\ v.retry = txq[q].retry
    BY <1>0, <2>2 DEF Queue
  <2> HIDE DEF v
  <2>4. /\ MayPush(v) /\ (Waits(v) => Waits(txq[q]))
    BY <1>0, <2>3 DEF MayPush, Waits, Linked, IsStopped
  <2>5. /\ t \in Queue /\ t.len = txq[q].len /\ t.retry = txq[q].retry
        /\ Keeps(txq[q], t)
    <3> DEFINE k == Recounted(v)
    <3>1. /\ k \in Queue /\ k = [v EXCEPT !.status = k.status] /\ MayPush(k) /\ FullIsFull(k)
          /\ Waits(k) => Waits(v)
      BY <2>3, <2>4, RecountedKeeps
    <3> HIDE DEF k
    <3>2. k.len = v.len /\ k.retry = v.retry
      BY <2>3, <3>1 DEF Queue
    <3>3. t = IF txq[q].active THEN k ELSE txq[q]
      BY DEF k
    <3> HIDE DEF t
    <3> QED
      BY <1>0, <2>3, <2>4, <3>1, <3>2, <3>3 DEF Keeps
  <2> HIDE DEF t
  <2>6. d \in Nat /\ d <= t.retry
    BY <2>5, DroppedNumber DEF Queue
  <2> HIDE DEF d
  <2>7. /\ u \in Queue /\ u.status = t.status /\ u.active = t.active /\ u.credits = t.credits
        /\ u.len = t.len - d
    <3>1. t.len - d \in Nat /\ t.retry - d \in Nat
      BY <1>0, <2>5, <2>6 DEF Queue
    <3> QED
      BY <2>5, <3>1 DEF Queue
  <2> HIDE DEF u
  <2>8. u.len > 0 => t.len > 0
    BY <2>5, <2>6, <2>7 DEF Queue
  <2>9. Keeps(txq[q], u)
    BY <2>5, <2>7, <2>8 DEF Keeps, MayPush, FullIsFull, Waits, Linked, IsStopped
  <2> QED
    BY <1>2, <2>1, <2>5, <2>7, <2>8, <2>9
<1>12. ASSUME NEW r \in Stop \ {"full"}, NEW q \in TxQ, NEW k \in Nat
       PROVE  LET t == [txq[q] EXCEPT !.limit = k] IN
              /\ Started(t, r) \in Queue /\ Keeps(txq[q], Started(t, r))
              /\ Started(t, r).len = txq[q].len
  <2> DEFINE t == [txq[q] EXCEPT !.limit = k]
             u == Started(t, r)
  <2>1. /\ t \in Queue /\ t.status = txq[q].status /\ t.active = txq[q].active
        /\ t.len = txq[q].len /\ t.credits = txq[q].credits
    BY <1>0 DEF Queue
  <2> HIDE DEF t
  <2>2. MayPush(t) /\ FullIsFull(t) /\ (Waits(t) => Waits(txq[q]))
    BY <1>0, <2>1 DEF MayPush, FullIsFull, Waits, Linked, IsStopped
  <2>3. /\ u \in Queue /\ u = [t EXCEPT !.status = u.status]
        /\ MayPush(u) /\ FullIsFull(u) /\ (Waits(u) => Waits(t))
    BY <1>12, <2>1, <2>2, StartedKeeps
  <2> HIDE DEF u
  <2>4. u.len = t.len
    BY <2>1, <2>3 DEF Queue
  <2>5. u \in Queue /\ Keeps(txq[q], u) /\ u.len = txq[q].len
    BY <2>1, <2>2, <2>3, <2>4 DEF Keeps
  <2> QED
    BY <2>5 DEF t, u
<1>13. ASSUME NEW r \in Stop \ {"full"}, NEW q \in TxQ
       PROVE  /\ StoppedFor(txq[q], r) \in Queue /\ Keeps(txq[q], StoppedFor(txq[q], r))
              /\ StoppedFor(txq[q], r).len = txq[q].len
  <2> DEFINE u == StoppedFor(txq[q], r)
  <2>1. /\ u \in Queue /\ u = [txq[q] EXCEPT !.status = u.status]
        /\ MayPush(u) /\ FullIsFull(u) /\ ~Waits(u)
    BY <1>0, <1>13, StoppedKeeps
  <2> HIDE DEF u
  <2>2. u.len = txq[q].len
    BY <1>0, <2>1 DEF Queue
  <2>3. u \in Queue /\ Keeps(txq[q], u) /\ u.len = txq[q].len
    BY <2>1, <2>2 DEF Keeps
  <2> QED
    BY <2>3 DEF u
<1>14. ASSUME NEW r \in Stop \ {"full"}, NEW q \in TxQ
       PROVE  /\ Started(txq[q], r) \in Queue /\ Keeps(txq[q], Started(txq[q], r))
              /\ Started(txq[q], r).len = txq[q].len
  <2> DEFINE u == Started(txq[q], r)
  <2>1. /\ u \in Queue /\ u = [txq[q] EXCEPT !.status = u.status]
        /\ MayPush(u) /\ FullIsFull(u) /\ (Waits(u) => Waits(txq[q]))
    BY <1>0, <1>14, StartedKeeps
  <2> HIDE DEF u
  <2>2. u.len = txq[q].len
    BY <1>0, <2>1 DEF Queue
  <2>3. u \in Queue /\ Keeps(txq[q], u) /\ u.len = txq[q].len
    BY <2>1, <2>2 DEF Keeps
  <2> QED
    BY <2>3 DEF u
<1>15. CASE PsEnable
  <2> DEFINE n == [q \in TxQ |-> StoppedFor(txq[q], "ps")]
  <2>1. SetQueues(n, FALSE) /\ todo = {} /\ todo' = {} /\ credits' = credits
    BY <1>15 DEF PsEnable, Unlocked
  <2>2. n \in [TxQ -> Queue] /\ \A q \in TxQ : Keeps(txq[q], n[q]) /\ n[q].len = txq[q].len
    BY <1>13, StatusApart
  <2> HIDE DEF n
  <2> QED
    BY <1>3, <2>1, <2>2
<1>16. CASE PsDisable
  <2> DEFINE n == [q \in TxQ |-> Started([txq[q] EXCEPT !.limit = 0], "ps")]
  <2>1. SetQueues(n, FALSE) /\ todo = {} /\ todo' = {} /\ credits' = credits
    BY <1>16 DEF PsDisable, Unlocked
  <2>2. n \in [TxQ -> Queue] /\ \A q \in TxQ : Keeps(txq[q], n[q]) /\ n[q].len = txq[q].len
    BY <1>12, StatusApart
  <2> HIDE DEF n
  <2> QED
    BY <1>3, <2>1, <2>2
<1>17. ASSUME NEW k \in Request, TrafficReq(k) PROVE Sched'
  <2> DEFINE m == IF k = 0 THEN ps.ready ELSE Least(k, ps.ready)
  <2>1. SetQueues(Granted(m), FALSE) /\ todo = {} /\ todo' = {} /\ credits' = credits
    BY <1>17 DEF TrafficReq, Unlocked
  <2>2. m \in Nat
    BY DEF TypeOK, Least
  <2> HIDE DEF m
  <2>3. ASSUME NEW q \in TxQ
        PROVE  /\ Granted(m)[q] \in Queue /\ Keeps(txq[q], Granted(m)[q])
               /\ Granted(m)[q].len = txq[q].len
    <3>1. Grant(q, m) \in Nat
      BY <2>2, GrantType
    <3>2. CASE Grant(q, m) = 0
      BY <1>0, <3>2 DEF Granted, Keeps
    <3>3. CASE Grant(q, m) # 0
      BY <1>12, <3>1, <3>3, StatusApart DEF Granted
    <3> QED
      BY <3>2, <3>3
  <2>4. Granted(m) \in [TxQ -> Queue]
    BY <2>3 DEF Granted
  <2> QED
    BY <1>3, <2>1, <2>3, <2>4
<1>18. ASSUME NEW r \in Reasons, VifStop(r) PROVE Sched'
  <2> DEFINE n == [q \in TxQ |-> StoppedFor(txq[q], r)]
  <2>1. SetQueues(n, FALSE) /\ todo = {} /\ todo' = {} /\ credits' = credits
    BY <1>18 DEF VifStop, Unlocked
  <2>2. n \in [TxQ -> Queue] /\ \A q \in TxQ : Keeps(txq[q], n[q]) /\ n[q].len = txq[q].len
    BY <1>13, StatusApart
  <2> HIDE DEF n
  <2> QED
    BY <1>3, <2>1, <2>2
<1>19. ASSUME NEW r \in Reasons, VifStart(r) PROVE Sched'
  <2> DEFINE n == [q \in TxQ |-> Started(txq[q], r)]
  <2>1. SetQueues(n, FALSE) /\ todo = {} /\ todo' = {} /\ credits' = credits
    BY <1>19 DEF VifStart, Unlocked
  <2>2. n \in [TxQ -> Queue] /\ \A q \in TxQ : Keeps(txq[q], n[q]) /\ n[q].len = txq[q].len
    BY <1>14, StatusApart
  <2> HIDE DEF n
  <2> QED
    BY <1>3, <2>1, <2>2
<1>20. ASSUME NEW q \in TxQ, NEW old \in 0 .. MaxLen[q], TimerDrop(q, old) PROVE Sched'
  <2> DEFINE d == IF ps.active THEN Least(old, ps.sp) ELSE 0
             l == txq[q].len - old
             t == [txq[q] EXCEPT !.len = l, !.limit = Less(@, d)]
             u == IF t.len = 0 THEN DelFromHwList(t) ELSE t
  <2>1. /\ SetQueues([txq EXCEPT ![q] = u], FALSE) /\ todo = {} /\ todo' = {}
        /\ credits' = credits /\ old <= txq[q].len - txq[q].retry
    BY <1>20 DEF TimerDrop, Unlocked
  <2>2. old \in Nat /\ d \in Nat
    BY BoundAssumption DEF TypeOK, Least
  <2> HIDE DEF d
  <2>3. l \in Nat /\ l <= txq[q].len /\ Less(txq[q].limit, d) \in Nat
    BY <1>0, <2>1, <2>2 DEF Queue, Less
  <2> HIDE DEF l
  <2>4. /\ t \in Queue /\ t.status = txq[q].status /\ t.active = txq[q].active
        /\ t.credits = txq[q].credits /\ t.len = l
    BY <1>0, <2>3 DEF Queue
  <2> HIDE DEF t
  <2>5. /\ u \in Queue /\ u.active = txq[q].active /\ u.credits = txq[q].credits /\ u.len = l
        /\ u.status \in {txq[q].status, txq[q].status \ {"listed"}}
        /\ u.len > 0 => u.status = txq[q].status
    BY <2>4 DEF Queue, DelFromHwList
  <2> HIDE DEF u
  <2>6. Keeps(txq[q], u)
    BY <1>0, <2>3, <2>5, StatusApart DEF Keeps, MayPush, FullIsFull, Waits, Linked, IsStopped, Queue
  <2>7. u.len > 0 => txq[q].len > 0
    BY <1>0, <2>3, <2>5 DEF Queue
  <2> QED
    BY <1>2, <2>1, <2>5, <2>6, <2>7
<1>21. CASE TimerCheck \/ TimerWake
  BY <1>21 DEF TimerCheck, TimerWake, Sched, ListAgrees, EachQueue, Ahead
<1>22. CASE TimerClear
  <2> DEFINE q == tail.q
             s == txq[q].status \ {"flow"}
  <2>1. q \in TxQ
    BY <1>22 DEF TypeOK, TimerClear, Tail, NoTail
  <2>2. /\ txq' = [txq EXCEPT ![q].status = s]
        /\ UNCHANGED <<list, credits, need, todo, cut>>
    BY <1>22 DEF TimerClear
  <2> HIDE DEF q
  <2>3. /\ txq'[q].status = s /\ txq'[q].active = txq[q].active /\ txq'[q].len = txq[q].len
        /\ txq'[q].credits = txq[q].credits
        /\ \A p \in TxQ : p # q => txq'[p] = txq[p]
    BY <1>0, <2>1, <2>2 DEF Queue
  <2>4. /\ MayPush(txq'[q]) /\ FullIsFull(txq'[q]) /\ (Waits(txq'[q]) => Waits(txq[q]))
        /\ Linked(txq'[q]) <=> Linked(txq[q])
    BY <1>0, <2>1, <2>3, StatusApart DEF MayPush, FullIsFull, Waits, Linked, IsStopped
  <2>5. ListAgrees'
    BY <2>2, <2>3, <2>4 DEF Sched, ListAgrees
  <2>6. EachQueue'
    BY <1>0, <2>2, <2>3, <2>4 DEF EachQueue
  <2>7. Ahead'
    BY <2>2, <2>3, <2>4 DEF Sched, Ahead
  <2> QED
    BY <2>5, <2>6, <2>7 DEF Sched
<1>23. ASSUME NEW q \in TxQ, Deinit(q) PROVE Sched'
  <2> DEFINE w == DelFromHwList(txq[q])
             t == [w EXCEPT !.active = FALSE, !.len = 0, !.retry = 0]
  <2>1. /\ SetQueues([txq EXCEPT ![q] = t], FALSE) /\ todo = {} /\ todo' = {}
        /\ credits' = credits
    BY <1>23 DEF Deinit, Unlocked
  <2>2. w \in Queue /\ "listed" \notin w.status
    BY <1>0 DEF DelFromHwList, Queue
  <2> HIDE DEF w
  <2>3. t.status = w.status /\ ~t.active /\ t.len = 0
    BY <2>2 DEF Queue
  <2>4. t \in Queue
    BY <2>2 DEF Queue
  <2> HIDE DEF t
  <2>5. Keeps(txq[q], t)
    BY <2>2, <2>3 DEF Keeps, MayPush, FullIsFull, Waits, Linked
  <2>6. t.len > 0 => txq[q].len > 0
    BY <2>3
  <2> QED
    BY <1>2, <2>1, <2>4, <2>5, <2>6
<1>24. ASSUME NEW s \in {{}} \cup {{r} : r \in Reasons}, Join(s) PROVE Sched'
  <2>1. /\ txq' = [q \in TxQ |-> Fresh(s)] /\ UNCHANGED <<list, credits, need, todo, cut>>
        /\ \A q \in TxQ : ~Linked(txq[q])
    BY <1>0, <1>24 DEF Join, MayPush
  <2>2. /\ "listed" \notin s /\ "full" \notin s
    BY ReasonAssumption
  <2>3. /\ ~Linked(Fresh(s)) /\ ~Waits(Fresh(s)) /\ MayPush(Fresh(s)) /\ FullIsFull(Fresh(s))
    BY <2>2 DEF Fresh, Linked, Waits, MayPush, FullIsFull
  <2> QED
    BY <2>1, <2>3 DEF Sched, ListAgrees, EachQueue, Ahead
<1>25. CASE UNCHANGED vars
  BY <1>25 DEF vars, Sched, ListAgrees, EachQueue, Ahead
<1> QED
  BY <1>4, <1>5, <1>6, <1>7, <1>8, <1>9, <1>10, <1>11, <1>15, <1>16, <1>17, <1>18, <1>19, <1>20,
     <1>21, <1>22, <1>23, <1>24, <1>25
     DEF Next, Senders, Confirmations, Messages, Timer, Stations

\* If no management frame is sent again and the timer's tail does not write back
\* a stale status, the list, the status bits, the credits and need_processing
\* agree, for any number of queues and any bound.
THEOREM ScheduledCorrect ==
  ASSUME ~MayRepeat, ~MayRace
  PROVE  Spec => []Scheduled
<1>1. Init => Sched
  BY QueueAssumption DEF Init, Sched, ListAgrees, EachQueue, Ahead, Fresh, Linked, Waits, MayPush,
     FullIsFull, IsStopped
<1>2. TypeOK /\ CreditsKept /\ Sched /\ [Next]_vars => Sched'
  BY SchedStep
<1> QED
  BY <1>1, <1>2, SchedImplies, TypeCorrect, CreditsCorrect, PTL DEF Spec
=============================================================================
