------------------------------ MODULE RxReorder ------------------------------
(***************************************************************************)
(* The block-ack reorder session of the Wi-Fi driver (aml_reorder.c) for    *)
(* one station and traffic class: its window and buffer, the RX task that   *)
(* fills it and ages it, the firmware's ADDBA and DELBA, and the reset of   *)
(* all sessions when RX is stopped for a suspend or a recovery.             *)
(*                                                                          *)
(* Atomicity.  A section under reo->lock is one action.  What is read       *)
(* before the lock is taken (reos[tid], the aging list) and what is written *)
(* without it (reset, the unlinking and the freeing of a release) are       *)
(* actions of their own.                                                    *)
(*                                                                          *)
(* A frame is its number as the sender counts, without end, and its packet  *)
(* number; the code sees the number modulo SnModulo.  Packet numbers count  *)
(* the frames of a key from 1, so a new key lets them start anew; 0 stands  *)
(* for one that is missing or old.  Time is kept as the ticks each frame    *)
(* has left.                                                                *)
(***************************************************************************)
EXTENDS Integers, FiniteSets, Sequences, FiniteSetsExt, SequencesExt

CONSTANTS
  SnModulo,   \* IEEE80211_SN_MODULO
  BufSize,    \* the sizes an ADDBA may ask for
  Timeout,    \* timeout_ticks
  Protected,  \* frames carry packet numbers
  FirstSn,    \* bound: the first number of the sender
  MaxSn,      \* bound: its last number
  MayStop,    \* RX may be stopped
  MayRelease, \* the firmware may send DELBA
  Rekeys,     \* bound: the numbers behind which a new key may begin
  MayMix,     \* frames of two keys may meet in the session
  None        \* no frame at an index of the buffer

ASSUME NumberAssumption ==
  /\ SnModulo \in Nat \ {0} /\ FirstSn \in Nat /\ MaxSn \in Nat
  /\ BufSize \subseteq 1 .. (SnModulo \div 2) - 1 /\ BufSize # {} /\ Timeout \in Nat \ {0}
  /\ Protected \in BOOLEAN /\ MayStop \in BOOLEAN /\ MayRelease \in BOOLEAN
  /\ Rekeys \subseteq FirstSn .. MaxSn /\ MayMix \in BOOLEAN

\* No frame is no entry of the buffer.
ASSUME NoneAssumption ==
  None \notin [frame : [n : FirstSn .. MaxSn, pn : {0} \cup 1 .. (MaxSn - FirstSn + 1)],
               left : -1 .. Timeout]

VARIABLES
  reos,     \* the session sta->reos[tid] points to exists and is attached
  reo,      \* the session: its struct aml_reo_session
  aged,     \* reo->last_aging is now
  rx,       \* the RX task: idle, or it has the session and goes for its lock
  ctl,      \* the release of the session, in the IRQ task
  stop,     \* aml_sdio_usb_rx_stop and aml_reo_reset_all
  key,      \* the frames behind this number are encrypted with the present key
  oops,     \* a BUG_ON that was hit, or a freed session still in use
  base,     \* history: the number of the frame reo.ssn stands for
  held, last, turn  \* history: what InOrderStream speaks of

stream  == <<held, last, turn>>
threads == <<rx, ctl, stop>>
vars    == <<reos, reo, aged, threads, key, oops, base, stream>>

Half == SnModulo \div 2
Number == FirstSn .. MaxSn
PacketNumber == {0} \cup 1 .. (MaxSn - FirstSn + 1)
Frame == [n : Number, pn : PacketNumber]

\* ieee80211_sn_less.
Less(a, b) == (a - b) % SnModulo > Half
Sn_Unmasked(n) == n
Sn(n) == n % SnModulo

\* The cache window: the power of two at or above the size.
WinSize(sz) == Min({w \in {2^i : i \in 0 .. sz} : w >= sz})

\* BUG_ON(win_size > IEEE80211_SN_MODULO) in aml_reo_session_create; both are powers
\* of two.
ASSUME WindowAssumption ==
  \A sz \in BufSize : WinSize(sz) \in sz .. SnModulo /\ SnModulo % WinSize(sz) = 0

Index(r, sn) == sn % WinSize(r.buf_size)

\* struct aml_reo_session, for a window of sz frames.
Entry == [frame : Frame, left : -1 .. Timeout]

Session(sz) ==
  [buf_size : {sz}, ssn : 0 .. SnModulo - 1, lsn : 0 .. SnModulo - 1, in_buffer : Int,
   linked : BOOLEAN, buf : [0 .. WinSize(sz) - 1 -> {None} \cup Entry], reset : BOOLEAN,
   pn : PacketNumber, pn_check : BOOLEAN]

NewSession(sz, ssn) ==
  [buf_size |-> sz, ssn |-> ssn, lsn |-> ssn, in_buffer |-> 0, linked |-> FALSE,
   buf |-> [i \in 0 .. WinSize(sz) - 1 |-> None], reset |-> FALSE, pn |-> 0,
   pn_check |-> FALSE]

HasBuffer(r) == r.lsn # r.ssn
Stored(r) == {i \in DOMAIN r.buf : r.buf[i] # None}

TypeOK ==
  /\ reos \in BOOLEAN /\ aged \in BOOLEAN
  /\ rx \in {"idle", "got", "aging"}
  /\ ctl \in {"idle", "detached", "flushed"}
  /\ stop \in {"run", "stopping", "marked", "stopped"}
  /\ oops \in {"none", "aging", "reset", "freed"}
  /\ reo.buf_size \in BufSize /\ reo \in Session(reo.buf_size)
  /\ held \subseteq Number /\ last \in Int /\ turn \in BOOLEAN /\ base \in Int
  /\ key \in Rekeys \cup {FirstSn - 1}

Init ==
  /\ reos = FALSE /\ reo = NewSession(Min(BufSize), Sn(FirstSn)) /\ aged = TRUE
  /\ rx = "idle" /\ ctl = "idle" /\ stop = "run" /\ oops = "none"
  /\ base = FirstSn /\ held = {} /\ last = FirstSn - 1 /\ turn = FALSE
  /\ key = FirstSn - 1

-----------------------------------------------------------------------------
(* Operations on a session, under its lock: the session after it and the    *)
(* frames given out.                                                        *)

\* aml_reo_pn_check: the first packet number seen turns the check on.
Checks(r, f) == r.pn_check \/ f.pn # 0
PnOk(r, f) == Checks(r, f) => r.pn < f.pn
Checked(r, f) ==
  [r EXCEPT !.pn_check = Checks(r, f),
            !.pn = IF Checks(r, f) /\ PnOk(r, f) THEN f.pn ELSE @]

\* aml_reo_dequeue, and the removal from the buffer before it.
Taken(r, i) ==
  [Checked(r, r.buf[i].frame) EXCEPT !.buf[i] = None, !.in_buffer = @ - 1]

\* One turn of the loop of aml_reo_shift_to: s.sn is the number it looks at.  The
\* loop is over at the first number from ssn on whose frame is missing or fails its
\* check.
Round(s, ssn) ==
  LET i    == Index(s.reo, s.sn)
      full == s.reo.buf[i] # None
      ok   == full /\ PnOk(s.reo, s.reo.buf[i].frame)
      on   == ok \/ Less(s.sn, ssn)
  IN IF s.over THEN s
     ELSE [reo  |-> IF full THEN Taken(s.reo, i) ELSE s.reo,
           out  |-> IF ok THEN Append(s.out, s.reo.buf[i].frame) ELSE s.out,
           sn   |-> IF on THEN Sn(s.sn + 1) ELSE s.sn,
           over |-> ~on]

\* The loop after each number of turns; it is over before it has gone round the
\* circle.
Rounds(r, ssn) ==
  LET f[k \in 0 .. SnModulo] ==
        IF k = 0 THEN [reo |-> r, out |-> <<>>, sn |-> r.ssn, over |-> FALSE]
        ELSE Round(f[k - 1], ssn)
  IN f

LastAfter_Stays(lsn, ssn) == lsn
LastAfter(lsn, ssn) == IF Less(lsn, ssn) THEN ssn ELSE lsn

\* aml_reo_shift_to: give out what is in front of ssn and continuous from there.
ShiftTo(r, ssn) ==
  LET end == Rounds(r, ssn)[SnModulo]
      lsn == LastAfter(r.lsn, end.sn)
  IN [reo |-> [end.reo EXCEPT !.ssn = end.sn, !.lsn = lsn,
                              !.linked = @ /\ lsn # end.sn],
      out |-> end.out]

\* aml_reo_entry_skb_set.
Put(r, i, f) == [r EXCEPT !.buf[i] = [frame |-> f, left |-> Timeout]]

\* A frame in front of the window is dropped.
Stale_Never(r, sn) == FALSE
Stale(r, sn) == Less(sn, r.ssn)

\* A frame beyond the window moves it.
MadeRoom(r, sn) ==
  IF Less(sn, r.ssn + r.buf_size) THEN [reo |-> r, out |-> <<>>]
  ELSE ShiftTo(r, Sn(sn - (r.buf_size - 1)))

\* The number is already stored: the copy with the newer packet number stays.
Again(r, i, f) ==
  LET f0 == r.buf[i].frame
  IN IF Checks(r, f) /\ (f0.pn = 0 \/ f0.pn < f.pn) THEN Put(r, i, f) ELSE r

\* The frame the window waits for.
InOrder(r, f) ==
  IF PnOk(r, f)
  THEN LET s == ShiftTo([Checked(r, f) EXCEPT !.ssn = Sn(@ + 1)], Sn(r.ssn + 1))
       IN [reo |-> s.reo, out |-> <<f>> \o s.out]
  ELSE [reo |-> Checked(r, f), out |-> <<>>]

\* The session joins the aging list with the first frame it buffers.
Joins_Late(count) == count = 2
Joins(count) == count = 1

Buffered(r, i, f) ==
  LET q == Put([r EXCEPT !.in_buffer = @ + 1], i, f)
  IN [q EXCEPT !.lsn = IF Less(@, Sn(f.n)) THEN Sn(f.n) ELSE @,
               !.linked = @ \/ Joins(q.in_buffer)]

\* aml_reo_enqueue.
AfterReset(r, sn) ==
  IF r.reset THEN [r EXCEPT !.reset = FALSE, !.ssn = sn, !.lsn = sn] ELSE r

Enqueue(r0, f) ==
  LET sn == Sn(f.n)
      r  == AfterReset(r0, sn)
      s  == MadeRoom(r, sn)
      q  == s.reo
      i  == Index(q, sn)
  IN IF Stale(r, sn) THEN [reo |-> r, out |-> <<>>]
     ELSE IF q.buf[i] # None THEN [reo |-> Again(q, i, f), out |-> s.out]
     ELSE IF sn = q.ssn THEN LET e == InOrder(q, f) IN [e EXCEPT !.out = s.out \o @]
     ELSE [reo |-> Buffered(q, i, f), out |-> s.out]

\* aml_reo_reset_ssn.
ResetSsn(r, ssn) == [r EXCEPT !.ssn = ssn, !.lsn = ssn]

\* aml_reo_forward_to.  The third case is meant for an ssn inside the buffer.
ForwardTo(r, ssn) ==
  IF ssn = r.ssn THEN [reo |-> r, out |-> <<>>]
  ELSE IF ~HasBuffer(r) THEN [reo |-> ResetSsn(r, ssn), out |-> <<>>]
  ELSE IF ~Less(r.ssn, ssn) /\ ~Less(r.lsn, ssn) THEN ShiftTo(r, ssn)
  ELSE LET s == ShiftTo(r, Sn(r.lsn + 1))
       IN [reo |-> ResetSsn(s.reo, ssn), out |-> s.out]

ForwardAll_FromStart(r) == ForwardTo(r, r.ssn)
ForwardAll(r) == ForwardTo(r, r.lsn)

\* aml_reo_entry_expired_lsn: the numbers from lsn down to the one behind ssn.
Late(r, sn) == LET e == r.buf[Index(r, sn)] IN e # None /\ e.left < 0
Expired_BelowLast(r) ==
  {d \in 1 .. ((r.lsn - r.ssn) % SnModulo) - 1 : Late(r, r.ssn + d)}
Expired(r) == {d \in 1 .. (r.lsn - r.ssn) % SnModulo : Late(r, r.ssn + d)}
ExpiredNext(r) == Sn(r.ssn + Max(Expired(r)) + 1)

\* aml_reo_entry_aging.
Aging(r) ==
  IF aged \/ Expired(r) = {} THEN [reo |-> r, out |-> <<>>]
  ELSE ShiftTo(r, ExpiredNext(r))

-----------------------------------------------------------------------------
(* History.                                                                *)

\* The distance the window start has moved, back or forth.
Signed(d) == IF d % SnModulo > Half THEN (d % SnModulo) - SnModulo ELSE d % SnModulo

OutNumbers(out) == {out[k].n : k \in DOMAIN out}

\* s is the outcome of an operation that took in the numbers of new.
Gives(s, new) ==
  /\ reo' = s.reo
  /\ base' = base + Signed(s.reo.ssn - reo.ssn)
  /\ held' = (held \cup new) \ OutNumbers(s.out)

LastOut(out, default) == IF out = <<>> THEN default ELSE Last(out).n

\* The session is asked to start at b: it has moved there if that leaves it
\* empty.
Repositions(s, b) ==
  LET moved == Sn(b) # reo.ssn /\ s.reo.ssn = Sn(b) /\ ~HasBuffer(s.reo)
  IN /\ Gives(s, {})
     /\ last' = IF moved THEN b - 1 ELSE LastOut(s.out, last)
     /\ turn' = (turn # moved)

\* A frame the session owes the stack: not stale, and new to the packet number
\* check.
Owed(r, f) ==
  ~Less(Sn(f.n), r.ssn) /\ (Protected => f.pn > r.pn)

-----------------------------------------------------------------------------
(* The RX task: aml_sdio_usb_rx_desc_handle, then aml_reo_aging.           *)

\* aml_reo_session_get, before it has the lock.
RxLookup ==
  /\ rx = "idle" /\ reos /\ stop = "run"
  /\ rx' = "got"
  /\ UNCHANGED <<reos, reo, aged, ctl, stop, oops, base, stream, key>>

\* Numbers in the air are less than half the number space from the window.
InReach(n) == n \in base - Half + 1 .. base + Half - 1

\* The packet numbers the frame of a number may carry.  One that is not behind
\* key was encrypted with an earlier key, which counted from wherever it began.
Numbers(n) ==
  {0} \cup (IF ~Protected THEN {}
           ELSE IF n > key THEN {n - key}
           ELSE IF MayMix THEN 1 .. n - FirstSn + 1 ELSE {})

RxFrame(f) ==
  /\ rx = "got" /\ InReach(f.n)
  /\ f.pn \in Numbers(f.n)
  /\ IF reo.reset /\ HasBuffer(reo)
     THEN oops' = "reset" /\ UNCHANGED <<reo, base, stream, rx>>
     ELSE LET s == Enqueue(reo, f)
              new == IF Owed(AfterReset(reo, Sn(f.n)), f) THEN {f.n} ELSE {}
          IN /\ Gives(s, new)
             /\ last' = LastOut(s.out, IF reo.reset THEN f.n - 1 ELSE last)
             /\ turn' = (turn # reo.reset)
             /\ rx' = "idle" /\ UNCHANGED oops
  /\ UNCHANGED <<reos, aged, ctl, stop, key>>

\* aml_reo_bar_process, for the entry of this traffic class.
RxBar(b) ==
  /\ rx = "got" /\ InReach(b)
  /\ Repositions(ForwardTo(reo, Sn(b)), b)
  /\ rx' = "idle"
  /\ UNCHANGED <<reos, aged, ctl, stop, oops, key>>

\* aml_reo_aging takes the session from the list, without the lock.
AgingTake ==
  /\ rx = "idle" /\ reo.linked
  /\ rx' = "aging"
  /\ UNCHANGED <<reos, reo, aged, ctl, stop, oops, base, stream, key>>

AgingRun ==
  /\ rx = "aging"
  /\ IF ~HasBuffer(reo)
     THEN oops' = "aging" /\ UNCHANGED <<reo, base, stream, aged, rx>>
     ELSE LET s == Aging(reo)
          IN /\ Gives(s, {}) /\ last' = LastOut(s.out, last)
             /\ aged' = TRUE /\ rx' = "idle" /\ UNCHANGED <<turn, oops>>
  /\ UNCHANGED <<reos, ctl, stop, key>>

Tick ==
  /\ aged' = FALSE
  /\ reo' = [reo EXCEPT !.buf = [i \in DOMAIN reo.buf |->
               IF reo.buf[i] = None \/ reo.buf[i].left < 0 THEN reo.buf[i]
               ELSE [reo.buf[i] EXCEPT !.left = @ - 1]]]
  /\ UNCHANGED <<reos, threads, oops, base, stream, key>>

-----------------------------------------------------------------------------
(* The IRQ task: ADDBA and DELBA.                                          *)

\* aml_reo_session_create.  For another size the code releases the session
\* first: that is DELBA followed by this.
AddBa(sz, b) ==
  /\ ctl = "idle" /\ ~reos
  /\ reos' = TRUE
  /\ reo' = NewSession(sz, Sn(b)) /\ aged' = TRUE
  /\ base' = b /\ last' = b - 1 /\ held' = {} /\ turn' = ~turn
  /\ UNCHANGED <<threads, oops, key>>

ReAddBa(b) ==
  /\ ctl = "idle" /\ reos /\ InReach(b)
  /\ Repositions(ForwardTo(reo, Sn(b)), b)
  /\ UNCHANGED <<reos, aged, threads, oops, key>>

\* aml_reo_session_release.
Detach ==
  /\ MayRelease /\ ctl = "idle" /\ reos
  /\ ctl' = "detached" /\ reos' = FALSE
  /\ reo' = [reo EXCEPT !.linked = FALSE]
  /\ UNCHANGED <<aged, rx, stop, oops, base, stream, key>>

Flush ==
  LET s == ForwardAll(reo) IN
  Gives(s, {}) /\ last' = LastOut(s.out, last) /\ UNCHANGED turn

ReleaseFlush ==
  /\ ctl = "detached"
  /\ Flush
  /\ ctl' = "flushed"
  /\ UNCHANGED <<reos, aged, rx, stop, oops, key>>

\* kfree, and whoever still has the session uses freed memory.
ReleaseFree ==
  /\ ctl = "flushed"
  /\ ctl' = "idle"
  /\ oops' = IF rx # "idle" \/ stop = "marked" \/ reo.linked THEN "freed" ELSE oops
  /\ UNCHANGED <<reos, reo, aged, rx, stop, base, stream, key>>

\* aml_cfg80211_add_key: aml_reo_sta_addkey, without the lock, then the frames
\* behind number k come with the new key.  What is stored stays.
AddKey(k) ==
  /\ Protected /\ k >= key /\ k >= base - 1
  /\ \A i \in Stored(reo) : MayMix /\ reo.buf[i].frame.n <= k
  /\ key' = k
  /\ reo' = IF reos THEN [reo EXCEPT !.pn = 0, !.pn_check = TRUE] ELSE reo
  /\ UNCHANGED <<reos, aged, threads, oops, base, stream>>

-----------------------------------------------------------------------------
(* Stopping RX: no descriptor is handled any more, then every session is    *)
(* marked and emptied.  The RX task may still be ageing.                    *)

StopBegin ==
  /\ MayStop /\ stop = "run"
  /\ stop' = "stopping"
  /\ UNCHANGED <<reos, reo, aged, rx, ctl, oops, base, stream, key>>

ResetMark ==
  /\ stop = "stopping" /\ rx # "got"
  /\ IF reos THEN stop' = "marked" /\ reo' = [reo EXCEPT !.reset = TRUE]
     ELSE stop' = "stopped" /\ UNCHANGED reo
  /\ UNCHANGED <<reos, aged, rx, ctl, oops, base, stream, key>>

ResetFlush ==
  /\ stop = "marked"
  /\ Flush
  /\ stop' = "stopped"
  /\ UNCHANGED <<reos, aged, rx, ctl, oops, key>>

Restart ==
  /\ stop = "stopped"
  /\ stop' = "run"
  /\ UNCHANGED <<reos, reo, aged, rx, ctl, oops, base, stream, key>>

-----------------------------------------------------------------------------
Defined == oops = "none"

Next ==
  /\ Defined
  /\ \/ RxLookup \/ AgingTake \/ AgingRun \/ Tick
     \/ \E f \in Frame : RxFrame(f)
     \/ \E b \in Number : RxBar(b) \/ ReAddBa(b) \/ \E sz \in BufSize : AddBa(sz, b)
     \/ Detach \/ ReleaseFlush \/ ReleaseFree \/ \E k \in Rekeys : AddKey(k)
     \/ StopBegin \/ ResetMark \/ ResetFlush \/ Restart

Spec == Init /\ [][Next]_vars

\* What the threads do next is always possible, so their fairness need only
\* name the thread that moves.
RxGoesOn      == Defined /\ rx # "idle" /\ rx' = "idle"
ReleaseGoesOn == Defined /\ ctl # "idle" /\ ctl' \in {"flushed", "idle"} \ {ctl}
StopGoesOn    == Defined /\ (stop = "marked" \/ (stop = "stopping" /\ rx # "got"))
                         /\ stop' \in {"marked", "stopped"} \ {stop}

\* Time passes and the threads go on.  The RX task ages its sessions each time
\* it has handled what it found, and the device keeps waking it: nothing else
\* does (FIXME at aml_sdio_usb_rx.c:1529).
Fairness ==
  /\ WF_vars(Defined /\ Tick) /\ SF_vars(Defined /\ AgingTake)
  /\ WF_rx(RxGoesOn) /\ WF_ctl(ReleaseGoesOn) /\ WF_stop(StopGoesOn)

FairSpec == Spec /\ Fairness
=============================================================================
