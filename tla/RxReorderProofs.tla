--------------------------- MODULE RxReorderProofs ---------------------------
(***************************************************************************)
(* Proofs for every circle of numbers, every set of windows and every       *)
(* sender: the code's arithmetic modulo SnModulo is that of the numbers     *)
(* themselves as long as they stay less than half a circle apart, and a     *)
(* session implements InOrderStream.                                        *)
(***************************************************************************)
EXTENDS RxReorderProps, NumberLemmas, FiniteSetTheorems

-----------------------------------------------------------------------------
(* The circle of numbers.                                                   *)

\* The circle and its half.
LEMMA HalfType ==
  /\ SnModulo \in Nat \ {0} /\ Half \in Nat /\ 2 * Half <= SnModulo /\ SnModulo <= 2 * Half + 1
  /\ \A sz \in BufSize : sz \in Nat /\ 1 <= sz /\ sz < Half
  /\ Number \subseteq Nat
  BY NumberAssumption DEF Half, Number

\* A number on the circle is a remainder.
LEMMA SnIsRem ==
  ASSUME NEW a \in Int
  PROVE  Sn(a) = Rem(SnModulo, a)
  BY DEF Sn, Rem

\* ieee80211_sn_less looks at the remainder of the difference.
LEMMA LessIsRem ==
  ASSUME NEW a \in Int, NEW b \in Int
  PROVE  Less(a, b) <=> Rem(SnModulo, a - b) > Half
  BY DEF Less, Rem

\* A number on the circle is in its range.
LEMMA SnType ==
  ASSUME NEW a \in Int
  PROVE  Sn(a) \in 0 .. SnModulo - 1 /\ Sn(a) \in Int
  BY HalfType, SnIsRem, Remainder

\* The remainder of a number less than a circle from 0.
LEMMA RemNear ==
  ASSUME NEW d \in Int, 0 - SnModulo < d, d < SnModulo
  PROVE  Rem(SnModulo, d) = IF d >= 0 THEN d ELSE d + SnModulo
  <1>1. CASE d >= 0
    BY <1>1, HalfType, ModSmall
  <1>2. CASE d < 0
    <2>1. PICK e \in Int : e = d + SnModulo /\ e \in 0 .. SnModulo - 1
      BY <1>2, HalfType
    <2>2. SnModulo * 1 = SnModulo
      BY HalfType
    <2>3. Congruent(SnModulo, d, e)
      BY <2>1, <2>2 DEF Congruent
    <2>4. Rem(SnModulo, e) = Rem(SnModulo, d)
      BY <2>3, SameRemainder, HalfType
    <2>5. Rem(SnModulo, e) = e
      BY <2>1, ModSmall, HalfType
    <2> QED
      BY <1>2, <2>1, <2>4, <2>5
  <1> QED
    BY <1>1, <1>2

\* Steps on the circle are steps of the numbers.
LEMMA SnStep ==
  ASSUME NEW a \in Int, NEW k \in Int
  PROVE  Sn(Sn(a) + k) = Sn(a + k)
  <1>1. Sn(a) = Rem(SnModulo, a) /\ Sn(a) \in Int
    BY SnIsRem, SnType
  <1>2. Rem(SnModulo, Rem(SnModulo, a) + k) = Rem(SnModulo, a + k)
    BY ModAdd, HalfType
  <1>3. Sn(Sn(a) + k) = Rem(SnModulo, Sn(a) + k) /\ Sn(a + k) = Rem(SnModulo, a + k)
    BY <1>1 DEF Sn, Rem
  <1> QED
    BY <1>1, <1>2, <1>3

\* The distance on the circle.
LEMMA Distance ==
  ASSUME NEW a \in Int, NEW b \in Int, NEW k \in Int
  PROVE  Rem(SnModulo, Sn(a) - (Sn(b) + k)) = Rem(SnModulo, a - (b + k))
  <1>1. PICK x \in Int, y \in Int, z \in Int : x = Sn(a) /\ y = Sn(b) /\ z = Sn(b) + k
    BY SnType
  <1>2. PICK c \in Int : c = b + k
    OBVIOUS
  <1>3. Rem(SnModulo, x - Rem(SnModulo, z)) = Rem(SnModulo, x - z)
    <2>1. PICK s \in 0 .. SnModulo - 1, q \in Int :
            s = Rem(SnModulo, z) /\ s = z - SnModulo * q
      BY Remainder, HalfType
    <2>2. PICK u \in Int, v \in Int, mq \in Int : u = x - s /\ v = x - z /\ mq = SnModulo * q
      BY Spread, HalfType
    <2>3. u = v + mq
      BY <2>1, <2>2, HalfType
    <2>4. Congruent(SnModulo, v, u)
      BY <2>2, <2>3 DEF Congruent
    <2>5. Rem(SnModulo, u) = Rem(SnModulo, v)
      BY <2>4, SameRemainder, HalfType
    <2> QED
      BY <2>1, <2>2, <2>5
  <1>4. Rem(SnModulo, z) = Rem(SnModulo, c)
    <2>1. Rem(SnModulo, Rem(SnModulo, b) + k) = Rem(SnModulo, b + k)
      BY ModAdd, HalfType
    <2> QED
      BY <1>1, <1>2, <2>1, SnIsRem
  <1>5. Rem(SnModulo, Rem(SnModulo, a) - Rem(SnModulo, c)) = Rem(SnModulo, a - c)
    BY ModSub, HalfType
  <1> QED
    BY <1>1, <1>2, <1>3, <1>4, <1>5, SnIsRem

\* ieee80211_sn_less is right for numbers less than half a circle apart.
LEMMA LessPlus ==
  ASSUME NEW a \in Int, NEW b \in Int, NEW k \in Int,
         0 - Half < a - (b + k), a - (b + k) < Half
  PROVE  Less(Sn(a), Sn(b) + k) <=> a < b + k
  <1>1. PICK d \in Int : d = a - (b + k)
    OBVIOUS
  <1>2. Rem(SnModulo, d) = IF d >= 0 THEN d ELSE d + SnModulo
    BY <1>1, RemNear, HalfType
  <1>3. Less(Sn(a), Sn(b) + k) <=> Rem(SnModulo, d) > Half
    <2>1. PICK x \in Int, y \in Int : x = Sn(a) /\ y = Sn(b) + k
      BY SnType
    <2>2. Less(x, y) <=> Rem(SnModulo, x - y) > Half
      BY LessIsRem
    <2>3. Rem(SnModulo, Sn(a) - (Sn(b) + k)) = Rem(SnModulo, a - (b + k))
      BY Distance
    <2> QED
      BY <1>1, <2>1, <2>2, <2>3
  <1> QED
    BY <1>1, <1>2, <1>3, HalfType

\* The same between two numbers of the circle.
LEMMA LessSn ==
  ASSUME NEW a \in Int, NEW b \in Int, 0 - Half < a - b, a - b < Half
  PROVE  Less(Sn(a), Sn(b)) <=> a < b
  <1>1. Less(Sn(a), Sn(b) + 0) <=> a < b + 0
    BY LessPlus
  <1>2. Sn(b) + 0 = Sn(b)
    BY SnType
  <1> QED
    BY <1>1, <1>2

\* The distance from b forward to a.
LEMMA Forward ==
  ASSUME NEW a \in Int, NEW b \in Int, 0 <= a - b, a - b < SnModulo
  PROVE  (Sn(a) - Sn(b)) % SnModulo = a - b
  <1>1. Rem(SnModulo, Sn(a) - (Sn(b) + 0)) = Rem(SnModulo, a - (b + 0))
    BY Distance
  <1>2. Sn(b) + 0 = Sn(b) /\ b + 0 = b /\ a - b \in Int
    BY SnType
  <1>3. PICK d \in Int : d = a - b
    OBVIOUS
  <1>4. Rem(SnModulo, d) = d
    BY <1>3, RemNear, HalfType
  <1> QED
    BY <1>1, <1>2, <1>3, <1>4 DEF Rem

\* Numbers less than a circle apart do not meet on the circle.
LEMMA SnInj ==
  ASSUME NEW a \in Int, NEW b \in Int, Sn(a) = Sn(b),
         0 - SnModulo < a - b, a - b < SnModulo
  PROVE  a = b
  <1>1. (Sn(b) - Sn(b)) % SnModulo = 0
    <2>1. (Sn(b) - Sn(b)) % SnModulo = b - b
      BY Forward, HalfType
    <2> QED
      BY <2>1
  <1>2. CASE a >= b
    <2>1. (Sn(a) - Sn(b)) % SnModulo = a - b
      <3>1. 0 <= a - b /\ a - b < SnModulo
        BY <1>2, HalfType
      <3> QED
        BY <3>1, Forward
    <2>2. Sn(a) - Sn(b) = Sn(b) - Sn(b)
      OBVIOUS
    <2> QED
      BY <1>1, <2>1, <2>2
  <1>3. CASE b >= a
    <2>1. (Sn(b) - Sn(a)) % SnModulo = b - a
      <3>1. 0 <= b - a /\ b - a < SnModulo
        BY <1>3, HalfType
      <3> QED
        BY <3>1, Forward
    <2>2. Sn(b) - Sn(a) = Sn(b) - Sn(b)
      OBVIOUS
    <2> QED
      BY <1>1, <2>1, <2>2
  <1> QED
    BY <1>2, <1>3

\* The history variable follows every move of at most half a circle.
LEMMA SignedSn ==
  ASSUME NEW a \in Int, NEW b \in Int, 0 - Half < a - b, a - b <= Half
  PROVE  Signed(Sn(a) - Sn(b)) = a - b
  <1>1. PICK d \in Int : d = a - b
    OBVIOUS
  <1>2. Rem(SnModulo, Sn(a) - (Sn(b) + 0)) = Rem(SnModulo, a - (b + 0))
    BY Distance
  <1>3. PICK e \in Int : e = Sn(a) - Sn(b) /\ e = Sn(a) - (Sn(b) + 0)
    BY SnType
  <1>4. a - (b + 0) = d
    BY <1>1
  <1>5. Rem(SnModulo, e) = IF d >= 0 THEN d ELSE d + SnModulo
    BY <1>1, <1>2, <1>3, <1>4, RemNear, HalfType
  <1>6. Signed(e) = IF Rem(SnModulo, e) > Half THEN Rem(SnModulo, e) - SnModulo
                    ELSE Rem(SnModulo, e)
    BY DEF Signed, Rem
  <1> QED
    BY <1>1, <1>3, <1>5, <1>6, HalfType

-----------------------------------------------------------------------------
(* The buffer.                                                              *)

\* The index of number n in a buffer for sz frames.
Slot(sz, n) == n % WinSize(sz)

\* The cache window holds a window of frames.
LEMMA WinType ==
  ASSUME NEW sz \in BufSize
  PROVE  WinSize(sz) \in Nat \ {0} /\ sz <= WinSize(sz)
  BY WindowAssumption, HalfType

\* An index is one of the buffer.
LEMMA SlotType ==
  ASSUME NEW sz \in BufSize, NEW n \in Int
  PROVE  Slot(sz, n) \in 0 .. WinSize(sz) - 1
  <1>1. Slot(sz, n) = Rem(WinSize(sz), n)
    BY DEF Slot, Rem
  <1> QED
    BY <1>1, WinType, Remainder

\* The index the code computes from the number on the circle and a distance.
LEMMA IndexSn ==
  ASSUME NEW r, r.buf_size \in BufSize, NEW n \in Int, NEW k \in Int
  PROVE  /\ Index(r, Sn(n)) = Slot(r.buf_size, n)
         /\ Index(r, Sn(n) + k) = Slot(r.buf_size, n + k)
  <1>1. PICK w \in Nat \ {0} : w = WinSize(r.buf_size)
    BY WinType
  <1>2. Rem(w, SnModulo) = 0
    BY <1>1, WindowAssumption DEF Rem
  <1>3. Rem(w, Rem(SnModulo, n)) = Rem(w, n)
    BY <1>2, ModMod, HalfType
  <1>4. PICK s \in Int : s = Sn(n) /\ s = Rem(SnModulo, n)
    BY SnType, SnIsRem
  <1>5. Rem(w, Rem(w, s) + k) = Rem(w, s + k) /\ Rem(w, Rem(w, n) + k) = Rem(w, n + k)
    BY ModAdd
  <1>6. Rem(w, s + k) = Rem(w, n + k)
    BY <1>3, <1>4, <1>5
  <1> QED
    BY <1>1, <1>3, <1>4, <1>6 DEF Index, Slot, Rem

\* The index of a number on the circle is that of the number.
LEMMA IndexAt ==
  ASSUME NEW r, r.buf_size \in BufSize, NEW n \in Int
  PROVE  Index(r, Sn(n)) = Slot(r.buf_size, n)
  <1>1. \A k \in Int : Index(r, Sn(n)) = Slot(r.buf_size, n)
    BY IndexSn
  <1>2. 0 \in Int
    OBVIOUS
  <1> QED
    BY <1>1, <1>2

\* Numbers less than a window apart do not share an index.
LEMMA SlotInj ==
  ASSUME NEW sz \in BufSize, NEW m \in Int, NEW n \in Int, Slot(sz, m) = Slot(sz, n),
         0 - sz < m - n, m - n < sz
  PROVE  m = n
  <1>1. PICK w \in Nat \ {0} : w = WinSize(sz) /\ sz <= w
    BY WinType
  <1>2. Rem(w, m) = Rem(w, n)
    BY <1>1 DEF Slot, Rem
  <1>3. Rem(w, Rem(w, m) - Rem(w, n)) = Rem(w, m - n) /\ Rem(w, Rem(w, n) - Rem(w, m)) = Rem(w, n - m)
    BY ModSub
  <1>4. PICK x \in Int : x = Rem(w, m)
    BY Remainder
  <1>5. Rem(w, 0) = 0
    BY ModSmall
  <1>6. Rem(w, m - n) = 0 /\ Rem(w, n - m) = 0
    BY <1>2, <1>3, <1>4, <1>5
  <1>7. CASE m >= n
    <2>1. PICK d \in 0 .. w - 1 : d = m - n
      BY <1>1, <1>7, HalfType
    <2> QED
      BY <1>6, <2>1, ModSmall
  <1>8. CASE n >= m
    <2>1. PICK d \in 0 .. w - 1 : d = n - m
      BY <1>1, <1>8, HalfType
    <2> QED
      BY <1>6, <2>1, ModSmall
  <1> QED
    BY <1>7, <1>8

-----------------------------------------------------------------------------
(* The loop of aml_reo_shift_to.                                            *)

Start(r) == [reo |-> r, out |-> <<>>, sn |-> r.ssn, over |-> FALSE]

\* What g has to be to be the first n turns of the loop.
Runs(r, ssn, n, g) ==
  /\ g = [k \in 0 .. n |-> g[k]] /\ g[0] = Start(r)
  /\ \A k \in 1 .. n : g[k] = Round(g[k - 1], ssn)

\* Any number of turns can be made.
LEMMA RunsExist ==
  ASSUME NEW r, NEW ssn, NEW n \in Nat
  PROVE  \E g : Runs(r, ssn, n, g)
  <1> DEFINE T == {m \in Nat : ~ \E g : Runs(r, ssn, m, g)}
  <1>1. CASE T = {}
    BY <1>1
  <1>2. CASE T # {}
    <2>1. PICK m \in T : \A y \in T : m <= y
      BY <1>2, LeastNat
    <2>2. CASE m = 0
      <3>1. Runs(r, ssn, 0, [k \in 0 .. 0 |-> Start(r)])
        BY DEF Runs
      <3> QED
        BY <2>2, <3>1
    <2>3. CASE m > 0
      <3>1. m - 1 \in Nat /\ m - 1 \notin T
        BY <2>1, <2>3
      <3>2. PICK g : Runs(r, ssn, m - 1, g)
        BY <3>1
      <3> DEFINE h == [k \in 0 .. m |-> IF k = m THEN Round(g[m - 1], ssn) ELSE g[k]]
      <3>3. h[0] = Start(r)
        BY <2>3, <3>2 DEF Runs
      <3>4. ASSUME NEW k \in 1 .. m PROVE h[k] = Round(h[k - 1], ssn)
        <4>1. PICK j \in 0 .. m - 1 : j = k - 1
          BY <2>3
        <4>2. h[j] = g[j]
          BY <4>1
        <4>3. CASE k = m
          <5>1. h[k] = Round(g[m - 1], ssn)
            BY <4>3
          <5> QED
            BY <4>1, <4>2, <4>3, <5>1
        <4>4. CASE k # m
          <5>1. h[k] = g[k] /\ k \in 1 .. m - 1
            BY <4>4, <2>3
          <5>2. g[k] = Round(g[k - 1], ssn)
            BY <3>2, <5>1 DEF Runs
          <5> QED
            BY <4>1, <4>2, <5>1, <5>2
        <4> QED
          BY <4>3, <4>4
      <3>5. h = [k \in 0 .. m |-> h[k]]
        OBVIOUS
      <3>6. Runs(r, ssn, m, h)
        BY <3>3, <3>4, <3>5 DEF Runs
      <3> QED
        BY <2>1, <3>6
    <2> QED
      BY <2>1, <2>2, <2>3
  <1> QED
    BY <1>1, <1>2

\* The function Rounds obeys its definition.
LEMMA RoundsRun ==
  ASSUME NEW r, NEW ssn
  PROVE  Runs(r, ssn, SnModulo, Rounds(r, ssn))
  <1> DEFINE Body(f) == [k \in 0 .. SnModulo |-> IF k = 0 THEN Start(r) ELSE Round(f[k - 1], ssn)]
  <1>1. Rounds(r, ssn) = CHOOSE f : f = Body(f)
    BY DEF Rounds, Start
  <1>2. PICK g : Runs(r, ssn, SnModulo, g)
    BY RunsExist, HalfType
  <1>3. g = Body(g)
    <2>1. g = [k \in 0 .. SnModulo |-> g[k]]
      BY <1>2 DEF Runs
    <2>2. ASSUME NEW k \in 0 .. SnModulo PROVE g[k] = Body(g)[k]
      <3>1. CASE k = 0
        BY <1>2, <3>1 DEF Runs
      <3>2. CASE k # 0
        <4>1. k \in 1 .. SnModulo
          BY <3>2
        <4> QED
          BY <1>2, <3>2, <4>1 DEF Runs
      <3> QED
        BY <3>1, <3>2
    <2> HIDE DEF Runs
    <2> QED
      BY <2>1, <2>2
  <1>4. Rounds(r, ssn) = Body(Rounds(r, ssn))
    BY <1>1, <1>3
  <1> QED
    BY <1>4, HalfType DEF Runs

-----------------------------------------------------------------------------
(* What is stored.                                                          *)

Sound(r) == r.buf_size \in BufSize /\ r \in Session(r.buf_size)

\* The number stored at index i.
Num(r, i) == r.buf[i].frame.n

\* What is stored is an entry, at an index of the buffer.
LEMMA StoredType ==
  ASSUME NEW r, Sound(r), NEW i \in Stored(r)
  PROVE  /\ i \in 0 .. WinSize(r.buf_size) - 1 /\ i \in DOMAIN r.buf
         /\ r.buf[i] \in Entry /\ r.buf[i] # None
         /\ r.buf[i].frame \in Frame /\ Num(r, i) \in Number /\ Num(r, i) \in Int
         /\ r.buf[i].left \in -1 .. Timeout
  <1>1. r.buf \in [0 .. WinSize(r.buf_size) - 1 -> {None} \cup Entry]
    BY DEF Sound, Session
  <1>2. i \in 0 .. WinSize(r.buf_size) - 1 /\ i \in DOMAIN r.buf /\ r.buf[i] \in Entry /\ r.buf[i] # None
    BY <1>1 DEF Stored
  <1>3. PICK e \in Entry : e = r.buf[i]
    BY <1>2
  <1>4. e.frame \in Frame /\ e.frame.n \in Number /\ e.left \in -1 .. Timeout
    BY DEF Entry, Frame
  <1>5. Num(r, i) \in Number
    BY <1>3, <1>4 DEF Num
  <1>6. Num(r, i) \in Int
    BY <1>5, NumberAssumption DEF Number
  <1>7. r.buf[i].frame \in Frame /\ r.buf[i].left \in -1 .. Timeout
    BY <1>3, <1>4
  <1> QED
    BY <1>2, <1>5, <1>6, <1>7

\* The buffer is finite.
LEMMA StoredFinite ==
  ASSUME NEW r, Sound(r)
  PROVE  IsFiniteSet(Stored(r)) /\ Cardinality(Stored(r)) \in Nat
  <1>1. Stored(r) \subseteq 0 .. WinSize(r.buf_size) - 1
    BY StoredType
  <1>2. IsFiniteSet(0 .. WinSize(r.buf_size) - 1)
    BY FS_Interval, WinType DEF Sound
  <1> QED
    BY <1>1, <1>2, FS_Subset, FS_CardinalityType

\* in_buffer counts what is stored.
Counted(r) == r.in_buffer = Cardinality(Stored(r))

\* q is r with the frame f, which is at index i, taken out.
TookOut(r, i, f, q) ==
  /\ Sound(q) /\ q.buf_size = r.buf_size /\ q.ssn = r.ssn /\ q.lsn = r.lsn
  /\ q.linked = r.linked /\ q.reset = r.reset
  /\ q.buf = [r.buf EXCEPT ![i] = None] /\ q.in_buffer = r.in_buffer - 1
  /\ q.pn_check = Checks(r, f)
  /\ q.pn = IF Checks(r, f) /\ PnOk(r, f) THEN f.pn ELSE r.pn
  /\ Stored(q) = Stored(r) \ {i}

\* Taking a stored frame out frees its index and touches packet numbers only.
LEMMA TakenFields ==
  ASSUME NEW r, Sound(r), NEW i \in Stored(r)
  PROVE  TookOut(r, i, r.buf[i].frame, Taken(r, i))
  <1> DEFINE f == r.buf[i].frame
             q == Taken(r, i)
  <1>1. f \in Frame /\ i \in 0 .. WinSize(r.buf_size) - 1
    BY StoredType
  <1>2. /\ q \in Session(r.buf_size) /\ q.buf_size = r.buf_size /\ q.ssn = r.ssn /\ q.lsn = r.lsn
        /\ q.linked = r.linked /\ q.reset = r.reset
        /\ q.buf = [r.buf EXCEPT ![i] = None] /\ q.in_buffer = r.in_buffer - 1
        /\ q.pn_check = Checks(r, f)
        /\ q.pn = IF Checks(r, f) /\ PnOk(r, f) THEN f.pn ELSE r.pn
    <2>1. PICK pn \in PacketNumber, pc \in BOOLEAN :
            /\ pn = IF Checks(r, f) /\ PnOk(r, f) THEN f.pn ELSE r.pn
            /\ pc = Checks(r, f)
      BY <1>1 DEF Sound, Session, Frame, Checks
    <2>2. PICK c \in Int, g \in [0 .. WinSize(r.buf_size) - 1 -> {None} \cup Entry] :
            c = r.in_buffer - 1 /\ g = [r.buf EXCEPT ![i] = None]
      <3>1. r.in_buffer - 1 \in Int
        BY DEF Sound, Session
      <3>2. [r.buf EXCEPT ![i] = None] \in [0 .. WinSize(r.buf_size) - 1 -> {None} \cup Entry]
        BY <1>1 DEF Sound, Session
      <3> QED
        BY <3>1, <3>2
    <2>3. q = [r EXCEPT !.pn_check = pc, !.pn = pn, !.buf = g, !.in_buffer = c]
      BY <2>1, <2>2 DEF Taken, Checked, Sound, Session
    <2>4. /\ q \in Session(r.buf_size) /\ q.buf_size = r.buf_size /\ q.ssn = r.ssn
          /\ q.lsn = r.lsn /\ q.linked = r.linked /\ q.reset = r.reset
          /\ q.buf = g /\ q.in_buffer = c /\ q.pn_check = pc /\ q.pn = pn
      BY <2>3 DEF Sound, Session
    <2> QED
      BY <2>1, <2>2, <2>4
  <1>3. Stored(q) = Stored(r) \ {i}
    <2>1. DOMAIN q.buf = DOMAIN r.buf /\ q.buf[i] = None
      BY <1>1, <1>2 DEF Sound, Session
    <2>2. \A j \in DOMAIN r.buf : j # i => q.buf[j] = r.buf[j]
      BY <1>2 DEF Sound, Session
    <2> QED
      BY <2>1, <2>2 DEF Stored
  <1> QED
    BY <1>2, <1>3 DEF Sound, TookOut

\* Taking a stored frame out keeps in_buffer right.
LEMMA TakenCounted ==
  ASSUME NEW r, Sound(r), Counted(r), NEW i \in Stored(r)
  PROVE  Counted(Taken(r, i))
  <1>1. PICK q : q = Taken(r, i)
    OBVIOUS
  <1>2. Stored(q) = Stored(r) \ {i} /\ q.in_buffer = r.in_buffer - 1
    BY <1>1, TakenFields DEF TookOut
  <1>3. Cardinality(Stored(r) \ {i}) = Cardinality(Stored(r)) - 1
    BY StoredFinite, FS_RemoveElement
  <1>4. q.in_buffer = Cardinality(Stored(q))
    BY <1>2, <1>3, StoredFinite DEF Counted
  <1> QED
    BY <1>1, <1>4 DEF Counted

-----------------------------------------------------------------------------
(* A turn of the loop.                                                      *)

\* The packet number of a frame counts from the number ky the present key begins behind
\* (the variable key, here a constant of the lemmas), or is missing; unless frames of other
\* keys may be among them.
Numbered(ky, f) ==
  /\ ~Protected => f.pn = 0
  /\ Protected => MayMix \/ f.pn \in {0, f.n - ky}

\* What is stored lies between lo and hi, at the index of its number.
Placed(ky, r, lo, hi) ==
  \A i \in Stored(r) : /\ Num(r, i) \in lo .. hi /\ i = Slot(r.buf_size, Num(r, i))
                       /\ Numbered(ky, r.buf[i].frame)

\* Without packet numbers nothing is checked.
Plain(r) == ~Protected => r.pn = 0 /\ ~r.pn_check

Solid(r) == Sound(r) /\ Counted(r) /\ Plain(r)

\* Nothing is said of frames held back that may be of several keys.
OneKey(H) == MayMix => H = {}

\* The frames held back are stored and will pass their check.
Keeps(ky, H, r) ==
  /\ OneKey(H)
  /\ \A n \in H :
       /\ Protected => n - ky > r.pn
       /\ \E i \in Stored(r) : Num(r, i) = n /\ (Protected => r.buf[i].frame.pn = n - ky)

\* q is r without the frames in front of p.
Remains(r, q, p) ==
  /\ q.buf_size = r.buf_size /\ q.ssn = r.ssn /\ q.lsn = r.lsn
  /\ q.linked = r.linked /\ q.reset = r.reset
  /\ Stored(q) = {i \in Stored(r) : Num(r, i) >= p}
  /\ \A i \in Stored(q) : q.buf[i] = r.buf[i]

\* Frames given out in the order of their numbers, from lo on and in front of hi.
InTurn(out, lo, hi) ==
  /\ out \in Seq(Frame) /\ \A k \in DOMAIN out : lo <= out[k].n /\ out[k].n < hi
  /\ \A j, k \in DOMAIN out : j < k => out[j].n < out[k].n

\* Of the frames held back, those not given out lie from p on and still pass.
LeftOver(ky, H, r, out, p) ==
  \A n \in H : n \in OutNumbers(out) \/ (n >= p /\ (Protected => n - ky > r.pn))

\* The packet number to check against is that of r or of a frame in front of p.
PnKept(ky, r, q, p) == MayMix \/ q.pn = r.pn \/ q.pn + ky < p

\* The loop began with session r and start b; it has given out what it could in front
\* of p and keeps what lies from e on.
AtFront(ky, r, b, H, s, p, e) ==
  /\ Solid(s.reo) /\ Remains(r, s.reo, e) /\ PnKept(ky, r, s.reo, p)
  /\ InTurn(s.out, b, p) /\ LeftOver(ky, H, s.reo, s.out, e)

\* It has come to number p, and whatever was there is gone when it is over.
AtNumber(ky, r, b, H, s, p) ==
  /\ s.sn = Sn(p) /\ p >= b
  /\ \/ s.over = FALSE /\ AtFront(ky, r, b, H, s, p, p)
     \/ s.over = TRUE /\ AtFront(ky, r, b, H, s, p, p + 1)

\* A frame behind all that was given out may follow.
LEMMA AppendInTurn ==
  ASSUME NEW out, NEW lo \in Int, NEW p \in Int, InTurn(out, lo, p), lo <= p,
         NEW f \in Frame, f.n = p
  PROVE  InTurn(Append(out, f), lo, p + 1) /\ OutNumbers(Append(out, f)) = OutNumbers(out) \cup {p}
  <1>1. PICK m \in Nat : m = Len(out) /\ DOMAIN out = 1 .. m
    BY DEF InTurn
  <1>2. PICK new \in Seq(Frame) : new = Append(out, f)
    <2>1. out \in Seq(Frame)
      BY DEF InTurn
    <2>2. Append(out, f) \in Seq(Frame)
      BY <2>1
    <2> QED
      BY <2>2
  <1>3. DOMAIN new = 1 .. m + 1 /\ new[m + 1] = f /\ \A k \in 1 .. m : new[k] = out[k]
    BY <1>1, <1>2 DEF InTurn
  <1>4. \A k \in 1 .. m : out[k].n \in Int /\ lo <= out[k].n /\ out[k].n < p
    <2>1. \A k \in 1 .. m : out[k] \in Frame
      BY <1>1 DEF InTurn
    <2>2. \A g \in Frame : g.n \in Int
      BY NumberAssumption DEF Frame, Number
    <2> QED
      BY <1>1, <2>1, <2>2 DEF InTurn
  <1>5. \A j, k \in 1 .. m : j < k => out[j].n < out[k].n
    BY <1>1 DEF InTurn
  <1>6. ASSUME NEW k \in 1 .. m + 1 PROVE lo <= new[k].n /\ new[k].n < p + 1
    <2>1. CASE k = m + 1
      BY <1>3, <2>1
    <2>2. CASE k # m + 1
      BY <1>3, <1>4, <2>2
    <2> QED
      BY <2>1, <2>2
  <1>7. ASSUME NEW j \in 1 .. m + 1, NEW k \in 1 .. m + 1, j < k PROVE new[j].n < new[k].n
    <2>1. CASE k = m + 1
      <3>1. j \in 1 .. m
        BY <1>7, <2>1
      <3>2. new[j].n = out[j].n /\ new[k].n = p
        BY <1>3, <2>1, <3>1
      <3> QED
        BY <1>4, <3>1, <3>2
    <2>2. CASE k # m + 1
      <3>1. j \in 1 .. m /\ k \in 1 .. m
        BY <1>7, <2>2
      <3> QED
        BY <1>3, <1>5, <1>7, <3>1
    <2> QED
      BY <2>1, <2>2
  <1>8. InTurn(new, lo, p + 1)
    BY <1>2, <1>3, <1>6, <1>7 DEF InTurn
  <1>9. OutNumbers(new) = OutNumbers(out) \cup {p}
    <2>1. \A x : x \in OutNumbers(new) <=> \E k \in 1 .. m + 1 : x = new[k].n
      BY <1>3 DEF OutNumbers
    <2>2. \A x : x \in OutNumbers(out) <=> \E k \in 1 .. m : x = out[k].n
      BY <1>1 DEF OutNumbers
    <2>3. \A k \in 1 .. m + 1 : k = m + 1 \/ k \in 1 .. m
      OBVIOUS
    <2>4. m + 1 \in 1 .. m + 1 /\ \A k \in 1 .. m : k \in 1 .. m + 1
      OBVIOUS
    <2> QED
      BY <1>3, <2>1, <2>2, <2>3, <2>4
  <1> QED
    BY <1>2, <1>8, <1>9

\* The frame at number p, if it is still there, is at the index of p.
LEMMA FullAt ==
  ASSUME NEW ky, NEW r, Sound(r), NEW b \in Int, NEW h \in Int, Placed(ky, r, b, h),
         h < b + r.buf_size,
         NEW q, NEW p \in Int, Remains(r, q, p), p >= b, Sound(q)
  PROVE  /\ \A i \in Stored(q) : i = Slot(q.buf_size, p) => Num(q, i) = p /\ Num(r, i) = p
         /\ Slot(q.buf_size, p) \notin Stored(q) => \A i \in Stored(r) : Num(r, i) # p
  <1>1. \A i \in Stored(q) : i \in Stored(r) /\ Num(q, i) = Num(r, i) /\ Num(r, i) >= p
    BY DEF Remains, Num
  <1>2. \A i \in Stored(r) : /\ Num(r, i) \in Int /\ i = Slot(r.buf_size, Num(r, i))
                             /\ Num(r, i) \in b .. h
    BY StoredType DEF Placed
  <1>3. ASSUME NEW i \in Stored(q), i = Slot(q.buf_size, p)
        PROVE  Num(q, i) = p /\ Num(r, i) = p
    <2>1. PICK n \in Int : n = Num(r, i) /\ n = Num(q, i) /\ n >= p /\ n <= h
      BY <1>1, <1>2, HalfType DEF Sound
    <2>2. Slot(r.buf_size, n) = Slot(r.buf_size, p)
      BY <1>1, <1>2, <1>3, <2>1 DEF Remains
    <2>3. r.buf_size \in BufSize /\ r.buf_size \in Int
      BY HalfType DEF Sound
    <2>4. 0 - r.buf_size < n - p /\ n - p < r.buf_size
      BY <2>1, <2>3, HalfType
    <2>5. n = p
      BY <2>2, <2>3, <2>4, SlotInj
    <2> QED
      BY <2>1, <2>5
  <1>4. ASSUME Slot(q.buf_size, p) \notin Stored(q), NEW i \in Stored(r), Num(r, i) = p
        PROVE  FALSE
    <2>1. i \in Stored(q)
      BY <1>4 DEF Remains
    <2>2. i = Slot(q.buf_size, p)
      BY <1>2, <1>4 DEF Remains
    <2> QED
      BY <1>4, <2>1, <2>2
  <1> QED
    BY <1>3, <1>4

\* Taking out the frame at p.
LEMMA TakeAt ==
  ASSUME NEW ky, NEW r, Sound(r), NEW b \in Int, NEW h \in Int, Placed(ky, r, b, h),
         h < b + r.buf_size,
         NEW q, NEW p \in Int, Remains(r, q, p), p >= b, Solid(q),
         NEW i \in Stored(q), i = Slot(q.buf_size, p)
  PROVE  Remains(r, Taken(q, i), p + 1) /\ Solid(Taken(q, i))
  <1>1. PICK t : t = Taken(q, i)
    OBVIOUS
  <1>2. TookOut(q, i, q.buf[i].frame, t)
    BY <1>1, TakenFields DEF Solid
  <1>3. Num(r, i) = p /\ i \in Stored(r)
    BY FullAt DEF Solid, Remains
  <1>4. \A j \in Stored(r) : Num(r, j) \in Int /\ j = Slot(r.buf_size, Num(r, j))
    BY StoredType DEF Placed
  <1>5. \A j \in Stored(r) : Num(r, j) = p => j = i
    BY <1>4 DEF Remains
  <1>6. Stored(t) = {j \in Stored(r) : Num(r, j) >= p + 1}
    <2>1. Stored(t) = Stored(q) \ {i} /\ Stored(q) = {j \in Stored(r) : Num(r, j) >= p}
      BY <1>2 DEF TookOut, Remains
    <2>2. \A j \in Stored(r) : Num(r, j) >= p + 1 <=> Num(r, j) >= p /\ j # i
      BY <1>3, <1>4, <1>5
    <2> QED
      BY <2>1, <2>2
  <1>7. \A j \in Stored(t) : t.buf[j] = r.buf[j]
    <2>1. \A j \in Stored(t) : j \in Stored(q) /\ j # i /\ j \in DOMAIN q.buf
      BY <1>2 DEF TookOut, Stored
    <2>2. \A j \in DOMAIN q.buf : j # i => t.buf[j] = q.buf[j]
      BY <1>2 DEF TookOut
    <2> QED
      BY <2>1, <2>2 DEF Remains
  <1>8. Remains(r, t, p + 1)
    BY <1>2, <1>6, <1>7 DEF Remains, TookOut
  <1>9. Counted(t)
    BY <1>1, TakenCounted DEF Solid
  <1>10. Plain(t) /\ Sound(t)
    <2>1. ~Protected => q.buf[i].frame.pn = 0
      BY <1>3 DEF Placed, Remains, Numbered
    <2> QED
      BY <1>2, <2>1 DEF TookOut, Plain, Solid, Checks
  <1> QED
    BY <1>1, <1>8, <1>9, <1>10 DEF Solid

\* Where the loop can be: on its way at p, or over at p.
Goes(ky, r, b, t, h, H, s, p) ==
  /\ AtNumber(ky, r, b, H, s, p)
  /\ s.over => p >= t
  /\ p <= t \/ p <= h + 1

\* What is given out are numbers.
LEMMA OutType ==
  ASSUME NEW out, NEW lo, NEW hi, InTurn(out, lo, hi)
  PROVE  \A k \in DOMAIN out : out[k] \in Frame /\ out[k].n \in Int
  <1>1. \A k \in DOMAIN out : out[k] \in Frame
    BY DEF InTurn
  <1>2. \A f \in Frame : f.n \in Int
    BY NumberAssumption DEF Frame, Number
  <1> QED
    BY <1>1, <1>2

\* A packet number is an integer.
LEMMA PnType ==
  ASSUME NEW q, Sound(q)
  PROVE  q.pn \in Nat /\ q.pn \in Int
  <1>1. q.pn \in PacketNumber
    BY DEF Sound, Session
  <1>2. \A n \in PacketNumber : n \in Nat
    BY NumberAssumption DEF PacketNumber
  <1>3. q.pn \in Nat
    BY <1>1, <1>2
  <1> QED
    BY <1>3

\* The packet number still is that of r or of a frame in front of the next.
LEMMA PnStays ==
  ASSUME NEW ky \in Int,
         NEW r, NEW q, Sound(q), NEW p \in Int, PnKept(ky, r, q, p), NEW v, v.pn = q.pn
  PROVE  PnKept(ky, r, v, p) /\ PnKept(ky, r, v, p + 1)
  BY PnType DEF PnKept

\* The loop on its way to x.
LEMMA GoesOn ==
  ASSUME NEW ky, NEW r, NEW b \in Int, NEW t \in Int, NEW h \in Int, NEW H, NEW u,
         NEW x \in Int, x >= b,
         u.over = FALSE, u.sn = Sn(x), AtFront(ky, r, b, H, u, x, x),
         x <= t \/ x <= h + 1
  PROVE  Goes(ky, r, b, t, h, H, u, x)
  BY DEF Goes, AtNumber

\* The loop over at p.
LEMMA GoesOver ==
  ASSUME NEW ky, NEW r, NEW b \in Int, NEW t \in Int, NEW h \in Int, NEW H, NEW u,
         NEW p \in Int, p >= b, p >= t,
         u.over = TRUE, u.sn = Sn(p), AtFront(ky, r, b, H, u, p, p + 1),
         p <= t \/ p <= h + 1
  PROVE  Goes(ky, r, b, t, h, H, u, p)
  BY DEF Goes, AtNumber

\* A turn of the loop gives out the frame it finds, drops it, or finds none; it goes
\* on or is over.
LEMMA TurnOn ==
  ASSUME NEW ky \in Int,
         NEW r, Solid(r), NEW b \in Int, NEW h \in Int, Placed(ky, r, b, h), h < b + r.buf_size,
         NEW t \in Int, b <= t, t < b + Half, NEW H \in SUBSET Int, Keeps(ky, H, r),
         NEW s, NEW p \in Int, Goes(ky, r, b, t, h, H, s, p), s.over = FALSE,
         NEW u, u = Round(s, Sn(t))
  PROVE  (u.over = FALSE /\ Goes(ky, r, b, t, h, H, u, p + 1)) \/ (u.over = TRUE /\ Goes(ky, r, b, t, h, H, u, p))
  <1>01. PICK q : q = s.reo
    OBVIOUS
  <1>02. PICK i : i = Slot(q.buf_size, p)
    OBVIOUS
  <1>03. PICK f : f = q.buf[i].frame
    OBVIOUS
  <1>04. PICK x \in Int : x = p + 1
    OBVIOUS
  <1> USE <1>01, <1>02, <1>03, <1>04
  <1>0. s.sn = Sn(p) /\ p >= b /\ AtFront(ky, r, b, H, s, p, p) /\ (p <= t \/ p <= h + 1)
    BY DEF Goes, AtNumber
  <1>1. /\ s.sn = Sn(p) /\ p >= b /\ Solid(q) /\ Remains(r, q, p)
        /\ InTurn(s.out, b, p) /\ LeftOver(ky, H, q, s.out, p) /\ PnKept(ky, r, q, p)
        /\ p <= t \/ p <= h + 1
    BY <1>0 DEF AtFront
  <1>2. r.buf_size \in BufSize /\ r.buf_size \in Nat /\ r.buf_size < Half /\ q.buf_size = r.buf_size
    <2>1. r.buf_size \in BufSize
      BY DEF Solid, Sound
    <2>2. q.buf_size = r.buf_size
      BY <1>1 DEF Remains
    <2> QED
      BY <2>1, <2>2, HalfType
  <1>3. Index(q, s.sn) = i
    BY <1>1, <1>2, IndexAt
  <1>4. Less(s.sn, Sn(t)) <=> p < t
    <2>1. Half \in Int /\ r.buf_size \in Int
      BY <1>2, HalfType
    <2>2. 0 - Half < p - t /\ p - t < Half
      <3>1. p - t >= b - t /\ b - t > 0 - Half
        BY <1>1, <2>1
      <3>2. p - t <= 0 \/ p - t <= r.buf_size
        BY <1>1, <2>1
      <3> QED
        BY <1>2, <2>1, <3>1, <3>2
    <2> QED
      BY <1>1, <2>2, LessSn
  <1>5. i \in DOMAIN q.buf
    <2>1. i \in 0 .. WinSize(r.buf_size) - 1
      BY <1>2, SlotType
    <2> QED
      BY <1>1, <1>2, <2>1 DEF Solid, Sound, Session
  <1>6. q.buf[i] # None <=> i \in Stored(q)
    BY <1>5 DEF Stored
  <1>7. Sn(s.sn + 1) = Sn(p + 1)
    BY <1>1, SnStep
  <1>8. i \in Stored(q) => Num(r, i) = p /\ Num(q, i) = p /\ i \in Stored(r) /\ q.buf[i] = r.buf[i]
    BY <1>1, FullAt DEF Solid, Remains
  <1>9. i \in Stored(q) => p <= h
    BY <1>8, <1>2 DEF Placed
  <1>10. i \notin Stored(q) => \A j \in Stored(r) : Num(r, j) # p
    BY <1>1, FullAt DEF Solid
  <1>11. CASE i \in Stored(q) /\ PnOk(q, f)
    <2>1. u = [reo |-> Taken(q, i), out |-> Append(s.out, f), sn |-> Sn(p + 1), over |-> FALSE]
      BY <1>3, <1>6, <1>7, <1>11 DEF Round
    <2>2. Remains(r, Taken(q, i), p + 1) /\ Solid(Taken(q, i))
      BY <1>1, <1>11, TakeAt DEF Solid
    <2>3. f \in Frame /\ f.n = p
      BY <1>1, <1>8, <1>11, StoredType DEF Solid, Num
    <2>4. InTurn(Append(s.out, f), b, p + 1) /\ OutNumbers(Append(s.out, f)) = OutNumbers(s.out) \cup {p}
      BY <1>1, <2>3, AppendInTurn
    <2>9. Taken(q, i).pn = q.pn \/ (Taken(q, i).pn = f.pn /\ q.pn < f.pn)
      <3>1. TookOut(q, i, f, Taken(q, i))
        BY <1>1, <1>11, TakenFields DEF Solid
      <3> QED
        BY <1>11, <3>1 DEF TookOut, PnOk
    <2>10. MayMix \/ f.pn = 0 \/ f.pn = p - ky
      BY <1>8, <1>11, <2>3 DEF Placed, Numbered
    <2>11. q.pn \in Nat
      BY <1>1, PnType DEF Solid
    <2>12. PnKept(ky, r, Taken(q, i), x)
      <3>1. PnKept(ky, r, q, x)
        BY <1>1, PnStays DEF Solid
      <3>2. Taken(q, i).pn = q.pn \/ MayMix \/ Taken(q, i).pn = p - ky
        BY <2>9, <2>10, <2>11
      <3>3. p - ky + ky < x
        OBVIOUS
      <3> QED
        BY <3>1, <3>2, <3>3 DEF PnKept
    <2>5. LeftOver(ky, H, Taken(q, i), Append(s.out, f), p + 1)
      <3>3. \A n \in H : n \in OutNumbers(s.out) \/ n = p \/ n >= p + 1
        <4>1. \A n \in H : n \in Int /\ (n \in OutNumbers(s.out) \/ n >= p)
          BY <1>1 DEF LeftOver
        <4>2. \A n \in Int : n >= p => n = p \/ n >= p + 1
          OBVIOUS
        <4> QED
          BY <4>1, <4>2
      <3>4. ASSUME NEW n \in H, n >= p + 1, Protected, n \notin OutNumbers(s.out)
            PROVE  n - ky > Taken(q, i).pn
        <4>1. n - ky > q.pn /\ n > p /\ ~MayMix
          BY <1>1, <3>4 DEF LeftOver, Keeps, OneKey
        <4>2. Taken(q, i).pn = q.pn \/ Taken(q, i).pn = p - ky
          BY <2>9, <2>10, <2>11, <4>1
        <4> QED
          BY <4>1, <4>2
      <3> QED
        BY <2>4, <3>3, <3>4 DEF LeftOver
    <2>6. u.over = FALSE /\ u.sn = Sn(x) /\ u.reo = Taken(q, i) /\ u.out = Append(s.out, f)
      BY <2>1
    <2>7. AtFront(ky, r, b, H, u, x, x)
      BY <2>2, <2>4, <2>5, <2>6, <2>12 DEF AtFront
    <2>8. x >= b /\ x <= h + 1
      BY <1>1, <1>2, <1>9, <1>11
    <2> QED
      BY <2>6, <2>7, <2>8, GoesOn
  <1>12. CASE i \in Stored(q) /\ ~PnOk(q, f)
    <2>2. Remains(r, Taken(q, i), p + 1) /\ Solid(Taken(q, i))
      BY <1>1, <1>12, TakeAt DEF Solid
    <2>7. Taken(q, i).pn = q.pn
      <3>1. TookOut(q, i, f, Taken(q, i))
        BY <1>1, <1>12, TakenFields DEF Solid
      <3> QED
        BY <1>12, <3>1 DEF TookOut
    <2>8. PnKept(ky, r, Taken(q, i), p) /\ PnKept(ky, r, Taken(q, i), p + 1)
      BY <1>1, <2>7, PnStays DEF Solid
    <2>3. LeftOver(ky, H, Taken(q, i), s.out, p + 1)
      <3>3. \A n \in H : n \in OutNumbers(s.out) \/ (n >= p /\ (Protected => n - ky > q.pn))
        BY <1>1 DEF LeftOver
      <3>4. ASSUME p \in H, p \notin OutNumbers(s.out) PROVE FALSE
        <4>1. PICK j \in Stored(r) : Num(r, j) = p /\ (Protected => r.buf[j].frame.pn = p - ky)
          BY <3>4 DEF Keeps
        <4>2. j = i
          BY <1>1, <1>2, <4>1 DEF Placed
        <4>3. Protected => f.pn = p - ky /\ p - ky > q.pn
          BY <1>8, <1>12, <3>3, <3>4, <4>1, <4>2
        <4>4. ~Protected => f.pn = 0 /\ ~q.pn_check
          BY <1>1, <1>8, <1>12 DEF Placed, Numbered, Solid, Plain
        <4>5. q.pn \in Int
          BY <1>1, PnType DEF Solid
        <4> QED
          BY <1>12, <4>3, <4>4, <4>5 DEF PnOk, Checks
      <3>5. \A n \in H : n >= p => n = p \/ n >= p + 1
        OBVIOUS
      <3> QED
        BY <2>7, <3>3, <3>4, <3>5 DEF LeftOver
    <2>4. InTurn(s.out, b, p + 1)
      <3>1. \A k \in DOMAIN s.out : s.out[k].n \in Int
        BY <1>1, OutType
      <3>2. \A n \in Int : n < p => n < p + 1
        OBVIOUS
      <3> QED
        BY <1>1, <3>1, <3>2 DEF InTurn
    <2>5. CASE p < t
      <3>1. u = [reo |-> Taken(q, i), out |-> s.out, sn |-> Sn(p + 1), over |-> FALSE]
        BY <1>3, <1>6, <1>7, <1>12, <1>4, <2>5 DEF Round
      <3>2. u.over = FALSE /\ u.sn = Sn(x) /\ u.reo = Taken(q, i) /\ u.out = s.out
        BY <3>1
      <3>3. AtFront(ky, r, b, H, u, x, x)
        BY <1>1, <2>2, <2>3, <2>4, <2>8, <3>2 DEF AtFront
      <3>4. x >= b /\ x <= t
        BY <1>1, <1>4, <2>5
      <3> QED
        BY <3>2, <3>3, <3>4, GoesOn
    <2>6. CASE ~(p < t)
      <3>1. u = [reo |-> Taken(q, i), out |-> s.out, sn |-> Sn(p), over |-> TRUE]
        BY <1>1, <1>3, <1>6, <1>12, <1>4, <2>6 DEF Round
      <3>2. u.over = TRUE /\ u.sn = Sn(p) /\ u.reo = Taken(q, i) /\ u.out = s.out
        BY <3>1
      <3>3. AtFront(ky, r, b, H, u, p, p + 1)
        BY <1>1, <2>2, <2>3, <2>8, <3>2 DEF AtFront
      <3>4. p >= b /\ p >= t /\ (p <= t \/ p <= h + 1)
        BY <1>1, <1>4, <2>6
      <3> QED
        BY <3>2, <3>3, <3>4, GoesOver
    <2> QED
      BY <2>5, <2>6
  <1>13. CASE i \notin Stored(q)
    <2>8. PnKept(ky, r, q, p + 1)
      BY <1>1, PnStays DEF Solid
    <2>2. Remains(r, q, p + 1)
      <3>1. \A j \in Stored(r) : Num(r, j) \in Int /\ Num(r, j) # p
        BY <1>10, <1>13, StoredType DEF Solid
      <3>2. \A j \in Stored(r) : Num(r, j) >= p <=> Num(r, j) >= p + 1
        BY <3>1
      <3> QED
        BY <1>1, <3>2 DEF Remains
    <2>3. LeftOver(ky, H, q, s.out, p + 1)
      <3>1. \A n \in H : n \in Int /\ n # p
        BY <1>10, <1>13 DEF Keeps
      <3>2. \A n \in H : n >= p => n >= p + 1
        BY <3>1
      <3> QED
        BY <1>1, <3>2 DEF LeftOver
    <2>4. InTurn(s.out, b, p + 1)
      <3>1. \A k \in DOMAIN s.out : s.out[k].n \in Int
        BY <1>1, OutType
      <3>2. \A n \in Int : n < p => n < p + 1
        OBVIOUS
      <3> QED
        BY <1>1, <3>1, <3>2 DEF InTurn
    <2>5. CASE p < t
      <3>1. u = [reo |-> q, out |-> s.out, sn |-> Sn(p + 1), over |-> FALSE]
        BY <1>3, <1>6, <1>7, <1>13, <1>4, <2>5 DEF Round
      <3>2. u.over = FALSE /\ u.sn = Sn(x) /\ u.reo = q /\ u.out = s.out
        BY <3>1
      <3>3. AtFront(ky, r, b, H, u, x, x)
        BY <1>1, <2>2, <2>3, <2>4, <2>8, <3>2 DEF AtFront
      <3>4. x >= b /\ x <= t
        BY <1>1, <1>4, <2>5
      <3> QED
        BY <3>2, <3>3, <3>4, GoesOn
    <2>6. CASE ~(p < t)
      <3>1. u = [reo |-> q, out |-> s.out, sn |-> Sn(p), over |-> TRUE]
        BY <1>1, <1>3, <1>6, <1>13, <1>4, <2>6 DEF Round
      <3>2. u.over = TRUE /\ u.sn = Sn(p) /\ u.reo = q /\ u.out = s.out
        BY <3>1
      <3>3. AtFront(ky, r, b, H, u, p, p + 1)
        BY <1>1, <2>2, <2>3, <3>2 DEF AtFront
      <3>4. p >= b /\ p >= t /\ (p <= t \/ p <= h + 1)
        BY <1>1, <1>4, <2>6
      <3> QED
        BY <3>2, <3>3, <3>4, GoesOver
    <2> QED
      BY <2>5, <2>6
  <1> QED
    BY <1>11, <1>12, <1>13

-----------------------------------------------------------------------------
(* The whole of aml_reo_shift_to.                                           *)

\* Before it the window starts at b and the last frame stored is l, or none is.
Ready(ky, r, b, l) ==
  /\ Solid(r) /\ r.ssn = Sn(b) /\ r.lsn = Sn(l)
  /\ b - 1 <= l /\ l < b + r.buf_size
  /\ Placed(ky, r, b, l) /\ (l > b => \E i \in Stored(r) : Num(r, i) = l)

\* The loop after k turns.
Turned(ky, r, b, t, h, H, s, k) ==
  \/ s.over = FALSE /\ Goes(ky, r, b, t, h, H, s, b + k)
  \/ s.over = TRUE /\ \E p \in Int : Goes(ky, r, b, t, h, H, s, p)

\* Before its first turn the loop is at the window start.
LEMMA TurnedStart ==
  ASSUME NEW ky \in Int,
         NEW r, NEW b \in Int, NEW l \in Int, Ready(ky, r, b, l),
         NEW t \in Int, b <= t, NEW H \in SUBSET Int, Keeps(ky, H, r)
  PROVE  Turned(ky, r, b, t, l, H, Start(r), 0)
  <1>1. PICK s : s = Start(r)
    OBVIOUS
  <1>0. s.reo = r /\ s.out = <<>> /\ s.sn = Sn(b) /\ s.over = FALSE
    <2>1. r.ssn = Sn(b)
      BY DEF Ready
    <2> QED
      BY <1>1, <2>1 DEF Start
  <1>2. \A i \in Stored(r) : Num(r, i) \in Int /\ Num(r, i) >= b
    BY StoredType DEF Ready, Placed, Solid
  <1>3. Remains(r, r, b)
    BY <1>2 DEF Remains
  <1>4. InTurn(s.out, b, b)
    BY <1>0, <1>1 DEF InTurn
  <1>5. LeftOver(ky, H, r, s.out, b)
    BY <1>2 DEF LeftOver, Keeps
  <1>6. AtFront(ky, r, b, H, s, b, b)
    BY <1>0, <1>1, <1>3, <1>4, <1>5 DEF AtFront, Ready, PnKept
  <1>7. Goes(ky, r, b, t, l, H, s, b)
    BY <1>0, <1>1, <1>6 DEF Goes, AtNumber
  <1>8. b + 0 = b
    OBVIOUS
  <1> QED
    BY <1>0, <1>1, <1>7, <1>8 DEF Turned

\* One turn takes the loop one number further, or it is over.
LEMMA TurnedOn ==
  ASSUME NEW ky \in Int,
         NEW r, NEW b \in Int, NEW l \in Int, Ready(ky, r, b, l),
         NEW t \in Int, b <= t, t < b + Half, NEW H \in SUBSET Int, Keeps(ky, H, r),
         NEW s, NEW k \in Nat, Turned(ky, r, b, t, l, H, s, k), NEW u, u = Round(s, Sn(t))
  PROVE  Turned(ky, r, b, t, l, H, u, k + 1)
  <1>1. CASE s.over = FALSE /\ Goes(ky, r, b, t, l, H, s, b + k)
    <2>1. PICK p \in Int : p = b + k /\ p + 1 = b + (k + 1)
      OBVIOUS
    <2>2. \/ u.over = FALSE /\ Goes(ky, r, b, t, l, H, u, p + 1)
          \/ u.over = TRUE /\ Goes(ky, r, b, t, l, H, u, p)
      BY <1>1, <2>1, TurnOn DEF Ready
    <2> QED
      BY <2>1, <2>2 DEF Turned
  <1>2. CASE s.over = TRUE
    <2>1. u = s
      BY <1>2 DEF Round
    <2> QED
      BY <1>2, <2>1 DEF Turned
  <1> QED
    BY <1>1, <1>2 DEF Turned

\* The loop ends.
LEMMA LoopEnds ==
  ASSUME NEW ky \in Int,
         NEW r, NEW b \in Int, NEW l \in Int, Ready(ky, r, b, l),
         NEW t \in Int, b <= t, t < b + Half, NEW H \in SUBSET Int, Keeps(ky, H, r)
  PROVE  \E p \in Int : /\ Rounds(r, Sn(t))[SnModulo].over = TRUE
                        /\ Goes(ky, r, b, t, l, H, Rounds(r, Sn(t))[SnModulo], p)
  <1>1. PICK g : g = Rounds(r, Sn(t)) /\ Runs(r, Sn(t), SnModulo, g)
    BY RoundsRun
  <1> DEFINE T == {k \in 0 .. SnModulo : ~Turned(ky, r, b, t, l, H, g[k], k)}
  <1>2. T = {}
    <2>1. SUFFICES ASSUME T # {} PROVE FALSE
      OBVIOUS
    <2>2. PICK k \in T : \A y \in T : k <= y
      <3>1. T \in SUBSET Nat
        BY HalfType
      <3> QED
        BY <2>1, <3>1, LeastNat
    <2>3. CASE k = 0
      <3>1. g[0] = Start(r)
        BY <1>1 DEF Runs
      <3> QED
        BY <2>2, <2>3, <3>1, TurnedStart
    <2>4. CASE k # 0
      <3>1. PICK j \in Nat : j = k - 1 /\ k = j + 1 /\ j \in 0 .. SnModulo /\ k \in 1 .. SnModulo
        BY <2>2, <2>4, HalfType
      <3>2. Turned(ky, r, b, t, l, H, g[j], j)
        BY <2>2, <3>1
      <3>3. g[k] = Round(g[j], Sn(t))
        BY <1>1, <3>1 DEF Runs
      <3>4. Turned(ky, r, b, t, l, H, g[k], j + 1)
        BY <3>2, <3>3, TurnedOn
      <3> QED
        BY <2>2, <3>1, <3>4
    <2> QED
      BY <2>3, <2>4
  <1>3. PICK s : s = g[SnModulo] /\ Turned(ky, r, b, t, l, H, s, SnModulo)
    BY <1>2, HalfType
  <1>4. ~Goes(ky, r, b, t, l, H, s, b + SnModulo)
    <2>1. SUFFICES ASSUME Goes(ky, r, b, t, l, H, s, b + SnModulo) PROVE FALSE
      OBVIOUS
    <2>2. b + SnModulo <= t \/ b + SnModulo <= l + 1
      BY <2>1 DEF Goes
    <2>3. r.buf_size \in Nat /\ r.buf_size < Half /\ Half < SnModulo /\ Half \in Nat /\ SnModulo \in Nat
      BY HalfType DEF Ready, Solid, Sound
    <2>4. l < b + r.buf_size
      BY DEF Ready
    <2> QED
      BY <2>2, <2>3, <2>4
  <1> QED
    BY <1>1, <1>3, <1>4 DEF Turned

Later(l, p) == IF l > p THEN l ELSE p

\* The window starts at b, a hole; the last frame stored is l, or the window is empty.
Spans(ky, r, b, l) ==
  /\ Solid(r) /\ r.ssn = Sn(b) /\ r.lsn = Sn(l)
  /\ b <= l /\ l < b + r.buf_size
  /\ Placed(ky, r, b + 1, l) /\ (l > b => \E i \in Stored(r) : Num(r, i) = l)

\* What aml_reo_shift_to makes of r when it is asked to go to t: it goes on to p, gives
\* out all frames held in front of it and keeps what lies behind.
Shifted(ky, r, b, l, t, H, s, p) ==
  /\ Spans(ky, s.reo, p, Later(l, p)) /\ s.reo.linked = (r.linked /\ l > p)
  /\ s.reo.buf_size = r.buf_size /\ s.reo.reset = r.reset
  /\ Stored(s.reo) = {i \in Stored(r) : Num(r, i) > p}
  /\ \A i \in Stored(s.reo) : s.reo.buf[i] = r.buf[i]
  /\ p >= t /\ (p <= t \/ p <= l + 1)
  /\ InTurn(s.out, b, p)
  /\ \A n \in H : n \in OutNumbers(s.out) \/ n > p
  /\ Keeps(ky, H \ OutNumbers(s.out), s.reo) /\ PnKept(ky, r, s.reo, p)

\* ssn and lsn are at the same place exactly when nothing is stored.
LEMMA SpansBuffer ==
  ASSUME NEW ky, NEW r, NEW b \in Int, NEW l \in Int, Spans(ky, r, b, l)
  PROVE  HasBuffer(r) <=> l > b
  <1>1. r.buf_size \in Nat /\ r.buf_size < Half /\ Half < SnModulo /\ Half \in Nat /\ SnModulo \in Nat
    BY HalfType DEF Spans, Solid, Sound
  <1>2. 0 - SnModulo < l - b /\ l - b < SnModulo
    BY <1>1 DEF Spans
  <1>3. Sn(l) = Sn(b) => l = b
    BY <1>2, SnInj
  <1> QED
    BY <1>3 DEF Spans, HasBuffer

\* The window goes at least to t, and in front of it nothing that passes is left behind.
LEMMA Shift ==
  ASSUME NEW ky \in Int,
         NEW r, NEW b \in Int, NEW l \in Int, Ready(ky, r, b, l),
         NEW t \in Int, b <= t, t < b + Half, t < l + Half, NEW H \in SUBSET Int,
         Keeps(ky, H, r),
         NEW s, s = ShiftTo(r, Sn(t))
  PROVE  \E p \in Int : Shifted(ky, r, b, l, t, H, s, p)
  <1>0. PICK end : end = Rounds(r, Sn(t))[SnModulo]
    OBVIOUS
  <1>1. PICK p \in Int : end.over = TRUE /\ Goes(ky, r, b, t, l, H, end, p)
    BY <1>0, LoopEnds
  <1>2. end.sn = Sn(p) /\ p >= b /\ p >= t /\ (p <= t \/ p <= l + 1) /\ AtFront(ky, r, b, H, end, p, p + 1)
    BY <1>1 DEF Goes, AtNumber
  <1>3. PICK q : q = end.reo
    OBVIOUS
  <1>4. /\ Solid(q) /\ Remains(r, q, p + 1) /\ InTurn(end.out, b, p) /\ LeftOver(ky, H, q, end.out, p + 1)
        /\ PnKept(ky, r, q, p)
    BY <1>2, <1>3 DEF AtFront
  <1>5. /\ r.buf_size \in Nat /\ r.buf_size < Half /\ Half < SnModulo /\ Half \in Nat
        /\ SnModulo \in Nat /\ 1 <= r.buf_size
    BY HalfType DEF Ready, Solid, Sound
  <1>6. PICK m \in Int : m = Later(l, p) /\ m >= p /\ m >= l /\ m \in {l, p}
    BY DEF Later
  <1>7. b - 1 <= l /\ l < b + r.buf_size
    BY DEF Ready
  <1>8. LastAfter(r.lsn, end.sn) = Sn(m)
    <2>1. 0 - Half < l - p
      BY <1>2, <1>5, <1>7
    <2>2. l - p < Half
      BY <1>2, <1>5, <1>7
    <2>3. Less(Sn(l), Sn(p)) <=> l < p
      BY <2>1, <2>2, LessSn
    <2>4. r.lsn = Sn(l)
      BY DEF Ready
    <2> QED
      BY <1>2, <1>6, <2>3, <2>4 DEF LastAfter, Later
  <1>9. m < p + r.buf_size
    BY <1>2, <1>5, <1>6, <1>7
  <1>10. Sn(m) = Sn(p) <=> ~ (l > p)
    <2>1. Sn(m) = Sn(p) => m = p
      <3>1. 0 - SnModulo < m - p /\ m - p < SnModulo
        BY <1>5, <1>6, <1>9
      <3> QED
        BY <3>1, SnInj
    <2> QED
      BY <1>6, <2>1 DEF Later
  <1>11. PICK c \in BOOLEAN : c = (q.linked /\ Sn(m) # Sn(p))
    OBVIOUS
  <1>12. s.out = end.out /\ s.reo = [q EXCEPT !.ssn = Sn(p), !.lsn = Sn(m), !.linked = c]
    BY <1>0, <1>2, <1>3, <1>4, <1>8, <1>11 DEF ShiftTo, Remains
  <1>13. /\ s.reo \in Session(r.buf_size) /\ s.reo.buf_size = r.buf_size /\ s.reo.buf = q.buf
         /\ s.reo.ssn = Sn(p) /\ s.reo.lsn = Sn(m) /\ s.reo.linked = c /\ s.reo.reset = q.reset
         /\ s.reo.in_buffer = q.in_buffer /\ s.reo.pn = q.pn /\ s.reo.pn_check = q.pn_check
    <2>1. q \in Session(r.buf_size) /\ q.buf_size = r.buf_size
      BY <1>4 DEF Solid, Sound, Remains
    <2>2. Sn(p) \in 0 .. SnModulo - 1 /\ Sn(m) \in 0 .. SnModulo - 1
      BY SnType
    <2> QED
      BY <1>12, <2>1, <2>2 DEF Session
  <1>14. Solid(s.reo) /\ Stored(s.reo) = Stored(q)
    BY <1>4, <1>13 DEF Solid, Sound, Counted, Plain, Stored, Remains
  <1>15. Stored(s.reo) = {i \in Stored(r) : Num(r, i) > p}
    <2>1. \A i \in Stored(r) : Num(r, i) \in Int
      BY StoredType DEF Ready, Solid
    <2>2. \A i \in Stored(r) : Num(r, i) >= p + 1 <=> Num(r, i) > p
      BY <2>1
    <2> QED
      BY <1>4, <1>14, <2>2 DEF Remains
  <1>16. \A i \in Stored(s.reo) : s.reo.buf[i] = r.buf[i] /\ Num(s.reo, i) = Num(r, i) /\ i \in Stored(r)
    BY <1>4, <1>13, <1>14 DEF Remains, Num
  <1>17. Spans(ky, s.reo, p, m)
    <2>1. Placed(ky, s.reo, p + 1, m)
      <3>1. ASSUME NEW i \in Stored(s.reo) PROVE Num(r, i) \in p + 1 .. m
        <4>1. Num(r, i) \in b .. l /\ Num(r, i) > p
          BY <1>15, <3>1 DEF Ready, Placed
        <4> QED
          BY <1>6, <4>1
      <3> QED
        BY <1>13, <1>16, <3>1 DEF Placed, Ready
    <2>2. m > p => \E i \in Stored(s.reo) : Num(s.reo, i) = m
      <3>1. SUFFICES ASSUME m > p PROVE \E i \in Stored(s.reo) : Num(s.reo, i) = m
        OBVIOUS
      <3>2. m = l /\ l > b
        BY <1>2, <1>6, <3>1
      <3>3. PICK i \in Stored(r) : Num(r, i) = l
        BY <3>2 DEF Ready
      <3>4. i \in Stored(s.reo)
        BY <1>15, <3>1, <3>2, <3>3
      <3> QED
        BY <1>16, <3>2, <3>3, <3>4
    <2> QED
      BY <1>6, <1>9, <1>13, <1>14, <2>1, <2>2 DEF Spans
  <1>18. s.reo.linked = (r.linked /\ l > p)
    <2>1. q.linked = r.linked /\ r.linked \in BOOLEAN
      BY <1>4 DEF Remains, Ready, Solid, Sound, Session
    <2> QED
      BY <1>10, <1>11, <1>13, <2>1
  <1>19. ASSUME NEW n \in H PROVE n \in OutNumbers(s.out) \/ (n > p /\ (Protected => n - ky > s.reo.pn))
    <2>1. n \in OutNumbers(end.out) \/ (n >= p + 1 /\ (Protected => n - ky > q.pn))
      BY <1>4 DEF LeftOver
    <2>2. n \in Int
      OBVIOUS
    <2> QED
      BY <1>12, <1>13, <2>1, <2>2
  <1>20. Keeps(ky, H \ OutNumbers(s.out), s.reo)
    <2>1. ASSUME NEW n \in H \ OutNumbers(s.out)
          PROVE  \E i \in Stored(s.reo) : Num(s.reo, i) = n /\ (Protected => s.reo.buf[i].frame.pn = n - ky)
      <3>1. PICK i \in Stored(r) : Num(r, i) = n /\ (Protected => r.buf[i].frame.pn = n - ky)
        BY DEF Keeps
      <3>2. i \in Stored(s.reo)
        BY <1>15, <1>19, <3>1
      <3> QED
        BY <1>16, <3>1, <3>2
    <2> QED
      BY <1>19, <2>1 DEF Keeps, OneKey
  <1>21. s.reo.reset = r.reset
    BY <1>4, <1>13 DEF Remains
  <1>22. Shifted(ky, r, b, l, t, H, s, p)
    BY <1>2, <1>4, <1>6, <1>12, <1>13, <1>15, <1>16, <1>17, <1>18, <1>19, <1>20, <1>21 DEF Shifted, PnKept
  <1> QED
    BY <1>22

-----------------------------------------------------------------------------
(* What is given out.                                                       *)

\* One after the other.
LEMMA InTurnConcat ==
  ASSUME NEW lo \in Int, NEW mid \in Int, NEW hi \in Int, lo <= mid, mid <= hi,
         NEW o, InTurn(o, lo, mid), NEW u, InTurn(u, mid, hi)
  PROVE  /\ InTurn(o \o u, lo, hi)
         /\ OutNumbers(o \o u) = OutNumbers(o) \cup OutNumbers(u)
  <1>1. o \in Seq(Frame) /\ u \in Seq(Frame)
    BY DEF InTurn
  <1>2. PICK i \in Nat, j \in Nat : i = Len(o) /\ j = Len(u)
    BY <1>1
  <1>3. PICK w \in Seq(Frame) : w = o \o u
    <2>1. o \o u \in Seq(Frame)
      BY <1>1
    <2> QED
      BY <2>1
  <1>4. /\ DOMAIN o = 1 .. i /\ DOMAIN u = 1 .. j /\ DOMAIN w = 1 .. i + j
        /\ \A k \in 1 .. i : w[k] = o[k]
        /\ \A k \in 1 .. j : w[i + k] = u[k]
    BY <1>1, <1>2, <1>3
  <1>5. \A k \in 1 .. i : o[k].n \in Int /\ lo <= o[k].n /\ o[k].n < mid
    BY <1>4, OutType DEF InTurn
  <1>6. \A k \in 1 .. j : u[k].n \in Int /\ mid <= u[k].n /\ u[k].n < hi
    BY <1>4, OutType DEF InTurn
  <1>7. \A k \in 1 .. i + j : k \in 1 .. i \/ \E h \in 1 .. j : k = i + h
    <2>1. SUFFICES ASSUME NEW k \in 1 .. i + j, k \notin 1 .. i PROVE \E h \in 1 .. j : k = i + h
      OBVIOUS
    <2>2. k - i \in 1 .. j /\ k = i + (k - i)
      BY <2>1
    <2> QED
      BY <2>2
  <1>8. ASSUME NEW k \in 1 .. i + j PROVE lo <= w[k].n /\ w[k].n < hi
    <2>1. CASE k \in 1 .. i
      <3>1. w[k].n = o[k].n
        BY <1>4, <2>1
      <3> QED
        BY <1>5, <2>1, <3>1
    <2>2. CASE k \notin 1 .. i
      <3>1. PICK h \in 1 .. j : k = i + h
        BY <1>7, <2>2
      <3>2. w[k].n = u[h].n
        BY <1>4, <3>1
      <3> QED
        BY <1>6, <3>2
    <2> QED
      BY <2>1, <2>2
  <1>9. ASSUME NEW k \in 1 .. i + j, NEW h \in 1 .. i + j, k < h PROVE w[k].n < w[h].n
    <2>1. CASE h \in 1 .. i
      <3>1. k \in 1 .. i
        BY <1>9, <2>1
      <3> QED
        BY <1>4, <1>9, <2>1, <3>1 DEF InTurn
    <2>2. CASE h \notin 1 .. i /\ k \in 1 .. i
      <3>1. PICK y \in 1 .. j : h = i + y
        BY <1>7, <2>2
      <3>2. w[k].n = o[k].n /\ w[k].n \in Int /\ w[k].n < mid
        BY <1>4, <1>5, <2>2
      <3>3. w[h].n = u[y].n /\ w[h].n \in Int /\ mid <= w[h].n
        BY <1>4, <1>6, <3>1
      <3> QED
        BY <3>2, <3>3
    <2>3. CASE h \notin 1 .. i /\ k \notin 1 .. i
      <3>1. PICK y \in 1 .. j, x \in 1 .. j : h = i + y /\ k = i + x
        BY <1>7, <2>3
      <3>2. x < y
        BY <1>9, <3>1
      <3>3. u[x].n < u[y].n
        BY <1>4, <3>2 DEF InTurn
      <3> QED
        BY <1>4, <3>1, <3>3
    <2> QED
      BY <2>1, <2>2, <2>3
  <1>10. InTurn(w, lo, hi)
    BY <1>3, <1>4, <1>8, <1>9 DEF InTurn
  <1>11. OutNumbers(w) = OutNumbers(o) \cup OutNumbers(u)
    <2>1. \A x : x \in OutNumbers(w) <=> \E k \in 1 .. i + j : x = w[k].n
      BY <1>4 DEF OutNumbers
    <2>2. \A x : x \in OutNumbers(o) <=> \E k \in 1 .. i : x = o[k].n
      BY <1>4 DEF OutNumbers
    <2>3. \A x : x \in OutNumbers(u) <=> \E k \in 1 .. j : x = u[k].n
      BY <1>4 DEF OutNumbers
    <2>4. ASSUME NEW x, x \in OutNumbers(w) PROVE x \in OutNumbers(o) \/ x \in OutNumbers(u)
      <3>1. PICK k \in 1 .. i + j : x = w[k].n
        BY <2>1, <2>4
      <3>2. CASE k \in 1 .. i
        <4>1. w[k] = o[k]
          BY <1>4, <3>2
        <4> QED
          BY <2>2, <3>1, <3>2, <4>1
      <3>3. CASE k \notin 1 .. i
        <4>1. PICK h \in 1 .. j : k = i + h
          BY <1>7, <3>3
        <4>2. w[k] = u[h]
          BY <1>4, <4>1
        <4> QED
          BY <2>3, <3>1, <4>2
      <3> QED
        BY <3>2, <3>3
    <2>5. \A x : x \in OutNumbers(o) => x \in OutNumbers(w)
      <3>1. \A k \in 1 .. i : k \in 1 .. i + j
        OBVIOUS
      <3> QED
        BY <1>4, <2>1, <2>2, <3>1
    <2>6. \A x : x \in OutNumbers(u) => x \in OutNumbers(w)
      <3>1. \A k \in 1 .. j : i + k \in 1 .. i + j
        OBVIOUS
      <3> QED
        BY <1>4, <2>1, <2>3, <3>1
    <2> QED
      BY <2>4, <2>5, <2>6
  <1> QED
    BY <1>3, <1>10, <1>11

\* The bounds may be widened.
LEMMA InTurnWider ==
  ASSUME NEW out, NEW lo \in Int, NEW hi \in Int, InTurn(out, lo, hi),
         NEW a \in Int, NEW z \in Int, a <= lo, hi <= z
  PROVE  InTurn(out, a, z)
  <1>1. \A k \in DOMAIN out : out[k].n \in Int
    BY OutType
  <1> QED
    BY <1>1 DEF InTurn

\* Nothing, and one frame.
LEMMA InTurnNone ==
  ASSUME NEW lo, NEW hi
  PROVE  InTurn(<<>>, lo, hi) /\ OutNumbers(<<>>) = {}
  BY DEF InTurn, OutNumbers

\* One frame is in order.
LEMMA InTurnOne ==
  ASSUME NEW f \in Frame, NEW p \in Int, f.n = p
  PROVE  InTurn(<<f>>, p, p + 1) /\ OutNumbers(<<f>>) = {p}
  <1>1. PICK o : o = <<f>>
    OBVIOUS
  <1>2. o \in Seq(Frame) /\ DOMAIN o = {1} /\ o[1] = f
    BY <1>1
  <1> QED
    BY <1>1, <1>2 DEF InTurn, OutNumbers

\* The last frame given out is behind all the others.
LEMMA LastOutIs ==
  ASSUME NEW out, NEW lo \in Int, NEW hi \in Int, InTurn(out, lo, hi),
         NEW d \in Int, d <= lo, lo < hi
  PROVE  /\ LastOut(out, d) \in Int /\ d <= LastOut(out, d) /\ LastOut(out, d) < hi
         /\ \A n \in OutNumbers(out) : n \in Int /\ n <= LastOut(out, d) /\ lo <= n /\ n < hi
  <1>1. PICK m \in Nat : m = Len(out) /\ DOMAIN out = 1 .. m
    BY DEF InTurn
  <1>2. \A k \in 1 .. m : out[k].n \in Int /\ lo <= out[k].n /\ out[k].n < hi
    BY <1>1, OutType DEF InTurn
  <1>3. CASE out = <<>>
    BY <1>3, InTurnNone DEF LastOut
  <1>4. CASE out # <<>>
    <2>1. m \in 1 .. m
      BY <1>1, <1>4 DEF InTurn
    <2>2. LastOut(out, d) = out[m].n
      BY <1>1, <1>4 DEF LastOut, Last
    <2>3. \A k \in 1 .. m : out[k].n <= out[m].n
      <3>1. \A k \in 1 .. m : k = m \/ k < m
        OBVIOUS
      <3> QED
        BY <1>1, <1>2, <2>1, <3>1 DEF InTurn
    <2>4. \A n \in OutNumbers(out) : \E k \in 1 .. m : n = out[k].n
      BY <1>1 DEF OutNumbers
    <2>5. out[m].n \in Int /\ lo <= out[m].n /\ out[m].n < hi
      BY <1>2, <2>1
    <2>6. ASSUME NEW n \in OutNumbers(out)
          PROVE  n \in Int /\ n <= out[m].n /\ lo <= n /\ n < hi
      <3>1. PICK k \in 1 .. m : n = out[k].n
        BY <2>4
      <3> QED
        BY <1>2, <2>3, <3>1
    <2> QED
      BY <2>2, <2>5, <2>6
  <1> QED
    BY <1>3, <1>4

-----------------------------------------------------------------------------
(* The ways a frame is taken in: aml_reo_enqueue.                           *)

\* A window from b to l; only a session that stores something is on the list.
Kept(ky, r, b, l) == Spans(ky, r, b, l) /\ (r.linked => l > b)

\* The numbers of a window and of what it stores.
LEMMA SpansNumbers ==
  ASSUME NEW ky, NEW r, NEW b \in Int, NEW l \in Int, Spans(ky, r, b, l)
  PROVE  /\ Solid(r) /\ Sound(r) /\ r.buf_size \in BufSize /\ r.buf_size \in Nat
         /\ 1 <= r.buf_size /\ r.buf_size < Half
         /\ Half \in Nat /\ Half < SnModulo /\ SnModulo \in Nat
         /\ b <= l /\ l < b + r.buf_size
         /\ \A i \in Stored(r) : /\ Num(r, i) \in b + 1 .. l /\ i = Slot(r.buf_size, Num(r, i))
                                 /\ Numbered(ky, r.buf[i].frame)
  BY HalfType DEF Spans, Solid, Sound, Placed

\* A window that starts with a hole is one to be shifted.
LEMMA SpansReady ==
  ASSUME NEW ky, NEW r, NEW b \in Int, NEW l \in Int, Spans(ky, r, b, l)
  PROVE  Ready(ky, r, b, l)
  <1>1. \A i \in Stored(r) : Num(r, i) \in b .. l
    BY SpansNumbers
  <1>2. Placed(ky, r, b, l)
    BY <1>1 DEF Spans, Placed
  <1> QED
    BY <1>2, SpansNumbers DEF Spans, Ready

\* At the index of a number inside the window is the frame of that number, or none.
LEMMA SlotFree ==
  ASSUME NEW ky, NEW r, NEW b \in Int, NEW l \in Int, Spans(ky, r, b, l),
         NEW n \in Int, b <= n, n < b + r.buf_size, NEW i, i = Slot(r.buf_size, n)
  PROVE  /\ i \in 0 .. WinSize(r.buf_size) - 1 /\ i \in DOMAIN r.buf
         /\ r.buf[i] # None <=> i \in Stored(r)
         /\ i \in Stored(r) => Num(r, i) = n
         /\ \A j \in Stored(r) : Num(r, j) = n => j = i
  <1>1. i \in 0 .. WinSize(r.buf_size) - 1
    BY SpansNumbers, SlotType
  <1>2. i \in DOMAIN r.buf
    <2>1. Sound(r)
      BY SpansNumbers
    <2> QED
      BY <1>1, <2>1 DEF Sound, Session
  <1>3. r.buf[i] # None <=> i \in Stored(r)
    BY <1>2 DEF Stored
  <1>4. ASSUME i \in Stored(r) PROVE Num(r, i) = n
    <2>1. PICK x \in Int : x = Num(r, i) /\ b + 1 <= x /\ x <= l /\ Slot(r.buf_size, x) = i
      BY <1>4, SpansNumbers
    <2>2. 0 - r.buf_size < x - n /\ x - n < r.buf_size
      BY <2>1, SpansNumbers
    <2> QED
      BY <2>1, <2>2, SlotInj, SpansNumbers
  <1>5. \A j \in Stored(r) : Num(r, j) = n => j = i
    BY SpansNumbers
  <1> QED
    BY <1>1, <1>2, <1>3, <1>4, <1>5

\* q is r with the frame f at index i.
PutIn(r, i, f, q) ==
  /\ Sound(q) /\ q.buf_size = r.buf_size /\ q.ssn = r.ssn /\ q.lsn = r.lsn
  /\ q.linked = r.linked /\ q.reset = r.reset /\ q.in_buffer = r.in_buffer
  /\ q.pn = r.pn /\ q.pn_check = r.pn_check
  /\ Stored(q) = Stored(r) \cup {i} /\ q.buf[i].frame = f
  /\ \A j \in Stored(r) : j # i => q.buf[j] = r.buf[j]

\* Storing a frame touches its index only.
LEMMA PutFields ==
  ASSUME NEW r, Sound(r), NEW i \in 0 .. WinSize(r.buf_size) - 1, NEW f \in Frame
  PROVE  PutIn(r, i, f, Put(r, i, f))
  <1>1. PICK e : e = [frame |-> f, left |-> Timeout]
    OBVIOUS
  <1>2. e \in Entry /\ e.frame = f
    BY <1>1, NumberAssumption DEF Entry
  <1>3. e # None
    BY <1>2, NoneAssumption DEF Entry, Frame, Number, PacketNumber
  <1>4. PICK g \in [0 .. WinSize(r.buf_size) - 1 -> {None} \cup Entry] : g = [r.buf EXCEPT ![i] = e]
    <2>1. [r.buf EXCEPT ![i] = e] \in [0 .. WinSize(r.buf_size) - 1 -> {None} \cup Entry]
      BY <1>2 DEF Sound, Session
    <2> QED
      BY <2>1
  <1>5. PICK q : q = Put(r, i, f)
    OBVIOUS
  <1>6. q = [r EXCEPT !.buf = g]
    BY <1>1, <1>4, <1>5 DEF Put, Sound, Session
  <1>7. /\ q \in Session(r.buf_size) /\ q.buf_size = r.buf_size /\ q.ssn = r.ssn /\ q.lsn = r.lsn
        /\ q.linked = r.linked /\ q.reset = r.reset /\ q.in_buffer = r.in_buffer
        /\ q.pn = r.pn /\ q.pn_check = r.pn_check /\ q.buf = g
    BY <1>6 DEF Sound, Session
  <1>8. /\ DOMAIN g = DOMAIN r.buf /\ i \in DOMAIN g /\ g[i] = e
        /\ \A j \in DOMAIN r.buf : j # i => g[j] = r.buf[j]
    BY <1>4 DEF Sound, Session
  <1>9. Stored(q) = Stored(r) \cup {i}
    BY <1>3, <1>7, <1>8 DEF Stored
  <1>10. \A j \in Stored(r) : j # i => q.buf[j] = r.buf[j]
    BY <1>7, <1>8 DEF Stored
  <1>11. Sound(q)
    BY <1>7 DEF Sound
  <1>12. q.buf[i].frame = f
    BY <1>2, <1>7, <1>8
  <1> QED
    BY <1>5, <1>7, <1>9, <1>10, <1>11, <1>12 DEF PutIn

\* The frames of new are at most f, and the session will pass it on.
Fresh(ky, r, f, new) ==
  /\ new \subseteq {f.n} /\ (MayMix => new = {})
  /\ new # {} /\ Protected => f.pn = f.n - ky /\ f.n - ky > r.pn

\* The outcome of an operation that took in the numbers of new, on a session that started
\* at b and stored up to l: it starts at p now and stores up to m.
Gave(ky, r, b, l, H, new, s, p, m) ==
  /\ Kept(ky, s.reo, p, m) /\ s.reo.buf_size = r.buf_size /\ s.reo.reset = r.reset
  /\ b <= p
  /\ InTurn(s.out, b, p + 1)
  /\ Keeps(ky, (H \cup new) \ OutNumbers(s.out), s.reo)
  /\ (l > b => r.linked) => (m > p => s.reo.linked)

\* What is kept of many is kept of some.
LEMMA KeepsLess ==
  ASSUME NEW ky, NEW H, NEW G, G \subseteq H, NEW r, Keeps(ky, H, r)
  PROVE  Keeps(ky, G, r)
  <1>1. MayMix => G = {}
    BY DEF Keeps, OneKey
  <1>2. OneKey(G)
    BY <1>1 DEF Keeps, OneKey
  <1> QED
    BY <1>2, Zenon DEF Keeps

\* The frame taken in stays in the session, u.
LEMMA GaveNone ==
  ASSUME NEW ky, NEW r, NEW b \in Int, NEW l, NEW H, NEW new, NEW u, NEW m, Kept(ky, u, b, m),
         Keeps(ky, H \cup new, u), u.buf_size = r.buf_size, u.reset = r.reset,
         (l > b => r.linked) => (m > b => u.linked)
  PROVE  Gave(ky, r, b, l, H, new, [reo |-> u, out |-> <<>>], b, m)
  <1>1. PICK s : s = [reo |-> u, out |-> <<>>]
    OBVIOUS
  <1>2. s.reo = u /\ s.out = <<>>
    BY <1>1
  <1>3. InTurn(s.out, b, b + 1) /\ (H \cup new) \ OutNumbers(s.out) = H \cup new
    BY <1>2, InTurnNone
  <1>4. Keeps(ky, (H \cup new) \ OutNumbers(s.out), s.reo)
    BY <1>2, <1>3
  <1>5. (l > b => r.linked) => (m > b => s.reo.linked)
    BY <1>2
  <1>6. Kept(ky, s.reo, b, m) /\ s.reo.buf_size = r.buf_size /\ s.reo.reset = r.reset /\ b <= b
    BY <1>2
  <1>7. Gave(ky, r, b, l, H, new, s, b, m)
    BY <1>3, <1>4, <1>5, <1>6 DEF Gave
  <1> QED
    BY <1>1, <1>7

\* The frame f of number n, whose index is i, reaches a session whose window has its number.
Takes(ky, r, b, l, H, f, n, i, new) ==
  /\ b \in Int /\ l \in Int /\ n \in Int /\ H \in SUBSET Int /\ f \in Frame
  /\ Kept(ky, r, b, l) /\ Keeps(ky, H, r) /\ Fresh(ky, r, f, new) /\ Numbered(ky, f)
  /\ n = f.n /\ b <= n /\ n < b + r.buf_size /\ i = Slot(r.buf_size, n)

\* A number that is already stored keeps the copy that will pass its check.
LEMMA AgainKeeps ==
  ASSUME NEW ky \in Int,
         NEW r, NEW b \in Int, NEW l \in Int, NEW H \in SUBSET Int, NEW f \in Frame,
         NEW n \in Int, NEW i, NEW new,
         Takes(ky, r, b, l, H, f, n, i, new), r.buf[i] # None, NEW u, u = Again(r, i, f)
  PROVE  Gave(ky, r, b, l, H, new, [reo |-> u, out |-> <<>>], b, l)
  <1>0. /\ Kept(ky, r, b, l) /\ Keeps(ky, H, r) /\ Fresh(ky, r, f, new) /\ Numbered(ky, f)
        /\ n = f.n /\ b <= n /\ n < b + r.buf_size /\ i = Slot(r.buf_size, n)
    BY DEF Takes
  <1> USE <1>0
  <1>1. /\ i \in 0 .. WinSize(r.buf_size) - 1 /\ i \in Stored(r) /\ Num(r, i) = n
        /\ \A j \in Stored(r) : Num(r, j) = n => j = i
    BY SlotFree DEF Kept
  <1>2. Solid(r) /\ Sound(r)
    BY SpansNumbers DEF Kept
  <1>3. PICK g : g = r.buf[i].frame /\ g \in Frame /\ g.n = n /\ Numbered(ky, g)
    BY <1>1, <1>2, StoredType, SpansNumbers DEF Kept, Num
  <1>4. r.pn \in Nat
    BY <1>2, PnType
  <1>7. OneKey(H \cup new)
    BY DEF Keeps, OneKey, Fresh
  <1>5. CASE u = r /\ ~(Checks(r, f) /\ (g.pn = 0 \/ g.pn < f.pn))
    <2>1. ASSUME NEW x \in new
          PROVE  (Protected => x - ky > r.pn)
                 /\ \E j \in Stored(r) : Num(r, j) = x /\ (Protected => r.buf[j].frame.pn = x - ky)
      <3>1. x = n
        BY DEF Fresh
      <3>2. Protected => n - ky > r.pn /\ f.pn = n - ky /\ ~MayMix
        BY DEF Fresh
      <3>3. Protected => g.pn = n - ky
        BY <1>3, <1>4, <1>5, <3>2 DEF Numbered, Checks
      <3> QED
        BY <1>1, <1>3, <3>1, <3>2, <3>3
    <2>2. Keeps(ky, H \cup new, u)
      BY <1>5, <1>7, <2>1, Zenon DEF Keeps
    <2>3. u.linked = r.linked /\ u.buf_size = r.buf_size /\ u.reset = r.reset /\ Kept(ky, u, b, l)
      BY <1>5
    <2>4. (l > b => r.linked) => (l > b => u.linked)
      BY <2>3
    <2> QED
      BY <2>2, <2>3, <2>4, GaveNone
  <1>6. CASE u = Put(r, i, f) /\ Checks(r, f) /\ (g.pn = 0 \/ g.pn < f.pn)
    <2>1. PutIn(r, i, f, u)
      BY <1>1, <1>2, <1>6, PutFields
    <2>2. Stored(u) = Stored(r) /\ \A j \in Stored(u) : Num(u, j) = Num(r, j)
      <3>1. Stored(u) = Stored(r)
        BY <1>1, <2>1 DEF PutIn
      <3>2. Num(u, i) = Num(r, i)
        BY <1>1, <2>1 DEF PutIn, Num
      <3> QED
        BY <2>1, <3>1, <3>2, Zenon DEF PutIn, Num
    <2>3. Solid(u)
      BY <1>2, <2>1, <2>2 DEF PutIn, Solid, Counted, Plain
    <2>4. Placed(ky, u, b + 1, l)
      <3>1. \A j \in Stored(u) : Numbered(ky, u.buf[j].frame)
        BY <2>1, <2>2, SpansNumbers DEF PutIn, Kept
      <3>2. \A j \in Stored(u) : Num(u, j) \in b + 1 .. l /\ j = Slot(u.buf_size, Num(u, j))
        BY <2>1, <2>2, SpansNumbers DEF PutIn, Kept
      <3> QED
        BY <3>1, <3>2 DEF Placed
    <2>5. Kept(ky, u, b, l)
      BY <2>1, <2>2, <2>3, <2>4 DEF Kept, Spans, PutIn
    <2>6. ASSUME NEW x \in H \cup new
          PROVE  (Protected => x - ky > u.pn)
                 /\ \E j \in Stored(u) : Num(u, j) = x /\ (Protected => u.buf[j].frame.pn = x - ky)
      <3>1. CASE x = n
        <4>1. Protected => x - ky > r.pn
          BY <3>1 DEF Keeps, Fresh
        <4>2. Protected => f.pn = n - ky
          <5>1. CASE x \in new
            BY <5>1 DEF Fresh
          <5>2. CASE x \in H
            <6>1. PICK j \in Stored(r) : Num(r, j) = x /\ (Protected => r.buf[j].frame.pn = x - ky)
              BY <5>2 DEF Keeps
            <6>2. j = i
              BY <1>1, <3>1, <6>1
            <6>3. Protected => g.pn = n - ky /\ n - ky > 0 /\ ~MayMix
              BY <1>3, <1>4, <3>1, <4>1, <5>2, <6>1, <6>2 DEF Keeps, OneKey
            <6> QED
              BY <1>4, <1>6, <6>3 DEF Numbered
          <5> QED
            BY <5>1, <5>2
        <4> QED
          BY <1>1, <2>1, <2>2, <3>1, <4>1, <4>2 DEF PutIn
      <3>2. CASE x # n
        <4>1. x \in H
          BY <3>2 DEF Fresh
        <4>2. PICK j \in Stored(r) : Num(r, j) = x /\ (Protected => r.buf[j].frame.pn = x - ky)
          BY <4>1 DEF Keeps
        <4>3. j # i /\ j \in Stored(u)
          BY <1>1, <2>2, <3>2, <4>2
        <4>4. u.buf[j] = r.buf[j] /\ Num(u, j) = x
          BY <2>1, <2>2, <4>2, <4>3 DEF PutIn
        <4>5. Protected => x - ky > u.pn
          BY <2>1, <4>1 DEF Keeps, PutIn
        <4> QED
          BY <4>2, <4>3, <4>4, <4>5
      <3> QED
        BY <3>1, <3>2
    <2>7. Keeps(ky, H \cup new, u)
      BY <1>7, <2>6 DEF Keeps
    <2>8. u.linked = r.linked /\ u.buf_size = r.buf_size /\ u.reset = r.reset
      BY <2>1 DEF PutIn
    <2>9. (l > b => r.linked) => (l > b => u.linked)
      BY <2>8
    <2> QED
      BY <2>5, <2>7, <2>8, <2>9, GaveNone
  <1> QED
    BY <1>3, <1>5, <1>6 DEF Again

\* A frame behind the start of the window is stored.
LEMMA BufferedKeeps ==
  ASSUME NEW ky \in Int,
         NEW r, NEW b \in Int, NEW l \in Int, NEW H \in SUBSET Int, NEW f \in Frame,
         NEW n \in Int, NEW i, NEW new,
         Takes(ky, r, b, l, H, f, n, i, new), r.buf[i] = None, b # n,
         NEW u, u = Buffered(r, i, f)
  PROVE  Gave(ky, r, b, l, H, new, [reo |-> u, out |-> <<>>], b, Later(n, l))
  <1>0. /\ Kept(ky, r, b, l) /\ Keeps(ky, H, r) /\ Fresh(ky, r, f, new) /\ Numbered(ky, f)
        /\ n = f.n /\ b < n /\ n < b + r.buf_size /\ i = Slot(r.buf_size, n)
    BY DEF Takes
  <1> USE <1>0
  <1>1. i \in 0 .. WinSize(r.buf_size) - 1 /\ i \notin Stored(r)
    <2>1. Spans(ky, r, b, l) /\ b <= n
      BY DEF Kept
    <2>2. i \in 0 .. WinSize(r.buf_size) - 1 /\ (r.buf[i] # None <=> i \in Stored(r))
      BY <2>1, SlotFree
    <2> QED
      BY <2>2
  <1>2. Solid(r) /\ Sound(r) /\ r \in Session(r.buf_size) /\ Counted(r) /\ r.in_buffer \in Int
    <2>1. Solid(r)
      BY SpansNumbers DEF Kept
    <2> QED
      BY <2>1 DEF Solid, Sound, Session
  <1>3. PICK c \in Int : c = r.in_buffer + 1
    BY <1>2
  <1>4. PICK v : v = [r EXCEPT !.in_buffer = c]
    OBVIOUS
  <1>5. /\ v \in Session(r.buf_size) /\ v.buf_size = r.buf_size /\ v.ssn = r.ssn /\ v.lsn = r.lsn
        /\ v.linked = r.linked /\ v.reset = r.reset /\ v.in_buffer = c
        /\ v.pn = r.pn /\ v.pn_check = r.pn_check /\ v.buf = r.buf
    BY <1>2, <1>4 DEF Session
  <1>6. Sound(v) /\ Stored(v) = Stored(r)
    BY <1>2, <1>5 DEF Sound, Stored
  <1>7. PICK q : q = Put(v, i, f)
    OBVIOUS
  <1>8. PutIn(v, i, f, q)
    BY <1>1, <1>5, <1>6, <1>7, PutFields
  <1>9. PICK m \in Int : m = Later(n, l) /\ m >= n /\ m >= l /\ m \in {n, l}
    BY DEF Later
  <1>10. /\ b <= l /\ l < b + r.buf_size /\ r.buf_size \in Nat /\ r.buf_size < Half
         /\ Half \in Nat
    BY SpansNumbers DEF Kept
  <1>11. (IF Less(r.lsn, Sn(n)) THEN Sn(n) ELSE r.lsn) = Sn(m)
    <2>1. 0 - Half < l - n /\ l - n < Half
      BY <1>10
    <2>2. Less(Sn(l), Sn(n)) <=> l < n
      BY <2>1, LessSn
    <2>3. r.lsn = Sn(l)
      BY DEF Kept, Spans
    <2> QED
      BY <1>9, <2>2, <2>3 DEF Later
  <1>12. PICK on \in BOOLEAN : on = (r.linked \/ Joins(q.in_buffer))
    OBVIOUS
  <1>13. u = [q EXCEPT !.lsn = Sn(m), !.linked = on]
    <2>1. v = [r EXCEPT !.in_buffer = @ + 1]
      BY <1>3, <1>4
    <2>2. q.lsn = r.lsn /\ q.linked = r.linked /\ q \in Session(q.buf_size)
      BY <1>5, <1>8 DEF PutIn, Sound
    <2> QED
      BY <1>7, <1>11, <1>12, <2>1, <2>2 DEF Buffered
  <1>14. q \in Session(r.buf_size) /\ q.buf_size = r.buf_size
    BY <1>5, <1>8 DEF PutIn, Sound
  <1>15. Sn(m) \in 0 .. SnModulo - 1
    BY SnType
  <1>16. /\ u \in Session(r.buf_size) /\ u.buf_size = r.buf_size /\ u.ssn = q.ssn /\ u.lsn = Sn(m)
         /\ u.linked = on /\ u.reset = q.reset /\ u.in_buffer = q.in_buffer
         /\ u.pn = q.pn /\ u.pn_check = q.pn_check /\ u.buf = q.buf
    BY <1>13, <1>14, <1>15 DEF Session
  <1>17. /\ u.ssn = r.ssn /\ u.reset = r.reset /\ u.in_buffer = c /\ u.pn = r.pn
         /\ u.pn_check = r.pn_check
    BY <1>5, <1>8, <1>16 DEF PutIn
  <1>18. Stored(u) = Stored(r) \cup {i}
    BY <1>6, <1>8, <1>16 DEF PutIn, Stored
  <1>19. u.buf[i].frame = f /\ \A j \in Stored(r) : u.buf[j] = r.buf[j]
    BY <1>1, <1>5, <1>6, <1>8, <1>16 DEF PutIn
  <1>20. Num(u, i) = n /\ \A j \in Stored(r) : Num(u, j) = Num(r, j)
    BY <1>19 DEF Num
  <1>21. Counted(u)
    <2>1. Cardinality(Stored(r) \cup {i}) = Cardinality(Stored(r)) + 1
      BY <1>1, <1>2, StoredFinite, FS_AddElement
    <2> QED
      BY <1>2, <1>3, <1>17, <1>18, <2>1 DEF Counted
  <1>22. Solid(u)
    BY <1>2, <1>16, <1>17, <1>21 DEF Solid, Sound, Plain
  <1>23. Placed(ky, u, b + 1, m)
    <2>1. ASSUME NEW j \in Stored(r)
          PROVE  Num(u, j) \in b + 1 .. m /\ j = Slot(u.buf_size,
         Num(u, j)) /\ Numbered(ky, u.buf[j].frame)
      <3>1. Num(r, j) \in b + 1 .. l /\ j = Slot(r.buf_size, Num(r, j)) /\ Numbered(ky, r.buf[j].frame)
        BY SpansNumbers DEF Kept
      <3> QED
        BY <1>9, <1>16, <1>19, <1>20, <3>1
    <2>2. Num(u, i) \in b + 1 .. m /\ i = Slot(u.buf_size, Num(u, i)) /\ Numbered(ky, u.buf[i].frame)
      BY <1>9, <1>16, <1>19, <1>20
    <2> QED
      BY <1>18, <2>1, <2>2 DEF Placed
  <1>24. \E j \in Stored(u) : Num(u, j) = m
    <2>1. CASE m = n
      BY <1>18, <1>20, <2>1
    <2>2. CASE m = l /\ l > n
      <3>1. PICK j \in Stored(r) : Num(r, j) = l
        BY <2>2 DEF Kept, Spans
      <3> QED
        BY <1>18, <1>20, <2>2, <3>1
    <2> QED
      BY <1>9, <2>1, <2>2 DEF Later
  <1>25. Kept(ky, u, b, m)
    BY <1>9, <1>10, <1>16, <1>17, <1>22, <1>23, <1>24 DEF Kept, Spans
  <1>26. Keeps(ky, H \cup new, u)
    <2>1. ASSUME NEW x \in H
          PROVE  (Protected => x - ky > u.pn)
                 /\ \E j \in Stored(u) : Num(u, j) = x /\ (Protected => u.buf[j].frame.pn = x - ky)
      <3>1. PICK j \in Stored(r) : Num(r, j) = x /\ (Protected => r.buf[j].frame.pn = x - ky)
        BY DEF Keeps
      <3>2. Protected => x - ky > r.pn
        BY DEF Keeps
      <3> QED
        BY <1>17, <1>18, <1>19, <1>20, <3>1, <3>2
    <2>2. ASSUME NEW x \in new
          PROVE  (Protected => x - ky > u.pn)
                 /\ \E j \in Stored(u) : Num(u, j) = x /\ (Protected => u.buf[j].frame.pn = x - ky)
      <3>1. x = n /\ (Protected => f.pn = n - ky /\ n - ky > r.pn)
        BY DEF Fresh
      <3> QED
        BY <1>17, <1>18, <1>19, <1>20, <3>1
    <2>3. \A x \in H \cup new : x \in H \/ x \in new
      OBVIOUS
    <2>4. OneKey(H \cup new)
      BY DEF Keeps, OneKey, Fresh
    <2> QED
      BY <2>1, <2>2, <2>3, <2>4, Zenon DEF Keeps
  <1>27. (l > b => r.linked) => u.linked
    <2>1. SUFFICES ASSUME l > b => r.linked, ~(l > b) PROVE on
      BY <1>12, <1>16
    <2>2. Stored(r) = {}
      <3>1. \A j \in Stored(r) : Num(r, j) \in b + 1 .. l
        BY SpansNumbers DEF Kept
      <3> QED
        BY <2>1, <3>1
    <2>3. r.in_buffer = 0
      BY <1>2, <2>2, FS_EmptySet DEF Counted
    <2>4. q.in_buffer = 1
      BY <1>3, <1>5, <1>8, <2>3 DEF PutIn
    <2> QED
      BY <1>12, <2>4 DEF Joins
  <1>28. (l > b => r.linked) => (m > b => u.linked)
    BY <1>27
  <1>29. u.buf_size = r.buf_size /\ u.reset = r.reset
    BY <1>16, <1>17
  <1> QED
    BY <1>9, <1>25, <1>26, <1>28, <1>29, GaveNone

\* aml_reo_pn_check changes nothing but what it keeps of packet numbers.
CheckedOf(r, f, v) ==
  /\ Sound(v) /\ v.buf_size = r.buf_size /\ v.ssn = r.ssn /\ v.lsn = r.lsn
  /\ v.linked = r.linked /\ v.reset = r.reset /\ v.in_buffer = r.in_buffer /\ v.buf = r.buf
  /\ v.pn_check = Checks(r, f)
  /\ v.pn = IF Checks(r, f) /\ PnOk(r, f) THEN f.pn ELSE r.pn

\* The check of a frame touches packet numbers only.
LEMMA CheckedFields ==
  ASSUME NEW r, Sound(r), NEW f \in Frame
  PROVE  CheckedOf(r, f, Checked(r, f))
  <1>1. PICK pn \in PacketNumber, pc \in BOOLEAN :
          /\ pn = IF Checks(r, f) /\ PnOk(r, f) THEN f.pn ELSE r.pn
          /\ pc = Checks(r, f)
    BY DEF Sound, Session, Frame, Checks
  <1>2. PICK v : v = Checked(r, f)
    OBVIOUS
  <1>3. v = [r EXCEPT !.pn_check = pc, !.pn = pn]
    BY <1>1, <1>2 DEF Checked, Sound, Session
  <1>4. /\ v \in Session(r.buf_size) /\ v.buf_size = r.buf_size /\ v.ssn = r.ssn
        /\ v.lsn = r.lsn /\ v.linked = r.linked /\ v.reset = r.reset
        /\ v.in_buffer = r.in_buffer /\ v.buf = r.buf /\ v.pn_check = pc /\ v.pn = pn
    BY <1>3 DEF Sound, Session
  <1> QED
    BY <1>1, <1>2, <1>4 DEF CheckedOf, Sound

\* The frame the window waits for is given out, with all that is continuous from it, or
\* it fails its check and is dropped.
LEMMA InOrderGives ==
  ASSUME NEW ky \in Int,
         NEW r, NEW b \in Int, NEW l \in Int, NEW H \in SUBSET Int, NEW f \in Frame,
         NEW j, NEW new, Takes(ky, r, b, l, H, f, b, j, new),
         NEW u, u = InOrder(r, f)
  PROVE  \E p \in Int, m \in Int : Gave(ky, r, b, l, H, new, u, p, m) /\ (p <= b + 1 \/ p <= l + 1)
  <1>0. /\ Kept(ky, r, b, l) /\ Keeps(ky, H, r) /\ Fresh(ky, r, f, new) /\ Numbered(ky, f) /\ f.n = b
    BY DEF Takes
  <1> USE <1>0
  <1>1. Solid(r) /\ Sound(r) /\ r \in Session(r.buf_size) /\ Spans(ky, r, b, l)
    BY SpansNumbers DEF Kept, Sound
  <1>2. PICK v : v = Checked(r, f)
    OBVIOUS
  <1>3. CheckedOf(r, f, v)
    BY <1>1, <1>2, CheckedFields
  <1>4. Stored(v) = Stored(r) /\ \A i \in Stored(r) : v.buf[i] = r.buf[i] /\ Num(v, i) = Num(r, i)
    BY <1>3 DEF CheckedOf, Stored, Num
  <1>5. ~Protected => f.pn = 0 /\ ~Checks(r, f) /\ r.pn = 0
    BY <1>1 DEF Numbered, Checks, Solid, Plain
  <1>6. Solid(v)
    BY <1>1, <1>3, <1>4, <1>5 DEF CheckedOf, Solid, Counted, Plain
  <1>7. /\ b <= l /\ l < b + r.buf_size /\ r.buf_size \in Nat /\ r.buf_size < Half
        /\ Half \in Nat /\ 1 <= r.buf_size
    BY <1>1, SpansNumbers
  <1>8. CASE PnOk(r, f)
    <2>1. PICK c \in Int : c = b + 1
      OBVIOUS
    <2>2. Sn(r.ssn + 1) = Sn(c) /\ Sn(v.ssn + 1) = Sn(c)
      <3>1. r.ssn = Sn(b) /\ v.ssn = Sn(b)
        BY <1>1, <1>3 DEF Spans, CheckedOf
      <3> QED
        BY <2>1, <3>1, SnStep
    <2>3. PICK w : w = [v EXCEPT !.ssn = Sn(c)]
      OBVIOUS
    <2>4. PICK s : s = ShiftTo(w, Sn(c))
      OBVIOUS
    <2>5. v \in Session(r.buf_size) /\ v.buf_size = r.buf_size
      BY <1>3 DEF CheckedOf, Sound
    <2>6. u.reo = s.reo /\ u.out = <<f>> \o s.out
      <3>1. w = [v EXCEPT !.ssn = Sn(@ + 1)]
        BY <2>2, <2>3, <2>5 DEF Session
      <3> QED
        BY <1>2, <1>8, <2>2, <2>4, <3>1 DEF InOrder
    <2>7. Sn(c) \in 0 .. SnModulo - 1
      BY SnType
    <2>8. /\ w \in Session(r.buf_size) /\ w.buf_size = r.buf_size /\ w.ssn = Sn(c) /\ w.lsn = v.lsn
          /\ w.linked = v.linked /\ w.reset = v.reset /\ w.in_buffer = v.in_buffer
          /\ w.pn = v.pn /\ w.pn_check = v.pn_check /\ w.buf = v.buf
      BY <2>3, <2>5, <2>7 DEF Session
    <2>9. Stored(w) = Stored(r) /\ \A i \in Stored(r) : w.buf[i] = r.buf[i] /\ Num(w, i) = Num(r, i)
      BY <1>4, <2>8 DEF Stored, Num
    <2>10. Solid(w)
      BY <1>6, <1>4, <2>8, <2>9, <1>1 DEF Solid, Sound, Counted, Plain
    <2>11. \A i \in Stored(r) : /\ Num(r, i) \in c .. l /\ i = Slot(r.buf_size, Num(r, i))
                                /\ Numbered(ky, r.buf[i].frame)
      BY <1>1, <2>1, SpansNumbers
    <2>12. Ready(ky, w, c, l)
      <3>1. Placed(ky, w, c, l)
        BY <2>8, <2>9, <2>11 DEF Placed
      <3>2. l > c => \E i \in Stored(w) : Num(w, i) = l
        BY <1>1, <2>1, <2>9 DEF Spans
      <3>3. w.lsn = Sn(l)
        BY <1>1, <1>3, <2>8 DEF CheckedOf, Spans
      <3>4. c - 1 <= l /\ l < c + w.buf_size
        BY <1>7, <2>1, <2>8
      <3> QED
        BY <2>8, <2>10, <3>1, <3>2, <3>3, <3>4 DEF Ready
    <2>13. Keeps(ky, H, w)
      <3>1. ASSUME NEW n \in H PROVE n >= c /\ (Protected => n - ky > w.pn)
        <4>1. PICK i \in Stored(r) : Num(r, i) = n
          BY DEF Keeps
        <4>2. n >= c
          BY <2>11, <4>1
        <4>3. Protected => MayMix \/ (f.pn \in {0, b - ky} /\ n - ky > r.pn)
          BY DEF Keeps, Numbered
        <4>5. ~MayMix
          BY DEF Keeps, OneKey
        <4>4. w.pn \in {r.pn, f.pn} /\ r.pn \in Nat
          BY <1>1, <1>3, <2>8, PnType DEF CheckedOf
        <4> QED
          BY <2>1, <4>2, <4>3, <4>4, <4>5
      <3>2. ASSUME NEW n \in H
            PROVE  \E i \in Stored(w) : Num(w, i) = n /\ (Protected => w.buf[i].frame.pn = n - ky)
        <4>1. PICK i \in Stored(r) : Num(r, i) = n /\ (Protected => r.buf[i].frame.pn = n - ky)
          BY DEF Keeps
        <4> QED
          BY <2>9, <4>1
      <3> QED
        BY <3>1, <3>2, Zenon DEF Keeps
    <2>14. PICK p \in Int : Shifted(ky, w, c, l, c, H, s, p)
      <3>1. c < c + Half /\ c < l + Half /\ c <= c
        BY <1>7, <2>1
      <3> QED
        BY <2>4, <2>12, <2>13, <3>1, Shift
    <2>15. PICK m \in Int : m = Later(l, p)
      BY DEF Later
    <2>16. p >= c /\ (p <= c \/ p <= l + 1) /\ InTurn(s.out, c, p)
      BY <2>14 DEF Shifted
    <2>17. s.reo.linked = (w.linked /\ l > p) /\ (m > p <=> l > p)
      BY <2>14, <2>15 DEF Shifted, Later
    <2>18. Kept(ky, u.reo, p, m)
      BY <2>6, <2>14, <2>15, <2>17 DEF Shifted, Kept
    <2>19. InTurn(u.out, b, p + 1) /\ OutNumbers(u.out) = {b} \cup OutNumbers(s.out)
      <3>1. InTurn(<<f>>, b, c) /\ OutNumbers(<<f>>) = {b}
        BY <2>1, InTurnOne
      <3>2. InTurn(u.out, b, p) /\ OutNumbers(u.out) = {b} \cup OutNumbers(s.out)
        <4>1. PICK o1 : o1 = <<f>> /\ InTurn(o1, b, c) /\ OutNumbers(o1) = {b}
          BY <3>1
        <4>2. u.out = o1 \o s.out
          BY <2>6, <4>1
        <4>3. b <= c /\ c <= p
          BY <2>1, <2>16
        <4>4. InTurn(o1 \o s.out, b, p) /\ OutNumbers(o1 \o s.out) = OutNumbers(o1) \cup OutNumbers(s.out)
          BY <2>16, <4>1, <4>3, InTurnConcat
        <4> QED
          BY <4>1, <4>2, <4>4
      <3> QED
        BY <3>2, InTurnWider
    <2>20. Keeps(ky, (H \cup new) \ OutNumbers(u.out), u.reo)
      <3>1. (H \cup new) \ OutNumbers(u.out) \subseteq H \ OutNumbers(s.out)
        BY <2>19 DEF Fresh
      <3>2. Keeps(ky, H \ OutNumbers(s.out), s.reo)
        BY <2>14 DEF Shifted
      <3> QED
        BY <2>6, <3>1, <3>2, KeepsLess
    <2>21. (l > b => r.linked) => (m > p => u.reo.linked)
      <3>1. w.linked = r.linked
        BY <1>3, <2>8 DEF CheckedOf
      <3>2. l > p => l > b
        BY <2>1, <2>16
      <3> QED
        BY <2>6, <2>17, <3>1, <3>2
    <2>22. u.reo.buf_size = r.buf_size /\ u.reo.reset = r.reset
      BY <1>3, <2>6, <2>8, <2>14 DEF Shifted, CheckedOf
    <2>23. Gave(ky, r, b, l, H, new, u, p, m)
      BY <2>1, <2>16, <2>18, <2>19, <2>20, <2>21, <2>22 DEF Gave
    <2> QED
      BY <2>1, <2>16, <2>22, <2>23
  <1>9. CASE ~PnOk(r, f)
    <2>1. u.reo = v /\ u.out = <<>>
      BY <1>2, <1>9 DEF InOrder
    <2>2. new = {} /\ v.pn = r.pn
      <3>1. Protected
        BY <1>5, <1>9 DEF PnOk
      <3>2. new # {} => f.pn > r.pn
        BY <3>1 DEF Fresh
      <3>3. new = {}
        BY <1>9, <3>2 DEF PnOk
      <3> QED
        BY <1>3, <1>9, <3>3 DEF CheckedOf
    <2>3. Spans(ky, v, b, l)
      <3>1. Placed(ky, v, b + 1, l)
        BY <1>1, <1>3, <1>4, SpansNumbers DEF Placed, CheckedOf
      <3> QED
        BY <1>1, <1>3, <1>4, <1>6, <3>1 DEF Spans, CheckedOf
    <2>4. Keeps(ky, H, v)
      BY <1>4, <2>2 DEF Keeps
    <2>5. OutNumbers(u.out) = {} /\ InTurn(u.out, b, b + 1)
      BY <2>1, InTurnNone
    <2>6. (H \cup new) \ OutNumbers(u.out) = H
      BY <2>2, <2>5
    <2>7. v.linked = r.linked /\ v.buf_size = r.buf_size /\ v.reset = r.reset
      BY <1>3 DEF CheckedOf
    <2>8. Kept(ky, v, b, l)
      BY <2>3, <2>7 DEF Kept
    <2>10. (l > b => r.linked) => (l > b => u.reo.linked)
      BY <2>1, <2>7
    <2>11. Keeps(ky, (H \cup new) \ OutNumbers(u.out), u.reo)
      BY <2>1, <2>4, <2>6
    <2>9. Gave(ky, r, b, l, H, new, u, b, l)
      BY <2>1, <2>5, <2>7, <2>8, <2>10, <2>11 DEF Gave
    <2> QED
      BY <2>1, <2>7, <2>9, <1>7
  <1> QED
    BY <1>8, <1>9

\* A frame beyond the window moves it just far enough; the window then starts at p and
\* stores up to m.
Roomy(ky, r, b, l, n, H, s, p, m) ==
  /\ Kept(ky, s.reo, p, m) /\ s.reo.buf_size = r.buf_size /\ s.reo.reset = r.reset
  /\ b <= p /\ p <= n /\ n < p + r.buf_size /\ (m <= l \/ m <= n)
  /\ InTurn(s.out, b, p) /\ Keeps(ky, H \ OutNumbers(s.out), s.reo) /\ PnKept(ky, r, s.reo, p)
  /\ (l > b => r.linked) => (m > p => s.reo.linked)

\* Room is made for any number less than half a circle ahead.
LEMMA RoomMade ==
  ASSUME NEW ky \in Int,
         NEW r, NEW b \in Int, NEW l \in Int, Kept(ky, r, b, l), NEW H \in SUBSET Int,
         Keeps(ky, H, r),
         NEW n \in Int, b <= n, n < b + Half, NEW s, s = MadeRoom(r, Sn(n))
  PROVE  \E p \in Int, m \in Int : Roomy(ky, r, b, l, n, H, s, p, m)
  <1>1. /\ Spans(ky, r, b, l) /\ b <= l /\ l < b + r.buf_size /\ r.buf_size \in Nat
        /\ r.buf_size < Half /\ Half \in Nat /\ 1 <= r.buf_size /\ r.ssn = Sn(b)
    BY SpansNumbers DEF Kept, Spans
  <1>2. Less(Sn(n), r.ssn + r.buf_size) <=> n < b + r.buf_size
    <2>1. 0 - Half < n - (b + r.buf_size) /\ n - (b + r.buf_size) < Half
      BY <1>1
    <2>2. r.buf_size \in Int
      BY <1>1
    <2> QED
      BY <1>1, <2>1, <2>2, LessPlus
  <1>3. CASE n < b + r.buf_size
    <2>1. s.reo = r /\ s.out = <<>>
      BY <1>2, <1>3 DEF MadeRoom
    <2>2. InTurn(s.out, b, b) /\ H \ OutNumbers(s.out) = H
      BY <2>1, InTurnNone
    <2>4. (l > b => r.linked) => (l > b => s.reo.linked)
      BY <2>1
    <2>5. Keeps(ky, H \ OutNumbers(s.out), s.reo) /\ PnKept(ky, r, s.reo, b)
      BY <2>1, <2>2 DEF PnKept
    <2>3. Roomy(ky, r, b, l, n, H, s, b, l)
      BY <1>1, <1>3, <2>1, <2>2, <2>4, <2>5 DEF Roomy
    <2> QED
      BY <2>3
  <1>4. CASE ~(n < b + r.buf_size)
    <2>1. PICK k \in Int, t \in Int : k = 0 - (r.buf_size - 1) /\ t = n + k
      BY <1>1
    <2>2. Sn(Sn(n) - (r.buf_size - 1)) = Sn(t)
      <3>1. PICK x \in Int : x = Sn(n)
        BY SnType
      <3>2. x - (r.buf_size - 1) = x + k
        BY <1>1, <2>1
      <3>3. Sn(x + k) = Sn(t)
        BY <2>1, <3>1, SnStep
      <3> QED
        BY <3>1, <3>2, <3>3
    <2>3. s = ShiftTo(r, Sn(t))
      BY <1>2, <1>4, <2>2 DEF MadeRoom
    <2>4. b <= t /\ t < b + Half /\ t < l + Half /\ t <= n /\ n < t + r.buf_size
      BY <1>1, <1>4, <2>1
    <2>5. Ready(ky, r, b, l)
      BY <1>1, SpansReady
    <2>6. PICK p \in Int : Shifted(ky, r, b, l, t, H, s, p)
      BY <2>3, <2>4, <2>5, Shift
    <2>7. PICK m \in Int : m = Later(l, p)
      BY DEF Later
    <2>8. p >= t /\ (p <= t \/ p <= l + 1) /\ InTurn(s.out, b, p)
      BY <2>6 DEF Shifted
    <2>9. s.reo.linked = (r.linked /\ l > p) /\ (m > p <=> l > p)
      BY <2>6, <2>7 DEF Shifted, Later
    <2>10. Kept(ky, s.reo, p, m)
      BY <2>6, <2>7, <2>9 DEF Shifted, Kept
    <2>11. p <= n /\ n < p + r.buf_size /\ b <= p
      BY <1>1, <1>4, <2>1, <2>4, <2>8
    <2>12. m <= l \/ m <= n
      BY <2>7, <2>11 DEF Later
    <2>13. (l > b => r.linked) => (m > p => s.reo.linked)
      <3>1. l > p => l > b
        BY <2>11
      <3> QED
        BY <2>9, <3>1
    <2>14. /\ s.reo.buf_size = r.buf_size /\ s.reo.reset = r.reset
           /\ Keeps(ky, H \ OutNumbers(s.out), s.reo) /\ PnKept(ky, r, s.reo, p)
      BY <2>6 DEF Shifted
    <2>15. Roomy(ky, r, b, l, n, H, s, p, m)
      BY <2>8, <2>10, <2>11, <2>12, <2>13, <2>14 DEF Roomy
    <2> QED
      BY <2>15
  <1> QED
    BY <1>3, <1>4

\* aml_reo_enqueue after the test for a reset.
Handled(r, f) ==
  LET sn == Sn(f.n)
      s  == MadeRoom(r, sn)
      q  == s.reo
      i  == Index(q, sn)
  IN IF Stale(r, sn) THEN [reo |-> r, out |-> <<>>]
     ELSE IF q.buf[i] # None THEN [reo |-> Again(q, i, f), out |-> s.out]
     ELSE IF sn = q.ssn
     THEN [reo |-> InOrder(q, f).reo, out |-> s.out \o InOrder(q, f).out]
     ELSE [reo |-> Buffered(q, i, f), out |-> s.out]

\* The outcome of a frame in order, after what the move of the window gave out.
LEMMA InOrderRecord ==
  ASSUME NEW q, NEW f, NEW x
  PROVE  [InOrder(q, f) EXCEPT !.out = x \o @]
         = [reo |-> InOrder(q, f).reo, out |-> x \o InOrder(q, f).out]
  <1>1. \A a, c, y : [[reo |-> a, out |-> c] EXCEPT !.out = y] = [reo |-> a, out |-> y]
    OBVIOUS
  <1>2. PICK a, c : InOrder(q, f) = [reo |-> a, out |-> c]
    <2>1. CASE PnOk(q, f)
      <3>1. PICK s : s = ShiftTo([Checked(q, f) EXCEPT !.ssn = Sn(@ + 1)], Sn(q.ssn + 1))
        OBVIOUS
      <3>2. InOrder(q, f) = [reo |-> s.reo, out |-> <<f>> \o s.out]
        BY <2>1, <3>1, Zenon DEF InOrder
      <3> QED
        BY <3>2
    <2>2. CASE ~PnOk(q, f)
      <3>1. InOrder(q, f) = [reo |-> Checked(q, f), out |-> <<>>]
        BY <2>2, Zenon DEF InOrder
      <3> QED
        BY <3>1
    <2> QED
      BY <2>1, <2>2
  <1>3. PICK o : o = InOrder(q, f)
    OBVIOUS
  <1>4. o.reo = a /\ o.out = c
    BY <1>2, <1>3
  <1>5. \A y : [o EXCEPT !.out = y] = [reo |-> a, out |-> y]
    BY <1>1, <1>2, <1>3
  <1>6. [o EXCEPT !.out = x \o o.out] = [reo |-> o.reo, out |-> x \o o.out]
    BY <1>4, <1>5
  <1> QED
    BY <1>3, <1>6, Zenon

\* An outcome has the parts it is made of.
LEMMA OutcomeFields ==
  ASSUME NEW u, NEW a, NEW c, u = [reo |-> a, out |-> c]
  PROVE  u.reo = a /\ u.out = c
  OBVIOUS

\* aml_reo_enqueue tests for a reset and then handles the frame.
LEMMA EnqueueHandles ==
  ASSUME NEW r, NEW f
  PROVE  Enqueue(r, f) = Handled(AfterReset(r, Sn(f.n)), f)
  <1>1. PICK v : v = AfterReset(r, Sn(f.n))
    OBVIOUS
  <1>2. PICK s : s = MadeRoom(v, Sn(f.n))
    OBVIOUS
  <1>3. PICK q : q = s.reo
    OBVIOUS
  <1>4. PICK i : i = Index(q, Sn(f.n))
    OBVIOUS
  <1>5. PICK e : e = InOrder(q, f)
    OBVIOUS
  <1>6. Enqueue(r, f) =
          IF Stale(v, Sn(f.n)) THEN [reo |-> v, out |-> <<>>]
          ELSE IF q.buf[i] # None THEN [reo |-> Again(q, i, f), out |-> s.out]
          ELSE IF Sn(f.n) = q.ssn THEN [e EXCEPT !.out = s.out \o @]
          ELSE [reo |-> Buffered(q, i, f), out |-> s.out]
    BY <1>1, <1>2, <1>3, <1>4, <1>5, Zenon DEF Enqueue
  <1>7. Handled(v, f) =
          IF Stale(v, Sn(f.n)) THEN [reo |-> v, out |-> <<>>]
          ELSE IF q.buf[i] # None THEN [reo |-> Again(q, i, f), out |-> s.out]
          ELSE IF Sn(f.n) = q.ssn THEN [reo |-> e.reo, out |-> s.out \o e.out]
          ELSE [reo |-> Buffered(q, i, f), out |-> s.out]
    BY <1>2, <1>3, <1>4, <1>5, Zenon DEF Handled
  <1>8. [e EXCEPT !.out = s.out \o @] = [reo |-> e.reo, out |-> s.out \o e.out]
    BY <1>5, InOrderRecord, Zenon
  <1> QED
    BY <1>1, <1>6, <1>7, <1>8, Zenon

\* What follows the move of the window gives its frames after those of the move.
LEMMA GaveAfter ==
  ASSUME NEW ky, NEW r, NEW b \in Int, NEW l \in Int, NEW n \in Int, NEW H \in SUBSET Int,
         NEW s, NEW p \in Int, NEW m \in Int, Roomy(ky, r, b, l, n, H, s, p, m),
         NEW new, new \subseteq {n},
         NEW e, NEW p2 \in Int, NEW m2 \in Int,
         Gave(ky, s.reo, p, m, H \ OutNumbers(s.out), new, e, p2, m2),
         NEW u, u.reo = e.reo, u.out = s.out \o e.out
  PROVE  Gave(ky, r, b, l, H, new, u, p2, m2)
  <1>1. p <= p2 /\ InTurn(e.out, p, p2 + 1) /\ b <= p /\ InTurn(s.out, b, p) /\ p <= n
    BY DEF Gave, Roomy
  <1>2. p <= p2 + 1
    BY <1>1
  <1>3. InTurn(u.out, b, p2 + 1) /\ OutNumbers(u.out) = OutNumbers(s.out) \cup OutNumbers(e.out)
    <2>1. PICK o1 : o1 = s.out /\ InTurn(o1, b, p)
      BY <1>1
    <2>2. PICK o2 : o2 = e.out /\ InTurn(o2, p, p2 + 1)
      BY <1>1
    <2>3. InTurn(o1 \o o2, b, p2 + 1) /\ OutNumbers(o1 \o o2) = OutNumbers(o1) \cup OutNumbers(o2)
      BY <1>1, <1>2, <2>1, <2>2, InTurnConcat
    <2> QED
      BY <2>1, <2>2, <2>3
  <1>4. (H \cup new) \ OutNumbers(u.out)
        \subseteq ((H \ OutNumbers(s.out)) \cup new) \ OutNumbers(e.out)
    BY <1>3
  <1>5. Keeps(ky, (H \cup new) \ OutNumbers(u.out), u.reo)
    <2>1. Keeps(ky, ((H \ OutNumbers(s.out)) \cup new) \ OutNumbers(e.out), e.reo)
      BY DEF Gave
    <2> QED
      BY <1>4, <2>1, KeepsLess
  <1>6. (l > b => r.linked) => (m2 > p2 => u.reo.linked)
    BY DEF Gave, Roomy
  <1>7. Kept(ky, u.reo, p2, m2) /\ u.reo.buf_size = r.buf_size /\ u.reo.reset = r.reset
    BY DEF Gave, Roomy
  <1> QED
    BY <1>1, <1>3, <1>5, <1>6, <1>7 DEF Gave

\* A frame less than half a circle away is taken in, given out or dropped as it should.
LEMMA Handles ==
  ASSUME NEW ky \in Int,
         NEW r, NEW b \in Int, NEW l \in Int, Kept(ky, r, b, l), NEW H \in SUBSET Int,
         Keeps(ky, H, r),
         NEW f \in Frame, Numbered(ky, f), NEW n \in Int, n = f.n, b - Half < n, n < b + Half,
         NEW new, new = IF ~MayMix /\ Owed(r, f) THEN {n} ELSE {},
         NEW u, u = Handled(r, f)
  PROVE  \E p \in Int, m \in Int : /\ Gave(ky, r, b, l, H, new, u, p, m) /\ p <= b + Half
                                    /\ (p <= b \/ p <= n + 1 \/ p <= l + 1)
  <1>1. /\ Spans(ky, r, b, l) /\ b <= l /\ l < b + r.buf_size /\ r.buf_size \in Nat
        /\ r.buf_size < Half /\ Half \in Nat /\ 1 <= r.buf_size /\ r.ssn = Sn(b) /\ Sound(r)
        /\ Half < SnModulo /\ SnModulo \in Nat
    BY SpansNumbers DEF Kept, Spans
  <1>2. Less(Sn(n), r.ssn) <=> n < b
    <2>1. 0 - Half < n - b /\ n - b < Half
      BY <1>1
    <2> QED
      BY <1>1, <2>1, LessSn
  <1>3. CASE n < b
    <2>1. u.reo = r /\ u.out = <<>> /\ new = {}
      BY <1>2, <1>3 DEF Handled, Stale, Owed
    <2>2. InTurn(u.out, b, b + 1) /\ (H \cup new) \ OutNumbers(u.out) = H
      BY <2>1, InTurnNone
    <2>3. Keeps(ky, (H \cup new) \ OutNumbers(u.out), u.reo)
      BY <2>1, <2>2
    <2>4. (l > b => r.linked) => (l > b => u.reo.linked)
      BY <2>1
    <2>5. Kept(ky, u.reo, b, l) /\ u.reo.buf_size = r.buf_size /\ u.reo.reset = r.reset
      BY <2>1
    <2>6. Gave(ky, r, b, l, H, new, u, b, l)
      BY <2>2, <2>3, <2>4, <2>5 DEF Gave
    <2> QED
      BY <1>1, <2>5, <2>6
  <1>4. CASE b <= n
    <2>1. PICK s : s = MadeRoom(r, Sn(n))
      OBVIOUS
    <2>2. PICK p \in Int, m \in Int : Roomy(ky, r, b, l, n, H, s, p, m)
      BY <1>4, <2>1, RoomMade
    <2>3. PICK q : q = s.reo
      OBVIOUS
    <2>4. /\ Kept(ky, q, p, m) /\ Spans(ky, q, p, m) /\ q.buf_size = r.buf_size /\ q.reset = r.reset
          /\ b <= p /\ p <= n /\ n < p + r.buf_size /\ (m <= l \/ m <= n)
          /\ Keeps(ky, H \ OutNumbers(s.out), q) /\ PnKept(ky, r, q, p) /\ q.ssn = Sn(p)
      BY <2>2, <2>3 DEF Roomy, Kept, Spans
    <2>5. PICK i : i = Slot(q.buf_size, n)
      OBVIOUS
    <2>6. Index(q, Sn(n)) = i
      BY <2>4, <2>5, SpansNumbers, IndexAt
    <2>7. Fresh(ky, q, f, new)
      <3>1. r.pn \in Nat
        BY <1>1, PnType
      <3>2. new # {} /\ Protected => f.pn > r.pn /\ f.pn \in {0, n - ky}
        BY DEF Owed, Numbered
      <3>3. new # {} /\ Protected => f.pn = n - ky
        BY <3>1, <3>2
      <3>4. MayMix \/ q.pn = r.pn \/ q.pn + ky < p
        BY <2>4 DEF PnKept
      <3>5. q.pn \in Int
        BY <2>4, SpansNumbers, PnType
      <3>6. new # {} /\ Protected => n - ky > q.pn
        BY <2>4, <3>2, <3>3, <3>4, <3>5
      <3> QED
        BY <3>3, <3>6 DEF Fresh
    <2>8. PICK G \in SUBSET Int : G = H \ OutNumbers(s.out) /\ Keeps(ky, G, q)
      BY <2>4
    <2>9. p <= b + Half /\ p <= n + 1
      BY <1>1, <2>4
    <2>10. new \subseteq {n}
      OBVIOUS
    <2>11. s.out \in Seq(Frame)
      BY <2>2 DEF Roomy, InTurn
    <2>15. Takes(ky, q, p, m, G, f, n, i, new)
      BY <2>4, <2>5, <2>7, <2>8 DEF Takes
    <2>12. CASE q.buf[i] # None
      <3>1. PICK a : a = Again(q, i, f)
        OBVIOUS
      <3>2. PICK e : e = [reo |-> a, out |-> <<>>]
        OBVIOUS
      <3>3. u.reo = a /\ u.out = s.out
        BY <1>2, <1>4, <2>1, <2>3, <2>6, <2>12, <3>1 DEF Handled, Stale
      <3>8. Gave(ky, q, p, m, G, new, e, p, m)
        <4>1. Gave(ky, q, p, m, G, new, [reo |-> a, out |-> <<>>], p, m)
          BY <2>12, <2>15, <3>1, AgainKeeps, Zenon
        <4> QED
          BY <3>2, <4>1
      <3>9. u.reo = e.reo /\ u.out = s.out \o e.out
        BY <2>11, <3>2, <3>3
      <3>10. Gave(ky, r, b, l, H, new, u, p, m)
        BY <2>2, <2>3, <2>8, <2>10, <3>8, <3>9, GaveAfter
      <3> QED
        BY <2>9, <3>10
    <2>13. CASE q.buf[i] = None /\ Sn(n) = q.ssn
      <3>1. n = p
        <4>1. 0 - SnModulo < n - p /\ n - p < SnModulo
          BY <1>1, <2>4
        <4> QED
          BY <2>4, <2>13, <4>1, SnInj
      <3>2. PICK e : e = InOrder(q, f)
        OBVIOUS
      <3>4. u.reo = e.reo /\ u.out = s.out \o e.out
        <4>1. ~Stale(r, Sn(f.n)) /\ q.buf[i] = None /\ Sn(f.n) = q.ssn
          BY <1>2, <1>4, <2>13 DEF Stale
        <4>2. s = MadeRoom(r, Sn(f.n)) /\ i = Index(q, Sn(f.n))
          BY <2>1, <2>6
        <4>3. Handled(r, f) =
                IF Stale(r, Sn(f.n)) THEN [reo |-> r, out |-> <<>>]
                ELSE IF q.buf[i] # None THEN [reo |-> Again(q, i, f), out |-> s.out]
                ELSE IF Sn(f.n) = q.ssn THEN [reo |-> e.reo, out |-> s.out \o e.out]
                ELSE [reo |-> Buffered(q, i, f), out |-> s.out]
          BY <2>3, <3>2, <4>2, Zenon DEF Handled
        <4>4. u = [reo |-> e.reo, out |-> s.out \o e.out]
          BY <4>1, <4>3, Zenon
        <4> QED
          BY <4>4, OutcomeFields, Zenon
      <3>5. PICK p2 \in Int, m2 \in Int : /\ Gave(ky, q, p, m, G, new, e, p2, m2)
                                          /\ (p2 <= p + 1 \/ p2 <= m + 1)
        BY <2>15, <3>1, <3>2, InOrderGives
      <3>6. Gave(ky, r, b, l, H, new, u, p2, m2)
        BY <2>2, <2>3, <2>8, <2>10, <3>4, <3>5, GaveAfter
      <3>7. p2 <= b + Half /\ (p2 <= n + 1 \/ p2 <= l + 1)
        BY <1>1, <2>4, <3>5
      <3> QED
        BY <3>6, <3>7
    <2>14. CASE q.buf[i] = None /\ Sn(n) # q.ssn
      <3>0. PICK a : a = Buffered(q, i, f)
        OBVIOUS
      <3>1. PICK m2 \in Int : m2 = Later(n, m)
        BY DEF Later
      <3>2. PICK e : e = [reo |-> a, out |-> <<>>]
        OBVIOUS
      <3>3. u.reo = a /\ u.out = s.out
        BY <1>2, <1>4, <2>1, <2>3, <2>6, <2>14, <3>0 DEF Handled, Stale
      <3>4. p # n
        BY <2>4, <2>14
      <3>9. Gave(ky, q, p, m, G, new, e, p, m2)
        <4>1. Gave(ky, q, p, m, G, new, [reo |-> a, out |-> <<>>], p, m2)
          BY <2>14, <2>15, <3>0, <3>1, <3>4, BufferedKeeps
        <4> QED
          BY <3>2, <4>1
      <3>10. u.reo = e.reo /\ u.out = s.out \o e.out
        BY <2>11, <3>2, <3>3
      <3>11. Gave(ky, r, b, l, H, new, u, p, m2)
        BY <2>2, <2>3, <2>8, <2>10, <3>9, <3>10, GaveAfter
      <3> QED
        BY <2>9, <3>11
    <2> QED
      BY <2>12, <2>13, <2>14
  <1>5. n < b \/ b <= n
    OBVIOUS
  <1> QED
    BY <1>3, <1>4, <1>5

-----------------------------------------------------------------------------
(* The window is moved: aml_reo_forward_to.                                 *)

\* With nothing asked for and a hole at its start the window stays where it is.
LEMMA ShiftBack ==
  ASSUME NEW ky, NEW r, NEW b \in Int, NEW l \in Int, Kept(ky, r, b, l),
         NEW t \in Int, b - Half < t, t < b, NEW s, s = ShiftTo(r, Sn(t))
  PROVE  s.reo = r /\ s.out = <<>>
  <1>1. /\ Spans(ky, r, b, l) /\ b <= l /\ l < b + r.buf_size /\ r.buf_size \in Nat
        /\ r.buf_size < Half /\ Half \in Nat /\ r.ssn = Sn(b) /\ r.lsn = Sn(l) /\ 1 <= r.buf_size
        /\ r.buf_size \in BufSize /\ r \in Session(r.buf_size) /\ r.linked \in BOOLEAN
    <2>1. Spans(ky, r, b, l)
      BY DEF Kept
    <2>2. /\ Sound(r) /\ b <= l /\ l < b + r.buf_size /\ r.buf_size \in Nat
          /\ r.buf_size < Half /\ Half \in Nat /\ 1 <= r.buf_size
      BY <2>1, SpansNumbers
    <2> QED
      BY <2>1, <2>2 DEF Spans, Sound, Session
  <1>2. PICK g : g = Rounds(r, Sn(t)) /\ Runs(r, Sn(t), SnModulo, g)
    BY RoundsRun
  <1>3. PICK x : x = [reo |-> r, out |-> <<>>, sn |-> r.ssn, over |-> TRUE]
    OBVIOUS
  <1>4. x.over = TRUE /\ x.reo = r /\ x.out = <<>> /\ x.sn = r.ssn
    BY <1>3
  <1>5. g[1] = x
    <2>1. PICK i : i = Index(r, r.ssn) /\ i = Slot(r.buf_size, b)
      BY <1>1, IndexAt
    <2>2. r.buf[i] = None
      <3>0. b <= b /\ b < b + r.buf_size /\ i = Slot(r.buf_size, b)
        BY <1>1, <2>1
      <3>1. r.buf[i] # None <=> i \in Stored(r)
        BY <1>1, <3>0, SlotFree
      <3>2. i \in Stored(r) => Num(r, i) = b
        BY <1>1, <3>0, SlotFree
      <3>3. \A j \in Stored(r) : Num(r, j) \in b + 1 .. l
        BY <1>1, SpansNumbers
      <3>4. i \notin Stored(r)
        BY <3>2, <3>3
      <3> QED
        BY <3>1, <3>4
    <2>3. ~Less(r.ssn, Sn(t))
      <3>1. 0 - Half < b - t /\ b - t < Half
        BY <1>1
      <3>2. Less(Sn(b), Sn(t)) <=> b < t
        BY <3>1, LessSn
      <3> QED
        BY <1>1, <3>2
    <2>4. PICK y : y = Start(r) /\ y.reo = r /\ y.out = <<>> /\ y.sn = r.ssn /\ y.over = FALSE
      <3>1. PICK y : y = Start(r)
        OBVIOUS
      <3>2. y.reo = r /\ y.out = <<>> /\ y.sn = r.ssn /\ y.over = FALSE
        BY <3>1 DEF Start
      <3> QED
        BY <3>1, <3>2
    <2>5. Round(y, Sn(t)) = x
      BY <1>3, <2>1, <2>2, <2>3, <2>4 DEF Round
    <2>6. 1 \in 1 .. SnModulo /\ 1 - 1 = 0
      BY HalfType
    <2> QED
      BY <1>2, <2>4, <2>5, <2>6 DEF Runs
  <1> DEFINE T == {k \in 1 .. SnModulo : g[k] # x}
  <1>6. T = {}
    <2>1. SUFFICES ASSUME T # {} PROVE FALSE
      OBVIOUS
    <2>2. PICK k \in T : \A y \in T : k <= y
      <3>1. T \in SUBSET Nat
        BY HalfType
      <3> QED
        BY <2>1, <3>1, LeastNat
    <2>3. k # 1
      BY <1>5, <2>2
    <2>4. PICK j \in 1 .. SnModulo : j = k - 1 /\ j < k
      BY <2>2, <2>3, HalfType
    <2>5. g[j] = x
      BY <2>2, <2>4
    <2>6. g[k] = Round(x, Sn(t))
      BY <1>2, <2>2, <2>4, <2>5 DEF Runs
    <2>7. Round(x, Sn(t)) = x
      BY <1>4 DEF Round
    <2> QED
      BY <2>2, <2>6, <2>7
  <1>7. Rounds(r, Sn(t))[SnModulo] = x
    BY <1>2, <1>6, HalfType
  <1>8. LastAfter(r.lsn, r.ssn) = r.lsn
    <2>1. 0 - Half < l - b /\ l - b < Half
      BY <1>1
    <2>2. Less(Sn(l), Sn(b)) <=> l < b
      BY <2>1, LessSn
    <2> QED
      BY <1>1, <2>2 DEF LastAfter
  <1>9. (r.linked /\ r.lsn # r.ssn) = r.linked
    BY <1>1, SpansBuffer DEF Kept, HasBuffer
  <1>10. PICK end : end = Rounds(r, Sn(t))[SnModulo]
    OBVIOUS
  <1>11. end.reo = r /\ end.out = <<>> /\ end.sn = r.ssn
    BY <1>4, <1>7, <1>10
  <1>12. PICK c \in BOOLEAN : c = (r.linked /\ r.lsn # r.ssn)
    OBVIOUS
  <1>13. s.out = <<>> /\ s.reo = [r EXCEPT !.ssn = r.ssn, !.lsn = r.lsn, !.linked = c]
    BY <1>8, <1>10, <1>11, <1>12 DEF ShiftTo
  <1>14. c = r.linked
    BY <1>9, <1>12
  <1>15. [r EXCEPT !.ssn = r.ssn, !.lsn = r.lsn, !.linked = c] = r
    BY <1>1, <1>14 DEF Session
  <1> QED
    BY <1>13, <1>15

\* An empty session whose window starts at p is told to start at t.
Restarted(ky, q, p, t, u) == Kept(ky, q, p, p) /\ u = ResetSsn(q, Sn(t))

\* An empty window may start anywhere.
LEMMA ResetEmpty ==
  ASSUME NEW ky, NEW q, NEW p \in Int, NEW t \in Int, NEW u, Restarted(ky, q, p, t, u)
  PROVE  /\ Kept(ky, u, t, t) /\ Stored(u) = {} /\ u.buf_size = q.buf_size /\ u.reset = q.reset
         /\ u.ssn = Sn(t) /\ u.lsn = Sn(t)
  <1>1. /\ Solid(q) /\ q \in Session(q.buf_size) /\ q.buf_size \in Nat /\ 1 <= q.buf_size
        /\ ~q.linked
    BY SpansNumbers DEF Kept, Sound, Restarted
  <1>2. Stored(q) = {}
    <2>1. \A i \in Stored(q) : Num(q, i) \in p + 1 .. p
      BY SpansNumbers DEF Kept, Restarted
    <2> QED
      BY <2>1
  <1>3. Sn(t) \in 0 .. SnModulo - 1
    BY SnType
  <1>4. /\ u \in Session(q.buf_size) /\ u.buf_size = q.buf_size /\ u.ssn = Sn(t) /\ u.lsn = Sn(t)
        /\ u.linked = q.linked /\ u.reset = q.reset /\ u.in_buffer = q.in_buffer
        /\ u.pn = q.pn /\ u.pn_check = q.pn_check /\ u.buf = q.buf
    BY <1>1, <1>3 DEF ResetSsn, Session, Restarted
  <1>5. Stored(u) = {}
    BY <1>2, <1>4 DEF Stored
  <1>6. Solid(u)
    BY <1>1, <1>2, <1>4, <1>5 DEF Solid, Sound, Counted, Plain
  <1>7. Spans(ky, u, t, t)
    <2>1. t < t + u.buf_size
      BY <1>1, <1>4
    <2> QED
      BY <1>4, <1>5, <1>6, <2>1 DEF Spans, Placed
  <1> QED
    BY <1>1, <1>4, <1>5, <1>7 DEF Kept

\* Everything has been given out and the window starts at t.
Emptied(ky, r, b, l, H, s, t) ==
  /\ Kept(ky, s.reo, t, t) /\ s.reo.ssn = Sn(t) /\ s.reo.lsn = Sn(t)
  /\ s.reo.buf_size = r.buf_size /\ s.reo.reset = r.reset
  /\ InTurn(s.out, b, l + 1) /\ H \subseteq OutNumbers(s.out)

\* What is held back lies inside the window.
LEMMA HeldInside ==
  ASSUME NEW ky, NEW r, NEW b \in Int, NEW l \in Int, Spans(ky, r, b, l), NEW H, Keeps(ky, H, r)
  PROVE  \A n \in H : n \in b + 1 .. l
  <1>1. SUFFICES ASSUME NEW n \in H PROVE n \in b + 1 .. l
    OBVIOUS
  <1>2. PICK i \in Stored(r) : Num(r, i) = n
    BY DEF Keeps
  <1> QED
    BY <1>2, SpansNumbers

\* A window asked to start at t is empty there, or stays because it is there or beyond.
LEMMA Forwards ==
  ASSUME NEW ky \in Int,
         NEW r, NEW b \in Int, NEW l \in Int, Kept(ky, r, b, l), NEW H \in SUBSET Int,
         Keeps(ky, H, r),
         NEW t \in Int, b - Half < t, t < b + Half, NEW s, s = ForwardTo(r, Sn(t))
  PROVE  \/ s.reo = r /\ s.out = <<>> /\ t <= b /\ (Sn(t) = r.ssn \/ s.reo.ssn # Sn(t))
         \/ Emptied(ky, r, b, l, H, s, t) /\ Sn(t) # r.ssn
  <1>1. /\ Spans(ky, r, b, l) /\ b <= l /\ l < b + r.buf_size /\ r.buf_size \in Nat
        /\ r.buf_size < Half /\ Half \in Nat /\ r.ssn = Sn(b) /\ r.lsn = Sn(l)
        /\ Half < SnModulo /\ SnModulo \in Nat /\ 1 <= r.buf_size
    BY SpansNumbers DEF Kept, Spans
  <1>2. CASE Sn(t) = r.ssn
    <2>1. 0 - SnModulo < t - b /\ t - b < SnModulo
      BY <1>1
    <2>2. t = b
      BY <1>1, <1>2, <2>1, SnInj
    <2>3. s = [reo |-> r, out |-> <<>>]
      BY <1>2 DEF ForwardTo
    <2> QED
      BY <1>2, <2>2, <2>3
  <1>3. CASE Sn(t) # r.ssn /\ ~HasBuffer(r)
    <2>1. l = b
      BY <1>1, <1>3, SpansBuffer
    <2>2. s = [reo |-> ResetSsn(r, Sn(t)), out |-> <<>>]
      BY <1>3 DEF ForwardTo
    <2>3. s.reo = ResetSsn(r, Sn(t)) /\ s.out = <<>>
      BY <2>2
    <2>4. /\ Kept(ky, s.reo, t, t) /\ s.reo.ssn = Sn(t) /\ s.reo.lsn = Sn(t)
          /\ s.reo.buf_size = r.buf_size /\ s.reo.reset = r.reset
      BY <2>1, <2>3, ResetEmpty DEF Restarted
    <2>5. H = {}
      BY <1>1, <2>1, HeldInside
    <2>6. Emptied(ky, r, b, l, H, s, t)
      BY <2>3, <2>4, <2>5, InTurnNone DEF Emptied
    <2> QED
      BY <1>3, <2>6
  <1>4. CASE Sn(t) # r.ssn /\ HasBuffer(r) /\ ~Less(r.ssn, Sn(t)) /\ ~Less(r.lsn, Sn(t))
    <2>1. s = ShiftTo(r, Sn(t))
      BY <1>4 DEF ForwardTo
    <2>2. t < b
      <3>1. 0 - Half < b - t /\ b - t < Half
        BY <1>1
      <3>2. ~(b < t)
        BY <1>1, <1>4, <3>1, LessSn
      <3> QED
        BY <1>1, <1>4, <3>2
    <2>3. s.reo = r /\ s.out = <<>>
      BY <2>1, <2>2, ShiftBack
    <2> QED
      BY <1>4, <2>2, <2>3
  <1>5. CASE Sn(t) # r.ssn /\ HasBuffer(r) /\ (Less(r.ssn, Sn(t)) \/ Less(r.lsn, Sn(t)))
    <2>1. PICK e : e = ShiftTo(r, Sn(r.lsn + 1))
      OBVIOUS
    <2>2. s = [reo |-> ResetSsn(e.reo, Sn(t)), out |-> e.out]
      BY <1>5, <2>1 DEF ForwardTo
    <2>3. s.reo = ResetSsn(e.reo, Sn(t)) /\ s.out = e.out
      BY <2>2
    <2>4. PICK x \in Int : x = l + 1
      OBVIOUS
    <2>5. e = ShiftTo(r, Sn(x))
      BY <1>1, <2>1, <2>4, SnStep
    <2>6. b <= x /\ x < b + Half /\ x < l + Half
      BY <1>1, <2>4
    <2>7. Ready(ky, r, b, l)
      BY <1>1, SpansReady
    <2>8. PICK p \in Int : Shifted(ky, r, b, l, x, H, e, p)
      BY <2>5, <2>6, <2>7, Shift
    <2>9. p = x /\ InTurn(e.out, b, p)
      BY <2>4, <2>8 DEF Shifted
    <2>10. Later(l, p) = p /\ ~(l > p)
      BY <2>4, <2>9 DEF Later
    <2>11. /\ Kept(ky, e.reo, p, p) /\ e.reo.buf_size = r.buf_size /\ e.reo.reset = r.reset
      BY <2>8, <2>10 DEF Shifted, Kept
    <2>12. /\ Kept(ky, s.reo, t, t) /\ s.reo.ssn = Sn(t) /\ s.reo.lsn = Sn(t)
           /\ s.reo.buf_size = r.buf_size /\ s.reo.reset = r.reset
      <3>1. PICK q : q = e.reo /\ Kept(ky, q, p, p)
        BY <2>11
      <3>2. PICK v : v = ResetSsn(q, Sn(t))
        OBVIOUS
      <3>3. /\ Kept(ky, v, t, t) /\ v.ssn = Sn(t) /\ v.lsn = Sn(t)
            /\ v.buf_size = q.buf_size /\ v.reset = q.reset
        BY <3>1, <3>2, ResetEmpty DEF Restarted
      <3> QED
        BY <2>3, <2>11, <3>1, <3>2, <3>3
    <2>13. H \subseteq OutNumbers(s.out)
      <3>1. \A n \in H : n \in OutNumbers(e.out) \/ n > p
        BY <2>8 DEF Shifted
      <3>2. \A n \in H : ~(n > p)
        BY <1>1, <2>4, <2>9, HeldInside
      <3> QED
        BY <2>3, <3>1, <3>2
    <2>14. InTurn(s.out, b, l + 1)
      BY <2>3, <2>4, <2>9
    <2>15. Emptied(ky, r, b, l, H, s, t)
      BY <2>12, <2>13, <2>14 DEF Emptied
    <2> QED
      BY <1>5, <2>15
  <1> QED
    BY <1>2, <1>3, <1>4, <1>5

\* Asked to give out everything, the session is empty at its last number.
LEMMA ForwardsAll ==
  ASSUME NEW ky \in Int,
         NEW r, NEW b \in Int, NEW l \in Int, Kept(ky, r, b, l), NEW H \in SUBSET Int,
         Keeps(ky, H, r),
         NEW s, s = ForwardAll(r)
  PROVE  Emptied(ky, r, b, l, H, s, l)
  <1>1. /\ Spans(ky, r, b, l) /\ b <= l /\ l < b + r.buf_size /\ r.buf_size \in Nat
        /\ r.buf_size < Half /\ Half \in Nat /\ r.ssn = Sn(b) /\ r.lsn = Sn(l)
    BY SpansNumbers DEF Kept, Spans
  <1>2. b - Half < l /\ l < b + Half
    BY <1>1
  <1>3. s = ForwardTo(r, Sn(l))
    BY <1>1 DEF ForwardAll
  <1>4. \/ s.reo = r /\ s.out = <<>> /\ l <= b
        \/ Emptied(ky, r, b, l, H, s, l)
    BY <1>2, <1>3, Forwards
  <1>5. CASE s.reo = r /\ s.out = <<>> /\ l <= b
    <2>1. l = b
      BY <1>1, <1>5
    <2>2. H = {}
      BY <1>1, <2>1, HeldInside
    <2>3. Kept(ky, s.reo, l, l) /\ s.reo.ssn = Sn(l) /\ s.reo.lsn = Sn(l)
      BY <1>1, <1>5, <2>1
    <2> QED
      BY <1>5, <2>2, <2>3, InTurnNone DEF Emptied
  <1> QED
    BY <1>4, <1>5

-----------------------------------------------------------------------------
(* Ageing: aml_reo_entry_expired_lsn and aml_reo_entry_aging.               *)

\* A set of numbers that do not exceed m has a greatest.
LEMMA MaxNumber ==
  ASSUME NEW m \in Nat, NEW S \in SUBSET (0 .. m), S # {}
  PROVE  Max(S) \in S /\ \A y \in S : y <= Max(S)
  <1> DEFINE T == {m - y : y \in S}
  <1>1. T \in SUBSET Nat /\ T # {}
    <2>1. \A y \in S : m - y \in Nat
      OBVIOUS
    <2>2. PICK y : y \in S
      OBVIOUS
    <2>3. m - y \in T
      BY <2>2
    <2> QED
      BY <2>1, <2>3
  <1>2. PICK k \in T : \A z \in T : k <= z
    BY <1>1, LeastNat
  <1>3. PICK x \in S : k = m - x
    BY <1>2
  <1>4. \A y \in S : x >= y
    <2>1. SUFFICES ASSUME NEW y \in S PROVE x >= y
      OBVIOUS
    <2>2. m - x <= m - y
      BY <1>2, <1>3
    <2> QED
      BY <2>2
  <1>5. Max(S) \in S /\ \A y \in S : Max(S) >= y
    BY <1>4 DEF Max
  <1> QED
    BY <1>5

\* The expired numbers are the distances of the expired frames from the window start.
LEMMA ExpiredAre ==
  ASSUME NEW ky, NEW r, NEW b \in Int, NEW l \in Int, Spans(ky, r, b, l)
  PROVE  /\ Expired(r) \subseteq 1 .. l - b
         /\ \A i \in Stored(r) : r.buf[i].left < 0 => Num(r, i) - b \in Expired(r)
  <1>1. /\ r.buf_size \in BufSize /\ r.ssn = Sn(b) /\ r.lsn = Sn(l) /\ b <= l /\ l - b < SnModulo
        /\ SnModulo \in Nat
    BY SpansNumbers DEF Spans
  <1>2. (r.lsn - r.ssn) % SnModulo = l - b
    <2>1. 0 <= l - b
      BY <1>1
    <2> QED
      BY <1>1, <2>1, Forward
  <1>3. ASSUME NEW i \in Stored(r), r.buf[i].left < 0 PROVE Num(r, i) - b \in Expired(r)
    <2>1. PICK x \in Int : x = Num(r, i) /\ b + 1 <= x /\ x <= l /\ i = Slot(r.buf_size, x)
      BY <1>3, SpansNumbers
    <2>2. PICK d \in 1 .. l - b : d = x - b /\ b + d = x
      BY <2>1
    <2>3. Index(r, r.ssn + d) = i
      BY <1>1, <2>1, <2>2, IndexSn
    <2>4. r.buf[i] # None
      BY <1>3 DEF Stored
    <2>5. Late(r, r.ssn + d)
      BY <1>3, <2>3, <2>4 DEF Late
    <2> QED
      BY <1>2, <2>1, <2>2, <2>5 DEF Expired
  <1> QED
    BY <1>2, <1>3 DEF Expired

\* The window moves behind the last expired frame: none is left.
LEMMA Ages ==
  ASSUME NEW ky \in Int,
         NEW r, NEW b \in Int, NEW l \in Int, Kept(ky, r, b, l), NEW H \in SUBSET Int,
         Keeps(ky, H, r),
         Expired(r) # {}, NEW s, s = ShiftTo(r, ExpiredNext(r))
  PROVE  /\ \E p \in Int, m \in Int : Gave(ky, r, b, l, H, {}, s, p, m) /\ p <= b + Half
         /\ \A i \in Stored(s.reo) : s.reo.buf[i].left >= 0
  <1>1. /\ Spans(ky, r, b, l) /\ b <= l /\ l < b + r.buf_size /\ r.buf_size \in Nat
        /\ r.buf_size < Half /\ Half \in Nat /\ r.ssn = Sn(b) /\ 1 <= r.buf_size /\ Sound(r)
    BY SpansNumbers DEF Kept, Spans
  <1>2. PICK e \in Int : /\ Max(Expired(r)) = e /\ 1 <= e /\ e <= l - b
                         /\ \A y \in Expired(r) : y <= e
    <2>1. PICK k \in Nat : k = l - b
      BY <1>1
    <2>2. Expired(r) \subseteq 1 .. k
      BY <1>1, <2>1, ExpiredAre
    <2>3. Max(Expired(r)) \in Expired(r) /\ \A y \in Expired(r) : y <= Max(Expired(r))
      <3>1. Expired(r) \in SUBSET (0 .. k)
        BY <2>2
      <3> QED
        BY <3>1, MaxNumber
    <2> QED
      BY <2>1, <2>2, <2>3
  <1>3. PICK t \in Int : t = b + (e + 1)
    OBVIOUS
  <1>4. ExpiredNext(r) = Sn(t)
    <2>1. PICK a \in Int : a = Sn(b)
      BY SnType
    <2>0. r.ssn = a /\ Max(Expired(r)) = e
      BY <1>1, <1>2, <2>1
    <2>2. ExpiredNext(r) = Sn(a + e + 1)
      BY <2>0 DEF ExpiredNext
    <2>3. a + e + 1 = a + (e + 1) /\ e + 1 \in Int
      OBVIOUS
    <2>4. Sn(Sn(b) + (e + 1)) = Sn(b + (e + 1))
      BY <2>3, SnStep
    <2> QED
      BY <1>3, <2>1, <2>2, <2>3, <2>4
  <1>5. b <= t /\ t < b + Half /\ t < l + Half /\ t <= l + 1
    BY <1>1, <1>2, <1>3
  <1>6. Ready(ky, r, b, l)
    BY <1>1, SpansReady
  <1>7. PICK p \in Int : Shifted(ky, r, b, l, t, H, s, p)
    BY <1>4, <1>5, <1>6, Shift
  <1>8. p >= t /\ b <= p /\ p <= b + Half
    <2>1. p >= t /\ (p <= t \/ p <= l + 1)
      BY <1>7 DEF Shifted
    <2> QED
      BY <1>1, <1>5, <2>1
  <1>9. PICK m \in Int : m = Later(l, p)
    BY DEF Later
  <1>10. m > p <=> l > p
    BY <1>9 DEF Later
  <1>11. Spans(ky, s.reo, p, m) /\ s.reo.linked = (r.linked /\ l > p)
    BY <1>7, <1>9 DEF Shifted
  <1>12. Kept(ky, s.reo, p, m)
    BY <1>10, <1>11 DEF Kept
  <1>13. InTurn(s.out, b, p + 1)
    <2>1. InTurn(s.out, b, p)
      BY <1>7 DEF Shifted
    <2>2. b <= b /\ p <= p + 1 /\ p + 1 \in Int
      OBVIOUS
    <2> QED
      BY <2>1, <2>2, InTurnWider
  <1>14. Keeps(ky, (H \cup {}) \ OutNumbers(s.out), s.reo)
    <2>1. H \cup {} = H
      OBVIOUS
    <2> QED
      BY <1>7, <2>1 DEF Shifted
  <1>15. (l > b => r.linked) => (m > p => s.reo.linked)
    <2>1. l > p => l > b
      BY <1>8
    <2> QED
      BY <1>10, <1>11, <2>1
  <1>16. Gave(ky, r, b, l, H, {}, s, p, m)
    BY <1>7, <1>8, <1>12, <1>13, <1>14, <1>15 DEF Gave, Shifted
  <1>17. ASSUME NEW i \in Stored(s.reo) PROVE s.reo.buf[i].left >= 0
    <2>1. i \in Stored(r) /\ Num(r, i) > p /\ s.reo.buf[i] = r.buf[i]
      BY <1>7 DEF Shifted
    <2>2. PICK x \in Int : x = Num(r, i) /\ x > p
      BY <1>1, <2>1, StoredType
    <2>3. ~(x - b <= e)
      BY <1>3, <1>8, <2>2
    <2>4. x - b \notin Expired(r)
      BY <1>2, <2>3
    <2>5. ~(r.buf[i].left < 0)
      BY <1>1, <2>1, <2>2, <2>4, ExpiredAre
    <2>6. r.buf[i].left \in Int
      BY <1>1, <2>1, StoredType
    <2> QED
      BY <2>1, <2>5, <2>6
  <1> QED
    BY <1>8, <1>16, <1>17

-----------------------------------------------------------------------------
(* What an operation on the session does to the stream and to the window.   *)

\* The session starts at b, gives out last up to d and holds back H.
Sits(ky, r, b, H, d) ==
  /\ b \in Int /\ d \in Int /\ d <= b
  /\ Keeps(ky, H, r) /\ \E l \in Int : Kept(ky, r, b, l)

\* A session that stores something is on the aging list.
OnList(r) == HasBuffer(r) => r.linked

\* The frames held back and the last one given out advance as InOrderStream allows.
Advances(H, d, H2, d2) ==
  /\ d2 >= d
  /\ \A n \in H2 : n > d2
  /\ \A n \in H \ H2 : n <= d2
  /\ \A j, n \in H2 \ H : j = n

\* The window start, the frames held back and the last one given out after an operation
\* with outcome s that took in the numbers of new.
After(r, b, H, d, new, s, b2, H2, d2) ==
  /\ b2 = b + Signed(s.reo.ssn - r.ssn)
  /\ H2 = (H \cup new) \ OutNumbers(s.out) /\ d2 = LastOut(s.out, d)

\* An operation that gives out a stretch leaves window and stream in step.
LEMMA SitsOn ==
  ASSUME NEW ky, NEW r, NEW b \in Int, NEW l \in Int, Kept(ky, r, b, l), NEW H \in SUBSET Int,
         NEW d \in Int, d <= b, NEW n \in Int, NEW new, new \subseteq {n},
         NEW s, NEW p \in Int, NEW m \in Int, Gave(ky, r, b, l, H, new, s, p, m), p <= b + Half,
         NEW b2, NEW H2, NEW d2, After(r, b, H, d, new, s, b2, H2, d2)
  PROVE  /\ Sits(ky, s.reo, b2, H2, d2) /\ Advances(H, d, H2, d2) /\ (OnList(r) => OnList(s.reo))
  <1>0. /\ b2 = b + Signed(s.reo.ssn - r.ssn)
        /\ H2 = (H \cup new) \ OutNumbers(s.out) /\ d2 = LastOut(s.out, d)
    BY DEF After
  <1>1. /\ Kept(ky, s.reo, p, m) /\ b <= p /\ InTurn(s.out, b, p + 1) /\ Keeps(ky, H2, s.reo)
        /\ (l > b => r.linked) => (m > p => s.reo.linked)
    BY <1>0 DEF Gave
  <1>2. Spans(ky, s.reo, p, m) /\ s.reo.ssn = Sn(p) /\ r.ssn = Sn(b) /\ Spans(ky, r, b, l) /\ Half \in Nat
        /\ Half > 0
    <2>1. Spans(ky, s.reo, p, m) /\ s.reo.ssn = Sn(p) /\ r.ssn = Sn(b) /\ Spans(ky, r, b, l)
      BY <1>1 DEF Kept, Spans
    <2> QED
      BY <2>1, SpansNumbers
  <1>3. b2 = p
    <2>1. 0 - Half < p - b /\ p - b <= Half
      BY <1>1, <1>2
    <2>2. Signed(Sn(p) - Sn(b)) = p - b
      BY <2>1, SignedSn
    <2>3. b2 = b + (p - b)
      BY <1>0, <1>2, <2>2
    <2> QED
      BY <2>3
  <1>4. /\ d2 \in Int /\ d <= d2 /\ d2 <= p
        /\ \A k \in OutNumbers(s.out) : k \in Int /\ k <= d2
    <2>1. b < p + 1 /\ p + 1 \in Int
      BY <1>1
    <2>2. /\ d2 \in Int /\ d <= d2 /\ d2 < p + 1
          /\ \A k \in OutNumbers(s.out) : k \in Int /\ k <= d2
      BY <1>0, <1>1, <2>1, LastOutIs
    <2> QED
      BY <2>2
  <1>5. \A k \in H2 : k > d2
    <2>1. \A k \in H2 : k \in p + 1 .. m
      BY <1>1, <1>2, HeldInside
    <2> QED
      BY <1>4, <2>1
  <1>6. Advances(H, d, H2, d2)
    BY <1>0, <1>4, <1>5 DEF Advances
  <1>7. Sits(ky, s.reo, b2, H2, d2)
    BY <1>1, <1>3, <1>4 DEF Sits
  <1>8. OnList(r) => OnList(s.reo)
    <2>1. (HasBuffer(r) <=> l > b) /\ (HasBuffer(s.reo) <=> m > p)
      BY <1>2, SpansBuffer
    <2> QED
      BY <1>1, <2>1 DEF OnList
  <1> QED
    BY <1>6, <1>7, <1>8

\* A session that has been emptied and starts at t.
LEMMA SitsEmpty ==
  ASSUME NEW ky, NEW r, NEW b \in Int, NEW l \in Int, Kept(ky, r, b, l), NEW H \in SUBSET Int,
         NEW s, NEW t \in Int, Emptied(ky, r, b, l, H, s, t), b - Half < t, t < b + Half,
         NEW b2, b2 = b + Signed(s.reo.ssn - r.ssn)
  PROVE  /\ b2 = t /\ ~HasBuffer(s.reo) /\ (H \cup {}) \ OutNumbers(s.out) = {}
         /\ \A d \in Int : d <= t => Sits(ky, s.reo, b2, {}, d)
  <1>1. /\ Kept(ky, s.reo, t, t) /\ s.reo.ssn = Sn(t) /\ H \subseteq OutNumbers(s.out)
        /\ Spans(ky, s.reo, t, t)
    BY DEF Emptied, Kept
  <1>2. r.ssn = Sn(b) /\ Half \in Nat
    BY HalfType DEF Kept, Spans
  <1>3. b2 = t
    <2>1. 0 - Half < t - b /\ t - b <= Half
      BY <1>2
    <2>2. Signed(Sn(t) - Sn(b)) = t - b
      BY <2>1, SignedSn
    <2>3. b2 = b + (t - b)
      BY <1>1, <1>2, <2>2
    <2> QED
      BY <2>3
  <1>4. ~HasBuffer(s.reo)
    BY <1>1, SpansBuffer
  <1>5. Keeps(ky, {}, s.reo)
    BY DEF Keeps, OneKey
  <1> QED
    BY <1>1, <1>3, <1>4, <1>5 DEF Sits

\* Flushing gives out all that is held back.
LEMMA SitsFlushed ==
  ASSUME NEW ky \in Int,
         NEW r, NEW b \in Int, NEW H \in SUBSET Int, NEW d \in Int, Sits(ky, r, b, H, d),
         NEW s, s = ForwardAll(r), NEW b2, NEW H2, NEW d2, After(r, b, H, d, {}, s, b2, H2, d2)
  PROVE  /\ Sits(ky, s.reo, b2, H2, d2) /\ Advances(H, d, H2, d2) /\ ~HasBuffer(s.reo)
         /\ s.reo.reset = r.reset /\ s.reo.buf_size = r.buf_size
  <1>0. /\ b2 = b + Signed(s.reo.ssn - r.ssn) /\ d2 = LastOut(s.out, d)
        /\ H2 = (H \cup {}) \ OutNumbers(s.out)
    BY DEF After
  <1>1. PICK l \in Int : Kept(ky, r, b, l) /\ Keeps(ky, H, r) /\ d <= b
    BY DEF Sits
  <1>2. b <= l /\ l < b + Half /\ Half \in Nat /\ b - Half < l
    <2>1. /\ b <= l /\ l < b + r.buf_size /\ r.buf_size \in Nat /\ r.buf_size < Half /\ Half \in Nat
      BY <1>1, SpansNumbers DEF Kept
    <2> QED
      BY <2>1
  <1>3. Emptied(ky, r, b, l, H, s, l)
    BY <1>1, ForwardsAll
  <1>4. /\ InTurn(s.out, b, l + 1) /\ H \subseteq OutNumbers(s.out)
        /\ s.reo.reset = r.reset /\ s.reo.buf_size = r.buf_size
    BY <1>3 DEF Emptied
  <1>5. /\ b2 = l /\ ~HasBuffer(s.reo) /\ H2 = {}
        /\ \A e \in Int : e <= l => Sits(ky, s.reo, b2, {}, e)
    BY <1>0, <1>1, <1>2, <1>3, SitsEmpty
  <1>6. /\ d2 \in Int /\ d <= d2 /\ d2 <= l
        /\ \A k \in OutNumbers(s.out) : k \in Int /\ k <= d2
    <2>1. b < l + 1 /\ l + 1 \in Int
      BY <1>2
    <2>2. /\ d2 \in Int /\ d <= d2 /\ d2 < l + 1
          /\ \A k \in OutNumbers(s.out) : k \in Int /\ k <= d2
      BY <1>0, <1>1, <1>4, <2>1, LastOutIs
    <2> QED
      BY <2>2
  <1>7. Advances(H, d, H2, d2)
    BY <1>4, <1>5, <1>6 DEF Advances
  <1> QED
    BY <1>4, <1>5, <1>6, <1>7

\* v is r but for what the aging, the keys and the packet numbers are about.
LEMMA SameFrames ==
  ASSUME NEW ky, NEW r, NEW b \in Int, NEW H \in SUBSET Int, NEW d \in Int,
         Sits(ky, r, b, H, d),
         NEW v, Sound(v), v.buf_size = r.buf_size, v.ssn = r.ssn, v.lsn = r.lsn,
         v.in_buffer = r.in_buffer, Stored(v) = Stored(r),
         \A i \in Stored(r) : v.buf[i].frame = r.buf[i].frame,
         Plain(v), v.linked => r.linked, v.pn = r.pn
  PROVE  Sits(ky, v, b, H, d)
  <1>1. PICK l \in Int : Kept(ky, r, b, l) /\ Keeps(ky, H, r) /\ d <= b
    BY DEF Sits
  <1>2. Sound(r)
    BY <1>1, SpansNumbers DEF Kept
  <1>3. Spans(ky, v, b, l)
    BY <1>1 DEF Kept, Spans, Solid, Counted, Placed, Num
  <1>4. Keeps(ky, H, v)
    <2>1. ASSUME NEW n \in H PROVE Protected => n - ky > v.pn
      <3>1. Protected => n - ky > r.pn
        BY <1>1 DEF Keeps
      <3>2. r.pn \in Nat /\ n \in Int
        BY <1>2, PnType
      <3> QED
        BY <3>1, <3>2
    <2>2. ASSUME NEW n \in H
          PROVE  \E i \in Stored(v) : Num(v, i) = n /\ (Protected => v.buf[i].frame.pn = n - ky)
      BY <1>1 DEF Keeps, Num
    <2> QED
      BY <1>1, <2>1, <2>2, Zenon DEF Keeps
  <1>5. Kept(ky, v, b, l)
    BY <1>1, <1>3 DEF Kept
  <1> QED
    BY <1>1, <1>4, <1>5 DEF Sits

\* A new key begins: no frame of another one is stored, or nothing is said of them.
LEMMA SitsKeyed ==
  ASSUME NEW ky, NEW r, NEW b \in Int, NEW H, NEW d \in Int, Sits(ky, r, b, H, d),
         NEW k2, MayMix \/ Stored(r) = {},
         NEW v, Sound(v), v.buf_size = r.buf_size, v.ssn = r.ssn, v.lsn = r.lsn,
         v.in_buffer = r.in_buffer, v.buf = r.buf, v.linked = r.linked, Plain(v)
  PROVE  Sits(k2, v, b, H, d)
  <1>1. PICK l \in Int : Kept(ky, r, b, l) /\ Keeps(ky, H, r) /\ d <= b
    BY DEF Sits
  <1>2. H = {}
    BY <1>1 DEF Keeps, OneKey
  <1>3. Stored(v) = Stored(r)
    BY DEF Stored
  <1>4. \A i \in Stored(r) : Numbered(ky, r.buf[i].frame) => Numbered(k2, v.buf[i].frame)
    BY DEF Numbered
  <1>5. Spans(ky, r, b, l) /\ Placed(ky, r, b + 1, l)
    BY <1>1 DEF Kept, Spans
  <1>6. Placed(k2, v, b + 1, l)
    BY <1>3, <1>4, <1>5 DEF Placed, Num
  <1>7. Solid(v)
    BY <1>3, <1>5 DEF Spans, Solid, Counted
  <1>8. Spans(k2, v, b, l)
    BY <1>3, <1>5, <1>6, <1>7 DEF Spans, Num
  <1>9. Kept(k2, v, b, l)
    BY <1>1, <1>8 DEF Kept
  <1>10. Keeps(k2, H, v)
    BY <1>2 DEF Keeps, OneKey
  <1> QED
    BY <1>1, <1>9, <1>10 DEF Sits

\* The session is asked to start at t, and is empty there.
Moved(r, s, t) == Sn(t) # r.ssn /\ s.reo.ssn = Sn(t) /\ ~HasBuffer(s.reo)

\* So does a BAR or an ADDBA: the window is empty at t, or the stream goes on.
LEMMA SitsMoved ==
  ASSUME NEW ky \in Int,
         NEW r, NEW b \in Int, NEW H \in SUBSET Int, NEW d \in Int, Sits(ky, r, b, H, d),
         NEW t \in Int, b - Half < t, t < b + Half, NEW s, s = ForwardTo(r, Sn(t)),
         NEW b2, b2 = b + Signed(s.reo.ssn - r.ssn),
         NEW H2, H2 = (H \cup {}) \ OutNumbers(s.out),
         NEW d2, d2 = IF Moved(r, s, t) THEN t - 1 ELSE LastOut(s.out, d)
  PROVE  /\ Sits(ky, s.reo, b2, H2, d2) /\ s.reo.reset = r.reset /\ s.reo.buf_size = r.buf_size
         /\ OnList(r) => OnList(s.reo)
         /\ ~HasBuffer(r) => ~HasBuffer(s.reo)
         /\ Moved(r, s, t) => H2 = {}
         /\ ~Moved(r, s, t) => Advances(H, d, H2, d2)
  <1>1. PICK l \in Int : Kept(ky, r, b, l) /\ Keeps(ky, H, r) /\ d <= b
    BY DEF Sits
  <1>2. Half \in Nat /\ Half > 0
    BY <1>1, SpansNumbers DEF Kept
  <1>3. CASE s.reo = r /\ s.out = <<>> /\ ~Moved(r, s, t)
    <2>1. H2 = H
      BY <1>3, InTurnNone
    <2>2. d2 = d
      BY <1>3 DEF LastOut
    <2>3. b2 = b
      <3>1. r.ssn = Sn(b)
        BY <1>1 DEF Kept, Spans
      <3>2. 0 - Half < b - b /\ b - b <= Half
        BY <1>2
      <3>3. Signed(Sn(b) - Sn(b)) = b - b
        BY <3>2, SignedSn
      <3>4. b2 = b + (b - b)
        BY <1>3, <3>1, <3>3
      <3> QED
        BY <3>4
    <2>4. \A n \in H : n > d
      <3>1. Spans(ky, r, b, l)
        BY <1>1 DEF Kept
      <3>2. \A n \in H : n \in b + 1 .. l
        BY <1>1, <3>1, HeldInside
      <3>3. d <= b
        BY <1>1
      <3> QED
        BY <3>2, <3>3
    <2>5. Advances(H, d, H2, d2)
      BY <2>1, <2>2, <2>4 DEF Advances
    <2> QED
      BY <1>3, <2>1, <2>2, <2>3, <2>5
  <1>4. CASE Emptied(ky, r, b, l, H, s, t) /\ Sn(t) # r.ssn
    <2>1. s.reo.ssn = Sn(t) /\ s.reo.buf_size = r.buf_size /\ s.reo.reset = r.reset
      BY <1>4 DEF Emptied
    <2>2. /\ b2 = t /\ ~HasBuffer(s.reo) /\ H2 = {}
          /\ \A e \in Int : e <= t => Sits(ky, s.reo, b2, {}, e)
      BY <1>1, <1>4, SitsEmpty
    <2>3. Moved(r, s, t)
      BY <1>4, <2>1, <2>2 DEF Moved
    <2>4. d2 = t - 1 /\ t - 1 \in Int /\ t - 1 <= t
      BY <2>3
    <2>5. Sits(ky, s.reo, b2, H2, d2)
      BY <2>2, <2>4
    <2> QED
      BY <2>1, <2>2, <2>3, <2>5 DEF OnList
  <1> QED
    BY <1>1, <1>3, <1>4, Forwards DEF Moved

\* The first frame after a reset starts the window anew.
Started(ky, r, n, q) ==
  Kept(ky, q, n, n) /\ q.reset = FALSE /\ q.buf_size = r.buf_size /\ q.ssn = Sn(n)

\* The first number after a reset is the start of an empty window.
LEMMA ResetStarts ==
  ASSUME NEW ky, NEW r, NEW b \in Int, Kept(ky, r, b, b), r.reset = TRUE, NEW n \in Int,
         NEW q, q = AfterReset(r, Sn(n))
  PROVE  Started(ky, r, n, q)
  <1>1. PICK u : u = ResetSsn(r, Sn(n))
    OBVIOUS
  <1>2. Kept(ky, u, n, n) /\ Stored(u) = {} /\ u.buf_size = r.buf_size
    BY <1>1, ResetEmpty DEF Restarted
  <1>3. Solid(u) /\ Spans(ky, u, n, n) /\ u \in Session(u.buf_size) /\ r \in Session(r.buf_size)
    BY <1>2, SpansNumbers DEF Kept, Spans, Solid, Sound
  <1>4. q = [r EXCEPT !.reset = FALSE, !.ssn = Sn(n), !.lsn = Sn(n)]
    BY DEF AfterReset
  <1>5. /\ q.buf_size = u.buf_size /\ q.ssn = u.ssn /\ q.lsn = u.lsn /\ q.linked = u.linked
        /\ q.in_buffer = u.in_buffer /\ q.pn = u.pn /\ q.pn_check = u.pn_check /\ q.buf = u.buf
        /\ q.reset = FALSE /\ q.ssn = Sn(n)
    BY <1>1, <1>3, <1>4 DEF ResetSsn, Session
  <1>6. q \in Session(u.buf_size)
    BY <1>2, <1>3, <1>4, SnType DEF Session
  <1>7. Stored(q) = {}
    BY <1>2, <1>5 DEF Stored
  <1>8. Solid(q)
    BY <1>2, <1>3, <1>5, <1>6, <1>7 DEF Solid, Sound, Counted, Plain
  <1>9. Spans(ky, q, n, n)
    BY <1>3, <1>5, <1>7, <1>8 DEF Spans, Placed
  <1> QED
    BY <1>2, <1>5, <1>9 DEF Kept, Started

\* What enqueuing the frame f of number n makes of window start, frames held back and the
\* last one given out.
Enqueued(r, b, H, d, f, n, s, new, b2, H2, d2) ==
  /\ r.reset \in BOOLEAN /\ ~(r.reset /\ HasBuffer(r))
  /\ s = Enqueue(r, f)
  /\ new = IF ~MayMix /\ Owed(AfterReset(r, Sn(n)), f) THEN {n} ELSE {}
  /\ b2 = b + Signed(s.reo.ssn - r.ssn)
  /\ H2 = (H \cup new) \ OutNumbers(s.out)
  /\ d2 = LastOut(s.out, IF r.reset THEN n - 1 ELSE d)

TookIn(ky, r, H, d, s, b2, H2, d2) ==
  /\ Sits(ky, s.reo, b2, H2, d2) /\ s.reo.reset = FALSE
  /\ OnList(r) => OnList(s.reo)
  /\ r.reset => H2 = {}
  /\ ~r.reset => Advances(H, d, H2, d2)

\* So does a frame, whether or not the session was reset before it.
LEMMA SitsTaking ==
  ASSUME NEW ky \in Int,
         NEW r, NEW b \in Int, NEW H \in SUBSET Int, NEW d \in Int, Sits(ky, r, b, H, d),
         NEW f \in Frame, Numbered(ky, f), NEW n \in Int, n = f.n, b - Half < n, n < b + Half,
         NEW s, NEW new, NEW b2, NEW H2, NEW d2, Enqueued(r, b, H, d, f, n, s, new, b2, H2, d2)
  PROVE  TookIn(ky, r, H, d, s, b2, H2, d2)
  <1>0. /\ s = Enqueue(r, f) /\ r.reset \in BOOLEAN /\ ~(r.reset /\ HasBuffer(r))
        /\ new = (IF ~MayMix /\ Owed(AfterReset(r, Sn(n)), f) THEN {n} ELSE {})
        /\ b2 = b + Signed(s.reo.ssn - r.ssn)
        /\ H2 = (H \cup new) \ OutNumbers(s.out)
        /\ d2 = LastOut(s.out, IF r.reset THEN n - 1 ELSE d)
    BY DEF Enqueued
  <1>1. PICK l \in Int : Kept(ky, r, b, l) /\ Keeps(ky, H, r) /\ d <= b
    BY DEF Sits
  <1>2. PICK q : q = AfterReset(r, Sn(n))
    OBVIOUS
  <1>3. s = Handled(q, f)
    BY <1>0, <1>2, EnqueueHandles
  <1>4. new = (IF ~MayMix /\ Owed(q, f) THEN {n} ELSE {}) /\ new \subseteq {n}
    BY <1>0, <1>2
  <1>5. CASE ~r.reset
    <2>1. q = r
      BY <1>2, <1>5 DEF AfterReset
    <2>2. PICK p \in Int, m \in Int : Gave(ky, r, b, l, H, new, s, p, m) /\ p <= b + Half
      BY <1>1, <1>3, <1>4, <2>1, Handles
    <2>3. d2 = LastOut(s.out, d)
      BY <1>0, <1>5
    <2>6. After(r, b, H, d, new, s, b2, H2, d2)
      BY <1>0, <2>3 DEF After
    <2>4. Sits(ky, s.reo, b2, H2, d2) /\ Advances(H, d, H2, d2) /\ (OnList(r) => OnList(s.reo))
      BY <1>1, <1>4, <2>2, <2>6, SitsOn
    <2>5. s.reo.buf_size = r.buf_size /\ s.reo.reset = r.reset
      BY <2>2 DEF Gave
    <2> QED
      BY <1>0, <1>5, <2>4, <2>5 DEF TookIn
  <1>6. CASE r.reset
    <2>1. l = b /\ H = {}
      <3>1. Spans(ky, r, b, l) /\ b <= l
        BY <1>1, SpansNumbers DEF Kept
      <3>2. l = b
        BY <1>0, <1>6, <3>1, SpansBuffer
      <3>3. H = {}
        BY <1>1, <3>1, <3>2, HeldInside
      <3> QED
        BY <3>2, <3>3
    <2>2. Kept(ky, q, n, n) /\ q.reset = FALSE /\ q.buf_size = r.buf_size /\ q.ssn = Sn(n)
      <3>1. Kept(ky, r, b, b)
        BY <1>1, <2>1
      <3>2. r.reset = TRUE
        BY <1>6
      <3>3. Started(ky, r, n, q)
        BY <1>2, <3>1, <3>2, ResetStarts
      <3> QED
        BY <3>3 DEF Started
    <2>3. Half \in Nat /\ 1 < Half
      <3>1. PICK sz \in BufSize : 1 <= sz /\ sz < Half /\ sz \in Nat
        BY HalfType, NumberAssumption
      <3> QED
        BY <3>1, HalfType
    <2>4. Keeps(ky, {}, q)
      BY DEF Keeps, OneKey
    <2>5. PICK p \in Int, m \in Int : Gave(ky, q, n, n, {}, new, s, p, m) /\ p <= n + Half /\ p <= n + 1
      <3>1. n - Half < n /\ n < n + Half /\ {} \in SUBSET Int
        BY <2>3
      <3>2. \E p \in Int, m \in Int : /\ Gave(ky, q, n, n, {}, new, s, p, m) /\ p <= n + Half
                                      /\ (p <= n \/ p <= n + 1 \/ p <= n + 1)
        BY <1>3, <1>4, <2>2, <2>4, <3>1, Handles
      <3> QED
        BY <3>2
    <2>6. PICK a : a = n + Signed(s.reo.ssn - q.ssn)
      OBVIOUS
    <2>7. PICK c \in Int : c = n - 1 /\ c <= n
      OBVIOUS
    <2>8. After(q, n, {}, c, new, s, a, H2, d2)
      BY <1>0, <1>6, <2>1, <2>6, <2>7 DEF After
    <2>9. Sits(ky, s.reo, a, H2, d2) /\ (OnList(q) => OnList(s.reo))
      BY <1>4, <2>2, <2>5, <2>7, <2>8, SitsOn
    <2>10. Kept(ky, s.reo, p, m) /\ n <= p /\ s.reo.buf_size = q.buf_size /\ s.reo.reset = q.reset
      BY <2>5 DEF Gave
    <2>11. s.reo.ssn = Sn(p) /\ r.ssn = Sn(b) /\ Spans(ky, s.reo, p, m)
      BY <1>1, <2>10 DEF Kept, Spans
    <2>12. a = p
      <3>1. 0 - Half < p - n /\ p - n <= Half
        BY <2>3, <2>5, <2>10
      <3>2. Signed(Sn(p) - Sn(n)) = p - n
        BY <3>1, SignedSn
      <3>3. a = n + (p - n)
        BY <2>2, <2>6, <2>11, <3>2
      <3> QED
        BY <3>3
    <2>13. b2 = p
      <3>1. 0 - Half < p - b /\ p - b <= Half
        BY <2>3, <2>5, <2>10
      <3>2. Signed(Sn(p) - Sn(b)) = p - b
        BY <3>1, SignedSn
      <3>3. b2 = b + (p - b)
        BY <1>0, <2>11, <3>2
      <3> QED
        BY <3>3
    <2>14. H2 = {}
      <3>1. Keeps(ky, H2, s.reo)
        BY <2>9 DEF Sits
      <3>2. \A k \in H2 : k \in p + 1 .. m
        BY <2>11, <3>1, HeldInside
      <3>3. \A k \in H2 : k = n
        BY <1>0, <1>4, <2>1
      <3>4. ASSUME NEW k \in H2 PROVE FALSE
        <4>1. k = n /\ k \in p + 1 .. m
          BY <3>2, <3>3
        <4> QED
          BY <2>10, <4>1
      <3> QED
        BY <3>4
    <2>15. OnList(q)
      <3>1. Spans(ky, q, n, n)
        BY <2>2 DEF Kept
      <3> QED
        BY <3>1, SpansBuffer DEF OnList
    <2> QED
      BY <1>0, <1>6, <2>2, <2>9, <2>10, <2>12, <2>13, <2>14, <2>15 DEF TookIn
  <1> QED
    BY <1>0, <1>5, <1>6

-----------------------------------------------------------------------------
(* The inductive invariant.                                                 *)

\* The frames the session is sure to give out.
Owes == IF MayMix THEN {} ELSE held

RxInv ==
  /\ TypeOK
  /\ Sits(key, reo, base, Owes, last)
  /\ reos => OnList(reo)
  /\ rx = "got" => stop \in {"run", "stopping"}
  /\ reo.reset => stop = "marked" \/ ~HasBuffer(reo)
  /\ ResetMeetsEmpty

\* What a step may do to the stream.
StreamStep ==
  \/ Advances(held, last, held', last') /\ UNCHANGED turn
  \/ turn' = ~turn /\ held' = {}

\* A new session is empty.
LEMMA NewSits ==
  ASSUME NEW ky, NEW sz \in BufSize, NEW b \in Int, NEW q, q = NewSession(sz, Sn(b))
  PROVE  /\ Sits(ky, q, b, {}, b - 1) /\ ~HasBuffer(q) /\ q.reset = FALSE
         /\ q.buf_size = sz /\ q \in Session(sz)
  <1>1. Sn(b) \in 0 .. SnModulo - 1
    BY SnType
  <1>2. /\ q.buf_size = sz /\ q.ssn = Sn(b) /\ q.lsn = Sn(b) /\ q.in_buffer = 0
        /\ q.linked = FALSE /\ q.buf = [i \in 0 .. WinSize(sz) - 1 |-> None] /\ q.reset = FALSE
        /\ q.pn = 0 /\ q.pn_check = FALSE
    BY DEF NewSession
  <1>3. q \in Session(sz)
    BY <1>1 DEF Session, NewSession, PacketNumber
  <1>4. Stored(q) = {}
    BY <1>2 DEF Stored
  <1>5. Solid(q)
    <2>1. Cardinality({}) = 0
      BY FS_EmptySet
    <2>2. Sound(q)
      BY <1>2, <1>3 DEF Sound
    <2> QED
      BY <1>2, <1>4, <2>1, <2>2 DEF Solid, Counted, Plain
  <1>6. b < b + q.buf_size
    BY <1>2, HalfType
  <1>7. Spans(ky, q, b, b)
    BY <1>2, <1>4, <1>5, <1>6 DEF Spans, Placed
  <1>8. Kept(ky, q, b, b) /\ Keeps(ky, {}, q)
    BY <1>2, <1>7 DEF Kept, Keeps, OneKey
  <1>9. b - 1 \in Int /\ b - 1 <= b
    OBVIOUS
  <1> QED
    BY <1>2, <1>3, <1>8, <1>9 DEF Sits, HasBuffer

\* The first session is empty.
LEMMA RxInit == Init => RxInv
  <1> SUFFICES ASSUME Init PROVE RxInv
    OBVIOUS
  <1>1. PICK sz \in BufSize : Min(BufSize) = sz
    <2>1. BufSize \in SUBSET Nat /\ BufSize # {}
      BY HalfType, NumberAssumption
    <2>2. \E x \in BufSize : \A y \in BufSize : x <= y
      BY <2>1, LeastNat
    <2> QED
      BY <2>2 DEF Min
  <1>2. FirstSn \in Int
    BY NumberAssumption
  <1>3. PICK b \in Int : b = FirstSn
    BY <1>2
  <1>4. /\ Sits(key, reo, b, {}, b - 1) /\ ~HasBuffer(reo) /\ reo.reset = FALSE
        /\ reo.buf_size = sz /\ reo \in Session(sz)
    BY <1>1, <1>3, NewSits DEF Init
  <1>5. TypeOK
    <2>1. reo.buf_size \in BufSize /\ reo \in Session(reo.buf_size)
      BY <1>4
    <2>2. FirstSn - 1 \in Int /\ {} \subseteq Number
      BY <1>2
    <2> QED
      BY <1>2, <2>1, <2>2 DEF Init, TypeOK
  <1>6. Owes = {}
    BY DEF Init, Owes
  <1> QED
    BY <1>3, <1>4, <1>5, <1>6 DEF Init, RxInv, ResetMeetsEmpty

\* The session alone is type correct where it sits.
LEMMA SitsTyped ==
  ASSUME NEW ky, NEW r, NEW b, NEW H, NEW d, Sits(ky, r, b, H, d)
  PROVE  Sound(r) /\ b \in Int /\ d \in Int
  <1>1. PICK l \in Int : Spans(ky, r, b, l)
    BY DEF Sits, Kept
  <1>2. b \in Int /\ d \in Int
    BY DEF Sits
  <1> QED
    BY <1>1, <1>2, SpansNumbers

\* Whatever leaves the session and the stream alone and keeps to the order of a stop.
LEMMA RxRest ==
  ASSUME RxInv, UNCHANGED <<reo, base, stream, key>>, aged' \in BOOLEAN,
         reos' = reos, rx' \in {"idle", "got", "aging"}, ctl' \in {"idle", "detached", "flushed"},
         stop' \in {"run", "stopping", "marked", "stopped"},
         oops' \in {oops, "aging", "freed"},
         rx' = "got" => stop' \in {"run", "stopping"},
         stop = "marked" => stop' = "marked"
  PROVE  RxInv' /\ UNCHANGED stream
  <1>1. TypeOK'
    BY DEF RxInv, TypeOK, stream
  <1>2. Sits(key', reo', base', Owes', last')
    <2>1. Owes' = Owes
      BY DEF Owes, stream
    <2> QED
      BY <2>1 DEF RxInv, stream
  <1>3. (reos => OnList(reo))'
    BY DEF RxInv
  <1>4. (reo.reset => stop = "marked" \/ ~HasBuffer(reo))'
    BY DEF RxInv
  <1>5. ResetMeetsEmpty'
    BY DEF RxInv, ResetMeetsEmpty
  <1> QED
    BY <1>1, <1>2, <1>3, <1>4, <1>5 DEF RxInv

-----------------------------------------------------------------------------
(* Every step keeps the invariant, and the stream moves as it may.          *)

StreamKept == RxInv' /\ (MayMix \/ StreamStep \/ UNCHANGED stream)

\* What is owed without what is given out.
LEMMA OwesLess ==
  ASSUME NEW out, held' = (held \cup {}) \ OutNumbers(out)
  PROVE  Owes' = (Owes \cup {}) \ OutNumbers(out)
  BY DEF Owes

\* While frames of one key meet, what is owed is what is held back.
LEMMA OwesHeld ==
  /\ Advances(Owes, last, Owes', last') /\ turn' = turn => MayMix \/ StreamStep
  /\ held \in SUBSET Int => Owes \in SUBSET Int
  BY DEF Owes, StreamStep

\* The threads are where they can be.
ThreadsTyped ==
  /\ aged \in BOOLEAN /\ rx \in {"idle", "got", "aging"} /\ ctl \in {"idle", "detached", "flushed"}
  /\ stop \in {"run", "stopping", "marked", "stopped"}
  /\ rx = "got" => stop \in {"run", "stopping"}

\* A step that leaves session and stream in step keeps the invariant.
LEMMA RxMoves ==
  ASSUME RxInv, key' = key, Sits(key, reo', base', Owes', last'), held' \subseteq Number,
         turn' \in BOOLEAN,
         ThreadsTyped', reos' \in BOOLEAN, reos' => OnList(reo'), oops' \in {oops, "aging", "freed"},
         reo'.reset => stop' = "marked" \/ ~HasBuffer(reo')
  PROVE  RxInv'
  <1>1. reo'.buf_size \in BufSize /\ reo' \in Session(reo'.buf_size) /\ base' \in Int /\ last' \in Int
    BY SitsTyped DEF Sound
  <1>2. TypeOK'
    BY <1>1 DEF RxInv, TypeOK, ThreadsTyped
  <1>3. ResetMeetsEmpty'
    BY DEF RxInv, ResetMeetsEmpty
  <1>4. Sits(key', reo', base', Owes', last')
    OBVIOUS
  <1> QED
    BY <1>2, <1>3, <1>4 DEF RxInv, ThreadsTyped

\* Steps that only move a thread.
LEMMA RxLookupKeeps ==
  ASSUME RxInv, RxLookup \/ AgingTake \/ ReleaseFree \/ StopBegin \/ Restart PROVE StreamKept
  <1>1. aged' \in BOOLEAN /\ reos' = reos /\ UNCHANGED <<reo, base, stream, key>>
    BY DEF RxInv, TypeOK, RxLookup, AgingTake, ReleaseFree, StopBegin, Restart
  <1>2. /\ rx' \in {"idle", "got", "aging"} /\ ctl' \in {"idle", "detached", "flushed"}
        /\ stop' \in {"run", "stopping", "marked", "stopped"} /\ oops' \in {oops, "aging", "freed"}
        /\ rx' = "got" => stop' \in {"run", "stopping"}
        /\ stop = "marked" => stop' = "marked"
    BY DEF RxInv, TypeOK, RxLookup, AgingTake, ReleaseFree, StopBegin, Restart
  <1>3. RxInv' /\ UNCHANGED stream
    BY <1>1, <1>2, RxRest, Zenon
  <1> QED
    BY <1>3 DEF StreamKept

\* A turn that is not taken.
LEMMA TurnStays ==
  ASSUME NEW c \in BOOLEAN, NEW m, m = FALSE, NEW e, e = (c # m)
  PROVE  e = c
  BY Zenon

\* A frame from the device.
LEMMA RxFrameKeeps ==
  ASSUME RxInv, NEW f \in Frame, RxFrame(f) PROVE StreamKept
  <1>1. ~(reo.reset /\ HasBuffer(reo)) /\ reo.reset \in BOOLEAN /\ Sits(key, reo, base, Owes, last)
    BY DEF RxInv, RxFrame, TypeOK, Session
  <1>2. PICK s : s = Enqueue(reo, f)
    OBVIOUS
  <1>3. PICK n \in Int : n = f.n /\ n \in Number
    <2>1. f.n \in Number
      BY DEF Frame
    <2>2. PICK a \in Number : a = f.n
      BY <2>1
    <2>3. a \in Int
      BY HalfType
    <2> QED
      BY <2>2, <2>3
  <1>4. PICK new : new = IF Owed(AfterReset(reo, Sn(n)), f) THEN {n} ELSE {}
    OBVIOUS
  <1>5. /\ reo' = s.reo /\ base' = base + Signed(s.reo.ssn - reo.ssn)
        /\ held' = (held \cup new) \ OutNumbers(s.out)
        /\ last' = LastOut(s.out, IF reo.reset THEN n - 1 ELSE last)
        /\ turn' = (turn # reo.reset) /\ rx' = "idle" /\ oops' = oops
        /\ UNCHANGED <<reos, aged, ctl, stop, key>>
    BY <1>1, <1>2, <1>3, <1>4 DEF RxFrame, Gives
  <1>6. Numbered(key, f) /\ base - Half < n /\ n < base + Half
    <2>1. n \in base - Half + 1 .. base + Half - 1
      BY <1>3 DEF RxFrame, InReach
    <2>2. base \in Int /\ Half \in Int
      BY HalfType DEF RxInv, TypeOK
    <2>3. Numbered(key, f)
      BY DEF RxFrame, Numbered, Numbers
    <2> QED
      BY <2>1, <2>2, <2>3
  <1>7. Owes \in SUBSET Int /\ base \in Int /\ last \in Int /\ key \in Int
    BY HalfType, NumberAssumption DEF RxInv, TypeOK, Owes
  <1>13. PICK own : own = IF ~MayMix /\ Owed(AfterReset(reo, Sn(n)), f) THEN {n} ELSE {}
    OBVIOUS
  <1>14. Owes' = (Owes \cup own) \ OutNumbers(s.out)
    BY <1>4, <1>5, <1>13 DEF Owes
  <1>8. /\ Sits(key, reo', base', Owes', last') /\ reo'.reset = FALSE
        /\ OnList(reo) => OnList(reo')
        /\ reo.reset => Owes' = {}
        /\ ~reo.reset => Advances(Owes, last, Owes', last')
    <2>1. Enqueued(reo, base, Owes, last, f, n, s, own, base', Owes', last')
      BY <1>1, <1>2, <1>5, <1>13, <1>14 DEF Enqueued
    <2>2. TookIn(key, reo, Owes, last, s, base', Owes', last')
      BY <1>1, <1>3, <1>6, <1>7, <2>1, SitsTaking
    <2> QED
      BY <1>5, <2>2 DEF TookIn
  <1>9. held' \subseteq Number /\ turn' \in BOOLEAN
    BY <1>3, <1>4, <1>5 DEF RxInv, TypeOK
  <1>10. ThreadsTyped' /\ reos' \in BOOLEAN
    BY <1>5 DEF RxInv, TypeOK, ThreadsTyped
  <1>11. RxInv'
    BY <1>5, <1>8, <1>9, <1>10, RxMoves DEF RxInv
  <1>12. MayMix \/ StreamStep
    <2>1. CASE reo.reset
      BY <1>5, <1>8, <2>1 DEF RxInv, TypeOK, StreamStep, Owes
    <2>2. CASE ~reo.reset
      <3>1. turn \in BOOLEAN /\ reo.reset = FALSE
        BY <1>1, <2>2 DEF RxInv, TypeOK
      <3>2. turn' = turn
        BY <1>5, <3>1, TurnStays
      <3> QED
        BY <1>8, <2>2, <3>2, OwesHeld, Zenon
    <2> QED
      BY <2>1, <2>2
  <1> QED
    BY <1>11, <1>12 DEF StreamKept

\* A BAR and an ADDBA for a session that is there.
LEMMA RxRepositions ==
  ASSUME RxInv, NEW b \in Number, InReach(b), Repositions(ForwardTo(reo, Sn(b)), b),
         UNCHANGED <<reos, aged, ctl, stop, oops, key>>, rx' \in {rx, "idle"}
  PROVE  StreamKept
  <1>1. PICK s : s = ForwardTo(reo, Sn(b))
    OBVIOUS
  <1>2. PICK t \in Int : t = b
    BY HalfType
  <1>3. base - Half < t /\ t < base + Half /\ base \in Int /\ last \in Int /\ Owes \in SUBSET Int
    <2>1. t \in base - Half + 1 .. base + Half - 1
      BY <1>2 DEF InReach
    <2>2. base \in Int /\ Half \in Int /\ last \in Int /\ Owes \in SUBSET Int
      BY HalfType DEF RxInv, TypeOK, Owes
    <2> QED
      BY <2>1, <2>2
  <1>4. /\ reo' = s.reo /\ base' = base + Signed(s.reo.ssn - reo.ssn)
        /\ held' = (held \cup {}) \ OutNumbers(s.out)
        /\ last' = (IF Moved(reo, s, t) THEN t - 1 ELSE LastOut(s.out, last))
        /\ turn' = (turn # Moved(reo, s, t))
    BY <1>1, <1>2 DEF Repositions, Gives, Moved
  <1>12. Owes' = (Owes \cup {}) \ OutNumbers(s.out)
    BY <1>4, OwesLess
  <1>13. key \in Int
    BY NumberAssumption, HalfType DEF RxInv, TypeOK
  <1>5. Sits(key, reo, base, Owes, last)
    BY DEF RxInv
  <1>6. /\ Sits(key, reo', base', Owes', last') /\ reo'.reset = reo.reset
        /\ OnList(reo) => OnList(reo')
        /\ ~HasBuffer(reo) => ~HasBuffer(reo')
        /\ Moved(reo, s, t) => Owes' = {}
        /\ ~Moved(reo, s, t) => Advances(Owes, last, Owes', last')
    BY <1>1, <1>2, <1>3, <1>4, <1>5, <1>12, <1>13, SitsMoved
  <1>7. held' \subseteq Number /\ turn' \in BOOLEAN
    BY <1>4 DEF RxInv, TypeOK
  <1>8. ThreadsTyped' /\ reos' \in BOOLEAN
    BY DEF RxInv, TypeOK, ThreadsTyped
  <1>9. reo'.reset => stop' = "marked" \/ ~HasBuffer(reo')
    BY <1>6 DEF RxInv
  <1>10. RxInv'
    BY <1>6, <1>7, <1>8, <1>9, RxMoves DEF RxInv
  <1>11. MayMix \/ StreamStep
    <2>1. CASE Moved(reo, s, t)
      BY <1>4, <1>6, <2>1 DEF RxInv, TypeOK, StreamStep, Owes
    <2>2. CASE ~Moved(reo, s, t)
      <3>1. turn \in BOOLEAN
        BY DEF RxInv, TypeOK
      <3>2. turn' = turn
        <4>1. Moved(reo, s, t) = FALSE
          BY <2>2, Zenon DEF Moved
        <4> QED
          BY <1>4, <3>1, <4>1, TurnStays
      <3> QED
        BY <1>6, <2>2, <3>2, OwesHeld, Zenon
    <2> QED
      BY <2>1, <2>2
  <1> QED
    BY <1>10, <1>11 DEF StreamKept

\* The outcome of ageing, and that no expired frame stays.
LEMMA AgingGives ==
  ASSUME NEW ky \in Int,
         NEW r, NEW b \in Int, NEW l \in Int, Kept(ky, r, b, l), NEW H \in SUBSET Int,
         Keeps(ky, H, r),
         NEW s, s = Aging(r)
  PROVE  /\ \E p \in Int, m \in Int : Gave(ky, r, b, l, H, {}, s, p, m) /\ p <= b + Half
         /\ ~aged => \A i \in Stored(s.reo) : s.reo.buf[i].left >= 0
  <1>1. /\ Spans(ky, r, b, l) /\ Half \in Nat /\ Sound(r)
    BY SpansNumbers DEF Kept
  <1>2. CASE aged \/ Expired(r) = {}
    <2>1. s = [reo |-> r, out |-> <<>>]
      BY <1>2 DEF Aging
    <2>2. s.reo = r
      BY <2>1
    <2>3. Keeps(ky, H \cup {}, r)
      <3>1. H \cup {} = H
        OBVIOUS
      <3> QED
        BY <3>1
    <2>4. (l > b => r.linked) => (l > b => r.linked)
      OBVIOUS
    <2>5. Gave(ky, r, b, l, H, {}, s, b, l)
      BY <2>1, <2>3, <2>4, GaveNone
    <2>6. ASSUME ~aged, NEW i \in Stored(r) PROVE r.buf[i].left >= 0
      <3>1. ~(r.buf[i].left < 0)
        BY <1>1, <1>2, <2>6, ExpiredAre
      <3>2. r.buf[i].left \in Int
        BY <1>1, StoredType
      <3> QED
        BY <3>1, <3>2
    <2>7. b <= b + Half
      BY <1>1
    <2> QED
      BY <2>2, <2>5, <2>6, <2>7
  <1>3. CASE ~(aged \/ Expired(r) = {})
    <2>1. s = ShiftTo(r, ExpiredNext(r)) /\ Expired(r) # {}
      BY <1>3 DEF Aging
    <2> QED
      BY <2>1, Ages
  <1> QED
    BY <1>2, <1>3

\* A pass of the ageing.
LEMMA AgingRunKeeps ==
  ASSUME RxInv, AgingRun PROVE StreamKept
  <1>1. CASE ~HasBuffer(reo)
    <2>1. /\ oops' = "aging" /\ UNCHANGED <<reo, base, stream, key>> /\ aged' = aged /\ rx' = rx
          /\ reos' = reos /\ ctl' = ctl /\ stop' = stop
      BY <1>1 DEF AgingRun
    <2>2. /\ aged' \in BOOLEAN /\ rx' \in {"idle", "got", "aging"}
          /\ ctl' \in {"idle", "detached", "flushed"}
          /\ stop' \in {"run", "stopping", "marked", "stopped"} /\ oops' \in {oops, "aging", "freed"}
          /\ rx' = "got" => stop' \in {"run", "stopping"}
      BY <2>1 DEF RxInv, TypeOK
    <2> QED
      BY <2>1, <2>2, RxRest DEF StreamKept
  <1>2. CASE HasBuffer(reo)
    <2>1. PICK s : s = Aging(reo)
      OBVIOUS
    <2>2. /\ reo' = s.reo /\ After(reo, base, held, last, {}, s, base', held', last')
          /\ aged' = TRUE /\ rx' = "idle" /\ turn' = turn /\ oops' = oops
          /\ reos' = reos /\ ctl' = ctl /\ stop' = stop /\ key' = key
      BY <1>2, <2>1 DEF AgingRun, Gives, After
    <2>3. PICK b \in Int, d \in Int : b = base /\ d = last
      BY DEF RxInv, TypeOK
    <2>17. After(reo, base, Owes, last, {}, s, base', Owes', last')
      BY <2>2, OwesLess DEF After
    <2>18. key \in Int
      BY NumberAssumption, HalfType DEF RxInv, TypeOK
    <2>4. PICK l \in Int : Kept(key, reo, b, l) /\ Keeps(key, Owes, reo) /\ d <= b
      BY <2>3 DEF RxInv, Sits
    <2>5. Owes \in SUBSET Int
      BY HalfType DEF RxInv, TypeOK, Owes
    <2>6. PICK p \in Int, m \in Int : Gave(key, reo, b, l, Owes, {}, s, p, m) /\ p <= b + Half
      BY <2>1, <2>4, <2>5, <2>18, AgingGives
    <2>0. PICK new : new = {}
      OBVIOUS
    <2>7. new = {} /\ new \subseteq {b}
      BY <2>0
    <2>8. After(reo, b, Owes, d, new, s, base', Owes', last')
      BY <2>3, <2>7, <2>17
    <2>9. Gave(key, reo, b, l, Owes, new, s, p, m)
      BY <2>6, <2>7
    <2>10. /\ Sits(key, s.reo, base', Owes', last') /\ Advances(Owes, d, Owes', last')
           /\ OnList(reo) => OnList(s.reo)
      BY <2>4, <2>5, <2>6, <2>7, <2>8, <2>9, <2>18, SitsOn
    <2>11. reo'.reset = reo.reset
      BY <2>2, <2>6 DEF Gave
    <2>12. held' \subseteq Number /\ turn' \in BOOLEAN
      BY <2>2 DEF RxInv, TypeOK, After
    <2>13. ThreadsTyped' /\ reos' \in BOOLEAN
      BY <2>2 DEF RxInv, TypeOK, ThreadsTyped
    <2>14. reo'.reset => stop' = "marked" \/ ~HasBuffer(reo')
      BY <1>2, <2>2, <2>11 DEF RxInv
    <2>15. RxInv'
      BY <2>2, <2>10, <2>12, <2>13, <2>14, RxMoves DEF RxInv
    <2>16. MayMix \/ StreamStep
      BY <2>2, <2>3, <2>10, OwesHeld
    <2> QED
      BY <2>15, <2>16 DEF StreamKept
  <1> QED
    BY <1>1, <1>2

\* The flush of a release and of a reset.
LEMMA FlushKeeps ==
  ASSUME RxInv, ReleaseFlush \/ ResetFlush PROVE StreamKept
  <1>1. PICK s : s = ForwardAll(reo)
    OBVIOUS
  <1>2. /\ reo' = s.reo /\ base' = base + Signed(s.reo.ssn - reo.ssn)
        /\ held' = (held \cup {}) \ OutNumbers(s.out) /\ last' = LastOut(s.out, last)
        /\ turn' = turn /\ reos' = reos /\ aged' = aged /\ rx' = rx /\ oops' = oops
        /\ key' = key
    BY <1>1 DEF ReleaseFlush, ResetFlush, Flush, Gives
  <1>3. PICK b \in Int, d \in Int : b = base /\ d = last
    BY DEF RxInv, TypeOK
  <1>10. Owes' = (Owes \cup {}) \ OutNumbers(s.out)
    BY <1>2, OwesLess
  <1>11. key \in Int
    BY NumberAssumption, HalfType DEF RxInv, TypeOK
  <1>4. Owes \in SUBSET Int /\ Sits(key, reo, b, Owes, d)
    BY <1>3, HalfType DEF RxInv, TypeOK, Owes
  <1>5. /\ Sits(key, s.reo, base', Owes', last') /\ Advances(Owes, d, Owes', last') /\ ~HasBuffer(s.reo)
    <2>1. After(reo, b, Owes, d, {}, s, base', Owes', last')
      BY <1>2, <1>3, <1>10 DEF After
    <2> QED
      BY <1>1, <1>4, <1>11, <2>1, SitsFlushed
  <1>6. held' \subseteq Number /\ turn' \in BOOLEAN
    BY <1>2 DEF RxInv, TypeOK
  <1>7. ThreadsTyped' /\ reos' \in BOOLEAN
    BY <1>2 DEF RxInv, TypeOK, ThreadsTyped, ReleaseFlush, ResetFlush
  <1>8. RxInv'
    BY <1>2, <1>5, <1>6, <1>7, RxMoves DEF RxInv, OnList
  <1>9. MayMix \/ StreamStep
    BY <1>2, <1>3, <1>5, OwesHeld
  <1> QED
    BY <1>8, <1>9 DEF StreamKept

\* A new session takes the stream to its start.
LEMMA AddBaKeeps ==
  ASSUME RxInv, NEW b \in Number, NEW sz \in BufSize, AddBa(sz, b) PROVE StreamKept
  <1>1. PICK t \in Int : t = b
    BY HalfType
  <1>2. /\ reo' = NewSession(sz, Sn(t)) /\ base' = t /\ last' = t - 1 /\ held' = {}
        /\ turn' = ~turn /\ reos' = TRUE /\ aged' = TRUE
        /\ rx' = rx /\ ctl' = ctl /\ stop' = stop /\ oops' = oops /\ key' = key
    BY <1>1 DEF AddBa, threads
  <1>7. Owes' = {}
    BY <1>2 DEF Owes
  <1>3. Sits(key, reo', base', Owes', last') /\ ~HasBuffer(reo') /\ reo'.reset = FALSE
    BY <1>2, <1>7, NewSits
  <1>4. ThreadsTyped' /\ reos' \in BOOLEAN /\ turn' \in BOOLEAN
    BY <1>2 DEF RxInv, TypeOK, ThreadsTyped
  <1>5. RxInv'
    BY <1>2, <1>3, <1>4, RxMoves DEF OnList
  <1>6. StreamStep
    BY <1>2 DEF StreamStep
  <1> QED
    BY <1>5, <1>6 DEF StreamKept

\* The session is changed, but neither its window nor the frames in it.
LEMMA RxTouches ==
  ASSUME RxInv,
         Sound(reo'), reo'.buf_size = reo.buf_size, reo'.ssn = reo.ssn, reo'.lsn = reo.lsn,
         reo'.in_buffer = reo.in_buffer, Stored(reo') = Stored(reo),
         \A i \in Stored(reo) : reo'.buf[i].frame = reo.buf[i].frame,
         Plain(reo'), reo'.linked => reo.linked, reo'.pn = reo.pn,
         UNCHANGED <<base, stream, key>>, ThreadsTyped', reos' \in BOOLEAN,
         reos' => reos /\ reo'.linked = reo.linked, oops' = oops,
         reo'.reset => stop' = "marked" \/ ~HasBuffer(reo)
  PROVE  StreamKept
  <1>1. PICK b \in Int, d \in Int : b = base /\ d = last
    BY DEF RxInv, TypeOK
  <1>2. Owes \in SUBSET Int /\ Sits(key, reo, b, Owes, d) /\ Owes' = Owes
    BY <1>1, HalfType DEF RxInv, TypeOK, Owes, stream
  <1>3. PICK v : v = reo'
    OBVIOUS
  <1>4. Sits(key, v, b, Owes, d)
    BY <1>2, <1>3, SameFrames
  <1>5. Sits(key, reo', base', Owes', last')
    BY <1>1, <1>2, <1>3, <1>4 DEF stream
  <1>6. held' \subseteq Number /\ turn' \in BOOLEAN /\ UNCHANGED stream
    BY DEF RxInv, TypeOK, stream
  <1>7. HasBuffer(reo') <=> HasBuffer(reo)
    BY DEF HasBuffer
  <1>8. reos' => OnList(reo')
    BY <1>7 DEF RxInv, OnList
  <1>9. RxInv'
    BY <1>5, <1>6, <1>7, <1>8, RxMoves
  <1> QED
    BY <1>6, <1>9 DEF StreamKept

\* An entry whose time has gone down is an entry.
LEMMA EntryTicks ==
  ASSUME NEW e \in Entry, ~(e.left < 0), NEW x, x = [e EXCEPT !.left = @ - 1]
  PROVE  x \in Entry /\ x # None /\ x.frame = e.frame
  <1>1. e.left \in -1 .. Timeout /\ e.frame \in Frame
    BY DEF Entry
  <1>2. Timeout \in Nat
    BY NumberAssumption
  <1>3. x = [frame |-> e.frame, left |-> e.left - 1]
    BY DEF Entry
  <1>4. e.left - 1 \in -1 .. Timeout
    BY <1>1, <1>2
  <1>5. x \in Entry
    BY <1>1, <1>3, <1>4 DEF Entry
  <1>6. None \notin Entry
    BY NoneAssumption DEF Entry, Frame, Number, PacketNumber
  <1> QED
    BY <1>3, <1>5, <1>6

\* Time passes for the frames stored.
LEMMA TickKeeps ==
  ASSUME RxInv, Tick PROVE StreamKept
  <1>1. Sound(reo) /\ reo \in Session(reo.buf_size) /\ Plain(reo)
    <2>1. Sound(reo)
      BY DEF RxInv, TypeOK, Sound
    <2>2. PICK l \in Int : Kept(key, reo, base, l)
      BY DEF RxInv, Sits
    <2> QED
      BY <2>1, <2>2 DEF Kept, Spans, Solid, Sound
  <1>2. PICK z : z = [i \in DOMAIN reo.buf |->
               IF reo.buf[i] = None \/ reo.buf[i].left < 0 THEN reo.buf[i]
               ELSE [reo.buf[i] EXCEPT !.left = @ - 1]]
    OBVIOUS
  <1>3. reo' = [reo EXCEPT !.buf = z]
    BY <1>2 DEF Tick
  <1>4. DOMAIN reo.buf = 0 .. WinSize(reo.buf_size) - 1 /\ DOMAIN z = DOMAIN reo.buf
    BY <1>1, <1>2 DEF Session
  <1>5. ASSUME NEW i \in DOMAIN reo.buf
        PROVE  /\ z[i] \in {None} \cup Entry /\ (z[i] = None <=> reo.buf[i] = None)
               /\ reo.buf[i] # None => z[i].frame = reo.buf[i].frame
    <2>1. reo.buf[i] \in {None} \cup Entry
      BY <1>1, <1>4 DEF Session
    <2>2. CASE reo.buf[i] = None \/ reo.buf[i].left < 0
      <3>1. z[i] = reo.buf[i]
        BY <1>2, <2>2
      <3> QED
        BY <2>1, <3>1
    <2>3. CASE ~(reo.buf[i] = None \/ reo.buf[i].left < 0)
      <3>1. z[i] = [reo.buf[i] EXCEPT !.left = @ - 1]
        BY <1>2, <2>3
      <3>2. reo.buf[i] \in Entry /\ ~(reo.buf[i].left < 0) /\ reo.buf[i] # None
        BY <2>1, <2>3
      <3> QED
        BY <3>1, <3>2, EntryTicks
    <2> QED
      BY <2>2, <2>3
  <1>6. z \in [0 .. WinSize(reo.buf_size) - 1 -> {None} \cup Entry]
    <2>1. z = [i \in 0 .. WinSize(reo.buf_size) - 1 |-> z[i]]
      BY <1>2, <1>4
    <2> QED
      BY <1>4, <1>5, <2>1
  <1>7. /\ reo' \in Session(reo.buf_size) /\ reo'.buf = z /\ reo'.buf_size = reo.buf_size
        /\ reo'.ssn = reo.ssn /\ reo'.lsn = reo.lsn /\ reo'.in_buffer = reo.in_buffer
        /\ reo'.linked = reo.linked /\ reo'.reset = reo.reset /\ reo'.pn = reo.pn
        /\ reo'.pn_check = reo.pn_check
    BY <1>1, <1>3, <1>6 DEF Session
  <1>8. Sound(reo') /\ Plain(reo')
    BY <1>1, <1>7 DEF Sound, Plain
  <1>9. Stored(reo') = Stored(reo)
    BY <1>4, <1>5, <1>7 DEF Stored
  <1>10. \A i \in Stored(reo) : reo'.buf[i].frame = reo.buf[i].frame
    BY <1>5, <1>7 DEF Stored
  <1>11. UNCHANGED <<base, stream, key>> /\ reos' = reos /\ oops' = oops /\ aged' = FALSE
         /\ rx' = rx /\ ctl' = ctl /\ stop' = stop
    BY DEF Tick, threads
  <1>12. ThreadsTyped' /\ reos' \in BOOLEAN
    BY <1>11 DEF RxInv, TypeOK, ThreadsTyped
  <1>13. reo'.reset => stop' = "marked" \/ ~HasBuffer(reo)
    BY <1>7, <1>11 DEF RxInv
  <1> QED
    BY <1>7, <1>8, <1>9, <1>10, <1>11, <1>12, <1>13, RxTouches

\* The session is detached or marked for a reset.
LEMMA MarkKeeps ==
  ASSUME RxInv, Detach \/ ResetMark PROVE StreamKept
  <1>1. Sound(reo) /\ reo \in Session(reo.buf_size) /\ Plain(reo)
    <2>1. Sound(reo)
      BY DEF RxInv, TypeOK, Sound
    <2>2. PICK l \in Int : Kept(key, reo, base, l)
      BY DEF RxInv, Sits
    <2> QED
      BY <2>1, <2>2 DEF Kept, Spans, Solid, Sound
  <1>2. UNCHANGED <<base, stream, key>> /\ oops' = oops /\ aged' = aged /\ rx' = rx
    BY DEF Detach, ResetMark, threads
  <1>3. ThreadsTyped' /\ reos' \in BOOLEAN
    BY <1>2 DEF RxInv, TypeOK, ThreadsTyped, Detach, ResetMark, threads
  <1>4. CASE Detach
    <2>1. reo' = [reo EXCEPT !.linked = FALSE] /\ reos' = FALSE /\ stop' = stop
      BY <1>4 DEF Detach
    <2>2. /\ Sound(reo') /\ reo'.buf = reo.buf /\ reo'.buf_size = reo.buf_size
          /\ reo'.ssn = reo.ssn /\ reo'.lsn = reo.lsn /\ reo'.in_buffer = reo.in_buffer
          /\ reo'.linked = FALSE /\ reo'.reset = reo.reset /\ reo'.pn = reo.pn
          /\ reo'.pn_check = reo.pn_check
      BY <1>1, <2>1 DEF Sound, Session
    <2>3. Plain(reo') /\ Stored(reo') = Stored(reo)
      BY <1>1, <2>2 DEF Plain, Stored
    <2>4. reo'.reset => stop' = "marked" \/ ~HasBuffer(reo)
      BY <2>1, <2>2 DEF RxInv
    <2> QED
      BY <1>2, <1>3, <2>1, <2>2, <2>3, <2>4, RxTouches
  <1>5. CASE ResetMark
    <2>1. reos' = reos
      BY <1>5 DEF ResetMark
    <2>2. CASE reos
      <3>1. reo' = [reo EXCEPT !.reset = TRUE] /\ stop' = "marked"
        BY <1>5, <2>2 DEF ResetMark
      <3>2. /\ Sound(reo') /\ reo'.buf = reo.buf /\ reo'.buf_size = reo.buf_size
            /\ reo'.ssn = reo.ssn /\ reo'.lsn = reo.lsn /\ reo'.in_buffer = reo.in_buffer
            /\ reo'.linked = reo.linked /\ reo'.pn = reo.pn /\ reo'.pn_check = reo.pn_check
        BY <1>1, <3>1 DEF Sound, Session
      <3>3. Plain(reo') /\ Stored(reo') = Stored(reo)
        BY <1>1, <3>2 DEF Plain, Stored
      <3> QED
        BY <1>2, <1>3, <2>1, <3>1, <3>2, <3>3, RxTouches
    <2>3. CASE ~reos
      <3>1. reo' = reo /\ stop' = "stopped" /\ stop = "stopping" /\ rx # "got" /\ ctl' = ctl
        BY <1>5, <2>3 DEF ResetMark
      <3>2. /\ aged' \in BOOLEAN /\ rx' \in {"idle", "got", "aging"}
            /\ ctl' \in {"idle", "detached", "flushed"}
            /\ stop' \in {"run", "stopping", "marked", "stopped"} /\ oops' \in {oops, "aging", "freed"}
            /\ rx' = "got" => stop' \in {"run", "stopping"}
            /\ stop = "marked" => stop' = "marked"
        BY <1>2, <3>1 DEF RxInv, TypeOK
      <3> QED
        BY <1>2, <2>1, <3>1, <3>2, RxRest DEF StreamKept
    <2> QED
      BY <2>2, <2>3
  <1> QED
    BY <1>4, <1>5

\* A new key: the check starts anew, and the frames stored stay.
LEMMA AddKeyKeeps ==
  ASSUME RxInv, NEW k \in Rekeys, AddKey(k) PROVE StreamKept
  <1>1. Sound(reo) /\ reo \in Session(reo.buf_size) /\ Plain(reo)
    <2>1. Sound(reo)
      BY DEF RxInv, TypeOK, Sound
    <2>2. PICK l \in Int : Kept(key, reo, base, l)
      BY DEF RxInv, Sits
    <2> QED
      BY <2>1, <2>2 DEF Kept, Spans, Solid, Sound
  <1>2. UNCHANGED <<base, stream>> /\ oops' = oops /\ aged' = aged /\ rx' = rx /\ ctl' = ctl
        /\ stop' = stop /\ reos' = reos /\ key' = k /\ Protected
    BY DEF AddKey, threads
  <1>3. PICK v : v = reo'
    OBVIOUS
  <1>4. /\ Sound(v) /\ v.buf = reo.buf /\ v.buf_size = reo.buf_size /\ v.ssn = reo.ssn
        /\ v.lsn = reo.lsn /\ v.in_buffer = reo.in_buffer /\ v.linked = reo.linked
        /\ v.reset = reo.reset /\ Plain(v)
    <2>1. CASE reos
      <3>1. v = [reo EXCEPT !.pn = 0, !.pn_check = TRUE]
        BY <1>3, <2>1 DEF AddKey
      <3>2. 0 \in PacketNumber
        BY DEF PacketNumber
      <3> QED
        BY <1>1, <1>2, <3>1, <3>2 DEF Sound, Session, Plain
    <2>2. CASE ~reos
      BY <1>1, <1>3, <2>2 DEF AddKey
    <2> QED
      BY <2>1, <2>2
  <1>5. MayMix \/ Stored(reo) = {}
    BY DEF AddKey
  <1>6. PICK b \in Int, d \in Int : b = base /\ d = last
    BY DEF RxInv, TypeOK
  <1>7. Sits(key, reo, b, Owes, d) /\ Owes' = Owes
    BY <1>2, <1>6 DEF RxInv, Owes, stream
  <1>8. Sits(k, v, b, Owes, d)
    BY <1>4, <1>5, <1>7, SitsKeyed
  <1>9. Sits(key', reo', base', Owes', last')
    BY <1>2, <1>3, <1>6, <1>7, <1>8 DEF stream
  <1>10. TypeOK'
    BY <1>2, <1>3, <1>4 DEF RxInv, TypeOK, Sound, stream
  <1>11. (reos => OnList(reo))' /\ (reo'.reset => stop' = "marked" \/ ~HasBuffer(reo'))
    BY <1>2, <1>3, <1>4 DEF RxInv, OnList, HasBuffer
  <1>12. RxInv'
    BY <1>2, <1>9, <1>10, <1>11 DEF RxInv, ResetMeetsEmpty
  <1> QED
    BY <1>2, <1>12 DEF StreamKept

\* Every step keeps the invariant and moves the stream as InOrderStream allows.
LEMMA RxNext ==
  ASSUME RxInv, [Next]_vars PROVE StreamKept
  <1>1. CASE RxLookup \/ AgingTake \/ ReleaseFree \/ StopBegin \/ Restart
    BY <1>1, RxLookupKeeps
  <1>2. CASE AgingRun
    BY <1>2, AgingRunKeeps
  <1>3. CASE Tick
    BY <1>3, TickKeeps
  <1>4. ASSUME NEW f \in Frame, RxFrame(f) PROVE StreamKept
    BY <1>4, RxFrameKeeps
  <1>5. ASSUME NEW b \in Number, RxBar(b) PROVE StreamKept
    <2>1. /\ InReach(b) /\ Repositions(ForwardTo(reo, Sn(b)), b)
          /\ UNCHANGED <<reos, aged, ctl, stop, oops, key>> /\ rx' = "idle"
      BY <1>5 DEF RxBar
    <2> QED
      BY <2>1, RxRepositions
  <1>6. ASSUME NEW b \in Number, ReAddBa(b) PROVE StreamKept
    <2>1. /\ InReach(b) /\ Repositions(ForwardTo(reo, Sn(b)), b)
          /\ UNCHANGED <<reos, aged, ctl, stop, oops, key>> /\ rx' = rx
      BY <1>6 DEF ReAddBa, threads
    <2> QED
      BY <2>1, RxRepositions
  <1>7. ASSUME NEW b \in Number, NEW sz \in BufSize, AddBa(sz, b) PROVE StreamKept
    BY <1>7, AddBaKeeps
  <1>8. CASE Detach \/ ResetMark
    BY <1>8, MarkKeeps
  <1>11. ASSUME NEW k \in Rekeys, AddKey(k) PROVE StreamKept
    BY <1>11, AddKeyKeeps
  <1>9. CASE ReleaseFlush \/ ResetFlush
    BY <1>9, FlushKeeps
  <1>10. CASE UNCHANGED vars
    BY <1>10, RxRest DEF vars, threads, RxInv, TypeOK, StreamKept
  <1> QED
    BY <1>1, <1>2, <1>3, <1>4, <1>5, <1>6, <1>7, <1>8, <1>9, <1>10, <1>11
    DEF Next

-----------------------------------------------------------------------------
(* The theorems.                                                            *)

\* The inductive invariant holds: the window starts at the number base, is a hole there
\* and stores what is held back; what has been given out lies in front of it.
THEOREM Invariance == Spec => []RxInv
  <1>1. RxInv /\ [Next]_vars => RxInv'
    BY RxNext DEF StreamKept
  <1> QED
    BY RxInit, <1>1, PTL DEF Spec

\* The session's variables have their types, whatever the sizes of window and circle.
THEOREM TypeCorrect == Spec => []TypeOK
  <1>1. RxInv => TypeOK
    BY DEF RxInv
  <1> QED
    BY Invariance, <1>1, PTL

\* The BUG_ON at aml_reorder.c:245 is never hit.
THEOREM ResetCorrect == Spec => []ResetMeetsEmpty
  <1>1. RxInv => ResetMeetsEmpty
    BY DEF RxInv
  <1> QED
    BY Invariance, <1>1, PTL

\* The distance of a stored number from the window start.
LEMMA OffsetIs ==
  ASSUME NEW r, NEW b \in Int, NEW l \in Int, Spans(key, r, b, l), NEW i \in Stored(r)
  PROVE  (Sn(r.buf[i].frame.n) - r.ssn) % SnModulo = Num(r, i) - b
  <1>1. PICK n \in Int : n = Num(r, i) /\ b + 1 <= n /\ n <= l
    BY SpansNumbers
  <1>2. 0 <= n - b /\ n - b < SnModulo
    BY <1>1, SpansNumbers
  <1>3. (Sn(n) - Sn(b)) % SnModulo = n - b
    BY <1>2, Forward
  <1> QED
    BY <1>1, <1>3 DEF Spans, Num

\* Window, buffer, counter and aging list agree.
THEOREM BufferCorrect == Spec => []BufferAgrees
  <1>1. ASSUME RxInv PROVE BufferAgrees
    <2>1. SUFFICES ASSUME reos
                   PROVE  /\ \A i \in Stored(reo) : Index(reo, Sn(reo.buf[i].frame.n)) = i
                          /\ Offsets \subseteq 1 .. reo.buf_size - 1
                          /\ (reo.lsn - reo.ssn) % SnModulo = Max(Offsets \cup {0})
                          /\ reo.in_buffer = Cardinality(Stored(reo))
                          /\ reo.linked <=> HasBuffer(reo)
      BY DEF BufferAgrees
    <2>2. PICK b \in Int, l \in Int : Kept(key, reo, b, l)
      BY <1>1 DEF RxInv, Sits
    <2>3. PICK z \in Nat : z = reo.buf_size
      BY <2>2, SpansNumbers DEF Kept
    <2>4. /\ Spans(key, reo, b, l) /\ reo.ssn = Sn(b) /\ reo.lsn = Sn(l) /\ b <= l /\ l < b + z
          /\ z < SnModulo /\ SnModulo \in Nat /\ reo.buf_size \in BufSize
          /\ \A i \in Stored(reo) : /\ Num(reo, i) \in b + 1 .. l
                                    /\ i = Slot(reo.buf_size, Num(reo, i))
      BY <2>2, <2>3, SpansNumbers DEF Kept, Spans
    <2>5. ASSUME NEW i \in Stored(reo) PROVE Index(reo, Sn(reo.buf[i].frame.n)) = i
      <3>1. PICK n \in Int : n = Num(reo, i) /\ i = Slot(reo.buf_size, n)
        BY <2>4
      <3> QED
        BY <2>4, <3>1, IndexAt DEF Num
    <2>6. Offsets = {Num(reo, i) - b : i \in Stored(reo)}
      BY <2>4, OffsetIs DEF Offsets
    <2>7. ASSUME NEW d \in Offsets PROVE d \in 1 .. l - b /\ d \in 1 .. z - 1
      <3>1. PICK i \in Stored(reo) : d = Num(reo, i) - b
        BY <2>6
      <3>2. PICK n \in Int : n = Num(reo, i) /\ b + 1 <= n /\ n <= l
        BY <2>4
      <3> QED
        BY <2>4, <3>1, <3>2
    <2>8. (reo.lsn - reo.ssn) % SnModulo = l - b
      <3>1. 0 <= l - b /\ l - b < SnModulo
        BY <2>4
      <3> QED
        BY <2>4, <3>1, Forward
    <2>9. Max(Offsets \cup {0}) = l - b
      <3>1. PICK k \in Nat : k = l - b
        BY <2>4
      <3>2. PICK S : S = Offsets \cup {0}
        OBVIOUS
      <3>3. S \in SUBSET (0 .. k) /\ S # {}
        BY <2>7, <3>1, <3>2
      <3>4. Max(S) \in S /\ \A y \in S : y <= Max(S)
        BY <3>3, MaxNumber
      <3>5. k \in S
        <4>1. CASE l = b
          BY <3>1, <3>2, <4>1
        <4>2. CASE l > b
          <5>1. PICK i \in Stored(reo) : Num(reo, i) = l
            BY <2>4, <4>2 DEF Spans
          <5>2. l - b \in Offsets
            BY <2>6, <5>1
          <5> QED
            BY <3>1, <3>2, <5>2
        <4> QED
          BY <2>4, <4>1, <4>2
      <3>6. PICK x \in S : x = Max(S) /\ \A y \in S : y <= x
        BY <3>4
      <3>7. x = k
        BY <3>3, <3>5, <3>6
      <3> QED
        BY <3>1, <3>2, <3>6, <3>7
    <2>10. reo.in_buffer = Cardinality(Stored(reo))
      BY <2>4 DEF Spans, Solid, Counted
    <2>11. reo.linked <=> HasBuffer(reo)
      <3>1. HasBuffer(reo) <=> l > b
        BY <2>4, SpansBuffer
      <3>2. HasBuffer(reo) => reo.linked
        BY <1>1, <2>1 DEF RxInv, OnList
      <3> QED
        BY <2>2, <3>1, <3>2 DEF Kept
    <2> QED
      BY <2>3, <2>5, <2>7, <2>8, <2>9, <2>10, <2>11
  <1>2. RxInv => BufferAgrees
    BY <1>1
  <1> QED
    BY Invariance, <1>2, PTL

\* After a pass of the ageing no expired frame is stored.
THEOREM AgingCorrect == Spec => AgingExpels
  <1>1. ASSUME RxInv, [Next]_vars
        PROVE  [rx = "aging" /\ rx' = "idle" /\ ~aged
                => \A i \in Stored(reo') : reo'.buf[i].left >= 0]_vars
    <2>1. SUFFICES ASSUME rx = "aging", rx' = "idle", ~aged
                   PROVE  \A i \in Stored(reo') : reo'.buf[i].left >= 0
      OBVIOUS
    <2>2. AgingRun /\ HasBuffer(reo)
      BY <1>1, <2>1 DEF Next, vars, threads, RxLookup, AgingTake, AgingRun, Tick, RxFrame, RxBar,
                        ReAddBa, AddBa, Detach, ReleaseFlush, ReleaseFree, AddKey, StopBegin,
                        ResetMark, ResetFlush, Restart
    <2>3. PICK s : s = Aging(reo)
      OBVIOUS
    <2>4. reo' = s.reo
      BY <2>2, <2>3 DEF AgingRun, Gives
    <2>5. PICK b \in Int, l \in Int : Kept(key, reo, b, l) /\ Keeps(key, Owes, reo)
      BY <1>1 DEF RxInv, Sits
    <2>6. Owes \in SUBSET Int /\ key \in Int
      BY <1>1, NumberAssumption, HalfType DEF RxInv, TypeOK, Owes
    <2> QED
      BY <2>1, <2>3, <2>4, <2>5, <2>6, AgingGives
  <1>2. RxInv /\ [Next]_vars
        => [rx = "aging" /\ rx' = "idle" /\ ~aged
            => \A i \in Stored(reo') : reo'.buf[i].left >= 0]_vars
    BY <1>1
  <1> QED
    BY Invariance, <1>2, PTL DEF Spec, AgingExpels

\* The session implements InOrderStream: frames come out in order, each once.
THEOREM StreamCorrect ==
  ASSUME ~MayMix PROVE Spec => InStream
  <1>1. ASSUME Init PROVE Stream!Init
    <2>1. TypeOK
      BY <1>1, RxInit, Zenon DEF RxInv
    <2>2. last \in Int /\ turn \in BOOLEAN
      BY <2>1, Zenon DEF TypeOK
    <2>3. held = {}
      BY <1>1, Zenon DEF Init
    <2> QED
      BY <2>2, <2>3, Zenon DEF Stream!Init
  <1>2. Init => Stream!Init
    BY <1>1
  <1>3. ASSUME RxInv, [Next]_vars PROVE [Stream!Next]_(Stream!vars)
    <2>1. StreamStep \/ UNCHANGED stream
      BY <1>3, RxNext DEF StreamKept
    <2>2. CASE UNCHANGED stream
      BY <2>2 DEF stream, Stream!vars
    <2>3. CASE StreamStep
      BY <2>3 DEF StreamStep, Advances, Stream!Next, Stream!Advance, Stream!Move
    <2> QED
      BY <2>1, <2>2, <2>3
  <1>4. RxInv /\ [Next]_vars => [Stream!Next]_(Stream!vars)
    BY <1>3
  <1> QED
    BY Invariance, <1>2, <1>4, PTL DEF Spec, InStream, Stream!Spec
=============================================================================
