---------------------------- MODULE RxReorderProps ----------------------------
(* Properties of the block-ack reorder session.                            *)
EXTENDS RxReorder

\* Window, buffer, counter and aging list agree: what is stored lies behind ssn
\* and inside the window, at the index of its number; lsn is the last of it;
\* in_buffer counts it; and the session is on the aging list exactly while it
\* stores something, or its frames would never expire.  The window start is a
\* hole: a frame that could be passed on is.
Offsets == {(Sn(reo.buf[i].frame.n) - reo.ssn) % SnModulo : i \in Stored(reo)}

BufferAgrees ==
  Defined /\ reos =>
    /\ \A i \in Stored(reo) : Index(reo, Sn(reo.buf[i].frame.n)) = i
    /\ Offsets \subseteq 1 .. reo.buf_size - 1
    /\ (reo.lsn - reo.ssn) % SnModulo = Max(Offsets \cup {0})
    /\ reo.in_buffer = Cardinality(Stored(reo))
    /\ reo.linked <=> HasBuffer(reo)

\* BUG_ON(aml_reo_has_buffer(reo)) at aml_reorder.c:245, "must be empty": the
\* first frame after a suspend or a recovery finds an empty session.
ResetMeetsEmpty == oops # "reset"

\* One frame after another leaves the session in the order of its number, none
\* twice and none that was taken in left behind, unless the window is moved on
\* purpose (InOrderStream).
Stream == INSTANCE InOrderStream WITH held <- held, last <- last, turn <- turn
InStream == Stream!Spec

\* After a pass of aml_reo_aging over a session no expired frame is stored,
\* wherever it lies in the buffer.
AgingExpels ==
  [][rx = "aging" /\ rx' = "idle" /\ ~aged
     => \A i \in Stored(reo') : reo'.buf[i].left >= 0]_vars

\* A frame whose time is over leaves the session, whatever is missing in front
\* of it, if the device keeps waking the RX task.
Overdue == reos /\ \E i \in Stored(reo) : reo.buf[i].left < 0
Expelled == []Defined => (Overdue ~> ~Overdue)

-----------------------------------------------------------------------------
(* Claims of the source that the code does not keep.                       *)

\* BUG_ON(!aml_reo_has_buffer(reo)) at aml_reorder.c:213: a session that is
\* taken from the aging list stores something.
AgingMeetsBuffer == oops # "aging"

=============================================================================
