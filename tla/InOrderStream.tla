---------------------------- MODULE InOrderStream ----------------------------
(***************************************************************************)
(* What a block-ack reorder session promises the network stack: the frames  *)
(* of one traffic class come out in the order they were sent, each once,    *)
(* and none that was taken in is left behind.  Only an explicit move of the *)
(* window (a BAR, a new ADDBA, the first frame after a reset) may take the  *)
(* stream to another place, and it leaves no frame held.                    *)
(***************************************************************************)
EXTENDS Integers

VARIABLES
  held,   \* numbers of the frames taken in and not yet given out
  last,   \* number of the last frame given out
  turn    \* changes whenever the window is moved

vars == <<held, last, turn>>

Init == held = {} /\ last \in Int /\ turn \in BOOLEAN

\* At most one frame comes in, and all that is held up to some number goes out:
\* no held frame is overtaken, and none goes out twice.
Advance ==
  /\ last' >= last
  /\ \A n \in held' : n > last'
  /\ \A n \in held \ held' : n <= last'
  /\ \A m, n \in held' \ held : m = n
  /\ UNCHANGED turn

Move == turn' = ~turn /\ held' = {}

Next == Advance \/ Move

Spec == Init /\ [][Next]_vars
=============================================================================
