---------------------------- MODULE SharedMemProps ----------------------------
(* What the two sides of the shared memory may rely on (SharedMem). *)
EXTENDS SharedMem

\* Every page of the layout in force is free, in a batch, in the device or lost
\* to a failed allocation: a layout is applied (tx_page_free_num := tx_page)
\* only when no page is out, or pages confirmed later would be counted twice.
PagesAgree == free + batch + sent + leaked = tot

\* From the notification of the firmware to its order to start again the host
\* has no frame in the device and sends none, whichever cause stopped TX and
\* though both share one flag and one wake-up.
DeviceQuiet == (switch = "drain" \/ mac = "quiet") => batch = 0 /\ sent = 0

\* When the firmware has ended a switch, both sides have the same border.
LayoutsAgree == switch = "run" => layout = fw_tx /\ fw_tx = fw_rx

\* The layout changes only when every frame the device had received is read
\* ("RX buffer is drained", aml_sdio_usb_rx.c:1136).
Drained == [][irq = "confirm" /\ layout' # layout => unread = 0]_vars

\* A switch the firmware begins ends, unless an allocation failed: the pages
\* then lost keep tx_page_free_num below tx_page_tot_num for good.
SwitchEnds == switch # "run" ~> (switch = "run" \/ leaked > 0)

\* A frame in the queue is not forgotten: the wake-ups that are left out when
\* few pages are free (txcfm_trigger_tx_thr) or TX is stopped come later.  The one
\* exception is a token the TX task spends while the bus is in error or suspended,
\* or fw_rst_stop_tx set (aml_utils.c:1226-1237): that frame waits for the next
\* push, the next confirmation or the next order of the firmware.
TxMoves == queued > 0 ~> (batch > 0 \/ queued = 0 \/ leaked > 0 \/ missed)

\* A message that came during a MAC reset is handled after it.
MsgHandled == msg ~> (~msg \/ leaked > 0)

-----------------------------------------------------------------------------
(* The invariant of the proofs.  TX is held from the notification on: the flag *)
(* of its cause is set, no page is out, and the order to start is not under    *)
(* way.  A layout is applied only in the drain: what the IRQ task has read of   *)
(* the layout bits is out of date only when it will not look at it.            *)

Quiet == batch = 0 /\ sent = 0 /\ leaked = 0 /\ tx \notin {"take", "send"}

HeldDyn == (switch = "drain" \/ (switch = "stop" /\ "dyn" \in notified)) =>
             dynabuf_stop_tx /\ Quiet
HeldMac == (mac = "quiet" \/ (mac = "stop" /\ "mac" \in notified)) =>
             mac_rst_stop_tx /\ Quiet
Notifying == tx \in {"dyn", "mac"} => Quiet
Ordered == /\ ext = "dyn_start" => switch \in {"start", "run"}
           /\ ext = "mac_start" => mac = "run"

\* The IRQ task will still act on rx->fw.state.
Reading == irq \in {"rx", "confirm"} \/ (irq = "ipc" /\ "rx" \in status)

SeenThere == irq \in {"ipc", "rx"} => seen <= unread
BitsOfDrain == fw_state # "none" => switch = "drain" /\ fw_state = goal
StateOfDrain == Reading /\ state # "none" => switch = "drain" /\ state = goal
NoneLeft == switch = "drain" /\ Reading /\ state # "none" => "rx" \notin pending
ReadIsLast == switch = "drain" /\ ReadFinish(goal) \in confirmed =>
                ~Reading /\ "rx" \notin pending
NotBefore == switch = "stop" => ReadFinish(goal) \notin confirmed
FlagsKept == flags \in {"none", "read_narrow", "read_expand"}

SharedInv == /\ PagesAgree /\ HeldDyn /\ HeldMac /\ Notifying /\ Ordered
             /\ BitsOfDrain /\ StateOfDrain /\ NoneLeft /\ ReadIsLast /\ NotBefore /\ FlagsKept

\* While the device crashes between switches only, the host's flags follow the
\* switch, and so does the layout.
Followed ==
  /\ switch # "drain" => fw_tx = fw_rx
  /\ switch \in {"drain", "start"} => fw_tx = goal
  /\ switch # "drain" => layout = fw_tx
  /\ switch \in {"run", "stop"} => flags = "none"
  /\ switch = "drain" => \/ flags = "none" /\ ReadFinish(goal) \notin confirmed
                         \/ flags = ReadFinish(goal) /\ flags \in confirmed /\ layout = goal
  /\ switch = "start" => flags \in {"none", ReadFinish(goal)}
  /\ switch = "start" /\ SwitchFinish(goal) \in confirmed => flags = "none"
  /\ switch \in {"stop", "drain"} => SwitchFinish(goal) \notin confirmed
  /\ flags = "none" => last \notin {"read_narrow", "read_expand"}

FollowedInv == MayCrash # "any" => Followed

\* RX is stopped in the drain: the frames left are those the IRQ task has seen, and
\* unless the host starves it has read them all when it confirms.
AllSeen == Reading /\ state # "none" => unread = seen
AllRead == irq = "confirm" => seen = 0

DrainedInv == ~MayStarve => AllSeen /\ AllRead
=============================================================================
