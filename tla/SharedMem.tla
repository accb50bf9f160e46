------------------------------ MODULE SharedMem ------------------------------
(***************************************************************************)
(* The memory of the Wi-Fi device that TX pages and the RX buffer share     *)
(* (SDIO and USB).  The firmware moves the border between them; while it     *)
(* does, the host stops TX, drains RX and takes over the new layout          *)
(* (aml_sdio_usb_rx.h, lines 14-68).  The firmware also stops TX for a reset *)
(* of its MAC; both causes share send_tx_stop_to_fw and one wake-up.         *)
(*                                                                           *)
(* Host threads: the TX task, the TX confirmation task and the IRQ task.     *)
(* The firmware is not in the repository: its actions do what the comment    *)
(* and the host's handlers expect of it, and it reads each register write    *)
(* before the next one of the same direction.                                *)
(*                                                                           *)
(* Pages and frames are counted, not told apart; aml_tx_sem is kept as "not  *)
(* zero": after a down() it may be zero or not.                              *)
(***************************************************************************)
EXTENDS Integers

CONSTANTS
  SmallPages, LargePages,  \* tx_page of AML_RX_BUF_EXPAND and AML_RX_BUF_NARROW
  PageNum,     \* pages a frame may need
  PageOnce,    \* tx_page_once: pages of one transfer
  Trigger,     \* txcfm_trigger_tx_thr
  MayFail,     \* kzalloc may fail in the TX task
  MayStarve,   \* the host's RX buffer may be full
  MayCrash,    \* when the firmware may crash and be loaded again
  MaxQueue,    \* bound: frames in tx_desc_save
  MaxUnread,   \* bound: frames in the device's RX buffer
  MaxStop      \* bound: switches and MAC resets begun, blocks and recoveries

ASSUME PageAssumption ==
  /\ SmallPages \in Nat \ {0} /\ LargePages \in Nat \ {0}
  /\ PageNum \subseteq Nat \ {0} /\ PageOnce \in Nat /\ Trigger \in Nat
ASSUME FaultAssumption ==
  MayFail \in BOOLEAN /\ MayStarve \in BOOLEAN /\ MayCrash \in {"never", "settled", "any"}
ASSUME BoundAssumption == MaxQueue \in Nat /\ MaxUnread \in Nat /\ MaxStop \in Nat

VARIABLES
  dynabuf_stop_tx, mac_rst_stop_tx, send_tx_stop_to_fw,
  tx_sem,      \* aml_tx_sem is not 0
  blocked,     \* the TX task is turned away: bus_err, fw_rst_stop_tx, the bus suspended
  missed,      \* history: its last token was spent so, with a frame in the queue
  tx,          \* where the TX task is
  queued,      \* frames in tx_desc_save
  free, tot,   \* tx_page_free_num, tx_page_tot_num
  batch,       \* pages of the transfer in preparation: tot_page_num
  sent,        \* pages of frames the device has and has not confirmed
  leaked,      \* pages taken for frames whose buffer could not be allocated
  layout,      \* the layout the host applied: rx->fw.end
  irq,         \* where the IRQ task is
  status,      \* what it read from the interrupt status
  defer,       \* mac_rst_defer_e2a
  state, seen, \* rx->fw.state, and the frames in front of rx->fw.head
  flags, last, \* rx->fw.confirm.flags, and those of rx->fw.confirm.last
  moved,       \* rx->fw.tail is not the one of rx->fw.confirm.last
  pending,     \* interrupts the device raises
  ext,         \* SDIO_USB_EXTEND_E2A_IRQ_STATUS, towards the host
  notified,    \* and towards the device
  fw_state,    \* the layout bits of RG_WIFI_IF_FW2HST_IRQ_CFG
  confirmed,   \* flags the host wrote to CMD_DOWN_FIFO_FDH_ADDR
  switch,      \* the firmware: how far its switch is
  goal,        \* and to which layout
  fw_tx, fw_rx,\* layout of its TX pages and of its RX buffer
  mac,         \* how far its MAC reset is
  unread,      \* frames in the device's RX buffer
  high,        \* its head lies in what AML_RX_BUF_NARROW gives to TX
  msg,         \* a message the host has not taken
  stops        \* bound: what MaxStop counts

flow   == <<dynabuf_stop_tx, mac_rst_stop_tx, send_tx_stop_to_fw>>
pages  == <<free, tot, batch, sent, leaked>>
rxhost == <<layout, state, seen, flags, last, moved>>
irqs   == <<irq, status, defer>>
fw     == <<fw_state, switch, goal, fw_tx, fw_rx, mac, stops>>
rxdev  == <<unread, high>>
mail   == <<pending, ext, notified, confirmed, msg>>
wake   == <<tx_sem, blocked, missed>>
vars   == <<flow, wake, tx, queued, pages, rxhost, irqs, fw, rxdev, mail>>

Layout == {"narrow", "expand"}
TxPages(l) == IF l = "narrow" THEN LargePages ELSE SmallPages

Cause == {"dyn", "mac"}
Flag == {"none", "read_narrow", "read_expand", "finish_narrow", "finish_expand"}
ReadFinish(l)   == IF l = "narrow" THEN "read_narrow" ELSE "read_expand"
SwitchFinish(l) == IF l = "narrow" THEN "finish_narrow" ELSE "finish_expand"

TypeOK ==
  /\ dynabuf_stop_tx \in BOOLEAN /\ mac_rst_stop_tx \in BOOLEAN
  /\ send_tx_stop_to_fw \in BOOLEAN
  /\ tx_sem \in BOOLEAN /\ blocked \in BOOLEAN /\ missed \in BOOLEAN
  /\ tx \in {"idle", "dyn", "mac", "take", "send"}
  /\ queued \in Nat /\ tot \in Nat /\ batch \in Nat /\ sent \in Nat /\ leaked \in Nat
  /\ free \in Nat
  /\ layout \in Layout /\ state \in Layout \cup {"none"} /\ seen \in Nat
  /\ flags \in Flag /\ last \in Flag /\ moved \in BOOLEAN
  /\ irq \in {"idle", "ipc", "rx", "confirm"} /\ status \subseteq {"ext", "msg", "rx"}
  /\ defer \in BOOLEAN /\ pending \subseteq {"ext", "msg", "rx"}
  /\ ext \in {"none", "dyn_stop", "dyn_start", "mac_stop", "mac_start"}
  /\ notified \subseteq Cause /\ confirmed \subseteq Flag
  /\ fw_state \in Layout \cup {"none"} /\ goal \in Layout
  /\ switch \in {"run", "stop", "drain", "start"}
  /\ fw_tx \in Layout /\ fw_rx \in Layout /\ mac \in {"run", "stop", "quiet"}
  /\ unread \in Nat /\ high \in BOOLEAN /\ msg \in BOOLEAN /\ stops \in Nat

Init ==
  /\ dynabuf_stop_tx = FALSE /\ mac_rst_stop_tx = FALSE /\ send_tx_stop_to_fw = FALSE
  /\ tx_sem = FALSE /\ blocked = FALSE /\ missed = FALSE /\ tx = "idle" /\ queued = 0
  /\ free = SmallPages /\ tot = SmallPages /\ batch = 0 /\ sent = 0 /\ leaked = 0
  /\ layout = "expand" /\ state = "none" /\ seen = 0
  /\ flags = "none" /\ last = "none" /\ moved = FALSE
  /\ irq = "idle" /\ status = {} /\ defer = FALSE
  /\ pending = {} /\ ext = "none" /\ notified = {} /\ confirmed = {}
  /\ fw_state = "none" /\ switch = "run" /\ goal = "expand"
  /\ fw_tx = "expand" /\ fw_rx = "expand" /\ mac = "run"
  /\ unread = 0 /\ high = FALSE /\ msg = FALSE /\ stops = 0

-----------------------------------------------------------------------------
(* The TX task, and the queue and confirmations that feed it. *)

Stopped == dynabuf_stop_tx \/ mac_rst_stop_tx

TxPush ==                       \* aml_sdio_ipc_txdesc_push
  /\ queued < MaxQueue
  /\ queued' = queued + 1 /\ tx_sem' = TRUE /\ missed' = FALSE
  /\ UNCHANGED <<flow, blocked, tx, pages, rxhost, irqs, fw, rxdev, mail>>

AllBack_Trigger == free >= Trigger
AllBack == free = tot

\* Its three looks before the loop.  A token spent while the task is turned away
\* is gone: nothing gives it back when the obstacle goes.
TxWake ==
  /\ tx = "idle" /\ tx_sem /\ tx_sem' \in BOOLEAN
  /\ send_tx_stop_to_fw' = (send_tx_stop_to_fw /\ ~(Stopped /\ AllBack))
  /\ tx' = IF Stopped
             THEN IF send_tx_stop_to_fw /\ AllBack THEN "dyn" ELSE "idle"
             ELSE IF queued > 0 /\ ~blocked THEN "take" ELSE "idle"
  /\ missed' = (~Stopped /\ queued > 0 /\ blocked /\ ~tx_sem')
  /\ UNCHANGED <<dynabuf_stop_tx, mac_rst_stop_tx, blocked, queued, pages, rxhost, irqs, fw, rxdev, mail>>

\* A crash is reported (DBG_REPORT_IRQ), a transfer fails or the bus is suspended.
\* Only the TX task looks at it: what else goes on is more than the code may do.
Block ==
  /\ ~blocked /\ stops < MaxStop
  /\ blocked' = TRUE /\ stops' = stops + 1
  /\ UNCHANGED <<flow, tx_sem, missed, tx, queued, pages, rxhost, irqs, fw_state, switch, goal,
                 fw_tx, fw_rx, mac, rxdev, mail>>

\* The bus resumes, or the recovery comes to its end.
Unblock ==
  /\ blocked /\ blocked' = FALSE
  /\ UNCHANGED <<flow, tx_sem, missed, tx, queued, pages, rxhost, irqs, fw, rxdev, mail>>

TxNotifyDyn ==                  \* aml_host_send_stop_tx_to_fw
  /\ tx = "dyn" /\ tx' = "mac"
  /\ notified' = IF dynabuf_stop_tx THEN notified \cup {"dyn"} ELSE notified
  /\ UNCHANGED <<flow, wake, queued, pages, rxhost, irqs, fw, rxdev, pending, ext, confirmed, msg>>

TxNotifyMac ==
  /\ tx = "mac" /\ tx' = "idle"
  /\ notified' = IF mac_rst_stop_tx THEN notified \cup {"mac"} ELSE notified
  /\ UNCHANGED <<flow, wake, queued, pages, rxhost, irqs, fw, rxdev, pending, ext, confirmed, msg>>

Fits_Once(p) == batch + p <= PageOnce \/ batch = 0
Fits(p) == p + 1 <= free /\ (batch + p <= PageOnce \/ batch = 0)

TxTake(p) ==
  /\ tx = "take" /\ queued > 0 /\ Fits(p)
  /\ queued' = queued - 1 /\ free' = free - p /\ batch' = batch + p
  /\ UNCHANGED <<flow, wake, tx, tot, sent, leaked, rxhost, irqs, fw, rxdev, mail>>

\* No buffer: the loop ends with the pages taken and the frame still queued.
TxFail(p) ==
  /\ MayFail /\ tx = "take" /\ queued > 0 /\ Fits(p)
  /\ free' = free - p /\ leaked' = leaked + p /\ tx' = "send"
  /\ UNCHANGED <<flow, wake, queued, tot, batch, sent, rxhost, irqs, fw, rxdev, mail>>

TxTakeEnd ==
  /\ tx = "take" /\ (queued = 0 \/ \E p \in PageNum : ~Fits(p))
  /\ tx' = "send"
  /\ UNCHANGED <<flow, wake, queued, pages, rxhost, irqs, fw, rxdev, mail>>

TxSend ==
  /\ tx = "send" /\ tx' = "idle"
  /\ sent' = sent + batch /\ batch' = 0
  /\ UNCHANGED <<flow, wake, queued, free, tot, leaked, rxhost, irqs, fw, rxdev, mail>>

Wakes_Above(f) == f > Trigger
Wakes(f) == f >= Trigger

TxConfirm(p) ==                 \* the firmware, then aml_tx_cfm_task
  /\ p <= sent
  /\ sent' = sent - p /\ free' = free + p
  /\ tx_sem' = (tx_sem \/ Wakes(free + p)) /\ missed' = (missed /\ ~Wakes(free + p))
  /\ UNCHANGED <<flow, blocked, tx, queued, tot, batch, leaked, rxhost, irqs, fw, rxdev, mail>>

-----------------------------------------------------------------------------
(* The IRQ task. *)

\* aml_sdio_ack_irq reads the status and RG_WIFI_IF_FW2HST_IRQ_CFG; a message
\* that arrives during a MAC reset is put off.
IrqAck ==
  /\ irq = "idle" /\ pending # {}
  /\ irq' = "ipc" /\ pending' = {}
  /\ status' = pending \ (IF mac_rst_stop_tx THEN {"msg"} ELSE {})
  /\ defer' = (defer \/ (mac_rst_stop_tx /\ "msg" \in pending))
  /\ state' = fw_state /\ seen' = unread
  /\ UNCHANGED <<flow, wake, tx, queued, pages, layout, flags, last, moved,
                 fw, rxdev, ext, notified, confirmed, msg>>

\* ipc_host_irq; its last case is aml_sdio_usb_extend_irq_handle.
Told == IF "ext" \in status THEN ext ELSE "none"

HandlesMsg_Now == "msg" \in status
HandlesMsg == "msg" \in status \/ (Told = "mac_start" /\ defer)

IrqIpc ==
  /\ irq = "ipc" /\ irq' = IF "rx" \in status THEN "rx" ELSE "idle"
  /\ dynabuf_stop_tx' = (Told = "dyn_stop" \/ (dynabuf_stop_tx /\ Told # "dyn_start"))
  /\ mac_rst_stop_tx' = (Told = "mac_stop" \/ (mac_rst_stop_tx /\ Told # "mac_start"))
  /\ send_tx_stop_to_fw' = (send_tx_stop_to_fw \/ Told \in {"dyn_stop", "mac_stop"})
  /\ tx_sem' = (tx_sem \/ Told # "none") /\ missed' = (missed /\ Told = "none")
  /\ ext' = IF "ext" \in status THEN "none" ELSE ext
  /\ defer' = (defer /\ Told # "mac_start")
  /\ msg' = (msg /\ ~HandlesMsg)
  /\ UNCHANGED <<blocked, tx, queued, pages, rxhost, status, fw, rxdev, pending, notified, confirmed>>

\* aml_sdio_usb_rxdataind reads the frames in front of rx->fw.head, fewer only
\* when the host's own buffer is full, and confirms if it read any; without a
\* frame it confirms for the sake of a change of layout.
Confirms_Data(k) == k > 0
Confirms(k) == k > 0 \/ (seen = 0 /\ (state # "none" \/ flags # "none"))

IrqRead(k) ==
  /\ irq = "rx" /\ k <= seen /\ (k = seen \/ MayStarve)
  /\ irq' = IF Confirms(k) THEN "confirm" ELSE "idle"
  /\ seen' = seen - k /\ unread' = unread - k /\ moved' = (moved \/ k > 0)
  /\ UNCHANGED <<flow, wake, tx, queued, pages, layout, state, flags, last,
                 status, defer, fw, high, mail>>

\* The layout the firmware wants: not what the register says now, but what it
\* said together with the head up to which the host has read.
Wanted_Now == fw_state
Wanted == state

\* The switch of aml_sdio_usb_rx_confirm; an unknown pair keeps the flags.
NextFlags ==
  CASE flags = "none" -> IF Wanted = "none" THEN "none" ELSE ReadFinish(Wanted)
    [] Wanted = "none" /\ flags = "read_narrow" -> "finish_narrow"
    [] Wanted = "none" /\ flags = "read_expand" -> "finish_expand"
    [] OTHER -> flags

Applies_Narrow == flags = "none" /\ Wanted = "narrow"
Applies == flags = "none" /\ Wanted # "none"
Resets  == Applies /\ Wanted = "narrow" /\ high

\* aml_shared_mem_layout_appy
Apply_Total ==
  IF Applies
  THEN layout' = Wanted /\ tot' = TxPages(Wanted) /\ free' = free
  ELSE UNCHANGED <<layout, tot, free>>
Apply ==
  IF Applies
  THEN layout' = Wanted /\ tot' = TxPages(Wanted) /\ free' = TxPages(Wanted)
  ELSE UNCHANGED <<layout, tot, free>>

\* On SDIO the reset of the head also overwrites the layout bits.
IrqConfirm ==
  /\ irq = "confirm" /\ irq' = "idle"
  /\ Apply
  /\ unread' = (IF Resets THEN 0 ELSE unread) /\ high' = (high /\ ~Resets)
  /\ fw_state' \in (IF Resets THEN {"none", fw_state} ELSE {fw_state})
  /\ flags' = IF NextFlags \in {"finish_narrow", "finish_expand"} THEN "none" ELSE NextFlags
  /\ last' = NextFlags /\ moved' = FALSE
  /\ confirmed' = IF (NextFlags # last \/ moved \/ Resets) /\ NextFlags # "none"
                    THEN confirmed \cup {NextFlags} ELSE confirmed
  /\ UNCHANGED <<flow, wake, tx, queued, batch, sent, leaked, state, seen, status, defer,
                 switch, goal, fw_tx, fw_rx, mac, stops, pending, ext, notified, msg>>

-----------------------------------------------------------------------------
(* The firmware, as aml_sdio_usb_rx.h describes it. *)

\* A confirmation from before the switch has no effect on it.
FwStopTx(l) ==
  /\ switch = "run" /\ l # fw_tx /\ ext = "none" /\ notified = {} /\ stops < MaxStop
  /\ switch' = "stop" /\ goal' = l /\ stops' = stops + 1
  /\ ext' = "dyn_stop" /\ pending' = pending \cup {"ext"} /\ confirmed' = {}
  /\ UNCHANGED <<flow, wake, tx, queued, pages, rxhost, irqs, fw_state, fw_tx, fw_rx, mac,
                 rxdev, notified, msg>>

\* A notification it does not wait for has no effect.
FwTxStopped ==
  /\ "dyn" \in notified /\ notified' = notified \ {"dyn"}
  /\ IF switch = "stop"
     THEN /\ switch' = "drain" /\ fw_tx' = goal /\ fw_state' = goal
          /\ pending' = pending \cup {"rx"}
     ELSE UNCHANGED <<switch, fw_tx, fw_state, pending>>
  /\ UNCHANGED <<flow, wake, tx, queued, pages, rxhost, irqs, goal, fw_rx, mac, stops,
                 rxdev, ext, confirmed, msg>>

FwRxDrained ==
  /\ switch = "drain" /\ ReadFinish(goal) \in confirmed /\ ext = "none"
  /\ confirmed' = confirmed \ {ReadFinish(goal)}
  /\ switch' = "start" /\ fw_rx' = goal /\ fw_state' = "none"
  /\ ext' = "dyn_start" /\ pending' = pending \cup {"ext", "rx"}
  /\ UNCHANGED <<flow, wake, tx, queued, pages, rxhost, irqs, goal, fw_tx, mac, stops,
                 rxdev, notified, msg>>

FwSwitched ==
  /\ switch = "start" /\ SwitchFinish(goal) \in confirmed
  /\ confirmed' = confirmed \ {SwitchFinish(goal)} /\ switch' = "run"
  /\ UNCHANGED <<flow, wake, tx, queued, pages, rxhost, irqs, fw_state, goal, fw_tx, fw_rx,
                 mac, stops, rxdev, pending, ext, notified, msg>>

FwMacStop ==
  /\ mac = "run" /\ ext = "none" /\ notified = {} /\ stops < MaxStop
  /\ mac' = "stop" /\ stops' = stops + 1
  /\ ext' = "mac_stop" /\ pending' = pending \cup {"ext"}
  /\ UNCHANGED <<flow, wake, tx, queued, pages, rxhost, irqs, fw_state, switch, goal,
                 fw_tx, fw_rx, rxdev, notified, confirmed, msg>>

FwMacQuiet ==
  /\ "mac" \in notified /\ notified' = notified \ {"mac"}
  /\ mac' = IF mac = "stop" THEN "quiet" ELSE mac
  /\ UNCHANGED <<flow, wake, tx, queued, pages, rxhost, irqs, fw_state, switch, goal,
                 fw_tx, fw_rx, stops, rxdev, pending, ext, confirmed, msg>>

FwMacStart ==
  /\ mac = "quiet" /\ ext = "none"
  /\ mac' = "run" /\ ext' = "mac_start" /\ pending' = pending \cup {"ext"}
  /\ UNCHANGED <<flow, wake, tx, queued, pages, rxhost, irqs, fw_state, switch, goal,
                 fw_tx, fw_rx, stops, rxdev, notified, confirmed, msg>>

FwMessage ==
  /\ ~msg /\ msg' = TRUE /\ pending' = pending \cup {"msg"}
  /\ UNCHANGED <<flow, wake, tx, queued, pages, rxhost, irqs, fw, rxdev, ext, notified, confirmed>>

FwReceive ==                    \* RX is stopped while the buffer is drained
  /\ switch # "drain" /\ unread < MaxUnread
  /\ unread' = unread + 1 /\ high' \in (IF fw_rx = "expand" THEN BOOLEAN ELSE {FALSE})
  /\ pending' = pending \cup {"rx"}
  /\ UNCHANGED <<flow, wake, tx, queued, pages, rxhost, irqs, fw, ext, notified, confirmed, msg>>

-----------------------------------------------------------------------------
(* aml_recy_doit up to the reload: the device starts again, and the host       *)
(* forgets what it was doing, but for rx->fw.confirm and mac_rst_defer_e2a.    *)
(* The tasks, the semaphore and the queue are made anew; a frame that comes     *)
(* between these two leaves its token behind.  fw_rst_stop_tx, if a report of   *)
(* the crash has set it, stays set until the interfaces are restarted.          *)
Recover ==
  /\ MayCrash = "any" \/ (MayCrash = "settled" /\ flags = "none")
  /\ tx = "idle" /\ irq = "idle" /\ stops < MaxStop
  /\ stops' = stops + 1
  /\ dynabuf_stop_tx' = FALSE /\ mac_rst_stop_tx' = FALSE /\ send_tx_stop_to_fw' = FALSE
  /\ tx_sem' \in BOOLEAN /\ blocked' \in BOOLEAN /\ missed' = FALSE
  /\ queued' = 0 /\ batch' = 0 /\ sent' = 0 /\ leaked' = 0
  /\ layout' = "expand" /\ tot' = SmallPages /\ free' = SmallPages
  /\ state' = "none" /\ seen' = 0 /\ moved' \in BOOLEAN
  /\ fw_state' = "none" /\ switch' = "run" /\ goal' = "expand"
  /\ fw_tx' = "expand" /\ fw_rx' = "expand" /\ mac' = "run"
  /\ unread' = 0 /\ high' = FALSE
  /\ pending' = {} /\ ext' = "none" /\ notified' = {} /\ confirmed' = {} /\ msg' = FALSE
  /\ UNCHANGED <<tx, flags, last, irqs>>

TxTask == TxWake \/ TxNotifyDyn \/ TxNotifyMac \/ TxTakeEnd \/ TxSend \/ \E p \in PageNum : TxTake(p)

IrqTask == IrqAck \/ IrqIpc \/ IrqConfirm \/ \E k \in 0 .. MaxUnread : IrqRead(k)

Firmware == FwTxStopped \/ FwRxDrained \/ FwSwitched \/ FwMacQuiet \/ FwMacStart

Next ==
  \/ TxPush \/ TxTask \/ IrqTask \/ Firmware
  \/ \E p \in PageNum : TxFail(p) \/ TxConfirm(p)
  \/ \E l \in Layout : FwStopTx(l)
  \/ FwMacStop \/ FwMessage \/ FwReceive
  \/ Block \/ Unblock \/ Recover

Spec == Init /\ [][Next]_vars

(* Each task runs whenever it can; the firmware goes on with a switch or a    *)
(* reset it has begun, and confirms every frame; a block does not last.       *)
Fairness ==
  /\ WF_vars(TxTask) /\ WF_vars(IrqTask)
  /\ WF_vars(FwTxStopped) /\ WF_vars(FwRxDrained) /\ WF_vars(FwSwitched)
  /\ WF_vars(FwMacQuiet) /\ WF_vars(FwMacStart) /\ WF_vars(Unblock)
  /\ \A p \in PageNum : WF_vars(TxConfirm(p))

FairSpec == Spec /\ Fairness
=============================================================================
