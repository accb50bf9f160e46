--------------------------- MODULE SharedMemProofs ---------------------------
(* Proofs about the shared memory, for any number of pages, any size of frame  *)
(* and batch and any bound, with allocation failures, a host buffer that runs  *)
(* full and crashes of the device.                                             *)
EXTENDS SharedMemProps, TLAPS

\* One step keeps every variable in its type; a page count stays a natural
\* number because a frame is taken only if its pages are free.
LEMMA TypeStep ==
  TypeOK /\ SeenThere /\ [Next]_vars => TypeOK'
<1> SUFFICES ASSUME TypeOK, SeenThere, [Next]_vars
             PROVE  TypeOK'
  OBVIOUS
<1> USE PageAssumption
<1> USE DEF TypeOK, Layout, Cause, Flag, TxPages, ReadFinish, SwitchFinish, flow, wake, pages, rxhost,
           irqs, fw, rxdev, mail
<1>1. CASE TxPush
  <2> USE <1>1 DEF TxPush
  <2>1. (/\ queued \in Nat /\ tot \in Nat /\ batch \in Nat /\ sent \in Nat /\ leaked \in Nat
         /\ free \in Nat /\ seen \in Nat /\ unread \in Nat /\ stops \in Nat)'
    OBVIOUS
  <2>2. (/\ dynabuf_stop_tx \in BOOLEAN /\ mac_rst_stop_tx \in BOOLEAN /\ send_tx_stop_to_fw \in BOOLEAN
         /\ tx_sem \in BOOLEAN /\ blocked \in BOOLEAN /\ missed \in BOOLEAN /\ moved \in BOOLEAN /\ defer \in BOOLEAN
         /\ high \in BOOLEAN /\ msg \in BOOLEAN)'
    OBVIOUS
  <2>3. (/\ tx \in {"idle", "dyn", "mac", "take", "send"} /\ irq \in {"idle", "ipc", "rx", "confirm"}
         /\ layout \in Layout /\ state \in Layout \cup {"none"} /\ flags \in Flag /\ last \in Flag
         /\ status \subseteq {"ext", "msg", "rx"} /\ confirmed \subseteq Flag)'
    OBVIOUS
  <2>4. (/\ pending \subseteq {"ext", "msg", "rx"} /\ notified \subseteq Cause
         /\ ext \in {"none", "dyn_stop", "dyn_start", "mac_stop", "mac_start"}
         /\ fw_state \in Layout \cup {"none"} /\ goal \in Layout /\ fw_tx \in Layout /\ fw_rx \in Layout
         /\ switch \in {"run", "stop", "drain", "start"} /\ mac \in {"run", "stop", "quiet"})'
    BY Zenon
  <2> QED
    BY <2>1, <2>2, <2>3, <2>4
<1>2. CASE TxWake
  BY <1>2 DEF TxWake, Stopped, AllBack
<1>3. CASE TxNotifyDyn
  BY <1>3 DEF TxNotifyDyn
<1>4. CASE TxNotifyMac
  BY <1>4 DEF TxNotifyMac
<1>5. ASSUME NEW p \in PageNum, TxTake(p) PROVE TypeOK'
  BY <1>5 DEF TxTake, Fits
<1>6. ASSUME NEW p \in PageNum, TxFail(p) PROVE TypeOK'
  BY <1>6 DEF TxFail, Fits
<1>7. CASE TxTakeEnd
  BY <1>7 DEF TxTakeEnd
<1>8. CASE TxSend
  BY <1>8 DEF TxSend
<1>9. ASSUME NEW p \in PageNum, TxConfirm(p) PROVE TypeOK'
  BY <1>9 DEF TxConfirm, Wakes
<1>10. CASE IrqAck
  BY <1>10 DEF IrqAck
<1>11. CASE IrqIpc
  BY <1>11 DEF IrqIpc, Told, HandlesMsg
<1>12. ASSUME NEW k \in 0 .. MaxUnread, IrqRead(k) PROVE TypeOK'
  BY <1>12 DEF IrqRead, Confirms, SeenThere
<1>13. CASE IrqConfirm
  <2> USE <1>13 DEF IrqConfirm, Apply, Applies, Resets, NextFlags, Wanted
  <2>1. (/\ queued \in Nat /\ tot \in Nat /\ batch \in Nat /\ sent \in Nat /\ leaked \in Nat
         /\ free \in Nat /\ seen \in Nat /\ unread \in Nat /\ stops \in Nat)'
    OBVIOUS
  <2>2. (/\ dynabuf_stop_tx \in BOOLEAN /\ mac_rst_stop_tx \in BOOLEAN /\ send_tx_stop_to_fw \in BOOLEAN
         /\ tx_sem \in BOOLEAN /\ blocked \in BOOLEAN /\ missed \in BOOLEAN /\ moved \in BOOLEAN /\ defer \in BOOLEAN
         /\ high \in BOOLEAN /\ msg \in BOOLEAN)'
    OBVIOUS
  <2>3. (/\ tx \in {"idle", "dyn", "mac", "take", "send"} /\ irq \in {"idle", "ipc", "rx", "confirm"}
         /\ layout \in Layout /\ state \in Layout \cup {"none"} /\ flags \in Flag /\ last \in Flag
         /\ status \subseteq {"ext", "msg", "rx"} /\ confirmed \subseteq Flag)'
    OBVIOUS
  <2>4. (/\ pending \subseteq {"ext", "msg", "rx"} /\ notified \subseteq Cause
         /\ ext \in {"none", "dyn_stop", "dyn_start", "mac_stop", "mac_start"}
         /\ fw_state \in Layout \cup {"none"} /\ goal \in Layout /\ fw_tx \in Layout /\ fw_rx \in Layout
         /\ switch \in {"run", "stop", "drain", "start"} /\ mac \in {"run", "stop", "quiet"})'
    OBVIOUS
  <2> QED
    BY <2>1, <2>2, <2>3, <2>4
<1>14. ASSUME NEW l \in Layout, FwStopTx(l) PROVE TypeOK'
  BY <1>14 DEF FwStopTx
<1>15. CASE FwTxStopped
  <2> USE <1>15 DEF FwTxStopped
  <2>1. (/\ queued \in Nat /\ tot \in Nat /\ batch \in Nat /\ sent \in Nat /\ leaked \in Nat
         /\ free \in Nat /\ seen \in Nat /\ unread \in Nat /\ stops \in Nat)'
    OBVIOUS
  <2>2. (/\ dynabuf_stop_tx \in BOOLEAN /\ mac_rst_stop_tx \in BOOLEAN /\ send_tx_stop_to_fw \in BOOLEAN
         /\ tx_sem \in BOOLEAN /\ blocked \in BOOLEAN /\ missed \in BOOLEAN /\ moved \in BOOLEAN /\ defer \in BOOLEAN
         /\ high \in BOOLEAN /\ msg \in BOOLEAN)'
    OBVIOUS
  <2>3. (/\ tx \in {"idle", "dyn", "mac", "take", "send"} /\ irq \in {"idle", "ipc", "rx", "confirm"}
         /\ layout \in Layout /\ state \in Layout \cup {"none"} /\ flags \in Flag /\ last \in Flag
         /\ status \subseteq {"ext", "msg", "rx"} /\ confirmed \subseteq Flag)'
    OBVIOUS
  <2>4. (/\ pending \subseteq {"ext", "msg", "rx"} /\ notified \subseteq Cause
         /\ ext \in {"none", "dyn_stop", "dyn_start", "mac_stop", "mac_start"}
         /\ fw_state \in Layout \cup {"none"} /\ goal \in Layout /\ fw_tx \in Layout /\ fw_rx \in Layout
         /\ switch \in {"run", "stop", "drain", "start"} /\ mac \in {"run", "stop", "quiet"})'
    BY Zenon
  <2> QED
    BY <2>1, <2>2, <2>3, <2>4
<1>16. CASE FwRxDrained
  BY <1>16 DEF FwRxDrained
<1>17. CASE FwSwitched
  BY <1>17 DEF FwSwitched
<1>18. CASE FwMacStop
  BY <1>18 DEF FwMacStop
<1>19. CASE FwMacQuiet
  BY <1>19 DEF FwMacQuiet
<1>20. CASE FwMacStart
  BY <1>20 DEF FwMacStart
<1>21. CASE FwMessage
  BY <1>21 DEF FwMessage
<1>22. CASE FwReceive
  <2> USE <1>22 DEF FwReceive
  <2>1. (/\ queued \in Nat /\ tot \in Nat /\ batch \in Nat /\ sent \in Nat /\ leaked \in Nat
         /\ free \in Nat /\ seen \in Nat /\ unread \in Nat /\ stops \in Nat)'
    OBVIOUS
  <2>2. (/\ dynabuf_stop_tx \in BOOLEAN /\ mac_rst_stop_tx \in BOOLEAN /\ send_tx_stop_to_fw \in BOOLEAN
         /\ tx_sem \in BOOLEAN /\ blocked \in BOOLEAN /\ missed \in BOOLEAN /\ moved \in BOOLEAN /\ defer \in BOOLEAN
         /\ high \in BOOLEAN /\ msg \in BOOLEAN)'
    OBVIOUS
  <2>3. (/\ tx \in {"idle", "dyn", "mac", "take", "send"} /\ irq \in {"idle", "ipc", "rx", "confirm"}
         /\ layout \in Layout /\ state \in Layout \cup {"none"} /\ flags \in Flag /\ last \in Flag
         /\ status \subseteq {"ext", "msg", "rx"} /\ confirmed \subseteq Flag)'
    OBVIOUS
  <2>4. (/\ pending \subseteq {"ext", "msg", "rx"} /\ notified \subseteq Cause
         /\ ext \in {"none", "dyn_stop", "dyn_start", "mac_stop", "mac_start"}
         /\ fw_state \in Layout \cup {"none"} /\ goal \in Layout /\ fw_tx \in Layout /\ fw_rx \in Layout
         /\ switch \in {"run", "stop", "drain", "start"} /\ mac \in {"run", "stop", "quiet"})'
    OBVIOUS
  <2> QED
    BY <2>1, <2>2, <2>3, <2>4
<1>23. CASE Recover
  <2> USE <1>23 DEF Recover
  <2>1. (/\ queued \in Nat /\ tot \in Nat /\ batch \in Nat /\ sent \in Nat /\ leaked \in Nat
         /\ free \in Nat /\ seen \in Nat /\ unread \in Nat /\ stops \in Nat)'
    OBVIOUS
  <2>2. (/\ dynabuf_stop_tx \in BOOLEAN /\ mac_rst_stop_tx \in BOOLEAN /\ send_tx_stop_to_fw \in BOOLEAN
         /\ tx_sem \in BOOLEAN /\ blocked \in BOOLEAN /\ missed \in BOOLEAN /\ moved \in BOOLEAN /\ defer \in BOOLEAN
         /\ high \in BOOLEAN /\ msg \in BOOLEAN)'
    OBVIOUS
  <2>3. (/\ tx \in {"idle", "dyn", "mac", "take", "send"} /\ irq \in {"idle", "ipc", "rx", "confirm"}
         /\ layout \in Layout /\ state \in Layout \cup {"none"} /\ flags \in Flag /\ last \in Flag
         /\ status \subseteq {"ext", "msg", "rx"} /\ confirmed \subseteq Flag)'
    OBVIOUS
  <2>4. (/\ pending \subseteq {"ext", "msg", "rx"} /\ notified \subseteq Cause
         /\ ext \in {"none", "dyn_stop", "dyn_start", "mac_stop", "mac_start"}
         /\ fw_state \in Layout \cup {"none"} /\ goal \in Layout /\ fw_tx \in Layout /\ fw_rx \in Layout
         /\ switch \in {"run", "stop", "drain", "start"} /\ mac \in {"run", "stop", "quiet"})'
    OBVIOUS
  <2> QED
    BY <2>1, <2>2, <2>3, <2>4
<1>24. CASE Block
  BY <1>24 DEF Block
<1>25. CASE Unblock
  <2> USE <1>25 DEF Unblock
  <2>1. (/\ queued \in Nat /\ tot \in Nat /\ batch \in Nat /\ sent \in Nat /\ leaked \in Nat
         /\ free \in Nat /\ seen \in Nat /\ unread \in Nat /\ stops \in Nat)'
    OBVIOUS
  <2>2. (/\ dynabuf_stop_tx \in BOOLEAN /\ mac_rst_stop_tx \in BOOLEAN /\ send_tx_stop_to_fw \in BOOLEAN
         /\ tx_sem \in BOOLEAN /\ blocked \in BOOLEAN /\ missed \in BOOLEAN /\ moved \in BOOLEAN /\ defer \in BOOLEAN
         /\ high \in BOOLEAN /\ msg \in BOOLEAN)'
    OBVIOUS
  <2>3. (/\ tx \in {"idle", "dyn", "mac", "take", "send"} /\ irq \in {"idle", "ipc", "rx", "confirm"}
         /\ layout \in Layout /\ state \in Layout \cup {"none"} /\ flags \in Flag /\ last \in Flag
         /\ status \subseteq {"ext", "msg", "rx"} /\ confirmed \subseteq Flag)'
    OBVIOUS
  <2>4. (/\ pending \subseteq {"ext", "msg", "rx"} /\ notified \subseteq Cause
         /\ ext \in {"none", "dyn_stop", "dyn_start", "mac_stop", "mac_start"}
         /\ fw_state \in Layout \cup {"none"} /\ goal \in Layout /\ fw_tx \in Layout /\ fw_rx \in Layout
         /\ switch \in {"run", "stop", "drain", "start"} /\ mac \in {"run", "stop", "quiet"})'
    BY Zenon
  <2> QED
    BY <2>1, <2>2, <2>3, <2>4
<1>26. CASE UNCHANGED vars
  BY <1>26 DEF vars
<1> QED
  BY <1>1, <1>2, <1>3, <1>4, <1>5, <1>6, <1>7, <1>8, <1>9, <1>10, <1>11, <1>12, <1>13, <1>14, <1>15, <1>16, <1>17, <1>18, <1>19, <1>20, <1>21, <1>22, <1>23, <1>24,
     <1>25, <1>26 DEF Next, TxTask, IrqTask, Firmware

\* The frames the IRQ task has seen stay there until it reads them.
LEMMA SeenStep ==
  TypeOK /\ SeenThere /\ [Next]_vars => SeenThere'
<1> SUFFICES ASSUME TypeOK, SeenThere, [Next]_vars
             PROVE  SeenThere'
  OBVIOUS
<1> USE DEF TypeOK, SeenThere, flow, wake, pages, rxhost, irqs, fw, rxdev, mail
<1>1. CASE TxPush
  BY <1>1 DEF TxPush
<1>2. CASE TxWake
  BY <1>2 DEF TxWake, Stopped, AllBack
<1>3. CASE TxNotifyDyn
  BY <1>3 DEF TxNotifyDyn
<1>4. CASE TxNotifyMac
  BY <1>4 DEF TxNotifyMac
<1>5. ASSUME NEW p \in PageNum, TxTake(p) PROVE SeenThere'
  BY <1>5 DEF TxTake, Fits
<1>6. ASSUME NEW p \in PageNum, TxFail(p) PROVE SeenThere'
  BY <1>6 DEF TxFail, Fits
<1>7. CASE TxTakeEnd
  BY <1>7 DEF TxTakeEnd
<1>8. CASE TxSend
  BY <1>8 DEF TxSend
<1>9. ASSUME NEW p \in PageNum, TxConfirm(p) PROVE SeenThere'
  BY <1>9 DEF TxConfirm, Wakes
<1>10. CASE IrqAck
  BY <1>10 DEF IrqAck
<1>11. CASE IrqIpc
  BY <1>11 DEF IrqIpc, Told, HandlesMsg
<1>12. ASSUME NEW k \in 0 .. MaxUnread, IrqRead(k) PROVE SeenThere'
  BY <1>12 DEF IrqRead, Confirms, SeenThere
<1>13. CASE IrqConfirm
  BY <1>13 DEF IrqConfirm, Apply, Applies, Resets, NextFlags, Wanted
<1>14. ASSUME NEW l \in Layout, FwStopTx(l) PROVE SeenThere'
  BY <1>14 DEF FwStopTx
<1>15. CASE FwTxStopped
  BY <1>15 DEF FwTxStopped
<1>16. CASE FwRxDrained
  BY <1>16 DEF FwRxDrained
<1>17. CASE FwSwitched
  BY <1>17 DEF FwSwitched
<1>18. CASE FwMacStop
  BY <1>18 DEF FwMacStop
<1>19. CASE FwMacQuiet
  BY <1>19 DEF FwMacQuiet
<1>20. CASE FwMacStart
  BY <1>20 DEF FwMacStart
<1>21. CASE FwMessage
  BY <1>21 DEF FwMessage
<1>22. CASE FwReceive
  BY <1>22 DEF FwReceive
<1>23. CASE Recover
  BY <1>23 DEF Recover
<1>24. CASE Block
  BY <1>24 DEF Block
<1>25. CASE Unblock
  BY <1>25 DEF Unblock
<1>26. CASE UNCHANGED vars
  BY <1>26 DEF vars
<1> QED
  BY <1>1, <1>2, <1>3, <1>4, <1>5, <1>6, <1>7, <1>8, <1>9, <1>10, <1>11, <1>12, <1>13, <1>14, <1>15, <1>16, <1>17, <1>18, <1>19, <1>20, <1>21, <1>22, <1>23, <1>24,
     <1>25, <1>26 DEF Next, TxTask, IrqTask, Firmware

\* Every variable keeps its type, and the frames the IRQ task is about to read
\* are there, under every interleaving of the tasks and the firmware.
THEOREM TypeCorrect == Spec => [](TypeOK /\ SeenThere)
<1>1. Init => TypeOK /\ SeenThere
  <2> SUFFICES ASSUME Init PROVE TypeOK /\ SeenThere
    OBVIOUS
  <2>1. TypeOK
    BY PageAssumption DEF Init, TypeOK, Layout, Cause, Flag, TxPages
  <2>2. SeenThere
    BY DEF Init, SeenThere
  <2> QED
    BY <2>1, <2>2
<1>2. TypeOK /\ SeenThere /\ [Next]_vars => (TypeOK /\ SeenThere)'
  BY TypeStep, SeenStep
<1> QED
  BY <1>1, <1>2, PTL DEF Spec

\* The held pages: what the TX task and the two causes do to one another.
LEMMA HeldStep ==
  TypeOK /\ SharedInv /\ [Next]_vars => (PagesAgree /\ HeldDyn /\ HeldMac /\ Notifying /\ Ordered)'
<1> SUFFICES ASSUME TypeOK, PagesAgree, HeldDyn, HeldMac, Notifying, Ordered, StateOfDrain, [Next]_vars
             PROVE  (PagesAgree /\ HeldDyn /\ HeldMac /\ Notifying /\ Ordered)'
  BY DEF SharedInv
<1> USE PageAssumption
<1> USE DEF PagesAgree, Quiet, HeldDyn, HeldMac, Notifying, Ordered, StateOfDrain, Reading, TypeOK, Layout,
           Cause, Flag, TxPages, ReadFinish, SwitchFinish, flow, wake, pages, rxhost, irqs, fw,
           rxdev, mail
<1>1. CASE TxPush
  BY <1>1 DEF TxPush
<1>2. CASE TxWake
  BY <1>2 DEF TxWake, Stopped, AllBack
<1>3. CASE TxNotifyDyn
  BY <1>3 DEF TxNotifyDyn
<1>4. CASE TxNotifyMac
  BY <1>4 DEF TxNotifyMac
<1>5. ASSUME NEW p \in PageNum, TxTake(p) PROVE (PagesAgree /\ HeldDyn /\ HeldMac /\ Notifying /\ Ordered)'
  BY <1>5 DEF TxTake, Fits
<1>6. ASSUME NEW p \in PageNum, TxFail(p) PROVE (PagesAgree /\ HeldDyn /\ HeldMac /\ Notifying /\ Ordered)'
  BY <1>6 DEF TxFail, Fits
<1>7. CASE TxTakeEnd
  BY <1>7 DEF TxTakeEnd
<1>8. CASE TxSend
  BY <1>8 DEF TxSend
<1>9. ASSUME NEW p \in PageNum, TxConfirm(p) PROVE (PagesAgree /\ HeldDyn /\ HeldMac /\ Notifying /\ Ordered)'
  BY <1>9 DEF TxConfirm, Wakes
<1>10. CASE IrqAck
  BY <1>10 DEF IrqAck
<1>11. CASE IrqIpc
  BY <1>11 DEF IrqIpc, Told, HandlesMsg
<1>12. ASSUME NEW k \in 0 .. MaxUnread, IrqRead(k) PROVE (PagesAgree /\ HeldDyn /\ HeldMac /\ Notifying /\ Ordered)'
  BY <1>12 DEF IrqRead, Confirms, SeenThere
<1>13. CASE IrqConfirm
  BY <1>13 DEF IrqConfirm, Apply, Applies, Resets, NextFlags, Wanted
<1>14. ASSUME NEW l \in Layout, FwStopTx(l) PROVE (PagesAgree /\ HeldDyn /\ HeldMac /\ Notifying /\ Ordered)'
  BY <1>14 DEF FwStopTx
<1>15. CASE FwTxStopped
  BY <1>15 DEF FwTxStopped
<1>16. CASE FwRxDrained
  BY <1>16 DEF FwRxDrained
<1>17. CASE FwSwitched
  BY <1>17 DEF FwSwitched
<1>18. CASE FwMacStop
  BY <1>18 DEF FwMacStop
<1>19. CASE FwMacQuiet
  BY <1>19 DEF FwMacQuiet
<1>20. CASE FwMacStart
  BY <1>20 DEF FwMacStart
<1>21. CASE FwMessage
  BY <1>21 DEF FwMessage
<1>22. CASE FwReceive
  BY <1>22 DEF FwReceive
<1>23. CASE Recover
  BY <1>23 DEF Recover
<1>24. CASE Block
  BY <1>24 DEF Block
<1>25. CASE Unblock
  BY <1>25 DEF Unblock
<1>26. CASE UNCHANGED vars
  BY <1>26 DEF vars
<1> QED
  BY <1>1, <1>2, <1>3, <1>4, <1>5, <1>6, <1>7, <1>8, <1>9, <1>10, <1>11, <1>12, <1>13, <1>14, <1>15, <1>16, <1>17, <1>18, <1>19, <1>20, <1>21, <1>22, <1>23, <1>24,
     <1>25, <1>26 DEF Next, TxTask, IrqTask, Firmware

\* The drain: what the IRQ task knows of the layout bits is in date when it acts.
LEMMA DrainStep ==
  TypeOK /\ SharedInv /\ [Next]_vars =>
    (BitsOfDrain /\ StateOfDrain /\ NoneLeft /\ ReadIsLast /\ NotBefore /\ FlagsKept)'
<1> SUFFICES ASSUME TypeOK, BitsOfDrain, StateOfDrain, NoneLeft, ReadIsLast, NotBefore, FlagsKept, [Next]_vars
             PROVE  (BitsOfDrain /\ StateOfDrain /\ NoneLeft /\ ReadIsLast /\ NotBefore /\ FlagsKept)'
  BY DEF SharedInv
<1> USE DEF BitsOfDrain, StateOfDrain, NoneLeft, ReadIsLast, NotBefore, FlagsKept, Reading, TypeOK, Layout, Cause,
           Flag, TxPages, ReadFinish, SwitchFinish, flow, wake, pages, rxhost, irqs, fw,
           rxdev, mail
<1>1. CASE TxPush
  BY <1>1 DEF TxPush
<1>2. CASE TxWake
  BY <1>2 DEF TxWake, Stopped, AllBack
<1>3. CASE TxNotifyDyn
  BY <1>3 DEF TxNotifyDyn
<1>4. CASE TxNotifyMac
  BY <1>4 DEF TxNotifyMac
<1>5. ASSUME NEW p \in PageNum, TxTake(p) PROVE (BitsOfDrain /\ StateOfDrain /\ NoneLeft /\ ReadIsLast /\ NotBefore /\ FlagsKept)'
  BY <1>5 DEF TxTake, Fits
<1>6. ASSUME NEW p \in PageNum, TxFail(p) PROVE (BitsOfDrain /\ StateOfDrain /\ NoneLeft /\ ReadIsLast /\ NotBefore /\ FlagsKept)'
  BY <1>6 DEF TxFail, Fits
<1>7. CASE TxTakeEnd
  BY <1>7 DEF TxTakeEnd
<1>8. CASE TxSend
  BY <1>8 DEF TxSend
<1>9. ASSUME NEW p \in PageNum, TxConfirm(p) PROVE (BitsOfDrain /\ StateOfDrain /\ NoneLeft /\ ReadIsLast /\ NotBefore /\ FlagsKept)'
  BY <1>9 DEF TxConfirm, Wakes
<1>10. CASE IrqAck
  BY <1>10 DEF IrqAck
<1>11. CASE IrqIpc
  BY <1>11 DEF IrqIpc, Told, HandlesMsg
<1>12. ASSUME NEW k \in 0 .. MaxUnread, IrqRead(k) PROVE (BitsOfDrain /\ StateOfDrain /\ NoneLeft /\ ReadIsLast /\ NotBefore /\ FlagsKept)'
  BY <1>12 DEF IrqRead, Confirms, SeenThere
<1>13. CASE IrqConfirm
  BY <1>13 DEF IrqConfirm, Apply, Applies, Resets, NextFlags, Wanted
<1>14. ASSUME NEW l \in Layout, FwStopTx(l) PROVE (BitsOfDrain /\ StateOfDrain /\ NoneLeft /\ ReadIsLast /\ NotBefore /\ FlagsKept)'
  BY <1>14 DEF FwStopTx
<1>15. CASE FwTxStopped
  BY <1>15 DEF FwTxStopped
<1>16. CASE FwRxDrained
  BY <1>16 DEF FwRxDrained
<1>17. CASE FwSwitched
  BY <1>17 DEF FwSwitched
<1>18. CASE FwMacStop
  BY <1>18 DEF FwMacStop
<1>19. CASE FwMacQuiet
  BY <1>19 DEF FwMacQuiet
<1>20. CASE FwMacStart
  BY <1>20 DEF FwMacStart
<1>21. CASE FwMessage
  BY <1>21 DEF FwMessage
<1>22. CASE FwReceive
  BY <1>22 DEF FwReceive
<1>23. CASE Recover
  BY <1>23 DEF Recover
<1>24. CASE Block
  BY <1>24 DEF Block
<1>25. CASE Unblock
  BY <1>25 DEF Unblock
<1>26. CASE UNCHANGED vars
  BY <1>26 DEF vars
<1> QED
  BY <1>1, <1>2, <1>3, <1>4, <1>5, <1>6, <1>7, <1>8, <1>9, <1>10, <1>11, <1>12, <1>13, <1>14, <1>15, <1>16, <1>17, <1>18, <1>19, <1>20, <1>21, <1>22, <1>23, <1>24,
     <1>25, <1>26 DEF Next, TxTask, IrqTask, Firmware

\* The flags and the layout follow the switch.
LEMMA FollowedStep ==
  TypeOK /\ SharedInv /\ FollowedInv /\ [Next]_vars => FollowedInv'
<1> SUFFICES ASSUME TypeOK, BitsOfDrain, StateOfDrain, ReadIsLast, NotBefore, FlagsKept, Followed, MayCrash # "any", [Next]_vars
             PROVE  Followed'
  BY DEF SharedInv, FollowedInv
<1> USE DEF Followed, BitsOfDrain, StateOfDrain, ReadIsLast, NotBefore, FlagsKept, Reading, TypeOK, Layout, Cause,
           Flag, TxPages, ReadFinish, SwitchFinish, flow, wake, pages, rxhost, irqs, fw,
           rxdev, mail
<1>1. CASE TxPush
  BY <1>1 DEF TxPush
<1>2. CASE TxWake
  BY <1>2 DEF TxWake, Stopped, AllBack
<1>3. CASE TxNotifyDyn
  BY <1>3 DEF TxNotifyDyn
<1>4. CASE TxNotifyMac
  BY <1>4 DEF TxNotifyMac
<1>5. ASSUME NEW p \in PageNum, TxTake(p) PROVE Followed'
  BY <1>5 DEF TxTake, Fits
<1>6. ASSUME NEW p \in PageNum, TxFail(p) PROVE Followed'
  BY <1>6 DEF TxFail, Fits
<1>7. CASE TxTakeEnd
  BY <1>7 DEF TxTakeEnd
<1>8. CASE TxSend
  BY <1>8 DEF TxSend
<1>9. ASSUME NEW p \in PageNum, TxConfirm(p) PROVE Followed'
  BY <1>9 DEF TxConfirm, Wakes
<1>10. CASE IrqAck
  BY <1>10 DEF IrqAck
<1>11. CASE IrqIpc
  BY <1>11 DEF IrqIpc, Told, HandlesMsg
<1>12. ASSUME NEW k \in 0 .. MaxUnread, IrqRead(k) PROVE Followed'
  BY <1>12 DEF IrqRead, Confirms, SeenThere
<1>13. CASE IrqConfirm
  BY <1>13 DEF IrqConfirm, Apply, Applies, Resets, NextFlags, Wanted
<1>14. ASSUME NEW l \in Layout, FwStopTx(l) PROVE Followed'
  BY <1>14 DEF FwStopTx
<1>15. CASE FwTxStopped
  BY <1>15 DEF FwTxStopped
<1>16. CASE FwRxDrained
  BY <1>16 DEF FwRxDrained
<1>17. CASE FwSwitched
  BY <1>17 DEF FwSwitched
<1>18. CASE FwMacStop
  BY <1>18 DEF FwMacStop
<1>19. CASE FwMacQuiet
  BY <1>19 DEF FwMacQuiet
<1>20. CASE FwMacStart
  BY <1>20 DEF FwMacStart
<1>21. CASE FwMessage
  BY <1>21 DEF FwMessage
<1>22. CASE FwReceive
  BY <1>22 DEF FwReceive
<1>23. CASE Recover
  BY <1>23 DEF Recover
<1>24. CASE Block
  BY <1>24 DEF Block
<1>25. CASE Unblock
  BY <1>25 DEF Unblock
<1>26. CASE UNCHANGED vars
  BY <1>26 DEF vars
<1> QED
  BY <1>1, <1>2, <1>3, <1>4, <1>5, <1>6, <1>7, <1>8, <1>9, <1>10, <1>11, <1>12, <1>13, <1>14, <1>15, <1>16, <1>17, <1>18, <1>19, <1>20, <1>21, <1>22, <1>23, <1>24,
     <1>25, <1>26 DEF Next, TxTask, IrqTask, Firmware

\* In the drain the frames in the device are those the IRQ task has seen.
LEMMA DrainedStep ==
  TypeOK /\ SharedInv /\ SeenThere /\ DrainedInv /\ [Next]_vars => DrainedInv'
<1> SUFFICES ASSUME TypeOK, BitsOfDrain, StateOfDrain, SeenThere, AllSeen, AllRead, ~MayStarve, [Next]_vars
             PROVE  AllSeen' /\ AllRead'
  BY DEF SharedInv, DrainedInv
<1> USE DEF AllSeen, AllRead, BitsOfDrain, StateOfDrain, SeenThere, Reading, TypeOK,
           flow, wake, pages, rxhost, irqs, fw, rxdev, mail
<1>1. CASE TxPush
  BY <1>1 DEF TxPush
<1>2. CASE TxWake
  BY <1>2 DEF TxWake, Stopped, AllBack
<1>3. CASE TxNotifyDyn
  BY <1>3 DEF TxNotifyDyn
<1>4. CASE TxNotifyMac
  BY <1>4 DEF TxNotifyMac
<1>5. ASSUME NEW p \in PageNum, TxTake(p) PROVE AllSeen' /\ AllRead'
  BY <1>5 DEF TxTake, Fits
<1>6. ASSUME NEW p \in PageNum, TxFail(p) PROVE AllSeen' /\ AllRead'
  BY <1>6 DEF TxFail, Fits
<1>7. CASE TxTakeEnd
  BY <1>7 DEF TxTakeEnd
<1>8. CASE TxSend
  BY <1>8 DEF TxSend
<1>9. ASSUME NEW p \in PageNum, TxConfirm(p) PROVE AllSeen' /\ AllRead'
  BY <1>9 DEF TxConfirm, Wakes
<1>10. CASE IrqAck
  BY <1>10 DEF IrqAck
<1>11. CASE IrqIpc
  BY <1>11 DEF IrqIpc, Told, HandlesMsg
<1>12. ASSUME NEW k \in 0 .. MaxUnread, IrqRead(k) PROVE AllSeen' /\ AllRead'
  BY <1>12 DEF IrqRead, Confirms, SeenThere
<1>13. CASE IrqConfirm
  BY <1>13 DEF IrqConfirm, Apply, Applies, Resets, NextFlags, Wanted
<1>14. ASSUME NEW l \in Layout, FwStopTx(l) PROVE AllSeen' /\ AllRead'
  BY <1>14 DEF FwStopTx
<1>15. CASE FwTxStopped
  BY <1>15 DEF FwTxStopped
<1>16. CASE FwRxDrained
  BY <1>16 DEF FwRxDrained
<1>17. CASE FwSwitched
  BY <1>17 DEF FwSwitched
<1>18. CASE FwMacStop
  BY <1>18 DEF FwMacStop
<1>19. CASE FwMacQuiet
  BY <1>19 DEF FwMacQuiet
<1>20. CASE FwMacStart
  BY <1>20 DEF FwMacStart
<1>21. CASE FwMessage
  BY <1>21 DEF FwMessage
<1>22. CASE FwReceive
  BY <1>22 DEF FwReceive
<1>23. CASE Recover
  BY <1>23 DEF Recover
<1>24. CASE Block
  BY <1>24 DEF Block
<1>25. CASE Unblock
  BY <1>25 DEF Unblock
<1>26. CASE UNCHANGED vars
  BY <1>26 DEF vars
<1> QED
  BY <1>1, <1>2, <1>3, <1>4, <1>5, <1>6, <1>7, <1>8, <1>9, <1>10, <1>11, <1>12, <1>13, <1>14, <1>15, <1>16, <1>17, <1>18, <1>19, <1>20, <1>21, <1>22, <1>23, <1>24,
     <1>25, <1>26 DEF Next, TxTask, IrqTask, Firmware

\* The invariant of the proofs holds in every reachable state.
THEOREM SharedCorrect == Spec => [](TypeOK /\ SharedInv)
<1>1. Init => SharedInv
  <2> SUFFICES ASSUME Init PROVE SharedInv
    OBVIOUS
  <2>1. PagesAgree
    BY PageAssumption DEF Init, PagesAgree
  <2>2. HeldDyn /\ HeldMac /\ Notifying /\ Ordered
    BY DEF Init, HeldDyn, HeldMac, Notifying, Ordered
  <2>3. BitsOfDrain /\ StateOfDrain /\ NoneLeft /\ ReadIsLast /\ NotBefore /\ FlagsKept
    BY DEF Init, BitsOfDrain, StateOfDrain, NoneLeft, ReadIsLast, NotBefore, FlagsKept, Reading
  <2> QED
    BY <2>1, <2>2, <2>3 DEF SharedInv
<1>2. TypeOK /\ SharedInv /\ [Next]_vars => SharedInv'
  BY HeldStep, DrainStep DEF SharedInv
<1> QED
  BY <1>1, <1>2, TypeCorrect, PTL DEF Spec

\* However the firmware's two causes for stopping TX meet the TX task, its
\* failures and the confirmations, no page is counted twice or lost from the
\* count, and a change of layout meets none in the device.
THEOREM PagesCorrect == Spec => []PagesAgree
<1>1. SharedInv => PagesAgree
  BY DEF SharedInv
<1> QED
  BY <1>1, SharedCorrect, PTL

\* Between a notification and the order to start, the host sends nothing.
THEOREM QuietCorrect == Spec => []DeviceQuiet
<1>1. SharedInv => DeviceQuiet
  BY DEF SharedInv, DeviceQuiet, HeldDyn, HeldMac, Quiet
<1> QED
  BY <1>1, SharedCorrect, PTL

\* A layout is applied only in the drain, and it is the one the firmware wants.
THEOREM AppliedInDrain ==
  Spec => [][irq = "confirm" /\ layout' # layout => switch = "drain" /\ layout' = goal]_vars
<1>1. TypeOK /\ SharedInv /\ [Next]_vars =>
        [irq = "confirm" /\ layout' # layout => switch = "drain" /\ layout' = goal]_vars
  <2> SUFFICES ASSUME TypeOK, StateOfDrain, [Next]_vars, irq = "confirm", layout' # layout
               PROVE  switch = "drain" /\ layout' = goal
    BY DEF SharedInv
  <2>1. IrqConfirm
    BY DEF Next, TxTask, IrqTask, Firmware, TxPush, TxWake, TxNotifyDyn, TxNotifyMac, TxTake, TxFail,
           TxTakeEnd, TxSend, TxConfirm, IrqAck, IrqIpc, IrqRead, FwStopTx, FwTxStopped, FwRxDrained,
           FwSwitched, FwMacStop, FwMacQuiet, FwMacStart, FwMessage, FwReceive, Block, Unblock,
           Recover, vars, rxhost
  <2> QED
    BY <2>1 DEF IrqConfirm, Apply, Applies, Wanted, StateOfDrain, Reading
<1> QED
  BY <1>1, SharedCorrect, PTL DEF Spec

\* Unless the device crashes in the middle of a switch, both sides have the same
\* border when the firmware has ended one.
THEOREM LayoutsCorrect ==
  ASSUME MayCrash # "any"
  PROVE  Spec => []LayoutsAgree
<1>1. Init => FollowedInv
  BY DEF Init, FollowedInv, Followed, ReadFinish, SwitchFinish
<1>2. TypeOK /\ SharedInv /\ FollowedInv /\ [Next]_vars => FollowedInv'
  BY FollowedStep
<1>3. FollowedInv => LayoutsAgree
  BY DEF FollowedInv, Followed, LayoutsAgree
<1> QED
  BY <1>1, <1>2, <1>3, SharedCorrect, PTL DEF Spec

\* Unless the host's own buffer is full, the layout changes only when every frame the
\* device had received is read: RX is stopped, and the confirmation comes last.
THEOREM DrainedCorrect ==
  ASSUME ~MayStarve
  PROVE  Spec => Drained
<1>1. Init => DrainedInv
  BY DEF Init, DrainedInv, AllSeen, AllRead, Reading
<1>2. TypeOK /\ SharedInv /\ SeenThere /\ DrainedInv /\ [Next]_vars => DrainedInv'
  BY DrainedStep
<1>3. TypeOK /\ DrainedInv /\ [Next]_vars => [irq = "confirm" /\ layout' # layout => unread = 0]_vars
  <2> SUFFICES ASSUME TypeOK, AllSeen, AllRead, [Next]_vars, irq = "confirm", layout' # layout
               PROVE  unread = 0
    BY DEF DrainedInv
  <2>1. IrqConfirm
    BY DEF Next, TxTask, IrqTask, Firmware, TxPush, TxWake, TxNotifyDyn, TxNotifyMac, TxTake, TxFail,
           TxTakeEnd, TxSend, TxConfirm, IrqAck, IrqIpc, IrqRead, FwStopTx, FwTxStopped, FwRxDrained,
           FwSwitched, FwMacStop, FwMacQuiet, FwMacStart, FwMessage, FwReceive, Block, Unblock,
           Recover, vars, rxhost
  <2> QED
    BY <2>1 DEF IrqConfirm, Apply, Applies, Wanted, AllSeen, AllRead, Reading
<1> QED
  BY <1>1, <1>2, <1>3, TypeCorrect, SharedCorrect, PTL DEF Spec, Drained


=============================================================================
