------------------------------- MODULE Virtio ------------------------------
(***************************************************************************)
(* The virtio-net driver of kernel/src/virtio.rs and its device wrapper in *)
(* net.rs, against the device.  The driver runs on one hart with           *)
(* interrupts off, so one of its functions runs at a time; but the device  *)
(* works in between, so a function is a sequence of steps, told apart by   *)
(* pc.  A virtqueue is the pair of queues that Virtqueue shows it to be.   *)
(*                                                                         *)
(* Frames are plain but for two that are marked, at any moment, 1 and then *)
(* 2: the driver does not look into frames, so what happens to these two   *)
(* happens to any two.  A descriptor always names the buffer of its own    *)
(* index, so an entry of a ring stands for the buffer.                     *)
(***************************************************************************)
EXTENDS Integers, Sequences, FiniteSets

CONSTANTS
  RX_BUFFERS,   \* 32
  TX_BUFFERS    \* 16

ASSUME VirtioAssumption == {RX_BUFFERS, TX_BUFFERS} \subseteq Nat \ {0}

VARIABLES
  pc,           \* where the driver is; "idle" between two of its functions
  initialized,  \* VirtioNet::initialized
  irq_status,   \* the device's IRQ_STATUS register
  rx, tx,       \* the queues: published, held by the device, returned
  rx_buffers, tx_buffers,
  tx_free_mask, \* the indices whose bit is set
  wire          \* marks: how many arrived and were accepted, which were
                \* delivered to the stack and transmitted

vars == <<pc, initialized, irq_status, rx, tx, rx_buffers, tx_buffers, tx_free_mask, wire>>

RxBuffers == 0 .. RX_BUFFERS - 1
TxBuffers == 0 .. TX_BUFFERS - 1

(* A frame that may come after `marks` marked ones, and what is kept of it. *)
NextFrames(marks) == {0} \cup (IF marks < 2 THEN {marks + 1} ELSE {})
Marks(marks, f) == IF f = 0 THEN marks ELSE f
Log(log, f) == IF f = 0 THEN log ELSE Append(log, f)

queue_zero == [published |-> <<>>, held |-> {}, returned |-> <<>>]

(* VirtioNet::new_uninit, after probe_all() has found a device. *)
Init ==
  /\ pc = "probed"
  /\ initialized = FALSE
  /\ irq_status = FALSE
  /\ rx = queue_zero /\ tx = queue_zero
  /\ rx_buffers = [b \in RxBuffers |-> 0]
  /\ tx_buffers = [b \in TxBuffers |-> 0]
  /\ tx_free_mask = TxBuffers
  /\ wire = [arrived |-> 0, delivered |-> <<>>, accepted |-> 0, transmitted |-> <<>>]

goto(label) == pc' = label
put_entry(q, b) == [q EXCEPT !.published = Append(@, b)]
drop_entry(q) == [q EXCEPT !.returned = Tail(@)]

----------------------------------------------------------------------------
(* init(): the device refuses the features, or is given every RX buffer.   *)
(* It stays quiet until DRIVER_OK, the last write.                         *)

populate_rx_queue(q) == [q EXCEPT !.published = [i \in 1 .. RX_BUFFERS |-> i - 1]]

init ==
  /\ pc = "probed"
  /\ \/ goto("failed") /\ UNCHANGED <<initialized, rx>>
     \/ goto("idle") /\ initialized' = TRUE /\ rx' = populate_rx_queue(rx)
  /\ UNCHANGED <<irq_status, tx, rx_buffers, tx_buffers, tx_free_mask, wire>>

Failed == pc = "failed" /\ UNCHANGED vars

----------------------------------------------------------------------------
(* The interrupt handler: read IRQ_STATUS and write it back, reclaim, then *)
(* poll.  What the device sets between the two accesses is cleared with    *)
(* the rest, as if it had come before.                                     *)

idle_vars == <<initialized, rx, tx, rx_buffers, tx_buffers, tx_free_mask, wire>>

(* Mutant of handle_interrupt: sources are acknowledged after the reclaim. *)
handle_interrupt_ack_last ==
  \/ pc = "idle" /\ irq_status /\ goto("irq_reclaim") /\ UNCHANGED <<irq_status, idle_vars>>
  \/ /\ pc = "irq_reclaim" /\ tx.returned = <<>>
     /\ goto("ack") /\ UNCHANGED <<irq_status, idle_vars>>
  \/ pc = "ack" /\ goto("poll") /\ irq_status' = FALSE /\ UNCHANGED idle_vars

(* Mutant of handle_interrupt: it leaves the reclaim to transmit(). *)
handle_interrupt_no_reclaim ==
  /\ pc = "idle" /\ irq_status /\ goto("poll")
  /\ irq_status' = FALSE
  /\ UNCHANGED idle_vars

handle_interrupt ==
  /\ pc = "idle" /\ irq_status /\ goto("irq_reclaim")
  /\ irq_status' = FALSE
  /\ UNCHANGED idle_vars

(* The bit of an element's buffer is set, if it has one. *)
freed(id) == tx_free_mask \cup ({id} \cap TxBuffers)

(* One turn of reclaim_tx's loop, for the handler or for transmit(). *)
reclaim_tx ==
  /\ pc \in {"irq_reclaim", "tx_reclaim"}
  /\ \/ /\ tx.returned = <<>>
        /\ goto(IF pc = "irq_reclaim" THEN "poll" ELSE "fill")
        /\ UNCHANGED <<tx, tx_free_mask>>
     \/ /\ tx.returned # <<>>
        /\ tx_free_mask' = freed(Head(tx.returned))
        /\ tx' = drop_entry(tx)
        /\ UNCHANGED pc
  /\ UNCHANGED <<initialized, irq_status, rx, rx_buffers, tx_buffers, wire>>

----------------------------------------------------------------------------
(* net::poll(), from the interrupt, the timer or a call: receive while     *)
(* frames and a free TX buffer are there, send what the stack has.         *)

can_transmit == initialized /\ tx_free_mask # {}
can_receive == initialized /\ rx.returned # <<>>

poll ==
  /\ pc = "idle" /\ initialized
  /\ goto("poll")
  /\ UNCHANGED <<irq_status, idle_vars>>

(* The wrapper's receive() gives no token, and the stack is done. *)
poll_end ==
  /\ pc = "poll" /\ ~(can_receive /\ can_transmit)
  /\ goto("idle")
  /\ UNCHANGED <<irq_status, idle_vars>>

(* A TX token: the stack has a frame of its own, or answers one. *)
poll_transmit ==
  /\ can_transmit
  /\ pc = "respond" \/ (pc = "poll" /\ ~can_receive)
  /\ goto("tx_reclaim")
  /\ UNCHANGED <<irq_status, idle_vars>>

poll_no_answer ==
  /\ pc = "respond"
  /\ goto("poll")
  /\ UNCHANGED <<irq_status, idle_vars>>

(* Mutant of rx_buffer: buffers are taken to come back from the first on. *)
rx_buffer_first(elem) == 0

(* The buffer a used element names. *)
rx_buffer(elem) == elem.id

(***************************************************************************)
(* receive(): an element that is not valid is skipped, and the stack sees  *)
(* an empty frame; else the frame is copied out and the buffer published   *)
(* again.                                                                  *)
(***************************************************************************)
receive ==
  /\ pc = "poll" /\ can_receive /\ can_transmit
  /\ LET elem == Head(rx.returned) IN
     \/ /\ elem.id \notin RxBuffers \/ elem.short
        /\ rx' = drop_entry(rx)
        /\ UNCHANGED wire
     \/ /\ elem.id \in RxBuffers /\ ~elem.short
        /\ wire' = [wire EXCEPT !.delivered = Log(@, rx_buffers[rx_buffer(elem)])]
        /\ rx' = put_entry(drop_entry(rx), elem.id)
  /\ goto("respond")
  /\ UNCHANGED <<initialized, irq_status, tx, rx_buffers, tx_buffers, tx_free_mask>>

Lowest(mask) == CHOOSE b \in mask : \A c \in mask : b <= c

(* Header and data are copied into the buffer. *)
filled(buf, frame) == [tx_buffers EXCEPT ![buf] = frame]

(* Mutant of marked_used: the bit of the buffer stays set. *)
marked_used_not(buf) == tx_free_mask

marked_used(buf) == tx_free_mask \ {buf}

(* transmit(), after its reclaim_tx: BufferFull, or the lowest free buffer. *)
transmit ==
  /\ pc = "fill"
  /\ goto("poll")
  /\ \/ tx_free_mask = {} /\ UNCHANGED <<tx_free_mask, tx_buffers, tx, wire>>
     \/ /\ tx_free_mask # {}
        /\ LET buf == Lowest(tx_free_mask) IN
           \E frame \in NextFrames(wire.accepted) :
             /\ tx_free_mask' = marked_used(buf)
             /\ tx_buffers' = filled(buf, frame)
             /\ wire' = [wire EXCEPT !.accepted = Marks(@, frame)]
             /\ tx' = put_entry(tx, buf)
  /\ UNCHANGED <<initialized, irq_status, rx, rx_buffers>>

----------------------------------------------------------------------------
(* The device takes what is published in order, finishes buffers in any    *)
(* order, and asks for service once the used index is written.             *)

take(q) == [q EXCEPT !.published = Tail(@), !.held = @ \cup {Head(q.published)}]
give_back(q, b, elem) == [q EXCEPT !.held = @ \ {b}, !.returned = Append(@, elem)]

DeviceTakesRx ==
  /\ initialized /\ rx.published # <<>>
  /\ rx' = take(rx)
  /\ UNCHANGED <<pc, initialized, irq_status, tx, rx_buffers, tx_buffers, tx_free_mask, wire>>

(* A frame arrives, or an element comes back that holds no frame. *)
DeviceReceives ==
  \E b \in rx.held :
    /\ \/ rx' = give_back(rx, b, [id |-> b, short |-> TRUE]) /\ UNCHANGED <<rx_buffers, wire>>
       \/ \E frame \in NextFrames(wire.arrived) :
            /\ rx_buffers' = [rx_buffers EXCEPT ![b] = frame]
            /\ wire' = [wire EXCEPT !.arrived = Marks(@, frame)]
            /\ rx' = give_back(rx, b, [id |-> b, short |-> FALSE])
    /\ irq_status' = TRUE
    /\ UNCHANGED <<pc, initialized, tx, tx_buffers, tx_free_mask>>

DeviceSends ==
  /\ tx.published # <<>>
  /\ tx' = take(tx)
  /\ wire' = [wire EXCEPT !.transmitted = Log(@, tx_buffers[Head(tx.published)])]
  /\ UNCHANGED <<pc, initialized, irq_status, rx, rx_buffers, tx_buffers, tx_free_mask>>

DeviceCompletes(b) ==
  /\ b \in tx.held
  /\ tx' = give_back(tx, b, b)
  /\ irq_status' = TRUE
  /\ UNCHANGED <<pc, initialized, rx, rx_buffers, tx_buffers, tx_free_mask, wire>>

----------------------------------------------------------------------------
Driver ==
  \/ init \/ reclaim_tx \/ poll_end \/ poll_transmit \/ poll_no_answer
  \/ receive \/ transmit

Next ==
  \/ Driver \/ handle_interrupt \/ poll \/ Failed
  \/ DeviceTakesRx \/ DeviceReceives \/ DeviceSends
  \/ \E b \in TxBuffers : DeviceCompletes(b)

(***************************************************************************)
(* The hart goes on with what it is doing.  An interrupt that stays up is  *)
(* taken: the PLIC line follows IRQ_STATUS, its cycle is completed, and an *)
(* external interrupt goes before the timer's, so other polls cannot keep  *)
(* it out for ever.  The device completes what it was given.  Frames need  *)
(* not arrive, and no poll but the one of the interrupt is relied upon.    *)
(***************************************************************************)
Fairness ==
  /\ WF_vars(Driver) /\ SF_vars(handle_interrupt)
  /\ WF_vars(DeviceSends)
  /\ \A b \in TxBuffers : WF_vars(DeviceCompletes(b))

Spec == Init /\ [][Next]_vars /\ Fairness

----------------------------------------------------------------------------
(* In how many places a buffer is. *)
One(cond) == IF cond THEN 1 ELSE 0
Count(seq, Test(_)) == Cardinality({k \in DOMAIN seq : Test(seq[k])})
RxPlaces(b) ==
  Count(rx.published, LAMBDA e : e = b) + Count(rx.returned, LAMBDA e : e.id = b)
  + One(b \in rx.held)
TxPlaces(b) ==
  Count(tx.published, LAMBDA e : e = b) + Count(tx.returned, LAMBDA e : e = b)
  + One(b \in tx.held) + One(b \in tx_free_mask)

(***************************************************************************)
(* A buffer is in one place: free, published, with the device, or coming   *)
(* back, and no TX buffer is ever lost.                                    *)
(***************************************************************************)
BuffersHaveOneOwner ==
  /\ \A b \in RxBuffers : RxPlaces(b) <= 1
  /\ \A b \in TxBuffers : TxPlaces(b) = 1

(***************************************************************************)
(* Frames pass whole, once and in order: up to the stack as they arrived,  *)
(* and out on the wire as transmit() took them.                            *)
(***************************************************************************)
FramesInOrder ==
  {wire.delivered, wire.transmitted} \subseteq {<<>>, <<1>>, <<1, 2>>}

(***************************************************************************)
(* No completion is missed: a TX buffer in use comes back to the mask even *)
(* when the stack never transmits again.  The loop of a poll has no bound  *)
(* of its own, so this needs polls that end: frames that do not come in    *)
(* faster than they are taken for ever.                                    *)
(***************************************************************************)
TxBuffersComeBack ==
  []<>(pc \in {"idle", "failed"}) =>
    \A b \in TxBuffers : b \notin tx_free_mask ~> b \in tx_free_mask

(***************************************************************************)
(* No frame waits for ever, though its interrupt may race a poll, and no   *)
(* TX buffer may be free when it comes: the RX queue always empties.       *)
(***************************************************************************)
FramesAreReceived == \A b \in RxBuffers :
  (\E k \in DOMAIN rx.returned : rx.returned[k].id = b)
    ~> ~(\E k \in DOMAIN rx.returned : rx.returned[k].id = b)

(***************************************************************************)
(* "Invalid -- re-provision and skip" (receive, virtio.rs:513): no RX      *)
(* buffer is ever lost to the driver.                                      *)
(***************************************************************************)
RxBuffersConserved == initialized => \A b \in RxBuffers : RxPlaces(b) = 1

============================================================================
