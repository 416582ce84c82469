----------------------------- MODULE Virtqueue -----------------------------
(***************************************************************************)
(* One virtqueue in memory shared with the device: the rings of            *)
(* kernel/src/virtio.rs and the steps by which transmit(), receive() and   *)
(* reclaim_tx() use them.  The device works in between; it follows the     *)
(* protocol from its side and may finish buffers in any order.  Ring       *)
(* indices are 16 bits wide and wrap.                                      *)
(***************************************************************************)
EXTENDS Integers, FiniteSets, Sequences

CONSTANTS
  QUEUE_SIZE,   \* 64
  BUFFERS,      \* RX_BUFFERS = 32 or TX_BUFFERS = 16
  U16           \* 2^16

ASSUME VirtqueueAssumption ==
  /\ {QUEUE_SIZE, BUFFERS, U16} \subseteq Nat \ {0}
  /\ BUFFERS <= QUEUE_SIZE /\ QUEUE_SIZE < U16 /\ U16 % QUEUE_SIZE = 0

VARIABLES
  avail,       \* VirtqAvail: the ring of buffer indices, and its idx
  used,        \* VirtqUsed: the ring of element ids, and its idx
  last_used,   \* how far the driver has read the used ring
  free,        \* buffers in the driver's hands; of the TX queue, tx_free_mask
  pending,     \* the buffer entered in the avail ring but not published
  seen,        \* how far the device has read the avail ring
  held,        \* buffers the device has taken
  done         \* the buffer entered in the used ring but not published

vars == <<avail, used, last_used, free, pending, seen, held, done>>

Buffers == 0 .. BUFFERS - 1
NoBuffer == BUFFERS

wrapping_add(i, k) == (i + k) % U16

(* Mutant of slot: one slot of the ring is never used. *)
slot_short(i) == i % (QUEUE_SIZE - 1)

slot(i) == i % QUEUE_SIZE

ring_zero == [ring |-> [i \in 0 .. QUEUE_SIZE - 1 |-> 0], idx |-> 0]

populate_rx_queue ==
  [ring |-> [i \in 0 .. QUEUE_SIZE - 1 |-> IF i \in Buffers THEN i ELSE 0], idx |-> BUFFERS]

(* A TX queue starts with all buffers free, an RX queue with all published. *)
Init ==
  /\ \/ free = Buffers /\ avail = ring_zero
     \/ free = {} /\ avail = populate_rx_queue
  /\ used = ring_zero /\ last_used = 0 /\ pending = NoBuffer
  /\ seen = 0 /\ held = {} /\ done = NoBuffer

(* Entering a buffer, and after a fence the index. *)
put_entry(b) ==
  /\ b \in free /\ pending = NoBuffer
  /\ avail' = [avail EXCEPT !.ring[slot(avail.idx)] = b]
  /\ pending' = b
  /\ free' = free \ {b}
  /\ UNCHANGED <<used, last_used, seen, held, done>>

publish ==
  /\ pending # NoBuffer
  /\ avail' = [avail EXCEPT !.idx = wrapping_add(@, 1)]
  /\ pending' = NoBuffer
  /\ UNCHANGED <<used, last_used, free, seen, held, done>>

(* One element of the used ring; load_idx is the driver's only guard. *)
reclaim ==
  /\ last_used # used.idx
  /\ free' = free \cup {used.ring[slot(last_used)]}
  /\ last_used' = wrapping_add(last_used, 1)
  /\ UNCHANGED <<avail, used, pending, seen, held, done>>

DeviceTakes ==
  /\ seen # avail.idx
  /\ held' = held \cup {avail.ring[slot(seen)]}
  /\ seen' = wrapping_add(seen, 1)
  /\ UNCHANGED <<avail, used, last_used, free, pending, done>>

DeviceUses(b) ==
  /\ b \in held /\ done = NoBuffer
  /\ used' = [used EXCEPT !.ring[slot(used.idx)] = b]
  /\ done' = b
  /\ held' = held \ {b}
  /\ UNCHANGED <<avail, last_used, free, pending, seen>>

DevicePublishes ==
  /\ done # NoBuffer
  /\ used' = [used EXCEPT !.idx = wrapping_add(@, 1)]
  /\ done' = NoBuffer
  /\ UNCHANGED <<avail, last_used, free, pending, seen, held>>

Next ==
  \/ \E b \in Buffers : put_entry(b) \/ DeviceUses(b)
  \/ publish \/ reclaim \/ DeviceTakes \/ DevicePublishes

Spec == Init /\ [][Next]_vars

----------------------------------------------------------------------------
(* The entries of a ring from one index to another. *)
Between(ring, from, to) == [k \in 1 .. (to - from) % U16 |-> ring[slot(from + k - 1)]]

Exchange == INSTANCE BufferExchange WITH
  mine <- free \cup ({pending} \cap Buffers),
  published <- Between(avail.ring, seen, avail.idx),
  theirs <- held \cup ({done} \cap Buffers),
  returned <- Between(used.ring, last_used, used.idx)

(***************************************************************************)
(* The rings implement two queues of buffers between driver and device: a  *)
(* buffer is with one of them at a time, in whatever order the device      *)
(* finishes and however often the indices wrap.                            *)
(***************************************************************************)
ImplementsExchange == Exchange!Spec

============================================================================
