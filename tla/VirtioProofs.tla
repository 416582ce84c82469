---------------------------- MODULE VirtioProofs ----------------------------
(***************************************************************************)
(* Proofs about the network driver, for every number of buffers: no buffer *)
(* is in two places and no TX buffer is lost, and frames pass once and in  *)
(* order in both directions.  The two directions share nothing but the     *)
(* driver's control, so the invariant has a part for each.                 *)
(***************************************************************************)
EXTENDS Virtio, DataLemmas

(* Elements of the RX used ring, and the buffers they name. *)
Elem == [id : RxBuffers, short : BOOLEAN]
IdOf == [e \in Elem |-> e.id]

(* The mark of the frame an element brings, or 0. *)
RxMark == [e \in Elem |-> IF e.short THEN 0 ELSE rx_buffers[e.id]]

(* The log of the first d marks. *)
Logs == {<< >>, <<1>>, <<1, 2>>}
LogOf(d) == IF d = 0 THEN << >> ELSE IF d = 1 THEN <<1>> ELSE <<1, 2>>

(***************************************************************************)
(* The marks in a queue are those after the d that have left it, up to the *)
(* n that have entered it: all of them, in order.                          *)
(***************************************************************************)
Follows(d, ms, n) ==
  /\ ms \in Seq(0 .. 2) /\ n \in 0 .. 2 /\ d <= n
  /\ \A k \in 1 .. Len(ms) : ms[k] # 0 => d < ms[k] /\ ms[k] <= n
  /\ \A j, k \in 1 .. Len(ms) : j < k /\ ms[j] # 0 /\ ms[k] # 0 => ms[j] < ms[k]
  /\ \A m \in 1 .. 2 : d < m /\ m <= n => \E k \in 1 .. Len(ms) : ms[k] = m

RxTypeOK ==
  /\ rx \in [published : Seq(RxBuffers), held : SUBSET RxBuffers, returned : Seq(Elem)]
  /\ rx_buffers \in [RxBuffers -> 0 .. 2]
  /\ pc = "probed" => rx = queue_zero

RxOwned ==
  /\ Distinct(rx.published) /\ Distinct(Image(IdOf, rx.returned))
  /\ Elements(rx.published) \cap rx.held = {}
  /\ Elements(rx.published) \cap Elements(Image(IdOf, rx.returned)) = {}
  /\ rx.held \cap Elements(Image(IdOf, rx.returned)) = {}

RxOrder ==
  \E d \in 0 .. 2 :
    wire.delivered = LogOf(d) /\ Follows(d, Image(RxMark, rx.returned), wire.arrived)

TxTypeOK ==
  /\ tx \in [published : Seq(TxBuffers), held : SUBSET TxBuffers, returned : Seq(TxBuffers)]
  /\ tx_buffers \in [TxBuffers -> 0 .. 2]
  /\ tx_free_mask \subseteq TxBuffers

TxOwned ==
  /\ Distinct(tx.published) /\ Distinct(tx.returned)
  /\ Elements(tx.published) \cap tx.held = {}
  /\ Elements(tx.published) \cap Elements(tx.returned) = {}
  /\ Elements(tx.published) \cap tx_free_mask = {}
  /\ tx.held \cap Elements(tx.returned) = {}
  /\ tx.held \cap tx_free_mask = {}
  /\ Elements(tx.returned) \cap tx_free_mask = {}
  /\ Elements(tx.published) \cup tx.held \cup Elements(tx.returned) \cup tx_free_mask = TxBuffers

TxOrder ==
  \E d \in 0 .. 2 :
    wire.transmitted = LogOf(d) /\ Follows(d, Image(tx_buffers, tx.published), wire.accepted)

WireOK == wire \in [arrived : 0 .. 2, delivered : Logs, accepted : 0 .. 2, transmitted : Logs]

RxInv == RxTypeOK /\ RxOwned /\ RxOrder
TxInv == TxTypeOK /\ TxOwned /\ TxOrder
IInv == WireOK /\ RxInv /\ TxInv

----------------------------------------------------------------------------
(* The marks that enter a queue and leave it. *)

LEMMA FollowsAppend ==
  ASSUME NEW d \in 0 .. 2, NEW ms, NEW n, Follows(d, ms, n), NEW f \in NextFrames(n)
  PROVE  /\ Marks(n, f) \in 0 .. 2 /\ f \in 0 .. 2
         /\ Follows(d, Append(ms, f), Marks(n, f))
<1>1. ms \in Seq(0 .. 2) /\ n \in 0 .. 2 /\ d <= n /\ Len(ms) \in Nat
  BY LenProperties DEF Follows
<1>2. f = 0 \/ (f = n + 1 /\ n < 2)
  BY <1>1 DEF NextFrames
<1>3. f \in 0 .. 2 /\ Marks(n, f) \in 0 .. 2 /\ n <= Marks(n, f) /\ f <= Marks(n, f)
  BY <1>1, <1>2 DEF Marks
<1>4. /\ Append(ms, f) \in Seq(0 .. 2) /\ Len(Append(ms, f)) = Len(ms) + 1
      /\ \A k \in 1 .. Len(ms) : Append(ms, f)[k] = ms[k]
      /\ Append(ms, f)[Len(ms) + 1] = f
  BY <1>1, <1>3, AppendProperties
<1>5. ASSUME NEW k \in 1 .. Len(ms) + 1, Append(ms, f)[k] # 0
      PROVE  d < Append(ms, f)[k] /\ Append(ms, f)[k] <= Marks(n, f)
  BY <1>1, <1>2, <1>3, <1>4, <1>5 DEF Follows
<1>6. ASSUME NEW j \in 1 .. Len(ms) + 1, NEW k \in 1 .. Len(ms) + 1, j < k,
             Append(ms, f)[j] # 0, Append(ms, f)[k] # 0
      PROVE  Append(ms, f)[j] < Append(ms, f)[k]
  BY <1>1, <1>2, <1>4, <1>6 DEF Follows
<1>7. ASSUME NEW m \in 1 .. 2, d < m, m <= Marks(n, f)
      PROVE  \E k \in 1 .. Len(ms) + 1 : Append(ms, f)[k] = m
  <2>1. CASE m <= n
    <3>1. PICK k \in 1 .. Len(ms) : ms[k] = m
      BY <1>7, <2>1 DEF Follows
    <3>2. k \in 1 .. Len(ms) + 1 /\ Append(ms, f)[k] = m
      BY <1>1, <1>4, <3>1
    <3> QED BY <3>2
  <2>2. CASE ~(m <= n)
    <3>1. f = m /\ Len(ms) + 1 \in 1 .. Len(ms) + 1
      BY <1>1, <1>2, <1>7, <2>2 DEF Marks
    <3> QED BY <1>4, <3>1
  <2> QED BY <2>1, <2>2
<1>8. Follows(d, Append(ms, f), Marks(n, f))
  BY <1>1, <1>3, <1>4, <1>5, <1>6, <1>7 DEF Follows
<1> QED BY <1>3, <1>8

LEMMA FollowsTail ==
  ASSUME NEW d \in 0 .. 2, NEW ms, NEW n, Follows(d, ms, n), ms # << >>
  PROVE  \E e \in 0 .. 2 :
           /\ Log(LogOf(d), Head(ms)) = LogOf(e)
           /\ Follows(e, Tail(ms), n)
           /\ Head(ms) = 0 => e = d
<1>1. ms \in Seq(0 .. 2) /\ n \in 0 .. 2
  BY DEF Follows
<1>2. /\ Tail(ms) \in Seq(0 .. 2) /\ Len(Tail(ms)) = Len(ms) - 1
      /\ Len(ms) \in Nat /\ Len(ms) > 0
      /\ \A k \in 1 .. Len(ms) - 1 : Tail(ms)[k] = ms[k + 1]
      /\ Head(ms) = ms[1] /\ Head(ms) \in 0 .. 2
  <2>1. Len(ms) \in Nat /\ Len(ms) > 0
    BY <1>1, LenProperties, EmptySeq
  <2> QED BY <1>1, <2>1, HeadTailProperties
<1>3. CASE Head(ms) = 0
  <2>1. Log(LogOf(d), Head(ms)) = LogOf(d)
    BY <1>3 DEF Log
  <2>2. ASSUME NEW m \in 1 .. 2, d < m, m <= n
        PROVE  \E k \in 1 .. Len(ms) - 1 : Tail(ms)[k] = m
    <3>1. PICK k \in 1 .. Len(ms) : ms[k] = m
      BY <2>2 DEF Follows
    <3>2. k - 1 \in 1 .. Len(ms) - 1 /\ (k - 1) + 1 = k
      BY <1>2, <1>3, <3>1
    <3> QED BY <1>2, <3>1, <3>2
  <2>3. Follows(d, Tail(ms), n)
    BY <1>1, <1>2, <2>2 DEF Follows
  <2> QED BY <2>1, <2>3
<1>4. CASE Head(ms) # 0
  <2>1. Head(ms) = d + 1 /\ d + 1 \in 1 .. 2 /\ d + 1 <= n
    <3>1. d < ms[1] /\ ms[1] <= n
      BY <1>2, <1>4 DEF Follows
    <3>2. PICK k \in 1 .. Len(ms) : ms[k] = d + 1
      BY <1>1, <1>2, <3>1 DEF Follows
    <3>3. CASE k = 1
      BY <1>1, <1>2, <3>1, <3>2, <3>3
    <3>4. CASE k # 1
      <4>1. ms[1] < ms[k]
        BY <1>2, <1>4, <3>2, <3>4 DEF Follows
      <4> QED BY <1>2, <3>1, <3>2, <4>1
    <3> QED BY <3>3, <3>4
  <2>2. Log(LogOf(d), Head(ms)) = LogOf(d + 1)
    <3>1. d = 0 \/ d = 1
      BY <2>1
    <3>2. Append(<< >>, 1) = <<1>>
      OBVIOUS
    <3>3. Append(<<1>>, 2) = <<1, 2>>
      <4>1. Append(<<1>>, 2) \in Seq(Nat) /\ <<1, 2>> \in Seq(Nat)
        OBVIOUS
      <4>2. Len(Append(<<1>>, 2)) = 2 /\ Len(<<1, 2>>) = 2
        OBVIOUS
      <4>3. \A i \in 1 .. 2 : Append(<<1>>, 2)[i] = <<1, 2>>[i]
        OBVIOUS
      <4> QED BY <4>1, <4>2, <4>3, SeqEqual
    <3>4. Log(LogOf(d), Head(ms)) = Append(LogOf(d), d + 1)
      BY <1>4, <2>1 DEF Log
    <3> QED BY <3>1, <3>2, <3>3, <3>4 DEF LogOf
  <2>3. ASSUME NEW k \in 1 .. Len(ms) - 1, Tail(ms)[k] # 0
        PROVE  d + 1 < Tail(ms)[k] /\ Tail(ms)[k] <= n
    <3>1. ms[1] < ms[k + 1] /\ ms[k + 1] <= n
      BY <1>2, <1>4, <2>3 DEF Follows
    <3> QED BY <1>2, <2>1, <3>1
  <2>4. ASSUME NEW m \in 1 .. 2, d + 1 < m, m <= n
        PROVE  \E k \in 1 .. Len(ms) - 1 : Tail(ms)[k] = m
    <3>1. PICK k \in 1 .. Len(ms) : ms[k] = m
      BY <2>4 DEF Follows
    <3>2. k - 1 \in 1 .. Len(ms) - 1 /\ (k - 1) + 1 = k
      BY <1>2, <2>1, <2>4, <3>1
    <3> QED BY <1>2, <3>1, <3>2
  <2>5. Follows(d + 1, Tail(ms), n)
    BY <1>1, <1>2, <2>1, <2>3, <2>4 DEF Follows
  <2> QED BY <1>4, <2>1, <2>2, <2>5
<1> QED BY <1>3, <1>4

----------------------------------------------------------------------------
(* Steps of the other direction, and of the driver between its functions. *)

LEMMA RxUnchanged ==
  ASSUME RxInv, rx' = rx, rx_buffers' = rx_buffers, pc' = "probed" => pc = "probed",
         wire'.arrived = wire.arrived, wire'.delivered = wire.delivered
  PROVE  RxInv'
  BY DEF RxInv, RxTypeOK, RxOwned, RxOrder, RxMark

LEMMA TxUnchanged ==
  ASSUME TxInv, tx' = tx, tx_buffers' = tx_buffers, tx_free_mask' = tx_free_mask,
         wire'.accepted = wire.accepted, wire'.transmitted = wire.transmitted
  PROVE  TxInv'
  BY DEF TxInv, TxTypeOK, TxOwned, TxOrder

LEMMA Typing ==
  /\ IdOf \in [Elem -> RxBuffers]
  /\ rx_buffers \in [RxBuffers -> 0 .. 2] => RxMark \in [Elem -> 0 .. 2]
  /\ \A d \in 0 .. 2 : LogOf(d) \in Logs
  BY DEF IdOf, Elem, RxMark, LogOf, Logs

----------------------------------------------------------------------------
(* The RX queue. *)

LEMMA InitRxStep ==
  ASSUME IInv, init
  PROVE  IInv'
<1>1. WireOK' /\ TxInv'
  BY TxUnchanged DEF IInv, init, WireOK
<1>2. CASE rx' = rx
  BY <1>1, <1>2, RxUnchanged DEF IInv, init, goto
<1>3. CASE pc' = "idle" /\ rx' = populate_rx_queue(rx)
  <2>1. rx.held = {} /\ rx.returned = << >>
    BY DEF init, IInv, RxInv, RxTypeOK, queue_zero
  <2>2. rx'.held = {} /\ rx'.returned = << >> /\ rx'.published = [i \in 1 .. RX_BUFFERS |-> i - 1]
    BY <1>3, <2>1 DEF populate_rx_queue, IInv, RxInv, RxTypeOK
  <2>3. rx'.published \in Seq(RxBuffers) /\ DOMAIN rx'.published = 1 .. RX_BUFFERS
    <3>1. RX_BUFFERS \in Nat /\ \A i \in 1 .. RX_BUFFERS : i - 1 \in RxBuffers
      BY VirtioAssumption DEF RxBuffers
    <3> QED BY <2>2, <3>1
  <2>4. RxTypeOK'
    BY <1>3, <2>2, <2>3 DEF RxTypeOK, IInv, RxInv, init, populate_rx_queue, goto
  <2>5. Image(IdOf, << >>) = << >> /\ Distinct(<< >>) /\ Elements(<< >>) = {}
    BY EmptySeq DEF Image, Distinct, Elements
  <2>6. RxOwned'
    <3>1. Distinct(rx'.published)
      BY <2>2 DEF Distinct
    <3> QED BY <2>2, <2>5, <3>1 DEF RxOwned
  <2>7. RxOrder'
    <3>1. Image(RxMark', << >>) = << >> /\ Image(RxMark, << >>) = << >>
      BY EmptySeq DEF Image
    <3> QED BY <2>1, <2>2, <3>1 DEF RxOrder, IInv, RxInv, init
  <2> QED BY <1>1, <2>4, <2>6, <2>7 DEF IInv, RxInv
<1> QED BY <1>2, <1>3 DEF init, goto

LEMMA ReceiveStep ==
  ASSUME IInv, receive
  PROVE  IInv'
<1> DEFINE elem == Head(rx.returned)
<1>1. /\ rx.returned \in Seq(Elem) /\ rx.returned # << >> /\ elem \in Elem
      /\ elem.id \in RxBuffers /\ elem.short \in BOOLEAN
      /\ rx.published \in Seq(RxBuffers) /\ rx.held \subseteq RxBuffers
      /\ Tail(rx.returned) \in Seq(Elem)
  <2>1. rx.returned \in Seq(Elem) /\ rx.returned # << >>
    BY DEF receive, can_receive, IInv, RxInv, RxTypeOK
  <2>2. elem \in Elem /\ Tail(rx.returned) \in Seq(Elem)
    BY <2>1, HeadTailProperties
  <2> QED BY <2>1, <2>2 DEF Elem, IInv, RxInv, RxTypeOK
<1>2. TxInv'
  BY TxUnchanged DEF receive, IInv, WireOK
<1>3. /\ rx'.returned = Tail(rx.returned) /\ rx'.held = rx.held
      /\ rx'.published = IF elem.short THEN rx.published ELSE Append(rx.published, elem.id)
      /\ rx' \in [published : Seq(RxBuffers), held : SUBSET RxBuffers, returned : Seq(Elem)]
  <2>1. Append(rx.published, elem.id) \in Seq(RxBuffers)
    BY <1>1, AppendProperties
  <2> HIDE DEF elem
  <2>2. CASE elem.short
    BY <1>1, <2>1, <2>2 DEF receive, drop_entry, IInv, RxInv, RxTypeOK, elem
  <2>3. CASE ~elem.short
    BY <1>1, <2>1, <2>3 DEF receive, drop_entry, put_entry, IInv, RxInv, RxTypeOK, elem
  <2> QED BY <1>1, <2>2, <2>3
<1>4. /\ wire'.arrived = wire.arrived /\ wire'.accepted = wire.accepted
      /\ wire'.transmitted = wire.transmitted
      /\ wire'.delivered = Log(wire.delivered, RxMark[elem])
  <2>1. RxMark[elem] = IF elem.short THEN 0 ELSE rx_buffers[elem.id]
    BY <1>1 DEF RxMark
  <2> HIDE DEF elem
  <2>2. CASE elem.short
    BY <1>1, <2>1, <2>2 DEF receive, IInv, WireOK, elem, Log
  <2>3. CASE ~elem.short
    BY <1>1, <2>1, <2>3 DEF receive, rx_buffer, IInv, WireOK, elem
  <2> QED BY <1>1, <2>2, <2>3
<1>5. RxTypeOK'
  BY <1>3 DEF RxTypeOK, receive, goto, IInv, RxInv
<1>6. RxOwned'
  <2>1. /\ Image(IdOf, rx.returned) \in Seq(RxBuffers) /\ Image(IdOf, rx.returned) # << >>
        /\ Head(Image(IdOf, rx.returned)) = elem.id
        /\ Image(IdOf, rx'.returned) = Tail(Image(IdOf, rx.returned))
    <3>1. Image(IdOf, rx.returned) \in Seq(RxBuffers)
      BY <1>1, Typing, ImageLemma DEF IsImage
    <3>2. IdOf[elem] = elem.id
      BY <1>1 DEF IdOf
    <3>3. /\ Image(IdOf, rx.returned) # << >> /\ Head(Image(IdOf, rx.returned)) = IdOf[elem]
          /\ Image(IdOf, Tail(rx.returned)) = Tail(Image(IdOf, rx.returned))
      BY <1>1, ImageTail
    <3> QED BY <1>3, <3>1, <3>2, <3>3
  <2>2. /\ Distinct(Image(IdOf, rx'.returned)) /\ elem.id \in Elements(Image(IdOf, rx.returned))
        /\ Elements(Image(IdOf, rx'.returned)) = Elements(Image(IdOf, rx.returned)) \ {elem.id}
    BY <2>1, TailDistinct DEF IInv, RxInv, RxOwned
  <2>3. elem.id \notin Elements(rx.published) /\ elem.id \notin rx.held
    BY <2>2 DEF IInv, RxInv, RxOwned
  <2>4. /\ Distinct(Append(rx.published, elem.id))
        /\ Elements(Append(rx.published, elem.id)) = Elements(rx.published) \cup {elem.id}
    BY <1>1, <2>3, AppendDistinct DEF IInv, RxInv, RxOwned
  <2> QED BY <1>3, <2>2, <2>3, <2>4 DEF IInv, RxInv, RxOwned
<1>7. RxOrder' /\ wire'.delivered \in Logs
  <2>1. PICK d \in 0 .. 2 :
          wire.delivered = LogOf(d) /\ Follows(d, Image(RxMark, rx.returned), wire.arrived)
    BY DEF IInv, RxInv, RxOrder
  <2>2. RxMark' = RxMark /\ RxMark \in [Elem -> 0 .. 2]
    BY Typing DEF RxMark, receive, IInv, RxInv, RxTypeOK
  <2>3. /\ Image(RxMark, rx.returned) # << >> /\ Head(Image(RxMark, rx.returned)) = RxMark[elem]
        /\ Image(RxMark', rx'.returned) = Tail(Image(RxMark, rx.returned))
    <3>1. /\ Image(RxMark, rx.returned) # << >>
          /\ Head(Image(RxMark, rx.returned)) = RxMark[elem]
          /\ Image(RxMark, Tail(rx.returned)) = Tail(Image(RxMark, rx.returned))
      BY <1>1, ImageTail
    <3> QED BY <1>3, <2>2, <3>1
  <2>4. PICK e \in 0 .. 2 :
          /\ Log(LogOf(d), RxMark[elem]) = LogOf(e)
          /\ Follows(e, Tail(Image(RxMark, rx.returned)), wire.arrived)
    BY <2>1, <2>3, FollowsTail
  <2> QED BY <1>4, <2>1, <2>3, <2>4, Typing DEF RxOrder
<1>8. WireOK'
  BY <1>4, <1>7 DEF WireOK, IInv, receive
<1> QED BY <1>2, <1>5, <1>6, <1>7, <1>8 DEF IInv, RxInv

LEMMA DeviceTakesRxStep ==
  ASSUME IInv, DeviceTakesRx
  PROVE  IInv'
<1>1. /\ rx.published \in Seq(RxBuffers) /\ rx.published # << >> /\ rx.held \subseteq RxBuffers
      /\ rx.returned \in Seq(Elem)
  BY DEF DeviceTakesRx, IInv, RxInv, RxTypeOK
<1>2. /\ rx'.published = Tail(rx.published) /\ rx'.returned = rx.returned
      /\ rx'.held = rx.held \cup {Head(rx.published)}
      /\ rx' \in [published : Seq(RxBuffers), held : SUBSET RxBuffers, returned : Seq(Elem)]
      /\ pc # "probed"
  <2>1. Tail(rx.published) \in Seq(RxBuffers) /\ Head(rx.published) \in RxBuffers
    BY <1>1, HeadTailProperties
  <2>2. pc # "probed"
    BY <1>1 DEF IInv, RxInv, RxTypeOK, queue_zero
  <2>3. rx' = [rx EXCEPT !.published = Tail(@), !.held = @ \cup {Head(rx.published)}]
    BY DEF DeviceTakesRx, take
  <2> QED BY <1>1, <2>1, <2>2, <2>3 DEF IInv, RxInv, RxTypeOK
<1>3. /\ Distinct(Tail(rx.published)) /\ Head(rx.published) \in Elements(rx.published)
      /\ Elements(Tail(rx.published)) = Elements(rx.published) \ {Head(rx.published)}
  BY <1>1, TailDistinct DEF IInv, RxInv, RxOwned
<1>4. RxOwned'
  BY <1>2, <1>3 DEF IInv, RxInv, RxOwned
<1>5. RxTypeOK' /\ RxOrder'
  BY <1>2 DEF RxTypeOK, RxOrder, RxMark, DeviceTakesRx, IInv, RxInv
<1>6. WireOK' /\ TxInv'
  BY TxUnchanged DEF IInv, DeviceTakesRx, WireOK
<1> QED BY <1>4, <1>5, <1>6 DEF IInv, RxInv

(* What an RX buffer is returned with. *)
LEMMA GiveBackRx ==
  ASSUME IInv, NEW b \in rx.held, NEW elem \in Elem, elem.id = b,
         rx' = give_back(rx, b, elem)
  PROVE  /\ rx'.published = rx.published /\ rx'.held = rx.held \ {b}
         /\ rx'.returned = Append(rx.returned, elem)
         /\ rx.returned \in Seq(Elem) /\ pc # "probed" /\ b \in RxBuffers
         /\ rx' \in [published : Seq(RxBuffers), held : SUBSET RxBuffers, returned : Seq(Elem)]
         /\ RxOwned'
         /\ \A x \in Elements(rx.returned) : x \in Elem /\ x.id # b
<1>1. /\ rx.published \in Seq(RxBuffers) /\ rx.held \subseteq RxBuffers
      /\ rx.returned \in Seq(Elem)
  BY DEF IInv, RxInv, RxTypeOK
<1>2. /\ rx'.published = rx.published /\ rx'.held = rx.held \ {b}
      /\ rx'.returned = Append(rx.returned, elem) /\ pc # "probed" /\ b \in RxBuffers
      /\ rx' \in [published : Seq(RxBuffers), held : SUBSET RxBuffers, returned : Seq(Elem)]
  <2>1. Append(rx.returned, elem) \in Seq(Elem)
    BY <1>1, AppendProperties
  <2>2. pc # "probed"
    BY DEF IInv, RxInv, RxTypeOK, queue_zero
  <2>3. rx' = [rx EXCEPT !.held = @ \ {b}, !.returned = Append(@, elem)]
    BY DEF give_back
  <2> QED BY <1>1, <2>1, <2>2, <2>3 DEF IInv, RxInv, RxTypeOK
<1>3. /\ Image(IdOf, rx.returned) \in Seq(RxBuffers)
      /\ Image(IdOf, Append(rx.returned, elem)) = Append(Image(IdOf, rx.returned), b)
  <2>1. Image(IdOf, rx.returned) \in Seq(RxBuffers)
    BY <1>1, Typing, ImageLemma DEF IsImage
  <2>2. IdOf[elem] = b
    BY DEF IdOf
  <2>3. Image(IdOf, Append(rx.returned, elem)) = Append(Image(IdOf, rx.returned), IdOf[elem])
    BY <1>1, ImageAppend
  <2> QED BY <2>1, <2>2, <2>3
<1>4. b \notin Elements(Image(IdOf, rx.returned)) /\ b \notin Elements(rx.published)
  BY DEF IInv, RxInv, RxOwned
<1>5. /\ Distinct(Append(Image(IdOf, rx.returned), b))
      /\ Elements(Append(Image(IdOf, rx.returned), b)) = Elements(Image(IdOf, rx.returned)) \cup {b}
  BY <1>2, <1>3, <1>4, AppendDistinct DEF IInv, RxInv, RxOwned
<1>6. RxOwned'
  BY <1>2, <1>3, <1>4, <1>5 DEF IInv, RxInv, RxOwned
<1>7. \A x \in Elements(rx.returned) : x \in Elem /\ x.id # b
  <2> TAKE x \in Elements(rx.returned)
  <2>1. PICK k \in DOMAIN rx.returned : rx.returned[k] = x
    BY DEF Elements
  <2>2. x \in Elem
    BY <1>1, <2>1, ElementOfSeq, LenProperties
  <2>3. x.id \in Elements(Image(IdOf, rx.returned))
    BY <2>1, <2>2 DEF Image, IdOf, Elements
  <2> QED BY <1>4, <2>2, <2>3
<1> QED BY <1>1, <1>2, <1>6, <1>7

LEMMA DeviceReceivesStep ==
  ASSUME IInv, DeviceReceives
  PROVE  IInv'
<1>1. PICK b \in rx.held :
        /\ \/ rx' = give_back(rx, b, [id |-> b, short |-> TRUE]) /\ UNCHANGED <<rx_buffers, wire>>
           \/ \E frame \in NextFrames(wire.arrived) :
                /\ rx_buffers' = [rx_buffers EXCEPT ![b] = frame]
                /\ wire' = [wire EXCEPT !.arrived = Marks(@, frame)]
                /\ rx' = give_back(rx, b, [id |-> b, short |-> FALSE])
        /\ UNCHANGED <<pc, initialized, tx, tx_buffers, tx_free_mask>>
  BY DEF DeviceReceives
<1>2. b \in RxBuffers /\ \A s \in BOOLEAN : [id |-> b, short |-> s] \in Elem
  BY DEF IInv, RxInv, RxTypeOK, Elem
<1>3. PICK d \in 0 .. 2 :
        wire.delivered = LogOf(d) /\ Follows(d, Image(RxMark, rx.returned), wire.arrived)
  BY DEF IInv, RxInv, RxOrder
<1>4. ASSUME NEW elem \in Elem, elem.id = b, rx' = give_back(rx, b, elem),
             NEW f \in NextFrames(wire.arrived),
             rx_buffers' \in [RxBuffers -> 0 .. 2],
             \A c \in RxBuffers \ {b} : rx_buffers'[c] = rx_buffers[c],
             f = IF elem.short THEN 0 ELSE rx_buffers'[b],
             wire'.arrived = Marks(wire.arrived, f), wire'.delivered = wire.delivered
      PROVE  RxInv'
  <2>1. /\ rx'.returned = Append(rx.returned, elem)
        /\ rx.returned \in Seq(Elem) /\ pc # "probed"
        /\ rx' \in [published : Seq(RxBuffers), held : SUBSET RxBuffers, returned : Seq(Elem)]
        /\ RxOwned'
        /\ \A x \in Elements(rx.returned) : x \in Elem /\ x.id # b
    BY <1>4, GiveBackRx
  <2>2. RxTypeOK'
    BY <1>1, <1>4, <2>1 DEF RxTypeOK
  <2>3. Image(RxMark', rx.returned) = Image(RxMark, rx.returned)
    <3>1. \A x \in Elements(rx.returned) : RxMark'[x] = RxMark[x]
      BY <1>4, <2>1 DEF RxMark, Elem
    <3> QED BY <3>1, ImageSame
  <2>4. RxMark'[elem] = f
    BY <1>4 DEF RxMark
  <2>5. Image(RxMark', rx'.returned) = Append(Image(RxMark, rx.returned), f)
    <3>1. Image(RxMark', Append(rx.returned, elem)) = Append(Image(RxMark', rx.returned), RxMark'[elem])
      BY <2>1, ImageAppend
    <3> QED BY <2>1, <2>3, <2>4, <3>1
  <2>6. Follows(d, Append(Image(RxMark, rx.returned), f), Marks(wire.arrived, f))
    BY <1>3, <1>4, FollowsAppend
  <2>7. RxOrder'
    BY <1>3, <1>4, <2>5, <2>6 DEF RxOrder
  <2> QED BY <2>1, <2>2, <2>7 DEF RxInv
<1>5. CASE rx' = give_back(rx, b, [id |-> b, short |-> TRUE]) /\ UNCHANGED <<rx_buffers, wire>>
  <2>1. 0 \in NextFrames(wire.arrived) /\ Marks(wire.arrived, 0) = wire.arrived
    BY DEF NextFrames, Marks
  <2>2. RxInv'
    BY <1>2, <1>4, <1>5, <2>1 DEF IInv, RxInv, RxTypeOK
  <2> QED BY <1>1, <1>5, <2>2, TxUnchanged DEF IInv, WireOK
<1>6. ASSUME NEW frame \in NextFrames(wire.arrived),
             rx_buffers' = [rx_buffers EXCEPT ![b] = frame],
             wire' = [wire EXCEPT !.arrived = Marks(@, frame)],
             rx' = give_back(rx, b, [id |-> b, short |-> FALSE])
      PROVE  IInv'
  <2>1. Marks(wire.arrived, frame) \in 0 .. 2 /\ frame \in 0 .. 2
    BY <1>3, FollowsAppend
  <2>2. /\ WireOK' /\ wire'.arrived = Marks(wire.arrived, frame) /\ wire'.delivered = wire.delivered
        /\ wire'.accepted = wire.accepted /\ wire'.transmitted = wire.transmitted
    BY <1>6, <2>1 DEF IInv, WireOK
  <2>3. /\ rx_buffers' \in [RxBuffers -> 0 .. 2] /\ rx_buffers'[b] = frame
        /\ \A c \in RxBuffers \ {b} : rx_buffers'[c] = rx_buffers[c]
    BY <1>2, <1>6, <2>1 DEF IInv, RxInv, RxTypeOK
  <2>4. RxInv'
    BY <1>2, <1>4, <1>6, <2>2, <2>3
  <2> QED BY <1>1, <2>2, <2>4, TxUnchanged DEF IInv
<1> QED BY <1>1, <1>5, <1>6

----------------------------------------------------------------------------
(* The TX queue. *)

LEMMA ReclaimTxStep ==
  ASSUME IInv, reclaim_tx
  PROVE  IInv'
<1>1. WireOK' /\ RxInv'
  BY RxUnchanged DEF IInv, WireOK, reclaim_tx, goto
<1>2. CASE tx' = tx /\ tx_free_mask' = tx_free_mask
  BY <1>1, <1>2, TxUnchanged DEF IInv, reclaim_tx
<1>3. CASE /\ tx.returned # << >> /\ tx' = drop_entry(tx)
           /\ tx_free_mask' = freed(Head(tx.returned))
  <2>1. tx.returned \in Seq(TxBuffers) /\ tx.published \in Seq(TxBuffers)
    BY DEF IInv, TxInv, TxTypeOK
  <2>2. Tail(tx.returned) \in Seq(TxBuffers) /\ Head(tx.returned) \in TxBuffers
    BY <1>3, <2>1, HeadTailProperties
  <2>3. /\ tx'.returned = Tail(tx.returned) /\ tx'.published = tx.published /\ tx'.held = tx.held
        /\ tx_free_mask' = tx_free_mask \cup {Head(tx.returned)}
        /\ TxTypeOK'
    BY <1>3, <2>1, <2>2 DEF drop_entry, freed, IInv, TxInv, TxTypeOK, reclaim_tx
  <2>4. /\ Distinct(Tail(tx.returned)) /\ Head(tx.returned) \in Elements(tx.returned)
        /\ Elements(Tail(tx.returned)) = Elements(tx.returned) \ {Head(tx.returned)}
    BY <1>3, <2>1, TailDistinct DEF IInv, TxInv, TxOwned
  <2>5. TxOwned'
    BY <2>3, <2>4 DEF IInv, TxInv, TxOwned
  <2>6. TxOrder'
    BY <2>3 DEF IInv, TxInv, TxOrder, reclaim_tx
  <2> QED BY <1>1, <2>3, <2>5, <2>6 DEF IInv, TxInv
<1> QED BY <1>2, <1>3 DEF reclaim_tx

LEMMA TransmitStep ==
  ASSUME IInv, transmit
  PROVE  IInv'
<1>1. CASE UNCHANGED <<tx_free_mask, tx_buffers, tx, wire>>
  BY <1>1, RxUnchanged, TxUnchanged DEF IInv, WireOK, transmit, goto
<1>2. CASE tx_free_mask # {} /\ ~UNCHANGED <<tx_free_mask, tx_buffers, tx, wire>>
  <2> DEFINE buf == Lowest(tx_free_mask)
  <2>1. buf \in tx_free_mask /\ buf \in TxBuffers
    <3>1. tx_free_mask \subseteq TxBuffers /\ tx_free_mask \subseteq Nat
      BY VirtioAssumption DEF IInv, TxInv, TxTypeOK, TxBuffers
    <3>2. \E b \in tx_free_mask : \A c \in tx_free_mask : b <= c
      BY <1>2, <3>1, LeastNumber
    <3> QED BY <3>1, <3>2 DEF Lowest
  <2> HIDE DEF buf
  <2>2. PICK frame \in NextFrames(wire.accepted) :
          /\ tx_free_mask' = tx_free_mask \ {buf}
          /\ tx_buffers' = [tx_buffers EXCEPT ![buf] = frame]
          /\ wire' = [wire EXCEPT !.accepted = Marks(@, frame)]
          /\ tx' = put_entry(tx, buf)
    BY <1>2 DEF transmit, buf, marked_used, filled
  <2>3. PICK d \in 0 .. 2 :
          wire.transmitted = LogOf(d) /\ Follows(d, Image(tx_buffers, tx.published), wire.accepted)
    BY DEF IInv, TxInv, TxOrder
  <2>4. /\ Marks(wire.accepted, frame) \in 0 .. 2 /\ frame \in 0 .. 2
        /\ Follows(d, Append(Image(tx_buffers, tx.published), frame), Marks(wire.accepted, frame))
    BY <2>3, FollowsAppend
  <2>5. /\ WireOK' /\ wire'.accepted = Marks(wire.accepted, frame)
        /\ wire'.transmitted = wire.transmitted
        /\ wire'.arrived = wire.arrived /\ wire'.delivered = wire.delivered
    BY <2>2, <2>4 DEF IInv, WireOK
  <2>6. tx.published \in Seq(TxBuffers)
    BY DEF IInv, TxInv, TxTypeOK
  <2>7. buf \notin Elements(tx.published)
    BY <2>1 DEF IInv, TxInv, TxOwned
  <2>8. /\ Append(tx.published, buf) \in Seq(TxBuffers) /\ Distinct(Append(tx.published, buf))
        /\ Elements(Append(tx.published, buf)) = Elements(tx.published) \cup {buf}
    BY <2>1, <2>6, <2>7, AppendDistinct DEF IInv, TxInv, TxOwned
  <2>9. /\ tx'.published = Append(tx.published, buf) /\ tx'.held = tx.held
        /\ tx'.returned = tx.returned /\ TxTypeOK'
    BY <2>1, <2>2, <2>4, <2>8 DEF put_entry, IInv, TxInv, TxTypeOK
  <2>10. TxOwned'
    BY <2>1, <2>2, <2>8, <2>9 DEF IInv, TxInv, TxOwned
  <2>11. Image(tx_buffers', tx'.published) = Append(Image(tx_buffers, tx.published), frame)
    <3>1. tx_buffers'[buf] = frame
      BY <2>1, <2>2 DEF IInv, TxInv, TxTypeOK
    <3>2. \A x \in Elements(tx.published) : tx_buffers'[x] = tx_buffers[x]
      BY <2>2, <2>7 DEF IInv, TxInv, TxTypeOK
    <3>3. Image(tx_buffers', tx.published) = Image(tx_buffers, tx.published)
      BY <3>2, ImageSame
    <3>4. Image(tx_buffers', Append(tx.published, buf)) =
            Append(Image(tx_buffers', tx.published), tx_buffers'[buf])
      BY <2>1, <2>6, ImageAppend
    <3> QED BY <2>9, <3>1, <3>3, <3>4
  <2>12. TxOrder'
    BY <2>3, <2>4, <2>5, <2>11 DEF TxOrder
  <2>13. RxInv'
    BY <2>5, RxUnchanged DEF IInv, transmit, goto
  <2> QED BY <2>5, <2>9, <2>10, <2>12, <2>13 DEF IInv, TxInv
<1> QED BY <1>1, <1>2 DEF transmit

LEMMA DeviceSendsStep ==
  ASSUME IInv, DeviceSends
  PROVE  IInv'
<1>1. tx.published \in Seq(TxBuffers) /\ tx.published # << >> /\ tx.held \subseteq TxBuffers
  BY DEF DeviceSends, IInv, TxInv, TxTypeOK
<1>2. Tail(tx.published) \in Seq(TxBuffers) /\ Head(tx.published) \in TxBuffers
  BY <1>1, HeadTailProperties
<1>3. /\ tx'.published = Tail(tx.published) /\ tx'.returned = tx.returned
      /\ tx'.held = tx.held \cup {Head(tx.published)} /\ TxTypeOK'
  BY <1>1, <1>2 DEF DeviceSends, take, IInv, TxInv, TxTypeOK
<1>4. /\ Distinct(Tail(tx.published)) /\ Head(tx.published) \in Elements(tx.published)
      /\ Elements(Tail(tx.published)) = Elements(tx.published) \ {Head(tx.published)}
  BY <1>1, TailDistinct DEF IInv, TxInv, TxOwned
<1>5. TxOwned'
  BY <1>3, <1>4 DEF IInv, TxInv, TxOwned, DeviceSends
<1>6. /\ wire'.transmitted = Log(wire.transmitted, tx_buffers[Head(tx.published)])
      /\ wire'.arrived = wire.arrived /\ wire'.delivered = wire.delivered
      /\ wire'.accepted = wire.accepted
  BY DEF DeviceSends, IInv, WireOK
<1>7. TxOrder' /\ wire'.transmitted \in Logs
  <2>1. PICK d \in 0 .. 2 :
          wire.transmitted = LogOf(d) /\ Follows(d, Image(tx_buffers, tx.published), wire.accepted)
    BY DEF IInv, TxInv, TxOrder
  <2>2. /\ Image(tx_buffers, tx.published) # << >>
        /\ Head(Image(tx_buffers, tx.published)) = tx_buffers[Head(tx.published)]
        /\ Image(tx_buffers, Tail(tx.published)) = Tail(Image(tx_buffers, tx.published))
    BY <1>1, ImageTail
  <2>3. PICK e \in 0 .. 2 :
          /\ Log(LogOf(d), Head(Image(tx_buffers, tx.published))) = LogOf(e)
          /\ Follows(e, Tail(Image(tx_buffers, tx.published)), wire.accepted)
    BY <2>1, <2>2, FollowsTail
  <2>4. tx_buffers' = tx_buffers
    BY DEF DeviceSends
  <2> QED BY <1>3, <1>6, <2>1, <2>2, <2>3, <2>4, Typing DEF TxOrder
<1>8. WireOK'
  BY <1>6, <1>7 DEF WireOK, IInv, DeviceSends
<1>9. RxInv'
  BY <1>6, RxUnchanged DEF IInv, DeviceSends
<1> QED BY <1>3, <1>5, <1>7, <1>8, <1>9 DEF IInv, TxInv

LEMMA DeviceCompletesStep ==
  ASSUME IInv, NEW b \in TxBuffers, DeviceCompletes(b)
  PROVE  IInv'
<1>1. tx.returned \in Seq(TxBuffers) /\ b \in tx.held
  BY DEF DeviceCompletes, IInv, TxInv, TxTypeOK
<1>2. b \notin Elements(tx.returned)
  BY <1>1 DEF IInv, TxInv, TxOwned
<1>3. /\ Append(tx.returned, b) \in Seq(TxBuffers) /\ Distinct(Append(tx.returned, b))
      /\ Elements(Append(tx.returned, b)) = Elements(tx.returned) \cup {b}
  BY <1>1, <1>2, AppendDistinct DEF IInv, TxInv, TxOwned
<1>4. /\ tx'.returned = Append(tx.returned, b) /\ tx'.published = tx.published
      /\ tx'.held = tx.held \ {b} /\ TxTypeOK'
  BY <1>1, <1>3 DEF DeviceCompletes, give_back, IInv, TxInv, TxTypeOK
<1>5. TxOwned'
  BY <1>1, <1>3, <1>4 DEF IInv, TxInv, TxOwned, DeviceCompletes
<1>6. TxOrder'
  BY <1>4 DEF IInv, TxInv, TxOrder, DeviceCompletes
<1>7. WireOK' /\ RxInv'
  BY RxUnchanged DEF IInv, DeviceCompletes, WireOK
<1> QED BY <1>4, <1>5, <1>6, <1>7 DEF IInv, TxInv

----------------------------------------------------------------------------
LEMMA InitLemma ==
  ASSUME Init
  PROVE  IInv
<1>1. /\ DOMAIN << >> = {} /\ Distinct(<< >>) /\ Elements(<< >>) = {}
      /\ \A f : Image(f, << >>) = << >>
  BY EmptySeq DEF Image, Distinct, Elements
<1>2. /\ rx = queue_zero /\ tx = queue_zero
      /\ queue_zero.published = << >> /\ queue_zero.held = {} /\ queue_zero.returned = << >>
  BY DEF Init, queue_zero
<1>3. RxTypeOK /\ TxTypeOK
  <2>1. rx_buffers \in [RxBuffers -> 0 .. 2] /\ tx_buffers \in [TxBuffers -> 0 .. 2]
    BY DEF Init
  <2>2. << >> \in Seq(RxBuffers) /\ << >> \in Seq(TxBuffers) /\ << >> \in Seq(Elem)
    BY EmptySeq
  <2> QED BY <2>1, <2>2 DEF Init, queue_zero, RxTypeOK, TxTypeOK
<1>4. RxOwned /\ TxOwned
  BY <1>1, <1>2 DEF RxOwned, TxOwned, Init
<1>5. WireOK /\ wire.delivered = LogOf(0) /\ wire.transmitted = LogOf(0)
      /\ wire.arrived = 0 /\ wire.accepted = 0
  BY DEF Init, WireOK, Logs, LogOf
<1>6. Follows(0, << >>, 0)
  BY EmptySeq DEF Follows
<1>7. RxOrder /\ TxOrder
  BY <1>1, <1>2, <1>5, <1>6 DEF RxOrder, TxOrder
<1> QED BY <1>3, <1>4, <1>5, <1>7 DEF IInv, RxInv, TxInv

LEMMA NextLemma ==
  ASSUME IInv, [Next]_vars
  PROVE  IInv'
<1>1. CASE \/ handle_interrupt \/ poll \/ poll_end \/ poll_transmit \/ poll_no_answer
           \/ UNCHANGED vars
  <2>1. /\ UNCHANGED <<rx, rx_buffers, tx, tx_buffers, tx_free_mask, wire>>
        /\ pc' = "probed" => pc = "probed"
    BY <1>1 DEF handle_interrupt, poll, poll_end, poll_transmit, poll_no_answer, idle_vars,
                goto, vars
  <2>2. WireOK'
    BY <2>1 DEF IInv, WireOK
  <2> QED BY <2>1, <2>2, RxUnchanged, TxUnchanged DEF IInv
<1>2. CASE Failed
  BY <1>1, <1>2 DEF Failed
<1>3. CASE init \/ receive \/ DeviceTakesRx \/ DeviceReceives
  BY <1>3, InitRxStep, ReceiveStep, DeviceTakesRxStep, DeviceReceivesStep
<1>4. CASE reclaim_tx \/ transmit \/ DeviceSends \/ \E b \in TxBuffers : DeviceCompletes(b)
  BY <1>4, ReclaimTxStep, TransmitStep, DeviceSendsStep, DeviceCompletesStep
<1> QED BY <1>1, <1>2, <1>3, <1>4 DEF Next, Driver

LEMMA Inductive == Spec => []IInv
<1>1. Init => IInv
  BY InitLemma
<1>2. IInv /\ [Next]_vars => IInv'
  BY NextLemma
<1> QED BY <1>1, <1>2, PTL DEF Spec

(* The counts of the two invariants, from what is disjoint and distinct. *)
LEMMA OwnersCounted ==
  ASSUME IInv
  PROVE  BuffersHaveOneOwner
<1>1. ASSUME NEW b \in RxBuffers
      PROVE  RxPlaces(b) <= 1
  <2>1. Cardinality({k \in DOMAIN rx.published : rx.published[k] = b}) =
          IF b \in Elements(rx.published) THEN 1 ELSE 0
    BY CountLemma DEF IInv, RxInv, RxOwned
  <2>2. Cardinality({k \in DOMAIN rx.returned : rx.returned[k].id = b}) =
          IF b \in Elements(Image(IdOf, rx.returned)) THEN 1 ELSE 0
    <3>1. /\ DOMAIN Image(IdOf, rx.returned) = DOMAIN rx.returned
          /\ \A k \in DOMAIN rx.returned : Image(IdOf, rx.returned)[k] = rx.returned[k].id
      <4>1. \A k \in DOMAIN rx.returned : rx.returned[k] \in Elem
        BY ElementOfSeq, LenProperties DEF IInv, RxInv, RxTypeOK
      <4> QED BY <4>1 DEF Image, IdOf
    <3>2. {k \in DOMAIN rx.returned : rx.returned[k].id = b} =
            {k \in DOMAIN Image(IdOf, rx.returned) : Image(IdOf, rx.returned)[k] = b}
      BY <3>1
    <3> QED BY <3>2, CountLemma DEF IInv, RxInv, RxOwned
  <2>3. RxPlaces(b) = (IF b \in Elements(rx.published) THEN 1 ELSE 0)
                      + (IF b \in Elements(Image(IdOf, rx.returned)) THEN 1 ELSE 0)
                      + (IF b \in rx.held THEN 1 ELSE 0)
    BY <2>1, <2>2 DEF RxPlaces, Count, One
  <2> QED BY <2>3 DEF IInv, RxInv, RxOwned
<1>2. ASSUME NEW b \in TxBuffers
      PROVE  TxPlaces(b) = 1
  <2>1. Cardinality({k \in DOMAIN tx.published : tx.published[k] = b}) =
          IF b \in Elements(tx.published) THEN 1 ELSE 0
    BY CountLemma DEF IInv, TxInv, TxOwned
  <2>2. Cardinality({k \in DOMAIN tx.returned : tx.returned[k] = b}) =
          IF b \in Elements(tx.returned) THEN 1 ELSE 0
    BY CountLemma DEF IInv, TxInv, TxOwned
  <2>3. TxPlaces(b) = (IF b \in Elements(tx.published) THEN 1 ELSE 0)
                      + (IF b \in Elements(tx.returned) THEN 1 ELSE 0)
                      + (IF b \in tx.held THEN 1 ELSE 0)
                      + (IF b \in tx_free_mask THEN 1 ELSE 0)
    BY <2>1, <2>2 DEF TxPlaces, Count, One
  <2> QED BY <2>3 DEF IInv, TxInv, TxOwned
<1> QED BY <1>1, <1>2 DEF BuffersHaveOneOwner

(***************************************************************************)
(* Whatever the device does between two steps of the driver, a buffer is   *)
(* free, published, with the device, or coming back; and the bits that     *)
(* transmit() clears and reclaim_tx() sets again lose no TX buffer.        *)
(***************************************************************************)
THEOREM OneOwner == Spec => []BuffersHaveOneOwner
<1>1. IInv => BuffersHaveOneOwner
  BY OwnersCounted
<1> QED BY <1>1, Inductive, PTL

(***************************************************************************)
(* receive() hands frames to the stack, and the device sends what          *)
(* transmit() was given, whole, once and in order: neither writes to a     *)
(* buffer whose frame is still on its way.                                 *)
(***************************************************************************)
THEOREM InOrder == Spec => []FramesInOrder
<1>1. IInv => FramesInOrder
  BY DEF IInv, WireOK, Logs, FramesInOrder
<1> QED BY <1>1, Inductive, PTL

=============================================================================
