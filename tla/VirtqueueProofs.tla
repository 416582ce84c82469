--------------------------- MODULE VirtqueueProofs --------------------------
(***************************************************************************)
(* The proof that a split virtqueue is two queues of buffers, for every    *)
(* ring size, number of buffers and width of the indices the driver's      *)
(* constants allow.                                                        *)
(***************************************************************************)
EXTENDS Virtqueue, DataLemmas

(* The values of an index. *)
Index == 0 .. U16 - 1

----------------------------------------------------------------------------
(* The constants, as plain inequalities. *)
LEMMA Sizes ==
  /\ QUEUE_SIZE \in Int /\ BUFFERS \in Int /\ U16 \in Int
  /\ 0 < BUFFERS /\ BUFFERS <= QUEUE_SIZE /\ QUEUE_SIZE < U16
  BY VirtqueueAssumption

(* Small numbers are their own remainders. *)
LEMMA ModSmall ==
  ASSUME NEW a \in Int, NEW n \in Int, 0 <= a, a < n
  PROVE  a % n = a
  BY Z3

(* Adding a multiple of n changes nothing. *)
LEMMA ModShift ==
  ASSUME NEW a \in Int, NEW n \in Int, n > 0, NEW m \in Int
  PROVE  (a + n * m) % n = a % n
<1>1. PICK q \in Int, r \in Int : a = n * q + r /\ r = a % n /\ 0 <= r /\ r < n
  <2>1. PICK q \in Int : q = a \div n
    BY Z3
  <2>2. PICK r \in Int : r = a % n /\ 0 <= r /\ r < n
    BY Z3
  <2> QED BY <2>1, <2>2, ModRange, Z3
<1>2. PICK b \in Int, p \in Int : b = a + n * m /\ p = q + m
  BY Z3
<1>3. n * p = n * q + n * m
  BY <1>2, Z3
<1>4. a = n * q + r
  BY <1>1
<1>5. b = n * p + r
  BY <1>2, <1>3, <1>4, Z3
<1>6. b % n = r
  BY <1>1, <1>5, ModUnique
<1> QED BY <1>1, <1>2, <1>6

(* How many entries lie between two indices. *)
LEMMA DistanceLemma ==
  ASSUME NEW from \in Index, NEW to \in Index
  PROVE  (to - from) % U16 = IF to >= from THEN to - from ELSE to - from + U16
<1>1. from \in Int /\ to \in Int /\ 0 <= from /\ 0 <= to /\ from < U16 /\ to < U16
  BY Sizes DEF Index
<1>2. CASE to >= from
  BY <1>1, <1>2, Sizes, ModSmall, Z3
<1>3. CASE to < from
  <2>1. PICK a \in Int, r \in Int : a = to - from /\ r = to - from + U16
    BY <1>1, Sizes, Z3
  <2>2. a = U16 * (-1) + r /\ 0 <= r /\ r < U16
    BY <1>1, <1>3, <2>1, Sizes, Z3
  <2>3. a % U16 = r
    BY <2>2, Sizes, ModUnique, Z3
  <2> QED BY <1>1, <1>3, <2>1, <2>3, Z3
<1> QED BY <1>1, <1>2, <1>3

(* The next index. *)
LEMMA WrapLemma ==
  ASSUME NEW i \in Index
  PROVE  /\ wrapping_add(i, 1) \in Index
         /\ wrapping_add(i, 1) = IF i = U16 - 1 THEN 0 ELSE i + 1
<1>1. i \in Int /\ 0 <= i /\ i < U16
  BY Sizes DEF Index
<1>2. CASE i = U16 - 1
  <2>1. U16 % U16 = 0
    BY Sizes, ModUnique, Z3
  <2> QED BY <1>2, <2>1, Sizes DEF wrapping_add, Index
<1>3. CASE i # U16 - 1
  <2>1. (i + 1) % U16 = i + 1
    BY <1>1, <1>3, Sizes, ModSmall, Z3
  <2> QED BY <1>1, <1>3, <2>1, Sizes DEF wrapping_add, Index
<1> QED BY <1>2, <1>3

(* Wrapping an index does not move its slot: the ring size divides 2^16. *)
LEMMA SlotPeriod ==
  ASSUME NEW i \in Int
  PROVE  slot(i) \in 0 .. QUEUE_SIZE - 1 /\ slot(i + U16) = slot(i)
<1>1. slot(i) \in 0 .. QUEUE_SIZE - 1
  BY Sizes, ModRange DEF slot
<1>2. PICK m \in Int : m = U16 \div QUEUE_SIZE
  BY Sizes, ModRange
<1>3. U16 % QUEUE_SIZE = 0 /\ QUEUE_SIZE > 0
  BY Sizes, VirtqueueAssumption
<1>4. U16 = QUEUE_SIZE * m
  BY <1>2, <1>3, Sizes, ModRange, Z3
<1>5. (i + QUEUE_SIZE * m) % QUEUE_SIZE = i % QUEUE_SIZE
  <2>1. QUEUE_SIZE \in Int /\ QUEUE_SIZE > 0
    BY Sizes, Z3
  <2> QED BY <2>1, ModShift
<1> QED BY <1>1, <1>4, <1>5 DEF slot

(* Indices less than a round apart have different slots. *)
LEMMA SlotDistinct ==
  ASSUME NEW i \in Int, NEW d \in Int, 0 < d, d < QUEUE_SIZE
  PROVE  slot(i + d) # slot(i)
<1>1. PICK q \in Int, r \in Int, Q \in Int :
        /\ Q = QUEUE_SIZE /\ q = i \div Q /\ r = i % Q
        /\ i = Q * q + r /\ 0 <= r /\ r < Q /\ Q > 0
  BY Sizes, ModRange
<1>2. PICK a \in Int : a = i + d
  BY Z3
<1>3. CASE r + d < Q
  <2>1. PICK e \in Int : e = r + d /\ 0 <= e /\ e < Q
    BY <1>1, <1>3, Z3
  <2>2. a = Q * q + e
    BY <1>1, <1>2, <2>1, Z3
  <2>3. a % Q = e
    BY <1>1, <2>1, <2>2, ModUnique, Z3
  <2> QED BY <1>1, <1>2, <2>1, <2>3 DEF slot
<1>4. CASE r + d >= Q
  <2>1. PICK e \in Int, p \in Int : e = r + d - Q /\ 0 <= e /\ e < r /\ p = q + 1
    BY <1>1, <1>4, Z3
  <2>2. Q * p = Q * q + Q
    BY <2>1, Z3
  <2>3. a = Q * p + e
    BY <1>1, <1>2, <2>1, <2>2, Z3
  <2>4. 0 <= e /\ e < Q /\ Q > 0
    BY <1>1, <2>1, Z3
  <2>5. a % Q = e
    BY <2>3, <2>4, ModUnique, Z3
  <2> QED BY <1>1, <1>2, <2>1, <2>5 DEF slot
<1> QED BY <1>1, <1>3, <1>4, Z3

----------------------------------------------------------------------------
(* An index is an integer, and so is a distance, less than a round away. *)
LEMMA IndexLemma ==
  ASSUME NEW from \in Index, NEW to \in Index
  PROVE  \E n \in Int :
           /\ n = (to - from) % U16 /\ 0 <= n /\ n < U16
           /\ from \in Int /\ to \in Int
           /\ 0 <= from /\ from < U16 /\ 0 <= to /\ to < U16
           /\ from + n = to \/ from + n = to + U16
           /\ n = 0 <=> from = to
<1>1. from \in Int /\ to \in Int /\ 0 <= from /\ 0 <= to /\ from < U16 /\ to < U16
  BY Sizes DEF Index
<1>2. PICK n \in Int : n = IF to >= from THEN to - from ELSE to - from + U16
  <2>1. to - from \in Int /\ to - from + U16 \in Int
    BY <1>1, Sizes
  <2> QED BY <2>1
<1>3. n = (to - from) % U16
  BY <1>2, DistanceLemma
<1>4. /\ 0 <= n /\ n < U16
      /\ from + n = to \/ from + n = to + U16
      /\ n = 0 <=> from = to
  BY <1>1, <1>2, Sizes
<1> QED BY <1>1, <1>3, <1>4

(* The stretch of a ring between two indices is a sequence. *)
LEMMA BetweenLemma ==
  ASSUME NEW ring \in [0 .. QUEUE_SIZE - 1 -> Buffers], NEW from \in Index, NEW to \in Index
  PROVE  /\ Between(ring, from, to) \in Seq(Buffers)
         /\ Len(Between(ring, from, to)) = (to - from) % U16
         /\ Between(ring, from, to) = << >> <=> from = to
<1>1. PICK n \in Int :
        /\ n = (to - from) % U16 /\ 0 <= n /\ n < U16
        /\ from \in Int /\ to \in Int
        /\ n = 0 <=> from = to
  BY IndexLemma
<1> DEFINE s == [k \in 1 .. n |-> ring[slot(from + k - 1)]]
<1>2. \A k \in 1 .. n : ring[slot(from + k - 1)] \in Buffers
  <2> TAKE k \in 1 .. n
  <2>1. from + k - 1 \in Int
    BY <1>1
  <2> QED BY <2>1, SlotPeriod
<1>3. n \in Nat
  BY <1>1
<1>4. s \in Seq(Buffers) /\ Len(s) = n
  BY <1>2, <1>3
<1>5. s = << >> <=> n = 0
  BY <1>3, <1>4
<1>6. Between(ring, from, to) = s
  BY <1>1 DEF Between
<1> QED BY <1>1, <1>4, <1>5, <1>6

(* Publishing the entry at the end of the stretch appends it. *)
LEMMA BetweenAppend ==
  ASSUME NEW ring \in [0 .. QUEUE_SIZE - 1 -> Buffers], NEW from \in Index, NEW to \in Index,
         Len(Between(ring, from, to)) < BUFFERS
  PROVE  Between(ring, from, wrapping_add(to, 1)) =
           Append(Between(ring, from, to), ring[slot(to)])
<1>1. PICK n \in Int :
        /\ n = (to - from) % U16 /\ 0 <= n /\ n < U16
        /\ from \in Int /\ to \in Int
        /\ 0 <= from /\ from < U16 /\ 0 <= to /\ to < U16
        /\ from + n = to \/ from + n = to + U16
  BY IndexLemma
<1>2. PICK next \in Index : next = wrapping_add(to, 1)
  BY WrapLemma
<1>3. Between(ring, from, to) \in Seq(Buffers) /\ Len(Between(ring, from, to)) = n
  BY <1>1, BetweenLemma
<1>4. n < BUFFERS /\ n + 1 < U16
  BY <1>1, <1>3, Sizes
<1>5. (next - from) % U16 = n + 1
  <2>1. next = IF to = U16 - 1 THEN 0 ELSE to + 1
    BY <1>2, WrapLemma
  <2>2. PICK d \in Int :
          /\ d = (next - from) % U16 /\ 0 <= d /\ d < U16
          /\ from + d = next \/ from + d = next + U16
    BY IndexLemma
  <2>3. d = n + 1
    <3>1. /\ from + d = next \/ from + d = next + U16
          /\ 0 <= d /\ d < U16
      BY <2>2, Zenon
    <3>2. /\ from + n = to \/ from + n = to + U16
          /\ 0 <= n /\ from \in Int /\ to \in Int
      BY <1>1, Zenon
    <3> QED BY <1>4, <2>1, <3>1, <3>2, Sizes, Z3
  <2> QED BY <2>2, <2>3
<1>6. slot(from + n) = slot(to)
  BY <1>1, SlotPeriod
<1>7. Between(ring, from, to) = [k \in 1 .. n |-> ring[slot(from + k - 1)]]
  BY <1>1 DEF Between
<1>8. Between(ring, from, next) = [k \in 1 .. n + 1 |-> ring[slot(from + k - 1)]]
  BY <1>5 DEF Between
<1>9. from + (n + 1) - 1 = from + n
  BY <1>1
<1> QED BY <1>1, <1>2, <1>3, <1>6, <1>7, <1>8, <1>9

(* Reading the entry at its start takes it off. *)
LEMMA BetweenTail ==
  ASSUME NEW ring \in [0 .. QUEUE_SIZE - 1 -> Buffers], NEW from \in Index, NEW to \in Index,
         from # to
  PROVE  /\ Between(ring, wrapping_add(from, 1), to) = Tail(Between(ring, from, to))
         /\ Head(Between(ring, from, to)) = ring[slot(from)]
<1>1. PICK n \in Int :
        /\ n = (to - from) % U16 /\ 0 < n /\ n < U16
        /\ from \in Int /\ to \in Int
        /\ 0 <= from /\ from < U16 /\ 0 <= to /\ to < U16
        /\ from + n = to \/ from + n = to + U16
  BY IndexLemma
<1>2. PICK next \in Index : next = wrapping_add(from, 1)
  BY WrapLemma
<1>3. next = (IF from = U16 - 1 THEN 0 ELSE from + 1) /\ next \in Int
  BY <1>1, <1>2, WrapLemma
<1>4. (to - next) % U16 = n - 1
  <2>1. PICK d \in Int :
          /\ d = (to - next) % U16 /\ 0 <= d /\ d < U16
          /\ next + d = to \/ next + d = to + U16
    BY IndexLemma
  <2>2. d = n - 1
    BY <1>1, <1>3, <2>1, Sizes, Z3
  <2> QED BY <2>1, <2>2
<1>5. \A k \in 1 .. n - 1 : slot(next + k - 1) = slot(from + k)
  <2> TAKE k \in 1 .. n - 1
  <2>1. next + k - 1 \in Int
    BY <1>3
  <2>2. next + k - 1 = from + k \/ from + k = (next + k - 1) + U16
    BY <1>1, <1>3, Sizes
  <2> QED BY <2>1, <2>2, SlotPeriod
<1>6. Between(ring, from, to) \in Seq(Buffers) /\ Len(Between(ring, from, to)) = n
  BY <1>1, BetweenLemma
<1>7. Between(ring, from, to) = [k \in 1 .. n |-> ring[slot(from + k - 1)]]
  BY <1>1 DEF Between
<1>8. Between(ring, next, to) = [k \in 1 .. n - 1 |-> ring[slot(next + k - 1)]]
  BY <1>4 DEF Between
<1>9. from + 1 - 1 = from /\ \A k \in 1 .. n - 1 : from + (k + 1) - 1 = from + k
  BY <1>1
<1>10. Head(Between(ring, from, to)) = ring[slot(from)]
  BY <1>1, <1>6, <1>7, <1>9
<1>11. /\ Between(ring, next, to) \in Seq(Buffers)
       /\ Len(Between(ring, next, to)) = n - 1
  <2>1. /\ Between(ring, next, to) \in Seq(Buffers)
        /\ Len(Between(ring, next, to)) = (to - next) % U16
    BY BetweenLemma
  <2> QED BY <1>4, <2>1, Zenon
<1>12. /\ Tail(Between(ring, from, to)) \in Seq(Buffers)
       /\ Len(Tail(Between(ring, from, to))) = n - 1
       /\ \A k \in 1 .. n - 1 :
            Tail(Between(ring, from, to))[k] = Between(ring, from, to)[k + 1]
  <2>1. Between(ring, from, to) # << >>
    BY BetweenLemma
  <2> QED BY <1>6, <2>1, HeadTailProperties
<1>13. \A k \in 1 .. n - 1 :
         Tail(Between(ring, from, to))[k] = Between(ring, next, to)[k]
  <2> TAKE k \in 1 .. n - 1
  <2>1. k + 1 \in 1 .. n
    BY <1>1
  <2>2. Between(ring, from, to)[k + 1] = ring[slot(from + k)]
    BY <1>7, <1>9, <2>1
  <2>3. Between(ring, next, to)[k] = ring[slot(from + k)]
    BY <1>5, <1>8
  <2> QED BY <1>12, <2>2, <2>3
<1>14. Between(ring, next, to) = Tail(Between(ring, from, to))
  BY <1>11, <1>12, <1>13, SeqEqual
<1> QED BY <1>2, <1>10, <1>14

(* Entering a buffer at its end, while it is not full, disturbs none of it. *)
LEMMA BetweenWrite ==
  ASSUME NEW ring \in [0 .. QUEUE_SIZE - 1 -> Buffers], NEW from \in Index, NEW to \in Index,
         Len(Between(ring, from, to)) < BUFFERS, NEW b \in Buffers
  PROVE  Between([ring EXCEPT ![slot(to)] = b], from, to) = Between(ring, from, to)
<1>1. PICK n \in Int :
        /\ n = (to - from) % U16 /\ 0 <= n /\ n < U16
        /\ from \in Int /\ to \in Int
        /\ from + n = to \/ from + n = to + U16
  BY IndexLemma
<1>2. n < QUEUE_SIZE
  BY <1>1, BetweenLemma, Sizes
<1>3. ASSUME NEW k \in 1 .. n
      PROVE  slot(from + k - 1) # slot(to) /\ slot(from + k - 1) \in 0 .. QUEUE_SIZE - 1
  <2>1. PICK i \in Int, d \in Int : i = from + k - 1 /\ d = n - k + 1
    BY <1>1
  <2>2. 0 < d /\ d < QUEUE_SIZE
    <3>1. k \in Int /\ 1 <= k /\ k <= n
      BY <1>1
    <3> QED BY <1>1, <1>2, <2>1, <3>1, Sizes, Z3
  <2>3. slot(i + d) # slot(i)
    BY <2>2, SlotDistinct
  <2>4. i + d = to \/ i + d = to + U16
    <3>1. /\ from + n = to \/ from + n = to + U16
          /\ from \in Int /\ to \in Int
      BY <1>1, Zenon
    <3> QED BY <2>1, <3>1
  <2>5. slot(to + U16) = slot(to) /\ slot(i) \in 0 .. QUEUE_SIZE - 1
    BY <1>1, SlotPeriod
  <2> QED BY <2>1, <2>3, <2>4, <2>5, Zenon
<1>4. \A k \in 1 .. n :
        [ring EXCEPT ![slot(to)] = b][slot(from + k - 1)] = ring[slot(from + k - 1)]
  BY <1>3
<1> QED BY <1>1, <1>4 DEF Between

----------------------------------------------------------------------------
(* A sequence of different buffers that misses one is shorter than BUFFERS. *)
LEMMA PigeonLemma ==
  ASSUME NEW s \in Seq(Buffers), NEW b \in Buffers,
         \A i, j \in DOMAIN s : s[i] = s[j] => i = j,
         \A i \in DOMAIN s : s[i] # b
  PROVE  Len(s) < BUFFERS
<1>1. SUFFICES ASSUME Len(s) >= BUFFERS PROVE FALSE
  BY Sizes, LenProperties
<1>2. Len(s) \in Nat /\ DOMAIN s = 1 .. Len(s)
  BY LenProperties
<1>3. IsFiniteSet(Buffers) /\ Cardinality(Buffers) = BUFFERS
  <2>1. 0 \in Int /\ BUFFERS - 1 \in Int /\ ~ 0 > BUFFERS - 1
    BY Sizes
  <2>2. Cardinality(0 .. BUFFERS - 1) = (BUFFERS - 1) - 0 + 1 /\ IsFiniteSet(0 .. BUFFERS - 1)
    BY <2>1, FS_Interval
  <2> QED BY <2>2, Sizes DEF Buffers
<1>4. IsFiniteSet(Buffers \ {b}) /\ Cardinality(Buffers \ {b}) = BUFFERS - 1
  BY <1>3, FS_RemoveElement
<1>5. IsFiniteSet(1 .. Len(s)) /\ Cardinality(1 .. Len(s)) = Len(s)
  <2>1. 1 \in Int /\ Len(s) \in Int /\ ~ 1 > Len(s)
    BY <1>1, <1>2, Sizes
  <2>2. Cardinality(1 .. Len(s)) = Len(s) - 1 + 1 /\ IsFiniteSet(1 .. Len(s))
    BY <2>1, FS_Interval
  <2> QED BY <1>2, <2>2
<1>6. s \in [1 .. Len(s) -> Buffers \ {b}]
  BY <1>2
<1>7. Cardinality(Buffers \ {b}) < Cardinality(1 .. Len(s))
  BY <1>1, <1>2, <1>4, <1>5, Sizes
<1>8. \E x, y \in 1 .. Len(s) : x # y /\ s[x] = s[y]
  BY <1>4, <1>5, <1>6, <1>7, FS_PigeonHole
<1> QED BY <1>2, <1>8

----------------------------------------------------------------------------
(* The abstract state of BufferExchange. *)
Mine == free \cup ({pending} \cap Buffers)
Published == Between(avail.ring, seen, avail.idx)
Theirs == held \cup ({done} \cap Buffers)
Returned == Between(used.ring, last_used, used.idx)

Ring == [ring : [0 .. QUEUE_SIZE - 1 -> Buffers], idx : Index]

(* An entry that is not published yet is at the end of the ring, and out of *)
(* the set it was taken from.                                               *)
RingsOK ==
  /\ avail \in Ring /\ used \in Ring /\ last_used \in Index /\ seen \in Index
  /\ free \subseteq Buffers /\ held \subseteq Buffers
  /\ pending # NoBuffer =>
       pending \in Buffers \ free /\ avail.ring[slot(avail.idx)] = pending
  /\ done # NoBuffer =>
       done \in Buffers \ held /\ used.ring[slot(used.idx)] = done

(***************************************************************************)
(* A buffer is in exactly one place, once: with the driver, published by   *)
(* it, with the device, or returned by it.  That is why a ring of at least *)
(* BUFFERS entries is never overwritten.                                   *)
(***************************************************************************)
OnePlace ==
  /\ Distinct(Published) /\ Distinct(Returned)
  /\ Mine \cap Elements(Published) = {} /\ Mine \cap Theirs = {}
  /\ Mine \cap Elements(Returned) = {}
  /\ Elements(Published) \cap Theirs = {} /\ Elements(Published) \cap Elements(Returned) = {}
  /\ Theirs \cap Elements(Returned) = {}
  /\ Mine \cup Elements(Published) \cup Theirs \cup Elements(Returned) = Buffers

IInv == RingsOK /\ OnePlace

LEMMA RingLemma ==
  ASSUME RingsOK
  PROVE  /\ Published \in Seq(Buffers) /\ Returned \in Seq(Buffers)
         /\ Published = << >> <=> seen = avail.idx
         /\ Returned = << >> <=> last_used = used.idx
         /\ slot(avail.idx) \in 0 .. QUEUE_SIZE - 1 /\ slot(used.idx) \in 0 .. QUEUE_SIZE - 1
         /\ slot(seen) \in 0 .. QUEUE_SIZE - 1 /\ slot(last_used) \in 0 .. QUEUE_SIZE - 1
<1>1. /\ avail.ring \in [0 .. QUEUE_SIZE - 1 -> Buffers] /\ avail.idx \in Index
      /\ used.ring \in [0 .. QUEUE_SIZE - 1 -> Buffers] /\ used.idx \in Index
      /\ last_used \in Index /\ seen \in Index
  BY DEF RingsOK, Ring
<1>2. Index \subseteq Int
  BY Sizes DEF Index
<1> QED BY <1>1, <1>2, BetweenLemma, SlotPeriod DEF Published, Returned

LEMMA NoBufferLemma == NoBuffer \notin Buffers /\ Buffers \subseteq Nat
  BY Sizes DEF NoBuffer, Buffers

(* The mapping of the refinement, in the terms above. *)
LEMMA ExchangeActions ==
  /\ \A b : Exchange!Publish(b) <=>
       /\ b \in Mine /\ Mine' = Mine \ {b} /\ Published' = Append(Published, b)
       /\ Theirs' = Theirs /\ Returned' = Returned
  /\ \A b : Exchange!Return(b) <=>
       /\ b \in Theirs /\ Theirs' = Theirs \ {b} /\ Returned' = Append(Returned, b)
       /\ Mine' = Mine /\ Published' = Published
  /\ Exchange!Take <=>
       /\ Published # << >> /\ Theirs' = Theirs \cup {Head(Published)}
       /\ Published' = Tail(Published) /\ Mine' = Mine /\ Returned' = Returned
  /\ Exchange!Reclaim <=>
       /\ Returned # << >> /\ Mine' = Mine \cup {Head(Returned)}
       /\ Returned' = Tail(Returned) /\ Published' = Published /\ Theirs' = Theirs
  /\ UNCHANGED Exchange!vars <=>
       Mine' = Mine /\ Published' = Published /\ Theirs' = Theirs /\ Returned' = Returned
  BY DEF Exchange!Publish, Exchange!Return, Exchange!Take, Exchange!Reclaim, Exchange!vars,
         Mine, Published, Theirs, Returned

----------------------------------------------------------------------------
(* The steps of BufferExchange keep every buffer in one place. *)
LEMMA PublishOnePlace ==
  ASSUME Published \in Seq(Buffers), OnePlace, NEW b \in Buffers, Exchange!Publish(b)
  PROVE  OnePlace'
<1>1. /\ b \in Mine /\ Mine' = Mine \ {b} /\ Published' = Append(Published, b)
      /\ Theirs' = Theirs /\ Returned' = Returned
  BY ExchangeActions
<1>2. b \notin Elements(Published)
  BY <1>1 DEF OnePlace
<1>3. Distinct(Published') /\ Elements(Published') = Elements(Published) \cup {b}
  BY <1>1, <1>2, AppendDistinct DEF OnePlace
<1> QED BY <1>1, <1>3 DEF OnePlace

LEMMA ReturnOnePlace ==
  ASSUME Returned \in Seq(Buffers), OnePlace, NEW b \in Buffers, Exchange!Return(b)
  PROVE  OnePlace'
<1>1. /\ b \in Theirs /\ Theirs' = Theirs \ {b} /\ Returned' = Append(Returned, b)
      /\ Mine' = Mine /\ Published' = Published
  BY ExchangeActions
<1>2. b \notin Elements(Returned)
  BY <1>1 DEF OnePlace
<1>3. Distinct(Returned') /\ Elements(Returned') = Elements(Returned) \cup {b}
  BY <1>1, <1>2, AppendDistinct DEF OnePlace
<1> QED BY <1>1, <1>3 DEF OnePlace

LEMMA TakeOnePlace ==
  ASSUME Published \in Seq(Buffers), OnePlace, Exchange!Take
  PROVE  OnePlace'
<1>1. /\ Published # << >> /\ Theirs' = Theirs \cup {Head(Published)}
      /\ Published' = Tail(Published) /\ Mine' = Mine /\ Returned' = Returned
  BY ExchangeActions
<1>2. /\ Distinct(Published') /\ Head(Published) \in Elements(Published)
      /\ Elements(Published') = Elements(Published) \ {Head(Published)}
  BY <1>1, TailDistinct DEF OnePlace
<1> QED BY <1>1, <1>2 DEF OnePlace

LEMMA ReclaimOnePlace ==
  ASSUME Returned \in Seq(Buffers), OnePlace, Exchange!Reclaim
  PROVE  OnePlace'
<1>1. /\ Returned # << >> /\ Mine' = Mine \cup {Head(Returned)}
      /\ Returned' = Tail(Returned) /\ Published' = Published /\ Theirs' = Theirs
  BY ExchangeActions
<1>2. /\ Distinct(Returned') /\ Head(Returned) \in Elements(Returned)
      /\ Elements(Returned') = Elements(Returned) \ {Head(Returned)}
  BY <1>1, TailDistinct DEF OnePlace
<1> QED BY <1>1, <1>2 DEF OnePlace

LEMMA StutterOnePlace ==
  ASSUME OnePlace, UNCHANGED Exchange!vars
  PROVE  OnePlace'
<1>1. Mine' = Mine /\ Published' = Published /\ Theirs' = Theirs /\ Returned' = Returned
  BY ExchangeActions
<1> QED BY <1>1 DEF OnePlace

----------------------------------------------------------------------------
(* Each step of the driver or the device is a step of the exchange. *)
LEMMA PutEntryStep ==
  ASSUME IInv, NEW b \in Buffers, put_entry(b)
  PROVE  RingsOK' /\ UNCHANGED Exchange!vars
<1>1. /\ avail.ring \in [0 .. QUEUE_SIZE - 1 -> Buffers] /\ avail.idx \in Index
      /\ seen \in Index /\ slot(avail.idx) \in 0 .. QUEUE_SIZE - 1
  BY RingLemma DEF IInv, RingsOK, Ring
<1>2. /\ avail'.ring = [avail.ring EXCEPT ![slot(avail.idx)] = b] /\ avail'.idx = avail.idx
      /\ avail' \in Ring
  BY <1>1 DEF put_entry, IInv, RingsOK, Ring
<1>3. Mine' = Mine /\ Theirs' = Theirs /\ Returned' = Returned /\ b \in Mine
  BY NoBufferLemma DEF put_entry, Mine, Theirs, Returned, IInv, RingsOK
<1>4. Len(Published) < BUFFERS
  <2>1. \A i \in DOMAIN Published : Published[i] # b
    BY <1>3 DEF IInv, OnePlace, Elements
  <2>2. \A i, j \in DOMAIN Published : Published[i] = Published[j] => i = j
    BY DEF IInv, OnePlace, Distinct
  <2> QED BY <2>1, <2>2, RingLemma, PigeonLemma DEF IInv
<1>5. Published' = Published
  <2>1. Published' = Between(avail'.ring, seen, avail'.idx)
    BY DEF Published, put_entry
  <2> QED BY <1>1, <1>2, <1>4, <2>1, BetweenWrite DEF Published
<1>6. RingsOK'
  <2>1. avail'.ring[slot(avail'.idx)] = b
    BY <1>1, <1>2
  <2> QED BY <1>2, <2>1, NoBufferLemma DEF IInv, RingsOK, put_entry
<1> QED BY <1>3, <1>5, <1>6, ExchangeActions

LEMMA DeviceUsesStep ==
  ASSUME IInv, NEW b \in Buffers, DeviceUses(b)
  PROVE  RingsOK' /\ UNCHANGED Exchange!vars
<1>1. /\ used.ring \in [0 .. QUEUE_SIZE - 1 -> Buffers] /\ used.idx \in Index
      /\ last_used \in Index /\ slot(used.idx) \in 0 .. QUEUE_SIZE - 1
  BY RingLemma DEF IInv, RingsOK, Ring
<1>2. /\ used'.ring = [used.ring EXCEPT ![slot(used.idx)] = b] /\ used'.idx = used.idx
      /\ used' \in Ring
  BY <1>1 DEF DeviceUses, IInv, RingsOK, Ring
<1>3. Mine' = Mine /\ Theirs' = Theirs /\ Published' = Published /\ b \in Theirs
  BY NoBufferLemma DEF DeviceUses, Mine, Theirs, Published, IInv, RingsOK
<1>4. Len(Returned) < BUFFERS
  <2>1. \A i \in DOMAIN Returned : Returned[i] # b
    BY <1>3 DEF IInv, OnePlace, Elements
  <2>2. \A i, j \in DOMAIN Returned : Returned[i] = Returned[j] => i = j
    BY DEF IInv, OnePlace, Distinct
  <2> QED BY <2>1, <2>2, RingLemma, PigeonLemma DEF IInv
<1>5. Returned' = Returned
  <2>1. Returned' = Between(used'.ring, last_used, used'.idx)
    BY DEF Returned, DeviceUses
  <2> QED BY <1>1, <1>2, <1>4, <2>1, BetweenWrite DEF Returned
<1>6. RingsOK'
  <2>1. used'.ring[slot(used'.idx)] = b
    BY <1>1, <1>2
  <2> QED BY <1>2, <2>1, NoBufferLemma DEF IInv, RingsOK, DeviceUses
<1> QED BY <1>3, <1>5, <1>6, ExchangeActions

LEMMA PublishStep ==
  ASSUME IInv, publish
  PROVE  RingsOK' /\ pending \in Buffers /\ Exchange!Publish(pending)
<1>1. /\ avail.ring \in [0 .. QUEUE_SIZE - 1 -> Buffers] /\ avail.idx \in Index
      /\ seen \in Index /\ pending \in Buffers /\ pending \notin free
      /\ avail.ring[slot(avail.idx)] = pending
  BY DEF IInv, RingsOK, Ring, publish
<1>2. /\ avail'.ring = avail.ring /\ avail'.idx = wrapping_add(avail.idx, 1)
      /\ avail' \in Ring
  BY <1>1, WrapLemma DEF publish, IInv, RingsOK, Ring
<1>3. /\ pending \in Mine /\ Mine' = Mine \ {pending}
      /\ Theirs' = Theirs /\ Returned' = Returned
  BY <1>1, NoBufferLemma DEF publish, Mine, Theirs, Returned
<1>4. Len(Published) < BUFFERS
  <2>1. \A i \in DOMAIN Published : Published[i] # pending
    BY <1>3 DEF IInv, OnePlace, Elements
  <2>2. \A i, j \in DOMAIN Published : Published[i] = Published[j] => i = j
    BY DEF IInv, OnePlace, Distinct
  <2> QED BY <1>1, <2>1, <2>2, RingLemma, PigeonLemma DEF IInv
<1>5. Published' = Append(Published, pending)
  <2>1. Published' = Between(avail'.ring, seen, avail'.idx)
    BY DEF Published, publish
  <2> QED BY <1>1, <1>2, <1>4, <2>1, BetweenAppend DEF Published
<1>6. RingsOK'
  BY <1>2, NoBufferLemma DEF IInv, RingsOK, publish
<1> QED BY <1>1, <1>3, <1>5, <1>6, ExchangeActions

LEMMA DevicePublishesStep ==
  ASSUME IInv, DevicePublishes
  PROVE  RingsOK' /\ done \in Buffers /\ Exchange!Return(done)
<1>1. /\ used.ring \in [0 .. QUEUE_SIZE - 1 -> Buffers] /\ used.idx \in Index
      /\ last_used \in Index /\ done \in Buffers /\ done \notin held
      /\ used.ring[slot(used.idx)] = done
  BY DEF IInv, RingsOK, Ring, DevicePublishes
<1>2. /\ used'.ring = used.ring /\ used'.idx = wrapping_add(used.idx, 1)
      /\ used' \in Ring
  BY <1>1, WrapLemma DEF DevicePublishes, IInv, RingsOK, Ring
<1>3. /\ done \in Theirs /\ Theirs' = Theirs \ {done}
      /\ Mine' = Mine /\ Published' = Published
  BY <1>1, NoBufferLemma DEF DevicePublishes, Mine, Theirs, Published
<1>4. Len(Returned) < BUFFERS
  <2>1. \A i \in DOMAIN Returned : Returned[i] # done
    BY <1>3 DEF IInv, OnePlace, Elements
  <2>2. \A i, j \in DOMAIN Returned : Returned[i] = Returned[j] => i = j
    BY DEF IInv, OnePlace, Distinct
  <2> QED BY <1>1, <2>1, <2>2, RingLemma, PigeonLemma DEF IInv
<1>5. Returned' = Append(Returned, done)
  <2>1. Returned' = Between(used'.ring, last_used, used'.idx)
    BY DEF Returned, DevicePublishes
  <2> QED BY <1>1, <1>2, <1>4, <2>1, BetweenAppend DEF Returned
<1>6. RingsOK'
  BY <1>2, NoBufferLemma DEF IInv, RingsOK, DevicePublishes
<1> QED BY <1>1, <1>3, <1>5, <1>6, ExchangeActions

LEMMA TakesStep ==
  ASSUME IInv, DeviceTakes
  PROVE  RingsOK' /\ Exchange!Take
<1>1. /\ avail.ring \in [0 .. QUEUE_SIZE - 1 -> Buffers] /\ avail.idx \in Index
      /\ seen \in Index /\ seen # avail.idx /\ seen' = wrapping_add(seen, 1)
      /\ seen' \in Index
  BY WrapLemma DEF IInv, RingsOK, Ring, DeviceTakes
<1>2. Published # << >> /\ Head(Published) = avail.ring[slot(seen)]
  BY <1>1, RingLemma, BetweenTail DEF IInv, Published
<1>3. Published' = Tail(Published)
  BY <1>1, BetweenTail DEF Published, DeviceTakes
<1>4. Mine' = Mine /\ Returned' = Returned /\ Theirs' = Theirs \cup {Head(Published)}
  BY <1>2 DEF DeviceTakes, Mine, Theirs, Returned
<1>5. Head(Published) \in Buffers /\ Head(Published) \notin Theirs
  BY <1>2, RingLemma, TailDistinct, HeadTailProperties DEF IInv, OnePlace
<1>6. RingsOK'
  BY <1>1, <1>2, <1>5 DEF IInv, RingsOK, DeviceTakes, Theirs
<1> QED BY <1>2, <1>3, <1>4, <1>6, ExchangeActions

LEMMA ReclaimStep ==
  ASSUME IInv, reclaim
  PROVE  RingsOK' /\ Exchange!Reclaim
<1>1. /\ used.ring \in [0 .. QUEUE_SIZE - 1 -> Buffers] /\ used.idx \in Index
      /\ last_used \in Index /\ last_used # used.idx
      /\ last_used' = wrapping_add(last_used, 1) /\ last_used' \in Index
  BY WrapLemma DEF IInv, RingsOK, Ring, reclaim
<1>2. Returned # << >> /\ Head(Returned) = used.ring[slot(last_used)]
  BY <1>1, RingLemma, BetweenTail DEF IInv, Returned
<1>3. Returned' = Tail(Returned)
  BY <1>1, BetweenTail DEF Returned, reclaim
<1>4. Theirs' = Theirs /\ Published' = Published /\ Mine' = Mine \cup {Head(Returned)}
  BY <1>2 DEF reclaim, Mine, Theirs, Published
<1>5. Head(Returned) \in Buffers /\ Head(Returned) \notin Mine
  BY <1>2, RingLemma, TailDistinct, HeadTailProperties DEF IInv, OnePlace
<1>6. RingsOK'
  BY <1>1, <1>2, <1>5 DEF IInv, RingsOK, reclaim, Mine
<1> QED BY <1>2, <1>3, <1>4, <1>6, ExchangeActions

----------------------------------------------------------------------------
(* A TX queue starts with an empty avail ring, an RX queue with all its     *)
(* buffers in it.                                                           *)
LEMMA InitLemma ==
  ASSUME Init
  PROVE  IInv /\ Exchange!Init
<1>1. 0 \in Index /\ BUFFERS \in Index /\ 0 \in Buffers
  BY Sizes DEF Index, Buffers
<1>2. ring_zero \in Ring /\ ring_zero.idx = 0
  BY <1>1 DEF ring_zero, Ring
<1>3. /\ populate_rx_queue \in Ring /\ populate_rx_queue.idx = BUFFERS
      /\ \A i \in Buffers : populate_rx_queue.ring[i] = i
  BY <1>1, Sizes DEF populate_rx_queue, Ring, Buffers
<1>4. RingsOK
  BY <1>1, <1>2, <1>3 DEF Init, RingsOK
<1>5. Returned = << >> /\ Theirs = {} /\ Mine = free
  <2>1. last_used = used.idx
    BY <1>2 DEF Init
  <2>2. Theirs = {} /\ Mine = free
    BY NoBufferLemma DEF Init, Theirs, Mine
  <2> QED BY <1>4, <2>1, <2>2, RingLemma
<1>6. ASSUME free = Buffers, avail = ring_zero
      PROVE  Distinct(Published) /\ Elements(Published) = Buffers \ free
  <2>1. Published = << >>
    BY <1>2, <1>4, <1>6, RingLemma DEF Init
  <2>2. DOMAIN Published = {}
    BY <2>1, EmptySeq
  <2> QED BY <1>6, <2>2 DEF Distinct, Elements
<1>7. ASSUME free = {}, avail = populate_rx_queue
      PROVE  Distinct(Published) /\ Elements(Published) = Buffers \ free
  <2>1. (BUFFERS - 0) % U16 = BUFFERS
    BY Sizes, ModSmall, Z3
  <2>2. Published = [k \in 1 .. BUFFERS |-> populate_rx_queue.ring[slot(0 + k - 1)]]
    BY <1>3, <1>7, <2>1 DEF Published, Between, Init
  <2>3. ASSUME NEW k \in 1 .. BUFFERS
        PROVE  k - 1 \in Buffers /\ populate_rx_queue.ring[slot(0 + k - 1)] = k - 1
    <3>1. PICK i \in Int : i = k - 1 /\ 0 + k - 1 = i /\ 0 <= i /\ i < QUEUE_SIZE
      BY Sizes
    <3>2. slot(i) = i
      BY <3>1, Sizes, ModSmall DEF slot
    <3>3. i \in Buffers
      BY <3>1, Sizes DEF Buffers
    <3> QED BY <1>3, <3>1, <3>2, <3>3
  <2>4. DOMAIN Published = 1 .. BUFFERS /\ \A k \in 1 .. BUFFERS : Published[k] = k - 1
    BY <2>2, <2>3
  <2>5. Distinct(Published)
    BY <2>4, Sizes DEF Distinct
  <2>6. Elements(Published) = Buffers
    <3>1. \A b \in Buffers : b + 1 \in 1 .. BUFFERS /\ (b + 1) - 1 = b
      BY Sizes DEF Buffers
    <3> QED BY <2>3, <2>4, <3>1 DEF Elements
  <2> QED BY <1>7, <2>5, <2>6
<1>8. Distinct(Published) /\ Elements(Published) = Buffers \ free
  BY <1>6, <1>7 DEF Init
<1>9. Distinct(Returned) /\ Elements(Returned) = {}
  BY <1>5, EmptySeq DEF Distinct, Elements
<1>10. OnePlace
  BY <1>4, <1>5, <1>8, <1>9 DEF OnePlace, RingsOK
<1>11. Exchange!Init
  <2>1. /\ Mine \subseteq Buffers /\ Theirs = {} /\ Returned = << >>
        /\ Published \in Seq(Buffers)
        /\ Elements(Published) = Buffers \ Mine
        /\ Distinct(Published)
    BY <1>4, <1>5, <1>8, RingLemma DEF RingsOK
  <2> QED BY <2>1 DEF Exchange!Init, Mine, Theirs, Returned, Published, Elements, Distinct
<1> QED BY <1>4, <1>10, <1>11 DEF IInv

LEMMA NextLemma ==
  ASSUME IInv, [Next]_vars
  PROVE  IInv' /\ [Exchange!Next]_(Exchange!vars)
<1>1. RingsOK /\ OnePlace /\ Published \in Seq(Buffers) /\ Returned \in Seq(Buffers)
  BY RingLemma DEF IInv
<1>2. ASSUME NEW b \in Buffers, put_entry(b)
      PROVE  IInv' /\ UNCHANGED Exchange!vars
  BY <1>1, <1>2, PutEntryStep, StutterOnePlace DEF IInv
<1>3. ASSUME NEW b \in Buffers, DeviceUses(b)
      PROVE  IInv' /\ UNCHANGED Exchange!vars
  BY <1>1, <1>3, DeviceUsesStep, StutterOnePlace DEF IInv
<1>4. ASSUME publish
      PROVE  IInv' /\ Exchange!Next
  BY <1>1, <1>4, PublishStep, PublishOnePlace DEF IInv, Exchange!Next
<1>5. ASSUME reclaim
      PROVE  IInv' /\ Exchange!Next
  BY <1>1, <1>5, ReclaimStep, ReclaimOnePlace DEF IInv, Exchange!Next
<1>6. ASSUME DeviceTakes
      PROVE  IInv' /\ Exchange!Next
  BY <1>1, <1>6, TakesStep, TakeOnePlace DEF IInv, Exchange!Next
<1>7. ASSUME DevicePublishes
      PROVE  IInv' /\ Exchange!Next
  BY <1>1, <1>7, DevicePublishesStep, ReturnOnePlace DEF IInv, Exchange!Next
<1>8. ASSUME UNCHANGED vars
      PROVE  IInv' /\ UNCHANGED Exchange!vars
  <2>1. RingsOK'
    BY <1>1, <1>8 DEF RingsOK, vars
  <2>2. UNCHANGED Exchange!vars
    BY <1>8, ExchangeActions DEF vars, Mine, Published, Theirs, Returned
  <2> QED BY <1>1, <2>1, <2>2, StutterOnePlace DEF IInv
<1> QED BY <1>2, <1>3, <1>4, <1>5, <1>6, <1>7, <1>8 DEF Next

(***************************************************************************)
(* However the device orders its work and however often the 16-bit indices *)
(* wrap, the driver's and the device's use of the two rings is an exchange *)
(* of buffers through two queues: put_entry and the device's entry are     *)
(* invisible, the index updates of transmit(), receive() and reclaim_tx()  *)
(* are the exchange's steps.  QUEUE_SIZE need only divide 2^16 and be at   *)
(* least the number of buffers.                                            *)
(***************************************************************************)
THEOREM VirtqueueIsExchange == Spec => ImplementsExchange
<1>1. Init => IInv /\ Exchange!Init
  BY InitLemma
<1>2. IInv /\ [Next]_vars => IInv' /\ [Exchange!Next]_(Exchange!vars)
  BY NextLemma
<1> QED BY <1>1, <1>2, PTL DEF Spec, ImplementsExchange, Exchange!Spec

(***************************************************************************)
(* No buffer is ever in two places or in none: the driver never writes to  *)
(* a buffer the device may access, and no buffer is lost.                  *)
(***************************************************************************)
THEOREM BufferInOnePlace == Spec => []OnePlace
<1>1. Init => IInv
  BY InitLemma
<1>2. IInv /\ [Next]_vars => IInv'
  BY NextLemma
<1>3. IInv => OnePlace
  BY DEF IInv
<1> QED BY <1>1, <1>2, <1>3, PTL DEF Spec

============================================================================
